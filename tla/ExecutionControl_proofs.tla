------------------------ MODULE ExecutionControl_proofs ------------------------
(***************************************************************************)
(* Theorems about ExecutionControl, for any number of tasks, requests and  *)
(* restarts, whatever the clients send: type correctness (TypeCorrect),    *)
(* that stop finds a lone task (StopReaches), that a verdict comes with    *)
(* its report where the page gates the reruns (VerdictReported), and that  *)
(* without a restart no execution is left unfinished (NeverOrphaned).      *)
(***************************************************************************)
EXTENDS ExecutionControl, TLAPS

-----------------------------------------------------------------------------
(* Type correctness.                                                       *)

LEMMA InitTypeOK == Init => TypeOK
  <1> SUFFICES ASSUME Init PROVE TypeOK
    OBVIOUS
  <1>1. row \in [status : Statuses, report : BOOLEAN]
    BY DEF Init, Statuses
  <1>2. /\ pc \in [Tasks -> PCs] /\ loaded \in [Tasks -> Statuses]
        /\ killed \in [Tasks -> BOOLEAN]
    BY DEF Init, PCs, Statuses
  <1>3. req \in [Requests -> RequestType]
    BY DEF Init, Statuses, NewRequest, RequestType, Phases
  <1>4. crashes \in 0..MaxCrashes /\ clients \in AllManners
    BY MaxCrashesAssumption, MannersAssumption DEF Init
  <1> QED
    BY <1>1, <1>2, <1>3, <1>4 DEF Init, TypeOK

\* What an UPDATE leaves in the status column is a status.
LEMMA FlushedType ==
    ASSUME TypeOK, NEW inSession, NEW new \in Statuses
    PROVE  Flushed(inSession, new) \in Statuses
  BY DEF TypeOK, Flushed

\* A request that is answered stays a request, and nothing else is touched.
LEMMA ClosedType ==
    ASSUME NEW q \in RequestType
    PROVE  /\ Closed(q) \in RequestType
           /\ Closed(q).phase = "done" /\ Closed(q).kind = q.kind
  BY DEF Closed, RequestType, Phases, Statuses

LEMMA Answering ==
    ASSUME TypeOK, NEW r \in Requests, Answer(r)
    PROVE  /\ req' \in [Requests -> RequestType]
           /\ req'[r].phase = "done" /\ req'[r].kind = req[r].kind
           /\ \A q \in Requests \ {r} : req'[q] = req[q]
  BY ClosedType DEF Answer, TypeOK

\* A request that finds the execution has loaded its status; another one is
\* answered.
LEMMA Loading ==
    ASSUME TypeOK, NEW r \in Requests, LoadExecution(r)
    PROVE  /\ req' \in [Requests -> RequestType]
           /\ \A q \in Requests \ {r} : req'[q] = req[q]
           /\ \/ req'[r].phase = "done"
              \/ /\ req'[r].phase = "loaded" /\ Exists
                 /\ req'[r].seen = row.status /\ Offered(req'[r].kind)
  <1> DEFINE q(kind) == [kind |-> kind, phase |-> "loaded",
                         seen |-> row.status, report |-> FALSE]
  <1>1. PICK kind \in AllKinds :
          /\ Offered(kind)
          /\ req' = [req EXCEPT ![r] = IF Exists THEN q(kind) ELSE Closed(q(kind))]
    BY DEF LoadExecution
  <1>2. q(kind) \in RequestType
    BY DEF RequestType, Phases, TypeOK
  <1>3. q(kind).phase = "loaded" /\ q(kind).seen = row.status /\ q(kind).kind = kind
    OBVIOUS
  <1> HIDE DEF q
  <1> QED
    BY <1>1, <1>2, <1>3, ClosedType DEF TypeOK

LEMMA RequestTypeOK ==
    ASSUME TypeOK, NEW r \in Requests, Request(r)
    PROVE  TypeOK'
  <1>1. CASE CreateExecution(r)
    <2>1. req' \in [Requests -> RequestType]
      BY <1>1 DEF CreateExecution, TypeOK, RequestType, Phases, NewRequest, Statuses
    <2> QED
      BY <1>1, <2>1 DEF CreateExecution, TypeOK, Statuses, Active,
         taskVars, registry
  <1>2. CASE LoadExecution(r)
    <2>1. req' \in [Requests -> RequestType]
      BY <1>2, Loading DEF LoadExecution, TypeOK, RequestType, Phases
    <2> QED
      BY <1>2, <2>1 DEF LoadExecution, TypeOK, taskVars, registry
  <1>3. CASE ScheduleRun(r)
    <2>1. PICK t \in Tasks : /\ GoTo(t, "scheduled") /\ taskReg' = t
                             /\ overlapped' \subseteq Tasks
      BY <1>3 DEF ScheduleRun, TypeOK
    <2>2. pc' \in [Tasks -> PCs]
      BY <2>1 DEF GoTo, TypeOK, PCs, Alive
    <2>3. req' \in [Requests -> RequestType]
      BY <1>3, Answering DEF ScheduleRun, TypeOK, RequestType, Phases
    <2> QED
      BY <1>3, <2>1, <2>2, <2>3 DEF ScheduleRun, TypeOK
  <1>4. CASE StopSignal(r)
    <2>1. req' \in [Requests -> RequestType]
      BY <1>4, Answering DEF StopSignal, TypeOK, RequestType, Phases
    <2>2. killed' \in [Tasks -> BOOLEAN]
      BY <1>4 DEF StopSignal, TypeOK, Done
    <2>3. /\ cancelled' \in BOOLEAN /\ taskReg' \in Tasks \cup {NoTask}
          /\ contextReg' \in Tasks \cup {NoTask} /\ open' \subseteq Tasks
      BY <1>4 DEF StopSignal, TypeOK, registry
    <2> QED
      BY <1>4, <2>1, <2>2, <2>3 DEF StopSignal, TypeOK
  <1>5. CASE StopFinalize(r)
    <2>1. req' \in [Requests -> RequestType]
      BY <1>5, Answering DEF StopFinalize, TypeOK, RequestType, Phases
    <2>2. Flushed(req[r].seen, "cancelled") \in Statuses
      BY FlushedType DEF Statuses, Finished
    <2>3. row' \in [status : Statuses, report : BOOLEAN]
      BY <1>5, <2>2 DEF StopFinalize, TypeOK
    <2> QED
      BY <1>5, <2>1, <2>3 DEF StopFinalize, TypeOK, taskVars, registry
  <1>6. CASE RerunReset(r)
    <2>1. req' \in [Requests -> RequestType]
      BY <1>6, Answering DEF RerunReset, TypeOK, RequestType, Phases
    <2>2. /\ cancelled' \in BOOLEAN /\ taskReg' \in Tasks \cup {NoTask}
          /\ contextReg' \in Tasks \cup {NoTask} /\ open' \subseteq Tasks
      BY <1>6 DEF RerunReset, ClearCancel, TypeOK, registry
    <2> QED
      BY <1>6, <2>1, <2>2 DEF RerunReset, TypeOK, taskVars
  <1>7. CASE RerunCommit(r)
    <2>1. req' \in [Requests -> RequestType]
      BY <1>7, Answering DEF RerunCommit, TypeOK, RequestType, Phases
    <2>2. ASSUME NEW s \in Statuses, NEW b \in BOOLEAN,
                 row' = [status |-> s, report |-> b]
          PROVE  row' \in [status : Statuses, report : BOOLEAN]
      BY <2>2
    <2>3. Flushed(req[r].seen, "queued") \in Statuses
      BY FlushedType DEF Statuses, Active
    <2>4. (row.report /\ ~req[r].report) \in BOOLEAN
      OBVIOUS
    <2>5. row' \in [status : Statuses, report : BOOLEAN]
      <3>1. CASE Exists
        BY <1>7, <3>1, <2>2, <2>3, <2>4 DEF RerunCommit
      <3>2. CASE ~Exists
        BY <1>7, <3>2 DEF RerunCommit, TypeOK
      <3> QED
        BY <3>1, <3>2
    <2> QED
      BY <1>7, <2>1, <2>5 DEF RerunCommit, TypeOK, taskVars, registry
  <1>8. CASE DeleteRows(r)
    <2>1. req' \in [Requests -> RequestType]
      BY <1>8, Answering DEF DeleteRows, TypeOK, RequestType, Phases
    <2>2. row' \in [status : Statuses, report : BOOLEAN]
      BY <1>8 DEF DeleteRows, TypeOK, Statuses
    <2> QED
      BY <1>8, <2>1, <2>2 DEF DeleteRows, TypeOK, taskVars, registry
  <1> QED
    BY <1>1, <1>2, <1>3, <1>4, <1>5, <1>6, <1>7, <1>8 DEF Request

LEMMA TaskTypeOK ==
    ASSUME TypeOK, NEW t \in Tasks, Run(t) \/ Kill(t) \/ LeaveTask(t)
    PROVE  TypeOK'
  <1> USE DEF TypeOK, GoTo, PCs, Alive, BeforeTry, InBrowser, InTry, Closing, Crashed,
              taskVars, registry, requestVars
  <1>1. CASE BeginRun(t)
    BY <1>1, Answering DEF BeginRun, ClearCancel
  <1>2. CASE LoadRun(t)
    BY <1>2 DEF LoadRun
  <1>3. CASE PrepareRun(t)
    BY <1>3 DEF PrepareRun
  <1>4. CASE MarkRunning(t)
    BY <1>4, FlushedType DEF MarkRunning, Statuses, Finished, Active
  <1>5. CASE EnterTry(t)
    BY <1>5 DEF EnterTry
  <1>6. CASE CheckBeforePlan(t)
    BY <1>6 DEF CheckBeforePlan
  <1>7. CASE CommitPlan(t)
    BY <1>7, FlushedType DEF CommitPlan, Statuses, Finished, Active
  <1>8. CASE OpenContext(t)
    BY <1>8 DEF OpenContext
  <1>9. CASE CheckInLoop(t)
    BY <1>9 DEF CheckInLoop, ExitContext
  <1>10. CASE EndSteps(t)
    BY <1>10 DEF EndSteps
  <1>11. CASE Validate(t)
    BY <1>11 DEF Validate, ExitContext
  <1>12. CASE FailInBrowser(t)
    BY <1>12 DEF FailInBrowser, ExitContext
  <1>13. CASE ContextClosed(t)
    BY <1>13 DEF ContextClosed
  <1>14. CASE FailRun(t)
    BY <1>14 DEF FailRun
  <1>15. CASE FailLaunch(t)
    BY <1>15 DEF FailLaunch
  <1>16. CASE BreakSession(t)
    BY <1>16 DEF BreakSession, ClearCancel
  <1>17. CASE CommitReport(t)
    BY <1>17, FlushedType DEF CommitReport, Statuses, Finished, Verdicts
  <1>18. CASE FinishTail(t)
    BY <1>18 DEF FinishTail, ClearCancel
  <1>19. CASE CommitCancelled(t)
    BY <1>19, FlushedType DEF CommitCancelled, Statuses, Finished, Active
  <1>20. CASE CommitError(t)
    BY <1>20, FlushedType DEF CommitError, Statuses, Finished, Active
  <1>21. CASE FailEarlyStop(t)
    BY <1>21 DEF FailEarlyStop
  <1>22. CASE HandleCrash(t)
    BY <1>22 DEF HandleCrash
  <1>23. CASE MarkError(t)
    BY <1>23, FlushedType DEF MarkError, Statuses, Finished, Active
  <1>24. CASE Unwind(t)
    BY <1>24 DEF Unwind, ClearCancel
  <1>25. CASE KillUnstarted(t)
    BY <1>25 DEF KillUnstarted, Deliver
  <1>26. CASE KillOutsideTry(t)
    BY <1>26 DEF KillOutsideTry, Deliver
  <1>27. CASE KillInTry(t)
    BY <1>27 DEF KillInTry, ClearCancel, Deliver
  <1>28. CASE KillLaunching(t)
    BY <1>28 DEF KillLaunching, Deliver
  <1>29. CASE KillInBrowser(t)
    BY <1>29 DEF KillInBrowser, ExitContext, Deliver
  <1>30. CASE LeaveTask(t)
    BY <1>30 DEF LeaveTask, Statuses
  <1> QED
    BY <1>1, <1>2, <1>3, <1>4, <1>5, <1>6, <1>7, <1>8, <1>9, <1>10, <1>11, <1>12, <1>13, <1>14, <1>15,
       <1>16, <1>17, <1>18, <1>19, <1>20, <1>21, <1>22, <1>23, <1>24, <1>25, <1>26, <1>27, <1>28,
       <1>29, <1>30 DEF Run, Kill

LEMMA RestartTypeOK == TypeOK /\ Restart => TypeOK'
  <1> SUFFICES ASSUME TypeOK, Restart PROVE TypeOK'
    OBVIOUS
  <1>1. req' \in [Requests -> RequestType]
    BY ClosedType DEF Restart, TypeOK, Phases, RequestType
  <1>2. /\ pc' \in [Tasks -> PCs] /\ loaded' \in [Tasks -> Statuses]
        /\ killed' \in [Tasks -> BOOLEAN]
    BY DEF Restart, PCs, Statuses
  <1>3. crashes' \in 0..MaxCrashes
    BY MaxCrashesAssumption DEF Restart, TypeOK
  <1> QED
    BY <1>1, <1>2, <1>3 DEF Restart, TypeOK

LEMMA NextTypeOK == TypeOK /\ [Next]_vars => TypeOK'
  <1>1. CASE UNCHANGED vars
    BY <1>1 DEF vars, taskVars, registry, requestVars, TypeOK
  <1> QED
    BY <1>1, RequestTypeOK, TaskTypeOK, RestartTypeOK DEF Next

\* Every variable keeps its type: no request or task writes a status, a place
\* or a registry entry that does not exist.
THEOREM TypeCorrect == Spec => []TypeOK
  BY InitTypeOK, NextTypeOK, PTL DEF Spec

-----------------------------------------------------------------------------
(* What a step of a task can do.                                              *)

Acts(t) == Run(t) \/ Kill(t) \/ LeaveTask(t)

\* A task acts while it is alive, on its own state, and may clear the stop
\* flag but never set it.
LEMMA TaskFrame ==
    ASSUME TypeOK, NEW t \in Tasks, Acts(t)
    PROVE  /\ pc[t] \in Alive
           /\ pc'[t] # "none"
           /\ \A u \in Tasks \ {t} :
                 pc'[u] = pc[u] /\ loaded'[u] = loaded[u] /\ killed'[u] = killed[u]
           /\ cancelled' => cancelled
           /\ pc'[t] \notin Alive => ~killed'[t]
           /\ requestVars' = requestVars
  <1> USE DEF TypeOK, At, GoTo, Alive, BeforeTry, InBrowser, InTry, Closing, Crashed,
              taskVars, registry, requestVars
  <1>1. CASE BeginRun(t)
    BY <1>1 DEF BeginRun, ClearCancel
  <1>2. CASE LoadRun(t)
    BY <1>2 DEF LoadRun
  <1>3. CASE PrepareRun(t)
    BY <1>3 DEF PrepareRun
  <1>4. CASE MarkRunning(t)
    BY <1>4 DEF MarkRunning
  <1>5. CASE EnterTry(t)
    BY <1>5 DEF EnterTry
  <1>6. CASE CheckBeforePlan(t)
    BY <1>6 DEF CheckBeforePlan
  <1>7. CASE CommitPlan(t)
    BY <1>7 DEF CommitPlan
  <1>8. CASE OpenContext(t)
    BY <1>8 DEF OpenContext
  <1>9. CASE CheckInLoop(t)
    BY <1>9 DEF CheckInLoop, ExitContext
  <1>10. CASE EndSteps(t)
    BY <1>10 DEF EndSteps
  <1>11. CASE Validate(t)
    BY <1>11 DEF Validate, ExitContext
  <1>12. CASE FailInBrowser(t)
    BY <1>12 DEF FailInBrowser, ExitContext
  <1>13. CASE ContextClosed(t)
    BY <1>13 DEF ContextClosed
  <1>14. CASE FailRun(t)
    BY <1>14 DEF FailRun
  <1>15. CASE FailLaunch(t)
    BY <1>15 DEF FailLaunch
  <1>16. CASE BreakSession(t)
    BY <1>16, Answering DEF BreakSession, ClearCancel
  <1>17. CASE CommitReport(t)
    BY <1>17 DEF CommitReport
  <1>18. CASE FinishTail(t)
    BY <1>18 DEF FinishTail, ClearCancel
  <1>19. CASE CommitCancelled(t)
    BY <1>19 DEF CommitCancelled
  <1>20. CASE CommitError(t)
    BY <1>20 DEF CommitError
  <1>21. CASE FailEarlyStop(t)
    BY <1>21 DEF FailEarlyStop
  <1>22. CASE HandleCrash(t)
    BY <1>22 DEF HandleCrash
  <1>23. CASE MarkError(t)
    BY <1>23 DEF MarkError
  <1>24. CASE Unwind(t)
    BY <1>24 DEF Unwind, ClearCancel
  <1>25. CASE KillUnstarted(t)
    BY <1>25 DEF KillUnstarted, Deliver
  <1>26. CASE KillOutsideTry(t)
    BY <1>26 DEF KillOutsideTry, Deliver
  <1>27. CASE KillInTry(t)
    BY <1>27 DEF KillInTry, ClearCancel, Deliver
  <1>28. CASE KillLaunching(t)
    BY <1>28 DEF KillLaunching, Deliver
  <1>29. CASE KillInBrowser(t)
    BY <1>29 DEF KillInBrowser, ExitContext, Deliver
  <1>30. CASE LeaveTask(t)
    BY <1>30 DEF LeaveTask
  <1> QED
    BY <1>1, <1>2, <1>3, <1>4, <1>5, <1>6, <1>7, <1>8, <1>9, <1>10,
       <1>11, <1>12, <1>13, <1>14, <1>15, <1>16, <1>17, <1>18, <1>19, <1>20,
       <1>21, <1>22, <1>23, <1>24, <1>25, <1>26, <1>27, <1>28, <1>29, <1>30
    DEF Acts, Run, Kill

\* Only LeaveTask touches the task's registry entry, and only OpenContext
\* brings a task into the browser.
LEMMA TaskRegistry ==
    ASSUME TypeOK, NEW t \in Tasks, Acts(t), pc'[t] \in Alive
    PROVE  /\ taskReg' = taskReg
           /\ pc'[t] \in InBrowser =>
                \/ contextReg' = t
                \/ pc[t] \in InBrowser /\ contextReg' = contextReg /\ open' = open
  <1> USE DEF TypeOK, At, GoTo, Alive, BeforeTry, InBrowser, InTry, Closing, Crashed,
              taskVars, registry, requestVars
  <1>1. CASE BeginRun(t)
    BY <1>1 DEF BeginRun, ClearCancel
  <1>2. CASE LoadRun(t)
    BY <1>2 DEF LoadRun
  <1>3. CASE PrepareRun(t)
    BY <1>3 DEF PrepareRun
  <1>4. CASE MarkRunning(t)
    BY <1>4 DEF MarkRunning
  <1>5. CASE EnterTry(t)
    BY <1>5 DEF EnterTry
  <1>6. CASE CheckBeforePlan(t)
    BY <1>6 DEF CheckBeforePlan
  <1>7. CASE CommitPlan(t)
    BY <1>7 DEF CommitPlan
  <1>8. CASE OpenContext(t)
    BY <1>8 DEF OpenContext
  <1>9. CASE CheckInLoop(t)
    BY <1>9 DEF CheckInLoop, ExitContext
  <1>10. CASE EndSteps(t)
    BY <1>10 DEF EndSteps
  <1>11. CASE Validate(t)
    BY <1>11 DEF Validate, ExitContext
  <1>12. CASE FailInBrowser(t)
    BY <1>12 DEF FailInBrowser, ExitContext
  <1>13. CASE ContextClosed(t)
    BY <1>13 DEF ContextClosed
  <1>14. CASE FailRun(t)
    BY <1>14 DEF FailRun
  <1>15. CASE FailLaunch(t)
    BY <1>15 DEF FailLaunch
  <1>16. CASE BreakSession(t)
    BY <1>16 DEF BreakSession, ClearCancel
  <1>17. CASE CommitReport(t)
    BY <1>17 DEF CommitReport
  <1>18. CASE FinishTail(t)
    BY <1>18, Answering DEF FinishTail, ClearCancel
  <1>19. CASE CommitCancelled(t)
    BY <1>19, Answering DEF CommitCancelled
  <1>20. CASE CommitError(t)
    BY <1>20 DEF CommitError
  <1>21. CASE FailEarlyStop(t)
    BY <1>21 DEF FailEarlyStop
  <1>22. CASE HandleCrash(t)
    BY <1>22 DEF HandleCrash
  <1>23. CASE MarkError(t)
    BY <1>23 DEF MarkError
  <1>24. CASE Unwind(t)
    BY <1>24 DEF Unwind, ClearCancel
  <1>25. CASE KillUnstarted(t)
    BY <1>25, Answering DEF KillUnstarted, Deliver
  <1>26. CASE KillOutsideTry(t)
    BY <1>26 DEF KillOutsideTry, Deliver
  <1>27. CASE KillInTry(t)
    BY <1>27 DEF KillInTry, ClearCancel, Deliver
  <1>28. CASE KillLaunching(t)
    BY <1>28 DEF KillLaunching, Deliver
  <1>29. CASE KillInBrowser(t)
    BY <1>29 DEF KillInBrowser, ExitContext, Deliver
  <1>30. CASE LeaveTask(t)
    BY <1>30 DEF LeaveTask
  <1> QED
    BY <1>1, <1>2, <1>3, <1>4, <1>5, <1>6, <1>7, <1>8, <1>9, <1>10,
       <1>11, <1>12, <1>13, <1>14, <1>15, <1>16, <1>17, <1>18, <1>19, <1>20,
       <1>21, <1>22, <1>23, <1>24, <1>25, <1>26, <1>27, <1>28, <1>29, <1>30
    DEF Acts, Run, Kill

-----------------------------------------------------------------------------
(* Stop finds a lone task.                                                 *)

\* Two tasks alive together are both in the history of overlaps, so a task
\* outside of it is the only one that can act.
Overlapping ==
    \A t, u \in Tasks :
        t # u /\ pc[t] \in Alive /\ pc[u] \in Alive => t \in overlapped

StopInv == Overlapping /\ StopReachesTask

LEMMA InitStopInv == Init => StopInv
  BY DEF Init, StopInv, Overlapping, StopReachesTask, Alive, BeforeTry, InBrowser,
         InTry, Closing, Crashed

LEMMA TaskStopInv ==
    ASSUME TypeOK, StopInv, NEW t \in Tasks, Acts(t)
    PROVE  StopInv'
  <1>1. Overlapping'
    BY TaskFrame DEF StopInv, Overlapping, requestVars
  <1>2. ASSUME NEW u \in Tasks, pc'[u] \in Alive, u \notin overlapped'
        PROVE  /\ taskReg' = u
               /\ pc'[u] \in InBrowser /\ u \in open' => contextReg' = u
    <2>1. pc[t] \in Alive /\ overlapped' = overlapped
      BY TaskFrame DEF requestVars
    <2>2. u = t
      BY <1>2, <2>1, TaskFrame DEF StopInv, Overlapping
    <2> QED
      BY <1>2, <2>1, <2>2, TaskRegistry DEF StopInv, StopReachesTask
  <1> QED
    BY <1>1, <1>2 DEF StopInv, StopReachesTask

LEMMA RequestStopInv ==
    ASSUME TypeOK, StopInv, NEW r \in Requests, Request(r)
    PROVE  StopInv'
  <1>1. CASE ScheduleRun(r)
    <2>1. PICK t \in Tasks :
            /\ pc[t] = "none" /\ GoTo(t, "scheduled") /\ taskReg' = t
            /\ LET others == {u \in Tasks : pc[u] \in Alive}
               IN  overlapped' = IF others = {} THEN overlapped
                                 ELSE overlapped \cup others \cup {t}
            /\ contextReg' = contextReg /\ open' = open
      BY <1>1 DEF ScheduleRun, Unused
    <2>2. /\ \A u \in Tasks \ {t} : pc'[u] = pc[u]
          /\ pc'[t] = "scheduled"
      BY <2>1 DEF GoTo, TypeOK
    <2>3. CASE \A u \in Tasks : pc[u] \notin Alive
      <3>1. \A u \in Tasks : pc'[u] \in Alive => u = t
        BY <2>2, <2>3
      <3> QED
        BY <2>1, <2>2, <3>1 DEF StopInv, Overlapping, StopReachesTask, InBrowser
    <2>4. CASE \E u \in Tasks : pc[u] \in Alive
      <3>1. \A u \in Tasks : pc'[u] \in Alive => u \in overlapped'
        BY <2>1, <2>2, <2>4
      <3> QED
        BY <3>1 DEF StopInv, Overlapping, StopReachesTask
    <2> QED
      BY <2>3, <2>4
  <1>2. CASE StopSignal(r)
    <2>1. /\ pc' = pc /\ overlapped' = overlapped /\ taskReg' = taskReg
          /\ \/ contextReg' = contextReg /\ open' = open
             \/ open' = open \ {contextReg}
      BY <1>2 DEF StopSignal, registry
    <2> QED
      BY <2>1 DEF StopInv, Overlapping, StopReachesTask
  <1>3. ASSUME UNCHANGED <<pc, overlapped, taskReg, contextReg, open>>
        PROVE  StopInv'
    BY <1>3 DEF StopInv, Overlapping, StopReachesTask
  <1> QED
    BY <1>1, <1>2, <1>3 DEF Request, CreateExecution, LoadExecution, StopFinalize,
       RerunReset, ClearCancel, RerunCommit, DeleteRows, taskVars, registry

LEMMA NextStopInv == TypeOK /\ StopInv /\ [Next]_vars => StopInv'
  <1>1. CASE UNCHANGED vars
    BY <1>1 DEF vars, taskVars, registry, requestVars, StopInv, Overlapping, StopReachesTask
  <1>2. CASE Restart
    <2>1. ASSUME TypeOK, StopInv, Restart PROVE StopInv'
      <3>1. \A t \in Tasks : pc'[t] \notin Alive
        BY <2>1 DEF Restart, Alive, BeforeTry, InBrowser, InTry, Closing, Crashed
      <3> QED
        BY <3>1 DEF StopInv, Overlapping, StopReachesTask
    <2> QED
      BY <1>2, <2>1
  <1> QED
    BY <1>1, <1>2, RequestStopInv, TaskStopInv DEF Next, Acts

\* In every execution, however many tasks, requests and restarts: while a task
\* has been alone since it was scheduled, the registry leads stop to it.
THEOREM StopReaches == Spec => []StopReachesTask
  <1>1. Init => TypeOK /\ StopInv
    BY InitTypeOK, InitStopInv
  <1>2. (TypeOK /\ StopInv) /\ [Next]_vars => (TypeOK /\ StopInv)'
    BY NextTypeOK, NextStopInv
  <1>3. StopInv => StopReachesTask
    BY DEF StopInv
  <1> QED
    BY <1>1, <1>2, <1>3, PTL DEF Spec

-----------------------------------------------------------------------------
(* A verdict comes with its report, where the page gates reruns.         *)

\* A rerun that the page offered has seen a final status, so its reset does
\* write QUEUED and not only delete the report.
GatedReruns ==
    clients = "page" => \A r \in Requests :
        req[r].kind = "rerun" /\ req[r].phase \in {"loaded", "resetting"}
            => req[r].seen \in Finished

ReportInv == GatedReruns /\ VerdictHasReport

\* A task writes a verdict together with the report, and takes no report away.
LEMMA TaskReport ==
    ASSUME TypeOK, NEW t \in Tasks, Acts(t)
    PROVE  /\ row.report => row'.report
           /\ row'.status \in Verdicts => row'.status = row.status \/ row'.report
  <1> USE DEF TypeOK, Verdicts, Flushed, taskVars, registry, requestVars
  <1>1. CASE MarkRunning(t)
    BY <1>1 DEF MarkRunning
  <1>2. CASE CommitPlan(t)
    BY <1>2 DEF CommitPlan
  <1>3. CASE CommitReport(t)
    BY <1>3 DEF CommitReport
  <1>4. CASE CommitCancelled(t)
    BY <1>4 DEF CommitCancelled
  <1>5. CASE CommitError(t)
    BY <1>5 DEF CommitError
  <1>6. CASE MarkError(t)
    BY <1>6 DEF MarkError
  <1>7. CASE UNCHANGED row
    BY <1>7
  <1> QED
    BY <1>1, <1>2, <1>3, <1>4, <1>5, <1>6, <1>7
    DEF Acts, Run, Kill, BeginRun, LoadRun, PrepareRun, EnterTry, CheckBeforePlan, OpenContext,
       CheckInLoop, EndSteps, Validate, FailInBrowser, ContextClosed, FailRun, FailLaunch,
       BreakSession, FinishTail, FailEarlyStop, HandleCrash, Unwind, KillUnstarted, KillOutsideTry,
       KillInTry, KillLaunching, KillInBrowser, LeaveTask

LEMMA RequestReport ==
    ASSUME TypeOK, ReportInv, NEW r \in Requests, Request(r)
    PROVE  ReportInv'
  <1>a. clients' = clients
    BY DEF Request, CreateExecution, LoadExecution, ScheduleRun, StopSignal,
       StopFinalize, RerunReset, RerunCommit, DeleteRows
  <1> SUFFICES ASSUME clients = "page" PROVE ReportInv'
    BY <1>a DEF ReportInv, GatedReruns, VerdictHasReport
  <1>1. ASSUME row' = row,
               \A q \in Requests : \/ req'[q] = req[q]
                                   \/ req'[q].phase \notin {"loaded", "resetting"}
                                   \/ req'[q].kind # "rerun"
                                   \/ req'[q].seen \in Finished
        PROVE  ReportInv'
    BY <1>1 DEF ReportInv, GatedReruns, VerdictHasReport
  <1>2. ASSUME row'.status \notin Verdicts,
               \A q \in Requests : \/ req'[q] = req[q]
                                   \/ req'[q].phase \notin {"loaded", "resetting"}
        PROVE  ReportInv'
    BY <1>2 DEF ReportInv, GatedReruns, VerdictHasReport
  <1>3. CASE CreateExecution(r)
    BY <1>2, <1>3 DEF CreateExecution, TypeOK, Verdicts
  <1>4. CASE LoadExecution(r)
    BY <1>1, <1>4, Loading DEF LoadExecution, Offered, TypeOK
  <1>5. CASE ScheduleRun(r)
    BY <1>1, <1>5, Answering DEF ScheduleRun, TypeOK, RequestType
  <1>6. CASE StopSignal(r)
    BY <1>1, <1>6, Answering DEF StopSignal, TypeOK, RequestType
  <1>7. CASE StopFinalize(r)
    <2>1. \A q \in Requests : req'[q] = req[q] \/ req'[q].phase = "done"
      BY <1>7, Answering DEF StopFinalize, TypeOK, RequestType
    <2>2. row' = row \/ row'.status = "cancelled"
          \/ (row'.status = row.status /\ row'.report = row.report)
      BY <1>7 DEF StopFinalize, Flushed, TypeOK
    <2> QED
      BY <2>1, <2>2 DEF ReportInv, GatedReruns, VerdictHasReport, Verdicts
  <1>8. CASE RerunReset(r)
    <2>1. row' = row
      BY <1>8 DEF RerunReset
    <2>2. req[r].kind = "rerun" /\ req[r].seen \in Finished
      BY <1>8 DEF RerunReset, ReportInv, GatedReruns
    <2>3. /\ \A q \in Requests \ {r} : req'[q] = req[q]
          /\ req'[r].seen = req[r].seen \/ req'[r].phase = "done"
      BY <1>8, Answering DEF RerunReset, TypeOK, RequestType
    <2> QED
      BY <1>1, <2>1, <2>2, <2>3
  <1>9. CASE RerunCommit(r)
    <2>1. \A q \in Requests : req'[q] = req[q] \/ req'[q].phase \in {"committed", "done"}
      BY <1>9, Answering DEF RerunCommit, TypeOK, RequestType
    <2>2. req[r].seen \in Finished
      BY <1>9 DEF RerunCommit, ReportInv, GatedReruns
    <2>3. row' = row \/ row'.status = "queued"
      BY <1>9, <2>2 DEF RerunCommit, Flushed, Finished, Verdicts
    <2> QED
      BY <1>1, <1>2, <2>1, <2>3 DEF Verdicts
  <1>10. CASE DeleteRows(r)
    <2>1. \A q \in Requests : req'[q] = req[q] \/ req'[q].phase = "done"
      BY <1>10, Answering DEF DeleteRows, TypeOK, RequestType
    <2>2. row' = row \/ row'.status = "absent"
      BY <1>10 DEF DeleteRows
    <2> QED
      BY <1>1, <1>2, <2>1, <2>2 DEF Verdicts
  <1> QED
    BY <1>3, <1>4, <1>5, <1>6, <1>7, <1>8, <1>9, <1>10 DEF Request

LEMMA NextReport == TypeOK /\ ReportInv /\ [Next]_vars => ReportInv'
  <1> SUFFICES ASSUME TypeOK, ReportInv, [Next]_vars PROVE ReportInv'
    OBVIOUS
  <1>1. CASE UNCHANGED vars
    BY <1>1 DEF vars, requestVars, ReportInv, GatedReruns, VerdictHasReport
  <1>2. CASE Restart
    <2>1. \A q \in Requests : req'[q] = req[q] \/ req'[q].phase = "done"
      BY <1>2, ClosedType DEF Restart, TypeOK, RequestType
    <2> QED
      BY <1>2, <2>1 DEF Restart, ReportInv, GatedReruns, VerdictHasReport
  <1>3. ASSUME NEW t \in Tasks, Acts(t) PROVE ReportInv'
    <2>1. req' = req /\ clients' = clients
      BY <1>3, TaskFrame DEF requestVars
    <2> QED
      BY <1>3, <2>1, TaskReport DEF ReportInv, GatedReruns, VerdictHasReport
  <1> QED
    BY <1>1, <1>2, <1>3, RequestReport DEF Next, Acts

\* In every execution whose reruns are offered as the page offers them: a row
\* that says PASSED or FAILED has its report.
THEOREM VerdictReported == Spec => []VerdictHasReport
  <1>1. Init => TypeOK /\ ReportInv
    BY InitTypeOK DEF Init, ReportInv, GatedReruns, VerdictHasReport, Verdicts, NewRequest
  <1>2. (TypeOK /\ ReportInv) /\ [Next]_vars => (TypeOK /\ ReportInv)'
    BY NextTypeOK, NextReport
  <1>3. ReportInv => VerdictHasReport
    BY DEF ReportInv
  <1> QED
    BY <1>1, <1>2, <1>3, PTL DEF Spec

-----------------------------------------------------------------------------
(* Nobody is left behind.                                                  *)

Unkilled == \A t \in Tasks : pc[t] \notin Alive => ~killed[t]

\* What a request under way has loaded is the status of an execution, of an
\* active one when it is being stopped.
SeenInTime ==
    \A r \in Requests :
        /\ req[r].phase = "loaded"  => req[r].seen \in Active \cup Finished
        /\ req[r].phase = "closing" => req[r].seen \in Active

\* A task that drives the execution and whose commit will change the row: its
\* session holds an active status, or it will read the row again; and no stop
\* flag makes it leave the row alone.
Pursues(t) ==
    /\ Driving(t)
    /\ pc[t] \notin {"scheduled", "loading", "crashed"} => loaded[t] \in Active
    /\ cancelled => pc[t] \notin {"preparing", "crashed"}

UnderWay == \E r \in Requests : req[r].phase \in {"committed", "closing"}

Covered == row.status \in Active => UnderWay \/ \E t \in Tasks : Pursues(t)

OrphanInv == Unkilled /\ SeenInTime /\ (crashes = 0 => Covered)

LEMMA RequestUnkilled ==
    ASSUME TypeOK, Unkilled, NEW r \in Requests, Request(r)
    PROVE  Unkilled'
  <1>1. CASE ScheduleRun(r)
    BY <1>1 DEF ScheduleRun, Unused, GoTo, Unkilled, TypeOK, Alive
  <1>2. CASE StopSignal(r)
    BY <1>2 DEF StopSignal, Done, Unkilled, TypeOK, PCs
  <1>3. ASSUME UNCHANGED <<pc, killed>> PROVE Unkilled'
    BY <1>3 DEF Unkilled
  <1> QED
    BY <1>1, <1>2, <1>3 DEF Request, CreateExecution, LoadExecution, StopFinalize,
       RerunReset, RerunCommit, DeleteRows, taskVars

LEMMA RequestSeenInTime ==
    ASSUME TypeOK, SeenInTime, NEW r \in Requests, Request(r)
    PROVE  SeenInTime'
  <1> USE DEF TypeOK, RequestType, SeenInTime
  <1>1. CASE CreateExecution(r)
    BY <1>1 DEF CreateExecution, NewRequest
  <1>2. CASE LoadExecution(r)
    BY <1>2, Loading DEF LoadExecution, Exists, Statuses
  <1>3. CASE ScheduleRun(r)
    BY <1>3, Answering DEF ScheduleRun
  <1>4. CASE StopSignal(r)
    BY <1>4, Answering DEF StopSignal
  <1>5. CASE StopFinalize(r)
    BY <1>5, Answering DEF StopFinalize
  <1>6. CASE RerunReset(r)
    BY <1>6, Answering DEF RerunReset
  <1>7. CASE RerunCommit(r)
    BY <1>7, Answering DEF RerunCommit
  <1>8. CASE DeleteRows(r)
    BY <1>8, Answering DEF DeleteRows
  <1> QED
    BY <1>1, <1>2, <1>3, <1>4, <1>5, <1>6, <1>7, <1>8 DEF Request

LEMMA RequestCovered ==
    ASSUME TypeOK, Unkilled, SeenInTime, Covered, NEW r \in Requests, Request(r)
    PROVE  Covered'
  <1>1. ASSUME UNCHANGED <<row, pc, loaded, killed>>, cancelled' => cancelled,
               req[r].phase \notin {"committed", "closing"},
               \A q \in Requests \ {r} : req'[q] = req[q]
        PROVE  Covered'
    BY <1>1 DEF Covered, UnderWay, Pursues, Driving
  <1>2. CASE CreateExecution(r)
    <2>1. req'[r].phase = "committed"
      BY <1>2 DEF CreateExecution, TypeOK, NewRequest
    <2> QED
      BY <2>1 DEF Covered, UnderWay
  <1>3. CASE LoadExecution(r)
    BY <1>1, <1>3 DEF LoadExecution, Fresh, TypeOK, taskVars, registry
  <1>4. CASE ScheduleRun(r)
    <2>1. PICK t \in Tasks : pc[t] = "none" /\ GoTo(t, "scheduled")
      BY <1>4 DEF ScheduleRun, Unused
    <2>2. pc'[t] = "scheduled" /\ ~killed'[t]
      BY <1>4, <2>1 DEF ScheduleRun, GoTo, TypeOK, Unkilled, Alive, BeforeTry, InBrowser,
         InTry, Closing, Crashed
    <2>3. Pursues(t)'
      BY <2>2 DEF Pursues, Driving, Alive
    <2> QED
      BY <2>3 DEF Covered
  <1>5. CASE StopSignal(r)
    <2>1. CASE req[r].seen \in Finished
      BY <1>1, <1>5, <2>1, Answering DEF StopSignal, TypeOK, registry
    <2>2. CASE req[r].seen \notin Finished
      <3>1. req'[r].phase = "closing"
        BY <1>5, <2>2 DEF StopSignal, TypeOK, RequestType
      <3> QED
        BY <3>1 DEF Covered, UnderWay
    <2> QED
      BY <2>1, <2>2
  <1>6. CASE StopFinalize(r)
    <2>1. req[r].seen \in Active
      BY <1>6 DEF StopFinalize, SeenInTime
    <2>2. row'.status \notin Active
      BY <1>6, <2>1 DEF StopFinalize, Flushed, Exists, Active, TypeOK
    <2> QED
      BY <2>2 DEF Covered
  <1>7. CASE RerunReset(r)
    BY <1>1, <1>7, Answering DEF RerunReset, ClearCancel, TypeOK, taskVars, registry
  <1>8. CASE RerunCommit(r)
    <2>1. CASE Exists
      <3>1. req'[r].phase = "committed"
        BY <1>8, <2>1 DEF RerunCommit, TypeOK, RequestType
      <3> QED
        BY <3>1 DEF Covered, UnderWay
    <2>2. CASE ~Exists
      BY <1>1, <1>8, <2>2, Answering DEF RerunCommit, TypeOK, taskVars, registry
    <2> QED
      BY <2>1, <2>2
  <1>9. CASE DeleteRows(r)
    <2>1. CASE row' = row
      BY <1>1, <1>9, <2>1, Answering DEF DeleteRows, TypeOK, taskVars, registry
    <2>2. CASE row' # row
      BY <1>9, <2>2 DEF DeleteRows, Covered, Active
    <2> QED
      BY <2>1, <2>2
  <1> QED
    BY <1>2, <1>3, <1>4, <1>5, <1>6, <1>7, <1>8, <1>9 DEF Request

\* The heart of the argument: after a step of a task the row is not active, or
\* the task pursues it, or the row was active before and pursued by others.
LEMMA TaskPursues ==
    ASSUME TypeOK, NEW t \in Tasks, Acts(t), row'.status \in Active
    PROVE  Pursues(t)' \/ (row.status \in Active /\ ~Pursues(t))
  <1> USE DEF TypeOK, At, GoTo, Pursues, Driving, Flushed, Exists, Alive, BeforeTry,
              InBrowser, InTry, Closing, Crashed, Active, taskVars, registry, requestVars
  <1>1. CASE BeginRun(t)
    BY <1>1 DEF BeginRun, ClearCancel
  <1>2. CASE LoadRun(t)
    BY <1>2 DEF LoadRun
  <1>3. CASE PrepareRun(t)
    BY <1>3 DEF PrepareRun
  <1>4. CASE MarkRunning(t)
    BY <1>4 DEF MarkRunning
  <1>5. CASE EnterTry(t)
    BY <1>5 DEF EnterTry
  <1>6. CASE CheckBeforePlan(t)
    BY <1>6 DEF CheckBeforePlan
  <1>7. CASE CommitPlan(t)
    BY <1>7 DEF CommitPlan
  <1>8. CASE OpenContext(t)
    BY <1>8 DEF OpenContext
  <1>9. CASE CheckInLoop(t)
    BY <1>9 DEF CheckInLoop, ExitContext
  <1>10. CASE EndSteps(t)
    BY <1>10 DEF EndSteps
  <1>11. CASE Validate(t)
    BY <1>11 DEF Validate, ExitContext
  <1>12. CASE FailInBrowser(t)
    BY <1>12 DEF FailInBrowser, ExitContext
  <1>13. CASE ContextClosed(t)
    BY <1>13 DEF ContextClosed
  <1>14. CASE FailRun(t)
    BY <1>14 DEF FailRun
  <1>15. CASE FailLaunch(t)
    BY <1>15 DEF FailLaunch
  <1>16. CASE BreakSession(t)
    BY <1>16 DEF BreakSession, ClearCancel
  <1>17. CASE CommitReport(t)
    BY <1>17 DEF CommitReport, Verdicts
  <1>18. CASE FinishTail(t)
    BY <1>18 DEF FinishTail, ClearCancel
  <1>19. CASE CommitCancelled(t)
    BY <1>19 DEF CommitCancelled
  <1>20. CASE CommitError(t)
    BY <1>20 DEF CommitError
  <1>21. CASE FailEarlyStop(t)
    BY <1>21 DEF FailEarlyStop
  <1>22. CASE HandleCrash(t)
    BY <1>22 DEF HandleCrash
  <1>23. CASE MarkError(t)
    BY <1>23 DEF MarkError
  <1>24. CASE Unwind(t)
    BY <1>24 DEF Unwind, ClearCancel
  <1>25. CASE KillUnstarted(t)
    BY <1>25 DEF KillUnstarted, Deliver
  <1>26. CASE KillOutsideTry(t)
    BY <1>26 DEF KillOutsideTry, Deliver
  <1>27. CASE KillInTry(t)
    BY <1>27 DEF KillInTry, ClearCancel, Deliver
  <1>28. CASE KillLaunching(t)
    BY <1>28 DEF KillLaunching, Deliver
  <1>29. CASE KillInBrowser(t)
    BY <1>29 DEF KillInBrowser, ExitContext, Deliver
  <1>30. CASE LeaveTask(t)
    BY <1>30 DEF LeaveTask
  <1> QED
    BY <1>1, <1>2, <1>3, <1>4, <1>5, <1>6, <1>7, <1>8, <1>9, <1>10,
       <1>11, <1>12, <1>13, <1>14, <1>15, <1>16, <1>17, <1>18, <1>19, <1>20,
       <1>21, <1>22, <1>23, <1>24, <1>25, <1>26, <1>27, <1>28, <1>29, <1>30
    DEF Acts, Run, Kill

LEMMA TaskOrphanInv ==
    ASSUME TypeOK, OrphanInv, NEW t \in Tasks, Acts(t)
    PROVE  OrphanInv'
  <1>1. Unkilled' /\ SeenInTime'
    BY TaskFrame DEF OrphanInv, Unkilled, SeenInTime, requestVars
  <1>2. ASSUME crashes' = 0, row'.status \in Active
        PROVE  UnderWay' \/ \E u \in Tasks : Pursues(u)'
    <2>1. CASE Pursues(t)'
      BY <2>1
    <2>2. CASE row.status \in Active /\ ~Pursues(t)
      <3>1. UnderWay \/ \E u \in Tasks \ {t} : Pursues(u)
        BY <1>2, <2>2, TaskFrame DEF OrphanInv, Covered, requestVars
      <3>2. \A u \in Tasks \ {t} : Pursues(u) => Pursues(u)'
        BY TaskFrame DEF Pursues, Driving
      <3>3. UnderWay => UnderWay'
        BY TaskFrame DEF UnderWay, requestVars
      <3> QED
        BY <3>1, <3>2, <3>3
    <2> QED
      BY <1>2, <2>1, <2>2, TaskPursues
  <1> QED
    BY <1>1, <1>2 DEF OrphanInv, Covered

LEMMA NextOrphanInv == TypeOK /\ OrphanInv /\ [Next]_vars => OrphanInv'
  <1> SUFFICES ASSUME TypeOK, OrphanInv, [Next]_vars PROVE OrphanInv'
    OBVIOUS
  <1>1. CASE UNCHANGED vars
    BY <1>1 DEF vars, taskVars, registry, requestVars, OrphanInv, Unkilled, SeenInTime,
       Covered, UnderWay, Pursues, Driving
  <1>2. CASE Restart
    <2>1. crashes' # 0
      BY <1>2 DEF Restart, TypeOK
    <2>2. \A r \in Requests : req'[r] = req[r] \/ req'[r].phase = "done"
      BY <1>2, ClosedType DEF Restart, TypeOK, RequestType
    <2> QED
      BY <1>2, <2>1, <2>2 DEF Restart, OrphanInv, Unkilled, SeenInTime
  <1>3. ASSUME NEW r \in Requests, Request(r) PROVE OrphanInv'
    <2>1. crashes' = crashes
      BY <1>3 DEF Request, CreateExecution, LoadExecution, ScheduleRun, StopSignal,
         StopFinalize, RerunReset, RerunCommit, DeleteRows
    <2> QED
      BY <1>3, <2>1, RequestUnkilled, RequestSeenInTime, RequestCovered DEF OrphanInv
  <1> QED
    BY <1>1, <1>2, <1>3, TaskOrphanInv DEF Next, Acts

\* Whatever order stop, rerun, delete and the ends of the tasks come in: an
\* execution left QUEUED or RUNNING with nobody to finish it has lived through
\* a restart of the server.
THEOREM NeverOrphaned == Spec => []NoOrphan
  <1>1. Init => TypeOK /\ OrphanInv
    BY InitTypeOK DEF Init, OrphanInv, Unkilled, SeenInTime, Covered, Active, NewRequest
  <1>2. (TypeOK /\ OrphanInv) /\ [Next]_vars => (TypeOK /\ OrphanInv)'
    BY NextTypeOK, NextOrphanInv
  <1>3. TypeOK /\ OrphanInv => NoOrphan
    <2>1. \A t \in Tasks : Pursues(t) => Driving(t)
      BY DEF Pursues
    <2> QED
      BY <2>1 DEF TypeOK, OrphanInv, Covered, UnderWay, NoOrphan, Orphan
  <1> QED
    BY <1>1, <1>2, <1>3, PTL DEF Spec
-----------------------------------------------------------------------------
(* A stop stays.                                                           *)

\* The task will write nothing: a CancelledError waits for it, or it is on its way out.
Stopped(t) == pc[t] \in Alive => killed[t] \/ pc[t] \in {"unwinding", "leaving"}

\* No task has found the stop flag by itself: it would write CANCELLED a second time.
Calm(t) ==
    pc[t] \in Alive /\ ~killed[t] => pc[t] \notin {"stopping", "stopping_early", "closing_stop"}

\* Clients that wait for each answer: one request at a time, and none before the first.
OneAtATime ==
    /\ \A q, r \in Requests : ~Answered(q) /\ ~Answered(r) => q = r
    /\ row.status = "unborn" => ~cancelled /\ \A r \in Requests : req[r].phase = "new"

\* Without overlapping tasks, whoever could write is told: the flag, a stop under way and a row that says
\* CANCELLED each mean that the tasks are stopped; a rerun clears the flag, and knows when it begins with
\* a cancelled execution.
Told ==
    /\ (\/ cancelled
        \/ row.status = "cancelled"
        \/ \E r \in Requests : req[r].phase = "closing")
       => \A t \in Tasks : Stopped(t)
    /\ \A t \in Tasks : Calm(t)
    /\ \A r \in Requests :
         /\ req[r].phase \in {"resetting", "committed"} => ~cancelled
         /\ req[r].phase \in {"loaded", "resetting"} /\ req[r].seen # "cancelled" => row.status # "cancelled"
         /\ req[r].phase = "committed" => row.status # "cancelled"

\* Together with StopInv they are inductive.
FinalInv == clients = "serial" => OneAtATime /\ (overlapped = {} => Told)

\* A task that is told stays told, and leaves the row alone; no task writes CANCELLED by itself.
LEMMA TaskStops ==
    ASSUME TypeOK, NEW t \in Tasks, Acts(t), Calm(t), cancelled => Stopped(t)
    PROVE  /\ Calm(t)'
           /\ Stopped(t) => Stopped(t)' /\ row' = row
           /\ row'.status = "cancelled" => row.status = "cancelled"
           /\ row'.status = "unborn" => row.status = "unborn"
  <1> USE DEF TypeOK, At, GoTo, Stopped, Calm, Flushed, Exists, Alive, BeforeTry,
              InBrowser, InTry, Closing, Crashed, taskVars, registry, requestVars
  <1>1. CASE BeginRun(t)
    BY <1>1 DEF BeginRun, ClearCancel
  <1>2. CASE LoadRun(t)
    BY <1>2 DEF LoadRun
  <1>3. CASE PrepareRun(t)
    BY <1>3 DEF PrepareRun
  <1>4. CASE MarkRunning(t)
    BY <1>4 DEF MarkRunning
  <1>5. CASE EnterTry(t)
    BY <1>5 DEF EnterTry
  <1>6. CASE CheckBeforePlan(t)
    BY <1>6 DEF CheckBeforePlan
  <1>7. CASE CommitPlan(t)
    BY <1>7 DEF CommitPlan
  <1>8. CASE OpenContext(t)
    BY <1>8 DEF OpenContext
  <1>9. CASE CheckInLoop(t)
    BY <1>9 DEF CheckInLoop, ExitContext
  <1>10. CASE EndSteps(t)
    BY <1>10 DEF EndSteps
  <1>11. CASE Validate(t)
    BY <1>11 DEF Validate, ExitContext
  <1>12. CASE FailInBrowser(t)
    BY <1>12 DEF FailInBrowser, ExitContext
  <1>13. CASE ContextClosed(t)
    BY <1>13 DEF ContextClosed
  <1>14. CASE FailRun(t)
    BY <1>14 DEF FailRun
  <1>15. CASE FailLaunch(t)
    BY <1>15 DEF FailLaunch
  <1>16. CASE BreakSession(t)
    BY <1>16 DEF BreakSession, ClearCancel
  <1>17. CASE CommitReport(t)
    BY <1>17 DEF CommitReport, Verdicts
  <1>18. CASE FinishTail(t)
    BY <1>18 DEF FinishTail, ClearCancel
  <1>19. CASE CommitCancelled(t)
    BY <1>19 DEF CommitCancelled
  <1>20. CASE CommitError(t)
    BY <1>20 DEF CommitError
  <1>21. CASE FailEarlyStop(t)
    BY <1>21 DEF FailEarlyStop
  <1>22. CASE HandleCrash(t)
    BY <1>22 DEF HandleCrash
  <1>23. CASE MarkError(t)
    BY <1>23 DEF MarkError
  <1>24. CASE Unwind(t)
    BY <1>24 DEF Unwind, ClearCancel
  <1>25. CASE KillUnstarted(t)
    BY <1>25 DEF KillUnstarted, Deliver
  <1>26. CASE KillOutsideTry(t)
    BY <1>26 DEF KillOutsideTry, Deliver
  <1>27. CASE KillInTry(t)
    BY <1>27 DEF KillInTry, ClearCancel, Deliver
  <1>28. CASE KillLaunching(t)
    BY <1>28 DEF KillLaunching, Deliver
  <1>29. CASE KillInBrowser(t)
    BY <1>29 DEF KillInBrowser, ExitContext, Deliver
  <1>30. CASE LeaveTask(t)
    BY <1>30 DEF LeaveTask
  <1> QED
    BY <1>1, <1>2, <1>3, <1>4, <1>5, <1>6, <1>7, <1>8, <1>9, <1>10,
       <1>11, <1>12, <1>13, <1>14, <1>15, <1>16, <1>17, <1>18, <1>19, <1>20,
       <1>21, <1>22, <1>23, <1>24, <1>25, <1>26, <1>27, <1>28, <1>29, <1>30
    DEF Acts, Run, Kill

\* A row that was written once is never taken for one that was not.
LEMMA RowStaysBorn ==
    ASSUME TypeOK, NEW t \in Tasks, Acts(t), row'.status = "unborn"
    PROVE  row.status = "unborn"
  <1>1. CASE row' = row
    BY <1>1
  <1>2. CASE row' # row
    <2>1. \/ MarkRunning(t) \/ CommitPlan(t) \/ CommitReport(t)
          \/ CommitCancelled(t) \/ CommitError(t) \/ MarkError(t)
      BY <1>2 DEF Acts, taskVars, Run, BeginRun, LoadRun, PrepareRun, EnterTry, CheckBeforePlan,
         OpenContext, CheckInLoop, EndSteps, Validate, FailInBrowser, ContextClosed, FailRun, FailLaunch,
         BreakSession, FinishTail, FailEarlyStop, HandleCrash, Unwind, registry, requestVars, Kill,
         KillUnstarted,
         KillOutsideTry, KillInTry, KillLaunching, KillInBrowser, LeaveTask
    <2>2. Exists
      BY <1>2, <2>1 DEF MarkRunning, CommitPlan, CommitReport, CommitCancelled, CommitError, MarkError
    <2>3. row'.status # "unborn"
      BY <2>1, <2>2 DEF MarkRunning, CommitPlan, CommitReport, CommitCancelled, CommitError, MarkError,
         Flushed, Exists, Verdicts, TypeOK
    <2> QED
      BY <2>3
  <1> QED
    BY <1>1, <1>2

\* A task that is alive is not done.
LEMMA AliveNotDone == \A t \in Tasks : pc[t] \in Alive => ~Done(t)
  BY DEF Done, Alive, BeforeTry, InBrowser, InTry, Closing, Crashed

\* Every step keeps what requests have seen in time.
LEMMA NextSeenInTime == TypeOK /\ SeenInTime /\ [Next]_vars => SeenInTime'
  <1> SUFFICES ASSUME TypeOK, SeenInTime, [Next]_vars PROVE SeenInTime'
    OBVIOUS
  <1>1. CASE UNCHANGED vars
    BY <1>1 DEF vars, requestVars, SeenInTime
  <1>2. CASE Restart
    <2>1. \A r \in Requests : req'[r] = req[r] \/ req'[r].phase = "done"
      BY <1>2, ClosedType DEF Restart, TypeOK, RequestType
    <2> QED
      BY <2>1 DEF SeenInTime
  <1>3. ASSUME NEW t \in Tasks, Acts(t) PROVE SeenInTime'
    BY <1>3, TaskFrame DEF SeenInTime, requestVars
  <1> QED
    BY <1>1, <1>2, <1>3, RequestSeenInTime DEF Next, Acts

LEMMA TaskFinalInv ==
    ASSUME TypeOK, FinalInv, NEW t \in Tasks, Acts(t)
    PROVE  FinalInv'
  <1> SUFFICES ASSUME clients' = "serial" PROVE OneAtATime' /\ (overlapped' = {} => Told')
    BY DEF FinalInv
  <1>1. /\ clients = "serial" /\ overlapped' = overlapped /\ req' = req
        /\ cancelled' => cancelled
        /\ pc[t] \in Alive
        /\ \A u \in Tasks \ {t} : pc'[u] = pc[u] /\ killed'[u] = killed[u]
    BY TaskFrame DEF requestVars
  <1>2. OneAtATime
    BY <1>1 DEF FinalInv
  <1>3. row'.status = "unborn" => row.status = "unborn"
    BY RowStaysBorn
  <1>4. OneAtATime'
    BY <1>1, <1>2, <1>3 DEF OneAtATime, Answered
  <1>5. ASSUME overlapped' = {} PROVE Told'
    <2>1. Told
      BY <1>1, <1>5 DEF FinalInv
    <2>2. /\ Calm(t)'
          /\ Stopped(t) => Stopped(t)' /\ row' = row
          /\ row'.status = "cancelled" => row.status = "cancelled"
      BY <2>1, TaskStops DEF Told
    <2>3. \A u \in Tasks : (Calm(u) => Calm(u)') /\ (Stopped(u) => Stopped(u)')
      BY <1>1, <2>2 DEF Calm, Stopped
    <2> QED
      BY <1>1, <2>1, <2>2, <2>3 DEF Told
  <1> QED
    BY <1>4, <1>5

LEMMA RequestFinalInv ==
    ASSUME TypeOK, StopInv, SeenInTime, FinalInv, NEW r \in Requests, Request(r)
    PROVE  FinalInv'
  <1> SUFFICES ASSUME clients' = "serial" PROVE OneAtATime' /\ (overlapped' = {} => Told')
    BY DEF FinalInv
  <1>1. clients = "serial" /\ (overlapped' = {} => overlapped = {})
    BY DEF Request, CreateExecution, LoadExecution, ScheduleRun, StopSignal,
       StopFinalize, RerunReset, RerunCommit, DeleteRows
  <1>2. OneAtATime /\ (overlapped' = {} => Told)
    BY <1>1 DEF FinalInv
  <1>3. ASSUME row.status # "unborn", row'.status # "unborn",
               \A q \in Requests \ {r} : req'[q] = req[q] /\ Answered(q)
        PROVE  OneAtATime'
    BY <1>3 DEF OneAtATime, Answered
  <1>4. ASSUME ~Answered(r)
        PROVE  row.status # "unborn" /\ \A q \in Requests \ {r} : Answered(q)
    BY <1>2, <1>4 DEF OneAtATime, Answered
  \* A step that only answers the request, or goes on with it as it began.
  <1>5. ASSUME overlapped' = {}, UNCHANGED <<pc, killed>>, cancelled' => cancelled,
               row'.status = "cancelled" => row.status = "cancelled",
               \A q \in Requests \ {r} : req'[q] = req[q],
               req'[r].phase = "done"
        PROVE  Told'
    BY <1>2, <1>5 DEF Told, Stopped, Calm
  <1>6. CASE CreateExecution(r)
    <2>1. /\ req'[r].phase = "committed" /\ row'.status = "queued" /\ row.status = "unborn"
          /\ ~cancelled /\ \A q \in Requests \ {r} : req'[q] = req[q] /\ req[q].phase = "new"
          /\ UNCHANGED <<pc, killed, cancelled>>
      BY <1>2, <1>6 DEF CreateExecution, OneAtATime, TypeOK, NewRequest, taskVars, registry
    <2>2. OneAtATime'
      BY <2>1 DEF OneAtATime, Answered
    <2>3. ASSUME overlapped' = {} PROVE Told'
      BY <1>2, <2>1, <2>3 DEF Told, Stopped, Calm
    <2> QED
      BY <2>2, <2>3
  <1>7. CASE LoadExecution(r)
    <2>1. /\ row' = row /\ row.status # "unborn" /\ UNCHANGED <<pc, killed, cancelled>>
          /\ \A q \in Requests : Answered(q)
          /\ \A q \in Requests \ {r} : req'[q] = req[q]
          /\ req'[r].phase = "done" \/ (req'[r].phase = "loaded" /\ req'[r].seen = row.status)
      BY <1>1, <1>7 DEF LoadExecution, Offered, TypeOK, Closed, taskVars, registry
    <2>2. ASSUME overlapped' = {} PROVE Told'
      BY <1>2, <2>1, <2>2 DEF Told, Stopped, Calm, Answered
    <2> QED
      BY <1>3, <2>1, <2>2
  <1>8. CASE ScheduleRun(r)
    <2>1. PICK t \in Tasks :
            /\ Unused(t) /\ GoTo(t, "scheduled")
            /\ LET others == {u \in Tasks : pc[u] \in Alive}
               IN  overlapped' = IF others = {} THEN overlapped
                                 ELSE overlapped \cup others \cup {t}
      BY <1>8 DEF ScheduleRun
    <2>2. /\ row' = row /\ UNCHANGED <<killed, cancelled>> /\ ~Answered(r)
          /\ req[r].phase = "committed" /\ req'[r].phase = "done"
          /\ \A q \in Requests \ {r} : req'[q] = req[q]
      BY <1>8, Answering DEF ScheduleRun, Answered
    <2>3. ASSUME overlapped' = {} PROVE Told'
      <3>1. ~cancelled /\ row.status # "cancelled"
        BY <1>2, <2>2, <2>3 DEF Told
      <3>2. \A q \in Requests : req'[q].phase # "closing"
        BY <1>4, <2>2 DEF Answered
      <3>3. \A u \in Tasks \ {t} : pc'[u] = pc[u]
        BY <2>1 DEF GoTo, TypeOK
      <3>4. pc'[t] = "scheduled"
        BY <2>1 DEF GoTo, TypeOK
      <3> QED
        BY <1>2, <2>2, <2>3, <3>1, <3>2, <3>3, <3>4 DEF Told, Calm
    <2> QED
      BY <1>3, <1>4, <2>2, <2>3
  <1>9. CASE StopSignal(r)
    <2>1. /\ row' = row /\ pc' = pc /\ ~Answered(r)
          /\ \A q \in Requests \ {r} : req'[q] = req[q]
      BY <1>9, Answering DEF StopSignal, Answered, TypeOK
    <2>2. CASE req[r].seen \in Finished
      <3>1. UNCHANGED <<killed, cancelled>> /\ req'[r].phase = "done"
        BY <1>9, <2>2, Answering DEF StopSignal, registry
      <3> QED
        BY <1>3, <1>4, <1>5, <2>1, <3>1
    <2>3. CASE req[r].seen \notin Finished
      <3>1. /\ req'[r].phase = "closing"
            /\ killed' = [t \in Tasks |-> killed[t] \/ (t = taskReg /\ ~Done(t))]
        BY <1>9, <2>3 DEF StopSignal, TypeOK, RequestType
      <3>2. ASSUME overlapped' = {} PROVE Told'
        <4>1. \A t \in Tasks : pc[t] \in Alive => t = taskReg /\ ~Done(t)
          BY <1>1, <3>2, AliveNotDone DEF StopInv, StopReachesTask
        <4>2. \A t \in Tasks : Stopped(t)' /\ Calm(t)'
          BY <2>1, <3>1, <4>1 DEF Stopped, Calm, TypeOK
        <4>3. \A q \in Requests : req'[q].phase \in {"closing", "new", "done"}
          BY <1>4, <2>1, <3>1 DEF Answered
        <4> QED
          BY <4>2, <4>3 DEF Told
      <3> QED
        BY <1>3, <1>4, <2>1, <3>2
    <2> QED
      BY <2>2, <2>3
  <1>10. CASE StopFinalize(r)
    <2>1. /\ UNCHANGED <<pc, killed, cancelled>> /\ ~Answered(r)
          /\ req[r].phase = "closing" /\ req'[r].phase = "done"
          /\ \A q \in Requests \ {r} : req'[q] = req[q]
          /\ row.status # "unborn" => row'.status # "unborn"
      BY <1>10, Answering DEF StopFinalize, Answered, TypeOK, taskVars, registry, Flushed, Exists
    <2>2. ASSUME overlapped' = {} PROVE Told'
      <3>1. \A t \in Tasks : Stopped(t)' /\ Calm(t)'
        BY <1>2, <2>1, <2>2 DEF Told, Stopped, Calm
      <3>2. \A q \in Requests : req'[q].phase \in {"new", "done"}
        BY <1>4, <2>1 DEF Answered
      <3> QED
        BY <3>1, <3>2 DEF Told
    <2> QED
      BY <1>3, <1>4, <2>1, <2>2
  <1>11. CASE RerunReset(r)
    <2>1. /\ row' = row /\ UNCHANGED <<pc, killed>> /\ ~Answered(r)
          /\ req[r].phase = "loaded"
          /\ \A q \in Requests \ {r} : req'[q] = req[q]
      BY <1>11, Answering DEF RerunReset, Answered, TypeOK, taskVars
    <2>2. \/ req'[r].phase = "done" /\ cancelled' = cancelled
          \/ req'[r].phase = "resetting" /\ req'[r].seen = req[r].seen /\ ~cancelled'
      BY <1>11, Answering DEF RerunReset, ClearCancel, TypeOK, RequestType, registry
    <2>3. ASSUME overlapped' = {} PROVE Told'
      BY <1>2, <1>4, <2>1, <2>2, <2>3 DEF Told, Stopped, Calm, Answered
    <2> QED
      BY <1>3, <1>4, <2>1, <2>3
  <1>12. CASE RerunCommit(r)
    <2>1. /\ UNCHANGED <<pc, killed, cancelled>> /\ ~Answered(r)
          /\ req[r].phase = "resetting"
          /\ \A q \in Requests \ {r} : req'[q] = req[q]
          /\ row.status # "unborn" => row'.status # "unborn"
      BY <1>12, Answering DEF RerunCommit, Answered, TypeOK, taskVars, registry, Flushed
    <2>2. \/ req'[r].phase = "done" /\ row' = row
          \/ req'[r].phase = "committed" /\ row'.status = Flushed(req[r].seen, "queued")
      BY <1>12, Answering DEF RerunCommit, TypeOK, RequestType
    <2>3. ASSUME overlapped' = {} PROVE Told'
      <3>1. ~cancelled /\ (req[r].seen # "cancelled" => row.status # "cancelled")
        BY <1>2, <2>1, <2>3 DEF Told
      <3>2. Flushed(req[r].seen, "queued") # "cancelled"
        BY <3>1 DEF Flushed
      <3> QED
        BY <1>2, <1>4, <2>1, <2>2, <2>3, <3>1, <3>2 DEF Told, Stopped, Calm, Answered
    <2> QED
      BY <1>3, <1>4, <2>1, <2>3
  <1>13. CASE DeleteRows(r)
    <2>1. /\ UNCHANGED <<pc, killed, cancelled>> /\ ~Answered(r)
          /\ req'[r].phase = "done"
          /\ \A q \in Requests \ {r} : req'[q] = req[q]
          /\ row' = row \/ row'.status = "absent"
      BY <1>13, Answering DEF DeleteRows, Answered, taskVars, registry
    <2> QED
      BY <1>3, <1>4, <1>5, <2>1
  <1> QED
    BY <1>6, <1>7, <1>8, <1>9, <1>10, <1>11, <1>12, <1>13 DEF Request

LEMMA NextFinalInv == TypeOK /\ StopInv /\ SeenInTime /\ FinalInv /\ [Next]_vars => FinalInv'
  <1> SUFFICES ASSUME TypeOK, StopInv, SeenInTime, FinalInv, [Next]_vars PROVE FinalInv'
    OBVIOUS
  <1>1. CASE UNCHANGED vars
    BY <1>1 DEF vars, taskVars, registry, requestVars, FinalInv, OneAtATime, Told, Stopped, Calm,
       Answered
  <1>2. CASE Restart
    <2>1. \A r \in Requests : req'[r].phase \in {"new", "done"}
                            /\ (req[r].phase = "new" => req'[r] = req[r])
      BY <1>2, ClosedType DEF Restart, TypeOK, RequestType
    <2>2. \A t \in Tasks : pc'[t] \notin Alive
      BY <1>2 DEF Restart, Alive, BeforeTry, InBrowser, InTry, Closing, Crashed
    <2>3. ~cancelled' /\ UNCHANGED <<row, clients, overlapped>>
      BY <1>2 DEF Restart
    <2>4. OneAtATime => OneAtATime'
      BY <2>1, <2>3 DEF OneAtATime, Answered
    <2>5. Told'
      BY <2>1, <2>2, <2>3 DEF Told, Stopped, Calm
    <2> QED
      BY <2>3, <2>4, <2>5 DEF FinalInv
  <1> QED
    BY <1>1, <1>2, TaskFinalInv, RequestFinalInv DEF Next, Acts

\* A row that says CANCELLED is left by a rerun or a deletion alone.
LEMMA CancelledStays ==
    ASSUME TypeOK, StopInv, SeenInTime, FinalInv, [Next]_vars,
           clients = "serial", row.status = "cancelled", overlapped = {}
    PROVE  row'.status \in {"cancelled", "queued", "absent"}
  <1>1. OneAtATime /\ Told
    BY DEF FinalInv
  <1>2. CASE UNCHANGED vars
    BY <1>2 DEF vars
  <1>3. CASE Restart
    BY <1>3 DEF Restart
  <1>4. ASSUME NEW t \in Tasks, Acts(t) PROVE row' = row
    BY <1>1, <1>4, TaskStops DEF Told
  <1>5. ASSUME NEW r \in Requests, Request(r)
        PROVE  row'.status \in {"cancelled", "queued", "absent"}
    BY <1>5 DEF Request, CreateExecution, LoadExecution, ScheduleRun, StopSignal,
       StopFinalize, RerunReset, RerunCommit, DeleteRows, Flushed, TypeOK
  <1> QED
    BY <1>2, <1>3, <1>4, <1>5 DEF Next, Acts

\* With one request at a time, whatever the stopped task was doing, how often the execution was run
\* again before and when the server restarts: a CANCELLED execution is left only by a rerun or a
\* deletion, unless a rerun made two tasks overlap (execution_service.py, stop_execution).
THEOREM StopStays == Spec => StopIsFinal
  <1> DEFINE Inv == TypeOK /\ StopInv /\ SeenInTime /\ FinalInv
  <1>1. Init => Inv
    BY InitTypeOK, InitStopInv DEF Init, SeenInTime, FinalInv, OneAtATime, Told, Stopped, Calm,
       Answered, NewRequest, Alive, BeforeTry, InBrowser, InTry, Closing, Crashed
  <1>2. Inv /\ [Next]_vars => Inv'
    BY NextTypeOK, NextStopInv, NextSeenInTime, NextFinalInv
  <1>3. Inv /\ [Next]_vars =>
          [clients = "serial" /\ row.status = "cancelled" /\ overlapped = {} =>
             row'.status \in {"cancelled", "queued", "absent"}]_vars
    BY CancelledStays
  <1> HIDE DEF Inv
  <1> QED
    BY <1>1, <1>2, <1>3, PTL DEF Spec, StopIsFinal
=============================================================================
