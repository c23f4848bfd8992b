--------------------------- MODULE ExecutionControl ---------------------------
(***************************************************************************)
(* The control plane of ONE execution: the API requests that create, stop, *)
(* rerun and delete it, the background asyncio tasks that run it, the      *)
(* in-memory ExecutionRegistry they meet in, and the execution's database  *)
(* row with its report.  Every registry entry and every row is keyed by    *)
(* the execution's id, so executions do not influence one another.         *)
(*                                                                         *)
(* An action is the code between two awaits: the event loop may run any    *)
(* other request or task at an await, and nothing in between.  Database    *)
(* reads and commits are steps of their own, because each request and each *)
(* task works on a session that keeps what it loaded (expire_on_commit is  *)
(* off) and writes only the columns it changed.  A flush and its commit    *)
(* are one step: the flush holds the row's lock until the commit, and a    *)
(* commit under way when its task is cancelled counts as done before.      *)
(***************************************************************************)
EXTENDS Naturals, FiniteSets

CONSTANTS
    Tasks,      \* background tasks that may be scheduled for the execution
    Requests,   \* API requests; each is used once, which bounds the workload
    Kinds,      \* the kinds of request the clients send, besides "create"
    Manners,    \* how the clients may behave: each behaviour has one of these
    MaxCrashes, \* bound on server restarts
    NoTask      \* registry dictionaries: no entry for this execution

Active   == {"queued", "running"}
Verdicts == {"passed", "failed"}
Finished == Verdicts \cup {"error", "cancelled"}

\* "unborn": not created yet, "absent": the row was deleted.
Statuses == {"unborn", "absent"} \cup Active \cup Finished

AllKinds == {"stop", "rerun", "delete", "clear_failed", "clear_history"}

\* "page": Stop and Re-run only when the execution page offers them; "serial":
\* a request is sent when all others are answered; "any": no restriction.
AllManners == {"any", "page", "serial"}

ASSUME NoTaskAssumption     == NoTask \notin Tasks
ASSUME KindsAssumption      == Kinds \subseteq AllKinds
ASSUME MannersAssumption    == Manners \subseteq AllManners
ASSUME MaxCrashesAssumption == MaxCrashes \in Nat

VARIABLES
    row,        \* the execution's committed row: its status, whether it has a report
    pc,         \* where each task is suspended
    loaded,     \* the status in each task's session
    killed,     \* task.cancel() was called, CancelledError not delivered yet
    cancelled,  \* ExecutionRegistry._cancelled contains the execution
    taskReg,    \* ExecutionRegistry._tasks
    contextReg, \* ExecutionRegistry._contexts: the task whose context is registered
    open,       \* tasks whose browser context is open
    req,        \* the API requests
    clients,    \* how the clients of this behaviour send requests; never changes
    overlapped, \* history: tasks that were alive at the same time as another one
    crashes     \* server restarts so far

registry    == <<cancelled, taskReg, contextReg, open>>
taskVars    == <<pc, loaded, killed>>
requestVars == <<req, clients, overlapped, crashes>>
vars        == <<row, taskVars, registry, requestVars>>

-----------------------------------------------------------------------------
(* Where a task may be suspended.                                          *)

\* run_execution before its try block: no clear_cancel on the way out
BeforeTry == {"loading", "preparing", "marking", "started", "stopping_early"}

InBrowser == {"stepping", "validating"}

\* leaving "async with new_context", by a verdict, an error or a stop
Closing == {"closing_verdict", "closing_error", "closing_broken", "closing_stop"}

\* inside the try block, without an open "async with new_context"
InTry == {"parsing", "finalizing", "tail", "stopping", "erroring", "unwinding"}
            \cup Closing

\* the except clause of run_execution_background
Crashed == {"crashed", "marking_error"}

Alive == {"scheduled", "launching", "leaving"}
            \cup BeforeTry \cup InBrowser \cup InTry \cup Crashed

PCs == {"none", "done"} \cup Alive

\* past the commit of RUNNING and before the commit of a final status
RunningPCs == {"started", "parsing", "launching", "finalizing"}
                 \cup InBrowser \cup Closing

Phases == {"new", "loaded", "resetting", "committed", "closing", "done"}

\* What a request has loaded: the status, and whether there is a report.
RequestType == [kind : AllKinds \cup {"create"}, phase : Phases,
                seen : Statuses, report : BOOLEAN]

TypeOK ==
    /\ row \in [status : Statuses, report : BOOLEAN]
    /\ pc \in [Tasks -> PCs]
    /\ loaded \in [Tasks -> Statuses]
    /\ killed \in [Tasks -> BOOLEAN]
    /\ cancelled \in BOOLEAN
    /\ taskReg \in Tasks \cup {NoTask}
    /\ contextReg \in Tasks \cup {NoTask}
    /\ open \subseteq Tasks
    /\ req \in [Requests -> RequestType]
    /\ clients \in AllManners
    /\ overlapped \subseteq Tasks
    /\ crashes \in 0..MaxCrashes

NewRequest == [kind |-> "create", phase |-> "new", seen |-> "unborn", report |-> FALSE]

Init ==
    /\ row = [status |-> "unborn", report |-> FALSE]
    /\ pc = [t \in Tasks |-> "none"]
    /\ loaded = [t \in Tasks |-> "unborn"]
    /\ killed = [t \in Tasks |-> FALSE]
    /\ cancelled = FALSE
    /\ taskReg = NoTask
    /\ contextReg = NoTask
    /\ open = {}
    /\ req = [r \in Requests |-> NewRequest]
    /\ clients \in Manners
    /\ overlapped = {}
    /\ crashes = 0

-----------------------------------------------------------------------------
(* Helpers.                                                                *)

Exists == row.status \notin {"unborn", "absent"}

\* SQLAlchemy leaves a column out of the UPDATE when the session's value does
\* not change: the committed one stays, whatever it became meanwhile.
Flushed(inSession, new) == IF inSession = new THEN row.status ELSE new

\* task.done()
Done(t) == pc[t] \in {"none", "done"}

\* A task runs on from its await unless a CancelledError is waiting for it.
At(t, places) == pc[t] \in places /\ ~killed[t]

GoTo(t, place) == pc' = [pc EXCEPT ![t] = place]

\* "finally: clear_cancel": run_execution forgets the stop flag.
ClearCancel == cancelled' = FALSE /\ UNCHANGED <<taskReg, contextReg, open>>

\* "finally" of new_context: the entry is popped by id, whoever owns it.
ExitContext(t) ==
    /\ contextReg' = NoTask
    /\ open' = open \ {t}
    /\ UNCHANGED <<cancelled, taskReg>>

-----------------------------------------------------------------------------
(* API requests.                                                           *)

\* The answer is sent and the request's session closed.
Closed(q) == [q EXCEPT !.phase = "done", !.seen = "unborn", !.report = FALSE]
Answer(r) == req' = [req EXCEPT ![r] = Closed(@)]

\* Which unused slot a new request or task gets makes no difference.
Fresh(r) == req[r].phase = "new" /\ r = CHOOSE q \in Requests : req[q].phase = "new"
Unused(t) == pc[t] = "none" /\ t = CHOOSE u \in Tasks : pc[u] = "none"

\* POST /executions: create_execution and the commit; the task is scheduled
\* only after the commit returned.
CreateExecution(r) ==
    /\ Fresh(r)
    /\ row.status = "unborn"
    /\ row' = [row EXCEPT !.status = "queued"]
    /\ req' = [req EXCEPT ![r] = [NewRequest EXCEPT !.phase = "committed"]]
    /\ UNCHANGED <<taskVars, registry, clients, overlapped, crashes>>

\* Runs asked for so far: what bounds the reruns by the number of tasks.
Runs == Cardinality({r \in Requests : req[r].phase # "new"
                                        /\ req[r].kind \in {"create", "rerun"}})

Answered(r) == req[r].phase \in {"new", "done"}

\* The requests the clients send in this workload.
Offered(kind) ==
    /\ kind \in Kinds
    /\ clients = "serial" => \A q \in Requests : Answered(q)
    /\ clients = "page" /\ kind = "stop"  => row.status \in Active
    /\ clients = "page" /\ kind = "rerun" => row.status \in Finished
    /\ kind = "rerun" => Runs < Cardinality(Tasks)

\* Any other request begins by loading the execution in its own session; it
\* answers 404 when there is none.
LoadExecution(r) ==
    /\ Fresh(r)
    /\ row.status # "unborn"
    /\ \E kind \in AllKinds :
         /\ Offered(kind)
         /\ LET q == [kind |-> kind, phase |-> "loaded",
                      seen |-> row.status, report |-> FALSE]
            IN  req' = [req EXCEPT ![r] = IF Exists THEN q ELSE Closed(q)]
    /\ UNCHANGED <<row, taskVars, registry, clients, overlapped, crashes>>

\* Mutant: the new task is not registered when the old entry is still there.
ScheduleKeepingEntry(r) ==
    /\ req[r].phase = "committed"
    /\ \E t \in Tasks :
         /\ Unused(t)
         /\ GoTo(t, "scheduled")
         /\ taskReg' = IF taskReg = NoTask THEN t ELSE taskReg
         /\ LET others == {u \in Tasks : pc[u] \in Alive}
            IN  overlapped' = IF others = {} THEN overlapped
                              ELSE overlapped \cup others \cup {t}
    /\ Answer(r)
    /\ UNCHANGED <<row, loaded, killed, cancelled, contextReg, open, clients, crashes>>

\* schedule_execution_run: a new task, registered in place of the old one.
ScheduleRun(r) ==
    /\ req[r].phase = "committed"
    /\ \E t \in Tasks :
         /\ Unused(t)
         /\ GoTo(t, "scheduled")
         /\ taskReg' = t
         /\ LET others == {u \in Tasks : pc[u] \in Alive}
            IN  overlapped' = IF others = {} THEN overlapped
                              ELSE overlapped \cup others \cup {t}
    /\ Answer(r)
    /\ UNCHANGED <<row, loaded, killed, cancelled, contextReg, open, clients, crashes>>

\* Mutant: stop sets the flag and closes the browser, without cancel_task.
StopWithoutCancel(r) ==
    /\ req[r].kind = "stop" /\ req[r].phase = "loaded"
    /\ IF req[r].seen \in Finished
       THEN Answer(r) /\ UNCHANGED registry
       ELSE /\ req' = [req EXCEPT ![r].phase = "closing"]
            /\ cancelled' = TRUE
            /\ contextReg' = NoTask
            /\ open' = open \ {contextReg}
            /\ UNCHANGED taskReg
    /\ UNCHANGED <<row, taskVars, clients, overlapped, crashes>>

\* stop_execution up to its await: refuse a finished execution, else set the
\* flag, cancel the registered task and close the registered context.
StopSignal(r) ==
    /\ req[r].kind = "stop" /\ req[r].phase = "loaded"
    /\ IF req[r].seen \in Finished
       THEN /\ Answer(r)
            /\ UNCHANGED <<killed, registry>>
       ELSE /\ req' = [req EXCEPT ![r].phase = "closing"]
            /\ cancelled' = TRUE
            /\ killed' = [t \in Tasks |-> killed[t] \/ (t = taskReg /\ ~Done(t))]
            /\ contextReg' = NoTask
            /\ open' = open \ {contextReg}
            /\ UNCHANGED taskReg
    /\ UNCHANGED <<row, pc, loaded, clients, overlapped, crashes>>

\* Mutant: only a RUNNING execution is finalized.
StopFinalizeRunning(r) ==
    /\ req[r].kind = "stop" /\ req[r].phase = "closing"
    /\ row' = IF Exists /\ req[r].seen = "running"
              THEN [row EXCEPT !.status = "cancelled"] ELSE row
    /\ Answer(r)
    /\ UNCHANGED <<taskVars, registry, clients, overlapped, crashes>>

\* Mutant: the row is finalized only when the registry knows a task.
StopFinalizeRegistered(r) ==
    /\ req[r].kind = "stop" /\ req[r].phase = "closing"
    /\ row' = IF Exists /\ taskReg # NoTask
              THEN [row EXCEPT !.status = Flushed(req[r].seen, "cancelled")] ELSE row
    /\ Answer(r)
    /\ UNCHANGED <<taskVars, registry, clients, overlapped, crashes>>

\* stop_execution after close_context: _finalize_cancelled on what the request
\* loaded at its start, and the commit.  On a deleted row the UPDATE fails.
StopFinalize(r) ==
    /\ req[r].kind = "stop" /\ req[r].phase = "closing"
    /\ row' = IF Exists /\ req[r].seen \in Active
              THEN [row EXCEPT !.status = Flushed(req[r].seen, "cancelled")]
              ELSE row
    /\ Answer(r)
    /\ UNCHANGED <<taskVars, registry, clients, overlapped, crashes>>

\* A DELETE of the report that is not committed yet makes another one wait.
ReportLocked ==
    \E q \in Requests : req[q].phase = "resetting" /\ req[q].report

\* rerun_execution: the guard, clear_cancel and the DELETE of the report it
\* can see; nothing is committed yet.
RerunReset(r) ==
    /\ req[r].kind = "rerun" /\ req[r].phase = "loaded"
    /\ IF req[r].seen = "running"
       THEN /\ Answer(r)
            /\ UNCHANGED registry
       ELSE /\ ~ReportLocked
            /\ req' = [req EXCEPT ![r].phase = "resetting", ![r].report = row.report]
            /\ ClearCancel
    /\ UNCHANGED <<row, taskVars, clients, overlapped, crashes>>

\* Mutant: reset_for_rerun deletes the report and leaves the status.
RerunCommitNoStatus(r) ==
    /\ req[r].kind = "rerun" /\ req[r].phase = "resetting"
    /\ row' = [row EXCEPT !.report = row.report /\ ~req[r].report]
    /\ req' = [req EXCEPT ![r].phase = IF Exists THEN "committed" ELSE "done"]
    /\ UNCHANGED <<taskVars, registry, clients, overlapped, crashes>>

\* reset_for_rerun's status and the commit; a deleted row fails the refresh.
RerunCommit(r) ==
    /\ req[r].kind = "rerun" /\ req[r].phase = "resetting"
    /\ IF Exists
       THEN /\ row' = [status |-> Flushed(req[r].seen, "queued"),
                       report |-> row.report /\ ~req[r].report]
            /\ req' = [req EXCEPT ![r].phase = "committed"]
       ELSE /\ Answer(r)
            /\ UNCHANGED row
    /\ UNCHANGED <<taskVars, registry, clients, overlapped, crashes>>

\* The statuses each kind of deletion accepts.
Deletable(kind) ==
    CASE kind = "delete"        -> Statuses \ ({"unborn", "absent"} \cup Active)
      [] kind = "clear_failed"  -> {"failed", "error"}
      [] kind = "clear_history" -> Finished
      [] OTHER                  -> {}

\* delete_execution, clear_failed_executions, clear_execution_history: the
\* DELETEs name the id only, not the status that was checked.
DeleteRows(r) ==
    /\ req[r].kind \in {"delete", "clear_failed", "clear_history"}
    /\ req[r].phase = "loaded" /\ ~ReportLocked
    /\ row' = IF req[r].seen \in Deletable(req[r].kind)
              THEN [status |-> "absent", report |-> FALSE] ELSE row
    /\ Answer(r)
    /\ UNCHANGED <<taskVars, registry, clients, overlapped, crashes>>

Request(r) ==
    \/ CreateExecution(r) \/ LoadExecution(r) \/ ScheduleRun(r)
    \/ StopSignal(r) \/ StopFinalize(r)
    \/ RerunReset(r) \/ RerunCommit(r) \/ DeleteRows(r)

-----------------------------------------------------------------------------
(* The background task, run_execution_background.                          *)

\* First step of the task: run_execution clears the stop flag.
BeginRun(t) ==
    /\ At(t, {"scheduled"})
    /\ GoTo(t, "loading")
    /\ ClearCancel
    /\ UNCHANGED <<row, loaded, killed, requestVars>>

\* The row is loaded (or not found after the retries); a stop flag set since
\* then finalizes the execution as cancelled.
LoadRun(t) ==
    /\ At(t, {"loading"})
    /\ loaded' = [loaded EXCEPT ![t] = row.status]
    /\ GoTo(t, IF ~Exists THEN "leaving"
               ELSE IF cancelled THEN "stopping_early" ELSE "preparing")
    /\ UNCHANGED <<row, killed, registry, requestVars>>

\* The scenario, the org and its credentials are loaded, or one of them fails,
\* which leaves run_execution before its try block.
PrepareRun(t) ==
    /\ At(t, {"preparing"})
    /\ \E place \in {"marking", "crashed"} : GoTo(t, place)
    /\ UNCHANGED <<row, loaded, killed, registry, requestVars>>

\* Commit of RUNNING, still outside the try block.
MarkRunning(t) ==
    /\ At(t, {"marking"})
    /\ IF Exists
       THEN LET status == Flushed(loaded[t], "running")
            IN  /\ row' = [row EXCEPT !.status = status]
                /\ loaded' = [loaded EXCEPT ![t] = status]
                /\ GoTo(t, "started")
       ELSE GoTo(t, "crashed") /\ UNCHANGED <<row, loaded>>
    /\ UNCHANGED <<killed, registry, requestVars>>

\* Events, files and library snapshots, then the try block begins.
EnterTry(t) ==
    /\ At(t, {"started"})
    /\ GoTo(t, "parsing")
    /\ UNCHANGED <<row, loaded, killed, registry, requestVars>>

\* check_cancelled before the parser and before the planner.
CheckBeforePlan(t) ==
    /\ At(t, {"parsing"}) /\ cancelled
    /\ GoTo(t, "stopping")
    /\ UNCHANGED <<row, loaded, killed, registry, requestVars>>

\* The plan is committed: status RUNNING again, and the refresh that follows
\* the flush reads what other sessions committed meanwhile.
CommitPlan(t) ==
    /\ At(t, {"parsing"}) /\ Exists
    /\ LET status == Flushed(loaded[t], "running")
       IN  /\ row' = [row EXCEPT !.status = status]
           /\ loaded' = [loaded EXCEPT ![t] = status]
    /\ GoTo(t, "launching")
    /\ UNCHANGED <<killed, registry, requestVars>>

\* The browser context is open and registered.
OpenContext(t) ==
    /\ At(t, {"launching"})
    /\ contextReg' = t
    /\ open' = open \cup {t}
    /\ GoTo(t, "stepping")
    /\ UNCHANGED <<row, loaded, killed, cancelled, taskReg, requestVars>>

\* check_cancelled in the step loop, in the executor, or after an error.
CheckInLoop(t) ==
    /\ At(t, {"stepping"}) /\ cancelled
    /\ GoTo(t, "closing_stop")
    /\ ExitContext(t)
    /\ UNCHANGED <<row, loaded, killed, requestVars>>

\* The step loop ends: all steps ran, or a failed one broke out of it.
EndSteps(t) ==
    /\ At(t, {"stepping"})
    /\ GoTo(t, "validating")
    /\ UNCHANGED <<row, loaded, killed, registry, requestVars>>

Validate(t) ==
    /\ At(t, {"validating"})
    /\ GoTo(t, "closing_verdict")
    /\ ExitContext(t)
    /\ UNCHANGED <<row, loaded, killed, requestVars>>

\* An exception while the context is open: of the browser, of the model, or of
\* the session, which is then unusable until it is rolled back.
FailInBrowser(t) ==
    /\ At(t, InBrowser)
    /\ \E place \in {"closing_error", "closing_broken"} : GoTo(t, place)
    /\ ExitContext(t)
    /\ UNCHANGED <<row, loaded, killed, requestVars>>

\* The context is closed; the verdict, the stop or the exception goes on.
ContextClosed(t) ==
    /\ At(t, Closing \ {"closing_broken"})
    /\ GoTo(t, CASE pc[t] = "closing_verdict" -> "finalizing"
                 [] pc[t] = "closing_stop"    -> "stopping"
                 [] OTHER -> IF cancelled THEN "stopping" ELSE "erroring")
    /\ UNCHANGED <<row, loaded, killed, registry, requestVars>>

\* "except Exception": a stop that closed the browser is not an error.
FailRun(t) ==
    /\ At(t, {"parsing", "closing_verdict"})
    /\ GoTo(t, IF cancelled THEN "stopping" ELSE "erroring")
    /\ UNCHANGED <<row, loaded, killed, registry, requestVars>>

\* Between new_context and register_context there is one more await
\* (new_page): a context that was opened is neither registered nor closed.
FailLaunch(t) ==
    /\ At(t, {"launching"})
    /\ \E leak \in SUBSET {t} : open' = open \cup leak
    /\ GoTo(t, IF cancelled THEN "stopping" ELSE "erroring")
    /\ UNCHANGED <<row, loaded, killed, cancelled, taskReg, contextReg, requestVars>>

\* A failed flush leaves a session no except clause can commit with: the
\* handler itself raises, past "finally: clear_cancel".
BreakSession(t) ==
    /\ \/ At(t, {"closing_broken"})
       \/ At(t, {"finalizing"}) /\ row.report
       \/ At(t, {"parsing", "finalizing", "stopping", "erroring"}) /\ ~Exists
    /\ GoTo(t, "crashed")
    /\ ClearCancel
    /\ UNCHANGED <<row, loaded, killed, requestVars>>

\* _finalize_execution_report: final status and report in one commit.  The
\* report's execution_id is unique, so a second report fails (BreakSession).
CommitReport(t) ==
    /\ At(t, {"finalizing"}) /\ Exists /\ ~row.report
    /\ \E verdict \in Verdicts :
         row' = [status |-> Flushed(loaded[t], verdict), report |-> TRUE]
    /\ GoTo(t, "tail")
    /\ UNCHANGED <<loaded, killed, registry, requestVars>>

\* What follows the last commit (knowledge graph, root cause analysis, last
\* event), then "finally: clear_cancel".
FinishTail(t) ==
    /\ At(t, {"tail"})
    /\ GoTo(t, "leaving")
    /\ ClearCancel
    /\ UNCHANGED <<row, loaded, killed, requestVars>>

\* "except ExecutionCancelled": _finalize_cancelled and the commit.
CommitCancelled(t) ==
    /\ At(t, {"stopping", "stopping_early"}) /\ Exists
    /\ row' = [row EXCEPT !.status = Flushed(loaded[t], "cancelled")]
    /\ GoTo(t, IF pc[t] = "stopping" THEN "tail" ELSE "leaving")
    /\ UNCHANGED <<loaded, killed, registry, requestVars>>

CommitError(t) ==
    /\ At(t, {"erroring"}) /\ Exists
    /\ row' = [row EXCEPT !.status = Flushed(loaded[t], "error")]
    /\ GoTo(t, "tail")
    /\ UNCHANGED <<loaded, killed, registry, requestVars>>

\* stopping_early is outside the try block: its failure keeps the flag.
FailEarlyStop(t) ==
    /\ At(t, {"stopping_early"}) /\ ~Exists
    /\ GoTo(t, "crashed")
    /\ UNCHANGED <<row, loaded, killed, registry, requestVars>>

\* Mutant: a crashed run is only reported, the row is not looked at.
HandleCrashSilently(t) ==
    /\ At(t, {"crashed"})
    /\ GoTo(t, "leaving")
    /\ UNCHANGED <<row, loaded, killed, registry, requestVars>>

\* run_execution_background: a flagged execution is left to the stop request,
\* otherwise a new session looks at the row.
HandleCrash(t) ==
    /\ At(t, {"crashed"})
    /\ loaded' = [loaded EXCEPT ![t] = row.status]
    /\ GoTo(t, IF cancelled \/ row.status \notin Active
               THEN "leaving" ELSE "marking_error")
    /\ UNCHANGED <<row, killed, registry, requestVars>>

\* A failure of this last commit is logged and swallowed.
MarkError(t) ==
    /\ At(t, {"marking_error"})
    /\ row' = IF Exists THEN [row EXCEPT !.status = Flushed(loaded[t], "error")] ELSE row
    /\ GoTo(t, "leaving")
    /\ UNCHANGED <<loaded, killed, registry, requestVars>>

\* "finally: unregister_task", by id; the task is done.
LeaveTask(t) ==
    /\ pc[t] = "leaving"
    /\ GoTo(t, "done")
    /\ loaded' = [loaded EXCEPT ![t] = "unborn"]
    /\ killed' = [killed EXCEPT ![t] = FALSE]
    /\ taskReg' = NoTask
    /\ UNCHANGED <<row, cancelled, contextReg, open, requestVars>>

-----------------------------------------------------------------------------
(* CancelledError is delivered at the await where the task is suspended.   *)

Deliver(t) == killed[t] /\ killed' = [killed EXCEPT ![t] = FALSE]

\* A task that never ran has no finally block to run: its entry stays.
KillUnstarted(t) ==
    /\ pc[t] = "scheduled" /\ Deliver(t)
    /\ GoTo(t, "done")
    /\ UNCHANGED <<row, loaded, registry, requestVars>>

KillOutsideTry(t) ==
    /\ pc[t] \in BeforeTry \cup Crashed /\ Deliver(t)
    /\ GoTo(t, "leaving")
    /\ UNCHANGED <<row, loaded, registry, requestVars>>

KillInTry(t) ==
    /\ pc[t] \in InTry /\ Deliver(t)
    /\ GoTo(t, "leaving")
    /\ ClearCancel
    /\ UNCHANGED <<row, loaded, requestVars>>

\* As FailLaunch, then "finally: clear_cancel".
KillLaunching(t) ==
    /\ pc[t] = "launching" /\ Deliver(t)
    /\ \E leak \in SUBSET {t} : open' = open \cup leak
    /\ cancelled' = FALSE
    /\ GoTo(t, "leaving")
    /\ UNCHANGED <<row, loaded, taskReg, contextReg, requestVars>>

KillInBrowser(t) ==
    /\ pc[t] \in InBrowser /\ Deliver(t)
    /\ GoTo(t, "unwinding")
    /\ ExitContext(t)
    /\ UNCHANGED <<row, loaded, requestVars>>

\* The context of a cancelled task is closed, then "finally: clear_cancel".
Unwind(t) ==
    /\ At(t, {"unwinding"})
    /\ GoTo(t, "leaving")
    /\ ClearCancel
    /\ UNCHANGED <<row, loaded, killed, requestVars>>

Kill(t) ==
    \/ KillUnstarted(t) \/ KillOutsideTry(t) \/ KillInTry(t)
    \/ KillLaunching(t) \/ KillInBrowser(t)

Run(t) ==
    \/ BeginRun(t) \/ LoadRun(t) \/ PrepareRun(t) \/ MarkRunning(t) \/ EnterTry(t)
    \/ CheckBeforePlan(t) \/ CommitPlan(t) \/ OpenContext(t) \/ CheckInLoop(t)
    \/ EndSteps(t) \/ Validate(t) \/ FailInBrowser(t) \/ ContextClosed(t)
    \/ FailRun(t) \/ FailLaunch(t) \/ BreakSession(t) \/ CommitReport(t) \/ FinishTail(t)
    \/ CommitCancelled(t) \/ CommitError(t) \/ FailEarlyStop(t)
    \/ HandleCrash(t) \/ MarkError(t) \/ Unwind(t)

-----------------------------------------------------------------------------
(* The server process dies and restarts: what is in memory is lost, the    *)
(* committed rows stay.  The start-up code does not look at executions.    *)
Restart ==
    /\ crashes < MaxCrashes
    /\ crashes' = crashes + 1
    /\ pc' = [t \in Tasks |-> IF pc[t] = "none" THEN "none" ELSE "done"]
    /\ loaded' = [t \in Tasks |-> "unborn"]
    /\ killed' = [t \in Tasks |-> FALSE]
    /\ cancelled' = FALSE
    /\ taskReg' = NoTask
    /\ contextReg' = NoTask
    /\ open' = {}
    /\ req' = [r \in Requests |-> IF req[r].phase = "new" THEN req[r]
                                  ELSE Closed(req[r])]
    /\ UNCHANGED <<row, clients, overlapped>>

Next ==
    \/ \E r \in Requests : Request(r)
    \/ \E t \in Tasks : Run(t) \/ Kill(t) \/ LeaveTask(t)
    \/ Restart

Spec == Init /\ [][Next]_vars

\* A request that was accepted and a task that is runnable are resumed by the
\* event loop sooner or later; every outside call they await is bounded by a
\* timeout.  Nothing obliges a client to send a request.
Fairness ==
    /\ \A r \in Requests : WF_vars(req[r].phase # "new" /\ Request(r))
    /\ \A t \in Tasks : WF_vars(Run(t) \/ Kill(t) \/ LeaveTask(t))

FairSpec == Spec /\ Fairness

-----------------------------------------------------------------------------
(* Properties.                                                             *)

\* A task that will still commit a final status, unless it is killed.
Driving(t) ==
    /\ pc[t] \in Alive \ {"tail", "unwinding", "leaving"}
    /\ ~killed[t]

Orphan ==
    /\ row.status \in Active
    /\ \A t \in Tasks : ~Driving(t)
    /\ \A r \in Requests : req[r].phase \notin {"committed", "closing"}

\* No execution is left QUEUED or RUNNING with nobody to finish it: whatever
\* order stop, rerun, delete and the tasks' ends come in, a live task or a
\* request under way will still commit a final status.  Only a restart of the
\* server (which does not look at executions) can leave one behind.
NoOrphan == Orphan => crashes > 0

\* While only one task of the execution has been alive at a time, stop finds
\* it: the registry's entry is this task's, and so is the registered context,
\* although every entry is set and dropped by execution id alone.
StopReachesTask ==
    \A t \in Tasks : pc[t] \in Alive /\ t \notin overlapped =>
        /\ taskReg = t
        /\ pc[t] \in InBrowser /\ t \in open => contextReg = t

\* With reruns offered as the page does, a row that says PASSED or FAILED has
\* its report: no order of reset, delete and second run separates the two.
VerdictHasReport ==
    clients = "page" /\ row.status \in Verdicts => row.report

\* With one request at a time, a CANCELLED execution is left only by a rerun
\* or a deletion: the stopped task never writes its own outcome over it, unless
\* a rerun made two tasks overlap.
StopIsFinal ==
    [][clients = "serial" /\ row.status = "cancelled" /\ overlapped = {} =>
         row'.status \in {"cancelled", "queued", "absent"}]_vars

Idle == /\ \A t \in Tasks : Done(t)
        /\ \A r \in Requests : Answered(r)

\* Every execution comes to rest with a final status (or deleted), unless a
\* restart of the server cut it short.
Settles == <>[](Idle /\ (row.status \in Active => crashes > 0))

\* After a restart the flag, task and context of a stop request are gone; it
\* still takes the row out of QUEUED or RUNNING.
StopEndsOrphan ==
    (\E r \in Requests : /\ req[r].kind = "stop" /\ req[r].phase = "closing"
                         /\ crashes = MaxCrashes)
        ~> row.status \notin Active

\* What rerun_execution says of itself: "Cannot rerun while execution is
\* running" (execution_service.py:218).
NoRerunWhileRunning ==
    \A r \in Requests : req[r].kind = "rerun" /\ req[r].phase = "committed"
        => \A t \in Tasks : pc[t] \notin RunningPCs
=============================================================================
