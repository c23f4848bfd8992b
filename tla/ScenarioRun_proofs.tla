-------------------------- MODULE ScenarioRun_proofs --------------------------
(***************************************************************************)
(* Theorems about ScenarioRun, for any number of steps, any login steps,   *)
(* any limit of retries and any number of runs.                            *)
(***************************************************************************)
EXTENDS ScenarioRun, SequenceTheorems, WellFoundedInduction, TLAPS

-----------------------------------------------------------------------------
(* Lemmas about the data.                                                  *)

\* The first step that has not passed exists, also when all have.
LEMMA FirstOpenExists ==
    ASSUME TypeOK
    PROVE  FirstOpen \in 1..(N + 1)
  <1> DEFINE S == {i \in 1..(N + 1) : i = N + 1 \/ rows[i] # "passed"}
  <1>1. N \in Nat /\ N + 1 \in S /\ S \subseteq Nat
    BY StepsAssumption
  <1>2. PICK m \in S : \A n \in S : ~ (<<n, m>> \in OpToRel(<, Nat))
    BY <1>1, NatLessThanWellFounded, WFMin
  <1>3. \A s \in 1..(m - 1) : s < m /\ s \in 1..(N + 1) /\ s # N + 1
    BY <1>1
  <1>4. \A s \in 1..(m - 1) : rows[s] = "passed"
    <2>1. \A n \in S : ~(n < m)
      BY <1>1, <1>2 DEF OpToRel
    <2> QED
      BY <1>3, <2>1
  <1>5. \E i \in 1..(N + 1) : /\ i = N + 1 \/ rows[i] # "passed"
                              /\ \A s \in 1..(i - 1) : rows[s] = "passed"
    BY <1>4
  <1> HIDE DEF S
  <1> QED
    BY <1>5 DEF FirstOpen

\* The sets of values, as the proofs use them.
LEMMA Sets ==
    /\ N \in Nat /\ 1 \in 1..(N + 1) /\ N + 1 \in 1..(N + 1)
    /\ Steps \subseteq 1..(N + 1) /\ Bootstrap \subseteq Steps
    /\ \A s \in Steps : s + 1 \in 1..(N + 1) /\ s \in Nat
    /\ {"queued", "running", "passed", "failed", "error", "cancelled"} \subseteq Statuses
    /\ {"none", "pending", "running", "passed", "failed", "skipped"} \subseteq RowStatuses
    /\ {"idle", "planning", "bootstrap", "loop", "attempt", "write", "validating"} \subseteq PCs
    /\ 0 \in 0..MaxRetries /\ 0 \in 0..MaxRuns /\ MaxRetries \in Nat
    /\ <<>> \in Seq(Results)
  BY StepsAssumption, BootstrapAssumption, RetriesAssumption, EmptySeq
  DEF Steps, Statuses, Finals, RowStatuses, PCs

LEMMA MainAreSteps == ASSUME TypeOK PROVE MainSteps \subseteq Steps
  BY StepsAssumption DEF TypeOK, MainSteps, Steps

LEMMA InitTypeOK == Init => TypeOK
  <1> SUFFICES ASSUME Init PROVE TypeOK
    OBVIOUS
  <1> USE Sets DEF Init
  <1>1. status \in Statuses /\ pc \in PCs /\ rows \in [Steps -> RowStatuses]
    OBVIOUS
  <1>2. first \in 1..(N + 1) /\ cur \in 1..(N + 1) /\ booting \in BOOLEAN /\ error \in BOOLEAN
    OBVIOUS
  <1>3. tries \in 0..MaxRetries /\ retry \in [Steps -> 0..MaxRetries]
    OBVIOUS
  <1>4. results \in Seq(Results) /\ runs \in 0..MaxRuns
    OBVIOUS
  <1>5. session \subseteq Steps /\ passed \subseteq Steps /\ count \in [Steps -> Nat]
    OBVIOUS
  <1> QED
    BY <1>1, <1>2, <1>3, <1>4, <1>5 DEF TypeOK

\* The results with one more.
LEMMA AppendedResult ==
    ASSUME TypeOK, NEW st \in {"passed", "failed"}, cur \in Steps,
           results' = Append(results, [seq |-> cur, status |-> st])
    PROVE  /\ results' \in Seq(Results) /\ results' # <<>>
           /\ Last(results').status = st
           /\ HasFailed' <=> HasFailed \/ st = "failed"
  <1> DEFINE r == [seq |-> cur, status |-> st]
  <1>1. r \in Results /\ results \in Seq(Results)
    BY DEF TypeOK, Results
  <1>2. /\ results' \in Seq(Results) /\ Len(results') = Len(results) + 1
        /\ \A i \in 1..Len(results) : results'[i] = results[i]
        /\ results'[Len(results) + 1] = r
    BY <1>1, AppendProperties
  <1>3. /\ Len(results) \in Nat /\ DOMAIN results = 1..Len(results)
        /\ DOMAIN results' = 1..(Len(results) + 1)
    BY <1>1, <1>2, LenProperties
  <1>4. r.status = st
    OBVIOUS
  <1> HIDE DEF r
  <1>5. results' # <<>> /\ Last(results').status = st
    BY <1>2, <1>3, <1>4, EmptySeq DEF Last
  <1>6. DOMAIN results' = DOMAIN results \cup {Len(results) + 1}
    BY <1>3
  <1>7. HasFailed' <=> HasFailed \/ st = "failed"
    BY <1>2, <1>3, <1>4, <1>6 DEF HasFailed
  <1> QED
    BY <1>2, <1>5, <1>7

-----------------------------------------------------------------------------
(* Type correctness.                                                       *)

\* A step that is executed is a step.
AtAStep == pc \in {"attempt", "write"} => cur \in Steps

LEMMA NextTypeOK == TypeOK /\ AtAStep /\ [Next]_vars => (TypeOK /\ AtAStep)'
  <1> SUFFICES ASSUME TypeOK, AtAStep, [Next]_vars PROVE (TypeOK /\ AtAStep)'
    OBVIOUS
  <1> USE Sets DEF TypeOK, AtAStep
  <1>1. CASE UNCHANGED vars
    BY <1>1 DEF vars, runState, history
  <1>2. CASE StartRun
    <2> USE <1>2 DEF StartRun
    <2>1. status' \in Statuses /\ pc' \in PCs /\ rows' \in [Steps -> RowStatuses]
      OBVIOUS
    <2>2. first' \in 1..(N + 1) /\ cur' \in 1..(N + 1) /\ booting' \in BOOLEAN /\ error' \in BOOLEAN
      OBVIOUS
    <2>3. tries' \in 0..MaxRetries /\ retry' \in [Steps -> 0..MaxRetries]
      OBVIOUS
    <2>4. results' \in Seq(Results) /\ runs' \in 0..MaxRuns
      BY RetriesAssumption
    <2>5. session' \subseteq Steps /\ passed' \subseteq Steps /\ count' \in [Steps -> Nat]
      OBVIOUS
    <2> QED
      BY <2>1, <2>2, <2>3, <2>4, <2>5
  <1>3. CASE PlanAndOpen
    BY <1>3, FirstOpenExists DEF PlanAndOpen, history
  <1>4. ASSUME NEW s \in Steps, BeginStep(s) PROVE (TypeOK /\ AtAStep)'
    BY <1>4 DEF BeginStep, history
  <1>5. CASE BootstrapStep
    BY <1>4, <1>5 DEF BootstrapStep
  <1>6. CASE BootstrapDone
    BY <1>6 DEF BootstrapDone, history
  <1>7. CASE LoopStep
    BY <1>4, <1>7, MainAreSteps DEF LoopStep
  <1>8. CASE LoopSkip
    BY <1>8 DEF LoopSkip, history
  <1>9. CASE LoopDone
    BY <1>9 DEF LoopDone, runState, history
  <1>10. CASE AttemptPasses
    <2>1. cur \in Steps /\ results' \in Seq(Results)
      BY <1>10, AppendedResult DEF AttemptPasses
    <2>2. count' \in [Steps -> Nat] /\ retry' \in [Steps -> 0..MaxRetries]
      BY <1>10, <2>1 DEF AttemptPasses, Attempted
    <2>3. session' \subseteq Steps /\ passed' \subseteq Steps
      BY <1>10, <2>1 DEF AttemptPasses
    <2> QED
      BY <1>10, <2>1, <2>2, <2>3 DEF AttemptPasses
  <1>11. CASE AttemptFails
    BY <1>11 DEF AttemptFails, Attempted
  <1>12. CASE ExecuteFails
    <2>1. cur \in Steps /\ results' \in Seq(Results) /\ error' \in BOOLEAN
      BY <1>12, AppendedResult DEF ExecuteFails, GiveUp
    <2>2. retry' \in [Steps -> 0..MaxRetries]
      <3>1. retry[cur] \in 0..MaxRetries
        BY <2>1
      <3>2. CASE retry[cur] < MaxRetries
        <4>1. retry[cur] + 1 \in 0..MaxRetries /\ retry' = [retry EXCEPT ![cur] = @ + 1]
          BY <1>12, <3>1, <3>2 DEF ExecuteFails
        <4> QED
          BY <2>1, <4>1
      <3>3. CASE ~(retry[cur] < MaxRetries)
        BY <1>12, <3>3 DEF ExecuteFails
      <3> QED
        BY <3>2, <3>3
    <2> QED
      BY <1>12, <2>1, <2>2 DEF ExecuteFails, GiveUp, Attempted
  <1>13. CASE WriteRow
    <2>1. cur \in Steps /\ cur + 1 \in 1..(N + 1)
      BY <1>13 DEF WriteRow
    <2>2. rows' \in [Steps -> RowStatuses]
      <3>1. CASE results = <<>>
        BY <1>13, <3>1 DEF WriteRow
      <3>2. CASE results # <<>>
        <4>1. Last(results) \in Results
          BY <3>2, EmptySeq, LenProperties, ElementOfSeq DEF Last
        <4>2. Last(results).status \in RowStatuses
          BY <4>1 DEF Results
        <4> QED
          BY <1>13, <2>1, <3>2, <4>2 DEF WriteRow
      <3> QED
        BY <3>1, <3>2
    <2> QED
      BY <1>13, <2>1, <2>2 DEF WriteRow, history
  <1>14. CASE Validate
    BY <1>14 DEF Validate, runState, history
  <1>15. CASE RunError
    BY <1>15 DEF RunError, runState, history
  <1>16. CASE Stop
    BY <1>16 DEF Stop, runState, history
  <1>17. CASE RerunAll
    BY <1>17 DEF RerunAll, runState, history
  <1>18. ASSUME NEW s \in Steps, RerunFrom(s) \/ EditStep(s) PROVE (TypeOK /\ AtAStep)'
    BY <1>18 DEF RerunFrom, EditStep, runState, history
  <1> QED
    BY <1>1, <1>2, <1>3, <1>5, <1>6, <1>7, <1>8, <1>9, <1>10, <1>11, <1>12, <1>13,
       <1>14, <1>15, <1>16, <1>17, <1>18 DEF Next, Run, User

\* Every variable keeps its type; above all, no run makes more attempts of a
\* step, or asks for more rounds, than the limit.
THEOREM TypeCorrect == Spec => []TypeOK
  <1>1. Init => TypeOK /\ AtAStep
    BY InitTypeOK DEF Init, AtAStep
  <1>2. (TypeOK /\ AtAStep) /\ [Next]_vars => (TypeOK /\ AtAStep)'
    BY NextTypeOK
  <1> QED
    BY <1>1, <1>2, PTL DEF Spec

-----------------------------------------------------------------------------
(* The step loop.                                                          *)

\* Where the run is, and what its loops execute.
Shape ==
    /\ (pc # "idle") <=> (status = "running")
    /\ pc = "planning" => session = {} /\ ~booting
    /\ pc = "bootstrap" => booting
    /\ pc \in {"loop", "validating"} => ~booting
    /\ pc # "idle" /\ booting => Resumed /\ session \subseteq Bootstrap
    /\ pc \in {"attempt", "write"} => cur \in IF booting THEN Bootstrap ELSE MainSteps

\* The main loop has done what is behind it, and nothing of what is ahead.
Behind ==
    pc \in {"loop", "attempt", "write"} /\ ~booting =>
        \A s \in MainSteps :
            /\ s < cur => s \in session /\ rows[s] = "passed"
            /\ s > cur => s \notin session
            /\ s = cur /\ pc # "write" => s \notin session

\* No loop goes on after a failure.
NoFailureYet ==
    pc \in {"planning", "bootstrap", "loop", "attempt"} => ~HasFailed /\ ~error

\* When the executor returns, its result, the error and the rounds agree.
Outcome ==
    pc = "write" =>
        /\ HasFailed <=> error
        /\ ~booting /\ error => results # <<>> /\ Last(results).status = "failed"
        /\ ~booting /\ cur \in session =>
              ~error /\ retry[cur] = 0 /\ results # <<>> /\ Last(results).status = "passed"
        /\ ~booting /\ cur \notin session => error \/ retry[cur] > 0

\* What the rows say when the loop has ended.
AtEnd ==
    pc = "validating" =>
        IF HasFailed THEN \E s \in MainSteps : rows[s] = "failed"
        ELSE \A s \in MainSteps : s \in session /\ rows[s] = "passed"

RunInv == Shape /\ Behind /\ NoFailureYet /\ Outcome /\ AtEnd /\ PassedMeansDone

LEMMA InitRunInv == Init => RunInv
  BY DEF Init, RunInv, Shape, Behind, NoFailureYet, Outcome, AtEnd, PassedMeansDone

\* What depends on the plan alone.
LEMMA SameLoop ==
    ASSUME first' = first
    PROVE  MainSteps' = MainSteps /\ Resumed' = Resumed
  BY DEF MainSteps, Resumed

LEMMA LoginAside ==
    ASSUME TypeOK
    PROVE  /\ MainSteps \subseteq Steps /\ Bootstrap \subseteq Steps
           /\ Resumed => MainSteps \cap Bootstrap = {}
           /\ \A s \in MainSteps : first <= s /\ s <= N
           /\ cur \in Nat /\ \A s \in Steps : s \in Nat
  BY Sets, MainAreSteps, StepsAssumption DEF MainSteps, TypeOK

LEMMA StartInv ==
    ASSUME TypeOK, RunInv, StartRun
    PROVE  RunInv'
  <1>1. ~HasFailed'
    BY EmptySeq, LenProperties DEF HasFailed, StartRun
  <1> QED
    BY <1>1 DEF StartRun, RunInv, Shape, Behind, NoFailureYet, Outcome, AtEnd, PassedMeansDone

LEMMA PlanInv ==
    ASSUME TypeOK, RunInv, PlanAndOpen
    PROVE  RunInv'
  <1>1. HasFailed' <=> HasFailed
    BY DEF PlanAndOpen, HasFailed
  <1>2. /\ pc = "planning" /\ status' = status /\ error' = error
        /\ session = {} /\ session' = {} /\ ~booting
    BY DEF PlanAndOpen, history, RunInv, Shape
  <1>3. CASE FirstOpen > 1
    <2>1. Resumed' /\ booting' /\ pc' = "bootstrap"
      BY <1>3 DEF PlanAndOpen, Resumed
    <2> QED
      BY <1>1, <1>2, <2>1
      DEF RunInv, Shape, Behind, NoFailureYet, Outcome, AtEnd, PassedMeansDone
  <1>4. CASE ~(FirstOpen > 1)
    <2>1. FirstOpen \in 1..(N + 1) /\ N \in Nat
      BY FirstOpenExists, StepsAssumption
    <2>2. cur' = first' /\ pc' = "loop" /\ ~booting'
      BY <1>2, <1>4 DEF PlanAndOpen
    <2>3. \A s \in MainSteps' : first' <= s /\ s \in Nat /\ first' \in Nat
      BY <2>1, <1>4 DEF MainSteps, PlanAndOpen
    <2>4. Behind'
      BY <1>2, <2>2, <2>3 DEF Behind
    <2> QED
      BY <1>1, <1>2, <2>2, <2>4
      DEF RunInv, Shape, NoFailureYet, Outcome, AtEnd, PassedMeansDone
  <1> QED
    BY <1>3, <1>4

LEMMA BeginInv ==
    ASSUME TypeOK, RunInv, NEW s \in Steps, BeginStep(s),
           \/ pc = "bootstrap" /\ s \in Bootstrap
           \/ pc = "loop" /\ s = cur /\ cur \in MainSteps
    PROVE  RunInv'
  <1>1. /\ HasFailed' <=> HasFailed
        /\ MainSteps' = MainSteps /\ Resumed' = Resumed
    BY SameLoop DEF BeginStep, HasFailed
  <1>2. /\ pc' = "attempt" /\ cur' = s
        /\ UNCHANGED <<status, first, booting, retry, results, error, session>>
        /\ \A u \in Steps \ {s} : rows'[u] = rows[u]
    BY DEF BeginStep, history, TypeOK
  <1>3. Shape'
    BY <1>1, <1>2 DEF RunInv, Shape
  <1>4. Behind'
    <2>1. CASE booting
      BY <1>2, <2>1 DEF Behind
    <2>2. CASE ~booting
      <3>1. pc = "loop" /\ s = cur
        BY <2>2 DEF RunInv, Shape
      <3>2. \A u \in MainSteps : u \in Steps /\ u \in Nat /\ cur \in Nat
        BY LoginAside
      <3> QED
        BY <1>1, <1>2, <2>2, <3>1, <3>2 DEF RunInv, Behind
    <2> QED
      BY <2>1, <2>2
  <1> QED
    BY <1>1, <1>2, <1>3, <1>4
    DEF RunInv, NoFailureYet, Outcome, AtEnd, PassedMeansDone, Shape

LEMMA BootedInv ==
    ASSUME TypeOK, RunInv, BootstrapDone
    PROVE  RunInv'
  <1>1. ~HasFailed' /\ MainSteps' = MainSteps
    BY EmptySeq, LenProperties, SameLoop DEF HasFailed, BootstrapDone
  <1>2. /\ session \subseteq Bootstrap /\ MainSteps \cap Bootstrap = {}
        /\ \A s \in MainSteps : first <= s /\ s \in Nat /\ first \in Nat
    BY LoginAside DEF RunInv, Shape, BootstrapDone, TypeOK
  <1>3. Behind'
    BY <1>1, <1>2 DEF Behind, BootstrapDone, history
  <1> QED
    BY <1>1, <1>3
    DEF BootstrapDone, history, RunInv, Shape, NoFailureYet, Outcome, AtEnd, PassedMeansDone

LEMMA SkipInv ==
    ASSUME TypeOK, RunInv, LoopSkip \/ LoopDone
    PROVE  RunInv'
  <1>1. /\ MainSteps' = MainSteps /\ (HasFailed' <=> HasFailed)
        /\ UNCHANGED <<rows, status, booting, error, session>> /\ ~booting /\ ~HasFailed /\ ~error
        /\ status = "running" /\ pc = "loop"
    BY SameLoop
    DEF LoopSkip, LoopDone, runState, history, HasFailed, RunInv, Shape, NoFailureYet
  <1>2. \A s \in MainSteps : s \in Nat /\ s <= N /\ cur \in Nat /\ N \in Nat
    BY LoginAside, StepsAssumption
  <1>3. \A s \in MainSteps : /\ s < cur => s \in session /\ rows[s] = "passed"
                             /\ s >= cur => s \notin session
    BY <1>1, <1>2 DEF RunInv, Behind
  <1>4. Behind'
    <2>1. CASE LoopSkip
      <3>1. cur' = cur + 1 /\ cur \notin MainSteps
        BY <2>1 DEF LoopSkip
      <3>2. \A s \in MainSteps : (s < cur + 1 => s < cur) /\ (s >= cur + 1 => s >= cur)
        BY <1>2, <3>1
      <3> QED
        BY <1>1, <1>2, <1>3, <3>1, <3>2 DEF Behind
    <2>2. CASE LoopDone
      BY <2>2 DEF LoopDone, Behind
    <2> QED
      BY <2>1, <2>2
  <1>5. AtEnd'
    <2>1. CASE LoopSkip
      BY <2>1 DEF LoopSkip, AtEnd
    <2>2. CASE LoopDone
      BY <1>1, <1>2, <1>3, <2>2 DEF LoopDone, AtEnd
    <2> QED
      BY <2>1, <2>2
  <1>6. pc' \in {"loop", "validating"}
    BY <1>1 DEF LoopSkip, LoopDone
  <1> QED
    BY <1>1, <1>4, <1>5, <1>6 DEF RunInv, Shape, NoFailureYet, Outcome, PassedMeansDone

LEMMA PassInv ==
    ASSUME TypeOK, RunInv, AttemptPasses
    PROVE  RunInv'
  <1>1. /\ pc = "attempt" /\ pc' = "write" /\ error' = FALSE /\ session' = session \cup {cur}
        /\ UNCHANGED <<status, rows, first, booting, cur>>
        /\ cur \in Steps /\ retry'[cur] = 0
    BY LoginAside DEF AttemptPasses, RunInv, Shape, TypeOK
  <1>2. MainSteps' = MainSteps /\ Resumed' = Resumed
    BY <1>1, SameLoop
  <1>3. ~HasFailed' /\ results' # <<>> /\ Last(results').status = "passed"
    <2>1. results' = Append(results, [seq |-> cur, status |-> "passed"])
      BY DEF AttemptPasses
    <2>2. ~HasFailed
      BY <1>1 DEF RunInv, NoFailureYet
    <2> QED
      BY <1>1, <2>1, <2>2, AppendedResult
  <1>4. Shape'
    BY <1>1, <1>2 DEF RunInv, Shape
  <1>5. Behind'
    <2>1. \A s \in MainSteps : s \in Nat /\ cur \in Nat
      BY LoginAside
    <2> QED
      BY <1>1, <1>2, <2>1 DEF RunInv, Behind
  <1>6. Outcome'
    BY <1>1, <1>3 DEF Outcome
  <1> QED
    BY <1>1, <1>4, <1>5, <1>6 DEF RunInv, Shape, NoFailureYet, AtEnd, PassedMeansDone

LEMMA FailInv ==
    ASSUME TypeOK, RunInv, ExecuteFails
    PROVE  RunInv'
  <1>1. /\ pc = "attempt" /\ pc' = "write" /\ session' = session \ {cur}
        /\ UNCHANGED <<status, rows, first, booting, cur>>
        /\ cur \in Steps /\ ~HasFailed /\ ~error
    BY LoginAside DEF ExecuteFails, GiveUp, RunInv, Shape, NoFailureYet
  <1>2. MainSteps' = MainSteps /\ Resumed' = Resumed
    BY <1>1, SameLoop
  <1>3. Outcome'
    <2>1. CASE retry[cur] < MaxRetries
      <3>1. retry'[cur] > 0 /\ results' = results /\ error' = error
        BY <1>1, <2>1 DEF ExecuteFails, TypeOK
      <3> QED
        BY <1>1, <3>1 DEF Outcome, HasFailed
    <2>2. CASE ~(retry[cur] < MaxRetries)
      <3>1. results' = Append(results, [seq |-> cur, status |-> "failed"]) /\ error'
        BY <2>2 DEF ExecuteFails
      <3>2. HasFailed' /\ results' # <<>> /\ Last(results').status = "failed"
        BY <1>1, <3>1, AppendedResult
      <3> QED
        BY <1>1, <3>1, <3>2 DEF Outcome
    <2> QED
      BY <2>1, <2>2
  <1>4. Shape'
    BY <1>1, <1>2 DEF RunInv, Shape
  <1>5. Behind'
    <2>1. \A s \in MainSteps : s \in Nat /\ cur \in Nat
      BY LoginAside
    <2> QED
      BY <1>1, <1>2, <2>1 DEF RunInv, Behind
  <1> QED
    BY <1>1, <1>3, <1>4, <1>5 DEF RunInv, Shape, NoFailureYet, AtEnd, PassedMeansDone

LEMMA WriteInv ==
    ASSUME TypeOK, RunInv, WriteRow
    PROVE  RunInv'
  <1>1. /\ pc = "write" /\ status = "running" /\ (HasFailed' <=> HasFailed) /\ (HasFailed <=> error)
        /\ UNCHANGED <<first, booting, retry, results, error, session>>
        /\ cur \in Steps /\ MainSteps' = MainSteps /\ Resumed' = Resumed
    BY LoginAside, SameLoop DEF WriteRow, history, RunInv, Shape, Outcome, HasFailed
  <1>2. \A s \in MainSteps : s \in Steps /\ s \in Nat /\ s <= N /\ cur \in Nat /\ N \in Nat
    BY LoginAside, StepsAssumption
  <1>3. CASE booting
    <2>1. CASE error
      BY <1>1, <1>3, <2>1
      DEF WriteRow, RunInv, Shape, Behind, NoFailureYet, Outcome, AtEnd, PassedMeansDone
    <2>2. CASE ~error
      BY <1>1, <1>3, <2>2
      DEF WriteRow, RunInv, Shape, Behind, NoFailureYet, Outcome, AtEnd, PassedMeansDone
    <2> QED
      BY <2>1, <2>2
  <1>4. CASE ~booting /\ error
    <2>1. pc' = "validating" /\ status' = status /\ rows'[cur] = "failed" /\ cur \in MainSteps
      BY <1>1, <1>4 DEF WriteRow, RunInv, Shape, Outcome, TypeOK
    <2>2. AtEnd'
      BY <1>1, <1>4, <2>1 DEF AtEnd
    <2> QED
      BY <1>1, <1>4, <2>1, <2>2
      DEF RunInv, Shape, Behind, NoFailureYet, Outcome, PassedMeansDone
  <1>5. CASE ~booting /\ ~error
    <2>1. /\ pc' = "loop" /\ status' = status /\ cur \in MainSteps
          /\ \A s \in Steps \ {cur} : rows'[s] = rows[s]
          /\ cur' = IF retry[cur] = 0 THEN cur + 1 ELSE cur
      BY <1>1, <1>5 DEF WriteRow, RunInv, Shape, TypeOK
    <2>2. \A s \in MainSteps : /\ s < cur => s \in session /\ rows[s] = "passed"
                               /\ s > cur => s \notin session
      BY <1>1, <1>5 DEF RunInv, Behind
    <2>3. Behind'
      <3>1. CASE cur \in session
        <4>1. retry[cur] = 0 /\ rows'[cur] = "passed"
          BY <1>1, <1>5, <3>1 DEF RunInv, Outcome, WriteRow, TypeOK
        <4> QED
          BY <1>1, <1>2, <2>1, <2>2, <3>1, <4>1 DEF Behind
      <3>2. CASE cur \notin session
        <4>1. retry[cur] # 0
          BY <1>1, <1>5, <3>2 DEF RunInv, Outcome, TypeOK
        <4> QED
          BY <1>1, <1>2, <2>1, <2>2, <3>2, <4>1 DEF Behind
      <3> QED
        BY <3>1, <3>2
    <2> QED
      BY <1>1, <1>5, <2>1, <2>3
      DEF RunInv, Shape, NoFailureYet, Outcome, AtEnd, PassedMeansDone
  <1> QED
    BY <1>3, <1>4, <1>5

LEMMA VerdictInv ==
    ASSUME TypeOK, RunInv, Validate
    PROVE  RunInv'
  <1>1. MainSteps' = MainSteps /\ pc' = "idle" /\ status' \in {"passed", "failed"}
    BY SameLoop DEF Validate, runState
  <1>2. PassedMeansDone'
    BY <1>1 DEF Validate, runState, history, RunInv, AtEnd, PassedMeansDone
  <1> QED
    BY <1>1, <1>2 DEF RunInv, Shape, Behind, NoFailureYet, Outcome, AtEnd

\* Between two runs only the status and the rows change.
LEMMA UserInv ==
    ASSUME TypeOK, RunInv, User \/ RunError
    PROVE  RunInv'
  <1>1. pc' = "idle" /\ status' \notin {"running", "passed"} /\ UNCHANGED <<runState, history>>
    BY DEF User, Stop, RerunAll, RerunFrom, EditStep, RunError, RunInv, Shape, Finals
  <1> QED
    BY <1>1 DEF RunInv, Shape, Behind, NoFailureYet, Outcome, AtEnd, PassedMeansDone

LEMMA NextRunInv == TypeOK /\ RunInv /\ [Next]_vars => RunInv'
  <1> SUFFICES ASSUME TypeOK, RunInv, [Next]_vars PROVE RunInv'
    OBVIOUS
  <1>1. CASE UNCHANGED vars
    BY <1>1 DEF vars, runState, history, RunInv, Shape, Behind, NoFailureYet, Outcome, AtEnd,
       PassedMeansDone, MainSteps, Resumed, HasFailed
  <1>2. CASE BootstrapStep
    BY <1>2, BeginInv, Sets DEF BootstrapStep
  <1>3. CASE LoopStep
    BY <1>3, BeginInv, LoginAside DEF LoopStep
  <1>4. CASE AttemptFails
    BY <1>4 DEF AttemptFails, RunInv, Shape, Behind, NoFailureYet, Outcome, AtEnd,
       PassedMeansDone, MainSteps, Resumed, HasFailed
  <1> QED
    BY <1>1, <1>2, <1>3, <1>4, StartInv, PlanInv, BootedInv, SkipInv, PassInv, FailInv,
       WriteInv, VerdictInv, UserInv DEF Next, Run

\* The strengthened invariant.
LEMMA Invariant == Spec => [](TypeOK /\ AtAStep /\ RunInv)
  <1>1. Init => TypeOK /\ AtAStep /\ RunInv
    BY InitTypeOK, InitRunInv DEF Init, AtAStep
  <1>2. (TypeOK /\ AtAStep /\ RunInv) /\ [Next]_vars => (TypeOK /\ AtAStep /\ RunInv)'
    BY NextTypeOK, NextRunInv
  <1> QED
    BY <1>1, <1>2, PTL DEF Spec

\* The main loop never runs ahead of a step that has not been done.
THEOREM NeverAhead == Spec => []InOrder
  <1>1. TypeOK /\ RunInv => InOrder
    BY DEF RunInv, Behind, InOrder
  <1> QED
    BY <1>1, Invariant, PTL

\* A PASSED verdict means that the steps were done and that their rows say so.
THEOREM PassedIsDone == Spec => []PassedMeansDone
  <1>1. RunInv => PassedMeansDone
    BY DEF RunInv
  <1> QED
    BY <1>1, Invariant, PTL

\* A FAILED verdict is explained by the rows.
THEOREM FailureExplained == Spec => FailureIsVisible
  <1>1. ASSUME RunInv, [Next]_vars, pc = "validating", status' = "failed"
        PROVE  \/ \E s \in MainSteps : rows[s] = "failed"
               \/ \A s \in MainSteps : rows[s] = "passed"
    BY <1>1 DEF RunInv, AtEnd
  <1>2. RunInv /\ [Next]_vars =>
          [pc = "validating" /\ status' = "failed" =>
             \/ \E s \in MainSteps : rows[s] = "failed"
             \/ \A s \in MainSteps : rows[s] = "passed"]_vars
    BY <1>1
  <1> QED
    BY <1>2, Invariant, PTL DEF Spec, FailureIsVisible

\* A step that failed for good is the last one executed in its run.
THEOREM FailureIsLast == Spec => NothingAfterFailure
  <1>1. TypeOK /\ RunInv /\ [Next]_vars => [HasFailed /\ runs' = runs => count' = count]_vars
    <2> SUFFICES ASSUME TypeOK, RunInv, Next, HasFailed, runs' = runs PROVE count' = count
      BY DEF vars
    <2>1. pc # "attempt"
      BY DEF RunInv, NoFailureYet
    <2>2. ~StartRun
      BY DEF StartRun, TypeOK
    <2> QED
      BY <2>1, <2>2 DEF Next, Run, PlanAndOpen, BootstrapStep, BeginStep, BootstrapDone, LoopStep,
         LoopSkip, LoopDone, AttemptPasses, AttemptFails, ExecuteFails, GiveUp, WriteRow,
         Validate, RunError, User, Stop, RerunAll, RerunFrom, EditStep, history
  <1> QED
    BY <1>1, Invariant, PTL DEF Spec, NothingAfterFailure

-----------------------------------------------------------------------------
(* The number of attempts.                                                 *)

\* The attempts of so many rounds.
Attempts(rounds) == rounds * (MaxRetries + 1)

Untried == pc = "planning" => \A s \in Steps : count[s] = 0 /\ retry[s] = 0

\* While a resumed run logs in again.
TriedBooting ==
    pc \in {"bootstrap", "attempt", "write"} /\ booting =>
        /\ \A s \in MainSteps : count[s] = 0 /\ retry[s] = 0
        /\ \A s \in Bootstrap :
              /\ s > cur => count[s] = 0
              /\ s = cur /\ pc = "bootstrap" => count[s] = 0
              /\ s = cur /\ pc = "attempt" => count[s] = tries

\* In the main loop, a round of attempts for every one that was asked for.
TriedMain ==
    pc \in {"loop", "attempt", "write"} /\ ~booting =>
        \A s \in MainSteps :
            /\ s > cur => count[s] = 0 /\ retry[s] = 0
            /\ s = cur /\ pc = "attempt" => count[s] = Attempts(retry[s]) + tries
            /\ s = cur /\ pc = "loop" => count[s] = Attempts(retry[s])
            /\ s = cur /\ pc = "write" /\ retry[s] > 0 => count[s] = Attempts(retry[s])

WithinLimits ==
    \A s \in Steps :
        count[s] <= IF s \in MainSteps THEN Attempts(MaxRetries + 1) ELSE MaxRetries + 1

CountInv == Untried /\ TriedBooting /\ TriedMain /\ WithinLimits

LEMMA AttemptsOf ==
    ASSUME NEW r \in Nat
    PROVE  /\ Attempts(r) \in Nat /\ Attempts(0) = 0
           /\ Attempts(r + 1) = Attempts(r) + MaxRetries + 1
  BY RetriesAssumption DEF Attempts

LEMMA AttemptsGrow ==
    ASSUME NEW r \in Nat, NEW q \in Nat, r <= q
    PROVE  Attempts(r) <= Attempts(q)
  BY RetriesAssumption DEF Attempts

LEMMA Limits == TypeOK /\ CountInv => AttemptsBounded
  <1> SUFFICES ASSUME TypeOK, WithinLimits, NEW s \in Steps
               PROVE  count[s] <= (MaxRetries + 1) * (IF s \in MainSteps THEN MaxRetries + 1 ELSE 1)
    BY DEF AttemptsBounded, CountInv
  <1>1. CASE s \in MainSteps
    BY <1>1 DEF WithinLimits, Attempts
  <1>2. CASE s \notin MainSteps
    BY <1>2, RetriesAssumption DEF WithinLimits
  <1> QED
    BY <1>1, <1>2

\* An attempt at the current step, seen by the step.
LEMMA Counted ==
    ASSUME TypeOK, cur \in Steps, Attempted
    PROVE  /\ count'[cur] = count[cur] + 1 /\ count[cur] \in Nat
           /\ \A s \in Steps \ {cur} : count'[s] = count[s]
  BY DEF Attempted, TypeOK

LEMMA NextCountInv == TypeOK /\ RunInv /\ CountInv /\ [Next]_vars => CountInv'
  <1> SUFFICES ASSUME TypeOK, RunInv, CountInv, [Next]_vars PROVE CountInv'
    OBVIOUS
  <1>1. ASSUME UNCHANGED <<first, booting, cur, tries, retry, count, pc>>
        PROVE  CountInv'
    BY <1>1, SameLoop DEF CountInv, Untried, TriedBooting, TriedMain, WithinLimits
  <1>2. ASSUME UNCHANGED <<first, count>>, pc' \in {"idle", "validating"}
        PROVE  CountInv'
    BY <1>2, SameLoop DEF CountInv, Untried, TriedBooting, TriedMain, WithinLimits
  <1>3. CASE UNCHANGED vars
    BY <1>1, <1>3 DEF vars, runState, history
  <1>4. CASE StartRun
    <2>1. \A s \in Steps : count'[s] = 0 /\ retry'[s] = 0
      BY <1>4 DEF StartRun
    <2>2. 0 <= Attempts(MaxRetries + 1) /\ 0 <= MaxRetries + 1
      BY AttemptsOf, RetriesAssumption
    <2> QED
      BY <1>4, <2>1, <2>2 DEF StartRun, CountInv, Untried, TriedBooting, TriedMain, WithinLimits
  <1>5. CASE PlanAndOpen
    <2>1. /\ \A s \in Steps : count[s] = 0 /\ retry[s] = 0
          /\ count' = count /\ retry' = retry /\ pc' # "planning" /\ pc' \in {"bootstrap", "loop"}
      BY <1>5 DEF PlanAndOpen, history, CountInv, Untried
    <2>2. 0 <= Attempts(MaxRetries + 1) /\ 0 <= MaxRetries + 1 /\ Attempts(0) = 0
      BY AttemptsOf, RetriesAssumption
    <2>3. MainSteps' \subseteq Steps /\ Bootstrap \subseteq Steps
      BY NextTypeOK, FirstOpenExists, <1>5, Sets, StepsAssumption DEF MainSteps, Steps, PlanAndOpen
    <2> QED
      BY <2>1, <2>2, <2>3 DEF CountInv, Untried, TriedBooting, TriedMain, WithinLimits
  <1>6. CASE BootstrapStep
    <2>1. PICK s \in Bootstrap : cur <= s /\ BeginStep(s)
      BY <1>6 DEF BootstrapStep
    <2>2. /\ pc = "bootstrap" /\ pc' = "attempt" /\ cur' = s /\ tries' = 0 /\ booting
          /\ UNCHANGED <<first, booting, retry, count>>
      BY <1>6, <2>1 DEF BootstrapStep, BeginStep, history, RunInv, Shape
    <2>3. \A u \in Bootstrap : u \in Nat /\ cur \in Nat
      BY LoginAside
    <2>4. count[s] = 0 /\ \A u \in Bootstrap : u > s => count[u] = 0
      BY <2>1, <2>2, <2>3 DEF CountInv, TriedBooting
    <2> QED
      BY <2>2, <2>4, SameLoop DEF CountInv, Untried, TriedBooting, TriedMain, WithinLimits
  <1>7. CASE BootstrapDone
    <2>1. /\ pc' = "loop" /\ cur' = first /\ ~booting' /\ UNCHANGED <<first, retry, count>>
          /\ MainSteps' = MainSteps
      BY <1>7, SameLoop DEF BootstrapDone, history
    <2>2. \A s \in MainSteps : count[s] = 0 /\ retry[s] = 0
      BY <1>7 DEF BootstrapDone, RunInv, Shape, CountInv, TriedBooting
    <2> QED
      BY <2>1, <2>2, AttemptsOf DEF CountInv, Untried, TriedBooting, TriedMain, WithinLimits
  <1>8. CASE LoopStep
    <2>1. /\ pc = "loop" /\ pc' = "attempt" /\ tries' = 0 /\ ~booting
          /\ UNCHANGED <<first, booting, retry, count, cur>>
      BY <1>8 DEF LoopStep, BeginStep, history, RunInv, Shape
    <2>2. \A s \in MainSteps : Attempts(retry[s]) \in Nat
      <3>1. \A s \in MainSteps : retry[s] \in 0..MaxRetries
        BY LoginAside DEF TypeOK
      <3> QED
        BY <3>1, AttemptsOf
    <2> QED
      BY <2>1, <2>2, SameLoop DEF CountInv, Untried, TriedBooting, TriedMain, WithinLimits
  <1>9. CASE LoopSkip
    <2>1. /\ pc = "loop" /\ pc' = "loop" /\ cur' = cur + 1 /\ ~booting
          /\ UNCHANGED <<first, booting, retry, count>>
      BY <1>9 DEF LoopSkip, history, RunInv, Shape
    <2>2. \A s \in MainSteps : s \in Nat /\ cur \in Nat /\ (s >= cur + 1 => s > cur)
      BY LoginAside
    <2> QED
      BY <2>1, <2>2, SameLoop, AttemptsOf
      DEF CountInv, Untried, TriedBooting, TriedMain, WithinLimits
  <1>10. ASSUME pc = "attempt", UNCHANGED <<first, booting, cur>>, Attempted, cur \in Steps,
                pc' \in {"attempt", "write"},
                \A s \in Steps \ {cur} : retry'[s] = retry[s],
                pc' = "attempt" => tries' = tries + 1 /\ retry' = retry,
                ~booting /\ pc' = "write" /\ retry'[cur] > 0 =>
                    tries = MaxRetries /\ retry'[cur] = retry[cur] + 1
         PROVE  CountInv'
    <2>1. /\ count'[cur] = count[cur] + 1 /\ count[cur] \in Nat
          /\ \A s \in Steps \ {cur} : count'[s] = count[s]
      BY <1>10, Counted
    <2>2. /\ MainSteps' = MainSteps /\ MainSteps \subseteq Steps /\ Bootstrap \subseteq Steps
          /\ booting => cur \in Bootstrap /\ cur \notin MainSteps
          /\ ~booting => cur \in MainSteps
      BY <1>10, SameLoop, LoginAside DEF RunInv, Shape
    <2>3. \A s \in Steps : s \in Nat /\ (s > cur => s # cur)
      BY <1>10, Sets
    <2>4. tries \in Nat /\ tries <= MaxRetries /\ MaxRetries \in Nat
          /\ retry[cur] \in Nat /\ retry[cur] <= MaxRetries
      BY <1>10, RetriesAssumption DEF TypeOK
    <2>5. CASE booting
      <3>1. count[cur] = tries
        BY <1>10, <2>2, <2>5 DEF CountInv, TriedBooting
      <3>2. count'[cur] = tries + 1 /\ count'[cur] <= MaxRetries + 1
        BY <2>1, <2>4, <3>1
      <3>3. WithinLimits'
        BY <2>1, <2>2, <2>5, <3>2 DEF CountInv, WithinLimits
      <3>4. \A s \in MainSteps : s # cur /\ s \in Steps
        BY <2>2, <2>5
      <3>5. TriedBooting'
        BY <1>10, <2>1, <2>2, <2>3, <2>5, <3>2, <3>4 DEF CountInv, TriedBooting
      <3> QED
        BY <1>10, <2>5, <3>3, <3>5 DEF CountInv, Untried, TriedMain
    <2>6. CASE ~booting
      <3>1. count[cur] = Attempts(retry[cur]) + tries /\ Attempts(retry[cur]) \in Nat
        BY <1>10, <2>2, <2>4, <2>6, AttemptsOf DEF CountInv, TriedMain
      <3>2. count'[cur] <= Attempts(MaxRetries + 1)
        <4>1. count'[cur] <= Attempts(retry[cur] + 1) /\ Attempts(retry[cur] + 1) \in Nat
          BY <2>1, <2>4, <3>1, AttemptsOf
        <4>2. Attempts(retry[cur] + 1) <= Attempts(MaxRetries + 1)
              /\ Attempts(MaxRetries + 1) \in Nat
          BY <2>4, AttemptsGrow, AttemptsOf
        <4> QED
          BY <2>1, <4>1, <4>2
      <3>3. WithinLimits'
        BY <2>1, <2>2, <2>6, <3>2 DEF CountInv, WithinLimits
      <3>4. pc' = "attempt" => count'[cur] = Attempts(retry'[cur]) + tries'
        BY <1>10, <2>1, <2>4, <3>1
      <3>5. pc' = "write" /\ retry'[cur] > 0 => count'[cur] = Attempts(retry'[cur])
        <4>1. Attempts(retry[cur] + 1) = Attempts(retry[cur]) + MaxRetries + 1
          BY <2>4, AttemptsOf
        <4> QED
          BY <1>10, <2>1, <2>4, <2>6, <3>1, <4>1
      <3>6. TriedMain'
        BY <1>10, <2>1, <2>2, <2>3, <2>6, <3>4, <3>5 DEF CountInv, TriedMain
      <3> QED
        BY <1>10, <2>6, <3>3, <3>6 DEF CountInv, Untried, TriedBooting
    <2> QED
      BY <2>5, <2>6
  <1>11. pc = "attempt" => cur \in Steps
    BY LoginAside DEF RunInv, Shape
  <1>12. CASE AttemptPasses
    <2>1. retry'[cur] = 0 /\ \A s \in Steps \ {cur} : retry'[s] = retry[s]
      BY <1>11, <1>12 DEF AttemptPasses, TypeOK
    <2> QED
      BY <1>10, <1>11, <1>12, <2>1 DEF AttemptPasses
  <1>13. CASE AttemptFails
    BY <1>10, <1>11, <1>13 DEF AttemptFails
  <1>14. CASE ExecuteFails
    <2>1. /\ retry'[cur] > 0 => retry'[cur] = retry[cur] + 1
          /\ \A s \in Steps \ {cur} : retry'[s] = retry[s]
      BY <1>11, <1>14 DEF ExecuteFails, GiveUp, TypeOK
    <2> QED
      BY <1>10, <1>11, <1>14, <2>1 DEF ExecuteFails, GiveUp
  <1>15. CASE WriteRow
    <2>1. /\ pc = "write" /\ UNCHANGED <<first, booting, retry, count>> /\ MainSteps' = MainSteps
          /\ cur \in Steps /\ MainSteps \subseteq Steps /\ Bootstrap \subseteq Steps
          /\ \A s \in Steps : s \in Nat
      BY <1>15, SameLoop, LoginAside DEF WriteRow, history, RunInv, Shape
    <2>2. CASE error
      BY <1>2, <1>15, <2>1, <2>2 DEF WriteRow
    <2>3. CASE ~error /\ booting
      <3>1. pc' = "bootstrap" /\ cur' = cur + 1
        BY <1>15, <2>3 DEF WriteRow
      <3>2. \A s \in Bootstrap : s \in Nat /\ cur \in Nat /\ (s >= cur + 1 => s > cur)
        BY <2>1
      <3> QED
        BY <2>1, <2>3, <3>1, <3>2 DEF CountInv, Untried, TriedBooting, TriedMain, WithinLimits
    <2>4. CASE ~error /\ ~booting
      <3>1. pc' = "loop" /\ cur' = IF retry[cur] = 0 THEN cur + 1 ELSE cur
        BY <1>15, <2>4 DEF WriteRow
      <3>2. \A s \in MainSteps : s \in Nat /\ cur \in Nat /\ (s >= cur + 1 => s > cur)
        BY <2>1
      <3>3. retry[cur] \in Nat /\ Attempts(0) = 0
        BY <2>1, AttemptsOf DEF TypeOK
      <3>4. \A s \in MainSteps :
              /\ s > cur' => count[s] = 0 /\ retry[s] = 0
              /\ s = cur' => count[s] = Attempts(retry[s])
        BY <2>1, <2>4, <3>1, <3>2, <3>3 DEF CountInv, TriedMain
      <3> QED
        BY <2>1, <2>4, <3>1, <3>4 DEF CountInv, Untried, TriedBooting, TriedMain, WithinLimits
    <2> QED
      BY <2>2, <2>3, <2>4
  <1>16. CASE LoopDone \/ Validate
    BY <1>2, <1>16 DEF LoopDone, Validate, runState, history
  <1>17. CASE User \/ RunError
    <2>1. pc' = "idle" /\ UNCHANGED <<runState, history>>
      BY <1>17 DEF User, Stop, RerunAll, RerunFrom, EditStep, RunError
    <2> QED
      BY <1>2, <2>1 DEF runState, history
  <1> QED
    BY <1>3, <1>4, <1>5, <1>6, <1>7, <1>8, <1>9, <1>12, <1>13, <1>14, <1>15, <1>16, <1>17
    DEF Next, Run

\* Attempts and rounds multiply, and no more: no run tries a step more often
\* than (MaxRetries + 1)^2 times, a repeated login step MaxRetries + 1 times.
THEOREM AttemptsLimited == Spec => []AttemptsBounded
  <1>1. Init => CountInv
    <2>1. 0 <= Attempts(MaxRetries + 1) /\ 0 <= MaxRetries + 1
      BY AttemptsOf, RetriesAssumption
    <2> QED
      BY <2>1 DEF Init, CountInv, Untried, TriedBooting, TriedMain, WithinLimits
  <1>2. (TypeOK /\ RunInv) /\ CountInv /\ [Next]_vars => CountInv'
    BY NextCountInv
  <1> QED
    BY <1>1, <1>2, Invariant, Limits, PTL DEF Spec

-----------------------------------------------------------------------------
(* ScenarioRun implements OrderedRun.                                      *)

\* What a step means to OrderedRun when the main loop stays the same.
LEMMA StepOrStutter ==
    ASSUME TypeOK, RunInv, Next, first' = first
    PROVE  [Ordered!Next]_(Ordered!vars)
  <1> USE DEF Ordered!Next, Ordered!vars
  <1>1. MainSteps' = MainSteps /\ MainSteps \subseteq Steps
    BY SameLoop, LoginAside
  <1>2. ASSUME UNCHANGED <<status, session>> PROVE [Ordered!Next]_(Ordered!vars)
    BY <1>1, <1>2
  <1>3. CASE StartRun
    BY <1>1, <1>3 DEF StartRun, Ordered!Start
  <1>4. CASE PlanAndOpen
    BY <1>2, <1>4 DEF PlanAndOpen, history
  <1>5. CASE BootstrapStep \/ LoopStep
    BY <1>2, <1>5 DEF BootstrapStep, LoopStep, BeginStep, history
  <1>6. CASE BootstrapDone \/ LoopSkip \/ LoopDone
    BY <1>2, <1>6 DEF BootstrapDone, LoopSkip, LoopDone, history
  <1>7. CASE AttemptFails
    BY <1>2, <1>7 DEF AttemptFails
  <1>8. CASE AttemptPasses
    <2>1. /\ status' = status /\ status = "running" /\ session' = session \cup {cur}
          /\ cur \in IF booting THEN Bootstrap ELSE MainSteps
      BY <1>8 DEF AttemptPasses, RunInv, Shape
    <2>2. CASE booting
      <3>1. cur \notin MainSteps
        BY <1>8, <2>1, <2>2, LoginAside DEF AttemptPasses, RunInv, Shape
      <3> QED
        BY <1>1, <2>1, <3>1
    <2>3. CASE ~booting
      <3>1. Ordered!Do(cur)
        BY <1>1, <1>8, <2>1, <2>3 DEF AttemptPasses, RunInv, Behind, Ordered!Do
      <3> QED
        BY <1>1, <2>1, <2>3, <3>1
    <2> QED
      BY <2>2, <2>3
  <1>9. CASE ExecuteFails
    <2>1. /\ status' = status /\ session' = session \ {cur}
          /\ cur \in IF booting THEN Bootstrap ELSE MainSteps
      BY <1>9 DEF ExecuteFails, GiveUp, RunInv, Shape
    <2>2. cur \notin session \cap MainSteps
      BY <1>9, <2>1, LoginAside DEF ExecuteFails, GiveUp, RunInv, Shape, Behind
    <2> QED
      BY <1>1, <2>1, <2>2
  <1>10. CASE WriteRow
    <2>1. session' = session /\ (status' = status \/ (status = "running" /\ status' = "error"))
      BY <1>10 DEF WriteRow, history, RunInv, Shape
    <2> QED
      BY <1>1, <2>1 DEF Ordered!End
  <1>11. CASE Validate
    <2>1. /\ session' = session /\ status = "running" /\ status' \in {"passed", "failed"}
          /\ status' = "passed" => ~HasFailed
      BY <1>11 DEF Validate, history, RunInv, Shape
    <2>2. ~HasFailed => MainSteps \subseteq session
      BY <1>11 DEF Validate, RunInv, AtEnd
    <2> QED
      BY <1>1, <2>1, <2>2 DEF Ordered!End
  <1>12. CASE RunError
    BY <1>1, <1>12 DEF RunError, history, RunInv, Shape, Ordered!End
  <1>13. CASE Stop
    BY <1>1, <1>13 DEF Stop, history, Ordered!Cancel
  <1>14. CASE RerunAll \/ \E s \in Steps : RerunFrom(s)
    BY <1>1, <1>14 DEF RerunAll, RerunFrom, Finals, history, Ordered!Again
  <1>15. ASSUME NEW s \in Steps, EditStep(s) PROVE [Ordered!Next]_(Ordered!vars)
    BY <1>2, <1>15 DEF EditStep, history
  <1> QED
    BY <1>3, <1>4, <1>5, <1>6, <1>7, <1>8, <1>9, <1>10, <1>11, <1>12, <1>13, <1>14, <1>15
    DEF Next, Run, User

\* Every step of the code is a step of OrderedRun or changes nothing it sees.
LEMMA Simulation ==
    ASSUME TypeOK, RunInv, [Next]_vars
    PROVE  [Ordered!Next]_(Ordered!vars)
  <1>1. CASE UNCHANGED vars
    BY <1>1, SameLoop DEF vars, runState, history, Ordered!vars
  <1>2. CASE StartRun
    <2>1. MainSteps' \subseteq Steps /\ session' = {} /\ status = "queued" /\ status' = "running"
      BY <1>2, StepsAssumption DEF StartRun, MainSteps, Steps
    <2> QED
      BY <2>1 DEF Ordered!Next, Ordered!Start
  <1>3. CASE PlanAndOpen
    <2>1. MainSteps' \subseteq Steps
      BY <1>3, FirstOpenExists, StepsAssumption DEF PlanAndOpen, MainSteps, Steps
    <2>2. session = {} /\ session' = {} /\ status = "running" /\ status' = status
      BY <1>3 DEF PlanAndOpen, history, RunInv, Shape
    <2> QED
      BY <2>1, <2>2 DEF Ordered!Next, Ordered!Plan
  <1>4. CASE Next /\ ~StartRun /\ ~PlanAndOpen
    <2>1. first' = first
      BY <1>4
      DEF Next, Run, BootstrapStep, BeginStep, BootstrapDone, LoopStep, LoopSkip, LoopDone,
          AttemptPasses, AttemptFails, ExecuteFails, GiveUp, WriteRow, Validate, RunError,
          User, Stop, RerunAll, RerunFrom, EditStep, runState
    <2> QED
      BY <1>4, <2>1, StepOrStutter
  <1> QED
    BY <1>1, <1>2, <1>3, <1>4

\* Whatever is retried, skipped or repeated: the steps of the main loop are
\* done one by one, in order, once each, and all of them before a pass.
THEOREM RunsInOrder == Spec => InOneGo
  <1>1. Init => Ordered!Init
    BY StepsAssumption DEF Init, Ordered!Init, MainSteps, Steps
  <1>2. TypeOK /\ RunInv /\ [Next]_vars => [Ordered!Next]_(Ordered!vars)
    BY Simulation
  <1> QED
    BY <1>1, <1>2, Invariant, PTL DEF Spec, InOneGo, Ordered!Spec
=============================================================================
