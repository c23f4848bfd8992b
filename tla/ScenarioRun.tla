------------------------------ MODULE ScenarioRun ------------------------------
(***************************************************************************)
(* The step loop of a single-scenario execution                            *)
(* (_run_single_scenario_execution) with the executor node it calls, the   *)
(* step rows it keeps in the database, and the reruns, step edits and      *)
(* stops between which the rows live on.  Runs of the execution follow one *)
(* another here; ExecutionControl is about the ones that overlap.          *)
(*                                                                         *)
(* Steps are their sequence numbers: the planner numbers them 1..N without *)
(* gaps, so index i of the code is step i + 1.  What the browser does in a *)
(* step is one nondeterministic outcome per attempt.                       *)
(***************************************************************************)
EXTENDS Naturals, Sequences, SequencesExt

CONSTANTS
    N,          \* number of planned steps
    Bootstrap,  \* the steps whose action is login or login_as
    MaxRetries, \* state["max_retries"], used by the executor and by its node
    MaxRuns     \* bound on the runs of the execution

ASSUME StepsAssumption     == N \in Nat \ {0}
ASSUME BootstrapAssumption == Bootstrap \subseteq 1..N
ASSUME RetriesAssumption   == MaxRetries \in Nat /\ MaxRuns \in Nat

Steps == 1..N

RowStatuses == {"none", "pending", "running", "passed", "failed", "skipped"}
Finals      == {"passed", "failed", "error", "cancelled"}
Statuses    == {"queued", "running"} \cup Finals
PCs         == {"idle", "planning", "bootstrap", "loop", "attempt", "write", "validating"}

VARIABLES
    status,  \* Execution.status
    rows,    \* status of each step's row, "none" where there is no row
    pc,      \* where run_execution is suspended
    first,   \* start_index
    booting, \* in the loop that logs in again before a resumed run
    cur,     \* current_step_index
    tries,   \* failed attempts of this call of StepExecutor.execute
    retry,   \* state["step_retry_<seq>"]
    results, \* state["step_results"]
    error,   \* state["error"] is set
    runs,    \* runs started
    session, \* history: steps that passed in the browser of this run
    passed,  \* history: steps that passed the last time they were executed
    count    \* history: attempts made at each step in this run

runState == <<first, booting, cur, tries, retry, results, error>>
history  == <<session, passed, count>>
vars     == <<status, rows, pc, runState, runs, history>>

Results == [seq : Steps, status : {"passed", "failed"}]

TypeOK ==
    /\ status \in Statuses
    /\ rows \in [Steps -> RowStatuses]
    /\ pc \in PCs
    /\ first \in 1..(N + 1) /\ cur \in 1..(N + 1)
    /\ booting \in BOOLEAN /\ error \in BOOLEAN
    /\ tries \in 0..MaxRetries
    /\ retry \in [Steps -> 0..MaxRetries]
    /\ results \in Seq(Results)
    /\ runs \in 0..MaxRuns
    /\ session \subseteq Steps /\ passed \subseteq Steps
    /\ count \in [Steps -> Nat]

Init ==
    /\ status = "queued" /\ pc = "idle"
    /\ rows = [s \in Steps |-> "none"]
    /\ first = 1 /\ cur = 1 /\ tries = 0
    /\ booting = FALSE /\ error = FALSE
    /\ retry = [s \in Steps |-> 0]
    /\ results = <<>>
    /\ runs = 0
    /\ session = {} /\ passed = {}
    /\ count = [s \in Steps |-> 0]

-----------------------------------------------------------------------------
(* Helpers.                                                                *)

\* The first step whose row is not PASSED, N + 1 when all are.
FirstOpen == CHOOSE i \in 1..(N + 1) :
                /\ i = N + 1 \/ rows[i] # "passed"
                /\ \A s \in 1..(i - 1) : rows[s] = "passed"

\* The main loop has begun behind a step that was skipped (bootstrap_done).
Resumed == first > 1

\* The steps the main loop executes itself.
MainSteps == {s \in first..N : ~(Resumed /\ s \in Bootstrap)}

HasFailed == \E i \in DOMAIN results : results[i].status = "failed"

-----------------------------------------------------------------------------
(* The run.                                                                *)

\* The background task takes up the execution: status RUNNING, new state.
StartRun ==
    /\ pc = "idle" /\ status = "queued" /\ runs < MaxRuns
    /\ runs' = runs + 1
    /\ status' = "running" /\ pc' = "planning"
    /\ first' = 1 /\ cur' = 1 /\ tries' = 0
    /\ booting' = FALSE /\ error' = FALSE /\ results' = <<>>
    /\ retry' = [s \in Steps |-> 0]
    /\ session' = {} /\ count' = [s \in Steps |-> 0]
    /\ UNCHANGED <<rows, passed>>

\* The plan's missing rows are created, the browser opens, start_index is read
\* from the rows; behind a skipped step the session is established again.
PlanAndOpen ==
    /\ pc = "planning"
    /\ rows' = [s \in Steps |-> IF rows[s] = "none" THEN "pending" ELSE rows[s]]
    /\ first' = FirstOpen
    /\ IF FirstOpen > 1
       THEN /\ booting' = TRUE /\ cur' = 1
            /\ pc' = "bootstrap"
       ELSE /\ cur' = FirstOpen
            /\ pc' = "loop"
            /\ UNCHANGED booting
    /\ UNCHANGED <<status, tries, retry, results, error, runs, history>>

\* _run_step_at(s): the row is RUNNING, the executor begins its attempts.
BeginStep(s) ==
    /\ rows' = [rows EXCEPT ![s] = "running"]
    /\ cur' = s /\ tries' = 0
    /\ pc' = "attempt"
    /\ UNCHANGED <<status, first, booting, retry, results, error, runs, history>>

\* Every login step in turn, whatever became of the one before.
BootstrapStep ==
    /\ pc = "bootstrap"
    /\ \E s \in Bootstrap :
         /\ cur <= s /\ \A t \in Bootstrap : cur <= t => s <= t
         /\ BeginStep(s)

\* The results of the login steps are dropped and the main loop begins.
BootstrapDone ==
    /\ pc = "bootstrap" /\ \A s \in Bootstrap : s < cur
    /\ booting' = FALSE /\ results' = <<>> /\ error' = FALSE
    /\ cur' = first
    /\ pc' = "loop"
    /\ UNCHANGED <<status, rows, first, tries, retry, runs, history>>

LoopStep ==
    /\ pc = "loop" /\ cur \in MainSteps
    /\ BeginStep(cur)

\* Mutant: "continue" without moving on.
LoopSkipInPlace ==
    /\ pc = "loop" /\ cur \in Steps \ MainSteps
    /\ UNCHANGED vars

LoopSkip ==
    /\ pc = "loop" /\ cur \in Steps \ MainSteps
    /\ cur' = cur + 1
    /\ UNCHANGED <<status, rows, pc, first, booting, tries, retry, results, error, runs, history>>

LoopDone ==
    /\ pc = "loop" /\ cur = N + 1
    /\ pc' = "validating"
    /\ UNCHANGED <<status, rows, runState, runs, history>>

Attempted == count' = [count EXCEPT ![cur] = @ + 1]

\* An attempt succeeds: the result is appended, the index moves on.
AttemptPasses ==
    /\ pc = "attempt"
    /\ Attempted
    /\ session' = session \cup {cur} /\ passed' = passed \cup {cur}
    /\ retry' = [retry EXCEPT ![cur] = 0]
    /\ results' = Append(results, [seq |-> cur, status |-> "passed"])
    /\ error' = FALSE
    /\ pc' = "write"
    /\ UNCHANGED <<status, rows, first, booting, cur, tries, runs>>

\* A failed attempt is repeated within the same execute call.
AttemptFails ==
    /\ pc = "attempt" /\ tries < MaxRetries
    /\ Attempted
    /\ tries' = tries + 1
    /\ UNCHANGED <<status, rows, pc, first, booting, cur, retry, results, error, runs, session, passed>>

GiveUp ==
    /\ pc = "attempt" /\ tries = MaxRetries
    /\ Attempted
    /\ session' = session \ {cur} /\ passed' = passed \ {cur}
    /\ pc' = "write"
    /\ UNCHANGED <<status, rows, first, booting, cur, tries, runs>>

\* Mutant: the final failure is not appended to the results.
ExecuteFailsSilently ==
    /\ GiveUp
    /\ retry' = [retry EXCEPT ![cur] = IF @ < MaxRetries THEN @ + 1 ELSE 0]
    /\ error' = (retry[cur] = MaxRetries)
    /\ UNCHANGED results

\* execute gives up.  The node first asks for another round, and returns no
\* result for this one; after the last round the failure is appended.
ExecuteFails ==
    /\ GiveUp
    /\ IF retry[cur] < MaxRetries
       THEN /\ retry' = [retry EXCEPT ![cur] = @ + 1]
            /\ UNCHANGED <<results, error>>
       ELSE /\ retry' = [retry EXCEPT ![cur] = 0]
            /\ results' = Append(results, [seq |-> cur, status |-> "failed"])
            /\ error' = TRUE

\* Mutant: the error is raised before the row is written.
WriteRowAfterError ==
    /\ pc = "write"
    /\ rows' = IF results = <<>> \/ error THEN rows
               ELSE [rows EXCEPT ![cur] = Last(results).status]
    /\ cur' = IF error /\ ~booting THEN N + 1
              ELSE IF booting \/ retry[cur] = 0 THEN cur + 1 ELSE cur
    /\ pc' = IF error THEN "validating" ELSE IF booting THEN "bootstrap" ELSE "loop"
    /\ UNCHANGED <<status, first, booting, tries, retry, results, error, runs, history>>

\* Mutant: as with continue_on_failure, the loop goes on after a failed step.
WriteRowContinues ==
    /\ pc = "write"
    /\ rows' = IF results = <<>> THEN rows
               ELSE [rows EXCEPT ![cur] = Last(results).status]
    /\ cur' = IF booting \/ retry[cur] = 0 THEN cur + 1 ELSE cur
    /\ pc' = IF booting THEN "bootstrap" ELSE "loop"
    /\ UNCHANGED <<status, first, booting, tries, retry, results, error, runs, history>>

\* _run_step_at after executor_node: the LAST result goes to this step's row,
\* which is the previous step's when the node asked for another round.  A set
\* error raises: the main loop breaks, the bootstrap loop does not catch it.
WriteRow ==
    /\ pc = "write"
    /\ rows' = IF results = <<>> THEN rows
               ELSE [rows EXCEPT ![cur] = Last(results).status]
    /\ cur' = IF error /\ ~booting THEN N + 1
              ELSE IF booting \/ retry[cur] = 0 THEN cur + 1 ELSE cur
    /\ IF error /\ booting
       THEN pc' = "idle" /\ status' = "error"
       ELSE /\ pc' = IF error THEN "validating" ELSE IF booting THEN "bootstrap" ELSE "loop"
            /\ UNCHANGED status
    /\ UNCHANGED <<first, booting, tries, retry, results, error, runs, history>>

\* Mutant: the verdict looks at the page only, not at the results of the steps.
ValidatePageOnly ==
    /\ pc = "validating"
    /\ \E ok \in BOOLEAN : status' = IF ok THEN "passed" ELSE "failed"
    /\ pc' = "idle"
    /\ UNCHANGED <<rows, runState, runs, history>>

\* validation_node and the report: a failed result is a FAILED verdict, else
\* the checks of the page and of the models decide.
Validate ==
    /\ pc = "validating"
    /\ \E ok \in BOOLEAN :
         status' = IF ok /\ ~HasFailed THEN "passed" ELSE "failed"
    /\ pc' = "idle"
    /\ UNCHANGED <<rows, runState, runs, history>>

\* An exception the step loop does not turn into a result: parser, browser,
\* account query, executor set-up.  The rows stay as they are.
RunError ==
    /\ pc # "idle"
    /\ status' = "error" /\ pc' = "idle"
    /\ UNCHANGED <<rows, runState, runs, history>>

Run ==
    \/ StartRun \/ PlanAndOpen \/ BootstrapStep \/ BootstrapDone
    \/ LoopStep \/ LoopSkip \/ LoopDone
    \/ AttemptPasses \/ AttemptFails \/ ExecuteFails \/ WriteRow
    \/ Validate

-----------------------------------------------------------------------------
(* The user.                                                               *)

\* stop_execution: the task dies where it is; rows not finished are SKIPPED.
Stop ==
    /\ status \in {"queued", "running"}
    /\ status' = "cancelled" /\ pc' = "idle"
    /\ rows' = [s \in Steps |-> IF rows[s] \in {"pending", "running"}
                                THEN "skipped" ELSE rows[s]]
    /\ UNCHANGED <<runState, runs, history>>

\* rerun_execution from the start: the rows are deleted.
RerunAll ==
    /\ pc = "idle" /\ status \in Finals /\ runs < MaxRuns
    /\ status' = "queued"
    /\ rows' = [s \in Steps |-> "none"]
    /\ UNCHANGED <<pc, runState, runs, history>>

\* rerun_execution from a step: earlier rows stay, later ones are PENDING.
RerunFrom(from) ==
    /\ pc = "idle" /\ status \in Finals /\ runs < MaxRuns
    /\ status' = "queued"
    /\ rows' = [s \in Steps |-> IF s >= from /\ rows[s] # "none"
                                THEN "pending" ELSE rows[s]]
    /\ UNCHANGED <<pc, runState, runs, history>>

\* update_step_params: the edited step is PENDING again.
EditStep(s) ==
    /\ pc = "idle" /\ status \in {"failed", "error", "cancelled"}
    /\ rows[s] # "none"
    /\ rows' = [rows EXCEPT ![s] = "pending"]
    /\ UNCHANGED <<status, pc, runState, runs, history>>

User == Stop \/ RerunAll \/ \E s \in Steps : RerunFrom(s) \/ EditStep(s)

Next == Run \/ RunError \/ User

Spec == Init /\ [][Next]_vars

\* The event loop resumes the task, and every call of the browser and of the
\* models has a timeout.  Errors may never happen, and users owe nothing.
FairSpec == Spec /\ WF_vars(Run)

-----------------------------------------------------------------------------
(* Properties.                                                             *)

\* Each step the main loop executes comes after all main-loop steps before it
\* passed in this same browser: no retry, stale row or skipped login step lets
\* the loop run ahead of a step that has not been done.
InOrder ==
    pc = "attempt" /\ ~booting => \A s \in MainSteps : s < cur => s \in session

\* However often steps are retried, skipped or repeated to log in again, a run
\* does the steps of its main loop one by one, in order, each of them once, and
\* passes only when all are done: it implements OrderedRun.
Ordered == INSTANCE OrderedRun WITH todo <- MainSteps, done <- session \cap MainSteps
InOneGo == Ordered!Spec

\* A PASSED verdict means that every main-loop step passed in this browser, and
\* that its row says so although rows are written from whatever result is last.
PassedMeansDone ==
    status = "passed" => \A s \in MainSteps : s \in session /\ rows[s] = "passed"

\* A FAILED verdict is explained by the rows: one of them says FAILED, or all
\* the steps passed and the validation did not.
FailureIsVisible ==
    [][pc = "validating" /\ status' = "failed" =>
         \/ \E s \in MainSteps : rows[s] = "failed"
         \/ \A s \in MainSteps : rows[s] = "passed"]_vars

\* The executor's attempts and the node's rounds multiply, and no more: a step
\* is tried at most (MaxRetries + 1)^2 times in a run, a login step that a
\* resumed run repeats at most MaxRetries + 1 times.
AttemptsBounded ==
    \A s \in Steps :
        count[s] <= (MaxRetries + 1) * (IF s \in MainSteps THEN MaxRetries + 1 ELSE 1)

\* A step that failed for good is the last one executed in its run.
NothingAfterFailure ==
    [][HasFailed /\ runs' = runs => count' = count]_vars

\* A run that began comes to a final status.
Settles == status = "running" ~> status \in Finals

\* "Fresh browser has no session - always establish OAuth login + Login As
\* first." (execution_service.py:532): a resumed main loop runs logged in.
SessionEstablished ==
    pc = "attempt" /\ ~booting /\ Resumed => Bootstrap \subseteq session

\* "If any DB steps are already passed (re-run from a later step), skip them."
\* (execution_service.py:488): what is skipped has passed when last executed.
SkippedHavePassed ==
    pc = "loop" => \A s \in 1..(first - 1) \ Bootstrap : s \in passed
=============================================================================
