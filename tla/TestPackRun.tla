------------------------------ MODULE TestPackRun ------------------------------
(***************************************************************************)
(* The execution of a test pack (_run_test_pack_execution): the cases of   *)
(* the pack one after the other in one browser context (TestCaseRunner),   *)
(* each as the Salesforce user it names (LoginResolver), and the verdict   *)
(* of the pack.                                                            *)
(*                                                                         *)
(* A run has a runner, a context and an identity cache of its own, so one  *)
(* run is modelled; continue_on_failure is TRUE, as the service sets it.   *)
(* The outcome of a browser step is nondeterministic, and so is what the   *)
(* SOQL query returns.  Taken for granted of Salesforce: all tabs of a     *)
(* context share one session, and a tab shows the session it was loaded    *)
(* with, its banner "Logged in as" too, until it loads something again.    *)
(* Cases with a step that logs in are left out.                            *)
(***************************************************************************)
EXTENDS Naturals, Sequences, SequencesExt

CONSTANTS
    MaxCases,  \* bound on the test cases of a pack
    CaseSteps, \* planned steps of a case
    Users,     \* who a case may ask to be, as cache keys "bottler|role"
    Alike,     \* Alike[u]: the users whose name has u's in it, u among them
    Admin,     \* the user of the org's credentials
    Accounts,  \* what the account query may return
    None       \* Python's None: no target, no key, no account, no session

ASSUME CasesAssumption == MaxCases \in Nat /\ CaseSteps \in Nat \ {0}
ASSUME UsersAssumption ==
    /\ Admin \notin Users /\ None \notin Users \cup Accounts \cup {Admin}
    /\ Alike \in [Users -> SUBSET Users] /\ \A u \in Users : u \in Alike[u]

Cases    == 1..MaxCases
Finals   == {"passed", "failed", "error", "cancelled"}
Statuses == {"queued", "running"} \cup Finals
Outcomes == {"passed", "failed", "blocked"}
PCs      == {"idle", "case", "login", "open", "identity", "relogin", "loginAs",
             "account", "steps", "reset", "report"}

VARIABLES
    status,    \* Execution.status
    pc,        \* the await at which the run is suspended
    pack,      \* the target of each case, as _resolve_login_target returns it
    query,     \* the execution has an account query
    results,   \* results of the cases, in the order in which they ended
    key,       \* _current_impersonation_key
    navigated, \* _navigated
    resolved,  \* resolved_account, None as long as _account_query_resolved is not set
    cacheKey,  \* current_identity_key of the execution's LoginResolver cache
    at,        \* index of the step within the case
    failed,    \* tc_failed
    user,      \* who the browser's session belongs to
    shown,     \* the session for which the runner's page was loaded; None when it shows no session
    tabs,      \* the sessions for which pages were loaded; a tab may still show each of them
    actors,    \* history: as whom the steps of the case were executed
    stale      \* history: the case believed a banner of an earlier session

case == <<at, failed, actors, stale>>
mind == <<key, navigated, resolved, cacheKey>>
browser == <<user, shown, tabs>>
vars == <<status, pc, pack, query, results, mind, case, browser>>

Results == [status : Outcomes, actors : SUBSET (Users \cup {Admin, None}),
            account : Accounts \cup {None}, stale : BOOLEAN]

TypeOK ==
    /\ status \in Statuses /\ pc \in PCs
    /\ pack \in Seq(Users \cup {None}) /\ Len(pack) <= MaxCases
    /\ query \in BOOLEAN
    /\ results \in Seq(Results) /\ Len(results) <= Len(pack)
    /\ key \in Users \cup {None} /\ cacheKey \in Users \cup {None}
    /\ navigated \in BOOLEAN
    /\ resolved \in Accounts \cup {None}
    /\ at \in 1..CaseSteps
    /\ failed \in BOOLEAN
    /\ actors \subseteq Users \cup {Admin, None} /\ stale \in BOOLEAN
    /\ {user, shown} \subseteq Users \cup {Admin, None} /\ tabs \subseteq Users \cup {Admin}

Init ==
    /\ status = "queued" /\ pc = "idle"
    /\ pack \in UNION {[1..n -> Users \cup {None}] : n \in 0..MaxCases}
    /\ query \in BOOLEAN
    /\ results = <<>>
    /\ key = None /\ cacheKey = None /\ resolved = None /\ navigated = FALSE
    /\ at = 1 /\ failed = FALSE /\ actors = {} /\ stale = FALSE
    /\ user = None /\ shown = None /\ tabs = {}

-----------------------------------------------------------------------------
(* The browser and the step executor.                                      *)

Current == Len(results) + 1
Target  == pack[Current]

\* Something is loaded, in the runner's page or in another tab.
Load(session) == tabs' = tabs \cup ({session} \ {None})

\* _ensure_active_page: the runner's page stays, or is another tab, in which a form was opened.
ActivePage == shown' \in {shown} \cup tabs

\* The page a step ends with: the active one, or one that was loaded for the session.
Turn(session) == Load(session) /\ (ActivePage \/ shown' = session)

\* StepExecutor.execute returns "passed" only where a page shows a session, which
\* may have ended; it returns "failed" after its last attempt whatever the reason.
CanPass == shown' # None

\* Within the case, the run goes on at another place.
Goto(place) ==
    /\ pc' = place
    /\ UNCHANGED <<status, pack, query, results>>

\* The case is over; its result tells as whom and on what it passed.
EndCase(outcome) ==
    /\ results' = Append(results, IF outcome = "passed"
                                  THEN [status |-> outcome, actors |-> actors, account |-> resolved,
                                        stale |-> stale]
                                  ELSE [status |-> outcome, actors |-> {}, account |-> None,
                                        stale |-> FALSE])
    /\ pc' = "case"
    /\ at' = 1 /\ failed' = FALSE /\ actors' = {} /\ stale' = FALSE
    /\ UNCHANGED <<status, pack, query, key, navigated, resolved>>

\* What the attempts of a step may leave behind that does not pass: a login or
\* a click that worked, in an attempt that failed afterwards.
Leftover ==
    /\ \/ UNCHANGED <<user, cacheKey>>
       \/ /\ pc \in {"login", "relogin"}
          /\ user' = Admin /\ UNCHANGED cacheKey
       \/ /\ pc = "loginAs" /\ user # None
          /\ user' \in Alike[Target] /\ cacheKey' \in {cacheKey, Target}
    /\ Turn(user')

-----------------------------------------------------------------------------
(* The pack.                                                               *)

\* The pack is parsed and planned, the browser opens, run_pack forgets the
\* identity of any run before.
StartPack ==
    /\ pc = "idle" /\ status = "queued"
    /\ status' = "running" /\ pc' = "case"
    /\ UNCHANGED <<pack, query, results, mind, case, browser>>

\* run_test_case begins: the credentials are there ...
StartCase ==
    /\ pc = "case" /\ Current <= Len(pack)
    /\ Goto(IF navigated THEN "identity" ELSE "login")
    /\ UNCHANGED <<mind, case, browser>>

\* ... or they are not, and nothing is tried; once found they are cached.
BlockCase ==
    /\ pc = "case" /\ Current <= Len(pack)
    /\ \A i \in DOMAIN results : results[i].status = "blocked"
    /\ EndCase("blocked")
    /\ UNCHANGED <<browser, cacheKey>>

\* The context is closed, and the runner is forgotten.
Close ==
    /\ key' = None /\ navigated' = FALSE /\ resolved' = None /\ cacheKey' = None
    /\ at' = 1 /\ failed' = FALSE /\ actors' = {} /\ stale' = FALSE
    /\ user' = None /\ shown' = None /\ tabs' = {}

PackDone ==
    /\ pc = "case" /\ Current > Len(pack)
    /\ Goto("report")
    /\ Close

\* StepExecutor._login: a page that shows a session is left as it is, whoever
\* the session belongs to; otherwise the org's credentials are used.
LoginPasses ==
    /\ \/ ActivePage /\ shown' # None /\ UNCHANGED <<user, tabs>>
       \/ user' = Admin /\ shown' = Admin /\ Load(Admin)
    /\ UNCHANGED cacheKey

\* The first navigation step, once for the pack.
NavigateLogin ==
    /\ pc = "login"
    /\ \/ LoginPasses /\ UNCHANGED failed
       \/ Leftover /\ failed' = TRUE
    /\ Goto("open")
    /\ UNCHANGED <<key, navigated, resolved, at, actors, stale>>

\* The other navigation steps; their failure does not end the case.
NavigateOpen ==
    /\ pc = "open"
    /\ Turn(user)
    /\ \/ CanPass /\ UNCHANGED failed
       \/ failed' = TRUE
    /\ navigated' = TRUE
    /\ Goto("identity")
    /\ UNCHANGED <<key, resolved, cacheKey, at, actors, stale, user>>

-----------------------------------------------------------------------------
(* The identity of the case (_ensure_impersonation).                       *)

\* A page loaded for this session has a banner that the target's name is in.
Named(session) == session \in Alike[Target]

\* The target is believed to be logged in, whoever is.
Believe == stale' = ~Named(user)

\* Mutant: the remembered keys are believed without a look at the page.
IdentityKnownByKey ==
    /\ pc = "identity" /\ Target # None
    /\ Target = key /\ cacheKey = Target
    /\ Goto("account")
    /\ UNCHANGED <<mind, case, browser>>

\* The browser is who the case asks for: by the runner's key, by the cache and
\* by the banner of the runner's page.
IdentityKnown ==
    /\ pc = "identity" /\ Target # None
    /\ Target = key /\ cacheKey = Target /\ Named(shown)
    /\ Believe
    /\ Goto("account")
    /\ UNCHANGED <<mind, at, failed, actors, browser>>

\* Nobody to switch from, or no banner seen; without a target, nobody to switch to either.
IdentityNew ==
    /\ pc = "identity" /\ (key = None \/ Target = key)
    /\ IF Target = None
       THEN key' = None /\ Goto("account")
       ELSE Goto("loginAs") /\ UNCHANGED key
    /\ UNCHANGED <<navigated, resolved, cacheKey, case, browser>>

IdentityChanges ==
    /\ pc = "identity" /\ key # None /\ Target # key
    /\ Goto("relogin")
    /\ UNCHANGED <<mind, case, browser>>

\* The step "Re-login admin".  When it fails the key stays, and the case goes
\* on as a failed one.
Relogin ==
    /\ pc = "relogin"
    /\ \/ /\ LoginPasses
          /\ IF Target = None
             THEN key' = None /\ Goto("account")
             ELSE UNCHANGED key /\ Goto("loginAs")
          /\ UNCHANGED failed
       \/ /\ Leftover
          /\ failed' = TRUE /\ UNCHANGED key
          /\ Goto("account")
    /\ UNCHANGED <<navigated, resolved, at, actors, stale>>

\* LoginResolver.login_as: nothing to do when cache and banner agree, else the record is opened in a
\* tab, Login is clicked and the banner awaited there; the runner's page is the one it was.
LoginAsPasses ==
    /\ ActivePage /\ UNCHANGED tabs
    /\ \/ cacheKey = Target /\ Named(shown') /\ Believe /\ UNCHANGED <<user, cacheKey>>
       \/ user # None /\ user' \in Alike[Target] /\ cacheKey' = Target /\ UNCHANGED stale

LoginAs ==
    /\ pc = "loginAs"
    /\ \/ LoginAsPasses /\ key' = Target /\ UNCHANGED failed
       \/ Leftover /\ UNCHANGED <<key, stale>> /\ failed' = TRUE
    /\ Goto("account")
    /\ UNCHANGED <<navigated, resolved, at, actors>>

-----------------------------------------------------------------------------
(* The steps of the case.                                                  *)

\* Mutant: the account is looked up for every case.
ResolveEveryCase ==
    /\ pc = "account"
    /\ IF query THEN resolved' \in Accounts ELSE UNCHANGED resolved
    /\ Goto("steps")
    /\ UNCHANGED <<key, navigated, cacheKey, case, browser>>

\* _ensure_account_resolved; when the query fails it raises (CaseRaises).
ResolveAccount ==
    /\ pc = "account"
    /\ IF query /\ resolved = None THEN resolved' \in Accounts ELSE UNCHANGED resolved
    /\ Goto("steps")
    /\ UNCHANGED <<key, navigated, cacheKey, case, browser>>

\* _run_planned_step with its assertions: a failed one does not end the case.
TestStep ==
    /\ pc = "steps"
    /\ Turn(user)
    /\ \/ CanPass /\ UNCHANGED failed
       \/ failed' = TRUE
    /\ actors' = actors \cup {user}
    /\ IF at < CaseSteps
       THEN at' = at + 1 /\ Goto("steps")
       ELSE UNCHANGED at /\ Goto("reset")
    /\ UNCHANGED <<mind, stale, user>>

\* The baseline reset steps, whose outcome does not count.
Reset ==
    /\ pc = "reset"
    /\ EndCase(IF failed THEN "failed" ELSE "passed")
    /\ Turn(user)
    /\ UNCHANGED <<user, cacheKey>>

\* Mutant: the case is tried again.
CaseRaisesAgain ==
    /\ pc \in {"login", "open", "identity", "relogin", "loginAs", "account", "steps", "reset"}
    /\ pc' = "case"
    /\ UNCHANGED <<status, pack, query, results, mind, case, browser>>

\* "except Exception" around the case: whatever a step, an assertion or the
\* account query raises is a failed case.
CaseRaises ==
    /\ pc \in {"login", "open", "identity", "relogin", "loginAs", "account", "steps", "reset"}
    /\ EndCase("failed")
    /\ Leftover

-----------------------------------------------------------------------------
(* The verdict.                                                            *)

\* The counts of the results are only compared with zero.
Some(outcome) == \E i \in DOMAIN results : results[i].status = outcome

\* Mutant: blocked cases are left out of the verdict.
VerdictOfFailed == IF Some("failed") THEN "failed" ELSE "passed"

\* _report_test_pack.
Verdict == IF Some("failed") \/ Some("blocked") THEN "failed" ELSE "passed"

Report ==
    /\ pc = "report"
    /\ status' = Verdict /\ pc' = "idle"
    /\ UNCHANGED <<pack, query, results, mind, case, browser>>

\* What is raised outside of the cases: by the parser, the browser, the report.
RunError ==
    /\ pc \in {"case", "report"}
    /\ status' = "error" /\ pc' = "idle"
    /\ Close
    /\ UNCHANGED <<pack, query, results>>

Run ==
    \/ StartPack \/ StartCase \/ BlockCase \/ PackDone
    \/ NavigateLogin \/ NavigateOpen
    \/ IdentityKnown \/ IdentityNew \/ IdentityChanges \/ Relogin \/ LoginAs
    \/ ResolveAccount \/ TestStep \/ Reset \/ CaseRaises
    \/ Report

-----------------------------------------------------------------------------
(* The rest of the world.                                                  *)

\* Salesforce ends the session; the pages show it when they load something.
SessionEnds ==
    /\ user # None
    /\ user' = None
    /\ UNCHANGED <<status, pc, pack, query, results, mind, case, shown, tabs>>

\* stop_execution: the CancelledError passes every "except Exception" of the
\* runner.  A stop that meets the last commit of the run, or that does not find
\* the task, is the subject of ExecutionControl.
Stop ==
    /\ status \in {"queued", "running"}
    /\ status' = "cancelled" /\ pc' = "idle"
    /\ Close
    /\ UNCHANGED <<pack, query, results>>

World == SessionEnds \/ Stop

Next == Run \/ RunError \/ World

Spec == Init /\ [][Next]_vars

\* The event loop resumes the task, and each call of the browser and of
\* Salesforce has a timeout.
FairSpec == Spec /\ WF_vars(Run)

-----------------------------------------------------------------------------
(* Properties.                                                             *)

\* A case that asks for a user and passed did none of its steps as anybody but him, or one whose name
\* contains his: the switches before it may have failed before or after the click, the keys be out of
\* date, the session have ended.  Except for what a banner that an earlier session left in the page says;
\* as long as each case before asked for a user and passed, there is no harm in that either.
PassedAsTarget ==
    \A i \in DOMAIN results :
        pack[i] # None /\ results[i].status = "passed" =>
            \/ results[i].actors \subseteq Alike[pack[i]] \cup {None}
            \/ results[i].stale /\ \E j \in 1..(i - 1) : pack[j] = None \/ results[j].status # "passed"

\* A PASSED pack is one whose every case passed, a FAILED one has a case that
\* did not, and neither verdict is given before every case has its result.
VerdictCoversPack ==
    /\ status \in {"passed", "failed"} => Len(results) = Len(pack)
    /\ status = "passed" => \A i \in DOMAIN pack : results[i].status = "passed"
    /\ status = "failed" => \E i \in DOMAIN pack : results[i].status # "passed"

\* All cases that passed worked on the one account the query returned first.
OneAccount ==
    \A i, j \in DOMAIN results :
        results[i].status = "passed" /\ results[j].status = "passed" =>
            results[i].account = results[j].account

\* The pack does its cases one by one, in order, and passes only when all are
\* done: it implements OrderedRun.
Ordered == INSTANCE OrderedRun WITH
               Steps <- Cases, todo <- DOMAIN pack, done <- DOMAIN results
CasesInOrder == Ordered!Spec

\* A run that began comes to a final status.
Settles == status = "running" ~> status \in Finals

\* "None (no impersonation, stay as the admin login)" (identity_selector.py:9):
\* a case without a target that passed did none of its steps as a user.
PassedAsAdmin ==
    \A i \in DOMAIN results :
        pack[i] = None /\ results[i].status = "passed" => results[i].actors \subseteq {Admin, None}
=============================================================================
