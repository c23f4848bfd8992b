-------------------------- MODULE TestPackRun_proofs --------------------------
(***************************************************************************)
(* Theorems about TestPackRun, for packs of any size, any users and any    *)
(* accounts.                                                               *)
(***************************************************************************)
EXTENDS TestPackRun, SequenceTheorems, TLAPS

-----------------------------------------------------------------------------
(* Lemmas about the data.                                                  *)

\* Functions on an initial segment of the naturals are sequences.
LEMMA PacksAreSequences ==
    ASSUME NEW p \in UNION {[1..n -> Users \cup {None}] : n \in 0..MaxCases}
    PROVE  p \in Seq(Users \cup {None}) /\ Len(p) \in 0..MaxCases /\ DOMAIN p = 1..Len(p)
  <1>1. PICK n \in 0..MaxCases : p \in [1..n -> Users \cup {None}]
    OBVIOUS
  <1>2. n \in Nat
    BY CasesAssumption
  <1> QED
    BY <1>1, <1>2

\* Where a case is under way.
InCase == pc \notin {"idle", "case", "report"}

\* The results of cases that ended are those of the first cases of the pack.
Place ==
    /\ InCase => Len(results) < Len(pack)
    /\ pc = "report" => Len(results) = Len(pack)
    /\ pc = "idle" <=> status # "running"
    /\ status = "queued" => results = <<>>
    /\ pc = "loginAs" => Target # None

LEMMA TargetType ==
    ASSUME TypeOK, Place, InCase
    PROVE  Target \in Users \cup {None} /\ Current \in DOMAIN pack
  BY DEF TypeOK, Place, Target, Current

\* One more result.
LEMMA Ended ==
    ASSUME TypeOK, Len(results) < Len(pack), NEW outcome \in Outcomes, EndCase(outcome)
    PROVE  /\ results' \in Seq(Results) /\ Len(results') = Len(results) + 1
           /\ \A i \in DOMAIN results : i \in DOMAIN results' /\ results'[i] = results[i]
           /\ DOMAIN results' = DOMAIN results \cup {Current}
           /\ results'[Current].status = outcome
           /\ outcome = "passed" => /\ results'[Current].actors = actors
                                    /\ results'[Current].account = resolved
                                    /\ results'[Current].stale = stale
  <1> DEFINE r == IF outcome = "passed"
                  THEN [status |-> outcome, actors |-> actors, account |-> resolved, stale |-> stale]
                  ELSE [status |-> outcome, actors |-> {}, account |-> None, stale |-> FALSE]
  <1>1. r \in Results
    BY DEF TypeOK, Results
  <1>2. /\ r.status = outcome
        /\ outcome = "passed" => r.actors = actors /\ r.account = resolved /\ r.stale = stale
    OBVIOUS
  <1>3. results' = Append(results, r) /\ results \in Seq(Results)
    BY DEF EndCase, TypeOK
  <1> HIDE DEF r
  <1>4. /\ results' \in Seq(Results) /\ Len(results') = Len(results) + 1
        /\ \A i \in 1..Len(results) : results'[i] = results[i]
        /\ results'[Len(results) + 1] = r
    BY <1>1, <1>3, AppendProperties
  <1>5. DOMAIN results = 1..Len(results) /\ DOMAIN results' = 1..Len(results')
    BY <1>3, <1>4
  <1>6. Len(results) \in Nat
    BY <1>3
  <1> QED
    BY <1>2, <1>4, <1>5, <1>6 DEF Current

-----------------------------------------------------------------------------
(* Type correctness, with the place of the run in the pack.                *)

LEMMA InitTypeOK == Init => TypeOK /\ Place
  <1> SUFFICES ASSUME Init PROVE TypeOK /\ Place
    OBVIOUS
  <1>1. pack \in Seq(Users \cup {None}) /\ Len(pack) \in 0..MaxCases
    BY PacksAreSequences DEF Init
  <1>2. results \in Seq(Results) /\ Len(results) = 0 /\ Len(results) <= Len(pack)
    BY <1>1 DEF Init
  <1>3. at \in 1..CaseSteps
    BY CasesAssumption DEF Init
  <1>4. Len(pack) <= MaxCases
    BY <1>1, CasesAssumption
  <1> QED
    BY <1>1, <1>2, <1>3, <1>4 DEF Init, TypeOK, Place, InCase, Statuses, PCs

\* Who the session can belong to, and who a page can show.
Sessions == Users \cup {Admin, None}
BrowserOK == {user, shown} \subseteq Sessions /\ tabs \subseteq Users \cup {Admin}

LEMMA PagesType ==
    ASSUME BrowserOK
    PROVE  /\ ActivePage /\ UNCHANGED tabs =>
                  shown' \in Sessions /\ tabs' \subseteq Users \cup {Admin}
           /\ \A s \in Sessions : Turn(s) => shown' \in Sessions /\ tabs' \subseteq Users \cup {Admin}
  BY DEF BrowserOK, Sessions, ActivePage, Turn, Load

LEMMA LoginType ==
    ASSUME TypeOK, LoginPasses
    PROVE  BrowserOK' /\ cacheKey' \in Users \cup {None}
  <1>1. BrowserOK /\ cacheKey \in Users \cup {None}
    BY DEF TypeOK, BrowserOK, Sessions
  <1> QED
    BY <1>1 DEF LoginPasses, ActivePage, Load, BrowserOK, Sessions

\* What the steps on the way leave behind.
LEMMA LeftoverType ==
    ASSUME TypeOK, Place, InCase, Leftover
    PROVE  BrowserOK' /\ cacheKey' \in Users \cup {None}
  <1>0. BrowserOK /\ cacheKey \in Users \cup {None} /\ Target \in Users \cup {None}
    BY TargetType DEF TypeOK, BrowserOK, Sessions
  <1>1. user' \in Sessions /\ cacheKey' \in Users \cup {None}
    <2>1. CASE UNCHANGED <<user, cacheKey>>
      BY <1>0, <2>1 DEF BrowserOK
    <2>2. CASE user' = Admin /\ UNCHANGED cacheKey
      BY <1>0, <2>2 DEF Sessions
    <2>3. CASE pc = "loginAs" /\ user' \in Alike[Target] /\ cacheKey' \in {cacheKey, Target}
      <3>1. Target \in Users
        BY <1>0, <2>3 DEF Place
      <3>2. Alike[Target] \subseteq Users
        BY <3>1, UsersAssumption
      <3> QED
        BY <1>0, <2>3, <3>1, <3>2 DEF Sessions
    <2> QED
      BY <2>1, <2>2, <2>3 DEF Leftover
  <1>2. Turn(user')
    BY DEF Leftover
  <1> QED
    BY <1>0, <1>1, <1>2, PagesType DEF BrowserOK

LEMMA EndCaseType ==
    ASSUME TypeOK, Place, Len(results) < Len(pack), pc # "idle",
           NEW outcome \in Outcomes, EndCase(outcome),
           BrowserOK', cacheKey' \in Users \cup {None}
    PROVE  TypeOK' /\ Place'
  <1>1. results' \in Seq(Results) /\ Len(results') = Len(results) + 1
    BY Ended
  <1>2. Len(results) \in Nat /\ Len(pack) \in Nat
    BY DEF TypeOK
  <1>3. Len(results') <= Len(pack)
    BY <1>1, <1>2
  <1>4. 1 \in 1..CaseSteps
    BY CasesAssumption
  <1>5. TypeOK'
    BY <1>1, <1>3, <1>4 DEF TypeOK, EndCase, PCs, BrowserOK, Sessions
  <1>6. Place'
    BY DEF Place, EndCase, InCase
  <1> QED
    BY <1>5, <1>6

\* A step within a case.
LEMMA GotoType ==
    ASSUME TypeOK, Place, pc # "idle", NEW place \in PCs \ {"idle", "case", "report", "loginAs"},
           Goto(place), InCase \/ Len(results) < Len(pack),
           key' \in Users \cup {None}, cacheKey' \in Users \cup {None},
           navigated' \in BOOLEAN, resolved' \in Accounts \cup {None},
           at' \in 1..CaseSteps, failed' \in BOOLEAN, stale' \in BOOLEAN,
           actors' \subseteq Users \cup {Admin, None}, BrowserOK'
    PROVE  TypeOK' /\ Place'
  <1>1. TypeOK'
    BY DEF TypeOK, Goto, BrowserOK, Sessions
  <1>2. Place'
    BY DEF Place, Goto, InCase
  <1> QED
    BY <1>1, <1>2

\* The context is closed.
LEMMA CloseType ==
    ASSUME TypeOK, Close, UNCHANGED <<pack, query, results>>, status' \in Statuses, pc' \in PCs
    PROVE  TypeOK'
  <1>1. 1 \in 1..CaseSteps
    BY CasesAssumption
  <1> QED
    BY <1>1 DEF Close, TypeOK

LEMMA NextTypeOK == TypeOK /\ Place /\ [Next]_vars => TypeOK' /\ Place'
  <1> SUFFICES ASSUME TypeOK, Place, [Next]_vars PROVE TypeOK' /\ Place'
    OBVIOUS
  <1> USE DEF mind, case, browser
  <1>t. /\ key \in Users \cup {None} /\ cacheKey \in Users \cup {None}
        /\ navigated \in BOOLEAN /\ resolved \in Accounts \cup {None}
        /\ at \in 1..CaseSteps /\ failed \in BOOLEAN
        /\ actors \subseteq Users \cup {Admin, None} /\ stale \in BOOLEAN
        /\ BrowserOK /\ user \in Sessions
        /\ Len(results) \in Nat /\ Len(pack) \in Nat /\ Len(results) <= Len(pack)
    BY DEF TypeOK, BrowserOK, Sessions
  <1>b. UNCHANGED browser => BrowserOK'
    BY <1>t DEF BrowserOK
  <1>p. {"case", "login", "open", "identity", "relogin", "loginAs", "account", "steps",
         "reset", "report", "idle"} \subseteq PCs
    BY DEF PCs
  <1>1. CASE StartPack
    BY <1>1 DEF StartPack, TypeOK, Place, InCase, Statuses, PCs
  <1>2. CASE StartCase
    <2>1. Len(results) < Len(pack) /\ pc # "idle"
      BY <1>2, <1>t DEF StartCase, Current
    <2>2. CASE Goto("identity")
      BY <1>2, <1>t, <1>b, <1>p, <2>1, <2>2, GotoType DEF StartCase
    <2>3. CASE Goto("login")
      BY <1>2, <1>t, <1>b, <1>p, <2>1, <2>3, GotoType DEF StartCase
    <2> QED
      BY <1>2, <2>2, <2>3 DEF StartCase
  <1>3. CASE BlockCase
    <2>1. Len(results) < Len(pack) /\ pc # "idle" /\ EndCase("blocked") /\ UNCHANGED <<browser, cacheKey>>
      BY <1>3, <1>t DEF BlockCase, Current
    <2> QED
      BY <1>t, <1>b, <2>1, EndCaseType DEF Outcomes
  <1>4. CASE PackDone
    <2>1. Len(results) = Len(pack) /\ Goto("report") /\ Close /\ pc = "case"
      BY <1>4, <1>t DEF PackDone, Current
    <2>2. TypeOK'
      BY <1>p, <2>1, CloseType DEF Goto, TypeOK
    <2> QED
      BY <2>1, <2>2 DEF Goto, Place, InCase
  <1>5. CASE NavigateLogin
    <2>1. InCase /\ pc # "idle"
      BY <1>5 DEF NavigateLogin, InCase
    <2>2. BrowserOK' /\ cacheKey' \in Users \cup {None} /\ failed' \in BOOLEAN
      <3>1. CASE LoginPasses /\ UNCHANGED failed
        BY <1>t, <3>1, LoginType
      <3>2. CASE Leftover /\ failed' = TRUE
        BY <2>1, <3>2, LeftoverType
      <3> QED
        BY <1>5, <3>1, <3>2 DEF NavigateLogin
    <2> QED
      BY <1>5, <1>t, <1>p, <2>1, <2>2, GotoType DEF NavigateLogin
  <1>6. CASE NavigateOpen
    <2>1. InCase /\ pc # "idle"
      BY <1>6 DEF NavigateOpen, InCase
    <2>2. Goto("identity") /\ UNCHANGED <<key, resolved, cacheKey, at, actors, stale, user>>
          /\ failed' \in BOOLEAN /\ navigated' \in BOOLEAN /\ Turn(user)
      BY <1>6, <1>t DEF NavigateOpen
    <2>3. BrowserOK'
      BY <1>t, <2>2, PagesType DEF BrowserOK
    <2> QED
      BY <1>t, <1>p, <2>1, <2>2, <2>3, GotoType
  <1>7. CASE IdentityKnown
    <2>1. InCase /\ pc # "idle" /\ Goto("account") /\ UNCHANGED <<mind, at, failed, actors, browser>>
          /\ stale' \in BOOLEAN
      BY <1>7 DEF IdentityKnown, Believe, InCase
    <2> QED
      BY <1>t, <1>b, <1>p, <2>1, GotoType
  <1>8. CASE IdentityNew
    <2>1. InCase /\ pc # "idle" /\ UNCHANGED <<navigated, resolved, cacheKey, case, browser>>
      BY <1>8 DEF IdentityNew, InCase
    <2>2. CASE key' = None /\ Goto("account")
      BY <1>t, <1>b, <1>p, <2>1, <2>2, GotoType
    <2>3. CASE UNCHANGED key /\ Goto("loginAs") /\ Target # None
      <3>1. TypeOK'
        BY <1>t, <1>b, <1>p, <2>1, <2>3 DEF Goto, TypeOK
      <3> QED
        BY <2>1, <2>3, <3>1 DEF Goto, Place, InCase, Target, Current
    <2> QED
      BY <1>8, <2>2, <2>3 DEF IdentityNew
  <1>9. CASE IdentityChanges
    <2>1. InCase /\ pc # "idle" /\ Goto("relogin") /\ UNCHANGED <<mind, case, browser>>
      BY <1>9 DEF IdentityChanges, InCase
    <2> QED
      BY <1>t, <1>b, <1>p, <2>1, GotoType
  <1>10. CASE Relogin
    <2>1. InCase /\ pc # "idle" /\ UNCHANGED <<navigated, resolved, at, actors, stale>>
      BY <1>10 DEF Relogin, InCase
    <2>2. /\ BrowserOK' /\ cacheKey' \in Users \cup {None}
          /\ failed' \in BOOLEAN /\ key' \in Users \cup {None}
          /\ Goto("account") \/ (Goto("loginAs") /\ Target # None)
      <3>1. CASE /\ LoginPasses /\ UNCHANGED failed
                 /\ IF Target = None THEN key' = None /\ Goto("account")
                                     ELSE UNCHANGED key /\ Goto("loginAs")
        BY <1>t, <3>1, LoginType
      <3>2. CASE Leftover /\ failed' = TRUE /\ UNCHANGED key /\ Goto("account")
        BY <1>t, <2>1, <3>2, LeftoverType
      <3> QED
        BY <1>10, <3>1, <3>2 DEF Relogin
    <2>3. CASE Goto("account")
      BY <1>t, <1>p, <2>1, <2>2, <2>3, GotoType
    <2>4. CASE Goto("loginAs") /\ Target # None
      <3>1. TypeOK'
        BY <1>t, <1>p, <2>1, <2>2, <2>4 DEF Goto, TypeOK, BrowserOK, Sessions
      <3> QED
        BY <2>1, <2>4, <3>1 DEF Goto, Place, InCase, Target, Current
    <2> QED
      BY <2>2, <2>3, <2>4
  <1>11. CASE LoginAs
    <2>1. InCase /\ pc # "idle" /\ Goto("account") /\ UNCHANGED <<navigated, resolved, at, actors>>
      BY <1>11 DEF LoginAs, InCase
    <2>2. /\ BrowserOK' /\ cacheKey' \in Users \cup {None}
          /\ failed' \in BOOLEAN /\ key' \in Users \cup {None} /\ stale' \in BOOLEAN
      <3>1. CASE LoginAsPasses /\ key' = Target /\ UNCHANGED failed
        <4>1. Target \in Users
          BY <1>11, <2>1, TargetType DEF LoginAs, Place
        <4>2. Alike[Target] \subseteq Users
          BY <4>1, UsersAssumption
        <4>3. user' \in Sessions /\ cacheKey' \in Users \cup {None} /\ stale' \in BOOLEAN
          BY <1>t, <3>1, <4>1, <4>2 DEF LoginAsPasses, Believe, Sessions
        <4>4. ActivePage /\ UNCHANGED tabs
          BY <3>1 DEF LoginAsPasses
        <4> QED
          BY <1>t, <3>1, <4>1, <4>3, <4>4, PagesType DEF BrowserOK
      <3>2. CASE Leftover /\ UNCHANGED <<key, stale>> /\ failed' = TRUE
        BY <1>t, <2>1, <3>2, LeftoverType
      <3> QED
        BY <1>11, <3>1, <3>2 DEF LoginAs
    <2> QED
      BY <1>t, <1>p, <2>1, <2>2, GotoType
  <1>12. CASE ResolveAccount
    <2>1. /\ InCase /\ pc # "idle" /\ Goto("steps")
          /\ UNCHANGED <<key, navigated, cacheKey, case, browser>>
          /\ resolved' \in Accounts \cup {None}
      BY <1>12, <1>t DEF ResolveAccount, InCase
    <2> QED
      BY <1>t, <1>b, <1>p, <2>1, GotoType
  <1>13. CASE TestStep
    <2>1. /\ InCase /\ pc # "idle" /\ UNCHANGED <<mind, stale, user>> /\ failed' \in BOOLEAN
          /\ actors' \subseteq Users \cup {Admin, None} /\ Turn(user)
      BY <1>13, <1>t DEF TestStep, InCase, Sessions
    <2>b. BrowserOK'
      BY <1>t, <2>1, PagesType DEF BrowserOK
    <2>2. CASE at < CaseSteps /\ at' = at + 1 /\ Goto("steps")
      <3>1. at' \in 1..CaseSteps
        BY <1>t, <2>2, CasesAssumption
      <3> QED
        BY <1>t, <1>p, <2>b, <2>1, <2>2, <3>1, GotoType
    <2>3. CASE UNCHANGED at /\ Goto("reset")
      BY <1>t, <1>p, <2>b, <2>1, <2>3, GotoType
    <2> QED
      BY <1>13, <2>2, <2>3 DEF TestStep
  <1>14. CASE Reset
    <2>1. /\ Len(results) < Len(pack) /\ pc # "idle" /\ UNCHANGED <<user, cacheKey>> /\ Turn(user)
          /\ EndCase("passed") \/ EndCase("failed")
      BY <1>14 DEF Reset, Place, InCase
    <2>2. BrowserOK'
      BY <1>t, <2>1, PagesType DEF BrowserOK
    <2> QED
      BY <1>t, <2>1, <2>2, EndCaseType DEF Outcomes
  <1>15. CASE CaseRaises
    <2>1. InCase /\ pc # "idle" /\ Len(results) < Len(pack) /\ EndCase("failed") /\ Leftover
      BY <1>15 DEF CaseRaises, InCase, Place
    <2>2. BrowserOK' /\ cacheKey' \in Users \cup {None}
      BY <2>1, LeftoverType
    <2> QED
      BY <2>1, <2>2, EndCaseType DEF Outcomes
  <1>16. CASE Report
    BY <1>16 DEF Report, Verdict, TypeOK, Place, InCase, Statuses, Finals, PCs
  <1>17. CASE RunError \/ Stop
    <2>1. /\ status' \in {"error", "cancelled"} /\ pc' = "idle" /\ Close /\ UNCHANGED <<pack, query, results>>
      BY <1>17 DEF RunError, Stop
    <2>2. TypeOK'
      BY <1>p, <2>1, CloseType DEF Statuses, Finals
    <2> QED
      BY <2>1, <2>2 DEF Place, InCase
  <1>18. CASE SessionEnds
    <2>1. TypeOK'
      BY <1>18 DEF SessionEnds, TypeOK
    <2> QED
      BY <1>18, <2>1 DEF SessionEnds, Place, InCase, Target, Current
  <1>20. CASE UNCHANGED vars
    BY <1>20 DEF vars, TypeOK, Place, InCase, Target, Current
  <1> QED
    BY <1>1, <1>2, <1>3, <1>4, <1>5, <1>6, <1>7, <1>8, <1>9, <1>10, <1>11, <1>12, <1>13, <1>14,
       <1>15, <1>16, <1>17, <1>18, <1>20 DEF Next, Run, World

\* Type correctness of the pack run.
THEOREM TypeCorrect == Spec => []TypeOK
  <1>1. Spec => [](TypeOK /\ Place)
    BY InitTypeOK, NextTypeOK, PTL DEF Spec
  <1> QED
    BY <1>1, PTL
-----------------------------------------------------------------------------
(* Who did the steps of a case.                                            *)

\* The cases so far asked for users and passed.
Clean == \A j \in DOMAIN results : pack[j] # None /\ results[j].status = "passed"

\* Nobody else is logged in or has done a step.
Served(u) == user \in Alike[u] \cup {None} /\ actors \subseteq Alike[u] \cup {None}

\* The identity is settled, and nothing has failed.
Settled == pc \in {"account", "steps", "reset"} /\ ~failed /\ Target # None

\* Then nobody but the target is served, or an old banner was believed after a case that failed or that
\* asked for no user.
AsAsked == Settled => Served(Target) \/ (stale /\ ~Clean)

\* As long as no case failed and each asked for a user, the keys agree and tell who is logged in,
\* but for the time between "Re-login admin" and login_as.
KeysTrue ==
    Clean =>
        /\ pc \in {"case", "identity", "relogin"} =>
               cacheKey = key /\ (key # None => user \in Alike[key] \cup {None})
        /\ pc = "loginAs" => cacheKey = key /\ (key = Target => user \in Alike[key] \cup {None})
        /\ Settled => cacheKey = key /\ key = Target

\* Nobody is remembered before the pack has navigated.
Fresh ==
    /\ ~navigated => key = None /\ cacheKey = None
    /\ pc \in {"idle", "report", "login", "open"} => ~navigated
    /\ pc \in {"identity", "relogin", "loginAs", "account", "steps", "reset"} => navigated
    /\ pc = "relogin" => key # Target

Acted == pc \notin {"steps", "reset"} => actors = {}

IdentityInv == AsAsked /\ KeysTrue /\ Fresh /\ Acted /\ PassedAsTarget

LEMMA InitIdentity == Init => IdentityInv
  BY DEF Init, IdentityInv, AsAsked, KeysTrue, Fresh, Settled, Acted, PassedAsTarget

\* The run is over.
LEMMA ClosedIdentity ==
    ASSUME IdentityInv, Close, UNCHANGED <<pack, results>>, pc' \in {"idle", "report"}
    PROVE  IdentityInv'
  BY DEF IdentityInv, AsAsked, KeysTrue, Fresh, Settled, Acted, PassedAsTarget, Close

\* What is known of the cases that ended stays so.
LEMMA SamePast ==
    ASSUME IdentityInv, UNCHANGED <<pack, results>>
    PROVE  PassedAsTarget' /\ (Clean' <=> Clean) /\ Target' = Target
  BY DEF IdentityInv, PassedAsTarget, Clean, Target, Current

LEMMA EndedIdentity ==
    ASSUME TypeOK, Place, IdentityInv, InCase \/ pc = "case", Len(results) < Len(pack),
           NEW outcome \in Outcomes, EndCase(outcome),
           outcome = "passed" => pc = "reset" /\ ~failed /\ UNCHANGED <<user, cacheKey>>,
           outcome # "passed" => cacheKey' = cacheKey \/ pc = "loginAs"
    PROVE  IdentityInv'
  <1>1. /\ \A i \in DOMAIN results : i \in DOMAIN results' /\ results'[i] = results[i]
        /\ DOMAIN results' = DOMAIN results \cup {Current}
        /\ DOMAIN results = 1..(Current - 1) /\ Current \in Nat
        /\ results'[Current].status = outcome
        /\ outcome = "passed" => /\ results'[Current].actors = actors
                                 /\ results'[Current].stale = stale
    <2>1. DOMAIN results = 1..Len(results) /\ Len(results) \in Nat
      BY DEF TypeOK
    <2>2. DOMAIN results = 1..(Current - 1) /\ Current \in Nat
      BY <2>1 DEF Current
    <2> QED
      BY <2>2, Ended
  <1>2. /\ pack' = pack /\ pc' = "case" /\ actors' = {} /\ UNCHANGED <<key, navigated>>
    BY DEF EndCase
  <1>3. Acted' /\ AsAsked' /\ Fresh'
    BY <1>2 DEF Acted, AsAsked, Settled, Fresh, IdentityInv, InCase
  <1>4. Clean' => Clean /\ outcome = "passed" /\ Target # None
    BY <1>1, <1>2 DEF Clean, Target
  <1>5. outcome = "passed" /\ Target # None => Settled
    BY DEF Settled
  <1>6. KeysTrue'
    <2> SUFFICES ASSUME Clean' PROVE cacheKey' = key' /\ (key' # None => user' \in Alike[key'] \cup {None})
      BY <1>2 DEF KeysTrue, Settled
    <2>1. Settled /\ Clean /\ UNCHANGED <<user, cacheKey, key>>
      BY <1>2, <1>4, <1>5
    <2>2. cacheKey = key /\ key = Target /\ user \in Alike[Target] \cup {None}
      BY <2>1 DEF IdentityInv, KeysTrue, AsAsked, Served
    <2> QED
      BY <2>1, <2>2
  <1>7. ASSUME NEW i \in DOMAIN results', pack[i] # None, results'[i].status = "passed"
        PROVE  \/ results'[i].actors \subseteq Alike[pack[i]] \cup {None}
               \/ /\ results'[i].stale
                  /\ \E j \in 1..(i - 1) : pack[j] = None \/ results'[j].status # "passed"
    <2>1. CASE i \in DOMAIN results
      <3>1. \A j \in 1..(i - 1) : j \in DOMAIN results
        BY <1>1, <2>1
      <3> QED
        BY <1>1, <1>7, <2>1, <3>1 DEF IdentityInv, PassedAsTarget
    <2>2. CASE i = Current
      <3>1. outcome = "passed" /\ results'[i].actors = actors /\ results'[i].stale = stale
        BY <1>1, <1>7, <2>2
      <3>2. Target = pack[i] /\ Settled
        BY <1>5, <1>7, <2>2, <3>1 DEF Target
      <3>3. Served(Target) \/ (stale /\ ~Clean)
        BY <3>2 DEF IdentityInv, AsAsked
      <3>4. ~Clean => \E j \in 1..(i - 1) : pack[j] = None \/ results'[j].status # "passed"
        BY <1>1, <2>2 DEF Clean
      <3> QED
        BY <3>1, <3>2, <3>3, <3>4 DEF Served
    <2> QED
      BY <1>1, <1>7, <2>1, <2>2
  <1>8. PassedAsTarget'
    BY <1>2, <1>7 DEF PassedAsTarget
  <1> QED
    BY <1>3, <1>6, <1>8 DEF IdentityInv

\* A case that goes on with a failure, or without a target, is settled no more.
LEMMA UnsettledIdentity ==
    ASSUME IdentityInv, UNCHANGED <<pack, results, actors, navigated>>, actors = {},
           pc \notin {"idle", "report", "login", "open"}, navigated,
           pc' = "account", failed' \/ Target = None
    PROVE  IdentityInv'
  BY SamePast DEF IdentityInv, AsAsked, KeysTrue, Fresh, Acted, Settled

\* The identity of the target is believed, by the keys and by a banner.
LEMMA BelievedIdentity ==
    ASSUME IdentityInv, pc \in {"identity", "loginAs"}, Target # None,
           cacheKey = Target, pc = "identity" => key = Target, Believe,
           key' = Target, UNCHANGED <<pack, results, actors, navigated, user, cacheKey>>, pc' = "account"
    PROVE  IdentityInv'
  <1>1. actors = {} /\ navigated
    BY DEF IdentityInv, Acted, Fresh
  <1>2. Clean => user \in Alike[Target] \cup {None}
    BY DEF IdentityInv, KeysTrue
  <1>3. user \in Alike[Target] \/ stale'
    BY DEF Believe, Named
  <1>4. AsAsked'
    BY <1>1, <1>2, <1>3, SamePast DEF AsAsked, Served
  <1> QED
    BY <1>1, <1>4, SamePast DEF IdentityInv, KeysTrue, Fresh, Acted, Settled

LEMMA NextIdentity == TypeOK /\ Place /\ IdentityInv /\ [Next]_vars => IdentityInv'
  <1> SUFFICES ASSUME TypeOK, Place, IdentityInv, [Next]_vars PROVE IdentityInv'
    OBVIOUS
  <1> USE DEF mind, case, browser
  <1>i. AsAsked /\ KeysTrue /\ Fresh /\ Acted /\ PassedAsTarget
    BY DEF IdentityInv
  <1>1. CASE StartPack
    <2>1. results = <<>> /\ UNCHANGED <<pack, results, mind, case, browser>> /\ pc = "idle" /\ pc' = "case"
      BY <1>1 DEF StartPack, Place
    <2> QED
      BY <1>i, <2>1 DEF IdentityInv, AsAsked, KeysTrue, Fresh, Settled, Acted, PassedAsTarget
  <1>2. CASE StartCase
    <2>1. /\ UNCHANGED <<pack, results, mind, case, browser>> /\ pc = "case"
          /\ pc' = IF navigated THEN "identity" ELSE "login"
      BY <1>2 DEF StartCase, Goto
    <2> QED
      BY <1>i, <2>1, SamePast DEF IdentityInv, AsAsked, KeysTrue, Fresh, Settled, Acted
  <1>3. CASE BlockCase
    <2>1. Len(results) < Len(pack) /\ EndCase("blocked") /\ pc = "case" /\ UNCHANGED cacheKey
      BY <1>3 DEF BlockCase, Current, TypeOK
    <2> QED
      BY <2>1, EndedIdentity DEF Outcomes
  <1>4. CASE PackDone
    BY <1>4, ClosedIdentity DEF PackDone, Goto
  <1>5. CASE NavigateLogin
    <2>1. /\ pc = "login" /\ pc' = "open" /\ UNCHANGED <<pack, results, key, navigated, actors>>
      BY <1>5 DEF NavigateLogin, Goto
    <2>2. UNCHANGED cacheKey
      BY <1>5, <2>1 DEF NavigateLogin, LoginPasses, Leftover
    <2> QED
      BY <1>i, <2>1, <2>2, SamePast DEF IdentityInv, AsAsked, KeysTrue, Fresh, Settled, Acted
  <1>6. CASE NavigateOpen
    <2>1. /\ pc = "open" /\ pc' = "identity" /\ navigated'
          /\ UNCHANGED <<pack, results, key, cacheKey, actors, user>>
      BY <1>6 DEF NavigateOpen, Goto
    <2>2. key = None /\ cacheKey = None
      BY <1>i, <2>1 DEF Fresh
    <2> QED
      BY <1>i, <2>1, <2>2, SamePast DEF IdentityInv, AsAsked, KeysTrue, Fresh, Settled, Acted
  <1>7. CASE IdentityKnown
    <2>1. /\ pc = "identity" /\ Target # None /\ cacheKey = Target /\ key = Target /\ Believe
          /\ key' = Target /\ UNCHANGED <<pack, results, actors, navigated, user, cacheKey>>
          /\ pc' = "account"
      BY <1>7 DEF IdentityKnown, Goto
    <2> QED
      BY <2>1, BelievedIdentity
  <1>8. CASE IdentityNew
    <2>1. /\ pc = "identity" /\ (key = None \/ Target = key)
          /\ UNCHANGED <<pack, results, actors, failed, navigated, user, cacheKey>> /\ actors = {} /\ navigated
      BY <1>8, <1>i DEF IdentityNew, Goto, Acted, Fresh
    <2>2. CASE Target = None /\ pc' = "account"
      BY <2>1, <2>2, UnsettledIdentity
    <2>3. CASE Target # None /\ UNCHANGED key /\ pc' = "loginAs"
      BY <1>i, <2>1, <2>3, SamePast DEF IdentityInv, AsAsked, KeysTrue, Fresh, Settled, Acted
    <2> QED
      BY <1>8, <2>2, <2>3 DEF IdentityNew, Goto
  <1>9. CASE IdentityChanges
    <2>1. /\ pc = "identity" /\ pc' = "relogin" /\ key # Target
          /\ UNCHANGED <<pack, results, actors, key, navigated, user, cacheKey>>
      BY <1>9 DEF IdentityChanges, Goto
    <2> QED
      BY <1>i, <2>1, SamePast DEF IdentityInv, AsAsked, KeysTrue, Fresh, Settled, Acted
  <1>10. CASE Relogin
    <2>1. /\ pc = "relogin" /\ UNCHANGED <<pack, results, actors, navigated, cacheKey>>
          /\ actors = {} /\ navigated /\ key # Target
      BY <1>10, <1>i DEF Relogin, Goto, LoginPasses, Leftover, Acted, Fresh
    <2>2. CASE pc' = "account" /\ (failed' \/ Target = None)
      BY <2>1, <2>2, UnsettledIdentity
    <2>3. CASE pc' = "loginAs" /\ UNCHANGED key
      BY <1>i, <2>1, <2>3, SamePast DEF IdentityInv, AsAsked, KeysTrue, Fresh, Settled, Acted
    <2> QED
      BY <1>10, <2>2, <2>3 DEF Relogin, Goto
  <1>11. CASE LoginAs
    <2>1. /\ pc = "loginAs" /\ UNCHANGED <<pack, results, actors, navigated>> /\ pc' = "account"
          /\ actors = {} /\ navigated /\ Target # None
      BY <1>11, <1>i DEF LoginAs, Goto, Acted, Fresh, Place
    <2>2. CASE cacheKey = Target /\ Believe /\ UNCHANGED <<user, cacheKey>> /\ key' = Target
      BY <2>1, <2>2, BelievedIdentity
    <2>3. CASE user' \in Alike[Target] /\ cacheKey' = Target /\ key' = Target
      BY <2>1, <2>3, SamePast DEF IdentityInv, AsAsked, KeysTrue, Fresh, Settled, Acted, Served
    <2>4. CASE failed'
      BY <2>1, <2>4, UnsettledIdentity
    <2> QED
      BY <1>11, <2>2, <2>3, <2>4 DEF LoginAs, LoginAsPasses
  <1>12. CASE ResolveAccount
    <2>1. /\ UNCHANGED <<pack, results, actors, stale, failed, key, navigated, user, cacheKey>>
          /\ pc' = "steps" /\ pc = "account"
      BY <1>12 DEF ResolveAccount, Goto
    <2> QED
      BY <1>i, <2>1, SamePast DEF IdentityInv, AsAsked, KeysTrue, Fresh, Settled, Acted, Served
  <1>13. CASE TestStep
    <2>1. /\ pc = "steps" /\ pc' \in {"steps", "reset"}
          /\ UNCHANGED <<pack, results, stale, key, navigated, user, cacheKey>>
          /\ actors' = actors \cup {user}
          /\ failed' \/ failed' = failed
      BY <1>13 DEF TestStep, Goto
    <2> QED
      BY <1>i, <2>1, SamePast DEF IdentityInv, AsAsked, KeysTrue, Fresh, Settled, Acted, Served
  <1>14. CASE Reset
    <2>1. Len(results) < Len(pack) /\ pc = "reset" /\ InCase /\ UNCHANGED <<user, cacheKey>>
      BY <1>14 DEF Reset, Place, InCase
    <2>2. CASE EndCase("passed") /\ ~failed
      BY <2>1, <2>2, EndedIdentity DEF Outcomes
    <2>3. CASE EndCase("failed")
      BY <2>1, <2>3, EndedIdentity DEF Outcomes
    <2> QED
      BY <1>14, <2>2, <2>3 DEF Reset
  <1>15. CASE CaseRaises
    <2>1. Len(results) < Len(pack) /\ EndCase("failed") /\ InCase /\ (cacheKey' = cacheKey \/ pc = "loginAs")
      BY <1>15 DEF CaseRaises, InCase, Place, Leftover
    <2> QED
      BY <2>1, EndedIdentity DEF Outcomes
  <1>16. CASE Report \/ UNCHANGED vars
    <2>1. UNCHANGED <<pack, results, mind, case, browser>> /\ (pc' = pc \/ (pc = "report" /\ pc' = "idle"))
      BY <1>16 DEF Report, vars
    <2> QED
      BY <1>i, <2>1, SamePast DEF IdentityInv, AsAsked, KeysTrue, Fresh, Settled, Acted, Served
  <1>17. CASE RunError \/ Stop
    BY <1>17, ClosedIdentity DEF RunError, Stop
  <1>18. CASE SessionEnds
    <2>1. user' = None /\ UNCHANGED <<pc, pack, results, mind, case>>
      BY <1>18 DEF SessionEnds
    <2> QED
      BY <1>i, <2>1, SamePast DEF IdentityInv, AsAsked, KeysTrue, Fresh, Settled, Acted, Served
  <1> QED
    BY <1>1, <1>2, <1>3, <1>4, <1>5, <1>6, <1>7, <1>8, <1>9, <1>10, <1>11, <1>12, <1>13, <1>14,
       <1>15, <1>16, <1>17, <1>18 DEF Next, Run, World

\* A case that asks for a user and passed did none of its steps as anybody but him or one whose name
\* contains his, unless it believed a banner of an earlier session, and that only after a case that failed
\* or asked for no user (test_case_runner.py, _ensure_impersonation; login_resolver.py, login_as).
THEOREM AsTheTarget == Spec => []PassedAsTarget
  <1>1. Spec => [](TypeOK /\ Place /\ IdentityInv)
    BY InitTypeOK, NextTypeOK, InitIdentity, NextIdentity, PTL DEF Spec
  <1>2. IdentityInv => PassedAsTarget
    BY DEF IdentityInv
  <1> QED
    BY <1>1, <1>2, PTL
-----------------------------------------------------------------------------
(* What the verdict covers.                                                *)

LEMMA InitCovers == Init => VerdictCoversPack
  BY DEF Init, VerdictCoversPack

LEMMA ReportCovers ==
    ASSUME TypeOK, Place, Report
    PROVE  VerdictCoversPack'
  <1>1. /\ Len(results) = Len(pack) /\ UNCHANGED <<pack, results>> /\ status' = Verdict
        /\ DOMAIN results = DOMAIN pack
    BY DEF Report, Place, TypeOK
  <1>2. \A i \in DOMAIN results : results[i].status \in {"passed", "failed", "blocked"}
    <2>1. results \in Seq(Results)
      BY DEF TypeOK
    <2>2. ASSUME NEW i \in DOMAIN results PROVE results[i] \in Results
      BY <2>1
    <2> QED
      BY <2>2 DEF Results, Outcomes
  <1>3. CASE Some("failed") \/ Some("blocked")
    BY <1>1, <1>3 DEF VerdictCoversPack, Verdict, Some
  <1>4. CASE ~(Some("failed") \/ Some("blocked"))
    BY <1>1, <1>2, <1>4 DEF VerdictCoversPack, Verdict, Some
  <1> QED
    BY <1>3, <1>4

LEMMA NextCovers == TypeOK /\ Place /\ VerdictCoversPack /\ [Next]_vars => VerdictCoversPack'
  <1> SUFFICES ASSUME TypeOK, Place, VerdictCoversPack, [Next]_vars PROVE VerdictCoversPack'
    OBVIOUS
  <1>1. CASE Report
    BY <1>1, ReportCovers
  <1>2. CASE status' \notin {"passed", "failed"}
    BY <1>2 DEF VerdictCoversPack
  <1>3. CASE UNCHANGED <<status, pack, results>>
    BY <1>3 DEF VerdictCoversPack
  <1>4. CASE status = "running" /\ status' = status
    BY <1>2, <1>4
  <1>5. CASE StartPack \/ RunError \/ Stop
    BY <1>2, <1>5 DEF StartPack, RunError, Stop
  <1>6. CASE StartCase \/ BlockCase \/ PackDone
    BY <1>4, <1>6 DEF StartCase, BlockCase, PackDone, Goto, EndCase, Place
  <1>7. CASE NavigateLogin \/ NavigateOpen \/ IdentityKnown \/ IdentityNew \/ IdentityChanges
    BY <1>4, <1>7 DEF NavigateLogin, NavigateOpen, IdentityKnown, IdentityNew, IdentityChanges, Goto, Place
  <1>8. CASE Relogin \/ LoginAs \/ ResolveAccount \/ TestStep
    BY <1>4, <1>8 DEF Relogin, LoginAs, ResolveAccount, TestStep, Goto, Place
  <1>9. CASE Reset \/ CaseRaises
    BY <1>4, <1>9 DEF Reset, CaseRaises, EndCase, Place
  <1>10. CASE SessionEnds \/ UNCHANGED vars
    BY <1>3, <1>10 DEF SessionEnds, vars
  <1> QED
    BY <1>1, <1>5, <1>6, <1>7, <1>8, <1>9, <1>10 DEF Next, Run, World

\* A verdict is given when every case has its result, and says what they say.
THEOREM VerdictCovers == Spec => []VerdictCoversPack
  <1> QED
    BY InitTypeOK, NextTypeOK, InitCovers, NextCovers, PTL DEF Spec

-----------------------------------------------------------------------------
(* The account of the pack.                                                *)

\* Nothing is done before the account is known, and what passed was done on it.
AccountInv ==
    /\ OneAccount
    /\ pc \in {"idle", "report"} => resolved = None
    /\ pc \in {"steps", "reset"} /\ query => resolved # None
    /\ pc \notin {"idle", "report"} =>
           \A i \in DOMAIN results : results[i].status = "passed" =>
               results[i].account = resolved /\ (query => resolved # None)

LEMMA EndedAccount ==
    ASSUME TypeOK, Len(results) < Len(pack), AccountInv, pc \notin {"idle", "report"},
           NEW outcome \in Outcomes, EndCase(outcome), outcome = "passed" => pc = "reset"
    PROVE  AccountInv'
  <1>1. resolved' = resolved /\ query' = query /\ pc' = "case"
    BY DEF EndCase
  <1>2. ASSUME NEW i \in DOMAIN results', results'[i].status = "passed"
        PROVE  results'[i].account = resolved /\ (query => resolved # None)
    BY <1>2, Ended DEF AccountInv
  <1> QED
    BY <1>1, <1>2 DEF AccountInv, OneAccount

LEMMA NextAccount == TypeOK /\ Place /\ AccountInv /\ [Next]_vars => AccountInv'
  <1> SUFFICES ASSUME TypeOK, Place, AccountInv, [Next]_vars PROVE AccountInv'
    OBVIOUS
  <1> USE DEF mind
  <1>1. CASE /\ UNCHANGED <<results, query, resolved>>
             /\ pc' \in {"steps", "reset"} => pc \in {"steps", "reset"}
             /\ pc' \in {"idle", "report"} <=> pc \in {"idle", "report"}
    BY <1>1 DEF AccountInv, OneAccount
  <1>2. CASE StartCase \/ NavigateLogin \/ NavigateOpen
    BY <1>1, <1>2 DEF StartCase, NavigateLogin, NavigateOpen, Goto
  <1>3. CASE IdentityKnown \/ IdentityNew \/ IdentityChanges
    BY <1>1, <1>3 DEF IdentityKnown, IdentityNew, IdentityChanges, Goto
  <1>4. CASE Relogin \/ LoginAs \/ TestStep
    BY <1>1, <1>4 DEF Relogin, LoginAs, TestStep, Goto
  <1>5. CASE Report \/ SessionEnds \/ UNCHANGED vars
    BY <1>1, <1>5 DEF Report, SessionEnds, vars
  <1>6. CASE ResolveAccount
    BY <1>6, UsersAssumption DEF ResolveAccount, Goto, AccountInv, OneAccount
  <1>7. CASE BlockCase
    BY <1>7, EndedAccount DEF BlockCase, Current, TypeOK, Outcomes
  <1>8. CASE Reset
    <2>1. Len(results) < Len(pack) /\ pc = "reset" /\ (EndCase("passed") \/ EndCase("failed"))
      BY <1>8 DEF Reset, Place, InCase
    <2> QED
      BY <2>1, EndedAccount DEF Outcomes
  <1>9. CASE CaseRaises
    BY <1>9, EndedAccount DEF CaseRaises, Place, InCase, Outcomes
  <1>10. CASE PackDone \/ RunError \/ Stop
    <2>1. UNCHANGED results /\ resolved' = None /\ pc' \in {"idle", "report"}
      BY <1>10 DEF PackDone, RunError, Stop, Close, Goto
    <2> QED
      BY <2>1 DEF AccountInv, OneAccount
  <1>11. CASE StartPack
    <2>1. /\ UNCHANGED <<results, query, resolved>> /\ pc' = "case" /\ DOMAIN results = {}
      BY <1>11 DEF StartPack, Place
    <2> QED
      BY <2>1 DEF AccountInv, OneAccount
  <1> QED
    BY <1>2, <1>3, <1>4, <1>5, <1>6, <1>7, <1>8, <1>9, <1>10, <1>11 DEF Next, Run, World

\* All cases that passed worked on the same account.
THEOREM SameAccount == Spec => []OneAccount
  <1>1. Init => AccountInv
    BY DEF Init, AccountInv, OneAccount
  <1>2. Spec => [](TypeOK /\ Place /\ AccountInv)
    BY <1>1, InitTypeOK, NextTypeOK, NextAccount, PTL DEF Spec
  <1>3. AccountInv => OneAccount
    BY DEF AccountInv
  <1> QED
    BY <1>2, <1>3, PTL

-----------------------------------------------------------------------------
(* The refinement.                                                         *)

LEMMA InitOrdered == Init => Ordered!Init
  <1> SUFFICES ASSUME Init PROVE Ordered!Init
    OBVIOUS
  <1>1. Len(pack) \in 0..MaxCases /\ DOMAIN pack = 1..Len(pack)
    BY PacksAreSequences DEF Init
  <1>2. DOMAIN pack \subseteq Cases
    BY <1>1, CasesAssumption DEF Cases
  <1>3. results = <<>> /\ status = "queued"
    BY DEF Init
  <1>4. DOMAIN results = {}
    BY <1>3
  <1> QED
    BY <1>2, <1>3, <1>4 DEF Ordered!Init

\* The end of a case is a step of the abstract run.
LEMMA EndedOrdered ==
    ASSUME TypeOK, Place, pc # "idle", Len(results) < Len(pack), NEW outcome \in Outcomes, EndCase(outcome)
    PROVE  Ordered!Next
  <1>1. DOMAIN pack = 1..Len(pack) /\ DOMAIN results = 1..Len(results)
        /\ Len(pack) \in Nat /\ Len(results) \in Nat /\ Len(pack) <= MaxCases
    BY DEF TypeOK
  <1>2. Current \in Cases /\ Current \in DOMAIN pack \ DOMAIN results
        /\ \A t \in DOMAIN pack : t < Current => t \in DOMAIN results
    BY <1>1, CasesAssumption DEF Current, Cases
  <1>3. DOMAIN results' = DOMAIN results \cup {Current}
    BY Ended
  <1>4. status = "running" /\ status' = status /\ pack' = pack
    BY DEF EndCase, Place
  <1>5. Ordered!Do(Current)
    BY <1>2, <1>3, <1>4 DEF Ordered!Do
  <1> QED
    BY <1>2, <1>5 DEF Ordered!Next

LEMMA Simulation == TypeOK /\ Place /\ [Next]_vars => [Ordered!Next]_(Ordered!vars)
  <1> SUFFICES ASSUME TypeOK, Place, [Next]_vars PROVE [Ordered!Next]_(Ordered!vars)
    OBVIOUS
  <1>d. DOMAIN pack \subseteq Cases
    BY CasesAssumption DEF TypeOK, Cases
  <1>1. CASE UNCHANGED <<status, pack, results>>
    BY <1>1 DEF Ordered!vars
  <1>2. CASE StartPack
    <2>1. status = "queued" /\ status' = "running" /\ UNCHANGED <<pack, results>> /\ DOMAIN results = {}
      BY <1>2 DEF StartPack, Place
    <2> QED
      BY <1>d, <2>1 DEF Ordered!Next, Ordered!Start
  <1>3. CASE StartCase \/ PackDone \/ NavigateLogin \/ NavigateOpen
    BY <1>1, <1>3 DEF StartCase, PackDone, NavigateLogin, NavigateOpen, Goto
  <1>4. CASE IdentityKnown \/ IdentityNew \/ IdentityChanges
    BY <1>1, <1>4 DEF IdentityKnown, IdentityNew, IdentityChanges, Goto
  <1>5. CASE Relogin \/ LoginAs \/ ResolveAccount \/ TestStep
    BY <1>1, <1>5 DEF Relogin, LoginAs, ResolveAccount, TestStep, Goto
  <1>6. CASE SessionEnds \/ UNCHANGED vars
    BY <1>1, <1>6 DEF SessionEnds, vars
  <1>7. CASE BlockCase
    BY <1>7, EndedOrdered DEF BlockCase, Current, TypeOK, Outcomes
  <1>8. CASE Reset
    BY <1>8, EndedOrdered DEF Reset, Place, InCase, Outcomes
  <1>9. CASE CaseRaises
    BY <1>9, EndedOrdered DEF CaseRaises, Place, InCase, Outcomes
  <1>10. CASE Report
    <2>1. /\ status = "running" /\ status' = Verdict /\ UNCHANGED <<pack, results>>
          /\ DOMAIN results = DOMAIN pack /\ Verdict \in {"passed", "failed", "error"}
      BY <1>10 DEF Report, Place, TypeOK, Verdict
    <2>2. Ordered!End(Verdict)
      BY <2>1 DEF Ordered!End
    <2> QED
      BY <2>1, <2>2 DEF Ordered!Next
  <1>11. CASE RunError
    <2>1. status = "running" /\ status' = "error" /\ UNCHANGED <<pack, results>>
      BY <1>11 DEF RunError, Place
    <2>2. Ordered!End("error")
      BY <2>1 DEF Ordered!End
    <2> QED
      BY <2>2 DEF Ordered!Next
  <1>12. CASE Stop
    BY <1>12 DEF Stop, Ordered!Cancel, Ordered!Next
  <1> QED
    BY <1>2, <1>3, <1>4, <1>5, <1>6, <1>7, <1>8, <1>9, <1>10, <1>11, <1>12 DEF Next, Run, World

\* The pack run implements OrderedRun: cases one by one, in their order, each
\* of them once, PASSED only after all.
THEOREM PackInOrder == Spec => CasesInOrder
  <1>1. Spec => [](TypeOK /\ Place)
    BY InitTypeOK, NextTypeOK, PTL DEF Spec
  <1> QED
    BY <1>1, InitOrdered, Simulation, PTL DEF Spec, CasesInOrder, Ordered!Spec
=============================================================================
