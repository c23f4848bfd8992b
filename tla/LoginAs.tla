------------------------------ MODULE LoginAs ------------------------------
(***************************************************************************)
(* Login As in the browser: LoginResolver (login_resolver.py) on the pages *)
(* LoginPage and UserDetailPage, in the steps "login" and "login_as" of    *)
(* the executor.                                                           *)
(*                                                                         *)
(* The tabs of the browser share one session, the administrator's or, once *)
(* Login was clicked on his record, a user's; a tab keeps showing the      *)
(* session it was loaded with.  The resolver opens the record in a tab of  *)
(* its own, looks for a button Login by several routes, clicks it, and     *)
(* believes a banner "Logged in as" that has the user's name in it.  Then  *)
(* the executor goes on where it was, in a page the administrator loaded.  *)
(* The identity of the last login is remembered for the execution, the     *)
(* resolver's tab only as long as the executor is.                         *)
(***************************************************************************)
EXTENDS Naturals, Sequences

CONSTANTS
  Users,     \* users a login_as step can name
  Alike,     \* Alike[u]: the users whose name has u's in it, u among them
  Admin,     \* the user of the org's credentials
  Nobody,    \* no session, no user
  Polls,     \* bound: polls of a waiting loop (the code: 90 and 60)
  Attempts,  \* max_attempts of retry_with_heal (the code: 3)
  Retries,   \* the executor's max_step_retries
  Steps,     \* bound: steps executed
  MaxTabs    \* bound: tabs of the browser

LoginAssumption ==
  /\ Alike \in [Users -> SUBSET Users] /\ \A u \in Users : u \in Alike[u]
  /\ Admin \notin Users /\ Nobody \notin Users /\ Admin # Nobody
  /\ Polls \in Nat \ {0} /\ Attempts \in Nat \ {0}
  /\ Retries \in Nat /\ Steps \in Nat /\ MaxTabs \in Nat \ {0}

VARIABLES
  session,   \* whom the cookies of the browser log in
  tabs,      \* the pages: what each shows, of whose record, loaded by which session
  cur,       \* the executor's page
  imp,       \* _impersonation_tab; 0 for None
  remembered,\* current_identity_key of the execution
  want,      \* the user of the step; Admin for a step "login"
  pc, tries, \* where the step is; polls or attempts there
  routes,    \* _tried_global_search, _tried_classic_url of the page object, while a surface is looked for
  skipped,   \* the step ended by the remembered identity (history)
  attempt,   \* attempts of the step so far
  left       \* steps left

browser == <<session, tabs>>
run == <<want, attempt, left>>
vars == <<browser, cur, imp, remembered, pc, tries, routes, skipped, run>>

Page(at, of, as) == [at |-> at, of |-> of, as |-> as]

\* The record in Setup, in Lightning, in the classic page, behind User Detail;
\* Home or an app; the login form
Views == {"setup", "record", "classic", "detail", "app", "form"}
\* what the server answers to a session
Serve(at, of) == IF session = Nobody THEN Page("form", Nobody, Nobody) ELSE Page(at, of, session)

\* _verify_impersonation_active: a banner of the page has the name in it
BannerHas(t, u) == tabs[t].as \in Alike[u]
\* Without a tab of its own the resolver looks at the executor's page.
Looked == IF imp = 0 THEN cur ELSE imp

Init ==
  /\ session \in {Admin, Nobody}
  /\ tabs = <<Serve("app", Nobody)>>
  /\ cur = 1 /\ imp = 0 /\ remembered = Nobody
  /\ want = Admin /\ pc = "idle" /\ tries = 0 /\ routes = {}
  /\ skipped = FALSE /\ attempt = 0 /\ left = Steps

-----------------------------------------------------------------------------
(* Salesforce *)

\* The session ends, whatever is going on; a tab shows it once it loads something.
Expire ==
  /\ session # Nobody
  /\ session' = Nobody
  /\ UNCHANGED <<tabs, cur, imp, remembered, pc, tries, routes, skipped, run>>

\* Other steps: one loads something in the executor's page, which may show that the session has ended,
\* opens a tab and goes there, or finds its form in another tab (_ensure_active_page).
Browse ==
  /\ pc = "idle"
  /\ \/ tabs' = [tabs EXCEPT ![cur] = Serve("app", Nobody)] /\ UNCHANGED cur
     \/ /\ Len(tabs) < MaxTabs
        /\ tabs' = Append(tabs, Serve("app", Nobody)) /\ cur' = Len(tabs')
     \/ /\ \E t \in DOMAIN tabs : tabs[t].at = "app" /\ cur' = t
        /\ UNCHANGED tabs
  /\ UNCHANGED <<session, imp, remembered, pc, tries, routes, skipped, run>>

-----------------------------------------------------------------------------
(* The step *)

Goto(place) == pc' = place /\ tries' = 0
Again == pc' = pc /\ tries' = tries + 1
Same == UNCHANGED <<cur, imp, remembered, skipped, run>>
Raise == Goto("raised") /\ routes' = {} /\ UNCHANGED browser /\ Same

Show(t, page) == tabs' = [tabs EXCEPT ![t] = page] /\ UNCHANGED session

\* An executor is built for each step of an execution and for each case of a pack; it is given the page
\* of the one before, and has no tab of its own yet.
StartStep ==
  /\ pc = "idle" /\ left > 0
  /\ want' \in Users \union {Admin}
  /\ imp' \in {imp, 0}
  /\ Goto(IF want' = Admin THEN "login" ELSE "begin")
  /\ skipped' = FALSE /\ attempt' = 0 /\ left' = left - 1
  /\ UNCHANGED <<browser, cur, remembered, routes>>

\* MUTANT: the attempt is not counted
RetryUncounted ==
  /\ pc = "raised"
  /\ IF attempt >= Retries THEN Goto("idle") ELSE Goto(IF want = Admin THEN "login" ELSE "begin")
  /\ UNCHANGED <<browser, cur, imp, remembered, routes, skipped, run>>

\* The executor repeats a step that raised.
Retry ==
  /\ pc = "raised"
  /\ IF attempt >= Retries
     THEN Goto("idle") /\ UNCHANGED attempt
     ELSE Goto(IF want = Admin THEN "login" ELSE "begin") /\ attempt' = attempt + 1
  /\ UNCHANGED <<browser, cur, imp, remembered, routes, skipped, want, left>>

\* _login: a page that shows Salesforce is logged in, whoever the user is.
LoggedIn ==
  /\ pc = "login" /\ tabs[cur].at # "form"
  /\ Goto("idle")
  /\ UNCHANGED <<browser, routes>> /\ Same

\* login_with_credentials, login_with_oauth; a slow page is not logged in either.
LoginAdmin ==
  /\ pc = "login"
  /\ session' = Admin
  /\ tabs' = [tabs EXCEPT ![cur] = Page("app", Nobody, Admin)]
  /\ \E place \in {"idle", "raised"} : Goto(place)
  /\ UNCHANGED routes /\ Same

\* The form is not filled, refuses the login or asks for a verification.
LoginFails ==
  /\ pc = "login"
  /\ Raise

\* login_as: the identity is remembered and the banner agrees.
SkipLogin ==
  /\ pc = "begin" /\ remembered = want /\ BannerHas(Looked, want)
  /\ Goto("idle") /\ skipped' = TRUE
  /\ UNCHANGED <<browser, routes, cur, imp, remembered, run>>

\* _resolve_user: a banner may be overlooked; the query finds the user.
Resolve ==
  /\ pc = "begin"
  /\ Goto("open")
  /\ UNCHANGED <<browser, routes>> /\ Same

\* No user, or no query.
ResolveFails ==
  /\ pc = "begin"
  /\ Raise

\* _open_user_record: a tab, and in it Setup, which may show the record in Lightning instead.
OpenRecord ==
  /\ pc = "open" /\ Len(tabs) < MaxTabs
  /\ \E at \in {"setup", "record"} : tabs' = Append(tabs, Serve(at, want))
  /\ imp' = Len(tabs') /\ routes' = {}
  /\ Goto("surface")
  /\ UNCHANGED <<session, cur, remembered, skipped, run>>

\* The tab does not load, in time or at all; the next attempt opens another.
OpenTimeout ==
  /\ pc = "open" /\ Len(tabs) < MaxTabs
  /\ tabs' = Append(tabs, Page("app", Nobody, Nobody))
  /\ imp' = Len(tabs') /\ routes' = {}
  /\ IF tries + 1 < Attempts THEN Again ELSE Goto("raised")
  /\ UNCHANGED <<session, cur, remembered, skipped, run>>

\* No tab can be opened.
OpenFails ==
  /\ pc = "open"
  /\ Raise

-----------------------------------------------------------------------------
(* UserDetailPage: a surface with a button Login *)

\* Only a page of a user has something that reads Login.
HasLogin(t) == tabs[t].of # Nobody

SurfaceFound ==
  /\ pc = "surface" /\ HasLogin(imp)
  /\ Goto("click")
  /\ routes' = {}
  /\ UNCHANGED browser /\ Same

\* _click_user_detail on a record of Lightning
UserDetail ==
  /\ pc = "surface" /\ tries < Polls /\ tabs[imp].at = "record"
  /\ Show(imp, Serve("detail", tabs[imp].of))
  /\ Again
  /\ UNCHANGED routes /\ Same

\* _navigate_via_global_search: a row with the user's id, or one that has the name in it,
\* then its User Detail; or nothing is found and the tab is left at Home.
GlobalSearch ==
  /\ pc = "surface" /\ tries < Polls /\ "search" \notin routes
  /\ \/ \E u \in Alike[want], at \in {"record", "detail"} : Show(imp, Serve(at, u))
     \/ Show(imp, Serve("app", Nobody))
  /\ routes' = routes \union {"search"}
  /\ Again
  /\ Same

\* The classic page of the user; a failure is logged.
ClassicUrl ==
  /\ pc = "surface" /\ tries < Polls /\ "search" \in routes /\ "classic" \notin routes
  /\ Show(imp, Serve("classic", want)) \/ UNCHANGED browser
  /\ routes' = routes \union {"classic"}
  /\ Again
  /\ Same

SurfacePoll ==
  /\ pc = "surface" /\ tries < Polls /\ routes = {"search", "classic"}
  /\ Again
  /\ UNCHANGED <<browser, routes>> /\ Same

SurfaceTimeout ==
  /\ pc = "surface" /\ tries = Polls
  /\ Raise

\* click_login on the way to User Detail
ClickUserDetail ==
  /\ pc = "click" /\ tries < Polls /\ tabs[imp].at = "record"
  /\ Show(imp, Serve("detail", tabs[imp].of))
  /\ UNCHANGED <<pc, tries, routes>> /\ Same

\* The click logs the administrator in as the user whose record it is.
ClickLogin ==
  /\ pc = "click" /\ HasLogin(imp) /\ session = Admin
  /\ session' = tabs[imp].of
  /\ tabs' = [tabs EXCEPT ![imp] = Page("app", Nobody, tabs[imp].of)]
  /\ Goto("ready")
  /\ UNCHANGED routes /\ Same

\* Something else reads Login, or the user has no right to it.
ClickElsewhere ==
  /\ pc = "click" /\ HasLogin(imp)
  /\ Show(imp, Serve(tabs[imp].at, tabs[imp].of)) \/ Show(imp, Serve("app", Nobody))
  /\ Goto("ready")
  /\ UNCHANGED routes /\ Same

ClickPoll ==
  /\ pc = "click" /\ tries < Polls
  /\ Again
  /\ UNCHANGED <<browser, routes>> /\ Same

ClickTimeout ==
  /\ pc = "click" /\ tries = Polls
  /\ Raise

-----------------------------------------------------------------------------
(* _wait_for_impersonation_ready *)

StillOnRecord == tabs[imp].at \in {"setup", "record"}

\* MUTANT: any banner will do
ReadyUnnamed ==
  /\ pc = "ready" /\ ~StillOnRecord /\ tabs[imp].as \in Users
  /\ remembered' = want
  /\ Goto("idle")
  /\ UNCHANGED <<browser, cur, imp, routes, skipped, run>>

\* The banner is there, and the identity is remembered.  The resolver takes the tab for its page, and the
\* executor sets it back to its own.
Ready ==
  /\ pc = "ready" /\ ~StillOnRecord /\ BannerHas(imp, want)
  /\ remembered' = want
  /\ Goto("idle")
  /\ UNCHANGED <<browser, cur, imp, routes, skipped, run>>

\* Still the record, no banner, or one that is overlooked.
NotReady ==
  /\ pc = "ready"
  /\ Raise

\* A screenshot that times out is waited for again.
ReadyTimeout ==
  /\ pc = "ready" /\ ~StillOnRecord
  /\ IF tries + 1 < Attempts THEN Again ELSE Goto("raised")
  /\ UNCHANGED <<browser, routes>> /\ Same

-----------------------------------------------------------------------------
Automation ==
  \/ Retry \/ LoggedIn \/ LoginAdmin \/ LoginFails \/ SkipLogin \/ Resolve \/ ResolveFails
  \/ OpenRecord \/ OpenTimeout \/ OpenFails
  \/ SurfaceFound \/ UserDetail \/ GlobalSearch \/ ClassicUrl \/ SurfacePoll \/ SurfaceTimeout
  \/ ClickUserDetail \/ ClickLogin \/ ClickElsewhere \/ ClickPoll \/ ClickTimeout
  \/ Ready \/ NotReady \/ ReadyTimeout

Next == Expire \/ Browse \/ StartStep \/ Automation
Spec == Init /\ [][Next]_vars /\ WF_vars(Automation)

-----------------------------------------------------------------------------
(* Properties *)

LoginTypeOK ==
  /\ session \in Users \union {Admin, Nobody}
  /\ \A t \in DOMAIN tabs : /\ tabs[t].at \in Views
                            /\ tabs[t].of \in Users \union {Nobody}
                            /\ tabs[t].as \in Users \union {Admin, Nobody}
  /\ Len(tabs) \in 1..MaxTabs /\ cur \in DOMAIN tabs /\ imp \in 0..Len(tabs)
  /\ remembered \in Users \union {Nobody} /\ want \in Users \union {Admin}
  /\ tries \in 0..Polls + Attempts /\ attempt \in 0..Retries /\ left \in 0..Steps

LoginPasses == pc # "idle" /\ pc' = "idle" /\ pc # "raised"

\* A login_as that passes has brought the browser to the user it names, or to one whose name contains
\* the name, however many tabs, attempts and other logins there were before, unless the session has just
\* ended.  One that is skipped has not: it believes a page that an earlier session may have loaded.
ReachesUser ==
  [][LoginPasses /\ want # Admin /\ ~skipped' => session' \in Alike[want] \union {Nobody}]_vars

\* A step comes to an end, whatever the pages show.
EveryStepEnds == pc # "idle" ~> pc = "idle"
=============================================================================
