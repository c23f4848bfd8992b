--------------------------- MODULE PageAutomation ---------------------------
(***************************************************************************)
(* The parts of the page automation, each on its own: the initial state    *)
(* chooses one of them, and the variables of the others stay 0.  The parts *)
(* share the names of some variables, and nothing else.                    *)
(***************************************************************************)
EXTENDS Naturals

CONSTANTS
  Accounts, Groups, AGroups, Prefix, Letter, Nothing, LookupTries,                      \* FormLookup
  Others, Primary, Required, Layouts, Similar, Values, Offices, Any, Empty, Rounds,     \* FormFill
  Items,                                                                                \* RequestPages
  Users, Alike, Admin, Nobody, Attempts,                                                \* LoginAs
  LookupPolls, PagePolls, LoginPolls, LookupSteps, FillSteps, PageSteps, LoginSteps,
  Retries, MaxTabs

VARIABLES
  part,
  framed, customer, rows, group, groupRows, data, last, missed, early, result,
  control, value, office, pending, answer, praise, closed, hint, target, found, how, todo, round,
  created, unsure,
  coming, exec, life, form, pinned, scope, fields, before, navigated, lost,
  session, cur, imp, remembered, want, routes, skipped,
  tabs, tries, op, pc, attempt, left

L == INSTANCE FormLookup WITH Polls <- LookupPolls, Steps <- LookupSteps
F == INSTANCE FormFill WITH Steps <- FillSteps
P == INSTANCE RequestPages WITH Polls <- PagePolls, Steps <- PageSteps
I == INSTANCE LoginAs WITH Polls <- LoginPolls, Steps <- LoginSteps

ASSUME AutomationAssumption ==
  /\ L!LookupAssumption
  /\ F!FillAssumption
  /\ P!PagesAssumption
  /\ I!LoginAssumption

lookup == <<framed, customer, rows, group, groupRows, data, last, missed, early, result>>
fill == <<control, value, office, pending, answer, praise, closed, hint, target, found, how, todo,
          round, created, unsure>>
pages == <<coming, exec, life, form, pinned, scope, fields, before, navigated, lost>>
login == <<session, cur, imp, remembered, want, routes, skipped>>
vars == <<part, lookup, fill, pages, login, tabs, tries, op, pc, attempt, left>>

LookupOff ==
  /\ framed = 0 /\ customer = 0 /\ rows = 0 /\ group = 0 /\ groupRows = 0 /\ data = 0
  /\ last = 0 /\ missed = 0 /\ early = 0 /\ result = 0
FillOff ==
  /\ control = 0 /\ value = 0 /\ office = 0 /\ pending = 0 /\ answer = 0 /\ praise = 0
  /\ closed = 0 /\ hint = 0 /\ target = 0 /\ found = 0 /\ how = 0 /\ todo = 0 /\ round = 0
  /\ created = 0 /\ unsure = 0
PagesOff ==
  /\ coming = 0 /\ exec = 0 /\ life = 0 /\ form = 0 /\ pinned = 0 /\ scope = 0
  /\ fields = 0 /\ before = 0 /\ navigated = 0 /\ lost = 0
LoginOff ==
  /\ session = 0 /\ cur = 0 /\ imp = 0 /\ remembered = 0 /\ want = 0 /\ routes = 0 /\ skipped = 0

Init ==
  \/ part = "lookup" /\ L!Init /\ FillOff /\ PagesOff /\ LoginOff /\ tabs = 0
  \/ part = "fill" /\ F!Init /\ LookupOff /\ PagesOff /\ LoginOff /\ tabs = 0 /\ tries = 0
  \/ part = "pages" /\ P!Init /\ LookupOff /\ FillOff /\ LoginOff
  \/ part = "login" /\ I!Init /\ LookupOff /\ FillOff /\ PagesOff /\ op = 0

Lookup(A) == part = "lookup" /\ A /\ UNCHANGED <<part, fill, pages, login, tabs>>
Fill(A) == part = "fill" /\ A /\ UNCHANGED <<part, lookup, pages, login, tabs, tries>>
Pages(A) == part = "pages" /\ A /\ UNCHANGED <<part, lookup, fill, login>>
Login(A) == part = "login" /\ A /\ UNCHANGED <<part, lookup, fill, pages, op>>

Next == Lookup(L!Next) \/ Fill(F!Next) \/ Pages(P!Next) \/ Login(I!Next)
Automation ==
  \/ Lookup(L!Automation) \/ Fill(F!Automation) \/ Pages(P!Automation) \/ Login(I!Automation)
\* Every call of the automation returns or raises; the application owes nothing.
Spec == Init /\ [][Next]_vars /\ WF_vars(Automation)

-----------------------------------------------------------------------------
(* The properties of the parts, of the same names there. *)

\* The type invariants.
TypesOK ==
  /\ part = "lookup" => L!FormTypeOK
  /\ part = "fill" => F!FillTypeOK
  /\ part = "pages" => P!PagesTypeOK
  /\ part = "login" => I!LoginTypeOK

\* FormLookup: a load leaves the account it named picked.
LoadPicksWhatItAsked ==
  [][part = "lookup" /\ L!StepPasses /\ op.action \in L!Loads /\ ~early' /\ ~missed'
     => customer' = L!Picked(op.want)]_vars
\* FormFill: a submission creates one request, if it waited for the answer.
OneRequest == part = "fill" => F!OneRequest
\* RequestPages: only a tab in which a request was opened is pinned.
PinnedHasRequest == part = "pages" => P!PinnedHasRequest
\* RequestPages: the pin goes to another tab only if the last look saw no form in the pinned one.
StayPinned ==
  [][part = "pages" /\ pinned # 0 /\ pinned' \notin {pinned, 0} => lost]_vars
\* LoginAs: a step that passes, and is not skipped, has brought the browser to the user it names.
ReachesUser ==
  [][part = "login" /\ I!LoginPasses /\ want # Admin /\ ~skipped'
     => session' \in Alike[want] \union {Nobody}]_vars
\* All of them: each step ends.
EveryStepEnds == pc # "idle" ~> pc = "idle"
=============================================================================
