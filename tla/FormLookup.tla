---------------------------- MODULE FormLookup ----------------------------
(***************************************************************************)
(* The two search fields of the Data Change form as the automation fills   *)
(* them: Customer Number (form_field.py click_lookup, data_change_page.py  *)
(* load_customer and the steps around it) and Primary Group                *)
(* (search_primary_group, modify_primary_group).                           *)
(*                                                                         *)
(* A field shows a text, typed or picked from the list of results; the     *)
(* list opens, and the sections of the form are filled, when the web       *)
(* application gets to it.  The automation polls what is shown, with a     *)
(* bounded number of polls; a step that raises is repeated by the          *)
(* executor.  `want' is the account, or the group, the step names.         *)
(***************************************************************************)
EXTENDS Naturals, FiniteSets

CONSTANTS
  Accounts,    \* account numbers; a row of the list shows one of them
  Groups,      \* codes of primary groups, like A0168
  AGroups,     \* those that start with A, which the query of an automatic pick finds
  Prefix,      \* the query that names no account: "060", or an account name
  Letter,      \* the query of an automatic pick of a group: "A"
  Nothing,     \* an empty field, no account
  Polls,       \* bound: polls of a waiting loop (the code: 50, 20 and 60)
  LookupTries, \* rounds of click_lookup and of search_primary_group (the code: 5 and 8)
  Retries,     \* the executor's max_step_retries
  Steps        \* bound: steps executed on the page

LookupAssumption ==
  /\ AGroups \subseteq Groups
  /\ Accounts \intersect Groups = {}
  /\ {Prefix, Letter, Nothing} \intersect (Accounts \union Groups) = {}
  /\ Prefix # Letter /\ Prefix # Nothing /\ Letter # Nothing
  /\ Polls \in Nat \ {0} /\ LookupTries \in Nat \ {0}
  /\ Retries \in Nat /\ Steps \in Nat

VARIABLES
  framed,    \* the form is in an iframe; a Frame has no mouse and no keyboard
  customer,  \* the input Customer Name/Number
  rows,      \* the accounts of its open list; {} when it is closed
  group,     \* the input Primary Group
  groupRows, \* the groups of its open list
  data,      \* the account whose sections the form shows
  last,      \* _last_customer_number of the page object
  op,        \* the step: its action and what it names
  pc,        \* where the automation is
  tries,     \* polls or rounds of the current loop
  attempt,   \* attempts of the step so far
  missed,    \* the step gave up finding the row of its account (history)
  early,     \* the step took the customer that was already shown (history)
  result,    \* outcome of the last step
  left       \* steps left

page == <<framed, customer, rows, group, groupRows, data>>
auto == <<last, op, pc, tries, attempt, missed, early, result, left>>
vars == <<page, auto>>

Queries == Accounts \union {Prefix}
Loads == {"load", "query"}
CustomerActions == {"load", "query", "name", "first", "enter", "await", "select", "search", "data"}
Actions == CustomerActions \union {"details", "group"}
Places == {"idle", "begin", "open", "rows", "match", "hit", "lookup", "keys", "refill", "search", "data",
           "check", "details", "group", "pick", "groupKeys", "type", "raised"}

Text(t) == [text |-> t, picked |-> FALSE]
Picked(t) == [text |-> t, picked |-> TRUE]

\* _customer_selected: the list is closed and the input shows "NUMBER - NAME", or any long text
\* that is not the one that was typed
Confirmed(q) ==
  /\ rows = {}
  /\ customer.text # Nothing
  /\ customer.picked \/ customer.text \in Accounts \ {q}

\* _customer_field_confirmed without an account: what was typed last
Populated == group.text \in Groups
Ready == Confirmed(last) /\ Populated
IsLoaded(q) == Confirmed(q) /\ Populated

\* The account a step looks for; the other steps look for what was typed last.
Sought == IF op.action \in Loads THEN op.want ELSE last

\* _primary_group_selected: the list is closed and the input shows a code that contains the query
Found(q) == IF q = Letter THEN AGroups ELSE {q}
Selected(q) == groupRows \intersect Found(q) = {} /\ group.text \in Found(q)

Init ==
  /\ framed \in BOOLEAN
  /\ customer = Text(Nothing) /\ rows = {}
  /\ group = Text(Nothing) /\ groupRows = {}
  /\ data = Nothing
  /\ last = Nothing
  /\ op = [action |-> "await", want |-> Nothing]
  /\ pc = "idle" /\ tries = 0 /\ attempt = 0
  /\ missed = FALSE /\ early = FALSE
  /\ result = "none" /\ left = Steps

-----------------------------------------------------------------------------
(* The web application *)

\* A row appears in a list or goes from it, so that the list opens, closes, loads anew or changes, with
\* the account or whatever else the search finds, and late as well, when a row was picked already.
Changed(list, row) == IF row \in list THEN list \ {row} ELSE list \union {row}

ShowRows ==
  /\ \E a \in Accounts : rows' = Changed(rows, a)
  /\ UNCHANGED <<framed, customer, group, groupRows, data, auto>>

ShowGroups ==
  /\ group.text # Nothing
  /\ \E g \in Found(group.text) : groupRows' = Changed(groupRows, g)
  /\ UNCHANGED <<framed, customer, rows, group, data, auto>>

\* The sections are filled with the data of the customer that was picked.
LoadData ==
  /\ customer.picked /\ data # customer.text
  /\ data' = customer.text
  /\ \E g \in Groups : group' = Picked(g)
  /\ groupRows' = {}
  /\ UNCHANGED <<framed, customer, rows, auto>>

\* Another request is opened between two steps: its form is empty.
NewForm ==
  /\ pc = "idle" /\ customer # Text(Nothing)
  /\ customer' = Text(Nothing) /\ rows' = {}
  /\ group' = Text(Nothing) /\ groupRows' = {}
  /\ data' = Nothing
  /\ UNCHANGED <<framed, auto>>

-----------------------------------------------------------------------------
(* The executor: _run_action in its loop of attempts *)

Goto(place) == pc' = place /\ tries' = 0
Again == pc' = pc /\ tries' = tries + 1
Stay == UNCHANGED <<last, op, attempt, missed, early, result, left>>

\* What each step does first.
FirstPlace(a) ==
  CASE a \in {"load", "query", "name", "enter"} -> "begin"
    [] a = "await" -> "rows"
    [] a \in {"first", "select"} -> "lookup"
    [] a = "search" -> "search"
    [] a = "data" -> "data"
    [] a = "details" -> "details"
    [] a = "group" -> "group"

Wants(a) == CASE a \in Loads -> Accounts
              [] a \in {"enter", "first"} -> Queries
              [] a = "group" -> Groups \union {Letter}
              [] OTHER -> {Nothing}

\* A case of a pack keeps its executor from step to step; a scenario builds one for each step, and a pack
\* one for each case.
StartStep ==
  /\ pc = "idle" /\ left > 0
  /\ \E a \in Actions : \E w \in Wants(a) :
       /\ op' = [action |-> a, want |-> w]
       /\ Goto(FirstPlace(a))
  /\ attempt' = 0 /\ missed' = FALSE /\ early' = FALSE
  /\ last' \in {last, Nothing}
  /\ result' = "none" /\ left' = left - 1
  /\ UNCHANGED page

Pass ==
  /\ Goto("idle") /\ result' = "passed"
  /\ UNCHANGED <<last, op, attempt, missed, early, left>>

Raise == Goto("raised") /\ Stay

\* MUTANT: the attempt is not counted
RetryUncounted ==
  /\ pc = "raised"
  /\ IF attempt < Retries
     THEN Goto(FirstPlace(op.action)) /\ UNCHANGED <<attempt, result>>
     ELSE /\ Goto("idle") /\ result' = "failed"
          /\ UNCHANGED attempt
  /\ UNCHANGED <<page, last, op, missed, early, left>>

\* A step that raised is repeated, from its beginning, on the page as it is.
Retry ==
  /\ pc = "raised"
  /\ IF attempt < Retries
     THEN /\ attempt' = attempt + 1
          /\ Goto(FirstPlace(op.action))
          /\ UNCHANGED result
     ELSE /\ Goto("idle") /\ result' = "failed"
          /\ UNCHANGED attempt
  /\ UNCHANGED <<page, last, op, missed, early, left>>

-----------------------------------------------------------------------------
(* Customer Number *)

\* load_customer, load_customer_by_saved_query: nothing is done when a customer is loaded.
BeginLoad ==
  /\ pc = "begin" /\ op.action \in {"load", "query", "name"}
  /\ IF IsLoaded(Sought)
     THEN /\ early' = TRUE
          /\ IF op.action = "query" THEN Goto("details") /\ UNCHANGED result
                                    ELSE Goto("idle") /\ result' = "passed"
     ELSE Goto("open") /\ UNCHANGED <<early, result>>
  /\ UNCHANGED <<page, last, op, attempt, missed, left>>

BeginEnter ==
  /\ pc = "begin" /\ op.action = "enter"
  /\ Goto("open") /\ Stay /\ UNCHANGED page

\* The query that is typed: the number of the account, or no number.
Query == IF op.want \in Accounts THEN op.want ELSE Prefix

\* open_customer_search, enter_customer_number, type_in_input
TypeCustomer ==
  /\ pc = "open"
  /\ last' = Query
  /\ customer' = Text(Query) /\ rows' = {}
  /\ IF op.action = "enter" THEN Goto("idle") /\ result' = "passed"
                            ELSE Goto("rows") /\ UNCHANGED result
  /\ UNCHANGED <<framed, group, groupRows, data, op, attempt, missed, early, left>>

\* find_input raises when none of its ways leads to the input.
InputGone ==
  /\ pc \in {"open", "rows"} /\ Raise /\ UNCHANGED page

\* wait_for_customer_dropdown
RowsAppeared ==
  /\ pc = "rows" /\ rows # {}
  /\ \/ op.action = "await" /\ Pass
     \/ op.action \in Loads /\ Goto("match") /\ Stay
     \/ op.action = "name" /\ Goto("lookup") /\ Stay
  /\ UNCHANGED page

RefillQuery == IF last = Nothing THEN Prefix ELSE last

RowsPoll ==
  /\ pc = "rows" /\ rows = {}
  /\ \/ /\ tries = Polls
        /\ Raise
        /\ UNCHANGED page
     \/ /\ tries < Polls /\ Again
        /\ IF customer.text = Nothing
           THEN customer' = Text(RefillQuery) /\ last' = RefillQuery
           ELSE UNCHANGED <<customer, last>>
        /\ UNCHANGED <<framed, rows, group, groupRows, data, op, attempt, missed, early, result, left>>

\* A click on a row that is shown: the application takes it, or it is lost.  Where the row was found in
\* an await before, the list may have changed since; then the click goes to a row of the list that there
\* is now, or is lost.
ClickRow(a) ==
  \/ customer' = Picked(a) /\ rows' = {}
  \/ UNCHANGED <<customer, rows>>

\* _select_customer_row_by_number: a row whose text starts with the number is shown
MatchRow ==
  /\ pc = "match" /\ op.want \in rows
  /\ pc' = "hit" /\ UNCHANGED tries
  /\ Stay /\ UNCHANGED page

\* MUTANT: the row that is at the place of the one that was found
HitWhatIsThere ==
  /\ pc = "hit" /\ rows # {}
  /\ \E a \in rows : ClickRow(a)
  /\ Goto("search") /\ Stay
  /\ UNCHANGED <<framed, group, groupRows, data>>

\* The click looks for the text once more, and waits until the row is there.
HitRow ==
  /\ pc = "hit" /\ op.want \in rows
  /\ ClickRow(op.want)
  /\ Goto("search") /\ Stay
  /\ UNCHANGED <<framed, group, groupRows, data>>

\* No such row, or one that is gone again: the click raised.  The caller falls back to the first row.
MatchPoll ==
  /\ pc \in {"match", "hit"}
  /\ \/ /\ tries = Polls
        /\ missed' = TRUE /\ Goto("lookup")
     \/ /\ tries < Polls
        /\ pc' = "match" /\ tries' = tries + 1
        /\ UNCHANGED missed
  /\ UNCHANGED <<page, last, op, attempt, early, result, left>>

\* click_lookup: "060" for an automatic pick, "__first__" as it stands
LookupQuery == CASE op.action = "first" -> op.want
                 [] op.action # "first" /\ last # Nothing -> last
                 [] OTHER -> Prefix

\* What follows a customer that is confirmed.
LookedUp == IF op.action \in {"load", "query", "name"} THEN Goto("search") /\ Stay ELSE Pass

LookupDone ==
  /\ pc = "lookup" /\ Confirmed(LookupQuery) /\ tries \in {0, LookupTries}
  /\ LookedUp /\ UNCHANGED page

\* The first row is clicked with the mouse of the scope, which a frame does not have.
LookupClick ==
  /\ pc = "lookup" /\ tries < LookupTries /\ rows # {}
  /\ \/ framed /\ Raise /\ UNCHANGED page
     \/ /\ ~framed
        /\ \E a \in rows : ClickRow(a)
        /\ pc' = "keys" /\ UNCHANGED tries /\ Stay
        /\ UNCHANGED <<framed, group, groupRows, data>>

\* Was it taken?  If not, ArrowDown and Enter.
LookupKeys ==
  /\ pc = "keys"
  /\ \/ Confirmed(LookupQuery) /\ LookedUp /\ UNCHANGED page
     \/ /\ ~Confirmed(LookupQuery)
        /\ \/ \E a \in rows : ClickRow(a)
           \/ rows = {} /\ UNCHANGED <<customer, rows>>
        /\ IF customer'.picked THEN LookedUp ELSE pc' = "refill" /\ UNCHANGED tries /\ Stay
        /\ UNCHANGED <<framed, group, groupRows, data>>

\* The end of a round: the query is typed in the first one only.
LookupRefill ==
  /\ \/ pc = "refill"
     \/ pc = "lookup" /\ tries < LookupTries /\ rows = {} /\ ~(tries = 0 /\ Confirmed(LookupQuery))
  /\ IF tries = 0 /\ rows = {}
     THEN customer' = Text(LookupQuery)
     ELSE UNCHANGED customer
  /\ pc' = "lookup" /\ tries' = tries + 1
  /\ Stay /\ UNCHANGED <<framed, rows, group, groupRows, data>>

LookupFails ==
  /\ pc = "lookup" /\ tries = LookupTries /\ ~Confirmed(LookupQuery)
  /\ Raise /\ UNCHANGED page

\* search: a customer must be confirmed; the Search button, if there is one, needs the mouse
Search ==
  /\ pc = "search"
  /\ \/ Raise /\ (~Confirmed(last) \/ framed)
     \/ Confirmed(last) /\ Goto("data") /\ Stay
  /\ UNCHANGED page

\* wait_for_data
DataShown ==
  /\ pc = "data" /\ Ready
  /\ IF op.action = "query" THEN Goto("check") /\ Stay ELSE Pass
  /\ UNCHANGED page

DataPoll ==
  /\ pc = "data" /\ ~Ready
  /\ IF tries = Polls THEN Raise ELSE Again /\ Stay
  /\ UNCHANGED page

\* load_customer_by_saved_query and the executor look once more
CheckLoaded ==
  /\ pc = "check"
  /\ IF IsLoaded(op.want) THEN Goto("details") /\ Stay ELSE Raise
  /\ UNCHANGED page

\* open_customer_details_tab: the tab may be missing or not be clickable
Details ==
  /\ pc = "details"
  /\ IF Ready THEN IF op.action = "group" THEN Goto("pick") /\ Stay ELSE Pass
              ELSE Raise
  /\ UNCHANGED page

-----------------------------------------------------------------------------
(* Primary Group *)

\* modify_primary_group: a customer must be loaded first
BeginGroup ==
  /\ pc = "group"
  /\ \/ Ready /\ Goto("details") /\ Stay
     \/ ~Ready /\ IF tries = Polls THEN Raise ELSE Again /\ Stay
  /\ UNCHANGED page

\* search_primary_group: what is set already is not searched again
GroupDone ==
  /\ pc = "pick" /\ tries \in {0, LookupTries} /\ Selected(op.want)
  /\ Pass /\ UNCHANGED page

ClickGroup(g) ==
  \/ group' = Picked(g) /\ groupRows' = {}
  \/ UNCHANGED <<group, groupRows>>

GroupClick ==
  /\ pc = "pick" /\ tries < LookupTries
  /\ groupRows \intersect Found(op.want) # {}
  /\ \/ framed /\ Raise /\ UNCHANGED page
     \/ /\ ~framed
        /\ \E g \in groupRows \intersect Found(op.want) : ClickGroup(g)
        /\ pc' = "groupKeys" /\ UNCHANGED tries /\ Stay
        /\ UNCHANGED <<framed, customer, rows, data>>

GroupKeys ==
  /\ pc = "groupKeys"
  /\ \/ Selected(op.want) /\ Pass /\ UNCHANGED page
     \/ /\ ~Selected(op.want)
        /\ \/ \E g \in groupRows : ClickGroup(g)
           \/ groupRows = {} /\ UNCHANGED <<group, groupRows>>
        /\ IF group'.text \in Found(op.want) /\ groupRows' = {}
           THEN Pass
           ELSE pc' = "type" /\ UNCHANGED tries /\ Stay
        /\ UNCHANGED <<framed, customer, rows, data>>

\* The code is typed in the first round and whenever no row of it is shown.
GroupType ==
  /\ \/ pc = "type"
     \/ /\ pc = "pick" /\ tries < LookupTries
        /\ groupRows \intersect Found(op.want) = {}
        /\ ~(tries = 0 /\ Selected(op.want))
  /\ IF tries = 0 \/ groupRows \intersect Found(op.want) = {}
     THEN group' = Text(op.want) /\ groupRows' = {}
     ELSE UNCHANGED <<group, groupRows>>
  /\ pc' = "pick" /\ tries' = tries + 1
  /\ Stay /\ UNCHANGED <<framed, customer, rows, data>>

GroupFails ==
  /\ pc = "pick" /\ tries = LookupTries /\ ~Selected(op.want)
  /\ Raise /\ UNCHANGED page

-----------------------------------------------------------------------------
Application == ShowRows \/ ShowGroups \/ LoadData \/ NewForm
Customer ==
  \/ BeginLoad \/ BeginEnter \/ TypeCustomer \/ InputGone \/ RowsAppeared \/ RowsPoll
  \/ MatchRow \/ HitRow \/ MatchPoll \/ LookupDone \/ LookupClick \/ LookupKeys \/ LookupRefill
  \/ LookupFails \/ Search \/ DataShown \/ DataPoll \/ CheckLoaded \/ Details
Group == BeginGroup \/ GroupDone \/ GroupClick \/ GroupKeys \/ GroupType \/ GroupFails
Automation == Customer \/ Group \/ Retry

Next == Application \/ StartStep \/ Automation

Spec == Init /\ [][Next]_vars
\* Every call of the automation returns or raises; the application owes nothing.
FairSpec == Spec /\ WF_vars(Automation)

-----------------------------------------------------------------------------
(* Properties *)

\* Types of the variables, and the bounds of every loop.
FormTypeOK ==
  /\ framed \in BOOLEAN /\ missed \in BOOLEAN /\ early \in BOOLEAN
  /\ customer \in [text : Queries \union {Nothing}, picked : BOOLEAN]
  /\ rows \subseteq Accounts
  /\ group \in [text : Groups \union {Letter, Nothing}, picked : BOOLEAN]
  /\ groupRows \subseteq Groups
  /\ data \in Queries \union {Nothing}
  /\ last \in Queries \union {Nothing}
  /\ op \in [action : Actions, want : Queries \union Groups \union {Letter, Nothing}]
  /\ pc \in Places
  /\ tries \in 0..(Polls + LookupTries) /\ attempt \in 0..Retries
  /\ result \in {"none", "passed", "failed"} /\ left \in 0..Steps

\* A step ends: it passed.
StepPasses == pc # "idle" /\ pc' = "idle" /\ result' = "passed"

\* A load that found no customer on the form and did not lose the row of its account leaves that
\* account picked, however often a click was lost, the list closed or an attempt was repeated.
LoadPicksWhatItAsked ==
  [][StepPasses /\ op.action \in Loads /\ ~early' /\ ~missed' => customer' = Picked(op.want)]_vars

\* What load_customer_by_saved_query says of itself: it loads the chosen account in the form.
\* TLC refutes it (README, 6): a customer that is shown already is taken for the one asked for.
LoadedIsRequested ==
  [][StepPasses /\ op.action = "query" => customer'.text = op.want]_vars

\* Every step comes to its end: no loop of polls, clicks and attempts runs on.
EveryStepEnds == pc # "idle" ~> pc = "idle"
=============================================================================
