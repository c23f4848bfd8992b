---------------------------- MODULE RequestPages ----------------------------
(***************************************************************************)
(* The browser tabs in which requests are opened and filled, and the       *)
(* pages the automation takes for the current one: the executor's and that *)
(* of each page object, the pinned page of the form, the scope the form    *)
(* was found in, the page FieldActions was built with (executor_agent.py,  *)
(* workspace_tab.py, customer_lifecycle_page.py, app_launcher_page.py,     *)
(* data_change_page.py, form_field.py).                                    *)
(*                                                                         *)
(* A page is the number of its tab.  What happens in a form is the matter  *)
(* of FormLookup and FormFill; here a step only looks for the tab to work  *)
(* on.  No tab is ever closed.  A look at a tab, one or several awaits,    *)
(* sees a form only if the tab shows it then, and may miss it: a page that *)
(* is just rendered anew has no field, or raises, which reads as no form.  *)
(* Any look may miss, so a search through the tabs ends with any tab that  *)
(* shows a form, or with none.                                             *)
(***************************************************************************)
EXTENDS Naturals, Sequences

CONSTANTS
  Items,    \* bound: names of the list tried in the App Launcher (the code: 4)
  Polls,    \* bound: polls of a waiting loop (the code: 60, 90 and 25)
  Retries,  \* the executor's max_step_retries
  Steps,    \* bound: steps executed
  MaxTabs   \* bound: tabs of the browser

PagesAssumption ==
  /\ Items \in Nat /\ Polls \in Nat \ {0} /\ Retries \in Nat
  /\ Steps \in Nat /\ MaxTabs \in Nat \ {0}

VARIABLES
  tabs,      \* context.pages: what each shows, and whether a request was opened in it
  coming,    \* tabs that a click asked for and that are not open yet
  exec,      \* executor.page
  life,      \* customer_lifecycle.page
  form,      \* data_change.page
  pinned,    \* data_change._pinned_form_page; 0 for none
  scope,     \* the page of data_change._form_scope; 0 for none
  fields,    \* the page of FieldActions and of its resolver
  op,        \* the step
  pc,        \* where the automation is
  before,    \* tabs there were when the menu option was clicked
  navigated, \* waiting for the list, the queues were opened once more
  lost,      \* a look just now saw no form in the pinned page, and another one is sought (history)
  tries, attempt, left

browser == <<tabs, coming>>
pages == <<exec, life, form, pinned, scope, fields>>
run == <<op, before, navigated, attempt, left>>
vars == <<browser, pages, run, pc, tries, lost>>

Views == {"other", "queue", "form", "loading"}
Actions == {"queues", "new", "module", "create", "office", "load", "act", "field"}
Places == {"idle", "look", "tabs", "queues", "surface", "button", "menu", "click", "await", "again", "navigate",
           "focus", "find", "pins", "wait", "load", "scope", "pin", "field", "raised"}

Tab(view) == [view |-> view, request |-> view \in {"form", "loading"}]
Open == 1..Len(tabs)

\* _form_visible
Visible(p) == tabs[p].view = "form"
Shown == {p \in Open : Visible(p)}
\* _is_queues_list_ready
Listed(p) == tabs[p].view = "queue"

\* find_data_change_page, resolve_execution_page, from the page p: the tab that is worked on then
Resolved(p) == {p} \union Shown

Init ==
  /\ tabs = <<Tab("other")>> /\ coming = 0
  /\ exec = 1 /\ life = 1 /\ form = 1 /\ pinned = 0 /\ scope = 0 /\ fields = 1
  /\ op = "field" /\ pc = "idle" /\ before = 0 /\ navigated = FALSE /\ lost = FALSE
  /\ tries = 0 /\ attempt = 0 /\ left = Steps

-----------------------------------------------------------------------------
(* The web application *)

\* A form is rendered, or rendered anew.
FormLoads(p) ==
  /\ tabs[p].view \in {"loading", "form"}
  /\ tabs' = [tabs EXCEPT ![p].view = IF @ = "form" THEN "loading" ELSE "form"]
  /\ UNCHANGED <<coming, pages, run, pc, tries, lost>>

\* A tab that was asked for opens, still awaited or not.
TabOpens ==
  /\ coming > 0
  /\ tabs' = Append(tabs, Tab("loading")) /\ coming' = coming - 1
  /\ UNCHANGED <<pages, run, pc, tries, lost>>

Room == Len(tabs) + coming < MaxTabs

-----------------------------------------------------------------------------
(* The executor *)

Goto(place) == pc' = place /\ tries' = 0 /\ lost' = FALSE
Again == pc' = pc /\ tries' = tries + 1 /\ UNCHANGED lost
Pass == Goto("idle")
Stays == UNCHANGED <<op, attempt, left>>
Raise == Goto("raised") /\ before' = 0 /\ navigated' = FALSE /\ UNCHANGED <<browser, pages>> /\ Stays

\* _sync_page: the pages of the page objects, and not those of the scope and of FieldActions
Sync(p) == exec' = p /\ life' = p /\ form' = p

FirstPlace(a) ==
  CASE a \in {"queues", "new", "module", "create"} -> "queues"
    [] a = "act" -> "scope"
    [] a = "office" -> "focus"
    [] OTHER -> a

\* A new executor: executor_node builds one for each step of a scenario, on the page the last one ended
\* with or on a tab with a form, and the runner of a pack one for each case, on the first tab.
NewExecutor ==
  \E p \in Resolved(exec) \union {1} : Sync(p) /\ fields' = p /\ pinned' = 0 /\ scope' = 0

StartStep ==
  /\ pc = "idle" /\ left > 0
  /\ UNCHANGED pages \/ NewExecutor
  /\ op' \in Actions
  /\ Goto("look")
  /\ before' = 0 /\ navigated' = FALSE /\ attempt' = 0 /\ left' = left - 1
  /\ UNCHANGED browser

\* _ensure_active_page: the pinned page, if a form is seen there
PinnedSeen ==
  /\ pc = "look" /\ pinned # 0 /\ Visible(pinned)
  /\ Sync(pinned)
  /\ Goto(FirstPlace(op))
  /\ UNCHANGED <<browser, pinned, scope, fields, run>>

PinnedUnseen ==
  /\ pc = "look"
  /\ lost' = (pinned # 0)
  /\ pc' = "tabs" /\ UNCHANGED tries
  /\ UNCHANGED <<browser, pages, run>>

\* The executor's page, or another tab with a form, which is pinned then; or no form is seen.
SeekTab ==
  /\ pc = "tabs"
  /\ \/ \E p \in Shown \ {exec} : Sync(p) /\ pinned' = p
     \/ UNCHANGED <<exec, life, form, pinned>>
  /\ Goto(FirstPlace(op))
  /\ UNCHANGED <<browser, scope, fields, run>>

\* MUTANT: the attempt is not counted
RetryUncounted ==
  /\ pc = "raised"
  /\ IF attempt < Retries THEN Goto(FirstPlace(op)) ELSE Goto("idle")
  /\ UNCHANGED <<browser, pages, run>>

\* A step that raised is repeated, on the pages as they are.
Retry ==
  /\ pc = "raised"
  /\ IF attempt < Retries
     THEN attempt' = attempt + 1 /\ Goto(FirstPlace(op))
     ELSE UNCHANGED attempt /\ Goto("idle")
  /\ UNCHANGED <<browser, pages, op, before, navigated, left>>

-----------------------------------------------------------------------------
(* The list of queues: customer_lifecycle.open_queues_object *)

\* What the step does on the list.
OnList ==
  CASE op = "queues" -> Sync(life) /\ Pass
    [] op = "create" -> Goto("button") /\ UNCHANGED <<exec, life, form>>
    [] OTHER -> Goto("menu") /\ UNCHANGED <<exec, life, form>>

\* Already on the list, or it is there at last.
ListReady ==
  /\ pc \in {"queues", "surface"} /\ Listed(life)
  /\ OnList
  /\ navigated' = FALSE
  /\ UNCHANGED <<browser, pinned, scope, fields, before>> /\ Stays

Launched(view) == IF view = "queue" THEN Goto("surface") ELSE Again

\* search_and_open_item: the item is not found, or opens in the tab or in another one.
LaunchItem ==
  /\ pc = "queues" /\ ~Listed(life) /\ tries < Items
  /\ \/ Again /\ UNCHANGED <<tabs, life>>
     \/ \E view \in {"queue", "other"} :
          tabs' = [tabs EXCEPT ![life].view = view] /\ Launched(view) /\ UNCHANGED life
     \/ /\ Room
        /\ \E view \in {"queue", "other"} :
             /\ tabs' = Append(tabs, Tab(view))
             /\ life' = Len(tabs') /\ Launched(view)
     \* _activate_opened_tab: the new tab does not load in time
     \/ Room /\ tabs' = Append(tabs, Tab("other")) /\ UNCHANGED life /\ Again
  /\ UNCHANGED <<coming, exec, form, pinned, scope, fields, run>>

\* No item led there: the app Onboarding and its tab of the queues.
Onboarding ==
  /\ pc = "queues" /\ ~Listed(life) /\ tries = Items
  /\ \E view \in {tabs[life].view, "queue", "other"} : tabs' = [tabs EXCEPT ![life].view = view]
  /\ Goto("surface")
  /\ UNCHANGED <<coming, pages, run>>

OnboardingFails ==
  /\ pc = "queues" /\ ~Listed(life) /\ tries = Items
  /\ Raise

\* _wait_for_queues_surface: after a poll the queues are opened once more; the polls go on after that.
SurfacePoll ==
  /\ pc = "surface" /\ ~Listed(life) /\ (tries < Polls \/ ~navigated)
  /\ IF tries > 0 /\ ~navigated
     THEN Goto("queues") /\ navigated' = TRUE
     ELSE Again /\ UNCHANGED navigated
  /\ UNCHANGED <<browser, pages, op, before, attempt, left>>

SurfaceTimeout ==
  /\ pc = "surface" /\ ~Listed(life) /\ tries = Polls /\ navigated
  /\ Raise

-----------------------------------------------------------------------------
(* A request from the menu New *)

\* create_data_change_request clicks New itself; then open_queues_object finds the list ready.
ClickNewButton ==
  /\ pc = "button"
  /\ Goto("menu")
  /\ UNCHANGED <<browser, pages, run>>

\* _open_new_request_menu: left open by a click before, or opened now; the tab shows the list in any case.
OpenMenu ==
  /\ pc = "menu"
  /\ IF op = "new" THEN Pass ELSE Goto("click")
  /\ UNCHANGED <<browser, pages, run>>

\* No button, no menu, no such option.
MenuFails ==
  /\ pc \in {"button", "menu", "click"}
  /\ Raise

\* A click on the option is lost, opens the request in the tab, or asks for another tab.
ClickLands ==
  \/ UNCHANGED browser
  \/ tabs' = [tabs EXCEPT ![life] = Tab("loading")] /\ UNCHANGED coming
  \/ Room /\ coming' = coming + 1 /\ UNCHANGED tabs

\* _click_menu_option
ClickOption ==
  /\ pc = "click"
  /\ ClickLands
  /\ before' = Len(tabs)
  /\ Goto("await")
  /\ UNCHANGED <<pages, op, navigated, attempt, left>>

NewTab ==
  /\ pc = "await" /\ Len(tabs) > before
  /\ life' = before + 1 /\ before' = 0
  /\ Goto("navigate")
  /\ UNCHANGED <<browser, exec, form, pinned, scope, fields, op, navigated, attempt, left>>

\* No tab within 8 seconds, or it does not load: the option is clicked again.
ClickAgain ==
  /\ pc = "await"
  /\ ClickLands
  /\ Goto("again")
  /\ UNCHANGED <<pages, run>>

ClickAgainFails ==
  /\ pc = "await"
  /\ Raise

LastTab ==
  /\ pc = "again"
  /\ life' = IF Len(tabs) > before THEN Len(tabs) ELSE life
  /\ before' = 0
  /\ Goto("navigate")
  /\ UNCHANGED <<browser, exec, form, pinned, scope, fields, op, navigated, attempt, left>>

LastTabFails ==
  /\ pc = "again" /\ Len(tabs) > before
  /\ Raise

\* _wait_for_module_navigation: any tab with a form will do.
FormFound ==
  /\ pc = "navigate"
  /\ \E p \in Shown :
       IF op = "create" THEN life' = p /\ Pass /\ UNCHANGED <<exec, form>>
                        ELSE Sync(p) /\ Goto("focus")
  /\ UNCHANGED <<browser, pinned, scope, fields, run>>

\* activate_workspace_tab: within a tab of the browser, the request is brought up, if there is one.
BringUp(p) ==
  \/ UNCHANGED tabs
  \/ tabs[p].request /\ tabs' = [tabs EXCEPT ![p].view = "loading"]

NavigatePoll ==
  /\ pc = "navigate" /\ tries < Polls
  /\ life' \in Resolved(life)
  /\ BringUp(life')
  /\ Again
  /\ UNCHANGED <<coming, exec, form, pinned, scope, fields, run>>

\* MUTANT: a navigation that timed out is taken for done
NavigateTimeoutIgnored ==
  /\ pc = "navigate" /\ tries = Polls
  /\ Sync(life) /\ Goto("focus")
  /\ UNCHANGED <<browser, pinned, scope, fields, run>>

NavigateTimeout ==
  /\ pc = "navigate" /\ tries = Polls
  /\ Raise

-----------------------------------------------------------------------------
(* The form: data_change *)

\* What follows focus_form.  select_request_module pins the page it ends with in any case.
Focused ==
  CASE op = "module" -> Pass
    [] op = "office" -> pc' = "wait" /\ lost' = FALSE /\ UNCHANGED tries
    [] OTHER -> Goto("scope")

\* MUTANT: a form on the current page goes before the pinned one
FocusHere ==
  /\ pc = "focus"
  /\ pc' = "find" /\ UNCHANGED <<tries, lost>>
  /\ UNCHANGED <<browser, pages, run>>

\* focus_form: the pinned page, if a form is seen there
FocusPinned ==
  /\ pc = "focus"
  /\ form' = IF pinned = 0 THEN form ELSE pinned
  /\ \/ pinned # 0 /\ Visible(pinned) /\ Focused
     \/ pc' = "find" /\ lost' = (pinned # 0) /\ UNCHANGED tries
  /\ UNCHANGED <<browser, exec, life, pinned, scope, fields, run>>

\* focus_data_change_form: the page itself or another tab with a form, or the request in the page
FocusTab ==
  /\ pc = "find"
  /\ form' \in Resolved(form)
  /\ BringUp(form')
  /\ pc' = "pins" /\ UNCHANGED <<tries, lost>>
  /\ UNCHANGED <<coming, exec, life, pinned, scope, fields, run>>

\* What is found is pinned, if a form is still seen there.
FocusPins ==
  /\ pc = "pins"
  /\ \/ (Visible(form) \/ op = "module") /\ pinned' = form
     \/ op # "module" /\ UNCHANGED pinned
  /\ Focused
  /\ UNCHANGED <<browser, exec, life, form, scope, fields, run>>

\* resolve_form_scope: other tabs only when no page is pinned
ScopePages == IF pinned = 0 THEN Resolved(form) ELSE {pinned}

\* wait_for_request_form
OfficeFound ==
  /\ pc = "wait"
  /\ \E p \in ScopePages \intersect Shown :
       /\ scope' = p
       /\ \/ Sync(p) /\ Pass
          \* the option is not picked
          \/ form' = p /\ Goto("raised") /\ UNCHANGED <<exec, life>>
  /\ UNCHANGED <<browser, pinned, fields, run>>

\* Without a pin the form is looked for and focused before the next poll.
OfficePoll ==
  /\ pc = "wait" /\ tries < Polls
  /\ form' \in ScopePages
  /\ pc' = IF pinned = 0 THEN "focus" ELSE "wait"
  /\ tries' = tries + 1 /\ UNCHANGED lost
  /\ UNCHANGED <<browser, exec, life, pinned, scope, fields, run>>

OfficeTimeout ==
  /\ pc = "wait" /\ tries = Polls
  /\ Raise

\* _ensure_on_form_page of load_customer: the pinned page, without a look at what it shows
BeginLoad ==
  /\ pc = "load"
  /\ IF pinned # 0
     THEN form' = pinned /\ Goto("scope")
     ELSE UNCHANGED form /\ Goto("focus")
  /\ UNCHANGED <<browser, exec, life, pinned, scope, fields, run>>

\* The customer is loaded already.
LoadedAlready ==
  /\ pc = "scope" /\ op = "load" /\ ScopePages \intersect Shown # {}
  /\ Pass
  /\ UNCHANGED <<browser, pages, run>>

\* _ensure_form_scope: the scope found before, as long as the field is there
InScope ==
  /\ pc = "scope"
  /\ \/ scope # 0 /\ Visible(scope) /\ UNCHANGED <<scope, form>>
     \/ \E p \in ScopePages : scope' = p /\ form' = p
  /\ \/ /\ Visible(scope')
        /\ IF op = "load" THEN Goto("pin") /\ UNCHANGED <<exec, life>>
                          ELSE exec' = form' /\ life' = form' /\ Pass
     \/ Goto("raised") /\ UNCHANGED <<exec, life>>
  /\ UNCHANGED <<browser, pinned, fields, run>>

\* search, wait_for_data and the last look: without a pin the form is focused once more.
PinLoaded ==
  /\ pc = "pin"
  /\ form' \in IF pinned = 0 THEN Resolved(form) ELSE {form}
  /\ pinned' \in {pinned} \union ({form'} \intersect Shown)
  /\ Pass
  /\ UNCHANGED <<browser, exec, life, scope, fields, run>>

\* set_field, on the page FieldActions was built with
FieldSet ==
  /\ pc = "field" /\ Visible(fields)
  /\ Pass
  /\ UNCHANGED <<browser, pages, run>>

FieldFails ==
  /\ pc = "field"
  /\ Raise

-----------------------------------------------------------------------------
Look == PinnedSeen \/ PinnedUnseen \/ SeekTab
Queues == ListReady \/ LaunchItem \/ Onboarding \/ OnboardingFails \/ SurfacePoll \/ SurfaceTimeout
Menu == ClickNewButton \/ OpenMenu \/ MenuFails \/ ClickOption \/ NewTab \/ ClickAgain
        \/ ClickAgainFails \/ LastTab \/ LastTabFails
Navigation == FormFound \/ NavigatePoll \/ NavigateTimeout
Form == FocusPinned \/ FocusTab \/ FocusPins \/ OfficeFound \/ OfficePoll \/ OfficeTimeout \/ BeginLoad
        \/ LoadedAlready \/ InScope \/ PinLoaded \/ FieldSet \/ FieldFails

\* A step that was started; the next one is the matter of the loop over the steps.
Automation == Retry \/ Look \/ Queues \/ Menu \/ Navigation \/ Form

Next ==
  \/ StartStep \/ Automation
  \/ TabOpens
  \/ \E p \in Open : FormLoads(p)

Spec == Init /\ [][Next]_vars /\ WF_vars(Automation)

-----------------------------------------------------------------------------
(* Properties *)

PagesTypeOK ==
  /\ tabs \in Seq([view : Views, request : BOOLEAN]) /\ Len(tabs) \in 1..MaxTabs
  /\ coming \in 0..(MaxTabs - Len(tabs))
  /\ {exec, life, form, fields} \subseteq Open
  /\ {pinned, scope} \subseteq Open \union {0}
  /\ navigated \in BOOLEAN /\ lost \in BOOLEAN
  /\ op \in Actions /\ pc \in Places
  /\ before \in 0..MaxTabs
  /\ tries \in 0..(Items + Polls) /\ attempt \in 0..Retries /\ left \in 0..Steps

\* A tab in which no request was ever opened, the list of queues for one, is never pinned: what
\* the later steps type would go there.
PinnedHasRequest == pinned # 0 => tabs[pinned].request

\* "Stay on the pinned Data Change browser tab": the pin goes to another tab only after a look at the
\* pinned one that saw no form there and was followed by nothing but the search for another; that the
\* form may be shown again by the time one is found is not looked at.  It is about the pin: the other
\* pages go to a request that is opened.
StayPinned ==
  [][pinned # 0 /\ pinned' \notin {pinned, 0} => lost]_vars

\* Whatever opens late, or twice, or never: each step ends, passed or failed.
EveryStepEnds == pc # "idle" ~> pc = "idle"

=============================================================================
