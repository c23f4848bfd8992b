----------------------------- MODULE FormFill -----------------------------
(***************************************************************************)
(* The other fields of the Data Change form and its submission: set_field  *)
(* with the resolution of a label to a control (field_resolver.py), the    *)
(* Sales Office picklist (form_field.py, sales_office_rules.py), the       *)
(* filling of required fields and the submission with its judgement of     *)
(* what the page shows (submit, required_field_filler.py,                  *)
(* form_validation.py), and the steps that read the form.                  *)
(*                                                                         *)
(* The search fields are the matter of FormLookup; here Primary Group is   *)
(* the one field the automation can read.  A waiting loop either finds     *)
(* what it waits for or gives up.                                          *)
(***************************************************************************)
EXTENDS Naturals, FiniteSets

CONSTANTS
  Others,     \* labels of the fields but Sales Office, Customer Number and Primary Group
  Primary,    \* the label Primary Group
  Required,   \* what the registry requires of the bottler of the run
  Layouts,    \* the controls the fields may have on the page
  Similar,    \* Similar[f]: labels that contain f or are contained in it
  Values,     \* what a step may ask for
  Offices,    \* sales offices
  Any,        \* "__any__", the value of an automatic pick
  Empty,
  Rounds,     \* max_attempts of submit (the code: 3)
  Retries,    \* the executor's max_step_retries
  Steps       \* bound: steps executed on the form

Fields == Others \union {Primary}

Controls == {"text", "select", "combobox", "lookup", "toggle"}

FillAssumption ==
  /\ Layouts \subseteq [Others -> Controls]
  /\ Primary \notin Others /\ Required \subseteq Fields
  /\ Similar \in [Others -> SUBSET Others] /\ \A f \in Others : f \in Similar[f]
  /\ Any \notin Values /\ Empty \notin Values /\ Any # Empty
  /\ Any \notin Offices /\ Empty \notin Offices
  /\ Rounds \in Nat \ {0} /\ Retries \in Nat /\ Steps \in Nat

VARIABLES
  control,   \* the control each field has on the page
  value,     \* what it holds
  office,    \* what Sales Office holds
  pending,   \* clicks on Submit the application has not answered
  answer,    \* what it shows since its last answer: "none", "invalid" or "created"
  praise,    \* the page also shows another text that reads like a success
  closed,    \* the form is gone, its request was created
  hint,      \* the control that locator_hints name for a label, in the database
  op,        \* the step: its action, its field and its value
  pc,        \* where the automation is
  target,    \* the label set_field works on
  found,     \* the control it resolved the label to
  how,       \* the type it takes it for
  todo,      \* labels that fill_missing_fields has still to look at
  round,     \* attempts of submit
  attempt,   \* attempts of the step
  left,      \* steps left
  created,   \* requests created since the step began (history)
  unsure     \* judgements made while a click was not answered yet, or when a success was shown
             \* and gone (history)

form == <<control, value, office, pending, answer, praise, closed>>
place == <<target, found, how, todo, round>>
past == <<created, unsure>>
vars == <<form, hint, op, pc, place, attempt, left, past>>

NoStep == [action |-> "none", field |-> Empty, value |-> Empty]

Init ==
  /\ control \in Layouts
  /\ value = [f \in Fields |-> Empty] /\ office = Empty
  /\ pending = 0 /\ answer = "none" /\ praise = FALSE /\ closed = FALSE
  /\ hint = [f \in Others |-> Empty]
  /\ op = NoStep /\ pc = "idle"
  /\ target = Empty /\ found = Empty /\ how = "none" /\ todo = {} /\ round = 0
  /\ attempt = 0 /\ left = Steps
  /\ created = 0 /\ unsure = 0

-----------------------------------------------------------------------------
(* The web application *)

\* It requires what the registry says, and answers a submission when it gets to it.
AnswerSubmit ==
  /\ pending > 0
  /\ pending' = pending - 1
  /\ IF \A f \in Required : value[f] # Empty
     THEN answer' = "created" /\ created' = created + 1 /\ closed' \in {closed, TRUE}
     ELSE answer' = "invalid" /\ UNCHANGED <<created, closed>>
  /\ UNCHANGED <<control, value, office, praise, hint, op, pc, place, attempt, left, unsure>>

\* Its messages disappear after a while, before wait_for_toast has begun to look as well: _click_submit
\* sleeps first.
FadeAnswer ==
  /\ answer # "none" \/ praise
  /\ answer' = "none" /\ praise' = FALSE
  /\ unsure' = unsure + (IF pc = "outcome" /\ answer = "created" THEN 1 ELSE 0)
  /\ UNCHANGED <<control, value, office, pending, closed, hint, op, pc, place, attempt, left, created>>

\* Another request is opened between two steps.
NewForm ==
  /\ pc = "idle" /\ closed
  /\ closed' = FALSE /\ value' = [f \in Fields |-> Empty] /\ office' = Empty
  /\ UNCHANGED <<control, pending, answer, praise, hint, op, pc, place, attempt, left, past>>

-----------------------------------------------------------------------------
(* The executor *)

Requests ==
  [action : {"set"}, field : Others, value : Values] \union
  [action : {"office"}, field : {Empty}, value : Offices \union {Any}] \union
  [action : {"check"}, field : Fields, value : {Empty}] \union
  [action : {"submit"}, field : {Empty}, value : {Any, Empty}] \union
  [action : {"draft", "toast", "quiet", "made"}, field : {Empty}, value : {Empty}]

\* resolve_bottler_id finds none in the step and none in the org.
NoBottler == op.action = "submit" /\ op.value = Empty

FirstPlace(a) == CASE a = "set" -> "resolve" [] OTHER -> a

StartStep ==
  /\ pc = "idle" /\ left > 0
  /\ \E r \in Requests : op' = r /\ pc' = FirstPlace(r.action) /\ target' = r.field
  /\ attempt' = 0 /\ left' = left - 1
  /\ created' = 0 /\ unsure' = pending
  /\ UNCHANGED <<form, hint, found, how, todo, round>>

\* The step is over; whether it passed is the matter of ScenarioRun.
Done ==
  /\ pc' = "idle" /\ op' = NoStep
  /\ target' = Empty /\ found' = Empty /\ how' = "none" /\ todo' = {} /\ round' = 0
  /\ UNCHANGED <<hint, attempt, left, past>>

Goto(p) == pc' = p /\ UNCHANGED <<hint, op, place, attempt, left, past>>
Raise == Goto("raised")

\* A step that raised is repeated, from its beginning, on the page as it is.
Repeat ==
  /\ pc' = FirstPlace(op.action)
  /\ target' = op.field /\ found' = Empty /\ how' = "none" /\ todo' = {} /\ round' = 0
  /\ UNCHANGED <<hint, op, left, past>>

\* MUTANT: the attempt is not counted
RetryUncounted ==
  /\ pc = "raised" /\ Repeat /\ UNCHANGED <<attempt, form>>

Retry ==
  /\ pc = "raised"
  /\ \/ attempt < Retries /\ attempt' = attempt + 1 /\ Repeat
     \/ attempt = Retries /\ Done
  /\ UNCHANGED form

-----------------------------------------------------------------------------
(* SmartFieldResolver.resolve *)

\* The type that the probe tells: a check box is an input like another.
Probed(g) == IF control[g] = "toggle" THEN "text" ELSE control[g]

\* Locator hints of the database, when what they name is visible
ResolveByHint ==
  /\ pc = "resolve" /\ target \in Others /\ hint[target] # Empty
  /\ found' = hint[target] /\ how' = Probed(hint[target])
  /\ pc' = "control"
  /\ UNCHANGED <<form, hint, op, target, todo, round, attempt, left, past>>

\* DOM_PROBE_JS keeps the last control whose label contains the text or is contained in it; what
\* it found is kept in the database, unless it is a native select.
ResolveByProbe ==
  /\ pc = "resolve" /\ target \in Others
  /\ \E g \in Similar[target] :
       /\ found' = g /\ how' = Probed(g)
       /\ \/ hint' = [hint EXCEPT ![target] = g] /\ control[g] # "select"
          \/ UNCHANGED hint
  /\ pc' = "control"
  /\ UNCHANGED <<form, op, target, todo, round, attempt, left, past>>

\* Neither: the label, with the type of the registry
ResolveByLabel ==
  /\ pc = "resolve" /\ target \in Others
  /\ found' = target /\ how' \in {control[target], "combobox"}
  /\ pc' = "control"
  /\ UNCHANGED <<form, hint, op, target, todo, round, attempt, left, past>>

-----------------------------------------------------------------------------
(* FieldActions.  A pick that nobody asked for takes any value. *)

Wanted == IF op.action = "set" THEN op.value ELSE Any
Picks == IF Wanted = Any THEN Values ELSE {Wanted}

Assign(f, v) ==
  /\ value' = [value EXCEPT ![f] = v]
  /\ UNCHANGED <<control, office, pending, answer, praise, closed>>

\* Back to who called set_field: the step, or the filling of required fields.
NextField ==
  /\ pc' = "fill" /\ target' = Empty /\ found' = Empty /\ how' = "none"
  /\ UNCHANGED <<hint, op, todo, round, attempt, left, past>>
Returned == IF op.action = "set" THEN Done ELSE NextField
SetRaised == IF op.action = "set" THEN Raise ELSE NextField

\* set_text types the value, "__any__" too; a check box cannot be filled.
SetText ==
  /\ pc = "control" /\ how = "text" /\ target \in Others
  /\ IF control[found] = "toggle" THEN SetRaised /\ UNCHANGED form
                                  ELSE Returned /\ Assign(found, Wanted)

\* set_toggle: "__any__" means off
SetToggle ==
  /\ pc = "control" /\ how = "toggle" /\ target \in Others
  /\ Returned /\ Assign(found, IF Wanted = Any THEN Empty ELSE Wanted)

\* set_native_select: an option with the label or the value, or the first real one
SetSelect ==
  /\ pc = "control" /\ how = "select" /\ target \in Others
  /\ \/ Returned /\ \E v \in Picks : Assign(found, v)
     \/ SetRaised /\ UNCHANGED form

\* set_lookup types before it opens the list.
TypeLookup ==
  /\ pc = "control" /\ how = "lookup" /\ target \in Others
  /\ Goto("options") /\ Assign(found, Wanted)

OpenPicklist ==
  /\ pc = "control" /\ how = "combobox" /\ target \in Others
  /\ Goto("options") /\ UNCHANGED form

\* open_picklist raises when no option shows up after four clicks.
NoOptions ==
  /\ pc = "options" /\ SetRaised /\ UNCHANGED form

\* pick_option: an option of the list, or whatever else on the page has such a text.
\* _verify_field_updated looks at the field, and accepts what it sees.
PickOption ==
  /\ pc = "options" /\ Returned
  /\ \/ how = control[found] /\ \E v \in Picks : Assign(found, v)
     \/ UNCHANGED form

\* No option in ten seconds: the first native select that is visible, whatever its label
PickFromSelect ==
  /\ pc = "options" /\ Returned
  /\ \E g \in Others : control[g] = "select" /\ \E v \in Picks : Assign(g, v)

\* Primary Group is a search field of its own: search_primary_group.
SetPrimary ==
  /\ pc = "resolve" /\ target = Primary
  /\ \/ Returned /\ \E v \in Picks : Assign(Primary, v)
     \/ SetRaised /\ UNCHANGED form

-----------------------------------------------------------------------------
(* Sales Office *)

\* What the list offers of what the step wants; rank_office_options orders the offers of an
\* automatic pick.
Choices(offered) == IF op.value = Any THEN offered ELSE offered \intersect {op.value}

\* A click on an option that is lost is not noticed.
ClickOffice(offered) ==
  /\ Done
  /\ office' \in Choices(offered) \union {office}
  /\ UNCHANGED <<control, value, pending, answer, praise, closed>>

\* PICK_COMBOBOX_JS: one script opens the list, waits and clicks; it gives up when no option shows
\* up in two rounds, and raises when the office is not among the options.
OfficeByScript ==
  /\ pc = "office"
  /\ \/ \E offered \in SUBSET Offices \ {{}} :
          IF Choices(offered) # {} THEN ClickOffice(offered) ELSE Raise /\ UNCHANGED form
     \/ Goto("officeMouse") /\ UNCHANGED form

\* _mouse_pick_combobox: the same with the mouse, which a frame does not have
OfficeByMouse ==
  /\ pc = "officeMouse"
  /\ \/ \E offered \in SUBSET Offices \ {{}} :
          IF Choices(offered) # {} THEN ClickOffice(offered) ELSE Raise /\ UNCHANGED form
     \/ Goto("officeModel") /\ UNCHANGED form

\* llm_assisted_picklist: a language model says where the list is; of an automatic pick the first
\* thing on the page with a text is clicked, an option or not.
OfficeByModel ==
  /\ pc = "officeModel"
  /\ \/ \E offered \in SUBSET Offices : ClickOffice(offered)
     \/ Raise /\ UNCHANGED form

-----------------------------------------------------------------------------
(* Steps that read the form *)

\* get_field_locator knows FORM_FIELDS only: any other label raises.
CheckField ==
  /\ pc = "check"
  /\ \/ op.field = Primary /\ Done
     \/ Raise
  /\ UNCHANGED form

ReadToast ==
  /\ pc = "toast"
  /\ IF answer # "none" \/ praise THEN Done ELSE Raise
  /\ UNCHANGED form

\* assert_no_toast, of a step or of a test case
AssertQuiet ==
  /\ pc = "quiet"
  /\ IF answer # "none" \/ praise THEN Raise ELSE Done
  /\ UNCHANGED form

\* The assertion that a request was created, or submitted: any text like that, a saved draft too
AssertCreated ==
  /\ pc = "made"
  /\ IF answer = "created" \/ praise THEN Done ELSE Raise
  /\ UNCHANGED form

\* save_draft does not look at what comes of it; the application says that it saved.
SaveDraft ==
  /\ pc = "draft" /\ Done
  /\ praise' \in {praise, TRUE}
  /\ UNCHANGED <<control, value, office, pending, answer, closed>>

-----------------------------------------------------------------------------
(* Submission *)

\* get_field_value raises for all labels but Primary Group, and what raises counts as empty.
ReadsEmpty(f) == f \in Others \/ value[f] = Empty
MissingFields == {f \in Required : ~NoBottler /\ ReadsEmpty(f)}

\* The pass before the submission: fill_empty_required_for_bottler
BeginSubmit ==
  /\ pc = "submit"
  /\ todo' = MissingFields /\ pc' = "fill"
  /\ UNCHANGED <<form, hint, op, target, found, how, round, attempt, left, past>>

\* fill_missing_fields, one label: it opens its tab, reads the field again, and sets it.
FillField ==
  /\ pc = "fill" /\ todo # {}
  /\ \E f \in todo :
       /\ todo' = todo \ {f}
       /\ IF ReadsEmpty(f) THEN target' = f /\ pc' = "resolve"
                           ELSE UNCHANGED <<target, pc>>
  /\ UNCHANGED <<form, hint, op, found, how, round, attempt, left, past>>

\* The tab of a section cannot be opened.
FillTabFails ==
  /\ pc = "fill" /\ todo # {}
  /\ Raise /\ UNCHANGED form

FillDone ==
  /\ pc = "fill" /\ todo = {}
  /\ IF round < Rounds THEN Goto("click") ELSE Raise
  /\ UNCHANGED form

\* _click_submit: no button, or a frame that has no mouse, raises.
ClickSubmit ==
  /\ pc = "click"
  /\ \/ /\ ~closed
        /\ pending' = pending + 1
        /\ Goto("outcome")
        /\ UNCHANGED <<control, value, office, answer, praise, closed>>
     \/ Raise /\ UNCHANGED form

\* MUTANT: what the application answers is not looked at
ReadsSuccessPraise == praise

\* detect_submit_outcome: a toast or a text of the page that reads like a success is one.
ReadsSuccess == answer = "created" \/ praise

OutcomeSuccess ==
  /\ pc = "outcome" /\ ReadsSuccess
  /\ Done /\ UNCHANGED form

\* Otherwise what the page and the registry miss is filled, and submitted again.
OutcomeMissing ==
  /\ pc = "outcome" /\ ~ReadsSuccess
  /\ \E reported \in {{}, {f \in Required : value[f] = Empty}} :
       /\ reported # {} => answer = "invalid"
       /\ MissingFields \union reported # {}
       /\ todo' = MissingFields \union reported
  /\ round' = round + 1 /\ pc' = "fill"
  /\ unsure' = unsure + (IF pending > 0 THEN 1 ELSE 0)
  /\ UNCHANGED <<form, hint, op, target, found, how, attempt, left, created>>

OutcomeUnknown ==
  /\ pc = "outcome" /\ ~ReadsSuccess /\ MissingFields = {}
  /\ pc' = "raised"
  /\ unsure' = unsure + (IF pending > 0 THEN 1 ELSE 0)
  /\ UNCHANGED <<form, hint, op, place, attempt, left, created>>

-----------------------------------------------------------------------------
Application == AnswerSubmit \/ FadeAnswer \/ NewForm
SetField ==
  \/ ResolveByHint \/ ResolveByProbe \/ ResolveByLabel
  \/ SetText \/ SetToggle \/ SetSelect \/ TypeLookup \/ OpenPicklist
  \/ NoOptions \/ PickOption \/ PickFromSelect \/ SetPrimary
Submit ==
  \/ BeginSubmit \/ FillField \/ FillTabFails \/ FillDone \/ ClickSubmit
  \/ OutcomeSuccess \/ OutcomeMissing \/ OutcomeUnknown
Reads == CheckField \/ ReadToast \/ AssertQuiet \/ AssertCreated
PickOffice == OfficeByScript \/ OfficeByMouse \/ OfficeByModel
Automation == SetField \/ PickOffice \/ Reads \/ SaveDraft \/ Submit \/ Retry

Next == Application \/ StartStep \/ Automation

Spec == Init /\ [][Next]_vars
\* Every call of the automation returns or raises; the application owes nothing.
FairSpec == Spec /\ WF_vars(Automation)

-----------------------------------------------------------------------------
(* Properties *)

\* Types of the variables, and the bounds of the loops.
FillTypeOK ==
  /\ control \in [Others -> Controls]
  /\ value \in [Fields -> Values \union {Any, Empty}]
  /\ office \in Offices \union {Empty}
  /\ pending \in Nat /\ answer \in {"none", "invalid", "created"}
  /\ praise \in BOOLEAN /\ closed \in BOOLEAN
  /\ hint \in [Others -> Others \union {Empty}]
  /\ todo \subseteq Fields /\ round \in 0..Rounds /\ attempt \in 0..Retries
  /\ left \in 0..Steps

\* A submit step creates one request at most, unless it judged what the page showed before the
\* application had answered its click, or when the answer was gone: only then is Submit clicked again
\* for nothing.
OneRequest == created <= 1 + unsure

\* What required_field_filler.py says of itself: it fills empty required fields.  A field that
\* holds what a step has set is left alone by a submission.
\* TLC refutes it (README, 6): most fields are read as empty whatever they hold.
OnlyEmptyAreFilled ==
  [][op.action = "submit" => \A f \in Fields : value[f] # Empty => value'[f] = value[f]]_vars

\* Every step comes to its end.
EveryStepEnds == pc # "idle" ~> pc = "idle"
=============================================================================
