------------------------- MODULE Automation_proofs -------------------------
(***************************************************************************)
(* What the parts of the page automation keep, whatever the application    *)
(* shows: an invariant of each part, the facts that every step of the part *)
(* preserves it, and the theorems about PageAutomation that follow.        *)
(***************************************************************************)
EXTENDS PageAutomation, Sequences, TLAPS

-----------------------------------------------------------------------------
(* RequestPages: what is pinned.                                           *)

\* The tabs, and the pages that are taken for current ones: each is a tab that is open.
TabsOK == /\ tabs \in Seq([view : P!Views, request : BOOLEAN])
          /\ Len(tabs) \in Nat \ {0}
\* The pages that are taken for current ones are tabs that are open; a pin may be missing.
OpenPages == /\ exec \in P!Open /\ life \in P!Open /\ form \in P!Open
             /\ pinned \in P!Open \union {0} /\ scope \in P!Open \union {0}
             /\ before \in Nat

\* A tab that shows a form, or loads one, had a request opened in it.
FormsRequested == \A p \in P!Open : tabs[p].view \in {"form", "loading"} => tabs[p].request

\* The page the module is selected on is one of a request.
FocusPlaces == {"focus", "find", "pins"}
FocusRequested == op = "module" /\ pc \in FocusPlaces => tabs[form].request

\* A load works on the pinned page until it pins the page it worked on, and looks for one only when
\* none is pinned.
LoadOnPinned == /\ op = "load" /\ pc \in {"scope", "pin"} /\ pinned # 0 => form = pinned
                /\ op = "load" /\ pc \in FocusPlaces => pinned = 0

\* Some places are of one step only.
ListPlaces == {"queues", "surface", "button", "menu", "click", "await", "again", "navigate"}
PlaceOfStep == /\ pc = "wait" => op = "office"
               /\ pc \in {"load", "pin"} => op = "load"
               /\ pc \in ListPlaces => op # "load"

\* Where another tab is looked for, the look at the pinned one was in vain.
SeeksAnother == pc \in {"tabs", "find", "pins"} /\ pinned # 0 => lost

\* Together they are inductive: each step preserves them.
PinInv == /\ TabsOK /\ OpenPages /\ FormsRequested /\ FocusRequested /\ LoadOnPinned /\ PlaceOfStep
          /\ SeeksAnother
          /\ P!PinnedHasRequest
          /\ op \in P!Actions

\* The tab that is found, and the one that is worked on otherwise, are open.
LEMMA ResolvedIsOpen ==
  ASSUME OpenPages
  PROVE  /\ \A p \in P!Open : P!Resolved(p) \subseteq P!Open
         /\ P!ScopePages \subseteq P!Open
  BY DEF P!Resolved, P!Shown, P!ScopePages, OpenPages

\* What a tab is; a new one had a request opened in it if it shows or loads a form.
LEMMA TabTyped ==
  ASSUME TabsOK, NEW q \in P!Open
  PROVE  tabs[q] \in [view : P!Views, request : BOOLEAN]
  <1> DEFINE T == [view : P!Views, request : BOOLEAN]
  <1>1. tabs \in Seq(T)
    BY DEF TabsOK
  <1> HIDE DEF T
  <1>2. tabs[q] \in T
    BY <1>1 DEF P!Open
  <1> QED BY <1>2 DEF T

LEMMA NewTabTyped ==
  ASSUME NEW v \in P!Views
  PROVE  /\ P!Tab(v) \in [view : P!Views, request : BOOLEAN]
         /\ P!Tab(v).view = v
         /\ P!Tab(v).request <=> v \in {"form", "loading"}
  <1> DEFINE b == v \in {"form", "loading"}
  <1>1. b \in BOOLEAN
    OBVIOUS
  <1>2. P!Tab(v) = [view |-> v, request |-> b]
    BY DEF P!Tab
  <1>3. [view |-> v, request |-> b] \in [view : P!Views, request : BOOLEAN]
        /\ [view |-> v, request |-> b].view = v
        /\ [view |-> v, request |-> b].request = b
    <2> HIDE DEF b
    <2> QED BY <1>1
  <1> QED BY <1>2, <1>3

\* A tab shows something else, and had a request opened in it if it had one before.
LEMMA Reshown ==
  ASSUME TabsOK, FormsRequested, NEW p \in P!Open, NEW v \in P!Views,
         v \in {"form", "loading"} => tabs[p].request,
         tabs' = [tabs EXCEPT ![p].view = v]
  PROVE  /\ TabsOK' /\ FormsRequested' /\ Len(tabs') = Len(tabs)
         /\ \A q \in P!Open : tabs'[q].request = tabs[q].request
  <1>0. \A q \in P!Open : tabs[q] \in [view : P!Views, request : BOOLEAN]
    BY TabTyped
  <1>1. Len(tabs') = Len(tabs) /\ tabs' \in Seq([view : P!Views, request : BOOLEAN])
    <2> DEFINE t == [tabs[p] EXCEPT !.view = v]
    <2>1. t \in [view : P!Views, request : BOOLEAN]
      BY <1>0
    <2>2. tabs' = [tabs EXCEPT ![p] = t]
      OBVIOUS
    <2> HIDE DEF t
    <2> QED BY <2>1, <2>2 DEF TabsOK, P!Open
  <1>2. /\ tabs'[p] = [tabs[p] EXCEPT !.view = v]
        /\ \A q \in P!Open : q # p => tabs'[q] = tabs[q]
    BY DEF TabsOK, P!Open
  <1>3. tabs'[p].view = v /\ tabs'[p].request = tabs[p].request
    BY <1>0, <1>2
  <1> QED
    BY <1>1, <1>2, <1>3 DEF TabsOK, FormsRequested, P!Open

\* A tab is opened after those there are.
LEMMA Opened ==
  ASSUME TabsOK, FormsRequested, NEW v \in P!Views, tabs' = Append(tabs, P!Tab(v))
  PROVE  /\ TabsOK' /\ FormsRequested' /\ Len(tabs') = Len(tabs) + 1
         /\ \A q \in P!Open : tabs'[q] = tabs[q]
  <1>1. P!Tab(v) \in [view : P!Views, request : BOOLEAN] /\ P!Tab(v).view = v
        /\ (v \in {"form", "loading"} => P!Tab(v).request)
    BY NewTabTyped
  <1>2. Len(tabs') = Len(tabs) + 1 /\ tabs'[Len(tabs) + 1] = P!Tab(v)
        /\ (\A q \in P!Open : tabs'[q] = tabs[q])
        /\ tabs' \in Seq([view : P!Views, request : BOOLEAN])
    <2> HIDE DEF P!Tab
    <2> QED BY <1>1 DEF TabsOK, P!Open
  <1>3. P!Open' = P!Open \union {Len(tabs) + 1}
    BY <1>2 DEF P!Open, TabsOK
  <1>4. TabsOK'
    BY <1>2 DEF TabsOK
  <1>5. FormsRequested'
    BY <1>1, <1>2, <1>3 DEF FormsRequested
  <1> QED BY <1>2, <1>4, <1>5

-----------------------------------------------------------------------------
(* The invariant                                                           *)

LEMMA PinInit == P!PagesAssumption /\ P!Init => PinInv
  <1> SUFFICES ASSUME P!PagesAssumption, P!Init PROVE PinInv
    OBVIOUS
  <1>1. P!Tab("other") \in [view : P!Views, request : BOOLEAN] /\ P!Tab("other").view = "other"
    BY NewTabTyped DEF P!Views
  <1>2. tabs \in Seq([view : P!Views, request : BOOLEAN]) /\ Len(tabs) = 1 /\ P!Open = {1}
        /\ tabs[1].view = "other"
    BY <1>1 DEF P!Init, P!Open
  <1> QED
    BY <1>2 DEF P!Init, PinInv, TabsOK, OpenPages, FormsRequested, FocusRequested, FocusPlaces,
                LoadOnPinned, PlaceOfStep, SeeksAnother, P!PinnedHasRequest, P!Actions

\* What is not about the tabs follows when they are as they were, or one was opened, or shows
\* something else.
TabsKeep == /\ TabsOK' /\ FormsRequested'
            /\ Len(tabs') >= Len(tabs)
            /\ \A q \in P!Open : tabs[q].request => tabs'[q].request

LEMMA TabsUnchanged ==
  ASSUME TabsOK, FormsRequested, UNCHANGED tabs
  PROVE  TabsKeep
  BY DEF TabsKeep, TabsOK, FormsRequested, P!Open

LEMMA TabsStep ==
  ASSUME TabsOK, OpenPages, FormsRequested, [P!Next]_P!vars
  PROVE  TabsKeep
  <1> USE DEF TabsKeep
  <1>r. ASSUME NEW p \in P!Open, NEW v \in P!Views, v \in {"form", "loading"} => tabs[p].request,
               tabs' = [tabs EXCEPT ![p].view = v]
        PROVE  TabsKeep
    <2>1. /\ TabsOK' /\ FormsRequested' /\ Len(tabs') = Len(tabs)
          /\ \A q \in P!Open : tabs'[q].request = tabs[q].request
      BY <1>r, Reshown
    <2>2. Len(tabs) \in Nat
      BY DEF TabsOK
    <2> QED BY <2>1, <2>2
  <1>o. ASSUME NEW v \in P!Views, tabs' = Append(tabs, P!Tab(v))
        PROVE  TabsKeep
    <2>1. /\ TabsOK' /\ FormsRequested' /\ Len(tabs') = Len(tabs) + 1
          /\ \A q \in P!Open : tabs'[q] = tabs[q]
      BY <1>o, Opened
    <2>2. Len(tabs) \in Nat
      BY DEF TabsOK
    <2> QED BY <2>1, <2>2
  <1>l. ASSUME tabs' = [tabs EXCEPT ![life] = P!Tab("loading")]
        PROVE  TabsKeep
    <2>1. P!Tab("loading") \in [view : P!Views, request : BOOLEAN] /\ P!Tab("loading").request
      BY NewTabTyped DEF P!Views
    <2>2. life \in P!Open
      BY DEF OpenPages
    <2> DEFINE t == P!Tab("loading")
    <2>3. /\ tabs' \in Seq([view : P!Views, request : BOOLEAN]) /\ Len(tabs') = Len(tabs)
          /\ \A q \in P!Open : tabs'[q] = IF q = life THEN t ELSE tabs[q]
      <3>1. tabs' = [tabs EXCEPT ![life] = t] /\ t \in [view : P!Views, request : BOOLEAN]
        BY <1>l, <2>1
      <3> HIDE DEF t
      <3> QED BY <3>1, <2>2 DEF TabsOK, P!Open
    <2> QED
      BY <2>1, <2>2, <2>3 DEF TabsOK, FormsRequested, P!Open
  <1>w. life \in P!Open /\ tabs[life].view \in P!Views
            /\ {"other", "queue", "form", "loading"} = P!Views
    BY TabTyped DEF OpenPages, P!Views
  <1>1. ASSUME NEW p \in P!Open, P!FormLoads(p) PROVE TabsKeep
    <2> DEFINE v == IF tabs[p].view = "form" THEN "loading" ELSE "form"
    <2>1. v \in P!Views /\ tabs[p].request /\ tabs' = [tabs EXCEPT ![p].view = v]
      BY <1>1 DEF P!FormLoads, FormsRequested, P!Views
    <2> HIDE DEF v
    <2> QED BY <2>1, <1>r
  <1>2. CASE P!TabOpens
    BY <1>2, <1>o, <1>w DEF P!TabOpens
  <1>3. CASE P!LaunchItem
    BY <1>3, <1>o, <1>r, <1>w, TabsUnchanged DEF P!LaunchItem
  <1>4. CASE P!Onboarding
    <2>1. PICK v \in {tabs[life].view, "queue", "other"} : tabs' = [tabs EXCEPT ![life].view = v]
      BY <1>4 DEF P!Onboarding
    <2>2. v \in P!Views /\ (v \in {"form", "loading"} => tabs[life].request)
      BY <1>w, <2>1 DEF FormsRequested, OpenPages
    <2> QED BY <2>1, <2>2, <1>r, <1>w
  <1>5. CASE P!ClickNewButton \/ P!OpenMenu
    BY <1>5, TabsUnchanged DEF P!ClickNewButton, P!OpenMenu, P!browser
  <1>6. CASE P!ClickOption \/ P!ClickAgain
    BY <1>6, <1>l, TabsUnchanged DEF P!ClickOption, P!ClickAgain, P!ClickLands, P!browser
  <1>b. ASSUME NEW p \in P!Open, P!BringUp(p) PROVE TabsKeep
    <2>1. CASE UNCHANGED tabs
      BY <2>1, TabsUnchanged
    <2>2. CASE tabs[p].request /\ tabs' = [tabs EXCEPT ![p].view = "loading"]
      BY <2>2, <1>r, <1>w
    <2> QED BY <1>b, <2>1, <2>2 DEF P!BringUp
  <1>7. CASE P!NavigatePoll \/ P!FocusTab
    <2>1. (life' \in P!Open /\ P!BringUp(life')) \/ (form' \in P!Open /\ P!BringUp(form'))
      BY <1>7, ResolvedIsOpen DEF P!NavigatePoll, P!FocusTab, OpenPages
    <2> QED BY <2>1, <1>b
  <1>8. CASE P!StartStep \/ P!Retry \/ P!Look \/ UNCHANGED P!vars
    BY <1>8, TabsUnchanged
    DEF P!StartStep, P!Retry, P!Look, P!PinnedSeen, P!PinnedUnseen, P!SeekTab, P!vars, P!browser
  <1>9. CASE P!ListReady \/ P!OnboardingFails \/ P!SurfacePoll \/ P!SurfaceTimeout
    BY <1>9, TabsUnchanged
    DEF P!ListReady, P!OnboardingFails, P!SurfacePoll, P!SurfaceTimeout, P!Raise, P!browser
  <1>10. CASE P!MenuFails \/ P!NewTab \/ P!ClickAgainFails \/ P!LastTab \/ P!LastTabFails
    BY <1>10, TabsUnchanged
    DEF P!MenuFails, P!NewTab, P!ClickAgainFails, P!LastTab, P!LastTabFails, P!Raise, P!browser
  <1>11. CASE P!FormFound \/ P!NavigateTimeout
    BY <1>11, TabsUnchanged DEF P!FormFound, P!NavigateTimeout, P!Raise, P!browser
  <1>12. CASE P!FocusPinned \/ P!FocusPins \/ P!OfficeFound \/ P!OfficePoll \/ P!OfficeTimeout
    BY <1>12, TabsUnchanged
    DEF P!FocusPinned, P!FocusPins, P!OfficeFound, P!OfficePoll, P!OfficeTimeout, P!Raise, P!browser
  <1>13. CASE P!BeginLoad \/ P!LoadedAlready \/ P!InScope \/ P!PinLoaded \/ P!FieldSet \/ P!FieldFails
    BY <1>13, TabsUnchanged
    DEF P!BeginLoad, P!LoadedAlready, P!InScope, P!PinLoaded, P!FieldSet, P!FieldFails, P!Raise, P!browser
  <1> QED
    BY <1>1, <1>2, <1>3, <1>4, <1>5, <1>6, <1>7, <1>8, <1>9, <1>10, <1>11, <1>12, <1>13
    DEF P!Next, P!Automation, P!Queues, P!Menu, P!Navigation, P!Form

LEMMA PagesOpen ==
  ASSUME TabsOK, OpenPages, FormsRequested, [P!Next]_P!vars
  PROVE  OpenPages'
  <1>1. TabsKeep
    BY TabsStep
  <1>2. Len(tabs) \in Nat \ {0} /\ Len(tabs)' \in Nat \ {0} /\ P!Open \subseteq P!Open'
            /\ 0 \notin P!Open
    BY <1>1 DEF TabsKeep, TabsOK, P!Open
  <1>3. /\ \A p \in P!Open : P!Resolved(p) \subseteq P!Open
        /\ P!ScopePages \subseteq P!Open /\ P!Shown \subseteq P!Open
        /\ 1 \in P!Open
    BY ResolvedIsOpen, <1>2 DEF P!Shown, P!Open
  <1> USE <1>2 DEF OpenPages
  <1>4. ASSUME NEW p \in P!Open, P!Sync(p) PROVE exec' \in P!Open' /\ life' \in P!Open'
            /\ form' \in P!Open'
    BY <1>4 DEF P!Sync
  <1>5. ASSUME UNCHANGED <<P!pages, before>> PROVE OpenPages'
    BY <1>5 DEF P!pages
  <1>6. CASE P!StartStep
    BY <1>6, <1>3, <1>4 DEF P!StartStep, P!NewExecutor, P!pages
  <1>7. CASE P!ListReady
    BY <1>7, <1>4 DEF P!ListReady, P!OnList
  <1>8. CASE P!LaunchItem
    <2>1. Len(tabs') = Len(tabs) + 1 \/ UNCHANGED life
      BY <1>8, Opened DEF P!LaunchItem, P!Views
    <2>2. life' \in P!Open'
      BY <1>8, <2>1, <1>1 DEF P!LaunchItem, P!Open, TabsKeep
    <2> QED BY <1>8, <2>2 DEF P!LaunchItem, P!run
  <1>9. CASE P!NewTab \/ P!LastTab
    <2>1. life' \in P!Open' /\ before' = 0
      BY <1>9 DEF P!NewTab, P!LastTab, P!browser, P!Open
    <2> QED BY <1>9, <2>1 DEF P!NewTab, P!LastTab
  <1>10. CASE P!FormFound
    BY <1>10, <1>3, <1>4 DEF P!FormFound, P!run, P!Pass, P!Goto
  <1>11. CASE P!FocusPinned \/ P!FocusTab \/ P!FocusPins
    BY <1>11, <1>3 DEF P!FocusPinned, P!FocusTab, P!FocusPins, P!run
  <1>12. CASE P!OfficeFound
    BY <1>12, <1>3, <1>4 DEF P!OfficeFound, P!run
  <1>13. CASE P!OfficePoll
    BY <1>13, <1>3 DEF P!OfficePoll, P!run
  <1>14. CASE P!BeginLoad
    BY <1>14, <1>3 DEF P!BeginLoad, P!run
  <1>15. CASE P!InScope
    BY <1>15, <1>3 DEF P!InScope, P!run, P!Pass, P!Goto
  <1>16. CASE P!PinLoaded
    BY <1>16, <1>3 DEF P!PinLoaded, P!run
  <1>17. CASE P!ClickOption
    BY <1>17 DEF P!ClickOption, P!pages
  <1>18. CASE P!Retry
    BY <1>18 DEF P!Retry, P!pages
  <1>19. CASE P!Onboarding \/ P!OnboardingFails \/ P!SurfacePoll \/ P!SurfaceTimeout
            \/ P!ClickNewButton \/ P!OpenMenu
    BY <1>19 DEF P!Onboarding, P!OnboardingFails, P!SurfacePoll, P!SurfaceTimeout,
       P!ClickNewButton, P!OpenMenu, P!Raise, P!run, P!pages
  <1>20. CASE P!MenuFails \/ P!ClickAgain \/ P!ClickAgainFails \/ P!LastTabFails \/ P!NavigateTimeout
    BY <1>20 DEF P!MenuFails, P!ClickAgain, P!ClickAgainFails, P!LastTabFails, P!NavigateTimeout,
       P!Raise, P!run, P!pages
  <1>21. CASE P!OfficeTimeout \/ P!LoadedAlready \/ P!FieldSet \/ P!FieldFails
    BY <1>21 DEF P!OfficeTimeout, P!LoadedAlready, P!FieldSet, P!FieldFails, P!Raise, P!run, P!pages
  <1>22. CASE P!TabOpens \/ (\E p \in P!Open : P!FormLoads(p)) \/ UNCHANGED P!vars
    BY <1>22, <1>5 DEF P!TabOpens, P!FormLoads, P!vars, P!run
  <1>23. CASE P!Look
    BY <1>23, <1>3, <1>4 DEF P!Look, P!PinnedSeen, P!PinnedUnseen, P!SeekTab, P!run, P!pages
  <1>24. CASE P!NavigatePoll
    BY <1>24, <1>3 DEF P!NavigatePoll, P!run
  <1> QED
    BY <1>6, <1>7, <1>8, <1>9, <1>10, <1>11, <1>12, <1>13, <1>14, <1>15, <1>16, <1>17, <1>18,
       <1>19, <1>20, <1>21, <1>22, <1>23, <1>24
    DEF P!Next, P!Automation, P!Queues, P!Menu, P!Navigation, P!Form

\* The pinned page is a page of a request: what is pinned shows a form, or was pinned before, or
\* is the page the module is selected on.
LEMMA PinnedStays ==
  ASSUME TabsOK, OpenPages, FormsRequested, FocusRequested, P!PinnedHasRequest, [P!Next]_P!vars
  PROVE  P!PinnedHasRequest'
  <1>1. /\ \A q \in P!Open : tabs[q].request => tabs'[q].request
        /\ \A q \in P!Open : P!Visible(q) => tabs[q].request
    BY TabsStep DEF TabsKeep, FormsRequested, P!Visible
  <1>2. pinned \in P!Open \union {0} /\ form \in P!Open /\ 0 \notin P!Open
    BY DEF OpenPages, P!Open, TabsOK
  <1>3. ASSUME pinned' \in {0, pinned} PROVE P!PinnedHasRequest'
    BY <1>3, <1>1, <1>2 DEF P!PinnedHasRequest
  <1>4. ASSUME NEW q \in P!Open, pinned' = q, P!Visible(q) PROVE P!PinnedHasRequest'
    BY <1>4, <1>1 DEF P!PinnedHasRequest
  <1>5. CASE P!StartStep
    BY <1>5, <1>3 DEF P!StartStep, P!NewExecutor, P!pages
  <1>6. CASE P!Look
    <2>1. pinned' = pinned \/ \E p \in P!Shown : pinned' = p
      BY <1>6 DEF P!Look, P!PinnedSeen, P!PinnedUnseen, P!SeekTab, P!pages
    <2> QED BY <2>1, <1>3, <1>4 DEF P!Shown
  <1>7. CASE P!FocusPinned \/ P!FocusTab \/ P!BeginLoad
    BY <1>7, <1>3 DEF P!FocusPinned, P!FocusTab, P!BeginLoad
  <1>8. CASE P!FocusPins
    <2>1. pinned' = pinned \/ (pinned' = form /\ (P!Visible(form) \/ (op = "module" /\ pc = "pins")))
      BY <1>8 DEF P!FocusPins
    <2>2. op = "module" /\ pc = "pins" => tabs[form].request
      BY DEF FocusRequested, FocusPlaces
    <2> QED BY <2>1, <2>2, <1>1, <1>2, <1>3 DEF P!PinnedHasRequest
  <1>9. CASE P!PinLoaded
    <2>1. pinned' = pinned \/ \E p \in P!Shown : pinned' = p
      BY <1>9 DEF P!PinLoaded
    <2> QED BY <2>1, <1>3, <1>4 DEF P!Shown
  <1>12. CASE P!Retry \/ P!Queues \/ P!NavigatePoll \/ P!NavigateTimeout \/ P!FormFound
    BY <1>12, <1>3
    DEF P!Retry, P!Queues, P!ListReady, P!LaunchItem, P!Onboarding, P!OnboardingFails, P!SurfacePoll,
       P!SurfaceTimeout, P!NavigatePoll, P!NavigateTimeout, P!FormFound, P!Raise, P!pages
  <1>13. CASE P!Menu
    BY <1>13, <1>3
    DEF P!Menu, P!ClickNewButton, P!OpenMenu, P!MenuFails, P!ClickOption, P!NewTab, P!ClickAgain,
       P!ClickAgainFails, P!LastTab, P!LastTabFails, P!Raise, P!pages
  <1>14. CASE P!OfficeFound \/ P!OfficePoll \/ P!OfficeTimeout \/ P!LoadedAlready \/ P!InScope
            \/ P!FieldSet \/ P!FieldFails
    BY <1>14, <1>3 DEF P!OfficeFound, P!OfficePoll, P!OfficeTimeout, P!LoadedAlready, P!InScope,
       P!FieldSet, P!FieldFails,
       P!Raise, P!pages
  <1>15. CASE P!TabOpens \/ (\E p \in P!Open : P!FormLoads(p)) \/ UNCHANGED P!vars
    BY <1>15, <1>3 DEF P!TabOpens, P!FormLoads, P!vars, P!pages
  <1> QED
    BY <1>5, <1>6, <1>7, <1>8, <1>9, <1>12, <1>13, <1>14, <1>15
    DEF P!Next, P!Automation, P!Navigation, P!Form

\* Where a place of the step begins.
LEMMA FirstPlaces ==
  ASSUME NEW a \in P!Actions
  PROVE  /\ P!FirstPlace(a) \notin {"look", "tabs", "find", "pins", "pin"}
         /\ P!FirstPlace(a) = "scope" => a = "act"
         /\ P!FirstPlace(a) = "focus" => a = "office"
         /\ P!FirstPlace(a) = "load" => a = "load"
         /\ P!FirstPlace(a) # "wait"
         /\ P!FirstPlace(a) \in ListPlaces => a # "load"
  BY DEF P!FirstPlace, P!Actions, ListPlaces

\* The module is selected on the page a form was found in.
LEMMA FocusStays ==
  ASSUME TabsOK, OpenPages, FormsRequested, FocusRequested, P!PinnedHasRequest, PlaceOfStep,
         op \in P!Actions, [P!Next]_P!vars
  PROVE  FocusRequested'
  <1>1. /\ \A q \in P!Open : tabs[q].request => tabs'[q].request
        /\ \A q \in P!Open : P!Visible(q) => tabs[q].request
    BY TabsStep DEF TabsKeep, FormsRequested, P!Visible
  <1> USE DEF FocusPlaces
  <1>2. ASSUME pc' \notin FocusPlaces \/ op' # "module" PROVE FocusRequested'
    BY <1>2 DEF FocusRequested
  <1>3. ASSUME UNCHANGED <<op, form>>, pc \in FocusPlaces \/ pc' = pc PROVE FocusRequested'
    BY <1>3, <1>1 DEF FocusRequested, OpenPages
  <1>4. CASE P!FormFound
    <2>1. PICK p \in P!Shown : pc' # "focus" \/ form' = p
      BY <1>4 DEF P!FormFound, P!Sync, P!Pass, P!Goto
    <2>2. pc' \in {"focus", "idle"} /\ p \in P!Open /\ P!Visible(p)
      BY <1>4 DEF P!FormFound, P!Pass, P!Goto, P!Shown
    <2> QED BY <2>1, <2>2, <1>1 DEF FocusRequested
  <1>5. CASE P!StartStep \/ P!PinnedUnseen
    BY <1>5, <1>2 DEF P!StartStep, P!PinnedUnseen, P!Goto
  <1>6. CASE P!Retry \/ P!PinnedSeen \/ P!SeekTab
    <2>1. pc' \in {P!FirstPlace(op), "idle"} /\ UNCHANGED op
      BY <1>6 DEF P!Retry, P!PinnedSeen, P!SeekTab, P!Goto, P!run
    <2> QED BY <2>1, <1>2, FirstPlaces
  <1>7. CASE P!Queues
    BY <1>7, <1>2
    DEF P!Queues, P!ListReady, P!LaunchItem, P!Onboarding, P!OnboardingFails, P!SurfacePoll,
       P!SurfaceTimeout, P!Raise, P!Goto, P!OnList, P!Pass, P!Launched, P!Again
  <1>8. CASE P!Menu
    BY <1>8, <1>2
    DEF P!Menu, P!ClickNewButton, P!OpenMenu, P!MenuFails, P!ClickOption, P!NewTab, P!ClickAgain,
       P!ClickAgainFails, P!LastTab, P!LastTabFails, P!Raise, P!Goto, P!Pass
  <1>9. CASE P!NavigatePoll \/ P!NavigateTimeout
    BY <1>9, <1>2 DEF P!NavigatePoll, P!NavigateTimeout, P!Raise, P!Goto, P!Again
  <1>10. CASE P!FocusPinned \/ P!FocusTab
    <2>1. /\ pc \in FocusPlaces /\ UNCHANGED <<op, pinned>>
          /\ form' \in {form} \union P!Shown \/ (form' = pinned /\ pinned # 0)
      BY <1>10 DEF P!FocusPinned, P!FocusTab, P!Resolved, P!run
    <2>2. pinned # 0 => tabs[pinned].request
      BY DEF P!PinnedHasRequest
    <2>3. op = "module" => tabs[form].request
      BY <2>1 DEF FocusRequested
    <2>4. op = "module" => tabs[form'].request /\ form' \in P!Open
      BY <2>1, <2>2, <2>3, <1>1 DEF P!Shown, OpenPages, P!Open, TabsOK
    <2> QED BY <2>1, <2>4, <1>1 DEF FocusRequested
  <1>12. CASE P!FocusPins \/ P!BeginLoad \/ P!OfficePoll
    <2>1. UNCHANGED op /\ (op = "module" => pc' \notin FocusPlaces)
      BY <1>12 DEF PlaceOfStep, P!FocusPins, P!Focused, P!BeginLoad, P!OfficePoll, P!Pass, P!Goto, P!run
    <2> QED BY <2>1, <1>2
  <1>13. CASE P!OfficeFound \/ P!OfficeTimeout \/ P!LoadedAlready \/ P!InScope \/ P!PinLoaded
            \/ P!FieldSet \/ P!FieldFails
    BY <1>13, <1>2 DEF P!OfficeFound, P!OfficeTimeout, P!LoadedAlready, P!InScope, P!PinLoaded,
       P!FieldSet, P!FieldFails, P!Raise, P!Goto, P!Pass
  <1>11. CASE P!TabOpens \/ (\E p \in P!Open : P!FormLoads(p)) \/ UNCHANGED P!vars
    BY <1>11, <1>3 DEF P!TabOpens, P!FormLoads, P!vars, P!pages, P!run
  <1> QED
    BY <1>4, <1>5, <1>6, <1>7, <1>8, <1>9, <1>10, <1>11, <1>12, <1>13
    DEF P!Next, P!Automation, P!Look, P!Navigation, P!Form

\* The step is one of those there are, and is where it can be.
LEMMA StepKnown ==
  ASSUME PlaceOfStep, op \in P!Actions, [P!Next]_P!vars
  PROVE  op' \in P!Actions /\ PlaceOfStep'
  <1> DEFINE Goal == op' \in P!Actions /\ PlaceOfStep'
  <1> USE DEF ListPlaces
  <1>1. ASSUME UNCHANGED op,
               pc' = pc \/ (pc' \notin {"wait", "load", "pin"} /\ (pc' \in ListPlaces => pc \in ListPlaces))
        PROVE  Goal
    BY <1>1 DEF PlaceOfStep
  <1>2. CASE P!StartStep
    BY <1>2 DEF P!StartStep, P!Goto, PlaceOfStep
  <1>3. CASE P!Retry \/ P!PinnedSeen \/ P!SeekTab
    <2>1. pc' \in {P!FirstPlace(op), "idle"} /\ UNCHANGED op
      BY <1>3 DEF P!Retry, P!PinnedSeen, P!SeekTab, P!Goto, P!run
    <2> QED BY <2>1, FirstPlaces DEF PlaceOfStep
  <1>4. CASE P!PinnedUnseen
    BY <1>4, <1>1 DEF P!PinnedUnseen, P!run
  <1>5. CASE P!Queues
    BY <1>5, <1>1
    DEF P!Queues, P!ListReady, P!LaunchItem, P!Onboarding, P!OnboardingFails, P!SurfacePoll,
       P!SurfaceTimeout, P!Raise, P!Goto, P!OnList, P!Pass, P!Launched, P!Again, P!run, P!Stays
  <1>6. CASE P!Menu
    BY <1>6, <1>1
    DEF P!Menu, P!ClickNewButton, P!OpenMenu, P!MenuFails, P!ClickOption, P!NewTab, P!ClickAgain,
       P!ClickAgainFails, P!LastTab, P!LastTabFails, P!Raise, P!Goto, P!Pass, P!run, P!Stays
  <1>7. CASE P!Navigation
    BY <1>7, <1>1
    DEF P!Navigation, P!FormFound, P!NavigatePoll, P!NavigateTimeout, P!Raise, P!Goto, P!Again, P!Pass,
       P!run, P!Stays
  <1>8. CASE P!FocusPinned \/ P!FocusTab \/ P!FocusPins
    <2>1. UNCHANGED op /\ (pc' \in {"idle", "scope", "find", "pins"} \/ (pc' = "wait" /\ op = "office"))
      BY <1>8 DEF P!FocusPinned, P!FocusTab, P!FocusPins, P!Focused, P!Pass, P!Goto, P!run
    <2> QED BY <2>1 DEF PlaceOfStep
  <1>9. CASE P!InScope
    <2>1. UNCHANGED op /\ (pc' \in {"idle", "raised"} \/ (pc' = "pin" /\ op = "load"))
      BY <1>9 DEF P!InScope, P!Pass, P!Goto, P!run
    <2> QED BY <2>1 DEF PlaceOfStep
  <1>10. CASE P!OfficeFound \/ P!OfficePoll \/ P!OfficeTimeout \/ P!BeginLoad
    BY <1>10, <1>1 DEF P!OfficeFound, P!OfficePoll, P!OfficeTimeout, P!BeginLoad, P!Raise, P!Goto,
       P!Pass, P!run, P!Stays, PlaceOfStep
  <1>11. CASE P!LoadedAlready \/ P!PinLoaded \/ P!FieldSet \/ P!FieldFails
    BY <1>11, <1>1 DEF P!LoadedAlready, P!PinLoaded, P!FieldSet, P!FieldFails, P!Raise, P!Goto, P!Pass,
       P!run, P!Stays
  <1>12. CASE P!TabOpens \/ (\E p \in P!Open : P!FormLoads(p)) \/ UNCHANGED P!vars
    BY <1>12, <1>1 DEF P!TabOpens, P!FormLoads, P!vars, P!run
  <1> QED
    BY <1>2, <1>3, <1>4, <1>5, <1>6, <1>7, <1>8, <1>9, <1>10, <1>11, <1>12
    DEF P!Next, P!Automation, P!Look, P!Form

\* A load looks for its scope on the pinned page, if one is pinned, and pins what it found.
LEMMA LoadStays ==
  ASSUME TabsOK, OpenPages, LoadOnPinned, PlaceOfStep, op \in P!Actions, [P!Next]_P!vars
  PROVE  LoadOnPinned'
  <1> USE DEF LoadOnPinned, FocusPlaces
  <1>1. ASSUME pc' \notin {"scope", "pin", "focus", "find", "pins"} PROVE LoadOnPinned'
    BY <1>1
  <1>2. ASSUME UNCHANGED <<pc, op, pinned, form>> PROVE LoadOnPinned'
    BY <1>2
  <1>3. CASE P!StartStep \/ P!PinnedUnseen
    BY <1>3, <1>1 DEF P!StartStep, P!PinnedUnseen, P!Goto
  <1>4. CASE P!Retry \/ P!PinnedSeen \/ P!SeekTab
    <2>1. pc' \in {P!FirstPlace(op), "idle"} /\ UNCHANGED op
      BY <1>4 DEF P!Retry, P!PinnedSeen, P!SeekTab, P!Goto, P!run
    <2> QED BY <2>1, FirstPlaces
  <1>5. CASE P!BeginLoad
    BY <1>5 DEF P!BeginLoad, P!Goto, P!run
  <1>6. CASE P!InScope
    <2>1. pc = "scope" /\ UNCHANGED <<op, pinned>>
      BY <1>6 DEF P!InScope, P!run
    <2>2. pc' \in {"pin", "idle", "raised"}
      BY <1>6 DEF P!InScope, P!Pass, P!Goto
    <2>3. op = "load" /\ pinned # 0 => form' = pinned
      BY <1>6, <2>1 DEF P!InScope, P!ScopePages
    <2> QED BY <2>1, <2>2, <2>3
  <1>7. CASE P!FocusPinned \/ P!FocusTab
    <2>1. pc \in FocusPlaces /\ UNCHANGED <<op, pinned>>
          /\ (pinned = 0 => pc' \notin {"scope", "pin"} \/ op # "load")
      BY <1>7 DEF P!FocusPinned, P!FocusTab, P!run
    <2>2. op = "load" => pinned = 0 /\ pinned' = 0
      BY <2>1
    <2> QED BY <2>1, <2>2
  <1>8. CASE P!FocusPins
    <2>1. /\ pc = "pins" /\ UNCHANGED <<op, form>> /\ pinned' \in {form, pinned}
          /\ pc' \in {"idle", "wait", "scope"}
      BY <1>8 DEF P!FocusPins, P!Focused, P!Pass, P!Goto, P!run
    <2> QED BY <2>1
  <1>9. CASE P!Navigation
    <2>1. op # "load" /\ UNCHANGED op
      BY <1>9 DEF P!Navigation, P!FormFound, P!NavigatePoll, P!NavigateTimeout, P!Raise, P!run,
         P!Stays, PlaceOfStep, ListPlaces
    <2> QED BY <2>1
  <1>10. CASE P!Queues
    BY <1>10, <1>1
    DEF P!Queues, P!ListReady, P!LaunchItem, P!Onboarding, P!OnboardingFails, P!SurfacePoll,
       P!SurfaceTimeout, P!Raise, P!Goto, P!OnList, P!Pass, P!Launched, P!Again
  <1>11. CASE P!Menu
    BY <1>11, <1>1
    DEF P!Menu, P!ClickNewButton, P!OpenMenu, P!MenuFails, P!ClickOption, P!NewTab, P!ClickAgain,
       P!ClickAgainFails, P!LastTab, P!LastTabFails, P!Raise, P!Goto, P!Pass
  <1>12. CASE P!OfficePoll
    BY <1>12 DEF P!OfficePoll, P!run, PlaceOfStep
  <1>13. CASE P!OfficeFound \/ P!OfficeTimeout \/ P!LoadedAlready \/ P!PinLoaded \/ P!FieldSet
            \/ P!FieldFails
    BY <1>13, <1>1 DEF P!OfficeFound, P!OfficeTimeout, P!LoadedAlready, P!PinLoaded, P!FieldSet,
       P!FieldFails, P!Raise, P!Goto, P!Pass
  <1>14. CASE P!TabOpens \/ (\E p \in P!Open : P!FormLoads(p)) \/ UNCHANGED P!vars
    BY <1>14, <1>2 DEF P!TabOpens, P!FormLoads, P!vars, P!pages, P!run
  <1> QED
    BY <1>3, <1>4, <1>5, <1>6, <1>7, <1>8, <1>9, <1>10, <1>11, <1>12, <1>13, <1>14
    DEF P!Next, P!Automation, P!Look, P!Form

\* Another tab is looked for only after a look at the pinned one that saw no form.
LEMMA SeekStays ==
  ASSUME SeeksAnother, op \in P!Actions, [P!Next]_P!vars
  PROVE  SeeksAnother'
  <1> USE DEF SeeksAnother
  <1>1. ASSUME pc' \notin {"tabs", "find", "pins"} PROVE SeeksAnother'
    BY <1>1
  <1>2. ASSUME UNCHANGED <<pinned, lost>>, pc \in {"tabs", "find", "pins"} \/ pc' = pc PROVE SeeksAnother'
    BY <1>2
  <1>3. CASE P!StartStep
    BY <1>3, <1>1 DEF P!StartStep, P!Goto
  <1>4. CASE P!Retry \/ P!PinnedSeen \/ P!SeekTab
    <2>1. pc' \in {P!FirstPlace(op), "idle"}
      BY <1>4 DEF P!Retry, P!PinnedSeen, P!SeekTab, P!Goto
    <2> QED BY <2>1, FirstPlaces
  <1>5. CASE P!PinnedUnseen \/ P!FocusPinned
    <2>1. UNCHANGED pinned
      BY <1>5 DEF P!PinnedUnseen, P!FocusPinned, P!pages
    <2>2. pc' \notin {"tabs", "find", "pins"} \/ lost' = (pinned # 0)
      BY <1>5 DEF P!PinnedUnseen, P!FocusPinned, P!Focused, P!Pass, P!Goto
    <2> QED BY <2>1, <2>2
  <1>6. CASE P!FocusTab
    BY <1>6 DEF P!FocusTab
  <1>7. CASE P!FocusPins
    BY <1>7, <1>1 DEF P!FocusPins, P!Focused, P!Pass, P!Goto
  <1>8. CASE P!Queues
    BY <1>8, <1>1
    DEF P!Queues, P!ListReady, P!LaunchItem, P!Onboarding, P!OnboardingFails, P!SurfacePoll,
       P!SurfaceTimeout, P!Raise, P!Goto, P!OnList, P!Pass, P!Launched, P!Again
  <1>9. CASE P!Menu
    BY <1>9, <1>1
    DEF P!Menu, P!ClickNewButton, P!OpenMenu, P!MenuFails, P!ClickOption, P!NewTab, P!ClickAgain,
       P!ClickAgainFails, P!LastTab, P!LastTabFails, P!Raise, P!Goto, P!Pass
  <1>10. CASE P!Navigation
    BY <1>10, <1>1
    DEF P!Navigation, P!FormFound, P!NavigatePoll, P!NavigateTimeout, P!Raise, P!Goto, P!Again, P!Pass
  <1>11. CASE P!OfficeFound \/ P!OfficePoll \/ P!OfficeTimeout \/ P!BeginLoad
    BY <1>11, <1>1 DEF P!OfficeFound, P!OfficePoll, P!OfficeTimeout, P!BeginLoad, P!Raise, P!Goto, P!Pass
  <1>12. CASE P!LoadedAlready \/ P!InScope \/ P!PinLoaded \/ P!FieldSet \/ P!FieldFails
    BY <1>12, <1>1 DEF P!LoadedAlready, P!InScope, P!PinLoaded, P!FieldSet, P!FieldFails, P!Raise, P!Goto,
       P!Pass
  <1>13. CASE P!TabOpens \/ (\E p \in P!Open : P!FormLoads(p)) \/ UNCHANGED P!vars
    BY <1>13, <1>2 DEF P!TabOpens, P!FormLoads, P!vars, P!pages
  <1> QED
    BY <1>3, <1>4, <1>5, <1>6, <1>7, <1>8, <1>9, <1>10, <1>11, <1>12, <1>13
    DEF P!Next, P!Automation, P!Look, P!Form

LEMMA PinStep ==
  ASSUME PinInv, [P!Next]_P!vars
  PROVE  PinInv'
  <1>1. TabsOK' /\ FormsRequested' /\ OpenPages' /\ P!PinnedHasRequest'
    BY TabsStep, PagesOpen, PinnedStays DEF PinInv, TabsKeep
  <1>2. FocusRequested' /\ op' \in P!Actions /\ PlaceOfStep' /\ LoadOnPinned' /\ SeeksAnother'
    BY FocusStays, StepKnown, LoadStays, SeekStays DEF PinInv
  <1> QED BY <1>1, <1>2 DEF PinInv

\* What moves the pin follows a look at the pinned tab that saw no form, but for the end of a load:
\* there the page is the pinned one already.
LEMMA PinMoves ==
  ASSUME PinInv, [P!Next]_P!vars, pinned # 0, pinned' \notin {pinned, 0}
  PROVE  lost
  <1>1. TabsOK /\ OpenPages /\ LoadOnPinned /\ PlaceOfStep /\ SeeksAnother
    BY DEF PinInv
  <1>2. CASE P!StartStep
    BY <1>2 DEF P!StartStep, P!NewExecutor, P!pages
  <1>3. CASE P!Look
    BY <1>1, <1>3 DEF P!Look, P!PinnedSeen, P!PinnedUnseen, P!SeekTab, P!pages, SeeksAnother
  <1>4. CASE P!FocusPinned \/ P!FocusTab \/ P!FocusPins \/ P!BeginLoad
    BY <1>1, <1>4 DEF P!FocusPinned, P!FocusTab, P!FocusPins, P!BeginLoad, SeeksAnother
  <1>5. CASE P!PinLoaded
    <2>1. op = "load" /\ pc = "pin" /\ form = pinned
      BY <1>1, <1>5 DEF P!PinLoaded, PlaceOfStep, LoadOnPinned
    <2> QED BY <2>1, <1>5 DEF P!PinLoaded
  <1>6. CASE P!Retry \/ P!Queues \/ P!Navigation
    BY <1>6 DEF P!Retry, P!Queues, P!ListReady, P!LaunchItem, P!Onboarding, P!OnboardingFails,
       P!SurfacePoll,
       P!SurfaceTimeout, P!Navigation, P!NavigatePoll, P!NavigateTimeout, P!FormFound, P!Raise, P!pages
  <1>7. CASE P!Menu
    BY <1>7 DEF P!Menu, P!ClickNewButton, P!OpenMenu, P!MenuFails, P!ClickOption, P!NewTab,
       P!ClickAgain,
       P!ClickAgainFails, P!LastTab, P!LastTabFails, P!Raise, P!pages
  <1>8. CASE P!OfficeFound \/ P!OfficePoll \/ P!OfficeTimeout \/ P!LoadedAlready \/ P!InScope
            \/ P!FieldSet \/ P!FieldFails
    BY <1>8 DEF P!OfficeFound, P!OfficePoll, P!OfficeTimeout, P!LoadedAlready, P!InScope, P!FieldSet,
       P!FieldFails,
       P!Raise, P!pages
  <1>9. CASE P!TabOpens \/ (\E p \in P!Open : P!FormLoads(p)) \/ UNCHANGED P!vars
    BY <1>9 DEF P!TabOpens, P!FormLoads, P!vars, P!pages
  <1> QED
    BY <1>2, <1>3, <1>4, <1>5, <1>6, <1>7, <1>8, <1>9 DEF P!Next, P!Automation, P!Form

-----------------------------------------------------------------------------
(* FormFill: the requests a submission creates.                            *)

\* The requests there are and those that may still come of clicks: one more than the judgements
\* made too early or too late, and that one only from a click until the next of them.
ClicksOK ==
  /\ created \in Nat /\ pending \in Nat /\ unsure \in Nat
  /\ created + pending <= 1 + unsure
  /\ pc \notin {"idle", "outcome"} => created + pending <= unsure
  /\ pc = "outcome" /\ pending = 0 => created <= unsure \/ answer = "created"

LEMMA FillInit == F!Init => ClicksOK
  BY DEF F!Init, ClicksOK

\* A step that does not touch the clicks and judges nothing.
LEMMA NoClick ==
  ASSUME ClicksOK, UNCHANGED <<pending, created, unsure>>,
         pc' = "idle" \/ (pc \notin {"idle", "outcome"} /\ pc' # "outcome")
  PROVE  ClicksOK'
  BY DEF ClicksOK

\* A judgement: a click that is not answered makes it too early; one that was answered created
\* nothing, since the answer is still shown, or was counted when it went.
LEMMA Judged ==
  ASSUME ClicksOK, pc = "outcome", ~F!ReadsSuccess, UNCHANGED <<pending, created>>,
         unsure' = unsure + (IF pending > 0 THEN 1 ELSE 0)
  PROVE  ClicksOK'
  <1>1. CASE pending = 0
    BY <1>1 DEF ClicksOK, F!ReadsSuccess
  <1>2. CASE pending > 0
    BY <1>2 DEF ClicksOK
  <1> QED BY <1>1, <1>2 DEF ClicksOK

LEMMA FillStep ==
  ASSUME ClicksOK, [F!Next]_F!vars
  PROVE  ClicksOK'
  <1>1. CASE F!AnswerSubmit
    <2>1. pending' = pending - 1 /\ pending > 0 /\ UNCHANGED <<pc, unsure>>
      BY <1>1 DEF F!AnswerSubmit
    <2>2. \/ created' = created + 1 /\ answer' = "created"
          \/ created' = created
      BY <1>1 DEF F!AnswerSubmit
    <2> QED BY <2>1, <2>2 DEF ClicksOK
  <1>2. CASE F!FadeAnswer
    BY <1>2 DEF F!FadeAnswer, ClicksOK
  <1>3. CASE F!NewForm
    BY <1>3 DEF F!NewForm, F!past, ClicksOK
  <1>4. CASE F!StartStep
    BY <1>4 DEF F!StartStep, F!form, ClicksOK
  <1>5. CASE F!Retry
    <2>1. UNCHANGED <<pending, created, unsure>> /\ pc = "raised"
      BY <1>5 DEF F!Retry, F!Repeat, F!Done, F!form, F!past
    <2> QED BY <2>1 DEF ClicksOK
  <1>6. CASE F!SetField
    <2> USE DEF F!Assign, F!Returned, F!SetRaised, F!NextField, F!Done, F!Raise, F!Goto, F!form, F!past
    <2>1. CASE F!ResolveByHint \/ F!ResolveByProbe \/ F!ResolveByLabel \/ F!SetPrimary
      BY <2>1, NoClick DEF F!ResolveByHint, F!ResolveByProbe, F!ResolveByLabel, F!SetPrimary
    <2>2. CASE F!SetText \/ F!SetToggle \/ F!SetSelect \/ F!TypeLookup \/ F!OpenPicklist
      BY <2>2, NoClick DEF F!SetText, F!SetToggle, F!SetSelect, F!TypeLookup, F!OpenPicklist
    <2>3. CASE F!NoOptions \/ F!PickOption \/ F!PickFromSelect
      BY <2>3, NoClick DEF F!NoOptions, F!PickOption, F!PickFromSelect
    <2> QED BY <1>6, <2>1, <2>2, <2>3 DEF F!SetField
  <1>7. CASE F!PickOffice
    BY <1>7, NoClick
    DEF F!PickOffice, F!OfficeByScript, F!OfficeByMouse, F!OfficeByModel, F!ClickOffice,
       F!Done, F!Raise, F!Goto, F!form, F!past
  <1>8. CASE F!Reads \/ F!SaveDraft
    BY <1>8, NoClick
    DEF F!Reads, F!CheckField, F!ReadToast, F!AssertQuiet, F!AssertCreated, F!SaveDraft,
       F!Done, F!Raise, F!Goto, F!form, F!past
  <1>9. CASE F!BeginSubmit \/ F!FillField \/ F!FillTabFails \/ F!FillDone \/ F!OutcomeSuccess
    BY <1>9, NoClick DEF F!BeginSubmit, F!FillField, F!FillTabFails, F!FillDone, F!OutcomeSuccess,
       F!Done, F!Raise, F!Goto, F!form, F!past
  <1>10. CASE F!ClickSubmit
    <2>1. pc = "click" /\ UNCHANGED <<created, unsure>>
      BY <1>10 DEF F!ClickSubmit, F!Raise, F!Goto, F!past
    <2>2. \/ pending' = pending + 1 /\ pc' = "outcome"
          \/ pending' = pending /\ pc' = "raised"
      BY <1>10 DEF F!ClickSubmit, F!Raise, F!Goto, F!form
    <2> QED BY <2>1, <2>2 DEF ClicksOK
  <1>11. CASE F!OutcomeMissing \/ F!OutcomeUnknown
    BY <1>11, Judged DEF F!OutcomeMissing, F!OutcomeUnknown, F!form
  <1>12. CASE UNCHANGED F!vars
    BY <1>12 DEF F!vars, F!form, F!past, ClicksOK
  <1> QED
    BY <1>1, <1>2, <1>3, <1>4, <1>5, <1>6, <1>7, <1>8, <1>9, <1>10, <1>11, <1>12
    DEF F!Next, F!Application, F!Automation, F!Submit

-----------------------------------------------------------------------------
(* LoginAs: the user the browser is brought to.                            *)

\* What a tab can show.
TabPages == [at : I!Views, of : Users \union {Nobody}, as : Users \union {Admin, Nobody}]

\* The tabs, the one the executor is on, and the one that impersonates.
BrowserOK == /\ tabs \in Seq(TabPages) /\ Len(tabs) \in Nat
             /\ cur \in 1..Len(tabs) /\ imp \in 0..Len(tabs)
             /\ session \in Users \union {Admin, Nobody}

\* A step "login" and a login_as take different ways.
WaysOK == /\ want \in Users \union {Admin}
          /\ pc = "login" => want = Admin
          /\ pc \in {"begin", "open", "surface", "click", "ready"} => want \in Users
          /\ pc \in {"surface", "click", "ready"} => imp # 0

\* What is looked at after the click was loaded by the session there is, or was before it ended.
ReadyIsCurrent == pc = "ready" => session \in {tabs[imp].as, Nobody}

\* Together they are inductive.
LoginInv == BrowserOK /\ WaysOK /\ ReadyIsCurrent

\* What the server answers.
LEMMA Served ==
  ASSUME I!LoginAssumption, BrowserOK, NEW at \in I!Views, NEW of \in Users \union {Nobody}
  PROVE  I!Serve(at, of) \in TabPages /\ I!Serve(at, of).as = session
  BY DEF I!Serve, I!Page, TabPages, I!Views, BrowserOK

\* A tab shows another page.
LEMMA Shows ==
  ASSUME BrowserOK, NEW t \in 1..Len(tabs), NEW g \in TabPages, tabs' = [tabs EXCEPT ![t] = g]
  PROVE  /\ tabs' \in Seq(TabPages) /\ Len(tabs)' = Len(tabs)
         /\ tabs'[t] = g
  BY DEF BrowserOK

\* A tab is opened.
LEMMA TabAdded ==
  ASSUME BrowserOK, NEW g \in TabPages, tabs' = Append(tabs, g)
  PROVE  tabs' \in Seq(TabPages) /\ Len(tabs)' = Len(tabs) + 1
  BY DEF BrowserOK

LEMMA LoginInit == I!LoginAssumption /\ I!Init => LoginInv
  <1> SUFFICES ASSUME I!LoginAssumption, I!Init PROVE LoginInv
    OBVIOUS
  <1> DEFINE g == I!Serve("app", Nobody)
  <1>1. g \in TabPages /\ tabs = <<g>>
    BY DEF I!Serve, I!Page, TabPages, I!Views, I!Init
  <1> HIDE DEF g
  <1>2. tabs \in Seq(TabPages) /\ Len(tabs) = 1
    BY <1>1
  <1> QED
    BY <1>2 DEF I!Init, LoginInv, BrowserOK, WaysOK, ReadyIsCurrent

\* Nothing is loaded, and the step is not at the banner.
LEMMA NothingLoaded ==
  ASSUME LoginInv, UNCHANGED <<session, tabs, cur>>, imp' \in {imp, 0}, pc' # "ready"
  PROVE  BrowserOK' /\ ReadyIsCurrent'
  BY DEF LoginInv, BrowserOK, ReadyIsCurrent

\* Setup, a record, the classic page: what the resolver's tab shows on the way to the button.
LEMMA OnTheWay ==
  ASSUME I!LoginAssumption, LoginInv, imp # 0,
         NEW at \in I!Views, NEW of \in Users \union {Nobody},
         I!Show(imp, I!Serve(at, of)), UNCHANGED <<cur, imp>>
  PROVE  BrowserOK' /\ ReadyIsCurrent'
  <1> DEFINE g == I!Serve(at, of)
  <1>1. g \in TabPages /\ g.as = session
    BY Served DEF LoginInv
  <1>2. tabs' = [tabs EXCEPT ![imp] = g] /\ UNCHANGED session /\ imp \in 1..Len(tabs)
    BY DEF I!Show, LoginInv, BrowserOK
  <1> HIDE DEF g
  <1>3. tabs' \in Seq(TabPages) /\ Len(tabs)' = Len(tabs) /\ tabs'[imp] = g
    BY <1>1, <1>2, Shows DEF LoginInv
  <1> QED BY <1>1, <1>2, <1>3 DEF LoginInv, BrowserOK, ReadyIsCurrent

\* A step keeps to its way.
LEMMA WaysKept ==
  ASSUME I!LoginAssumption, LoginInv, [I!Next]_I!vars
  PROVE  WaysOK'
  <1> USE DEF WaysOK
  <1>1. WaysOK /\ Len(tabs) \in Nat /\ \A g : tabs' = Append(tabs, g) => Len(tabs') = Len(tabs) + 1
    BY DEF LoginInv, BrowserOK
  <1>2. CASE I!StartStep
    BY <1>2 DEF I!StartStep, I!Goto
  <1>3. CASE I!Retry
    BY <1>1, <1>3 DEF I!Retry, I!Goto
  <1>4. CASE I!Expire \/ I!Browse \/ UNCHANGED I!vars
    BY <1>1, <1>4 DEF I!Expire, I!Browse, I!vars, I!run
  <1>5. CASE I!LoggedIn \/ I!LoginAdmin \/ I!LoginFails \/ I!SkipLogin \/ I!Resolve \/ I!ResolveFails
    BY <1>1, <1>5 DEF I!LoggedIn, I!LoginAdmin, I!LoginFails, I!SkipLogin, I!Resolve, I!ResolveFails,
       I!Raise, I!Same, I!Goto, I!run
  <1>6. CASE I!OpenRecord \/ I!OpenTimeout
    <2>1. UNCHANGED want /\ pc = "open" /\ pc' \in {"surface", "open", "raised"}
      BY <1>6 DEF I!OpenRecord, I!OpenTimeout, I!Again, I!Goto, I!run
    <2>2. imp' = Len(tabs) + 1
      BY <1>6, <1>1 DEF I!OpenRecord, I!OpenTimeout
    <2> QED BY <1>1, <2>1, <2>2
  <1>7. CASE I!OpenFails \/ I!SurfaceFound \/ I!UserDetail \/ I!GlobalSearch \/ I!ClassicUrl
            \/ I!SurfacePoll \/ I!SurfaceTimeout
    BY <1>1, <1>7
    DEF I!OpenFails, I!SurfaceFound, I!UserDetail, I!GlobalSearch, I!ClassicUrl, I!SurfacePoll,
       I!SurfaceTimeout, I!Raise, I!Same, I!Goto, I!Again, I!run
  <1>8. CASE I!ClickUserDetail \/ I!ClickLogin \/ I!ClickElsewhere \/ I!ClickPoll \/ I!ClickTimeout
    BY <1>1, <1>8 DEF I!ClickUserDetail, I!ClickLogin, I!ClickElsewhere, I!ClickPoll, I!ClickTimeout,
       I!Raise, I!Same,
       I!Goto, I!Again, I!run
  <1>9. CASE I!Ready \/ I!NotReady \/ I!ReadyTimeout
    BY <1>1, <1>9 DEF I!Ready, I!NotReady, I!ReadyTimeout, I!Raise, I!Same, I!Goto, I!Again, I!run
  <1> QED
    BY <1>2, <1>3, <1>4, <1>5, <1>6, <1>7, <1>8, <1>9 DEF I!Next, I!Automation

\* A tab is opened, the executor's or the resolver's.
LEMMA RecordOpened ==
  ASSUME I!LoginAssumption, LoginInv, NEW g \in TabPages,
         tabs' = Append(tabs, g), UNCHANGED session, pc' # "ready",
         cur' \in {cur, Len(tabs')}, imp' \in {imp, Len(tabs')}
  PROVE  BrowserOK' /\ ReadyIsCurrent'
  <1>1. tabs' \in Seq(TabPages) /\ Len(tabs)' = Len(tabs) + 1
    BY TabAdded DEF LoginInv
  <1> QED BY <1>1 DEF LoginInv, BrowserOK, ReadyIsCurrent

\* Whatever is opened, closed or served, the tabs are as above.
LEMMA BrowserStays ==
  ASSUME I!LoginAssumption, LoginInv, [I!Next]_I!vars
  PROVE  BrowserOK' /\ ReadyIsCurrent'
  <1>a. /\ BrowserOK /\ WaysOK /\ ReadyIsCurrent
        /\ Len(tabs) \in Nat /\ cur \in 1..Len(tabs)
        /\ \A t \in 1..Len(tabs) : tabs[t] \in TabPages
    BY DEF LoginInv, BrowserOK
  <1>b. imp # 0 => /\ imp \in 1..Len(tabs)
                   /\ tabs[imp].of \in Users \union {Nobody} /\ tabs[imp].at \in I!Views
    BY <1>a DEF BrowserOK, TabPages
  <1>1. CASE I!StartStep
    <2>1. pc' # "ready"
      BY <1>1 DEF I!StartStep, I!Goto
    <2> QED BY <1>1, <2>1, NothingLoaded DEF I!StartStep, I!browser
  <1>2. CASE I!Expire
    BY <1>2, <1>a DEF I!Expire, I!run, BrowserOK, ReadyIsCurrent
  <1>3. CASE I!Browse
    <2> DEFINE g == I!Serve("app", Nobody)
    <2>0. g \in TabPages /\ UNCHANGED <<session, imp, pc>> /\ pc = "idle"
      BY <1>3, <1>a, Served DEF I!Browse, I!Views
    <2>1. CASE tabs' = [tabs EXCEPT ![cur] = g] /\ UNCHANGED cur
      <3> HIDE DEF g
      <3>1. tabs' \in Seq(TabPages) /\ Len(tabs)' = Len(tabs)
        BY <2>0, <2>1, <1>a, Shows
      <3> QED BY <2>0, <2>1, <3>1, <1>a DEF BrowserOK, ReadyIsCurrent
    <2>2. CASE tabs' = Append(tabs, g) /\ cur' = Len(tabs')
      <3> HIDE DEF g
      <3> QED BY <2>0, <2>2, RecordOpened
    <2>3. CASE cur' \in DOMAIN tabs /\ UNCHANGED tabs
      BY <2>0, <2>3, <1>a DEF BrowserOK, ReadyIsCurrent
    <2> QED BY <1>3, <2>1, <2>2, <2>3 DEF I!Browse
  <1>4. CASE I!Retry \/ I!LoggedIn \/ I!LoginFails \/ I!SkipLogin \/ I!Resolve \/ I!ResolveFails
    BY <1>4, NothingLoaded
    DEF I!Retry, I!LoggedIn, I!LoginFails, I!SkipLogin, I!Resolve, I!ResolveFails, I!Raise, I!Same,
       I!Goto, I!browser
  <1>5. CASE I!LoginAdmin
    <2> DEFINE g == I!Page("app", Nobody, Admin)
    <2>1. g \in TabPages
      BY DEF I!Page, TabPages, I!Views
    <2>2. tabs' = [tabs EXCEPT ![cur] = g] /\ session' = Admin /\ UNCHANGED <<cur, imp>>
          /\ pc' \in {"idle", "raised"}
      BY <1>5 DEF I!LoginAdmin, I!Same, I!Goto
    <2> HIDE DEF g
    <2>3. tabs' \in Seq(TabPages) /\ Len(tabs)' = Len(tabs)
      BY <1>a, <2>1, <2>2, Shows
    <2> QED BY <1>a, <2>2, <2>3 DEF BrowserOK, ReadyIsCurrent
  <1>6. CASE I!OpenRecord
    <2>1. PICK at \in {"setup", "record"} : tabs' = Append(tabs, I!Serve(at, want))
      BY <1>6 DEF I!OpenRecord
    <2>2. want \in Users /\ at \in I!Views
      BY <1>6, <1>a DEF I!OpenRecord, WaysOK, I!Views
    <2> DEFINE g == I!Serve(at, want)
    <2>3. g \in TabPages
      BY <1>a, <2>2, Served DEF I!Views
    <2>4. tabs' = Append(tabs, g)
      BY <2>1
    <2>5. imp' = Len(tabs') /\ UNCHANGED <<session, cur>> /\ pc' # "ready"
      BY <1>6 DEF I!OpenRecord, I!Goto
    <2> HIDE DEF g
    <2> QED BY <2>3, <2>4, <2>5, RecordOpened
  <1>7. CASE I!OpenTimeout
    <2> DEFINE g == I!Page("app", Nobody, Nobody)
    <2>1. g \in TabPages
      BY DEF I!Page, TabPages, I!Views
    <2>2. tabs' = Append(tabs, g) /\ imp' = Len(tabs') /\ UNCHANGED <<session, cur>> /\ pc' # "ready"
      BY <1>7 DEF I!OpenTimeout, I!Goto, I!Again
    <2> HIDE DEF g
    <2> QED BY <2>1, <2>2, RecordOpened
  <1>8. CASE I!OpenFails \/ I!SurfaceFound \/ I!SurfacePoll \/ I!SurfaceTimeout \/ I!ClickPoll
            \/ I!ClickTimeout \/ I!NotReady \/ I!Ready
    BY <1>8, NothingLoaded
    DEF I!OpenFails, I!SurfaceFound, I!SurfacePoll, I!SurfaceTimeout, I!ClickPoll, I!ClickTimeout,
       I!NotReady, I!Ready, I!Raise, I!Same, I!Goto, I!Again, I!browser
  <1>9. CASE I!UserDetail \/ I!ClickUserDetail
    BY <1>9, <1>a, <1>b, OnTheWay DEF I!UserDetail, I!ClickUserDetail, I!Same, WaysOK, I!Views
  <1>10. CASE I!GlobalSearch
    <2>1. want \in Users /\ imp # 0 /\ UNCHANGED <<cur, imp>>
      BY <1>10, <1>a DEF I!GlobalSearch, WaysOK, I!Same
    <2>2. Alike[want] \subseteq Users
      BY <2>1 DEF I!LoginAssumption
    <2> QED BY <1>10, <2>1, <2>2, OnTheWay DEF I!GlobalSearch, I!Views
  <1>11. CASE I!ClassicUrl
    <2>1. want \in Users /\ imp # 0 /\ UNCHANGED <<cur, imp>> /\ pc' # "ready"
      BY <1>11, <1>a DEF I!ClassicUrl, WaysOK, I!Same, I!Again
    <2> QED BY <1>11, <2>1, OnTheWay, NothingLoaded DEF I!ClassicUrl, I!Views, I!browser
  <1>12. CASE I!ClickLogin
    <2> DEFINE g == I!Page("app", Nobody, tabs[imp].of)
    <2>1. /\ imp \in 1..Len(tabs) /\ tabs[imp].of \in Users
          /\ session' = tabs[imp].of /\ UNCHANGED <<cur, imp>>
      BY <1>12, <1>a, <1>b DEF I!ClickLogin, I!HasLogin, WaysOK, I!Same
    <2>2. g \in TabPages /\ g.as = tabs[imp].of
      BY <2>1 DEF I!Page, TabPages, I!Views
    <2>3. tabs' = [tabs EXCEPT ![imp] = g]
      BY <1>12 DEF I!ClickLogin
    <2> HIDE DEF g
    <2>4. tabs' \in Seq(TabPages) /\ Len(tabs)' = Len(tabs) /\ tabs'[imp] = g
      BY <1>a, <2>1, <2>2, <2>3, Shows
    <2> QED BY <1>a, <2>1, <2>2, <2>4 DEF BrowserOK, ReadyIsCurrent
  <1>13. CASE I!ClickElsewhere
    <2>1. /\ imp \in 1..Len(tabs) /\ tabs[imp].of \in Users /\ tabs[imp].at \in I!Views
          /\ UNCHANGED <<cur, imp>> /\ imp # 0
      BY <1>13, <1>a, <1>b DEF I!ClickElsewhere, I!HasLogin, WaysOK, I!Same
    <2> QED BY <1>13, <2>1, OnTheWay DEF I!ClickElsewhere, I!Views
  <1>14. CASE I!ReadyTimeout \/ UNCHANGED I!vars
    BY <1>14, <1>a DEF I!ReadyTimeout, I!Goto, I!Again, I!Same, I!browser, I!vars, BrowserOK, ReadyIsCurrent
  <1> QED
    BY <1>1, <1>2, <1>3, <1>4, <1>5, <1>6, <1>7, <1>8, <1>9, <1>10, <1>11, <1>12, <1>13, <1>14
    DEF I!Next, I!Automation

LEMMA LoginStep ==
  ASSUME I!LoginAssumption, LoginInv, [I!Next]_I!vars
  PROVE  LoginInv'
  BY WaysKept, BrowserStays DEF LoginInv

\* A login_as that passes was skipped, or is at the banner.
LEMMA PassesAtBanner ==
  ASSUME I!LoginAssumption, LoginInv, [I!Next]_I!vars, I!LoginPasses, want # Admin
  PROVE  I!SkipLogin \/ I!Ready
  <1>1. WaysOK
    BY DEF LoginInv
  <1>2. ~I!Retry /\ ~I!StartStep /\ ~I!Expire /\ ~I!Browse /\ ~(UNCHANGED I!vars)
    BY DEF I!LoginPasses, I!Retry, I!StartStep, I!Expire, I!Browse, I!vars
  <1>3. ~I!LoggedIn /\ ~I!LoginAdmin /\ ~I!LoginFails /\ ~I!Resolve /\ ~I!ResolveFails
    BY <1>1 DEF I!LoginPasses, I!LoggedIn, I!LoginAdmin, I!LoginFails, I!Resolve, I!ResolveFails,
       I!Raise, I!Goto, WaysOK
  <1>4. ~I!OpenRecord /\ ~I!OpenTimeout /\ ~I!OpenFails /\ ~I!SurfaceFound /\ ~I!UserDetail
            /\ ~I!GlobalSearch
    BY DEF I!LoginPasses, I!OpenRecord, I!OpenTimeout, I!OpenFails, I!SurfaceFound, I!UserDetail,
       I!GlobalSearch, I!Raise,
       I!Goto, I!Again
  <1>5. ~I!ClassicUrl /\ ~I!SurfacePoll /\ ~I!SurfaceTimeout /\ ~I!ClickUserDetail /\ ~I!ClickLogin
            /\ ~I!ClickElsewhere
    BY DEF I!LoginPasses, I!ClassicUrl, I!SurfacePoll, I!SurfaceTimeout, I!ClickUserDetail,
       I!ClickLogin, I!ClickElsewhere,
       I!Raise, I!Goto, I!Again
  <1>6. ~I!ClickPoll /\ ~I!ClickTimeout /\ ~I!NotReady /\ ~I!ReadyTimeout
    BY DEF I!LoginPasses, I!ClickPoll, I!ClickTimeout, I!NotReady, I!ReadyTimeout, I!Raise, I!Goto,
       I!Again
  <1> QED BY <1>2, <1>3, <1>4, <1>5, <1>6 DEF I!Next, I!Automation

\* A login_as that passes without being skipped.
LEMMA UserReached ==
  ASSUME I!LoginAssumption, LoginInv, [I!Next]_I!vars, I!LoginPasses, want # Admin, ~skipped'
  PROVE  session' \in Alike[want] \union {Nobody}
  <1>1. ~I!SkipLogin
    BY DEF I!SkipLogin
  <1>2. I!Ready
    BY <1>1, PassesAtBanner
  <1>3. UNCHANGED session /\ pc = "ready" /\ tabs[imp].as \in Alike[want]
    BY <1>2 DEF I!Ready, I!browser, I!BannerHas
  <1> QED BY <1>3 DEF LoginInv, ReadyIsCurrent

-----------------------------------------------------------------------------
(* FormLookup: the account a load leaves picked.                           *)

\* Where a load is, and what the field shows there, as long as no customer was taken for loaded
\* and the row of the account was not given up.
LoadAt ==
  /\ pc \notin {"lookup", "keys", "refill"}
  /\ pc \in {"rows", "match", "hit"} => customer = L!Text(op.want) /\ last = op.want
  /\ pc = "search" => customer \in {L!Text(op.want), L!Picked(op.want)} /\ last = op.want
  /\ pc \in {"data", "check", "details"} => customer = L!Picked(op.want)

\* A load names an account, and is at none of the places of Primary Group.
LoadOK ==
  op.action \in L!Loads =>
    /\ op.want \in Accounts
    /\ pc \notin {"group", "pick", "groupKeys", "type"}
    /\ ~early /\ ~missed => LoadAt

\* Only a field in which a row was picked is confirmed, if what was typed is in it otherwise.
LEMMA OnlyPickedConfirms ==
  ASSUME L!LookupAssumption, NEW w \in Accounts, customer \in {L!Text(w), L!Picked(w)}, L!Confirmed(w)
  PROVE  customer = L!Picked(w)
  <1>1. ASSUME customer = L!Text(w) PROVE FALSE
    BY <1>1 DEF L!Confirmed, L!Text
  <1> QED BY <1>1

LEMMA LookupInit == L!Init => LoadOK
  BY DEF L!Init, LoadOK, L!Loads

\* What is not about a load.
LEMMA OtherStep ==
  ASSUME op.action \notin L!Loads, UNCHANGED op
  PROVE  LoadOK'
  BY DEF LoadOK

\* A load that stays where it is, ends, or begins anew.
LEMMA LoadRests ==
  ASSUME LoadOK, UNCHANGED <<op, last, missed, early>>,
         \/ pc' \in {"idle", "raised", "begin", "open"}
         \/ UNCHANGED <<pc, customer>>
  PROVE  LoadOK'
  BY DEF LoadOK, LoadAt

LEMMA LookupStep ==
  ASSUME L!LookupAssumption, LoadOK, [L!Next]_L!vars
  PROVE  LoadOK'
  <1> USE DEF L!page, L!auto, L!Stay, L!Goto, L!Again, L!Raise, L!Pass
  <1>1. CASE L!Application
    BY <1>1, LoadRests DEF L!Application, L!ShowRows, L!ShowGroups, L!LoadData, L!NewForm
  <1>2. CASE L!StartStep
    <2>0. PICK a \in L!Actions : \E w \in L!Wants(a) :
            op' = [action |-> a, want |-> w] /\ pc' = L!FirstPlace(a)
      BY <1>2 DEF L!StartStep
    <2>1. PICK w \in L!Wants(a) :
            op' = [action |-> a, want |-> w] /\ pc' = L!FirstPlace(a)
      BY <2>0
    <2>2. a \in L!Loads => w \in Accounts /\ L!FirstPlace(a) = "begin"
      BY <2>1 DEF L!Wants, L!Loads, L!FirstPlace
    <2> QED BY <2>1, <2>2 DEF LoadOK, LoadAt
  <1>3. ASSUME op.action \notin L!Loads, L!Customer \/ L!Group \/ L!Retry
        PROVE  LoadOK'
    <2>1. UNCHANGED op
      BY <1>3 DEF L!Customer, L!Group, L!Retry, L!BeginLoad, L!BeginEnter, L!TypeCustomer, L!InputGone,
         L!RowsAppeared,
         L!RowsPoll, L!MatchRow, L!HitRow, L!MatchPoll, L!LookupDone, L!LookupClick, L!LookupKeys,
         L!LookupRefill, L!LookupFails,
         L!Search, L!DataShown, L!DataPoll, L!CheckLoaded, L!Details, L!BeginGroup, L!GroupDone,
         L!GroupClick, L!GroupKeys,
         L!GroupType, L!GroupFails, L!LookedUp
    <2> QED BY <1>3, <2>1, OtherStep
  <1>4. ASSUME op.action \in L!Loads, L!Retry PROVE LoadOK'
    <2>1. L!FirstPlace(op.action) = "begin"
      BY <1>4 DEF L!FirstPlace, L!Loads
    <2> QED BY <1>4, <2>1, LoadRests DEF L!Retry
  <1>5. ASSUME op.action \in L!Loads, L!BeginLoad PROVE LoadOK'
    <2>1. UNCHANGED <<op, missed>> /\ (early' = TRUE \/ (UNCHANGED early /\ pc' = "open"))
          /\ pc' \in {"idle", "details", "open"}
      BY <1>5 DEF L!BeginLoad
    <2> QED BY <2>1 DEF LoadOK, LoadAt
  <1>6. ASSUME op.action \in L!Loads, L!TypeCustomer PROVE LoadOK'
    <2>1. last' = op.want /\ customer' = L!Text(op.want) /\ UNCHANGED <<op, missed, early>>
              /\ pc' \in {"idle", "rows"}
      BY <1>6 DEF L!TypeCustomer, L!Query, LoadOK
    <2> QED BY <2>1 DEF LoadOK, LoadAt
  <1>7. ASSUME op.action \in L!Loads, L!BeginEnter \/ L!InputGone \/ L!RowsAppeared PROVE LoadOK'
    <2>1. CASE L!BeginEnter \/ L!InputGone
      BY <1>7, <2>1, LoadRests DEF L!BeginEnter, L!InputGone
    <2>2. CASE L!RowsAppeared
      <3>1. pc = "rows" /\ pc' = "match" /\ UNCHANGED <<op, last, missed, early, customer>>
        BY <1>7, <2>2 DEF L!RowsAppeared, L!Loads
      <3> QED BY <3>1 DEF LoadOK, LoadAt
    <2> QED BY <1>7, <2>1, <2>2
  <1>8. ASSUME op.action \in L!Loads, L!RowsPoll PROVE LoadOK'
    <2>1. pc = "rows" /\ UNCHANGED <<op, missed, early>> /\ pc' \in {"rows", "raised"}
      BY <1>8 DEF L!RowsPoll
    <2>2. ASSUME ~early, ~missed PROVE UNCHANGED <<customer, last>>
      <3>1. customer.text # Nothing
        BY <1>8, <2>1, <2>2 DEF LoadOK, LoadAt, L!Text, L!LookupAssumption
      <3> QED BY <1>8, <3>1 DEF L!RowsPoll
    <2> QED BY <2>1, <2>2 DEF LoadOK, LoadAt
  <1>9. ASSUME op.action \in L!Loads, L!MatchRow \/ L!HitRow PROVE LoadOK'
    <2>1. pc \in {"match", "hit"} /\ UNCHANGED <<op, last, missed, early>>
          /\ \/ pc' = "hit" /\ UNCHANGED customer
             \/ pc' = "search" /\ customer' \in {L!Picked(op.want), customer}
      BY <1>9 DEF L!MatchRow, L!HitRow, L!ClickRow
    <2> QED BY <2>1 DEF LoadOK, LoadAt
  <1>10. ASSUME op.action \in L!Loads, L!MatchPoll PROVE LoadOK'
    <2>1. pc \in {"match", "hit"} /\ UNCHANGED <<op, last, early, customer>>
          /\ \/ missed' = TRUE /\ pc' = "lookup"
             \/ UNCHANGED missed /\ pc' = "match"
      BY <1>10 DEF L!MatchPoll
    <2> QED BY <2>1 DEF LoadOK, LoadAt
  <1>11. ASSUME op.action \in L!Loads, L!LookupDone \/ L!LookupClick \/ L!LookupKeys
            \/ L!LookupRefill \/ L!LookupFails
         PROVE  LoadOK'
    <2>1. pc \in {"lookup", "keys", "refill"} /\ UNCHANGED <<op, missed, early>>
          /\ pc' \in {"search", "raised", "keys", "refill", "lookup", "idle"}
      BY <1>11 DEF L!LookupDone, L!LookupClick, L!LookupKeys, L!LookupRefill, L!LookupFails, L!LookedUp
    <2> QED BY <1>11, <2>1 DEF LoadOK, LoadAt
  <1>12. ASSUME op.action \in L!Loads, L!Search PROVE LoadOK'
    <2>1. pc = "search" /\ UNCHANGED <<op, last, missed, early, customer>>
          /\ (pc' = "raised" \/ (pc' = "data" /\ L!Confirmed(last)))
      BY <1>12 DEF L!Search
    <2> QED BY <2>1, <1>12, OnlyPickedConfirms DEF LoadOK, LoadAt
  <1>13. ASSUME op.action \in L!Loads, L!DataShown \/ L!DataPoll \/ L!CheckLoaded \/ L!Details
         PROVE  LoadOK'
    <2>1. pc \in {"data", "check", "details"} /\ UNCHANGED <<op, last, missed, early, customer>>
          /\ pc' \in {"data", "check", "details", "idle", "raised"}
      <3>1. op.action # "group"
        BY <1>13 DEF L!Loads
      <3> QED BY <1>13, <3>1 DEF L!DataShown, L!DataPoll, L!CheckLoaded, L!Details
    <2> QED BY <2>1 DEF LoadOK, LoadAt
  <1>14. ASSUME op.action \in L!Loads, L!Group PROVE LoadOK'
    <2>1. pc \in {"group", "pick", "groupKeys", "type"}
      BY <1>14 DEF L!Group, L!BeginGroup, L!GroupDone, L!GroupClick, L!GroupKeys, L!GroupType,
         L!GroupFails
    <2> QED BY <1>14, <2>1 DEF LoadOK
  <1>15. CASE UNCHANGED L!vars
    BY <1>15, LoadRests DEF L!vars
  <1> QED
    BY <1>1, <1>2, <1>3, <1>4, <1>5, <1>6, <1>7, <1>8, <1>9, <1>10, <1>11, <1>12, <1>13, <1>14, <1>15
    DEF L!Next, L!Automation, L!Customer

\* A load that passes saw its data, or went through the details of the account.
LEMMA PickedAtPass ==
  ASSUME L!LookupAssumption, LoadOK, [L!Next]_L!vars, L!StepPasses, op.action \in L!Loads, ~early', ~missed'
  PROVE  customer' = L!Picked(op.want)
  <1> USE DEF L!page, L!auto, L!Stay, L!Goto, L!Again, L!Raise, L!Pass, L!StepPasses
  <1>1. ~L!Application /\ ~L!StartStep /\ ~(UNCHANGED L!vars)
    BY DEF L!Application, L!ShowRows, L!ShowGroups, L!LoadData, L!NewForm, L!StartStep, L!vars
  <1>2. ~L!Retry
    <2>1. L!FirstPlace(op.action) = "begin"
      BY DEF L!FirstPlace, L!Loads
    <2> QED BY <2>1 DEF L!Retry
  <1>3. ~L!Group
    <2>1. pc \notin {"group", "pick", "groupKeys", "type"}
      BY DEF LoadOK
    <2> QED BY <2>1
    DEF L!Group, L!BeginGroup, L!GroupDone, L!GroupClick, L!GroupKeys, L!GroupType, L!GroupFails
  <1>4. op.action \notin {"enter", "await", "name", "first", "select", "search"}
    BY DEF L!Loads
  <1>5. ~L!BeginLoad /\ ~L!BeginEnter /\ ~L!TypeCustomer /\ ~L!InputGone /\ ~L!RowsAppeared
            /\ ~L!RowsPoll
    BY <1>4 DEF L!BeginLoad, L!BeginEnter, L!TypeCustomer, L!InputGone, L!RowsAppeared, L!RowsPoll
  <1>6. ~L!MatchRow /\ ~L!HitRow /\ ~L!MatchPoll /\ ~L!LookupDone /\ ~L!LookupClick /\ ~L!LookupKeys
            /\ ~L!LookupRefill /\ ~L!LookupFails
    BY DEF L!MatchRow, L!HitRow, L!MatchPoll, L!LookupDone, L!LookupClick, L!LookupKeys, L!LookupRefill,
       L!LookupFails, L!LookedUp, L!Loads
  <1>7. ~L!Search /\ ~L!DataPoll /\ ~L!CheckLoaded
    BY DEF L!Search, L!DataPoll, L!CheckLoaded
  <1>8. L!DataShown \/ L!Details
    BY <1>1, <1>2, <1>3, <1>5, <1>6, <1>7 DEF L!Next, L!Automation, L!Customer
  <1>9. pc \in {"data", "details"} /\ UNCHANGED <<customer, early, missed>>
    BY <1>8 DEF L!DataShown, L!Details
  <1> QED BY <1>9 DEF LoadOK, LoadAt

-----------------------------------------------------------------------------
(* The parts of PageAutomation.  A step is a step of the part that was     *)
(* chosen, or none of it.                                                  *)

\* A step is one of the part that was chosen, or changes nothing of it.
LEMMA OwnStep ==
  ASSUME [Next]_vars
  PROVE  /\ part' = part
         /\ part = "lookup" => [L!Next]_L!vars
         /\ part = "fill" => [F!Next]_F!vars
         /\ part = "pages" => [P!Next]_P!vars
         /\ part = "login" => [I!Next]_I!vars
  <1>1. CASE UNCHANGED vars
    BY <1>1 DEF vars, lookup, fill, pages, login, L!vars, L!page, L!auto, F!vars, F!form, F!place,
       F!past, P!vars, P!browser, P!pages, P!run, I!vars, I!browser, I!run
  <1>2. CASE Next
    BY <1>2 DEF Next, Lookup, Fill, Pages, Login
  <1> QED BY <1>1, <1>2

\* The initial state is one of the part that was chosen.
LEMMA OwnInit ==
  ASSUME Init
  PROVE  /\ part = "lookup" => L!Init
         /\ part = "fill" => F!Init
         /\ part = "pages" => P!Init
         /\ part = "login" => I!Init
  BY DEF Init

\* Only a tab in which a request was opened is pinned (data_change_page.py, focus_form): what
\* the later steps type goes to a request.
THEOREM PinsRequests == Spec => []PinnedHasRequest
  <1> DEFINE Inv == part = "pages" => PinInv
  <1>1. Init => Inv
    BY OwnInit, PinInit, AutomationAssumption
  <1>2. Inv /\ [Next]_vars => Inv'
    BY OwnStep, PinStep
  <1>3. Inv => PinnedHasRequest
    BY DEF PinInv, PinnedHasRequest
  <1> HIDE DEF Inv
  <1> QED BY <1>1, <1>2, <1>3, PTL DEF Spec

\* The pin goes to another tab only after a look at the pinned tab that saw no form there and that
\* nothing but the search for another tab followed, whatever the tabs show and whichever step comes
\* next (executor_agent.py, _ensure_active_page; data_change_page.py, focus_form and what calls it).
THEOREM PinStaysOnForm == Spec => StayPinned
  <1> DEFINE Inv == part = "pages" => PinInv
  <1>1. Init => Inv
    BY OwnInit, PinInit, AutomationAssumption
  <1>2. Inv /\ [Next]_vars => Inv'
    BY OwnStep, PinStep
  <1>3. Inv /\ [Next]_vars
          => [part = "pages" /\ pinned # 0 /\ pinned' \notin {pinned, 0} => lost]_vars
    BY OwnStep, PinMoves
  <1> HIDE DEF Inv
  <1> QED BY <1>1, <1>2, <1>3, PTL DEF Spec, StayPinned

\* A submission creates one request, and another one only after each judgement made while the
\* application had not answered the click, or no longer showed its answer (data_change_page.py, submit).
THEOREM CreatesOneRequest == Spec => []OneRequest
  <1> DEFINE Inv == part = "fill" => ClicksOK
  <1>1. Init => Inv
    BY OwnInit, FillInit
  <1>2. Inv /\ [Next]_vars => Inv'
    BY OwnStep, FillStep
  <1>3. Inv => OneRequest
    BY DEF ClicksOK, OneRequest, F!OneRequest
  <1> HIDE DEF Inv
  <1> QED BY <1>1, <1>2, <1>3, PTL DEF Spec

\* A login_as that passes, and is not skipped, has brought the browser to the user it names, or to one
\* whose name contains the name, if the session has not ended since (login_resolver.py, login_as).
THEOREM LoginReachesUser == Spec => ReachesUser
  <1> DEFINE Inv == part = "login" => LoginInv
  <1>1. Init => Inv
    BY OwnInit, LoginInit, AutomationAssumption
  <1>2. Inv /\ [Next]_vars => Inv'
    BY OwnStep, LoginStep, AutomationAssumption
  <1>3. Inv /\ [Next]_vars
          => [part = "login" /\ I!LoginPasses /\ want # Admin /\ ~skipped'
              => session' \in Alike[want] \union {Nobody}]_vars
    BY OwnStep, UserReached, AutomationAssumption
  <1> HIDE DEF Inv
  <1> QED BY <1>1, <1>2, <1>3, PTL DEF Spec, ReachesUser

\* A load that passes leaves the account it named picked, unless it took the customer that was
\* shown already or gave up the row of its account (data_change_page.py, load_customer; form_field.py,
\* click_lookup).
THEOREM LoadsWhatItNames == Spec => LoadPicksWhatItAsked
  <1> DEFINE Inv == part = "lookup" => LoadOK
  <1>1. Init => Inv
    BY OwnInit, LookupInit
  <1>2. Inv /\ [Next]_vars => Inv'
    BY OwnStep, LookupStep, AutomationAssumption
  <1>3. Inv /\ [Next]_vars
          => [part = "lookup" /\ L!StepPasses /\ op.action \in L!Loads /\ ~early' /\ ~missed'
              => customer' = L!Picked(op.want)]_vars
    BY OwnStep, PickedAtPass, AutomationAssumption
  <1> HIDE DEF Inv
  <1> QED BY <1>1, <1>2, <1>3, PTL DEF Spec, LoadPicksWhatItAsked
=============================================================================
