----------------------------- MODULE LcdUiProofs -----------------------------
(***************************************************************************)
(* Proofs of the safety properties of LcdUi, for all values of its         *)
(* constants, and that it implements PropertyEditor as long as nothing is  *)
(* stored in one setting while the other is being edited.                  *)
(***************************************************************************)
EXTENDS LcdUi, MenuProofs

\* The state the proofs work with.
IInv == TypeOK /\ WellFormed(menu) /\ InRange(menu)

\* A value in range can be stored in either setting, any value in the others.
LEMMA StoreKeeps ==
  ASSUME NEW m, WellFormed(m), InRange(m), NEW p \in Bound, NEW v \in Int,
         p \in Editable => v \in Low(p) .. High(p), NEW n, n = SetValue(m, p, v)
  PROVE  /\ WellFormed(n) /\ InRange(n)
         /\ n.selected = m.selected /\ n.editing = m.editing
         /\ n.old = [m.old EXCEPT ![p] = v]
         /\ m.editing => n.value = m.value
         /\ ~m.editing => n.value = [m.value EXCEPT ![p] = v]
<1>1. p \in Properties /\ m \in MenuType /\ \A q \in Editable : q \in Properties
  BY LimitsType DEF Bound, Properties, WellFormed
<1>2. /\ n \in MenuType
      /\ n.selected = m.selected /\ n.editing = m.editing
      /\ n.old = [m.old EXCEPT ![p] = v]
      /\ m.editing => n.value = m.value
      /\ ~m.editing => n.value = [m.value EXCEPT ![p] = v]
  BY <1>1 DEF SetValue, MenuType
<1>3. WellFormed(n)
  BY <1>2 DEF WellFormed, Selected
<1>4. InRange(n)
  BY <1>1, <1>2 DEF InRange, MenuType
<1> QED
  BY <1>2, <1>3, <1>4

\* What display() writes is a property, an edit marker and a number.
LEMMA ScreenType ==
  ASSUME NEW m \in MenuType
  PROVE  Screen(m) \in [prop : Properties, editing : BOOLEAN, value : Int]
<1>1. Selected(m) \in Properties /\ m.editing \in BOOLEAN /\ m.value \in [Properties -> Int]
  BY SelectedType DEF MenuType
<1> QED
  BY <1>1 DEF Screen

\* onValueChange stores a fan speed or nothing.
LEMMA NotifiedKeeps ==
  ASSUME NEW m, WellFormed(m), InRange(m), dirty \in SUBSET Bound, Notified(m)
  PROVE  /\ WellFormed(menu') /\ InRange(menu')
         /\ dirty' \in SUBSET Bound
<1>1. CASE menu' = m /\ UNCHANGED dirty
  BY <1>1
<1>2. ASSUME NEW v \in Stored["speed"],
             menu' = SetValue(m, "speed", v) /\ dirty' = dirty \cup {"speed"}
      PROVE  /\ WellFormed(menu') /\ InRange(menu')
             /\ dirty' \in SUBSET Bound
  <2>1. v \in Int /\ "speed" \in Bound /\ "speed" \notin Editable
    BY LcdUiAssumption DEF Bound, Editable
  <2> QED
    BY <1>2, <2>1, StoreKeeps
<1> QED
  BY <1>1, <1>2 DEF Notified

\* update() with new sensor values leaves the user's settings and the edit alone.
LEMMA UpdateKeeps ==
  ASSUME NEW m, WellFormed(m), InRange(m), NEW r \in SensorReadings,
         NEW n, n = Update(m, r[1], r[2], r[3])
  PROVE  WellFormed(n) /\ InRange(n)
<1>1. r[1] \in Int /\ r[2] \in Int /\ r[3] \in Int /\ m \in MenuType
  BY LcdUiAssumption DEF WellFormed
<1>2. /\ n \in MenuType
      /\ \A q \in Bound : n.old[q] = m.old[q] /\ n.value[q] = m.value[q]
      /\ n.selected = m.selected /\ n.editing = m.editing
  BY <1>1, UpdateType
<1>3. \A q \in Editable : q \in Bound
  BY DEF Editable, Bound
<1>4. InRange(n)
  BY <1>2, <1>3 DEF InRange
<1> QED
  BY <1>2, <1>4 DEF WellFormed, Selected

\* The inductive invariant holds at start-up.
LEMMA InitIInv == Init => IInv
<1> SUFFICES ASSUME Init PROVE IInv
  OBVIOUS
<1>1. /\ menu \in MenuType /\ WellFormed(menu) /\ menu.old = menu.value
      /\ \A p \in Editable : menu.old[p] = 0
  BY InitialMenuType DEF Init, WellFormed, Editable, Properties
<1>2. \A p \in Editable : 0 \in Low(p) .. High(p)
  BY LimitsType
<1>3. InRange(menu)
  BY <1>1, <1>2 DEF InRange
<1>4. shown \in [prop : Properties, editing : BOOLEAN, value : Int]
  BY <1>1, ScreenType DEF Init
<1> QED
  BY <1>1, <1>3, <1>4 DEF Init, IInv, TypeOK, Bound

\* Every step of the user interface keeps the inductive invariant.
LEMMA IInvStep == IInv /\ [Next]_vars => IInv'
<1> SUFFICES ASSUME IInv, [Next]_vars PROVE IInv'
  OBVIOUS
<1> USE DEF IInv, TypeOK
<1>1. ASSUME NEW down \in BOOLEAN, ReadButton(down) PROVE IInv'
  <2> DEFINE b == ButtonOrder[scan]
             m == Send(menu, b)
  <2>1. b \in Buttons
    BY DEF ButtonOrder, Buttons
  <2>2. WellFormed(m) /\ InRange(m)
    BY <2>1, SendInRange
  <2>3. /\ \/ UNCHANGED <<menu, dirty, shown>>
           \/ shown' = Screen(m) /\ menu' = m /\ UNCHANGED dirty
           \/ shown' = Screen(m) /\ Notified(m)
        /\ held' = Hold(held, b, down)
        /\ scan' = IF scan = 4 THEN 1 ELSE scan + 1
    BY <1>1 DEF ReadButton
  <2> HIDE DEF b, m
  <2>4. /\ WellFormed(menu') /\ InRange(menu') /\ dirty' \in SUBSET Bound
        /\ shown' = shown \/ shown' = Screen(m)
    BY <2>2, <2>3, NotifiedKeeps
  <2>5. shown' \in [prop : Properties, editing : BOOLEAN, value : Int]
    BY <2>2, <2>4, ScreenType DEF WellFormed
  <2>6. held' \in SUBSET Buttons /\ scan' \in 1 .. 4
    BY <2>1, <2>3 DEF Hold
  <2> QED
    BY <2>4, <2>5, <2>6 DEF WellFormed
<1>2. ASSUME NEW p \in Bound, NEW v \in Stored[p], Store(p, v) PROVE IInv'
  <2>1. v \in Int /\ (p \in Editable => v \in Low(p) .. High(p))
    BY LcdUiAssumption
  <2>2. WellFormed(menu') /\ InRange(menu')
    BY <1>2, <2>1, StoreKeeps DEF Store
  <2> QED
    BY <1>2, <2>2 DEF Store, WellFormed
<1>3. ASSUME NEW r \in SensorReadings, Refresh(r[1], r[2], r[3]) PROVE IInv'
  <2>1. WellFormed(menu') /\ InRange(menu')
    BY <1>3, UpdateKeeps DEF Refresh
  <2>2. dirty' = dirty \/ dirty' = {}
    BY <1>3 DEF Refresh
  <2>3. shown' = shown \/ shown' = Screen(menu')
    BY <1>3 DEF Refresh
  <2>4. shown' \in [prop : Properties, editing : BOOLEAN, value : Int]
    BY <2>1, <2>3, ScreenType DEF WellFormed
  <2> QED
    BY <1>3, <2>1, <2>2, <2>4 DEF Refresh, WellFormed
<1>4. CASE UNCHANGED vars
  BY <1>4 DEF vars, WellFormed, InRange
<1> QED
  BY <1>1, <1>2, <1>3, <1>4 DEF Next, SomeRefresh

\* Every variable keeps its type.
THEOREM TypeCorrect == Spec => []TypeOK
<1>1. IInv => TypeOK
  BY DEF IInv
<1> QED
  BY <1>1, InitIInv, IInvStep, PTL DEF Spec

\* Whatever buttons are pressed and values stored: only mode and setpoint are
\* ever under edit, and both stay in their ranges.
THEOREM EditsAlwaysInRange == Spec => []EditsInRange
<1>1. IInv => EditsInRange
  BY DEF IInv, WellFormed, InRange, EditsInRange
<1> QED
  BY <1>1, InitIInv, IInvStep, PTL DEF Spec

\* The inductive invariant holds throughout.
LEMMA IInvAlways == Spec => []IInv
BY InitIInv, IInvStep, PTL DEF Spec

-----------------------------------------------------------------------------
(* The LCD *)

\* Storing changes what belongs on the LCD only outside an edit, and only if it
\* is the selected property that is stored.
LEMMA StoreScreen ==
  ASSUME NEW m \in MenuType, NEW p \in Bound, NEW v \in Int,
         NEW n, n = SetValue(m, p, v)
  PROVE  /\ Selected(n) = Selected(m) /\ n.editing = m.editing
         /\ Screen(n) = Screen(m) \/ (~m.editing /\ p = Selected(m))
<1>1. p \in Properties
  BY DEF Bound, Properties
<1>2. /\ n.selected = m.selected /\ n.editing = m.editing
      /\ m.editing => n.value = m.value
      /\ ~m.editing => n.value = [m.value EXCEPT ![p] = v]
  BY <1>1 DEF SetValue, MenuType
<1>3. Selected(n) = Selected(m) /\ Selected(m) \in Properties
  BY <1>2, SelectedType DEF Selected
<1>4. CASE m.editing \/ p # Selected(m)
  <2>1. n.value[Selected(m)] = m.value[Selected(m)]
    BY <1>2, <1>3, <1>4 DEF MenuType
  <2> QED
    BY <1>2, <1>3, <2>1 DEF Screen
<1>5. CASE ~m.editing /\ p = Selected(m)
  BY <1>2, <1>3, <1>5
<1> QED
  BY <1>4, <1>5

\* No step makes the LCD wrong without a dirty flag that repairs it.
LEMMA StaleStep == IInv /\ ScreenStaleOnlyIfDirty /\ [Next]_vars => ScreenStaleOnlyIfDirty'
<1> SUFFICES ASSUME IInv, ScreenStaleOnlyIfDirty, [Next]_vars PROVE ScreenStaleOnlyIfDirty'
  OBVIOUS
<1>0. WellFormed(menu) /\ InRange(menu)
  BY DEF IInv
<1>1. ASSUME NEW down \in BOOLEAN, ReadButton(down) PROVE ScreenStaleOnlyIfDirty'
  <2> DEFINE b == ButtonOrder[scan]
             m == Send(menu, b)
  <2>1. b \in Buttons
    BY DEF IInv, TypeOK, ButtonOrder, Buttons
  <2>2. WellFormed(m) /\ InRange(m)
    BY <1>0, <2>1, SendInRange
  <2>3. \/ UNCHANGED <<menu, dirty, shown>>
        \/ shown' = Screen(m) /\ menu' = m
        \/ shown' = Screen(m) /\ ~m.editing /\ Notified(m)
    BY <1>1 DEF ReadButton, Notifies
  <2> HIDE DEF b, m
  <2>4. CASE UNCHANGED <<menu, dirty, shown>>
    BY <2>4 DEF ScreenStaleOnlyIfDirty
  <2>5. CASE shown' = Screen(m) /\ menu' = m
    BY <2>5 DEF ScreenStaleOnlyIfDirty
  <2>6. ASSUME NEW v \in Stored["speed"], shown' = Screen(m), ~m.editing,
               menu' = SetValue(m, "speed", v), dirty' = dirty \cup {"speed"}
        PROVE  ScreenStaleOnlyIfDirty'
    <3>1. v \in Int /\ "speed" \in Bound /\ "speed" \notin Editable
      BY LcdUiAssumption DEF Bound, Editable
    <3>2. /\ Selected(menu') = Selected(m) /\ ~menu'.editing
          /\ Screen(menu') = Screen(m) \/ "speed" = Selected(m)
      BY <2>2, <2>6, <3>1, StoreScreen DEF WellFormed
    <3> QED
      BY <2>6, <3>2 DEF ScreenStaleOnlyIfDirty
  <2> QED
    BY <2>3, <2>4, <2>5, <2>6 DEF Notified
<1>2. ASSUME NEW p \in Bound, NEW v \in Stored[p], Store(p, v) PROVE ScreenStaleOnlyIfDirty'
  <2>1. v \in Int /\ (p \in Editable => v \in Low(p) .. High(p))
    BY LcdUiAssumption
  <2>2. /\ Selected(menu') = Selected(menu) /\ menu'.editing = menu.editing
        /\ Screen(menu') = Screen(menu) \/ (~menu.editing /\ p = Selected(menu))
    BY <1>0, <1>2, <2>1, StoreScreen DEF Store, WellFormed
  <2>3. shown' = shown /\ dirty' = dirty \cup {p}
    BY <1>2 DEF Store
  <2> QED
    BY <2>2, <2>3 DEF ScreenStaleOnlyIfDirty
<1>3. ASSUME NEW r \in SensorReadings, Refresh(r[1], r[2], r[3]) PROVE ScreenStaleOnlyIfDirty'
  <2> DEFINE m == Update(menu, r[1], r[2], r[3])
  <2>1. CASE menu.editing
    <3>1. UNCHANGED <<menu, dirty, shown>>
      BY <1>3, <2>1 DEF Refresh, Update
    <3> QED
      BY <3>1 DEF ScreenStaleOnlyIfDirty
  <2>2. CASE ~menu.editing
    <3>1. menu' = m /\ shown' = IF m # menu \/ dirty # {} THEN Screen(m) ELSE shown
      BY <1>3, <2>2 DEF Refresh
    <3> HIDE DEF m
    <3>2. CASE m # menu \/ dirty # {}
      BY <3>1, <3>2 DEF ScreenStaleOnlyIfDirty
    <3>3. CASE m = menu /\ dirty = {}
      BY <3>1, <3>3 DEF ScreenStaleOnlyIfDirty
    <3> QED
      BY <3>2, <3>3
  <2> QED
    BY <2>1, <2>2
<1>4. CASE UNCHANGED vars
  BY <1>4 DEF vars, ScreenStaleOnlyIfDirty
<1> QED
  BY <1>1, <1>2, <1>3, <1>4 DEF Next, SomeRefresh

\* ScreenStaleOnlyIfDirty holds throughout.
LEMMA StaleAlways == Spec => []ScreenStaleOnlyIfDirty
<1>1. Init => ScreenStaleOnlyIfDirty
  BY DEF Init, ScreenStaleOnlyIfDirty
<1> QED
  BY <1>1, StaleStep, IInvAlways, PTL DEF Spec

\* An LCD that differs from the menu is always repaired by the next update():
\* the selected property is flagged dirty and no edit holds update() up.
THEOREM ScreenAlwaysRepairable == Spec => []ScreenStaleOnlyIfDirty
BY StaleAlways

\* A setting in force changes by a button only through a Confirm, and then to
\* exactly the number the user saw on the LCD.
THEOREM ButtonsAlwaysCommitWhatIsShown == Spec => ButtonsCommitWhatIsShown
<1> DEFINE Commits == (\E down \in BOOLEAN : ReadButton(down)) =>
             \A p \in Editable :
               menu'.old[p] # menu.old[p] =>
                 /\ ButtonOrder[scan] = "Confirm" /\ menu.editing /\ ~menu'.editing
                 /\ shown = [prop |-> p, editing |-> TRUE, value |-> menu'.old[p]]
<1>1. ASSUME IInv, ScreenStaleOnlyIfDirty, [Next]_vars PROVE [Commits]_vars
  <2> SUFFICES ASSUME NEW down \in BOOLEAN, ReadButton(down),
                      NEW p \in Editable, menu'.old[p] # menu.old[p]
               PROVE  /\ ButtonOrder[scan] = "Confirm" /\ menu.editing /\ ~menu'.editing
                      /\ shown = [prop |-> p, editing |-> TRUE, value |-> menu'.old[p]]
    OBVIOUS
  <2> DEFINE b == ButtonOrder[scan]
             m == Send(menu, b)
  <2>1. b \in Buttons /\ WellFormed(menu) /\ InRange(menu) /\ menu \in MenuType
    BY <1>1 DEF IInv, TypeOK, ButtonOrder, Buttons
  <2>2. WellFormed(m) /\ InRange(m) /\ m \in MenuType
    BY <2>1, SendInRange DEF WellFormed
  <2>3. \/ menu' = menu
        \/ menu' = m
        \/ \E v \in Stored["speed"] : menu' = SetValue(m, "speed", v)
    BY DEF ReadButton, Notified
  <2> HIDE DEF b, m
  <2>4. menu'.editing = m.editing /\ menu'.old[p] = m.old[p]
    <3>1. CASE menu' = m
      BY <3>1
    <3>2. ASSUME NEW v \in Stored["speed"], menu' = SetValue(m, "speed", v)
          PROVE  menu'.editing = m.editing /\ menu'.old[p] = m.old[p]
      <4>1. v \in Int /\ "speed" \in Properties /\ p # "speed" /\ p \in Properties
        BY LcdUiAssumption, LimitsType DEF Bound, Editable, Properties
      <4>2. menu'.old = [m.old EXCEPT !["speed"] = v] /\ menu'.editing = m.editing
        BY <2>2, <3>2, <4>1, SetValueType
      <4> QED
        BY <2>2, <4>1, <4>2 DEF MenuType
    <3> QED
      BY <2>3, <3>1, <3>2
  <2>5. m.old[p] # menu.old[p]
    BY <2>4
  <2>6. menu.editing
    BY <2>1, <2>5, SendBrowsingType DEF m
  <2>7. b = "Confirm"
    <3>1. CASE b \in {"Up", "Down"}
      BY <2>1, <2>5, <2>6, <3>1, TurnType DEF m
    <3>2. CASE b = "Back"
      BY <2>1, <2>5, <2>6, <3>2, BackType DEF m
    <3> QED
      BY <2>1, <3>1, <3>2 DEF Buttons
  <2>8. /\ ~m.editing
        /\ m.old = [menu.old EXCEPT ![Selected(menu)] = menu.value[Selected(menu)]]
    BY <2>1, <2>6, <2>7, ConfirmType DEF m
  <2>9. p = Selected(menu) /\ m.old[p] = menu.value[Selected(menu)]
    BY <2>1, <2>5, <2>8, LimitsType DEF MenuType
  <2>10. shown = Screen(menu)
    BY <1>1, <2>6 DEF ScreenStaleOnlyIfDirty
  <2>11. menu.editing = TRUE
    BY <2>1, <2>6 DEF MenuType
  <2> QED
    BY <2>4, <2>6, <2>7, <2>8, <2>9, <2>10, <2>11 DEF Screen, b
<1> QED
  BY <1>1, IInvAlways, StaleAlways, PTL DEF Spec, ButtonsCommitWhatIsShown

-----------------------------------------------------------------------------
(* The menu implements the abstract editor *)

\* The abstract state of a menu, as in the INSTANCE of PropertyEditor.
CommittedOf(m) == [p \in Editable |-> m.old[p]]

DraftOf(m) ==
  IF m.editing THEN [prop |-> Selected(m), value |-> m.value[Selected(m)]]
               ELSE [prop |-> "none", value |-> 0]

\* Outside its own edit, a setting displays the value in force: an edit opens
\* on that value.  Stores during edits of the other setting break this.
Synced(m) ==
  \A p \in Editable : (m.editing /\ p = Selected(m)) \/ m.value[p] = m.old[p]

\* One step of the abstract editor, from one menu to another.
EditorStep(m, n) ==
  \/ DraftOf(n) = DraftOf(m) /\ CommittedOf(n) = CommittedOf(m)
  \/ \E p \in Editable :
       /\ CommittedOf(n) = [CommittedOf(m) EXCEPT ![p] = CommittedOf(n)[p]]
       /\ DraftOf(n) = DraftOf(m)
  \/ \E p \in Editable :
       /\ ~m.editing
       /\ DraftOf(n) = [prop |-> p, value |-> CommittedOf(m)[p]]
       /\ CommittedOf(n) = CommittedOf(m)
  \/ \E v \in Low(Selected(m)) .. High(Selected(m)) :
       /\ m.editing
       /\ DraftOf(n) = [DraftOf(m) EXCEPT !.value = v]
       /\ CommittedOf(n) = CommittedOf(m)
  \/ /\ m.editing /\ ~n.editing
     /\ CommittedOf(n) = [CommittedOf(m) EXCEPT ![Selected(m)] = m.value[Selected(m)]]
  \/ /\ m.editing /\ ~n.editing
     /\ CommittedOf(n) = CommittedOf(m)

\* The settings a user may edit are properties of the menu.
LEMMA EditableAreProperties == Editable \subseteq Properties
BY DEF Editable, Properties

\* A change of other properties is invisible to the editor.
LEMMA OthersInvisible ==
  ASSUME NEW m, WellFormed(m), Synced(m), NEW n,
         n.selected = m.selected, n.editing = m.editing,
         \A p \in Editable : n.old[p] = m.old[p] /\ n.value[p] = m.value[p]
  PROVE  Synced(n) /\ DraftOf(n) = DraftOf(m) /\ CommittedOf(n) = CommittedOf(m)
<1>1. Selected(n) = Selected(m)
  BY DEF Selected
<1>2. m.editing => Selected(m) \in Editable
  BY DEF WellFormed
<1>3. DraftOf(n) = DraftOf(m)
  BY <1>1, <1>2 DEF DraftOf
<1>4. CommittedOf(n) = CommittedOf(m)
  BY DEF CommittedOf
<1>5. Synced(n)
  BY <1>1 DEF Synced
<1> QED
  BY <1>3, <1>4, <1>5

\* Every button is one step of the editor.
LEMMA SendImplements ==
  ASSUME NEW m, WellFormed(m), Synced(m), NEW event \in Buttons, NEW n, n = Send(m, event)
  PROVE  Synced(n) /\ EditorStep(m, n)
<1> DEFINE s == Selected(m)
<1>0. m \in MenuType /\ (m.editing => s \in Editable) /\ m.editing \in BOOLEAN
  BY DEF WellFormed, MenuType
<1>1. CASE ~m.editing
  <2>1. /\ n.old = m.old /\ n.value = m.value /\ n \in MenuType
        /\ n.editing => event = "Confirm" /\ s \in Editable
        /\ event = "Confirm" => n.selected = m.selected
    BY <1>0, <1>1, SendBrowsingType DEF WellFormed
  <2>2. CommittedOf(n) = CommittedOf(m)
    BY <2>1 DEF CommittedOf
  <2>3. Synced(n)
    BY <1>1, <2>1 DEF Synced
  <2>4. CASE ~n.editing
    BY <1>1, <2>2, <2>3, <2>4 DEF EditorStep, DraftOf
  <2>5. CASE n.editing
    <3>1. Selected(n) = s /\ s \in Editable
      BY <2>1, <2>5 DEF Selected
    <3>2. n.value[s] = CommittedOf(m)[s]
      BY <1>1, <2>1, <3>1 DEF Synced, CommittedOf
    <3>3. DraftOf(n) = [prop |-> s, value |-> CommittedOf(m)[s]]
      BY <2>5, <3>1, <3>2 DEF DraftOf
    <3> QED
      BY <1>1, <2>2, <2>3, <3>1, <3>3 DEF EditorStep
  <2> QED
    BY <2>4, <2>5
<1>2. CASE m.editing /\ event \in {"Up", "Down"}
  <2>1. /\ n.editing /\ n.selected = m.selected /\ n.old = m.old
        /\ n.value[s] \in Low(s) .. High(s)
        /\ \A q \in Properties \ {s} : n.value[q] = m.value[q]
    BY <1>2, TurnType
  <2>2. Selected(n) = s
    BY <2>1 DEF Selected
  <2>3. CommittedOf(n) = CommittedOf(m)
    BY <2>1 DEF CommittedOf
  <2>4. DraftOf(n) = [DraftOf(m) EXCEPT !.value = n.value[s]]
    BY <1>2, <2>1, <2>2 DEF DraftOf
  <2>5. Synced(n)
    BY <1>2, <2>1, <2>2, EditableAreProperties DEF Synced
  <2> QED
    BY <1>2, <2>1, <2>3, <2>4, <2>5 DEF EditorStep
<1>3. CASE m.editing /\ event = "Back"
  <2>1. /\ ~n.editing /\ n.selected = m.selected /\ n.old = m.old
        /\ n.value = [m.value EXCEPT ![s] = m.old[s]]
    BY <1>3, BackType
  <2>2. CommittedOf(n) = CommittedOf(m)
    BY <2>1 DEF CommittedOf
  <2>3. Synced(n)
    BY <1>0, <2>1, EditableAreProperties DEF Synced, MenuType
  <2> QED
    BY <1>3, <2>1, <2>2, <2>3 DEF EditorStep
<1>4. CASE m.editing /\ event = "Confirm"
  <2>1. /\ ~n.editing /\ n.selected = m.selected /\ n.value = m.value
        /\ n.old = [m.old EXCEPT ![s] = m.value[s]]
    BY <1>4, ConfirmType
  <2> HIDE DEF s
  <2>2. CommittedOf(n) = [CommittedOf(m) EXCEPT ![s] = m.value[s]]
    BY <1>0, <1>4, <2>1, EditableAreProperties DEF CommittedOf, MenuType
  <2>3. Synced(n)
    BY <1>0, <2>1, EditableAreProperties DEF Synced, MenuType, s
  <2> QED
    BY <1>4, <2>1, <2>2, <2>3 DEF EditorStep, s
<1> QED
  BY <1>1, <1>2, <1>3, <1>4 DEF Buttons

\* Every step of the user interface is one step of the editor.
LEMMA NextImplements ==
  ASSUME StoresDuringEdits = FALSE, IInv, Synced(menu), [Next]_vars
  PROVE  Synced(menu') /\ EditorStep(menu, menu')
<1>0. WellFormed(menu) /\ InRange(menu) /\ menu \in MenuType
  BY DEF IInv, TypeOK
<1>1. ASSUME NEW down \in BOOLEAN, ReadButton(down)
      PROVE  Synced(menu') /\ EditorStep(menu, menu')
  <2> DEFINE b == ButtonOrder[scan]
             m == Send(menu, b)
  <2>1. b \in Buttons
    BY DEF IInv, TypeOK, ButtonOrder, Buttons
  <2>2. WellFormed(m) /\ m \in MenuType /\ Synced(m) /\ EditorStep(menu, m)
    <3>1. WellFormed(m)
      BY <1>0, <2>1, SendWellFormed
    <3> QED
      BY <1>0, <2>1, <3>1, SendImplements DEF WellFormed
  <2>3. \/ menu' = menu
        \/ menu' = m
        \/ \E v \in Stored["speed"] : menu' = SetValue(m, "speed", v)
    BY <1>1 DEF ReadButton, Notified
  <2> HIDE DEF b, m
  <2>4. CASE menu' = menu
    BY <2>4 DEF EditorStep
  <2>5. CASE menu' = m
    BY <2>2, <2>5
  <2>6. ASSUME NEW v \in Stored["speed"], menu' = SetValue(m, "speed", v)
        PROVE  Synced(menu') /\ EditorStep(menu, menu')
    <3>1. v \in Int /\ "speed" \in Properties
      BY LcdUiAssumption DEF Bound, Properties
    <3>2. /\ menu'.selected = m.selected /\ menu'.editing = m.editing
          /\ \A p \in Editable : menu'.old[p] = m.old[p] /\ menu'.value[p] = m.value[p]
      BY <2>2, <2>6, <3>1 DEF SetValue, MenuType, Editable, Properties
    <3>3. Synced(menu') /\ DraftOf(menu') = DraftOf(m) /\ CommittedOf(menu') = CommittedOf(m)
      BY <2>2, <3>2, OthersInvisible
    <3> QED
      BY <2>2, <3>2, <3>3 DEF EditorStep
  <2> QED
    BY <2>3, <2>4, <2>5, <2>6
<1>2. ASSUME NEW p \in Bound, NEW v \in Stored[p], Store(p, v)
      PROVE  Synced(menu') /\ EditorStep(menu, menu')
  <2>1. v \in Int /\ p \in Properties
    BY LcdUiAssumption DEF Bound, Properties
  <2>2. /\ menu'.selected = menu.selected /\ menu'.editing = menu.editing
        /\ menu'.old = [menu.old EXCEPT ![p] = v]
        /\ menu.editing => menu'.value = menu.value
        /\ ~menu.editing => menu'.value = [menu.value EXCEPT ![p] = v]
        /\ ~menu.editing \/ p \notin Editable \ {Selected(menu)}
    BY <1>0, <1>2, <2>1 DEF Store, SetValue, MenuType
  <2>3. CASE p \notin Editable
    <3>1. \A q \in Editable : menu'.old[q] = menu.old[q] /\ menu'.value[q] = menu.value[q]
      BY <1>0, <2>2, <2>3, EditableAreProperties DEF MenuType
    <3> QED
      BY <1>0, <2>2, <3>1, OthersInvisible DEF EditorStep
  <2>4. CASE p \in Editable
    <3>1. Selected(menu') = Selected(menu)
      BY <2>2 DEF Selected
    <3>2. Synced(menu')
      BY <1>0, <2>1, <2>2, <2>4, <3>1, EditableAreProperties DEF Synced, MenuType
    <3>3. DraftOf(menu') = DraftOf(menu)
      BY <2>2, <3>1 DEF DraftOf
    <3>4. CommittedOf(menu') = [CommittedOf(menu) EXCEPT ![p] = CommittedOf(menu')[p]]
      BY <1>0, <2>2, <2>4, EditableAreProperties DEF CommittedOf, MenuType
    <3> QED
      BY <2>4, <3>2, <3>3, <3>4 DEF EditorStep
  <2> QED
    BY <2>3, <2>4
<1>3. ASSUME NEW r \in SensorReadings, Refresh(r[1], r[2], r[3])
      PROVE  Synced(menu') /\ EditorStep(menu, menu')
  <2>1. r[1] \in Int /\ r[2] \in Int /\ r[3] \in Int
    BY LcdUiAssumption
  <2>2. menu' = Update(menu, r[1], r[2], r[3])
    BY <1>3 DEF Refresh
  <2>3. /\ menu'.selected = menu.selected /\ menu'.editing = menu.editing
        /\ \A q \in Bound : menu'.old[q] = menu.old[q] /\ menu'.value[q] = menu.value[q]
    BY <1>0, <2>1, <2>2, UpdateType
  <2> QED
    BY <1>0, <2>3, OthersInvisible DEF EditorStep, Editable, Bound
<1>4. CASE UNCHANGED vars
  BY <1>4 DEF vars, EditorStep
<1> QED
  BY <1>1, <1>2, <1>3, <1>4 DEF Next, SomeRefresh

\* At start-up the menu shows what is in force, and maps to the editor's start.
LEMMA InitSynced == Init => Synced(menu) /\ Editor!Init
<1> SUFFICES ASSUME Init PROVE Synced(menu) /\ Editor!Init
  OBVIOUS
<1>1. /\ menu.editing = FALSE /\ menu.old = menu.value
      /\ \A p \in Editable : menu.old[p] = 0
  BY InitialMenuType DEF Init, Editable, Properties
<1> QED
  BY <1>1 DEF Synced, Editor!Init, Editor!NoDraft

\* The steps listed in EditorStep are those of PropertyEditor.
LEMMA EditorStepIsStep ==
  ASSUME IInv, IInv', EditorStep(menu, menu')
  PROVE  [Editor!Next]_Editor!vars
<1> DEFINE s == Selected(menu)
<1>0. /\ menu.editing \in BOOLEAN
      /\ menu.editing => s \in Editable
      /\ "none" \notin Editable
  BY DEF IInv, TypeOK, WellFormed, MenuType, Editable
<1>1. CASE DraftOf(menu') = DraftOf(menu) /\ CommittedOf(menu') = CommittedOf(menu)
  BY <1>1 DEF Editor!vars, DraftOf, CommittedOf
<1>2. ASSUME NEW p \in Editable,
             CommittedOf(menu') = [CommittedOf(menu) EXCEPT ![p] = CommittedOf(menu')[p]],
             DraftOf(menu') = DraftOf(menu)
      PROVE  Editor!Store(p)
  BY <1>2 DEF Editor!Store, DraftOf, CommittedOf
<1>3. ASSUME NEW p \in Editable, ~menu.editing,
             DraftOf(menu') = [prop |-> p, value |-> CommittedOf(menu)[p]],
             CommittedOf(menu') = CommittedOf(menu)
      PROVE  Editor!Open(p)
  BY <1>3 DEF Editor!Open, Editor!NoDraft, DraftOf, CommittedOf
<1>4. ASSUME NEW v \in Low(s) .. High(s), menu.editing,
             DraftOf(menu') = [DraftOf(menu) EXCEPT !.value = v],
             CommittedOf(menu') = CommittedOf(menu)
      PROVE  Editor!Next
  <2>1. /\ DraftOf(menu) = [prop |-> s, value |-> menu.value[s]]
        /\ DraftOf(menu') = [prop |-> s, value |-> v]
        /\ s \in Editable /\ s # "none"
    BY <1>0, <1>4 DEF DraftOf
  <2> HIDE DEF s
  <2>2. DraftOf(menu) # [prop |-> "none", value |-> 0] /\ DraftOf(menu').value = v
    BY <2>1
  <2>3. v \in [p \in Editable |-> Low(p)][s] .. [p \in Editable |-> High(p)][s]
    BY <2>1
  <2> QED
    BY <1>4, <2>1, <2>2, <2>3 DEF Editor!Next, Editor!Turn, Editor!NoDraft, DraftOf, CommittedOf
<1>5. ASSUME menu.editing, ~menu'.editing,
             CommittedOf(menu') = [CommittedOf(menu) EXCEPT ![s] = menu.value[s]]
      PROVE  Editor!Commit
  BY <1>0, <1>5 DEF Editor!Commit, Editor!NoDraft, CommittedOf
<1>6. ASSUME menu.editing, ~menu'.editing, CommittedOf(menu') = CommittedOf(menu)
      PROVE  Editor!Drop
  BY <1>0, <1>6 DEF Editor!Drop, Editor!NoDraft, CommittedOf
<1> QED
  BY <1>1, <1>2, <1>3, <1>4, <1>5, <1>6 DEF EditorStep, Editor!Next

\* As long as no setting is stored from outside while the other one is being
\* edited, the menu implements the abstract editor: an edit opens on the value
\* in force, stays private and in range, and is committed or dropped as a whole.
THEOREM MenuImplementsEditor ==
  ASSUME StoresDuringEdits = FALSE
  PROVE  Spec => ImplementsEditor
<1>1. Init => IInv /\ Synced(menu) /\ Editor!Init
  BY InitIInv, InitSynced
<1>2. IInv /\ Synced(menu) /\ [Next]_vars => IInv' /\ Synced(menu)' /\ [Editor!Next]_Editor!vars
  BY IInvStep, NextImplements, EditorStepIsStep
<1> QED
  BY <1>1, <1>2, PTL DEF Spec, ImplementsEditor, Editor!Spec
=============================================================================
