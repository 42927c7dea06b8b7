-------------------------------- MODULE LcdUi --------------------------------
(***************************************************************************)
(* The LCD user interface by itself: a user on four buttons, and a program *)
(* that stores values in the properties between two scans of the buttons   *)
(* (settings received over MQTT, the measured pressure, the fan speed) and *)
(* calls update() with the latest sensor values.                           *)
(***************************************************************************)
EXTENDS Menu, FiniteSets

CONSTANTS
  MaxHeld,            \* bound: how many buttons the user holds down at once
  Stored,             \* the values the program may store: Stored[p], p in Bound
  SensorReadings,     \* the <<temp, co2, rh>> that update() may be given
  StoresDuringEdits   \* TRUE in the program; FALSE assumes that no editable
                      \* property is stored while another one is under edit

ASSUME LcdUiAssumption ==
  /\ Stored \in [Bound -> SUBSET Int]
  /\ \A p \in Editable : Stored[p] \subseteq Low(p) .. High(p)
  /\ SensorReadings \subseteq Int \X Int \X Int
  /\ StoresDuringEdits \in BOOLEAN
  /\ MaxHeld \in Nat

VARIABLES
  menu,     \* the menu state, see Menu
  held,     \* button::isPressed, as the set of buttons for which it is set
  scan,     \* the button that btnStatusUpdate reads next; 1 between two scans
  dirty,    \* the properties whose dirty flag is set
  shown     \* what the last Menu::display() wrote on the LCD

vars == <<menu, held, scan, dirty, shown>>

\* What Menu::display() writes: the selected property, the edit marker and
\* the value.
Screen(m) == [prop    |-> Selected(m),
              editing |-> m.editing,
              value   |-> m.value[Selected(m)]]

\* main() has set the mode before the property was added to the menu.
Init ==
  /\ menu = InitialMenu
  /\ held = {} /\ scan = 1
  /\ dirty = {"mode"}
  /\ shown = Screen(InitialMenu)

\* onValueChange, called after a Confirm: it may store a fan speed.
Notified(m) ==
  \/ menu' = m /\ UNCHANGED dirty
  \/ \E v \in Stored["speed"] :
       menu' = SetValue(m, "speed", v) /\ dirty' = dirty \cup {"speed"}

\* Mutant of ReadButton: the scan runs past the last button.
ReadButtonPastEnd(down) ==
  LET b == ButtonOrder[scan]
      m == Send(menu, b)
  IN
  /\ held' = Hold(held, b, down)
  /\ Cardinality(held') <= MaxHeld
  /\ IF ~Fires(held, b, down) THEN UNCHANGED <<menu, dirty, shown>>
     ELSE /\ shown' = Screen(m)
          /\ IF Notifies(m, b) THEN Notified(m) ELSE menu' = m /\ UNCHANGED dirty
  /\ scan' = IF scan > 4 THEN 1 ELSE scan + 1

\* One turn of the loop in btnStatusUpdate: read button scan, act on release.
\* Menu::send draws the menu before the callback runs.
ReadButton(down) ==
  LET b == ButtonOrder[scan]
      m == Send(menu, b)
  IN
  /\ held' = Hold(held, b, down)
  /\ Cardinality(held') <= MaxHeld
  /\ IF ~Fires(held, b, down) THEN UNCHANGED <<menu, dirty, shown>>
     ELSE /\ shown' = Screen(m)
          /\ IF Notifies(m, b) THEN Notified(m) ELSE menu' = m /\ UNCHANGED dirty
  /\ scan' = IF scan = 4 THEN 1 ELSE scan + 1

\* setValue on a property from outside the LCD.
Store(p, v) ==
  /\ scan = 1
  /\ StoresDuringEdits \/ ~menu.editing \/ p \notin Editable \ {Selected(menu)}
  /\ menu' = SetValue(menu, p, v)
  /\ dirty' = dirty \cup {p}
  /\ UNCHANGED <<held, scan, shown>>

\* Mutant: a set dirty flag is cleared but does not cause a redraw.
RefreshIgnoringDirty(temp, co2, rh) ==
  LET m == Update(menu, temp, co2, rh) IN
  /\ scan = 1
  /\ menu' = m
  /\ IF menu.editing THEN UNCHANGED <<dirty, shown>>
     ELSE dirty' = {} /\ shown' = IF m # menu THEN Screen(m) ELSE shown
  /\ UNCHANGED <<held, scan>>

\* LcdUi::update with fresh sensor values: outside an edit, it clears the dirty
\* flags and redraws if any was set or a sensor value changed.
Refresh(temp, co2, rh) ==
  LET m == Update(menu, temp, co2, rh) IN
  /\ scan = 1
  /\ menu' = m
  /\ IF menu.editing THEN UNCHANGED <<dirty, shown>>
     ELSE /\ dirty' = {}
          /\ shown' = IF m # menu \/ dirty # {} THEN Screen(m) ELSE shown
  /\ UNCHANGED <<held, scan>>

SomeRefresh == \E r \in SensorReadings : Refresh(r[1], r[2], r[3])

Next ==
  \/ \E down \in BOOLEAN : ReadButton(down)
  \/ \E p \in Bound : \E v \in Stored[p] : Store(p, v)
  \/ SomeRefresh

\* The main loop scans the buttons and refreshes the LCD forever; between two
\* refreshes it completes many scans, so refreshing is always enabled again.
Fairness == SF_vars(SomeRefresh) /\ WF_vars(\E down \in BOOLEAN : ReadButton(down))

Spec == Init /\ [][Next]_vars

FairSpec == Spec /\ Fairness

-----------------------------------------------------------------------------
(* Properties *)

TypeOK ==
  /\ menu \in MenuType
  /\ held \in SUBSET Buttons
  /\ scan \in 1 .. 4
  /\ dirty \in SUBSET Bound
  /\ shown \in [prop : Properties, editing : BOOLEAN, value : Int]

\* Only the user's two settings are ever under edit, and what the user may
\* commit stays in the setting's range, whatever was stored meanwhile.
EditsInRange ==
  /\ menu.editing => Selected(menu) \in Editable
  /\ \A p \in Editable : menu.value[p] \in Low(p) .. High(p)

\* The LCD never lies silently: if it differs from the menu's state, then the
\* property it shows is flagged dirty and no edit is going on, so that the
\* next update() repairs it.
ScreenStaleOnlyIfDirty ==
  shown # Screen(menu) =>
    /\ ~menu.editing
    /\ Selected(menu) \in dirty

\* A setting in force changes by a button only when Confirm ends its edit, and
\* then to the number the LCD was showing.
ButtonsCommitWhatIsShown ==
  [][(\E down \in BOOLEAN : ReadButton(down)) =>
       \A p \in Editable :
         menu'.old[p] # menu.old[p] =>
           /\ ButtonOrder[scan] = "Confirm" /\ menu.editing /\ ~menu'.editing
           /\ shown = [prop |-> p, editing |-> TRUE, value |-> menu'.old[p]]
    ]_vars

\* The value on display is the value in force whenever nothing is edited.
DisplayedValueInForce ==
  ~menu.editing => \A p \in Editable : menu.value[p] = menu.old[p]

\* The LCD catches up with the state of the menu again and again, unless an
\* edit is left open.
ScreenCatchesUp == []<>(shown = Screen(menu) \/ menu.editing)

\* The editor the menu is meant to be.
Editor == INSTANCE PropertyEditor WITH
  Settings  <- Editable,
  Least     <- [p \in Editable |-> Low(p)],
  Greatest  <- [p \in Editable |-> High(p)],
  Initial   <- [p \in Editable |-> 0],
  committed <- [p \in Editable |-> menu.old[p]],
  draft     <- IF menu.editing
               THEN [prop |-> Selected(menu), value |-> menu.value[Selected(menu)]]
               ELSE [prop |-> "none", value |-> 0]

\* Under the assumption on stores, the menu implements the editor: every edit
\* opens on the value in force, and only a confirmed edit changes it.
ImplementsEditor == Editor!Spec
=============================================================================
