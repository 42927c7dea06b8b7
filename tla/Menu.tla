-------------------------------- MODULE Menu --------------------------------
(***************************************************************************)
(* The menu of the LCD user interface: NumericProperty (the values on      *)
(* display), Menu (selection and editing) and the part of LcdUi that ties  *)
(* them together.  The operators are functions from one menu state to the  *)
(* next, because the handlers of the program make several of these calls   *)
(* in one step.  LcdUi and Ventilation hold the state and take the steps.  *)
(*                                                                         *)
(* A menu state m is a record:                                             *)
(*   selected, editing   Menu::selected (0-based) and Menu::editing        *)
(*   value, old          NumericProperty::value, the number on display and *)
(*                       under edit, and oldValue, the one in force        *)
(* What is drawn on the LCD, and when, is modelled in LcdUi.               *)
(***************************************************************************)
EXTENDS Integers, Sequences

CONSTANTS
  SetpointMax,        \* largest setpoint that can be dialled in: 120
  SetpointIncrement   \* step of the setpoint editor: 5

ASSUME SetpointAssumption ==
  /\ SetpointMax \in Nat
  /\ SetpointIncrement \in Nat \ {0}

-----------------------------------------------------------------------------

\* The order in which LcdUi::LcdUi adds the properties to the menu.
Order == <<"mode", "setpoint", "speed", "pressure", "temp", "rh", "co2">>

Count == 7

Properties == {"mode", "setpoint", "speed", "pressure", "temp", "rh", "co2"}

\* The properties that are not constant: the menu lets the user edit them.
Editable == {"mode", "setpoint"}

\* The properties that know their menu (Property::addToMenu).
Bound == {"mode", "setpoint", "speed", "pressure"}

\* Range and step of the editable properties.
Low(p) == 0
High(p) == IF p = "mode" THEN 1 ELSE SetpointMax
Increment(p) == IF p = "mode" THEN 1 ELSE SetpointIncrement

\* The four buttons in the order in which btnStatusUpdate reads them, named
\* by the event each one sends.
ButtonOrder == <<"Down", "Up", "Confirm", "Back">>

Buttons == {"Down", "Up", "Confirm", "Back"}

-----------------------------------------------------------------------------
(* NumericProperty *)

\* Mutants.  This module and the others define, just before a definition, the
\* wrong forms of it that validate the properties; no specification uses them.
SetValueAlways(m, p, v) == [m EXCEPT !.old[p] = v, !.value[p] = v]

\* setValue of a property that knows its menu.  The value on display follows
\* only while nothing is being edited, whichever property that is.
SetValue(m, p, v) ==
  [m EXCEPT !.old[p] = v,
            !.value[p] = IF m.editing THEN @ ELSE v]

\* changeIfDifferent: used for temp, rh and co2.
ChangeIfDifferent(m, p, v) ==
  IF m.value[p] # v
  THEN [m EXCEPT !.value[p] = v, !.old[p] = v]
  ELSE m

ClampBelowOnly(p, v) == IF v < Low(p) THEN Low(p) ELSE v

Clamp(p, v) ==
  IF v < Low(p) THEN Low(p) ELSE IF v > High(p) THEN High(p) ELSE v

Input(m, p, up) ==
  [m EXCEPT !.value[p] = Clamp(p, IF up THEN @ + Increment(p)
                                        ELSE @ - Increment(p))]

StopEditSwapped(m, p, discard) ==
  IF discard THEN [m EXCEPT !.old[p] = m.value[p]]
             ELSE [m EXCEPT !.value[p] = m.old[p]]

StopEdit(m, p, discard) ==
  IF discard THEN [m EXCEPT !.value[p] = m.old[p]]
             ELSE [m EXCEPT !.old[p] = m.value[p]]

-----------------------------------------------------------------------------
(* Menu *)

Selected(m) == Order[m.selected + 1]

SendEditing(m, event) ==
  LET p == Selected(m) IN
  CASE event = "Up"      -> Input(m, p, TRUE)
    [] event = "Down"    -> Input(m, p, FALSE)
    [] event = "Back"    -> [StopEdit(m, p, TRUE)  EXCEPT !.editing = FALSE]
    [] event = "Confirm" -> [StopEdit(m, p, FALSE) EXCEPT !.editing = FALSE]

SendBrowsingUnwrapped(m, event) ==
  CASE event = "Down"    -> [m EXCEPT !.selected = IF @ = 0 THEN Count - 1 ELSE @ - 1]
    [] event = "Up"      -> [m EXCEPT !.selected = @ + 1]
    [] event = "Back"    -> m
    [] event = "Confirm" -> IF Selected(m) \in Editable THEN [m EXCEPT !.editing = TRUE] ELSE m

\* selected is unsigned: below 0 it wraps and the bound check catches it.
SendBrowsing(m, event) ==
  CASE event = "Down"    -> [m EXCEPT !.selected = IF @ = 0 THEN Count - 1
                                                           ELSE @ - 1]
    [] event = "Up"      -> [m EXCEPT !.selected = IF @ + 1 >= Count THEN 0
                                                           ELSE @ + 1]
    [] event = "Back"    -> m
    [] event = "Confirm" -> IF Selected(m) \in Editable THEN [m EXCEPT !.editing = TRUE] ELSE m

Send(m, event) ==
  IF m.editing THEN SendEditing(m, event) ELSE SendBrowsing(m, event)

-----------------------------------------------------------------------------
(* LcdUi *)

\* A button acts when it is released: it was seen down by an earlier scan
\* and is now read as up.
Fires(held, b, down) == b \in held /\ ~down

Hold(held, b, down) == IF down THEN held \cup {b} ELSE held \ {b}

\* btnStatusUpdate calls onValueChange after a Confirm that leaves the menu
\* out of edit mode; m is the menu after the event.
Notifies(m, event) == event = "Confirm" /\ ~m.editing

\* LcdUi::update: nothing while editing; else take over the sensor values.
Update(m, temp, co2, rh) ==
  IF m.editing THEN m
  ELSE ChangeIfDifferent(ChangeIfDifferent(ChangeIfDifferent(
         m, "temp", temp), "co2", co2), "rh", rh)

\* The menu when the LcdUi constructor returns.  main() has called
\* isAutomatic.setValue(0) before the property knew its menu.
InitialMenu ==
  LET start == [p \in Properties |-> IF p = "temp" THEN -40 ELSE 0] IN
  [selected |-> 0, editing |-> FALSE, value |-> start, old |-> start]

-----------------------------------------------------------------------------

MenuType ==
  [selected : 0 .. Count - 1,
   editing  : BOOLEAN,
   value    : [Properties -> Int],
   old      : [Properties -> Int]]
=============================================================================
