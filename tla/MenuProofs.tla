------------------------------ MODULE MenuProofs ------------------------------
(* Lemmas about the operators of Menu. *)
EXTENDS Menu, TLAPS

\* Every index of the menu selects a property.
LEMMA SelectedType ==
  ASSUME NEW m \in MenuType
  PROVE  Selected(m) \in Properties
BY DEF MenuType, Selected, Order, Count, Properties

\* A menu opens with every property at the value in force.
LEMMA InitialMenuType ==
  /\ InitialMenu \in MenuType
  /\ InitialMenu.editing = FALSE
  /\ InitialMenu.old = InitialMenu.value
  /\ \A p \in Properties \ {"temp"} : InitialMenu.old[p] = 0
BY DEF InitialMenu, MenuType, Count, Properties

\* setValue keeps the menu's type and stores the value.
LEMMA SetValueType ==
  ASSUME NEW m \in MenuType, NEW p \in Properties, NEW v \in Int
  PROVE  /\ SetValue(m, p, v) \in MenuType
         /\ SetValue(m, p, v).old = [m.old EXCEPT ![p] = v]
         /\ SetValue(m, p, v).selected = m.selected
         /\ SetValue(m, p, v).editing = m.editing
BY DEF SetValue, MenuType

\* changeIfDifferent touches the one property only.
LEMMA ChangeType ==
  ASSUME NEW m \in MenuType, NEW p \in Properties, NEW v \in Int
  PROVE  /\ ChangeIfDifferent(m, p, v) \in MenuType
         /\ \A q \in Properties \ {p} :
              /\ ChangeIfDifferent(m, p, v).old[q] = m.old[q]
              /\ ChangeIfDifferent(m, p, v).value[q] = m.value[q]
         /\ ChangeIfDifferent(m, p, v).selected = m.selected
         /\ ChangeIfDifferent(m, p, v).editing = m.editing
BY DEF ChangeIfDifferent, MenuType

\* A change of a sensor property leaves the bound ones alone.
LEMMA ChangeSensorType ==
  ASSUME NEW m \in MenuType, NEW p \in Properties \ Bound, NEW v \in Int,
         NEW n, n = ChangeIfDifferent(m, p, v)
  PROVE  /\ n \in MenuType /\ n.selected = m.selected /\ n.editing = m.editing
         /\ \A q \in Bound : n.old[q] = m.old[q] /\ n.value[q] = m.value[q]
<1>1. \A q \in Bound : q \in Properties \ {p}
  BY DEF Bound, Properties
<1> QED
  BY <1>1, ChangeType

\* So does update(), which makes three such changes.
LEMMA UpdateType ==
  ASSUME NEW m \in MenuType, NEW t \in Int, NEW c \in Int, NEW r \in Int
  PROVE  /\ Update(m, t, c, r) \in MenuType
         /\ \A q \in Bound :
              /\ Update(m, t, c, r).old[q] = m.old[q]
              /\ Update(m, t, c, r).value[q] = m.value[q]
         /\ Update(m, t, c, r).selected = m.selected
         /\ Update(m, t, c, r).editing = m.editing
<1> DEFINE m1 == ChangeIfDifferent(m, "temp", t)
           m2 == ChangeIfDifferent(m1, "co2", c)
           m3 == ChangeIfDifferent(m2, "rh", r)
<1>1. {"temp", "co2", "rh"} \subseteq Properties \ Bound
  BY DEF Bound, Properties
<1>2. Update(m, t, c, r) = IF m.editing THEN m ELSE m3
  BY DEF Update
<1>3. /\ m1 \in MenuType /\ m1.selected = m.selected /\ m1.editing = m.editing
      /\ \A q \in Bound : m1.old[q] = m.old[q] /\ m1.value[q] = m.value[q]
  BY <1>1, ChangeSensorType
<1> HIDE DEF m1
<1>4. /\ m2 \in MenuType /\ m2.selected = m1.selected /\ m2.editing = m1.editing
      /\ \A q \in Bound : m2.old[q] = m1.old[q] /\ m2.value[q] = m1.value[q]
  BY <1>1, <1>3, ChangeSensorType
<1> HIDE DEF m2
<1>5. /\ m3 \in MenuType /\ m3.selected = m2.selected /\ m3.editing = m2.editing
      /\ \A q \in Bound : m3.old[q] = m2.old[q] /\ m3.value[q] = m2.value[q]
  BY <1>1, <1>4, ChangeSensorType
<1> HIDE DEF m3
<1> QED
  BY <1>2, <1>3, <1>4, <1>5

\* The same of a menu that is the result of an update.
LEMMA UpdateKeepsBound ==
  ASSUME NEW m \in MenuType, NEW t \in Int, NEW c \in Int, NEW r \in Int,
         NEW n, n = Update(m, t, c, r)
  PROVE  n \in MenuType /\ \A q \in Bound : n.old[q] = m.old[q] /\ n.value[q] = m.value[q]
<1> DEFINE u == Update(m, t, c, r)
<1>1. u \in MenuType /\ \A q \in Bound : u.old[q] = m.old[q] /\ u.value[q] = m.value[q]
  BY UpdateType
<1>2. n = u
  OBVIOUS
<1> HIDE DEF u
<1> QED
  BY <1>1, <1>2

\* The limits of an editable property are integers in the right order.
LEMMA LimitsType ==
  ASSUME NEW p \in Editable
  PROVE  /\ Low(p) = 0 /\ High(p) \in Nat /\ Increment(p) \in Nat
         /\ p \in Properties
BY SetpointAssumption DEF Low, High, Increment, Editable, Properties

\* A clamped value lies between the limits.
LEMMA ClampType ==
  ASSUME NEW p \in Editable, NEW v \in Int
  PROVE  Clamp(p, v) \in Low(p) .. High(p)
BY LimitsType DEF Clamp

\* input keeps the edited value inside the range and touches nothing else.
LEMMA InputType ==
  ASSUME NEW m \in MenuType, NEW p \in Editable,
         NEW n, n = Input(m, p, TRUE) \/ n = Input(m, p, FALSE)
  PROVE  /\ n \in MenuType
         /\ n.value[p] \in Low(p) .. High(p)
         /\ \A q \in Properties \ {p} : n.value[q] = m.value[q]
         /\ n.old = m.old
         /\ n.selected = m.selected
         /\ n.editing = m.editing
<1>1. PICK v \in Low(p) .. High(p) : n = [m EXCEPT !.value[p] = v]
  <2>1. m.value[p] + Increment(p) \in Int /\ m.value[p] - Increment(p) \in Int
    BY LimitsType DEF MenuType
  <2>2. CASE n = Input(m, p, TRUE)
    <3>1. n = [m EXCEPT !.value[p] = Clamp(p, m.value[p] + Increment(p))]
      BY <2>2 DEF Input
    <3> QED BY <2>1, <3>1, ClampType
  <2>3. CASE n = Input(m, p, FALSE)
    <3>1. n = [m EXCEPT !.value[p] = Clamp(p, m.value[p] - Increment(p))]
      BY <2>3 DEF Input
    <3> QED BY <2>1, <3>1, ClampType
  <2> QED BY <2>2, <2>3
<1>2. v \in Int /\ p \in Properties
  BY LimitsType
<1> QED
  BY <1>1, <1>2 DEF MenuType

\* stopEdit takes over or drops the edited value of the one property.
LEMMA StopEditType ==
  ASSUME NEW m \in MenuType, NEW p \in Properties
  PROVE  /\ StopEdit(m, p, TRUE) = [m EXCEPT !.value[p] = m.old[p]]
         /\ StopEdit(m, p, FALSE) = [m EXCEPT !.old[p] = m.value[p]]
         /\ StopEdit(m, p, TRUE) \in MenuType
         /\ StopEdit(m, p, FALSE) \in MenuType
BY DEF StopEdit, MenuType

-----------------------------------------------------------------------------
(* What a button does to the menu. *)

\* A well-formed menu edits editable properties only.
WellFormed(m) == m \in MenuType /\ (m.editing => Selected(m) \in Editable)

\* The editable properties are within their ranges, in force and on display.
InRange(m) ==
  \A p \in Editable : m.value[p] \in Low(p) .. High(p) /\ m.old[p] \in Low(p) .. High(p)

\* While browsing, a button moves the selection or opens an edit; no value
\* changes.
LEMMA SendBrowsingType ==
  ASSUME NEW m \in MenuType, ~m.editing, NEW event \in Buttons
  PROVE  /\ WellFormed(Send(m, event))
         /\ Send(m, event).old = m.old /\ Send(m, event).value = m.value
         /\ Send(m, event).editing => event = "Confirm" /\ Selected(m) \in Editable
         /\ event = "Confirm" => Send(m, event).selected = m.selected
<1>1. Send(m, event) = SendBrowsing(m, event)
  BY DEF Send
<1>2. CASE event = "Down"
  <2>1. Send(m, event) = [m EXCEPT !.selected = IF @ = 0 THEN Count - 1 ELSE @ - 1]
    BY <1>1, <1>2 DEF SendBrowsing
  <2> QED BY <1>2, <2>1 DEF MenuType, WellFormed, Count
<1>3. CASE event = "Up"
  <2>1. Send(m, event) = [m EXCEPT !.selected = IF @ + 1 >= Count THEN 0 ELSE @ + 1]
    BY <1>1, <1>3 DEF SendBrowsing
  <2> QED BY <1>3, <2>1 DEF MenuType, WellFormed, Count
<1>4. CASE event = "Back"
  <2>1. Send(m, event) = m
    BY <1>1, <1>4 DEF SendBrowsing
  <2> QED BY <1>4, <2>1 DEF MenuType, WellFormed
<1>5. CASE event = "Confirm"
  <2>1. Send(m, event) = IF Selected(m) \in Editable THEN [m EXCEPT !.editing = TRUE] ELSE m
    BY <1>1, <1>5 DEF SendBrowsing
  <2> QED BY <1>5, <2>1 DEF MenuType, WellFormed, Selected
<1> QED
  BY <1>2, <1>3, <1>4, <1>5 DEF Buttons

\* While editing, Up and Down turn the value, Back drops it, Confirm puts it in
\* force; the selection stays.
LEMMA TurnType ==
  ASSUME NEW m, WellFormed(m), m.editing, NEW event \in {"Up", "Down"},
         NEW n, n = Send(m, event)
  PROVE  /\ WellFormed(n) /\ n.editing
         /\ n.selected = m.selected
         /\ n.old = m.old
         /\ n.value[Selected(m)] \in Low(Selected(m)) .. High(Selected(m))
         /\ \A q \in Properties \ {Selected(m)} : n.value[q] = m.value[q]
<1> DEFINE p == Selected(m)
<1>1. n = SendEditing(m, event) /\ m \in MenuType /\ p \in Editable
  BY DEF Send, WellFormed
<1>2. n = Input(m, p, TRUE) \/ n = Input(m, p, FALSE)
  BY <1>1 DEF SendEditing
<1> HIDE DEF p
<1>3. /\ n \in MenuType
      /\ n.value[p] \in Low(p) .. High(p)
      /\ \A q \in Properties \ {p} : n.value[q] = m.value[q]
      /\ n.old = m.old
      /\ n.selected = m.selected
      /\ n.editing = m.editing
  BY <1>1, <1>2, InputType
<1> QED
  BY <1>1, <1>3 DEF WellFormed, Selected, p

\* Back, with which an edit is dropped, keeps the menu well formed.
LEMMA BackType ==
  ASSUME NEW m, WellFormed(m), m.editing, NEW n, n = Send(m, "Back")
  PROVE  /\ WellFormed(n) /\ ~n.editing
         /\ n.selected = m.selected
         /\ n.old = m.old
         /\ n.value = [m.value EXCEPT ![Selected(m)] = m.old[Selected(m)]]
<1> DEFINE p == Selected(m)
<1>1. m \in MenuType /\ p \in Properties
  BY LimitsType DEF WellFormed
<1>2. n = [StopEdit(m, p, TRUE) EXCEPT !.editing = FALSE]
  BY DEF Send, SendEditing
<1> HIDE DEF p
<1>3. n = [[m EXCEPT !.value[p] = m.old[p]] EXCEPT !.editing = FALSE]
  BY <1>1, <1>2, StopEditType
<1>4. /\ n \in MenuType /\ ~n.editing
      /\ n.selected = m.selected
      /\ n.old = m.old
      /\ n.value = [m.value EXCEPT ![p] = m.old[p]]
  BY <1>1, <1>3 DEF MenuType
<1> QED
  BY <1>4 DEF WellFormed, p

\* Confirm, with which an edit is committed, keeps the menu well formed.
LEMMA ConfirmType ==
  ASSUME NEW m, WellFormed(m), m.editing, NEW n, n = Send(m, "Confirm")
  PROVE  /\ WellFormed(n) /\ ~n.editing
         /\ n.selected = m.selected
         /\ n.old = [m.old EXCEPT ![Selected(m)] = m.value[Selected(m)]]
         /\ n.value = m.value
<1> DEFINE p == Selected(m)
<1>1. m \in MenuType /\ p \in Properties
  BY LimitsType DEF WellFormed
<1>2. n = [StopEdit(m, p, FALSE) EXCEPT !.editing = FALSE]
  BY DEF Send, SendEditing
<1> HIDE DEF p
<1>3. n = [[m EXCEPT !.old[p] = m.value[p]] EXCEPT !.editing = FALSE]
  BY <1>1, <1>2, StopEditType
<1>4. /\ ~n.editing /\ n.selected = m.selected /\ n.value = m.value
      /\ n.old = [m.old EXCEPT ![p] = m.value[p]]
  BY <1>1, <1>3 DEF MenuType
<1>5. n \in MenuType
  <2> DEFINE e == StopEdit(m, p, FALSE)
  <2>1. e \in MenuType
    BY <1>1, StopEditType
  <2>2. n = [e EXCEPT !.editing = FALSE]
    BY <1>2
  <2> HIDE DEF e
  <2> QED
    BY <2>1, <2>2 DEF MenuType
<1> QED
  BY <1>4, <1>5 DEF WellFormed, p

\* No button ever opens an edit of a constant property.
LEMMA SendWellFormed ==
  ASSUME NEW m, WellFormed(m), NEW event \in Buttons
  PROVE  WellFormed(Send(m, event))
<1>1. CASE ~m.editing
  BY <1>1, SendBrowsingType DEF WellFormed
<1>2. CASE m.editing /\ event \in {"Up", "Down"}
  BY <1>2, TurnType
<1>3. CASE m.editing /\ event \in {"Back", "Confirm"}
  BY <1>3, BackType, ConfirmType
<1> QED
  BY <1>1, <1>2, <1>3 DEF Buttons

\* No button brings an editable property out of its range.
LEMMA SendInRange ==
  ASSUME NEW m, WellFormed(m), InRange(m), NEW event \in Buttons,
         NEW n, n = Send(m, event)
  PROVE  WellFormed(n) /\ InRange(n)
<1>1. CASE ~m.editing
  <2>1. WellFormed(n) /\ n.old = m.old /\ n.value = m.value
    BY <1>1, SendBrowsingType DEF WellFormed
  <2> QED BY <2>1 DEF InRange
<1>2. CASE m.editing
  <2> DEFINE s == Selected(m)
  <2>1. s \in Editable /\ m \in MenuType /\ Editable \subseteq Properties
    BY <1>2, LimitsType DEF WellFormed
  <2> HIDE DEF s
  <2>2. CASE event \in {"Up", "Down"}
    <3>1. /\ WellFormed(n) /\ n.old = m.old
          /\ n.value[s] \in Low(s) .. High(s)
          /\ \A q \in Properties \ {s} : n.value[q] = m.value[q]
      BY <1>2, <2>2, TurnType DEF s
    <3> QED BY <2>1, <3>1 DEF InRange
  <2>3. CASE event = "Back"
    <3>1. WellFormed(n) /\ n.old = m.old /\ n.value = [m.value EXCEPT ![s] = m.old[s]]
      BY <1>2, <2>3, BackType DEF s
    <3> QED BY <2>1, <3>1 DEF InRange, MenuType
  <2>4. CASE event = "Confirm"
    <3>1. WellFormed(n) /\ n.old = [m.old EXCEPT ![s] = m.value[s]] /\ n.value = m.value
      BY <1>2, <2>4, ConfirmType DEF s
    <3> QED BY <2>1, <3>1 DEF InRange, MenuType
  <2> QED BY <2>2, <2>3, <2>4 DEF Buttons
<1> QED
  BY <1>1, <1>2
=============================================================================
