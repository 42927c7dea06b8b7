--------------------------- MODULE PropertyEditor ---------------------------
(***************************************************************************)
(* What the LCD editor promises about the settings a user may change: each *)
(* setting has a committed value; an edit opens on the committed value,    *)
(* changes a private draft within the setting's range, and either commits  *)
(* the draft or drops it.  The rest of the program may commit a new value  *)
(* at any time, also during an edit.  Whichever commit comes last wins.    *)
(***************************************************************************)
EXTENDS Integers

CONSTANTS
  Settings,        \* the editable settings
  Least, Greatest, \* their ranges, functions on Settings
  Initial          \* their first values

VARIABLES
  committed,      \* the value of each setting that is in force
  draft           \* the edit in progress, NoDraft if there is none

NoDraft == [prop |-> "none", value |-> 0]

vars == <<committed, draft>>

Init == committed = Initial /\ draft = NoDraft

\* The program stores a new value for setting p.
Store(p) ==
  /\ committed' = [committed EXCEPT ![p] = committed'[p]]
  /\ UNCHANGED draft

\* An edit opens on the value in force.
Open(p) ==
  /\ draft = NoDraft
  /\ draft' = [prop |-> p, value |-> committed[p]]
  /\ UNCHANGED committed

Turn(v) ==
  /\ draft # NoDraft
  /\ v \in Least[draft.prop] .. Greatest[draft.prop]
  /\ draft' = [draft EXCEPT !.value = v]
  /\ UNCHANGED committed

Commit ==
  /\ draft # NoDraft
  /\ committed' = [committed EXCEPT ![draft.prop] = draft.value]
  /\ draft' = NoDraft

Drop ==
  /\ draft # NoDraft
  /\ draft' = NoDraft
  /\ UNCHANGED committed

Next ==
  \/ \E p \in Settings : Store(p) \/ Open(p)
  \/ draft # NoDraft /\ Turn(draft'.value)
  \/ Commit
  \/ Drop

Spec == Init /\ [][Next]_vars
=============================================================================
