---------------------------- MODULE MCClosedLoop ----------------------------
(* ClosedLoop with the constants of the program. *)
EXTENDS ClosedLoop

Goal(g) == <<[key |-> "auto", value |-> 1], [key |-> "pressure", value |-> g]>>
Fan(v)  == <<[key |-> "auto", value |-> 0], [key |-> "speed", value |-> v]>>

MCGoals == {5, 10, 20, 30, 60, 90, 120}
MCMessages == {Goal(g) : g \in MCGoals} \cup {Fan(100)}

MCScenarios == {<<Goal(g)>> : g \in MCGoals} \cup {<<Fan(100), Goal(g)>> : g \in MCGoals}

\* Ducts with 126.6 Pa at full speed, and twice that.
MCGains == {32, 64}

\* Any pressure the ducts can have.
MCReadings == 0 .. Max16
MCSensorReadings == {<<21, 0, 0>>}
=============================================================================
