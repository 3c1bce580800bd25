----------------------------- MODULE PilotWaveMC -----------------------------
EXTENDS PilotWave, TLC
CONSTANTS a, b, c, ghost, p, q
MCStreams == {a, b, c}
MCProviders == {p, q}
MCLimits == {0, 1, 2}
MCStrategies == {"most_slots_first", "round_robin", "least_loaded"}

(* Every graph over the streams, those with cycles included, and one with  *)
(* an upstream that does not exist.                                        *)
MCGraphs == [MCStreams -> SUBSET MCStreams] \cup {[s \in MCStreams |-> IF s = a THEN {ghost} ELSE {a}]}
=============================================================================
