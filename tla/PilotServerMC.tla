---------------------------- MODULE PilotServerMC ----------------------------
EXTENDS PilotServer, TLC
CONSTANTS a, b, m1, m2
MCStreams == {a, b}
MCTurns == {m1, m2}
MCSymmetry == Permutations(MCTurns) \cup Permutations(MCStreams)
=============================================================================
