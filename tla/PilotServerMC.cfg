CONSTANTS
  a = a
  b = b
  m1 = m1
  m2 = m2
  Streams <- MCStreams
  Turns <- MCTurns
  MaxSessions = 1
  MaxFixRounds = 5
  MaxCrashes = 1
SPECIFICATION Spec
SYMMETRY MCSymmetry
INVARIANTS GuardExact CompleteIsDurable
PROPERTIES OnlyGatedCommits
\* every message has been handled
CHECK_DEADLOCK FALSE
