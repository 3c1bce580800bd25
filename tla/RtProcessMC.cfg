CONSTANTS
  k1 = k1
  k2 = k2
  daemon = daemon
  writer = writer
  p1 = p1
  p2 = p2
  Callers <- MCCallers
  Children <- MCChildren
  Endless <- MCEndless
  Chatty <- MCChatty
  Pids <- MCPids
SPECIFICATION ProcessFairSpec
INVARIANTS KillHitsOwnChild OneReaper
 
\* both callers may wait for children that never exit
CHECK_DEADLOCK FALSE
