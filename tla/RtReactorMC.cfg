CONSTANTS
  a = a
  b = b
  g = g
  RustTasks <- MCRustTasks
  GTasks <- MCGTasks
  Fd <- OwnFd
  Arg <- SocketId
SPECIFICATION ReactorFairSpec
INVARIANTS ReadyMeansData WokenDeregisterIsFinal
PROPERTIES EveryTaskCompletes ReactorStops
\* the program ends
CHECK_DEADLOCK FALSE
