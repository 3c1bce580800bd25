CONSTANTS
  main = main
  t1 = t1
  t2 = t2
  t3 = t3
  Threads <- MCThreads
  Root = main
  Producer = t1
  MaxWrites = 2
  MaxRounds = 3
SPECIFICATION ProgramFairSpec
INVARIANTS NoLostUpdate RunsOnce ReturnSeesInit NoUseAfterFree Rendezvous
PROPERTIES ImplementsLock EveryConsumerFinishes EventuallyFreed
\* the program ends
CHECK_DEADLOCK FALSE
