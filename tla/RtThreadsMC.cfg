CONSTANTS
  t1 = t1
  t2 = t2
  Threads <- MCThreads
  Main = Main
SPECIFICATION FairSpec
INVARIANTS SlotOutlivesThread JoinFindsResult
 
\* a thread that parks and is not woken waits for ever, and so does its joiner
CHECK_DEADLOCK FALSE
