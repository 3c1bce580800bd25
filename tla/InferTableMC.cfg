CONSTANTS
  A = A
  B = B
  I = I
  J = J
  i32 = i32
  u8 = u8
  bool = bool
  TyVars <- MCTyVars
  IntVars <- MCIntVars
  IntPrims <- MCIntPrims
  Others <- MCOthers
  Cons <- MCCons
  Shape <- MCShape
  Args <- MCArgs
  VarsIn <- MCVarsIn
  Calls <- MCCalls
  MaxSnapshots = 2
  Depth = 7
SPECIFICATION FairSpec
INVARIANTS NoCycle NoDanglingHandle 
PROPERTIES ProbeForgotten CallsReturn
