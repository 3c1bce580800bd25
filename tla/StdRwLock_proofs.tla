-------------------------- MODULE StdRwLock_proofs --------------------------
(***************************************************************************)
(* Proofs about StdRwLock for any finite set of threads.  The count and    *)
(* the writer bit are exact, a write guard excludes the guards of try_read *)
(* and the other writers, and those guards implement LockSpec, whatever    *)
(* other clients do with read().                                           *)
(***************************************************************************)
EXTENDS StdRwLock, FiniteSetTheorems, TLAPS

ShapeOK ==
  /\ write_locked \in BOOLEAN
  /\ value \in {0, 1}
  /\ pc \in [Threads -> Pcs]

IInv == ShapeOK /\ CountExact /\ LatchExact

(* The threads a step leaves where they were, as far as the count goes. *)
LEMMA CountedFinite ==
  IsFiniteSet(CountedThreads) /\ Cardinality(CountedThreads) \in Nat
<1>1. CountedThreads \in SUBSET Threads
  BY DEF CountedThreads
<1>2. IsFiniteSet(CountedThreads)
  BY <1>1, ThreadsAssumption, FS_Subset DEF ThreadsAssumption
<1> QED
  BY <1>2, FS_CardinalityType

LEMMA InitIInv == Init => IInv
<1> SUFFICES ASSUME Init PROVE IInv
  OBVIOUS
<1>1. ShapeOK
  BY DEF Init, ShapeOK, Pcs, Counted, Latched
<1>2. CountExact
  <2>1. CountedThreads = {}
    BY DEF Init, CountedThreads, Counted
  <2> QED
    BY <2>1, FS_EmptySet DEF Init, CountExact
<1>3. LatchExact
  BY DEF Init, LatchExact, Latched
<1> QED
  BY <1>1, <1>2, <1>3 DEF IInv
-----------------------------------------------------------------------------
Enters(t) == ReadCount(t) \/ TryReadCount(t)
Leaves(t) == DropRead(t) \/ TryReadUndo(t)
Latches(t) == WriteLatch(t) \/ TryWriteLatch(t)
Unlatches(t) == TryWriteUndo(t) \/ DropWrite(t)
Moves(t) == \/ ReadCall(t) \/ ReadSees(t) \/ TryReadSees(t) \/ TryReadOk(t)
            \/ TryReadRefused(t) \/ WriteCall(t) \/ WriteDrained(t)
            \/ TryWriteOk(t) \/ TryWriteRefused(t) \/ Mutate(t)

LEMMA StepCases ==
  ASSUME NEW t \in Threads, Step(t)
  PROVE  Enters(t) \/ Leaves(t) \/ Latches(t) \/ Unlatches(t) \/ Moves(t)
  BY DEF Step, Enters, Leaves, Latches, Unlatches, Moves

LEMMA ShapeStep ==
  ASSUME ShapeOK, NEW t \in Threads, Step(t)
  PROVE  ShapeOK'
<1> USE DEF ShapeOK, Pcs, Counted, Latched, Goto
<1>1. CASE Enters(t) \/ Leaves(t)
  BY <1>1 DEF Enters, Leaves, ReadCount, TryReadCount, DropRead,
     ReadGuardGone, TryReadUndo, Increment, Decrement
<1>2. CASE Latches(t) \/ Unlatches(t)
  BY <1>2 DEF Latches, Unlatches, WriteLatch, TryWriteLatch, TryWriteUndo,
     DropWrite, SetLatch
<1>3. CASE Moves(t)
  BY <1>3 DEF Moves, ReadCall, ReadSees, TryReadSees, TryReadOk, TryReadRefused,
     WriteCall, WriteDrained, TryWriteOk, TryWriteRefused, Mutate, Look
<1> QED
  BY <1>1, <1>2, <1>3, StepCases

(* A thread enters and leaves the count together with read_count. *)
LEMMA CountStep ==
  ASSUME IInv, NEW t \in Threads, Step(t)
  PROVE  CountExact'
<1> USE DEF IInv, ShapeOK, CountExact, CountedThreads, Counted, Latched, Goto
<1>1. CASE Enters(t)
  <2>1. /\ t \notin CountedThreads /\ CountedThreads' = CountedThreads \cup {t}
        /\ read_count' = read_count + 1
    BY <1>1 DEF Enters, ReadCount, TryReadCount, Increment
  <2> HIDE DEF CountedThreads
  <2>2. Cardinality(CountedThreads \cup {t}) = Cardinality(CountedThreads) + 1
    BY <2>1, CountedFinite, FS_AddElement
  <2> QED
    BY <2>1, <2>2
<1>2. CASE Leaves(t)
  <2>1. /\ t \in CountedThreads /\ CountedThreads' = CountedThreads \ {t}
        /\ read_count' = read_count - 1
    BY <1>2 DEF Leaves, DropRead, ReadGuardGone, TryReadUndo, Decrement
  <2> HIDE DEF CountedThreads
  <2>2. Cardinality(CountedThreads \ {t}) = Cardinality(CountedThreads) - 1
    BY <2>1, CountedFinite, FS_RemoveElement
  <2> QED
    BY <2>1, <2>2
<1>3. CASE Latches(t) \/ Unlatches(t)
  <2>1. CountedThreads' = CountedThreads /\ read_count' = read_count
    BY <1>3 DEF Latches, Unlatches, WriteLatch, TryWriteLatch, TryWriteUndo,
       DropWrite, SetLatch
  <2> HIDE DEF CountedThreads
  <2> QED
    BY <2>1
<1>4. CASE Moves(t)
  <2>1. CountedThreads' = CountedThreads /\ read_count' = read_count
    BY <1>4 DEF Moves, ReadCall, ReadSees, TryReadSees, TryReadOk,
       TryReadRefused, WriteCall, WriteDrained, TryWriteOk, TryWriteRefused,
       Mutate, Look
  <2> HIDE DEF CountedThreads
  <2> QED
    BY <2>1
<1> QED
  BY <1>1, <1>2, <1>3, <1>4, StepCases

(* The writer bit is taken when free and given back by its owner. *)
LEMMA LatchStep ==
  ASSUME IInv, NEW t \in Threads, Step(t)
  PROVE  LatchExact'
<1> USE DEF IInv, ShapeOK, LatchExact, Pcs, Counted, Latched, Goto
<1>1. CASE Enters(t) \/ Leaves(t)
  BY <1>1 DEF Enters, Leaves, ReadCount, TryReadCount, DropRead,
     ReadGuardGone, TryReadUndo, Increment, Decrement
<1>2. CASE Latches(t)
  BY <1>2 DEF Latches, WriteLatch, TryWriteLatch, SetLatch
<1>3. CASE Unlatches(t)
  BY <1>3 DEF Unlatches, TryWriteUndo, DropWrite, SetLatch
<1>4. CASE Moves(t)
  BY <1>4 DEF Moves, ReadCall, ReadSees, TryReadSees, TryReadOk, TryReadRefused,
     WriteCall, WriteDrained, TryWriteOk, TryWriteRefused, Mutate, Look
<1> QED
  BY <1>1, <1>2, <1>3, <1>4, StepCases

LEMMA StepIInv == IInv /\ [Next]_vars => IInv'
<1> SUFFICES ASSUME IInv, [Next]_vars PROVE IInv'
  OBVIOUS
<1>1. CASE UNCHANGED vars
  BY <1>1 DEF vars, IInv, ShapeOK, CountExact, CountedThreads, LatchExact
<1>2. CASE Next
  <2>1. PICK t \in Threads : Step(t)
    BY <1>2 DEF Next
  <2> QED
    BY <2>1, ShapeStep, CountStep, LatchStep DEF IInv
<1> QED
  BY <1>1, <1>2

(* RwLock<T>: the reader count is exactly the number of threads that have  *)
(* announced themselves, whatever operations are mixed.                    *)
THEOREM RwLockCountExact == Spec => []CountExact
<1>1. IInv => CountExact
  BY DEF IInv
<1> QED
  BY InitIInv, StepIInv, <1>1, PTL DEF Spec

(* RwLock<T>: at most one thread owns the writer bit, and the bit is set   *)
(* exactly while it does.                                                  *)
THEOREM RwLockLatchExact == Spec => []LatchExact
<1>1. IInv => LatchExact
  BY DEF IInv
<1> QED
  BY InitIInv, StepIInv, <1>1, PTL DEF Spec
-----------------------------------------------------------------------------
(* A write guard was granted when nobody was counted, and try_read looks   *)
(* at the writer bit while it is counted.                                  *)
CheckedInv == IInv /\ Exclusion

LEMMA NobodyCounted ==
  ASSUME IInv, read_count = 0
  PROVE  CountedThreads = {}
  BY CountedFinite, FS_EmptySet DEF IInv, CountExact

LEMMA InitChecked == Init => CheckedInv
<1> SUFFICES ASSUME Init PROVE CheckedInv
  OBVIOUS
<1>1. Exclusion
  BY DEF Init, Exclusion, CheckedGuards, WriteGuards
<1> QED
  BY <1>1, InitIInv DEF Init, CheckedInv

LEMMA StepChecked == CheckedInv /\ [Next]_vars => CheckedInv'
<1> SUFFICES ASSUME CheckedInv, [Next]_vars PROVE CheckedInv'
  OBVIOUS
<1>1. IInv'
  BY StepIInv DEF CheckedInv
<1> USE DEF CheckedInv, Exclusion, CheckedGuards, WriteGuards
<1>2. CASE UNCHANGED vars
  BY <1>1, <1>2 DEF vars
<1>3. CASE Next
  <2>1. PICK t \in Threads : Step(t)
    BY <1>3 DEF Next
  <2> USE DEF IInv, ShapeOK, Goto
  <2>2. CASE Enters(t) \/ Leaves(t)
    BY <1>1, <2>2 DEF Enters, Leaves, ReadCount, TryReadCount, DropRead,
       ReadGuardGone, TryReadUndo
  <2>3. CASE Latches(t) \/ Unlatches(t)
    BY <1>1, <2>3 DEF Latches, Unlatches, WriteLatch, TryWriteLatch,
       TryWriteUndo, DropWrite
  <2>4. CASE ReadCall(t) \/ ReadSees(t)
    BY <1>1, <2>4 DEF ReadCall, ReadSees
  <2>5. CASE TryReadOk(t)
    <3>1. WriteGuards = {}
      BY <2>5 DEF TryReadOk, LatchExact, Latched
    <3> QED
      BY <1>1, <2>5, <3>1 DEF TryReadOk
  <2>6. CASE WriteDrained(t) \/ TryWriteOk(t)
    <3>1. CountedThreads = {}
      BY <2>6, NobodyCounted DEF WriteDrained, TryWriteOk
    <3>2. CheckedGuards = {}
      BY <3>1 DEF CountedThreads, Counted
    <3>3. WriteGuards = {}
      BY <2>6 DEF WriteDrained, TryWriteOk, LatchExact, Latched
    <3> QED
      BY <1>1, <2>6, <3>2, <3>3 DEF WriteDrained, TryWriteOk
  <2>7. CASE \/ TryReadSees(t) \/ TryReadRefused(t) \/ WriteCall(t)
             \/ TryWriteRefused(t) \/ Mutate(t)
    BY <1>1, <2>7 DEF TryReadSees, TryReadRefused, WriteCall, TryWriteRefused,
       Mutate
  <2> QED
    BY <2>1, <2>2, <2>3, <2>4, <2>5, <2>6, <2>7, StepCases DEF Moves
<1> QED
  BY <1>2, <1>3

(* RwLock<T>: a write guard excludes every guard of try_read() and every   *)
(* other write guard, also when other threads use read().                  *)
THEOREM RwLockExclusion == Spec => []Exclusion
<1>1. CheckedInv => Exclusion
  BY DEF CheckedInv
<1> QED
  BY InitChecked, StepChecked, <1>1, PTL DEF Spec
-----------------------------------------------------------------------------
LEMMA InitRefines == Init => Abstract!Init
  BY DEF Init, Abstract!Init, CheckedGuards, WriteGuards

(* The checks of the code make each guard appear and vanish in one step of *)
(* LockSpec: the second look of try_read and the drained count of write    *)
(* are where the guard is acquired.                                        *)
LEMMA StepRefines ==
  CheckedInv /\ [Next]_vars => [Abstract!Next]_(Abstract!vars)
<1> SUFFICES ASSUME CheckedInv, [Next]_vars
             PROVE  Abstract!Next \/ UNCHANGED Abstract!vars
  OBVIOUS
<1> USE DEF CheckedInv, IInv, ShapeOK, Goto
<1>1. CASE UNCHANGED vars
  BY <1>1 DEF vars, Abstract!vars, CheckedGuards, WriteGuards
<1>2. CASE Next
  <2>1. PICK t \in Threads : Step(t)
    BY <1>2 DEF Next
  <2>2. CASE TryReadOk(t)
    <3>1. WriteGuards = {} /\ t \notin CheckedGuards
      BY <2>2 DEF TryReadOk, LatchExact, Latched, WriteGuards, CheckedGuards
    <3>2. CheckedGuards' = CheckedGuards \cup {t} /\ WriteGuards' = WriteGuards
      BY <2>2 DEF TryReadOk, CheckedGuards, WriteGuards
    <3> QED
      BY <3>1, <3>2 DEF Abstract!Next, Abstract!AcquireRead
  <2>3. CASE WriteDrained(t) \/ TryWriteOk(t)
    <3>1. CountedThreads = {}
      BY <2>3, NobodyCounted DEF WriteDrained, TryWriteOk
    <3>2. CheckedGuards = {} /\ CheckedGuards' = {}
      BY <2>3, <3>1 DEF CountedThreads, Counted, CheckedGuards, WriteDrained,
         TryWriteOk
    <3>3. WriteGuards = {} /\ WriteGuards' = {t}
      BY <2>3 DEF WriteDrained, TryWriteOk, LatchExact, Latched, WriteGuards
    <3> QED
      BY <3>2, <3>3 DEF Abstract!Next, Abstract!AcquireWrite
  <2>4. CASE DropRead(t)
    <3>1. /\ CheckedGuards' = CheckedGuards \ {t}
          /\ WriteGuards' = WriteGuards
      BY <2>4 DEF DropRead, ReadGuardGone, CheckedGuards, WriteGuards
    <3>2. CASE t \in CheckedGuards
      BY <3>1, <3>2 DEF Abstract!Next, Abstract!ReleaseRead
    <3>3. CASE t \notin CheckedGuards
      BY <3>1, <3>3 DEF Abstract!vars
    <3> QED
      BY <3>2, <3>3
  <2>5. CASE DropWrite(t)
    <3>1. /\ t \in WriteGuards /\ WriteGuards' = WriteGuards \ {t}
          /\ CheckedGuards' = CheckedGuards
      BY <2>5 DEF DropWrite, CheckedGuards, WriteGuards
    <3> QED
      BY <3>1 DEF Abstract!Next, Abstract!ReleaseWrite
  <2>6. CASE \/ ReadCall(t) \/ ReadSees(t) \/ ReadCount(t)
             \/ TryReadSees(t) \/ TryReadCount(t) \/ TryReadRefused(t)
             \/ TryReadUndo(t) \/ WriteCall(t) \/ WriteLatch(t)
             \/ TryWriteLatch(t) \/ TryWriteRefused(t) \/ TryWriteUndo(t)
             \/ Mutate(t)
    <3>1. CheckedGuards' = CheckedGuards /\ WriteGuards' = WriteGuards
      BY <2>6 DEF ReadCall, ReadSees, ReadCount, TryReadSees,
         TryReadCount, TryReadRefused, TryReadUndo, WriteCall, WriteLatch,
         TryWriteLatch, TryWriteRefused, TryWriteUndo, Mutate, CheckedGuards,
         WriteGuards
    <3> QED
      BY <3>1 DEF Abstract!vars
  <2> QED
    BY <2>1, <2>2, <2>3, <2>4, <2>5, <2>6 DEF Step
<1> QED
  BY <1>1, <1>2

(* RwLock<T>: the guards of try_read(), write() and try_write() implement  *)
(* the lock specification.                                                 *)
THEOREM RwLockRefinesLock == Spec => ImplementsLock
  BY InitRefines, StepRefines, InitChecked, StepChecked, PTL
     DEF Spec, ImplementsLock, Abstract!Spec
=============================================================================
