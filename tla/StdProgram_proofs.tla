-------------------------- MODULE StdProgram_proofs --------------------------
(***************************************************************************)
(* Proofs about the primitives of glyim-lang-std/lib/sync.g, for any set   *)
(* of threads and any bounds.  Each primitive is proved by itself: the     *)
(* mutex for every behaviour of StdMutex, the others for every behaviour   *)
(* of their instances in StdProgram.  A step of the program is a step of   *)
(* one of them and leaves the others alone, so the program inherits what   *)
(* each of them promises.                                                  *)
(***************************************************************************)
EXTENDS StdProgram, FiniteSetTheorems, TLAPS

(* A thread between deref and deref_mut read the value no other thread has *)
(* changed since: what makes NoLostUpdate inductive.                       *)
SeenIsCurrent == \A t \in Threads : pc[t] = "rmw" => seen[t] = value

(* Some updates are still allowed while a thread is about to write. *)
RoomToWrite == \A t \in Threads : pc[t] = "rmw" => writes < MaxWrites

IInv == /\ TypeOK
        /\ MutualExclusion
        /\ NoLostUpdate
        /\ SeenIsCurrent
        /\ RoomToWrite

LEMMA InitIInv == Init => IInv
<1> SUFFICES ASSUME Init PROVE IInv
  OBVIOUS
<1>1. TypeOK
  <2>1. 0 \in 0 .. MaxWrites
    BY MaxWritesAssumption DEF MaxWritesAssumption
  <2>2. pc \in [Threads -> Pcs]
    BY DEF Init, Pcs
  <2> QED
    BY <2>1, <2>2 DEF Init, TypeOK
<1>2. MutualExclusion
  BY DEF Init, MutualExclusion, Guarding
<1>3. NoLostUpdate /\ SeenIsCurrent /\ RoomToWrite
  BY DEF Init, NoLostUpdate, SeenIsCurrent, RoomToWrite
<1> QED
  BY <1>1, <1>2, <1>3 DEF IInv

(* Every step of the mutex and of its clients preserves the invariant. *)
LEMMA StepIInv == IInv /\ [Next]_vars => IInv'
<1>1. SUFFICES ASSUME IInv, [Next]_vars
               PROVE  IInv'
  OBVIOUS
<1>2. CASE UNCHANGED vars
  BY <1>1, <1>2 DEF vars, IInv, TypeOK, MutualExclusion, Guarding, NoLostUpdate,
     SeenIsCurrent, RoomToWrite
<1>3. CASE Next
  <2>1. PICK t \in Threads : Step(t)
    BY <1>3 DEF Next
  <2>2. CASE Lock(t)
    BY <1>1, <2>2 DEF Lock, IInv, TypeOK, Pcs, MutualExclusion, Guarding,
       NoLostUpdate, SeenIsCurrent, RoomToWrite
  <2>3. CASE SpinAcquire(t)
    BY <1>1, <2>3 DEF SpinAcquire, CasLocked, IInv, TypeOK, Pcs, MutualExclusion,
       Guarding, NoLostUpdate, SeenIsCurrent, RoomToWrite
  <2>4. CASE TryLock(t)
    BY <1>1, <2>4 DEF TryLock, CasLocked, IInv, TypeOK, Pcs, MutualExclusion,
       Guarding, NoLostUpdate, SeenIsCurrent, RoomToWrite
  <2>5. CASE Deref(t)
    BY <1>1, <2>5 DEF Deref, IInv, TypeOK, Pcs, MutualExclusion, Guarding,
       NoLostUpdate, SeenIsCurrent, RoomToWrite
  <2>6. CASE DerefMut(t)
    <3>1. seen[t] = value /\ value = writes /\ writes \in 0 .. MaxWrites - 1
      BY <1>1, <2>6, MaxWritesAssumption
         DEF MaxWritesAssumption, DerefMut, IInv, TypeOK, SeenIsCurrent,
             NoLostUpdate, RoomToWrite
    <3>2. TypeOK' /\ NoLostUpdate'
      BY <1>1, <2>6, <3>1, MaxWritesAssumption
         DEF MaxWritesAssumption, DerefMut, IInv, TypeOK, Pcs, NoLostUpdate
    <3>3. MutualExclusion' /\ SeenIsCurrent' /\ RoomToWrite'
      BY <1>1, <2>6 DEF DerefMut, IInv, TypeOK, MutualExclusion, Guarding,
         SeenIsCurrent, RoomToWrite
    <3> QED
      BY <3>2, <3>3 DEF IInv
  <2>7. CASE DropGuard(t)
    BY <1>1, <2>7 DEF DropGuard, IInv, TypeOK, Pcs, MutualExclusion, Guarding,
       NoLostUpdate, SeenIsCurrent, RoomToWrite
  <2> QED
    BY <2>1, <2>2, <2>3, <2>4, <2>5, <2>6, <2>7 DEF Step
<1> QED
  BY <1>1, <1>2, <1>3

(* Mutex<T>: two guards never coexist, whatever the number of threads, and *)
(* the lock bit is set exactly while a guard exists.                       *)
THEOREM MutexExclusion == Spec => []MutualExclusion
<1>1. IInv => MutualExclusion
  BY DEF IInv
<1> QED
  BY InitIInv, StepIInv, <1>1, PTL DEF Spec

(* Mutex<T>: no update made through a guard is lost. *)
THEOREM MutexNoLostUpdate == Spec => []NoLostUpdate
<1>1. IInv => NoLostUpdate
  BY DEF IInv
<1> QED
  BY InitIInv, StepIInv, <1>1, PTL DEF Spec

-----------------------------------------------------------------------------
Owners == {t \in Threads : Guarding(t)}

LEMMA InitRefines == Init => Abstract!Init
  BY DEF Init, Abstract!Init, Guarding

(* Acquiring, dropping and everything in between map to an acquire, a      *)
(* release or a stutter of LockSpec.                                       *)
LEMMA StepRefines == IInv /\ [Next]_vars => [Abstract!Next]_(Abstract!vars)
<1>1. SUFFICES ASSUME IInv, [Next]_vars
               PROVE  Abstract!Next \/ UNCHANGED Abstract!vars
  OBVIOUS
<1>2. CASE UNCHANGED vars
  BY <1>2 DEF vars, Abstract!vars, Guarding
<1>3. CASE Next
  <2>1. PICK t \in Threads : Step(t)
    BY <1>3 DEF Next
  <2>2. CASE Lock(t) \/ Deref(t) \/ DerefMut(t)
    <3>1. Owners' = Owners
      BY <1>1, <2>2 DEF Lock, Deref, DerefMut, Owners, Guarding, IInv, TypeOK
    <3> QED
      BY <3>1 DEF Abstract!vars, Owners
  <2>3. CASE SpinAcquire(t) \/ TryLock(t)
    <3>1. Owners = {} /\ Owners' = {t}
      BY <1>1, <2>3 DEF SpinAcquire, TryLock, CasLocked, Owners, Guarding, IInv,
         TypeOK, MutualExclusion
    <3>2. Abstract!AcquireWrite(t)
      BY <3>1 DEF Abstract!AcquireWrite, Owners
    <3> QED
      BY <3>2 DEF Abstract!Next
  <2>4. CASE DropGuard(t)
    <3>1. t \in Owners /\ Owners' = Owners \ {t}
      BY <1>1, <2>4 DEF DropGuard, Owners, Guarding, IInv, TypeOK
    <3>2. Abstract!ReleaseWrite(t)
      BY <3>1 DEF Abstract!ReleaseWrite, Owners
    <3> QED
      BY <3>2 DEF Abstract!Next
  <2> QED
    BY <2>1, <2>2, <2>3, <2>4 DEF Step
<1> QED
  BY <1>1, <1>2, <1>3

(* Mutex<T> implements the lock specification: its guards are acquired and *)
(* released as if each were one atomic step.                               *)
THEOREM MutexRefinesLock == Spec => ImplementsLock
  BY InitRefines, StepRefines, InitIInv, StepIInv, PTL
     DEF Spec, ImplementsLock, Abstract!Spec
-----------------------------------------------------------------------------
(* OnceLock *)

OnceTypeOK ==
  /\ state \in {0, 1, 2}
  /\ first \in BOOLEAN /\ second \in BOOLEAN
  /\ runs \in Nat
  /\ opc \in [Threads -> {"call", "f", "g", "publish", "spin", "returned"}]

(* Whoever won the compare_exchange and has not stored 2 yet. *)
Running(t) == opc[t] \in {"f", "g", "publish"}

OneWinner ==
  /\ \A s, t \in Threads : Running(s) /\ Running(t) => s = t
  /\ \A t \in Threads : Running(t) => state = 1

ClaimedOnce ==
  /\ state = 0 => runs = 0
  /\ state # 0 => runs = 1

(* How much of the initialisation exists, by how far the winner has come. *)
HalvesInOrder ==
  /\ \A t \in Threads : opc[t] = "g" => first
  /\ \A t \in Threads : opc[t] = "publish" => first /\ second
  /\ state = 2 => first /\ second

(* A waiter lost to a claim, and nobody returns before the state is 2. *)
WaitersLost ==
  \A t \in Threads : /\ opc[t] = "spin" => state # 0
                     /\ opc[t] = "returned" => state = 2

OnceInv == OnceTypeOK /\ OneWinner /\ ClaimedOnce /\ HalvesInOrder /\ WaitersLost

LEMMA OnceInit == Once!Init => OnceInv
<1> SUFFICES ASSUME Once!Init PROVE OnceInv
  OBVIOUS
<1>1. OnceTypeOK
  BY DEF Once!Init, OnceTypeOK
<1>2. OneWinner /\ ClaimedOnce /\ HalvesInOrder /\ WaitersLost
  BY DEF Once!Init, OneWinner, Running, ClaimedOnce, HalvesInOrder, WaitersLost
<1> QED
  BY <1>1, <1>2 DEF OnceInv

LEMMA OnceStep == OnceInv /\ [Once!Next]_(Once!vars) => OnceInv'
<1> USE DEF OnceInv
<1>1. SUFFICES ASSUME OnceInv, [Once!Next]_(Once!vars)
               PROVE  OnceInv'
  OBVIOUS
<1>2. CASE UNCHANGED Once!vars
  BY <1>1, <1>2 DEF Once!vars, OnceTypeOK, OneWinner, Running, ClaimedOnce,
     HalvesInOrder, WaitersLost
<1>3. CASE Once!Next
  <2>1. PICK t \in Threads : Once!Step(t)
    BY <1>3 DEF Once!Next
  <2>2. CASE Once!CasWins(t)
    BY <1>1, <2>2 DEF Once!CasWins, Once!ClaimState, Once!Goto, OnceTypeOK,
       OneWinner, Running, ClaimedOnce, HalvesInOrder, WaitersLost
  <2>3. CASE Once!CasLoses(t)
    BY <1>1, <2>3 DEF Once!CasLoses, Once!Goto, OnceTypeOK,
       OneWinner, Running, ClaimedOnce, HalvesInOrder, WaitersLost
  <2>4. CASE Once!RunFirst(t)
    BY <1>1, <2>4 DEF Once!RunFirst, Once!Goto, OnceTypeOK,
       OneWinner, Running, ClaimedOnce, HalvesInOrder, WaitersLost
  <2>5. CASE Once!RunSecond(t)
    BY <1>1, <2>5 DEF Once!RunSecond, Once!Goto, OnceTypeOK,
       OneWinner, Running, ClaimedOnce, HalvesInOrder, WaitersLost
  <2>6. CASE Once!Publish(t)
    BY <1>1, <2>6 DEF Once!Publish, Once!Goto, OnceTypeOK,
       OneWinner, Running, ClaimedOnce, HalvesInOrder, WaitersLost
  <2>7. CASE Once!SpinEnds(t)
    BY <1>1, <2>7 DEF Once!SpinEnds, Once!Goto, OnceTypeOK,
       OneWinner, Running, ClaimedOnce, HalvesInOrder, WaitersLost
  <2> QED
    BY <2>1, <2>2, <2>3, <2>4, <2>5, <2>6, <2>7 DEF Once!Step
<1> QED
  BY <1>1, <1>2, <1>3

LEMMA OnceSafe == Once!Spec => [](RunsOnce /\ ReturnSeesInit)
<1>1. OnceInv => RunsOnce /\ ReturnSeesInit
  BY DEF OnceInv, OnceTypeOK, ClaimedOnce, HalvesInOrder, WaitersLost, RunsOnce,
     ReturnSeesInit, Once!RunsOnce, Once!ReturnSeesInit
<1> QED
  BY OnceInit, OnceStep, <1>1, PTL DEF Once!Spec

(* Whoever waits in call_once waits for a thread that is on its way to the *)
(* store of 2: the closure was started and has not been abandoned.         *)
ClaimHasRunner == state = 1 => \E t \in Threads : Running(t)
SpinnersHaveRunner ==
  \A t \in Threads : opc[t] = "spin" /\ state # 2 => \E s \in Threads : Running(s)

LEMMA OnceMoves == Once!Spec => []SpinnersHaveRunner
<1>1. Once!Init => ClaimHasRunner
  BY DEF Once!Init, ClaimHasRunner
<1>2. OnceInv /\ ClaimHasRunner /\ [Once!Next]_(Once!vars) => ClaimHasRunner'
  <2> SUFFICES ASSUME OnceInv, ClaimHasRunner, [Once!Next]_(Once!vars), state' = 1
               PROVE  \E t \in Threads : Running(t)'
    BY DEF ClaimHasRunner
  <2>1. opc \in [Threads -> {"call", "f", "g", "publish", "spin", "returned"}]
    BY DEF OnceInv, OnceTypeOK
  <2>2. CASE UNCHANGED Once!vars
    BY <2>2 DEF Once!vars, ClaimHasRunner, Running
  <2>3. CASE \E t \in Threads : Once!CasWins(t)
    BY <2>1, <2>3 DEF Once!CasWins, Once!Goto, Running
  <2>4. CASE \E t \in Threads : Once!RunFirst(t) \/ Once!RunSecond(t)
    BY <2>1, <2>4 DEF Once!RunFirst, Once!RunSecond, Once!Goto, Running
  <2>5. CASE \E t \in Threads : Once!CasLoses(t) \/ Once!SpinEnds(t)
    <3>1. PICK t \in Threads : Once!CasLoses(t) \/ Once!SpinEnds(t)
      BY <2>5
    <3>2. state = 1
      BY <3>1 DEF Once!CasLoses, Once!SpinEnds
    <3>3. PICK s \in Threads : Running(s)
      BY <3>2 DEF ClaimHasRunner
    <3>4. s # t /\ Running(s)'
      BY <2>1, <3>1, <3>3 DEF Once!CasLoses, Once!SpinEnds, Once!Goto, Running
    <3> QED
      BY <3>4
  <2>6. CASE \E t \in Threads : Once!Publish(t)
    BY <2>6 DEF Once!Publish
  <2> QED
    BY <2>2, <2>3, <2>4, <2>5, <2>6 DEF Once!Next, Once!Step
<1>3. OnceInv /\ ClaimHasRunner => SpinnersHaveRunner
  BY DEF OnceInv, OnceTypeOK, WaitersLost, ClaimHasRunner, SpinnersHaveRunner
<1> QED
  BY OnceInit, OnceStep, <1>1, <1>2, <1>3, PTL DEF Once!Spec

-----------------------------------------------------------------------------
(* Barrier, used by as many threads as it counts *)

BarrierTypeOK ==
  /\ arrived \in Nat
  /\ generation \in Nat
  /\ bpc \in [Threads -> {"out", "arrive", "spin", "reset", "open"}]
  /\ gen \in [Threads -> Nat]
  /\ entered \in [Threads -> Nat]
  /\ left \in [Threads -> Nat]

Leading(t) == bpc[t] \in {"reset", "open"}

(* Waits for the generation that is still the current one to end. *)
Current(t) == bpc[t] = "spin" /\ gen[t] = generation

Gathered == {t \in Threads : Current(t) \/ Leading(t)}

(* A thread is outside after as many rounds as generations have ended, in  *)
(* the current round, or about to leave the one that ended last.           *)
Outside(t) == bpc[t] = "out" /\ entered[t] = generation /\ left[t] = generation

InRound(t) ==
  /\ bpc[t] \in {"arrive", "spin", "reset", "open"}
  /\ gen[t] = generation
  /\ entered[t] = generation + 1
  /\ left[t] = generation

Behind(t) ==
  /\ bpc[t] = "spin"
  /\ gen[t] + 1 = generation
  /\ entered[t] = generation
  /\ left[t] = gen[t]

Placed == \A t \in Threads : Outside(t) \/ InRound(t) \/ Behind(t)

(* While one thread leads, all others spin for its generation; it opens    *)
(* the generation only after it has reset the counter.                     *)
LeaderIsLast ==
  \A t \in Threads : /\ Leading(t) => \A s \in Threads \ {t} : Current(s)
                     /\ bpc[t] = "open" => arrived = 0

(* Until a leader has reset it, the counter is exact. *)
ArrivedExact ==
  (\A t \in Threads : bpc[t] # "open") => arrived = Cardinality(Gathered)

BarrierInv == BarrierTypeOK /\ Placed /\ LeaderIsLast /\ ArrivedExact

LEMMA GatheredFinite ==
  /\ IsFiniteSet(Gathered) /\ Cardinality(Gathered) \in Nat
  /\ Cardinality(Threads) \in Nat
  BY ThreadsAssumption, FS_Subset, FS_CardinalityType
     DEF ThreadsAssumption, Gathered

LEMMA BarrierInit == Meeting!Init => BarrierInv
<1> SUFFICES ASSUME Meeting!Init PROVE BarrierInv
  OBVIOUS
<1>1. BarrierTypeOK
  BY DEF Meeting!Init, BarrierTypeOK
<1>2. Placed /\ LeaderIsLast
  BY DEF Meeting!Init, Placed, Outside, LeaderIsLast, Leading
<1>3. Gathered = {}
  BY DEF Meeting!Init, Gathered, Current, Leading
<1>4. ArrivedExact
  BY <1>3, FS_EmptySet DEF Meeting!Init, ArrivedExact
<1> QED
  BY <1>1, <1>2, <1>4 DEF BarrierInv

LEMMA BarrierStep == BarrierInv /\ [Meeting!Next]_(Meeting!vars) => BarrierInv'
<1>1. SUFFICES ASSUME BarrierInv, [Meeting!Next]_(Meeting!vars)
               PROVE  BarrierInv'
  OBVIOUS
<1> USE DEF BarrierInv
<1>2. CASE UNCHANGED Meeting!vars
  <2>1. Gathered' = Gathered
    BY <1>2 DEF Meeting!vars, Gathered, Current, Leading
  <2> QED
    BY <1>1, <1>2, <2>1 DEF Meeting!vars, BarrierTypeOK, Placed, Outside,
       InRound, Behind, LeaderIsLast, Leading, Current, ArrivedExact
<1>3. CASE Meeting!Next
  <2>1. PICK t \in Threads : Meeting!Step(t)
    BY <1>3 DEF Meeting!Next
  <2>2. CASE Meeting!Enter(t)
    <3>1. ~Leading(t) /\ ~Current(t) /\ Outside(t)
      BY <1>1, <2>2 DEF Meeting!Enter, Meeting!Goto, Leading, Current, Placed,
         InRound, Behind
    <3>2. \A s \in Threads : ~Leading(s)
      BY <1>1, <3>1 DEF LeaderIsLast
    <3>3. BarrierTypeOK'
      BY <1>1, <2>2 DEF Meeting!Enter, Meeting!Goto, BarrierTypeOK
    <3>4. Placed'
      BY <1>1, <2>2, <3>1 DEF Meeting!Enter, Meeting!Goto, BarrierTypeOK, Placed,
         Outside, InRound, Behind
    <3>5. LeaderIsLast'
      BY <1>1, <2>2, <3>2 DEF Meeting!Enter, Meeting!Goto, BarrierTypeOK,
         LeaderIsLast, Leading
    <3>6. Gathered' = Gathered
      BY <1>1, <2>2, <3>1 DEF Meeting!Enter, Meeting!Goto, BarrierTypeOK, Gathered,
         Current, Leading
    <3>7. ArrivedExact'
      BY <1>1, <2>2, <3>2, <3>6 DEF Meeting!Enter, ArrivedExact, Leading
    <3> QED
      BY <3>3, <3>4, <3>5, <3>7
  <2>3. CASE Meeting!ArriveLast(t) \/ Meeting!ArriveEarly(t)
    <3>1. /\ bpc[t] = "arrive" /\ InRound(t)
          /\ arrived' = arrived + 1
          /\ UNCHANGED <<generation, gen, entered, left>>
          /\ bpc' = [bpc EXCEPT ![t] = IF arrived + 1 = Cardinality(Threads)
                                         THEN "reset" ELSE "spin"]
      BY <1>1, <2>3 DEF Meeting!ArriveLast, Meeting!ArriveEarly, Meeting!Goto, Placed,
         Outside, Behind
    <3>2. \A s \in Threads : ~Leading(s)
      BY <1>1, <3>1 DEF LeaderIsLast, Leading, Current
    <3>3. BarrierTypeOK'
      BY <1>1, <3>1 DEF BarrierTypeOK
    <3>4. Placed'
      BY <1>1, <3>1 DEF BarrierTypeOK, Placed, Outside, InRound, Behind
    <3>5. t \notin Gathered /\ Gathered' = Gathered \cup {t}
      BY <1>1, <3>1 DEF BarrierTypeOK, Gathered, Current, Leading, InRound
    <3>6. arrived = Cardinality(Gathered)
      BY <1>1, <3>2 DEF ArrivedExact, Leading
    <3>7. arrived' = Cardinality(Gathered')
      BY <3>1, <3>5, <3>6, GatheredFinite, FS_AddElement
    <3>8. LeaderIsLast'
      <4>1. CASE arrived + 1 = Cardinality(Threads)
        <5>1. Gathered \cup {t} = Threads
          <6>1. Gathered \cup {t} \subseteq Threads
            BY DEF Gathered
          <6>2. Cardinality(Gathered \cup {t}) = Cardinality(Threads)
            BY <3>5, <3>6, <4>1, GatheredFinite, FS_AddElement
          <6> QED
            BY <6>1, <6>2, FS_Subset, ThreadsAssumption DEF ThreadsAssumption
        <5>2. \A s \in Threads \ {t} : Current(s)
          BY <3>2, <3>5, <5>1 DEF Gathered
        <5> QED
          BY <1>1, <3>1, <3>2, <5>2 DEF BarrierTypeOK, LeaderIsLast, Leading, Current
      <4>2. CASE arrived + 1 # Cardinality(Threads)
        BY <1>1, <3>1, <3>2, <4>2 DEF BarrierTypeOK, LeaderIsLast, Leading
      <4> QED
        BY <4>1, <4>2
    <3> QED
      BY <3>3, <3>4, <3>7, <3>8 DEF ArrivedExact
  <2>4. CASE Meeting!ResetArrived(t)
    <3>1. /\ bpc[t] = "reset" /\ bpc' = [bpc EXCEPT ![t] = "open"]
          /\ arrived' = 0
          /\ UNCHANGED <<generation, gen, entered, left>>
      BY <2>4 DEF Meeting!ResetArrived, Meeting!Goto
    <3>2. BarrierTypeOK' /\ Placed'
      BY <1>1, <3>1 DEF BarrierTypeOK, Placed, Outside, InRound, Behind
    <3>3. \A s \in Threads \ {t} : Current(s)
      BY <1>1, <3>1 DEF LeaderIsLast, Leading
    <3>4. LeaderIsLast'
      BY <1>1, <3>1, <3>3 DEF BarrierTypeOK, LeaderIsLast, Leading, Current
    <3>5. ArrivedExact'
      BY <1>1, <3>1 DEF BarrierTypeOK, ArrivedExact
    <3> QED
      BY <3>2, <3>4, <3>5
  <2>5. CASE Meeting!OpenGeneration(t)
    <3>1. /\ bpc[t] = "open" /\ bpc' = [bpc EXCEPT ![t] = "out"]
          /\ generation' = generation + 1
          /\ left' = [left EXCEPT ![t] = @ + 1]
          /\ UNCHANGED <<arrived, gen, entered>>
      BY <2>5 DEF Meeting!OpenGeneration, Meeting!Goto
    <3>2. InRound(t) /\ arrived = 0
      BY <1>1, <3>1 DEF Placed, Outside, Behind, LeaderIsLast
    <3>3. \A s \in Threads \ {t} : Current(s) /\ InRound(s)
      BY <1>1, <3>1 DEF LeaderIsLast, Leading, Placed, Outside, Behind, Current,
         BarrierTypeOK
    <3>4. BarrierTypeOK'
      BY <1>1, <3>1 DEF BarrierTypeOK
    <3>5. Outside(t)'
      BY <1>1, <3>1, <3>2 DEF BarrierTypeOK, Outside, InRound
    <3>6. \A s \in Threads \ {t} : Behind(s)'
      BY <1>1, <3>1, <3>3 DEF BarrierTypeOK, Behind, InRound, Current
    <3>7. Placed'
      BY <3>5, <3>6 DEF Placed
    <3>8. \A s \in Threads : ~Leading(s)' /\ ~Current(s)'
      BY <1>1, <3>1, <3>3 DEF BarrierTypeOK, Leading, Current
    <3>9. LeaderIsLast'
      BY <3>8 DEF LeaderIsLast, Leading
    <3>10. Gathered' = {}
      BY <3>8 DEF Gathered
    <3>11. ArrivedExact'
      BY <3>1, <3>2, <3>10, FS_EmptySet DEF ArrivedExact
    <3> QED
      BY <3>4, <3>7, <3>9, <3>11
  <2>6. CASE Meeting!Leave(t)
    <3>1. /\ bpc[t] = "spin" /\ bpc' = [bpc EXCEPT ![t] = "out"]
          /\ generation # gen[t]
          /\ left' = [left EXCEPT ![t] = @ + 1]
          /\ UNCHANGED <<arrived, generation, gen, entered>>
      BY <2>6 DEF Meeting!Leave, Meeting!Goto
    <3>2. Behind(t)
      BY <1>1, <3>1 DEF Placed, Outside, InRound
    <3>3. ~Leading(t) /\ ~Current(t)
      BY <3>1 DEF Leading, Current
    <3>4. \A s \in Threads : ~Leading(s)
      BY <1>1, <3>3 DEF LeaderIsLast
    <3>5. BarrierTypeOK'
      BY <1>1, <3>1 DEF BarrierTypeOK
    <3>6. Placed'
      BY <1>1, <3>1, <3>2 DEF BarrierTypeOK, Placed, Outside, InRound, Behind
    <3>7. LeaderIsLast'
      BY <1>1, <3>1, <3>4 DEF BarrierTypeOK, LeaderIsLast, Leading
    <3>8. Gathered' = Gathered
      BY <1>1, <3>1, <3>3 DEF BarrierTypeOK, Gathered, Current, Leading
    <3>9. ArrivedExact'
      BY <1>1, <3>1, <3>4, <3>8 DEF ArrivedExact, Leading
    <3> QED
      BY <3>5, <3>6, <3>7, <3>9
  <2> QED
    BY <2>1, <2>2, <2>3, <2>4, <2>5, <2>6 DEF Meeting!Step
<1> QED
  BY <1>1, <1>2, <1>3

LEMMA BarrierSafe == Meeting!Spec => []Rendezvous
<1>1. BarrierInv => Rendezvous
  <2>1. ASSUME BarrierInv, NEW t \in Threads
        PROVE  left[t] <= generation /\ generation <= entered[t]
    BY <2>1 DEF BarrierInv, BarrierTypeOK, Placed, Outside, InRound, Behind
  <2>2. ASSUME BarrierInv
        PROVE  /\ generation \in Nat
               /\ \A t \in Threads : left[t] \in Nat /\ entered[t] \in Nat
    BY <2>2 DEF BarrierInv, BarrierTypeOK
  <2>3. ASSUME BarrierInv, NEW s \in Threads, NEW t \in Threads
        PROVE  left[s] <= entered[t]
    BY <2>1, <2>2, <2>3
  <2> QED
    BY <2>3 DEF Rendezvous, Meeting!Rendezvous
<1> QED
  BY BarrierInit, BarrierStep, <1>1, PTL DEF Meeting!Spec

(* Never do all threads spin for one generation: one of them is still to   *)
(* arrive, or is the leader and will open the next.                        *)
SomebodyToCome ==
  (\E t \in Threads : Leading(t)) \/ (\E t \in Threads : ~Current(t))

LEMMA BarrierMoves == Meeting!Spec => []SomebodyToCome
<1>1. Meeting!Init => SomebodyToCome
  BY ProducerAssumption DEF ProducerAssumption, Meeting!Init, SomebodyToCome, Current
<1>2. BarrierInv /\ SomebodyToCome /\ [Meeting!Next]_(Meeting!vars) => SomebodyToCome'
  <2> SUFFICES ASSUME BarrierInv, SomebodyToCome, [Meeting!Next]_(Meeting!vars)
               PROVE  SomebodyToCome'
    OBVIOUS
  <2>1. bpc \in [Threads -> {"out", "arrive", "spin", "reset", "open"}]
    BY DEF BarrierInv, BarrierTypeOK
  <2>2. CASE UNCHANGED Meeting!vars
    BY <2>2 DEF Meeting!vars, SomebodyToCome, Current, Leading
  <2>3. ASSUME NEW t \in Threads,
               \/ Meeting!Enter(t) \/ Meeting!ArriveLast(t) \/ Meeting!ResetArrived(t)
               \/ Meeting!OpenGeneration(t) \/ Meeting!Leave(t)
        PROVE  SomebodyToCome'
    BY <2>1, <2>3 DEF Meeting!Enter, Meeting!ArriveLast, Meeting!ResetArrived,
       Meeting!OpenGeneration, Meeting!Leave, Meeting!Goto, SomebodyToCome, Current, Leading
  <2>4. ASSUME NEW t \in Threads, Meeting!ArriveEarly(t)
        PROVE  SomebodyToCome'
    <3>1. /\ arrived + 1 # Cardinality(Threads) /\ arrived' = arrived + 1
          /\ bpc' = [bpc EXCEPT ![t] = "spin"] /\ bpc[t] = "arrive"
      BY <2>4 DEF Meeting!ArriveEarly, Meeting!Goto
    <3>2. \A s \in Threads : ~Leading(s)
      BY <3>1 DEF BarrierInv, LeaderIsLast, Leading, Current
    <3>3. \A s \in Threads : bpc'[s] # "open"
      BY <2>1, <3>1, <3>2 DEF Leading
    <3>4. arrived' = Cardinality(Gathered')
      BY <3>3, BarrierStep DEF BarrierInv, ArrivedExact
    <3>5. Gathered' # Threads
      BY <3>1, <3>4
    <3> QED
      BY <3>5 DEF Gathered, SomebodyToCome
  <2> QED
    BY <2>2, <2>3, <2>4 DEF Meeting!Next, Meeting!Step
<1> QED
  BY BarrierInit, BarrierStep, <1>1, <1>2, PTL DEF Meeting!Spec

-----------------------------------------------------------------------------
(* Arc *)

Live == Shared!Live
Closing == Shared!Closing

(* The strong count is the number of live handles. *)
LiveCounted == IsFiniteSet(Live) /\ strong = Cardinality(Live)

(* The weak count stays until the last strong reference is gone. *)
WeakHeld ==
  /\ Live # {} => weak = 1
  /\ \A h \in Closing : handle[h] = "last_strong" <=> weak = 1

ArcInv == /\ Shared!TypeOK
          /\ LiveCounted
          /\ WeakHeld
          /\ NoUseAfterFree

LEMMA ArcInit == Shared!Init => ArcInv
<1> SUFFICES ASSUME Shared!Init PROVE ArcInv
  OBVIOUS
<1>1. PICK r \in Threads \cup {Root} : Shared!InitHandle(r)
  BY DEF Shared!Init
<1>2. Live = {r} /\ Closing = {}
  BY <1>1 DEF Shared!InitHandle, Live, Shared!Live, Closing, Shared!Closing
<1>3. Shared!TypeOK
  BY <1>1 DEF Shared!Init, Shared!InitHandle, Shared!TypeOK, Shared!States
<1>4. LiveCounted
  BY <1>2, FS_Singleton DEF Shared!Init, LiveCounted
<1>5. WeakHeld /\ NoUseAfterFree
  BY <1>2 DEF Shared!Init, WeakHeld, NoUseAfterFree, Shared!NoUseAfterFree, Closing
<1> QED
  BY <1>3, <1>4, <1>5 DEF ArcInv

LEMMA ArcStep == ArcInv /\ [Shared!Next]_(Shared!vars) => ArcInv'
<1>1. SUFFICES ASSUME ArcInv, [Shared!Next]_(Shared!vars)
               PROVE  ArcInv'
  OBVIOUS
<1> DEFINE H == Threads \cup {Root}
<1>2. /\ Live = {h \in H : handle[h] = "live"}
      /\ Live' = {h \in H : handle'[h] = "live"}
      /\ Closing = {h \in H : handle[h] \in {"last_strong", "last_weak"}}
      /\ Closing' = {h \in H : handle'[h] \in {"last_strong", "last_weak"}}
  BY DEF Live, Closing, Shared!Live, Shared!Closing
<1>3. /\ strong \in Nat /\ weak \in {0, 1} /\ freed \in Nat
      /\ handle \in [H -> Shared!States]
  BY <1>1 DEF ArcInv, Shared!TypeOK
<1>4. IsFiniteSet(Live) /\ strong = Cardinality(Live)
  BY <1>1 DEF ArcInv, LiveCounted
<1>5. /\ Live # {} => Closing = {} /\ freed = 0 /\ weak = 1
      /\ \A h, k \in Closing : h = k
      /\ Closing # {} => freed = 0
      /\ freed <= 1
      /\ \A h \in Closing : handle[h] = "last_strong" <=> weak = 1
  BY <1>1 DEF ArcInv, WeakHeld, NoUseAfterFree, Shared!NoUseAfterFree, Live, Closing
(* What has to be shown of the next state. *)
<1>6. SUFFICES
        /\ strong' \in Nat /\ weak' \in {0, 1} /\ freed' \in Nat
        /\ handle' \in [H -> Shared!States]
        /\ IsFiniteSet(Live') /\ strong' = Cardinality(Live')
        /\ Live' # {} => Closing' = {} /\ freed' = 0 /\ weak' = 1
        /\ \A h, k \in Closing' : h = k
        /\ Closing' # {} => freed' = 0
        /\ freed' <= 1
        /\ \A h \in Closing' : handle'[h] = "last_strong" <=> weak' = 1
  BY DEF ArcInv, WeakHeld, NoUseAfterFree, Shared!NoUseAfterFree, Live, Closing,
     LiveCounted, Shared!TypeOK
<1>7. CASE UNCHANGED Shared!vars
  <2>1. UNCHANGED <<strong, weak, freed, handle>>
    BY <1>7 DEF Shared!vars
  <2>2. Live' = Live /\ Closing' = Closing
    BY <1>2, <2>1
  <2> QED
    BY <1>3, <1>4, <1>5, <2>1, <2>2
<1>8. ASSUME NEW h \in H, NEW k \in H, Shared!Clone(h, k)
      PROVE  <1>6!1
  <2>1. /\ h \in Live /\ handle[k] = "none"
        /\ handle' = [handle EXCEPT ![k] = "live"]
        /\ strong' = strong + 1 /\ UNCHANGED <<weak, freed>>
    BY <1>2, <1>8 DEF Shared!Clone, Shared!Moves
  <2>2. k \notin Live /\ Live' = Live \cup {k} /\ Closing' = Closing
    BY <1>2, <1>3, <2>1
  <2>3. IsFiniteSet(Live') /\ strong' = Cardinality(Live')
    BY <1>4, <2>1, <2>2, FS_AddElement
  <2>4. handle' \in [H -> Shared!States]
    BY <1>3, <2>1 DEF Shared!States
  <2> QED
    BY <1>3, <1>5, <2>1, <2>2, <2>3, <2>4
<1>9. ASSUME NEW h \in H, Shared!DropStrong(h)
      PROVE  <1>6!1
  <2>1. /\ h \in Live
        /\ handle' = [handle EXCEPT
                        ![h] = IF strong = 1 THEN "last_strong" ELSE "gone"]
        /\ strong' = strong - 1 /\ UNCHANGED <<weak, freed>>
    BY <1>2, <1>9 DEF Shared!DropStrong
  <2>2. Live' = Live \ {h} /\ Closing = {} /\ freed = 0 /\ weak = 1
    BY <1>2, <1>3, <1>5, <2>1
  <2>3. /\ IsFiniteSet(Live') /\ strong' = Cardinality(Live')
        /\ strong' \in Nat
    <3>1. Cardinality(Live \ {h}) = strong - 1 /\ IsFiniteSet(Live \ {h})
      BY <1>4, <2>1, FS_RemoveElement
    <3>2. Cardinality(Live \ {h}) \in Nat
      BY <3>1, FS_CardinalityType
    <3> QED
      BY <2>1, <2>2, <3>1, <3>2
  <2>4. handle' \in [H -> Shared!States]
    BY <1>3, <2>1 DEF Shared!States
  <2>5. CASE strong = 1
    <3>1. Live' = {}
      BY <2>1, <2>3, <2>5, FS_EmptySet
    <3>2. Closing' = {h} /\ handle'[h] = "last_strong"
      BY <1>2, <1>3, <2>1, <2>2, <2>5
    <3> QED
      BY <1>3, <2>1, <2>2, <2>3, <2>4, <3>1, <3>2
  <2>6. CASE strong # 1
    <3>1. Closing' = {}
      BY <1>2, <1>3, <2>1, <2>2, <2>6
    <3> QED
      BY <1>3, <2>1, <2>2, <2>3, <2>4, <3>1
  <2> QED
    BY <2>5, <2>6
<1>10. ASSUME NEW h \in H, Shared!DropWeak(h)
       PROVE  <1>6!1
  <2>1. /\ h \in Closing /\ handle[h] = "last_strong"
        /\ handle' = [handle EXCEPT
                        ![h] = IF weak = 1 THEN "last_weak" ELSE "gone"]
        /\ weak' = weak - 1 /\ UNCHANGED <<strong, freed>>
    BY <1>2, <1>10 DEF Shared!DropWeak
  <2>2. weak = 1 /\ freed = 0 /\ Live = {} /\ Closing = {h}
    BY <1>5, <2>1
  <2>3. Live' = Live
    BY <1>2, <1>3, <2>1
  <2>4. Closing' = {h} /\ handle'[h] = "last_weak"
    BY <1>2, <1>3, <2>1, <2>2
  <2>5. handle' \in [H -> Shared!States]
    BY <1>3, <2>1 DEF Shared!States
  <2> QED
    BY <1>3, <1>4, <2>1, <2>2, <2>3, <2>4, <2>5
<1>11. ASSUME NEW h \in H, Shared!Free(h)
       PROVE  <1>6!1
  <2>1. /\ h \in Closing /\ handle' = [handle EXCEPT ![h] = "gone"]
        /\ freed' = freed + 1 /\ UNCHANGED <<strong, weak>>
    BY <1>2, <1>11 DEF Shared!Free, Shared!Moves
  <2>2. freed = 0 /\ Live = {} /\ Closing = {h}
    BY <1>5, <2>1
  <2>3. Live' = Live /\ Closing' = {}
    BY <1>2, <1>3, <2>1, <2>2
  <2>4. handle' \in [H -> Shared!States]
    BY <1>3, <2>1 DEF Shared!States
  <2> QED
    BY <1>3, <1>4, <2>1, <2>2, <2>3, <2>4
<1> QED
  BY <1>1, <1>7, <1>8, <1>9, <1>10, <1>11 DEF Shared!Next, Shared!Drop

LEMMA ArcSafe == Shared!Spec => []NoUseAfterFree
<1>1. ArcInv => NoUseAfterFree
  BY DEF ArcInv
<1> QED
  BY ArcInit, ArcStep, <1>1, PTL DEF Shared!Spec

(* The object is not leaked: when the last handle is gone, it is freed, or *)
(* the drop of the last handle is about to free it.                        *)
NoLeak == Live = {} /\ Closing = {} => freed = 1

LEMMA ArcFrees == Shared!Spec => []NoLeak
<1> DEFINE H == Threads \cup {Root}
<1>1. Shared!Init => NoLeak
  BY DEF Shared!Init, Shared!InitHandle, NoLeak, Live, Shared!Live
<1>2. ArcInv /\ NoLeak /\ [Shared!Next]_(Shared!vars) => NoLeak'
  <2> SUFFICES ASSUME ArcInv, NoLeak, [Shared!Next]_(Shared!vars), Live' = {}, Closing' = {}
               PROVE  freed' = 1
    BY DEF NoLeak
  <2>1. handle \in [H -> Shared!States] /\ freed \in Nat /\ weak \in {0, 1}
    BY DEF ArcInv, Shared!TypeOK
  <2>2. \A h \in H : handle'[h] \notin {"live", "last_strong", "last_weak"}
    BY DEF Live, Closing, Shared!Live, Shared!Closing
  <2>3. CASE UNCHANGED Shared!vars
    <3>1. Live = {} /\ Closing = {} /\ freed' = freed
      BY <2>3 DEF Shared!vars, Live, Closing, Shared!Live, Shared!Closing
    <3> QED
      BY <3>1 DEF NoLeak
  <2>4. ASSUME NEW h \in H, NEW k \in H, Shared!Clone(h, k)
        PROVE  FALSE
    BY <2>1, <2>2, <2>4 DEF Shared!Clone, Shared!Moves
  <2>5. ASSUME NEW h \in H, Shared!DropStrong(h)
        PROVE  FALSE
    <3>1. strong # 1 /\ h \in Live /\ Live' = Live \ {h} /\ strong' = strong - 1
      BY <2>1, <2>2, <2>5 DEF Shared!DropStrong, Live, Shared!Live
    <3>2. IsFiniteSet(Live) /\ strong = Cardinality(Live)
      BY DEF ArcInv, LiveCounted
    <3>3. Cardinality(Live \ {h}) = strong - 1
      BY <3>1, <3>2, FS_RemoveElement
    <3>4. Cardinality(Live') = 0
      BY FS_EmptySet
    <3>5. strong \in Nat
      BY DEF ArcInv, Shared!TypeOK
    <3> QED
      BY <3>1, <3>3, <3>4, <3>5
  <2>6. ASSUME NEW h \in H, Shared!DropWeak(h)
        PROVE  FALSE
    <3>1. handle[h] = "last_strong" /\ h \in Closing
      BY <2>6 DEF Shared!DropWeak, Closing, Shared!Closing
    <3>2. weak = 1
      BY <3>1 DEF ArcInv, WeakHeld
    <3> QED
      BY <2>1, <2>2, <2>6, <3>2 DEF Shared!DropWeak
  <2>7. ASSUME NEW h \in H, Shared!Free(h)
        PROVE  freed' = 1
    <3>1. handle[h] = "last_weak" /\ h \in Closing /\ freed' = freed + 1
      BY <2>7 DEF Shared!Free, Shared!Moves, Closing, Shared!Closing
    <3>2. freed = 0
      BY <3>1 DEF ArcInv, NoUseAfterFree, Shared!NoUseAfterFree, Closing
    <3> QED
      BY <3>1, <3>2
  <2> QED
    BY <2>3, <2>4, <2>5, <2>6, <2>7 DEF Shared!Next, Shared!Drop
<1> QED
  BY ArcInit, ArcStep, <1>1, <1>2, PTL DEF Shared!Spec

-----------------------------------------------------------------------------
(* The program *)

(* A step of the program is a step of one primitive or leaves it alone.    *)
LEMMA MutexOfProgram == [ProgramNext]_pvars => [Next]_vars
<1> SUFFICES ASSUME [ProgramNext]_pvars PROVE [Next]_vars
  OBVIOUS
<1>1. CASE UNCHANGED allvars
  BY <1>1 DEF allvars
<1>2. CASE \E t \in Threads : MutexStep(t)
  BY <1>2 DEF MutexStep, Next, Step
<1>3. CASE \E c \in Consumers : Consume(c) \/ SpuriousWake(c)
  BY <1>3 DEF Consumers, Consume, Finish, WaitDropGuard, WaitBlock, WaitReturn,
     SpuriousWake, Next, Step
<1>4. CASE Produce \/ NotifyOne \/ NotifyAll
  BY <1>4, ProducerAssumption
     DEF ProducerAssumption, Produce, NotifyOne, NotifyAll, Notified, Next, Step
<1> QED
  BY <1>1, <1>2, <1>3, <1>4 DEF ProgramNext, pvars, MainDrops, Worker, Share,
     Initialise, Meet, Leaves, Queue

LEMMA OnceOfProgram == [ProgramNext]_pvars => [Once!Next]_(Once!vars)
<1> SUFFICES ASSUME [ProgramNext]_pvars PROVE [Once!Next]_(Once!vars)
  OBVIOUS
<1>1. CASE UNCHANGED ovars
  BY <1>1 DEF ovars, Once!vars
<1>2. CASE \E t \in Threads : Initialise(t)
  BY <1>2 DEF Initialise, Once!Next
<1> QED
  BY <1>1, <1>2 DEF ProgramNext, pvars, MainDrops, Worker, Share, Meet, Leaves, Queue

LEMMA MeetingOfProgram == [ProgramNext]_pvars => [Meeting!Next]_(Meeting!vars)
<1> SUFFICES ASSUME [ProgramNext]_pvars PROVE [Meeting!Next]_(Meeting!vars)
  OBVIOUS
<1>1. CASE UNCHANGED bvars
  BY <1>1 DEF bvars, Meeting!vars
<1>2. CASE \E t \in Threads : Meet(t)
  BY <1>2 DEF Meet, Meeting!Next
<1> QED
  BY <1>1, <1>2 DEF ProgramNext, pvars, MainDrops, Worker, Share, Initialise,
     Leaves, Queue

LEMMA SharedOfProgram == [ProgramNext]_pvars => [Shared!Next]_(Shared!vars)
<1> SUFFICES ASSUME [ProgramNext]_pvars PROVE [Shared!Next]_(Shared!vars)
  OBVIOUS
<1>1. CASE UNCHANGED avars
  BY <1>1 DEF avars, Shared!vars
<1>2. CASE MainDrops
  BY <1>2 DEF MainDrops, Shared!Next
<1>3. CASE \E t \in Threads : Share(t)
  BY <1>3 DEF Share, Shared!Next
<1>4. CASE \E t \in Threads : Leaves(t)
  BY <1>4 DEF Leaves, Shared!Next
<1> QED
  BY <1>1, <1>2, <1>3, <1>4 DEF ProgramNext, pvars, Worker, Initialise, Meet, Queue

(* The program uses every primitive as the primitive's module specifies    *)
(* it, whatever its workers interleave: it implements all four of them.    *)
THEOREM ProgramUsesPrimitives ==
  ProgramSpec => Spec /\ Once!Spec /\ Meeting!Spec /\ Shared!Spec
<1>1. ProgramInit => Init /\ Once!Init /\ Meeting!Init /\ Shared!Init
  BY DEF ProgramInit, CondvarInit
<1> QED
  BY <1>1, MutexOfProgram, OnceOfProgram, MeetingOfProgram, SharedOfProgram, PTL
     DEF ProgramSpec, Spec, Once!Spec, Meeting!Spec, Shared!Spec

(* Mutex<T> in the program: no update made through a guard is lost, and    *)
(* guards are acquired and released as LockSpec says.                      *)
THEOREM ProgramNoLostUpdate == ProgramSpec => []NoLostUpdate
  BY ProgramUsesPrimitives, MutexNoLostUpdate, PTL

THEOREM ProgramRefinesLock == ProgramSpec => ImplementsLock
  BY ProgramUsesPrimitives, MutexRefinesLock, PTL

(* OnceLock: the closure of call_once is started at most once.             *)
THEOREM ProgramRunsOnce == ProgramSpec => []RunsOnce
  BY ProgramUsesPrimitives, OnceSafe, PTL

(* OnceLock: whoever has returned from call_once, winner or loser, sees    *)
(* the whole initialisation.                                               *)
THEOREM ProgramReturnSeesInit == ProgramSpec => []ReturnSeesInit
  BY ProgramUsesPrimitives, OnceSafe, PTL

(* Barrier: no thread returns from its n-th wait() before every thread has *)
(* begun its own n-th, for any number of threads and of rounds.            *)
THEOREM ProgramRendezvous == ProgramSpec => []Rendezvous
  BY ProgramUsesPrimitives, BarrierSafe, PTL

(* Arc: nobody frees the object, or is about to, while a handle lives, and *)
(* it is freed at most once.                                               *)
THEOREM ProgramNoUseAfterFree == ProgramSpec => []NoUseAfterFree
  BY ProgramUsesPrimitives, ArcSafe, PTL

(* OnceLock: nobody waits in call_once for a closure that nobody runs.     *)
THEOREM ProgramOnceHasRunner == ProgramSpec => []SpinnersHaveRunner
  BY ProgramUsesPrimitives, OnceMoves, PTL

(* Barrier: never do all threads wait for each other.                      *)
THEOREM ProgramBarrierMoves == ProgramSpec => []SomebodyToCome
  BY ProgramUsesPrimitives, BarrierMoves, PTL

(* Arc: an object without handles is freed, or about to be.                *)
THEOREM ProgramNoLeak == ProgramSpec => []NoLeak
  BY ProgramUsesPrimitives, ArcFrees, PTL
=====
