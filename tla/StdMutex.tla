------------------------------ MODULE StdMutex ------------------------------
(***************************************************************************)
(* Mutex<T> of glyim-lang-std/lib/sync.g: a spin lock over one AtomicBool, *)
(* whose operations are the SeqCst atomics of glyim-runtime.  Every atomic *)
(* operation is one step, and so is every access to the protected value    *)
(* through the guard: a client increments the value with a read (deref)    *)
(* and a separate write (deref_mut), so a second thread inside the         *)
(* critical section would lose an update.                                  *)
(***************************************************************************)
EXTENDS Naturals

CONSTANTS Threads,    \* the threads that share the mutex
          MaxWrites   \* bound: updates of the protected value in a behaviour

ASSUME MaxWritesAssumption == MaxWrites \in Nat

VARIABLES locked,  \* MutexInner.locked
          value,   \* Mutex.value
          pc,      \* what each thread does with the mutex
          seen,    \* the value a thread read through its guard
          writes   \* number of completed updates (history)

vars == <<locked, value, pc, seen, writes>>

Pcs == {"idle",   \* owns no guard
        "lock",   \* in the loop of lock()
        "held",   \* owns a guard
        "rmw"}    \* owns a guard and has read the value it will update

Init ==
  /\ locked = FALSE
  /\ value = 0
  /\ pc = [t \in Threads |-> "idle"]
  /\ seen = [t \in Threads |-> 0]
  /\ writes = 0

Lock(t) ==
  /\ pc[t] = "idle"
  /\ pc' = [pc EXCEPT ![t] = "lock"]
  /\ UNCHANGED <<locked, value, seen, writes>>

(* A compare_exchange that ignores what it compares with: the load-then-   *)
(* store of the code before patch STD-2.                                   *)
RacyCasLocked(t) == locked' = TRUE

(* compare_exchange(false, true) that succeeds; a failed one changes       *)
(* nothing and the thread yields, or try_lock returns None.                *)
CasLocked(t) == ~locked /\ locked' = TRUE

SpinAcquire(t) ==
  /\ pc[t] = "lock"
  /\ CasLocked(t)
  /\ pc' = [pc EXCEPT ![t] = "held"]
  /\ UNCHANGED <<value, seen, writes>>

TryLock(t) ==
  /\ pc[t] = "idle"
  /\ CasLocked(t)
  /\ pc' = [pc EXCEPT ![t] = "held"]
  /\ UNCHANGED <<value, seen, writes>>

Deref(t) ==
  /\ pc[t] = "held"
  /\ writes < MaxWrites
  /\ seen' = [seen EXCEPT ![t] = value]
  /\ pc' = [pc EXCEPT ![t] = "rmw"]
  /\ UNCHANGED <<locked, value, writes>>

DerefMut(t) ==
  /\ pc[t] = "rmw"
  /\ value' = seen[t] + 1
  /\ writes' = writes + 1
  /\ pc' = [pc EXCEPT ![t] = "held"]
  /\ UNCHANGED <<locked, seen>>

DropGuard(t) ==
  /\ pc[t] = "held"
  /\ locked' = FALSE
  /\ pc' = [pc EXCEPT ![t] = "idle"]
  /\ UNCHANGED <<value, seen, writes>>

Step(t) == \/ Lock(t) \/ SpinAcquire(t) \/ TryLock(t)
           \/ Deref(t) \/ DerefMut(t) \/ DropGuard(t)

Next == \E t \in Threads : Step(t)

Spec == Init /\ [][Next]_vars
-----------------------------------------------------------------------------
Guarding(t) == pc[t] \in {"held", "rmw"}

TypeOK ==
  /\ locked \in BOOLEAN
  /\ value \in 0 .. MaxWrites
  /\ pc \in [Threads -> Pcs]
  /\ seen \in [Threads -> 0 .. MaxWrites]
  /\ writes \in 0 .. MaxWrites

(* Two guards of one mutex never coexist, and the lock bit is set exactly  *)
(* while a guard exists (STD-2: both threads used to win the CAS).         *)
MutualExclusion ==
  /\ \A s, t \in Threads : Guarding(s) /\ Guarding(t) => s = t
  /\ locked <=> \E t \in Threads : Guarding(t)

(* No update made through a guard is overwritten by another thread's: the  *)
(* protected value counts every completed update.                          *)
NoLostUpdate == value = writes

(* The mutex implements the lock specification with no readers. *)
Abstract == INSTANCE LockSpec WITH readers <- {},
                                   writers <- {t \in Threads : Guarding(t)}
ImplementsLock == Abstract!Spec
=============================================================================
