------------------------------ MODULE StdRwLock ------------------------------
(***************************************************************************)
(* RwLock<T> of glyim-lang-std/lib/sync.g: a reader count and a writer bit,*)
(* each a SeqCst atomic of glyim-runtime.  Every atomic operation is one   *)
(* step of the thread that performs it.  A thread owns at most one guard   *)
(* of the lock at a time.  read() enters after one look at the writer bit; *)
(* try_read() looks again after it has counted itself, and its guard is    *)
(* called checked here.                                                    *)
(***************************************************************************)
EXTENDS Naturals, FiniteSets

CONSTANT Threads   \* the threads that share the lock

ASSUME ThreadsAssumption == IsFiniteSet(Threads)

VARIABLES read_count,    \* RwLockInner.read_count
          write_locked,  \* RwLockInner.write_locked
          value,         \* RwLock.value, two values are enough to see a write
          pc             \* where each thread is inside the lock's functions

vars == <<read_count, write_locked, value, pc>>

(* Threads that have added themselves to read_count. *)
Counted == {"r_held", "tr_held", "tr_check", "tr_undo"}

(* Threads that have set write_locked. *)
Latched == {"w_drain", "tw_check", "tw_undo", "w_held"}

Pcs == Counted \cup Latched \cup {"idle", "r_spin", "r_inc", "tr_inc", "w_spin"}

Init ==
  /\ read_count = 0
  /\ write_locked = FALSE
  /\ value = 0
  /\ pc = [t \in Threads |-> "idle"]

Goto(t, from, to) == pc[t] = from /\ pc' = [pc EXCEPT ![t] = to]

Increment == read_count' = read_count + 1 /\ UNCHANGED <<write_locked, value>>
Decrement == read_count' = read_count - 1 /\ UNCHANGED <<write_locked, value>>
Look      == UNCHANGED <<read_count, write_locked, value>>
SetLatch(b) == write_locked' = b /\ UNCHANGED <<read_count, value>>
-----------------------------------------------------------------------------
(* read(): one load of the writer bit in the loop, then the count. *)
ReadCall(t)  == Goto(t, "idle", "r_spin") /\ Look
ReadSees(t)  == ~write_locked /\ Goto(t, "r_spin", "r_inc") /\ Look
ReadCount(t) == Goto(t, "r_inc", "r_held") /\ Increment

(* try_read(): refused early, or counted and checked again. *)
TryReadSees(t)    == ~write_locked /\ Goto(t, "idle", "tr_inc") /\ Look
TryReadCount(t)   == Goto(t, "tr_inc", "tr_check") /\ Increment
(* A try_read that does not look at the writer bit again. *)
UncheckedReadOk(t) == Goto(t, "tr_check", "tr_held") /\ Look
TryReadOk(t)      == ~write_locked /\ Goto(t, "tr_check", "tr_held") /\ Look
TryReadRefused(t) == write_locked /\ Goto(t, "tr_check", "tr_undo") /\ Look
(* A refused try_read that stays counted. *)
ForgetUndo(t)     == Goto(t, "tr_undo", "idle") /\ Look
TryReadUndo(t)    == Goto(t, "tr_undo", "idle") /\ Decrement

ReadGuardGone(t) == Goto(t, "r_held", "idle") \/ Goto(t, "tr_held", "idle")

(* A read guard that is dropped twice, and one that is never dropped. *)
LeakyDropRead(t) == ReadGuardGone(t) /\ Look
DropRead(t) == ReadGuardGone(t) /\ Decrement
-----------------------------------------------------------------------------
(* write(): latch the writer bit, then wait for the readers to leave. *)
WriteCall(t)  == Goto(t, "idle", "w_spin") /\ Look
(* A writer that stores the bit without comparing it first. *)
RacyLatch(t)  == Goto(t, "w_spin", "w_drain") /\ SetLatch(TRUE)
WriteLatch(t) == ~write_locked /\ Goto(t, "w_spin", "w_drain") /\ SetLatch(TRUE)
(* A writer that does not wait for the readers. *)
UndrainedWrite(t) == Goto(t, "w_drain", "w_held") /\ Look
WriteDrained(t) == read_count = 0 /\ Goto(t, "w_drain", "w_held") /\ Look

(* try_write(): latch the writer bit, and unlatch it if a reader counts. *)
TryWriteLatch(t) ==
  /\ ~write_locked
  /\ Goto(t, "idle", "tw_check")
  /\ SetLatch(TRUE)
TryWriteOk(t)      == read_count = 0 /\ Goto(t, "tw_check", "w_held") /\ Look
TryWriteRefused(t) == read_count > 0 /\ Goto(t, "tw_check", "tw_undo") /\ Look
TryWriteUndo(t)    == Goto(t, "tw_undo", "idle") /\ SetLatch(FALSE)

(* The client writes through its guard (deref_mut). *)
Mutate(t) ==
  /\ Goto(t, "w_held", "w_held")
  /\ value' = 1 - value
  /\ UNCHANGED <<read_count, write_locked>>

DropWrite(t) == Goto(t, "w_held", "idle") /\ SetLatch(FALSE)
-----------------------------------------------------------------------------
Step(t) ==
  \/ ReadCall(t) \/ ReadSees(t) \/ ReadCount(t) \/ DropRead(t)
  \/ TryReadSees(t) \/ TryReadCount(t) \/ TryReadOk(t)
  \/ TryReadRefused(t) \/ TryReadUndo(t)
  \/ WriteCall(t) \/ WriteLatch(t) \/ WriteDrained(t)
  \/ TryWriteLatch(t) \/ TryWriteOk(t) \/ TryWriteRefused(t) \/ TryWriteUndo(t)
  \/ Mutate(t) \/ DropWrite(t)

Next == \E t \in Threads : Step(t)

Spec == Init /\ [][Next]_vars

(* Threads inside a function of the lock keep running, and clients drop    *)
(* their guards.                                                           *)
FairSpec ==
  /\ Spec
  /\ \A t \in Threads :
       /\ WF_vars(ReadSees(t) \/ ReadCount(t))
       /\ WF_vars(TryReadCount(t) \/ TryReadOk(t) \/ TryReadRefused(t)
                  \/ TryReadUndo(t))
       /\ WF_vars(WriteLatch(t))
       /\ WF_vars(WriteDrained(t))
       /\ WF_vars(TryWriteOk(t) \/ TryWriteRefused(t) \/ TryWriteUndo(t))
       /\ WF_vars(DropRead(t))
       /\ WF_vars(DropWrite(t))
-----------------------------------------------------------------------------
CheckedGuards  == {t \in Threads : pc[t] = "tr_held"}
ReadGuards     == {t \in Threads : pc[t] \in {"r_held", "tr_held"}}
WriteGuards    == {t \in Threads : pc[t] = "w_held"}
CountedThreads == {t \in Threads : pc[t] \in Counted}

(* read_count is the number of threads that have announced themselves as   *)
(* readers, through back-offs of try_read and concurrent drops: otherwise  *)
(* a writer enters too early or waits for ever.                            *)
CountExact == read_count = Cardinality(CountedThreads)

(* The writer bit is set exactly while one thread owns it, waits for the   *)
(* readers to leave or is about to give it back.                           *)
LatchExact ==
  /\ write_locked <=> \E t \in Threads : pc[t] \in Latched
  /\ \A s, t \in Threads : pc[s] \in Latched /\ pc[t] \in Latched => s = t

(* A write guard excludes every guard of try_read and every other write    *)
(* guard, even when other clients enter through read().                    *)
Exclusion ==
  /\ WriteGuards # {} => CheckedGuards = {}
  /\ \A s, t \in WriteGuards : s = t

(* What the SAFETY comment of RwLockReadGuard::deref relies on: the value  *)
(* is not mutated while a thread owns a read guard.  It fails for read().  *)
StableWhileRead == [][ReadGuards # {} => value' = value]_value

(* A writer that has latched the bit gets its guard: no new reader is      *)
(* admitted behind it.  Only attempts of try_read that go on for ever, and *)
(* raise read_count again and again, can keep it waiting.                  *)
Trying == \E t \in Threads : pc[t] \in {"tr_inc", "tr_check", "tr_undo"}
WriterDrains ==
  <>[]~Trying => \A t \in Threads : (pc[t] = "w_drain") ~> (pc[t] = "w_held")

(* try_read(), write() and try_write() implement the lock specification.   *)
Abstract == INSTANCE LockSpec WITH readers <- CheckedGuards,
                                   writers <- WriteGuards
ImplementsLock == Abstract!Spec
=============================================================================
