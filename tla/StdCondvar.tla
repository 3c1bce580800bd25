----------------------------- MODULE StdCondvar -----------------------------
(***************************************************************************)
(* Condvar of glyim-lang-std/lib/sync.g over glyim_condvar_* of the        *)
(* runtime, composed with the Mutex its callers use (StdMutex): consumers  *)
(* wait in a loop for a condition guarded by the mutex, a producer sets it *)
(* under the mutex and notifies.  wait() drops the caller's guard and then *)
(* blocks, two steps; the runtime's notify takes no lock that the waiter   *)
(* holds between them.                                                     *)
(***************************************************************************)
EXTENDS StdMutex

CONSTANT Producer

ASSUME ProducerAssumption == Producer \in Threads

VARIABLES condition, \* the condition the clients keep under the mutex
          queue,     \* threads blocked in std::sync::Condvar::wait
          stage      \* what each client does with the Condvar

cvars == <<condition, queue, stage>>
allvars == <<vars, cvars>>

Consumers == Threads \ {Producer}

CondvarInit ==
  /\ Init
  /\ condition = FALSE
  /\ queue = {}
  /\ stage = [t \in Threads |-> "client"]

Stage(t, from, to) == stage[t] = from /\ stage' = [stage EXCEPT ![t] = to]

(* Outside the Condvar's functions a client takes the mutex and updates    *)
(* the value.                                                              *)
MutexStep(t) ==
  /\ stage[t] = "client"
  /\ \/ Lock(t) \/ SpinAcquire(t) \/ TryLock(t)
     \/ Deref(t) \/ DerefMut(t)
  /\ UNCHANGED cvars

(* The condition holds: the consumer drops its guard and is done. *)
Finish(c) ==
  /\ Stage(c, "client", "done")
  /\ condition
  /\ DropGuard(c)
  /\ UNCHANGED <<condition, queue>>

(* wait(): drop(mutex_guard), *)
WaitDropGuard(c) ==
  /\ Stage(c, "client", "entering")
  /\ ~condition
  /\ DropGuard(c)
  /\ UNCHANGED <<condition, queue>>

(* then glyim_condvar_wait, which queues the thread, *)
WaitBlock(c) ==
  /\ Stage(c, "entering", "blocked")
  /\ queue' = queue \cup {c}
  /\ UNCHANGED <<vars, condition>>

(* and returns once the thread has been taken out of the queue. *)
WaitReturn(c) ==
  /\ Stage(c, "blocked", "client")
  /\ c \notin queue
  /\ UNCHANGED <<vars, condition, queue>>

(* std::sync::Condvar may wake a thread for no reason. *)
SpuriousWake(c) ==
  /\ c \in queue
  /\ queue' = queue \ {c}
  /\ UNCHANGED <<vars, condition, stage>>

(* The producer sets the condition and drops its guard, *)
Produce ==
  /\ Stage(Producer, "client", "notify")
  /\ DropGuard(Producer)
  /\ condition' = TRUE
  /\ UNCHANGED queue

(* A notification that only counts and wakes nobody: the code before STD-3. *)
WakeNone(S) == queue' = queue
Wake(S) == queue' = queue \ S

(* and notifies, again and again. *)
Notified == Stage(Producer, "notify", "notify") /\ UNCHANGED <<vars, condition>>

(* glyim_condvar_notify_one wakes one of the blocked threads, if any, *)
NotifyOne == Notified /\ \E c \in queue : Wake({c})

(* glyim_condvar_notify_all wakes them all. *)
NotifyAll == Notified /\ Wake(queue)

Consume(c) == Finish(c) \/ WaitDropGuard(c) \/ WaitBlock(c) \/ WaitReturn(c)

CondvarNext ==
  \/ Produce \/ NotifyOne \/ NotifyAll
  \/ \E c \in Consumers : Consume(c) \/ SpuriousWake(c)
  \/ \E t \in Threads : MutexStep(t)

CondvarSpec == CondvarInit /\ [][CondvarNext]_allvars

(* Threads run, and a thread that spins for a mutex that is free again and *)
(* again gets it some time.  Nothing ever has to wake spuriously.          *)
CondvarFairSpec ==
  /\ CondvarSpec
  /\ WF_allvars(Produce)
  /\ WF_allvars(NotifyOne \/ NotifyAll)
  /\ \A c \in Consumers : WF_allvars(Consume(c))
  /\ \A t \in Threads : /\ WF_allvars(Lock(t) /\ MutexStep(t))
                        /\ SF_allvars(SpinAcquire(t) /\ MutexStep(t))
                        /\ WF_allvars(DerefMut(t) /\ MutexStep(t))
-----------------------------------------------------------------------------
(* A producer that repeats its notification frees every consumer, however  *)
(* the drop of the guard and the block are interleaved with it.  One       *)
(* notification would not do: it may fall between the two.                 *)
EveryConsumerFinishes == \A c \in Consumers : <>(stage[c] = "done")
=============================================================================
