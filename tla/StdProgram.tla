----------------------------- MODULE StdProgram -----------------------------
(***************************************************************************)
(* A program over the primitives of glyim-lang-std/lib/sync.g: a main      *)
(* thread shares one object with its workers through Arc handles; every    *)
(* worker initialises the object with a OnceLock, meets the others at a    *)
(* Barrier, takes its part in a queue built on a Mutex and a Condvar (one  *)
(* worker produces, the others consume), meets the others again until it   *)
(* has done MaxRounds rounds, and drops its handle.  The Mutex and the     *)
(* Condvar are the ones this module extends; the others are instances.     *)
(***************************************************************************)
EXTENDS StdCondvar, FiniteSets

CONSTANTS Root,      \* the main thread's handle
          MaxRounds  \* bound: rounds of the barrier

ASSUME RootAssumption == Root \notin Threads

(* Barrier::new takes the number of the threads that use it. *)
ASSUME ThreadsAssumption == IsFiniteSet(Threads)

VARIABLES arrived, generation, bpc, gen, entered, left, \* StdBarrier
          state, first, second, runs, opc,              \* StdOnceLock
          strong, weak, freed, handle                   \* StdArc

bvars == <<arrived, generation, bpc, gen, entered, left>>
ovars == <<state, first, second, runs, opc>>
avars == <<strong, weak, freed, handle>>
pvars == <<allvars, bvars, ovars, avars>>

Once == INSTANCE StdOnceLock WITH pc <- opc
Shared == INSTANCE StdArc WITH Handles <- Threads \cup {Root}
Meeting == INSTANCE StdBarrier WITH pc <- bpc, Count <- Cardinality(Threads)

ProgramInit ==
  /\ CondvarInit /\ Meeting!Init /\ Once!Init /\ Shared!Init
  /\ handle[Root] = "live"

(* The main thread clones a handle for each worker and then drops its own. *)
Share(t) == Shared!Clone(Root, t) /\ UNCHANGED <<allvars, bvars, ovars>>

MainDrops ==
  /\ \A t \in Threads : handle[t] # "none"
  /\ Shared!Drop(Root)
  /\ UNCHANGED <<allvars, bvars, ovars>>

Initialise(t) ==
  /\ handle[t] = "live"
  /\ Once!Step(t)
  /\ UNCHANGED <<allvars, bvars, avars>>

(* Between its first and its second round a worker is a client of the      *)
(* queue; the producer leaves once every consumer is done.                 *)
Queueing(t) == left[t] = 1 /\ bpc[t] = "out"

Served(t) == IF t = Producer THEN \A c \in Consumers : stage[c] = "done"
                             ELSE stage[t] = "done"

Queue(t, A) == Queueing(t) /\ A /\ UNCHANGED <<bvars, ovars, avars>>

Meet(t) ==
  /\ opc[t] = "returned"
  /\ Queueing(t) => Served(t)
  /\ Meeting!Step(t)
  /\ UNCHANGED <<allvars, ovars, avars>>

Leaves(t) ==
  /\ left[t] = MaxRounds
  /\ Shared!Drop(t)
  /\ UNCHANGED <<allvars, bvars, ovars>>

Worker(t) == Share(t) \/ Initialise(t) \/ Meet(t) \/ Leaves(t)

ProgramNext ==
  \/ MainDrops
  \/ \E t \in Threads : Worker(t) \/ Queue(t, MutexStep(t))
  \/ \E c \in Consumers : Queue(c, Consume(c)) \/ Queue(c, SpuriousWake(c))
  \/ Queue(Producer, Produce)
  \/ Queue(Producer, NotifyOne) \/ Queue(Producer, NotifyAll)

ProgramSpec == ProgramInit /\ [][ProgramNext]_pvars

(* Threads run, and the queue is used as in CondvarFairSpec: a thread that *)
(* spins for a mutex that is free again and again gets it some time, and   *)
(* nothing ever has to wake spuriously.                                    *)
ProgramFairSpec ==
  /\ ProgramSpec
  /\ WF_pvars(MainDrops)
  /\ WF_pvars(Queue(Producer, Produce \/ NotifyOne \/ NotifyAll))
  /\ \A c \in Consumers : WF_pvars(Queue(c, Consume(c)))
  /\ \A t \in Threads :
       /\ WF_pvars(Worker(t))
       /\ WF_pvars(Queue(t, Lock(t) /\ MutexStep(t)))
       /\ SF_pvars(Queue(t, SpinAcquire(t) /\ MutexStep(t)))
       /\ WF_pvars(Queue(t, DerefMut(t) /\ MutexStep(t)))
-----------------------------------------------------------------------------
(* StdOnceLock: the closure of call_once is started at most once.          *)
RunsOnce == Once!RunsOnce

(* StdOnceLock: whoever has returned from call_once, winner or loser, sees *)
(* the whole initialisation.                                               *)
ReturnSeesInit == Once!ReturnSeesInit

(* StdBarrier: no thread returns from its n-th wait() before every thread  *)
(* has begun its own n-th.                                                 *)
Rendezvous == Meeting!Rendezvous

(* StdArc: nobody frees the object, or is about to, while a handle lives,  *)
(* and it is freed at most once.                                           *)
NoUseAfterFree == Shared!NoUseAfterFree

(* StdArc: the object is freed once the program is done with it, which     *)
(* takes every call_once, every round of the barrier and every consumer of *)
(* the queue to an end.                                                    *)
EventuallyFreed == Shared!EventuallyFreed
=============================================================================
