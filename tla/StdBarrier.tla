----------------------------- MODULE StdBarrier -----------------------------
(***************************************************************************)
(* Barrier of glyim-lang-std/lib/sync.g: an arrival counter and a          *)
(* generation, two atomics that the leader resets and bumps in two steps.  *)
(* Every thread waits at the barrier MaxRounds times.                      *)
(***************************************************************************)
EXTENDS Naturals

CONSTANTS Threads,
          Count,      \* Barrier.count, at least 1
          MaxRounds   \* bound: calls of wait() each thread makes

VARIABLES arrived,     \* Barrier.arrived
          generation,  \* Barrier.generation
          pc,
          gen,         \* the generation a thread loaded on entry
          entered,     \* calls of wait() begun, per thread (history)
          left         \* calls of wait() returned, per thread (history)

vars == <<arrived, generation, pc, gen, entered, left>>

Init ==
  /\ arrived = 0
  /\ generation = 0
  /\ pc = [t \in Threads |-> "out"]
  /\ gen = [t \in Threads |-> 0]
  /\ entered = [t \in Threads |-> 0]
  /\ left = [t \in Threads |-> 0]

Goto(t, from, to) == pc[t] = from /\ pc' = [pc EXCEPT ![t] = to]

(* wait(): load the generation, *)
Enter(t) ==
  /\ Goto(t, "out", "arrive")
  /\ entered[t] < MaxRounds
  /\ gen' = [gen EXCEPT ![t] = generation]
  /\ entered' = [entered EXCEPT ![t] = @ + 1]
  /\ UNCHANGED <<arrived, generation, left>>

(* count the arrival, and lead if it is the last of the group, *)
ArriveLast(t) ==
  /\ Goto(t, "arrive", "reset")
  /\ arrived + 1 = Count
  /\ arrived' = arrived + 1
  /\ UNCHANGED <<generation, gen, entered, left>>

ArriveEarly(t) ==
  /\ Goto(t, "arrive", "spin")
  /\ arrived + 1 # Count
  /\ arrived' = arrived + 1
  /\ UNCHANGED <<generation, gen, entered, left>>

(* A leader that does not reset the counter. *)
ForgetReset(t) ==
  /\ Goto(t, "reset", "open")
  /\ UNCHANGED <<arrived, generation, gen, entered, left>>

(* the leader resets the counter and then opens the generation, *)
ResetArrived(t) ==
  /\ Goto(t, "reset", "open")
  /\ arrived' = 0
  /\ UNCHANGED <<generation, gen, entered, left>>

OpenGeneration(t) ==
  /\ Goto(t, "open", "out")
  /\ generation' = generation + 1
  /\ left' = [left EXCEPT ![t] = @ + 1]
  /\ UNCHANGED <<arrived, gen, entered>>

(* A thread that does not wait for the generation to change. *)
LeaveAtOnce(t) ==
  /\ Goto(t, "spin", "out")
  /\ left' = [left EXCEPT ![t] = @ + 1]
  /\ UNCHANGED <<arrived, generation, gen, entered>>

(* and the others spin until it does. *)
Leave(t) ==
  /\ Goto(t, "spin", "out")
  /\ generation # gen[t]
  /\ left' = [left EXCEPT ![t] = @ + 1]
  /\ UNCHANGED <<arrived, generation, gen, entered>>

Step(t) == \/ Enter(t) \/ ArriveLast(t) \/ ArriveEarly(t)
           \/ ResetArrived(t) \/ OpenGeneration(t) \/ Leave(t)

Next == \E t \in Threads : Step(t)

Spec == Init /\ [][Next]_vars
FairSpec == Spec /\ \A t \in Threads : WF_vars(Step(t))
-----------------------------------------------------------------------------
(* No thread returns from its n-th wait() before every thread has begun    *)
(* its own n-th: "Block until all threads have rendezvoused here".  It     *)
(* holds when exactly Count threads use the barrier.                       *)
Rendezvous == \A s, t \in Threads : left[s] <= entered[t]
=============================================================================
