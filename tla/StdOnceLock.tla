---------------------------- MODULE StdOnceLock ----------------------------
(***************************************************************************)
(* OnceLock of glyim-lang-std/lib/sync.g: state 0 (new), 1 (running) and 2 *)
(* (done) in one atomic byte.  The closure of call_once is not atomic: its *)
(* effect is published in two halves, so that a caller that returned early *)
(* would see the first half without the second.  A panic in the closure    *)
(* ends the process (glyim_panic), so a closure that starts finishes.      *)
(***************************************************************************)
EXTENDS Naturals

CONSTANT Threads

VARIABLES state,   \* OnceLock.state
          first,   \* the two halves of what the closure initialises
          second,
          runs,    \* how often the closure was started (history)
          pc

vars == <<state, first, second, runs, pc>>

Init ==
  /\ state = 0
  /\ first = FALSE
  /\ second = FALSE
  /\ runs = 0
  /\ pc = [t \in Threads |-> "call"]

Goto(t, from, to) == pc[t] = from /\ pc' = [pc EXCEPT ![t] = to]

(* A winner chosen by a load and a later store. *)
RacyClaimState == state \in {0, 1} /\ state' = 1
ClaimState == state = 0 /\ state' = 1

(* compare_exchange(0, 1) succeeds: this thread runs the closure. *)
CasWins(t) ==
  /\ Goto(t, "call", "f")
  /\ ClaimState
  /\ runs' = runs + 1
  /\ UNCHANGED <<first, second>>

(* It fails: wait until the state is not 1. *)
CasLoses(t) ==
  /\ Goto(t, "call", "spin")
  /\ state # 0
  /\ UNCHANGED <<state, first, second, runs>>

RunFirst(t) ==
  /\ Goto(t, "f", "g")
  /\ first' = TRUE
  /\ UNCHANGED <<state, second, runs>>

RunSecond(t) ==
  /\ Goto(t, "g", "publish")
  /\ second' = TRUE
  /\ UNCHANGED <<state, first, runs>>

(* A winner that never stores 2. *)
NeverPublish(t) ==
  Goto(t, "publish", "returned") /\ UNCHANGED <<state, first, second, runs>>

Publish(t) ==
  /\ Goto(t, "publish", "returned")
  /\ state' = 2
  /\ UNCHANGED <<first, second, runs>>

(* A waiter that takes a running closure for a finished one. *)
EagerSpinEnds(t) ==
  /\ Goto(t, "spin", "returned")
  /\ state # 0
  /\ UNCHANGED <<state, first, second, runs>>

SpinEnds(t) ==
  /\ Goto(t, "spin", "returned")
  /\ state # 1
  /\ UNCHANGED <<state, first, second, runs>>

Step(t) == \/ CasWins(t) \/ CasLoses(t) \/ RunFirst(t) \/ RunSecond(t)
           \/ Publish(t) \/ SpinEnds(t)

Next == \E t \in Threads : Step(t)

Spec == Init /\ [][Next]_vars
FairSpec == Spec /\ \A t \in Threads : WF_vars(Step(t))
-----------------------------------------------------------------------------
(* The closure is started at most once, by one thread (call_once: "Perform *)
(* the initialization exactly once").                                      *)
RunsOnce == runs <= 1

(* Whoever has returned from call_once sees the whole initialisation, the  *)
(* losers of the race as well as the winner.                               *)
ReturnSeesInit ==
  \A t \in Threads : pc[t] = "returned" => first /\ second
=============================================================================
