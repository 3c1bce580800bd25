------------------------------ MODULE RtThreads ------------------------------
(***************************************************************************)
(* Threads: glyim-lang-std/lib/thread.g over the thread store of           *)
(* glyim-runtime.  The main thread spawns and joins the others; every      *)
(* thread parks, and unparks whatever thread whose id it has been given.   *)
(* An id names its thread for ever (NEXT_THREAD_ID only grows), so the     *)
(* model uses the thread itself for its id.  A spawn is several steps: the *)
(* OS thread runs before glyim_thread_spawn enters it into the store.      *)
(***************************************************************************)
EXTENDS Naturals

CONSTANTS Threads,   \* threads the program may spawn
          Main       \* the thread that spawns and joins them

ASSUME MainAssumption == Main \notin Threads

VARIABLES spawn,    \* what spawn_impl has done for each thread
          os,       \* what each OS thread is doing
          store,    \* ids in ThreadStore.infos
          shared,   \* ids that other threads may hold
          token,    \* std's park token of each thread
          slot,     \* the boxed ResultSlot
          payload,  \* the boxed SpawnPayload
          joining,  \* the thread main waits for, or Main
          result    \* what JoinHandle::join returned

vars == <<spawn, os, store, shared, token, slot, payload, joining, result>>

All == Threads \cup {Main}

Init ==
  /\ spawn = [t \in Threads |-> "none"]
  /\ os = [t \in All |-> IF t = Main THEN "running" ELSE "none"]
  /\ store = {}
  /\ shared = {}
  /\ token = [t \in All |-> FALSE]
  /\ slot = [t \in Threads |-> "none"]
  /\ payload = [t \in Threads |-> "none"]
  /\ joining = Main
  /\ result = [t \in Threads |-> "none"]

MainRuns == os[Main] = "running" /\ joining = Main
Runs(t) == IF t = Main THEN MainRuns ELSE os[t] = "running"
-----------------------------------------------------------------------------
(* spawn_impl boxes the slot and the payload, *)
Box(t) ==
  /\ MainRuns
  /\ spawn[t] = "none"
  /\ spawn' = [spawn EXCEPT ![t] = "boxed"]
  /\ slot' = [slot EXCEPT ![t] = "empty"]
  /\ payload' = [payload EXCEPT ![t] = "boxed"]
  /\ UNCHANGED <<os, store, shared, token, joining, result>>

(* starts the OS thread, *)
Start(t) ==
  /\ MainRuns
  /\ spawn[t] = "boxed"
  /\ spawn' = [spawn EXCEPT ![t] = "started"]
  /\ os' = [os EXCEPT ![t] = "entry"]
  /\ UNCHANGED <<store, shared, token, slot, payload, joining, result>>

(* or, when Builder::spawn fails, takes both boxes back; *)
StartFails(t) ==
  /\ MainRuns
  /\ spawn[t] = "boxed"
  /\ spawn' = [spawn EXCEPT ![t] = "failed"]
  /\ slot' = [slot EXCEPT ![t] = "freed"]
  /\ payload' = [payload EXCEPT ![t] = "freed"]
  /\ UNCHANGED <<os, store, shared, token, joining, result>>

(* then the runtime enters the thread into the store and returns its id.   *)
Enter(t) ==
  /\ MainRuns
  /\ spawn[t] = "started"
  /\ spawn' = [spawn EXCEPT ![t] = "handle"]
  /\ store' = store \cup {t}
  /\ shared' = shared \cup {t}
  /\ UNCHANGED <<os, token, slot, payload, joining, result>>
-----------------------------------------------------------------------------
(* thread_trampoline takes the payload and runs the closure, *)
TakePayload(t) ==
  /\ os[t] = "entry"
  /\ os' = [os EXCEPT ![t] = "running"]
  /\ payload' = [payload EXCEPT ![t] = "freed"]
  /\ UNCHANGED <<spawn, store, shared, token, slot, joining, result>>

(* writes the result as the last thing it does, *)
Deliver(t) ==
  /\ os[t] = "running"
  /\ os' = [os EXCEPT ![t] = "returning"]
  /\ slot' = [slot EXCEPT ![t] = "full"]
  /\ UNCHANGED <<spawn, store, shared, token, payload, joining, result>>

(* A trampoline that returns before it has stored the result. *)
ExitEarly(t) ==
  /\ os[t] \in {"running", "returning"}
  /\ os' = [os EXCEPT ![t] = "exited"]
  /\ UNCHANGED <<spawn, store, shared, token, slot, payload, joining, result>>

(* and the OS thread ends. *)
Exit(t) ==
  /\ os[t] = "returning"
  /\ os' = [os EXCEPT ![t] = "exited"]
  /\ UNCHANGED <<spawn, store, shared, token, slot, payload, joining, result>>
-----------------------------------------------------------------------------
(* current_id(): a thread learns its id and may hand it to others; a       *)
(* thread nobody spawned enters the store now.                             *)
CurrentId(t) ==
  /\ Runs(t)
  /\ shared' = shared \cup {t}
  /\ store' = IF t = Main THEN store \cup {Main} ELSE store
  /\ UNCHANGED <<spawn, os, token, slot, payload, joining, result>>

Park(t) ==
  /\ Runs(t)
  /\ os' = [os EXCEPT ![t] = "parked"]
  /\ UNCHANGED <<spawn, store, shared, token, slot, payload, joining, result>>

ParkTimeout(t) ==
  /\ Runs(t)
  /\ os' = [os EXCEPT ![t] = "napping"]
  /\ UNCHANGED <<spawn, store, shared, token, slot, payload, joining, result>>

TakeToken(t) ==
  /\ os[t] \in {"parked", "napping"}
  /\ token[t]
  /\ token' = [token EXCEPT ![t] = FALSE]
  /\ os' = [os EXCEPT ![t] = "running"]
  /\ UNCHANGED <<spawn, store, shared, slot, payload, joining, result>>

(* A park whose timeout never fires. *)
NoTimeout(t) == FALSE /\ UNCHANGED vars

Timeout(t) ==
  /\ os[t] = "napping"
  /\ os' = [os EXCEPT ![t] = "running"]
  /\ UNCHANGED <<spawn, store, shared, token, slot, payload, joining, result>>

(* glyim_thread_unpark: an id that is not in the store is ignored. *)
Unpark(s, t) ==
  /\ Runs(s)
  /\ t \in shared
  /\ token' = [token EXCEPT ![t] = @ \/ t \in store]
  /\ UNCHANGED <<spawn, os, store, shared, slot, payload, joining, result>>
-----------------------------------------------------------------------------
(* join(): glyim_thread_join takes the entry out of the store, *)
JoinCall(t) ==
  /\ MainRuns
  /\ spawn[t] = "handle"
  /\ t \in store
  /\ spawn' = [spawn EXCEPT ![t] = "joining"]
  /\ store' = store \ {t}
  /\ joining' = t
  /\ UNCHANGED <<os, shared, token, slot, payload, result>>

(* A join that does not wait for the OS thread. *)
HastyJoinReturn(t) ==
  /\ joining = t
  /\ spawn[t] = "joining"
  /\ spawn' = [spawn EXCEPT ![t] = "joined"]
  /\ joining' = Main
  /\ result' = [result EXCEPT ![t] = slot[t]]
  /\ slot' = [slot EXCEPT ![t] = "freed"]
  /\ UNCHANGED <<os, store, shared, token, payload>>

(* waits for the OS thread, and the handle reads and frees the slot. *)
JoinReturn(t) ==
  /\ joining = t
  /\ spawn[t] = "joining"
  /\ os[t] = "exited"
  /\ spawn' = [spawn EXCEPT ![t] = "joined"]
  /\ joining' = Main
  /\ result' = [result EXCEPT ![t] = slot[t]]
  /\ slot' = [slot EXCEPT ![t] = "freed"]
  /\ UNCHANGED <<os, store, shared, token, payload>>

Spawning(t) == Box(t) \/ Start(t) \/ StartFails(t) \/ Enter(t)
Running(t) == TakePayload(t) \/ Deliver(t) \/ Exit(t)
Parking(t) == \/ CurrentId(t) \/ Park(t) \/ ParkTimeout(t)
              \/ TakeToken(t) \/ Timeout(t)
Joining(t) == JoinCall(t) \/ JoinReturn(t)

Next == \/ \E t \in Threads : Spawning(t) \/ Running(t) \/ Joining(t)
        \/ \E t \in All : Parking(t) \/ \E s \in All : Unpark(s, t)

Spec == Init /\ [][Next]_vars

(* The scheduler runs every thread; a thread that can take its token or    *)
(* whose timeout has passed does so, and closures end: a thread does not   *)
(* park for ever when it is woken for ever.                                *)
FairSpec ==
  /\ Spec
  /\ \A t \in Threads : /\ SF_vars(Deliver(t))
                        /\ WF_vars(TakePayload(t) \/ Exit(t))
                        /\ WF_vars(JoinReturn(t))
  /\ \A t \in All : WF_vars(TakeToken(t) \/ Timeout(t))
-----------------------------------------------------------------------------
TypeOK ==
  /\ spawn \in [Threads -> {"none", "boxed", "started", "failed", "handle",
                            "joining", "joined"}]
  /\ os \in [All -> {"none", "entry", "running", "parked", "napping",
                     "returning", "exited"}]
  /\ store \subseteq All
  /\ shared \subseteq All
  /\ token \in [All -> BOOLEAN]
  /\ slot \in [Threads -> {"none", "empty", "full", "freed"}]
  /\ payload \in [Threads -> {"none", "boxed", "freed"}]
  /\ joining \in All
  /\ result \in [Threads -> {"none", "empty", "full", "freed"}]

(* The result slot is never freed while its OS thread may still write to   *)
(* it, and the payload is not freed before the trampoline takes it (the    *)
(* SAFETY comments of join and thread_trampoline).                         *)
SlotOutlivesThread ==
  \A t \in Threads :
    /\ os[t] \in {"entry", "running", "parked", "napping"} => slot[t] = "empty"
    /\ os[t] = "returning" => slot[t] = "full"
    /\ os[t] = "entry" => payload[t] = "boxed"

(* A join that returns finds the result of the closure in the slot, never  *)
(* "thread exited without producing a result" and never a freed slot.      *)
JoinFindsResult ==
  \A t \in Threads : spawn[t] = "joined" => result[t] = "full"

(* A join returns, whatever the joined thread is doing; only a park()      *)
(* without a time limit can keep it waiting.                               *)
JoinReturns ==
  \A t \in Threads : (joining = t) ~> (joining = Main \/ os[t] = "parked")
=============================================================================
