------------------------------- MODULE StdArc -------------------------------
(***************************************************************************)
(* Arc<T> of glyim-lang-std/lib/sync.g: clone, deref and drop of handles   *)
(* that share one ArcInner.  drop() is three steps: it gives up the strong *)
(* count, the last one gives up the weak count, and the last of those      *)
(* frees the box.                                                          *)
(***************************************************************************)
EXTENDS Naturals, FiniteSets

CONSTANT Handles   \* the Arc values that may exist

VARIABLES strong,   \* ArcInner.strong
          weak,     \* ArcInner.weak
          freed,    \* how often the box was freed
          handle    \* what each Arc value is going through

vars == <<strong, weak, freed, handle>>

States == {"none",        \* not created yet
           "live",
           "last_strong", \* in drop(), took strong from 1 to 0
           "last_weak",   \* in drop(), took weak from 1 to 0
           "gone"}

InitHandle(h) ==
  handle = [k \in Handles |-> IF k = h THEN "live" ELSE "none"]

(* Arc::new *)
Init ==
  /\ strong = 1
  /\ weak = 1
  /\ freed = 0
  /\ \E h \in Handles : InitHandle(h)

Moves(h, from, to) == handle[h] = from /\ handle' = [handle EXCEPT ![h] = to]

(* A clone whose increment is lost in a load and a later store. *)
LostClone(h, k) ==
  /\ handle[h] = "live"
  /\ Moves(k, "none", "live")
  /\ UNCHANGED <<strong, weak, freed>>

Clone(h, k) ==
  /\ handle[h] = "live"
  /\ Moves(k, "none", "live")
  /\ strong' = strong + 1
  /\ UNCHANGED <<weak, freed>>

DropStrong(h) ==
  /\ handle[h] = "live"
  /\ handle' = [handle EXCEPT
                  ![h] = IF strong = 1 THEN "last_strong" ELSE "gone"]
  /\ strong' = strong - 1
  /\ UNCHANGED <<weak, freed>>

(* The last strong reference keeps the count of the weak ones. *)
KeepWeak(h) ==
  /\ Moves(h, "last_strong", "gone")
  /\ UNCHANGED <<strong, weak, freed>>

DropWeak(h) ==
  /\ handle[h] = "last_strong"
  /\ handle' = [handle EXCEPT ![h] = IF weak = 1 THEN "last_weak" ELSE "gone"]
  /\ weak' = weak - 1
  /\ UNCHANGED <<strong, freed>>

Free(h) ==
  /\ Moves(h, "last_weak", "gone")
  /\ freed' = freed + 1
  /\ UNCHANGED <<strong, weak>>

Drop(h) == DropStrong(h) \/ DropWeak(h) \/ Free(h)

Next == \E h \in Handles : Drop(h) \/ \E k \in Handles : Clone(h, k)

Spec == Init /\ [][Next]_vars

(* Every handle is dropped some time, and a drop that began is finished. *)
FairSpec == Spec /\ \A h \in Handles : WF_vars(Drop(h))
-----------------------------------------------------------------------------
Live == {h \in Handles : handle[h] = "live"}
Closing == {h \in Handles : handle[h] \in {"last_strong", "last_weak"}}

TypeOK ==
  /\ strong \in Nat
  /\ weak \in {0, 1}
  /\ freed \in Nat
  /\ handle \in [Handles -> States]

(* The strong count is the number of live handles, through any mix of      *)
(* clones and drops in different threads.                                  *)
StrongExact == strong = Cardinality(Live)

(* While a handle is live nobody frees the box or is about to: deref never *)
(* reads freed memory; and the box is freed at most once.                  *)
NoUseAfterFree ==
  /\ Live # {} => Closing = {} /\ freed = 0
  /\ \A h, k \in Closing : h = k
  /\ Closing # {} => freed = 0
  /\ freed <= 1

(* The box is freed once every handle has been dropped. *)
EventuallyFreed == <>[](freed = 1)
=============================================================================
