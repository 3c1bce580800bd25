------------------------------ MODULE LockSpec ------------------------------
(***************************************************************************)
(* What a lock of glyim-lang-std/lib/sync.g promises to its clients: a     *)
(* write guard excludes every other guard, read guards may coexist.        *)
(* Acquiring and releasing are single steps here; StdMutex and StdRwLock   *)
(* show that the code, which uses several atomic operations, implements    *)
(* this specification.                                                     *)
(***************************************************************************)
CONSTANT Threads

VARIABLES readers,  \* threads that own a RwLockReadGuard
          writers   \* threads that own a MutexGuard or a RwLockWriteGuard

vars == <<readers, writers>>

Init == readers = {} /\ writers = {}

AcquireRead(t) ==
  /\ t \notin readers
  /\ writers = {}
  /\ readers' = readers \cup {t}
  /\ UNCHANGED writers

AcquireWrite(t) ==
  /\ writers = {}
  /\ readers = {}
  /\ writers' = {t}
  /\ UNCHANGED readers

ReleaseRead(t) ==
  /\ t \in readers
  /\ readers' = readers \ {t}
  /\ UNCHANGED writers

ReleaseWrite(t) ==
  /\ t \in writers
  /\ writers' = writers \ {t}
  /\ UNCHANGED readers

Next == \E t \in Threads : \/ AcquireRead(t) \/ AcquireWrite(t)
                           \/ ReleaseRead(t) \/ ReleaseWrite(t)

Spec == Init /\ [][Next]_vars
=============================================================================
