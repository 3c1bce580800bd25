------------------------------ MODULE RtProcess ------------------------------
(***************************************************************************)
(* The process registry of glyim-runtime/src/lib.rs (glyim_process_spawn,  *)
(* _wait, _wait_output and _kill), called by several threads.  A handle is *)
(* never reused (next_handle only grows), so a child stands for its handle;*)
(* its pid is reused by the kernel once the child has been reaped.         *)
(***************************************************************************)
EXTENDS Naturals, FiniteSets

CONSTANTS Callers,   \* threads of the program
          Children,  \* children it may spawn
          Endless,   \* children that never exit unless they are killed
          Chatty,    \* children that fill their pipe before they exit
          Pids       \* the kernel's process ids

ASSUME ChildrenAssumption == Endless \cup Chatty \subseteq Children
ASSUME PidsAssumption == Cardinality(Pids) >= Cardinality(Children)

Calls == {"wait", "wait_output", "kill"}

VARIABLES kernel,   \* state of each child process
          pid,      \* pid of each child
          registry, \* handles in ProcessRegistry.children
          lock,     \* who holds the registry's mutex, or "none"
          drained,  \* children whose pipes somebody reads
          pc,       \* what each caller does
          target    \* the child its call is about

processVars == <<kernel, pid, registry, lock, drained, pc, target>>

NoPid == "nopid"

ProcessInit ==
  /\ kernel = [c \in Children |-> "none"]
  /\ pid = [c \in Children |-> NoPid]
  /\ registry = {}
  /\ lock = "none"
  /\ drained = {}
  /\ pc = [k \in Callers |-> "idle"]
  /\ target \in [Callers -> Children]

Goto(k, from, to) == pc[k] = from /\ pc' = [pc EXCEPT ![k] = to]
Free == lock = "none"
Exists(c) == kernel[c] \in {"running", "zombie"}
-----------------------------------------------------------------------------
(* glyim_process_spawn: the child runs, then its handle is registered. *)
Spawn(k, c) ==
  /\ Goto(k, "idle", "registering")
  /\ kernel[c] = "none"
  /\ target' = [target EXCEPT ![k] = c]
  /\ kernel' = [kernel EXCEPT ![c] = "running"]
  /\ \E p \in Pids : /\ \A d \in Children : Exists(d) => pid[d] # p
                     /\ pid' = [pid EXCEPT ![c] = p]
  /\ UNCHANGED <<registry, lock, drained>>

RegisterChild(k) ==
  /\ Goto(k, "registering", "idle")
  /\ Free
  /\ registry' = registry \cup {target[k]}
  /\ UNCHANGED <<kernel, pid, lock, drained, target>>

(* A call is made for a handle the program was given; handles keep being   *)
(* passed after they were consumed.                                        *)
Call(k, op, c) ==
  /\ Goto(k, "idle", op)
  /\ kernel[c] # "none"
  /\ \A j \in Callers : pc[j] = "registering" => target[j] # c
  /\ target' = [target EXCEPT ![k] = c]
  /\ UNCHANGED <<kernel, pid, registry, lock, drained>>

(* The handle is unknown or was consumed: -1. *)
Invalid(k) ==
  /\ pc[k] \in {"wait", "wait_output", "kill"}
  /\ Free
  /\ target[k] \notin registry
  /\ pc' = [pc EXCEPT ![k] = "idle"]
  /\ UNCHANGED <<kernel, pid, registry, lock, drained, target>>

(* A wait that leaves the child's pipes full, *)
NoDrainWait(k) ==
  /\ Goto(k, "wait", "reaping")
  /\ Free
  /\ target[k] \in registry
  /\ registry' = registry \ {target[k]}
  /\ UNCHANGED <<kernel, pid, lock, drained, target>>

(* and one that leaves the handle in the registry. *)
HandleKeptWait(k) ==
  /\ Goto(k, "wait", "reaping")
  /\ Free
  /\ target[k] \in registry
  /\ drained' = drained \cup {target[k]}
  /\ UNCHANGED <<kernel, pid, registry, lock, target>>

(* glyim_process_wait takes the child out and gives the lock back, and two *)
(* threads read the child's pipes while it waits.                          *)
BeginWait(k) ==
  /\ Goto(k, "wait", "reaping")
  /\ Free
  /\ target[k] \in registry
  /\ registry' = registry \ {target[k]}
  /\ drained' = drained \cup {target[k]}
  /\ UNCHANGED <<kernel, pid, lock, target>>

(* glyim_process_wait_output keeps the lock until the child has exited. *)
BeginWaitOutput(k) ==
  /\ Goto(k, "wait_output", "collecting")
  /\ Free
  /\ target[k] \in registry
  /\ registry' = registry \ {target[k]}
  /\ lock' = k
  /\ drained' = drained \cup {target[k]}
  /\ UNCHANGED <<kernel, pid, target>>

(* Both return when the child is a zombie, which they reap. *)
EndWait(k) ==
  /\ pc[k] \in {"reaping", "collecting"}
  /\ kernel[target[k]] = "zombie"
  /\ pc' = [pc EXCEPT ![k] = "idle"]
  /\ kernel' = [kernel EXCEPT ![target[k]] = "reaped"]
  /\ lock' = IF lock = k THEN "none" ELSE lock
  /\ UNCHANGED <<pid, registry, drained, target>>

(* glyim_process_kill signals the pid under the lock.  Whoever has the pid *)
(* now receives the signal.                                                *)
Kill(k) ==
  /\ Goto(k, "kill", "idle")
  /\ Free
  /\ target[k] \in registry
  /\ kernel' = [d \in Children |->
                  IF kernel[d] = "running" /\ pid[d] = pid[target[k]]
                  THEN "zombie" ELSE kernel[d]]
  /\ UNCHANGED <<pid, registry, lock, drained, target>>

(* A child exits; one that fills its pipe does so only when it is read. *)
ChildExits(c) ==
  /\ kernel[c] = "running"
  /\ c \notin Endless
  /\ c \in Chatty => c \in drained
  /\ kernel' = [kernel EXCEPT ![c] = "zombie"]
  /\ UNCHANGED <<pid, registry, lock, drained, pc, target>>
-----------------------------------------------------------------------------
Step(k) == \/ RegisterChild(k) \/ Invalid(k) \/ BeginWait(k)
           \/ BeginWaitOutput(k) \/ EndWait(k) \/ Kill(k)

ProcessNext ==
  \/ \E k \in Callers : Step(k)
  \/ \E k \in Callers, c \in Children :
       Spawn(k, c) \/ \E op \in Calls : Call(k, op, c)
  \/ \E c \in Children : ChildExits(c)

ProcessSpec == ProcessInit /\ [][ProcessNext]_processVars

(* Threads run, a std Mutex that is free again and again is got some time, *)
(* children that can exit do.                                              *)
ProcessFairSpec ==
  /\ ProcessSpec
  /\ \A k \in Callers : SF_processVars(Step(k))
  /\ \A c \in Children : WF_processVars(ChildExits(c))
-----------------------------------------------------------------------------
(* A registered child has not been reaped, so its pid is still its own: a  *)
(* kill never signals a process that took over the pid ("SAFETY: pid is a  *)
(* live child process").                                                   *)
KillHitsOwnChild ==
  /\ \A c \in registry : Exists(c)
  /\ \A c \in registry : \A d \in Children \ {c} : Exists(d) => pid[d] # pid[c]

(* Whoever waits for a child is the only one, and the child is there to be *)
(* reaped: no wait blocks on a process that another caller has reaped.     *)
OneReaper ==
  \A k \in Callers : pc[k] \in {"reaping", "collecting"} =>
    /\ Exists(target[k]) /\ target[k] \notin registry
    /\ \A j \in Callers \ {k} :
         pc[j] \in {"reaping", "collecting"} => target[j] # target[k]

(* Somebody collects the output of a child that runs for ever, with the    *)
(* registry locked.                                                        *)
Collecting ==
  \E k \in Callers : pc[k] = "collecting" /\ target[k] \in Endless

(* A call about a child that exits by itself returns, and so does a kill   *)
(* of any child, even while another caller waits for a child that does     *)
(* not, and when the child fills its pipe (RT-35, RT-37).  Only a          *)
(* wait_output of an endless child holds them up.                          *)
CallsReturn ==
  \A k \in Callers, c \in Children :
    (pc[k] # "idle" /\ target[k] = c /\ (c \in Endless => pc[k] = "kill"))
      ~> (pc[k] = "idle" \/ Collecting)
=============================================================================
