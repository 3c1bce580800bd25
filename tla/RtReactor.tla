------------------------------ MODULE RtReactor ------------------------------
(***************************************************************************)
(* The I/O reactor of glyim-runtime/src/reactor.rs with the executors that *)
(* wait on it: the reactor thread (run_reactor), Rust tasks that register  *)
(* a mio source with a Waker and are driven by async_runtime::block_on,    *)
(* and .g tasks (net.g ReadFuture) that register a socket by number and    *)
(* are driven by task.g's block_on, which parks for at most one            *)
(* millisecond.  Each task makes one registration, so the task stands for  *)
(* its token too.                                                          *)
(***************************************************************************)
EXTENDS Naturals, Sequences

CONSTANTS RustTasks,  \* tasks on the register() path
          GTasks,     \* tasks on the register_fd() path
          Fd,         \* the kernel's number of each task's socket
          Arg         \* the number each task passes to the reactor

Tasks == RustTasks \cup GTasks
Fds == {Fd[t] : t \in Tasks} \cup {Arg[t] : t \in Tasks}

ASSUME RustArgAssumption == \A t \in RustTasks : Arg[t] = Fd[t]

(* A task has one executor, and no task is the channel's other command.    *)
ASSUME TasksAssumption == RustTasks \cap GTasks = {} /\ "shutdown" \notin Tasks

VARIABLES cmds,     \* the channel to the reactor thread
          slots,    \* tokens in Reactor.slots
          ready,    \* slots whose ready flag is set
          sources,  \* tokens in Reactor.sources, registered with epoll
          watched,  \* tokens in mio_to_slot (and fd_thread)
          edge,     \* tokens with a readiness event epoll has not reported
          batch,    \* events the last poll returned, still to be handled
          rpc,      \* the reactor thread
          open,     \* open file descriptors
          data,     \* sockets with unread bytes
          sent,     \* peers that have written
          wakeup,   \* park token (.g) or Waker flag (Rust) of each task
          tpc,      \* the executors
          dropped   \* the last Arc<Reactor> is gone

reactorVars == <<cmds, slots, ready, sources, watched, edge, batch, rpc, open,
                 data, sent, wakeup, tpc, dropped>>
tables == <<slots, sources, watched>>
background == <<rpc, batch, dropped>>
sockets == <<open, data, sent>>

ReactorInit ==
  /\ cmds = <<>>
  /\ slots = {} /\ ready = {} /\ sources = {} /\ watched = {}
  /\ edge = {} /\ batch = {}
  /\ rpc = "drain"
  /\ open = Fds
  /\ data = {} /\ sent = {}
  /\ wakeup = [t \in Tasks |-> FALSE]
  /\ tpc = [t \in Tasks |-> "start"]
  /\ dropped = FALSE

Moves(t, from, to) == tpc[t] = from /\ tpc' = [tpc EXCEPT ![t] = to]

Readable(u) == Arg[u] \in open /\ \E t \in data : Fd[t] = Arg[u]
-----------------------------------------------------------------------------
(* First poll: register() or register_fd() fills the slot, sends the       *)
(* command and wakes the reactor thread; the future is Pending.            *)
FirstPoll(t) ==
  /\ Moves(t, "start", "parked")
  /\ slots' = slots \cup {t}
  /\ cmds' = Append(cmds, t)
  /\ UNCHANGED <<ready, sources, watched, edge, sockets, wakeup, background>>

(* block_on resumes when woken, *)
Resume(t) ==
  /\ Moves(t, "parked", "poll")
  /\ wakeup[t]
  /\ wakeup' = [wakeup EXCEPT ![t] = FALSE]
  /\ UNCHANGED <<cmds, tables, ready, edge, sockets, background>>

(* An executor that parks without a time limit. *)
NoSlice(t) == FALSE /\ UNCHANGED reactorVars

(* and the .g executor also when its slice of one millisecond is over. *)
SliceEnds(t) ==
  /\ t \in GTasks
  /\ Moves(t, "parked", "poll")
  /\ UNCHANGED <<cmds, tables, ready, edge, sockets, wakeup, background>>

(* A Rust future is finished by take_ready(), which clears the flag. *)
TakeReady(t) ==
  /\ t \in RustTasks
  /\ Moves(t, "poll", IF t \in slots \cap ready THEN "unslot" ELSE "parked")
  /\ ready' = ready \ {t}
  /\ UNCHANGED <<cmds, tables, edge, sockets, wakeup, background>>

(* A ReadFuture reads; without data it is Pending (WouldBlock), a closed   *)
(* descriptor is an error and finishes it as well.                         *)
Read(t) ==
  /\ t \in GTasks
  /\ Moves(t, "poll",
          IF t \in data \/ Fd[t] \notin open THEN "unslot" ELSE "parked")
  /\ data' = data \ {t}
  /\ UNCHANGED <<cmds, tables, ready, edge, open, sent, wakeup, background>>

(* deregister(): the slot goes first, *)
RemoveSlot(t) ==
  /\ Moves(t, "unslot", "unsource")
  /\ slots' = slots \ {t}
  /\ ready' = ready \ {t}
  /\ UNCHANGED <<cmds, sources, watched, edge, sockets, wakeup, background>>

(* A deregister that clears the slot only. *)
ForgetSource(t) ==
  /\ Moves(t, "unsource", "done")
  /\ UNCHANGED <<cmds, tables, ready, edge, sockets, wakeup, background>>

(* then the source, whose drop leaves epoll and closes the descriptor.     *)
RemoveSource(t) ==
  /\ Moves(t, "unsource", "done")
  /\ sources' = sources \ {t}
  /\ edge' = edge \ {t}
  /\ open' = IF t \in sources THEN open \ {Arg[t]} ELSE open
  /\ UNCHANGED <<cmds, slots, watched, ready, data, sent, wakeup, background>>

(* The peer of a task writes; epoll has an edge for whoever watches the    *)
(* descriptor.                                                             *)
PeerWrites(t) ==
  /\ t \notin sent
  /\ sent' = sent \cup {t}
  /\ data' = data \cup {t}
  /\ edge' = edge \cup {u \in sources : Arg[u] = Fd[t] /\ Fd[t] \in open}
  /\ UNCHANGED <<cmds, tables, ready, open, wakeup, tpc, background>>

(* Drop of the last Arc<Reactor>: Shutdown, then the thread is joined.     *)
DropReactor ==
  /\ \A t \in Tasks : tpc[t] = "done"
  /\ ~dropped /\ dropped' = TRUE
  /\ cmds' = Append(cmds, "shutdown")
  /\ UNCHANGED <<tables, ready, edge, batch, rpc, sockets, wakeup, tpc>>
-----------------------------------------------------------------------------
(* The reactor thread drains the channel: a registration makes epoll watch *)
(* the source, and report it at once if it is readable already.            *)
DrainRegister ==
  /\ rpc = "drain"
  /\ cmds # <<>> /\ Head(cmds) # "shutdown"
  /\ LET t == Head(cmds)
     IN  /\ sources' = sources \cup {t}
         /\ watched' = watched \cup {t}
         /\ edge' = IF Readable(t) THEN edge \cup {t} ELSE edge
  /\ cmds' = Tail(cmds)
  /\ UNCHANGED <<slots, ready, sockets, wakeup, tpc, background>>

DrainShutdown ==
  /\ rpc = "drain"
  /\ cmds # <<>> /\ Head(cmds) = "shutdown"
  /\ cmds' = Tail(cmds)
  /\ rpc' = "stopped"
  /\ UNCHANGED <<tables, ready, edge, batch, sockets, wakeup, tpc, dropped>>

DrainEmpty ==
  /\ rpc = "drain"
  /\ cmds = <<>>
  /\ rpc' = "poll"
  /\ UNCHANGED <<cmds, tables, ready, edge, batch, sockets, wakeup, tpc, dropped>>

(* A poll that nothing but an event ends: no wake-up, no timeout. *)
DeafPoll ==
  /\ rpc = "poll" /\ edge # {}
  /\ rpc' = "deliver"
  /\ batch' = edge
  /\ edge' = {}
  /\ UNCHANGED <<cmds, tables, ready, sockets, wakeup, tpc, dropped>>

(* A poll that takes a wake-up for readiness of everything registered. *)
BlanketPoll ==
  /\ rpc = "poll"
  /\ rpc' = "deliver"
  /\ batch' = watched
  /\ edge' = {}
  /\ UNCHANGED <<cmds, tables, ready, sockets, wakeup, tpc, dropped>>

(* poll() returns with the pending events, on a wake, or after 100 ms. *)
PollReturns ==
  /\ rpc = "poll"
  /\ rpc' = "deliver"
  /\ batch' = edge
  /\ edge' = {}
  /\ UNCHANGED <<cmds, tables, ready, sockets, wakeup, tpc, dropped>>

(* A delivery that sets the flag and wakes nobody. *)
SilentDeliver(t) ==
  /\ rpc = "deliver" /\ t \in batch
  /\ batch' = batch \ {t}
  /\ ready' = IF t \in slots THEN ready \cup {t} ELSE ready
  /\ UNCHANGED <<cmds, tables, edge, rpc, sockets, wakeup, tpc, dropped>>

(* One event: the slot becomes ready and its task is woken.  A .g task is  *)
(* unparked by thread id even if its slot is gone; the id may be unknown   *)
(* to the thread store (RtThreads), which loses the wake-up.               *)
DeliverEvent(t) ==
  /\ rpc = "deliver" /\ t \in batch
  /\ batch' = batch \ {t}
  /\ ready' = IF t \in slots THEN ready \cup {t} ELSE ready
  /\ \/ wakeup' = [wakeup EXCEPT ![t] = @ \/ t \in GTasks \/ t \in slots]
     \/ t \in GTasks /\ UNCHANGED wakeup
  /\ UNCHANGED <<cmds, tables, edge, rpc, sockets, tpc, dropped>>

(* The check for Shutdown the code had after the events: it takes whatever *)
(* command is next and drops it if it is another one.                      *)
TailTryRecv ==
  /\ rpc = "deliver" /\ batch = {}
  /\ rpc' = IF cmds # <<>> /\ Head(cmds) = "shutdown" THEN "stopped" ELSE "drain"
  /\ cmds' = IF cmds = <<>> THEN <<>> ELSE Tail(cmds)
  /\ UNCHANGED <<tables, ready, edge, batch, sockets, wakeup, tpc, dropped>>

(* The code loops back and lets the top of the loop drain. *)
LoopBack ==
  /\ rpc = "deliver" /\ batch = {}
  /\ rpc' = "drain"
  /\ UNCHANGED <<cmds, tables, ready, edge, batch, sockets, wakeup, tpc, dropped>>
-----------------------------------------------------------------------------
Executor(t) == \/ FirstPoll(t) \/ Resume(t) \/ SliceEnds(t) \/ TakeReady(t)
               \/ Read(t) \/ RemoveSlot(t) \/ RemoveSource(t)

ReactorThread == \/ DrainRegister \/ DrainShutdown \/ DrainEmpty
                 \/ PollReturns \/ LoopBack \/ \E t \in Tasks : DeliverEvent(t)

ReactorNext ==
  \/ \E t \in Tasks : Executor(t) \/ PeerWrites(t)
  \/ ReactorThread \/ DropReactor

ReactorSpec == ReactorInit /\ [][ReactorNext]_reactorVars

(* The threads run, poll times out, peers write, the owner drops.  *)
ReactorFairSpec ==
  /\ ReactorSpec
  /\ WF_reactorVars(ReactorThread)
  /\ WF_reactorVars(DropReactor)
  /\ \A t \in Tasks : /\ WF_reactorVars(Executor(t))
                      /\ WF_reactorVars(PeerWrites(t))
-----------------------------------------------------------------------------
(* A slot is ready only after its peer has written. *)
ReadyMeansData == \A t \in ready : \E u \in sent : Fd[u] = Arg[t]

(* Every task whose peer writes is finished: no wake-up is lost between    *)
(* the registration, the event and the executor's wait.                    *)
EveryTaskCompletes == \A t \in Tasks : <>(tpc[t] = "done")

(* Dropping the reactor ends its thread, so the join in Drop returns. *)
ReactorStops == <>(rpc = "stopped")

(* "Remove a previously registered fd: clears the slot bookkeeping AND     *)
(* drops the owned source": after deregister() the reactor keeps nothing   *)
(* of a task that was woken for its event.  A .g task may deregister while *)
(* its command is still in the channel, and its source is kept for ever.   *)
WokenDeregisterIsFinal ==
  \A t \in RustTasks : tpc[t] = "done" => t \notin sources
=============================================================================
