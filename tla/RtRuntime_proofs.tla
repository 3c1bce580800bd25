-------------------------- MODULE RtRuntime_proofs --------------------------
(***************************************************************************)
(* Proofs about the runtime, for any threads, tasks, callers and children: *)
(* RtThreads, the two SAFETY comments of thread.g, that a result slot      *)
(* outlives its OS thread and that a join finds the result in it;          *)
(* RtProcess, that a kill and a wait are about the child they were given,  *)
(* and that nobody waits for what cannot happen; RtReactor, that readiness *)
(* is never made up, that a deregistration of a task that was woken is     *)
(* final, and that no wake-up of a Rust task is lost.                      *)
(***************************************************************************)
EXTENDS RtThreads, RtProcess, RtReactor, TLAPS

-----------------------------------------------------------------------------
(* The threads *)

(* What spawn_impl, the trampoline and join have agreed on about a thread, *)
(* at each stage of its life.                                              *)
Lifecycle(t) ==
  /\ spawn[t] \in {"none", "boxed", "failed"} => os[t] = "none"
  /\ spawn[t] = "boxed" => slot[t] = "empty" /\ payload[t] = "boxed"
  /\ spawn[t] \in {"started", "handle", "joining"} =>
       \/ os[t] = "entry" /\ slot[t] = "empty" /\ payload[t] = "boxed"
       \/ os[t] \in {"running", "parked", "napping"} /\ slot[t] = "empty"
       \/ os[t] \in {"returning", "exited"} /\ slot[t] = "full"
  /\ spawn[t] = "joined" => os[t] = "exited" /\ result[t] = "full"

AllLifecycles == \A t \in Threads : Lifecycle(t)

ThreadsInv == TypeOK /\ AllLifecycles

LEMMA InitThreads == Init => ThreadsInv
  BY MainAssumption DEF MainAssumption, Init, ThreadsInv, TypeOK, AllLifecycles, Lifecycle, All

(* Spawning, running and joining move one thread along its life. *)
LEMMA ThreadSteps ==
  ASSUME ThreadsInv, NEW t \in Threads, Spawning(t) \/ Running(t) \/ Joining(t)
  PROVE  ThreadsInv'
<1> USE MainAssumption DEF MainAssumption, ThreadsInv, AllLifecycles, Lifecycle, TypeOK, All
<1>1. CASE Box(t)
  BY <1>1 DEF Box
<1>2. CASE Start(t)
  BY <1>2 DEF Start
<1>3. CASE StartFails(t)
  BY <1>3 DEF StartFails
<1>4. CASE Enter(t)
  BY <1>4 DEF Enter
<1>5. CASE TakePayload(t)
  BY <1>5 DEF TakePayload
<1>6. CASE Deliver(t)
  BY <1>6 DEF Deliver
<1>7. CASE Exit(t)
  BY <1>7 DEF Exit
<1>8. CASE JoinCall(t)
  BY <1>8 DEF JoinCall
<1>9. CASE JoinReturn(t)
  BY <1>9 DEF JoinReturn
<1> QED
  BY <1>1, <1>2, <1>3, <1>4, <1>5, <1>6, <1>7, <1>8, <1>9
     DEF Spawning, Running, Joining

(* A thread that moves between running and parked stays on its way. *)
LEMMA Wanders ==
  ASSUME ThreadsInv, NEW t \in All, NEW s \in {"running", "parked", "napping"},
         os[t] \in {"running", "parked", "napping"}, os' = [os EXCEPT ![t] = s],
         UNCHANGED <<spawn, slot, payload, result>>
  PROVE  os' \in [All -> {"none", "entry", "running", "parked", "napping",
                          "returning", "exited"}] /\ AllLifecycles'
<1>1. os \in [All -> {"none", "entry", "running", "parked", "napping",
                      "returning", "exited"}]
  BY DEF ThreadsInv, TypeOK
<1>2. ASSUME NEW u \in Threads PROVE Lifecycle(u)'
  <2>1. Lifecycle(u) /\ u \in All
    BY DEF ThreadsInv, AllLifecycles, All
  <2>2. CASE u = t
    BY <1>1, <2>1, <2>2 DEF Lifecycle
  <2>3. CASE u # t
    BY <1>1, <2>1, <2>3 DEF Lifecycle
  <2> QED
    BY <2>2, <2>3
<1> QED
  BY <1>1, <1>2 DEF AllLifecycles

(* Parking and waking, the main thread included, leave the slots alone. *)
LEMMA ParkSteps ==
  ASSUME ThreadsInv, NEW t \in All, Parking(t)
  PROVE  ThreadsInv'
<1>1. CASE CurrentId(t)
  BY <1>1 DEF CurrentId, ThreadsInv, AllLifecycles, Lifecycle, TypeOK, All
<1>2. CASE Park(t) \/ ParkTimeout(t)
  <2>1. os[t] = "running"
    BY <1>2 DEF Park, ParkTimeout, Runs, MainRuns
  <2>2. AllLifecycles' /\ os' \in [All -> {"none", "entry", "running", "parked",
                                          "napping", "returning", "exited"}]
    BY <1>2, <2>1, Wanders DEF Park, ParkTimeout
  <2> QED
    BY <1>2, <2>2 DEF Park, ParkTimeout, ThreadsInv, TypeOK
<1>3. CASE TakeToken(t) \/ Timeout(t)
  <2>1. AllLifecycles' /\ os' \in [All -> {"none", "entry", "running", "parked",
                                          "napping", "returning", "exited"}]
    BY <1>3, Wanders DEF TakeToken, Timeout
  <2>2. token' \in [All -> BOOLEAN]
    BY <1>3 DEF TakeToken, Timeout, ThreadsInv, TypeOK
  <2> QED
    BY <1>3, <2>1, <2>2 DEF TakeToken, Timeout, ThreadsInv, TypeOK
<1> QED
  BY <1>1, <1>2, <1>3 DEF Parking

LEMMA UnparkSteps ==
  ASSUME ThreadsInv, NEW s \in All, NEW t \in All, Unpark(s, t)
  PROVE  ThreadsInv'
  BY DEF ThreadsInv, AllLifecycles, Lifecycle, TypeOK, Unpark

LEMMA StepThreads == ThreadsInv /\ [Next]_vars => ThreadsInv'
<1> SUFFICES ASSUME ThreadsInv, [Next]_vars PROVE ThreadsInv'
  OBVIOUS
<1>1. CASE UNCHANGED vars
  BY <1>1 DEF vars, ThreadsInv, AllLifecycles, Lifecycle, TypeOK
<1>2. CASE Next
  BY <1>2, ThreadSteps, ParkSteps, UnparkSteps DEF Next
<1> QED
  BY <1>1, <1>2

(* Threads: the ids, tokens and boxes keep their types. *)
THEOREM ThreadsTypeOK == Spec => []TypeOK
<1>1. ThreadsInv => TypeOK
  BY DEF ThreadsInv
<1> QED
  BY InitThreads, StepThreads, <1>1, PTL DEF Spec

(* Threads: join never frees the slot of a thread that may still write it. *)
THEOREM SlotSafety == Spec => []SlotOutlivesThread
<1>1. ThreadsInv => SlotOutlivesThread
  BY DEF ThreadsInv, AllLifecycles, Lifecycle, TypeOK, SlotOutlivesThread
<1> QED
  BY InitThreads, StepThreads, <1>1, PTL DEF Spec

(* Threads: a join that returns finds the result of the closure. *)
THEOREM JoinResult == Spec => []JoinFindsResult
<1>1. ThreadsInv => JoinFindsResult
  BY DEF ThreadsInv, AllLifecycles, Lifecycle, JoinFindsResult
<1> QED
  BY InitThreads, StepThreads, <1>1, PTL DEF Spec
-----------------------------------------------------------------------------
(* The process registry *)

ProcessTypeOK ==
  /\ kernel \in [Children -> {"none", "running", "zombie", "reaped"}]
  /\ pid \in [Children -> Pids \cup {NoPid}]
  /\ registry \subseteq Children
  /\ pc \in [Callers -> Calls \cup {"idle", "registering", "reaping", "collecting"}]
  /\ target \in [Callers -> Children]

(* A caller that has a child in its hands: it has started it and not yet   *)
(* registered it, or it has taken it out of the registry to wait for it.   *)
Holds(k) == pc[k] \in {"registering", "reaping", "collecting"}

(* A child in the registry or in a caller's hands is there to be reaped,   *)
(* and it is in one place only.                                            *)
OnePlace ==
  /\ \A c \in registry : Exists(c)
  /\ \A k \in Callers : Holds(k) => Exists(target[k]) /\ target[k] \notin registry
  /\ \A j, k \in Callers : Holds(j) /\ Holds(k) /\ target[j] = target[k] => j = k

(* The kernel gives no two children that exist the same pid. *)
PidsDiffer ==
  \A c, d \in Children : Exists(c) /\ Exists(d) /\ pid[c] = pid[d] => c = d

ProcessInv == ProcessTypeOK /\ OnePlace /\ PidsDiffer

LEMMA InitProcess == ProcessInit => ProcessInv
  BY DEF ProcessInit, ProcessInv, ProcessTypeOK, OnePlace, Holds, PidsDiffer, Exists

LEMMA StepProcess == ProcessInv /\ [ProcessNext]_processVars => ProcessInv'
<1>1. SUFFICES ASSUME ProcessInv, [ProcessNext]_processVars PROVE ProcessInv'
  OBVIOUS
<1> USE DEF ProcessInv, OnePlace, Holds, Exists
<1>2. CASE UNCHANGED processVars
  BY <1>1, <1>2 DEF processVars, ProcessTypeOK, PidsDiffer
<1>3. ASSUME NEW k \in Callers, NEW c \in Children, Spawn(k, c)
      PROVE  ProcessInv'
  <2>1. ProcessTypeOK'
    BY <1>1, <1>3 DEF Spawn, Goto, ProcessTypeOK
  <2>2. OnePlace'
    BY <1>1, <1>3 DEF Spawn, Goto, ProcessTypeOK
  <2>3. PidsDiffer'
    BY <1>1, <1>3 DEF Spawn, ProcessTypeOK, PidsDiffer
  <2> QED
    BY <2>1, <2>2, <2>3
<1>4. ASSUME NEW k \in Callers, RegisterChild(k)
      PROVE  ProcessInv'
  BY <1>1, <1>4 DEF RegisterChild, Goto, ProcessTypeOK, PidsDiffer
<1>5. ASSUME NEW k \in Callers, NEW c \in Children, NEW op \in Calls, Call(k, op, c)
      PROVE  ProcessInv'
  BY <1>1, <1>5 DEF Call, Calls, Goto, ProcessTypeOK, PidsDiffer
<1>6. ASSUME NEW k \in Callers, Invalid(k)
      PROVE  ProcessInv'
  BY <1>1, <1>6 DEF Invalid, ProcessTypeOK, PidsDiffer
<1>7. ASSUME NEW k \in Callers, BeginWait(k)
      PROVE  ProcessInv'
  BY <1>1, <1>7 DEF BeginWait, Goto, ProcessTypeOK, PidsDiffer
<1>8. ASSUME NEW k \in Callers, BeginWaitOutput(k)
      PROVE  ProcessInv'
  BY <1>1, <1>8 DEF BeginWaitOutput, Goto, ProcessTypeOK, PidsDiffer
<1>9. ASSUME NEW k \in Callers, EndWait(k)
      PROVE  ProcessInv'
  <2>1. Holds(k) /\ target[k] \notin registry
        /\ \A j \in Callers \ {k} : Holds(j) => target[j] # target[k]
    BY <1>1, <1>9 DEF EndWait
  <2>2. ProcessTypeOK' /\ PidsDiffer'
    BY <1>1, <1>9 DEF EndWait, ProcessTypeOK, PidsDiffer
  <2>3. OnePlace'
    BY <1>1, <1>9, <2>1 DEF EndWait, ProcessTypeOK
  <2> QED
    BY <2>2, <2>3
<1>10. ASSUME NEW k \in Callers, Kill(k)
       PROVE  ProcessInv'
  <2>1. kernel' \in [Children -> {"none", "running", "zombie", "reaped"}]
        /\ \A c \in Children : Exists(c)' <=> Exists(c)
    BY <1>1, <1>10 DEF Kill, ProcessTypeOK
  <2> QED
    BY <1>1, <1>10, <2>1 DEF Kill, Goto, ProcessTypeOK, PidsDiffer
<1>11. ASSUME NEW c \in Children, ChildExits(c)
       PROVE  ProcessInv'
  <2>1. \A d \in Children : Exists(d)' <=> Exists(d)
    BY <1>1, <1>11 DEF ChildExits, ProcessTypeOK
  <2> QED
    BY <1>1, <1>11, <2>1 DEF ChildExits, ProcessTypeOK, PidsDiffer
<1> QED
  BY <1>1, <1>2, <1>3, <1>4, <1>5, <1>6, <1>7, <1>8, <1>9, <1>10, <1>11
     DEF ProcessNext, Step

(* Processes: kill signals the child whose handle it was given, and no     *)
(* process that has taken over its pid, whatever other callers reap.       *)
THEOREM ProcessKillHitsOwnChild == ProcessSpec => []KillHitsOwnChild
<1>1. ProcessInv => KillHitsOwnChild
  BY DEF ProcessInv, ProcessTypeOK, OnePlace, PidsDiffer, KillHitsOwnChild
<1> QED
  BY InitProcess, StepProcess, <1>1, PTL DEF ProcessSpec

(* Processes: a child that somebody waits for has no other waiter and is   *)
(* there to be reaped.                                                     *)
THEOREM ProcessOneReaper == ProcessSpec => []OneReaper
<1>1. ProcessInv => OneReaper
  BY DEF ProcessInv, ProcessTypeOK, OnePlace, Holds, OneReaper
<1> QED
  BY InitProcess, StepProcess, <1>1, PTL DEF ProcessSpec

(* Nobody waits for what cannot happen: whoever waits for a child reads    *)
(* its pipes, so that a full pipe does not keep it from ending, and the    *)
(* registry is locked only by a caller that collects from a child that     *)
(* exists.                                                                 *)
WaitsCanEnd ==
  /\ \A k \in Callers : pc[k] \in {"reaping", "collecting"} => target[k] \in drained
  /\ lock # "none" => lock \in Callers /\ pc[lock] = "collecting" /\ Exists(target[lock])

LEMMA StepWaits == ProcessInv /\ WaitsCanEnd /\ [ProcessNext]_processVars => WaitsCanEnd'
<1> SUFFICES ASSUME ProcessInv, WaitsCanEnd, [ProcessNext]_processVars PROVE WaitsCanEnd'
  OBVIOUS
<1>1. /\ pc \in [Callers -> Calls \cup {"idle", "registering", "reaping", "collecting"}]
      /\ target \in [Callers -> Children]
      /\ kernel \in [Children -> {"none", "running", "zombie", "reaped"}]
  BY DEF ProcessInv, ProcessTypeOK
<1>2. \A c \in Children, k \in Callers : c \in registry /\ Holds(k) => target[k] # c
  BY DEF ProcessInv, OnePlace
<1>3. \A j, k \in Callers : Holds(j) /\ Holds(k) /\ target[j] = target[k] => j = k
  BY DEF ProcessInv, OnePlace
<1>4. CASE UNCHANGED processVars
  BY <1>4 DEF processVars, WaitsCanEnd, Exists
<1>5. ASSUME NEW k \in Callers, RegisterChild(k) \/ Invalid(k) PROVE WaitsCanEnd'
  BY <1>1, <1>5 DEF RegisterChild, Invalid, Goto, WaitsCanEnd, Exists
<1>6. ASSUME NEW k \in Callers, BeginWait(k) PROVE WaitsCanEnd'
  BY <1>1, <1>6 DEF BeginWait, Free, Goto, WaitsCanEnd
<1>7. ASSUME NEW k \in Callers, BeginWaitOutput(k) PROVE WaitsCanEnd'
  <2>1. Exists(target[k])'
    BY <1>1, <1>7 DEF BeginWaitOutput, ProcessInv, OnePlace, Exists
  <2> QED
    BY <1>1, <1>7, <2>1 DEF BeginWaitOutput, Goto, WaitsCanEnd, Exists
<1>8. ASSUME NEW k \in Callers, EndWait(k) PROVE WaitsCanEnd'
  <2>1. lock # "none" /\ lock # k => target[lock] # target[k]
    BY <1>3, <1>8 DEF EndWait, WaitsCanEnd, Holds
  <2> QED
    BY <1>1, <1>8, <2>1 DEF EndWait, WaitsCanEnd, Exists
<1>9. ASSUME NEW k \in Callers, Kill(k) PROVE WaitsCanEnd'
  BY <1>1, <1>9 DEF Kill, Free, Goto, WaitsCanEnd
<1>10. ASSUME NEW k \in Callers, NEW c \in Children, Spawn(k, c) PROVE WaitsCanEnd'
  BY <1>1, <1>10 DEF Spawn, Goto, WaitsCanEnd, Exists
<1>11. ASSUME NEW k \in Callers, NEW c \in Children, NEW op \in Calls, Call(k, op, c)
       PROVE  WaitsCanEnd'
  BY <1>1, <1>11 DEF Call, Calls, Goto, WaitsCanEnd, Exists
<1>12. ASSUME NEW c \in Children, ChildExits(c) PROVE WaitsCanEnd'
  BY <1>1, <1>12 DEF ChildExits, WaitsCanEnd, Exists
<1> QED
  BY <1>4, <1>5, <1>6, <1>7, <1>8, <1>9, <1>10, <1>11, <1>12 DEF ProcessNext, Step

(* Processes: a wait is only ever for a child that can end, or runs for    *)
(* ever by itself, and only such a wait holds up the other callers.        *)
THEOREM ProcessWaitsCanEnd == ProcessSpec => []WaitsCanEnd
<1>1. ProcessInit => WaitsCanEnd
  BY DEF ProcessInit, WaitsCanEnd
<1> QED
  BY InitProcess, StepProcess, StepWaits, <1>1, PTL DEF ProcessSpec
-----------------------------------------------------------------------------
(* The reactor *)

Channel == {cmds[i] : i \in DOMAIN cmds}

ReactorTypeOK ==
  /\ cmds \in Seq(Tasks \cup {"shutdown"})
  /\ slots \subseteq Tasks /\ ready \subseteq Tasks
  /\ sources \subseteq Tasks /\ watched \subseteq Tasks
  /\ edge \subseteq Tasks /\ batch \subseteq Tasks
  /\ tpc \in [Tasks -> {"start", "parked", "poll", "unslot", "unsource", "done"}]

(* Every event is about a socket whose peer has written. *)
Evidence ==
  /\ data \subseteq sent
  /\ \A t \in edge \cup batch \cup ready : \E u \in sent : Fd[u] = Arg[t]

(* What the reactor thread has made of a registration it has drained. *)
Drained == sources \cup edge \cup batch \cup ready

(* A registration is sent once, and nothing is known of it before it is    *)
(* drained.                                                                *)
SentOnce ==
  /\ \A t \in Tasks : tpc[t] = "start" => t \notin Channel \cup Drained
  /\ \A t \in Channel : t \notin Drained
  /\ \A i, j \in DOMAIN cmds : cmds[i] = cmds[j] /\ cmds[i] \in Tasks => i = j

(* A Rust task that deregisters was woken, so its command is not in the    *)
(* channel any more and will not bring its source back.                    *)
WokenIsDrained ==
  \A t \in RustTasks :
    /\ tpc[t] \in {"unslot", "unsource", "done"} => t \notin Channel
    /\ tpc[t] = "done" => t \notin sources

ReactorInv == ReactorTypeOK /\ Evidence /\ SentOnce /\ WokenIsDrained

(* The first command of the channel is handled, a command is sent. *)
LEMMA TailFacts ==
  ASSUME ReactorInv, cmds # <<>>, cmds' = Tail(cmds)
  PROVE  /\ cmds' \in Seq(Tasks \cup {"shutdown"})
         /\ Head(cmds) \in Channel /\ Channel' \subseteq Channel
         /\ Head(cmds) \in Tasks => Head(cmds) \notin Channel'
         /\ \A i, j \in DOMAIN cmds' : cmds'[i] = cmds'[j] /\ cmds'[i] \in Tasks => i = j
<1> DEFINE n == Len(cmds)
<1>1. /\ n \in Nat /\ n >= 1 /\ DOMAIN cmds = 1 .. n
      /\ Head(cmds) = cmds[1]
      /\ cmds' \in Seq(Tasks \cup {"shutdown"}) /\ DOMAIN cmds' = 1 .. n - 1
      /\ \A i \in 1 .. n - 1 : cmds'[i] = cmds[i + 1]
  BY DEF ReactorInv, ReactorTypeOK
<1>2. \A i, j \in 1 .. n : cmds[i] = cmds[j] /\ cmds[i] \in Tasks => i = j
  BY <1>1 DEF ReactorInv, SentOnce
<1> HIDE DEF n
<1>3. 1 \in 1 .. n /\ \A i \in 1 .. n - 1 : i + 1 \in 1 .. n /\ i + 1 # 1
  BY <1>1
<1>4. Head(cmds) \in Channel /\ Channel' \subseteq Channel
  BY <1>1, <1>3 DEF Channel
<1>5. Head(cmds) \in Tasks => Head(cmds) \notin Channel'
  BY <1>1, <1>2, <1>3 DEF Channel
<1>6. \A i, j \in 1 .. n - 1 : cmds'[i] = cmds'[j] /\ cmds'[i] \in Tasks => i = j
  BY <1>1, <1>2, <1>3
<1> QED
  BY <1>1, <1>4, <1>5, <1>6

LEMMA SendFacts ==
  ASSUME ReactorInv, NEW c \in Tasks \cup {"shutdown"}, cmds' = Append(cmds, c),
         c \in Tasks => c \notin Channel
  PROVE  /\ cmds' \in Seq(Tasks \cup {"shutdown"})
         /\ Channel' = Channel \cup {c}
         /\ \A i, j \in DOMAIN cmds' : cmds'[i] = cmds'[j] /\ cmds'[i] \in Tasks => i = j
<1> DEFINE n == Len(cmds)
<1>1. /\ n \in Nat /\ DOMAIN cmds = 1 .. n
      /\ cmds' \in Seq(Tasks \cup {"shutdown"}) /\ DOMAIN cmds' = 1 .. n + 1
      /\ cmds'[n + 1] = c /\ \A i \in 1 .. n : cmds'[i] = cmds[i]
  BY DEF ReactorInv, ReactorTypeOK
<1>2. \A i, j \in 1 .. n : cmds[i] = cmds[j] /\ cmds[i] \in Tasks => i = j
  BY <1>1 DEF ReactorInv, SentOnce
<1> HIDE DEF n
<1>3. \A i \in 1 .. n + 1 : i \in 1 .. n \/ i = n + 1
  BY <1>1
<1>4. n + 1 \in 1 .. n + 1 /\ 1 .. n \subseteq 1 .. n + 1
  BY <1>1
<1>5. Channel' = Channel \cup {c}
  BY <1>1, <1>3, <1>4 DEF Channel
<1>6. \A i \in 1 .. n : cmds[i] \in Channel
  BY <1>1 DEF Channel
<1>7. \A i, j \in 1 .. n + 1 : cmds'[i] = cmds'[j] /\ cmds'[i] \in Tasks => i = j
  BY <1>1, <1>2, <1>3, <1>6
<1> QED
  BY <1>1, <1>5, <1>7

LEMMA InitReactor == ReactorInit => ReactorInv
  BY DEF ReactorInit, ReactorInv, ReactorTypeOK, Evidence, SentOnce, WokenIsDrained,
     Channel, Drained

(* The executors; only the first poll sends anything. *)
LEMMA ExecutorStep ==
  ASSUME ReactorInv, NEW t \in Tasks, Executor(t)
  PROVE  ReactorInv'
<1>1. CASE FirstPoll(t)
  <2>1. /\ tpc[t] = "start" /\ tpc' = [tpc EXCEPT ![t] = "parked"]
        /\ slots' = slots \cup {t} /\ cmds' = Append(cmds, t)
        /\ UNCHANGED <<ready, sources, watched, edge, data, sent, batch>>
    BY <1>1 DEF FirstPoll, Moves, sockets, background
  <2>2. t \notin Channel \cup Drained
    BY <2>1 DEF ReactorInv, SentOnce
  <2>3. /\ cmds' \in Seq(Tasks \cup {"shutdown"})
        /\ Channel' = Channel \cup {t}
        /\ \A i, j \in DOMAIN cmds' : cmds'[i] = cmds'[j] /\ cmds'[i] \in Tasks => i = j
    BY <2>1, <2>2, SendFacts
  <2>4. Drained' = Drained
    BY <2>1 DEF Drained
  <2>5. ReactorTypeOK' /\ Evidence'
    BY <2>1, <2>3 DEF ReactorInv, ReactorTypeOK, Evidence
  <2>6. SentOnce'
    BY <2>1, <2>2, <2>3, <2>4 DEF ReactorInv, ReactorTypeOK, SentOnce
  <2>7. WokenIsDrained'
    BY <2>1, <2>3 DEF ReactorInv, ReactorTypeOK, WokenIsDrained
  <2> QED
    BY <2>5, <2>6, <2>7 DEF ReactorInv
<1>2. ASSUME NEW from \in {"parked", "poll", "unslot", "unsource"},
             NEW to \in {"parked", "poll", "unslot", "unsource", "done"},
             tpc[t] = from, tpc' = [tpc EXCEPT ![t] = to],
             t \in RustTasks /\ to = "unslot" => t \notin Channel,
             to = "unsource" => from = "unslot",
             to = "done" => from = "unsource" /\ t \notin sources',
             UNCHANGED <<cmds, batch, sent, watched>>,
             slots' \subseteq slots, ready' \subseteq ready,
             sources' \subseteq sources, edge' \subseteq edge, data' \subseteq data
      PROVE  ReactorInv'
  <2>1. Channel' = Channel /\ Drained' \subseteq Drained
    BY <1>2 DEF Channel, Drained
  <2>2. ReactorTypeOK' /\ Evidence'
    BY <1>2 DEF ReactorInv, ReactorTypeOK, Evidence
  <2>3. SentOnce'
    BY <1>2, <2>1 DEF ReactorInv, ReactorTypeOK, SentOnce
  <2>4. WokenIsDrained'
    BY <1>2, <2>1 DEF ReactorInv, ReactorTypeOK, WokenIsDrained
  <2> QED
    BY <2>2, <2>3, <2>4 DEF ReactorInv
<1>3. CASE Resume(t) \/ SliceEnds(t)
  BY <1>2, <1>3 DEF Resume, SliceEnds, Moves, tables, sockets, background
<1>4. CASE TakeReady(t)
  <2>1. t \in ready => t \notin Channel
    BY DEF ReactorInv, SentOnce, Drained
  <2> QED
    BY <1>2, <1>4, <2>1 DEF TakeReady, Moves, tables, sockets, background
<1>5. CASE Read(t)
  <2>1. t \notin RustTasks
    BY <1>5, TasksAssumption DEF TasksAssumption, Read
  <2> QED
    BY <1>2, <1>5, <2>1 DEF Read, Moves, tables, background
<1>6. CASE RemoveSlot(t)
  BY <1>2, <1>6 DEF RemoveSlot, Moves, sockets, background
<1>7. CASE RemoveSource(t)
  BY <1>2, <1>7 DEF RemoveSource, Moves, background
<1> QED
  BY <1>1, <1>3, <1>4, <1>5, <1>6, <1>7 DEF Executor

LEMMA PeerStep ==
  ASSUME ReactorInv, NEW t \in Tasks, PeerWrites(t)
  PROVE  ReactorInv'
<1>1. /\ sent' = sent \cup {t} /\ data' = data \cup {t}
      /\ edge' = edge \cup {u \in sources : Arg[u] = Fd[t] /\ Fd[t] \in open}
      /\ UNCHANGED <<cmds, slots, sources, watched, ready, tpc, batch>>
  BY DEF PeerWrites, tables, background
<1>2. Channel' = Channel /\ Drained' = Drained
  BY <1>1 DEF Channel, Drained
<1>3. ReactorTypeOK' /\ Evidence'
  BY <1>1 DEF ReactorInv, ReactorTypeOK, Evidence
<1> QED
  BY <1>1, <1>2, <1>3 DEF ReactorInv, SentOnce, WokenIsDrained

LEMMA DropStep ==
  ASSUME ReactorInv, DropReactor
  PROVE  ReactorInv'
<1>1. /\ cmds' = Append(cmds, "shutdown")
      /\ UNCHANGED <<slots, sources, watched, ready, edge, batch, data, sent, tpc>>
  BY DEF DropReactor, tables, sockets
<1>2. "shutdown" \notin Tasks
  BY TasksAssumption DEF TasksAssumption
<1>3. /\ cmds' \in Seq(Tasks \cup {"shutdown"})
      /\ Channel' = Channel \cup {"shutdown"}
      /\ \A i, j \in DOMAIN cmds' : cmds'[i] = cmds'[j] /\ cmds'[i] \in Tasks => i = j
  BY <1>1, <1>2, SendFacts
<1>4. Drained' = Drained /\ Drained \subseteq Tasks
  BY <1>1 DEF Drained, ReactorInv, ReactorTypeOK
<1>5. ReactorTypeOK' /\ Evidence'
  BY <1>1, <1>3 DEF ReactorInv, ReactorTypeOK, Evidence
<1>6. SentOnce' /\ WokenIsDrained'
  BY <1>1, <1>2, <1>3, <1>4 DEF ReactorInv, SentOnce, WokenIsDrained, Tasks
<1> QED
  BY <1>5, <1>6 DEF ReactorInv

LEMMA ReactorThreadStep ==
  ASSUME ReactorInv, ReactorThread
  PROVE  ReactorInv'
<1>1. CASE DrainRegister
  <2> DEFINE t == Head(cmds)
  <2>1. /\ cmds # <<>> /\ cmds' = Tail(cmds) /\ t # "shutdown"
        /\ sources' = sources \cup {t} /\ watched' = watched \cup {t}
        /\ edge' = IF Readable(t) THEN edge \cup {t} ELSE edge
        /\ UNCHANGED <<slots, ready, batch, data, sent, tpc>>
    BY <1>1 DEF DrainRegister, sockets, background
  <2>2. /\ cmds' \in Seq(Tasks \cup {"shutdown"})
        /\ t \in Channel /\ Channel' \subseteq Channel
        /\ t \in Tasks => t \notin Channel'
        /\ \A i, j \in DOMAIN cmds' : cmds'[i] = cmds'[j] /\ cmds'[i] \in Tasks => i = j
    BY <2>1, TailFacts
  <2>3. t \in Tasks
    BY <2>1, <2>2 DEF ReactorInv, ReactorTypeOK, Channel
  <2> HIDE DEF t
  <2>4. Readable(t) => \E u \in sent : Fd[u] = Arg[t]
    BY DEF Readable, ReactorInv, Evidence
  <2>5. Drained' \subseteq Drained \cup {t}
    BY <2>1 DEF Drained
  <2>6. ReactorTypeOK' /\ Evidence'
    BY <2>1, <2>2, <2>3, <2>4 DEF ReactorInv, ReactorTypeOK, Evidence
  <2>7. tpc[t] # "start"
    BY <2>2, <2>3 DEF ReactorInv, SentOnce
  <2>8. SentOnce'
    BY <2>1, <2>2, <2>3, <2>5, <2>7 DEF ReactorInv, SentOnce
  <2>9. WokenIsDrained'
    BY <2>1, <2>2 DEF ReactorInv, WokenIsDrained
  <2> QED
    BY <2>6, <2>8, <2>9 DEF ReactorInv
<1>2. CASE DrainShutdown
  <2>1. /\ cmds # <<>> /\ cmds' = Tail(cmds)
        /\ UNCHANGED <<slots, sources, watched, ready, edge, batch, data, sent, tpc>>
    BY <1>2 DEF DrainShutdown, tables, sockets
  <2>2. /\ cmds' \in Seq(Tasks \cup {"shutdown"}) /\ Channel' \subseteq Channel
        /\ \A i, j \in DOMAIN cmds' : cmds'[i] = cmds'[j] /\ cmds'[i] \in Tasks => i = j
    BY <2>1, TailFacts
  <2>3. Drained' = Drained
    BY <2>1 DEF Drained
  <2>4. ReactorTypeOK' /\ Evidence'
    BY <2>1, <2>2 DEF ReactorInv, ReactorTypeOK, Evidence
  <2> QED
    BY <2>1, <2>2, <2>3, <2>4 DEF ReactorInv, SentOnce, WokenIsDrained
<1>3. CASE DrainEmpty \/ PollReturns \/ LoopBack
  <2>1. /\ UNCHANGED <<cmds, slots, sources, watched, ready, data, sent, tpc>>
        /\ edge' \cup batch' \subseteq edge \cup batch
    BY <1>3 DEF DrainEmpty, PollReturns, LoopBack, tables, sockets
  <2>2. Channel' = Channel /\ Drained' \subseteq Drained
    BY <2>1 DEF Channel, Drained
  <2>3. ReactorTypeOK' /\ Evidence'
    BY <2>1 DEF ReactorInv, ReactorTypeOK, Evidence
  <2> QED
    BY <2>1, <2>2, <2>3 DEF ReactorInv, SentOnce, WokenIsDrained
<1>4. ASSUME NEW t \in Tasks, DeliverEvent(t)
      PROVE  ReactorInv'
  <2>1. /\ t \in batch /\ batch' = batch \ {t}
        /\ ready' \subseteq ready \cup {t}
        /\ UNCHANGED <<cmds, slots, sources, watched, edge, data, sent, tpc>>
    BY <1>4 DEF DeliverEvent, tables, sockets
  <2>2. Channel' = Channel /\ Drained' \subseteq Drained
    BY <2>1 DEF Channel, Drained
  <2>3. ReactorTypeOK' /\ Evidence'
    BY <2>1 DEF ReactorInv, ReactorTypeOK, Evidence
  <2> QED
    BY <2>1, <2>2, <2>3 DEF ReactorInv, SentOnce, WokenIsDrained
<1> QED
  BY <1>1, <1>2, <1>3, <1>4 DEF ReactorThread

LEMMA StepReactor == ReactorInv /\ [ReactorNext]_reactorVars => ReactorInv'
<1> SUFFICES ASSUME ReactorInv, [ReactorNext]_reactorVars PROVE ReactorInv'
  OBVIOUS
<1>1. CASE UNCHANGED reactorVars
  BY <1>1 DEF reactorVars, ReactorInv, ReactorTypeOK, Evidence, SentOnce, WokenIsDrained,
     Channel, Drained
<1>2. CASE ReactorNext
  BY <1>2, ExecutorStep, PeerStep, DropStep, ReactorThreadStep DEF ReactorNext
<1> QED
  BY <1>1, <1>2

(* Reactor: a slot is ready only after its peer has written. *)
THEOREM ReactorReadyMeansData == ReactorSpec => []ReadyMeansData
<1>1. ReactorInv => ReadyMeansData
  BY DEF ReactorInv, Evidence, ReadyMeansData
<1> QED
  BY InitReactor, StepReactor, <1>1, PTL DEF ReactorSpec

(* Reactor: once a task that was woken has deregistered, its source is     *)
(* gone for good, whatever is still in the channel.                        *)
THEOREM ReactorWokenDeregisterIsFinal == ReactorSpec => []WokenDeregisterIsFinal
<1>1. ReactorInv => WokenDeregisterIsFinal
  BY DEF ReactorInv, WokenIsDrained, WokenDeregisterIsFinal
<1> QED
  BY InitReactor, StepReactor, <1>1, PTL DEF ReactorSpec
-----------------------------------------------------------------------------
(* What a Rust task that waits can count on.                               *)

(* No wake-up is lost: a task that is parked while its socket has data is  *)
(* woken already, or its registration or its event is on its way to the    *)
(* reactor thread, which runs; a task that polls finds its slot ready.     *)
(* (A .g task may close the socket of another by its number.)              *)
NoWakeupLost ==
  \A t \in RustTasks :
    /\ tpc[t] = "parked" => rpc # "stopped"
    /\ tpc[t] = "parked" /\ t \in sent /\ Fd[t] \in open =>
         wakeup[t] \/ t \in Channel \cup edge \cup batch
    /\ tpc[t] = "poll" => t \in slots \cap ready

(* One task; a flag that is set goes with a slot that is ready, and what   *)
(* its peer has written stays unread.                                      *)
Served(t) ==
  /\ tpc[t] = "start" => ~wakeup[t]
  /\ tpc[t] \in {"parked", "poll"} => t \in slots /\ t \in Channel \cup sources
  /\ tpc[t] = "poll" \/ (tpc[t] = "parked" /\ wakeup[t]) => t \in ready
  /\ t \in sent => t \in data
  /\ tpc[t] = "parked" /\ t \in sent /\ Fd[t] \in open =>
       wakeup[t] \/ t \in Channel \cup edge \cup batch

BatchHandled == rpc # "deliver" => batch = {}

(* The reactor thread stops last. *)
StopsLast ==
  /\ "shutdown" \in Channel \/ rpc = "stopped" => dropped
  /\ dropped => \A t \in Tasks : tpc[t] = "done"

WakeInv == /\ wakeup \in [Tasks -> BOOLEAN]
           /\ BatchHandled /\ StopsLast
           /\ \A t \in RustTasks : Served(t)

LEMMA InitWake == ReactorInit => WakeInv
  BY DEF ReactorInit, WakeInv, BatchHandled, StopsLast, Served, Channel, Tasks

(* What is left in the channel when its first command is handled. *)
LEMMA TailKeeps ==
  ASSUME ReactorInv, cmds # <<>>, cmds' = Tail(cmds), NEW c \in Channel, c # Head(cmds)
  PROVE  c \in Channel'
<1> DEFINE n == Len(cmds)
<1>1. /\ n \in Nat /\ n >= 1 /\ DOMAIN cmds = 1 .. n
      /\ Head(cmds) = cmds[1] /\ DOMAIN cmds' = 1 .. n - 1
      /\ \A i \in 1 .. n - 1 : cmds'[i] = cmds[i + 1]
  BY DEF ReactorInv, ReactorTypeOK
<1>2. PICK i \in 1 .. n : c = cmds[i]
  BY <1>1 DEF Channel
<1> HIDE DEF n
<1>3. i # 1 /\ i - 1 \in 1 .. n - 1 /\ (i - 1) + 1 = i
  BY <1>1, <1>2
<1>4. cmds'[i - 1] = c
  BY <1>1, <1>2, <1>3
<1> QED
  BY <1>1, <1>3, <1>4 DEF Channel

(* The executors. *)
LEMMA ExecutorWakes ==
  ASSUME ReactorInv, WakeInv, NEW t \in Tasks, Executor(t)
  PROVE  WakeInv'
<1>1. ~dropped
  BY DEF Executor, FirstPoll, Resume, SliceEnds, TakeReady, Read, RemoveSlot, RemoveSource,
     Moves, WakeInv, StopsLast
<1>2. UNCHANGED <<rpc, batch, dropped, sent>>
  BY DEF Executor, FirstPoll, Resume, SliceEnds, TakeReady, Read, RemoveSlot, RemoveSource,
     background, sockets
<1>3. tpc \in [Tasks -> {"start", "parked", "poll", "unslot", "unsource", "done"}]
  BY DEF ReactorInv, ReactorTypeOK
<1>4. RustTasks \subseteq Tasks /\ (t \in GTasks => t \notin RustTasks)
  BY TasksAssumption DEF TasksAssumption, Tasks
<1>5. CASE FirstPoll(t)
  <2>1. /\ tpc[t] = "start" /\ tpc' = [tpc EXCEPT ![t] = "parked"]
        /\ slots' = slots \cup {t} /\ cmds' = Append(cmds, t)
        /\ UNCHANGED <<ready, sources, edge, open, data, wakeup>>
    BY <1>5 DEF FirstPoll, Moves, sockets
  <2>2. t \notin Channel
    BY <2>1 DEF ReactorInv, SentOnce
  <2>3. Channel' = Channel \cup {t}
    BY <2>1, <2>2, SendFacts
  <2>4. StopsLast'
    BY <1>1, <1>2, <2>3, TasksAssumption DEF TasksAssumption, WakeInv, StopsLast
  <2>5. ASSUME NEW u \in RustTasks PROVE Served(u)'
    BY <1>2, <1>3, <1>4, <2>1, <2>3 DEF WakeInv, Served
  <2> QED
    BY <1>2, <2>1, <2>4, <2>5 DEF WakeInv, BatchHandled
<1>6. CASE ~FirstPoll(t)
  <2>1. UNCHANGED cmds
    BY <1>6 DEF Executor, Resume, SliceEnds, TakeReady, Read, RemoveSlot, RemoveSource
  <2>2. Channel' = Channel
    BY <2>1 DEF Channel
  <2>3. StopsLast' /\ BatchHandled'
    BY <1>1, <1>2, <2>2 DEF WakeInv, StopsLast, BatchHandled
  <2>4. /\ wakeup' \in [Tasks -> BOOLEAN]
        /\ \A u \in Tasks \ {t} : wakeup'[u] = wakeup[u] /\ tpc'[u] = tpc[u]
    BY <1>3, <1>6 DEF WakeInv, Executor, Resume, SliceEnds, TakeReady, Read, RemoveSlot,
       RemoveSource, Moves
  <2>5. /\ open' \subseteq open
        /\ \A u \in RustTasks \ {t} :
             /\ u \in slots' <=> u \in slots
             /\ u \in sources' <=> u \in sources
             /\ u \in ready' <=> u \in ready
             /\ u \in edge' <=> u \in edge
             /\ u \in data' <=> u \in data
    BY <1>6 DEF Executor, Resume, SliceEnds, TakeReady, Read, RemoveSlot, RemoveSource,
       tables, sockets
  <2>6. ASSUME NEW u \in RustTasks \ {t} PROVE Served(u)'
    BY <1>2, <1>4, <2>2, <2>4, <2>5 DEF WakeInv, Served
  <2>7. ASSUME t \in RustTasks PROVE Served(t)'
    <3>1. Served(t)
      BY <2>7 DEF WakeInv
    <3>2. CASE Resume(t)
      BY <1>2, <1>3, <2>2, <3>1, <3>2 DEF Resume, Moves, tables, sockets, Served
    <3>3. CASE TakeReady(t)
      BY <1>2, <1>3, <2>2, <3>1, <3>3 DEF TakeReady, Moves, tables, sockets, Served
    <3>4. CASE RemoveSlot(t)
      BY <1>2, <1>3, <2>2, <3>1, <3>4 DEF RemoveSlot, Moves, sockets, Served
    <3>5. CASE RemoveSource(t)
      BY <1>2, <1>3, <2>2, <3>1, <3>5 DEF RemoveSource, Moves, Served
    <3> QED
      BY <1>4, <1>6, <2>7, <3>2, <3>3, <3>4, <3>5 DEF Executor, SliceEnds, Read
  <2> QED
    BY <2>3, <2>4, <2>6, <2>7 DEF WakeInv
<1> QED
  BY <1>5, <1>6

LEMMA PeerWakes ==
  ASSUME ReactorInv, WakeInv, NEW t \in Tasks, PeerWrites(t)
  PROVE  WakeInv'
<1>1. /\ sent' = sent \cup {t} /\ data' = data \cup {t}
      /\ edge' = edge \cup {u \in sources : Arg[u] = Fd[t] /\ Fd[t] \in open}
      /\ UNCHANGED <<cmds, slots, sources, ready, open, tpc, wakeup, rpc, batch, dropped>>
  BY DEF PeerWrites, tables, background
<1>2. Channel' = Channel
  BY <1>1 DEF Channel
<1>3. ASSUME NEW u \in RustTasks PROVE Served(u)'
  <2>1. Arg[u] = Fd[u] /\ Served(u)
    BY RustArgAssumption DEF RustArgAssumption, WakeInv
  <2> QED
    BY <1>1, <1>2, <2>1 DEF Served
<1> QED
  BY <1>1, <1>2, <1>3 DEF WakeInv, BatchHandled, StopsLast

LEMMA DropWakes ==
  ASSUME ReactorInv, WakeInv, DropReactor
  PROVE  WakeInv'
<1>1. /\ cmds' = Append(cmds, "shutdown") /\ dropped' = TRUE
      /\ \A t \in Tasks : tpc[t] = "done"
      /\ UNCHANGED <<slots, sources, ready, edge, batch, rpc, open, data, sent, tpc, wakeup>>
  BY DEF DropReactor, tables, sockets
<1>2. Channel' = Channel \cup {"shutdown"}
  BY <1>1, SendFacts, TasksAssumption DEF TasksAssumption
<1> QED
  BY <1>1, <1>2 DEF WakeInv, BatchHandled, StopsLast, Served

LEMMA ReactorThreadWakes ==
  ASSUME ReactorInv, WakeInv, ReactorThread
  PROVE  WakeInv'
<1>1. CASE DrainRegister
  <2> DEFINE h == Head(cmds)
  <2>1. /\ cmds # <<>> /\ cmds' = Tail(cmds) /\ h # "shutdown" /\ rpc = "drain"
        /\ sources' = sources \cup {h}
        /\ edge' = IF Readable(h) THEN edge \cup {h} ELSE edge
        /\ UNCHANGED <<slots, ready, batch, open, data, sent, tpc, wakeup, rpc, dropped>>
    BY <1>1 DEF DrainRegister, sockets, background
  <2>2. Channel' \subseteq Channel /\ Channel \subseteq Channel' \cup {h}
    BY <2>1, TailFacts, TailKeeps
  <2> HIDE DEF h
  <2>3. ASSUME NEW u \in RustTasks PROVE Served(u)'
    <3>1. Arg[u] = Fd[u] /\ Served(u)
      BY RustArgAssumption DEF RustArgAssumption, WakeInv
    <3>2. u = h /\ u \in data /\ Fd[u] \in open => u \in edge'
      BY <2>1, <3>1 DEF Readable
    <3>3. edge \subseteq edge'
      BY <2>1
    <3> QED
      BY <2>1, <2>2, <3>1, <3>2, <3>3 DEF Served
  <2> QED
    BY <2>1, <2>2, <2>3 DEF WakeInv, BatchHandled, StopsLast
<1>2. CASE DrainShutdown
  <2>1. /\ cmds # <<>> /\ cmds' = Tail(cmds) /\ Head(cmds) = "shutdown"
        /\ rpc = "drain" /\ rpc' = "stopped"
        /\ UNCHANGED <<slots, sources, ready, edge, batch, open, data, sent, tpc, wakeup,
                       dropped>>
    BY <1>2 DEF DrainShutdown, tables, sockets
  <2>2. "shutdown" \in Channel
    BY <2>1, TailFacts
  <2>3. \A t \in Tasks : tpc[t] = "done"
    BY <2>2 DEF WakeInv, StopsLast
  <2> QED
    BY <2>1, <2>2, <2>3 DEF WakeInv, BatchHandled, StopsLast, Served, Tasks
<1>3. CASE DrainEmpty \/ PollReturns \/ LoopBack
  <2>1. /\ UNCHANGED <<cmds, slots, sources, ready, open, data, sent, tpc, wakeup, dropped>>
        /\ edge' \cup batch' = edge \cup batch
        /\ rpc' # "stopped" /\ (rpc' # "deliver" => batch' = {})
    BY <1>3 DEF DrainEmpty, PollReturns, LoopBack, tables, sockets, WakeInv, BatchHandled
  <2>2. Channel' = Channel
    BY <2>1 DEF Channel
  <2>3. ASSUME NEW u \in RustTasks PROVE Served(u)'
    <3>1. Served(u)
      BY DEF WakeInv
    <3>2. u \in Channel \cup edge \cup batch <=> u \in (Channel \cup edge \cup batch)'
      BY <2>1, <2>2
    <3> QED
      BY <2>1, <2>2, <3>1, <3>2 DEF Served
  <2> QED
    BY <2>1, <2>2, <2>3 DEF WakeInv, BatchHandled, StopsLast
<1>4. ASSUME NEW t \in Tasks, DeliverEvent(t)
      PROVE  WakeInv'
  <2>1. /\ t \in batch /\ batch' = batch \ {t} /\ rpc = "deliver"
        /\ ready' = IF t \in slots THEN ready \cup {t} ELSE ready
        /\ UNCHANGED <<cmds, slots, sources, edge, open, data, sent, tpc, rpc, dropped>>
    BY <1>4 DEF DeliverEvent, tables, sockets
  <2>2. \/ wakeup' = [wakeup EXCEPT ![t] = @ \/ t \in GTasks \/ t \in slots]
        \/ t \in GTasks /\ wakeup' = wakeup
    BY <1>4 DEF DeliverEvent
  <2>3. Channel' = Channel
    BY <2>1 DEF Channel
  <2>4. wakeup \in [Tasks -> BOOLEAN]
    BY DEF WakeInv
  <2>5. wakeup' \in [Tasks -> BOOLEAN] /\ \A u \in Tasks \ {t} : wakeup'[u] = wakeup[u]
    BY <2>2, <2>4
  <2>6. ASSUME NEW u \in RustTasks \ {t} PROVE Served(u)'
    BY <2>1, <2>3, <2>5 DEF WakeInv, Served, Tasks
  <2>7. ASSUME t \in RustTasks PROVE Served(t)'
    <3>1. Served(t)
      BY <2>7 DEF WakeInv
    <3>2. tpc[t] # "start"
      BY <2>1 DEF ReactorInv, SentOnce, Drained
    <3>3. t \in slots => wakeup'[t] /\ t \in ready'
      BY <2>1, <2>2, <2>4, <2>7, TasksAssumption DEF TasksAssumption
    <3>4. t \in ready => t \in ready'
      BY <2>1
    <3> QED
      BY <2>1, <2>3, <3>1, <3>2, <3>3, <3>4 DEF Served
  <2> QED
    BY <2>1, <2>3, <2>5, <2>6, <2>7 DEF WakeInv, BatchHandled, StopsLast
<1> QED
  BY <1>1, <1>2, <1>3, <1>4 DEF ReactorThread

LEMMA StepWake == ReactorInv /\ WakeInv /\ [ReactorNext]_reactorVars => WakeInv'
<1> SUFFICES ASSUME ReactorInv, WakeInv, [ReactorNext]_reactorVars PROVE WakeInv'
  OBVIOUS
<1>1. CASE UNCHANGED reactorVars
  BY <1>1 DEF reactorVars, WakeInv, BatchHandled, StopsLast, Served, Channel
<1>2. CASE ReactorNext
  BY <1>2, ExecutorWakes, PeerWakes, DropWakes, ReactorThreadWakes DEF ReactorNext
<1> QED
  BY <1>1, <1>2

(* Reactor: between the registration, the event and the executor's wait no *)
(* wake-up of a Rust task is lost, in any order of their steps.            *)
THEOREM ReactorNoWakeupLost == ReactorSpec => []NoWakeupLost
<1>1. WakeInv => NoWakeupLost
  BY DEF WakeInv, Served, StopsLast, NoWakeupLost, Tasks
<1> QED
  BY InitReactor, StepReactor, InitWake, StepWake, <1>1, PTL DEF ReactorSpec
=============================================================================
