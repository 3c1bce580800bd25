------------------------------ MODULE PilotWave ------------------------------
(***************************************************************************)
(* The wave command of tools/glyim-pilot.  An invocation groups the        *)
(* streams into waves from their upstream dependencies, takes the first    *)
(* wave that is not merged, hands its streams to the slots of the          *)
(* providers and starts them.  It remembers nothing: the next invocation   *)
(* knows of the previous one only which pull requests the state file says  *)
(* were merged.                                                            *)
(***************************************************************************)
EXTENDS Naturals, FiniteSets, Sequences

CONSTANTS Streams,     \* the streams of streams.json
          Unknown,     \* an upstream id that is no stream's
          Providers,   \* the enabled providers
          Graphs,      \* the dependencies to start from
          Limits,      \* the values of max_concurrent
          Strategies,  \* the dispatch strategies
          MaxWave      \* bound: waves counted up along a dependency cycle

(* The files that list the streams and the providers are finite.           *)
ASSUME WaveAssumption ==
  /\ IsFiniteSet(Streams) /\ Unknown \notin Streams
  /\ IsFiniteSet(Providers) /\ "none" \notin Providers
  /\ Graphs \subseteq [Streams -> SUBSET (Streams \cup {Unknown})]
  /\ Limits \subseteq Nat
  /\ MaxWave \in Nat

VARIABLES
  upstream,    \* the dependencies
  merged,      \* streams whose session says pr_merged
  landed,      \* streams that were ever marked merged (history)
  started,     \* streams for which a session was started
  phase,       \* "idle", or where the invocation is
  wave,        \* id_to_wave
  todo,        \* streams the current pass has still to visit
  changed,     \* whether the pass has raised a wave
  unassigned,  \* streams of the wave without a provider
  assigned,    \* the provider of each stream dispatched, or "none"
  limit,       \* max_concurrent, active_slots: the invocation's new pool
  active,
  strategy,    \* the invocation's strategy
  ring,        \* provider_ids: the order of a HashMap
  turn, fails  \* round robin: whose turn it is, consecutive_fails

svars == <<upstream, merged, landed, started>>
wvars == <<wave, todo, changed>>
pvars == <<limit, strategy, ring>>
dvars == <<unassigned, assigned, active, pvars, turn, fails>>
vars == <<svars, phase, wvars, dvars>>

Orders == {r \in [1..Cardinality(Providers) -> Providers] :
             \A p \in Providers : \E i \in DOMAIN r : r[i] = p}

Idle ==
  /\ phase' = "idle"
  /\ wave' = [s \in Streams |-> 0] /\ todo' = {} /\ changed' = FALSE
  /\ unassigned' = {} /\ assigned' = [s \in Streams |-> "none"]
  /\ active' = [p \in Providers |-> 0] /\ turn' = 0 /\ fails' = 0
  /\ limit' = [p \in Providers |-> 0] /\ strategy' = "none" /\ ring' = <<>>

Init ==
  /\ upstream \in Graphs
  /\ merged = {} /\ landed = {} /\ started = {}
  /\ phase = "idle"
  /\ wave = [s \in Streams |-> 0] /\ todo = {} /\ changed = FALSE
  /\ unassigned = {} /\ assigned = [s \in Streams |-> "none"]
  /\ active = [p \in Providers |-> 0] /\ turn = 0 /\ fails = 0
  /\ limit = [p \in Providers |-> 0] /\ strategy = "none" /\ ring = <<>>
-----------------------------------------------------------------------------
(* compute_waves: passes over the map of streams, in the order of a        *)
(* HashMap, until a pass changes nothing.                                  *)
Invoke ==
  /\ phase = "idle"
  /\ phase' = "relax" /\ todo' = Streams
  /\ UNCHANGED <<svars, wave, changed, dvars>>

(* w is one more than the highest wave upstream of s. *)
NewWave(s, w) ==
  /\ \A u \in upstream[s] : wave[u] < w
  /\ w = 1 \/ \E u \in upstream[s] : w = wave[u] + 1

Visit(s) ==
  /\ phase = "relax" /\ s \in todo
  /\ upstream[s] \subseteq Streams
  /\ todo' = todo \ {s}
  /\ \E w \in 1..MaxWave :
       /\ NewWave(s, w)
       /\ IF w > wave[s] THEN wave' = [wave EXCEPT ![s] = w] /\ changed' = TRUE
                         ELSE UNCHANGED <<wave, changed>>
  /\ UNCHANGED <<svars, phase, dvars>>

(* "stream references unknown upstream": the command fails. *)
UnknownUpstream ==
  /\ phase = "relax"
  /\ \E s \in todo : Unknown \in upstream[s]
  /\ Idle
  /\ UNCHANGED <<svars>>

(* A loop that forgets to clear changed before a pass. *)
EndPassUncleared ==
  /\ phase = "relax" /\ todo = {} /\ changed
  /\ todo' = Streams
  /\ UNCHANGED <<svars, phase, wave, changed, dvars>>

EndPass ==
  /\ phase = "relax" /\ todo = {} /\ changed
  /\ todo' = Streams /\ changed' = FALSE
  /\ UNCHANGED <<svars, phase, wave, dvars>>

(* One pass would do if the streams were listed in the order of the waves. *)
OnePass == todo = {}
Settled == todo = {} /\ ~changed

(* The first wave with a stream that is not merged; the empty wave 0 when  *)
(* there is none.                                                          *)
Open(i) == \E s \in Streams : wave[s] = i /\ s \notin merged
CurrentWave(i) ==
  \/ Open(i) /\ \A j \in 0..i : Open(j) => j = i
  \/ i = 0 /\ Streams \subseteq merged

Pick ==
  /\ phase = "relax" /\ Settled
  /\ \E i \in 0..MaxWave :
       /\ CurrentWave(i)
       /\ unassigned' = {s \in Streams : wave[s] = i}
  /\ limit' \in [Providers -> Limits]
  /\ strategy' \in Strategies
  /\ ring' \in Orders
  /\ phase' = "dispatch"
  /\ UNCHANGED <<svars, wvars, assigned, active, turn, fails>>
-----------------------------------------------------------------------------
(* dispatch_wave, on the pool of the configuration just read.              *)
Free(p) == limit[p] - active[p]
HasSlot(p) == active[p] < limit[p]
Best(p) == HasSlot(p) /\ \A q \in Providers : HasSlot(q) => Free(q) <= Free(p)

Allocate(p) == active' = [active EXCEPT ![p] = @ + 1]
Assign(s, p) ==
  /\ assigned' = [assigned EXCEPT ![s] = p]
  /\ unassigned' = unassigned \ {s}

Dispatched ==
  /\ phase' = "spawn"
  /\ UNCHANGED <<svars, wvars>>
Dispatching ==
  /\ phase = "dispatch"
  /\ UNCHANGED <<svars, phase, wvars>>

(* most_slots_first and least_loaded: the next stream goes to a provider   *)
(* with the most free slots.                                               *)
DispatchBest ==
  /\ strategy \in {"most_slots_first", "least_loaded"}
  /\ Dispatching
  /\ \E s \in unassigned, p \in Providers : Best(p) /\ Allocate(p) /\ Assign(s, p)
  /\ UNCHANGED <<pvars, turn, fails>>

(* most_slots_first allocates before it looks for a stream, so it ends     *)
(* with a slot taken for nobody; least_loaded takes a stream first.        *)
BestEnds ==
  /\ phase = "dispatch"
  /\ \/ /\ strategy = "most_slots_first" /\ unassigned = {}
        /\ \E p \in Providers : Best(p) /\ Allocate(p)
     \/ /\ strategy = "least_loaded" /\ unassigned = {} /\ UNCHANGED active
     \/ /\ strategy # "round_robin"
        /\ ~ \E p \in Providers : HasSlot(p)
        /\ UNCHANGED active
  /\ Dispatched
  /\ UNCHANGED <<unassigned, assigned, pvars, turn, fails>>

(* round_robin: the providers in a fixed order, again and again, until     *)
(* each was asked twice in vain.                                           *)
Asked == ring[turn + 1]
NextTurn == turn' = (turn + 1) % Cardinality(Providers)

RoundRobinTakes ==
  /\ strategy = "round_robin" /\ Providers # {}
  /\ Dispatching
  /\ \E s \in unassigned : HasSlot(Asked) /\ Allocate(Asked) /\ Assign(s, Asked)
  /\ NextTurn /\ fails' = 0
  /\ UNCHANGED pvars

GivesUpAtOnce == fails = 0
GivesUp == fails = 2 * Cardinality(Providers)

RoundRobinFull ==
  /\ strategy = "round_robin" /\ Providers # {}
  /\ phase = "dispatch" /\ unassigned # {} /\ ~HasSlot(Asked)
  /\ IF GivesUp THEN phase' = "spawn" ELSE UNCHANGED phase
  /\ NextTurn /\ fails' = fails + 1
  /\ UNCHANGED <<svars, wvars, unassigned, assigned, active, pvars>>

RoundRobinEnds ==
  /\ strategy = "round_robin"
  /\ phase = "dispatch" /\ (unassigned = {} \/ Providers = {})
  /\ Dispatched
  /\ UNCHANGED dvars
-----------------------------------------------------------------------------
(* A task is spawned for each assignment and the command returns, which    *)
(* drops the tasks that have not started their session yet.                *)
Start(s) ==
  /\ phase = "spawn" /\ assigned[s] # "none"
  /\ started' = started \cup {s}
  /\ UNCHANGED <<upstream, merged, landed, phase, wvars, dvars>>

Return ==
  /\ phase = "spawn"
  /\ Idle
  /\ UNCHANGED <<svars>>

(* Between invocations the operator merges a pull request and says so; the *)
(* session, and with it the fact, may be evicted from the state file.      *)
MarkMerged(s) ==
  /\ phase = "idle" /\ s \in started
  /\ merged' = merged \cup {s} /\ landed' = landed \cup {s}
  /\ UNCHANGED <<upstream, started, phase, wvars, dvars>>

Evicted(s) ==
  /\ phase = "idle" /\ s \in merged
  /\ merged' = merged \ {s}
  /\ UNCHANGED <<upstream, landed, started, phase, wvars, dvars>>

Compute == Invoke \/ (\E s \in Streams : Visit(s)) \/ EndPass \/ UnknownUpstream \/ Pick
Dispatch == DispatchBest \/ BestEnds \/ RoundRobinTakes \/ RoundRobinFull \/ RoundRobinEnds

Next ==
  \/ Compute \/ Dispatch \/ Return
  \/ \E s \in Streams : Start(s) \/ MarkMerged(s) \/ Evicted(s)

(* The command runs by itself once it is invoked. *)
Spec == Init /\ [][Next]_vars
Progress == (\E s \in Streams : Visit(s)) \/ EndPass \/ UnknownUpstream \/ Pick \/ Dispatch
FairSpec == Spec /\ WF_vars(Progress)
-----------------------------------------------------------------------------
TypeOK ==
  /\ upstream \in Graphs
  /\ limit \in [Providers -> Nat]
  /\ strategy \in Strategies \cup {"none"}
  /\ merged \subseteq Streams /\ landed \subseteq Streams /\ started \subseteq Streams
  /\ phase \in {"idle", "relax", "dispatch", "spawn"}
  /\ wave \in [Streams -> Nat]
  /\ todo \subseteq Streams
  /\ changed \in BOOLEAN
  /\ unassigned \subseteq Streams
  /\ assigned \in [Streams -> Providers \cup {"none"}]
  /\ active \in [Providers -> Nat]
  /\ ring \in Orders \cup {<<>>} /\ turn \in Nat /\ fails \in Nat

(* No stream is started before everything upstream of it was merged, in    *)
(* whatever order the maps are walked and whatever was evicted since.      *)
UpstreamsLanded == \A s \in started : upstream[s] \subseteq landed

(* No provider is given more streams than it has slots, and a stream is    *)
(* left over only when every slot is taken.                                *)
Given(p) == {s \in Streams : assigned[s] = p}
SlotsUsed ==
  /\ \A p \in Providers : Cardinality(Given(p)) <= active[p] /\ active[p] <= limit[p]
  /\ phase = "spawn" /\ unassigned # {} =>
       \A p \in Providers : Cardinality(Given(p)) = limit[p]

(* The waves of a graph without a cycle, and of one with an unknown id,    *)
(* are settled after finitely many passes and the command goes on.         *)
Acyclic == \E rank \in [Streams -> 1..Cardinality(Streams)] :
             \A s \in Streams : \A u \in upstream[s] : u \in Streams => rank[u] < rank[s]
CommandReturns == (phase # "idle" /\ Acyclic) ~> (phase \in {"spawn", "idle"})
=============================================================================
