--------------------------- MODULE PilotWave_proofs ---------------------------
(***************************************************************************)
(* No stream is started before what it depends on was merged, and no slot  *)
(* is overbooked or left empty while a stream waits, for any streams,      *)
(* dependencies, providers and limits.                                     *)
(***************************************************************************)
EXTENDS PilotWave, FiniteSetTheorems, TLAPS

WaveTypes ==
  /\ upstream \in [Streams -> SUBSET (Streams \cup {Unknown})]
  /\ wave \in [Streams -> Nat]
  /\ assigned = [s \in Streams |-> assigned[s]]
  /\ todo \subseteq Streams

MergedLanded == merged \subseteq landed

(* While a pass has raised nothing, the streams it has visited are above   *)
(* everything upstream of them.                                            *)
Above(s) == upstream[s] \subseteq Streams /\ \A u \in upstream[s] : wave[u] < wave[s]
VisitedAbove ==
  phase = "relax" /\ ~changed => \A s \in Streams \ todo : Above(s)

(* What the invocation has taken up is ready to be started. *)
Ready(s) == upstream[s] \subseteq landed
TakenReady == \A s \in Streams : s \in unassigned \/ assigned[s] # "none" => Ready(s)

IInv == WaveTypes /\ MergedLanded /\ VisitedAbove /\ TakenReady /\ UpstreamsLanded

USE DEF svars, wvars, pvars, dvars
-----------------------------------------------------------------------------
LEMMA InitIInv == Init => IInv
<1> SUFFICES ASSUME Init PROVE IInv
  OBVIOUS
<1>1. WaveTypes
  BY WaveAssumption DEF Init, WaveTypes
<1> QED
  BY <1>1 DEF Init, IInv, MergedLanded, VisitedAbove, TakenReady, UpstreamsLanded

(* An invocation that ends leaves nothing behind but what it started. *)
LEMMA IdleKeeps ==
  ASSUME IInv, Idle, UNCHANGED svars
  PROVE  IInv'
<1>1. /\ wave' = [s \in Streams |-> 0] /\ todo' = {}
      /\ unassigned' = {} /\ assigned' = [s \in Streams |-> "none"]
      /\ phase' = "idle"
  BY DEF Idle
<1> QED
  BY <1>1 DEF IInv, WaveTypes, MergedLanded, VisitedAbove, TakenReady, UpstreamsLanded

LEMMA VisitKeeps ==
  ASSUME IInv, NEW s \in Streams, Visit(s)
  PROVE  IInv'
<1>1. PICK w \in 1..MaxWave :
        /\ NewWave(s, w)
        /\ IF w > wave[s] THEN wave' = [wave EXCEPT ![s] = w] /\ changed' = TRUE
                          ELSE UNCHANGED <<wave, changed>>
  BY DEF Visit
<1>2. /\ phase = "relax" /\ phase' = "relax" /\ upstream[s] \subseteq Streams
      /\ todo' = todo \ {s} /\ UNCHANGED <<svars, dvars>>
  BY DEF Visit
<1>3. WaveTypes'
  BY <1>1, <1>2, WaveAssumption DEF IInv, WaveTypes
<1>4. VisitedAbove'
  <2>1. CASE w > wave[s]
    BY <1>1, <2>1 DEF VisitedAbove
  <2>2. CASE ~(w > wave[s])
    <3>1. UNCHANGED <<wave, changed>>
      BY <1>1, <2>2
    <3>2. w <= wave[s]
      BY <1>1, <2>2 DEF IInv, WaveTypes
    <3>3. \A u \in upstream[s] : wave[u] \in Nat /\ wave[u] < w
      BY <1>1, <1>2 DEF NewWave, IInv, WaveTypes
    <3>4. wave[s] \in Nat /\ w \in Nat
      BY <1>1 DEF IInv, WaveTypes
    <3>5. Above(s)
      BY <1>2, <3>2, <3>3, <3>4 DEF Above
    <3> QED
      BY <1>2, <3>1, <3>5 DEF IInv, VisitedAbove, Above
  <2> QED
    BY <2>1, <2>2
<1> QED
  BY <1>2, <1>3, <1>4 DEF IInv, MergedLanded, TakenReady, Ready, UpstreamsLanded

(* A stream of the first open wave has everything upstream merged: it is   *)
(* in a lower wave, and no lower wave is open.                             *)
LEMMA FirstOpenReady ==
  ASSUME IInv, NEW i \in Nat, CurrentWave(i), NEW s \in Streams, wave[s] = i, Above(s)
  PROVE  Ready(s)
<1> SUFFICES ASSUME NEW u \in upstream[s] PROVE u \in merged
  BY DEF IInv, MergedLanded, Ready
<1>1. u \in Streams /\ wave[u] \in Nat /\ wave[u] < i
  BY DEF Above, IInv, WaveTypes
<1>2. CASE Open(i) /\ \A j \in 0..i : Open(j) => j = i
  <2>1. ~Open(wave[u])
    BY <1>1, <1>2
  <2> QED
    BY <1>1, <2>1 DEF Open
<1>3. CASE i = 0 /\ Streams \subseteq merged
  BY <1>1, <1>3
<1> QED
  BY <1>2, <1>3 DEF CurrentWave

LEMMA PickKeeps ==
  ASSUME IInv, Pick
  PROVE  IInv'
<1>1. PICK i \in 0..MaxWave : CurrentWave(i) /\ unassigned' = {s \in Streams : wave[s] = i}
  BY DEF Pick
<1>2. phase = "relax" /\ todo = {} /\ ~changed /\ phase' = "dispatch"
      /\ UNCHANGED <<svars, wvars, assigned>>
  BY DEF Pick, Settled
<1>3. \A s \in Streams : Above(s)
  BY <1>2 DEF IInv, VisitedAbove
<1>4. \A s \in Streams : wave[s] = i => Ready(s)
  BY <1>1, <1>3, FirstOpenReady, WaveAssumption
<1>5. TakenReady'
  BY <1>1, <1>2, <1>4 DEF IInv, TakenReady, Ready
<1>6. WaveTypes'
  BY <1>2 DEF IInv, WaveTypes
<1> QED
  BY <1>2, <1>5, <1>6 DEF IInv, MergedLanded, VisitedAbove, UpstreamsLanded

(* Only a stream that was taken up is given to a provider. *)
LEMMA DispatchKeeps ==
  ASSUME IInv, Dispatch
  PROVE  IInv'
<1>1. UNCHANGED <<svars, wvars>> /\ phase = "dispatch" /\ phase' # "relax"
  BY DEF Dispatch, DispatchBest, BestEnds, RoundRobinTakes, RoundRobinFull, RoundRobinEnds,
         Dispatching, Dispatched
<1>2. \/ UNCHANGED <<unassigned, assigned>>
      \/ \E s \in unassigned : \E p : Assign(s, p)
  <2>1. CASE DispatchBest
    BY <2>1 DEF DispatchBest
  <2>2. CASE BestEnds \/ RoundRobinFull \/ RoundRobinEnds
    BY <2>2 DEF BestEnds, RoundRobinFull, RoundRobinEnds
  <2>3. CASE RoundRobinTakes
    BY <2>3 DEF RoundRobinTakes
  <2> QED
    BY <2>1, <2>2, <2>3 DEF Dispatch
<1>3. CASE UNCHANGED <<unassigned, assigned>>
  BY <1>1, <1>3 DEF IInv, WaveTypes, MergedLanded, VisitedAbove, TakenReady, Ready,
                    UpstreamsLanded
<1>4. CASE \E s \in unassigned : \E p : Assign(s, p)
  <2>1. PICK s \in unassigned : \E p : Assign(s, p)
    BY <1>4
  <2>2. WaveTypes'
    BY <1>1, <2>1 DEF Assign, IInv, WaveTypes
  <2>3. TakenReady'
    BY <1>1, <2>1 DEF Assign, IInv, WaveTypes, TakenReady, Ready
  <2> QED
    BY <1>1, <2>2, <2>3 DEF IInv, MergedLanded, VisitedAbove, UpstreamsLanded
<1> QED
  BY <1>2, <1>3, <1>4

LEMMA OperatorKeeps ==
  ASSUME IInv, NEW s \in Streams, Start(s) \/ MarkMerged(s) \/ Evicted(s)
  PROVE  IInv'
<1>1. CASE Start(s)
  <2>1. Ready(s) /\ started' = started \cup {s}
        /\ UNCHANGED <<upstream, merged, landed, phase, wvars, dvars>>
    BY <1>1 DEF Start, IInv, TakenReady
  <2> QED
    BY <2>1 DEF IInv, WaveTypes, MergedLanded, VisitedAbove, Above, TakenReady, Ready,
                UpstreamsLanded
<1>2. CASE MarkMerged(s)
  BY <1>2 DEF MarkMerged, IInv, WaveTypes, MergedLanded, VisitedAbove, Above, TakenReady,
              Ready, UpstreamsLanded
<1>3. CASE Evicted(s)
  BY <1>3 DEF Evicted, IInv, WaveTypes, MergedLanded, VisitedAbove, Above, TakenReady,
              Ready, UpstreamsLanded
<1> QED
  BY <1>1, <1>2, <1>3

LEMMA NextIInv == IInv /\ [Next]_vars => IInv'
<1> SUFFICES ASSUME IInv, [Next]_vars PROVE IInv'
  OBVIOUS
<1>1. CASE Invoke
  BY <1>1 DEF Invoke, IInv, WaveTypes, MergedLanded, VisitedAbove, Above, TakenReady,
              Ready, UpstreamsLanded
<1>2. CASE EndPass
  BY <1>2 DEF EndPass, IInv, WaveTypes, MergedLanded, VisitedAbove, Above, TakenReady,
              Ready, UpstreamsLanded
<1>3. CASE UnknownUpstream
  BY <1>3, IdleKeeps DEF UnknownUpstream
<1>4. CASE Return
  BY <1>4, IdleKeeps DEF Return
<1>5. CASE UNCHANGED vars
  BY <1>5 DEF vars, IInv, WaveTypes, MergedLanded, VisitedAbove, Above, TakenReady,
              Ready, UpstreamsLanded
<1> QED
  BY <1>1, <1>2, <1>3, <1>4, <1>5, VisitKeeps, PickKeeps, DispatchKeeps, OperatorKeeps
     DEF Next, Compute

(* A session is started for a stream only when everything upstream of it   *)
(* has been marked merged, whatever the order in which the maps are walked *)
(* and however often the command is run.                                   *)
THEOREM PilotUpstreamsLanded == Spec => []UpstreamsLanded
<1>1. Spec => []IInv
  BY InitIInv, NextIInv, PTL DEF Spec
<1>2. IInv => UpstreamsLanded
  BY DEF IInv
<1> QED
  BY <1>1, <1>2, PTL
-----------------------------------------------------------------------------
(* Slots.  The invariant about the pool does not depend on the waves.      *)
N == Cardinality(Providers)

SlotTypes ==
  /\ limit \in [Providers -> Nat] /\ active \in [Providers -> Nat]
  /\ unassigned \subseteq Streams
  /\ assigned \in [Streams -> Providers \cup {"none"}]
  /\ fails \in Nat

(* An invocation starts with the slots of a new pool. *)
Fresh ==
  /\ \A p \in Providers : active[p] = 0
  /\ \A s \in Streams : assigned[s] = "none"
  /\ turn = 0 /\ fails = 0

(* While streams are handed out a slot is taken for each of them. *)
SlotEach ==
  /\ \A s \in unassigned : assigned[s] = "none"
  /\ \A p \in Providers : Cardinality(Given(p)) = active[p]

(* The place of the ring is one of the last `fails' places before turn. *)
Passed(k) == \/ k < turn /\ turn - k <= fails
             \/ k >= turn /\ turn + N - k <= fails

(* Round robin: the places asked in vain since the last stream was given   *)
(* away belong to providers that are full.                                 *)
PassedFull ==
  /\ ring \in Orders /\ turn \in 0..N-1
  /\ \A k \in 0..N-1 : Passed(k) => ~HasSlot(ring[k + 1])

SInv ==
  /\ SlotTypes /\ SlotsUsed
  /\ phase \in {"idle", "relax"} => Fresh
  /\ phase = "dispatch" => SlotEach /\ (Providers # {} => PassedFull)

LEMMA SuccMod ==
  ASSUME NEW n \in Nat, NEW i \in 0..n-1
  PROVE  (i + 1) % n = IF i + 1 = n THEN 0 ELSE i + 1
  OBVIOUS

LEMMA StreamsGiven ==
  ASSUME NEW p
  PROVE  IsFiniteSet(Given(p)) /\ Cardinality(Given(p)) \in Nat
<1>1. Given(p) \subseteq Streams
  BY DEF Given
<1> QED
  BY <1>1, FS_Subset, FS_CardinalityType, WaveAssumption

LEMMA NGood == N \in Nat /\ (Providers # {} => N >= 1)
  BY FS_CardinalityType, FS_EmptySet, WaveAssumption DEF N

LEMMA FreshGiven ==
  ASSUME Fresh, NEW p \in Providers
  PROVE  Cardinality(Given(p)) = 0
<1>1. Given(p) = {}
  BY WaveAssumption DEF Fresh, Given
<1> QED
  BY <1>1, FS_EmptySet

LEMMA InitSInv == Init => SInv
<1> SUFFICES ASSUME Init PROVE SInv
  OBVIOUS
<1>1. SlotTypes /\ Fresh /\ phase = "idle" /\ \A p \in Providers : limit[p] = 0
  BY DEF Init, SlotTypes, Fresh
<1>2. SlotsUsed
  BY <1>1, FreshGiven DEF SlotsUsed, Fresh
<1> QED
  BY <1>1, <1>2 DEF SInv

LEMMA IdleSInv ==
  ASSUME Idle
  PROVE  SInv'
<1>1. /\ SlotTypes' /\ Fresh' /\ phase' = "idle"
      /\ \A p \in Providers : limit'[p] = 0 /\ active'[p] = 0
  BY DEF Idle, SlotTypes, Fresh
<1>2. ASSUME NEW p \in Providers PROVE Cardinality(Given(p)') = 0
  <2>1. Given(p)' = {}
    BY <1>1, WaveAssumption DEF Fresh, Given
  <2> QED
    BY <2>1, FS_EmptySet
<1>3. SlotsUsed'
  BY <1>1, <1>2 DEF SlotsUsed
<1> QED
  BY <1>1, <1>3 DEF SInv

(* Steps that leave the pool and what was handed out alone. *)
LEMMA PoolUntouched ==
  ASSUME SInv, UNCHANGED <<unassigned, assigned, active, limit, fails, turn, ring>>,
         \/ phase' = phase
         \/ phase \in {"idle", "relax"} /\ phase' \in {"idle", "relax"}
  PROVE  SInv'
<1>1. SlotTypes' /\ (Fresh => Fresh')
  BY DEF SInv, SlotTypes, Fresh
<1>2. SlotsUsed'
  BY DEF SInv, SlotsUsed, Given
<1>3. SlotEach => SlotEach'
  BY DEF SlotEach, Given
<1>4. PassedFull => PassedFull'
  BY DEF PassedFull, Passed, HasSlot
<1> QED
  BY <1>1, <1>2, <1>3, <1>4 DEF SInv

(* A new pool has all its slots, and nobody was passed yet. *)
LEMMA PickSInv ==
  ASSUME SInv, Pick
  PROVE  SInv'
<1>1. /\ phase = "relax" /\ phase' = "dispatch" /\ unassigned' \subseteq Streams
      /\ limit' \in [Providers -> Nat] /\ ring' \in Orders
      /\ UNCHANGED <<assigned, active, turn, fails>>
  BY WaveAssumption DEF Pick
<1>2. Fresh
  BY <1>1 DEF SInv
<1>3. \A p \in Providers : Cardinality(Given(p)) = 0 /\ Given(p)' = Given(p)
  BY <1>1, <1>2, FreshGiven DEF Given
<1>4. SlotTypes'
  BY <1>1 DEF SInv, SlotTypes
<1>5. SlotsUsed' /\ SlotEach'
  BY <1>1, <1>2, <1>3 DEF Fresh, SlotsUsed, SlotEach, SInv, SlotTypes
<1>6. Providers # {} => PassedFull'
  BY <1>1, <1>2, NGood DEF Fresh, PassedFull, Passed
<1> QED
  BY <1>1, <1>4, <1>5, <1>6 DEF SInv

(* A stream takes a slot of a provider that has one. *)
LEMMA TakeSInv ==
  ASSUME SInv, phase = "dispatch", phase' = "dispatch",
         NEW s \in unassigned, NEW p \in Providers, HasSlot(p), Allocate(p), Assign(s, p),
         limit' = limit, fails' \in Nat
  PROVE  SlotTypes' /\ SlotsUsed' /\ SlotEach'
<1>1. /\ SlotTypes /\ SlotEach /\ s \in Streams /\ assigned[s] = "none"
      /\ active[p] \in Nat /\ active[p] < limit[p]
  BY DEF SInv, SlotTypes, SlotEach, HasSlot
<1>2. /\ active' = [active EXCEPT ![p] = active[p] + 1]
      /\ assigned' = [assigned EXCEPT ![s] = p]
      /\ unassigned' = unassigned \ {s}
  BY DEF Allocate, Assign
<1>3. SlotTypes'
  BY <1>1, <1>2 DEF SlotTypes
<1>4. s \notin Given(p) /\ Given(p)' = Given(p) \cup {s}
  BY <1>1, <1>2, WaveAssumption DEF Given, SlotTypes
<1>5. Cardinality(Given(p)') = Cardinality(Given(p)) + 1
  BY <1>4, FS_AddElement, StreamsGiven
<1>6. \A q \in Providers \ {p} : Given(q)' = Given(q)
  BY <1>1, <1>2, WaveAssumption DEF Given, SlotTypes
<1>7. \A q \in Providers : active'[q] = IF q = p THEN active[p] + 1 ELSE active[q]
  BY <1>1, <1>2 DEF SlotTypes
<1>8. SlotEach'
  BY <1>1, <1>2, <1>5, <1>6, <1>7 DEF SlotEach, SlotTypes
<1>9. SlotsUsed'
  <2>1. \A q \in Providers : active'[q] \in Nat /\ limit[q] \in Nat
    BY <1>3 DEF SlotTypes, SInv
  <2>2. \A q \in Providers : active'[q] <= limit[q]
    BY <1>1, <1>7 DEF SInv, SlotsUsed, SlotTypes
  <2>3. \A q \in Providers : Cardinality(Given(q)') = active'[q]
    BY <1>8 DEF SlotEach
  <2> QED
    BY <2>1, <2>2, <2>3 DEF SlotsUsed
<1> QED
  BY <1>3, <1>8, <1>9

(* When nobody has a slot, what is given is what there was. *)
LEMMA NoSlotLeft ==
  ASSUME SInv, phase = "dispatch", \A p \in Providers : ~HasSlot(p)
  PROVE  \A p \in Providers : Cardinality(Given(p)) = limit[p]
<1> SUFFICES ASSUME NEW p \in Providers PROVE Cardinality(Given(p)) = limit[p]
  OBVIOUS
<1>1. Cardinality(Given(p)) = active[p] /\ active[p] <= limit[p]
  BY DEF SInv, SlotEach, SlotsUsed
<1>2. active[p] \in Nat /\ limit[p] \in Nat /\ ~(active[p] < limit[p])
  BY DEF SInv, SlotTypes, HasSlot
<1> QED
  BY <1>1, <1>2

LEMMA BestSInv ==
  ASSUME SInv, DispatchBest \/ BestEnds
  PROVE  SInv'
<1>1. CASE DispatchBest
  <2>1. PICK s \in unassigned, p \in Providers : Best(p) /\ Allocate(p) /\ Assign(s, p)
    BY <1>1 DEF DispatchBest
  <2>2. /\ phase = "dispatch" /\ phase' = "dispatch" /\ HasSlot(p)
        /\ UNCHANGED <<limit, ring, turn, fails>>
    BY <1>1, <2>1 DEF DispatchBest, Dispatching, Best
  <2>3. fails' \in Nat
    BY <2>2 DEF SInv, SlotTypes
  <2>4. SlotTypes' /\ SlotsUsed' /\ SlotEach'
    BY <2>1, <2>2, <2>3, TakeSInv
  <2>5. \A q \in Providers : ~HasSlot(q) => ~HasSlot(q)'
    BY <2>1, <2>2 DEF Allocate, HasSlot, SInv, SlotTypes
  <2>6. PassedFull => PassedFull'
    <3>1. ASSUME ring \in Orders, NEW k \in 0..N-1 PROVE ring[k + 1] \in Providers
      BY <3>1, NGood DEF Orders, N
    <3> QED
      BY <2>2, <2>5, <3>1 DEF PassedFull, Passed
  <2> QED
    BY <2>2, <2>4, <2>6 DEF SInv
<1>2. CASE BestEnds
  <2>1. /\ phase = "dispatch" /\ phase' = "spawn"
        /\ UNCHANGED <<unassigned, assigned, limit, fails>>
    BY <1>2 DEF BestEnds, Dispatched
  <2>2. CASE UNCHANGED active /\ (unassigned = {} \/ ~\E p \in Providers : HasSlot(p))
    <3>1. SlotTypes'
      BY <2>1, <2>2 DEF SInv, SlotTypes
    <3>2. SlotsUsed'
      BY <2>1, <2>2, NoSlotLeft DEF SInv, SlotsUsed, Given
    <3> QED
      BY <2>1, <3>1, <3>2 DEF SInv
  <2>3. CASE unassigned = {} /\ \E p \in Providers : Best(p) /\ Allocate(p)
    <3>1. PICK p \in Providers : HasSlot(p) /\ active' = [active EXCEPT ![p] = active[p] + 1]
      BY <2>3 DEF Best, Allocate
    <3>2. active[p] \in Nat /\ limit[p] \in Nat /\ active[p] < limit[p]
      BY <3>1 DEF SInv, SlotTypes, HasSlot
    <3>3. SlotTypes'
      BY <2>1, <3>1, <3>2 DEF SInv, SlotTypes
    <3>4. \A q \in Providers : /\ Given(q)' = Given(q)
                               /\ active'[q] = IF q = p THEN active[p] + 1 ELSE active[q]
      BY <2>1, <3>1 DEF Given, SInv, SlotTypes
    <3>5. \A q \in Providers : /\ Cardinality(Given(q)) \in Nat /\ active[q] \in Nat
                               /\ Cardinality(Given(q)) <= active[q] /\ active[q] <= limit[q]
      BY StreamsGiven DEF SInv, SlotsUsed, SlotTypes
    <3>6. SlotsUsed'
      BY <2>1, <2>3, <3>2, <3>4, <3>5 DEF SlotsUsed
    <3> QED
      BY <2>1, <3>3, <3>6 DEF SInv
  <2> QED
    BY <1>2, <2>2, <2>3 DEF BestEnds
<1> QED
  BY <1>1, <1>2

(* Every provider has a place in the ring, so after a turn of the ring in  *)
(* vain nobody has a slot.                                                 *)
LEMMA AllPassed ==
  ASSUME SInv, PassedFull, phase = "dispatch", fails >= N
  PROVE  \A p \in Providers : ~HasSlot(p)
<1> SUFFICES ASSUME NEW p \in Providers PROVE ~HasSlot(p)
  OBVIOUS
<1>1. PICK i \in 1..N : ring[i] = p
  BY DEF PassedFull, Orders, N
<1>2. N \in Nat /\ fails \in Nat /\ turn \in 0..N-1 /\ i - 1 \in 0..N-1 /\ (i - 1) + 1 = i
  BY <1>1, NGood DEF SInv, SlotTypes, PassedFull
<1> DEFINE k == i - 1
<1>3. Passed(k)
  BY <1>2 DEF Passed
<1> QED
  BY <1>1, <1>2, <1>3 DEF PassedFull

LEMMA RoundRobinSInv ==
  ASSUME SInv, RoundRobinTakes \/ RoundRobinFull \/ RoundRobinEnds
  PROVE  SInv'
<1>1. phase = "dispatch"
  BY DEF RoundRobinTakes, RoundRobinFull, RoundRobinEnds, Dispatching
<1>2. CASE RoundRobinEnds
  <2>1. phase' = "spawn" /\ (unassigned = {} \/ Providers = {})
        /\ UNCHANGED <<unassigned, assigned, active, limit, fails>>
    BY <1>2 DEF RoundRobinEnds, Dispatched
  <2>2. SlotTypes' /\ SlotsUsed'
    BY <2>1 DEF SInv, SlotTypes, SlotsUsed, Given
  <2> QED
    BY <2>1, <2>2 DEF SInv
<1>3. CASE ~RoundRobinEnds
  <2>1. Providers # {} /\ PassedFull
    BY <1>1, <1>3 DEF RoundRobinTakes, RoundRobinFull, SInv
  <2>2. /\ N \in Nat /\ N >= 1 /\ turn \in 0..N-1
        /\ Cardinality(Providers) = N
        /\ turn' = (turn + 1) % N => turn' = IF turn + 1 = N THEN 0 ELSE turn + 1
    BY <2>1, NGood, SuccMod DEF PassedFull, N
  <2>3. ring \in Orders /\ \A k \in 0..N-1 : ring[k + 1] \in Providers
    BY <2>1, <2>2 DEF PassedFull, Orders
  <2>4. CASE RoundRobinTakes
    <3>1. PICK s \in unassigned : HasSlot(Asked) /\ Allocate(Asked) /\ Assign(s, Asked)
      BY <2>4 DEF RoundRobinTakes
    <3>2. /\ phase' = "dispatch" /\ fails' = 0 /\ UNCHANGED <<limit, ring>>
          /\ turn' = (turn + 1) % N
      BY <1>1, <2>2, <2>4 DEF RoundRobinTakes, Dispatching, NextTurn
    <3>3. Asked \in Providers
      BY <2>2, <2>3 DEF Asked
    <3>4. SlotTypes' /\ SlotsUsed' /\ SlotEach'
      BY <1>1, <3>1, <3>2, <3>3, TakeSInv
    <3>5. turn' \in 0..N-1
      BY <2>2, <3>2
    <3>6. \A k \in 0..N-1 : ~Passed(k)'
      BY <2>2, <3>2, <3>5 DEF Passed, N
    <3>7. PassedFull'
      BY <2>3, <3>2, <3>5, <3>6 DEF PassedFull, N
    <3> QED
      BY <3>2, <3>4, <3>7 DEF SInv
  <2>5. CASE RoundRobinFull
    <3>1. /\ ~HasSlot(Asked) /\ fails' = fails + 1 /\ fails \in Nat
          /\ turn' = (turn + 1) % N
          /\ UNCHANGED <<unassigned, assigned, active, limit, ring>>
      BY <2>2, <2>5 DEF RoundRobinFull, NextTurn, SInv, SlotTypes
    <3>2. SlotTypes'
      BY <3>1 DEF SInv, SlotTypes
    <3>3. CASE GivesUp
      <4>1. phase' = "spawn"
        BY <2>5, <3>3 DEF RoundRobinFull
      <4>2. fails >= N
        BY <2>2, <3>3 DEF GivesUp
      <4>3. \A p \in Providers : Cardinality(Given(p)) = limit[p]
        BY <1>1, <2>1, <4>2, AllPassed, NoSlotLeft
      <4>4. SlotsUsed'
        BY <3>1, <4>3 DEF SInv, SlotsUsed, Given
      <4> QED
        BY <3>2, <4>1, <4>4 DEF SInv
    <3>4. CASE ~GivesUp
      <4>1. phase' = "dispatch"
        BY <1>1, <2>5, <3>4 DEF RoundRobinFull
      <4>2. SlotsUsed' /\ SlotEach'
        BY <1>1, <3>1, <4>1 DEF SInv, SlotsUsed, SlotEach, Given
      <4>3. turn' \in 0..N-1
        BY <2>2, <3>1
      <4>4. ASSUME NEW k \in 0..N-1, Passed(k)' PROVE k = turn \/ Passed(k)
        BY <2>2, <3>1, <4>4 DEF Passed, N
      <4>5. \A p : HasSlot(p)' <=> HasSlot(p)
        BY <3>1 DEF HasSlot
      <4>6. \A k \in 0..N-1 : Passed(k)' => ~HasSlot(ring[k + 1])
        BY <2>1, <3>1, <4>4 DEF PassedFull, Asked
      <4>7. PassedFull'
        BY <2>3, <3>1, <4>3, <4>5, <4>6 DEF PassedFull, N
      <4> QED
        BY <3>2, <4>1, <4>2, <4>7 DEF SInv
    <3> QED
      BY <3>3, <3>4
  <2> QED
    BY <1>3, <2>4, <2>5
<1> QED
  BY <1>2, <1>3

LEMMA NextSInv == SInv /\ [Next]_vars => SInv'
<1> SUFFICES ASSUME SInv, [Next]_vars PROVE SInv'
  OBVIOUS
<1>1. CASE Invoke \/ EndPass \/ UNCHANGED vars
  BY <1>1, PoolUntouched DEF Invoke, EndPass, vars
<1>2. CASE \E s \in Streams : Visit(s) \/ Start(s) \/ MarkMerged(s) \/ Evicted(s)
  BY <1>2, PoolUntouched DEF Visit, Start, MarkMerged, Evicted
<1>3. CASE UnknownUpstream \/ Return
  BY <1>3, IdleSInv DEF UnknownUpstream, Return
<1> QED
  BY <1>1, <1>2, <1>3, PickSInv, BestSInv, RoundRobinSInv DEF Next, Compute, Dispatch

(* No provider is given more streams than it has slots, and when a stream  *)
(* is left over, whatever the strategy, every slot has its stream: round   *)
(* robin gives up only after it has asked everybody in vain.               *)
THEOREM PilotSlotsUsed == Spec => []SlotsUsed
<1>1. Spec => []SInv
  BY InitSInv, NextSInv, PTL DEF Spec
<1>2. SInv => SlotsUsed
  BY DEF SInv
<1> QED
  BY <1>1, <1>2, PTL
=============================================================================
