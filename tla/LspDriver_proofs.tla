--------------------------- MODULE LspDriver_proofs ---------------------------
(***************************************************************************)
(* Theorems about LspDriver for every set of files, every table Uses and   *)
(* every capacity.  The inductive invariant has a part for the dependency  *)
(* graph, which shows that no dependent is ever enqueued, one for the      *)
(* order of the texts on their way from the editor to the indexes, and one *)
(* for what has become of the editor's last action on each file.           *)
(***************************************************************************)
EXTENDS LspDriver, TLAPS, SequenceTheorems

Texts == 0..MaxVersion
Msgs == [kind : {"changed"}, file : Files, text : Texts] \cup [kind : {"closed"}, file : Files]
Jobs == [file : Files, id : Nat, text : Texts]
Stored == [id : Nat, text : Texts]
Busy == pc \in {"extract", "enqueue", "publish"}

TypeOK ==
  /\ text \in [Files -> Texts]
  /\ hpc \in Msgs \cup {NoMsg}
  /\ chan \in Seq(Msgs)
  /\ latest \in [Files -> Texts]
  /\ closed \in Seq(Files)
  /\ pc \in {"recv", "drain", "batch", "extract", "enqueue", "publish"}
  /\ Busy => job \in Jobs /\ job.text # 0
  /\ fileMap \in [Files -> Nat]
  /\ made \in [Files -> Nat]
  /\ source \in [Files -> Stored]
  /\ index \in [Files -> Stored]
  /\ deps \in [Files -> SUBSET Files]
  /\ rev \in [Files -> SUBSET Files]

(* Nobody depends on the file that is being analysed. *)
Forgotten == pc \in {"extract", "enqueue"} => rev[job.file] = {}

GInv == TypeOK /\ GraphMirrors /\ Forgotten
-----------------------------------------------------------------------------
(* The helpers change the maps and the graph as their types say. *)
LEMMA GetOrCreateType ==
  ASSUME TypeOK, NEW f \in Files, GetOrCreate(f)
  PROVE  fileMap' \in [Files -> Nat] /\ made' \in [Files -> Nat]
<1>1. CASE fileMap[f] # 0
  BY <1>1 DEF TypeOK, GetOrCreate
<1>2. CASE fileMap[f] = 0
  <2>1. made' = [made EXCEPT ![f] = @ + 1] /\ fileMap' = [fileMap EXCEPT ![f] = made'[f]]
    BY <1>2 DEF GetOrCreate
  <2>2. made' \in [Files -> Nat]
    BY <2>1 DEF TypeOK
  <2> QED BY <2>1, <2>2 DEF TypeOK
<1> QED BY <1>1, <1>2

LEMMA RemoveType ==
  ASSUME TypeOK, NEW f \in Files, Remove(f)
  PROVE  fileMap' \in [Files -> Nat] /\ made' \in [Files -> Nat]
  BY DEF TypeOK, Remove

(* clear_deps keeps the two halves of the graph in step and leaves nobody  *)
(* depending on the file.                                                  *)
LEMMA ClearDepsMirrors ==
  ASSUME TypeOK, GraphMirrors, NEW f \in Files, ClearDeps(f)
  PROVE  /\ deps' \in [Files -> SUBSET Files] /\ rev' \in [Files -> SUBSET Files]
         /\ GraphMirrors'
         /\ rev'[f] = {}
  BY DEF TypeOK, GraphMirrors, ClearDeps

(* A file nobody depends on is the only one affected by its change. *)
LEMMA AffectedAlone ==
  ASSUME NEW f \in Files, rev[f] = {}
  PROVE  AffectedFiles(f) = {f}
<1>1. f \in AffectedFiles(f)
  BY DEF AffectedFiles
<1>2. \A g \in AffectedFiles(f) : g = f
  <2> SUFFICES ASSUME NEW g \in AffectedFiles(f) PROVE g = f
    OBVIOUS
  <2>1. f \in {f} /\ \A h \in {f} : rev[h] \subseteq {f}
    OBVIOUS
  <2>2. {f} \in SUBSET Files
    OBVIOUS
  <2> QED BY <2>1, <2>2 DEF AffectedFiles
<1> QED BY <1>1, <1>2

(* So a step that enqueues the dependents leaves the channel as it is. *)
LEMMA EnqueueNothing ==
  ASSUME GInv, Enqueue
  PROVE  chan' = chan
<1>1. job.file \in Files /\ rev[job.file] = {}
  BY DEF GInv, TypeOK, Forgotten, Enqueue, Busy, Jobs
<1>2. AffectedFiles(job.file) \ {job.file} = {}
  BY <1>1, AffectedAlone
<1>3. PICK n \in 0..Cap : \E s \in [1..n -> {}] :
         chan' = chan \o [i \in DOMAIN s |-> Changed(s[i], source[s[i]].text)]
  BY <1>2 DEF Enqueue
<1>4. PICK s \in [1..n -> {}] :
         chan' = chan \o [i \in DOMAIN s |-> Changed(s[i], source[s[i]].text)]
  BY <1>3
<1>5. DOMAIN s = {}
  BY <1>4
<1>6. [i \in DOMAIN s |-> Changed(s[i], source[s[i]].text)] = << >>
  BY <1>5
<1>7. chan \in Seq(Msgs)
  BY DEF GInv, TypeOK
<1> QED BY <1>4, <1>6, <1>7, ConcatEmptySeq
-----------------------------------------------------------------------------
LEMMA GInit == Init => GInv
<1> SUFFICES ASSUME Init PROVE GInv
  OBVIOUS
<1>1. TypeOK
  BY CapAssumption DEF Init, TypeOK, Texts, Msgs, Stored, Busy, NoMsg, CapAssumption
<1>2. GraphMirrors /\ Forgotten
  BY DEF Init, GraphMirrors, Forgotten
<1> QED BY <1>1, <1>2 DEF GInv

(* The actions that leave the graph and the analysis in progress alone. *)
Elsewhere == \/ \E f \in Files : DidOpenOrChange(f) \/ DidClose(f)
             \/ TrySend \/ Recv \/ Drained \/ EndBatch

LEMMA HandlerType ==
  ASSUME TypeOK, NEW f \in Files, DidOpenOrChange(f) \/ DidClose(f)
  PROVE  TypeOK'
<1> USE DEF TypeOK, Busy, Stored
<1>1. CASE DidOpenOrChange(f)
  <2> USE <1>1 DEF DidOpenOrChange, driverVars, dbVars
  <2>1. fileMap' \in [Files -> Nat] /\ made' \in [Files -> Nat]
    BY GetOrCreateType
  <2>2. text' \in [Files -> Texts] /\ text'[f] \in Texts
    BY CapAssumption DEF Texts, CapAssumption
  <2>3. hpc' \in Msgs
    BY <2>2 DEF Msgs, Changed
  <2> QED BY <2>1, <2>2, <2>3
<1>2. CASE DidClose(f)
  <2> USE <1>2 DEF DidClose, driverVars, dbVars
  <2>1. fileMap' \in [Files -> Nat] /\ made' \in [Files -> Nat]
    BY RemoveType
  <2>2. hpc' \in Msgs
    BY DEF Msgs, Closed
  <2> QED BY <2>1, <2>2
<1> QED BY <1>1, <1>2

LEMMA SendType ==
  ASSUME TypeOK, TrySend
  PROVE  TypeOK'
<1> USE DEF TypeOK, Busy, Stored, TrySend, editorVars, driverVars, dbVars
<1>1. hpc \in Msgs
  OBVIOUS
<1>2. Append(chan, hpc) \in Seq(Msgs)
  BY <1>1, AppendProperties
<1>3. chan' \in Seq(Msgs)
  BY <1>2
<1> QED BY <1>3

LEMMA RecvType ==
  ASSUME TypeOK, Recv
  PROVE  TypeOK'
<1> USE DEF TypeOK, Busy, Stored, Recv, editorVars, dbVars
<1>1. Head(chan) \in Msgs /\ chan' \in Seq(Msgs)
  BY HeadTailProperties
<1>2. CASE Head(chan).kind = "changed"
  <2>1. Head(chan).file \in Files /\ Head(chan).text \in Texts
    BY <1>1, <1>2 DEF Msgs
  <2>2. latest' \in [Files -> Texts] /\ closed' \in Seq(Files)
    BY <1>2, <2>1 DEF Absorb
  <2> QED BY <1>1, <2>2
<1>3. CASE Head(chan).kind # "changed"
  <2>1. Head(chan).file \in Files
    BY <1>1 DEF Msgs
  <2>2. /\ latest' = [latest EXCEPT ![Head(chan).file] = 0]
        /\ closed' = Append(closed, Head(chan).file)
    BY <1>3 DEF Absorb
  <2>3. 0 \in Texts
    BY CapAssumption DEF Texts, CapAssumption
  <2>4. closed' \in Seq(Files)
    BY <2>1, <2>2, AppendProperties
  <2>5. latest' \in [Files -> Texts]
    BY <2>1, <2>2, <2>3
  <2> QED BY <1>1, <2>4, <2>5
<1> QED BY <1>2, <1>3

LEMMA ElsewhereKeeps ==
  ASSUME GInv, Elsewhere
  PROVE  GInv'
<1>1. TypeOK'
  <2>1. CASE \E f \in Files : DidOpenOrChange(f) \/ DidClose(f)
    BY <2>1, HandlerType DEF GInv
  <2>2. CASE TrySend
    BY <2>2, SendType DEF GInv
  <2>3. CASE Recv
    BY <2>3, RecvType DEF GInv
  <2>4. CASE Drained \/ EndBatch
    BY <2>4 DEF GInv, TypeOK, Busy, Stored, Drained, EndBatch, editorVars, dbVars
  <2> QED BY <2>1, <2>2, <2>3, <2>4 DEF Elsewhere
<1>2. UNCHANGED <<deps, rev>> /\ (Forgotten => Forgotten')
  BY DEF Elsewhere, DidOpenOrChange, DidClose, TrySend, Recv, Drained, EndBatch,
         driverVars, Forgotten
<1> QED BY <1>1, <1>2 DEF GInv, GraphMirrors

LEMMA CloseKeeps ==
  ASSUME GInv, CloseFile
  PROVE  GInv'
<1> DEFINE f == Head(closed)
<1>1. f \in Files /\ closed' \in Seq(Files)
  BY HeadTailProperties DEF GInv, TypeOK, CloseFile
<1>2. deps' \in [Files -> SUBSET Files] /\ rev' \in [Files -> SUBSET Files] /\ GraphMirrors'
  BY <1>1, ClearDepsMirrors DEF GInv, CloseFile
<1>3. fileMap' \in [Files -> Nat] /\ made' \in [Files -> Nat]
  BY <1>1, RemoveType DEF GInv, CloseFile
<1>4. TypeOK'
  BY <1>1, <1>2, <1>3 DEF GInv, TypeOK, CloseFile, Busy, Stored, editorVars
<1>5. Forgotten'
  BY DEF CloseFile, Forgotten
<1> QED BY <1>2, <1>4, <1>5 DEF GInv

LEMMA BeginKeeps ==
  ASSUME GInv, NEW f \in Files, Begin(f)
  PROVE  GInv'
<1>1. deps' \in [Files -> SUBSET Files] /\ rev' \in [Files -> SUBSET Files]
      /\ GraphMirrors' /\ rev'[f] = {}
  BY ClearDepsMirrors DEF GInv, Begin
<1>2. fileMap' \in [Files -> Nat] /\ made' \in [Files -> Nat]
  BY GetOrCreateType DEF GInv, Begin
<1>3. latest[f] \in Texts /\ latest' \in [Files -> Texts]
  BY CapAssumption DEF GInv, TypeOK, Begin, Texts, CapAssumption
<1>4. source' \in [Files -> Stored]
  BY <1>2, <1>3 DEF GInv, TypeOK, Begin, Stored
<1>5. job' \in Jobs /\ job'.file = f /\ job'.text # 0
  BY <1>2, <1>3 DEF Begin, Jobs, AffectedFiles
<1>6. TypeOK'
  BY <1>1, <1>2, <1>3, <1>4, <1>5 DEF GInv, TypeOK, Begin, Busy, Stored, editorVars
<1>7. Forgotten'
  BY <1>1, <1>5 DEF Forgotten
<1> QED BY <1>1, <1>6, <1>7 DEF GInv

LEMMA ExtractKeeps ==
  ASSUME GInv, Extract
  PROVE  GInv'
<1> DEFINE f == job.file
           found == {g \in Uses[f][job.text] : fileMap[g] # 0 /\ index[g].id = fileMap[g]}
<1>1. f \in Files /\ job.text \in 1..MaxVersion
  BY CapAssumption DEF GInv, TypeOK, Extract, Busy, Jobs, Texts, CapAssumption
<1>2. found \subseteq Files /\ f \notin found
  BY <1>1, UsesAssumption DEF UsesAssumption
<1>3. /\ deps' = [deps EXCEPT ![f] = @ \cup found]
      /\ rev' = [g \in Files |-> IF g \in found THEN rev[g] \cup {f} ELSE rev[g]]
  BY DEF Extract
<1> HIDE DEF found, f
<1>4. deps' \in [Files -> SUBSET Files] /\ rev' \in [Files -> SUBSET Files]
  BY <1>1, <1>2, <1>3 DEF GInv, TypeOK
<1>5. GraphMirrors'
  BY <1>1, <1>2, <1>3 DEF GInv, TypeOK, GraphMirrors
<1>6. rev'[f] = rev[f]
  BY <1>1, <1>2, <1>3
<1>7. Forgotten'
  BY <1>6 DEF GInv, Forgotten, Extract, f
<1>8. TypeOK'
  BY <1>4 DEF GInv, TypeOK, Extract, Busy, Stored, editorVars, dbVars
<1> QED BY <1>5, <1>7, <1>8 DEF GInv

LEMMA EnqueueKeeps ==
  ASSUME GInv, Enqueue
  PROVE  GInv'
<1>1. chan' = chan
  BY EnqueueNothing
<1> QED BY <1>1 DEF GInv, TypeOK, GraphMirrors, Forgotten, Enqueue, Busy, Stored, editorVars, dbVars

LEMMA PublishKeeps ==
  ASSUME GInv, Publish
  PROVE  GInv'
<1>1. job \in Jobs
  BY DEF GInv, TypeOK, Publish, Busy
<1>2. index' \in [Files -> Stored]
  BY <1>1 DEF GInv, TypeOK, Publish, Jobs, Stored
<1> QED BY <1>2 DEF GInv, TypeOK, GraphMirrors, Forgotten, Publish, Busy, Stored, editorVars

LEMMA GStep == GInv /\ [Next]_vars => GInv'
<1> SUFFICES ASSUME GInv, [Next]_vars PROVE GInv'
  OBVIOUS
<1>1. CASE UNCHANGED vars
  BY <1>1 DEF GInv, TypeOK, GraphMirrors, Forgotten, Busy, Stored, vars, editorVars,
              driverVars, dbVars
<1>2. CASE Next
  <2>1. \/ Elsewhere \/ CloseFile \/ Extract \/ Enqueue \/ Publish
        \/ \E f \in Files : Begin(f)
    BY <1>2 DEF Next, Driver, Elsewhere
  <2> QED BY <2>1, ElsewhereKeeps, CloseKeeps, ExtractKeeps, EnqueueKeeps, PublishKeeps, BeginKeeps
<1> QED BY <1>1, <1>2

LEMMA GraphInvariant == Spec => []GInv
  BY GInit, GStep, PTL DEF Spec

(* The two halves of the dependency graph agree, for any files. *)
THEOREM LspGraphMirrors == Spec => []GraphMirrors
  BY GraphInvariant, PTL DEF GInv

(* Nobody is known to depend on the file that is analysed: by the time     *)
(* analyze_file asks affected_files for the dependents there are none.     *)
THEOREM LspNobodyAffected ==
  Spec => [](pc = "enqueue" => AffectedFiles(job.file) = {job.file})
<1>1. GInv => (pc = "enqueue" => AffectedFiles(job.file) = {job.file})
  BY AffectedAlone DEF GInv, TypeOK, Forgotten, Busy, Jobs
<1> QED BY <1>1, GraphInvariant, PTL
-----------------------------------------------------------------------------
(* The texts of a file are in order on their way: indexes, analysis, batch, *)
(* channel, handler, editor.                                                *)
Behind(f, v) ==
  /\ index[f].text <= v
  /\ latest[f] <= v
  /\ Busy /\ job.file = f => job.text <= v

EditorAhead == \A f \in Files : Behind(f, text[f])
ChannelAhead ==
  \A i \in 1..Len(chan) : chan[i].kind = "changed" =>
     Behind(chan[i].file, chan[i].text) /\ chan[i].text <= text[chan[i].file]
ChannelOrdered ==
  \A i, j \in 1..Len(chan) :
     i < j /\ chan[i].kind = "changed" /\ chan[j].kind = "changed" /\ chan[i].file = chan[j].file
       => chan[i].text <= chan[j].text
HandlerNewest == hpc.kind = "changed" => hpc.text = text[hpc.file]
BatchAhead ==
  \A f \in Files : latest[f] # 0 =>
     index[f].text <= latest[f] /\ (Busy /\ job.file = f => job.text <= latest[f])
JobAhead == Busy => index[job.file].text <= job.text

Order == /\ EditorAhead /\ ChannelAhead /\ ChannelOrdered
         /\ HandlerNewest /\ BatchAhead /\ JobAhead

IInv == GInv /\ Order

(* What the types say about the numbers that are compared. *)
LEMMA Numbers ==
  ASSUME TypeOK
  PROVE  /\ \A f \in Files : text[f] \in Nat /\ latest[f] \in Nat /\ index[f].text \in Nat
         /\ \A m \in Msgs : m.file \in Files /\ (m.kind = "changed" => m.text \in Nat)
         /\ \A i \in 1..Len(chan) : chan[i] \in Msgs
         /\ Busy => job.file \in Files /\ job.text \in Nat
<1>1. Texts \subseteq Nat
  BY CapAssumption DEF Texts, CapAssumption
<1>2. \A i \in 1..Len(chan) : chan[i] \in Msgs
  BY DEF TypeOK
<1> QED BY <1>1, <1>2 DEF TypeOK, Stored, Msgs, Jobs

LEMMA OInit == Init => Order
<1> SUFFICES ASSUME Init PROVE Order
  OBVIOUS
<1>1. Len(chan) = 0 /\ 1..Len(chan) = {}
  BY DEF Init
<1>2. EditorAhead /\ HandlerNewest /\ BatchAhead /\ JobAhead
  BY DEF Init, EditorAhead, HandlerNewest, BatchAhead, JobAhead, Behind, Busy, NoMsg
<1> QED BY <1>1, <1>2 DEF Order, ChannelAhead, ChannelOrdered

LEMMA HandlerOrder ==
  ASSUME IInv, NEW f \in Files, DidOpenOrChange(f) \/ DidClose(f)
  PROVE  Order'
<1> USE Numbers DEF IInv, GInv, Order
<1>1. \A g \in Files : text'[g] \in Nat /\ text[g] <= text'[g]
  <2>1. text' = [text EXCEPT ![f] = @ + 1] \/ text' = text
    BY DEF DidOpenOrChange, DidClose
  <2> QED BY <2>1 DEF TypeOK
<1>2. UNCHANGED <<chan, driverVars, dbVars>>
  BY DEF DidOpenOrChange, DidClose
<1>3. EditorAhead'
  BY <1>1, <1>2 DEF EditorAhead, Behind, Busy, driverVars, dbVars
<1>4. ChannelAhead'
  BY <1>1, <1>2 DEF ChannelAhead, Behind, Busy, driverVars, dbVars
<1>5. ChannelOrdered' /\ BatchAhead' /\ JobAhead'
  BY <1>2 DEF ChannelOrdered, BatchAhead, JobAhead, Busy, driverVars, dbVars
<1>6. HandlerNewest'
  BY DEF HandlerNewest, DidOpenOrChange, DidClose, Changed, Closed
<1> QED BY <1>3, <1>4, <1>5, <1>6

LEMMA SendOrder ==
  ASSUME IInv, TrySend
  PROVE  Order'
<1> USE Numbers DEF IInv, GInv, Order
<1>1. UNCHANGED <<text, driverVars, dbVars>> /\ hpc' = NoMsg /\ hpc \in Msgs
  BY DEF TrySend, editorVars, TypeOK
<1>2. EditorAhead' /\ BatchAhead' /\ JobAhead' /\ HandlerNewest'
  BY <1>1 DEF EditorAhead, BatchAhead, JobAhead, HandlerNewest, NoMsg, Behind, Busy,
              driverVars, dbVars
<1>3. CASE chan' = chan
  BY <1>1, <1>2, <1>3 DEF ChannelAhead, ChannelOrdered, Behind, Busy, driverVars, dbVars
<1>4. CASE chan' = Append(chan, hpc)
  <2>1. /\ Len(chan) \in Nat /\ Len(chan') = Len(chan) + 1
        /\ \A i \in 1..Len(chan) : chan'[i] = chan[i]
        /\ chan'[Len(chan) + 1] = hpc
    BY <1>1, <1>4, AppendProperties DEF TypeOK
  <2>2. hpc.kind = "changed" => hpc.text = text[hpc.file] /\ Behind(hpc.file, hpc.text)
    BY <1>1 DEF HandlerNewest, EditorAhead
  <2>3. ChannelAhead'
    BY <1>1, <2>1, <2>2 DEF ChannelAhead, Behind, Busy, driverVars, dbVars
  <2>4. ChannelOrdered'
    <3> SUFFICES ASSUME NEW i \in 1..Len(chan'), NEW j \in 1..Len(chan'), i < j,
                        chan'[i].kind = "changed", chan'[j].kind = "changed",
                        chan'[i].file = chan'[j].file
                 PROVE  chan'[i].text <= chan'[j].text
      BY DEF ChannelOrdered
    <3>1. CASE j = Len(chan) + 1
      BY <2>1, <2>2, <3>1 DEF ChannelAhead
    <3>2. CASE j # Len(chan) + 1
      BY <2>1, <3>2 DEF ChannelOrdered
    <3> QED BY <3>1, <3>2
  <2> QED BY <1>2, <2>3, <2>4
<1> QED BY <1>3, <1>4 DEF TrySend

LEMMA RecvOrder ==
  ASSUME IInv, Recv
  PROVE  Order'
<1> USE Numbers DEF IInv, GInv, Order
<1>1. ~Busy /\ ~Busy' /\ UNCHANGED <<text, hpc, dbVars>>
  BY DEF Recv, Busy, editorVars
<1>2. /\ Len(chan) \in Nat /\ Len(chan) >= 1 /\ Len(chan') = Len(chan) - 1
      /\ \A i \in 1..Len(chan') : chan'[i] = chan[i + 1]
      /\ Head(chan) = chan[1]
  BY HeadTailProperties DEF TypeOK, Recv
<1> DEFINE m == chan[1]
<1>3. m \in Msgs
  BY <1>2
<1>4. ChannelOrdered'
  <2> SUFFICES ASSUME NEW i \in 1..Len(chan'), NEW j \in 1..Len(chan'), i < j,
                      chan'[i].kind = "changed", chan'[j].kind = "changed",
                      chan'[i].file = chan'[j].file
               PROVE  chan'[i].text <= chan'[j].text
    BY DEF ChannelOrdered
  <2>1. /\ i + 1 \in 1..Len(chan) /\ j + 1 \in 1..Len(chan) /\ i + 1 < j + 1
        /\ chan'[i] = chan[i + 1] /\ chan'[j] = chan[j + 1]
    BY <1>2
  <2> QED BY <2>1 DEF ChannelOrdered
<1>5. HandlerNewest' /\ JobAhead'
  BY <1>1 DEF HandlerNewest, JobAhead
<1>6. CASE m.kind = "changed"
  <2>1. latest' = [latest EXCEPT ![m.file] = m.text]
    BY <1>2, <1>6 DEF Recv, Absorb
  <2>2. Behind(m.file, m.text) /\ m.text <= text[m.file]
    BY <1>2, <1>6 DEF ChannelAhead
  <2>3. EditorAhead'
    BY <1>1, <1>3, <1>6, <2>1, <2>2 DEF EditorAhead, Behind, TypeOK, dbVars
  <2>4. BatchAhead'
    BY <1>1, <1>3, <1>6, <2>1, <2>2 DEF BatchAhead, Behind, TypeOK, dbVars
  <2>5. ChannelAhead'
    <3> SUFFICES ASSUME NEW i \in 1..Len(chan'), chan'[i].kind = "changed"
                 PROVE  /\ Behind(chan[i].file, chan[i].text)'
                        /\ chan'[i].text <= text'[chan'[i].file]
      BY DEF ChannelAhead
    <3> DEFINE c == chan[i + 1]
    <3>1. i + 1 \in 1..Len(chan) /\ chan'[i] = c /\ 1 < i + 1
      BY <1>2
    <3>2. Behind(c.file, c.text) /\ c.text <= text[c.file]
      BY <3>1 DEF ChannelAhead
    <3>3. c.file = m.file => m.text <= c.text
      BY <1>2, <1>6, <3>1 DEF ChannelOrdered
    <3>4. c.file \in Files /\ latest'[c.file] <= c.text
      BY <2>1, <3>1, <3>2, <3>3 DEF Behind, TypeOK
    <3> QED BY <1>1, <3>1, <3>2, <3>4 DEF Behind, dbVars
  <2> QED BY <1>4, <1>5, <2>3, <2>4, <2>5
<1>7. CASE m.kind # "changed"
  <2>1. m.file \in Files /\ latest' = [latest EXCEPT ![m.file] = 0]
    BY <1>2, <1>3, <1>7 DEF Recv, Absorb
  <2>2. EditorAhead' /\ BatchAhead'
    BY <1>1, <2>1 DEF EditorAhead, BatchAhead, Behind, TypeOK, dbVars
  <2>3. ChannelAhead'
    <3> SUFFICES ASSUME NEW i \in 1..Len(chan'), chan'[i].kind = "changed"
                 PROVE  /\ Behind(chan[i].file, chan[i].text)'
                        /\ chan'[i].text <= text'[chan'[i].file]
      BY DEF ChannelAhead
    <3> DEFINE c == chan[i + 1]
    <3>1. i + 1 \in 1..Len(chan) /\ chan'[i] = c
      BY <1>2
    <3>2. Behind(c.file, c.text) /\ c.text <= text[c.file]
      BY <3>1 DEF ChannelAhead
    <3>3. latest'[c.file] <= c.text
      BY <2>1, <3>1, <3>2 DEF Behind, TypeOK
    <3> QED BY <1>1, <3>1, <3>2, <3>3 DEF Behind, dbVars
  <2> QED BY <1>4, <1>5, <2>2, <2>3
<1> QED BY <1>6, <1>7

LEMMA IdleOrder ==
  ASSUME IInv, Drained \/ EndBatch \/ CloseFile \/ Extract \/ Enqueue
  PROVE  Order'
<1> USE DEF IInv, GInv, Order
<1>1. chan' = chan /\ UNCHANGED <<text, hpc, latest, index, job>> /\ (Busy' <=> Busy)
  BY EnqueueNothing DEF Drained, EndBatch, CloseFile, Extract, Enqueue, Busy, editorVars, dbVars
<1> QED BY <1>1 DEF EditorAhead, ChannelAhead, ChannelOrdered, HandlerNewest, BatchAhead,
                    JobAhead, Behind

LEMMA BeginOrder ==
  ASSUME IInv, NEW f \in Files, Begin(f)
  PROVE  Order'
<1> USE Numbers DEF IInv, GInv, Order
<1>1. /\ ~Busy /\ UNCHANGED <<text, hpc, chan, index>>
      /\ latest' = [latest EXCEPT ![f] = 0] /\ latest[f] # 0
      /\ job'.file = f /\ job'.text = latest[f]
  BY DEF Begin, Busy, editorVars
<1>2. HandlerNewest' /\ ChannelOrdered'
  BY <1>1 DEF HandlerNewest, ChannelOrdered
<1>3. EditorAhead'
  BY <1>1 DEF EditorAhead, Behind, TypeOK
<1>4. BatchAhead' /\ JobAhead'
  BY <1>1 DEF BatchAhead, JobAhead, TypeOK
<1>5. ASSUME NEW g \in Files, NEW v \in Nat, Behind(g, v)
      PROVE  Behind(g, v)'
  <2>1. index'[g].text <= v
    BY <1>1, <1>5 DEF Behind
  <2>2. latest'[g] <= v
    BY <1>1, <1>5 DEF Behind, TypeOK
  <2>3. job'.file = g => job'.text <= v
    BY <1>1, <1>5 DEF Behind
  <2> QED BY <2>1, <2>2, <2>3 DEF Behind
<1>6. ChannelAhead'
  <2>1. SUFFICES ASSUME NEW i \in 1..Len(chan), chan[i].kind = "changed"
                 PROVE  Behind(chan[i].file, chan[i].text)' /\ chan[i].text <= text[chan[i].file]
    BY <1>1 DEF ChannelAhead
  <2>2. chan[i] \in Msgs
    BY <2>1 DEF TypeOK
  <2>3. chan[i].file \in Files /\ chan[i].text \in Nat
    BY <2>1, <2>2 DEF Msgs, Texts
  <2>4. Behind(chan[i].file, chan[i].text) /\ chan[i].text <= text[chan[i].file]
    BY <2>1 DEF ChannelAhead
  <2>5. \A g \in Files, v \in Nat : Behind(g, v) => index'[g].text <= v /\ latest'[g] <= v
                                         /\ (Busy' /\ job'.file = g => job'.text <= v)
    BY <1>5 DEF Behind
  <2> QED BY <1>1, <2>3, <2>4, <2>5 DEF Behind
<1> QED BY <1>2, <1>3, <1>4, <1>6

LEMMA PublishOrder ==
  ASSUME IInv, Publish
  PROVE  Order'
<1> USE Numbers DEF IInv, GInv, Order
<1>1. /\ Busy /\ ~Busy' /\ UNCHANGED <<text, hpc, chan, latest>>
      /\ job.file \in Files
      /\ \A g \in Files : index'[g].text = IF g = job.file THEN job.text ELSE index[g].text
  BY DEF Publish, Busy, editorVars, TypeOK
<1>2. HandlerNewest' /\ ChannelOrdered' /\ JobAhead'
  BY <1>1 DEF HandlerNewest, ChannelOrdered, JobAhead
<1>3. EditorAhead' /\ BatchAhead'
  BY <1>1 DEF EditorAhead, BatchAhead, Behind
<1>4. ChannelAhead'
  BY <1>1 DEF ChannelAhead, Behind
<1> QED BY <1>2, <1>3, <1>4

LEMMA OStep == IInv /\ [Next]_vars => Order'
<1> SUFFICES ASSUME IInv, [Next]_vars PROVE Order'
  OBVIOUS
<1>1. CASE UNCHANGED vars
  BY <1>1 DEF IInv, Order, EditorAhead, ChannelAhead, ChannelOrdered, HandlerNewest, BatchAhead,
              JobAhead, Behind, Busy, vars, editorVars, driverVars, dbVars
<1>2. CASE Next
  BY <1>2, HandlerOrder, SendOrder, RecvOrder, IdleOrder, BeginOrder, PublishOrder DEF Next, Driver
<1> QED BY <1>1, <1>2

LEMMA Invariant == Spec => []IInv
<1>1. Init => IInv
  BY GInit, OInit DEF IInv
<1>2. IInv /\ [Next]_vars => IInv'
  BY GStep, OStep DEF IInv
<1> QED BY <1>1, <1>2, PTL DEF Spec

(* A newer text in the database is never replaced by an older one, however *)
(* edits, closes, batches and analyses follow each other.                  *)
THEOREM LspVersionsNeverGoBack == Spec => VersionsNeverGoBack
<1>1. IInv /\ [Next]_vars => [\A f \in Files : index'[f].text >= index[f].text]_index
  <2> SUFFICES ASSUME IInv, [Next]_vars, index' # index
               PROVE  \A f \in Files : index'[f].text >= index[f].text
    OBVIOUS
  <2>1. Publish
    BY DEF Next, Driver, DidOpenOrChange, DidClose, TrySend, Recv, Drained, CloseFile, Begin,
           Extract, Enqueue, EndBatch, vars, dbVars
  <2>2. Busy /\ \A g \in Files : index'[g].text = IF g = job.file THEN job.text ELSE index[g].text
    BY <2>1 DEF Publish, Busy, IInv, GInv, TypeOK
  <2> QED BY <2>2, Numbers DEF IInv, GInv, Order, JobAhead
<1> QED BY <1>1, Invariant, PTL DEF Spec, VersionsNeverGoBack
-----------------------------------------------------------------------------
(* What has become of the editor's last action on each file.               *)

(* The message the editor's last action on a file has sent, or will send.  *)
Final(f) == IF f \in open THEN Changed(f, text[f]) ELSE Closed(f)

(* Where a message about the file may still be before the batch. *)
InHand(f) == hpc # NoMsg /\ hpc.file = f
InChan(f) == \E i \in 1..Len(chan) : chan[i].file = f

(* The last message about a file is the one of the editor's last action. *)
LastSent(f) ==
  \A i \in 1..Len(chan) :
    chan[i].file = f /\ (\A j \in i + 1..Len(chan) : chan[j].file # f) =>
      chan[i] = Final(f)

InAnalysis(f) == Busy /\ job.file = f
Awaiting(f) == \E i \in 1..Len(closed) : closed[i] = f

(* An open file with no message under way is in the batch with its last    *)
(* text, or is analysed with it, or was.                                   *)
OpenHandled(f) ==
  \/ latest[f] = text[f]
  \/ /\ latest[f] = 0 /\ ~Awaiting(f)
     /\ fileMap[f] # 0
     /\ source[f] = [id |-> fileMap[f], text |-> text[f]]
     /\ IF InAnalysis(f) THEN job.id = fileMap[f] /\ job.text = text[f]
                         ELSE index[f] = source[f] /\ shown[f] = text[f]

(* A closed one is in the batch to be closed, or nothing is left of it. *)
Gone(f) == fileMap[f] = 0 /\ shown[f] = 0 /\ deps[f] = {} /\ rev[f] = {}
ClosedHandled(f) == latest[f] = 0 /\ ~InAnalysis(f) /\ (Awaiting(f) \/ Gone(f))

Handled(f) ==
  ~InHand(f) /\ f \notin dropped =>
    /\ LastSent(f)
    /\ ~InChan(f) => IF f \in open THEN OpenHandled(f) ELSE ClosedHandled(f)

(* The batch is empty when it has been worked off. *)
BatchEmpty ==
  /\ pc = "recv" \/ Busy => closed = << >>
  /\ pc = "recv" => \A f \in Files : latest[f] = 0

CInv ==
  /\ shown \in [Files -> Texts]
  /\ BatchEmpty
  /\ \A f \in Files : /\ f \in open => text[f] # 0
                      /\ InHand(f) => hpc = Final(f)
                      /\ Handled(f)

LEMMA CInit == Init => CInv
<1> SUFFICES ASSUME Init PROVE CInv
  OBVIOUS
<1>1. /\ 0 \in Texts /\ Len(chan) = 0 /\ 1..Len(chan) = {}
      /\ hpc = NoMsg /\ pc = "recv" /\ closed = << >> /\ open = {}
      /\ shown = [f \in Files |-> 0] /\ latest = [f \in Files |-> 0]
      /\ fileMap = [f \in Files |-> 0]
      /\ deps = [f \in Files |-> {}] /\ rev = [f \in Files |-> {}]
  BY CapAssumption DEF Init, Texts, CapAssumption
<1>2. BatchEmpty
  BY <1>1 DEF BatchEmpty, Busy
<1>3. ASSUME NEW f \in Files PROVE Handled(f) /\ ~InHand(f)
  <2>1. LastSent(f)
    BY <1>1 DEF LastSent
  <2>2. ClosedHandled(f)
    BY <1>1 DEF ClosedHandled, InAnalysis, Busy, Gone
  <2> QED BY <1>1, <2>1, <2>2 DEF Handled, InHand
<1> QED BY <1>1, <1>2, <1>3 DEF CInv

(* A step that is about something else leaves a file handled. *)
LEMMA ElsewhereHandled ==
  ASSUME NEW f \in Files, Handled(f),
         text'[f] = text[f], f \in open' <=> f \in open,
         InHand(f)' <=> InHand(f), f \in dropped' <=> f \in dropped,
         LastSent(f) => LastSent(f)', InChan(f)' <=> InChan(f),
         latest'[f] = latest[f], Awaiting(f)' <=> Awaiting(f),
         fileMap'[f] = fileMap[f], source'[f] = source[f],
         index'[f] = index[f], shown'[f] = shown[f],
         InAnalysis(f)' <=> InAnalysis(f), InAnalysis(f) => UNCHANGED job,
         f \notin open /\ ~InHand(f) /\ ClosedHandled(f) /\ Gone(f) => Gone(f)'
  PROVE  Handled(f)'
<1>1. OpenHandled(f) => OpenHandled(f)'
  BY DEF OpenHandled
<1>2. f \notin open /\ ~InHand(f) /\ ClosedHandled(f) => ClosedHandled(f)'
  BY DEF ClosedHandled
<1> QED BY <1>1, <1>2 DEF Handled

LEMMA SameSent ==
  ASSUME NEW f \in Files, text'[f] = text[f], f \in open' <=> f \in open, chan' = chan
  PROVE  (LastSent(f)' <=> LastSent(f)) /\ (InChan(f)' <=> InChan(f))
<1>1. Final(f)' = Final(f)
  BY DEF Final, Changed, Closed
<1> QED BY <1>1 DEF LastSent, InChan

(* The handler takes up the message of the editor's new action. *)
LEMMA HandlerHandled ==
  ASSUME GInv, CInv, NEW f \in Files, DidOpenOrChange(f) \/ DidClose(f)
  PROVE  CInv'
<1>1. /\ hpc = NoMsg /\ InHand(f)' /\ hpc'.file = f
      /\ hpc' = Final(f)' /\ (f \in open' => text'[f] # 0)
  <2>1. CASE DidOpenOrChange(f)
    <3>1. /\ hpc = NoMsg /\ hpc' = Changed(f, text'[f])
          /\ f \in open' /\ text'[f] = text[f] + 1 /\ text[f] \in Nat
      BY <2>1, CapAssumption DEF DidOpenOrChange, GInv, TypeOK, Texts, CapAssumption
    <3> QED BY <3>1 DEF InHand, Final, Changed, NoMsg
  <2>2. CASE DidClose(f)
    <3>1. hpc = NoMsg /\ hpc' = Closed(f) /\ f \notin open'
      BY <2>2 DEF DidClose
    <3> QED BY <3>1 DEF InHand, Final, Closed, NoMsg
  <2> QED BY <2>1, <2>2
<1>2. UNCHANGED <<chan, dropped, driverVars, dbVars, deps, rev>>
  BY DEF DidOpenOrChange, DidClose
<1>3. BatchEmpty' /\ shown' \in [Files -> Texts]
  BY <1>2 DEF CInv, BatchEmpty, Busy, driverVars, dbVars
<1>4. ASSUME NEW g \in Files, g # f
      PROVE  (g \in open' => text'[g] # 0) /\ ~InHand(g)' /\ Handled(g)'
  <2>1. /\ text'[g] = text[g] /\ (g \in open' <=> g \in open)
        /\ fileMap'[g] = fileMap[g]
    BY <1>4 DEF DidOpenOrChange, DidClose, GetOrCreate, Remove, GInv, TypeOK
  <2>2. ~InHand(g) /\ ~InHand(g)'
    BY <1>1, <1>4 DEF InHand
  <2>3. (LastSent(g)' <=> LastSent(g)) /\ (InChan(g)' <=> InChan(g))
    BY <1>2, <2>1, SameSent
  <2>4. (Awaiting(g)' <=> Awaiting(g)) /\ (InAnalysis(g)' <=> InAnalysis(g)) /\ job' = job
    BY <1>2 DEF Awaiting, InAnalysis, Busy, driverVars
  <2>5. Handled(g)'
    BY <1>2, <2>1, <2>2, <2>3, <2>4, ElsewhereHandled DEF CInv, Gone, driverVars, dbVars
  <2> QED BY <2>1, <2>2, <2>5 DEF CInv
<1>5. Handled(f)'
  BY <1>1 DEF Handled
<1> QED BY <1>1, <1>3, <1>4, <1>5 DEF CInv

(* The message reaches the channel, as the last one about its file, or its *)
(* file is listed as dropped.                                              *)
LEMMA SendHandled ==
  ASSUME GInv, CInv, TrySend
  PROVE  CInv'
<1>0. hpc \in Msgs /\ hpc.file \in Files
  BY DEF TrySend, GInv, TypeOK, Msgs
<1> PICK f \in Files : f = hpc.file
  BY <1>0
<1>1. /\ hpc # NoMsg /\ hpc' = NoMsg
      /\ UNCHANGED <<open, text, driverVars, fileMap, dbVars, deps, rev>>
  BY DEF TrySend, editorVars
<1>2. hpc = Final(f)
  BY <1>1 DEF CInv, InHand
<1>3. BatchEmpty' /\ shown' \in [Files -> Texts]
  BY <1>1 DEF CInv, BatchEmpty, Busy, driverVars, dbVars
<1>4. \A g \in Files : /\ (Awaiting(g)' <=> Awaiting(g)) /\ (InAnalysis(g)' <=> InAnalysis(g))
                       /\ Final(g)' = Final(g) /\ ~InHand(g)' /\ (g # f => ~InHand(g))
  BY <1>1 DEF Awaiting, InAnalysis, Busy, driverVars, Final, InHand
<1>5. CASE chan' = chan /\ dropped' = dropped \cup {f}
  <2>1. ASSUME NEW g \in Files, g # f PROVE Handled(g)'
    <3>1. (LastSent(g)' <=> LastSent(g)) /\ (InChan(g)' <=> InChan(g))
      BY <1>1, <1>5, SameSent
    <3> QED
      BY <1>1, <1>4, <1>5, <2>1, <3>1, ElsewhereHandled DEF CInv, Gone, driverVars, dbVars
  <2>2. Handled(f)'
    BY <1>5 DEF Handled
  <2> QED BY <1>1, <1>3, <1>4, <2>1, <2>2 DEF CInv
<1>6. CASE chan' = Append(chan, hpc) /\ dropped' = dropped \ {f}
  <2> DEFINE n == Len(chan)
  <2>1. /\ n \in Nat /\ Len(chan') = n + 1 /\ chan'[n + 1] = hpc
        /\ \A i \in 1..n : chan'[i] = chan[i]
    BY <1>0, <1>6, AppendProperties DEF GInv, TypeOK
  <2> HIDE DEF n
  <2>2. ASSUME NEW g \in Files, g # f PROVE Handled(g)'
    <3>1. InChan(g)' <=> InChan(g)
      BY <2>1, <2>2 DEF InChan, n
    <3>2. LastSent(g) => LastSent(g)'
      <4> SUFFICES ASSUME LastSent(g), NEW i \in 1..n + 1, chan'[i].file = g,
                          \A j \in i + 1..n + 1 : chan'[j].file # g
                   PROVE  chan'[i] = Final(g)'
        BY <2>1 DEF LastSent
      <4>1. i \in 1..n /\ \A j \in i + 1..n : j \in i + 1..n + 1 /\ j \in 1..n
        BY <2>1, <2>2
      <4> QED BY <1>4, <2>1, <4>1 DEF LastSent, n
    <3> QED
      BY <1>1, <1>4, <1>6, <2>2, <3>1, <3>2, ElsewhereHandled
         DEF CInv, Gone, driverVars, dbVars
  <2>3. Handled(f)'
    <3>1. InChan(f)'
      BY <2>1 DEF InChan
    <3>2. LastSent(f)'
      <4> SUFFICES ASSUME NEW i \in 1..n + 1, \A j \in i + 1..n + 1 : chan'[j].file # f
                   PROVE  chan'[i] = Final(f)'
        BY <2>1 DEF LastSent
      <4>1. i = n + 1
        BY <2>1
      <4> QED BY <1>1, <1>2, <1>4, <2>1, <4>1
    <3> QED BY <3>1, <3>2 DEF Handled
  <2> QED BY <1>1, <1>3, <1>4, <2>2, <2>3 DEF CInv
<1>7. \/ chan' = chan /\ dropped' = dropped \cup {f}
      \/ chan' = Append(chan, hpc) /\ dropped' = dropped \ {f}
  BY DEF TrySend
<1> QED BY <1>5, <1>6, <1>7

(* The driver takes a message into the batch; if it was the last about its *)
(* file the batch now says what the editor did last.                       *)
LEMMA RecvHandled ==
  ASSUME GInv, CInv, Recv
  PROVE  CInv'
<1> DEFINE n == Len(chan)
<1>0. /\ n \in Nat /\ n >= 1 /\ Len(chan') = n - 1
      /\ \A i \in 1..n - 1 : chan'[i] = chan[i + 1]
      /\ Head(chan) = chan[1] /\ chan[1] \in Msgs /\ chan[1].file \in Files
  BY HeadTailProperties DEF GInv, TypeOK, Recv, Msgs
<1> PICK m \in Msgs, f \in Files : m = chan[1] /\ f = m.file
  BY <1>0
<1>1. /\ UNCHANGED <<open, text, hpc, dropped, job, fileMap, dbVars, deps, rev>>
      /\ pc' = "drain" /\ ~Busy /\ ~Busy'
  BY DEF Recv, Busy, editorVars
<1>2. /\ n \in Nat /\ n >= 1 /\ Len(chan') = n - 1
      /\ \A i \in 1..n - 1 : chan'[i] = chan[i + 1]
      /\ Head(chan) = m
  BY <1>0
<1>3. /\ m.kind = "changed" => /\ latest' = [latest EXCEPT ![f] = m.text]
                               /\ closed' = closed
      /\ m.kind # "changed" => /\ latest' = [latest EXCEPT ![f] = 0]
                               /\ closed' = Append(closed, f)
  BY <1>2 DEF Recv, Absorb
<1> HIDE DEF n
<1>4. BatchEmpty' /\ shown' \in [Files -> Texts]
  BY <1>1 DEF CInv, BatchEmpty, dbVars
<1>5. \A g \in Files : /\ Final(g)' = Final(g) /\ (InHand(g)' <=> InHand(g))
                       /\ ~InAnalysis(g) /\ ~InAnalysis(g)' /\ (Gone(g)' <=> Gone(g))
  BY <1>1 DEF Final, InHand, InAnalysis, Gone, dbVars
<1>6. \A g \in Files : LastSent(g) => LastSent(g)'
  <2> SUFFICES ASSUME NEW g \in Files, LastSent(g), NEW i \in 1..n - 1, chan'[i].file = g,
                      \A j \in i + 1..n - 1 : chan'[j].file # g
               PROVE  chan'[i] = Final(g)'
    BY <1>2 DEF LastSent
  <2>1. i + 1 \in 1..n /\ \A j \in i + 2..n : j - 1 \in i + 1..n - 1 /\ j - 1 \in 1..n - 1
                                             /\ (j - 1) + 1 = j
    BY <1>2
  <2>2. \A j \in i + 2..n : chan[j].file # g
    BY <1>2, <2>1
  <2>3. chan[i + 1].file = g
    BY <1>2
  <2>4. (i + 1) + 1 = i + 2
    BY <1>2
  <2>5. chan[i + 1] = Final(g)
    BY <2>1, <2>2, <2>3, <2>4 DEF LastSent, n
  <2> QED BY <1>2, <1>5, <2>5
<1>7. \A g \in Files : Awaiting(g)' <=> Awaiting(g) \/ (g = f /\ m.kind # "changed")
  <2>1. CASE m.kind = "changed"
    BY <1>3, <2>1 DEF Awaiting
  <2>2. CASE m.kind # "changed"
    <3>1. /\ Len(closed) \in Nat /\ Len(closed') = Len(closed) + 1
          /\ closed'[Len(closed) + 1] = f
          /\ \A i \in 1..Len(closed) : closed'[i] = closed[i]
      BY <1>2, <1>3, <2>2, AppendProperties DEF GInv, TypeOK
    <3> QED BY <2>2, <3>1 DEF Awaiting
  <2> QED BY <2>1, <2>2
<1>8. \A g \in Files : g # f => latest'[g] = latest[g]
  BY <1>2, <1>3 DEF GInv, TypeOK
<1>9. \A g \in Files : InChan(g) <=> InChan(g)' \/ g = f
  <2>1. \A i \in 1..n : i = 1 \/ (i - 1 \in 1..n - 1 /\ (i - 1) + 1 = i)
    BY <1>2
  <2>2. \A i \in 1..n - 1 : i + 1 \in 1..n
    BY <1>2
  <2>3. 1 \in 1..n
    BY <1>2
  <2>4. ASSUME NEW g \in Files, InChan(g), g # f PROVE InChan(g)'
    <3>1. PICK i \in 1..n : chan[i].file = g
      BY <2>4 DEF InChan, n
    <3>2. i # 1
      BY <2>4, <3>1
    <3> QED BY <1>2, <2>1, <3>1, <3>2 DEF InChan
  <2>5. ASSUME NEW g \in Files, InChan(g)' PROVE InChan(g)
    <3>1. PICK i \in 1..n - 1 : chan'[i].file = g
      BY <1>2, <2>5 DEF InChan
    <3> QED BY <1>2, <2>2, <3>1 DEF InChan, n
  <2> QED BY <2>3, <2>4, <2>5 DEF InChan, n
<1>10. ASSUME NEW g \in Files, g # f PROVE Handled(g)'
  BY <1>1, <1>5, <1>6, <1>7, <1>8, <1>9, <1>10, ElsewhereHandled DEF CInv, dbVars
<1>11. Handled(f)'
  <2> SUFFICES ASSUME ~InHand(f)', f \notin dropped'
               PROVE  /\ LastSent(f)'
                      /\ ~InChan(f)' => IF f \in open' THEN OpenHandled(f)' ELSE ClosedHandled(f)'
    BY DEF Handled
  <2>1. LastSent(f)
    BY <1>1, <1>2, <1>5 DEF CInv, Handled
  <2>2. ASSUME ~InChan(f)' PROVE m = Final(f)
    <3>1. \A j \in 1 + 1..n : j - 1 \in 1..n - 1 /\ (j - 1) + 1 = j
      BY <1>2
    <3>2. \A j \in 1 + 1..n : chan[j].file # f
      <4> SUFFICES ASSUME NEW j \in 1 + 1..n PROVE chan[j].file # f
        OBVIOUS
      <4>1. j - 1 \in 1..n - 1 /\ chan'[j - 1] = chan[j]
        BY <1>2, <3>1
      <4>2. j - 1 \in 1..Len(chan')
        BY <1>2, <4>1
      <4> QED BY <2>2, <4>1, <4>2 DEF InChan
    <3>3. 1 \in 1..n
      BY <1>2
    <3> QED BY <2>1, <3>2, <3>3 DEF LastSent, n
  <2>3. ASSUME ~InChan(f)', f \in open PROVE OpenHandled(f)'
    <3>1. m.kind = "changed" /\ m.text = text[f]
      BY <2>2, <2>3 DEF Final, Changed
    <3> QED BY <1>1, <1>2, <1>3, <3>1 DEF OpenHandled, GInv, TypeOK
  <2>4. ASSUME ~InChan(f)', f \notin open PROVE ClosedHandled(f)'
    <3>1. m.kind # "changed"
      BY <2>2, <2>4 DEF Final, Closed
    <3> QED BY <1>2, <1>3, <1>5, <1>7, <3>1 DEF ClosedHandled, GInv, TypeOK
  <2> QED BY <1>1, <1>2, <1>6, <2>1, <2>3, <2>4
<1> QED BY <1>1, <1>2, <1>4, <1>5, <1>10, <1>11 DEF CInv

(* clear_deps takes edges away only, all of the file's among them. *)
LEMMA ClearDepsShrinks ==
  ASSUME TypeOK, NEW f \in Files, ClearDeps(f)
  PROVE  /\ deps'[f] = {} /\ rev'[f] = {}
         /\ \A g \in Files : deps'[g] \subseteq deps[g] /\ rev'[g] \subseteq rev[g]
  BY DEF TypeOK, ClearDeps

(* A file that is closed for good disappears; one that was opened again    *)
(* waits in the batch.                                                     *)
LEMMA CloseHandled ==
  ASSUME GInv, CInv, CloseFile
  PROVE  CInv'
<1> DEFINE n == Len(closed)
<1>0. Head(closed) \in Files
  BY HeadTailProperties DEF CloseFile, GInv, TypeOK
<1> PICK f \in Files : f = Head(closed)
  BY <1>0
<1>1. /\ UNCHANGED <<open, text, hpc, dropped, chan, pc, latest, job, source, index>>
      /\ shown' = [shown EXCEPT ![f] = 0] /\ fileMap' = [fileMap EXCEPT ![f] = 0]
      /\ ClearDeps(f) /\ pc = "batch" /\ ~Busy /\ ~Busy'
  BY DEF CloseFile, Remove, Busy, editorVars
<1>2. /\ n \in Nat /\ n >= 1 /\ Len(closed') = n - 1 /\ f = closed[1]
      /\ \A i \in 1..n - 1 : closed'[i] = closed[i + 1]
  BY HeadTailProperties DEF CloseFile, GInv, TypeOK
<1> HIDE DEF n
<1>3. /\ deps'[f] = {} /\ rev'[f] = {}
      /\ \A g \in Files : deps'[g] \subseteq deps[g] /\ rev'[g] \subseteq rev[g]
  BY <1>1, <1>2, ClearDepsShrinks DEF GInv
<1>4. BatchEmpty' /\ shown' \in [Files -> Texts]
  <2>1. 0 \in Texts
    BY CapAssumption DEF Texts, CapAssumption
  <2> QED BY <1>1, <1>2, <2>1 DEF CInv, BatchEmpty
<1>5. \A g \in Files : (Awaiting(g)' => Awaiting(g)) /\ (Awaiting(g) => Awaiting(g)' \/ g = f)
  <2>1. \A i \in 1..n : i = 1 \/ (i - 1 \in 1..n - 1 /\ (i - 1) + 1 = i)
    BY <1>2
  <2>2. \A i \in 1..n - 1 : i + 1 \in 1..n
    BY <1>2
  <2>3. ASSUME NEW g \in Files, Awaiting(g), g # f PROVE Awaiting(g)'
    <3>1. PICK i \in 1..n : closed[i] = g
      BY <2>3 DEF Awaiting, n
    <3>2. i - 1 \in 1..n - 1 /\ (i - 1) + 1 = i
      BY <1>2, <2>1, <2>3, <3>1
    <3>3. closed'[i - 1] = g
      BY <1>2, <3>1, <3>2
    <3> QED BY <1>2, <3>2, <3>3 DEF Awaiting
  <2>4. ASSUME NEW g \in Files, Awaiting(g)' PROVE Awaiting(g)
    <3>1. PICK i \in 1..n - 1 : closed'[i] = g
      BY <1>2, <2>4 DEF Awaiting
    <3> QED BY <1>2, <2>2, <3>1 DEF Awaiting, n
  <2> QED BY <2>3, <2>4
<1>6. Awaiting(f)
  BY <1>2 DEF Awaiting, n
<1>7. \A g \in Files : /\ (InHand(g)' <=> InHand(g)) /\ ~InAnalysis(g) /\ ~InAnalysis(g)'
                       /\ (LastSent(g)' <=> LastSent(g)) /\ (InChan(g)' <=> InChan(g))
  BY <1>1, SameSent DEF InHand, InAnalysis
<1>8. \A g \in Files \ {f} : shown'[g] = shown[g] /\ fileMap'[g] = fileMap[g]
  BY <1>1, <1>2 DEF CInv, GInv, TypeOK
<1>9. ASSUME NEW g \in Files, g # f PROVE Handled(g)'
  <2>1. Gone(g) => Gone(g)'
    BY <1>3, <1>8, <1>9 DEF Gone
  <2>2. Awaiting(g)' <=> Awaiting(g)
    BY <1>5, <1>9
  <2> QED BY <1>1, <1>7, <1>8, <1>9, <2>1, <2>2, ElsewhereHandled DEF CInv
<1>10. Handled(f)'
  <2>1. OpenHandled(f) => OpenHandled(f)'
    BY <1>1, <1>6 DEF OpenHandled
  <2>2. Gone(f)'
    BY <1>1, <1>2, <1>3 DEF Gone, CInv, GInv, TypeOK
  <2>3. ClosedHandled(f) => ClosedHandled(f)'
    BY <1>1, <1>7, <1>2, <2>2 DEF ClosedHandled
  <2> QED BY <1>1, <1>2, <1>7, <2>1, <2>3 DEF CInv, Handled
<1> QED BY <1>1, <1>2, <1>4, <1>7, <1>9, <1>10 DEF CInv, Final

(* An analysis begins: the text leaves the batch for the source map, under *)
(* the id that the file map has now.                                       *)
LEMMA BeginHandled ==
  ASSUME GInv, CInv, NEW f \in Files, Begin(f)
  PROVE  CInv'
<1>1. /\ UNCHANGED <<open, text, hpc, dropped, chan, closed, index, shown>>
      /\ pc = "batch" /\ pc' = "extract" /\ closed = << >> /\ ~Busy /\ Busy'
      /\ latest' = [latest EXCEPT ![f] = 0] /\ latest[f] # 0
      /\ source' = [source EXCEPT ![f] = [id |-> fileMap'[f], text |-> latest[f]]]
      /\ job' = [file |-> f, id |-> fileMap'[f], text |-> latest[f]]
      /\ ClearDeps(f) /\ GetOrCreate(f)
  BY DEF Begin, Busy, editorVars
<1>2. \A g \in Files : deps'[g] \subseteq deps[g] /\ rev'[g] \subseteq rev[g]
  BY <1>1, ClearDepsShrinks DEF GInv
<1>3. fileMap'[f] # 0 /\ \A g \in Files \ {f} : fileMap'[g] = fileMap[g]
  <2>1. CASE fileMap[f] # 0
    BY <1>1, <2>1 DEF GetOrCreate
  <2>2. CASE fileMap[f] = 0
    <3>1. made' = [made EXCEPT ![f] = @ + 1] /\ fileMap' = [fileMap EXCEPT ![f] = made'[f]]
      BY <1>1, <2>2 DEF GetOrCreate
    <3>2. made[f] \in Nat /\ made'[f] = made[f] + 1
      BY <3>1 DEF GInv, TypeOK
    <3> QED BY <3>1, <3>2 DEF GInv, TypeOK
  <2> QED BY <2>1, <2>2
<1>4. BatchEmpty' /\ shown' \in [Files -> Texts]
  BY <1>1 DEF CInv, BatchEmpty
<1>5. \A g \in Files : /\ (InHand(g)' <=> InHand(g)) /\ (Awaiting(g)' <=> Awaiting(g))
                       /\ ~InAnalysis(g) /\ (InAnalysis(g)' <=> g = f)
                       /\ (LastSent(g)' <=> LastSent(g)) /\ (InChan(g)' <=> InChan(g))
  BY <1>1, SameSent DEF InHand, InAnalysis, Awaiting
<1>6. ASSUME NEW g \in Files, g # f PROVE Handled(g)'
  <2>1. Gone(g) => Gone(g)'
    BY <1>1, <1>2, <1>3, <1>6 DEF Gone
  <2>2. latest'[g] = latest[g] /\ source'[g] = source[g]
    BY <1>1, <1>6 DEF GInv, TypeOK
  <2> QED BY <1>1, <1>3, <1>5, <1>6, <2>1, <2>2, ElsewhereHandled DEF CInv
<1>7. Handled(f)'
  <2>1. ASSUME OpenHandled(f) PROVE OpenHandled(f)'
    <3>1. latest[f] = text[f]
      BY <1>1, <2>1 DEF OpenHandled
    <3>2. ~Awaiting(f)
      BY <1>1 DEF Awaiting
    <3>3. latest'[f] = 0 /\ source'[f] = [id |-> fileMap'[f], text |-> latest[f]]
      BY <1>1 DEF GInv, TypeOK
    <3> QED BY <1>1, <1>3, <1>5, <3>1, <3>2, <3>3 DEF OpenHandled
  <2>2. ~ClosedHandled(f)
    BY <1>1 DEF ClosedHandled
  <2> QED BY <1>1, <1>5, <2>1, <2>2 DEF CInv, Handled
<1> QED BY <1>1, <1>4, <1>5, <1>6, <1>7 DEF CInv, Final

(* A dependency on a file that is gone is not found. *)
LEMMA ExtractHandled ==
  ASSUME GInv, CInv, Extract
  PROVE  CInv'
<1>0. job.file \in Files
  BY DEF Extract, Busy, GInv, TypeOK, Jobs
<1> PICK f \in Files : f = job.file
  BY <1>0
<1> DEFINE found == {g \in Uses[f][job.text] : fileMap[g] # 0 /\ index[g].id = fileMap[g]}
<1>1. /\ UNCHANGED <<open, text, hpc, dropped, chan, latest, closed, job, fileMap, dbVars>>
      /\ pc = "extract" /\ Busy /\ Busy'
      /\ deps' = [deps EXCEPT ![f] = @ \cup found]
      /\ rev' = [g \in Files |-> IF g \in found THEN rev[g] \cup {f} ELSE rev[g]]
  BY DEF Extract, Busy, editorVars
<1>2. \A g \in Files : g \in found => fileMap[g] # 0
  OBVIOUS
<1> HIDE DEF found
<1>3. BatchEmpty' /\ shown' \in [Files -> Texts] /\ pc' = "enqueue"
  BY <1>1 DEF CInv, BatchEmpty, dbVars, Extract
<1>4. \A g \in Files : /\ (InHand(g)' <=> InHand(g)) /\ (Awaiting(g)' <=> Awaiting(g))
                       /\ (InAnalysis(g)' <=> InAnalysis(g)) /\ (g = f => InAnalysis(g))
                       /\ (LastSent(g)' <=> LastSent(g)) /\ (InChan(g)' <=> InChan(g))
  BY <1>1, SameSent DEF InHand, InAnalysis, Awaiting
<1>5. ASSUME NEW g \in Files PROVE Handled(g)'
  <2>1. ASSUME ClosedHandled(g), Gone(g) PROVE Gone(g)'
    <3>1. g # f /\ g \notin found
      BY <1>2, <1>4, <2>1 DEF ClosedHandled, Gone
    <3>2. deps'[g] = deps[g] /\ rev'[g] = rev[g]
      BY <1>1, <3>1 DEF GInv, TypeOK
    <3> QED BY <1>1, <2>1, <3>2 DEF Gone, dbVars
  <2> QED BY <1>1, <1>4, <2>1, ElsewhereHandled DEF CInv, dbVars
<1> QED BY <1>1, <1>3, <1>4, <1>5 DEF CInv, InHand, Final

(* The analysis ends where it began: what it publishes is what the source  *)
(* map holds, unless a newer text waits.                                   *)
LEMMA PublishHandled ==
  ASSUME GInv, CInv, Publish
  PROVE  CInv'
<1>0. job.file \in Files /\ job.text \in Texts
  BY DEF Publish, Busy, GInv, TypeOK, Jobs
<1> PICK f \in Files : f = job.file
  BY <1>0
<1>1. /\ UNCHANGED <<open, text, hpc, dropped, chan, latest, closed, fileMap, source, deps, rev>>
      /\ index' = [index EXCEPT ![f] = [id |-> job.id, text |-> job.text]]
      /\ shown' = [shown EXCEPT ![f] = job.text]
      /\ pc' = "batch" /\ Busy /\ ~Busy'
  BY DEF Publish, Busy, editorVars
<1>2. BatchEmpty' /\ shown' \in [Files -> Texts]
  BY <1>0, <1>1 DEF CInv, BatchEmpty
<1>3. \A g \in Files : /\ (InHand(g)' <=> InHand(g)) /\ (Awaiting(g)' <=> Awaiting(g))
                       /\ ~InAnalysis(g)' /\ (InAnalysis(g) <=> g = f)
                       /\ (LastSent(g)' <=> LastSent(g)) /\ (InChan(g)' <=> InChan(g))
  BY <1>1, SameSent DEF InHand, InAnalysis, Awaiting
<1>4. ASSUME NEW g \in Files, g # f PROVE Handled(g)'
  <2>1. index'[g] = index[g] /\ shown'[g] = shown[g]
    BY <1>1, <1>4 DEF CInv, GInv, TypeOK
  <2>2. Gone(g) => Gone(g)'
    BY <1>1, <2>1 DEF Gone
  <2> QED BY <1>1, <1>3, <1>4, <2>1, <2>2, ElsewhereHandled DEF CInv
<1>5. Handled(f)'
  <2>1. index'[f] = [id |-> job.id, text |-> job.text] /\ shown'[f] = job.text
    BY <1>1 DEF CInv, GInv, TypeOK
  <2>2. OpenHandled(f) => OpenHandled(f)'
    BY <1>1, <1>3, <2>1 DEF OpenHandled
  <2>3. ~ClosedHandled(f)
    BY <1>1, <1>3 DEF ClosedHandled
  <2> QED BY <1>1, <1>3, <2>2, <2>3 DEF CInv, Handled
<1> QED BY <1>1, <1>2, <1>3, <1>4, <1>5 DEF CInv, InHand, Final

LEMMA RestHandled ==
  ASSUME GInv, CInv, Drained \/ Enqueue \/ EndBatch \/ UNCHANGED vars
  PROVE  CInv'
<1>1. /\ UNCHANGED <<open, text, hpc, dropped, chan, latest, closed, job, fileMap, dbVars, deps, rev>>
      /\ (Busy' <=> Busy)
  BY EnqueueNothing DEF Drained, Enqueue, EndBatch, vars, editorVars, driverVars, Busy
<1>2. BatchEmpty'
  <2>1. CASE Drained \/ Enqueue \/ UNCHANGED vars
    BY <1>1, <2>1 DEF CInv, BatchEmpty, Drained, Enqueue, vars, driverVars
  <2>2. CASE EndBatch
    BY <1>1, <2>2 DEF BatchEmpty, EndBatch
  <2> QED BY <2>1, <2>2
<1>3. \A g \in Files : /\ (InHand(g)' <=> InHand(g)) /\ (Awaiting(g)' <=> Awaiting(g))
                       /\ (InAnalysis(g)' <=> InAnalysis(g)) /\ (Gone(g)' <=> Gone(g))
                       /\ (LastSent(g)' <=> LastSent(g)) /\ (InChan(g)' <=> InChan(g))
  BY <1>1, SameSent DEF InHand, InAnalysis, Awaiting, Gone, dbVars
<1>4. \A g \in Files : Handled(g)'
  BY <1>1, <1>3, ElsewhereHandled DEF CInv, dbVars
<1> QED BY <1>1, <1>2, <1>3, <1>4 DEF CInv, InHand, Final, dbVars

LEMMA CStep == GInv /\ CInv /\ [Next]_vars => CInv'
<1> SUFFICES ASSUME GInv, CInv, [Next]_vars PROVE CInv'
  OBVIOUS
<1> QED
  BY HandlerHandled, SendHandled, RecvHandled, CloseHandled, BeginHandled, ExtractHandled,
     PublishHandled, RestHandled DEF Next, Driver

(* When everything sent has been handled the database and the editor agree *)
(* on every file whose last message was delivered, whatever edits, closes  *)
(* and analyses overlapped on the way and whatever was dropped before it.  *)
THEOREM LspQuietMeansCurrent == Spec => []QuietMeansCurrent
<1>1. ASSUME GInv, CInv, Quiet, NEW f \in Files \ dropped
      PROVE  IF f \in open
             THEN /\ fileMap[f] # 0
                  /\ index[f] = [id |-> fileMap[f], text |-> text[f]]
                  /\ source[f] = index[f]
                  /\ shown[f] = text[f]
             ELSE fileMap[f] = 0 /\ shown[f] = 0 /\ deps[f] = {} /\ rev[f] = {}
  <2>1. /\ ~InHand(f) /\ ~InChan(f) /\ latest[f] = 0 /\ ~Awaiting(f) /\ ~InAnalysis(f)
        /\ f \in open => text[f] # 0
    BY <1>1 DEF Quiet, InHand, InChan, CInv, BatchEmpty, Awaiting, InAnalysis, Busy
  <2>2. IF f \in open THEN OpenHandled(f) ELSE ClosedHandled(f)
    BY <1>1, <2>1 DEF CInv, Handled
  <2> QED BY <2>1, <2>2 DEF OpenHandled, ClosedHandled, Gone
<1>2. GInv /\ CInv => QuietMeansCurrent
  BY <1>1 DEF QuietMeansCurrent
<1>3. Spec => [](GInv /\ CInv)
  BY GInit, GStep, CInit, CStep, PTL DEF Spec
<1> QED BY <1>2, <1>3, PTL
===============================================================================
