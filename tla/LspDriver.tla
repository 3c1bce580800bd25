------------------------------ MODULE LspDriver ------------------------------
(***************************************************************************)
(* The language server of glyim-lsp: the notification handlers of the main *)
(* loop (handler.rs) send the editor's changes over a bounded channel to   *)
(* the analysis driver (driver.rs), which analyses them one file at a time *)
(* and publishes diagnostics.  Both write the shared FileMap; only the     *)
(* driver writes the indexes and the dependency graph.                     *)
(* A text is known by the number of its edit; the file ids of one path are *)
(* numbered in the order in which the FileMap made them.                   *)
(***************************************************************************)
EXTENDS Naturals, Sequences

CONSTANTS Files,      \* paths the editor opens
          Uses,       \* Uses[f][v]: files with a name that text v of f mentions
          Cap,        \* capacity of the channel (16 in server.rs)
          MaxVersion  \* bound on the edits of a file

ASSUME UsesAssumption == /\ Uses \in [Files -> [1..MaxVersion -> SUBSET Files]]
                         /\ \A f \in Files, v \in 1..MaxVersion : f \notin Uses[f][v]
ASSUME CapAssumption == Cap \in Nat \ {0} /\ MaxVersion \in Nat

VARIABLES open,     \* files open in the editor
          text,     \* the editor's last text of each file
          hpc,      \* message the handler is about to send, or NoMsg
          dropped,  \* history: files whose last message found the channel full
          chan,     \* the channel of AnalysisMessages
          pc,       \* what the driver does
          latest,   \* latest_changes: text of each file of the batch, 0 if none
          closed,   \* closed_paths
          job,      \* the analysis in progress, or NoJob
          fileMap,  \* AnalysisDatabase.file_map: id of each path, 0 if none
          made,     \* how many ids the file map made for each path
          source,   \* source_maps, by path: id and text
          index,    \* symbol_index, hirs, typeck, ..., by path: id and text
          shown,    \* text whose diagnostics the editor shows, 0 when cleared
          deps, rev \* DependencyGraph

editorVars == <<open, text>>
driverVars == <<pc, latest, closed, job>>
dbVars == <<source, index, shown>>
vars == <<editorVars, hpc, dropped, chan, driverVars, fileMap, made, dbVars, deps, rev>>

NoMsg == [kind |-> "none"]
NoJob == [id |-> 0]
Changed(f, v) == [kind |-> "changed", file |-> f, text |-> v]
Closed(f) == [kind |-> "closed", file |-> f]

Init ==
  /\ open = {} /\ text = [f \in Files |-> 0]
  /\ hpc = NoMsg /\ dropped = {} /\ chan = << >>
  /\ pc = "recv" /\ latest = [f \in Files |-> 0] /\ closed = << >> /\ job = NoJob
  /\ fileMap = [f \in Files |-> 0] /\ made = [f \in Files |-> 0]
  /\ source = [f \in Files |-> [id |-> 0, text |-> 0]]
  /\ index = source /\ shown = text
  /\ deps = [f \in Files |-> {}] /\ rev = deps

(* FileMap::get_or_create and FileMap::remove *)
GetOrCreate(f) ==
  IF fileMap[f] # 0
  THEN UNCHANGED <<fileMap, made>>
  ELSE /\ made' = [made EXCEPT ![f] = @ + 1]
       /\ fileMap' = [fileMap EXCEPT ![f] = made'[f]]
Remove(f) == fileMap' = [fileMap EXCEPT ![f] = 0] /\ UNCHANGED made
-----------------------------------------------------------------------------
(* The handlers.  The main loop runs one at a time; each first changes the *)
(* file map and then sends its message with try_send.                      *)
DidOpenOrChange(f) ==
  /\ hpc = NoMsg
  /\ text[f] < MaxVersion
  /\ text' = [text EXCEPT ![f] = @ + 1]
  /\ open' = open \cup {f}
  /\ GetOrCreate(f)
  /\ hpc' = Changed(f, text'[f])
  /\ UNCHANGED <<dropped, chan, driverVars, dbVars, deps, rev>>

DidClose(f) ==
  /\ hpc = NoMsg
  /\ f \in open
  /\ open' = open \ {f}
  /\ Remove(f)
  /\ hpc' = Closed(f)
  /\ UNCHANGED <<text, dropped, chan, driverVars, dbVars, deps, rev>>

(* try_send: the result is discarded, a full channel drops the message. *)
TrySend ==
  /\ hpc # NoMsg
  /\ hpc' = NoMsg
  /\ IF Len(chan) < Cap
     THEN chan' = Append(chan, hpc) /\ dropped' = dropped \ {hpc.file}
     ELSE chan' = chan /\ dropped' = dropped \cup {hpc.file}
  /\ UNCHANGED <<editorVars, driverVars, fileMap, made, dbVars, deps, rev>>
-----------------------------------------------------------------------------
(* Coalescing that keeps the first change of a file. *)
AbsorbFirst(m) ==
  IF m.kind = "changed"
  THEN /\ latest' = [latest EXCEPT ![m.file] = IF @ = 0 THEN m.text ELSE @]
       /\ UNCHANGED closed
  ELSE latest' = [latest EXCEPT ![m.file] = 0] /\ closed' = Append(closed, m.file)

(* The closure absorb of AnalysisDriver::run: the last content of a file   *)
(* wins, and a close cancels the changes before it.                        *)
Absorb(m) ==
  IF m.kind = "changed"
  THEN latest' = [latest EXCEPT ![m.file] = m.text] /\ UNCHANGED closed
  ELSE latest' = [latest EXCEPT ![m.file] = 0] /\ closed' = Append(closed, m.file)

(* One recv, then try_recv until the channel is empty. *)
Recv ==
  /\ pc \in {"recv", "drain"}
  /\ chan # << >>
  /\ Absorb(Head(chan))
  /\ chan' = Tail(chan)
  /\ pc' = "drain"
  /\ UNCHANGED <<editorVars, hpc, dropped, job, fileMap, made, dbVars, deps, rev>>

Drained ==
  /\ pc = "drain"
  /\ chan = << >>
  /\ pc' = "batch"
  /\ UNCHANGED <<editorVars, hpc, dropped, chan, latest, closed, job, fileMap, made, dbVars, deps, rev>>
-----------------------------------------------------------------------------
(* clear_deps that leaves the file in the reverse lists of the files it uses *)
HalfClear(f) ==
  /\ deps' = [g \in Files |-> IF g = f THEN {} ELSE deps[g] \ {f}]
  /\ rev' = [rev EXCEPT ![f] = {}]

(* and one that only forgets what the file itself uses. *)
ForwardClear(f) ==
  /\ deps' = [deps EXCEPT ![f] = {}]
  /\ rev' = [g \in Files |-> rev[g] \ {f}]

(* DependencyGraph::clear_deps forgets what the file uses and also which   *)
(* files use it.                                                           *)
ClearDeps(f) ==
  /\ deps' = [g \in Files |-> IF g = f THEN {}
                              ELSE IF g \in rev[f] THEN deps[g] \ {f} ELSE deps[g]]
  /\ rev' = [g \in Files |-> IF g = f THEN {}
                             ELSE IF g \in deps[f] THEN rev[g] \ {f} ELSE rev[g]]

(* DependencyGraph::affected_files: the file and everything that reaches   *)
(* it over the reverse dependencies.                                       *)
AffectedFiles(f) ==
  {g \in Files : \A S \in SUBSET Files :
                   f \in S /\ (\A h \in S : rev[h] \subseteq S) => g \in S}

(* The closed files of a batch come first. *)
CloseFile ==
  /\ pc = "batch"
  /\ closed # << >>
  /\ LET f == Head(closed)
     IN  /\ shown' = [shown EXCEPT ![f] = 0]
         /\ Remove(f)
         /\ ClearDeps(f)
  /\ closed' = Tail(closed)
  /\ UNCHANGED <<editorVars, hpc, dropped, chan, pc, latest, job, source, index>>

(* analyze_file, up to the source map. *)
Begin(f) ==
  /\ pc = "batch"
  /\ closed = << >>
  /\ latest[f] # 0
  /\ latest' = [latest EXCEPT ![f] = 0]
  /\ ClearDeps(f)
  /\ GetOrCreate(f)
  /\ source' = [source EXCEPT ![f] = [id |-> fileMap'[f], text |-> latest[f]]]
  /\ job' = [file |-> f, id |-> fileMap'[f], text |-> latest[f]]
  /\ pc' = "extract"
  /\ UNCHANGED <<editorVars, hpc, dropped, chan, closed, index, shown>>

(* extract_dependencies: a name the text mentions resolves to the files in *)
(* the symbol index that define it and whose id the file map still knows.  *)
Extract ==
  /\ pc = "extract"
  /\ LET f == job.file
         found == {g \in Uses[f][job.text] : fileMap[g] # 0 /\ index[g].id = fileMap[g]}
     IN  /\ deps' = [deps EXCEPT ![f] = @ \cup found]
         /\ rev' = [g \in Files |-> IF g \in found THEN rev[g] \cup {f} ELSE rev[g]]
  /\ pc' = "enqueue"
  /\ UNCHANGED <<editorVars, hpc, dropped, chan, latest, closed, job, fileMap, made, dbVars>>

(* The cached content of every affected file is sent to the driver itself, *)
(* in any order, as far as the channel has room.                           *)
Enqueue ==
  /\ pc = "enqueue"
  /\ LET others == {g \in AffectedFiles(job.file) \ {job.file} :
                      fileMap[g] # 0 /\ source[g].id = fileMap[g]}
     IN  \E s \in UNION {[1..n -> others] : n \in 0..Cap} :
           /\ \A i, j \in DOMAIN s : s[i] = s[j] => i = j
           /\ \/ {s[i] : i \in DOMAIN s} = others
              \/ Len(chan) + Len(s) = Cap
           /\ Len(chan) + Len(s) <= Cap
           /\ chan' = chan \o [i \in DOMAIN s |-> Changed(s[i], source[s[i]].text)]
  /\ pc' = "publish"
  /\ UNCHANGED <<editorVars, hpc, dropped, latest, closed, job, fileMap, made, dbVars, deps, rev>>

(* The rest of analyze_file: the indexes under the id the analysis began   *)
(* with, then the diagnostics.                                             *)
Publish ==
  /\ pc = "publish"
  /\ index' = [index EXCEPT ![job.file] = [id |-> job.id, text |-> job.text]]
  /\ shown' = [shown EXCEPT ![job.file] = job.text]
  /\ job' = NoJob
  /\ pc' = "batch"
  /\ UNCHANGED <<editorVars, hpc, dropped, chan, latest, closed, fileMap, made, source, deps, rev>>

EndBatch ==
  /\ pc = "batch"
  /\ closed = << >>
  /\ \A f \in Files : latest[f] = 0
  /\ pc' = "recv"
  /\ UNCHANGED <<editorVars, hpc, dropped, chan, latest, closed, job, fileMap, made, dbVars, deps, rev>>

Driver == \/ Recv \/ Drained \/ CloseFile \/ Extract \/ Enqueue \/ Publish \/ EndBatch
          \/ \E f \in Files : Begin(f)

Next == \/ \E f \in Files : DidOpenOrChange(f) \/ DidClose(f)
        \/ TrySend
        \/ Driver

(* The tokio scheduler runs the main loop and the driver's task whenever   *)
(* they can go on; the editor may stop typing at any time.                 *)
Spec == Init /\ [][Next]_vars /\ WF_vars(TrySend) /\ WF_vars(Driver)
-----------------------------------------------------------------------------
Quiet == hpc = NoMsg /\ chan = << >> /\ pc = "recv"

(* When everything sent has been handled, the database and the editor show *)
(* the last text of every open file under its current id, and nothing of a *)
(* closed one, except for a file whose last message was dropped.  A        *)
(* dependency then concerns such files only.                               *)
QuietMeansCurrent ==
  Quiet => \A f \in Files \ dropped :
             IF f \in open
             THEN /\ fileMap[f] # 0
                  /\ index[f] = [id |-> fileMap[f], text |-> text[f]]
                  /\ source[f] = index[f]
                  /\ shown[f] = text[f]
             ELSE fileMap[f] = 0 /\ shown[f] = 0 /\ deps[f] = {} /\ rev[f] = {}

(* The two halves of the dependency graph say the same. *)
GraphMirrors == \A f, g \in Files : g \in deps[f] <=> f \in rev[g]

(* No analysis replaces what the database holds of a file by an older text *)
(* of it.                                                                  *)
VersionsNeverGoBack ==
  [][\A f \in Files : index'[f].text >= index[f].text]_index

(* Analyses that ask for each other come to an end: after the last edit    *)
(* the driver waits for messages for good.                                 *)
ServerSettles == <>[]Quiet
=============================================================================
