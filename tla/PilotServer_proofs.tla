------------------------- MODULE PilotServer_proofs -------------------------
(***************************************************************************)
(* The processing mark is exact and only gated files are committed, for    *)
(* any streams, messages, session cap and number of restarts.              *)
(***************************************************************************)
EXTENDS PilotServer, TLAPS


OneTurn == \A t, u \in Turns : pc[t] \in InTurn /\ pc[u] \in InTurn
                                 /\ stream[t] = stream[u] => t = u

Marked == processing = leaked \cup {stream[t] : t \in {u \in Turns : pc[u] \in InTurn}}

(* A mark that leaked keeps every later turn of its stream out, so clearing *)
(* the mark of a turn never clears a leaked one.                           *)
NoTurnLeaked == \A t \in Turns : pc[t] \in InTurn => stream[t] \notin leaked

(* From its last gate to its commit a turn is the only one to touch the    *)
(* files: they still are the version that passed.                          *)
StillGated == \A t \in Turns : pc[t] = "commit" => gated[t] = content[stream[t]]

IInv == TypeOK /\ OneTurn /\ Marked /\ NoTurnLeaked /\ StillGated
-----------------------------------------------------------------------------
(* The shapes of the steps: of a message outside a turn, of a turn, at its *)
(* ends.                                                                   *)
Moves(t, to) == pc' = [pc EXCEPT ![t] = to]

SameMarks == UNCHANGED <<stream, processing, leaked>>

Outside(t) ==
  /\ pc[t] \in Pcs \ InTurn
  /\ \E to \in Pcs \ InTurn : Moves(t, to)
  /\ SameMarks /\ UNCHANGED <<content, gated, head>>

Inside(t) ==
  /\ pc[t] \in InTurn
  /\ \E to \in InTurn : Moves(t, to) /\ (to = "commit" => gated'[t] = content'[stream[t]])
  /\ \A u \in Turns \ {t} : gated'[u] = gated[u]
  /\ \A s \in Streams \ {stream[t]} : content'[s] = content[s]
  /\ \A s \in Streams : head'[s] # head[s] =>
       s = stream[t] /\ pc[t] = "commit" /\ head'[s] = content[s]
  /\ SameMarks

(* The definitions that say how a variable of the bookkeeping moves. *)
USE DEF mvars, gvars, pvars

LEMMA OutsideSteps ==
  ASSUME TypeOK, NEW t \in Turns,
         \/ Arrive(t) \/ Lookup(t) \/ CreateFails(t) \/ AddTree(t)
         \/ CheckoutBranch(t) \/ Register(t) \/ Skip(t) \/ Reply(t)
  PROVE  Outside(t) /\ TypeOK'
<1>1. CASE Arrive(t)
  BY <1>1 DEF Arrive, Goto, Quiet, Outside, Moves, SameMarks, TypeOK, Pcs, InTurn
<1>2. CASE Lookup(t)
  BY <1>2 DEF Lookup, Goto, Quiet, Outside, Moves, SameMarks, TypeOK, Pcs, InTurn
<1>3. CASE CreateFails(t)
  <2>1. "worktree_failed" \in Results
    BY DEF Results
  <2>2. trees' \subseteq Streams
    BY <1>3 DEF CreateFails, Tree, TypeOK
  <2>3. pc[t] \in {"add_tree", "branch"} /\ Moves(t, "reply")
    BY <1>3 DEF CreateFails, Goto, Moves
  <2> QED
    BY <1>3, <2>1, <2>2, <2>3
       DEF CreateFails, Ends, Quiet, Outside, Moves, SameMarks, TypeOK, Pcs, InTurn
<1>4. CASE AddTree(t)
  BY <1>4 DEF AddTree, Tree, Goto, Quiet, Outside, Moves, SameMarks, TypeOK, Pcs, InTurn
<1>5. CASE CheckoutBranch(t)
  BY <1>5 DEF CheckoutBranch, Goto, Quiet, Outside, Moves, SameMarks, TypeOK, Pcs, InTurn
<1>6. CASE Register(t)
  BY <1>6 DEF Register, Goto, Quiet, Outside, Moves, SameMarks, TypeOK, Pcs, InTurn
<1>7. CASE Skip(t)
  BY <1>7 DEF Skip, Goto, Quiet, Outside, Moves, SameMarks, TypeOK, Pcs, InTurn
<1>8. CASE Reply(t)
  BY <1>8 DEF Reply, Goto, Outside, Moves, SameMarks, TypeOK, Pcs, InTurn
<1> QED
  BY <1>1, <1>2, <1>3, <1>4, <1>5, <1>6, <1>7, <1>8

(* What an edit, a commit and the end of a turn do. *)
LEMMA EditFacts ==
  ASSUME TypeOK, NEW s \in Streams, Edit(s)
  PROVE  /\ content' \in [Streams -> Nat]
         /\ \A r \in Streams \ {s} : content'[r] = content[r]
BY DEF TypeOK, Edit

LEMMA CommitFacts ==
  ASSUME TypeOK, NEW s \in Streams, CommitAll(s)
  PROVE  /\ head' \in [Streams -> Nat]
         /\ \A r \in Streams : head'[r] # head[r] => r = s /\ head'[r] = content[r]
BY DEF TypeOK, CommitAll

LEMMA EndTurnFacts ==
  ASSUME TypeOK, NEW t \in Turns, NEW from \in InTurn, NEW res \in Results,
         EndTurn(t, from, res)
  PROVE  /\ pc[t] = from
         /\ Moves(t, "release")
         /\ result' \in [Turns -> Results]
         /\ Quiet
BY DEF TypeOK, EndTurn, Goto, Ends, Moves

(* A step inside a turn, from what it does to each variable. *)
LEMMA InsideFrame ==
  ASSUME TypeOK, NEW t \in Turns, NEW to \in InTurn,
         pc[t] \in InTurn, Moves(t, to), to # "commit", Quiet,
         result' \in [Turns -> Results],
         content' \in [Streams -> Nat], head' \in [Streams -> Nat],
         trees' \subseteq Streams, prs' \subseteq Streams,
         \A s \in Streams \ {stream[t]} : content'[s] = content[s],
         \A s \in Streams : head'[s] # head[s] =>
           s = stream[t] /\ pc[t] = "commit" /\ head'[s] = content[s]
  PROVE  Inside(t) /\ TypeOK'
<1>1. InTurn \subseteq Pcs
  BY DEF Pcs
<1>2. TypeOK'
  BY <1>1 DEF TypeOK, Moves, Quiet
<1>3. Inside(t)
  BY DEF Inside, Quiet, SameMarks
<1> QED
  BY <1>2, <1>3

LEMMA TurnSteps ==
  ASSUME TypeOK, NEW t \in Turns,
         \/ ApplyFails(t) \/ Apply(t) \/ Continue(t) \/ Review(t) \/ RecordTurn(t)
         \/ GatesFail(t) \/ FormatFix(t) \/ Commit(t) \/ CommitFails(t)
         \/ Push(t) \/ CreatePr(t) \/ PublishFails(t) \/ SetPrUrl(t) \/ SetPrUrlFails(t)
  PROVE  Inside(t) /\ TypeOK'
<1>s. stream[t] \in Streams
  BY DEF TypeOK
<1>r. {"feedback", "silent", "continue", "self_review", "committed", "complete"} \subseteq Results
      /\ Verdict(stream[t]) \in Results
  BY DEF Results, Verdict
<1>t. content \in [Streams -> Nat] /\ head \in [Streams -> Nat]
      /\ trees \subseteq Streams /\ prs \subseteq Streams /\ result \in [Turns -> Results]
  BY DEF TypeOK
<1>1. CASE ApplyFails(t)
  <2>1. PICK res \in {"feedback", "silent"} : EndTurn(t, "turn", res)
    BY <1>1 DEF ApplyFails
  <2>2. pc[t] \in InTurn /\ pc[t] = "turn" /\ Moves(t, "release") /\ Quiet
        /\ result' \in [Turns -> Results]
    BY <2>1, <1>r, EndTurnFacts DEF InTurn
  <2>3. content' \in [Streams -> Nat]
        /\ \A s \in Streams \ {stream[t]} : content'[s] = content[s]
    BY <1>1, <1>s, <1>t, EditFacts DEF ApplyFails, MayEdit
  <2>4. UNCHANGED <<trees, head, prs>>
    BY <1>1 DEF ApplyFails
  <2> QED
    BY <2>2, <2>3, <2>4, <1>t, InsideFrame DEF InTurn
<1>2. CASE Apply(t)
  <2>1. PICK next \in {"push", "review", "continue", "gate", "record_turn"} :
          Goto(t, "turn", next)
    BY <1>2 DEF Apply
  <2>2. pc[t] \in InTurn /\ Moves(t, next) /\ next \in InTurn /\ next # "commit"
    BY <2>1 DEF InTurn, Goto, Moves
  <2>3. content' \in [Streams -> Nat]
        /\ \A s \in Streams \ {stream[t]} : content'[s] = content[s]
    BY <1>2, <1>s, <1>t, EditFacts DEF Apply, MayEdit
  <2>4. Quiet /\ UNCHANGED <<result, trees, head, prs>>
    BY <1>2 DEF Apply
  <2> QED
    BY <2>2, <2>3, <2>4, <1>t, InsideFrame
<1>3. CASE Continue(t)
  <2>1. EndTurn(t, "continue", "continue") /\ UNCHANGED gvars
    BY <1>3 DEF Continue
  <2>2. pc[t] \in InTurn /\ Moves(t, "release") /\ Quiet /\ result' \in [Turns -> Results]
    BY <2>1, <1>r, EndTurnFacts DEF InTurn
  <2> QED
    BY <2>1, <2>2, <1>t, InsideFrame DEF InTurn
<1>4. CASE Review(t)
  <2>1. PICK res \in {"self_review", "feedback", "silent"} : EndTurn(t, "review", res)
    BY <1>4 DEF Review
  <2>2. pc[t] \in InTurn /\ Moves(t, "release") /\ Quiet /\ result' \in [Turns -> Results]
    BY <2>1, <1>r, EndTurnFacts DEF InTurn
  <2>3. UNCHANGED gvars
    BY <1>4 DEF Review
  <2> QED
    BY <2>2, <2>3, <1>t, InsideFrame DEF InTurn
<1>5. CASE RecordTurn(t)
  <2>1. EndTurn(t, "record_turn", "silent") /\ UNCHANGED gvars
    BY <1>5 DEF RecordTurn
  <2>2. pc[t] \in InTurn /\ Moves(t, "release") /\ Quiet /\ result' \in [Turns -> Results]
    BY <2>1, <1>r, EndTurnFacts DEF InTurn
  <2> QED
    BY <2>1, <2>2, <1>t, InsideFrame DEF InTurn
<1>6. CASE GatesFail(t)
  <2>1. PICK from \in {"gate", "regate"}, res \in {"feedback", Verdict(stream[t])} :
          EndTurn(t, from, res)
    BY <1>6 DEF GatesFail
  <2>2. pc[t] \in InTurn /\ Moves(t, "release") /\ Quiet /\ result' \in [Turns -> Results]
    BY <2>1, <1>r, EndTurnFacts DEF InTurn
  <2>3. content' \in [Streams -> Nat]
        /\ \A s \in Streams \ {stream[t]} : content'[s] = content[s]
    BY <1>6, <1>s, <1>t, EditFacts DEF GatesFail
  <2>4. UNCHANGED <<trees, head, prs>>
    BY <1>6 DEF GatesFail
  <2> QED
    BY <2>2, <2>3, <2>4, <1>t, InsideFrame DEF InTurn
<1>7. CASE FormatFix(t)
  <2>1. pc[t] \in InTurn /\ Moves(t, "regate") /\ Quiet /\ UNCHANGED <<result, trees, head, prs>>
    BY <1>7 DEF FormatFix, Goto, Moves, InTurn
  <2>2. content' \in [Streams -> Nat]
        /\ \A s \in Streams \ {stream[t]} : content'[s] = content[s]
    BY <1>7, <1>s, EditFacts DEF FormatFix
  <2> QED
    BY <2>1, <2>2, <1>t, InsideFrame DEF InTurn
<1>8. CASE Commit(t)
  <2>1. EndTurn(t, "commit", "committed") /\ UNCHANGED <<trees, content, prs>>
    BY <1>8 DEF Commit
  <2>2. pc[t] \in InTurn /\ pc[t] = "commit" /\ Moves(t, "release") /\ Quiet
        /\ result' \in [Turns -> Results]
    BY <2>1, <1>r, EndTurnFacts DEF InTurn
  <2>3. head' \in [Streams -> Nat]
        /\ \A s \in Streams : head'[s] # head[s] => s = stream[t] /\ head'[s] = content[s]
    BY <1>8, <1>s, CommitFacts DEF Commit
  <2> QED
    BY <2>1, <2>2, <2>3, <1>t, InsideFrame DEF InTurn
<1>9. CASE CommitFails(t)
  <2>1. EndTurn(t, "commit", "silent") /\ UNCHANGED <<trees, content, prs>>
    BY <1>9 DEF CommitFails
  <2>2. pc[t] \in InTurn /\ pc[t] = "commit" /\ Moves(t, "release") /\ Quiet
        /\ result' \in [Turns -> Results]
    BY <2>1, <1>r, EndTurnFacts DEF InTurn
  <2>3. head' \in [Streams -> Nat]
        /\ \A s \in Streams : head'[s] # head[s] => s = stream[t] /\ head'[s] = content[s]
    BY <1>9, <1>s, <1>t, CommitFacts DEF CommitFails
  <2> QED
    BY <2>1, <2>2, <2>3, <1>t, InsideFrame DEF InTurn
<1>10. CASE Push(t)
  <2>1. pc[t] \in InTurn /\ Moves(t, "create_pr") /\ Quiet /\ UNCHANGED <<result, gvars>>
    BY <1>10 DEF Push, Goto, Moves, InTurn
  <2> QED
    BY <2>1, <1>t, InsideFrame DEF InTurn
<1>11. CASE CreatePr(t)
  <2>1. pc[t] \in InTurn /\ Moves(t, "set_pr_url") /\ Quiet
        /\ UNCHANGED <<result, trees, content, head>>
    BY <1>11 DEF CreatePr, Goto, Moves, InTurn
  <2>2. prs' \subseteq Streams
    BY <1>11, <1>s, <1>t DEF CreatePr, OpenPr
  <2> QED
    BY <2>1, <2>2, <1>t, InsideFrame DEF InTurn
<1>12. CASE PublishFails(t)
  <2>1. PICK from \in {"push", "create_pr"} : EndTurn(t, from, "silent")
    BY <1>12 DEF PublishFails
  <2>2. pc[t] \in InTurn /\ Moves(t, "release") /\ Quiet /\ result' \in [Turns -> Results]
    BY <2>1, <1>r, EndTurnFacts DEF InTurn
  <2>3. prs' \subseteq Streams /\ UNCHANGED <<trees, content, head>>
    BY <1>12, <1>s, <1>t DEF PublishFails, OpenPr
  <2> QED
    BY <2>2, <2>3, <1>t, InsideFrame DEF InTurn
<1>13. CASE SetPrUrl(t)
  <2>1. EndTurn(t, "set_pr_url", "complete") /\ UNCHANGED gvars
    BY <1>13 DEF SetPrUrl
  <2>2. pc[t] \in InTurn /\ Moves(t, "release") /\ Quiet /\ result' \in [Turns -> Results]
    BY <2>1, <1>r, EndTurnFacts DEF InTurn
  <2> QED
    BY <2>1, <2>2, <1>t, InsideFrame DEF InTurn
<1>14. CASE SetPrUrlFails(t)
  <2>1. EndTurn(t, "set_pr_url", "silent") /\ UNCHANGED gvars
    BY <1>14 DEF SetPrUrlFails
  <2>2. pc[t] \in InTurn /\ Moves(t, "release") /\ Quiet /\ result' \in [Turns -> Results]
    BY <2>1, <1>r, EndTurnFacts DEF InTurn
  <2> QED
    BY <2>1, <2>2, <1>t, InsideFrame DEF InTurn
<1> QED
  BY <1>1, <1>2, <1>3, <1>4, <1>5, <1>6, <1>7, <1>8, <1>9, <1>10, <1>11,
     <1>12, <1>13, <1>14

(* Passing the gates records the version they passed. *)
LEMMA GateSteps ==
  ASSUME TypeOK, NEW t \in Turns, GatesPass(t)
  PROVE  Inside(t) /\ TypeOK'
<1>1. pc[t] \in InTurn /\ Moves(t, "commit") /\ "commit" \in InTurn
  BY DEF GatesPass, Goto, Moves, InTurn
<1>2. gated' = [gated EXCEPT ![t] = content[stream[t]]]
  BY DEF GatesPass, Pass
<1>3. UNCHANGED <<stream, result, answer, processing, leaked, gvars, crashes>>
  BY DEF GatesPass
<1>4. TypeOK'
  BY <1>1, <1>2, <1>3 DEF TypeOK, Moves, Pcs
<1>5. gated'[t] = content'[stream[t]] /\ \A u \in Turns \ {t} : gated'[u] = gated[u]
  BY <1>2, <1>3 DEF TypeOK
<1> QED
  BY <1>1, <1>3, <1>4, <1>5 DEF Inside, SameMarks
-----------------------------------------------------------------------------
LEMMA OutsideKeeps ==
  ASSUME IInv, NEW t \in Turns, Outside(t), TypeOK'
  PROVE  IInv'
<1>1. \A u \in Turns : (pc'[u] \in InTurn <=> pc[u] \in InTurn)
                        /\ (pc'[u] \in InTurn => pc'[u] = pc[u])
  BY DEF IInv, TypeOK, Outside, Moves
<1>2. UNCHANGED <<stream, processing, leaked, content, gated>>
  BY DEF Outside, SameMarks
<1>3. {u \in Turns : pc'[u] \in InTurn} = {u \in Turns : pc[u] \in InTurn}
  BY <1>1
<1>4. "commit" \in InTurn
  BY DEF InTurn
<1> QED
  BY <1>1, <1>2, <1>3, <1>4 DEF IInv, OneTurn, Marked, NoTurnLeaked, StillGated

LEMMA InsideKeeps ==
  ASSUME IInv, NEW t \in Turns, Inside(t), TypeOK'
  PROVE  IInv'
<1>1. PICK to \in InTurn : Moves(t, to) /\ (to = "commit" => gated'[t] = content'[stream[t]])
  BY DEF Inside
<1>2. pc[t] \in InTurn /\ pc'[t] = to /\ \A u \in Turns \ {t} : pc'[u] = pc[u]
  BY <1>1 DEF Inside, Moves, IInv, TypeOK
<1>3. UNCHANGED <<stream, processing, leaked>>
  BY DEF Inside, SameMarks
<1>4. {u \in Turns : pc'[u] \in InTurn} = {u \in Turns : pc[u] \in InTurn}
  BY <1>1, <1>2
<1>5. OneTurn' /\ Marked' /\ NoTurnLeaked'
  BY <1>2, <1>3, <1>4 DEF IInv, OneTurn, Marked, NoTurnLeaked
<1>6. ASSUME NEW u \in Turns, pc'[u] = "commit"
      PROVE  gated'[u] = content'[stream[u]]
  <2>1. CASE u = t
    BY <1>1, <1>2, <1>6, <2>1
  <2>2. CASE u # t
    <3>1. pc[u] = "commit" /\ pc[u] \in InTurn
      BY <1>2, <1>6, <2>2 DEF InTurn
    <3>2. stream[u] # stream[t] /\ stream[u] \in Streams
      BY <1>2, <2>2, <3>1 DEF IInv, OneTurn, TypeOK
    <3>3. gated[u] = content[stream[u]]
      BY <3>1 DEF IInv, StillGated
    <3> QED
      BY <2>2, <3>2, <3>3 DEF Inside
  <2> QED
    BY <2>1, <2>2
<1> QED
  BY <1>3, <1>5, <1>6 DEF IInv, StillGated

LEMMA DispatchKeeps ==
  ASSUME IInv, NEW t \in Turns, Dispatch(t)
  PROVE  IInv'
<1>1. pc[t] = "dispatch" /\ pc'[t] = "turn" /\ \A u \in Turns \ {t} : pc'[u] = pc[u]
  BY DEF Dispatch, Goto, IInv, TypeOK
<1>2. stream[t] \notin processing /\ processing' = processing \cup {stream[t]}
      /\ UNCHANGED <<stream, gated, leaked, gvars>>
  BY DEF Dispatch, TakeMark
<1>3. TypeOK'
  BY <1>2 DEF Dispatch, Goto, IInv, TypeOK, Pcs, InTurn
<1>4. \A u \in Turns : pc[u] \in InTurn => stream[u] # stream[t]
  BY <1>2 DEF IInv, Marked
<1>5. "turn" \in InTurn /\ "turn" # "commit"
  BY DEF InTurn
<1>6. {u \in Turns : pc'[u] \in InTurn} = {u \in Turns : pc[u] \in InTurn} \cup {t}
  BY <1>1, <1>5
<1>7. OneTurn'
  BY <1>1, <1>2, <1>4 DEF IInv, OneTurn
<1>8. Marked'
  BY <1>2, <1>6 DEF IInv, Marked
<1>9. NoTurnLeaked'
  BY <1>1, <1>2 DEF IInv, NoTurnLeaked, Marked
<1>10. StillGated'
  BY <1>1, <1>2, <1>5 DEF IInv, StillGated
<1> QED
  BY <1>3, <1>7, <1>8, <1>9, <1>10 DEF IInv

LEMMA ReleaseKeeps ==
  ASSUME IInv, NEW t \in Turns, Release(t) \/ ReleaseTimesOut(t)
  PROVE  IInv'
<1>1. pc[t] = "release" /\ pc'[t] = "reply" /\ \A u \in Turns \ {t} : pc'[u] = pc[u]
  BY DEF Release, ReleaseTimesOut, Goto, IInv, TypeOK
<1>2. "release" \in InTurn /\ "reply" \notin InTurn /\ "commit" \in InTurn
  BY DEF InTurn
<1>3. UNCHANGED <<stream, gated, gvars>>
  BY DEF Release, ReleaseTimesOut
<1>4. TypeOK'
  BY <1>3 DEF Release, ReleaseTimesOut, Goto, IInv, TypeOK, Pcs, InTurn
<1>5. {u \in Turns : pc'[u] \in InTurn} = {u \in Turns : pc[u] \in InTurn} \ {t}
  BY <1>1, <1>2
<1>6. \A u \in Turns \ {t} : pc[u] \in InTurn => stream[u] # stream[t]
  BY <1>1, <1>2 DEF IInv, OneTurn
<1>7. stream[t] \notin leaked /\ stream[t] \in Streams
  BY <1>1, <1>2 DEF IInv, NoTurnLeaked, TypeOK
<1>8. OneTurn' /\ StillGated'
  BY <1>1, <1>2, <1>3 DEF IInv, OneTurn, StillGated
<1>9. CASE Release(t)
  <2>1. processing' = processing \ {stream[t]} /\ leaked' = leaked
    BY <1>9 DEF Release
  <2>2. {stream[u] : u \in {v \in Turns : pc'[v] \in InTurn}}
          = {stream[u] : u \in {v \in Turns : pc[v] \in InTurn}} \ {stream[t]}
    BY <1>5, <1>6
  <2>3. Marked'
    BY <1>3, <1>7, <2>1, <2>2 DEF IInv, Marked
  <2>4. NoTurnLeaked'
    BY <1>1, <1>2, <1>3, <2>1 DEF IInv, NoTurnLeaked
  <2> QED
    BY <1>4, <1>8, <2>3, <2>4 DEF IInv
<1>10. CASE ReleaseTimesOut(t)
  <2>1. processing' = processing /\ leaked' = leaked \cup {stream[t]}
    BY <1>10 DEF ReleaseTimesOut
  <2>2. {stream[u] : u \in {v \in Turns : pc[v] \in InTurn}}
          = {stream[u] : u \in {v \in Turns : pc'[v] \in InTurn}} \cup {stream[t]}
    BY <1>1, <1>2, <1>5
  <2>3. Marked'
    BY <1>3, <2>1, <2>2 DEF IInv, Marked
  <2>4. NoTurnLeaked'
    BY <1>1, <1>2, <1>3, <1>6, <2>1 DEF IInv, NoTurnLeaked
  <2> QED
    BY <1>4, <1>8, <2>3, <2>4 DEF IInv
<1> QED
  BY <1>9, <1>10

LEMMA RestartKeeps ==
  ASSUME IInv, Restart
  PROVE  IInv'
<1>1. pc' = [t \in Turns |-> IF pc[t] \in {"unsent", "done"} THEN pc[t] ELSE "lost"]
      /\ processing' = {} /\ leaked' = {} /\ crashes' = crashes + 1
      /\ UNCHANGED <<stream, gated, result, answer, gvars>>
  BY DEF Restart
<1>2. \A t \in Turns : pc'[t] \notin InTurn
  BY <1>1 DEF InTurn
<1>3. TypeOK'
  BY <1>1 DEF IInv, TypeOK, Pcs
<1>4. "commit" \in InTurn
  BY DEF InTurn
<1> QED
  BY <1>1, <1>2, <1>3, <1>4 DEF IInv, OneTurn, Marked, NoTurnLeaked, StillGated

LEMMA MarkMergedKeeps ==
  ASSUME IInv, NEW s \in Streams, MarkMerged(s)
  PROVE  IInv'
<1>1. UNCHANGED <<mvars, pc, result, answer, processing, leaked, gvars, crashes>>
  BY DEF MarkMerged, Quiet
<1> QED
  BY <1>1 DEF IInv, TypeOK, OneTurn, Marked, NoTurnLeaked, StillGated
-----------------------------------------------------------------------------
LEMMA InitIInv == Init => IInv
<1> SUFFICES ASSUME Init PROVE IInv
  OBVIOUS
<1>1. TypeOK
  BY PilotAssumption DEF Init, TypeOK, Pcs, Results
<1>2. \A t \in Turns : pc[t] \notin InTurn
  BY DEF Init, InTurn
<1>3. "commit" \in InTurn
  BY DEF InTurn
<1> QED
  BY <1>1, <1>2, <1>3 DEF Init, IInv, OneTurn, Marked, NoTurnLeaked, StillGated

LEMMA NextIInv == IInv /\ [Next]_vars => IInv'
<1> SUFFICES ASSUME IInv, [Next]_vars PROVE IInv'
  OBVIOUS
<1>t. TypeOK
  BY DEF IInv
<1>1. ASSUME NEW t \in Turns, Arrive(t) \/ Task(t)
      PROVE  IInv'
  <2>1. CASE \/ Arrive(t) \/ Lookup(t) \/ CreateFails(t) \/ AddTree(t)
             \/ CheckoutBranch(t) \/ Register(t) \/ Skip(t) \/ Reply(t)
    BY <1>t, <2>1, OutsideSteps, OutsideKeeps
  <2>2. CASE \/ ApplyFails(t) \/ Apply(t) \/ Continue(t) \/ Review(t) \/ RecordTurn(t)
             \/ GatesFail(t) \/ FormatFix(t) \/ Commit(t) \/ CommitFails(t)
             \/ Push(t) \/ CreatePr(t) \/ PublishFails(t) \/ SetPrUrl(t) \/ SetPrUrlFails(t)
    BY <1>t, <2>2, TurnSteps, InsideKeeps
  <2>3. CASE GatesPass(t)
    BY <1>t, <2>3, GateSteps, InsideKeeps
  <2>4. CASE Dispatch(t)
    BY <2>4, DispatchKeeps
  <2>5. CASE Release(t) \/ ReleaseTimesOut(t)
    BY <2>5, ReleaseKeeps
  <2> QED
    BY <1>1, <2>1, <2>2, <2>3, <2>4, <2>5 DEF Task
<1>2. ASSUME NEW s \in Streams, MarkMerged(s)
      PROVE  IInv'
  BY <1>2, MarkMergedKeeps
<1>3. CASE Restart
  BY <1>3, RestartKeeps
<1>4. CASE UNCHANGED vars
  BY <1>4 DEF vars, IInv, TypeOK, OneTurn, Marked, NoTurnLeaked, StillGated
<1> QED
  BY <1>1, <1>2, <1>3, <1>4 DEF Next

LEMMA Invariance == Spec => []IInv
BY InitIInv, NextIInv, PTL DEF Spec

(* Every step leads from a state of the program to a state of the program. *)
THEOREM PilotTypeOK == Spec => []TypeOK
<1>1. IInv => TypeOK
  BY DEF IInv
<1> QED
  BY Invariance, <1>1, PTL

(* At most one turn of a stream runs, and the stream is marked exactly     *)
(* while it does or when its mark has leaked, across errors and restarts.  *)
THEOREM PilotGuardExact == Spec => []GuardExact
<1>1. IInv => GuardExact
  BY DEF IInv, OneTurn, Marked, GuardExact
<1> QED
  BY Invariance, <1>1, PTL

(* A step that moves the head of a branch commits the version the turn's   *)
(* gates have passed.                                                      *)
LEMMA HeadMoves ==
  ASSUME IInv, [Next]_vars
  PROVE  \A s \in Streams : head'[s] # head[s] =>
           \E t \in Turns : stream[t] = s /\ pc[t] = "commit" /\ head'[s] = gated[t]
<1> SUFFICES ASSUME NEW s \in Streams, head'[s] # head[s]
             PROVE  \E t \in Turns : stream[t] = s /\ pc[t] = "commit" /\ head'[s] = gated[t]
  OBVIOUS
<1>t. TypeOK
  BY DEF IInv
<1>1. PICK t \in Turns : Inside(t)
  <2>1. CASE UNCHANGED vars
    BY <2>1 DEF vars
  <2>2. CASE Restart \/ \E r \in Streams : MarkMerged(r)
    BY <2>2 DEF Restart, MarkMerged
  <2>3. ASSUME NEW t \in Turns, Arrive(t) \/ Task(t)
        PROVE  Inside(t)
    <3>1. CASE \/ Arrive(t) \/ Lookup(t) \/ CreateFails(t) \/ AddTree(t)
               \/ CheckoutBranch(t) \/ Register(t) \/ Skip(t) \/ Reply(t)
      BY <1>t, <3>1, OutsideSteps DEF Outside
    <3>2. CASE Dispatch(t) \/ Release(t) \/ ReleaseTimesOut(t)
      BY <3>2 DEF Dispatch, Release, ReleaseTimesOut
    <3>3. CASE \/ ApplyFails(t) \/ Apply(t) \/ Continue(t) \/ Review(t) \/ RecordTurn(t)
               \/ GatesFail(t) \/ FormatFix(t) \/ Commit(t) \/ CommitFails(t)
               \/ Push(t) \/ CreatePr(t) \/ PublishFails(t) \/ SetPrUrl(t) \/ SetPrUrlFails(t)
      BY <1>t, <3>3, TurnSteps
    <3>4. CASE GatesPass(t)
      BY <1>t, <3>4, GateSteps
    <3> QED
      BY <2>3, <3>1, <3>2, <3>3, <3>4 DEF Task
  <2> QED
    BY <2>1, <2>2, <2>3 DEF Next
<1>2. s = stream[t] /\ pc[t] = "commit" /\ head'[s] = content[s]
  BY <1>1 DEF Inside
<1>3. gated[t] = content[stream[t]]
  BY <1>2 DEF IInv, StillGated
<1> QED
  BY <1>2, <1>3

(* Whatever is committed passed the gates of the turn that commits it, and *)
(* nobody has touched it since.                                            *)
THEOREM PilotOnlyGatedCommits == Spec => OnlyGatedCommits
<1>1. IInv /\ [Next]_vars =>
        [\A s \in Streams : head'[s] # head[s] =>
           \E t \in Turns : /\ stream[t] = s
                            /\ pc[t] = "commit"
                            /\ head'[s] = gated[t]]_vars
  BY HeadMoves
<1> QED
  BY Invariance, <1>1, PTL DEF Spec, OnlyGatedCommits
-----------------------------------------------------------------------------
(* The record of a completed stream.                                       *)
(* Lemmas about the session map: a sequence without repetitions loses one  *)
(* element, an insertion adds one session and evicts at most one.          *)
OnceEach(q) == \A i, j \in DOMAIN q : q[i] = q[j] => i = j
Listed(q) == {q[i] : i \in DOMAIN q}

SessionMaps == [order : Seq(Streams), pr : SUBSET Streams, merged : SUBSET Streams]
Sessions(r) == r \in SessionMaps /\ OnceEach(r.order)

LEMMA JoinFacts ==
  ASSUME NEW a \in Seq(Streams), NEW b \in Seq(Streams)
  PROVE  a \o b \in Seq(Streams) /\ Len(a \o b) = Len(a) + Len(b)
OBVIOUS

LEMMA DropAtFacts ==
  ASSUME NEW q \in Seq(Streams), OnceEach(q), NEW i \in DOMAIN q
  PROVE  /\ DropAt(q, i) \in Seq(Streams)
         /\ OnceEach(DropAt(q, i))
         /\ Listed(DropAt(q, i)) = Listed(q) \ {q[i]}
<1> DEFINE n == Len(q)
           a == SubSeq(q, 1, i - 1)
           b == SubSeq(q, i + 1, n)
           d == DropAt(q, i)
<1>1. n \in Nat /\ DOMAIN q = 1 .. n /\ i \in 1 .. n
  OBVIOUS
<1>2. a \in Seq(Streams) /\ Len(a) = i - 1 /\ \A j \in 1 .. i - 1 : a[j] = q[j]
  BY <1>1
<1>3. b \in Seq(Streams) /\ Len(b) = n - i /\ \A j \in 1 .. n - i : b[j] = q[i + j]
  BY <1>1
<1>4. d = a \o b
  BY DEF DropAt
<1> HIDE DEF a, b, d
<1>5. d \in Seq(Streams) /\ Len(d) = n - 1 /\ DOMAIN d = 1 .. n - 1
  <2>1. d \in Seq(Streams) /\ Len(d) = Len(a) + Len(b)
    BY <1>2, <1>3, <1>4, JoinFacts
  <2>2. (i - 1) + (n - i) = n - 1
    BY <1>1
  <2> QED
    BY <1>1, <1>2, <1>3, <2>1, <2>2
<1>6. \A j \in 1 .. n - 1 : d[j] = IF j < i THEN q[j] ELSE q[j + 1]
  <2> SUFFICES ASSUME NEW j \in 1 .. n - 1
               PROVE  d[j] = IF j < i THEN q[j] ELSE q[j + 1]
    OBVIOUS
  <2>1. CASE j < i
    BY <1>1, <1>2, <1>3, <1>4, <2>1
  <2>2. CASE ~(j < i)
    <3>1. j - (i - 1) \in 1 .. n - i /\ i + (j - (i - 1)) = j + 1
      BY <1>1, <2>2
    <3>2. d[j] = b[j - (i - 1)]
      BY <1>1, <1>2, <1>3, <1>4, <2>2
    <3> QED
      BY <1>3, <2>2, <3>1, <3>2
  <2> QED
    BY <2>1, <2>2
<1>7. OnceEach(d)
  <2> SUFFICES ASSUME NEW j \in 1 .. n - 1, NEW k \in 1 .. n - 1, d[j] = d[k]
               PROVE  j = k
    BY <1>5 DEF OnceEach
  <2>1. \A x, y \in 1 .. n : q[x] = q[y] => x = y
    BY <1>1 DEF OnceEach
  <2> QED
    BY <1>1, <1>6, <2>1
<1>8. Listed(d) \subseteq Listed(q) \ {q[i]}
  <2> SUFFICES ASSUME NEW j \in 1 .. n - 1 PROVE d[j] \in Listed(q) \ {q[i]}
    BY <1>5 DEF Listed
  <2>1. PICK k \in 1 .. n : k # i /\ d[j] = q[k]
    BY <1>1, <1>6
  <2> QED
    BY <1>1, <2>1 DEF Listed, OnceEach
<1>9. Listed(q) \ {q[i]} \subseteq Listed(d)
  <2> SUFFICES ASSUME NEW k \in 1 .. n, k # i PROVE q[k] \in Listed(d)
    BY <1>1 DEF Listed
  <2>1. CASE k < i
    BY <1>1, <1>5, <1>6, <2>1 DEF Listed
  <2>2. CASE k > i
    <3>1. k - 1 \in 1 .. n - 1 /\ ~(k - 1 < i) /\ (k - 1) + 1 = k
      BY <1>1, <2>2
    <3> QED
      BY <1>5, <1>6, <3>1 DEF Listed
  <2> QED
    BY <1>1, <2>1, <2>2
<1> QED
  BY <1>5, <1>7, <1>8, <1>9 DEF d

LEMMA DropFacts ==
  ASSUME NEW q \in Seq(Streams), OnceEach(q), NEW s
  PROVE  /\ Drop(q, s) \in Seq(Streams)
         /\ OnceEach(Drop(q, s))
         /\ Listed(Drop(q, s)) = Listed(q) \ {s}
<1>1. CASE \E i \in DOMAIN q : q[i] = s
  <2>1. PICK i \in DOMAIN q : q[i] = s /\ Drop(q, s) = DropAt(q, i)
    BY <1>1 DEF Drop
  <2> QED
    BY <2>1, DropAtFacts
<1>2. CASE ~\E i \in DOMAIN q : q[i] = s
  BY <1>2 DEF Drop, Listed
<1> QED
  BY <1>1, <1>2

LEMMA AppendFacts ==
  ASSUME NEW q \in Seq(Streams), OnceEach(q), NEW s \in Streams, s \notin Listed(q)
  PROVE  /\ Append(q, s) \in Seq(Streams)
         /\ OnceEach(Append(q, s))
         /\ Listed(Append(q, s)) = Listed(q) \cup {s}
<1> DEFINE n == Len(q)
           a == Append(q, s)
<1>1. /\ n \in Nat /\ DOMAIN q = 1 .. n
      /\ a \in Seq(Streams) /\ DOMAIN a = 1 .. n + 1
      /\ a[n + 1] = s /\ \A i \in 1 .. n : a[i] = q[i]
  OBVIOUS
<1>2. \A i \in 1 .. n : q[i] # s
  BY <1>1 DEF Listed
<1> HIDE DEF a
<1>3. OnceEach(a)
  BY <1>1, <1>2 DEF OnceEach
<1>4. Listed(a) = Listed(q) \cup {s}
  <2>1. \A i \in 1 .. n + 1 : i \in 1 .. n \/ i = n + 1
    BY <1>1
  <2>2. n + 1 \in 1 .. n + 1 /\ 1 .. n \subseteq 1 .. n + 1
    BY <1>1
  <2> QED
    BY <1>1, <2>1, <2>2 DEF Listed
<1> QED
  BY <1>1, <1>3, <1>4 DEF a

LEMMA WithoutFacts ==
  ASSUME NEW r, Sessions(r), NEW s
  PROVE  /\ Sessions(Without(r, s))
         /\ Known(Without(r, s)) = Known(r) \ {s}
         /\ Without(r, s).pr = r.pr \ {s}
<1>1. r.order \in Seq(Streams) /\ OnceEach(r.order) /\ r.pr \subseteq Streams
      /\ r.merged \subseteq Streams
  BY DEF Sessions, SessionMaps
<1>2. Drop(r.order, s) \in Seq(Streams) /\ OnceEach(Drop(r.order, s))
      /\ Listed(Drop(r.order, s)) = Listed(r.order) \ {s}
  BY <1>1, DropFacts
<1> QED
  BY <1>1, <1>2 DEF Sessions, SessionMaps, Without, Known, Listed

(* A recorded pull request stays recorded. *)
Recorded(r, s) == s \in Known(r) => s \in r.pr

(* r2 is r, with session s set to something new, and perhaps one evicted.  *)
Updates(r, s, r2) ==
  /\ Sessions(r2)
  /\ Known(r2) \subseteq Known(r) \cup {s}
  /\ \A x \in Streams \ {s} : Recorded(r, x) => Recorded(r2, x)

LEMMA InsertFacts ==
  ASSUME NEW r, Sessions(r), NEW s \in Streams
  PROVE  Updates(r, s, Insert(r, s))
<1> DEFINE w == Without(r, s)
           e == [w EXCEPT !.order = Append(w.order, s)]
<1>1. Sessions(w) /\ Known(w) = Known(r) \ {s} /\ w.pr = r.pr \ {s}
  BY WithoutFacts
<1> HIDE DEF w
<1>2. w \in SessionMaps /\ w.order \in Seq(Streams) /\ OnceEach(w.order)
      /\ s \notin Listed(w.order)
  BY <1>1 DEF Sessions, SessionMaps, Known, Listed
<1>3. e.order = Append(w.order, s) /\ e.pr = w.pr /\ e.merged = w.merged
  BY <1>2 DEF SessionMaps
<1>4. Sessions(e) /\ Known(e) = Known(w) \cup {s}
  <2>1. e \in SessionMaps
    BY <1>2, AppendFacts DEF SessionMaps
  <2> QED
    BY <1>2, <1>3, <2>1, AppendFacts DEF Sessions, Known, Listed
<1>5. Insert(r, s) = Evict(e)
  BY DEF Insert, w
<1> HIDE DEF e
<1>6. CASE Evict(e) = e
  BY <1>1, <1>3, <1>4, <1>5, <1>6 DEF Updates, Recorded
<1>7. CASE Evict(e) = Without(e, Head(e.order))
  <2>1. Sessions(Evict(e)) /\ Known(Evict(e)) = Known(e) \ {Head(e.order)}
        /\ Evict(e).pr = e.pr \ {Head(e.order)}
    BY <1>4, <1>7, WithoutFacts
  <2> QED
    BY <1>1, <1>3, <1>4, <1>5, <2>1 DEF Updates, Recorded
<1> QED
  BY <1>6, <1>7 DEF Evict

LEMMA TouchFacts ==
  ASSUME NEW r, Sessions(r), NEW s \in Known(r), s \in Streams
  PROVE  /\ Sessions(Touch(r, s))
         /\ Known(Touch(r, s)) = Known(r)
         /\ Touch(r, s).pr = r.pr
<1> DEFINE q == Drop(r.order, s)
<1>1. r \in SessionMaps /\ r.order \in Seq(Streams) /\ OnceEach(r.order)
  BY DEF Sessions, SessionMaps
<1>2. q \in Seq(Streams) /\ OnceEach(q) /\ Listed(q) = Listed(r.order) \ {s}
  BY <1>1, DropFacts
<1>3. Touch(r, s) = [r EXCEPT !.order = Append(q, s)]
  BY DEF Touch, Without
<1> HIDE DEF q
<1>4. Append(q, s) \in Seq(Streams) /\ OnceEach(Append(q, s))
      /\ Listed(Append(q, s)) = Listed(r.order)
  <2>1. s \in Listed(r.order)
    BY DEF Known, Listed
  <2>2. s \notin Listed(q) /\ Listed(q) \cup {s} = Listed(r.order)
    BY <1>2, <2>1
  <2> QED
    BY <1>2, <2>2, AppendFacts
<1>5. /\ Touch(r, s) \in SessionMaps
      /\ Touch(r, s).order = Append(q, s)
      /\ Touch(r, s).pr = r.pr
  BY <1>1, <1>3, <1>4 DEF SessionMaps
<1> QED
  BY <1>4, <1>5 DEF Sessions, Known, Listed

(* Sessions that exist, turns that have found theirs, streams a turn has   *)
(* reported (or is about to report) as complete.                           *)
Stored == Known(mem) \cup Known(disk)
Past == {stream[t] : t \in {u \in Turns : pc[u] \in InTurn \cup {"dispatch"}}}
Complete == {stream[t] : t \in {u \in Turns : "complete" \in {result[u], answer[u]}}}
Begun == Stored \cup Past \cup Complete

(* Between the worktree and the session of a stream. *)
Creating == {t \in Turns : pc[t] \in {"branch", "register"}}

(* A worktree is added once for a stream, and a session only by the turn   *)
(* that added it: a stream that has begun has its worktree, so none of its *)
(* turns can register it anew and so forget its pull request.              *)
TreeFirst ==
  /\ Begun \subseteq trees
  /\ \A t \in Creating : stream[t] \in trees /\ stream[t] \notin Begun
  /\ \A t, u \in Creating : stream[t] = stream[u] => t = u

PrOpen == \A t \in Turns : pc[t] = "set_pr_url" => stream[t] \in prs

PrRecorded == \A s \in Complete : s \in prs /\ Recorded(mem, s) /\ Recorded(disk, s)

DInv == Sessions(mem) /\ Sessions(disk) /\ TreeFirst /\ PrOpen /\ PrRecorded

(* What one turn's step does to the set of reported streams. *)
LEMMA CompleteFacts ==
  ASSUME TypeOK, UNCHANGED stream, NEW t \in Turns, NEW res,
         \/ UNCHANGED result \/ result' = [result EXCEPT ![t] = res],
         \/ UNCHANGED answer \/ answer' = [answer EXCEPT ![t] = result[t]]
  PROVE  /\ Complete' \subseteq Complete \cup {stream[t]}
         /\ res # "complete" \/ UNCHANGED result => Complete' \subseteq Complete
<1>1. \A u \in Turns \ {t} : result'[u] = result[u] /\ answer'[u] = answer[u]
  BY DEF TypeOK
<1>2. result'[t] \in {result[t], res} /\ answer'[t] \in {result[t], answer[t]}
  BY DEF TypeOK
<1>3. UNCHANGED result => result'[t] = result[t]
  OBVIOUS
<1> QED
  BY <1>1, <1>2, <1>3 DEF Complete

(* One turn moves on: which streams have begun. *)
LEMMA TurnMoves ==
  ASSUME DInv, TypeOK, NEW t \in Turns, NEW to, Moves(t, to), UNCHANGED stream,
         trees \subseteq trees',
         Sessions(mem'), Sessions(disk'),
         Stored' \subseteq Stored \cup {stream[t]},
         Complete' \subseteq Complete \cup {stream[t]},
         to \in {"branch", "register"} => pc[t] = "branch" /\ Begun' \subseteq Begun,
         \/ Begun' \subseteq Begun
         \/ pc[t] = "register" /\ to \notin {"branch", "register"},
         to = "set_pr_url" => stream[t] \in prs', prs \subseteq prs',
         PrRecorded'
  PROVE  DInv'
<1>1. pc'[t] = to /\ \A u \in Turns \ {t} : pc'[u] = pc[u]
  BY DEF Moves, TypeOK
<1>2. Past' \subseteq Past \cup {stream[t]}
  BY <1>1 DEF Past
<1>3. Begun' \subseteq Begun \cup {stream[t]}
  BY <1>2 DEF Begun
<1>4. PrOpen'
  BY <1>1 DEF DInv, PrOpen
<1>5. Creating' \subseteq Creating
  BY <1>1 DEF Creating
<1>6. CASE Begun' \subseteq Begun
  BY <1>4, <1>5, <1>6 DEF DInv, TreeFirst
<1>7. CASE pc[t] = "register" /\ to \notin {"branch", "register"}
  <2>1. t \in Creating /\ t \notin Creating'
    BY <1>1, <1>7 DEF Creating
  <2>2. stream[t] \in trees /\ \A u \in Creating' : stream[u] # stream[t]
    BY <1>5, <2>1 DEF DInv, TreeFirst
  <2>3. TreeFirst'
    BY <1>3, <1>5, <2>2 DEF DInv, TreeFirst
  <2> QED
    BY <1>4, <2>3 DEF DInv
<1> QED
  BY <1>6, <1>7

(* A step that leaves the sessions alone and completes nothing. *)
LEMMA PlainStep ==
  ASSUME DInv, TypeOK, NEW t \in Turns, NEW to, Moves(t, to), UNCHANGED <<stream, pvars>>,
         trees \subseteq trees', prs \subseteq prs',
         Complete' \subseteq Complete,
         to = "register" => pc[t] = "branch", to # "branch",
         to \in InTurn \cup {"dispatch"} => stream[t] \in Past \cup Stored,
         to = "set_pr_url" => stream[t] \in prs'
  PROVE  DInv'
<1>1. Stored' = Stored
  BY DEF Stored, Known
<1>2. PrRecorded'
  BY DEF DInv, PrRecorded, Recorded, Known
<1>3. Begun' \subseteq Begun
  <2>1. pc'[t] = to /\ \A u \in Turns \ {t} : pc'[u] = pc[u]
    BY DEF Moves, TypeOK
  <2>2. Past' \subseteq Past \cup Stored
    BY <2>1 DEF Past
  <2> QED
    BY <1>1, <2>2 DEF Begun
<1>4. Sessions(mem') /\ Sessions(disk')
  BY DEF DInv
<1> QED
  BY <1>1, <1>2, <1>3, <1>4, TurnMoves

LEMMA InTurnPast ==
  ASSUME NEW t \in Turns, pc[t] \in InTurn \cup {"dispatch"}
  PROVE  stream[t] \in Past
BY DEF Past

LEMMA OutsideDurable ==
  ASSUME DInv, TypeOK, NEW t \in Turns,
         \/ Arrive(t) \/ Lookup(t) \/ CreateFails(t) \/ CheckoutBranch(t)
         \/ Skip(t) \/ Dispatch(t) \/ Release(t) \/ ReleaseTimesOut(t) \/ Reply(t)
  PROVE  DInv'
<1> DEFINE Names == {"lookup", "add_tree", "register", "reply", "done"}
<1>1. /\ UNCHANGED <<stream, pvars, prs>> /\ trees \subseteq trees'
      /\ result' = result \/ result' = [result EXCEPT ![t] = "worktree_failed"]
      /\ answer' = answer \/ answer' = [answer EXCEPT ![t] = result[t]]
  BY DEF Arrive, Lookup, CreateFails, Tree, CheckoutBranch, Skip, Dispatch, Release,
     ReleaseTimesOut, Reply, Quiet, Ends
<1>2. Complete' \subseteq Complete
  BY <1>1, CompleteFacts
<1>3. \E to \in Names \cup {"dispatch", "turn"} :
         /\ Moves(t, to)
         /\ to = "register" => pc[t] = "branch"
         /\ to = "dispatch" => stream[t] \in Stored
         /\ to = "turn" => pc[t] = "dispatch"
  BY DEF Arrive, Lookup, CreateFails, CheckoutBranch, Skip, Dispatch, Release,
     ReleaseTimesOut, Reply, Goto, Moves, Stored
<1>4. PICK to \in Names \cup {"dispatch", "turn"} :
         /\ Moves(t, to)
         /\ to = "register" => pc[t] = "branch"
         /\ to = "dispatch" => stream[t] \in Stored
         /\ to = "turn" => pc[t] = "dispatch"
  BY <1>3
<1>5. to \in InTurn \cup {"dispatch"} => stream[t] \in Past \cup Stored
  BY <1>4, InTurnPast DEF InTurn
<1> QED
  BY <1>1, <1>2, <1>4, <1>5, PlainStep

LEMMA AddTreeDurable ==
  ASSUME DInv, TypeOK, NEW t \in Turns, AddTree(t)
  PROVE  DInv'
<1>1. /\ pc[t] = "add_tree" /\ Moves(t, "branch") /\ stream[t] \notin trees
      /\ trees' = trees \cup {stream[t]}
      /\ UNCHANGED <<stream, result, answer, pvars, prs>>
  BY DEF AddTree, Goto, Moves, Tree, Quiet
<1>2. pc'[t] = "branch" /\ \A u \in Turns \ {t} : pc'[u] = pc[u]
  BY <1>1 DEF Moves, TypeOK
<1>3. Stored' = Stored /\ Complete' = Complete
  BY <1>1 DEF Stored, Known, Complete
<1>4. Past' \subseteq Past
  BY <1>1, <1>2 DEF Past, InTurn
<1>5. Begun' \subseteq Begun /\ stream[t] \notin Begun
  BY <1>1, <1>3, <1>4 DEF Begun, DInv, TreeFirst
<1>6. Creating' = Creating \cup {t} /\ \A u \in Creating : stream[u] # stream[t]
  BY <1>1, <1>2 DEF Creating, DInv, TreeFirst
<1>7. TreeFirst'
  BY <1>1, <1>5, <1>6 DEF DInv, TreeFirst
<1>8. PrOpen'
  BY <1>1, <1>2 DEF DInv, PrOpen
<1>9. PrRecorded'
  BY <1>1, <1>3 DEF DInv, PrRecorded, Recorded, Known
<1> QED
  BY <1>1, <1>7, <1>8, <1>9 DEF DInv

LEMMA RegisterDurable ==
  ASSUME DInv, TypeOK, NEW t \in Turns, Register(t)
  PROVE  DInv'
<1> DEFINE r == Insert(mem, stream[t])
<1>1. /\ pc[t] = "register" /\ Moves(t, "dispatch")
      /\ mem' = r /\ disk' \in {r, disk}
      /\ UNCHANGED <<stream, result, answer, trees, prs>>
  BY DEF Register, Goto, Moves, Quiet, Saved, SaveFails
<1>2. stream[t] \in Streams /\ Updates(mem, stream[t], r)
  BY InsertFacts DEF DInv, TypeOK
<1>3. Sessions(mem') /\ Sessions(disk') /\ Stored' \subseteq Stored \cup {stream[t]}
  BY <1>1, <1>2 DEF DInv, Updates, Stored
<1>4. Complete' = Complete /\ stream[t] \notin Complete
  BY <1>1 DEF Complete, DInv, TreeFirst, Creating, Begun
<1>5. Complete \subseteq Streams
  BY DEF Complete, TypeOK
<1>6. \A s \in Complete : Recorded(r, s)
  BY <1>2, <1>4, <1>5 DEF DInv, PrRecorded, Updates
<1>7. PrRecorded'
  BY <1>1, <1>4, <1>6 DEF DInv, PrRecorded, Recorded
<1> QED
  BY <1>1, <1>3, <1>4, <1>7, TurnMoves

(* The steps inside a turn that do not write the session. *)
LEMMA InsideDurable ==
  ASSUME DInv, TypeOK, NEW t \in Turns,
         \/ ApplyFails(t) \/ Apply(t) \/ Continue(t) \/ Review(t)
         \/ GatesPass(t) \/ GatesFail(t) \/ FormatFix(t) \/ Commit(t) \/ CommitFails(t)
         \/ Push(t) \/ CreatePr(t) \/ PublishFails(t)
  PROVE  DInv'
<1>1. /\ UNCHANGED <<stream, answer, pvars, trees>>
      /\ prs \subseteq prs'
      /\ CreatePr(t) => stream[t] \in prs'
  BY DEF ApplyFails, Apply, Continue, Review, GatesPass, GatesFail, FormatFix,
     Commit, CommitFails, Push, CreatePr, OpenPr, PublishFails, EndTurn, Quiet
<1>2. \E res : /\ res # "complete"
               /\ result' = result \/ result' = [result EXCEPT ![t] = res]
  <2>1. Verdict(stream[t]) # "complete"
    BY DEF Verdict
  <2>2. CASE ApplyFails(t)
    BY <2>2 DEF ApplyFails, EndTurn, Ends
  <2>3. CASE Continue(t)
    BY <2>3 DEF Continue, EndTurn, Ends
  <2>4. CASE Review(t)
    BY <2>4 DEF Review, EndTurn, Ends
  <2>5. CASE GatesFail(t)
    BY <2>1, <2>5 DEF GatesFail, EndTurn, Ends
  <2>6. CASE Commit(t) \/ CommitFails(t)
    BY <2>6 DEF Commit, CommitFails, EndTurn, Ends
  <2>7. CASE PublishFails(t)
    BY <2>7 DEF PublishFails, EndTurn, Ends
  <2>8. CASE Apply(t) \/ GatesPass(t) \/ FormatFix(t) \/ Push(t) \/ CreatePr(t)
    BY <2>8 DEF Apply, GatesPass, FormatFix, Push, CreatePr
  <2> QED
    BY <2>2, <2>3, <2>4, <2>5, <2>6, <2>7, <2>8
<1>3. Complete' \subseteq Complete
  BY <1>1, <1>2, CompleteFacts
<1>4. PICK to \in InTurn : pc[t] \in InTurn /\ Moves(t, to)
                           /\ (to = "set_pr_url" => CreatePr(t))
  <2>1. CASE ApplyFails(t) \/ Continue(t) \/ Review(t)
    BY <2>1 DEF ApplyFails, Continue, Review, EndTurn, Goto, Moves, InTurn
  <2>2. CASE GatesFail(t) \/ Commit(t) \/ CommitFails(t) \/ PublishFails(t)
    BY <2>2 DEF GatesFail, Commit, CommitFails, PublishFails, EndTurn, Goto, Moves, InTurn
  <2>3. CASE Apply(t)
    BY <2>3 DEF Apply, Goto, Moves, InTurn
  <2>4. CASE GatesPass(t) \/ FormatFix(t)
    BY <2>4 DEF GatesPass, FormatFix, Goto, Moves, InTurn
  <2>5. CASE Push(t) \/ CreatePr(t)
    BY <2>5 DEF Push, CreatePr, Goto, Moves, InTurn
  <2> QED
    BY <2>1, <2>2, <2>3, <2>4, <2>5
<1>5. to \notin {"branch", "register"} /\ stream[t] \in Past
  BY <1>4, InTurnPast DEF InTurn
<1> QED
  BY <1>1, <1>3, <1>4, <1>5, PlainStep

(* The steps of a turn that write the session. *)
LEMMA SessionDurable ==
  ASSUME DInv, TypeOK, NEW t \in Turns,
         RecordTurn(t) \/ SetPrUrl(t) \/ SetPrUrlFails(t)
  PROVE  DInv'
<1> DEFINE s == stream[t]
<1>1. /\ s \in Streams
      /\ pc[t] \in {"record_turn", "set_pr_url"} /\ Moves(t, "release")
      /\ UNCHANGED <<stream, answer, trees, prs>>
  BY DEF TypeOK, RecordTurn, SetPrUrl, SetPrUrlFails, EndTurn, Goto, Moves, Quiet
<1>2. s \in Past
  BY <1>1, InTurnPast DEF InTurn
<1>3. ASSUME NEW r, Sessions(r), Known(r) \subseteq Known(mem),
             \A x \in Streams : Recorded(mem, x) => Recorded(r, x),
             mem' = r, disk' \in {r, disk},
             \/ Complete' \subseteq Complete
             \/ /\ Complete' \subseteq Complete \cup {s}
                /\ s \in prs /\ disk' = r /\ Recorded(r, s)
      PROVE  DInv'
  <2>1. Sessions(mem') /\ Sessions(disk') /\ Stored' \subseteq Stored
    BY <1>3 DEF DInv, Stored
  <2>2. pc'[t] = "release" /\ \A u \in Turns \ {t} : pc'[u] = pc[u]
    BY <1>1 DEF Moves, TypeOK
  <2>3. Past' \subseteq Past
    BY <1>1, <1>2, <2>2 DEF Past
  <2>4. Begun' \subseteq Begun
    BY <1>2, <1>3, <2>1, <2>3 DEF Begun
  <2>5. Complete \subseteq Streams
    BY DEF Complete, TypeOK
  <2>6. \A x \in Complete : Recorded(mem', x) /\ Recorded(disk', x) /\ x \in prs'
    BY <1>1, <1>3, <2>5 DEF DInv, PrRecorded
  <2>7. PrRecorded'
    BY <1>1, <1>3, <2>6 DEF PrRecorded, Recorded
  <2> QED
    BY <1>1, <1>3, <2>1, <2>4, <2>7, TurnMoves
<1>4. CASE RecordTurn(t)
  <2>1. Complete' \subseteq Complete
    <3>1. result' = [result EXCEPT ![t] = "silent"]
      BY <1>4 DEF RecordTurn, EndTurn, Ends
    <3>2. answer' = answer /\ stream' = stream /\ "silent" # "complete"
      BY <1>1
    <3> QED
      BY <3>1, <3>2, CompleteFacts
  <2>2. CASE s \in Known(mem)
    <3>1. mem' = Touch(mem, s) /\ disk' \in {Touch(mem, s), disk}
      BY <1>4, <2>2 DEF RecordTurn, Saved, SaveFails
    <3>2. Sessions(Touch(mem, s)) /\ Known(Touch(mem, s)) = Known(mem)
          /\ Touch(mem, s).pr = mem.pr
      BY <1>1, <2>2, TouchFacts DEF DInv
    <3> QED
      BY <1>3, <2>1, <3>1, <3>2 DEF Recorded
  <2>3. CASE s \notin Known(mem)
    BY <1>3, <1>4, <2>1, <2>3 DEF RecordTurn, DInv
  <2> QED
    BY <2>2, <2>3
<1>5. /\ Sessions(mem) => /\ Sessions(WithPr(s)) /\ Known(WithPr(s)) = Known(mem)
                          /\ WithPr(s).pr = mem.pr \cup {s}
  BY <1>1 DEF Sessions, SessionMaps, WithPr, Known
<1>6. CASE SetPrUrl(t)
  <2>1. pc[t] = "set_pr_url" /\ mem' = WithPr(s) /\ disk' = WithPr(s)
    BY <1>6 DEF SetPrUrl, EndTurn, Goto, Saved
  <2>2. s \in prs
    BY <2>1 DEF DInv, PrOpen
  <2>3. Complete' \subseteq Complete \cup {s}
    BY <1>1, <1>6, CompleteFacts DEF SetPrUrl, EndTurn, Ends
  <2> QED
    BY <1>3, <1>5, <2>1, <2>2, <2>3 DEF DInv, Recorded
<1>7. CASE SetPrUrlFails(t)
  <2>1. Complete' \subseteq Complete
    <3>1. result' = [result EXCEPT ![t] = "silent"]
      BY <1>7 DEF SetPrUrlFails, EndTurn, Ends
    <3>2. answer' = answer /\ stream' = stream /\ "silent" # "complete"
      BY <1>1
    <3> QED
      BY <3>1, <3>2, CompleteFacts
  <2>2. mem' \in {mem, WithPr(s)} /\ disk' = disk
    BY <1>7 DEF SetPrUrlFails, SaveFails
  <2> QED
    BY <1>3, <1>5, <2>1, <2>2 DEF DInv, Recorded
<1> QED
  BY <1>4, <1>6, <1>7

LEMMA RestartDurable ==
  ASSUME DInv, TypeOK, Restart
  PROVE  DInv'
<1>1. /\ mem' = disk /\ UNCHANGED <<stream, result, answer, disk, trees, prs>>
      /\ \A t \in Turns : pc'[t] \notin InTurn \cup {"dispatch", "branch", "register"}
  BY DEF Restart, InTurn
<1>2. Past' = {} /\ Creating' = {} /\ Complete' = Complete /\ Stored' \subseteq Stored
  BY <1>1 DEF Past, Creating, Complete, Stored, Known
<1>3. TreeFirst'
  BY <1>1, <1>2 DEF DInv, TreeFirst, Begun
<1>4. PrOpen'
  BY <1>1 DEF PrOpen, InTurn
<1>5. PrRecorded'
  BY <1>1, <1>2 DEF DInv, PrRecorded, Recorded
<1> QED
  BY <1>1, <1>3, <1>4, <1>5 DEF DInv

LEMMA MarkMergedDurable ==
  ASSUME DInv, TypeOK, NEW s \in Streams, MarkMerged(s)
  PROVE  DInv'
<1> DEFINE r == [mem EXCEPT !.merged = @ \cup {s}]
<1>1. /\ mem' = r /\ disk' \in {r, disk}
      /\ UNCHANGED <<stream, pc, result, answer, trees, prs>>
  BY DEF MarkMerged, Saved, SaveFails, Quiet
<1>2. Sessions(r) /\ Known(r) = Known(mem) /\ r.pr = mem.pr
  BY DEF DInv, Sessions, SessionMaps, Known
<1> HIDE DEF r
<1>3. Stored' \subseteq Stored /\ Past' = Past /\ Complete' = Complete
      /\ Creating' = Creating
  BY <1>1, <1>2 DEF Stored, Past, Complete, Creating
<1>4. Begun' \subseteq Begun
  BY <1>3 DEF Begun
<1>5. TreeFirst' /\ PrOpen'
  BY <1>1, <1>3, <1>4 DEF DInv, TreeFirst, PrOpen
<1>6. PrRecorded'
  BY <1>1, <1>2, <1>3 DEF DInv, PrRecorded, Recorded
<1> QED
  BY <1>1, <1>2, <1>5, <1>6 DEF DInv

LEMMA InitDInv == Init => DInv
<1> SUFFICES ASSUME Init PROVE DInv
  OBVIOUS
<1>1. mem = NoSessions /\ disk = NoSessions /\ Known(NoSessions) = {}
  BY DEF Init, NoSessions, Known
<1>2. Sessions(NoSessions)
  BY DEF Sessions, SessionMaps, NoSessions, OnceEach
<1>3. Past = {} /\ Complete = {} /\ Creating = {} /\ PrOpen
  BY DEF Init, Past, Complete, Creating, PrOpen, InTurn
<1> QED
  BY <1>1, <1>2, <1>3 DEF DInv, TreeFirst, Begun, Stored, PrRecorded

LEMMA NextDInv == TypeOK /\ DInv /\ [Next]_vars => DInv'
<1> SUFFICES ASSUME TypeOK, DInv, [Next]_vars PROVE DInv'
  OBVIOUS
<1>1. CASE UNCHANGED vars
  <2>1. Begun' = Begun /\ Creating' = Creating /\ Complete' = Complete
    BY <1>1 DEF vars, Begun, Stored, Known, Past, Complete, Creating
  <2> QED
    BY <1>1, <2>1 DEF vars, DInv, TreeFirst, PrOpen, PrRecorded, Recorded, Known
<1>2. ASSUME NEW t \in Turns, Arrive(t) \/ Task(t)
      PROVE  DInv'
  BY <1>2, OutsideDurable, AddTreeDurable, RegisterDurable, InsideDurable,
     SessionDurable DEF Task
<1>3. ASSUME NEW s \in Streams, MarkMerged(s)
      PROVE  DInv'
  BY <1>3, MarkMergedDurable
<1>4. CASE Restart
  BY <1>4, RestartDurable
<1> QED
  BY <1>1, <1>2, <1>3, <1>4 DEF Next

(* Once the extension was told that a stream is complete, its pull request *)
(* is open, and the state file says so as long as it keeps the session,    *)
(* through failed saves, evictions and restarts.                           *)
THEOREM PilotCompleteIsDurable == Spec => []CompleteIsDurable
<1>1. DInv => CompleteIsDurable
  BY DEF DInv, PrRecorded, Recorded, Complete, CompleteIsDurable
<1> QED
  BY InitDInv, NextDInv, PilotTypeOK, <1>1, PTL DEF Spec
=============================================================================
