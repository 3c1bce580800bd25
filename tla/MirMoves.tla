------------------------------- MODULE MirMoves -------------------------------
(***************************************************************************)
(* The move checker of glyim-borrowck: a forward dataflow over the blocks  *)
(* of a MIR body that tracks which places were moved out of and which      *)
(* locals lost their storage, a worklist that solves it, and the pass that *)
(* reports the statements using such a place.  Types are not Copy; the     *)
(* operands of terminators are neither moves nor uses to the checker.      *)
(***************************************************************************)
EXTENDS Naturals, Sequences, FiniteSets

CONSTANTS Blocks,   \* basic blocks, 0 is the first
          Paths,    \* move paths: locals and the fields of struct locals
          Below,    \* a move path and its children
          Bodies,   \* the bodies to check
          Steps     \* bound: statements and jumps of a run (see Real)

(* A block has statements, the destination of its Call terminator if it    *)
(* ends in one (a call has no cleanup successor here), and successors.  A  *)
(* statement writes place, after moving and reading the operands of its    *)
(* right-hand side; or it is the StorageLive or StorageDead of a local.    *)
Statements == [op : {"assign", "live", "dead"}, place : Paths,
               moves : SUBSET Paths, reads : SUBSET Paths]

ASSUME MovesAssumption ==
  /\ 0 \in Blocks
  /\ Below \in [Paths -> SUBSET Paths]
  /\ Bodies \subseteq [Blocks -> [code : Seq(Statements), dest : SUBSET Paths,
                                  succ : SUBSET Blocks]]
  /\ Steps \in Nat

VARIABLES body, in, out, worklist, phase, errors
movesVars == <<body, in, out, worklist, phase, errors>>

(* What is known of the paths in S: that they are moved, that they are     *)
(* dead.                                                                   *)
Moved(S) == {"moved"} \X S
Dead(S) == {"dead"} \X S
Covered(S) == UNION {Below[p] : p \in S}
-----------------------------------------------------------------------------
(* collect_stmt_move_effects: a block's moves, deaths and inits are        *)
(* collected without their order.                                          *)
StmtGen(s) == Moved(Covered(s.moves)) \cup
              (IF s.op = "dead" THEN Moved(Below[s.place]) \cup Dead(Below[s.place]) ELSE {})
StmtInits(s) == IF s.op = "dead" THEN {} ELSE Below[s.place]

Code(b) == {body[b].code[i] : i \in DOMAIN body[b].code}
Gen(b) == UNION {StmtGen(s) : s \in Code(b)}
StatementInits(b) == UNION {StmtInits(s) : s \in Code(b)}
BlockInits(b) == StatementInits(b) \cup Covered(body[b].dest)

Forget(S, facts) == facts \ (Moved(S) \cup Dead(S))
Transfer(b, facts) == Forget(BlockInits(b), facts \cup Gen(b))

Preds(b) == {p \in Blocks : b \in body[p].succ}
Incoming(b) == UNION {out[p] : p \in Preds(b)}
Join(b) == IF b = 0 THEN Incoming(b) \ Dead(Paths) ELSE Incoming(b)

MovesInit ==
  /\ body \in Bodies
  /\ in = [b \in Blocks |-> {}]
  /\ out = [b \in Blocks |-> {}]
  /\ worklist = Blocks
  /\ phase = "flow"
  /\ errors = {}

(* A solver that takes every block once. *)
OnceOver(b) == {}
Requeued(b) == body[b].succ

(* The code takes the blocks from a stack; any order gives the same.       *)
Visit(b) ==
  /\ phase = "flow" /\ b \in worklist
  /\ LET i == Join(b)
         o == Transfer(b, i)
     IN  IF i # in[b] \/ o # out[b]
           THEN /\ in' = [in EXCEPT ![b] = i]
                /\ out' = [out EXCEPT ![b] = o]
                /\ worklist' = (worklist \ {b}) \cup Requeued(b)
           ELSE /\ worklist' = worklist \ {b}
                /\ UNCHANGED <<in, out>>
  /\ UNCHANGED <<body, phase, errors>>
-----------------------------------------------------------------------------
(* compute_stmt_moved: what is known before each statement of a block.     *)
ApplyStmt(s, facts) == Forget(StmtInits(s), facts) \cup StmtGen(s)

Before(b) ==
  LET at[i \in 1..Len(body[b].code)] ==
        IF i = 1 THEN in[b] ELSE ApplyStmt(body[b].code[i - 1], at[i - 1])
  IN  at

(* A place is bad when it, or a field of it, is moved or dead.             *)
Bad(p, facts) == \E q \in Below[p] : <<"moved", q>> \in facts \/ <<"dead", q>> \in facts

PlacesUsed(s) == s.moves \cup s.reads

Reports(b) ==
  UNION {{<<b, i, p>> : p \in {q \in PlacesUsed(body[b].code[i]) : Bad(q, Before(b)[i])}} :
         i \in DOMAIN body[b].code}

Check ==
  /\ phase = "flow" /\ worklist = {}
  /\ phase' = "done"
  /\ errors' = UNION {Reports(b) : b \in Blocks}
  /\ UNCHANGED <<body, in, out, worklist>>

MovesNext == (\E b \in Blocks : Visit(b)) \/ Check

MovesSpec == MovesInit /\ [][MovesNext]_movesVars
-----------------------------------------------------------------------------
(* The facts the checker goes by solve its equations, in whatever order    *)
(* the blocks were visited.                                                *)
Solved == phase = "done" => \A b \in Blocks : in[b] = Join(b) /\ out[b] = Transfer(b, in[b])

(* The body run on its own, a statement at a time: operands are moved      *)
(* before the place is written, a call writes its destination when it      *)
(* returns.                                                                *)
Run(s, facts) == IF s.op = "dead" THEN facts \cup StmtGen(s)
                 ELSE Forget(Below[s.place], facts \cup Moved(Covered(s.moves)))

After(c) ==
  LET b == c[1] i == c[2] facts == c[3]
  IN  IF i <= Len(body[b].code)
        THEN {<<b, i + 1, Run(body[b].code[i], facts)>>}
        ELSE {<<t, 1, Forget(Covered(body[b].dest), facts)>> : t \in body[b].succ}

Configurations(steps) ==
  LET reached[n \in Nat] ==
        IF n = 0 THEN {<<0, 1, {}>>}
                 ELSE LET before == reached[n - 1]
                      IN  before \cup UNION {After(c) : c \in before}
  IN  reached[steps]

Real == UNION {{<<c[1], c[2], p>> : p \in {q \in PlacesUsed(body[c[1]].code[c[2]]) : Bad(q, c[3])}} :
               c \in {d \in Configurations(Steps) : d[2] \in DOMAIN body[d[1]].code}}

(* A use of a moved or dead place that some run of the body makes is       *)
(* reported: the analysis "tracks which places have been moved out of at   *)
(* each program point".                                                    *)
UseAfterMoveReported == phase = "done" => Real \subseteq errors

(* In a body none of whose statements moves a place that it, or an earlier *)
(* statement of its block, writes, the checker reports every use of a      *)
(* moved or dead place that a run makes, over branches, joins, loops and   *)
(* calls, for whole locals and fields; and nothing else when the runs have *)
(* been followed to their ends and come to every block (a block that is    *)
(* not reached is analysed all the same).                                  *)
Plain ==
  \A b \in Blocks : \A j \in DOMAIN body[b].code : \A i \in 1..j :
    Forget(StmtInits(body[b].code[i]), StmtGen(body[b].code[j])) = StmtGen(body[b].code[j])
RunsComplete == \A c \in Configurations(Steps) : After(c) \subseteq Configurations(Steps)
EveryBlockReached == \A b \in Blocks : \E c \in Configurations(Steps) : c[1] = b /\ c[2] = 1
Exact ==
  phase = "done" /\ Plain =>
    Real \subseteq errors /\ (RunsComplete /\ EveryBlockReached => errors \subseteq Real)
===============================================================================
