------------------------------ MODULE MirMovesMC ------------------------------
EXTENDS MirMoves

(* A struct local r with the fields f and g, and a temporary t. *)
MCPaths == {"r", "f", "g", "t"}
MCBelow == [p \in MCPaths |-> IF p = "r" THEN {"r", "f", "g"} ELSE {p}]
MCBlocks == 0..2

Assign(p, moves, reads) == [op |-> "assign", place |-> p, moves |-> moves, reads |-> reads]
Storage(op) == [op |-> op, place |-> "r", moves |-> {}, reads |-> {}]

WriteR == Assign("r", {}, {})
WriteF == Assign("f", {}, {})
MoveR == Assign("t", {"r"}, {})
MoveF == Assign("t", {"f"}, {})
ReadR == Assign("t", {}, {"r"})
ReadF == Assign("t", {}, {"f"})
Rewrap == Assign("r", {"r"}, {})

Codes == {<<>>, <<WriteR>>, <<WriteF>>, <<MoveR>>, <<MoveF>>, <<ReadR>>, <<ReadF>>, <<Storage("dead")>>,
          <<MoveF, ReadR>>, <<MoveR, ReadF>>, <<Storage("live"), MoveR>>, <<WriteR, MoveF>>,
          <<MoveR, WriteR>>, <<Rewrap>>}

(* A straight line, a branch that joins, a loop, and a branch into a loop. *)
Shapes == {<<{1}, {2}, {}>>, <<{1, 2}, {2}, {}>>, <<{1}, {1, 2}, {}>>, <<{1, 2}, {2}, {1}>>}

MCBodies == {[b \in MCBlocks |-> [code |-> code[b], succ |-> shape[b + 1],
                                  dest |-> IF b = 1 /\ call /\ shape[2] = {2} THEN {"r"} ELSE {}]] :
             code \in [MCBlocks -> Codes], shape \in Shapes, call \in BOOLEAN}
===============================================================================
