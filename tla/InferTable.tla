------------------------------ MODULE InferTable ------------------------------
(***************************************************************************)
(* The inference table of glyim-solve/src/infer.rs, driven by the type     *)
(* checker: fresh variables, unification, and the snapshot / rollback      *)
(* around the probes of method resolution.  Types are interned handles;    *)
(* Cons stands for every constructor whose arguments are unified pairwise. *)
(* unify_tys recurses: stack holds one frame of pending pairs for each     *)
(* call whose result somebody looks at on its own.                         *)
(***************************************************************************)
EXTENDS Naturals, Sequences

CONSTANTS TyVars,   \* Infer(Ty): general inference variables
          IntVars,  \* Infer(Int): variables of unsuffixed integer literals
          IntPrims, \* Int and Uint types
          Others,   \* types without arguments that are no integer
          Cons,     \* handles of types with arguments
          Shape,    \* constructor of each of them: Tuple, Adt 7, Slice, ...
          Args,     \* their type arguments
          VarsIn,   \* the variables that occur in a type, as it is written
          Calls,    \* the pairs of types the checker may unify
          MaxSnapshots, \* bound on nested probes
          Depth     \* how deep OkMeansEqual compares two types

ERROR == "error"
NEVER == "never"
Unbound == "unbound"
Vars == TyVars \cup IntVars
Ground == IntPrims \cup Others \cup {ERROR, NEVER}
Ty == Vars \cup Ground \cup Cons

ASSUME KindsAssumption ==
  /\ TyVars \cap IntVars = {} /\ Vars \cap Ground = {} /\ Vars \cap Cons = {}
  /\ Ground \cap Cons = {} /\ Unbound \notin Ty
  /\ ERROR \notin IntPrims \cup Others /\ NEVER \notin IntPrims \cup Others
ASSUME ArgsAssumption == Args \in [Cons -> Seq(Ty)]
ASSUME VarsInAssumption ==
  /\ VarsIn \in [Ty -> SUBSET Vars]
  /\ \A v \in Vars : VarsIn[v] = {v}
  /\ \A t \in Ground : VarsIn[t] = {}
  /\ \A c \in Cons : VarsIn[c] = UNION {VarsIn[Args[c][i]] : i \in DOMAIN Args[c]}
ASSUME CallsAssumption == Calls \subseteq (Ty \ {ERROR}) \X (Ty \ {ERROR})
ASSUME SnapshotsAssumption == MaxSnapshots \in Nat
ASSUME DepthAssumption == Depth \in Nat

VARIABLES issued, \* history: variables whose handles circulate
          slots,  \* variables that have a slot in ty_vars or int_vars
          val,    \* the value in each slot
          snaps,  \* snapshots of the probes that are under way, innermost first
          goal,   \* the types given to unify
          stack,  \* pairs it still has to unify
          result, \* what it returned, until the caller reads it
          lost    \* history: a conflict was dropped or a binding replaced

vars == <<issued, slots, val, snaps, goal, stack, result, lost>>

NoGoal == <<ERROR, ERROR>>

Init ==
  /\ issued = {}
  /\ slots = {}
  /\ val = [v \in Vars |-> Unbound]
  /\ snaps = << >>
  /\ goal = NoGoal
  /\ stack = << >>
  /\ result = "none"
  /\ lost = FALSE

Idle == stack = << >> /\ result = "none"

(* The types in circulation: a rollback takes no handle back. *)
Written == {t \in Ty : VarsIn[t] \subseteq issued}
-----------------------------------------------------------------------------
(* The variables met when bindings are followed from t by                  *)
(* resolve_ty_shallow_preserve_int, and the type it returns.               *)
Chain(t) == {v \in Vars : \A S \in SUBSET Vars :
               (t \in S /\ \A u \in S : val[u] \in Vars => val[u] \in S) => v \in S}
Resolve(t) ==
  IF t \notin Vars THEN t
  ELSE IF \A v \in Chain(t) : val[v] \in Vars THEN ERROR  \* a cycle
  ELSE LET last == CHOOSE v \in Chain(t) : val[v] \notin Vars
       IN  IF val[last] = Unbound THEN last ELSE val[last]

(* occurs: v is met when t and the values of its variables are walked. *)
Occurs(v, t) == \A S \in SUBSET Vars :
  (/\ VarsIn[t] \subseteq S
   /\ \A u \in S : val[u] # Unbound => VarsIn[val[u]] \subseteq S) => v \in S
-----------------------------------------------------------------------------
(* new_ty_var, new_int_var *)
NewVar(v) ==
  /\ Idle /\ v \notin issued
  /\ issued' = issued \cup {v}
  /\ slots' = slots \cup {v}
  /\ UNCHANGED <<val, snaps, goal, stack, result, lost>>

Snapshot ==
  /\ Idle /\ Len(snaps) < MaxSnapshots
  /\ snaps' = <<[slots |-> slots, val |-> val]>> \o snaps
  /\ UNCHANGED <<issued, slots, val, goal, stack, result, lost>>

(* A rollback that forgets int_vars. *)
RollbackTyVars(s) ==
  val' = [v \in Vars |-> IF v \in s.slots \cap TyVars THEN s.val[v] ELSE val[v]]

(* The values come back; slots added since the snapshot stay as they are. *)
RollbackTo(s) == val' = [v \in Vars |-> IF v \in s.slots THEN s.val[v] ELSE val[v]]

(* The rollback before its fix: the vectors shrink with their snapshot. *)
RollbackTruncates ==
  /\ Idle /\ snaps # << >>
  /\ val' = [v \in Vars |-> IF v \in Head(snaps).slots THEN Head(snaps).val[v] ELSE Unbound]
  /\ slots' = Head(snaps).slots
  /\ snaps' = Tail(snaps)
  /\ UNCHANGED <<issued, goal, stack, result, lost>>

(* rollback_to: the innermost probe failed, or its caller gave up. *)
Rollback ==
  /\ Idle /\ snaps # << >>
  /\ RollbackTo(Head(snaps))
  /\ snaps' = Tail(snaps)
  /\ UNCHANGED <<issued, slots, goal, stack, result, lost>>

(* commit, or a snapshot that is dropped: nothing but the snapshot goes. *)
Commit ==
  /\ Idle /\ snaps # << >>
  /\ snaps' = Tail(snaps)
  /\ UNCHANGED <<issued, slots, val, goal, stack, result, lost>>

(* FnCtxt::unify and InferenceTable::unify: both sides are resolved once. *)
Unify(a, b) ==
  /\ Idle
  /\ a \in Written /\ b \in Written
  /\ goal' = <<a, b>>
  /\ stack' = << << <<Resolve(a), Resolve(b)>> >> >>
  /\ lost' = FALSE
  /\ UNCHANGED <<issued, slots, val, snaps, result>>

(* The caller reads the result. *)
Return ==
  /\ stack = << >> /\ result # "none"
  /\ result' = "none"
  /\ goal' = NoGoal
  /\ lost' = FALSE
  /\ UNCHANGED <<issued, slots, val, snaps, stack>>
-----------------------------------------------------------------------------
(* unify_tys, one pair at a time.                                          *)
Frame == Head(stack)
Left == Head(Frame)[1]
Right == Head(Frame)[2]
Busy == stack # << >> /\ Frame # << >>
Rest == <<Tail(Frame)>> \o Tail(stack)

(* Ok(vec![]): on to the next pair. *)
Next1 == stack' = Rest /\ UNCHANGED <<result, lost>>

(* Err: `?` gives up the pairs of this frame; only the frame that unify    *)
(* itself opened hands the error to the caller.                            *)
Fail ==
  /\ stack' = Tail(stack)
  /\ result' = IF Len(stack) = 1 THEN "err" ELSE result
  /\ lost' = (lost \/ Len(stack) > 1)
  /\ UNCHANGED val

Bind(v, t) == val' = [val EXCEPT ![v] = t]

Trivial == Left = Right \/ {Left, Right} \cap {ERROR, NEVER} # {}

UnifyTrivial ==
  /\ Trivial
  /\ Next1 /\ UNCHANGED val

(* The literal arms: the peer is resolved before anything is bound.        *)
LitVar == IF Left \in IntVars THEN Left ELSE Right
LitPeer == Resolve(IF Left \in IntVars THEN Right ELSE Left)
LitArm == ~Trivial /\ {Left, Right} \cap IntVars # {}

BindLitRaw == Bind(LitVar, IF Left \in IntVars THEN Right ELSE Left)
BindLit == Bind(LitVar, LitPeer)

UnifyLitSame ==
  /\ LitArm /\ LitPeer = LitVar
  /\ Next1 /\ UNCHANGED val

UnifyLit ==
  /\ LitArm
  /\ LitPeer \in (IntPrims \cup IntVars \cup {ERROR}) \ {LitVar}
  /\ BindLit
  /\ stack' = Rest
  /\ lost' = (lost \/ val[LitVar] # Unbound)
  /\ UNCHANGED result

UnifyLitGeneral ==
  /\ LitArm /\ LitPeer \in TyVars
  /\ Bind(LitPeer, LitVar)
  /\ Next1

UnifyLitMismatch ==
  /\ LitArm /\ LitPeer \notin IntPrims \cup Vars \cup {ERROR}
  /\ Fail

(* The arm of a general variable. *)
TyVar == IF Left \in TyVars THEN Left ELSE Right
TyPeer == IF Left \in TyVars THEN Right ELSE Left
TyArm == ~Trivial /\ ~LitArm /\ {Left, Right} \cap TyVars # {}

(* A bound variable: its value is unified, and the outcome ignored. *)
FollowSwapped == stack' = << << <<TyPeer, TyVar>> >> \o Tail(Frame) >> \o Tail(stack)
Follow == stack' = << << <<val[TyVar], Resolve(TyPeer)>> >> >> \o Rest

UnifyBound ==
  /\ TyArm /\ val[TyVar] # Unbound
  /\ Follow
  /\ UNCHANGED <<val, result, lost>>

BindCyclic ==
  /\ TyArm /\ val[TyVar] = Unbound
  /\ Bind(TyVar, TyPeer)
  /\ Next1
UnifyUnbound ==
  /\ TyArm /\ val[TyVar] = Unbound /\ ~Occurs(TyVar, TyPeer)
  /\ Bind(TyVar, TyPeer)
  /\ Next1

(* "cannot construct infinite type" *)
UnifyInfinite ==
  /\ TyArm /\ val[TyVar] = Unbound /\ Occurs(TyVar, TyPeer)
  /\ Fail

(* Two constructors: their arguments, pair by pair. *)
Variables == {Left, Right} \cap Vars # {}
Alike == Shape[Left] = Shape[Right] /\ Len(Args[Left]) = Len(Args[Right])
Pairs == [i \in DOMAIN Args[Left] |-> <<Args[Left][i], Args[Right][i]>>]
SkipLast == IF Pairs = << >> THEN Pairs ELSE Tail(Pairs)

UnifyFirstSkipped ==
  /\ ~Trivial /\ Left \in Cons /\ Right \in Cons /\ Alike
  /\ stack' = <<SkipLast \o Tail(Frame)>> \o Tail(stack)
  /\ UNCHANGED <<val, result, lost>>
UnifyArgs ==
  /\ ~Trivial /\ Left \in Cons /\ Right \in Cons /\ Alike
  /\ stack' = <<Pairs \o Tail(Frame)>> \o Tail(stack)
  /\ UNCHANGED <<val, result, lost>>

UnifyMismatch ==
  /\ ~Trivial /\ ~Variables
  /\ ~(Left \in Cons /\ Right \in Cons /\ Alike)
  /\ Fail

(* The pairs of a frame are all unified. *)
EndFrame ==
  /\ stack # << >> /\ Frame = << >>
  /\ stack' = Tail(stack)
  /\ result' = IF Len(stack) = 1 THEN "ok" ELSE result
  /\ UNCHANGED <<val, lost>>

UnifyTys ==
  /\ \/ Busy /\ ( \/ UnifyTrivial
                  \/ UnifyLitSame \/ UnifyLit \/ UnifyLitGeneral \/ UnifyLitMismatch
                  \/ UnifyBound \/ UnifyUnbound \/ UnifyInfinite
                  \/ UnifyArgs \/ UnifyMismatch )
     \/ EndFrame
  /\ UNCHANGED <<issued, slots, snaps, goal>>

Next ==
  \/ \E v \in Vars : NewVar(v)
  \/ Snapshot \/ Rollback \/ Commit
  \/ \E call \in Calls : Unify(call[1], call[2])
  \/ UnifyTys
  \/ Return

Spec == Init /\ [][Next]_vars
(* One thread runs the checker: a call that can go on does. *)
FairSpec == Spec /\ WF_vars(UnifyTys)
-----------------------------------------------------------------------------
(* TypeOK: a slot holds nothing but types whose variables have slots.      *)
Tables == [slots : SUBSET Vars, val : [Vars -> Ty \cup {Unbound}]]
TypeOK ==
  /\ issued \in SUBSET Vars /\ slots \in SUBSET Vars
  /\ val \in [Vars -> Ty \cup {Unbound}]
  /\ snaps \in Seq(Tables) /\ goal \in Ty \X Ty
  /\ stack \in Seq(Seq(Ty \X Ty))
  /\ result \in {"none", "ok", "err"} /\ lost \in BOOLEAN

(* NoCycle: no group of variables is bound, each to a type that mentions   *)
(* another of the group: every later resolve, occurs check and zonk of the *)
(* checker ends.  The occurs check, the peer resolved before a literal is  *)
(* bound (SOLVE-1) and what a rollback keeps all have their part in it.    *)
Uses(f, v) == IF f[v] = Unbound THEN {} ELSE VarsIn[f[v]]
Acyclic(f) == \A S \in SUBSET Vars : S # {} => \E v \in S : Uses(f, v) \cap S = {}
NoCycle == Acyclic(val)

(* NoDanglingHandle: every variable whose handle circulates, or that is    *)
(* reachable from a slot or from a type that is being unified, has a slot  *)
(* (the ICE of the comment above rollback_to is a handle without one).     *)
Closed(s, f) == \A v \in Vars : Uses(f, v) \subseteq s /\ (f[v] # Unbound => v \in s)
NoDanglingHandle ==
  /\ issued \subseteq slots
  /\ Closed(slots, val)
  /\ \A i \in DOMAIN stack : \A j \in DOMAIN stack[i] :
       VarsIn[stack[i][j][1]] \cup VarsIn[stack[i][j][2]] \subseteq slots

(* ProbeForgotten: once rollback_to has returned, no variable older than   *)
(* the probe depends on a variable made by the probe.                      *)
RolledBack == Idle /\ snaps # << >> /\ snaps' = Tail(snaps) /\ val' # val
ProbeForgotten == [][RolledBack =>
  \A v \in Head(snaps).slots : Uses(val', v) \subseteq Head(snaps).slots]_vars

(* OkMeansEqual: when unify returned Ok and neither ignored the failure of *)
(* an inner pair nor replaced a binding, the two types are the same once   *)
(* their variables are resolved, Error and Never agreeing with any type.   *)
(* Equal[n] is the pairs of types that are the same down to depth n.       *)
Agree(x, y, same) ==
  \/ x = y
  \/ {x, y} \cap {ERROR, NEVER} # {}
  \/ /\ x \in Cons /\ y \in Cons /\ Shape[x] = Shape[y] /\ Len(Args[x]) = Len(Args[y])
     /\ \A i \in DOMAIN Args[x] : <<Args[x][i], Args[y][i]>> \in same
Equal[n \in Nat] ==
  IF n = 0 THEN Ty \X Ty
           ELSE {p \in Ty \X Ty : Agree(Resolve(p[1]), Resolve(p[2]), Equal[n - 1])}
OkMeansEqual == stack = << >> /\ result = "ok" /\ ~lost => goal \in Equal[Depth]

(* CallsReturn: unify_tys ends on every input: the chain of a bound        *)
(* variable is followed at most to its end.                                *)
CallsReturn == stack # << >> ~> stack = << >>
=============================================================================
