--------------------------- MODULE Compiler_proofs ---------------------------
(***************************************************************************)
(* Proofs about the compiler's two data structures that are modelled.      *)
(* InferTable, for any set of variables and of interned types: no sequence *)
(* of fresh variables, unifications, probes and rollbacks closes a cycle   *)
(* of bindings, no handle loses its slot, and an Ok means that the types   *)
(* are the same.  MirMoves, for any bodies, any move paths and any order   *)
(* of visits: the facts the checker goes by are the least solution of its  *)
(* dataflow equations, and what it reports is what the runs of the body do *)
(* wrong.  Both define by recursion on a number, which comes first.        *)
(***************************************************************************)
EXTENDS InferTable, MirMoves, SequenceTheorems, WellFoundedInduction, TLAPS

(* A set of numbers that has an element has a least one: what an induction *)
(* over a concrete formula needs.                                          *)
LEMMA LeastNumber ==
  ASSUME NEW T \in SUBSET Nat, T # {}
  PROVE  \E n \in T : \A m \in T : n <= m
<1>1. IsWellFoundedOn(OpToRel(<, Nat), Nat)
  BY NatLessThanWellFounded
<1>2. PICK n \in T : \A m \in T : ~(<<m, n>> \in OpToRel(<, Nat))
  BY <1>1, WFMin
<1>3. \A m \in T : ~(m < n)
  BY <1>2 DEF OpToRel
<1> QED
  BY <1>3

LEMMA AllNumbers ==
  ASSUME NEW T \in SUBSET Nat, 0 \in T, \A n \in T : n + 1 \in T
  PROVE  T = Nat
<1> SUFFICES ASSUME Nat \ T # {} PROVE FALSE
  OBVIOUS
<1>1. PICK n \in Nat \ T : \A m \in Nat \ T : n <= m
  BY LeastNumber
<1>2. n # 0 /\ n - 1 \in Nat
  BY <1>1
<1>3. n - 1 \in T
  BY <1>1, <1>2
<1> QED
  BY <1>1, <1>2, <1>3

(* The beginnings of a sequence of values in S, each got from the one      *)
(* before it; step is a function, so that the lemmas on recursion hold of  *)
(* any step.                                                               *)
Beginnings(n, S, start, step) ==
  {g \in [0..n -> S] : g[0] = start /\ \A k \in 0..n : k < n => g[k + 1] = step[k][g[k]]}

LEMMA BeginningsAgree ==
  ASSUME NEW S, NEW start, NEW step, NEW p \in Nat, NEW q \in Nat,
         NEW g \in Beginnings(p, S, start, step), NEW h \in Beginnings(q, S, start, step),
         NEW n \in 0..p, n <= q
  PROVE  g[n] = h[n]
<1> DEFINE T == {k \in Nat : k <= p /\ k <= q => g[k] = h[k]}
<1>1. 0 \in T
  BY DEF Beginnings
<1>2. ASSUME NEW k \in T PROVE k + 1 \in T
  BY <1>2 DEF Beginnings
<1> HIDE DEF T
<1>3. T = Nat
  BY <1>1, <1>2, AllNumbers DEF T
<1> QED
  BY <1>3 DEF T

LEMMA BeginningsExist ==
  ASSUME NEW S, NEW start \in S, NEW step \in [Nat -> [S -> S]], NEW n \in Nat
  PROVE  Beginnings(n, S, start, step) # {}
<1> DEFINE T == {k \in Nat : Beginnings(k, S, start, step) # {}}
<1>1. 0 \in T
  <2>1. PICK g \in [0..0 -> S] : g = [k \in 0..0 |-> start]
    OBVIOUS
  <2>2. g[0] = start
    BY <2>1
  <2>3. \A k \in 0..0 : ~(k < 0)
    OBVIOUS
  <2> QED
    BY <2>2, <2>3 DEF Beginnings
<1>2. ASSUME NEW k \in T PROVE k + 1 \in T
  <2>1. PICK g \in [0..k -> S] :
          g[0] = start /\ \A i \in 0..k : i < k => g[i + 1] = step[i][g[i]]
    BY DEF Beginnings
  <2>2. g[k] \in S /\ step[k][g[k]] \in S
    OBVIOUS
  <2>3. PICK h \in [0..k + 1 -> S] :
          h = [i \in 0..k + 1 |-> IF i = k + 1 THEN step[k][g[k]] ELSE g[i]]
    <3>1. \A i \in 0..k + 1 : i # k + 1 => i \in 0..k /\ g[i] \in S
      OBVIOUS
    <3>2. \A i \in 0..k + 1 : (IF i = k + 1 THEN step[k][g[k]] ELSE g[i]) \in S
      BY <2>2, <3>1
    <3> QED
      BY <3>2
  <2>4. h[0] = start
    BY <2>1, <2>3
  <2>5. ASSUME NEW i \in 0..k + 1, i < k + 1 PROVE h[i + 1] = step[i][h[i]]
    <3>1. i \in 0..k /\ i + 1 \in 0..k + 1 /\ i # k + 1
      BY <2>5
    <3>2. h[i] = g[i]
      BY <2>3, <3>1
    <3>3. CASE i = k
      BY <2>3, <3>1, <3>2, <3>3
    <3>4. CASE i < k
      BY <2>1, <2>3, <3>1, <3>2, <3>4
    <3> QED
      BY <3>1, <3>3, <3>4
  <2>6. h \in Beginnings(k + 1, S, start, step)
    BY <2>4, <2>5 DEF Beginnings
  <2> QED
    BY <2>6
<1> HIDE DEF T
<1>3. T = Nat
  BY <1>1, <1>2, AllNumbers DEF T
<1> QED
  BY <1>3 DEF T

LEMMA Recursion ==
  ASSUME NEW S, NEW start \in S, NEW step \in [Nat -> [S -> S]]
  PROVE  \E f \in [Nat -> S] : f[0] = start /\ \A n \in Nat : f[n + 1] = step[n][f[n]]
<1> DEFINE B(n) == Beginnings(n, S, start, step)
           G(n) == CHOOSE g : g \in B(n)
<1>1. \A n \in Nat : G(n) \in B(n)
  BY BeginningsExist
<1> HIDE DEF G
<1>2. \A n \in Nat : G(n)[n] \in S
  BY <1>1 DEF Beginnings
<1>3. PICK f \in [Nat -> S] : f = [n \in Nat |-> G(n)[n]]
  BY <1>2
<1>4. f[0] = start
  BY <1>1, <1>3 DEF Beginnings
<1>5. ASSUME NEW n \in Nat PROVE f[n + 1] = step[n][f[n]]
  <2>1. G(n) \in B(n) /\ G(n + 1) \in B(n + 1)
    BY <1>1
  <2>2. n \in 0..n /\ n <= n + 1 /\ n \in 0..n + 1 /\ n < n + 1
    OBVIOUS
  <2>3. G(n)[n] = G(n + 1)[n]
    BY <2>1, <2>2, BeginningsAgree
  <2>4. G(n + 1)[n + 1] = step[n][G(n + 1)[n]]
    BY <2>1, <2>2 DEF Beginnings
  <2> QED
    BY <1>3, <2>3, <2>4
<1> QED
  BY <1>4, <1>5
-----------------------------------------------------------------------------
(* A literal is bound to an integer type or to another literal: a chain    *)
(* that starts at a literal never leaves the literals.                     *)
LitOnly(f) == \A i \in IntVars : f[i] \in IntPrims \cup IntVars \cup {ERROR, Unbound}

(* What a rollback puts back is a table by itself.                         *)
SnapOK(s) == /\ s.slots \subseteq slots
             /\ Closed(s.slots, s.val) /\ Acyclic(s.val) /\ LitOnly(s.val)
SnapsOK == \A i \in DOMAIN snaps : SnapOK(snaps[i])

IInv == TypeOK /\ NoDanglingHandle /\ NoCycle /\ LitOnly(val) /\ SnapsOK

LEMMA InitIInv == Init => IInv
<1> SUFFICES ASSUME Init PROVE IInv
  OBVIOUS
<1>1. TypeOK
  <2>1. val \in [Vars -> Ty \cup {Unbound}]
    BY DEF Init
  <2>2. goal \in Ty \X Ty
    BY DEF Init, NoGoal, Ty, Ground
  <2>3. snaps \in Seq(Tables) /\ stack \in Seq(Seq(Ty \X Ty))
    BY DEF Init
  <2> QED
    BY <2>1, <2>2, <2>3 DEF Init, TypeOK
<1>2. \A v \in Vars : Uses(val, v) = {}
  BY DEF Init, Uses
<1>3. NoDanglingHandle
  BY <1>2 DEF Init, NoDanglingHandle, Closed
<1>4. NoCycle
  BY <1>2 DEF NoCycle, Acyclic
<1>5. LitOnly(val) /\ SnapsOK
  BY DEF Init, LitOnly, SnapsOK, Vars
<1> QED
  BY <1>1, <1>3, <1>4, <1>5 DEF IInv
-----------------------------------------------------------------------------
(* What resolve_ty_shallow_preserve_int returns: a type; a variable only   *)
(* when it is unbound; and a type whose variables all have a slot.         *)
LEMMA ResolveReturns ==
  ASSUME TypeOK, NEW t \in Ty
  PROVE  /\ Resolve(t) \in Ty
         /\ Resolve(t) \in Vars => val[Resolve(t)] = Unbound
<1>1. CASE t \notin Vars
  BY <1>1 DEF Resolve
<1>2. CASE t \in Vars /\ \A v \in Chain(t) : val[v] \in Vars
  BY <1>2, KindsAssumption DEF KindsAssumption, Resolve, Ty, Ground
<1>3. CASE t \in Vars /\ \E v \in Chain(t) : val[v] \notin Vars
  <2> DEFINE last == CHOOSE v \in Chain(t) : val[v] \notin Vars
  <2>1. last \in Chain(t) /\ val[last] \notin Vars
    BY <1>3
  <2>2. last \in Vars
    BY <2>1 DEF Chain
  <2>3. Resolve(t) = IF val[last] = Unbound THEN last ELSE val[last]
    BY <1>3 DEF Resolve
  <2> HIDE DEF last
  <2> QED
    BY <2>1, <2>2, <2>3 DEF TypeOK, Ty
<1> QED
  BY <1>1, <1>2, <1>3

LEMMA ResolveHasSlots ==
  ASSUME TypeOK, NoDanglingHandle, NEW t \in Ty, VarsIn[t] \subseteq slots
  PROVE  VarsIn[Resolve(t)] \subseteq slots
<1>1. CASE t \notin Vars
  BY <1>1 DEF Resolve
<1>2. CASE t \in Vars /\ \A v \in Chain(t) : val[v] \in Vars
  <2>1. Resolve(t) = ERROR
    BY <1>2 DEF Resolve
  <2> QED
    BY <2>1, VarsInAssumption DEF VarsInAssumption, Ground
<1>3. CASE t \in Vars /\ \E v \in Chain(t) : val[v] \notin Vars
  <2> DEFINE last == CHOOSE v \in Chain(t) : val[v] \notin Vars
  <2>1. last \in Chain(t) /\ val[last] \notin Vars
    BY <1>3
  <2>2. Resolve(t) = IF val[last] = Unbound THEN last ELSE val[last]
    BY <1>3 DEF Resolve
  <2>3. t \in slots
    BY <1>3, VarsInAssumption DEF VarsInAssumption
  <2>4. ASSUME NEW u \in slots, val[u] \in Vars PROVE val[u] \in slots
    <3>1. u \in Vars /\ val[u] # Unbound
      BY <2>4, KindsAssumption DEF KindsAssumption, TypeOK, Ty
    <3>2. Uses(val, u) = {val[u]}
      BY <2>4, <3>1, VarsInAssumption DEF VarsInAssumption, Uses
    <3> QED
      BY <3>1, <3>2 DEF NoDanglingHandle, Closed
  <2>5. last \in slots
    BY <2>1, <2>3, <2>4 DEF Chain, TypeOK
  <2> HIDE DEF last
  <2>6. last \in Vars
    BY <2>5 DEF TypeOK
  <2>7. CASE val[last] = Unbound
    BY <2>2, <2>5, <2>6, <2>7, VarsInAssumption DEF VarsInAssumption
  <2>8. CASE val[last] # Unbound
    <3>1. Uses(val, last) = VarsIn[val[last]]
      BY <2>8 DEF Uses
    <3> QED
      BY <2>2, <2>6, <2>8, <3>1 DEF NoDanglingHandle, Closed
  <2> QED
    BY <2>7, <2>8
<1> QED
  BY <1>1, <1>2, <1>3
-----------------------------------------------------------------------------
(* A variable bound to an unbound variable, or to a type that has none,    *)
(* closes no cycle.                                                        *)
LEMMA BindToRoot ==
  ASSUME NEW f \in [Vars -> Ty \cup {Unbound}], Acyclic(f),
         NEW v \in Vars, NEW t \in Ty,
         t \in Vars => t # v /\ f[t] = Unbound,
         t \notin Vars => VarsIn[t] = {}
  PROVE  Acyclic([f EXCEPT ![v] = t])
<1> DEFINE g == [f EXCEPT ![v] = t]
<1> SUFFICES ASSUME NEW S \in SUBSET Vars, S # {}
             PROVE  \E u \in S : Uses(g, u) \cap S = {}
  BY DEF Acyclic
<1>1. \A u \in Vars : u # v => Uses(g, u) = Uses(f, u)
  BY DEF Uses
<1>2. Uses(g, v) = VarsIn[t]
  BY KindsAssumption DEF KindsAssumption, Uses, Ty
<1>3. CASE t \in S
  <2>1. t \in Vars /\ Uses(f, t) = {}
    BY <1>3 DEF Uses
  <2> QED
    BY <1>1, <1>3, <2>1
<1>4. CASE t \notin S /\ v \in S
  <2>1. VarsIn[t] \cap S = {}
    BY <1>4, VarsInAssumption DEF VarsInAssumption
  <2> QED
    BY <1>2, <1>4, <2>1
<1>5. CASE v \notin S
  <2>1. PICK u \in S : Uses(f, u) \cap S = {}
    BY DEF Acyclic
  <2> QED
    BY <1>1, <1>5, <2>1
<1> QED
  BY <1>3, <1>4, <1>5

(* The occurs check does what it is for.                                   *)
LEMMA BindUnlessOccurs ==
  ASSUME NEW v \in Vars, NEW t \in Ty, val \in [Vars -> Ty \cup {Unbound}],
         Acyclic(val), ~Occurs(v, t)
  PROVE  Acyclic([val EXCEPT ![v] = t])
<1> DEFINE g == [val EXCEPT ![v] = t]
<1>1. PICK R \in SUBSET Vars : /\ VarsIn[t] \subseteq R
                               /\ \A u \in R : Uses(val, u) \subseteq R
                               /\ v \notin R
  BY DEF Occurs, Uses
<1> SUFFICES ASSUME NEW S \in SUBSET Vars, S # {}
             PROVE  \E u \in S : Uses(g, u) \cap S = {}
  BY DEF Acyclic
<1>2. \A u \in Vars : u # v => Uses(g, u) = Uses(val, u)
  BY DEF Uses
<1>3. Uses(g, v) = VarsIn[t]
  BY KindsAssumption DEF KindsAssumption, Uses, Ty
<1>4. CASE v \notin S
  <2>1. PICK u \in S : Uses(val, u) \cap S = {}
    BY DEF Acyclic
  <2> QED
    BY <1>2, <1>4, <2>1
<1>5. CASE S \cap R = {} /\ v \in S
  BY <1>1, <1>3, <1>5
<1>6. CASE S \cap R # {}
  <2>1. PICK u \in S \cap R : Uses(val, u) \cap (S \cap R) = {}
    BY <1>6 DEF Acyclic
  <2>2. Uses(g, u) \subseteq R
    BY <1>1, <1>2, <2>1
  <2> QED
    BY <1>1, <1>2, <2>1, <2>2
<1> QED
  BY <1>4, <1>5, <1>6

(* A general variable bound to a literal: literals reach no general        *)
(* variable.                                                               *)
LEMMA BindToLit ==
  ASSUME NEW v \in TyVars, NEW i \in IntVars, val \in [Vars -> Ty \cup {Unbound}],
         Acyclic(val), LitOnly(val)
  PROVE  Acyclic([val EXCEPT ![v] = i])
<1>1. \A u \in IntVars : Uses(val, u) \subseteq IntVars
  BY KindsAssumption, VarsInAssumption
     DEF KindsAssumption, VarsInAssumption, LitOnly, Uses, Vars, Ground
<1>2. VarsIn[i] = {i} /\ v \notin IntVars /\ i \in Ty /\ v \in Vars
  BY KindsAssumption, VarsInAssumption DEF KindsAssumption, VarsInAssumption, Vars, Ty
<1>3. ~Occurs(v, i)
  BY <1>1, <1>2 DEF Occurs, Uses, Vars
<1> QED
  BY <1>2, <1>3, BindUnlessOccurs

(* A table put back over a longer one: the old part depends on itself.     *)
LEMMA RestoreAcyclic ==
  ASSUME NEW old \in SUBSET Vars, NEW f \in [Vars -> Ty \cup {Unbound}],
         NEW g \in [Vars -> Ty \cup {Unbound}],
         Closed(old, f), Acyclic(f), Acyclic(g)
  PROVE  Acyclic([v \in Vars |-> IF v \in old THEN f[v] ELSE g[v]])
<1> DEFINE h == [v \in Vars |-> IF v \in old THEN f[v] ELSE g[v]]
<1> SUFFICES ASSUME NEW S \in SUBSET Vars, S # {}
             PROVE  \E u \in S : Uses(h, u) \cap S = {}
  BY DEF Acyclic
<1>1. \A u \in Vars : Uses(h, u) = IF u \in old THEN Uses(f, u) ELSE Uses(g, u)
  BY DEF Uses
<1> HIDE DEF h
<1>2. CASE S \cap old = {}
  <2>1. PICK u \in S : Uses(g, u) \cap S = {}
    BY DEF Acyclic
  <2> QED
    BY <1>1, <1>2, <2>1
<1>3. CASE S \cap old # {}
  <2>1. PICK u \in S \cap old : Uses(f, u) \cap (S \cap old) = {}
    BY <1>3 DEF Acyclic
  <2>2. Uses(f, u) \subseteq old
    BY <2>1 DEF Closed
  <2> QED
    BY <1>1, <2>1, <2>2
<1> QED
  BY <1>2, <1>3
-----------------------------------------------------------------------------
(* The steps of unify_tys that bind nothing.                               *)
PairOK(p) == p \in Ty \X Ty /\ VarsIn[p[1]] \cup VarsIn[p[2]] \subseteq slots
StackOK(s) == s \in Seq(Seq(Ty \X Ty)) /\
  \A i \in DOMAIN s : \A j \in DOMAIN s[i] : PairOK(s[i][j])

LEMMA TopOK ==
  ASSUME TypeOK, NoDanglingHandle, Busy
  PROVE  /\ Left \in Ty /\ Right \in Ty
         /\ VarsIn[Left] \subseteq slots /\ VarsIn[Right] \subseteq slots
<1>1. stack \in Seq(Seq(Ty \X Ty)) /\ stack # << >>
  BY DEF TypeOK, Busy
<1>2. 1 \in DOMAIN stack /\ Frame = stack[1] /\ Frame \in Seq(Ty \X Ty)
  BY <1>1 DEF Frame
<1>3. 1 \in DOMAIN Frame /\ Head(Frame) = Frame[1] /\ Frame[1] \in Ty \X Ty
  BY <1>2 DEF Busy
<1>4. VarsIn[Frame[1][1]] \cup VarsIn[Frame[1][2]] \subseteq slots
  BY <1>2, <1>3 DEF NoDanglingHandle
<1> QED
  BY <1>3, <1>4 DEF Left, Right

LEMMA StackIsOK ==
  ASSUME TypeOK, NoDanglingHandle
  PROVE  StackOK(stack)
  BY DEF TypeOK, NoDanglingHandle, StackOK, PairOK

LEMMA TailOK ==
  ASSUME NEW s, StackOK(s), s # << >>
  PROVE  StackOK(Tail(s))
  BY DEF StackOK

(* The first frame is replaced by one of pairs that are all right.         *)
LEMMA ReplaceOK ==
  ASSUME NEW s, StackOK(s), s # << >>, NEW f \in Seq(Ty \X Ty),
         \A j \in DOMAIN f : PairOK(f[j])
  PROVE  StackOK(<<f>> \o Tail(s))
<1>1. s \in Seq(Seq(Ty \X Ty)) /\ <<f>> \in Seq(Seq(Ty \X Ty))
  BY DEF StackOK
<1>2. Tail(s) \in Seq(Seq(Ty \X Ty)) /\ Len(Tail(s)) = Len(s) - 1
  BY <1>1
<1>3. /\ <<f>> \o Tail(s) \in Seq(Seq(Ty \X Ty))
      /\ Len(<<f>> \o Tail(s)) = Len(s)
      /\ (<<f>> \o Tail(s))[1] = f
      /\ \A i \in 2 .. Len(s) : (<<f>> \o Tail(s))[i] = s[i]
  BY <1>1, <1>2
<1>4. ASSUME NEW i \in 2 .. Len(s), NEW j \in DOMAIN s[i] PROVE PairOK(s[i][j])
  BY <1>1, <1>4 DEF StackOK
<1> QED
  BY <1>1, <1>3, <1>4 DEF StackOK

LEMMA PushOK ==
  ASSUME NEW s, StackOK(s), NEW f \in Seq(Ty \X Ty),
         \A j \in DOMAIN f : PairOK(f[j])
  PROVE  StackOK(<<f>> \o s)
<1>1. s \in Seq(Seq(Ty \X Ty)) /\ <<f>> \in Seq(Seq(Ty \X Ty))
  BY DEF StackOK
<1>3. /\ <<f>> \o s \in Seq(Seq(Ty \X Ty))
      /\ Len(<<f>> \o s) = Len(s) + 1
      /\ (<<f>> \o s)[1] = f
      /\ \A i \in 2 .. Len(s) + 1 : (<<f>> \o s)[i] = s[i - 1]
  BY <1>1
<1>4. ASSUME NEW i \in 2 .. Len(s) + 1, NEW j \in DOMAIN s[i - 1]
      PROVE  PairOK(s[i - 1][j])
  BY <1>1, <1>4 DEF StackOK
<1> QED
  BY <1>1, <1>3, <1>4 DEF StackOK

LEMMA FrameOK ==
  ASSUME TypeOK, NoDanglingHandle, stack # << >>
  PROVE  Frame \in Seq(Ty \X Ty) /\ \A j \in DOMAIN Frame : PairOK(Frame[j])
<1>1. StackOK(stack) /\ 1 \in DOMAIN stack /\ Frame = stack[1]
  BY StackIsOK DEF TypeOK, Frame
<1> QED
  BY <1>1 DEF StackOK

LEMMA RestOK ==
  ASSUME TypeOK, NoDanglingHandle, Busy
  PROVE  StackOK(Rest) /\ Rest # << >>
<1>1. StackOK(stack) /\ stack # << >> /\ Frame # << >>
  BY StackIsOK DEF Busy
<1>2. Frame \in Seq(Ty \X Ty) /\ \A j \in DOMAIN Frame : PairOK(Frame[j])
  BY <1>1, FrameOK
<1>3. Tail(Frame) \in Seq(Ty \X Ty) /\ \A j \in DOMAIN Tail(Frame) : PairOK(Tail(Frame)[j])
  BY <1>1, <1>2
<1>4. StackOK(Rest)
  BY <1>1, <1>3, ReplaceOK DEF Rest
<1>5. Rest # << >>
  BY <1>1, <1>3 DEF Rest, StackOK
<1> QED
  BY <1>4, <1>5
-----------------------------------------------------------------------------
(* The invariant in the parts that the steps disturb.                      *)
ValOK == /\ val \in [Vars -> Ty \cup {Unbound}]
         /\ Closed(slots, val) /\ Acyclic(val) /\ LitOnly(val)
CallOK == /\ goal \in Ty \X Ty /\ StackOK(stack)
          /\ result \in {"none", "ok", "err"} /\ lost \in BOOLEAN
SlotsOK == slots \in SUBSET Vars /\ issued \subseteq slots
ProbesOK == snaps \in Seq(Tables) /\ SnapsOK

LEMMA Parts == IInv <=> SlotsOK /\ ValOK /\ ProbesOK /\ CallOK
  BY DEF IInv, TypeOK, NoDanglingHandle, NoCycle, SlotsOK, ValOK, ProbesOK, CallOK,
         StackOK, PairOK

(* A binding that keeps the table closed, acyclic and its literals apart.  *)
LEMMA BindKeepsValOK ==
  ASSUME ValOK, NEW v \in slots, NEW t \in Ty, VarsIn[t] \subseteq slots, SlotsOK,
         v \in IntVars => t \in IntPrims \cup IntVars \cup {ERROR},
         Acyclic([val EXCEPT ![v] = t]), Bind(v, t), slots' = slots
  PROVE  ValOK'
<1>1. v \in Vars /\ val' = [val EXCEPT ![v] = t]
  BY DEF SlotsOK, Bind
<1>2. val' \in [Vars -> Ty \cup {Unbound}]
  BY <1>1 DEF ValOK
<1>3. \A u \in Vars : Uses(val', u) = IF u = v THEN VarsIn[t] ELSE Uses(val, u)
  BY <1>1, KindsAssumption DEF KindsAssumption, Uses, ValOK
<1>4. Closed(slots, val')
  BY <1>1, <1>3 DEF Closed, ValOK
<1>5. LitOnly(val')
  BY <1>1 DEF LitOnly, ValOK, Vars
<1> QED
  BY <1>1, <1>2, <1>4, <1>5 DEF ValOK, Closed, Uses, Acyclic, LitOnly

(* The cases of unify_tys in which something is bound.                     *)
LEMMA LitStepKeepsValOK ==
  ASSUME IInv, Busy, slots' = slots, UnifyLit
  PROVE  ValOK'
<1>1. ValOK /\ SlotsOK /\ TypeOK /\ NoDanglingHandle
  BY Parts DEF IInv
<1>2. /\ Left \in Ty /\ Right \in Ty
      /\ VarsIn[Left] \subseteq slots /\ VarsIn[Right] \subseteq slots
  BY <1>1, TopOK
<1> DEFINE raw == IF Left \in IntVars THEN Right ELSE Left
<1>3. raw \in Ty /\ VarsIn[raw] \subseteq slots /\ LitPeer = Resolve(raw)
  BY <1>2 DEF LitPeer
<1>4. LitVar \in IntVars /\ LitVar \in Vars /\ LitVar \in slots
  BY <1>2, VarsInAssumption DEF UnifyLit, LitArm, LitVar, VarsInAssumption, Vars
<1> HIDE DEF raw
<1>5. /\ LitPeer \in Ty /\ VarsIn[LitPeer] \subseteq slots
      /\ LitPeer \in Vars => val[LitPeer] = Unbound
  BY <1>1, <1>3, ResolveReturns, ResolveHasSlots
<1>6. LitPeer \in IntPrims \cup IntVars \cup {ERROR} /\ LitPeer # LitVar /\ BindLit
  BY DEF UnifyLit
<1>7. LitPeer \notin Vars => VarsIn[LitPeer] = {}
  BY <1>6, VarsInAssumption DEF VarsInAssumption, Vars, Ground
<1>8. Acyclic([val EXCEPT ![LitVar] = LitPeer])
  BY <1>1, <1>4, <1>5, <1>6, <1>7, BindToRoot DEF ValOK
<1> QED
  BY <1>1, <1>4, <1>5, <1>6, <1>8, BindKeepsValOK DEF BindLit

LEMMA LitGeneralKeepsValOK ==
  ASSUME IInv, Busy, slots' = slots, UnifyLitGeneral
  PROVE  ValOK'
<1>1. ValOK /\ SlotsOK /\ TypeOK /\ NoDanglingHandle
  BY Parts DEF IInv
<1>2. /\ Left \in Ty /\ Right \in Ty
      /\ VarsIn[Left] \subseteq slots /\ VarsIn[Right] \subseteq slots
  BY <1>1, TopOK
<1> DEFINE raw == IF Left \in IntVars THEN Right ELSE Left
<1>3. raw \in Ty /\ VarsIn[raw] \subseteq slots /\ LitPeer = Resolve(raw)
  BY <1>2 DEF LitPeer
<1>4. /\ LitVar \in IntVars /\ LitVar \in Ty /\ LitVar \in Vars
      /\ VarsIn[LitVar] \subseteq slots
  BY <1>2 DEF UnifyLitGeneral, LitArm, LitVar, Vars
<1> HIDE DEF raw
<1>5. VarsIn[LitPeer] \subseteq slots /\ LitPeer \in TyVars
  BY <1>1, <1>3, ResolveHasSlots DEF UnifyLitGeneral
<1>6. LitPeer \in slots /\ LitPeer \notin IntVars
  BY <1>5, VarsInAssumption, KindsAssumption
     DEF VarsInAssumption, KindsAssumption, Vars
<1>7. Acyclic([val EXCEPT ![LitPeer] = LitVar])
  BY <1>1, <1>4, <1>5, BindToLit DEF ValOK
<1> QED
  BY <1>1, <1>4, <1>6, <1>7, BindKeepsValOK DEF UnifyLitGeneral

LEMMA UnboundKeepsValOK ==
  ASSUME IInv, Busy, slots' = slots, UnifyUnbound
  PROVE  ValOK'
<1>1. ValOK /\ SlotsOK /\ TypeOK /\ NoDanglingHandle
  BY Parts DEF IInv
<1>2. /\ Left \in Ty /\ Right \in Ty
      /\ VarsIn[Left] \subseteq slots /\ VarsIn[Right] \subseteq slots
  BY <1>1, TopOK
<1>3. /\ TyVar \in TyVars /\ TyVar \in Vars /\ VarsIn[TyVar] \subseteq slots
      /\ TyPeer \in Ty /\ VarsIn[TyPeer] \subseteq slots
  BY <1>2 DEF UnifyUnbound, TyArm, TyVar, TyPeer, Vars
<1>4. TyVar \in slots /\ TyVar \notin IntVars
  BY <1>3, VarsInAssumption, KindsAssumption DEF VarsInAssumption, KindsAssumption
<1>5. Acyclic([val EXCEPT ![TyVar] = TyPeer])
  BY <1>1, <1>3, BindUnlessOccurs DEF ValOK, UnifyUnbound
<1> QED
  BY <1>1, <1>3, <1>4, <1>5, BindKeepsValOK DEF UnifyUnbound
-----------------------------------------------------------------------------
(* The call that is under way, step by step.                               *)
LEMMA FailKeepsCallOK ==
  ASSUME IInv, Busy, slots' = slots, goal' = goal, Fail
  PROVE  CallOK'
<1>1. CallOK /\ stack # << >>
  BY Parts DEF Busy
<1>2. StackOK(stack')
  BY <1>1, TailOK DEF CallOK, Fail
<1> QED
  BY <1>1, <1>2 DEF CallOK, Fail, StackOK, PairOK

LEMMA NextKeepsCallOK ==
  ASSUME IInv, Busy, slots' = slots, goal' = goal, stack' = Rest,
         result' = result, lost' \in BOOLEAN
  PROVE  CallOK'
<1>1. CallOK /\ StackOK(Rest)
  BY Parts, RestOK DEF IInv
<1> QED
  BY <1>1 DEF CallOK, StackOK, PairOK

LEMMA FollowKeepsCallOK ==
  ASSUME IInv, Busy, slots' = slots, goal' = goal, UnifyBound
  PROVE  CallOK'
<1>1. CallOK /\ ValOK /\ SlotsOK /\ TypeOK /\ NoDanglingHandle
  BY Parts DEF IInv
<1>2. /\ Left \in Ty /\ Right \in Ty
      /\ VarsIn[Left] \subseteq slots /\ VarsIn[Right] \subseteq slots
  BY <1>1, TopOK
<1>3. /\ TyVar \in Vars /\ TyPeer \in Ty /\ VarsIn[TyPeer] \subseteq slots
      /\ val[TyVar] # Unbound
  BY <1>2 DEF UnifyBound, TyArm, TyVar, TyPeer, Vars
<1>4. val[TyVar] \in Ty /\ VarsIn[val[TyVar]] \subseteq slots
  BY <1>1, <1>3 DEF ValOK, Closed, Uses
<1>5. Resolve(TyPeer) \in Ty /\ VarsIn[Resolve(TyPeer)] \subseteq slots
  BY <1>1, <1>3, ResolveReturns, ResolveHasSlots
<1> DEFINE pair == <<val[TyVar], Resolve(TyPeer)>>
<1>6. PairOK(pair)
  BY <1>4, <1>5 DEF PairOK
<1> HIDE DEF pair
<1>7. <<pair>> \in Seq(Ty \X Ty) /\ \A j \in DOMAIN <<pair>> : PairOK(<<pair>>[j])
  BY <1>6 DEF PairOK
<1>8. StackOK(<< <<pair>> >> \o Rest)
  BY <1>1, <1>7, RestOK, PushOK
<1>9. stack' = << <<pair>> >> \o Rest /\ result' = result /\ lost' = lost
  BY DEF UnifyBound, Follow, pair
<1> QED
  BY <1>1, <1>8, <1>9 DEF CallOK, StackOK, PairOK

LEMMA ArgsKeepCallOK ==
  ASSUME IInv, Busy, slots' = slots, goal' = goal, UnifyArgs
  PROVE  CallOK'
<1>1. CallOK /\ TypeOK /\ NoDanglingHandle /\ stack # << >>
  BY Parts DEF IInv, Busy
<1>2. /\ Left \in Cons /\ Right \in Cons
      /\ VarsIn[Left] \subseteq slots /\ VarsIn[Right] \subseteq slots
      /\ Len(Args[Left]) = Len(Args[Right])
  BY <1>1, TopOK DEF UnifyArgs, Alike
<1>3. Args[Left] \in Seq(Ty) /\ Args[Right] \in Seq(Ty)
  BY <1>2, ArgsAssumption DEF ArgsAssumption
<1>4. ASSUME NEW i \in DOMAIN Args[Left]
      PROVE  PairOK(<<Args[Left][i], Args[Right][i]>>)
  <2>1. i \in DOMAIN Args[Right]
    BY <1>2, <1>3, <1>4
  <2>2. Args[Left][i] \in Ty /\ Args[Right][i] \in Ty
    BY <1>3, <1>4, <2>1
  <2>3. /\ VarsIn[Args[Left][i]] \subseteq VarsIn[Left]
        /\ VarsIn[Args[Right][i]] \subseteq VarsIn[Right]
    BY <1>2, <1>4, <2>1, VarsInAssumption DEF VarsInAssumption
  <2> QED
    BY <1>2, <2>2, <2>3 DEF PairOK
<1>5. Pairs \in Seq(Ty \X Ty) /\ \A j \in DOMAIN Pairs : PairOK(Pairs[j])
  <2>1. Len(Args[Left]) \in Nat /\ DOMAIN Args[Left] = 1 .. Len(Args[Left])
    BY <1>3
  <2>2. DOMAIN Pairs = 1 .. Len(Args[Left])
    BY <2>1 DEF Pairs
  <2>3. \A j \in DOMAIN Pairs : PairOK(Pairs[j])
    BY <1>4 DEF Pairs
  <2>4. Pairs \in [1 .. Len(Args[Left]) -> Ty \X Ty]
    BY <2>1, <1>4 DEF Pairs, PairOK
  <2> QED
    BY <2>1, <2>3, <2>4, SeqDef
<1>6. /\ Tail(Frame) \in Seq(Ty \X Ty)
      /\ \A j \in DOMAIN Tail(Frame) : PairOK(Tail(Frame)[j])
  BY <1>1, FrameOK DEF Busy
<1> DEFINE f == Pairs \o Tail(Frame)
<1>7. f \in Seq(Ty \X Ty) /\ \A j \in DOMAIN f : PairOK(f[j])
  <2> HIDE DEF Pairs
  <2>1. f \in Seq(Ty \X Ty) /\ Len(f) = Len(Pairs) + Len(Tail(Frame))
    BY <1>5, <1>6
  <2>2. ASSUME NEW j \in 1 .. Len(f) PROVE PairOK(f[j])
    <3>1. CASE j <= Len(Pairs)
      BY <1>5, <1>6, <2>2, <3>1
    <3>2. CASE j > Len(Pairs)
      <4>1. f[j] = Tail(Frame)[j - Len(Pairs)] /\ j - Len(Pairs) \in DOMAIN Tail(Frame)
        BY <1>5, <1>6, <2>1, <2>2, <3>2
      <4> QED
        BY <1>6, <4>1
    <3> QED
      BY <1>5, <2>2, <3>1, <3>2
  <2> QED
    BY <2>1, <2>2
<1> HIDE DEF f
<1>8. StackOK(<<f>> \o Tail(stack))
  BY <1>1, <1>7, ReplaceOK, StackIsOK
<1>9. stack' = <<f>> \o Tail(stack) /\ result' = result /\ lost' = lost
  BY DEF UnifyArgs, f
<1> QED
  BY <1>1, <1>8, <1>9 DEF CallOK, StackOK, PairOK

LEMMA UnifyTysKeepsIInv == IInv /\ UnifyTys => IInv'
<1> SUFFICES ASSUME IInv, UnifyTys PROVE IInv'
  OBVIOUS
<1>1. slots' = slots /\ issued' = issued /\ snaps' = snaps /\ goal' = goal
  BY DEF UnifyTys
<1>2. SlotsOK /\ ValOK /\ ProbesOK /\ CallOK
  BY Parts
<1>3. SlotsOK' /\ ProbesOK'
  BY <1>1, <1>2 DEF SlotsOK, ProbesOK, SnapsOK, SnapOK
<1>4. val' = val => ValOK'
  BY <1>1, <1>2 DEF ValOK, Closed, Uses, Acyclic, LitOnly
<1>5. lost \in BOOLEAN
  BY <1>2 DEF CallOK
<1>6. ValOK' /\ CallOK'
  <2>1. CASE Busy /\ (UnifyTrivial \/ UnifyLitSame)
    BY <2>1, <1>1, <1>4, <1>5, NextKeepsCallOK DEF UnifyTrivial, UnifyLitSame, Next1
  <2>2. CASE Busy /\ UnifyLit
    <3>1. stack' = Rest /\ result' = result /\ lost' \in BOOLEAN
      BY <2>2, <1>5 DEF UnifyLit
    <3> QED
      BY <2>2, <3>1, <1>1, LitStepKeepsValOK, NextKeepsCallOK
  <2>3. CASE Busy /\ UnifyLitGeneral
    BY <2>3, <1>1, <1>5, LitGeneralKeepsValOK, NextKeepsCallOK DEF UnifyLitGeneral, Next1
  <2>4. CASE Busy /\ (UnifyLitMismatch \/ UnifyInfinite \/ UnifyMismatch)
    BY <2>4, <1>1, <1>4, FailKeepsCallOK
       DEF UnifyLitMismatch, UnifyInfinite, UnifyMismatch, Fail
  <2>5. CASE Busy /\ UnifyBound
    BY <2>5, <1>1, <1>4, FollowKeepsCallOK DEF UnifyBound
  <2>6. CASE Busy /\ UnifyUnbound
    BY <2>6, <1>1, <1>5, UnboundKeepsValOK, NextKeepsCallOK DEF UnifyUnbound, Next1
  <2>7. CASE Busy /\ UnifyArgs
    BY <2>7, <1>1, <1>4, ArgsKeepCallOK DEF UnifyArgs
  <2>8. CASE EndFrame
    <3>1. StackOK(stack')
      BY <2>8, <1>2, TailOK DEF EndFrame, CallOK
    <3>2. goal' \in Ty \X Ty /\ result' \in {"none", "ok", "err"} /\ lost' \in BOOLEAN
      BY <2>8, <1>1, <1>2 DEF EndFrame, CallOK
    <3>3. CallOK'
      BY <3>1, <3>2, <1>1 DEF CallOK, StackOK, PairOK
    <3> QED
      BY <2>8, <3>3, <1>4 DEF EndFrame
  <2> QED
    BY <2>1, <2>2, <2>3, <2>4, <2>5, <2>6, <2>7, <2>8 DEF UnifyTys
<1>7. (SlotsOK /\ ValOK /\ ProbesOK /\ CallOK)' => IInv'
  BY <1>1 DEF IInv, TypeOK, NoDanglingHandle, NoCycle, SlotsOK, ValOK, ProbesOK,
     CallOK, StackOK, PairOK
<1> QED
  BY <1>3, <1>6, <1>7
-----------------------------------------------------------------------------
(* The checker's own steps.                                                *)
LEMMA NewVarKeepsIInv ==
  ASSUME IInv, NEW v \in Vars, NewVar(v)
  PROVE  IInv'
<1>1. /\ slots' = slots \cup {v} /\ issued' = issued \cup {v}
      /\ val' = val /\ snaps' = snaps /\ goal' = goal
      /\ stack' = stack /\ result' = result /\ lost' = lost
  BY DEF NewVar
<1>2. TypeOK'
  BY <1>1 DEF IInv, TypeOK
<1>3. NoDanglingHandle'
  BY <1>1 DEF IInv, NoDanglingHandle, Closed, Uses
<1>4. NoCycle' /\ LitOnly(val)'
  BY <1>1 DEF IInv, NoCycle, Acyclic, Uses, LitOnly
<1>5. SnapsOK'
  BY <1>1 DEF IInv, SnapsOK, SnapOK, Closed, Acyclic, Uses, LitOnly
<1> QED
  BY <1>2, <1>3, <1>4, <1>5 DEF IInv

LEMMA SnapshotKeepsIInv == IInv /\ Snapshot => IInv'
<1> SUFFICES ASSUME IInv, Snapshot PROVE IInv'
  OBVIOUS
<1> DEFINE s == [slots |-> slots, val |-> val]
<1>1. SlotsOK /\ ValOK /\ ProbesOK /\ CallOK
  BY Parts
<1>2. s \in Tables /\ s.slots = slots /\ s.val = val
  BY <1>1 DEF SlotsOK, ValOK, Tables
<1>3. SnapOK(s)
  BY <1>1, <1>2 DEF SnapOK, ValOK
<1> HIDE DEF s
<1>4. snaps' = <<s>> \o snaps
  BY DEF Snapshot, s
<1>5. snaps' \in Seq(Tables) /\ \A i \in DOMAIN snaps' : SnapOK(snaps'[i])
  <2>1. snaps \in Seq(Tables) /\ snaps' \in Seq(Tables)
    BY <1>1, <1>2, <1>4 DEF ProbesOK
  <2>2. /\ Len(snaps') = Len(snaps) + 1 /\ snaps'[1] = s
        /\ \A i \in 2 .. Len(snaps) + 1 : snaps'[i] = snaps[i - 1]
    BY <2>1, <1>2, <1>4
  <2>3. ASSUME NEW i \in 2 .. Len(snaps) + 1 PROVE SnapOK(snaps[i - 1])
    BY <1>1, <2>1, <2>3 DEF ProbesOK, SnapsOK
  <2> QED
    BY <1>3, <2>1, <2>2, <2>3
<1>6. UNCHANGED <<issued, slots, val, goal, stack, result, lost>>
  BY DEF Snapshot
<1>7. TypeOK' /\ NoDanglingHandle' /\ NoCycle' /\ LitOnly(val)'
  BY <1>5, <1>6 DEF IInv, TypeOK, NoDanglingHandle, NoCycle, LitOnly, Closed, Acyclic, Uses
<1>8. SnapsOK'
  BY <1>5, <1>6 DEF SnapsOK, SnapOK
<1> QED
  BY <1>7, <1>8 DEF IInv

LEMMA TailSnaps ==
  ASSUME ProbesOK, snaps # << >>, snaps' = Tail(snaps), slots' = slots
  PROVE  ProbesOK'
<1>1. snaps \in Seq(Tables) /\ Tail(snaps) \in Seq(Tables)
  BY DEF ProbesOK
<1>2. ASSUME NEW i \in DOMAIN Tail(snaps)
      PROVE  Tail(snaps)[i] = snaps[i + 1] /\ i + 1 \in DOMAIN snaps
  BY <1>1, <1>2
<1>3. \A i \in DOMAIN snaps' : SnapOK(snaps'[i])
  BY <1>2 DEF ProbesOK, SnapsOK
<1> QED
  BY <1>1, <1>3 DEF ProbesOK, SnapsOK, SnapOK

LEMMA CommitKeepsIInv == IInv /\ Commit => IInv'
<1> SUFFICES ASSUME IInv, Commit PROVE IInv'
  OBVIOUS
<1>1. ProbesOK'
  BY Parts, TailSnaps DEF Commit
<1>2. UNCHANGED <<issued, slots, val, goal, stack, result, lost>>
  BY DEF Commit
<1> QED
  BY <1>1, <1>2 DEF IInv, TypeOK, NoDanglingHandle, NoCycle, ProbesOK, LitOnly,
     Closed, Acyclic, Uses

LEMMA RollbackKeepsIInv == IInv /\ Rollback => IInv'
<1> SUFFICES ASSUME IInv, Rollback PROVE IInv'
  OBVIOUS
<1> DEFINE s == Head(snaps)
<1>1. SlotsOK /\ ValOK /\ ProbesOK /\ CallOK
  BY Parts
<1>2. s \in Tables /\ SnapOK(s)
  BY <1>1 DEF Rollback, ProbesOK, SnapsOK
<1>3. /\ s.slots \in SUBSET Vars /\ s.val \in [Vars -> Ty \cup {Unbound}]
      /\ Closed(s.slots, s.val) /\ Acyclic(s.val) /\ LitOnly(s.val)
      /\ s.slots \subseteq slots
  BY <1>2 DEF Tables, SnapOK
<1> HIDE DEF s
<1>4. /\ val' = [v \in Vars |-> IF v \in s.slots THEN s.val[v] ELSE val[v]]
      /\ snaps # << >> /\ snaps' = Tail(snaps)
      /\ UNCHANGED <<issued, slots, goal, stack, result, lost>>
  BY DEF Rollback, RollbackTo, s
<1>5. ProbesOK'
  BY <1>1, <1>4, TailSnaps
<1>6. val' \in [Vars -> Ty \cup {Unbound}]
  BY <1>1, <1>3, <1>4 DEF ValOK
<1>7. Acyclic(val')
  BY <1>1, <1>3, <1>4, RestoreAcyclic DEF ValOK
<1>8. \A v \in Vars : Uses(val', v) = IF v \in s.slots THEN Uses(s.val, v) ELSE Uses(val, v)
  BY <1>4 DEF Uses
<1>9. Closed(slots, val')
  BY <1>1, <1>3, <1>4, <1>8 DEF Closed, ValOK
<1>10. LitOnly(val')
  BY <1>1, <1>3, <1>4 DEF LitOnly, ValOK, Vars
<1>11. TypeOK'
  BY <1>1, <1>4, <1>5, <1>6 DEF IInv, TypeOK, ProbesOK
<1>12. NoDanglingHandle' /\ NoCycle' /\ LitOnly(val)'
  BY <1>4, <1>7, <1>9, <1>10
     DEF IInv, NoDanglingHandle, NoCycle, Closed, Acyclic, Uses, LitOnly
<1> QED
  BY <1>5, <1>11, <1>12 DEF IInv, ProbesOK

LEMMA UnifyKeepsIInv ==
  ASSUME IInv, NEW call \in Calls, Unify(call[1], call[2])
  PROVE  IInv'
<1>1. SlotsOK /\ ValOK /\ ProbesOK /\ CallOK /\ TypeOK /\ NoDanglingHandle
  BY Parts DEF IInv
<1>2. /\ call[1] \in Ty /\ call[2] \in Ty
      /\ VarsIn[call[1]] \subseteq slots /\ VarsIn[call[2]] \subseteq slots
  BY <1>1 DEF Unify, Written, SlotsOK
<1> DEFINE pair == <<Resolve(call[1]), Resolve(call[2])>>
<1>3. PairOK(pair)
  BY <1>1, <1>2, ResolveReturns, ResolveHasSlots DEF PairOK
<1> HIDE DEF pair
<1>4. /\ stack' = << <<pair>> >> /\ goal' = <<call[1], call[2]>> /\ lost' = FALSE
      /\ UNCHANGED <<issued, slots, val, snaps, result>>
  BY DEF Unify, pair
<1>5. StackOK(stack')
  BY <1>3, <1>4 DEF StackOK, PairOK
<1>6. TypeOK' /\ NoDanglingHandle'
  BY <1>1, <1>2, <1>4, <1>5 DEF TypeOK, NoDanglingHandle, StackOK, PairOK, Closed, Uses
<1>7. NoCycle' /\ LitOnly(val)' /\ SnapsOK'
  BY <1>4 DEF IInv, NoCycle, LitOnly, SnapsOK, SnapOK, Acyclic, Uses
<1> QED
  BY <1>6, <1>7 DEF IInv

LEMMA StutterKeepsIInv == IInv /\ (Return \/ UNCHANGED vars) => IInv'
<1> SUFFICES ASSUME IInv, Return \/ UNCHANGED vars PROVE IInv'
  OBVIOUS
<1>1. UNCHANGED <<issued, slots, val, snaps, stack>>
  BY DEF Return, vars
<1>2. NoGoal \in Ty \X Ty
  BY DEF NoGoal, Ty, Ground
<1>3. TypeOK'
  BY <1>1, <1>2 DEF IInv, TypeOK, Return, vars
<1>4. NoDanglingHandle' /\ NoCycle' /\ LitOnly(val)' /\ SnapsOK'
  BY <1>1 DEF IInv, NoDanglingHandle, NoCycle, LitOnly, SnapsOK, SnapOK, Closed,
     Acyclic, Uses
<1> QED
  BY <1>3, <1>4 DEF IInv

LEMMA StepIInv == IInv /\ [Next]_vars => IInv'
<1> SUFFICES ASSUME IInv, [Next]_vars PROVE IInv'
  OBVIOUS
<1>1. CASE \E v \in Vars : NewVar(v)
  BY <1>1, NewVarKeepsIInv
<1>2. CASE \E call \in Calls : Unify(call[1], call[2])
  BY <1>2, UnifyKeepsIInv
<1> QED
  BY <1>1, <1>2, SnapshotKeepsIInv, RollbackKeepsIInv, CommitKeepsIInv,
     UnifyTysKeepsIInv, StutterKeepsIInv DEF Next

(* Type correctness of the table, its probes and unify_tys's stack.        *)
THEOREM InferTypeOK == Spec => []TypeOK
<1>1. IInv => TypeOK
  BY DEF IInv
<1> QED
  BY <1>1, InitIInv, StepIInv, PTL DEF Spec

(* No cycle of bindings is ever installed: SOLVE-1 is closed, and rollback *)
(* does not open it again.                                                 *)
THEOREM InferNoCycle == Spec => []NoCycle
<1>1. IInv => NoCycle
  BY DEF IInv
<1> QED
  BY <1>1, InitIInv, StepIInv, PTL DEF Spec

(* Every handle in circulation, in a slot or on the stack of unify_tys has *)
(* its slot, whatever is rolled back.                                      *)
THEOREM InferNoDanglingHandle == Spec => []NoDanglingHandle
<1>1. IInv => NoDanglingHandle
  BY DEF IInv
<1> QED
  BY <1>1, InitIInv, StepIInv, PTL DEF Spec

(* A rollback leaves no variable of the snapshot dependent on the probe.   *)
THEOREM InferProbeForgotten == Spec => ProbeForgotten
<1>1. IInv /\ [Next]_vars => [RolledBack =>
        \A v \in Head(snaps).slots : Uses(val', v) \subseteq Head(snaps).slots]_vars
  <2> SUFFICES ASSUME IInv, Next, RolledBack, NEW v \in Head(snaps).slots
               PROVE  Uses(val', v) \subseteq Head(snaps).slots
    BY DEF vars, RolledBack
  <2>1. Rollback
    <3>1. snaps \in Seq(Tables) /\ snaps # << >> /\ snaps' = Tail(snaps) /\ val' # val
      BY DEF RolledBack, IInv, TypeOK
    <3>2. snaps' # snaps
      BY <3>1
    <3>3. ~Snapshot
      BY DEF RolledBack, Snapshot
    <3> QED
      BY <3>1, <3>2, <3>3 DEF Next, NewVar, Unify, UnifyTys, Return, Commit
  <2> DEFINE s == Head(snaps)
  <2>2. s \in Tables /\ SnapOK(s)
    BY <2>1 DEF Rollback, IInv, TypeOK, SnapsOK
  <2>3. v \in Vars /\ Closed(s.slots, s.val)
    BY <2>2 DEF Tables, SnapOK
  <2>4. Uses(val', v) = Uses(s.val, v)
    BY <2>1, <2>3 DEF Rollback, RollbackTo, Uses
  <2> QED
    BY <2>3, <2>4 DEF Closed
<1> QED
  BY <1>1, InitIInv, StepIInv, PTL DEF Spec, ProbeForgotten
-----------------------------------------------------------------------------
(* resolve_ty_shallow_preserve_int one binding at a time.                  *)
LEMMA ChainClosed ==
  ASSUME NEW t
  PROVE  \A u \in Chain(t) : u \in Vars /\ (val[u] \in Vars => val[u] \in Chain(t))
  BY DEF Chain

LEMMA ChainOfUnbound ==
  ASSUME NEW v \in Vars, val[v] \notin Vars
  PROVE  Chain(v) = {v}
<1>1. v \in Chain(v)
  BY DEF Chain
<1>2. {v} \in SUBSET Vars /\ \A u \in {v} : val[u] \in Vars => val[u] \in {v}
  OBVIOUS
<1>3. \A u \in Chain(v) : u \in {v}
  BY <1>2 DEF Chain
<1> QED
  BY <1>1, <1>3

LEMMA ChainOfBound ==
  ASSUME NEW v \in Vars, val[v] \in Vars
  PROVE  Chain(v) = {v} \cup Chain(val[v])
<1>1. v \in Chain(v) /\ val[v] \in Chain(v)
  BY DEF Chain
<1>2. \A u \in Chain(val[v]) : u \in Chain(v)
  BY DEF Chain
<1>3. ASSUME NEW u \in Chain(v) PROVE u \in {v} \cup Chain(val[v])
  <2> DEFINE S == {v} \cup Chain(val[v])
  <2>1. val[v] \in Chain(val[v])
    BY DEF Chain
  <2>2. S \in SUBSET Vars /\ \A w \in S : val[w] \in Vars => val[w] \in S
    BY <2>1, ChainClosed
  <2> HIDE DEF S
  <2>3. v \in S
    BY DEF S
  <2>4. u \in S
    BY <2>2, <2>3 DEF Chain
  <2> QED
    BY <2>4 DEF S
<1> QED
  BY <1>1, <1>2, <1>3

(* The chain of an acyclic table has one end, the type Resolve returns.    *)
LEMMA OneEnd ==
  ASSUME TypeOK, NoCycle, NEW v \in Vars
  PROVE  \E e \in Vars : {w \in Chain(v) : val[w] \notin Vars} = {e}
<1> DEFINE Ends(u) == {w \in Chain(u) : val[w] \notin Vars}
           S == {u \in Vars : ~\E e \in Vars : Ends(u) = {e}}
<1>1. SUFFICES ASSUME S # {} PROVE FALSE
  OBVIOUS
<1>2. PICK u \in S : Uses(val, u) \cap S = {}
  BY <1>1 DEF NoCycle, Acyclic
<1>3. CASE val[u] \notin Vars
  <2>1. Ends(u) = {u}
    BY <1>3, ChainOfUnbound
  <2> QED
    BY <2>1
<1>4. CASE val[u] \in Vars
  <2>1. Uses(val, u) = {val[u]}
    BY <1>4, KindsAssumption, VarsInAssumption DEF KindsAssumption, VarsInAssumption, Uses, Ty
  <2>2. PICK e \in Vars : Ends(val[u]) = {e}
    BY <1>2, <1>4, <2>1
  <2>3. Ends(u) = Ends(val[u])
    BY <1>4, ChainOfBound
  <2> QED
    BY <2>2, <2>3
<1> QED
  BY <1>3, <1>4

LEMMA ResolveVar ==
  ASSUME TypeOK, NoCycle, NEW v \in Vars
  PROVE  /\ val[v] = Unbound => Resolve(v) = v
         /\ val[v] # Unbound => Resolve(v) = Resolve(val[v])
<1> DEFINE Ends(u) == {w \in Chain(u) : val[w] \notin Vars}
<1>1. ASSUME NEW u \in Vars, NEW e \in Vars, Ends(u) = {e}
      PROVE  Resolve(u) = IF val[e] = Unbound THEN e ELSE val[e]
  <2>1. e \in Chain(u) /\ val[e] \notin Vars /\ \A w \in Chain(u) : val[w] \notin Vars => w = e
    BY <1>1
  <2>2. (CHOOSE w \in Chain(u) : val[w] \notin Vars) = e
    BY <2>1
  <2> QED
    BY <2>1, <2>2 DEF Resolve
<1>2. Unbound \notin Vars
  BY KindsAssumption DEF KindsAssumption, Ty
<1>3. CASE val[v] \notin Vars
  <2>1. Ends(v) = {v}
    BY <1>3, ChainOfUnbound
  <2>2. Resolve(v) = IF val[v] = Unbound THEN v ELSE val[v]
    BY <1>1, <2>1
  <2> QED
    BY <1>3, <2>2 DEF Resolve
<1>4. CASE val[v] \in Vars
  <2>1. PICK e \in Vars : Ends(val[v]) = {e}
    BY <1>4, OneEnd
  <2>2. Ends(v) = Ends(val[v])
    BY <1>4, ChainOfBound
  <2> QED
    BY <1>1, <1>2, <1>4, <2>1, <2>2
<1> QED
  BY <1>3, <1>4

(* The same of any state, and so of the next one.                          *)
ResolveSteps == TypeOK /\ NoCycle =>
  \A v \in Vars : /\ val[v] = Unbound => Resolve(v) = v
                  /\ \A u \in Ty : val[v] = u => Resolve(v) = Resolve(u)
LEMMA ResolveStepsNow == ResolveSteps
<1> SUFFICES ASSUME TypeOK, NoCycle PROVE ResolveSteps
  BY DEF ResolveSteps
<1>1. Unbound \notin Ty
  BY KindsAssumption DEF KindsAssumption
<1> QED
  BY <1>1, ResolveVar DEF ResolveSteps
LEMMA ResolveStepsNext == ResolveSteps'
  BY ResolveStepsNow, PTL

LEMMA ResolveOther ==
  ASSUME NEW t, t \notin Vars
  PROVE  Resolve(t) = t
  BY DEF Resolve

(* Binding the end of some chains joins them to what t stands for.         *)
LEMMA BindResolves ==
  ASSUME TypeOK, NoCycle, TypeOK', NoCycle', NEW v \in Vars, NEW t \in Ty, val[v] = Unbound,
         val' = [val EXCEPT ![v] = t]
  PROVE  /\ Resolve(t) # v
         /\ \A a \in Ty : Resolve(a)' = IF Resolve(a) = v THEN Resolve(t) ELSE Resolve(a)
<1>1. /\ val'[v] = t /\ t # Unbound /\ \A u \in Vars : u # v => val'[u] = val[u]
      /\ \A u \in Vars : val[u] \in Ty \/ val[u] = Unbound
  BY KindsAssumption DEF KindsAssumption, TypeOK
(* Whoever reaches v before the binding could not be what v is bound to.   *)
<1>2. Resolve(t) # v
  <2>1. SUFFICES ASSUME Resolve(t) = v PROVE FALSE
    OBVIOUS
  <2> DEFINE S == {u \in Vars : Resolve(u) = v}
  <2>2. t \in Vars
    BY <2>1, ResolveOther
  <2>3. t \in S
    BY <2>1, <2>2
  <2>4. PICK u \in S : Uses(val', u) \cap S = {}
    BY <2>3 DEF NoCycle, Acyclic
  <2>5. CASE u = v
    <3>1. Uses(val', v) = {t}
      BY <1>1, <2>2, VarsInAssumption DEF VarsInAssumption, Uses
    <3> QED
      BY <2>3, <2>4, <2>5, <3>1
  <2>6. CASE u # v
    <3>1. val'[u] = val[u] /\ Resolve(u) = v
      BY <1>1, <2>6
    <3>2. val[u] # Unbound /\ Resolve(val[u]) = v
      BY <2>6, <3>1, ResolveVar
    <3>3. val[u] \in Vars
      BY <3>2, ResolveOther
    <3>4. Uses(val', u) = {val[u]}
      BY <3>1, <3>2, <3>3, VarsInAssumption DEF VarsInAssumption, Uses
    <3> QED
      BY <2>4, <3>2, <3>3, <3>4
  <2> QED
    BY <2>5, <2>6
<1> DEFINE Now(a) == IF Resolve(a) = v THEN Resolve(t) ELSE Resolve(a)
           S == {u \in Vars : Resolve(u)' # Now(u)}
<1>3. \A a \in Ty \ Vars : Resolve(a)' = Now(a)
  <2> SUFFICES ASSUME NEW a \in Ty \ Vars PROVE Resolve(a)' = Now(a)
    OBVIOUS
  <2>1. Resolve(a)' = a /\ Resolve(a) = a
    BY DEF Resolve
  <2> QED
    BY <2>1
<1>4. S = {}
  <2>1. SUFFICES ASSUME S # {} PROVE FALSE
    OBVIOUS
  <2>2. PICK u \in S : Uses(val', u) \cap S = {}
    BY <2>1 DEF NoCycle, Acyclic
  <2>3. /\ val'[u] = Unbound => Resolve(u)' = u
        /\ \A w \in Ty : val'[u] = w => Resolve(u)' = Resolve(w)'
    BY ResolveStepsNext DEF ResolveSteps
  <2>4. CASE u = v
    <3>1. Resolve(u)' = Resolve(t)'
      BY <1>1, <2>3, <2>4
    <3>2. Now(u) = Resolve(t)
      BY <2>4, ResolveVar
    <3>3. Resolve(t)' = Now(t)
      <4>1. CASE t \in Vars
        <5>1. Uses(val', u) = {t}
          BY <1>1, <2>4, <4>1, VarsInAssumption DEF VarsInAssumption, Uses
        <5> QED
          BY <2>2, <4>1, <5>1
      <4> QED
        BY <1>3, <4>1
    <3> QED
      BY <1>2, <2>2, <3>1, <3>2, <3>3
  <2>5. CASE u # v /\ val[u] = Unbound
    <3>1. val'[u] = Unbound
      BY <1>1, <2>5
    <3>2. Resolve(u)' = u /\ Resolve(u) = u
      BY <2>3, <2>5, <3>1, ResolveVar
    <3> QED
      BY <2>2, <2>5, <3>2
  <2>6. CASE u # v /\ val[u] # Unbound
    <3>1. PICK w \in Ty : w = val[u] /\ w = val'[u]
      BY <1>1, <2>6
    <3>2. Resolve(u)' = Resolve(w)' /\ Resolve(u) = Resolve(w)
      BY <2>3, <2>6, <3>1, ResolveVar
    <3>3. Resolve(w)' = Now(w)
      <4>1. CASE w \in Vars
        <5>1. w \notin S
          <6>1. Uses(val', u) = {w}
            BY <2>6, <3>1, <4>1, VarsInAssumption DEF VarsInAssumption, Uses
          <6> QED
            BY <2>2, <6>1
        <5> QED
          BY <4>1, <5>1
      <4> QED
        BY <1>3, <4>1
    <3> QED
      BY <2>2, <3>2, <3>3
  <2> QED
    BY <2>4, <2>5, <2>6
<1> QED
  BY <1>2, <1>3, <1>4 DEF Ty
-----------------------------------------------------------------------------
(* The pairs that unify_tys has yet to unify.                              *)
InSeq(f, q) == \E j \in DOMAIN f : f[j] = q
PendingIn(s, q) == \E i \in DOMAIN s : InSeq(s[i], q)

LEMMA InTail ==
  ASSUME NEW f \in Seq(Ty \X Ty), f # << >>, NEW q, InSeq(f, q)
  PROVE  q = Head(f) \/ InSeq(Tail(f), q)
<1>1. PICK j \in 1..Len(f) : f[j] = q
  BY DEF InSeq
<1>2. CASE j = 1
  BY <1>1, <1>2
<1>3. CASE j # 1
  <2>1. j - 1 \in DOMAIN Tail(f) /\ Tail(f)[j - 1] = q
    BY <1>1, <1>3
  <2> QED
    BY <2>1 DEF InSeq
<1> QED
  BY <1>2, <1>3

LEMMA InConcat ==
  ASSUME NEW f \in Seq(Ty \X Ty), NEW g \in Seq(Ty \X Ty), NEW q, InSeq(f, q) \/ InSeq(g, q)
  PROVE  InSeq(f \o g, q)
<1>1. f \o g \in Seq(Ty \X Ty) /\ Len(f \o g) = Len(f) + Len(g)
  OBVIOUS
<1>2. CASE InSeq(f, q)
  <2>1. PICK j \in 1..Len(f) : f[j] = q
    BY <1>2 DEF InSeq
  <2>2. j \in DOMAIN (f \o g) /\ (f \o g)[j] = q
    BY <1>1, <2>1
  <2> QED
    BY <2>2 DEF InSeq
<1>3. CASE InSeq(g, q)
  <2>1. PICK j \in 1..Len(g) : g[j] = q
    BY <1>3 DEF InSeq
  <2>2. Len(f) + j \in DOMAIN (f \o g) /\ (f \o g)[Len(f) + j] = q
    BY <1>1, <2>1
  <2> QED
    BY <2>2 DEF InSeq
<1> QED
  BY <1>2, <1>3

LEMMA PendingTail ==
  ASSUME NEW s \in Seq(Seq(Ty \X Ty)), s # << >>, NEW q, PendingIn(s, q)
  PROVE  InSeq(Head(s), q) \/ PendingIn(Tail(s), q)
<1>1. PICK i \in 1..Len(s) : InSeq(s[i], q)
  BY DEF PendingIn
<1>2. CASE i = 1
  <2>1. Head(s) = s[i]
    BY <1>2
  <2> QED
    BY <1>1, <2>1
<1>3. CASE i # 1
  <2>1. i - 1 \in DOMAIN Tail(s) /\ Tail(s)[i - 1] = s[i]
    BY <1>1, <1>3
  <2> QED
    BY <1>1, <2>1 DEF PendingIn
<1> QED
  BY <1>2, <1>3

LEMMA PendingPush ==
  ASSUME NEW s \in Seq(Seq(Ty \X Ty)), NEW f \in Seq(Ty \X Ty), NEW q,
         InSeq(f, q) \/ PendingIn(s, q)
  PROVE  PendingIn(<<f>> \o s, q)
<1>1. /\ <<f>> \o s \in Seq(Seq(Ty \X Ty)) /\ Len(<<f>> \o s) = Len(s) + 1
      /\ (<<f>> \o s)[1] = f
      /\ \A i \in 1..Len(s) : (<<f>> \o s)[i + 1] = s[i]
  <2>1. <<f>> \in Seq(Seq(Ty \X Ty)) /\ Len(<<f>>) = 1
    OBVIOUS
  <2> QED
    BY <2>1
<1>2. CASE InSeq(f, q)
  <2>1. 1 \in DOMAIN (<<f>> \o s)
    BY <1>1
  <2> QED
    BY <1>1, <1>2, <2>1 DEF PendingIn
<1>3. CASE PendingIn(s, q)
  <2>1. PICK i \in 1..Len(s) : InSeq(s[i], q)
    BY <1>3 DEF PendingIn
  <2>2. i + 1 \in DOMAIN (<<f>> \o s) /\ (<<f>> \o s)[i + 1] = s[i]
    BY <1>1
  <2> QED
    BY <2>1, <2>2 DEF PendingIn
<1> QED
  BY <1>2, <1>3

(* Taking the first pair off the stack, and what a step puts there.        *)
Top == <<Left, Right>>

LEMMA PendingRest ==
  ASSUME TypeOK, Busy
  PROVE  /\ Rest \in Seq(Seq(Ty \X Ty))
         /\ Frame \in Seq(Ty \X Ty) /\ Tail(Frame) \in Seq(Ty \X Ty)
         /\ Tail(stack) \in Seq(Seq(Ty \X Ty))
         /\ Top \in Ty \X Ty
         /\ \A q : PendingIn(stack, q) =>
              q = Top \/ InSeq(Tail(Frame), q) \/ PendingIn(Tail(stack), q)
         /\ \A q : PendingIn(stack, q) => q = Top \/ PendingIn(Rest, q)
<1>1. stack \in Seq(Seq(Ty \X Ty)) /\ stack # << >> /\ Frame # << >>
  BY DEF TypeOK, Busy
<1>2. Frame \in Seq(Ty \X Ty) /\ Tail(stack) \in Seq(Seq(Ty \X Ty))
  BY <1>1 DEF Frame
<1>3. Head(Frame) \in Ty \X Ty /\ Tail(Frame) \in Seq(Ty \X Ty)
  BY <1>1, <1>2
<1>4. Top = Head(Frame)
  BY <1>3 DEF Top, Left, Right
<1>5. Rest \in Seq(Seq(Ty \X Ty))
  BY <1>2, <1>3 DEF Rest
<1>6. ASSUME NEW q, PendingIn(stack, q)
      PROVE  q = Top \/ InSeq(Tail(Frame), q) \/ PendingIn(Tail(stack), q)
  BY <1>1, <1>2, <1>4, <1>6, InTail, PendingTail DEF Frame
<1>7. ASSUME NEW q, InSeq(Tail(Frame), q) \/ PendingIn(Tail(stack), q) PROVE PendingIn(Rest, q)
  BY <1>2, <1>3, <1>7, PendingPush DEF Rest
<1> QED
  BY <1>2, <1>3, <1>4, <1>5, <1>6, <1>7
-----------------------------------------------------------------------------
(* A call that will return Ok is accounted for: there is a set of pairs    *)
(* with the goal, each of which is the same at its root with its arguments *)
(* in the set again, or is pending, in either order.                       *)
Ends(p) == {Resolve(p[1]), Resolve(p[2])}
Waits(p) == \E q \in Ty \X Ty : PendingIn(stack, q) /\ Ends(q) = Ends(p)
Agreed(p, same) == Agree(Resolve(p[1]), Resolve(p[2]), same)
Justified(same) == \A p \in same : Agreed(p, same) \/ Waits(p)
Accounted == ~lost /\ (stack # << >> \/ result = "ok") =>
  \E same \in SUBSET (Ty \X Ty) : goal \in same /\ Justified(same)
OneCall == stack # << >> => result = "none"

EInv == IInv /\ Accounted /\ OneCall

(* A step that takes one pair from the stack, and joins what some types    *)
(* resolve to; rho keeps everything that is no variable.                   *)
LEMMA JustifiedStep ==
  ASSUME TypeOK, NEW same \in SUBSET (Ty \X Ty), Justified(same),
         NEW rho \in [Ty -> Ty], \A x \in Ty \ Vars : rho[x] = x,
         \A a \in Ty : Resolve(a)' = rho[Resolve(a)],
         NEW top \in Ty \X Ty,
         \A q \in Ty \X Ty : PendingIn(stack, q) => q = top \/ PendingIn(stack', q),
         \A p \in same : Ends(p) = Ends(top) => Agreed(p, same)' \/ Waits(p)'
  PROVE  Justified(same)'
<1>1. SUFFICES ASSUME NEW p \in same PROVE Agreed(p, same)' \/ Waits(p)'
  BY DEF Justified
<1>2. /\ p \in Ty \X Ty /\ p[1] \in Ty /\ p[2] \in Ty
      /\ Resolve(p[1]) \in Ty /\ Resolve(p[2]) \in Ty
  BY ResolveReturns
<1>3. \A q \in Ty \X Ty : Ends(q)' = {rho[Resolve(q[1])], rho[Resolve(q[2])]}
  BY DEF Ends
<1>4. CASE Agreed(p, same)
  <2>1. PICK x \in Ty, y \in Ty : x = Resolve(p[1]) /\ y = Resolve(p[2])
    BY <1>2
  <2>2. Agree(x, y, same)
    BY <1>4, <2>1 DEF Agreed
  <2>3. Agree(rho[x], rho[y], same)
    <3>1. ERROR \in Ty \ Vars /\ NEVER \in Ty \ Vars /\ Cons \subseteq Ty \ Vars
      BY KindsAssumption DEF KindsAssumption, Ty, Ground
    <3>2. CASE x = y
      BY <3>2 DEF Agree
    <3>3. CASE {x, y} \cap {ERROR, NEVER} # {}
      BY <3>1, <3>3 DEF Agree
    <3>4. CASE x \in Cons /\ y \in Cons
      BY <2>2, <3>1, <3>4 DEF Agree
    <3> QED
      BY <2>2, <3>2, <3>3, <3>4 DEF Agree
  <2>4. Resolve(p[1])' = rho[x] /\ Resolve(p[2])' = rho[y]
    BY <1>2, <2>1
  <2> QED
    BY <2>3, <2>4 DEF Agreed, Agree
<1>5. CASE Waits(p)
  <2>1. PICK q \in Ty \X Ty : PendingIn(stack, q) /\ Ends(q) = Ends(p)
    BY <1>5 DEF Waits
  <2>2. CASE q = top
    BY <2>1, <2>2
  <2>3. CASE PendingIn(stack', q)
    <3>1. Ends(q)' = Ends(p)'
      BY <1>2, <1>3, <2>1 DEF Ends
    <3> QED
      BY <2>3, <3>1 DEF Waits, PendingIn, InSeq
  <2> QED
    BY <2>1, <2>2, <2>3
<1> QED
  BY <1>4, <1>5 DEF Justified

(* No binding.                                                             *)
LEMMA SameResolve ==
  ASSUME val' = val, NEW a
  PROVE  Resolve(a)' = Resolve(a)
  BY DEF Resolve, Chain

LEMMA JustifiedPop ==
  ASSUME TypeOK, NEW same \in SUBSET (Ty \X Ty), Justified(same), val' = val,
         NEW top \in Ty \X Ty,
         \A q \in Ty \X Ty : PendingIn(stack, q) => q = top \/ PendingIn(stack', q),
         \A p \in same : Ends(p) = Ends(top) => Agreed(p, same) \/ Waits(p)'
  PROVE  Justified(same)'
<1>1. PICK rho \in [Ty -> Ty] : rho = [x \in Ty |-> x]
  OBVIOUS
<1>2. \A x \in Ty \ Vars : rho[x] = x
  BY <1>1
<1>3. \A a \in Ty : Resolve(a)' = rho[Resolve(a)]
  BY <1>1, SameResolve, ResolveReturns
<1>4. \A p \in same : Agreed(p, same)' <=> Agreed(p, same)
  BY SameResolve DEF Agreed, Agree
<1> QED
  BY <1>2, <1>3, <1>4, JustifiedStep

(* A binding that makes the two sides of the pair the same.                *)
LEMMA JustifiedBind ==
  ASSUME TypeOK, NoCycle, TypeOK', NoCycle', NEW same \in SUBSET (Ty \X Ty), Justified(same),
         NEW v \in Vars, NEW t \in Ty, val[v] = Unbound, val' = [val EXCEPT ![v] = t],
         NEW top \in Ty \X Ty,
         \A q \in Ty \X Ty : PendingIn(stack, q) => q = top \/ PendingIn(stack', q),
         LET Now(x) == IF x = v THEN Resolve(t) ELSE x
         IN  Now(Resolve(top[1])) = Now(Resolve(top[2]))
  PROVE  Justified(same)'
<1>1. Resolve(t) \in Ty
  BY ResolveReturns
<1>2. PICK rho \in [Ty -> Ty] : rho = [x \in Ty |-> IF x = v THEN Resolve(t) ELSE x]
  BY <1>1
<1>3. \A x \in Ty \ Vars : rho[x] = x
  BY <1>2
<1>4. \A a \in Ty : Resolve(a) \in Ty
  BY ResolveReturns
<1>5. \A a \in Ty : Resolve(a)' = rho[Resolve(a)]
  BY <1>2, <1>4, BindResolves
<1>6. rho[Resolve(top[1])] = rho[Resolve(top[2])]
  BY <1>2, <1>4
<1>7. ASSUME NEW p \in same, Ends(p) = Ends(top) PROVE Agreed(p, same)'
  <2>1. p[1] \in Ty /\ p[2] \in Ty
    OBVIOUS
  <2>2. Resolve(p[1]) \in Ends(top) /\ Resolve(p[2]) \in Ends(top)
    BY <1>7 DEF Ends
  <2>3. rho[Resolve(p[1])] = rho[Resolve(p[2])]
    BY <1>6, <2>2 DEF Ends
  <2>4. Resolve(p[1])' = Resolve(p[2])'
    BY <1>5, <2>1, <2>3
  <2> QED
    BY <2>4 DEF Agreed, Agree
<1> QED
  BY <1>3, <1>5, <1>7, JustifiedStep
-----------------------------------------------------------------------------
(* What the types of the pair on top resolve to.                           *)
LEMMA TopResolves ==
  ASSUME IInv, Busy
  PROVE  /\ Left \in Ty /\ Right \in Ty /\ Top \in Ty \X Ty /\ Top[1] = Left /\ Top[2] = Right
         /\ Resolve(Left) \in Ty /\ Resolve(Right) \in Ty
         /\ \A t \in Ty : Resolve(Resolve(t)) = Resolve(t)
<1>1. TypeOK /\ NoCycle /\ NoDanglingHandle
  BY DEF IInv
<1>2. Left \in Ty /\ Right \in Ty
  BY <1>1, TopOK
<1>3. \A t \in Ty : Resolve(Resolve(t)) = Resolve(t)
  BY <1>1, ResolveReturns, ResolveVar, ResolveOther
<1> QED
  BY <1>1, <1>2, <1>3, ResolveReturns DEF Top

LEMMA TrivialAccounts ==
  ASSUME IInv, Busy, Trivial, stack' = Rest, val' = val,
         NEW same \in SUBSET (Ty \X Ty), Justified(same)
  PROVE  Justified(same)'
<1>1. TypeOK
  BY DEF IInv
<1>2. \A p \in same : Ends(p) = Ends(Top) => Agreed(p, same)
  <2>1. ERROR \notin Vars /\ NEVER \notin Vars
    BY KindsAssumption DEF KindsAssumption, Ground
  <2>2. Ends(Top) = {Resolve(Left), Resolve(Right)}
    BY TopResolves DEF Ends
  <2>3. CASE Left = Right
    BY <2>2, <2>3 DEF Ends, Agreed, Agree
  <2>4. CASE {Left, Right} \cap {ERROR, NEVER} # {}
    <3>1. Ends(Top) \cap {ERROR, NEVER} # {}
      BY <2>1, <2>2, <2>4, ResolveOther
    <3> QED
      BY <3>1 DEF Ends, Agreed, Agree
  <2> QED
    BY <2>3, <2>4 DEF Trivial
<1>3. \A q \in Ty \X Ty : PendingIn(stack, q) => q = Top \/ PendingIn(stack', q)
  BY <1>1, PendingRest
<1> QED
  BY <1>1, <1>2, <1>3, TopResolves, JustifiedPop

(* The two sides of a literal's arm.                                       *)
LEMMA LitSides ==
  ASSUME IInv, Busy, LitArm
  PROVE  /\ LitVar \in IntVars /\ LitVar \in Vars /\ LitVar \in Ty
         /\ LitPeer \in Ty /\ Resolve(LitPeer) = LitPeer
         /\ LitPeer \in Vars => val[LitPeer] = Unbound
         /\ Ends(Top) = {Resolve(LitVar), LitPeer}
<1> DEFINE raw == IF Left \in IntVars THEN Right ELSE Left
<1>1. raw \in Ty /\ LitPeer = Resolve(raw) /\ TypeOK
  BY TopResolves DEF LitPeer, IInv
<1>2. LitVar \in IntVars /\ LitVar \in Vars /\ LitVar \in Ty
  BY DEF LitArm, LitVar, Vars, Ty
<1>3. Ends(Top) = {Resolve(LitVar), Resolve(raw)}
  BY TopResolves DEF Ends, LitVar
<1> HIDE DEF raw
<1> QED
  BY <1>1, <1>2, <1>3, TopResolves, ResolveReturns

LEMMA LitSameAccounts ==
  ASSUME IInv, Busy, UnifyLitSame, NEW same \in SUBSET (Ty \X Ty), Justified(same)
  PROVE  Justified(same)'
<1>1. TypeOK /\ NoCycle
  BY DEF IInv
<1>2. /\ LitArm /\ LitPeer = LitVar /\ stack' = Rest /\ val' = val
  BY DEF UnifyLitSame, Next1
<1>3. Ends(Top) = {LitVar}
  BY <1>2, LitSides
<1>4. \A p \in same : Ends(p) = Ends(Top) => Agreed(p, same)
  BY <1>3 DEF Ends, Agreed, Agree
<1>5. \A q \in Ty \X Ty : PendingIn(stack, q) => q = Top \/ PendingIn(stack', q)
  BY <1>1, <1>2, PendingRest
<1> QED
  BY <1>1, <1>2, <1>4, <1>5, TopResolves, JustifiedPop

(* A binding in the form the lemma above takes it.                         *)
LEMMA BindAccounts ==
  ASSUME IInv, IInv', Busy, stack' = Rest, NEW v \in Vars, NEW t \in Ty, val[v] = Unbound, Bind(v, t),
         NEW x, Ends(Top) = {v, x}, x = Resolve(t) \/ (x = v /\ Resolve(t) = v),
         NEW same \in SUBSET (Ty \X Ty), Justified(same)
  PROVE  Justified(same)'
<1>1. TypeOK /\ NoCycle /\ TypeOK' /\ NoCycle'
  BY DEF IInv
<1>2. val' = [val EXCEPT ![v] = t]
  BY DEF Bind
<1>3. Resolve(t) # v
  BY <1>1, <1>2, BindResolves
<1>4. \A q \in Ty \X Ty : PendingIn(stack, q) => q = Top \/ PendingIn(stack', q)
  BY <1>1, PendingRest
<1>5. LET Now(y) == IF y = v THEN Resolve(t) ELSE y
      IN  Now(Resolve(Top[1])) = Now(Resolve(Top[2]))
  BY <1>3 DEF Ends
<1> QED
  BY <1>1, <1>2, <1>4, <1>5, TopResolves, JustifiedBind

LEMMA LitAccounts ==
  ASSUME IInv, IInv', Busy, UnifyLit, ~lost', NEW same \in SUBSET (Ty \X Ty), Justified(same)
  PROVE  Justified(same)'
<1>1. LitArm /\ stack' = Rest /\ BindLit /\ val[LitVar] = Unbound
  BY DEF UnifyLit
<1>2. Resolve(LitVar) = LitVar
  BY <1>1, LitSides, ResolveVar DEF IInv
<1> QED
  BY <1>1, <1>2, LitSides, BindAccounts DEF BindLit

LEMMA LitGeneralAccounts ==
  ASSUME IInv, IInv', Busy, UnifyLitGeneral, NEW same \in SUBSET (Ty \X Ty), Justified(same)
  PROVE  Justified(same)'
<1>1. LitArm /\ stack' = Rest /\ LitPeer \in Vars /\ Bind(LitPeer, LitVar)
  BY DEF UnifyLitGeneral, Next1, Vars
<1>2. Ends(Top) = {LitPeer, Resolve(LitVar)} /\ val[LitPeer] = Unbound
  BY <1>1, LitSides
<1> QED
  BY <1>1, <1>2, LitSides, BindAccounts

LEMMA TySides ==
  ASSUME IInv, Busy, TyArm
  PROVE  /\ TyVar \in TyVars /\ TyVar \in Vars /\ TyVar \in Ty /\ TyPeer \in Ty
         /\ Ends(Top) = {Resolve(TyVar), Resolve(TyPeer)}
<1>1. TyVar \in TyVars /\ TyVar \in Vars /\ TyVar \in Ty /\ TyPeer \in Ty
  BY TopResolves DEF TyArm, TyVar, TyPeer, Vars, Ty
<1>2. Ends(Top) = {Resolve(TyVar), Resolve(TyPeer)}
  BY TopResolves DEF Ends, TyVar, TyPeer
<1> QED
  BY <1>1, <1>2

LEMMA UnboundAccounts ==
  ASSUME IInv, IInv', Busy, UnifyUnbound, NEW same \in SUBSET (Ty \X Ty), Justified(same)
  PROVE  Justified(same)'
<1>1. TyArm /\ stack' = Rest /\ val[TyVar] = Unbound /\ Bind(TyVar, TyPeer)
  BY DEF UnifyUnbound, Next1
<1>2. Resolve(TyVar) = TyVar
  BY <1>1, TySides, ResolveVar DEF IInv
<1> QED
  BY <1>1, <1>2, TySides, BindAccounts

(* A bound variable: its value waits in its place.                         *)
LEMMA BoundAccounts ==
  ASSUME IInv, Busy, UnifyBound, NEW same \in SUBSET (Ty \X Ty), Justified(same)
  PROVE  Justified(same)'
<1>1. TypeOK /\ NoCycle
  BY DEF IInv
<1>2. TyArm /\ val[TyVar] # Unbound /\ val' = val
  BY DEF UnifyBound
<1>3. TyVar \in Vars /\ TyPeer \in Ty /\ val[TyVar] \in Ty
  BY <1>1, <1>2, TySides DEF TypeOK
<1>4. PICK pair \in Ty \X Ty : pair = <<val[TyVar], Resolve(TyPeer)>>
  BY <1>1, <1>3, ResolveReturns
<1>5. Ends(pair) = Ends(Top)
  <2>1. Resolve(val[TyVar]) = Resolve(TyVar) /\ Resolve(Resolve(TyPeer)) = Resolve(TyPeer)
    BY <1>1, <1>2, <1>3, TopResolves, ResolveVar
  <2> QED
    BY <1>2, <1>4, <2>1, TySides DEF Ends
<1>6. stack' = << <<pair>> >> \o Rest
  BY <1>4 DEF UnifyBound, Follow
<1>7. <<pair>> \in Seq(Ty \X Ty) /\ InSeq(<<pair>>, pair)
  BY <1>4 DEF InSeq
<1>8. /\ \A q \in Ty \X Ty : PendingIn(stack, q) => q = Top \/ PendingIn(stack', q)
      /\ PendingIn(stack', pair)
  <2>1. Rest \in Seq(Seq(Ty \X Ty)) /\ \A q : PendingIn(stack, q) => q = Top \/ PendingIn(Rest, q)
    BY <1>1, PendingRest
  <2> QED
    BY <1>6, <1>7, <2>1, PendingPush
<1>9. ASSUME NEW p \in same, Ends(p) = Ends(Top) PROVE Waits(p)'
  <2>1. Ends(pair)' = Ends(pair) /\ Ends(p)' = Ends(p)
    BY <1>2, SameResolve DEF Ends
  <2> QED
    BY <1>4, <1>5, <1>8, <1>9, <2>1 DEF Waits, PendingIn, InSeq
<1> QED
  BY <1>1, <1>2, <1>8, <1>9, TopResolves, JustifiedPop

(* Two constructors: the pairs of their arguments wait in their place.     *)
LEMMA ArgsAccounts ==
  ASSUME IInv, Busy, UnifyArgs, NEW same \in SUBSET (Ty \X Ty), Justified(same)
  PROVE  \E more \in SUBSET (Ty \X Ty) : same \subseteq more /\ Justified(more)'
<1>1. TypeOK /\ NoCycle
  BY DEF IInv
<1>2. /\ ~Trivial /\ Left \in Cons /\ Right \in Cons /\ val' = val
      /\ Shape[Left] = Shape[Right] /\ Len(Args[Left]) = Len(Args[Right])
      /\ stack' = <<Pairs \o Tail(Frame)>> \o Tail(stack)
  BY DEF UnifyArgs, Alike
<1>3. PICK l \in Cons, r \in Cons : l = Left /\ r = Right
  BY <1>2
<1>4. /\ Args[l] \in Seq(Ty) /\ Args[r] \in Seq(Ty) /\ DOMAIN Args[r] = DOMAIN Args[l]
      /\ \A i \in DOMAIN Args[l] : Args[l][i] \in Ty /\ Args[r][i] \in Ty
  BY <1>2, <1>3, ArgsAssumption DEF ArgsAssumption
<1>5. Resolve(l) = l /\ Resolve(r) = r
  <2>1. l \notin Vars /\ r \notin Vars
    BY KindsAssumption DEF KindsAssumption
  <2> QED
    BY <2>1, ResolveOther
<1> DEFINE ahead == {<<Args[l][i], Args[r][i]>> : i \in DOMAIN Args[l]}
           back == {<<Args[r][i], Args[l][i]>> : i \in DOMAIN Args[l]}
<1>6. PICK more \in SUBSET (Ty \X Ty) : more = same \cup ahead \cup back
  <2>1. \A p \in ahead \cup back : p \in Ty \X Ty
    BY <1>4
  <2> HIDE DEF ahead, back
  <2> QED
    BY <2>1
<1>7. Pairs \in Seq(Ty \X Ty) /\ \A p \in ahead : InSeq(Pairs, p)
  <2>1. Len(Args[l]) \in Nat /\ DOMAIN Args[l] = 1..Len(Args[l])
    BY <1>4
  <2>2. Pairs = [i \in 1..Len(Args[l]) |-> <<Args[l][i], Args[r][i]>>]
    BY <1>3, <2>1 DEF Pairs
  <2>3. Pairs \in [1..Len(Args[l]) -> Ty \X Ty]
    BY <1>4, <2>1, <2>2
  <2>4. \A p \in ahead : InSeq(Pairs, p)
    BY <2>1, <2>2 DEF InSeq
  <2> QED
    BY <2>1, <2>3, <2>4, SeqDef
<1>8. /\ \A q \in Ty \X Ty : PendingIn(stack, q) => q = Top \/ PendingIn(stack', q)
      /\ \A q \in ahead : PendingIn(stack', q)
  <2> HIDE DEF ahead, Pairs
  <2>1. /\ Tail(Frame) \in Seq(Ty \X Ty) /\ Tail(stack) \in Seq(Seq(Ty \X Ty))
        /\ \A q : PendingIn(stack, q) =>
             q = Top \/ InSeq(Tail(Frame), q) \/ PendingIn(Tail(stack), q)
    BY <1>1, PendingRest
  <2>2. Pairs \o Tail(Frame) \in Seq(Ty \X Ty)
    BY <1>7, <2>1
  <2>3. ASSUME NEW q, InSeq(Pairs, q) \/ InSeq(Tail(Frame), q) \/ PendingIn(Tail(stack), q)
        PROVE  PendingIn(stack', q)
    <3>1. InSeq(Pairs \o Tail(Frame), q) \/ PendingIn(Tail(stack), q)
      BY <1>7, <2>1, <2>3, InConcat
    <3> QED
      BY <1>2, <2>1, <2>2, <3>1, PendingPush
  <2> QED
    BY <1>7, <2>1, <2>3
<1>9. \A p : (Ends(p)' = Ends(p)) /\ (Agreed(p, more)' <=> Agreed(p, more))
  BY <1>2, SameResolve DEF Ends, Agreed, Agree
<1>10. ASSUME NEW p \in more, NEW q \in Ty \X Ty, PendingIn(stack', q), Ends(q) = Ends(p)
       PROVE  Waits(p)'
  BY <1>9, <1>10 DEF Waits, PendingIn, InSeq
<1>11. ASSUME NEW p \in same PROVE Agreed(p, more)' \/ Waits(p)'
  <2>1. CASE Agreed(p, same)
    BY <1>6, <1>9, <2>1 DEF Agreed, Agree
  <2>2. CASE Waits(p)
    <3>1. PICK q \in Ty \X Ty : PendingIn(stack, q) /\ Ends(q) = Ends(p)
      BY <2>2 DEF Waits
    <3>2. CASE q # Top
      BY <1>6, <1>8, <1>10, <3>1, <3>2
    <3>3. CASE q = Top
      <4>1. Ends(p) = {l, r}
        BY <1>3, <1>5, <3>1, <3>3, TopResolves DEF Ends
      <4>2. \/ Resolve(p[1]) = l /\ Resolve(p[2]) = r
            \/ Resolve(p[1]) = r /\ Resolve(p[2]) = l
            \/ Resolve(p[1]) = Resolve(p[2])
        BY <4>1 DEF Ends
      <4>3. Agree(l, r, more) /\ Agree(r, l, more)
        BY <1>2, <1>3, <1>4, <1>6 DEF Agree
      <4>4. Agreed(p, more)
        BY <4>2, <4>3 DEF Agreed, Agree
      <4> QED
        BY <1>9, <4>4
    <3> QED
      BY <3>2, <3>3
  <2> QED
    BY <2>1, <2>2 DEF Justified
<1>12. ASSUME NEW p \in ahead PROVE Waits(p)'
  BY <1>6, <1>8, <1>10
<1>13. ASSUME NEW p \in back PROVE Waits(p)'
  <2>1. PICK i \in DOMAIN Args[l] : p = <<Args[r][i], Args[l][i]>>
    OBVIOUS
  <2>2. PICK q \in Ty \X Ty : q = <<Args[l][i], Args[r][i]>>
    BY <1>4
  <2>3. q \in ahead /\ Ends(q) = Ends(p)
    BY <2>1, <2>2 DEF Ends
  <2> QED
    BY <1>6, <1>8, <1>10, <2>3
<1>14. Justified(more)'
  <2>1. ASSUME NEW p \in more PROVE Agreed(p, more)' \/ Waits(p)'
    BY <1>6, <1>11, <1>12, <1>13
  <2> QED
    BY <2>1 DEF Justified
<1> QED
  BY <1>6, <1>14
-----------------------------------------------------------------------------
LEMMA OneLeft ==
  ASSUME NEW S, NEW s \in Seq(S), s # << >>
  PROVE  /\ Len(s) = 1 \/ Len(s) > 1
         /\ Len(s) = 1 => Tail(s) = << >>
<1>1. Tail(s) \in Seq(S) /\ Len(Tail(s)) = Len(s) - 1 /\ Len(s) \in Nat /\ Len(s) # 0
  BY HeadTailProperties, EmptySeq
<1>2. ASSUME Len(s) = 1 PROVE Tail(s) = << >>
  <2>1. Len(Tail(s)) = 0
    BY <1>1, <1>2
  <2>2. Tail(s) # << >> => Len(Tail(s)) \in Nat \ {0}
    BY <1>1, EmptySeq, Zenon
  <2>3. 0 \notin Nat \ {0}
    OBVIOUS
  <2> QED
    BY <2>1, <2>2, <2>3, Zenon
<1> QED
  BY <1>1, <1>2

(* The next pair of a frame, or the end of the frame.                      *)
LEMMA EndFrameAccounts ==
  ASSUME IInv, EndFrame, val' = val, NEW same \in SUBSET (Ty \X Ty), Justified(same)
  PROVE  Justified(same)'
<1>1. TypeOK /\ stack \in Seq(Seq(Ty \X Ty)) /\ stack # << >> /\ Head(stack) = << >>
      /\ stack' = Tail(stack)
  BY DEF IInv, TypeOK, EndFrame, Frame
<1>2. \A q : PendingIn(stack, q) => PendingIn(stack', q)
  <2>1. \A q : ~InSeq(Head(stack), q)
    BY <1>1 DEF InSeq
  <2> QED
    BY <1>1, <2>1, PendingTail
<1>3. PICK none \in Ty \X Ty : none = NoGoal
  BY DEF NoGoal, Ty, Ground
<1>4. \A p \in same : Ends(p) = Ends(none) => Agreed(p, same)
  <2>1. ERROR \notin Vars
    BY KindsAssumption DEF KindsAssumption, Ground
  <2>2. Ends(none) = {ERROR}
    BY <1>3, <2>1, ResolveOther DEF Ends, NoGoal
  <2> QED
    BY <2>2 DEF Ends, Agreed, Agree
<1> QED
  BY <1>1, <1>2, <1>4, JustifiedPop

LEMMA UnifyTysAccounts ==
  ASSUME EInv, IInv', UnifyTys
  PROVE  Accounted' /\ OneCall'
<1>1. IInv /\ goal' = goal /\ stack # << >> /\ result = "none"
  BY DEF EInv, OneCall, UnifyTys, Busy, EndFrame
<1>2. \/ result' = "none"
      \/ result' = "err" /\ stack' = << >>
      \/ result' = "ok" /\ stack' = << >> /\ EndFrame
  <2>1. stack \in Seq(Seq(Ty \X Ty))
    BY <1>1 DEF IInv, TypeOK
  <2>2. Len(stack) = 1 => Tail(stack) = << >>
    BY <1>1, <2>1, OneLeft
  <2> QED
    BY <1>1, <2>2 DEF UnifyTys, UnifyTrivial, UnifyLitSame, UnifyLit, UnifyLitGeneral,
       UnifyLitMismatch, UnifyBound, UnifyUnbound, UnifyInfinite, UnifyArgs, UnifyMismatch,
       EndFrame, Next1, Fail
<1>3. OneCall'
  BY <1>2 DEF OneCall
<1>4. ASSUME ~lost', stack' # << >> \/ result' = "ok"
      PROVE  \E more \in SUBSET (Ty \X Ty) : goal \in more /\ Justified(more)'
  <2>1. ~lost /\ (EndFrame \/ (Busy /\ ~Fail))
    <3>1. lost => lost'
      BY DEF UnifyTys, UnifyTrivial, UnifyLitSame, UnifyLit, UnifyLitGeneral,
         UnifyLitMismatch, UnifyBound, UnifyUnbound, UnifyInfinite, UnifyArgs, UnifyMismatch,
         EndFrame, Next1, Fail
    <3>2. Fail => lost' \/ (stack' = << >> /\ result' # "ok")
      <4>1. stack \in Seq(Seq(Ty \X Ty)) /\ stack # << >>
        BY <1>1 DEF IInv, TypeOK
      <4>2. Len(stack) = 1 \/ Len(stack) > 1
        BY <4>1, OneLeft
      <4>3. Len(stack) = 1 => Tail(stack) = << >>
        BY <4>1, OneLeft
      <4> QED
        BY <4>2, <4>3 DEF Fail
    <3> QED
      BY <1>4, <3>1, <3>2 DEF UnifyTys
  <2>2. PICK same \in SUBSET (Ty \X Ty) : goal \in same /\ Justified(same)
    BY <1>1, <2>1 DEF EInv, Accounted
  <2>3. CASE EndFrame
    BY <1>1, <2>2, <2>3, EndFrameAccounts DEF EndFrame
  <2>4. CASE Busy /\ UnifyArgs
    BY <1>1, <2>2, <2>4, ArgsAccounts
  <2>5. CASE Busy /\ (UnifyTrivial \/ UnifyLitSame)
    BY <1>1, <2>2, <2>5, TrivialAccounts, LitSameAccounts DEF UnifyTrivial, Next1
  <2>6. CASE Busy /\ (UnifyLit \/ UnifyLitGeneral \/ UnifyUnbound)
    BY <1>1, <1>4, <2>2, <2>6, LitAccounts, LitGeneralAccounts, UnboundAccounts
  <2>7. CASE Busy /\ UnifyBound
    BY <1>1, <2>2, <2>7, BoundAccounts
  <2> QED
    BY <2>1, <2>3, <2>4, <2>5, <2>6, <2>7
       DEF UnifyTys, UnifyLitMismatch, UnifyInfinite, UnifyMismatch
<1> QED
  BY <1>1, <1>3, <1>4 DEF Accounted
-----------------------------------------------------------------------------
(* The pairs that are the same down to a depth: the recursion of Equal.    *)
PairSets == SUBSET (Ty \X Ty)
OneDeeper(same) == {p \in Ty \X Ty : Agreed(p, same)}

LEMMA PairsRecursion ==
  \A start \in PairSets : \A step \in [Nat -> [PairSets -> PairSets]] :
    \E f \in [Nat -> PairSets] : f[0] = start /\ \A n \in Nat : f[n + 1] = step[n][f[n]]
  BY Recursion

LEMMA EqualStep ==
  Equal[0] = Ty \X Ty /\ \A n \in Nat : Equal[n + 1] = OneDeeper(Equal[n])
<1> DEFINE E(g) == [n \in Nat |-> IF n = 0 THEN Ty \X Ty ELSE OneDeeper(g[n - 1])]
<1>1. Ty \X Ty \in PairSets /\ \A same \in PairSets : OneDeeper(same) \in PairSets
  BY DEF PairSets, OneDeeper
<1>2. PICK step \in [Nat -> [PairSets -> PairSets]] :
        step = [n \in Nat |-> [same \in PairSets |-> OneDeeper(same)]]
  BY <1>1
<1>3. PICK all \in PairSets : all = Ty \X Ty
  BY <1>1
<1>4. PICK f \in [Nat -> PairSets] :
        f[0] = all /\ \A n \in Nat : f[n + 1] = step[n][f[n]]
  BY <1>3, PairsRecursion
<1>5. \A n \in Nat : f[n + 1] = OneDeeper(f[n])
  BY <1>2, <1>4
<1>6. f = E(f)
  <2>1. ASSUME NEW n \in Nat, n # 0 PROVE f[n] = OneDeeper(f[n - 1])
    <3>1. n - 1 \in Nat /\ (n - 1) + 1 = n
      BY <2>1
    <3> QED
      BY <1>5, <3>1
  <2> QED
    BY <1>3, <1>4, <2>1
<1> DEFINE r == CHOOSE g : g = E(g)
<1>7. r = E(r)
  BY <1>6
<1>8. Equal = r
  BY DEF Equal, OneDeeper, Agreed
<1> HIDE DEF r
<1>9. ASSUME NEW n \in Nat PROVE Equal[n + 1] = OneDeeper(Equal[n])
  <2>1. n + 1 \in Nat /\ n + 1 # 0 /\ (n + 1) - 1 = n
    OBVIOUS
  <2> QED
    BY <1>7, <1>8, <2>1
<1> QED
  BY <1>7, <1>8, <1>9

(* A set of pairs none of which waits is the same down to any depth.       *)
LEMMA NothingWaits ==
  ASSUME NEW same \in SUBSET (Ty \X Ty), \A p \in same : Agreed(p, same), NEW n \in Nat
  PROVE  same \subseteq Equal[n]
<1> DEFINE T == {m \in Nat : same \subseteq Equal[m]}
<1>1. 0 \in T
  BY EqualStep
<1>2. ASSUME NEW m \in T PROVE m + 1 \in T
  <2>1. \A p \in same : Agreed(p, Equal[m])
    BY DEF Agreed, Agree
  <2>2. same \subseteq OneDeeper(Equal[m])
    BY <2>1 DEF OneDeeper
  <2> QED
    BY <2>2, EqualStep
<1> HIDE DEF T
<1>3. T = Nat
  BY <1>1, <1>2, AllNumbers DEF T
<1> QED
  BY <1>3 DEF T

LEMMA InitEInv == Init => EInv
  BY InitIInv DEF Init, EInv, Accounted, OneCall

LEMMA UnifyAccounts ==
  ASSUME EInv, NEW call \in Calls, Unify(call[1], call[2])
  PROVE  Accounted' /\ OneCall'
<1>1. TypeOK /\ NoCycle /\ result' = "none" /\ val' = val
  BY DEF EInv, IInv, Unify, Idle
<1>2. PICK a \in Ty, b \in Ty : a = call[1] /\ b = call[2]
  BY DEF Unify, Written
<1>3. goal' = <<a, b>> /\ stack' = << << <<Resolve(a), Resolve(b)>> >> >>
  BY <1>2 DEF Unify
<1>4. Resolve(Resolve(a)) = Resolve(a) /\ Resolve(Resolve(b)) = Resolve(b)
  BY <1>1, ResolveReturns, ResolveVar, ResolveOther
<1>5. PICK q \in Ty \X Ty : q = <<Resolve(a), Resolve(b)>>
  BY <1>1, ResolveReturns
<1>6. PendingIn(stack', q)
  <2>1. stack' = << <<q>> >>
    BY <1>3, <1>5
  <2>2. 1 \in DOMAIN << <<q>> >> /\ << <<q>> >>[1] = <<q>>
    OBVIOUS
  <2>3. InSeq(<<q>>, q)
    BY DEF InSeq
  <2> QED
    BY <2>1, <2>2, <2>3 DEF PendingIn
<1>7. PICK p \in Ty \X Ty : p = <<a, b>>
  OBVIOUS
<1>8. Ends(q)' = Ends(p)'
  <2>1. Ends(q) = Ends(p)
    BY <1>4, <1>5, <1>7 DEF Ends
  <2> QED
    BY <1>1, <2>1, SameResolve DEF Ends
<1>9. Waits(p)'
  BY <1>6, <1>8 DEF Waits, PendingIn, InSeq
<1>10. {p} \in SUBSET (Ty \X Ty) /\ goal' \in {p} /\ Justified({p})'
  BY <1>3, <1>7, <1>9 DEF Justified
<1> QED
  BY <1>1, <1>10 DEF Accounted, OneCall

LEMMA StepEInv == EInv /\ [Next]_vars => EInv'
<1> SUFFICES ASSUME EInv, [Next]_vars PROVE EInv'
  OBVIOUS
<1>1. IInv'
  BY StepIInv DEF EInv
<1>2. CASE \E call \in Calls : Unify(call[1], call[2])
  BY <1>1, <1>2, UnifyAccounts DEF EInv
<1>3. CASE UnifyTys
  BY <1>1, <1>3, UnifyTysAccounts DEF EInv
<1>4. CASE stack' = << >> /\ result' = "none"
  BY <1>1, <1>4 DEF EInv, Accounted, OneCall
<1>5. CASE UNCHANGED vars
  <2>1. val' = val /\ stack' = stack /\ goal' = goal /\ result' = result /\ lost' = lost
    BY <1>5 DEF vars
  <2>2. ASSUME NEW same \in SUBSET (Ty \X Ty), Justified(same) PROVE Justified(same)'
    <3>1. ASSUME NEW p \in Ty \X Ty, Waits(p) PROVE Waits(p)'
      <4>1. \A q \in Ty \X Ty : Ends(q)' = Ends(q)
        BY <2>1, SameResolve DEF Ends
      <4>2. \A q : PendingIn(stack, q) <=> PendingIn(stack, q)'
        BY <2>1 DEF PendingIn, InSeq
      <4> QED
        BY <2>1, <3>1, <4>1, <4>2 DEF Waits
    <3>2. ASSUME NEW p \in Ty \X Ty, Agreed(p, same) PROVE Agreed(p, same)'
      <4>1. Resolve(p[1])' = Resolve(p[1]) /\ Resolve(p[2])' = Resolve(p[2])
        BY <2>1, SameResolve
      <4> QED
        BY <3>2, <4>1 DEF Agreed, Agree
    <3> QED
      BY <2>2, <3>1, <3>2 DEF Justified
  <2>3. Accounted'
    BY <2>1, <2>2 DEF EInv, Accounted
  <2> QED
    BY <1>1, <2>1, <2>3 DEF EInv, OneCall
<1> QED
  BY <1>2, <1>3, <1>4, <1>5 DEF Next, NewVar, Snapshot, Rollback, Commit, Return, Idle

(* When unify returns Ok and has neither ignored the failure of an inner   *)
(* pair nor replaced a binding, its two types are the same down to any     *)
(* depth: for any set of types, any table and any order of earlier calls,  *)
(* probes and rollbacks.                                                   *)
THEOREM InferOkMeansEqual == Spec => []OkMeansEqual
<1>1. EInv => OkMeansEqual
  <2> SUFFICES ASSUME EInv, stack = << >>, result = "ok", ~lost PROVE goal \in Equal[Depth]
    BY DEF OkMeansEqual
  <2>1. PICK same \in SUBSET (Ty \X Ty) : goal \in same /\ Justified(same)
    BY DEF EInv, Accounted
  <2>2. \A p \in same : Agreed(p, same)
    <3>1. \A q : ~PendingIn(stack, q)
      BY DEF PendingIn
    <3> QED
      BY <2>1, <3>1 DEF Justified, Waits
  <2> QED
    BY <2>1, <2>2, NothingWaits, DepthAssumption DEF DepthAssumption
<1> QED
  BY <1>1, InitEInv, StepEInv, PTL DEF Spec
-----------------------------------------------------------------------------
(* The equations of a block, which hold of every block that is not waiting *)
(* for a visit.                                                            *)
Settled(b) == in[b] = Join(b) /\ out[b] = Transfer(b, in[b])
SettledOutside == \A b \in Blocks \ worklist : Settled(b)

FlowTypes == /\ in = [b \in Blocks |-> in[b]]
             /\ out = [b \in Blocks |-> out[b]]
             /\ phase = "done" => worklist = {}

MovesIInv == FlowTypes /\ SettledOutside

LEMMA MovesInitIInv == MovesInit => MovesIInv
  BY DEF MovesInit, MovesIInv, FlowTypes, SettledOutside

(* What a visit does to the block it takes, and to any other.              *)
LEMMA VisitEffect ==
  ASSUME FlowTypes, NEW b \in Blocks, Visit(b)
  PROVE  /\ body' = body /\ phase' = phase /\ phase = "flow"
         /\ in'[b] = Join(b) /\ out'[b] = Transfer(b, Join(b))
         /\ \A c \in Blocks \ {b} : in'[c] = in[c] /\ out'[c] = out[c]
         /\ out'[b] # out[b] => body[b].succ \subseteq worklist'
         /\ worklist \ {b} \subseteq worklist'
         /\ FlowTypes'
<1> DEFINE i == Join(b)
           o == Transfer(b, i)
<1> HIDE DEF i, o
<1>1. /\ body' = body /\ phase' = phase /\ phase = "flow"
      /\ IF i # in[b] \/ o # out[b]
           THEN /\ in' = [in EXCEPT ![b] = i]
                /\ out' = [out EXCEPT ![b] = o]
                /\ worklist' = (worklist \ {b}) \cup body[b].succ
           ELSE /\ worklist' = worklist \ {b}
                /\ in' = in /\ out' = out
  BY DEF Visit, Requeued, i, o
<1>2. CASE i # in[b] \/ o # out[b]
  <2>1. /\ in' = [c \in Blocks |-> IF c = b THEN i ELSE in[c]]
        /\ out' = [c \in Blocks |-> IF c = b THEN o ELSE out[c]]
        /\ worklist' = (worklist \ {b}) \cup body[b].succ
    BY <1>1, <1>2 DEF FlowTypes
  <2> QED
    BY <1>1, <2>1 DEF FlowTypes, i, o
<1>3. CASE i = in[b] /\ o = out[b]
  BY <1>1, <1>3 DEF FlowTypes, i, o
<1> QED
  BY <1>2, <1>3

(* A block's facts change only with those of its predecessors, and a visit *)
(* that changes what leaves a block queues its successors.                 *)
LEMMA VisitIInv ==
  ASSUME MovesIInv, NEW b \in Blocks, Visit(b)
  PROVE  MovesIInv'
<1>1. FlowTypes
  BY DEF MovesIInv
<1>2. /\ body' = body /\ phase' = phase /\ phase = "flow"
      /\ in'[b] = Join(b) /\ out'[b] = Transfer(b, Join(b))
      /\ \A c \in Blocks \ {b} : in'[c] = in[c] /\ out'[c] = out[c]
      /\ out'[b] # out[b] => body[b].succ \subseteq worklist'
      /\ worklist \ {b} \subseteq worklist'
      /\ FlowTypes'
  BY <1>1, VisitEffect
<1>3. SUFFICES ASSUME NEW c \in Blocks \ worklist' PROVE Settled(c)'
  BY <1>2 DEF MovesIInv, SettledOutside
<1>4. Join(c)' = Join(c)
  <2>1. Preds(c)' = Preds(c)
    BY <1>2 DEF Preds
  <2>2. \A p \in Preds(c) : out'[p] = out[p]
    BY <1>2, <1>3 DEF Preds
  <2>3. Incoming(c)' = Incoming(c)
    BY <2>1, <2>2 DEF Incoming
  <2> QED
    BY <2>3 DEF Join, Dead
<1>5. in'[c] = Join(c) /\ out'[c] = Transfer(c, Join(c))
  <2>1. CASE c = b
    BY <1>2, <2>1
  <2>2. CASE c # b
    <3>1. c \in Blocks \ worklist
      BY <1>2, <2>2
    <3> QED
      BY <1>2, <2>2, <3>1 DEF MovesIInv, SettledOutside, Settled
  <2> QED
    BY <2>1, <2>2
<1>6. Transfer(c, in[c])' = Transfer(c, in'[c])
  BY <1>2 DEF Transfer, Forget, BlockInits, StatementInits, Gen, Code
<1> QED
  BY <1>4, <1>5, <1>6 DEF Settled

LEMMA MovesNextIInv == MovesIInv /\ [MovesNext]_movesVars => MovesIInv'
<1> SUFFICES ASSUME MovesIInv, [MovesNext]_movesVars PROVE MovesIInv'
  OBVIOUS
<1>1. CASE \E b \in Blocks : Visit(b)
  BY <1>1, VisitIInv
<1>2. ASSUME UNCHANGED <<body, in, out, worklist>>, phase' = "done" => worklist = {}
      PROVE  MovesIInv'
  BY <1>2 DEF MovesIInv, FlowTypes, SettledOutside, Settled, Join, Incoming, Preds, Transfer, Forget,
              BlockInits, StatementInits, Gen, Code
<1>3. CASE Check
  BY <1>2, <1>3 DEF Check
<1>4. CASE UNCHANGED movesVars
  BY <1>2, <1>4 DEF movesVars, MovesIInv, FlowTypes
<1> QED
  BY <1>1, <1>3, <1>4 DEF MovesNext

(* The facts the checker goes by solve its equations.                      *)
THEOREM MirMovesSolved == MovesSpec => []Solved
<1>1. MovesSpec => []MovesIInv
  BY MovesInitIInv, MovesNextIInv, PTL DEF MovesSpec
<1>2. MovesIInv => Solved
  BY DEF MovesIInv, FlowTypes, SettledOutside, Settled, Solved
<1> QED
  BY <1>1, <1>2, PTL
-----------------------------------------------------------------------------
(* Facts closed under the equations of every block.                        *)
Within(b, si, so) ==
  LET incoming == UNION {so[p] : p \in Preds(b)}
  IN  /\ (IF b = 0 THEN incoming \ Dead(Paths) ELSE incoming) \subseteq si[b]
      /\ Transfer(b, si[b]) \subseteq so[b]
Solution(si, so) == \A b \in Blocks : Within(b, si, so)

(* The checker has no fact that some closed set of facts does not have.    *)
NoMore(si, so) == \A b \in Blocks : in[b] \subseteq si[b] /\ out[b] \subseteq so[b]
Least == \A si, so : Solution(si, so) => NoMore(si, so)

LEMMA TransferGrows ==
  ASSUME NEW b \in Blocks, NEW few, NEW many, few \subseteq many
  PROVE  Transfer(b, few) \subseteq Transfer(b, many)
  BY DEF Transfer, Forget

LEMMA InitLeast == MovesInit => Least
  BY DEF MovesInit, Least, NoMore

LEMMA VisitLeast ==
  ASSUME FlowTypes, Least, NEW b \in Blocks, Visit(b)
  PROVE  Least'
<1>1. /\ body' = body
      /\ in'[b] = Join(b) /\ out'[b] = Transfer(b, Join(b))
      /\ \A c \in Blocks \ {b} : in'[c] = in[c] /\ out'[c] = out[c]
  BY VisitEffect
<1>2. SUFFICES ASSUME NEW si, NEW so, Solution(si, so)' PROVE NoMore(si, so)'
  BY DEF Least
<1>3. Solution(si, so)
  BY <1>1, <1>2 DEF Solution, Within, Preds, Transfer, Forget, BlockInits, StatementInits, Gen, Code
<1>4. NoMore(si, so)
  BY <1>3 DEF Least
<1>5. Join(b) \subseteq si[b]
  <2>1. Incoming(b) \subseteq UNION {so[p] : p \in Preds(b)}
    BY <1>4 DEF Incoming, NoMore, Preds
  <2> QED
    BY <1>3, <2>1 DEF Join, Solution, Within
<1>6. Transfer(b, Join(b)) \subseteq so[b]
  BY <1>3, <1>5, TransferGrows DEF Solution, Within
<1> QED
  BY <1>1, <1>4, <1>5, <1>6 DEF NoMore

LEMMA NextLeast == MovesIInv /\ Least /\ [MovesNext]_movesVars => Least'
<1> SUFFICES ASSUME MovesIInv, Least, [MovesNext]_movesVars PROVE Least'
  OBVIOUS
<1>1. CASE \E b \in Blocks : Visit(b)
  BY <1>1, VisitLeast DEF MovesIInv
<1>2. CASE body' = body /\ in' = in /\ out' = out
  <2>1. SUFFICES ASSUME NEW si, NEW so, Solution(si, so)' PROVE NoMore(si, so)'
    BY DEF Least
  <2>2. Solution(si, so)
    BY <1>2, <2>1 DEF Solution, Within, Preds, Transfer, Forget, BlockInits, StatementInits, Gen,
                      Code
  <2>3. NoMore(si, so)
    BY <2>2 DEF Least
  <2> QED
    BY <1>2, <2>3 DEF NoMore
<1> QED
  BY <1>1, <1>2 DEF MovesNext, Check, movesVars

(* No visit, in any order, invents a fact: a place the checker holds for   *)
(* moved or dead is so in every solution of the equations.  With           *)
(* MirMovesSolved, what the checker ends with is the least solution.       *)
THEOREM MirMovesLeast == MovesSpec => []Least
<1>1. MovesSpec => [](MovesIInv /\ Least)
  BY MovesInitIInv, MovesNextIInv, InitLeast, NextLeast, PTL DEF MovesSpec
<1> QED
  BY <1>1, PTL
-----------------------------------------------------------------------------
(* Every fact is about a path.                                             *)
Facts == {"moved", "dead"} \X Paths
MoveTypes == /\ body \in Bodies
             /\ in \in [Blocks -> SUBSET Facts] /\ out \in [Blocks -> SUBSET Facts]

LEMMA BodyTypes ==
  ASSUME body \in Bodies, NEW b \in Blocks
  PROVE  /\ body[b].code \in Seq(Statements) /\ body[b].dest \subseteq Paths
         /\ body[b].succ \subseteq Blocks
         /\ Len(body[b].code) \in Nat /\ DOMAIN body[b].code = 1..Len(body[b].code)
         /\ \A i \in 1..Len(body[b].code) : body[b].code[i] \in Statements
<1>1. body \in [Blocks -> [code : Seq(Statements), dest : SUBSET Paths, succ : SUBSET Blocks]]
  BY MovesAssumption DEF MovesAssumption
<1>2. /\ body[b].code \in Seq(Statements) /\ body[b].dest \subseteq Paths
      /\ body[b].succ \subseteq Blocks
  BY <1>1
<1> QED
  BY <1>2

(* The operators on sets of facts, fact by fact.                           *)
LEMMA ForgetFact ==
  ASSUME NEW k \in {"moved", "dead"}, NEW q, NEW S, NEW facts
  PROVE  <<k, q>> \in Forget(S, facts) <=> <<k, q>> \in facts /\ q \notin S
  BY DEF Forget, Moved, Dead

LEMMA GenFact ==
  ASSUME NEW s \in Statements, NEW q
  PROVE  /\ <<"moved", q>> \in StmtGen(s) <=>
              q \in Covered(s.moves) \/ (s.op = "dead" /\ q \in Below[s.place])
         /\ <<"dead", q>> \in StmtGen(s) <=> s.op = "dead" /\ q \in Below[s.place]
  BY DEF StmtGen, Moved, Dead

LEMMA CoveredPaths ==
  ASSUME NEW S, S \subseteq Paths
  PROVE  Covered(S) \subseteq Paths
  BY MovesAssumption DEF MovesAssumption, Covered

LEMMA GenTypes ==
  ASSUME NEW s \in Statements
  PROVE  StmtGen(s) \subseteq Facts
<1>1. s.place \in Paths /\ s.moves \subseteq Paths
  BY DEF Statements
<1>2. Below[s.place] \subseteq Paths /\ Covered(s.moves) \subseteq Paths
  BY <1>1, CoveredPaths, MovesAssumption DEF MovesAssumption
<1> QED
  BY <1>2 DEF StmtGen, Facts, Moved, Dead

LEMMA ApplyTypes ==
  ASSUME NEW s \in Statements, NEW facts \in SUBSET Facts
  PROVE  ApplyStmt(s, facts) \in SUBSET Facts
  BY GenTypes DEF ApplyStmt, Forget

LEMMA RunTypes ==
  ASSUME NEW s \in Statements, NEW facts \in SUBSET Facts
  PROVE  Run(s, facts) \in SUBSET Facts
<1>1. s.moves \subseteq Paths
  BY DEF Statements
<1>2. Moved(Covered(s.moves)) \subseteq Facts
  BY <1>1, CoveredPaths DEF Facts, Moved
<1> QED
  BY <1>2, GenTypes DEF Run, Forget

LEMMA InitMoveTypes == MovesInit => MoveTypes
<1> SUFFICES ASSUME MovesInit PROVE MoveTypes
  OBVIOUS
<1>1. {} \in SUBSET Facts
  OBVIOUS
<1> QED
  BY <1>1 DEF MovesInit, MoveTypes

LEMMA NextMoveTypes == MoveTypes /\ [MovesNext]_movesVars => MoveTypes'
<1> SUFFICES ASSUME MoveTypes, [MovesNext]_movesVars PROVE MoveTypes'
  OBVIOUS
<1>1. ASSUME NEW b \in Blocks, Visit(b) PROVE MoveTypes'
  <2>1. Join(b) \subseteq Facts
    BY DEF Join, Incoming, Preds, MoveTypes
  <2>2. Gen(b) \subseteq Facts
    BY BodyTypes, GenTypes DEF MoveTypes, Gen, Code
  <2>3. Transfer(b, Join(b)) \subseteq Facts
    BY <2>1, <2>2 DEF Transfer, Forget
  <2> QED
    BY <1>1, <2>1, <2>3 DEF Visit, MoveTypes
<1>2. CASE Check
  BY <1>2 DEF Check, MoveTypes
<1>3. CASE UNCHANGED movesVars
  BY <1>3 DEF movesVars, MoveTypes
<1> QED
  BY <1>1, <1>2, <1>3 DEF MovesNext
-----------------------------------------------------------------------------
(* Recursion over sets of facts.                                           *)
FactSets == SUBSET Facts
LEMMA FactsRecursion ==
  \A start \in FactSets : \A step \in [Nat -> [FactSets -> FactSets]] :
    \E f \in [Nat -> FactSets] : f[0] = start /\ \A n \in Nat : f[n + 1] = step[n][f[n]]
  BY Recursion

(* What is known before a statement: the recursion of Before.              *)
LEMMA BeforeStep ==
  ASSUME MoveTypes, NEW b \in Blocks, NEW i \in 1..Len(body[b].code)
  PROVE  Before(b)[i] = IF i = 1 THEN in[b]
                                 ELSE ApplyStmt(body[b].code[i - 1], Before(b)[i - 1])
<1> DEFINE code == body[b].code
           Step(n) == [x \in FactSets |->
                         IF n + 1 \in 1..Len(code) THEN ApplyStmt(code[n + 1], x) ELSE x]
           E(at) == [j \in 1..Len(code) |->
                       IF j = 1 THEN in[b] ELSE ApplyStmt(code[j - 1], at[j - 1])]
<1>1. in[b] \in FactSets
  BY DEF MoveTypes, FactSets
<1>2. Len(code) \in Nat /\ \A j \in 1..Len(code) : code[j] \in Statements
  BY BodyTypes DEF MoveTypes
<1> HIDE DEF code
<1>3. ASSUME NEW n \in Nat PROVE Step(n) \in [FactSets -> FactSets]
  BY <1>2, ApplyTypes DEF FactSets
<1>4. PICK step \in [Nat -> [FactSets -> FactSets]] : step = [n \in Nat |-> Step(n)]
  BY <1>3
<1>5. PICK f \in [Nat -> FactSets] :
        f[0] = in[b] /\ \A n \in Nat : f[n + 1] = step[n][f[n]]
  BY <1>1, FactsRecursion
<1>6. PICK at : at = [j \in 1..Len(code) |-> f[j - 1]]
  OBVIOUS
<1>7. at = E(at)
  <2>1. ASSUME NEW j \in 1..Len(code), j # 1
        PROVE  f[j - 1] = ApplyStmt(code[j - 1], at[j - 1])
    <3>1. j - 2 \in Nat /\ (j - 2) + 1 = j - 1 /\ j - 1 \in 1..Len(code) /\ (j - 1) - 1 = j - 2
      BY <1>2, <2>1
    <3>2. f[j - 1] = step[j - 2][f[j - 2]]
      BY <1>5, <3>1
    <3>3. f[j - 2] \in FactSets
      BY <3>1
    <3>4. step[j - 2][f[j - 2]] = ApplyStmt(code[j - 1], f[j - 2])
      BY <1>4, <3>1, <3>3
    <3>5. at[j - 1] = f[j - 2]
      BY <1>6, <3>1
    <3> QED
      BY <3>2, <3>4, <3>5
  <2>2. ASSUME NEW j \in 1..Len(code), j = 1 PROVE f[j - 1] = in[b]
    BY <1>5, <2>2
  <2>3. \A j \in 1..Len(code) :
          f[j - 1] = IF j = 1 THEN in[b] ELSE ApplyStmt(code[j - 1], at[j - 1])
    BY <2>1, <2>2
  <2> QED
    BY <1>6, <2>3
<1> DEFINE r == CHOOSE g : g = E(g)
<1>8. r = E(r)
  BY <1>7
<1>9. Before(b) = r
  BY DEF Before, code
<1> QED
  BY <1>2, <1>8, <1>9 DEF code

(* A run is at statement i of block b, or past its end, with some facts.   *)
Triples == Blocks \X (Nat \ {0}) \X SUBSET Facts

LEMMA AfterTypes ==
  ASSUME body \in Bodies, NEW c \in Triples
  PROVE  After(c) \subseteq Triples
<1> SUFFICES ASSUME NEW d \in After(c) PROVE d \in Triples
  OBVIOUS
<1>1. PICK b \in Blocks, i \in Nat \ {0}, facts \in SUBSET Facts : c = <<b, i, facts>>
  BY DEF Triples
<1>2. c[1] = b /\ c[2] = i /\ c[3] = facts
  BY <1>1
<1>3. CASE i <= Len(body[b].code)
  <2>1. d = <<b, i + 1, Run(body[b].code[i], facts)>>
    BY <1>2, <1>3 DEF After
  <2>2. body[b].code[i] \in Statements
    BY <1>3, BodyTypes
  <2>3. Run(body[b].code[i], facts) \in SUBSET Facts
    BY <2>2, RunTypes
  <2> QED
    BY <2>1, <2>3 DEF Triples
<1>4. CASE ~(i <= Len(body[b].code))
  <2>1. PICK t \in body[b].succ : d = <<t, 1, Forget(Covered(body[b].dest), facts)>>
    BY <1>2, <1>4 DEF After
  <2>2. t \in Blocks
    BY BodyTypes
  <2>3. Forget(Covered(body[b].dest), facts) \in SUBSET Facts
    BY DEF Forget
  <2> QED
    BY <2>1, <2>2, <2>3 DEF Triples
<1> QED
  BY <1>3, <1>4

(* The configurations after one step more: the recursion of                *)
(* Configurations.                                                         *)
TripleSets == SUBSET Triples
Onward(C) == C \cup UNION {After(c) : c \in C}

LEMMA TriplesRecursion ==
  \A start \in TripleSets : \A step \in [Nat -> [TripleSets -> TripleSets]] :
    \E f \in [Nat -> TripleSets] : f[0] = start /\ \A n \in Nat : f[n + 1] = step[n][f[n]]
  BY Recursion

LEMMA ConfigurationsStep ==
  ASSUME body \in Bodies
  PROVE  /\ Configurations(0) = {<<0, 1, {}>>}
         /\ \A n \in Nat : /\ Configurations(n) \in TripleSets
                           /\ Configurations(n + 1) = Onward(Configurations(n))
<1> DEFINE E(g) == [n \in Nat |-> IF n = 0 THEN {<<0, 1, {}>>} ELSE Onward(g[n - 1])]
<1>1. {<<0, 1, {}>>} \in TripleSets
  BY MovesAssumption DEF MovesAssumption, TripleSets, Triples
<1>2. \A C \in TripleSets : Onward(C) \in TripleSets
  BY AfterTypes DEF Onward, TripleSets
<1>3. PICK step \in [Nat -> [TripleSets -> TripleSets]] :
        step = [n \in Nat |-> [C \in TripleSets |-> Onward(C)]]
  BY <1>2
<1>4. PICK f \in [Nat -> TripleSets] :
        f[0] = {<<0, 1, {}>>} /\ \A n \in Nat : f[n + 1] = step[n][f[n]]
  BY <1>1, TriplesRecursion
<1>5. \A n \in Nat : f[n + 1] = Onward(f[n])
  BY <1>3, <1>4
<1>6. f = E(f)
  <2>1. ASSUME NEW n \in Nat, n # 0 PROVE f[n] = Onward(f[n - 1])
    <3>1. n - 1 \in Nat /\ (n - 1) + 1 = n
      BY <2>1
    <3> QED
      BY <1>5, <3>1
  <2> QED
    BY <1>4, <2>1
<1> DEFINE r == CHOOSE g : g = E(g)
<1>7. r = E(r)
  BY <1>6
<1>8. \A n : Configurations(n) = r[n]
  BY DEF Configurations, Onward
<1> HIDE DEF r
<1>9. Configurations(0) = {<<0, 1, {}>>}
  BY <1>7, <1>8
<1>10. ASSUME NEW n \in Nat PROVE Configurations(n + 1) = Onward(Configurations(n))
  <2>1. n + 1 \in Nat /\ n + 1 # 0 /\ (n + 1) - 1 = n
    OBVIOUS
  <2> QED
    BY <1>7, <1>8, <2>1
<1> DEFINE T == {n \in Nat : Configurations(n) \in TripleSets}
<1>11. 0 \in T
  BY <1>1, <1>9
<1>12. \A n \in T : n + 1 \in T
  BY <1>2, <1>10
<1> HIDE DEF T
<1>13. T = Nat
  BY <1>11, <1>12, AllNumbers DEF T
<1> QED
  BY <1>9, <1>10, <1>13 DEF T
-----------------------------------------------------------------------------
(* What a run has made unusable is held by the checker: a dead place also  *)
(* counts as moved, and a moved place entered the block moved or a         *)
(* statement of the block moved it, and no statement so far makes it       *)
(* usable, neither before nor after.                                       *)
Covers(c) ==
  LET b == c[1] i == c[2] facts == c[3]
      code == body[b].code
  IN  \A q \in Paths :
        /\ <<"dead", q>> \in facts => <<"moved", q>> \in facts
        /\ <<"moved", q>> \in facts =>
             /\ i \in 1..Len(code) => <<"moved", q>> \in Before(b)[i]
             /\ <<"moved", q>> \in in[b] \cup Gen(b)
             /\ \A k \in 1..Len(code) : k < i => q \notin StmtInits(code[k])

LEMMA CoversStart ==
  ASSUME MoveTypes
  PROVE  Covers(<<0, 1, {}>>)
  BY DEF Covers

(* The places that are unusable after a statement, by the checker and by a *)
(* run: a place moved and written by one statement makes the difference.   *)
LEMMA ApplyFact ==
  ASSUME NEW s \in Statements, NEW facts, NEW q, <<"moved", q>> \in facts \/ <<"moved", q>> \in StmtGen(s),
         q \notin StmtInits(s) \/ <<"moved", q>> \in StmtGen(s)
  PROVE  <<"moved", q>> \in ApplyStmt(s, facts)
  BY ForgetFact DEF ApplyStmt

LEMMA RunFact ==
  ASSUME NEW s \in Statements, NEW facts, NEW q
  PROVE  /\ <<"moved", q>> \in Run(s, facts) =>
              q \notin StmtInits(s) /\ (<<"moved", q>> \in facts \/ <<"moved", q>> \in StmtGen(s))
         /\ <<"dead", q>> \in Run(s, facts) =>
              <<"dead", q>> \in facts \/ (s.op = "dead" /\ <<"moved", q>> \in Run(s, facts))
         /\ <<"moved", q>> \in facts /\ q \notin StmtInits(s) => <<"moved", q>> \in Run(s, facts)
         /\ <<"dead", q>> \in Run(s, facts) => q \notin StmtInits(s)
<1>1. CASE s.op = "dead"
  <2>1. Run(s, facts) = facts \cup StmtGen(s) /\ StmtInits(s) = {}
    BY <1>1 DEF Run, StmtInits
  <2> QED
    BY <1>1, <2>1, GenFact
<1>2. CASE s.op # "dead"
  <2>1. /\ Run(s, facts) = Forget(StmtInits(s), facts \cup Moved(Covered(s.moves)))
        /\ StmtInits(s) = Below[s.place]
    BY <1>2 DEF Run, StmtInits
  <2>2. /\ <<"moved", q>> \in Moved(Covered(s.moves)) <=> <<"moved", q>> \in StmtGen(s)
        /\ <<"dead", q>> \notin Moved(Covered(s.moves))
    BY <1>2, GenFact DEF Moved
  <2> QED
    BY <2>1, <2>2, ForgetFact
<1> QED
  BY <1>1, <1>2

LEMMA CoversStatement ==
  ASSUME MoveTypes, Plain, NEW c \in Triples, Covers(c), c[2] <= Len(body[c[1]].code),
         NEW d \in After(c)
  PROVE  Covers(d)
<1>1. PICK b \in Blocks, i \in Nat \ {0}, facts \in SUBSET Facts : c = <<b, i, facts>>
  BY DEF Triples
<1> DEFINE code == body[b].code
           s == code[i]
<1>2. i \in 1..Len(code) /\ Len(code) \in Nat /\ s \in Statements
  BY <1>1, BodyTypes DEF MoveTypes
<1>3. d = <<b, i + 1, Run(s, facts)>>
  BY <1>1 DEF After
<1>4. ASSUME NEW k \in 1..i, NEW q \in Paths, q \in StmtInits(code[k])
      PROVE  <<"moved", q>> \notin StmtGen(s)
  <2>1. i \in DOMAIN body[b].code
    BY <1>2, BodyTypes DEF MoveTypes
  <2>2. Forget(StmtInits(code[k]), StmtGen(s)) = StmtGen(s)
    BY <2>1 DEF Plain
  <2> QED
    BY <1>4, <2>2, ForgetFact
<1>5. i + 1 \in 1..Len(code) => Before(b)[i + 1] = ApplyStmt(s, Before(b)[i])
  <2>1. ASSUME i + 1 \in 1..Len(code)
        PROVE  Before(b)[i + 1] = ApplyStmt(s, Before(b)[i])
    <3>1. i + 1 # 1 /\ (i + 1) - 1 = i
      BY <1>2
    <3> QED
      BY <2>1, <3>1, BeforeStep
  <2> QED
    BY <2>1
<1>6. \A q : <<"moved", q>> \in StmtGen(s) => <<"moved", q>> \in Gen(b)
  BY <1>2, BodyTypes DEF Gen, Code, MoveTypes
<1> HIDE DEF s, code
<1> SUFFICES ASSUME NEW q \in Paths
             PROVE  /\ <<"dead", q>> \in Run(s, facts) => <<"moved", q>> \in Run(s, facts)
                    /\ <<"moved", q>> \in Run(s, facts) =>
                         /\ i + 1 \in 1..Len(code) => <<"moved", q>> \in Before(b)[i + 1]
                         /\ <<"moved", q>> \in in[b] \cup Gen(b)
                         /\ \A k \in 1..Len(code) : k < i + 1 => q \notin StmtInits(code[k])
  BY <1>3 DEF Covers, code
<1>7. /\ <<"dead", q>> \in facts => <<"moved", q>> \in facts
      /\ <<"moved", q>> \in facts =>
           /\ <<"moved", q>> \in Before(b)[i]
           /\ <<"moved", q>> \in in[b] \cup Gen(b)
           /\ \A k \in 1..Len(code) : k < i => q \notin StmtInits(code[k])
  BY <1>1, <1>2 DEF Covers, code
<1>8. <<"dead", q>> \in Run(s, facts) => <<"moved", q>> \in Run(s, facts)
  BY <1>2, <1>7, RunFact
<1>9. ASSUME <<"moved", q>> \in Run(s, facts)
      PROVE  /\ i + 1 \in 1..Len(code) => <<"moved", q>> \in Before(b)[i + 1]
             /\ <<"moved", q>> \in in[b] \cup Gen(b)
             /\ \A k \in 1..Len(code) : k < i + 1 => q \notin StmtInits(code[k])
  <2>1. q \notin StmtInits(s) /\ (<<"moved", q>> \in facts \/ <<"moved", q>> \in StmtGen(s))
    BY <1>2, <1>9, RunFact
  <2>2. <<"moved", q>> \in Before(b)[i] \/ <<"moved", q>> \in StmtGen(s)
    BY <1>7, <2>1
  <2>3. i + 1 \in 1..Len(code) => <<"moved", q>> \in Before(b)[i + 1]
    BY <1>2, <1>5, <2>1, <2>2, ApplyFact
  <2>4. ASSUME NEW k \in 1..Len(code), k < i + 1 PROVE q \notin StmtInits(code[k])
    <3>1. k \in 1..i
      BY <1>2, <2>4
    <3>2. CASE <<"moved", q>> \in StmtGen(s)
      BY <1>4, <3>1, <3>2
    <3>3. CASE <<"moved", q>> \in facts
      <4>1. k < i \/ k = i
        BY <1>2, <2>4
      <4> QED
        BY <1>7, <2>1, <3>3, <4>1 DEF s
    <3> QED
      BY <2>1, <3>2, <3>3
  <2> QED
    BY <1>6, <1>7, <2>1, <2>3, <2>4
<1> QED
  BY <1>8, <1>9

LEMMA CoversJump ==
  ASSUME MoveTypes, NEW c \in Triples, Covers(c), ~(c[2] <= Len(body[c[1]].code)),
         \A b \in Blocks : Settled(b), NEW d \in After(c)
  PROVE  Covers(d)
<1>1. PICK b \in Blocks, i \in Nat \ {0}, facts \in SUBSET Facts : c = <<b, i, facts>>
  BY DEF Triples
<1>2. PICK t \in body[b].succ : d = <<t, 1, Forget(Covered(body[b].dest), facts)>>
  BY <1>1 DEF After
<1>3. t \in Blocks /\ b \in Preds(t)
  BY <1>2, BodyTypes DEF MoveTypes, Preds
<1>4. Len(body[b].code) \in Nat /\ DOMAIN body[b].code = 1..Len(body[b].code)
  BY BodyTypes DEF MoveTypes
<1>5. ASSUME NEW q \in Paths, <<"moved", q>> \in Forget(Covered(body[b].dest), facts)
      PROVE  <<"moved", q>> \in in[t]
  <2>1. <<"moved", q>> \in facts /\ q \notin Covered(body[b].dest)
    BY <1>5, ForgetFact
  <2>2. /\ <<"moved", q>> \in in[b] \cup Gen(b)
        /\ \A k \in 1..Len(body[b].code) : q \notin StmtInits(body[b].code[k])
    <3>1. i \in Nat /\ \A k \in 1..Len(body[b].code) : k < i
      BY <1>1, <1>4
    <3>2. /\ <<"moved", q>> \in in[b] \cup Gen(b)
          /\ \A k \in 1..Len(body[b].code) : k < i => q \notin StmtInits(body[b].code[k])
      BY <1>1, <2>1 DEF Covers
    <3> QED
      BY <3>1, <3>2
  <2>3. q \notin BlockInits(b)
    BY <1>4, <2>1, <2>2 DEF BlockInits, StatementInits, Code
  <2>4. <<"moved", q>> \in out[b]
    <3>1. out[b] = Forget(BlockInits(b), in[b] \cup Gen(b))
      BY DEF Settled, Transfer
    <3> QED
      BY <2>2, <2>3, <3>1, ForgetFact
  <2>5. <<"moved", q>> \in Incoming(t)
    BY <1>3, <2>4 DEF Incoming
  <2> QED
    BY <1>3, <2>5 DEF Join, Dead, Settled
<1>6. ASSUME NEW q \in Paths, <<"dead", q>> \in Forget(Covered(body[b].dest), facts)
      PROVE  <<"moved", q>> \in Forget(Covered(body[b].dest), facts)
  BY <1>1, <1>6, ForgetFact DEF Covers
<1>7. 1 \in 1..Len(body[t].code) => Before(t)[1] = in[t]
  BY <1>3, BeforeStep
<1> DEFINE F == Forget(Covered(body[b].dest), facts)
<1>8. Len(body[t].code) \in Nat /\ \A k \in 1..Len(body[t].code) : ~(k < 1)
  BY <1>3, BodyTypes DEF MoveTypes
<1>9. d[1] = t /\ d[2] = 1 /\ d[3] = F
  BY <1>2
<1> HIDE DEF F
<1>10. \A q \in Paths :
         /\ <<"dead", q>> \in F => <<"moved", q>> \in F
         /\ <<"moved", q>> \in F =>
              /\ 1 \in 1..Len(body[t].code) => <<"moved", q>> \in Before(t)[1]
              /\ <<"moved", q>> \in in[t] \cup Gen(t)
              /\ \A k \in 1..Len(body[t].code) : k < 1 => q \notin StmtInits(body[t].code[k])
  BY <1>5, <1>6, <1>7, <1>8 DEF F
<1> QED
  BY <1>9, <1>10 DEF Covers

(* Every configuration of a plain body is covered by facts that solve the  *)
(* equations.                                                              *)
LEMMA RunsCovered ==
  ASSUME MoveTypes, Plain, \A b \in Blocks : Settled(b), NEW n \in Nat
  PROVE  \A c \in Configurations(n) : Covers(c)
<1> DEFINE T == {m \in Nat : \A c \in Configurations(m) : Covers(c)}
<1>1. body \in Bodies
  BY DEF MoveTypes
<1>2. 0 \in T
  BY <1>1, ConfigurationsStep, CoversStart
<1>3. ASSUME NEW m \in T PROVE m + 1 \in T
  <2>1. /\ Configurations(m) \subseteq Triples
        /\ Configurations(m + 1) = Onward(Configurations(m))
    BY <1>1, ConfigurationsStep DEF TripleSets
  <2>2. ASSUME NEW c \in Configurations(m), NEW d \in After(c) PROVE Covers(d)
    BY <2>1, <2>2, CoversStatement, CoversJump
  <2> QED
    BY <2>1, <2>2 DEF Onward
<1> HIDE DEF T
<1>4. T = Nat
  BY <1>2, <1>3, AllNumbers DEF T
<1> QED
  BY <1>4 DEF T
-----------------------------------------------------------------------------
(* The configurations of the runs, when these have been followed to their  *)
(* ends and come to every block: a run at statement i goes on.             *)
Runs == Configurations(Steps)
Known(b, i) == UNION {c[3] : c \in {d \in Runs : d[1] = b /\ d[2] = i}}

LEMMA RunsTypes ==
  ASSUME body \in Bodies
  PROVE  Runs \subseteq Triples
  BY ConfigurationsStep, MovesAssumption DEF MovesAssumption, Runs, TripleSets

LEMMA RunsGoOn ==
  ASSUME body \in Bodies, RunsComplete, NEW c \in Runs, c[2] <= Len(body[c[1]].code)
  PROVE  <<c[1], c[2] + 1, Run(body[c[1]].code[c[2]], c[3])>> \in Runs
  BY DEF RunsComplete, After, Runs

LEMMA RunsJump ==
  ASSUME body \in Bodies, RunsComplete, NEW c \in Runs, ~(c[2] <= Len(body[c[1]].code)),
         NEW t \in body[c[1]].succ
  PROVE  <<t, 1, Forget(Covered(body[c[1]].dest), c[3])>> \in Runs
  BY DEF RunsComplete, After, Runs

(* A run comes to every statement of every block, and to its end.          *)
LEMMA RunsThrough ==
  ASSUME body \in Bodies, RunsComplete, EveryBlockReached, NEW b \in Blocks,
         NEW i \in 1..Len(body[b].code) + 1
  PROVE  \E c \in Runs : c[1] = b /\ c[2] = i
<1> DEFINE n == Len(body[b].code)
           At(j) == \E c \in Runs : c[1] = b /\ c[2] = j
           T == {m \in Nat : m + 1 <= n + 1 => At(m + 1)}
<1>1. n \in Nat
  BY BodyTypes
<1> HIDE DEF n
<1>2. 0 \in T
  BY DEF EveryBlockReached, Runs
<1>3. ASSUME NEW m \in T PROVE m + 1 \in T
  <2>1. SUFFICES ASSUME (m + 1) + 1 <= n + 1 PROVE At((m + 1) + 1)
    OBVIOUS
  <2>2. m + 1 <= n + 1 /\ m + 1 <= n
    BY <1>1, <2>1
  <2>3. PICK c \in Runs : c[1] = b /\ c[2] = m + 1
    BY <2>2
  <2>4. <<b, (m + 1) + 1, Run(body[b].code[m + 1], c[3])>> \in Runs
    BY <2>2, <2>3, RunsGoOn DEF n
  <2> QED
    BY <2>4
<1> HIDE DEF T
<1>4. T = Nat
  BY <1>2, <1>3, AllNumbers DEF T
<1>5. i - 1 \in Nat /\ (i - 1) + 1 = i /\ i <= n + 1
  BY <1>1 DEF n
<1> QED
  BY <1>4, <1>5 DEF T

(* What some run knows before a statement of a plain body, and what it     *)
(* knows after it, by the effects the checker goes by.                     *)
LEMMA KnownGoesOn ==
  ASSUME body \in Bodies, RunsComplete, NEW b \in Blocks, NEW i \in 1..Len(body[b].code),
         NEW k \in {"moved", "dead"}, NEW q, <<k, q>> \in Known(b, i),
         q \notin StmtInits(body[b].code[i])
  PROVE  <<k, q>> \in Known(b, i + 1)
<1> DEFINE s == body[b].code[i]
<1>1. s \in Statements /\ i <= Len(body[b].code)
  BY BodyTypes
<1>2. PICK c \in Runs : c[1] = b /\ c[2] = i /\ <<k, q>> \in c[3]
  BY DEF Known
<1>3. <<b, i + 1, Run(s, c[3])>> \in Runs
  BY <1>1, <1>2, RunsGoOn
<1>4. <<k, q>> \in Run(s, c[3])
  <2>1. CASE s.op = "dead"
    BY <1>2, <2>1 DEF Run
  <2>2. CASE s.op # "dead"
    <3>1. q \notin Below[s.place]
      BY <2>2 DEF StmtInits
    <3>2. Run(s, c[3]) = Forget(Below[s.place], c[3] \cup Moved(Covered(s.moves)))
      BY <2>2 DEF Run
    <3> QED
      BY <1>2, <3>1, <3>2, ForgetFact
  <2> QED
    BY <2>1, <2>2
<1> QED
  BY <1>3, <1>4 DEF Known

LEMMA KnownGenerated ==
  ASSUME body \in Bodies, RunsComplete, EveryBlockReached,
         NEW b \in Blocks, NEW i \in 1..Len(body[b].code),
         NEW k \in {"moved", "dead"}, NEW q, <<k, q>> \in StmtGen(body[b].code[i]),
         q \notin StmtInits(body[b].code[i])
  PROVE  <<k, q>> \in Known(b, i + 1)
<1> DEFINE s == body[b].code[i]
<1>1. s \in Statements /\ i <= Len(body[b].code) /\ i \in 1..Len(body[b].code) + 1
  BY BodyTypes
<1>2. PICK c \in Runs : c[1] = b /\ c[2] = i
  BY <1>1, RunsThrough
<1>3. <<b, i + 1, Run(s, c[3])>> \in Runs
  BY <1>1, <1>2, RunsGoOn
<1>4. <<k, q>> \in Run(s, c[3])
  <2>1. CASE s.op = "dead"
    BY <2>1 DEF Run
  <2>2. CASE s.op # "dead"
    <3>1. q \notin Below[s.place]
      BY <2>2 DEF StmtInits
    <3>2. <<k, q>> \in Moved(Covered(s.moves))
      BY <2>2 DEF StmtGen
    <3>3. Run(s, c[3]) = Forget(Below[s.place], c[3] \cup Moved(Covered(s.moves)))
      BY <2>2 DEF Run
    <3> QED
      BY <3>1, <3>2, <3>3, ForgetFact
  <2> QED
    BY <2>1, <2>2
<1> QED
  BY <1>3, <1>4 DEF Known

(* A fact that no later statement of the block forgets is known at its end.*)
LEMMA KnownToEnd ==
  ASSUME body \in Bodies, RunsComplete, NEW b \in Blocks, NEW i \in 1..Len(body[b].code) + 1,
         NEW k \in {"moved", "dead"}, NEW q, <<k, q>> \in Known(b, i),
         \A j \in 1..Len(body[b].code) : q \notin StmtInits(body[b].code[j])
  PROVE  <<k, q>> \in Known(b, Len(body[b].code) + 1)
<1> DEFINE n == Len(body[b].code)
           T == {m \in Nat : i + m <= n + 1 => <<k, q>> \in Known(b, i + m)}
<1>1. n \in Nat /\ i \in Nat /\ i >= 1 /\ i <= n + 1
  BY BodyTypes
<1>2. 0 \in T
  BY <1>1
<1>3. ASSUME NEW m \in T PROVE m + 1 \in T
  <2>1. SUFFICES ASSUME i + (m + 1) <= n + 1 PROVE <<k, q>> \in Known(b, i + (m + 1))
    OBVIOUS
  <2>2. /\ i + m \in 1..n /\ i + m <= n + 1 /\ (i + m) + 1 = i + (m + 1)
    BY <1>1, <2>1
  <2>3. <<k, q>> \in Known(b, i + m)
    BY <2>2
  <2>4. <<k, q>> \in Known(b, (i + m) + 1)
    BY <2>2, <2>3, KnownGoesOn
  <2> QED
    BY <2>2, <2>4
<1> HIDE DEF T
<1>4. T = Nat
  BY <1>2, <1>3, AllNumbers DEF T
<1>5. (n + 1) - i \in Nat /\ i + ((n + 1) - i) = n + 1
  BY <1>1
<1>6. (n + 1) - i \in T
  BY <1>4, <1>5
<1> QED
  BY <1>5, <1>6 DEF T

(* What runs know when they enter and when they leave a block solves the   *)
(* equations; by MirMovesLeast the checker has no more.                    *)
Leaving(b) == Forget(Covered(body[b].dest), Known(b, Len(body[b].code) + 1))

LEMMA KnownFacts ==
  ASSUME body \in Bodies, NEW b, NEW i
  PROVE  Known(b, i) \subseteq Facts
<1>1. \A c \in Triples : c[3] \subseteq Facts
  BY DEF Triples
<1> QED
  BY <1>1, RunsTypes DEF Known

LEMMA RunsSolve ==
  ASSUME body \in Bodies, RunsComplete, EveryBlockReached, NEW si, NEW so,
         si = [b \in Blocks |-> Known(b, 1)], so = [b \in Blocks |-> Leaving(b)]
  PROVE  Solution(si, so)
<1> SUFFICES ASSUME NEW b \in Blocks PROVE Within(b, si, so)
  BY DEF Solution
<1> DEFINE n == Len(body[b].code)
<1>1. /\ n \in Nat /\ DOMAIN body[b].code = 1..n
      /\ \A i \in 1..n : body[b].code[i] \in Statements
  BY BodyTypes
<1>2. ASSUME NEW p \in Preds(b), NEW x \in Leaving(p) PROVE x \in Known(b, 1)
  <2>1. p \in Blocks /\ b \in body[p].succ
    BY DEF Preds
  <2>2. PICK c \in Runs : c[1] = p /\ c[2] = Len(body[p].code) + 1 /\ x \in c[3]
    BY DEF Leaving, Forget, Known
  <2>3. ~(Len(body[p].code) + 1 <= Len(body[p].code))
    BY <2>1, BodyTypes
  <2>4. <<b, 1, Forget(Covered(body[p].dest), c[3])>> \in Runs
    BY <2>1, <2>2, <2>3, RunsJump
  <2>5. x \in Forget(Covered(body[p].dest), c[3])
    BY <2>2 DEF Leaving, Forget
  <2> QED
    BY <2>4, <2>5 DEF Known
<1>3. ASSUME NEW x \in Transfer(b, Known(b, 1)) PROVE x \in Leaving(b)
  <2>1. x \in Facts
    <3>1. Gen(b) \subseteq Facts
      BY <1>1, GenTypes DEF Gen, Code
    <3> QED
      BY <3>1, KnownFacts DEF Transfer, Forget
  <2>2. PICK k \in {"moved", "dead"}, q \in Paths : x = <<k, q>>
    BY <2>1 DEF Facts
  <2>3. <<k, q>> \in Known(b, 1) \cup Gen(b) /\ q \notin BlockInits(b)
    BY <2>2, ForgetFact DEF Transfer
  <2>4. q \notin Covered(body[b].dest) /\ \A j \in 1..n : q \notin StmtInits(body[b].code[j])
    BY <1>1, <2>3 DEF BlockInits, StatementInits, Code
  <2>5. <<k, q>> \in Known(b, n + 1)
    <3>1. CASE <<k, q>> \in Known(b, 1)
      <4>1. 1 \in 1..n + 1
        BY <1>1
      <4> QED
        BY <2>4, <3>1, <4>1, KnownToEnd
    <3>2. CASE <<k, q>> \in Gen(b)
      <4>1. PICK j \in 1..n : <<k, q>> \in StmtGen(body[b].code[j])
        BY <1>1, <3>2 DEF Gen, Code
      <4>2. j + 1 \in 1..n + 1
        BY <1>1
      <4>3. <<k, q>> \in Known(b, j + 1)
        BY <2>4, <4>1, KnownGenerated
      <4> QED
        BY <2>4, <4>2, <4>3, KnownToEnd
    <3> QED
      BY <2>3, <3>1, <3>2
  <2> QED
    BY <2>2, <2>4, <2>5, ForgetFact DEF Leaving
<1>4. UNION {so[p] : p \in Preds(b)} \subseteq Known(b, 1)
  <2>1. \A p \in Preds(b) : so[p] = Leaving(p)
    BY DEF Preds
  <2> QED
    BY <1>2, <2>1
<1>5. si[b] = Known(b, 1) /\ so[b] = Leaving(b)
  OBVIOUS
<1> QED
  BY <1>3, <1>4, <1>5 DEF Within

LEMMA BeforeKnown ==
  ASSUME MoveTypes, Plain, RunsComplete, EveryBlockReached,
         NEW b \in Blocks, in[b] \subseteq Known(b, 1), NEW i \in 1..Len(body[b].code)
  PROVE  Before(b)[i] \subseteq Known(b, i)
<1> DEFINE n == Len(body[b].code)
           T == {m \in Nat : m + 1 <= n => Before(b)[m + 1] \subseteq Known(b, m + 1)}
<1>1. body \in Bodies /\ n \in Nat
  BY BodyTypes DEF MoveTypes
<1>2. 0 \in T
  <2>1. ASSUME 1 <= n PROVE Before(b)[1] = in[b]
    <3>1. 1 \in 1..Len(body[b].code)
      BY <1>1, <2>1
    <3> QED
      BY <3>1, BeforeStep
  <2> QED
    BY <2>1
<1>3. ASSUME NEW m \in T PROVE m + 1 \in T
  <2> DEFINE j == m + 1
             s == body[b].code[j]
  <2>1. SUFFICES ASSUME j + 1 <= n PROVE Before(b)[j + 1] \subseteq Known(b, j + 1)
    OBVIOUS
  <2>2. /\ j \in 1..n /\ j + 1 \in 1..n /\ j <= n /\ j + 1 # 1 /\ (j + 1) - 1 = j
    BY <1>1, <2>1
  <2>3. Before(b)[j] \subseteq Known(b, j)
    BY <2>2
  <2>4. s \in Statements /\ j \in DOMAIN body[b].code
    BY <1>1, <2>2, BodyTypes
  <2> HIDE DEF j
  <2>5. Before(b)[j + 1] = ApplyStmt(s, Before(b)[j])
    BY <2>2, BeforeStep
  <2>6. Forget(StmtInits(s), StmtGen(s)) = StmtGen(s)
    <3>1. j \in 1..j
      BY <2>2
    <3> QED
      BY <2>4, <3>1 DEF Plain
  <2>7. SUFFICES ASSUME NEW x \in ApplyStmt(s, Before(b)[j]) PROVE x \in Known(b, j + 1)
    BY <2>5 DEF j
  <2>8. x \in Facts
    BY <1>1, <2>3, <2>4, <2>7, GenTypes, KnownFacts DEF ApplyStmt, Forget
  <2>9. PICK k \in {"moved", "dead"}, q \in Paths : x = <<k, q>>
    BY <2>8 DEF Facts
  <2>10. CASE <<k, q>> \in StmtGen(s)
    <3>1. q \notin StmtInits(s)
      BY <2>6, <2>10, ForgetFact
    <3> QED
      BY <1>1, <2>2, <2>9, <2>10, <3>1, KnownGenerated
  <2>11. CASE <<k, q>> \notin StmtGen(s)
    <3>1. <<k, q>> \in Known(b, j) /\ q \notin StmtInits(s)
      BY <2>3, <2>7, <2>9, <2>11, ForgetFact DEF ApplyStmt
    <3> QED
      BY <1>1, <2>2, <2>9, <3>1, KnownGoesOn
  <2> QED
    BY <2>10, <2>11
<1> HIDE DEF T
<1>4. T = Nat
  BY <1>2, <1>3, AllNumbers DEF T
<1>5. i - 1 \in T /\ (i - 1) + 1 = i /\ i <= n
  BY <1>1, <1>4
<1> QED
  BY <1>5 DEF T
-----------------------------------------------------------------------------
ErrorsReported == phase = "done" => errors = UNION {Reports(b) : b \in Blocks}

LEMMA NextErrors == ErrorsReported /\ [MovesNext]_movesVars => ErrorsReported'
<1> SUFFICES ASSUME ErrorsReported, [MovesNext]_movesVars PROVE ErrorsReported'
  OBVIOUS
<1>1. CASE \E b \in Blocks : Visit(b)
  BY <1>1 DEF Visit, ErrorsReported
<1>2. ASSUME body' = body, in' = in, NEW b \in Blocks PROVE Reports(b)' = Reports(b)
  BY <1>2 DEF Reports, PlacesUsed, Bad, Before, ApplyStmt, Forget, StmtInits, StmtGen
<1>3. CASE Check
  BY <1>2, <1>3 DEF Check, ErrorsReported
<1>4. CASE UNCHANGED movesVars
  BY <1>2, <1>4 DEF movesVars, ErrorsReported
<1> QED
  BY <1>1, <1>3, <1>4 DEF MovesNext

LEMMA EveryUseReported ==
  ASSUME MoveTypes, ErrorsReported, Solved, phase = "done", Plain
  PROVE  Real \subseteq errors
<1>1. \A b \in Blocks : Settled(b)
  BY DEF Solved, Settled
<1>2. Runs \subseteq Triples /\ \A c \in Runs : Covers(c)
  BY <1>1, RunsTypes, RunsCovered, MovesAssumption DEF MovesAssumption, MoveTypes, Runs
<1>3. SUFFICES ASSUME NEW c \in Runs, c[2] \in DOMAIN body[c[1]].code,
                      NEW p \in PlacesUsed(body[c[1]].code[c[2]]), Bad(p, c[3])
               PROVE  <<c[1], c[2], p>> \in errors
  BY DEF Real, Runs
<1>4. PICK b \in Blocks, i \in Nat \ {0}, facts \in SUBSET Facts : c = <<b, i, facts>>
  BY <1>2 DEF Triples
<1>5. i \in 1..Len(body[b].code) /\ DOMAIN body[b].code = 1..Len(body[b].code)
  BY <1>3, <1>4, BodyTypes DEF MoveTypes
<1>6. PICK q \in Below[p] : <<"moved", q>> \in facts \/ <<"dead", q>> \in facts
  BY <1>3, <1>4 DEF Bad
<1>7. q \in Paths
  BY <1>6 DEF Facts
<1>8. <<"moved", q>> \in Before(b)[i]
  BY <1>2, <1>4, <1>5, <1>6, <1>7 DEF Covers
<1>9. Bad(p, Before(b)[i])
  BY <1>6, <1>8 DEF Bad
<1>10. <<b, i, p>> \in Reports(b)
  BY <1>3, <1>4, <1>5, <1>9 DEF Reports
<1> QED
  BY <1>4, <1>10 DEF ErrorsReported

LEMMA NothingElseReported ==
  ASSUME MoveTypes, ErrorsReported, Least, phase = "done", Plain, RunsComplete, EveryBlockReached
  PROVE  errors \subseteq Real
<1>1. body \in Bodies
  BY DEF MoveTypes
<1>2. \A b \in Blocks : in[b] \subseteq Known(b, 1)
  <2>1. PICK si, so : si = [b \in Blocks |-> Known(b, 1)] /\ so = [b \in Blocks |-> Leaving(b)]
    OBVIOUS
  <2>2. Solution(si, so)
    BY <1>1, <2>1, RunsSolve
  <2> QED
    BY <2>1, <2>2 DEF Least, NoMore
<1>3. SUFFICES ASSUME NEW b \in Blocks, NEW i \in DOMAIN body[b].code,
                      NEW p \in PlacesUsed(body[b].code[i]), Bad(p, Before(b)[i])
               PROVE  <<b, i, p>> \in Real
  BY DEF ErrorsReported, Reports
<1>4. i \in 1..Len(body[b].code)
  BY <1>1, BodyTypes
<1>5. PICK q \in Below[p] : <<"moved", q>> \in Before(b)[i] \/ <<"dead", q>> \in Before(b)[i]
  BY <1>3 DEF Bad
<1>6. PICK c \in Runs : /\ c[1] = b /\ c[2] = i
                        /\ <<"moved", q>> \in c[3] \/ <<"dead", q>> \in c[3]
  BY <1>2, <1>4, <1>5, BeforeKnown DEF Known
<1>7. Bad(p, c[3])
  BY <1>5, <1>6 DEF Bad
<1> QED
  BY <1>3, <1>6, <1>7 DEF Real, Runs

(* In a body none of whose statements moves a place that it or an earlier  *)
(* statement of its block writes, the move checker reports every use of a  *)
(* moved or dead place that a run of any length makes; and no other, when  *)
(* every block can be reached and the runs have been followed to their     *)
(* ends: for bodies of any size and shape and any tree of move paths.      *)
THEOREM MirMovesExact == MovesSpec => []Exact
<1>1. MovesSpec => [](MovesIInv /\ Least)
  BY MovesInitIInv, MovesNextIInv, InitLeast, NextLeast, PTL DEF MovesSpec
<1>2. MovesSpec => []MoveTypes
  BY InitMoveTypes, NextMoveTypes, PTL DEF MovesSpec
<1>3. MovesInit => ErrorsReported
  BY DEF MovesInit, ErrorsReported
<1>4. MovesSpec => []ErrorsReported
  BY <1>3, NextErrors, PTL DEF MovesSpec
<1>5. MovesIInv => Solved
  BY DEF MovesIInv, FlowTypes, SettledOutside, Settled, Solved
<1>6. MovesIInv /\ Least /\ MoveTypes /\ ErrorsReported => Exact
  BY <1>5, EveryUseReported, NothingElseReported DEF Exact
<1> QED
  BY <1>1, <1>2, <1>4, <1>6, PTL
=============================================================================
