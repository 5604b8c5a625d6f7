------------------------ MODULE FilterCompilerProofs ------------------------
(***************************************************************************)
(* The engine runs every program it accepted to its end, and the compiler   *)
(* and the engine together are correct: the verdict of a filter on an event *)
(* is what its expression says of it.                                       *)
(*                                                                          *)
(* The walks over expressions are recursive functions, which the provers    *)
(* know nothing of.  So the module first shows, by induction over the depth *)
(* of an expression, that each function there is satisfies its equation     *)
(* (...Is), and then reasons by induction over expressions (AllTrees).      *)
(***************************************************************************)
EXTENDS FilterCompiler, WellFoundedInduction, TLAPS

-----------------------------------------------------------------------------
(* The engine: a program that was accepted runs to its end on every event,  *)
(* whatever its length and its layer.                                       *)

(* The depth the check counted after the k-th opcode.                       *)
DepthAfter(k) == IF k < Len(depths) THEN depths[k + 1] ELSE depth

(* What the check knows of an opcode it has passed.                         *)
Passed(k) ==
  /\ IsTest(ir.program[k]) => DepthAfter(k) = depths[k] + 1
  /\ ir.program[k].op = "Not" => depths[k] >= 1 /\ DepthAfter(k) = depths[k]
  /\ Joins(ir.program[k]) => depths[k] >= 2 /\ DepthAfter(k) = depths[k] - 1

ShapeKnown ==
  /\ Len(depths) <= Len(ir.program)
  /\ depths = <<>> => depth = 0
  /\ depths # <<>> => depths[1] = 0
  /\ \A k \in 1 .. Len(depths) : Passed(k)

FilterInv ==
  /\ FilterTypeOK
  /\ phase = "load" => at = 1 /\ depth = 0 /\ depths = <<>>
  /\ phase \in {"shape", "ready", "run"} => ValidIr(layer, ir) /\ ShapeKnown
  /\ phase = "shape" => at = Len(depths) + 1
  /\ phase \in {"ready", "run"} => Len(depths) = Len(ir.program) /\ depth = 1
  /\ StackIsAsChecked
  /\ EvaluationNeverGivesUp

-----------------------------------------------------------------------------
(* An opcode is a test, a negation or a connective.                         *)
LEMMA OpKinds ==
  ASSUME NEW op \in OpCode
  PROVE  /\ op.op \in {"FieldTest", "PacketLoad", "And", "Or", "Not"}
         /\ IsTest(op) \/ op.op = "Not" \/ Joins(op)
         /\ ~ (IsTest(op) /\ Joins(op))
         /\ op.op = "Not" => ~ IsTest(op) /\ ~ Joins(op)
<1>1. op.op \in {"FieldTest", "PacketLoad", "And", "Or", "Not"}
  <2>1. CASE op \in FieldTests BY <2>1 DEF FieldTests
  <2>2. CASE op \in PacketLoads BY <2>2 DEF PacketLoads
  <2>3. CASE op \in [op : {"And", "Or", "Not"}] BY <2>3
  <2>. QED BY <2>1, <2>2, <2>3 DEF OpCode
<1>. QED BY <1>1 DEF IsTest, Joins

(* A test answers yes or no.                                                *)
LEMMA TestsBoolean == ASSUME NEW e, NEW op PROVE Tests(e, op) \in BOOLEAN
<1>1. PacketTest(e.layer, e.packet, op.field, op.value) \in BOOLEAN
  BY Zenon DEF PacketTest
<1>2. EventTest(e, op.field, op.value) \in BOOLEAN
  BY Zenon DEF EventTest
<1>3. (op.value \in Loaded(e.packet, op.width, op.offset)) \in BOOLEAN
  OBVIOUS
<1>. QED BY Zenon, <1>1, <1>2, <1>3 DEF Tests

(* The opcode at hand is an opcode.                                         *)
LEMMA OpTyped ==
  ASSUME FilterTypeOK, at <= Len(ir.program)
  PROVE  Op \in OpCode /\ at \in 1 .. Len(ir.program)
BY DEF FilterTypeOK, FilterIr, Op

-----------------------------------------------------------------------------
(* A step of the check keeps what is known of the opcodes before it.        *)
LEMMA CheckOpKeepsShape ==
  ASSUME FilterInv, CheckOp
  PROVE  FilterInv'
<1>. at \in 1 .. Len(ir.program) /\ Op \in OpCode /\ phase = "shape"
  BY OpTyped DEF FilterInv, CheckOp
<1>1. CASE phase' = "bad_shape"
  <2>1. UNCHANGED <<at, depth, depths, ir, layer, event, stack, verdict>>
    BY <1>1 DEF CheckOp, engine, run
  <2>. QED BY <1>1, <2>1 DEF FilterInv, FilterTypeOK, Phases, StackIsAsChecked,
                           EvaluationNeverGivesUp
<1>2. CASE phase' # "bad_shape"
  <2>1. /\ Op.op = "Not" => depth >= 1
        /\ Joins(Op) => depth >= 2
        /\ at' = at + 1
        /\ depth' = IF IsTest(Op) THEN depth + 1 ELSE IF Joins(Op) THEN depth - 1 ELSE depth
        /\ depths' = Append(depths, depth)
        /\ phase' = "shape"
        /\ UNCHANGED <<ir, layer, event, stack, verdict>>
    BY <1>2 DEF CheckOp, engine, run, FilterInv, FilterTypeOK
  <2>2. depth \in Nat /\ depths \in Seq(Nat) /\ at = Len(depths) + 1
    BY DEF FilterInv, FilterTypeOK
  <2>3. depth' \in Nat /\ depths' \in Seq(Nat) /\ Len(depths') = Len(depths) + 1
    BY <2>1, <2>2
  <2>4. FilterTypeOK'
    BY <2>1, <2>3 DEF FilterInv, FilterTypeOK, Phases, FilterIr
  <2>5. ShapeKnown'
    <3>1. Len(depths') <= Len(ir.program)'
      BY <2>1, <2>2, <2>3
    <3>2. depths'[1] = 0 /\ depths' # <<>>
      BY <2>1, <2>2, <2>3 DEF FilterInv, ShapeKnown
    <3>3. ASSUME NEW k \in 1 .. Len(depths) PROVE Passed(k)'
      <4>1. Passed(k)
        BY DEF FilterInv, ShapeKnown
      <4>2. depths'[k] = depths[k] /\ DepthAfter(k)' = DepthAfter(k)
        BY <2>1, <2>2, <2>3 DEF DepthAfter
      <4>. QED BY <2>1, <4>1, <4>2 DEF Passed
    <3>4. ASSUME NEW k, k = at PROVE Passed(k)'
      <4>1. depths'[k] = depth /\ DepthAfter(k)' = depth'
        BY <2>1, <2>2, <2>3, <3>4 DEF DepthAfter
      <4>2. ir'.program[k] = Op
        BY <2>1, <3>4 DEF Op
      <4>. QED BY <2>1, <2>2, <4>1, <4>2, OpKinds DEF Passed
    <3>5. \A k \in 1 .. Len(depths') : Passed(k)'
      BY <2>2, <2>3, <3>3, <3>4
    <3>. QED BY <2>3, <3>1, <3>2, <3>5 DEF ShapeKnown
  <2>6. ValidIr(layer, ir)'
    BY <2>1 DEF FilterInv
  <2>. QED BY <2>1, <2>2, <2>3, <2>4, <2>5, <2>6
           DEF FilterInv, StackIsAsChecked, EvaluationNeverGivesUp
<1>. QED BY <1>1, <1>2

(* A step of the evaluator finds its operands, and leaves what was counted. *)
LEMMA RunOpKeepsCount ==
  ASSUME FilterInv, RunOp
  PROVE  FilterInv'
<1>1. /\ phase = "run" /\ at \in 1 .. Len(ir.program) /\ Op \in OpCode
      /\ UNCHANGED <<ir, layer, depth, depths, event>>
  BY OpTyped DEF FilterInv, RunOp, engine
<1>2. /\ Len(depths) = Len(ir.program) /\ depth = 1 /\ ShapeKnown /\ ValidIr(layer, ir)
      /\ Len(stack) = depths[at] /\ stack \in Seq(BOOLEAN) /\ depths \in Seq(Nat)
  BY <1>1 DEF FilterInv, StackIsAsChecked, FilterTypeOK
<1>3. Passed(at) /\ ir.program[at] = Op
  BY <1>1, <1>2 DEF ShapeKnown, Op
<1>p. ASSUME Panics, IsWideAddr(Op) PROVE FilterInv'
  <2>1. phase' = "panicked" /\ UNCHANGED <<ir, layer, depth, depths, event, at, stack, verdict>>
    BY <1>1, <1>p DEF Panics
  <2>2. \E k \in 1 .. Len(ir'.program) : IsWideAddr(ir'.program[k])
    BY <1>1, <1>3, <1>p, <2>1
  <2>. QED BY <2>1, <2>2 DEF FilterInv, FilterTypeOK, Phases, StackIsAsChecked, EvaluationNeverGivesUp
<1>4. SUFFICES ASSUME NEW s \in Seq(BOOLEAN), Leaves(s), Len(s) = DepthAfter(at)
               PROVE  FilterInv'
  <2>1. CASE IsTest(Op)
    <3>1. Op.op = "PacketLoad" => layer \in NetworkLayer
      BY <1>1, <1>2, <1>3 DEF ValidIr, SupportsOp
    <3>2. Leaves(Append(stack, Tests(event, Op))) \/ (IsWideAddr(Op) /\ Panics)
      BY <1>1, <2>1, <3>1, OpKinds DEF RunOp, RunTest
    <3>3. /\ Append(stack, Tests(event, Op)) \in Seq(BOOLEAN)
          /\ Len(Append(stack, Tests(event, Op))) = DepthAfter(at)
      BY <1>2, <1>3, <2>1, TestsBoolean DEF Passed
    <3>. QED BY <1>4, <1>p, <3>2, <3>3
  <2>2. CASE Op.op = "Not"
    <3>1. Len(stack) >= 1
      BY <1>2, <1>3, <2>2 DEF Passed
    <3>2. Leaves(Append(Popped(1), ~ Top(0)))
      BY <1>1, <1>2, <2>2, <3>1, OpKinds DEF RunOp, RunNot
    <3>3. Popped(1) \in Seq(BOOLEAN) /\ Len(Popped(1)) = Len(stack) - 1 /\ (~ Top(0)) \in BOOLEAN
      BY <1>2, <3>1 DEF Popped
    <3>4. /\ Append(Popped(1), ~ Top(0)) \in Seq(BOOLEAN)
          /\ Len(Append(Popped(1), ~ Top(0))) = DepthAfter(at)
      BY <1>2, <1>3, <2>2, <3>1, <3>3 DEF Passed
    <3>. QED BY <1>4, <3>2, <3>4
  <2>3. CASE Joins(Op)
    <3>1. Len(stack) >= 2
      BY <1>2, <1>3, <2>3 DEF Passed
    <3>. DEFINE joined == IF Op.op = "And" THEN Top(1) /\ Top(0) ELSE Top(1) \/ Top(0)
    <3>2. Leaves(Append(Popped(2), joined))
      BY <1>1, <1>2, <2>3, <3>1, OpKinds DEF RunOp, RunJoin
    <3>3. Popped(2) \in Seq(BOOLEAN) /\ Len(Popped(2)) = Len(stack) - 2
      BY <1>2, <3>1 DEF Popped
    <3>4. joined \in BOOLEAN
      OBVIOUS
    <3>5. /\ Append(Popped(2), joined) \in Seq(BOOLEAN)
          /\ Len(Append(Popped(2), joined)) = DepthAfter(at)
      <4>. HIDE DEF joined
      <4>. QED BY <1>2, <1>3, <2>3, <3>1, <3>3, <3>4 DEF Passed
    <3>. QED BY <1>4, <3>2, <3>5
  <2>. QED BY <1>1, <2>1, <2>2, <2>3, OpKinds
<1>5. stack' = s /\ at' = at + 1 /\ phase' = "run" /\ UNCHANGED verdict
  BY <1>1, <1>4 DEF Leaves
<1>6. FilterTypeOK'
  BY <1>1, <1>4, <1>5 DEF FilterInv, FilterTypeOK, FilterIr
<1>7. ShapeKnown'
  BY <1>1, <1>2 DEF ShapeKnown, Passed, DepthAfter
<1>8. StackIsAsChecked'
  BY <1>1, <1>2, <1>4, <1>5 DEF StackIsAsChecked, DepthAfter
<1>. QED BY <1>1, <1>2, <1>5, <1>6, <1>7, <1>8 DEF FilterInv, EvaluationNeverGivesUp

-----------------------------------------------------------------------------
(* The invariant of the engine is inductive.                                *)
LEMMA InitFilterInv == FilterInit => FilterInv
BY FilterAssumption
   DEF FilterInit, FilterInv, FilterTypeOK, FilterIr, Phases, StackIsAsChecked,
       EvaluationNeverGivesUp

(* Every step of the engine keeps the invariant.                            *)
LEMMA NextFilterInv ==
  ASSUME FilterInv, [FilterNext]_fvars
  PROVE  FilterInv'
<1>1. CASE ValidateIr
  <2>1. UNCHANGED <<ir, layer, at, depth, depths, event, stack, verdict>>
    BY <1>1 DEF ValidateIr, engine, run
  <2>2. /\ phase = "load" /\ phase' \in {"bad_ir", "bad_shape", "shape"}
        /\ phase' = "shape" => ValidIr(layer, ir)
    BY <1>1 DEF ValidateIr
  <2>3. ValidIr(layer, ir)' = ValidIr(layer, ir)
    BY <2>1
  <2>4. ShapeKnown'
    BY <2>1, <2>2 DEF FilterInv, FilterTypeOK, FilterIr, ShapeKnown
  <2>. QED BY <2>1, <2>2, <2>3, <2>4
           DEF FilterInv, FilterTypeOK, FilterIr, Phases, StackIsAsChecked, EvaluationNeverGivesUp
<1>2. CASE CheckOp
  BY <1>2, CheckOpKeepsShape
<1>3. CASE CheckEnd
  <2>1. UNCHANGED <<ir, layer, at, depth, depths, event, stack, verdict>>
    BY <1>3 DEF CheckEnd, engine, run
  <2>2. /\ phase = "shape" /\ phase' = (IF depth = 1 THEN "ready" ELSE "bad_shape")
        /\ at > Len(ir.program)
    BY <1>3 DEF CheckEnd
  <2>3. ValidIr(layer, ir)' /\ ShapeKnown'
    BY <2>1, <2>2 DEF FilterInv, ShapeKnown, Passed, DepthAfter
  <2>4. Len(depths) = Len(ir.program)
    BY <2>2 DEF FilterInv, ShapeKnown, FilterTypeOK, FilterIr
  <2>. QED BY <2>1, <2>2, <2>3, <2>4
           DEF FilterInv, FilterTypeOK, Phases, StackIsAsChecked, EvaluationNeverGivesUp
<1>4. ASSUME NEW e \in Events, Matches(e) PROVE FilterInv'
  <2>1. /\ phase = "ready" /\ UNCHANGED <<ir, layer, depth, depths>>
        /\ event' \in Event
    BY <1>4, FilterAssumption DEF Matches, engine
  <2>2. ValidIr(layer, ir)' /\ ShapeKnown'
    BY <2>1 DEF FilterInv, ShapeKnown, Passed, DepthAfter
  <2>3. Len(depths) = Len(ir.program) /\ depth = 1 /\ Len(ir.program) \in Nat /\ Len(ir.program) > 0
    BY <2>1 DEF FilterInv, ShapeKnown, FilterTypeOK, FilterIr
  <2>4. CASE e.layer = layer
    <3>1. phase' = "run" /\ at' = 1 /\ stack' = <<>> /\ verdict' = verdict
      BY <1>4, <2>4 DEF Matches
    <3>2. depths[1] = 0
      BY <2>1, <2>3 DEF FilterInv, ShapeKnown
    <3>3. FilterTypeOK'
      BY <2>1, <2>3, <3>1 DEF FilterInv, FilterTypeOK, Phases
    <3>. QED BY <2>1, <2>2, <2>3, <3>1, <3>2, <3>3
             DEF FilterInv, StackIsAsChecked, EvaluationNeverGivesUp
  <2>5. CASE e.layer # layer
    <3>1. phase' = "ready" /\ verdict' = "false" /\ UNCHANGED <<at, stack>>
      BY <1>4, <2>1, <2>5 DEF Matches
    <3>. QED BY <2>1, <2>2, <2>3, <3>1
             DEF FilterInv, FilterTypeOK, StackIsAsChecked, EvaluationNeverGivesUp
  <2>. QED BY <2>4, <2>5
<1>5. CASE RunOp
  BY <1>5, RunOpKeepsCount
<1>6. CASE RunEnd
  <2>1. /\ phase = "run" /\ phase' = "ready" /\ at > Len(ir.program)
        /\ UNCHANGED <<ir, layer, at, depth, depths, event, stack>>
    BY <1>6 DEF RunEnd, engine
  <2>2. Len(stack) = 1
    BY <2>1 DEF FilterInv, StackIsAsChecked, FilterTypeOK, FilterIr
  <2>3. verdict' \in {"true", "false"}
    BY <1>6, <2>2 DEF RunEnd
  <2>4. ValidIr(layer, ir)' /\ ShapeKnown'
    BY <2>1 DEF FilterInv, ShapeKnown, Passed, DepthAfter
  <2>. QED BY <2>1, <2>3, <2>4
           DEF FilterInv, FilterTypeOK, Phases, StackIsAsChecked, EvaluationNeverGivesUp
<1>7. CASE UNCHANGED fvars
  BY <1>7 DEF fvars, engine, run, FilterInv, FilterTypeOK, ShapeKnown, Passed, DepthAfter,
              StackIsAsChecked, EvaluationNeverGivesUp
<1>. QED BY <1>1, <1>2, <1>3, <1>4, <1>5, <1>6, <1>7 DEF FilterNext

(* So it holds of the engine on its own.                                    *)
LEMMA FilterInvAlways == FilterSpec => []FilterInv
BY InitFilterInv, NextFilterInv, PTL DEF FilterSpec

(* Type correctness of the engine, for programs of every length.            *)
THEOREM FilterTypeCorrect == FilterSpec => []FilterTypeOK
<1>1. FilterInv => FilterTypeOK
  BY DEF FilterInv
<1>. QED BY <1>1, FilterInvAlways, PTL

(* An accepted program, of any length and with any values, gives a verdict  *)
(* on every event of its layer: the `?`s of the evaluator are never taken   *)
(* (filter_eval.rs:320-392).  The one way out it has is a panic, and only   *)
(* with an address test of a prefix above 32 (filter_eval.rs:527).          *)
THEOREM FilterNeverGivesUp == FilterSpec => []EvaluationNeverGivesUp
<1>1. FilterInv => EvaluationNeverGivesUp
  BY DEF FilterInv
<1>. QED BY <1>1, FilterInvAlways, PTL

(* While a program runs, its stack is as deep as the check counted.         *)
THEOREM FilterStackAsChecked == FilterSpec => []StackIsAsChecked
<1>1. FilterInv => StackIsAsChecked
  BY DEF FilterInv
<1>. QED BY <1>1, FilterInvAlways, PTL

-----------------------------------------------------------------------------
(* Induction, of a set of numbers.                                          *)
LEMMA AllNumbers ==
  ASSUME NEW P \in SUBSET Nat, 0 \in P, \A k \in P : k + 1 \in P
  PROVE  P = Nat
<1>. DEFINE T == Nat \ P
            R == OpToRel(<, Nat)
<1>1. ASSUME T # {} PROVE FALSE
  <2>1. IsWellFoundedOn(R, Nat)
    BY NatLessThanWellFounded
  <2>2. PICK k \in T : \A j \in T : ~ (<<j, k>> \in R)
    <3>1. T \subseteq Nat
      OBVIOUS
    <3>. HIDE DEF T, R
    <3>. QED BY <1>1, <2>1, <3>1, WFMin
  <2>3. \A j \in T : ~ (j < k)
    BY <2>2 DEF OpToRel
  <2>4. k - 1 \in Nat /\ k - 1 < k /\ (k - 1) + 1 = k
    OBVIOUS
  <2>. QED BY <2>3, <2>4
<1>. QED BY <1>1

-----------------------------------------------------------------------------
(* The trees of expressions.                                                *)

(* The expressions with one operator more than those of a set.              *)
Above(Operand) ==
  Predicate
    \cup [node : {"Not"}, l : Operand]
    \cup [node : {"And", "Or"}, l : Operand, r : Operand]

TreesTo(n, f) == f = [d \in 0 .. n |-> IF d = 0 THEN Predicate ELSE Above(f[d - 1])]

(* There are sets of expressions of every depth.                            *)
LEMMA TreesExist == ASSUME NEW n \in Nat PROVE \E f : TreesTo(n, f)
<1>. DEFINE P == {k \in Nat : \E f : TreesTo(k, f)}
<1>1. 0 \in P
  <2>1. TreesTo(0, [d \in 0 .. 0 |-> Predicate])
    BY DEF TreesTo
  <2>. QED BY <2>1
<1>2. ASSUME NEW k \in P PROVE k + 1 \in P
  <2>1. PICK f : TreesTo(k, f)
    OBVIOUS
  <2>. DEFINE h == [d \in 0 .. k + 1 |-> IF d = 0 THEN Predicate ELSE Above(f[d - 1])]
  <2>2. ASSUME NEW d \in 0 .. k PROVE h[d] = f[d]
    BY <2>1 DEF TreesTo
  <2>3. ASSUME NEW d \in 0 .. k + 1, d # 0 PROVE h[d - 1] = f[d - 1]
    <3>1. d - 1 \in 0 .. k
      BY <2>3
    <3>. HIDE DEF h
    <3>. QED BY <2>2, <3>1
  <2>4. h = [d \in 0 .. k + 1 |-> IF d = 0 THEN Predicate ELSE Above(h[d - 1])]
    BY <2>3
  <2>5. TreesTo(k + 1, h)
    BY <2>4 DEF TreesTo
  <2>. HIDE DEF h
  <2>. QED BY <2>5
<1>3. P = Nat
  <2>. HIDE DEF P
  <2>1. P \in SUBSET Nat
    BY DEF P
  <2>. QED BY <1>1, <1>2, <2>1, AllNumbers
<1>. QED BY <1>3

(* The sets of expressions satisfy their recursive definition.              *)
LEMMA TreesAre ==
  /\ Trees[0] = Predicate
  /\ \A d \in 1 .. MAX_DEPTH + 2 : Trees[d] = Above(Trees[d - 1])
<1>1. MAX_DEPTH + 2 \in Nat
  BY CompilerAssumption
<1>2. PICK f : TreesTo(MAX_DEPTH + 2, f)
  BY <1>1, TreesExist
<1>3. TreesTo(MAX_DEPTH + 2, Trees)
  BY <1>2 DEF TreesTo, Trees, Above
<1>. QED BY <1>1, <1>3 DEF TreesTo

(* The depths of trees.                                                     *)
Depths == 0 .. MAX_DEPTH + 2

(* Where the depths begin and end.                                          *)
LEMMA DepthsAre ==
  /\ MAX_DEPTH \in Depths /\ MAX_DEPTH + 1 \in Depths /\ MAX_DEPTH + 2 \in Depths /\ 0 \in Depths
  /\ \A d \in Depths : d # 0 => d \in 1 .. MAX_DEPTH + 2 /\ d - 1 \in Depths
BY CompilerAssumption DEF Depths

(* What holds of depth 0, and of a depth when it holds of the one before,   *)
(* holds of every depth.                                                    *)
LEMMA AllDepths ==
  ASSUME NEW P, 0 \in P, \A d \in Depths : d # 0 /\ d - 1 \in P => d \in P
  PROVE  Depths \subseteq P
<1>. DEFINE Q == {k \in Nat : k \in Depths => k \in P}
<1>1. 0 \in Q
  OBVIOUS
<1>2. ASSUME NEW k \in Q PROVE k + 1 \in Q
  <2>1. k + 1 \in Depths => k \in Depths /\ k + 1 # 0 /\ (k + 1) - 1 = k
    BY CompilerAssumption DEF Depths
  <2>. QED BY <2>1
<1>3. Q = Nat
  <2>1. Q \in SUBSET Nat
    OBVIOUS
  <2>. HIDE DEF Q
  <2>. QED BY <1>1, <1>2, <2>1, AllNumbers
<1>4. Depths \subseteq Nat
  BY CompilerAssumption DEF Depths
<1>. QED BY <1>3, <1>4

(* An expression is a predicate or has operands of a depth less.            *)
LEMMA TreeAt ==
  ASSUME NEW d \in Depths, d # 0
  PROVE  Trees[d] = Above(Trees[d - 1])
BY TreesAre, DepthsAre

(* A predicate is no operator.                                              *)
LEMMA PredicateNode ==
  ASSUME NEW e \in Predicate PROVE e.node \in {"bare", "eq", "packet"}
BY DEF Predicate

(* What an expression with one operator more is made of.                    *)
LEMMA AboveParts ==
  ASSUME NEW Operand, NEW e \in Above(Operand)
  PROVE  \/ e \in Predicate /\ e.node \in {"bare", "eq", "packet"}
         \/ e.node = "Not" /\ e.l \in Operand /\ e = Not(e.l)
         \/ e.node \in {"And", "Or"} /\ e.l \in Operand /\ e.r \in Operand
              /\ e = [node |-> e.node, l |-> e.l, r |-> e.r]
BY PredicateNode DEF Above, Not

(* With more operands there are more expressions.                           *)
LEMMA AboveGrows ==
  ASSUME NEW A, NEW B, A \subseteq B PROVE Above(A) \subseteq Above(B)
BY DEF Above

(* An expression of a depth is one of every greater depth.                  *)
LEMMA TreesGrow ==
  ASSUME NEW d \in Depths, d # 0
  PROVE  Trees[d - 1] \subseteq Trees[d]
<1>. DEFINE P == {k \in Depths : k # 0 => Trees[k - 1] \subseteq Trees[k]}
<1>1. 0 \in P
  BY DepthsAre
<1>2. ASSUME NEW k \in Depths, k # 0, k - 1 \in P PROVE Trees[k - 1] \subseteq Trees[k]
  <2>1. CASE k - 1 = 0
    BY <1>2, <2>1, TreeAt, TreesAre DEF Above
  <2>2. CASE k - 1 # 0
    <3>1. Trees[(k - 1) - 1] \subseteq Trees[k - 1] /\ k - 1 \in Depths
      BY <1>2, <2>2, DepthsAre
    <3>2. Trees[k] = Above(Trees[k - 1])
      BY <1>2, TreeAt
    <3>3. Trees[k - 1] = Above(Trees[(k - 1) - 1])
      BY <3>1, <2>2, TreeAt
    <3>. QED BY <3>1, <3>2, <3>3, AboveGrows
  <2>. QED BY <2>1, <2>2
<1>3. Depths \subseteq P
  <2>1. \A k \in Depths : k # 0 /\ k - 1 \in P => k \in P
    BY <1>2
  <2>. HIDE DEF P
  <2>. QED BY <1>1, <2>1, AllDepths
<1>. QED BY <1>3

(* A predicate is an expression of any depth.                               *)
LEMMA PredicatesAreTrees == ASSUME NEW d \in Depths PROVE Predicate \subseteq Trees[d]
BY TreeAt, TreesAre DEF Above

(* What an expression of a depth is made of.                                *)
LEMMA OperandsAt ==
  ASSUME NEW d \in Depths, NEW e \in Trees[d]
  PROVE  \/ e \in Predicate /\ e.node \in {"bare", "eq", "packet"}
         \/ d # 0 /\ e.node = "Not" /\ e.l \in Trees[d - 1] /\ e = Not(e.l)
         \/ d # 0 /\ e.node \in {"And", "Or"} /\ e.l \in Trees[d - 1] /\ e.r \in Trees[d - 1]
              /\ e = [node |-> e.node, l |-> e.l, r |-> e.r]
<1>1. CASE d = 0
  BY <1>1, TreesAre, PredicateNode
<1>2. CASE d # 0
  BY <1>2, TreeAt, AboveParts
<1>. QED BY <1>1, <1>2

(* The operands of an expression are expressions.                           *)
LEMMA TreeParts ==
  ASSUME NEW e \in Tree
  PROVE  \/ e \in Predicate /\ e.node \in {"bare", "eq", "packet"}
         \/ e.node = "Not" /\ e.l \in Tree /\ e = Not(e.l)
         \/ e.node \in {"And", "Or"} /\ e.l \in Tree /\ e.r \in Tree
              /\ e = [node |-> e.node, l |-> e.l, r |-> e.r]
<1>. DEFINE M == MAX_DEPTH + 2
<1>1. M \in Depths /\ M # 0 /\ Tree = Trees[M]
  BY DepthsAre, CompilerAssumption DEF Tree
<1>. HIDE DEF M
<1>2. Trees[M - 1] \subseteq Tree
  BY <1>1, TreesGrow
<1>. QED BY <1>1, <1>2, OperandsAt

(* Induction over expressions.                                              *)
LEMMA AllTrees ==
  ASSUME NEW P,
         Predicate \subseteq P,
         \A e \in Tree : e.node = "Not" /\ e.l \in Tree /\ e.l \in P => e \in P,
         \A e \in Tree : e.node \in {"And", "Or"} /\ e.l \in Tree /\ e.l \in P
                          /\ e.r \in Tree /\ e.r \in P => e \in P
  PROVE  Tree \subseteq P
<1>. DEFINE Q == {d \in Depths : Trees[d] \subseteq Tree => Trees[d] \subseteq P}
<1>1. 0 \in Q
  BY TreesAre, DepthsAre
<1>2. ASSUME NEW d \in Depths, d # 0, d - 1 \in Q, Trees[d] \subseteq Tree PROVE Trees[d] \subseteq P
  <2>1. Trees[d - 1] \subseteq P /\ Trees[d - 1] \subseteq Tree
    BY <1>2, TreesGrow
  <2>. SUFFICES ASSUME NEW e \in Trees[d] PROVE e \in P
    OBVIOUS
  <2>. QED BY <1>2, <2>1, OperandsAt
<1>3. Depths \subseteq Q
  <2>1. \A d \in Depths : d # 0 /\ d - 1 \in Q => d \in Q
    BY <1>2
  <2>. HIDE DEF Q
  <2>. QED BY <1>1, <2>1, AllDepths
<1>. QED BY <1>3, DepthsAre DEF Tree

(* An expression of a depth that leaves room has its other forms.           *)
LEMMA TreeNot ==
  ASSUME NEW d \in Depths, d # 0, NEW e \in Trees[d - 1]
  PROVE  Not(e) \in Trees[d] /\ Not(e).node = "Not" /\ Not(e).l = e
BY TreeAt DEF Above, Not

(* Two expressions, joined.                                                 *)
LEMMA TreeJoin ==
  ASSUME NEW d \in Depths, d # 0, NEW x \in Trees[d - 1], NEW y \in Trees[d - 1]
  PROVE  /\ And(x, y) \in Trees[d] /\ And(x, y).node = "And" /\ And(x, y).l = x /\ And(x, y).r = y
         /\ Or(x, y) \in Trees[d] /\ Or(x, y).node = "Or" /\ Or(x, y).l = x /\ Or(x, y).r = y
BY TreeAt DEF Above, And, Or

-----------------------------------------------------------------------------
(* What contains_positive_reflect_open says of an expression.               *)
OpenBody(e, f) ==
  [polarity \in BOOLEAN |->
     CASE e.node \in {"And", "Or"} -> f[e.l][polarity] \/ f[e.r][polarity]
       [] e.node = "Not" -> f[e.l][~ polarity]
       [] e.node = "eq" -> polarity /\ e.field = "event" /\ e.value = Symbol("open")
       [] OTHER -> FALSE]

(* A value of the walk depends on the values of the operands only.          *)
LEMMA PositiveReflectOpenLocal ==
  ASSUME NEW d \in Depths, NEW e \in Trees[d], NEW f, NEW h,
         d # 0 => \A x \in Trees[d - 1] : h[x] = f[x]
  PROVE  OpenBody(e, h) = OpenBody(e, f)
BY OperandsAt DEF OpenBody

(* There is a function that satisfies the equation of the walk.             *)
LEMMA PositiveReflectOpenExists ==
  ASSUME NEW d \in Depths PROVE \E f : f = [e \in Trees[d] |-> OpenBody(e, f)]
<1>. DEFINE P == {k \in Depths : \E f : f = [e \in Trees[k] |-> OpenBody(e, f)]}
<1>1. 0 \in P
  <2>. DEFINE f == [e \in Trees[0] |-> OpenBody(e, <<>>)]
  <2>1. ASSUME NEW e \in Trees[0] PROVE OpenBody(e, f) = OpenBody(e, <<>>)
    <3>. HIDE DEF f
    <3>. QED BY TreesAre, PredicateNode DEF OpenBody
  <2>2. f = [e \in Trees[0] |-> OpenBody(e, f)]
    BY <2>1
  <2>. HIDE DEF f
  <2>. QED BY <2>2, DepthsAre
<1>2. ASSUME NEW k \in Depths, k # 0, k - 1 \in P PROVE k \in P
  <2>1. PICK f : f = [e \in Trees[k - 1] |-> OpenBody(e, f)]
    BY <1>2
  <2>. DEFINE h == [e \in Trees[k] |-> OpenBody(e, f)]
  <2>2. ASSUME NEW x \in Trees[k - 1] PROVE h[x] = f[x]
    <3>1. h[x] = OpenBody(x, f)
      BY <1>2, TreesGrow
    <3>2. f[x] = OpenBody(x, f)
      BY <2>1
    <3>. QED BY <3>1, <3>2
  <2>3. ASSUME NEW e \in Trees[k] PROVE OpenBody(e, h) = OpenBody(e, f)
    <3>. HIDE DEF h
    <3>. QED BY <1>2, <2>2, PositiveReflectOpenLocal
  <2>4. h = [e \in Trees[k] |-> OpenBody(e, h)]
    BY <2>3
  <2>. HIDE DEF h
  <2>. QED BY <2>4
<1>3. Depths \subseteq P
  <2>1. \A k \in Depths : k # 0 /\ k - 1 \in P => k \in P
    BY <1>2
  <2>. HIDE DEF P
  <2>. QED BY <1>1, <2>1, AllDepths
<1>. QED BY <1>3

(* So the recursive function satisfies it.                                  *)
LEMMA PositiveReflectOpenIs == \A e \in Tree : PositiveReflectOpen[e] = OpenBody(e, PositiveReflectOpen)
<1>1. PICK f : f = [e \in Tree |-> OpenBody(e, f)]
  BY DepthsAre, PositiveReflectOpenExists DEF Tree
<1>2. PositiveReflectOpen = [e \in Tree |-> OpenBody(e, PositiveReflectOpen)]
  BY <1>1 DEF PositiveReflectOpen, OpenBody
<1>. QED BY <1>2

-----------------------------------------------------------------------------
(* What visit finds in an expression.                                       *)
TestsBody(e, f) ==
  [place \in Place |->
     CASE e.node \in {"And", "Or"} -> f[e.l][LeftPlace(e, place)] \cup f[e.r][RightPlace(e, place)]
       [] e.node = "Not" -> f[e.l][Negated(place)]
       [] OTHER -> {[test |-> e, place |-> place]}]

(* A value of the walk depends on the values of the operands only.          *)
LEMMA TestsOfLocal ==
  ASSUME NEW d \in Depths, NEW e \in Trees[d], NEW f, NEW h,
         d # 0 => \A x \in Trees[d - 1] : h[x] = f[x]
  PROVE  TestsBody(e, h) = TestsBody(e, f)
BY OperandsAt DEF TestsBody

(* There is a function that satisfies the equation of the walk.             *)
LEMMA TestsOfExists ==
  ASSUME NEW d \in Depths PROVE \E f : f = [e \in Trees[d] |-> TestsBody(e, f)]
<1>. DEFINE P == {k \in Depths : \E f : f = [e \in Trees[k] |-> TestsBody(e, f)]}
<1>1. 0 \in P
  <2>. DEFINE f == [e \in Trees[0] |-> TestsBody(e, <<>>)]
  <2>1. ASSUME NEW e \in Trees[0] PROVE TestsBody(e, f) = TestsBody(e, <<>>)
    <3>. HIDE DEF f
    <3>. QED BY TreesAre, PredicateNode DEF TestsBody
  <2>2. f = [e \in Trees[0] |-> TestsBody(e, f)]
    BY <2>1
  <2>. HIDE DEF f
  <2>. QED BY <2>2, DepthsAre
<1>2. ASSUME NEW k \in Depths, k # 0, k - 1 \in P PROVE k \in P
  <2>1. PICK f : f = [e \in Trees[k - 1] |-> TestsBody(e, f)]
    BY <1>2
  <2>. DEFINE h == [e \in Trees[k] |-> TestsBody(e, f)]
  <2>2. ASSUME NEW x \in Trees[k - 1] PROVE h[x] = f[x]
    <3>1. h[x] = TestsBody(x, f)
      BY <1>2, TreesGrow
    <3>2. f[x] = TestsBody(x, f)
      BY <2>1
    <3>. QED BY <3>1, <3>2
  <2>3. ASSUME NEW e \in Trees[k] PROVE TestsBody(e, h) = TestsBody(e, f)
    <3>. HIDE DEF h
    <3>. QED BY <1>2, <2>2, TestsOfLocal
  <2>4. h = [e \in Trees[k] |-> TestsBody(e, h)]
    BY <2>3
  <2>. HIDE DEF h
  <2>. QED BY <2>4
<1>3. Depths \subseteq P
  <2>1. \A k \in Depths : k # 0 /\ k - 1 \in P => k \in P
    BY <1>2
  <2>. HIDE DEF P
  <2>. QED BY <1>1, <2>1, AllDepths
<1>. QED BY <1>3

(* So the recursive function satisfies it.                                  *)
LEMMA TestsOfIs == \A e \in Tree : TestsOf[e] = TestsBody(e, TestsOf)
<1>1. PICK f : f = [e \in Tree |-> TestsBody(e, f)]
  BY DepthsAre, TestsOfExists DEF Tree
<1>2. TestsOf = [e \in Tree |-> TestsBody(e, TestsOf)]
  BY <1>1 DEF TestsOf, TestsBody
<1>. QED BY <1>2

-----------------------------------------------------------------------------
(* The program of an expression.                                            *)
LowerBody(e, f) ==
  CASE e.node \in {"And", "Or"} -> f[e.l] \o f[e.r] \o <<OperatorOf(e)>>
    [] e.node = "Not" -> f[e.l] \o <<OperatorOf(e)>>
    [] OTHER -> <<OpOf(e)>>

(* A program depends on the programs of the operands only.                  *)
LEMMA LowerLocal ==
  ASSUME NEW d \in Depths, NEW e \in Trees[d], NEW f, NEW h,
         d # 0 => \A x \in Trees[d - 1] : h[x] = f[x]
  PROVE  LowerBody(e, h) = LowerBody(e, f)
BY OperandsAt DEF LowerBody

(* There is a function that satisfies the equation of lower_expr.           *)
LEMMA LowerExists ==
  ASSUME NEW d \in Depths PROVE \E f : f = [e \in Trees[d] |-> LowerBody(e, f)]
<1>. DEFINE P == {k \in Depths : \E f : f = [e \in Trees[k] |-> LowerBody(e, f)]}
<1>1. 0 \in P
  <2>. DEFINE f == [e \in Trees[0] |-> LowerBody(e, <<>>)]
  <2>1. ASSUME NEW e \in Trees[0] PROVE LowerBody(e, f) = LowerBody(e, <<>>)
    <3>. HIDE DEF f
    <3>. QED BY TreesAre, PredicateNode DEF LowerBody
  <2>2. f = [e \in Trees[0] |-> LowerBody(e, f)]
    BY <2>1
  <2>. HIDE DEF f
  <2>. QED BY <2>2, DepthsAre
<1>2. ASSUME NEW k \in Depths, k # 0, k - 1 \in P PROVE k \in P
  <2>1. PICK f : f = [e \in Trees[k - 1] |-> LowerBody(e, f)]
    BY <1>2
  <2>. DEFINE h == [e \in Trees[k] |-> LowerBody(e, f)]
  <2>2. ASSUME NEW x \in Trees[k - 1] PROVE h[x] = f[x]
    <3>1. h[x] = LowerBody(x, f)
      BY <1>2, TreesGrow
    <3>2. f[x] = LowerBody(x, f)
      BY <2>1
    <3>. QED BY <3>1, <3>2
  <2>3. ASSUME NEW e \in Trees[k] PROVE LowerBody(e, h) = LowerBody(e, f)
    <3>. HIDE DEF h
    <3>. QED BY <1>2, <2>2, LowerLocal
  <2>4. h = [e \in Trees[k] |-> LowerBody(e, h)]
    BY <2>3
  <2>. HIDE DEF h
  <2>. QED BY <2>4
<1>3. Depths \subseteq P
  <2>1. \A k \in Depths : k # 0 /\ k - 1 \in P => k \in P
    BY <1>2
  <2>. HIDE DEF P
  <2>. QED BY <1>1, <2>1, AllDepths
<1>. QED BY <1>3

(* So the recursive function satisfies it.                                  *)
LEMMA LowerIs == \A e \in Tree : Lower[e] = LowerBody(e, Lower)
<1>1. PICK f : f = [e \in Tree |-> LowerBody(e, f)]
  BY DepthsAre, LowerExists DEF Tree
<1>2. Lower = [e \in Tree |-> LowerBody(e, Lower)]
  BY <1>1 DEF Lower, LowerBody
<1>. QED BY <1>2

-----------------------------------------------------------------------------
(* What an expression says of an event.                                     *)
SaysBody(x, f) ==
  [e \in Event |->
     CASE x.node = "And" -> f[x.l][e] /\ f[x.r][e]
       [] x.node = "Or" -> f[x.l][e] \/ f[x.r][e]
       [] x.node = "Not" -> ~ f[x.l][e]
       [] OTHER -> IF e.layer \in NetworkLayer THEN PacketSays(x, e) ELSE EventSays(x, e)]

(* What an expression says depends on what its operands say.                *)
LEMMA SaysLocal ==
  ASSUME NEW d \in Depths, NEW e \in Trees[d], NEW f, NEW h,
         d # 0 => \A x \in Trees[d - 1] : h[x] = f[x]
  PROVE  SaysBody(e, h) = SaysBody(e, f)
BY OperandsAt DEF SaysBody

(* There is a function that satisfies the equation.                         *)
LEMMA SaysExists ==
  ASSUME NEW d \in Depths PROVE \E f : f = [e \in Trees[d] |-> SaysBody(e, f)]
<1>. DEFINE P == {k \in Depths : \E f : f = [e \in Trees[k] |-> SaysBody(e, f)]}
<1>1. 0 \in P
  <2>. DEFINE f == [e \in Trees[0] |-> SaysBody(e, <<>>)]
  <2>1. ASSUME NEW e \in Trees[0] PROVE SaysBody(e, f) = SaysBody(e, <<>>)
    <3>. HIDE DEF f
    <3>. QED BY TreesAre, PredicateNode DEF SaysBody
  <2>2. f = [e \in Trees[0] |-> SaysBody(e, f)]
    BY <2>1
  <2>. HIDE DEF f
  <2>. QED BY <2>2, DepthsAre
<1>2. ASSUME NEW k \in Depths, k # 0, k - 1 \in P PROVE k \in P
  <2>1. PICK f : f = [e \in Trees[k - 1] |-> SaysBody(e, f)]
    BY <1>2
  <2>. DEFINE h == [e \in Trees[k] |-> SaysBody(e, f)]
  <2>2. ASSUME NEW x \in Trees[k - 1] PROVE h[x] = f[x]
    <3>1. h[x] = SaysBody(x, f)
      BY <1>2, TreesGrow
    <3>2. f[x] = SaysBody(x, f)
      BY <2>1
    <3>. QED BY <3>1, <3>2
  <2>3. ASSUME NEW e \in Trees[k] PROVE SaysBody(e, h) = SaysBody(e, f)
    <3>. HIDE DEF h
    <3>. QED BY <1>2, <2>2, SaysLocal
  <2>4. h = [e \in Trees[k] |-> SaysBody(e, h)]
    BY <2>3
  <2>. HIDE DEF h
  <2>. QED BY <2>4
<1>3. Depths \subseteq P
  <2>1. \A k \in Depths : k # 0 /\ k - 1 \in P => k \in P
    BY <1>2
  <2>. HIDE DEF P
  <2>. QED BY <1>1, <2>1, AllDepths
<1>. QED BY <1>3

(* So the recursive function satisfies it.                                  *)
LEMMA SaysIs == \A e \in Tree : Says[e] = SaysBody(e, Says)
<1>1. PICK f : f = [e \in Tree |-> SaysBody(e, f)]
  BY DepthsAre, SaysExists DEF Tree
<1>2. Says = [e \in Tree |-> SaysBody(e, Says)]
  BY <1>1 DEF Says, SaysBody
<1>. QED BY <1>2

-----------------------------------------------------------------------------
(* The walks, by the kind of the expression.                                *)

(* contains_positive_reflect_open answers yes or no.                        *)
LEMMA OpensTyped == \A e \in Tree : PositiveReflectOpen[e] \in [BOOLEAN -> BOOLEAN]
<1>. DEFINE P == {e \in Tree : PositiveReflectOpen[e] \in [BOOLEAN -> BOOLEAN]}
<1>1. Predicate \subseteq P
  <2>1. Predicate \subseteq Tree
    BY PredicatesAreTrees, DepthsAre DEF Tree
  <2>2. ASSUME NEW e \in Predicate PROVE PositiveReflectOpen[e] \in [BOOLEAN -> BOOLEAN]
    <3>1. e.node \notin {"And", "Or", "Not"}
      BY PredicateNode
    <3>0. PositiveReflectOpen[e] = OpenBody(e, PositiveReflectOpen)
      BY <2>1, PositiveReflectOpenIs
    <3>2. CASE e.node = "eq"
      <4>1. PositiveReflectOpen[e] =
              [polarity \in BOOLEAN |->
                 polarity /\ e.field = "event" /\ e.value = Symbol("open")]
        BY <3>0, <3>2 DEF OpenBody
      <4>. QED BY <4>1
    <3>3. CASE e.node # "eq"
      <4>1. PositiveReflectOpen[e] = [polarity \in BOOLEAN |-> FALSE]
        BY <3>0, <3>1, <3>3 DEF OpenBody
      <4>. QED BY <4>1
    <3>. QED BY <3>2, <3>3
  <2>. QED BY <2>1, <2>2
<1>2. ASSUME NEW e \in Tree, e.node = "Not", e.l \in Tree, e.l \in P PROVE e \in P
  <2>1. PositiveReflectOpen[e] = [polarity \in BOOLEAN |-> PositiveReflectOpen[e.l][~ polarity]]
    BY <1>2, PositiveReflectOpenIs DEF OpenBody
  <2>. QED BY <1>2, <2>1
<1>3. ASSUME NEW e \in Tree, e.node \in {"And", "Or"}, e.l \in Tree, e.l \in P, e.r \in Tree, e.r \in P
      PROVE  e \in P
  <2>1. PositiveReflectOpen[e] =
          [polarity \in BOOLEAN |->
             PositiveReflectOpen[e.l][polarity] \/ PositiveReflectOpen[e.r][polarity]]
    BY <1>3, PositiveReflectOpenIs DEF OpenBody
  <2>. QED BY <1>3, <2>1
<1>. HIDE DEF P
<1>4. Tree \subseteq P
  BY <1>1, <1>2, <1>3, AllTrees
<1>. QED BY <1>4 DEF P

IsOpen(x) == x.node = "eq" /\ x.field = "event" /\ x.value = Symbol("open")

(* Its answer, by the kind of the expression.                               *)
LEMMA OpensOf ==
  ASSUME NEW e \in Tree, NEW b \in BOOLEAN
  PROVE  /\ e \in Predicate => (PositiveReflectOpen[e][b] <=> (b /\ IsOpen(e)))
         /\ e.node = "Not" => (PositiveReflectOpen[e][b] <=> PositiveReflectOpen[e.l][~ b])
         /\ e.node \in {"And", "Or"} =>
              (PositiveReflectOpen[e][b] <=> (PositiveReflectOpen[e.l][b] \/ PositiveReflectOpen[e.r][b]))
<1>1. PositiveReflectOpen[e][b] =
        CASE e.node \in {"And", "Or"} -> PositiveReflectOpen[e.l][b] \/ PositiveReflectOpen[e.r][b]
          [] e.node = "Not" -> PositiveReflectOpen[e.l][~ b]
          [] e.node = "eq" -> b /\ e.field = "event" /\ e.value = Symbol("open")
          [] OTHER -> FALSE
  BY PositiveReflectOpenIs DEF OpenBody
<1>2. PositiveReflectOpen[e][b] \in BOOLEAN
  BY OpensTyped
<1>3. CASE e \in Predicate
  <2>1. e.node \in {"bare", "eq", "packet"}
    BY <1>3, PredicateNode
  <2>. QED BY <1>1, <2>1 DEF IsOpen
<1>4. CASE e.node = "Not"
  <2>1. e \notin Predicate
    BY <1>4, PredicateNode
  <2>. QED BY <1>1, <1>4, <2>1
<1>5. CASE e.node \in {"And", "Or"}
  <2>1. e \notin Predicate
    BY <1>5, PredicateNode
  <2>. QED BY <1>1, <1>5, <2>1
<1>. QED BY <1>3, <1>4, <1>5, TreeParts

(* Where operands stand.                                                    *)
LEMMA PlacesAre ==
  ASSUME NEW e \in Tree, NEW p \in Place
  PROVE  /\ Negated(p) \in Place /\ Negated(p).polarity = ~ p.polarity
         /\ Negated(p).reflect_context = p.reflect_context
         /\ Negated(Negated(p)) = p
         /\ p.polarity \in BOOLEAN /\ p.reflect_context \in BOOLEAN
         /\ e.node \in {"And", "Or"} =>
              /\ LeftPlace(e, p) \in Place /\ LeftPlace(e, p).polarity = p.polarity
              /\ RightPlace(e, p) \in Place /\ RightPlace(e, p).polarity = p.polarity
              /\ LeftPlace(e, p).reflect_context =>
                   p.reflect_context \/ PositiveReflectOpen[e.r][p.polarity]
              /\ RightPlace(e, p).reflect_context =>
                   p.reflect_context \/ PositiveReflectOpen[e.l][p.polarity]
<1>1. p = [reflect_context |-> p.reflect_context, polarity |-> p.polarity]
      /\ p.polarity \in BOOLEAN /\ p.reflect_context \in BOOLEAN
  BY DEF Place
<1>2. Negated(p) = [reflect_context |-> p.reflect_context, polarity |-> ~ p.polarity]
  BY <1>1 DEF Negated
<1>3. Negated(p) \in Place
  BY <1>1, <1>2 DEF Place
<1>4. Negated(Negated(p)) = [reflect_context |-> p.reflect_context, polarity |-> ~ ~ p.polarity]
  BY <1>1, <1>2 DEF Negated
<1>5. (~ ~ p.polarity) = p.polarity
  BY <1>1
<1>6. ASSUME e.node \in {"And", "Or"}
      PROVE  /\ LeftPlace(e, p) \in Place /\ LeftPlace(e, p).polarity = p.polarity
             /\ RightPlace(e, p) \in Place /\ RightPlace(e, p).polarity = p.polarity
             /\ LeftPlace(e, p).reflect_context =>
                  p.reflect_context \/ PositiveReflectOpen[e.r][p.polarity]
             /\ RightPlace(e, p).reflect_context =>
                  p.reflect_context \/ PositiveReflectOpen[e.l][p.polarity]
  <2>1. ASSUME NEW x \in Tree
        PROVE  /\ Beside(p, x) \in Place /\ Beside(p, x).polarity = p.polarity
               /\ Beside(p, x).reflect_context = (p.reflect_context \/ PositiveReflectOpen[x][p.polarity])
    BY <1>1, OpensTyped DEF Beside, Place
  <2>2. e.l \in Tree /\ e.r \in Tree
    BY <1>6, TreeParts, PredicateNode
  <2>. QED BY <2>1, <2>2 DEF LeftPlace, RightPlace
<1>. QED BY <1>1, <1>2, <1>3, <1>4, <1>5, <1>6

(* What visit finds, by the kind of the expression.                         *)
LEMMA TestsAt ==
  ASSUME NEW e \in Tree, NEW p \in Place
  PROVE  /\ e \in Predicate => TestsOf[e][p] = {[test |-> e, place |-> p]}
         /\ e.node = "Not" => TestsOf[e][p] = TestsOf[e.l][Negated(p)]
         /\ e.node \in {"And", "Or"} =>
              TestsOf[e][p] = TestsOf[e.l][LeftPlace(e, p)] \cup TestsOf[e.r][RightPlace(e, p)]
<1>1. TestsOf[e][p] =
        CASE e.node \in {"And", "Or"} ->
               TestsOf[e.l][LeftPlace(e, p)] \cup TestsOf[e.r][RightPlace(e, p)]
          [] e.node = "Not" -> TestsOf[e.l][Negated(p)]
          [] OTHER -> {[test |-> e, place |-> p]}
  BY TestsOfIs DEF TestsBody
<1>2. CASE e \in Predicate
  <2>1. e.node \in {"bare", "eq", "packet"}
    BY <1>2, PredicateNode
  <2>. QED BY <1>1, <2>1
<1>3. CASE e.node \in {"Not", "And", "Or"}
  <2>1. e \notin Predicate
    BY <1>3, PredicateNode
  <2>. QED BY <1>1, <1>3, <2>1
<1>. QED BY <1>2, <1>3, TreeParts

(* The program, by the kind of the expression.                              *)
LEMMA LowerOf ==
  ASSUME NEW e \in Tree
  PROVE  /\ e \in Predicate => Lower[e] = <<OpOf(e)>>
         /\ e.node = "Not" => Lower[e] = Lower[e.l] \o <<OperatorOf(e)>>
         /\ e.node \in {"And", "Or"} => Lower[e] = Lower[e.l] \o Lower[e.r] \o <<OperatorOf(e)>>
<1>1. CASE e \in Predicate
  <2>1. e.node \in {"bare", "eq", "packet"}
    BY <1>1, PredicateNode
  <2>. QED BY <2>1, LowerIs DEF LowerBody
<1>2. CASE e.node \in {"Not", "And", "Or"}
  <2>1. e \notin Predicate
    BY <1>2, PredicateNode
  <2>. QED BY <1>2, <2>1, LowerIs DEF LowerBody
<1>. QED BY <1>1, <1>2, TreeParts

-----------------------------------------------------------------------------
(* The tests of an expression with their signs: what is left of visit's     *)
(* result without the contexts.                                             *)

Signs(e, p) == {[test |-> t.test, polarity |-> t.place.polarity] : t \in TestsOf[e][p]}

(* The signed tests, by the kind of the expression.                         *)
LEMMA SignsAt ==
  ASSUME NEW e \in Tree, NEW p \in Place
  PROVE  /\ e \in Predicate => Signs(e, p) = {[test |-> e, polarity |-> p.polarity]}
         /\ e.node = "Not" => Signs(e, p) = Signs(e.l, Negated(p))
         /\ e.node \in {"And", "Or"} =>
              Signs(e, p) = Signs(e.l, LeftPlace(e, p)) \cup Signs(e.r, RightPlace(e, p))
<1>1. ASSUME e \in Predicate PROVE Signs(e, p) = {[test |-> e, polarity |-> p.polarity]}
  <2>. DEFINE t == [test |-> e, place |-> p]
  <2>1. TestsOf[e][p] = {t}
    BY <1>1, TestsAt
  <2>2. t.test = e /\ t.place.polarity = p.polarity
    OBVIOUS
  <2>. HIDE DEF t
  <2>3. Signs(e, p) = {[test |-> t.test, polarity |-> t.place.polarity]}
    BY <2>1 DEF Signs
  <2>. QED BY <2>2, <2>3
<1>2. e.node = "Not" => Signs(e, p) = Signs(e.l, Negated(p))
  BY TestsAt DEF Signs
<1>3. e.node \in {"And", "Or"} =>
        Signs(e, p) = Signs(e.l, LeftPlace(e, p)) \cup Signs(e.r, RightPlace(e, p))
  BY TestsAt DEF Signs
<1>. QED BY <1>1, <1>2, <1>3

(* The sign of a test does not depend on what stands beside the expression. *)
LEMMA SignsIgnoreContext ==
  ASSUME NEW e \in Tree, NEW p \in Place, NEW q \in Place, p.polarity = q.polarity
  PROVE  Signs(e, p) = Signs(e, q)
<1>. DEFINE P == {x \in Tree : \A v, w \in Place : v.polarity = w.polarity => Signs(x, v) = Signs(x, w)}
<1>1. Predicate \subseteq P
  <2>1. ASSUME NEW x \in Predicate, NEW v \in Place, NEW w \in Place, v.polarity = w.polarity
        PROVE  x \in Tree /\ Signs(x, v) = Signs(x, w)
    <3>1. x \in Tree
      BY PredicatesAreTrees, DepthsAre DEF Tree
    <3>2. /\ Signs(x, v) = {[test |-> x, polarity |-> v.polarity]}
          /\ Signs(x, w) = {[test |-> x, polarity |-> w.polarity]}
      BY <3>1, SignsAt
    <3>. QED BY <2>1, <3>1, <3>2
  <2>2. Predicate \subseteq Tree
    BY PredicatesAreTrees, DepthsAre DEF Tree
  <2>. QED BY <2>1, <2>2
<1>2. ASSUME NEW x \in Tree, x.node = "Not", x.l \in Tree, x.l \in P PROVE x \in P
  BY <1>2, SignsAt, PlacesAre
<1>3. ASSUME NEW x \in Tree, x.node \in {"And", "Or"}, x.l \in Tree, x.l \in P, x.r \in Tree, x.r \in P
      PROVE  x \in P
  <2>1. ASSUME NEW v \in Place, NEW w \in Place, v.polarity = w.polarity PROVE Signs(x, v) = Signs(x, w)
    <3>1. Signs(x.l, LeftPlace(x, v)) = Signs(x.l, LeftPlace(x, w))
      BY <1>3, <2>1, PlacesAre
    <3>2. Signs(x.r, RightPlace(x, v)) = Signs(x.r, RightPlace(x, w))
      BY <1>3, <2>1, PlacesAre
    <3>3. /\ Signs(x, v) = Signs(x.l, LeftPlace(x, v)) \cup Signs(x.r, RightPlace(x, v))
          /\ Signs(x, w) = Signs(x.l, LeftPlace(x, w)) \cup Signs(x.r, RightPlace(x, w))
      BY <1>3, SignsAt
    <3>. QED BY <3>1, <3>2, <3>3
  <2>. QED BY <2>1
<1>4. Tree \subseteq P
  <2>. HIDE DEF P
  <2>. QED BY <1>1, <1>2, <1>3, AllTrees
<1>. QED BY <1>4

(* The tests of an expression that stands alone, in a filter or under an    *)
(* odd number of negations.                                                 *)
Alone(b) == [reflect_context |-> FALSE, polarity |-> b]
Signed(e, b) == Signs(e, Alone(b))

(* To stand alone is a place.                                               *)
LEMMA AlonePlace == \A b \in BOOLEAN : Alone(b) \in Place /\ Alone(b).polarity = b
BY DEF Alone, Place

(* Signed tests are those of the expression alone.                          *)
LEMMA SignsAreSigned ==
  ASSUME NEW e \in Tree, NEW p \in Place
  PROVE  Signs(e, p) = Signed(e, p.polarity)
<1>1. p.polarity \in BOOLEAN
  BY PlacesAre
<1>. QED BY <1>1, AlonePlace, SignsIgnoreContext DEF Signed

(* They follow the structure of the expression.                             *)
LEMMA SignedOf ==
  ASSUME NEW e \in Tree, NEW b \in BOOLEAN
  PROVE  /\ e \in Predicate => Signed(e, b) = {[test |-> e, polarity |-> b]}
         /\ e.node = "Not" => Signed(e, b) = Signed(e.l, ~ b)
         /\ e.node \in {"And", "Or"} => Signed(e, b) = Signed(e.l, b) \cup Signed(e.r, b)
<1>1. Alone(b) \in Place /\ Alone(b).polarity = b
  BY AlonePlace
<1>2. e \in Predicate => Signed(e, b) = {[test |-> e, polarity |-> b]}
  BY <1>1, SignsAt DEF Signed
<1>3. ASSUME e.node = "Not" PROVE Signed(e, b) = Signed(e.l, ~ b)
  <2>1. e.l \in Tree
    BY <1>3, TreeParts, PredicateNode
  <2>2. Negated(Alone(b)) \in Place /\ Negated(Alone(b)).polarity = ~ b
    BY <1>1, PlacesAre
  <2>3. Signed(e, b) = Signs(e.l, Negated(Alone(b)))
    BY <1>1, <1>3, SignsAt DEF Signed
  <2>. QED BY <2>1, <2>2, <2>3, SignsAreSigned
<1>4. ASSUME e.node \in {"And", "Or"} PROVE Signed(e, b) = Signed(e.l, b) \cup Signed(e.r, b)
  <2>1. e.l \in Tree /\ e.r \in Tree
    BY <1>4, TreeParts, PredicateNode
  <2>2. /\ LeftPlace(e, Alone(b)) \in Place /\ LeftPlace(e, Alone(b)).polarity = b
        /\ RightPlace(e, Alone(b)) \in Place /\ RightPlace(e, Alone(b)).polarity = b
    BY <1>1, <1>4, PlacesAre
  <2>3. Signed(e, b) = Signs(e.l, LeftPlace(e, Alone(b))) \cup Signs(e.r, RightPlace(e, Alone(b)))
    BY <1>1, <1>4, SignsAt DEF Signed
  <2>4. /\ Signs(e.l, LeftPlace(e, Alone(b))) = Signed(e.l, b)
        /\ Signs(e.r, RightPlace(e, Alone(b))) = Signed(e.r, b)
    BY <2>1, <2>2, SignsAreSigned
  <2>. QED BY <2>3, <2>4
<1>. QED BY <1>2, <1>3, <1>4

(* What visit finds are predicates of the expression, each at a place.      *)
LEMMA TestsTyped ==
  ASSUME NEW e \in Tree, NEW p \in Place
  PROVE  TestsOf[e][p] \subseteq [test : Predicate, place : Place]
<1>. DEFINE P == {x \in Tree : \A v \in Place : TestsOf[x][v] \subseteq [test : Predicate, place : Place]}
<1>1. Predicate \subseteq P
  BY TestsAt, PredicatesAreTrees, DepthsAre DEF Tree
<1>2. ASSUME NEW x \in Tree, x.node = "Not", x.l \in Tree, x.l \in P PROVE x \in P
  BY <1>2, TestsAt, PlacesAre
<1>3. ASSUME NEW x \in Tree, x.node \in {"And", "Or"}, x.l \in Tree, x.l \in P, x.r \in Tree, x.r \in P
      PROVE  x \in P
  BY <1>3, TestsAt, PlacesAre
<1>4. Tree \subseteq P
  <2>. HIDE DEF P
  <2>. QED BY <1>1, <1>2, <1>3, AllTrees
<1>. QED BY <1>4

(* contains_positive_reflect_open finds the positive tests for open.        *)
LEMMA OpensAreSigned ==
  ASSUME NEW e \in Tree, NEW b \in BOOLEAN
  PROVE  PositiveReflectOpen[e][b] <=> \E t \in Signed(e, b) : t.polarity /\ IsOpen(t.test)
<1>. DEFINE P == {x \in Tree : \A c \in BOOLEAN :
                    PositiveReflectOpen[x][c] <=> \E t \in Signed(x, c) : t.polarity /\ IsOpen(t.test)}
<1>1. Predicate \subseteq P
  <2>1. ASSUME NEW x \in Predicate, NEW c \in BOOLEAN
        PROVE  x \in Tree /\ (PositiveReflectOpen[x][c] <=>
                                \E t \in Signed(x, c) : t.polarity /\ IsOpen(t.test))
    <3>1. x \in Tree
      BY PredicatesAreTrees, DepthsAre DEF Tree
    <3>2. Signed(x, c) = {[test |-> x, polarity |-> c]}
      BY <3>1, SignedOf
    <3>. QED BY <3>1, <3>2, OpensOf
  <2>. QED BY <2>1
<1>2. ASSUME NEW x \in Tree, x.node = "Not", x.l \in Tree, x.l \in P PROVE x \in P
  <2>1. ASSUME NEW c \in BOOLEAN
        PROVE  PositiveReflectOpen[x][c] <=> \E t \in Signed(x, c) : t.polarity /\ IsOpen(t.test)
    <3>1. Signed(x, c) = Signed(x.l, ~ c) /\ (~ c) \in BOOLEAN
      BY <1>2, SignedOf
    <3>2. PositiveReflectOpen[x][c] <=> PositiveReflectOpen[x.l][~ c]
      BY <1>2, OpensOf
    <3>. QED BY <1>2, <3>1, <3>2
  <2>. QED BY <2>1
<1>3. ASSUME NEW x \in Tree, x.node \in {"And", "Or"}, x.l \in Tree, x.l \in P, x.r \in Tree, x.r \in P
      PROVE  x \in P
  <2>1. ASSUME NEW c \in BOOLEAN
        PROVE  PositiveReflectOpen[x][c] <=> \E t \in Signed(x, c) : t.polarity /\ IsOpen(t.test)
    <3>1. Signed(x, c) = Signed(x.l, c) \cup Signed(x.r, c)
      BY <1>3, SignedOf
    <3>2. PositiveReflectOpen[x][c] <=> (PositiveReflectOpen[x.l][c] \/ PositiveReflectOpen[x.r][c])
      BY <1>3, OpensOf
    <3>. QED BY <1>3, <3>1, <3>2
  <2>. QED BY <2>1
<1>4. Tree \subseteq P
  <2>. HIDE DEF P
  <2>. QED BY <1>1, <1>2, <1>3, AllTrees
<1>. QED BY <1>4

(* A test is in a reflect context only beside a positive test for open.     *)
LEMMA ContextComesFromOpen ==
  ASSUME NEW e \in Tree, NEW p \in Place, NEW t \in TestsOf[e][p], t.place.reflect_context
  PROVE  p.reflect_context \/ PositiveReflectOpen[e][p.polarity]
<1>. DEFINE P == {x \in Tree : \A v \in Place : \A u \in TestsOf[x][v] :
                    u.place.reflect_context => v.reflect_context \/ PositiveReflectOpen[x][v.polarity]}
<1>1. Predicate \subseteq P
  BY TestsAt, PredicatesAreTrees, DepthsAre DEF Tree
<1>2. ASSUME NEW x \in Tree, x.node = "Not", x.l \in Tree, x.l \in P PROVE x \in P
  <2>1. ASSUME NEW v \in Place, NEW u \in TestsOf[x][v], u.place.reflect_context
        PROVE  v.reflect_context \/ PositiveReflectOpen[x][v.polarity]
    <3>1. TestsOf[x][v] = TestsOf[x.l][Negated(v)]
      BY <1>2, TestsAt
    <3>2. /\ Negated(v) \in Place /\ Negated(v).polarity = ~ v.polarity
          /\ Negated(v).reflect_context = v.reflect_context /\ v.polarity \in BOOLEAN
      BY PlacesAre
    <3>3. v.reflect_context \/ PositiveReflectOpen[x.l][~ v.polarity]
      BY <1>2, <2>1, <3>1, <3>2
    <3>. QED BY <1>2, <3>2, <3>3, OpensOf
  <2>. QED BY <2>1
<1>3. ASSUME NEW x \in Tree, x.node \in {"And", "Or"}, x.l \in Tree, x.l \in P, x.r \in Tree, x.r \in P
      PROVE  x \in P
  <2>1. ASSUME NEW v \in Place, NEW u \in TestsOf[x][v], u.place.reflect_context
        PROVE  v.reflect_context \/ PositiveReflectOpen[x][v.polarity]
    <3>1. CASE u \in TestsOf[x.l][LeftPlace(x, v)]
      BY <1>3, <2>1, <3>1, PlacesAre, OpensOf
    <3>2. CASE u \in TestsOf[x.r][RightPlace(x, v)]
      BY <1>3, <2>1, <3>2, PlacesAre, OpensOf
    <3>. QED BY <1>3, <2>1, <3>1, <3>2, TestsAt
  <2>. QED BY <2>1
<1>4. Tree \subseteq P
  <2>. HIDE DEF P
  <2>. QED BY <1>1, <1>2, <1>3, AllTrees
<1>. QED BY <1>4

-----------------------------------------------------------------------------
(* Which layers support the program of an expression.                       *)

Lowered == {OpOf(x) : x \in Predicate} \cup [op : {"And", "Or", "Not"}]

(* The opcode of an operator.                                               *)
LEMMA OperatorLowered ==
  ASSUME NEW e \in Tree, e.node \in {"And", "Or", "Not"}
  PROVE  OperatorOf(e) \in Lowered /\ OperatorOf(e).op = e.node
BY DEF OperatorOf, Lowered

(* A program is a sequence of opcodes of tests and of operators.            *)
LEMMA LowerTyped == \A e \in Tree : Lower[e] \in Seq(Lowered)
<1>. DEFINE P == {e \in Tree : Lower[e] \in Seq(Lowered)}
<1>1. Predicate \subseteq P
  <2>1. ASSUME NEW x \in Predicate PROVE x \in Tree /\ Lower[x] \in Seq(Lowered)
    <3>1. x \in Tree
      BY PredicatesAreTrees, DepthsAre DEF Tree
    <3>2. Lower[x] = <<OpOf(x)>> /\ OpOf(x) \in Lowered
      BY <3>1, LowerOf DEF Lowered
    <3>. QED BY <3>1, <3>2
  <2>. QED BY <2>1
<1>2. ASSUME NEW x \in Tree, x.node = "Not", x.l \in Tree, x.l \in P PROVE x \in P
  <2>1. Lower[x] = Lower[x.l] \o <<OperatorOf(x)>>
    BY <1>2, LowerOf
  <2>2. ASSUME NEW s \in Seq(Lowered), NEW op \in Lowered PROVE s \o <<op>> \in Seq(Lowered)
    OBVIOUS
  <2>. QED BY <1>2, <2>1, <2>2, OperatorLowered
<1>3. ASSUME NEW x \in Tree, x.node \in {"And", "Or"}, x.l \in Tree, x.l \in P, x.r \in Tree, x.r \in P
      PROVE  x \in P
  <2>1. Lower[x] = Lower[x.l] \o Lower[x.r] \o <<OperatorOf(x)>>
    BY <1>3, LowerOf
  <2>2. ASSUME NEW s \in Seq(Lowered), NEW t \in Seq(Lowered), NEW op \in Lowered
        PROVE  s \o t \o <<op>> \in Seq(Lowered)
    OBVIOUS
  <2>. QED BY <1>3, <2>1, <2>2, OperatorLowered
<1>4. Tree \subseteq P
  <2>. HIDE DEF P
  <2>. QED BY <1>1, <1>2, <1>3, AllTrees
<1>. QED BY <1>4

AllSupported(l, program) == \A k \in 1 .. Len(program) : SupportsOp(l, program[k])

(* A layer supports two programs in a row when it supports both.            *)
LEMMA SupportedConcat ==
  ASSUME NEW l, NEW S, NEW s \in Seq(S), NEW t \in Seq(S)
  PROVE  AllSupported(l, s \o t) <=> AllSupported(l, s) /\ AllSupported(l, t)
<1>1. /\ s \o t \in Seq(S) /\ Len(s \o t) = Len(s) + Len(t) /\ Len(s) \in Nat /\ Len(t) \in Nat
      /\ \A k \in 1 .. Len(s) : (s \o t)[k] = s[k]
      /\ \A k \in 1 .. Len(t) : (s \o t)[Len(s) + k] = t[k]
  OBVIOUS
<1>2. ASSUME AllSupported(l, s \o t) PROVE AllSupported(l, s) /\ AllSupported(l, t)
  <2>1. \A k \in 1 .. Len(s) : k \in 1 .. Len(s \o t)
    BY <1>1
  <2>2. \A k \in 1 .. Len(t) : Len(s) + k \in 1 .. Len(s \o t)
    BY <1>1
  <2>3. \A k \in 1 .. Len(s) : SupportsOp(l, s[k])
    BY <1>1, <1>2, <2>1 DEF AllSupported
  <2>4. \A k \in 1 .. Len(t) : SupportsOp(l, t[k])
    BY <1>1, <1>2, <2>2 DEF AllSupported
  <2>. QED BY <2>3, <2>4 DEF AllSupported
<1>3. ASSUME AllSupported(l, s), AllSupported(l, t) PROVE AllSupported(l, s \o t)
  <2>1. ASSUME NEW k \in 1 .. Len(s \o t) PROVE SupportsOp(l, (s \o t)[k])
    <3>1. CASE k <= Len(s)
      BY <1>1, <1>3, <3>1 DEF AllSupported
    <3>2. CASE k > Len(s)
      <4>1. k - Len(s) \in 1 .. Len(t) /\ Len(s) + (k - Len(s)) = k
        BY <1>1, <3>2
      <4>. QED BY <1>1, <1>3, <4>1 DEF AllSupported
    <3>. QED BY <1>1, <3>1, <3>2
  <2>. QED BY <2>1 DEF AllSupported
<1>. QED BY <1>2, <1>3

(* A program of one opcode.                                                 *)
LEMMA SupportedOne ==
  ASSUME NEW l, NEW op PROVE AllSupported(l, <<op>>) <=> SupportsOp(l, op)
BY DEF AllSupported

(* Every layer supports the operators.                                      *)
LEMMA OperatorSupported ==
  ASSUME NEW l, NEW e \in Tree, e.node \in {"And", "Or", "Not"}
  PROVE  AllSupported(l, <<OperatorOf(e)>>)
<1>1. SupportsOp(l, OperatorOf(e))
  BY OperatorLowered DEF SupportsOp
<1>. QED BY <1>1, SupportedOne

(* A layer supports a program exactly when it supports the program's tests. *)
LEMMA SupportedBySigns ==
  ASSUME NEW l, NEW e \in Tree, NEW b \in BOOLEAN
  PROVE  AllSupported(l, Lower[e]) <=> \A t \in Signed(e, b) : SupportsOp(l, OpOf(t.test))
<1>. DEFINE P == {x \in Tree : \A c \in BOOLEAN :
                    AllSupported(l, Lower[x]) <=> \A t \in Signed(x, c) : SupportsOp(l, OpOf(t.test))}
<1>1. Predicate \subseteq P
  <2>1. ASSUME NEW x \in Predicate, NEW c \in BOOLEAN
        PROVE  /\ x \in Tree
               /\ AllSupported(l, Lower[x]) <=> \A t \in Signed(x, c) : SupportsOp(l, OpOf(t.test))
    <3>1. x \in Tree
      BY PredicatesAreTrees, DepthsAre DEF Tree
    <3>2. Signed(x, c) = {[test |-> x, polarity |-> c]} /\ Lower[x] = <<OpOf(x)>>
      BY <3>1, SignedOf, LowerOf
    <3>. QED BY <3>1, <3>2, SupportedOne
  <2>2. Predicate \subseteq Tree
    BY PredicatesAreTrees, DepthsAre DEF Tree
  <2>. QED BY <2>1, <2>2
<1>2. ASSUME NEW x \in Tree, x.node = "Not", x.l \in Tree, x.l \in P PROVE x \in P
  <2>1. ASSUME NEW c \in BOOLEAN
        PROVE  AllSupported(l, Lower[x]) <=> \A t \in Signed(x, c) : SupportsOp(l, OpOf(t.test))
    <3>1. Signed(x, c) = Signed(x.l, ~ c) /\ (~ c) \in BOOLEAN
      BY <1>2, SignedOf
    <3>2. Lower[x] = Lower[x.l] \o <<OperatorOf(x)>>
      BY <1>2, LowerOf
    <3>3. Lower[x.l] \in Seq(Lowered) /\ <<OperatorOf(x)>> \in Seq(Lowered)
      BY <1>2, LowerTyped, OperatorLowered
    <3>4. AllSupported(l, Lower[x]) <=> AllSupported(l, Lower[x.l])
      BY <1>2, <3>2, <3>3, SupportedConcat, OperatorSupported
    <3>. QED BY <1>2, <3>1, <3>4
  <2>. QED BY <2>1
<1>3. ASSUME NEW x \in Tree, x.node \in {"And", "Or"}, x.l \in Tree, x.l \in P, x.r \in Tree, x.r \in P
      PROVE  x \in P
  <2>1. ASSUME NEW c \in BOOLEAN
        PROVE  AllSupported(l, Lower[x]) <=> \A t \in Signed(x, c) : SupportsOp(l, OpOf(t.test))
    <3>1. Signed(x, c) = Signed(x.l, c) \cup Signed(x.r, c)
      BY <1>3, SignedOf
    <3>2. Lower[x] = Lower[x.l] \o Lower[x.r] \o <<OperatorOf(x)>>
      BY <1>3, LowerOf
    <3>3. /\ Lower[x.l] \in Seq(Lowered) /\ Lower[x.r] \in Seq(Lowered)
          /\ <<OperatorOf(x)>> \in Seq(Lowered)
      BY <1>3, LowerTyped, OperatorLowered
    <3>4. Lower[x.l] \o Lower[x.r] \in Seq(Lowered)
      BY <3>3
    <3>5. AllSupported(l, Lower[x]) <=> AllSupported(l, Lower[x.l] \o Lower[x.r])
      <4>1. AllSupported(l, (Lower[x.l] \o Lower[x.r]) \o <<OperatorOf(x)>>) <=>
              AllSupported(l, Lower[x.l] \o Lower[x.r]) /\ AllSupported(l, <<OperatorOf(x)>>)
        BY <3>3, <3>4, SupportedConcat
      <4>2. AllSupported(l, <<OperatorOf(x)>>)
        BY <1>3, OperatorSupported
      <4>. QED BY <3>2, <4>1, <4>2
    <3>6. AllSupported(l, Lower[x.l] \o Lower[x.r]) <=>
            AllSupported(l, Lower[x.l]) /\ AllSupported(l, Lower[x.r])
      BY <3>3, SupportedConcat
    <3>. QED BY <1>3, <3>1, <3>5, <3>6
  <2>. QED BY <2>1
<1>4. Tree \subseteq P
  <2>. HIDE DEF P
  <2>. QED BY <1>1, <1>2, <1>3, AllTrees
<1>. QED BY <1>4

-----------------------------------------------------------------------------
(* Equivalent filters open alike.                                           *)

(* A filter stands alone.                                                   *)
LEMMA TopIsAlone == TopPlace = Alone(TRUE) /\ TopPlace \in Place /\ TopPlace.polarity = TRUE
BY DEF TopPlace, Alone, Place

(* The tests of a filter and its tests with their signs are the same tests. *)
LEMMA SignedTests ==
  ASSUME NEW e \in Tree
  PROVE  /\ \A t \in TestsOf[e][TopPlace] :
              \E s \in Signed(e, TRUE) : s.test = t.test /\ s.polarity = t.place.polarity
         /\ \A s \in Signed(e, TRUE) : \E t \in TestsOf[e][TopPlace] :
              s.test = t.test /\ s.polarity = t.place.polarity /\ s = [test |-> t.test, polarity |-> t.place.polarity]
<1>. DEFINE SignOf(t) == [test |-> t.test, polarity |-> t.place.polarity]
            T == TestsOf[e][TopPlace]
<1>1. Signed(e, TRUE) = {SignOf(t) : t \in T}
  BY TopIsAlone DEF Signed, Signs
<1>2. \A t : SignOf(t).test = t.test /\ SignOf(t).polarity = t.place.polarity
  OBVIOUS
<1>3. \A t \in T : \E s \in Signed(e, TRUE) : s.test = t.test /\ s.polarity = t.place.polarity
  <2>. HIDE DEF SignOf, T
  <2>. QED BY <1>1, <1>2
<1>4. \A s \in Signed(e, TRUE) : \E t \in T : s = SignOf(t)
  <2>. HIDE DEF SignOf, T
  <2>. QED BY <1>1
<1>5. \A s \in Signed(e, TRUE) : \E t \in T :
        s.test = t.test /\ s.polarity = t.place.polarity /\ s = SignOf(t)
  <2>. HIDE DEF SignOf, T
  <2>. QED BY <1>2, <1>4
<1>. QED BY <1>3, <1>5

(* What analyze and validate_ir know of an expression, by its tests.        *)
LEMMA LegalIs ==
  ASSUME NEW e \in Tree
  PROVE  Legal(e) <=>
           /\ \A t \in Signed(e, TRUE) : LegalTest(t.test)
           /\ ~ /\ \E t \in Signed(e, TRUE) : t.test.node = "packet"
                /\ \E t \in TestsOf[e][TopPlace] : t.test.node # "packet" /\ "Flow" \in RequiredLayers(t)
<1>2. (\A t \in TestsOf[e][TopPlace] : LegalTest(t.test)) <=> \A t \in Signed(e, TRUE) : LegalTest(t.test)
  BY Zenon, SignedTests
<1>3. (\E t \in TestsOf[e][TopPlace] : t.test.node = "packet") <=>
        \E t \in Signed(e, TRUE) : t.test.node = "packet"
  <2>1. ASSUME NEW t \in TestsOf[e][TopPlace], t.test.node = "packet"
        PROVE  \E s \in Signed(e, TRUE) : s.test.node = "packet"
    BY Zenon, <2>1, SignedTests
  <2>2. ASSUME NEW s \in Signed(e, TRUE), s.test.node = "packet"
        PROVE  \E t \in TestsOf[e][TopPlace] : t.test.node = "packet"
    BY Zenon, <2>2, SignedTests
  <2>. QED BY Zenon, <2>1, <2>2
<1>. QED BY <1>2, <1>3 DEF Legal

Required(e) == UNION {RequiredLayers(t) : t \in TestsOf[e][TopPlace]}

(* What validate_ir checks, by the tests of the expression.                 *)
LEMMA ValidIs ==
  ASSUME NEW e \in Tree, NEW l \in Layer
  PROVE  ValidIr(l, Compiled(e)) <=>
           /\ Required(e) = {} \/ l \in Required(e)
           /\ (\E t \in Signed(e, TRUE) : t.test.node = "packet") => l \in NetworkLayer
           /\ \A t \in Signed(e, TRUE) : FieldOf(t.test) \in SupportedFields(l)
           /\ \A t \in Signed(e, TRUE) : SupportsOp(l, OpOf(t.test))
<1>. DEFINE i == Compiled(e)
            T == TestsOf[e][TopPlace]
<1>2. /\ i.required_layers = Required(e)
      /\ i.needs_payload = (\E t \in T : t.test.node = "packet")
      /\ i.referenced_fields = {FieldOf(t.test) : t \in T}
      /\ i.program = Lower[e]
  BY DEF Compiled, Required
<1>3. (\E t \in T : t.test.node = "packet") <=> \E t \in Signed(e, TRUE) : t.test.node = "packet"
  <2>1. ASSUME NEW t \in T, t.test.node = "packet"
        PROVE  \E s \in Signed(e, TRUE) : s.test.node = "packet"
    BY Zenon, <2>1, SignedTests
  <2>2. ASSUME NEW s \in Signed(e, TRUE), s.test.node = "packet"
        PROVE  \E t \in T : t.test.node = "packet"
    BY Zenon, <2>2, SignedTests
  <2>. QED BY Zenon, <2>1, <2>2
<1>4. (\A t \in T : FieldOf(t.test) \in SupportedFields(l)) <=>
        \A t \in Signed(e, TRUE) : FieldOf(t.test) \in SupportedFields(l)
  BY Zenon, SignedTests
<1>5. {FieldOf(t.test) : t \in T} \subseteq SupportedFields(l) <=>
        \A t \in T : FieldOf(t.test) \in SupportedFields(l)
  OBVIOUS
<1>6. AllSupported(l, Lower[e]) <=> \A t \in Signed(e, TRUE) : SupportsOp(l, OpOf(t.test))
  BY SupportedBySigns
<1>. HIDE DEF i, T
<1>7. ValidIr(l, i) <=>
        /\ Required(e) = {} \/ l \in Required(e)
        /\ (\E t \in T : t.test.node = "packet") => l \in NetworkLayer
        /\ {FieldOf(t.test) : t \in T} \subseteq SupportedFields(l)
        /\ AllSupported(l, Lower[e])
  BY <1>2 DEF ValidIr, AllSupported
<1>8. ValidIr(l, Compiled(e)) <=> ValidIr(l, i)
  BY DEF i
<1>. QED BY <1>3, <1>4, <1>5, <1>6, <1>7, <1>8

(* The values of the event names.                                           *)
LEMMA EventValues ==
  /\ ValueOf("event", Symbol("open")) = Small(1)
  /\ ValueOf("event", Symbol("connect")) = Small(2)
  /\ ValueOf("event", Symbol("close")) = Small(3)
BY DEF ValueOf, Symbol, AddrField

(* Numbers below 2^32 are u64s, each one its own.                           *)
LEMMA Smalls ==
  /\ \A n \in Nat : Small(n) \in U64
  /\ \A m, n : Small(m) = Small(n) <=> m = n
<1>1. \A n : Small(n).low = n
  BY DEF Small
<1>2. ASSUME NEW m, NEW n, Small(m) = Small(n) PROVE m = n
  BY <1>1, <1>2
<1>3. \A n \in Nat : Small(n) \in U64
  BY DEF Small, U64
<1>. QED BY <1>2, <1>3

(* A positive test for open asks for the layer Reflect, and no other layer  *)
(* supports it.                                                             *)
LEMMA OpenMeansReflect ==
  ASSUME NEW x \in Predicate, IsOpen(x)
  PROVE  /\ \A l \in Layer : SupportsOp(l, OpOf(x)) => l = "Reflect"
         /\ \A p \in Place : p.polarity =>
              "Reflect" \in RequiredLayers([test |-> x, place |-> p])
<1>1. x.node = "eq" /\ x.field = "event" /\ x.value = [symbol |-> "open"]
  BY DEF IsOpen, Symbol
<1>2. ValueOf("event", x.value) = Small(1)
  BY <1>1, EventValues DEF Symbol
<1>3. OpOf(x) = [op |-> "FieldTest", field |-> "event", value |-> Small(1)]
  BY <1>1, <1>2 DEF OpOf
<1>4. ASSUME NEW l \in Layer, SupportsOp(l, OpOf(x)) PROVE l = "Reflect"
  <2>1. "event" \in SupportedFields(l) /\ 1 \in EventCodes(l)
    BY <1>3, <1>4, Smalls DEF SupportsOp
  <2>. QED BY <2>1 DEF EventCodes, Layer, NetworkLayer
<1>5. ASSUME NEW p \in Place, p.polarity
      PROVE  "Reflect" \in RequiredLayers([test |-> x, place |-> p])
  <2>. DEFINE t == [test |-> x, place |-> p]
  <2>1. x.value # Symbol("connect")
    <3>1. Symbol("connect").symbol = "connect" /\ x.value.symbol = "open"
      BY <1>1 DEF Symbol
    <3>. QED BY <3>1
  <2>2. /\ t.test.node = "eq" /\ t.test.field = "event" /\ t.test.value # Symbol("connect")
        /\ t.place.polarity
    BY <1>1, <1>5, <2>1
  <2>. HIDE DEF t
  <2>3. RequiredLayers(t) = {"Reflect"}
    BY <2>2 DEF RequiredLayers, AddrField
  <2>. QED BY <2>3 DEF t
<1>. QED BY <1>4, <1>5

(* Without a positive test for open no test is in a reflect context.        *)
LEMMA NoOpenNoContext ==
  ASSUME NEW e \in Tree, ~ PositiveReflectOpen[e][TRUE]
  PROVE  TestsOf[e][TopPlace] = {[test |-> t.test, place |-> Alone(t.polarity)] : t \in Signed(e, TRUE)}
<1>1. ASSUME NEW t \in TestsOf[e][TopPlace]
      PROVE  t = [test |-> t.test, place |-> Alone(t.place.polarity)]
  <2>1. t \in [test : Predicate, place : Place]
    BY TestsTyped, TopIsAlone
  <2>2. ~ t.place.reflect_context
    BY ContextComesFromOpen, TopIsAlone DEF TopPlace
  <2>3. t.place = [reflect_context |-> FALSE, polarity |-> t.place.polarity]
    BY <2>1, <2>2 DEF Place
  <2>. QED BY <2>1, <2>3 DEF Alone
<1>. DEFINE At(u) == [test |-> u.test, place |-> Alone(u.polarity)]
            T == TestsOf[e][TopPlace]
<1>2. \A t, u : u.test = t.test /\ u.polarity = t.place.polarity =>
        At(u) = [test |-> t.test, place |-> Alone(t.place.polarity)]
  OBVIOUS
<1>3. ASSUME NEW t \in T PROVE t \in {At(u) : u \in Signed(e, TRUE)}
  <2>1. PICK u \in Signed(e, TRUE) : u.test = t.test /\ u.polarity = t.place.polarity
    BY SignedTests
  <2>2. t = At(u)
    BY <1>1, <1>2, <2>1
  <2>. HIDE DEF At
  <2>. QED BY <2>2
<1>4. ASSUME NEW u \in Signed(e, TRUE) PROVE At(u) \in T
  <2>1. PICK t \in T : u.test = t.test /\ u.polarity = t.place.polarity
    BY SignedTests
  <2>2. At(u) = t
    BY <1>1, <1>2, <2>1
  <2>. QED BY <2>2
<1>5. T = {At(u) : u \in Signed(e, TRUE)}
  <2>. HIDE DEF At, T
  <2>. QED BY <1>3, <1>4
<1>. QED BY <1>5

(* Whether a filter opens for a layer depends on its tests and their signs. *)
LEMMA OpensBySigns ==
  ASSUME NEW x \in Tree, NEW y \in Tree, layer \in Layer, Signed(x, TRUE) = Signed(y, TRUE), Opens(x)
  PROVE  Opens(y)
<1>1. Legal(x) /\ ValidIr(layer, Compiled(x))
  BY DEF Opens
<1>2. \A t \in Signed(y, TRUE) : LegalTest(t.test)
  BY <1>1, LegalIs
<1>3. /\ (\E t \in Signed(y, TRUE) : t.test.node = "packet") => layer \in NetworkLayer
      /\ \A t \in Signed(y, TRUE) : FieldOf(t.test) \in SupportedFields(layer)
      /\ \A t \in Signed(y, TRUE) : SupportsOp(layer, OpOf(t.test))
      /\ Required(x) = {} \/ layer \in Required(x)
  BY <1>1, ValidIs
<1>4. CASE PositiveReflectOpen[x][TRUE]
  <2>1. PICK s \in Signed(y, TRUE) : s.polarity /\ IsOpen(s.test)
    BY <1>4, OpensAreSigned
  <2>2. PICK t \in TestsOf[y][TopPlace] : s = [test |-> t.test, polarity |-> t.place.polarity]
    BY TopIsAlone DEF Signed, Signs
  <2>3. /\ t = [test |-> t.test, place |-> t.place] /\ t.test \in Predicate /\ t.place \in Place
        /\ IsOpen(t.test) /\ t.place.polarity
    BY <2>1, <2>2, TestsTyped, TopIsAlone
  <2>4. layer = "Reflect"
    BY <1>3, <2>1, <2>2, <2>3, OpenMeansReflect
  <2>5. "Reflect" \in RequiredLayers([test |-> t.test, place |-> t.place])
    BY <2>3, OpenMeansReflect
  <2>6. layer \in Required(y)
    BY <2>3, <2>4, <2>5 DEF Required
  <2>7. ~ \E u \in Signed(y, TRUE) : u.test.node = "packet"
    BY <1>3, <2>4 DEF NetworkLayer
  <2>8. Legal(y)
    BY <1>2, <2>7, LegalIs
  <2>9. ValidIr(layer, Compiled(y))
    BY <1>3, <2>6, ValidIs
  <2>. QED BY <2>8, <2>9 DEF Opens
<1>5. CASE ~ PositiveReflectOpen[x][TRUE]
  <2>1. ~ PositiveReflectOpen[y][TRUE]
    BY <1>5, OpensAreSigned
  <2>2. TestsOf[x][TopPlace] = TestsOf[y][TopPlace]
    BY <1>5, <2>1, NoOpenNoContext
  <2>3. Legal(y)
    BY <1>1, <2>2 DEF Legal
  <2>4. Required(y) = Required(x)
    BY <2>2 DEF Required
  <2>5. ValidIr(layer, Compiled(y))
    BY <1>3, <2>4, ValidIs
  <2>. QED BY <2>3, <2>5 DEF Opens
<1>. QED BY <1>4, <1>5

(* Its tests, their places included, do not depend on the order of operands, *)
(* nor on a double negation.                                                *)
LEMMA SwappedTests ==
  ASSUME NEW x \in Tree, NEW y \in Tree, x.node \in {"And", "Or"}, y.node = x.node,
         y.l = x.r, y.r = x.l, NEW p \in Place
  PROVE  TestsOf[y][p] = TestsOf[x][p]
<1>1. LeftPlace(y, p) = RightPlace(x, p) /\ RightPlace(y, p) = LeftPlace(x, p)
  BY DEF LeftPlace, RightPlace
<1>2. TestsOf[x][p] = TestsOf[x.l][LeftPlace(x, p)] \cup TestsOf[x.r][RightPlace(x, p)]
  BY TestsAt
<1>3. TestsOf[y][p] = TestsOf[y.l][LeftPlace(y, p)] \cup TestsOf[y.r][RightPlace(y, p)]
  BY TestsAt
<1>. QED BY <1>1, <1>2, <1>3

(* A double negation leaves the tests where they are.                       *)
LEMMA TwiceNegatedTests ==
  ASSUME NEW x \in Tree, Not(x) \in Tree, Not(Not(x)) \in Tree, NEW p \in Place
  PROVE  TestsOf[Not(Not(x))][p] = TestsOf[x][p]
<1>1. Negated(p) \in Place /\ Negated(Negated(p)) = p
  BY PlacesAre
<1>2. Not(x).node = "Not" /\ Not(x).l = x /\ Not(Not(x)).node = "Not" /\ Not(Not(x)).l = Not(x)
  BY DEF Not
<1>3. TestsOf[Not(Not(x))][p] = TestsOf[Not(x)][Negated(p)]
  BY <1>2, TestsAt
<1>4. TestsOf[Not(x)][Negated(p)] = TestsOf[x][Negated(Negated(p))]
  BY <1>1, <1>2, TestsAt
<1>. QED BY <1>1, <1>3, <1>4

(* The depths of an expression, of its operands and of its other forms.     *)
LEMMA ExprDepths ==
  /\ Expr \subseteq Trees[MAX_DEPTH + 1] /\ Trees[MAX_DEPTH + 1] \subseteq Tree /\ Expr \subseteq Tree
  /\ \A x \in Expr : Not(x) \in Trees[MAX_DEPTH + 1]
  /\ \A x \in Expr, y \in Expr :
       And(x, y) \in Trees[MAX_DEPTH + 1] /\ Or(x, y) \in Trees[MAX_DEPTH + 1]
  /\ \A x \in Trees[MAX_DEPTH + 1] : Not(x) \in Tree
  /\ \A x \in Trees[MAX_DEPTH + 1], y \in Trees[MAX_DEPTH + 1] : And(x, y) \in Tree /\ Or(x, y) \in Tree
<1>. DEFINE m == MAX_DEPTH + 1
            n == MAX_DEPTH + 2
<1>1. /\ m \in Depths /\ n \in Depths /\ m # 0 /\ n # 0 /\ m - 1 = MAX_DEPTH /\ n - 1 = m
      /\ Tree = Trees[n] /\ Expr = Trees[m - 1]
  BY DepthsAre, CompilerAssumption DEF Tree, Expr
<1>. HIDE DEF m, n
<1>2. Expr \subseteq Trees[m] /\ Trees[m] \subseteq Tree
  BY <1>1, TreesGrow
<1>3. \A x \in Expr : Not(x) \in Trees[m]
  BY <1>1, TreeNot
<1>4. \A x \in Expr, y \in Expr : And(x, y) \in Trees[m] /\ Or(x, y) \in Trees[m]
  BY <1>1, TreeJoin
<1>5. \A x \in Trees[m] : Not(x) \in Tree
  BY <1>1, TreeNot
<1>6. \A x \in Trees[m], y \in Trees[m] : And(x, y) \in Tree /\ Or(x, y) \in Tree
  BY <1>1, TreeJoin
<1>. QED BY <1>2, <1>3, <1>4, <1>5, <1>6 DEF m

(* The operands of an expression a parser may find.                         *)
LEMMA ExprParts ==
  ASSUME NEW x \in Expr
  PROVE  /\ x.node = "Not" => x.l \in Expr
         /\ x.node \in {"And", "Or"} =>
              x.l \in Expr /\ x.r \in Expr /\ x = [node |-> x.node, l |-> x.l, r |-> x.r]
         /\ x.node \in {"And", "Or"} /\ MAX_DEPTH # 0 => x.l \in Trees[MAX_DEPTH - 1] /\ x.r \in Trees[MAX_DEPTH - 1]
         /\ x.node \in {"And", "Or"} => MAX_DEPTH # 0
BY DepthsAre, OperandsAt, TreesGrow, PredicateNode DEF Expr

(* The signs of the tests of the other forms.                               *)
LEMMA SignedNot ==
  ASSUME NEW x \in Tree, Not(x) \in Tree, NEW b \in BOOLEAN
  PROVE  Signed(Not(x), b) = Signed(x, ~ b)
BY SignedOf DEF Not

(* The other forms of an expression have the same signed tests.             *)
LEMMA RewrittenSigns ==
  ASSUME NEW x \in Expr, NEW y \in Rewritten(x)
  PROVE  y \in Tree /\ Signed(y, TRUE) = Signed(x, TRUE)
<1>0. TRUE \in BOOLEAN /\ FALSE \in BOOLEAN /\ (~ TRUE) = FALSE /\ (~ FALSE) = TRUE
  OBVIOUS
<1>. x \in Tree
  BY ExprDepths
<1>1. CASE y = Not(Not(x))
  <2>1. Not(x) \in Tree /\ y \in Tree
    BY <1>1, ExprDepths
  <2>. QED BY <1>0, <1>1, <2>1, SignedNot
<1>2. CASE x.node \in {"And", "Or"} /\ y \in {And(x.r, x.l), Or(x.r, x.l)}
  <2>1. x.l \in Expr /\ x.r \in Expr /\ x.l \in Tree /\ x.r \in Tree
    BY <1>2, ExprParts, ExprDepths
  <2>2. y \in Tree
    BY <1>2, <2>1, ExprDepths
  <2>3. Signed(y, TRUE) = Signed(x.r, TRUE) \cup Signed(x.l, TRUE)
    <3>1. y.node \in {"And", "Or"} /\ y.l = x.r /\ y.r = x.l
      BY <1>2 DEF And, Or
    <3>2. Signed(y, TRUE) = Signed(y.l, TRUE) \cup Signed(y.r, TRUE)
      BY <2>2, <3>1, SignedOf
    <3>. QED BY <3>1, <3>2
  <2>4. Signed(x, TRUE) = Signed(x.l, TRUE) \cup Signed(x.r, TRUE)
    BY <1>2, SignedOf
  <2>. QED BY <2>2, <2>3, <2>4
<1>3. CASE /\ x.node \in {"And", "Or"}
           /\ y \in {Not(Or(Not(x.l), Not(x.r))), Not(And(Not(x.l), Not(x.r)))}
  <2>1. /\ MAX_DEPTH \in Depths /\ MAX_DEPTH # 0 /\ x.l \in Trees[MAX_DEPTH - 1] /\ x.r \in Trees[MAX_DEPTH - 1]
        /\ x.l \in Tree /\ x.r \in Tree
    BY <1>3, ExprParts, ExprDepths, DepthsAre
  <2>2. Not(x.l) \in Expr /\ Not(x.r) \in Expr
    BY <2>1, TreeNot DEF Expr
  <2>3. PICK z \in {Or(Not(x.l), Not(x.r)), And(Not(x.l), Not(x.r))} : y = Not(z)
    BY <1>3
  <2>4. z \in Tree /\ y \in Tree /\ Not(x.l) \in Tree /\ Not(x.r) \in Tree
    BY <2>2, <2>3, ExprDepths
  <2>5. Signed(y, TRUE) = Signed(z, FALSE)
    BY <1>0, <2>3, <2>4, SignedNot
  <2>6. Signed(z, FALSE) = Signed(Not(x.l), FALSE) \cup Signed(Not(x.r), FALSE)
    <3>1. z.node \in {"And", "Or"} /\ z.l = Not(x.l) /\ z.r = Not(x.r)
      BY <2>3 DEF And, Or
    <3>2. Signed(z, FALSE) = Signed(z.l, FALSE) \cup Signed(z.r, FALSE)
      BY <2>4, <3>1, SignedOf
    <3>. QED BY <3>1, <3>2
  <2>7. Signed(Not(x.l), FALSE) = Signed(x.l, TRUE) /\ Signed(Not(x.r), FALSE) = Signed(x.r, TRUE)
    BY <1>0, <2>1, <2>4, SignedNot
  <2>8. Signed(x, TRUE) = Signed(x.l, TRUE) \cup Signed(x.r, TRUE)
    BY <1>3, SignedOf
  <2>. QED BY <2>4, <2>5, <2>6, <2>7, <2>8
<1>4. CASE x.node = "And" /\ x.l.node = "Or" /\ y = Or(And(x.l.l, x.r), And(x.l.r, x.r))
  <2>1. /\ x.l \in Expr /\ x.r \in Expr /\ x.l.l \in Expr /\ x.l.r \in Expr
        /\ x.l \in Tree /\ x.r \in Tree /\ x.l.l \in Tree /\ x.l.r \in Tree
    BY <1>4, ExprParts, ExprDepths
  <2>2. And(x.l.l, x.r) \in Tree /\ And(x.l.r, x.r) \in Tree /\ y \in Tree
    BY <1>4, <2>1, ExprDepths
  <2>3. Signed(y, TRUE) = Signed(And(x.l.l, x.r), TRUE) \cup Signed(And(x.l.r, x.r), TRUE)
    <3>1. y.node = "Or" /\ y.l = And(x.l.l, x.r) /\ y.r = And(x.l.r, x.r)
      BY <1>4 DEF Or
    <3>2. Signed(y, TRUE) = Signed(y.l, TRUE) \cup Signed(y.r, TRUE)
      BY <2>2, <3>1, SignedOf
    <3>. QED BY <3>1, <3>2
  <2>4. /\ Signed(And(x.l.l, x.r), TRUE) = Signed(x.l.l, TRUE) \cup Signed(x.r, TRUE)
        /\ Signed(And(x.l.r, x.r), TRUE) = Signed(x.l.r, TRUE) \cup Signed(x.r, TRUE)
    <3>1. ASSUME NEW u, NEW z \in Tree, z = And(u, x.r)
          PROVE  Signed(z, TRUE) = Signed(u, TRUE) \cup Signed(x.r, TRUE)
      <4>1. z.node = "And" /\ z.l = u /\ z.r = x.r
        BY <3>1 DEF And
      <4>. QED BY <4>1, SignedOf
    <3>. QED BY <2>2, <3>1
  <2>5. Signed(x.l, TRUE) = Signed(x.l.l, TRUE) \cup Signed(x.l.r, TRUE)
    BY <1>4, <2>1, SignedOf
  <2>6. Signed(x, TRUE) = Signed(x.l, TRUE) \cup Signed(x.r, TRUE)
    BY <1>4, SignedOf
  <2>. QED BY <2>2, <2>3, <2>4, <2>5, <2>6
<1>. QED BY <1>1, <1>2, <1>3, <1>4 DEF Rewritten, Reordered

(* The reordered forms have the same tests, contexts included.              *)
LEMMA ReorderedTests ==
  ASSUME NEW x \in Expr, NEW y \in Reordered(x)
  PROVE  TestsOf[y][TopPlace] = TestsOf[x][TopPlace]
<1>. x \in Tree
  BY ExprDepths
<1>1. CASE y = Not(Not(x))
  <2>1. Not(x) \in Tree /\ y \in Tree
    BY <1>1, ExprDepths
  <2>. QED BY <1>1, <2>1, TwiceNegatedTests, TopIsAlone
<1>2. CASE x.node \in {"And", "Or"} /\ y = [node |-> x.node, l |-> x.r, r |-> x.l]
  <2>1. x.l \in Expr /\ x.r \in Expr
    BY <1>2, ExprParts
  <2>2. y = And(x.r, x.l) \/ y = Or(x.r, x.l)
    BY <1>2 DEF And, Or
  <2>3. y \in Tree
    BY <2>1, <2>2, ExprDepths
  <2>4. y.node = x.node /\ y.l = x.r /\ y.r = x.l
    BY <1>2
  <2>. QED BY <1>2, <2>3, <2>4, SwappedTests, TopIsAlone
<1>. QED BY <1>1, <1>2 DEF Reordered, And, Or

(* What EquivalentFiltersOpenAlike says, of any expression and layer.       *)
LEMMA AlikeAt ==
  ASSUME expr \in Expr, layer \in Layer
  PROVE  /\ \A y \in Rewritten(expr) : Opens(y) = Opens(expr)
         /\ \A y \in Reordered(expr) :
              /\ Legal(y) = Legal(expr)
              /\ Legal(expr) => Compiled(y).required_layers = Compiled(expr).required_layers
<1>1. ASSUME NEW y \in Rewritten(expr) PROVE Opens(y) = Opens(expr)
  <2>1. y \in Tree /\ expr \in Tree /\ Signed(y, TRUE) = Signed(expr, TRUE)
    BY RewrittenSigns, ExprDepths
  <2>2. Opens(y) <=> Opens(expr)
    BY <2>1, OpensBySigns
  <2>3. Opens(y) \in BOOLEAN /\ Opens(expr) \in BOOLEAN
    BY Zenon DEF Opens
  <2>. HIDE DEF Opens
  <2>. QED BY <2>2, <2>3
<1>2. ASSUME NEW y \in Reordered(expr)
      PROVE  /\ Legal(y) = Legal(expr)
             /\ Compiled(y).required_layers = Compiled(expr).required_layers
  <2>1. TestsOf[y][TopPlace] = TestsOf[expr][TopPlace]
    BY ReorderedTests
  <2>. QED BY <2>1 DEF Legal, Compiled
<1>. QED BY <1>1, <1>2

-----------------------------------------------------------------------------
(* How a program of tests and operators builds the expression it came from: *)
(* each opcode takes a stack of expressions to a stack of expressions.      *)

(* Some expressions of X stand for the tests.                               *)
StackStep(X, s, op, t) ==
  \/ \E x \in X : op = OpOf(x) /\ t = Append(s, x)
  \/ /\ op = [op |-> "Not"]
     /\ \E u \in Seq(Tree), x \in Tree : s = Append(u, x) /\ t = Append(u, Not(x))
  \/ \E c \in {"And", "Or"} :
       /\ op = [op |-> c]
       /\ \E u \in Seq(Tree), x \in Tree, y \in Tree :
            s = Append(Append(u, x), y) /\ t = Append(u, [node |-> c, l |-> x, r |-> y])

(* The stacks before, between and after the opcodes of a program.           *)
Builds(X, s, program, t, h) ==
  /\ h \in [0 .. Len(program) -> Seq(Tree)]
  /\ h[0] = s /\ h[Len(program)] = t
  /\ \A k \in 1 .. Len(program) : StackStep(X, h[k - 1], program[k], h[k])

(* A program of one opcode.                                                 *)
LEMMA BuildsOne ==
  ASSUME NEW X, NEW s \in Seq(Tree), NEW t \in Seq(Tree), NEW op, StackStep(X, s, op, t)
  PROVE  \E h : Builds(X, s, <<op>>, t, h)
<1>. DEFINE h == [k \in 0 .. 1 |-> IF k = 0 THEN s ELSE t]
<1>1. h \in [0 .. 1 -> Seq(Tree)] /\ h[0] = s /\ h[1] = t
  OBVIOUS
<1>2. Len(<<op>>) = 1 /\ <<op>>[1] = op
  OBVIOUS
<1>. HIDE DEF h
<1>3. ASSUME NEW k \in 1 .. 1 PROVE StackStep(X, h[k - 1], <<op>>[k], h[k])
  <2>1. k = 1 /\ k - 1 = 0
    OBVIOUS
  <2>. QED BY <1>1, <1>2, <2>1
<1>4. Builds(X, s, <<op>>, t, h)
  BY <1>1, <1>2, <1>3 DEF Builds
<1>. QED BY <1>4

(* Two programs in a row.                                                   *)
LEMMA BuildsBoth ==
  ASSUME NEW X, NEW s, NEW t, NEW u, NEW S, NEW p \in Seq(S), NEW q \in Seq(S),
         NEW f, Builds(X, s, p, t, f), NEW g, Builds(X, t, q, u, g)
  PROVE  \E h : Builds(X, s, p \o q, u, h)
<1>. DEFINE m == Len(p)
            n == Len(q)
            h == [k \in 0 .. m + n |-> IF k <= m THEN f[k] ELSE g[k - m]]
<1>1. /\ m \in Nat /\ n \in Nat /\ Len(p \o q) = m + n
      /\ \A k \in 1 .. m : (p \o q)[k] = p[k]
      /\ \A k \in 1 .. n : (p \o q)[m + k] = q[k]
  OBVIOUS
<1>2. /\ f \in [0 .. m -> Seq(Tree)] /\ f[0] = s /\ f[m] = t
      /\ \A k \in 1 .. m : StackStep(X, f[k - 1], p[k], f[k])
      /\ g \in [0 .. n -> Seq(Tree)] /\ g[0] = t /\ g[n] = u
      /\ \A k \in 1 .. n : StackStep(X, g[k - 1], q[k], g[k])
  BY DEF Builds
<1>. HIDE DEF m, n
<1>3. \A k \in 0 .. m : h[k] = f[k]
  BY <1>1
<1>4. \A k \in 0 .. n : h[m + k] = g[k]
  <2>1. ASSUME NEW k \in 0 .. n PROVE h[m + k] = g[k]
    <3>1. CASE k = 0
      BY <1>1, <1>2, <3>1
    <3>2. CASE k # 0
      <4>1. m + k \in 0 .. m + n /\ ~ (m + k <= m) /\ (m + k) - m = k
        BY <1>1, <3>2
      <4>. QED BY <4>1
    <3>. QED BY <3>1, <3>2
  <2>. QED BY <2>1
<1>5. h \in [0 .. m + n -> Seq(Tree)]
  <2>1. ASSUME NEW k \in 0 .. m + n PROVE (IF k <= m THEN f[k] ELSE g[k - m]) \in Seq(Tree)
    BY <1>1, <1>2
  <2>. QED BY <2>1
<1>. HIDE DEF h
<1>6. h[0] = s /\ h[m + n] = u
  BY <1>1, <1>2, <1>3, <1>4
<1>7. ASSUME NEW k \in 1 .. m + n PROVE StackStep(X, h[k - 1], (p \o q)[k], h[k])
  <2>1. CASE k <= m
    <3>1. k \in 1 .. m /\ k - 1 \in 0 .. m /\ k \in 0 .. m
      BY <1>1, <2>1
    <3>2. h[k] = f[k] /\ h[k - 1] = f[k - 1] /\ (p \o q)[k] = p[k]
      BY <1>1, <1>3, <3>1
    <3>. QED BY <1>2, <3>1, <3>2
  <2>2. CASE k > m
    <3>1. PICK j \in 1 .. n : k = m + j
      <4>1. k - m \in 1 .. n /\ k = m + (k - m)
        BY <1>1, <2>2
      <4>. QED BY <4>1
    <3>2. j - 1 \in 0 .. n /\ j \in 0 .. n /\ k - 1 = m + (j - 1)
      BY <1>1, <3>1
    <3>3. h[k] = g[j] /\ h[k - 1] = g[j - 1] /\ (p \o q)[k] = q[j]
      BY <1>1, <1>4, <3>1, <3>2
    <3>. QED BY <1>2, <3>3
  <2>. QED BY <1>1, <2>1, <2>2
<1>8. Builds(X, s, p \o q, u, h)
  BY <1>1, <1>5, <1>6, <1>7 DEF Builds
<1>. QED BY <1>8

(* What lies below on the stack does not matter.                            *)
LEMMA StepAbove ==
  ASSUME NEW X, X \subseteq Tree, NEW s \in Seq(Tree), NEW t \in Seq(Tree), NEW op,
         StackStep(X, s, op, t), NEW z \in Tree
  PROVE  StackStep(X, <<z>> \o s, op, <<z>> \o t)
<1>0. ASSUME NEW v \in Seq(Tree), NEW x \in Tree PROVE <<z>> \o Append(v, x) = Append(<<z>> \o v, x)
  OBVIOUS
<1>1. ASSUME NEW x \in X, op = OpOf(x), t = Append(s, x)
      PROVE  StackStep(X, <<z>> \o s, op, <<z>> \o t)
  <2>1. <<z>> \o t = Append(<<z>> \o s, x)
    BY <1>0, <1>1
  <2>. QED BY <1>1, <2>1 DEF StackStep
<1>2. ASSUME op = [op |-> "Not"],
             NEW u \in Seq(Tree), NEW x \in Tree, s = Append(u, x), t = Append(u, Not(x))
      PROVE  StackStep(X, <<z>> \o s, op, <<z>> \o t)
  <2>1. <<z>> \o u \in Seq(Tree)
    OBVIOUS
  <2>2. t[Len(t)] = Not(x) /\ Len(t) \in 1 .. Len(t)
    BY <1>2
  <2>3. Not(x) \in Tree
    BY <2>2
  <2>4. <<z>> \o s = Append(<<z>> \o u, x) /\ <<z>> \o t = Append(<<z>> \o u, Not(x))
    BY <1>0, <1>2, <2>3
  <2>. HIDE DEF Not
  <2>. QED BY <1>2, <2>1, <2>4 DEF StackStep
<1>3. ASSUME NEW c \in {"And", "Or"}, op = [op |-> c],
             NEW u \in Seq(Tree), NEW x \in Tree, NEW y \in Tree,
             s = Append(Append(u, x), y), t = Append(u, [node |-> c, l |-> x, r |-> y])
      PROVE  StackStep(X, <<z>> \o s, op, <<z>> \o t)
  <2>. DEFINE w == [node |-> c, l |-> x, r |-> y]
  <2>1. <<z>> \o u \in Seq(Tree) /\ Append(u, x) \in Seq(Tree)
    OBVIOUS
  <2>. HIDE DEF w
  <2>0. t = Append(u, w)
    BY <1>3 DEF w
  <2>2. t[Len(t)] = w /\ Len(t) \in 1 .. Len(t)
    BY <2>0
  <2>3. w \in Tree
    BY <2>2
  <2>4. <<z>> \o s = Append(Append(<<z>> \o u, x), y) /\ <<z>> \o t = Append(<<z>> \o u, w)
    BY <1>0, <1>3, <2>0, <2>1, <2>3
  <2>5. <<z>> \o t = Append(<<z>> \o u, [node |-> c, l |-> x, r |-> y])
    BY <2>4 DEF w
  <2>. QED BY <1>3, <2>1, <2>4, <2>5 DEF StackStep
<1>. QED BY <1>1, <1>2, <1>3 DEF StackStep

(* So a program builds the same on top of another expression.               *)
LEMMA BuildsAbove ==
  ASSUME NEW X, X \subseteq Tree, NEW s, NEW t, NEW S, NEW p \in Seq(S),
         NEW f, Builds(X, s, p, t, f), NEW z \in Tree
  PROVE  \E h : Builds(X, <<z>> \o s, p, <<z>> \o t, h)
<1>. DEFINE h == [k \in 0 .. Len(p) |-> <<z>> \o f[k]]
<1>1. /\ f \in [0 .. Len(p) -> Seq(Tree)] /\ f[0] = s /\ f[Len(p)] = t /\ Len(p) \in Nat
      /\ \A k \in 1 .. Len(p) : StackStep(X, f[k - 1], p[k], f[k])
  BY DEF Builds
<1>2. h \in [0 .. Len(p) -> Seq(Tree)]
  BY <1>1
<1>3. \A k \in 0 .. Len(p) : h[k] = <<z>> \o f[k]
  OBVIOUS
<1>. HIDE DEF h
<1>4. h[0] = <<z>> \o s /\ h[Len(p)] = <<z>> \o t
  BY <1>1, <1>3
<1>5. ASSUME NEW k \in 1 .. Len(p) PROVE StackStep(X, h[k - 1], p[k], h[k])
  <2>1. k \in 0 .. Len(p) /\ k - 1 \in 0 .. Len(p)
    BY <1>1
  <2>2. f[k] \in Seq(Tree) /\ f[k - 1] \in Seq(Tree)
    BY <1>1, <2>1
  <2>3. h[k] = <<z>> \o f[k] /\ h[k - 1] = <<z>> \o f[k - 1]
    BY <1>3, <2>1
  <2>. QED BY <1>1, <2>2, <2>3, StepAbove
<1>6. Builds(X, <<z>> \o s, p, <<z>> \o t, h)
  BY <1>2, <1>4, <1>5 DEF Builds
<1>. QED BY <1>6

(* The program of an expression builds the expression, out of its tests.    *)
LEMMA LowerBuilds ==
  ASSUME NEW X, X \subseteq Tree, NEW e \in Tree, NEW b \in BOOLEAN,
         \A t \in Signed(e, b) : t.test \in X
  PROVE  \E h : Builds(X, <<>>, Lower[e], <<e>>, h)
<1>. DEFINE P == {x \in Tree : \A c \in BOOLEAN :
                    (\A t \in Signed(x, c) : t.test \in X) => \E h : Builds(X, <<>>, Lower[x], <<x>>, h)}
<1>0. <<>> \in Seq(Tree) /\ \A x \in Tree : <<x>> \in Seq(Tree)
  OBVIOUS
<1>1. Predicate \subseteq P
  <2>1. ASSUME NEW x \in Predicate, NEW c \in BOOLEAN, \A t \in Signed(x, c) : t.test \in X
        PROVE  \E h : Builds(X, <<>>, Lower[x], <<x>>, h)
    <3>1. x \in Tree
      BY PredicatesAreTrees, DepthsAre DEF Tree
    <3>2. Signed(x, c) = {[test |-> x, polarity |-> c]} /\ Lower[x] = <<OpOf(x)>>
      BY <3>1, SignedOf, LowerOf
    <3>3. x \in X
      BY <2>1, <3>2
    <3>4. StackStep(X, <<>>, OpOf(x), <<x>>)
      <4>1. <<x>> = Append(<<>>, x)
        OBVIOUS
      <4>. QED BY <3>3, <4>1 DEF StackStep
    <3>. QED BY <1>0, <3>1, <3>2, <3>4, BuildsOne
  <2>2. Predicate \subseteq Tree
    BY PredicatesAreTrees, DepthsAre DEF Tree
  <2>. QED BY <2>1, <2>2
<1>2. ASSUME NEW x \in Tree, x.node = "Not", x.l \in Tree, x.l \in P PROVE x \in P
  <2>1. ASSUME NEW c \in BOOLEAN, \A t \in Signed(x, c) : t.test \in X
        PROVE  \E h : Builds(X, <<>>, Lower[x], <<x>>, h)
    <3>1. Signed(x, c) = Signed(x.l, ~ c) /\ (~ c) \in BOOLEAN
      BY <1>2, SignedOf
    <3>2. Lower[x] = Lower[x.l] \o <<OperatorOf(x)>>
      BY <1>2, LowerOf
    <3>3. PICK f : Builds(X, <<>>, Lower[x.l], <<x.l>>, f)
      BY <1>2, <2>1, <3>1
    <3>4. x = Not(x.l)
      BY <1>2, TreeParts, PredicateNode
    <3>5. <<x.l>> = Append(<<>>, x.l) /\ <<x>> = Append(<<>>, x)
      OBVIOUS
    <3>6. OperatorOf(x) = [op |-> "Not"]
      BY <1>2 DEF OperatorOf
    <3>7. StackStep(X, <<x.l>>, OperatorOf(x), <<x>>)
      BY <1>0, <1>2, <3>4, <3>5, <3>6 DEF StackStep
    <3>8. PICK g : Builds(X, <<x.l>>, <<OperatorOf(x)>>, <<x>>, g)
      BY <1>0, <1>2, <3>7, BuildsOne
    <3>9. Lower[x.l] \in Seq(Lowered) /\ <<OperatorOf(x)>> \in Seq(Lowered)
      BY <1>2, LowerTyped, OperatorLowered
    <3>10. \E h : Builds(X, <<>>, Lower[x.l] \o <<OperatorOf(x)>>, <<x>>, h)
      BY <3>3, <3>8, <3>9, BuildsBoth
    <3>. QED BY Zenon, <3>2, <3>10
  <2>. QED BY <2>1
<1>3. ASSUME NEW x \in Tree, x.node \in {"And", "Or"}, x.l \in Tree, x.l \in P, x.r \in Tree, x.r \in P
      PROVE  x \in P
  <2>1. ASSUME NEW c \in BOOLEAN, \A t \in Signed(x, c) : t.test \in X
        PROVE  \E h : Builds(X, <<>>, Lower[x], <<x>>, h)
    <3>1. Signed(x, c) = Signed(x.l, c) \cup Signed(x.r, c)
      BY <1>3, SignedOf
    <3>2. Lower[x] = (Lower[x.l] \o Lower[x.r]) \o <<OperatorOf(x)>>
      BY <1>3, LowerOf
    <3>3. PICK f : Builds(X, <<>>, Lower[x.l], <<x.l>>, f)
      BY <1>3, <2>1, <3>1
    <3>4. PICK g : Builds(X, <<>>, Lower[x.r], <<x.r>>, g)
      BY <1>3, <2>1, <3>1
    <3>5. /\ Lower[x.l] \in Seq(Lowered) /\ Lower[x.r] \in Seq(Lowered)
          /\ <<OperatorOf(x)>> \in Seq(Lowered)
      BY <1>3, LowerTyped, OperatorLowered
    <3>6. PICK g2 : Builds(X, <<x.l>> \o <<>>, Lower[x.r], <<x.l>> \o <<x.r>>, g2)
      BY <1>3, <3>4, <3>5, BuildsAbove
    <3>7. <<x.l>> \o <<>> = <<x.l>> /\ <<x.l>> \o <<x.r>> = Append(Append(<<>>, x.l), x.r)
      OBVIOUS
    <3>8. PICK h : Builds(X, <<>>, Lower[x.l] \o Lower[x.r], <<x.l>> \o <<x.r>>, h)
      BY <3>3, <3>5, <3>6, <3>7, BuildsBoth
    <3>9. x = [node |-> x.node, l |-> x.l, r |-> x.r]
      BY <1>3, TreeParts, PredicateNode
    <3>10. OperatorOf(x) = [op |-> x.node]
      BY <1>3 DEF OperatorOf
    <3>11. StackStep(X, <<x.l>> \o <<x.r>>, OperatorOf(x), <<x>>)
      <4>1. <<x>> = Append(<<>>, [node |-> x.node, l |-> x.l, r |-> x.r])
        BY <3>9
      <4>. QED BY <1>0, <1>3, <3>7, <3>10, <4>1 DEF StackStep
    <3>12. PICK g3 : Builds(X, <<x.l>> \o <<x.r>>, <<OperatorOf(x)>>, <<x>>, g3)
      <4>1. <<x.l>> \o <<x.r>> \in Seq(Tree)
        BY <1>3
      <4>. QED BY <1>0, <1>3, <3>11, <4>1, BuildsOne
    <3>13. Lower[x.l] \o Lower[x.r] \in Seq(Lowered)
      BY <3>5
    <3>14. \E g4 : Builds(X, <<>>, (Lower[x.l] \o Lower[x.r]) \o <<OperatorOf(x)>>, <<x>>, g4)
      BY <3>5, <3>8, <3>12, <3>13, BuildsBoth
    <3>. QED BY Zenon, <3>2, <3>14
  <2>. QED BY <2>1
<1>4. Tree \subseteq P
  <2>. HIDE DEF P
  <2>. QED BY <1>1, <1>2, <1>3, AllTrees
<1>. QED BY <1>4

-----------------------------------------------------------------------------
(* What a predicate that analyze accepts can be.                            *)

(* The sizes of address blocks.                                             *)
LEMMA PowersOfTwo == \A n \in 0 .. 32 : 2 ^ n \in Nat /\ 2 ^ n > 0
<1>1. ASSUME NEW n \in 0 .. 32
      PROVE
        \/ n = 0 \/ n = 1 \/ n = 2 \/ n = 3 \/ n = 4 \/ n = 5 \/ n = 6 \/ n = 7
        \/ n = 8 \/ n = 9 \/ n = 10 \/ n = 11 \/ n = 12 \/ n = 13 \/ n = 14 \/ n = 15
        \/ n = 16 \/ n = 17 \/ n = 18 \/ n = 19 \/ n = 20 \/ n = 21 \/ n = 22 \/ n = 23
        \/ n = 24 \/ n = 25 \/ n = 26 \/ n = 27 \/ n = 28 \/ n = 29 \/ n = 30 \/ n = 31
        \/ n = 32
  OBVIOUS
<1>2. /\ 2 ^ 0 \in Nat /\ 2 ^ 0 > 0
      /\ 2 ^ 1 \in Nat /\ 2 ^ 1 > 0
      /\ 2 ^ 2 \in Nat /\ 2 ^ 2 > 0
      /\ 2 ^ 3 \in Nat /\ 2 ^ 3 > 0
      /\ 2 ^ 4 \in Nat /\ 2 ^ 4 > 0
      /\ 2 ^ 5 \in Nat /\ 2 ^ 5 > 0
      /\ 2 ^ 6 \in Nat /\ 2 ^ 6 > 0
      /\ 2 ^ 7 \in Nat /\ 2 ^ 7 > 0
      /\ 2 ^ 8 \in Nat /\ 2 ^ 8 > 0
      /\ 2 ^ 9 \in Nat /\ 2 ^ 9 > 0
      /\ 2 ^ 10 \in Nat /\ 2 ^ 10 > 0
      /\ 2 ^ 11 \in Nat /\ 2 ^ 11 > 0
      /\ 2 ^ 12 \in Nat /\ 2 ^ 12 > 0
      /\ 2 ^ 13 \in Nat /\ 2 ^ 13 > 0
      /\ 2 ^ 14 \in Nat /\ 2 ^ 14 > 0
      /\ 2 ^ 15 \in Nat /\ 2 ^ 15 > 0
      /\ 2 ^ 16 \in Nat /\ 2 ^ 16 > 0
      /\ 2 ^ 17 \in Nat /\ 2 ^ 17 > 0
      /\ 2 ^ 18 \in Nat /\ 2 ^ 18 > 0
      /\ 2 ^ 19 \in Nat /\ 2 ^ 19 > 0
      /\ 2 ^ 20 \in Nat /\ 2 ^ 20 > 0
      /\ 2 ^ 21 \in Nat /\ 2 ^ 21 > 0
      /\ 2 ^ 22 \in Nat /\ 2 ^ 22 > 0
      /\ 2 ^ 23 \in Nat /\ 2 ^ 23 > 0
      /\ 2 ^ 24 \in Nat /\ 2 ^ 24 > 0
      /\ 2 ^ 25 \in Nat /\ 2 ^ 25 > 0
      /\ 2 ^ 26 \in Nat /\ 2 ^ 26 > 0
      /\ 2 ^ 27 \in Nat /\ 2 ^ 27 > 0
      /\ 2 ^ 28 \in Nat /\ 2 ^ 28 > 0
      /\ 2 ^ 29 \in Nat /\ 2 ^ 29 > 0
      /\ 2 ^ 30 \in Nat /\ 2 ^ 30 > 0
      /\ 2 ^ 31 \in Nat /\ 2 ^ 31 > 0
      /\ 2 ^ 32 \in Nat /\ 2 ^ 32 > 0
  OBVIOUS
<1>. QED BY Zenon, <1>1, <1>2

Words == {"tcp", "udp", "ipv4", "ipv6", "inbound", "outbound"}

(* The kinds of predicate that analyze accepts.                             *)
LEMMA LegalKinds ==
  ASSUME NEW x \in Predicate, LegalTest(x)
  PROVE  \/ x.node = "packet" /\ x.width \in {1, 2, 4} /\ x.offset \in U16 /\ x.value.low \in Nat
         \/ x.node = "bare" /\ x.field \in Words
         \/ x.node = "eq" /\ x.field = "event" /\ x.value \in {Symbol("open"), Symbol("connect"), Symbol("close")}
         \/ x.node = "eq" /\ x.field = "layer" /\ x.value.symbol \in DOMAIN LayerNamed
         \/ x.node = "eq" /\ x.field \in AddrField /\ IsLiteral(x.value) /\ IsSpelt(x)
              /\ x.value.addr \in Nat /\ x.value.prefix \in 0 .. 32
         \/ x.node = "eq" /\ x.field \in AddrField /\ ~ IsLiteral(x.value) /\ ~ IsSpelt(x)
              /\ x.value.number \in U64
         \/ x.node = "eq" /\ x.field \in Words \cup {"localPort", "remotePort", "processId"}
              /\ x.value.number \in U64
<1>1. CASE x.node = "packet"
  BY <1>1 DEF Predicate, U64
<1>2. CASE x.node = "bare"
  BY <1>2 DEF LegalTest, PacketField, AddrField, Words
<1>3. CASE x.node = "eq"
  <2>2. x.value \in Value
    BY <1>3 DEF Predicate
  <2>3. CASE x.field = "event"
    BY <1>3, <2>3 DEF LegalTest, AddrField, Field, PacketField
  <2>4. CASE x.field = "layer"
    BY <1>3, <2>4 DEF LegalTest, AddrField, Field, PacketField
  <2>5. CASE x.field \in AddrField
    <3>1. ~ IsSymbol(x.value)
      BY <1>3, <2>5 DEF LegalTest, AddrField, Field, PacketField
    <3>2. x.value \in [addr : Nat, prefix : 0 .. 32] \/ x.value \in [number : U64]
      BY <2>2, <3>1 DEF Value, IsSymbol
    <3>3. CASE x.value \in [addr : Nat, prefix : 0 .. 32]
      <4>1. DOMAIN x.value = {"addr", "prefix"}
        BY <3>3
      <4>2. IsLiteral(x.value) /\ IsSpelt(x)
        BY <4>1 DEF IsLiteral, IsSpelt, IsNumber
      <4>. QED BY <1>3, <2>5, <3>3, <4>2
    <3>4. CASE x.value \in [number : U64]
      <4>1. DOMAIN x.value = {"number"}
        BY <3>4
      <4>2. ~ IsLiteral(x.value) /\ ~ IsSpelt(x)
        BY <1>3, <2>5, <4>1 DEF IsLiteral, IsSpelt, IsNumber
      <4>. QED BY <1>3, <2>5, <3>4, <4>2
    <3>. QED BY <3>2, <3>3, <3>4
  <2>6. CASE x.field \notin AddrField \cup {"event", "layer"}
    <3>1. x.field \in Field \ (AddrField \cup {"event", "layer", "packet"}) /\ IsNumber(x.value)
      BY <1>3, <2>6 DEF LegalTest
    <3>2. x.value \in [number : U64]
      BY <2>2, <3>1 DEF Value, IsNumber
    <3>. QED BY <1>3, <3>1, <3>2 DEF Field, PacketField, AddrField, Words
  <2>. QED BY <2>3, <2>4, <2>5, <2>6
<1>. QED BY <1>1, <1>2, <1>3, PredicateNode

(* An address test keeps the bits of its prefix.                            *)
LEMMA NetworkOf ==
  ASSUME NEW addr \in Nat, NEW prefix \in 0 .. 32
  PROVE  Masked(addr, prefix) \in Nat
<1>. DEFINE m == 2 ^ ((32 - prefix) % 32)
<1>1. m \in Nat /\ m > 0
  <2>1. (32 - prefix) % 32 \in 0 .. 32
    OBVIOUS
  <2>. QED BY <2>1, PowersOfTwo
<1>. HIDE DEF m
<1>2. addr - (addr % m) \in Nat
  BY <1>1
<1>3. addr - (addr % (2 ^ ((32 - prefix) % 32))) \in Nat
  BY <1>2 DEF m
<1>. QED BY <1>3 DEF Masked

(* Two addresses with the same bits above a block are in the same block.    *)
LEMMA SameBlock ==
  ASSUME NEW a \in Nat, NEW b \in Nat, NEW m \in Nat, m > 0
  PROVE  (a - (a % m) = b - (b % m)) <=> (a \div m = b \div m)
<1>1. a - (a % m) = m * (a \div m) /\ b - (b % m) = m * (b \div m)
  OBVIOUS
<1>2. a \div m \in Nat /\ b \div m \in Nat
  OBVIOUS
<1>3. ASSUME NEW p \in Nat, NEW q \in Nat, m * p = m * q PROVE p = q
  BY <1>3
<1>4. ASSUME a - (a % m) = b - (b % m) PROVE a \div m = b \div m
  BY <1>1, <1>2, <1>3, <1>4
<1>5. ASSUME a \div m = b \div m PROVE a - (a % m) = b - (b % m)
  BY <1>1, <1>5
<1>. QED BY <1>4, <1>5

(* The values of the tests of the language are those of the opcodes.        *)
LEMMA LayerValues ==
  /\ \A l \in Layer : LayerValue(l) \in 1 .. 5
  /\ \A l \in Layer, m \in Layer : LayerValue(l) = LayerValue(m) <=> l = m
  /\ \A s \in DOMAIN LayerNamed : LayerNamed[s] \in Layer
<1>1. /\ LayerValue("Network") = 1 /\ LayerValue("NetworkForward") = 2 /\ LayerValue("Flow") = 3
      /\ LayerValue("Socket") = 4 /\ LayerValue("Reflect") = 5
  BY DEF LayerValue
<1>2. \A s \in DOMAIN LayerNamed : LayerNamed[s] \in Layer
  BY DEF LayerNamed, Layer
<1>. QED BY <1>1, <1>2 DEF Layer

(* The value of an address as it is spelt.                                  *)
LEMMA LiteralValue ==
  ASSUME NEW field \in AddrField, NEW value, IsLiteral(value)
  PROVE  ValueOf(field, value) =
           [high |-> value.prefix, low |-> Masked(value.addr, value.prefix)]
<1>. DEFINE spelt == [high |-> value.prefix, low |-> Masked(value.addr, value.prefix)]
            opening == Small([open |-> 1, connect |-> 2, close |-> 3][value.symbol])
            named == Small(LayerValue(LayerNamed[value.symbol]))
            number == value.number
<1>1. ValueOf(field, value) =
        CASE field \in AddrField /\ IsLiteral(value) -> spelt
          [] field = "event" -> opening
          [] field = "layer" -> named
          [] OTHER -> number
  BY Zenon DEF ValueOf
<1>. HIDE DEF spelt, opening, named, number
<1>2. field # "event" /\ field # "layer"
  BY DEF AddrField
<1>3. ValueOf(field, value) = spelt
  BY <1>1, <1>2
<1>. QED BY <1>3 DEF spelt

(* The value of a legal field test is of the kind its field has.            *)
LEMMA ValuesTyped ==
  ASSUME NEW x \in Predicate, LegalTest(x), x.node = "eq"
  PROVE  ValueOf(x.field, x.value) \in U64 /\ x.field \in Field
<1>1. CASE x.field = "event" /\ x.value \in {Symbol("open"), Symbol("connect"), Symbol("close")}
  BY <1>1, EventValues, Smalls DEF Field
<1>2. CASE x.field = "layer" /\ x.value.symbol \in DOMAIN LayerNamed
  <2>1. ValueOf(x.field, x.value) = Small(LayerValue(LayerNamed[x.value.symbol]))
    BY <1>2 DEF ValueOf, AddrField
  <2>2. LayerValue(LayerNamed[x.value.symbol]) \in Nat
    BY <1>2, LayerValues
  <2>. QED BY <1>2, <2>1, <2>2, Smalls DEF Field
<1>3. CASE x.field \in AddrField /\ IsLiteral(x.value) /\ x.value.addr \in Nat /\ x.value.prefix \in 0 .. 32
  <2>. DEFINE n == Masked(x.value.addr, x.value.prefix)
  <2>1. ValueOf(x.field, x.value) = [high |-> x.value.prefix, low |-> n]
    BY <1>3, LiteralValue
  <2>2. n \in Nat
    BY <1>3, NetworkOf
  <2>. HIDE DEF n
  <2>. QED BY <1>3, <2>1, <2>2 DEF U64, Field, PacketField
<1>4. CASE x.field \in AddrField /\ ~ IsLiteral(x.value) /\ x.value.number \in U64
  BY <1>4 DEF ValueOf, AddrField, Field, PacketField
<1>5. CASE x.field \in Words \cup {"localPort", "remotePort", "processId"} /\ x.value.number \in U64
  <2>1. ValueOf(x.field, x.value) = x.value.number
    BY <1>5 DEF ValueOf, AddrField, Words
  <2>. QED BY <1>5, <2>1 DEF AddrField, Field, PacketField, Words
<1>. QED BY <1>1, <1>2, <1>3, <1>4, <1>5, LegalKinds

(* The opcode of a legal predicate is one the driver decodes.               *)
LEMMA OpOfTyped ==
  ASSUME NEW x \in Predicate, LegalTest(x)
  PROVE  /\ OpOf(x) \in FieldTests \cup PacketLoads
         /\ OpOf(x).op = IF x.node = "packet" THEN "PacketLoad" ELSE "FieldTest"
         /\ FieldOf(x) \in Field
<1>1. CASE x.node = "packet"
  BY <1>1, LegalKinds DEF OpOf, PacketLoads, FieldOf, Field
<1>2. CASE x.node = "bare"
  BY <1>2, LegalKinds, Smalls DEF OpOf, FieldTests, FieldOf, Field, PacketField, AddrField, Words
<1>3. CASE x.node = "eq"
  <2>1. OpOf(x) = [op |-> "FieldTest", field |-> x.field, value |-> ValueOf(x.field, x.value)]
    BY <1>3 DEF OpOf
  <2>2. OpOf(x) \in FieldTests
    BY <1>3, <2>1, ValuesTyped DEF FieldTests
  <2>. QED BY <1>3, <2>1, <2>2, ValuesTyped DEF FieldOf
<1>. QED BY <1>1, <1>2, <1>3, PredicateNode

(* The layers a predicate asks for are layers.                              *)
LEMMA RequiredTyped ==
  ASSUME NEW x \in Predicate, LegalTest(x), NEW p \in Place
  PROVE  RequiredLayers([test |-> x, place |-> p]) \subseteq Layer
<1>. DEFINE t == [test |-> x, place |-> p]
<1>1. t.test = x /\ t.place = p
  OBVIOUS
<1>2. x.node = "eq" /\ x.field = "layer" => LayerNamed[x.value.symbol] \in Layer
  BY LegalKinds, LayerValues DEF AddrField, Words
<1>. HIDE DEF t
<1>3. RequiredLayers(t) \subseteq Layer
  <2>1. {"Network"} \subseteq Layer /\ {"NetworkForward"} \subseteq Layer /\ {"Socket"} \subseteq Layer
        /\ {"Reflect"} \subseteq Layer /\ NetworkLayer \subseteq Layer /\ {} \subseteq Layer
    BY DEF Layer, NetworkLayer
  <2>2. CASE x.node = "packet"
    BY <1>1, <2>1, <2>2 DEF RequiredLayers
  <2>3. CASE x.node = "bare"
    BY <1>1, <2>1, <2>3 DEF RequiredLayers
  <2>4. CASE x.node = "eq"
    BY <1>1, <1>2, <2>1, <2>4 DEF RequiredLayers, AddrField
  <2>. QED BY <2>2, <2>3, <2>4, PredicateNode
<1>. QED BY <1>3 DEF t

-----------------------------------------------------------------------------
(* What an expression says, by its kind.                                    *)
LEMMA SaysOf ==
  ASSUME NEW x \in Tree, NEW e \in Event
  PROVE  /\ x \in Predicate =>
              Says[x][e] = IF e.layer \in NetworkLayer THEN PacketSays(x, e) ELSE EventSays(x, e)
         /\ x.node = "Not" => Says[x][e] = ~ Says[x.l][e]
         /\ x.node = "And" => Says[x][e] = (Says[x.l][e] /\ Says[x.r][e])
         /\ x.node = "Or" => Says[x][e] = (Says[x.l][e] \/ Says[x.r][e])
         /\ Says[x][e] \in BOOLEAN
<1>1. Says[x][e] =
        CASE x.node = "And" -> Says[x.l][e] /\ Says[x.r][e]
          [] x.node = "Or" -> Says[x.l][e] \/ Says[x.r][e]
          [] x.node = "Not" -> ~ Says[x.l][e]
          [] OTHER -> IF e.layer \in NetworkLayer THEN PacketSays(x, e) ELSE EventSays(x, e)
  BY SaysIs DEF SaysBody
<1>2. CASE x \in Predicate
  <2>1. x.node \in {"bare", "eq", "packet"}
    BY <1>2, PredicateNode
  <2>2. Says[x][e] = IF e.layer \in NetworkLayer THEN PacketSays(x, e) ELSE EventSays(x, e)
    BY <1>1, <2>1
  <2>3. PacketSays(x, e) \in BOOLEAN /\ EventSays(x, e) \in BOOLEAN
    BY Zenon DEF PacketSays, EventSays
  <2>. QED BY <2>1, <2>2, <2>3
<1>3. CASE x.node = "Not"
  <2>1. x \notin Predicate
    BY <1>3, PredicateNode
  <2>2. Says[x][e] = ~ Says[x.l][e]
    BY <1>1, <1>3
  <2>. QED BY <1>3, <2>1, <2>2
<1>4. CASE x.node = "And"
  <2>1. x \notin Predicate
    BY <1>4, PredicateNode
  <2>2. Says[x][e] = (Says[x.l][e] /\ Says[x.r][e])
    BY <1>1, <1>4
  <2>. QED BY <1>4, <2>1, <2>2
<1>5. CASE x.node = "Or"
  <2>1. x \notin Predicate
    BY <1>5, PredicateNode
  <2>2. Says[x][e] = (Says[x.l][e] \/ Says[x.r][e])
    BY <1>1, <1>5
  <2>. QED BY <1>5, <2>1, <2>2
<1>. QED BY <1>2, <1>3, <1>4, <1>5, TreeParts

-----------------------------------------------------------------------------
(* What the opcode of a predicate tests is what the predicate says.         *)

(* What an event carries, by its layer.                                     *)
LEMMA EventParts ==
  ASSUME NEW e \in Event
  PROVE  /\ e.layer \in Layer
         /\ e.layer \in NetworkLayer => e.packet \in Seq(0 .. 255)
         /\ e.layer = "Socket" => e.kind = 2
         /\ e.layer = "Flow" => e.kind = 4
         /\ e.layer = "Reflect" => e.kind \in {1, 3}
<1>1. CASE e \in [layer : NetworkLayer, packet : Seq(0 .. 255)]
  BY <1>1 DEF NetworkLayer, Layer
<1>2. CASE e \notin [layer : NetworkLayer, packet : Seq(0 .. 255)]
  BY <1>2 DEF Event, NetworkLayer, Layer
<1>. QED BY <1>1, <1>2

(* A load yields a number.                                                  *)
LEMMA LoadedTyped ==
  ASSUME NEW p \in Seq(0 .. 255), NEW width \in {1, 2, 4}, NEW offset \in Nat
  PROVE  Loaded(p, width, offset) \subseteq Nat
<1>1. CASE Len(p) < offset + width
  BY <1>1 DEF Loaded
<1>2. CASE ~ (Len(p) < offset + width)
  <2>1. \A k \in 1 .. width : offset + k \in 1 .. Len(p)
    BY <1>2
  <2>2. \A k \in 1 .. width : p[offset + k] \in Nat
    <3>0. \A S : \A q \in Seq(S) : \A j \in 1 .. Len(q) : q[j] \in S
      OBVIOUS
    <3>1. \A j \in 1 .. Len(p) : p[j] \in 0 .. 255
      BY <3>0
    <3>2. \A j \in 1 .. Len(p) : p[j] \in Nat
      <4>1. 0 .. 255 \subseteq Nat
        OBVIOUS
      <4>. QED BY Zenon, <3>1, <4>1
    <3>3. ASSUME NEW k \in 1 .. width, NEW j, j = offset + k PROVE p[j] \in Nat
      BY <2>1, <3>2, <3>3
    <3>. QED BY <3>3
  <2>3. CASE width = 1
    <3>1. Loaded(p, width, offset) = {p[offset + 1]}
      BY <1>2, <2>3 DEF Loaded
    <3>. QED BY <2>2, <2>3, <3>1
  <2>4. CASE width = 2
    <3>1. Loaded(p, width, offset) = {256 * p[offset + 1] + p[offset + 2]}
      BY <1>2, <2>4 DEF Loaded
    <3>. QED BY <2>2, <2>4, <3>1
  <2>5. CASE width = 4
    <3>1. Loaded(p, width, offset) =
            {256 * (256 * (256 * p[offset + 1] + p[offset + 2]) + p[offset + 3]) + p[offset + 4]}
      BY <1>2, <2>5 DEF Loaded
    <3>2. PICK a \in Nat, b \in Nat, c \in Nat, d \in Nat :
            /\ a = p[offset + 1] /\ b = p[offset + 2]
            /\ c = p[offset + 3] /\ d = p[offset + 4]
      <4>1. 1 \in 1 .. width /\ 2 \in 1 .. width /\ 3 \in 1 .. width /\ 4 \in 1 .. width
        BY <2>5
      <4>. QED BY Zenon, <2>2, <4>1
    <3>3. Loaded(p, width, offset) = {256 * (256 * (256 * a + b) + c) + d}
      BY Zenon, <3>1, <3>2
    <3>. QED BY <3>3
  <2>. QED BY <2>3, <2>4, <2>5
<1>. QED BY <1>1, <1>2

(* The comparison of networks is the question for the block.                *)
LEMMA BlockTest ==
  ASSUME NEW a \in Nat, NEW literal, literal.addr \in Nat, literal.prefix \in 0 .. 32
  PROVE  Masked(literal.addr, literal.prefix) = Masked(a, literal.prefix) <=> InBlock(a, literal)
<1>1. CASE literal.prefix = 0
  BY <1>1 DEF InBlock, Masked
<1>2. CASE literal.prefix # 0
  <2>. DEFINE m == 2 ^ (32 - literal.prefix)
  <2>0. (32 - literal.prefix) % 32 = 32 - literal.prefix /\ 32 - literal.prefix \in 0 .. 32
    BY <1>2
  <2>1. m \in Nat /\ m > 0
    BY <2>0, PowersOfTwo
  <2>2. InBlock(a, literal) <=> a \div m = literal.addr \div m
    BY <1>2 DEF InBlock
  <2>3. \A b : Masked(b, literal.prefix) = b - (b % m)
    BY <1>2, <2>0 DEF Masked
  <2>. HIDE DEF m
  <2>4. (literal.addr - (literal.addr % m) = a - (a % m)) <=> a \div m = literal.addr \div m
    BY <2>1, SameBlock
  <2>. QED BY <2>2, <2>3, <2>4
<1>. QED BY <1>1, <1>2

(* What is at an end of a packet.                                           *)
LEMMA AtEnd ==
  ASSUME NEW e, NEW end \in {"local", "remote"}, NEW S, NEW D, NEW s, NEW d
  PROVE  \/ Ends(e.layer, S, D)[end] = S /\ OfEnd(e, end, s, d) = s
         \/ Ends(e.layer, S, D)[end] = D /\ OfEnd(e, end, s, d) = d
<1>1. CASE end = "local" /\ e.layer = "Network"
  BY <1>1 DEF Ends, OfEnd
<1>2. CASE end = "local" /\ e.layer # "Network"
  BY <1>2 DEF Ends, OfEnd
<1>3. CASE end = "remote" /\ e.layer = "Network"
  BY <1>3 DEF Ends, OfEnd
<1>4. CASE end = "remote" /\ e.layer # "Network"
  BY <1>4 DEF Ends, OfEnd
<1>. QED BY <1>1, <1>2, <1>3, <1>4

(* The addresses of a packet that has them.                                 *)
LEMMA AddrsAre ==
  ASSUME NEW p \in Seq(0 .. 255), Len(p) >= 20
  PROVE  /\ Loaded(p, 4, 12) = {Long(SubSeq(p, 13, 16))} /\ Long(SubSeq(p, 13, 16)) \in Nat
         /\ Loaded(p, 4, 16) = {Long(SubSeq(p, 17, 20))} /\ Long(SubSeq(p, 17, 20)) \in Nat
<1>1. Len(p) \in Nat /\ ~ (Len(p) < 12 + 4) /\ ~ (Len(p) < 16 + 4)
  OBVIOUS
<1>. DEFINE s == SubSeq(p, 13, 16)
            d == SubSeq(p, 17, 20)
<1>2. s[1] = p[13] /\ s[2] = p[14] /\ s[3] = p[15] /\ s[4] = p[16]
  BY <1>1
<1>3. d[1] = p[17] /\ d[2] = p[18] /\ d[3] = p[19] /\ d[4] = p[20]
  BY <1>1
<1>4. Loaded(p, 4, 12) \subseteq Nat /\ Loaded(p, 4, 16) \subseteq Nat
  BY LoadedTyped
<1>. HIDE DEF s, d
<1>5. Loaded(p, 4, 12) = {256 * (256 * (256 * p[13] + p[14]) + p[15]) + p[16]}
  <2>1. 12 + 1 = 13 /\ 12 + 2 = 14 /\ 12 + 3 = 15 /\ 12 + 4 = 16
    OBVIOUS
  <2>. QED BY <1>1, <2>1 DEF Loaded
<1>6. Loaded(p, 4, 16) = {256 * (256 * (256 * p[17] + p[18]) + p[19]) + p[20]}
  <2>1. 16 + 1 = 17 /\ 16 + 2 = 18 /\ 16 + 3 = 19 /\ 16 + 4 = 20
    OBVIOUS
  <2>. QED BY <1>1, <2>1 DEF Loaded
<1>7. Long(s) = 256 * (256 * (256 * p[13] + p[14]) + p[15]) + p[16]
  BY Zenon, <1>2 DEF Long
<1>8. Long(d) = 256 * (256 * (256 * p[17] + p[18]) + p[19]) + p[20]
  BY Zenon, <1>3 DEF Long
<1>9. Loaded(p, 4, 12) = {Long(s)} /\ Loaded(p, 4, 16) = {Long(d)}
  BY Zenon, <1>5, <1>6, <1>7, <1>8
<1>. QED BY <1>4, <1>9 DEF s, d

(* An address test on a packet.                                             *)
LEMMA AddrTestMeans ==
  ASSUME NEW e \in Event, e.layer \in NetworkLayer, NEW end \in {"local", "remote"},
         NEW field \in AddrField, NEW literal, IsLiteral(literal),
         literal.addr \in Nat, literal.prefix \in 0 .. 32
  PROVE  AddrMatches(e.layer, e.packet, end, ValueOf(field, literal)) <=> AddrSays(e, end, literal)
<1>. DEFINE n == Masked(literal.addr, literal.prefix)
            v == ValueOf(field, literal)
            s == Long(SubSeq(e.packet, 13, 16))
            d == Long(SubSeq(e.packet, 17, 20))
            a == OfEnd(e, end, s, d)
<1>1. v.low = n /\ Prefix(v) = literal.prefix
  <2>1. v = [high |-> literal.prefix, low |-> n]
    BY LiteralValue
  <2>2. v.low = n /\ v.high = literal.prefix
    BY <2>1
  <2>. HIDE DEF v, n
  <2>. QED BY <2>2 DEF Prefix
<1>. HIDE DEF v
<1>2. CASE ~ (IsVersion(e.packet, 4) /\ Len(e.packet) >= 20)
  BY Zenon, <1>2 DEF AddrMatches, AddrSays, HasAddrs, v
<1>3. CASE IsVersion(e.packet, 4) /\ Len(e.packet) >= 20
  <2>1. /\ Loaded(e.packet, 4, 12) = {s} /\ s \in Nat
        /\ Loaded(e.packet, 4, 16) = {d} /\ d \in Nat
    BY <1>3, EventParts, AddrsAre
  <2>2. AddrSays(e, end, literal) <=> InBlock(a, literal)
    BY Zenon, <1>3 DEF AddrSays
  <2>. DEFINE S == Loaded(e.packet, 4, 12)
              D == Loaded(e.packet, 4, 16)
              A == Ends(e.layer, S, D)[end]
  <2>3. A = {a} /\ a \in Nat
    <3>1. S = {s} /\ s \in Nat /\ D = {d} /\ d \in Nat
      BY <2>1
    <3>. HIDE DEF s, d, S, D
    <3>. QED BY <3>1, AtEnd
  <2>. HIDE DEF a, n
  <2>4. AddrMatches(e.layer, e.packet, end, v) <=> v.low = Masked(a, Prefix(v))
    <3>1. AddrMatches(e.layer, e.packet, end, v) <=> \E addr \in A : v.low = Masked(addr, Prefix(v))
      BY Zenon, <1>3 DEF AddrMatches, HasAddrs
    <3>. HIDE DEF A
    <3>. QED BY Zenon, <2>3, <3>1
  <2>5. n = Masked(a, literal.prefix) <=> InBlock(a, literal)
    BY <2>3, BlockTest DEF n
  <2>6. v.low = Masked(a, Prefix(v)) <=> n = Masked(a, literal.prefix)
    BY Zenon, <1>1
  <2>. QED BY Zenon, <2>2, <2>4, <2>5, <2>6 DEF v
<1>. QED BY <1>2, <1>3

(* The header behind the IP header begins where the evaluator looks for it. *)
LEMMA TransportIs ==
  ASSUME NEW p \in Seq(0 .. 255), IsProtocol(p, 6) \/ IsProtocol(p, 17)
  PROVE  /\ PortsAt(p) \in Nat /\ Transport(p) = SubSeq(p, PortsAt(p) + 1, Len(p))
<1>1. p[1] \in 0 .. 255
  <2>1. IsVersion(p, 4) \/ IsVersion(p, 6)
    BY Zenon DEF IsProtocol
  <2>2. Len(p) > 0
    BY Zenon, <2>1 DEF IsVersion
  <2>3. \A S : \A q \in Seq(S) : Len(q) > 0 => q[1] \in S
    OBVIOUS
  <2>. QED BY <2>2, <2>3
<1>2. CASE IsVersion(p, 4)
  <2>1. p[1] \div 16 = 4
    BY <1>2 DEF IsVersion
  <2>2. p[1] % 16 = p[1] - 64 /\ 4 * (p[1] - 64) \in Nat
    <3>1. ASSUME NEW b \in Nat, b \div 16 = 4 PROVE b % 16 = b - 64 /\ 4 * (b - 64) \in Nat
      <4>1. b - (b % 16) = 16 * (b \div 16) /\ b % 16 \in Nat
        OBVIOUS
      <4>. QED BY <3>1, <4>1
    <3>2. p[1] \in Nat
      <4>1. 0 .. 255 \subseteq Nat
        OBVIOUS
      <4>. QED BY Zenon, <1>1, <4>1
    <3>. QED BY Zenon, <2>1, <3>1, <3>2
  <2>. QED BY <1>2, <2>2 DEF PortsAt, Transport
<1>3. CASE ~ IsVersion(p, 4)
  <2>1. 40 + 1 = 41
    OBVIOUS
  <2>. QED BY <1>3, <2>1 DEF PortsAt, Transport
<1>. QED BY <1>2, <1>3

(* The ports of a packet that has both.                                     *)
PortAt(t, k) == 256 * t[k] + t[k + 1]

LEMMA PortsAre ==
  ASSUME NEW p \in Seq(0 .. 255), NEW h \in Nat, Len(p) >= h + 4, NEW t, t = SubSeq(p, h + 1, Len(p))
  PROVE  Loaded(p, 2, h) = {PortAt(t, 1)} /\ Loaded(p, 2, h + 2) = {PortAt(t, 3)}
<1>1. Len(p) \in Nat /\ ~ (Len(p) < h + 2) /\ ~ (Len(p) < (h + 2) + 2)
  OBVIOUS
<1>2. t[1] = p[h + 1] /\ t[2] = p[h + 2] /\ t[3] = p[(h + 2) + 1] /\ t[4] = p[(h + 2) + 2]
  BY <1>1
<1>3. Loaded(p, 2, h) = {256 * p[h + 1] + p[h + 2]}
  BY <1>1 DEF Loaded
<1>4. Loaded(p, 2, h + 2) = {256 * p[(h + 2) + 1] + p[(h + 2) + 2]}
  BY <1>1 DEF Loaded
<1>5. PortAt(t, 1) = 256 * t[1] + t[2] /\ PortAt(t, 3) = 256 * t[3] + t[4]
  <2>1. 1 + 1 = 2 /\ 3 + 1 = 4
    OBVIOUS
  <2>. QED BY Zenon, <2>1 DEF PortAt
<1>. QED BY Zenon, <1>2, <1>3, <1>4, <1>5

(* A port test on a packet.                                                 *)
LEMMA PortTestMeans ==
  ASSUME NEW e \in Event, e.layer \in NetworkLayer, NEW end \in {"local", "remote"}, NEW value
  PROVE  PortIs(e.layer, e.packet, end, value) <=> PortSays(e, end, value)
<1>. DEFINE p == e.packet
            t == Transport(p)
            h == PortsAt(p)
            s == PortAt(t, 1)
            d == PortAt(t, 3)
<1>0. p \in Seq(0 .. 255)
  BY EventParts
<1>1. CASE ~ (IsProtocol(p, 6) \/ IsProtocol(p, 17))
  <2>1. Ports(e.layer, p)[end] = {}
    BY <1>1, AtEnd DEF Ports
  <2>. QED BY <1>1, <2>1 DEF PortIs, PortSays
<1>2. CASE IsProtocol(p, 6) \/ IsProtocol(p, 17)
  <2>1. h \in Nat /\ t = SubSeq(p, h + 1, Len(p))
    BY <1>0, <1>2, TransportIs
  <2>2. PortSays(e, end, value) <=> Len(t) >= 4 /\ value = Small(OfEnd(e, end, s, d))
    BY <1>2 DEF PortSays, PortAt
  <2>3. Ports(e.layer, p)[end] = Ends(e.layer, Loaded(p, 2, h), Loaded(p, 2, h + 2))[end]
    BY Zenon, <1>2 DEF Ports
  <2>4. PortIs(e.layer, p, end, value) <=>
          Len(p) >= h + 4 /\ \E port \in Ports(e.layer, p)[end] : value = Small(port)
    BY Zenon DEF PortIs
  <2>. HIDE DEF p, t, h
  <2>5. Len(t) >= 4 <=> Len(p) >= h + 4
    BY <1>0, <2>1
  <2>6. CASE Len(p) >= h + 4
    <3>1. Loaded(p, 2, h) = {s} /\ Loaded(p, 2, h + 2) = {d}
      BY <1>0, <2>1, <2>6, PortsAre
    <3>. DEFINE S == Loaded(p, 2, h)
                D == Loaded(p, 2, h + 2)
                a == OfEnd(e, end, s, d)
    <3>2. Ends(e.layer, S, D)[end] = {a}
      <4>1. S = {s} /\ D = {d}
        BY <3>1
      <4>. HIDE DEF S, D, s, d
      <4>. QED BY <4>1, AtEnd
    <3>3. Ports(e.layer, p)[end] = {a}
      BY Zenon, <2>3, <3>2
    <3>4. PortIs(e.layer, p, end, value) <=> value = Small(a)
      BY Zenon, <2>4, <2>6, <3>3
    <3>. QED BY Zenon, <2>2, <2>5, <2>6, <3>4 DEF p
  <2>7. CASE ~ (Len(p) >= h + 4)
    BY Zenon, <2>2, <2>4, <2>5, <2>7 DEF p
  <2>. QED BY <2>6, <2>7
<1>. QED BY <1>1, <1>2

(* A packet load.                                                           *)
LEMMA LoadMeans ==
  ASSUME NEW x \in Predicate, x.node = "packet", NEW e \in Event, SupportsOp(e.layer, OpOf(x))
  PROVE  e.layer \in NetworkLayer /\ (Tests(e, OpOf(x)) <=> PacketSays(x, e))
<1>1. OpOf(x) = [op |-> "PacketLoad", width |-> x.width, offset |-> x.offset, value |-> x.value.low]
  BY DEF OpOf
<1>2. e.layer \in NetworkLayer
  BY <1>1 DEF SupportsOp
<1>3. Tests(e, OpOf(x)) <=> x.value.low \in Loaded(e.packet, x.width, x.offset)
  BY <1>1 DEF Tests
<1>4. PacketSays(x, e) <=> x.value.low \in Loaded(e.packet, x.width, x.offset)
  BY DEF PacketSays
<1>. QED BY <1>2, <1>3, <1>4

(* A field test on a packet.                                                *)
LEMMA PacketTestMeans ==
  ASSUME NEW x \in Predicate, LegalTest(x), IsSpelt(x), x.node # "packet",
         NEW e \in Event, e.layer \in NetworkLayer, SupportsOp(e.layer, OpOf(x))
  PROVE  Tests(e, OpOf(x)) <=> PacketSays(x, e)
<1>1. CASE x.node = "bare"
  <2>1. OpOf(x) = [op |-> "FieldTest", field |-> x.field, value |-> Small(1)] /\ x.field \in Words
    BY <1>1, LegalKinds DEF OpOf
  <2>2. Tests(e, OpOf(x)) <=> PacketTest(e.layer, e.packet, x.field, Small(1))
    BY <2>1 DEF Tests
  <2>0. \A holds \in BOOLEAN : Is(Small(1), holds) <=> holds
    BY Smalls DEF Is
  <2>3. PacketTest(e.layer, e.packet, x.field, Small(1)) <=> Holds(x.field, e)
    BY <2>0, <2>1 DEF PacketTest, Holds, Words, IsProtocol, IsVersion
  <2>4. PacketSays(x, e) <=> Holds(x.field, e)
    BY <1>1 DEF PacketSays
  <2>. QED BY <2>2, <2>3, <2>4
<1>2. CASE x.node = "eq"
  <2>. DEFINE v == ValueOf(x.field, x.value)
  <2>1. OpOf(x) = [op |-> "FieldTest", field |-> x.field, value |-> v]
    BY <1>2 DEF OpOf
  <2>2. Tests(e, OpOf(x)) <=> PacketTest(e.layer, e.packet, x.field, v)
    BY <2>1 DEF Tests
  <2>3. x.field \in SupportedFields(e.layer) /\ (x.field = "layer" => v = Small(LayerValue(e.layer)))
    BY <2>1 DEF SupportsOp
  <2>4. x.field \in PacketField \cup {"packet", "layer"}
    BY <2>3 DEF SupportedFields, NetworkLayer
  <2>5. CASE x.field = "layer" /\ x.value.symbol \in DOMAIN LayerNamed
    <3>1. v = Small(LayerValue(LayerNamed[x.value.symbol]))
      BY <2>5 DEF ValueOf, AddrField
    <3>2. LayerNamed[x.value.symbol] = e.layer
      BY <2>3, <2>5, <3>1, LayerValues, Smalls, EventParts
    <3>3. PacketSays(x, e)
      BY <1>2, <2>5, <3>2 DEF PacketSays
    <3>4. PacketTest(e.layer, e.packet, x.field, v)
      BY <2>3, <2>5 DEF PacketTest
    <3>. QED BY <2>2, <3>3, <3>4
  <2>6. CASE x.field \in AddrField /\ IsLiteral(x.value) /\ x.value.addr \in Nat /\ x.value.prefix \in 0 .. 32
    <3>. DEFINE end == IF x.field = "localAddr" THEN "local" ELSE "remote"
    <3>1. PacketTest(e.layer, e.packet, x.field, v) <=> AddrMatches(e.layer, e.packet, end, v)
      <4>. HIDE DEF v
      <4>. QED BY <2>6 DEF PacketTest, AddrField
    <3>2. PacketSays(x, e) <=> AddrSays(e, end, x.value)
      BY <1>2, <2>6 DEF PacketSays, AddrField
    <3>3. AddrMatches(e.layer, e.packet, end, v) <=> AddrSays(e, end, x.value)
      BY <2>6, AddrTestMeans
    <3>. HIDE DEF end, v
    <3>. QED BY <2>2, <3>1, <3>2, <3>3
  <2>7. CASE x.field \in Words \cup {"localPort", "remotePort"} /\ x.value.number \in U64
    <3>1. v = x.value.number
      BY <2>7 DEF ValueOf, AddrField, Words
    <3>2. CASE x.field = "localPort"
      <4>1. PacketTest(e.layer, e.packet, x.field, v) <=> PortIs(e.layer, e.packet, "local", v)
        BY <3>2 DEF PacketTest
      <4>2. PacketSays(x, e) <=> PortSays(e, "local", x.value.number)
        BY <1>2, <3>2 DEF PacketSays
      <4>3. PortIs(e.layer, e.packet, "local", v) <=> PortSays(e, "local", v)
        BY PortTestMeans
      <4>. QED BY <2>2, <3>1, <4>1, <4>2, <4>3
    <3>3. CASE x.field = "remotePort"
      <4>1. PacketTest(e.layer, e.packet, x.field, v) <=> PortIs(e.layer, e.packet, "remote", v)
        BY <3>3 DEF PacketTest
      <4>2. PacketSays(x, e) <=> PortSays(e, "remote", x.value.number)
        BY <1>2, <3>3 DEF PacketSays
      <4>3. PortIs(e.layer, e.packet, "remote", v) <=> PortSays(e, "remote", v)
        BY PortTestMeans
      <4>. QED BY <2>2, <3>1, <4>1, <4>2, <4>3
    <3>4. CASE x.field \in Words
      <4>1. PacketTest(e.layer, e.packet, x.field, x.value.number) <=>
              x.value.number = Small(IF Holds(x.field, e) THEN 1 ELSE 0)
        BY <3>4 DEF PacketTest, Holds, Words, Is, NetworkLayer
      <4>2. PacketSays(x, e) <=> x.value.number = Small(IF Holds(x.field, e) THEN 1 ELSE 0)
        BY <1>2, <3>4 DEF PacketSays, Words
      <4>. QED BY <2>2, <3>1, <4>1, <4>2
    <3>. QED BY <2>7, <3>2, <3>3, <3>4
  <2>. QED BY <1>2, <2>4, <2>5, <2>6, <2>7, LegalKinds DEF PacketField, AddrField, Words
<1>. QED BY <1>1, <1>2, PredicateNode

(* A field test on an event.                                                *)
LEMMA EventTestMeans ==
  ASSUME NEW x \in Predicate, LegalTest(x), x.node # "packet",
         NEW e \in Event, e.layer \notin NetworkLayer, SupportsOp(e.layer, OpOf(x))
  PROVE  Tests(e, OpOf(x)) <=> EventSays(x, e)
<1>0. /\ e.layer \in {"Flow", "Socket", "Reflect"}
      /\ SupportedFields(e.layer) \subseteq {"event", "processId", "layer"}
  BY EventParts DEF Layer, NetworkLayer, SupportedFields
<1>1. x.node = "eq"
  <2>1. ASSUME x.node = "bare" PROVE FALSE
    <3>1. OpOf(x) = [op |-> "FieldTest", field |-> x.field, value |-> Small(1)] /\ x.field \in Words
      BY <2>1, LegalKinds DEF OpOf
    <3>2. x.field \in {"event", "processId", "layer"}
      BY <1>0, <3>1 DEF SupportsOp
    <3>. QED BY <3>1, <3>2 DEF Words
  <2>. QED BY <2>1, PredicateNode
<1>. DEFINE v == ValueOf(x.field, x.value)
<1>2. OpOf(x) = [op |-> "FieldTest", field |-> x.field, value |-> v]
  BY <1>1 DEF OpOf
<1>3. Tests(e, OpOf(x)) <=> EventTest(e, x.field, v)
  BY <1>2 DEF Tests
<1>4. /\ x.field \in {"event", "processId", "layer"}
      /\ x.field = "layer" => v = Small(LayerValue(e.layer))
      /\ x.field = "event" => v \in {Small(code) : code \in EventCodes(e.layer)}
  BY <1>0, <1>2 DEF SupportsOp
<1>5. CASE x.field = "layer"
  <2>0. x.value.symbol \in DOMAIN LayerNamed
    BY <1>1, <1>5, LegalKinds DEF AddrField, Words
  <2>1. v = Small(LayerValue(LayerNamed[x.value.symbol]))
    BY <1>5 DEF ValueOf, AddrField
  <2>2. LayerNamed[x.value.symbol] = e.layer
    BY <1>4, <1>5, <2>0, <2>1, LayerValues, Smalls, EventParts
  <2>3. EventSays(x, e)
    BY <1>1, <1>5, <2>2 DEF EventSays
  <2>4. EventTest(e, x.field, v)
    BY <1>4, <1>5 DEF EventTest
  <2>. QED BY <1>3, <2>3, <2>4
<1>6. CASE x.field = "processId"
  <2>1. v = x.value.number
    BY <1>6 DEF ValueOf, AddrField
  <2>2. EventSays(x, e) <=> \E id \in e.process_id : x.value.number = Small(id)
    BY <1>1, <1>6 DEF EventSays
  <2>3. EventTest(e, x.field, v) <=> \E id \in e.process_id : v = Small(id)
    BY <1>6 DEF EventTest
  <2>. QED BY <1>3, <2>1, <2>2, <2>3
<1>7. CASE x.field = "event"
  <2>0. x.value \in {Symbol("open"), Symbol("connect"), Symbol("close")}
    BY <1>1, <1>7, LegalKinds DEF AddrField, Words
  <2>1. PICK code \in EventCodes(e.layer) : v = Small(code)
    BY <1>4, <1>7
  <2>2. EventTest(e, x.field, v) <=> code = e.kind
    BY <1>7, <2>1, Smalls DEF EventTest
  <2>3. Symbol("open") # Symbol("connect") /\ Symbol("open") # Symbol("close") /\ Symbol("connect") # Symbol("close")
    <3>1. \A s : Symbol(s).symbol = s
      BY DEF Symbol
    <3>. QED BY <3>1
  <2>4. EventCodes(e.layer) = IF e.layer = "Socket" THEN {2} ELSE IF e.layer = "Flow" THEN {4} ELSE {1, 3}
    BY <1>0 DEF EventCodes, NetworkLayer
  <2>5. CASE x.value = Symbol("open")
    <3>1. code = 1
      BY <1>7, <2>1, <2>5, EventValues, Smalls
    <3>2. e.layer = "Reflect"
      BY <1>0, <2>4, <3>1
    <3>3. EventSays(x, e) <=> e.kind = 1
      BY <1>1, <1>7, <2>3, <2>5, <3>2 DEF EventSays
    <3>. QED BY <1>3, <2>2, <3>1, <3>3
  <2>6. CASE x.value = Symbol("close")
    <3>1. code = 3
      BY <1>7, <2>1, <2>6, EventValues, Smalls
    <3>2. e.layer = "Reflect"
      BY <1>0, <2>4, <3>1
    <3>3. EventSays(x, e) <=> e.kind = 3
      BY <1>1, <1>7, <2>3, <2>6, <3>2 DEF EventSays
    <3>. QED BY <1>3, <2>2, <3>1, <3>3
  <2>7. CASE x.value = Symbol("connect")
    <3>1. code = 2
      BY <1>7, <2>1, <2>7, EventValues, Smalls
    <3>2. e.layer = "Socket"
      BY <1>0, <2>4, <3>1
    <3>3. EventSays(x, e)
      BY <1>1, <1>7, <2>3, <2>7, <3>2 DEF EventSays
    <3>. QED BY <1>3, <2>2, <3>1, <3>2, <3>3, EventParts
  <2>. QED BY <2>0, <2>5, <2>6, <2>7
<1>. QED BY <1>4, <1>5, <1>6, <1>7

(* So every test of a compiled program means its predicate.                 *)
LEMMA TestMeans ==
  ASSUME NEW x \in Predicate, LegalTest(x), IsSpelt(x), NEW e \in Event, SupportsOp(e.layer, OpOf(x))
  PROVE  Tests(e, OpOf(x)) = Says[x][e]
<1>1. x \in Tree
  BY PredicatesAreTrees, DepthsAre DEF Tree
<1>2. Says[x][e] = IF e.layer \in NetworkLayer THEN PacketSays(x, e) ELSE EventSays(x, e)
  BY <1>1, SaysOf
<1>3. Tests(e, OpOf(x)) \in BOOLEAN /\ Says[x][e] \in BOOLEAN
  BY <1>1, TestsBoolean, SaysOf
<1>4. Tests(e, OpOf(x)) <=> IF e.layer \in NetworkLayer THEN PacketSays(x, e) ELSE EventSays(x, e)
  <2>1. CASE x.node = "packet"
    BY <2>1, LoadMeans
  <2>2. CASE x.node # "packet"
    BY <2>2, PacketTestMeans, EventTestMeans
  <2>. QED BY <2>1, <2>2
<1>. QED BY <1>2, <1>3, <1>4

(* A literal never has a prefix that is too long.                           *)
LEMMA SpeltIsNarrow ==
  ASSUME NEW x \in Predicate, LegalTest(x), IsSpelt(x)
  PROVE  ~ IsWideAddr(OpOf(x))
<1>1. ASSUME x.node = "eq", x.field \in AddrField PROVE ~ IsWideAddr(OpOf(x))
  <2>1. IsLiteral(x.value) /\ x.value.prefix \in 0 .. 32
    BY <1>1, LegalKinds DEF AddrField, Words
  <2>. DEFINE v == ValueOf(x.field, x.value)
              n == Masked(x.value.addr, x.value.prefix)
  <2>2. v = [high |-> x.value.prefix, low |-> n]
    BY <1>1, <2>1, LiteralValue
  <2>3. v.high = x.value.prefix
    BY <2>2
  <2>4. OpOf(x) = [op |-> "FieldTest", field |-> x.field, value |-> v]
    BY <1>1 DEF OpOf
  <2>. HIDE DEF v
  <2>5. OpOf(x).value = v
    BY <2>4
  <2>. QED BY <2>1, <2>3, <2>5 DEF IsWideAddr, Prefix
<1>2. ASSUME ~ (x.node = "eq" /\ x.field \in AddrField) PROVE ~ IsWideAddr(OpOf(x))
  <2>1. CASE x.node = "packet"
    BY <2>1 DEF OpOf, IsWideAddr
  <2>2. CASE x.node = "bare"
    BY <2>2, LegalKinds DEF OpOf, IsWideAddr, Words, AddrField
  <2>3. CASE x.node = "eq"
    <3>1. OpOf(x).field = x.field
      BY <2>3 DEF OpOf
    <3>. QED BY <1>2, <2>3, <3>1 DEF IsWideAddr
  <2>. QED BY <2>1, <2>2, <2>3, PredicateNode
<1>. QED BY <1>1, <1>2

-----------------------------------------------------------------------------
(* The stacks of expressions of a compiled filter.                          *)

TestsIn(e) == {t.test : t \in Signed(e, TRUE)}

Held(e) == CHOOSE h : Builds(TestsIn(e), <<>>, Lower[e], <<e>>, h)

(* The tests of a filter, as far as analyze and validate_ir saw to them.    *)
LEMMA TestsInAre ==
  ASSUME NEW e \in Tree
  PROVE  /\ TestsIn(e) \subseteq Predicate
         /\ Legal(e) => \A x \in TestsIn(e) : LegalTest(x)
         /\ HasMeaning(e) => \A x \in TestsIn(e) : IsSpelt(x)
         /\ \A l \in Layer : ValidIr(l, Compiled(e)) => \A x \in TestsIn(e) : SupportsOp(l, OpOf(x))
<1>1. ASSUME NEW s \in Signed(e, TRUE) PROVE s.test \in Predicate
  BY SignedTests, TestsTyped, TopIsAlone
<1>2. Legal(e) => \A s \in Signed(e, TRUE) : LegalTest(s.test)
  BY LegalIs
<1>3. \A l \in Layer : ValidIr(l, Compiled(e)) => \A s \in Signed(e, TRUE) : SupportsOp(l, OpOf(s.test))
  BY ValidIs
<1>4. HasMeaning(e) => \A s \in Signed(e, TRUE) : IsSpelt(s.test)
  <2>1. ASSUME HasMeaning(e), NEW s \in Signed(e, TRUE) PROVE IsSpelt(s.test)
    <3>1. PICK t \in TestsOf[e][TopPlace] : s.test = t.test
      BY SignedTests
    <3>. QED BY <2>1, <3>1 DEF HasMeaning
  <2>. QED BY <2>1
<1>. QED BY <1>1, <1>2, <1>3, <1>4 DEF TestsIn

(* The program of an expression has such stacks.                            *)
LEMMA HeldBuilds ==
  ASSUME NEW e \in Tree
  PROVE  Builds(TestsIn(e), <<>>, Lower[e], <<e>>, Held(e))
<1>1. TestsIn(e) \subseteq Tree
  BY TestsInAre, PredicatesAreTrees, DepthsAre DEF Tree
<1>2. \A t \in Signed(e, TRUE) : t.test \in TestsIn(e)
  BY DEF TestsIn
<1>3. TRUE \in BOOLEAN
  OBVIOUS
<1>4. \E h : Builds(TestsIn(e), <<>>, Lower[e], <<e>>, h)
  BY <1>1, <1>2, <1>3, LowerBuilds
<1>. QED BY <1>4 DEF Held

(* The stacks before, between and after its opcodes.                        *)
LEMMA HeldAt ==
  ASSUME NEW e \in Tree
  PROVE  /\ Len(Lower[e]) \in Nat
         /\ Held(e)[0] = <<>> /\ Held(e)[Len(Lower[e])] = <<e>>
         /\ \A k \in 0 .. Len(Lower[e]) : Held(e)[k] \in Seq(Tree)
         /\ \A k \in 1 .. Len(Lower[e]) :
              /\ StackStep(TestsIn(e), Held(e)[k - 1], Lower[e][k], Held(e)[k])
              /\ Held(e)[k - 1] \in Seq(Tree) /\ Held(e)[k] \in Seq(Tree)
<1>1. Lower[e] \in Seq(Lowered)
  BY LowerTyped
<1>2. Len(Lower[e]) \in Nat
  BY <1>1
<1>3. /\ Held(e) \in [0 .. Len(Lower[e]) -> Seq(Tree)]
      /\ Held(e)[0] = <<>> /\ Held(e)[Len(Lower[e])] = <<e>>
      /\ \A k \in 1 .. Len(Lower[e]) : StackStep(TestsIn(e), Held(e)[k - 1], Lower[e][k], Held(e)[k])
  BY HeldBuilds DEF Builds
<1>4. \A k \in 0 .. Len(Lower[e]) : Held(e)[k] \in Seq(Tree)
  BY <1>3
<1>5. \A k \in 1 .. Len(Lower[e]) : k - 1 \in 0 .. Len(Lower[e]) /\ k \in 0 .. Len(Lower[e])
  BY <1>2
<1>. QED BY <1>2, <1>3, <1>4, <1>5

(* The program of an expression ends, and begins.                           *)
LEMMA LowerNotEmpty == ASSUME NEW e \in Tree PROVE Len(Lower[e]) \in Nat /\ Len(Lower[e]) > 0
<1>1. Len(Lower[e]) # 0
  <2>1. ASSUME Len(Lower[e]) = 0 PROVE FALSE
    <3>1. <<>> = <<e>>
      BY <2>1, HeldAt
    <3>. QED BY <3>1
  <2>. QED BY <2>1
<1>. QED BY <1>1, HeldAt

(* Such a step takes an opcode the driver decodes.                          *)
LEMMA StepOpcode ==
  ASSUME NEW X, X \subseteq Predicate, \A x \in X : LegalTest(x), NEW s, NEW t, NEW op,
         StackStep(X, s, op, t)
  PROVE  op \in OpCode
<1>1. CASE \E x \in X : op = OpOf(x)
  BY <1>1, OpOfTyped DEF OpCode
<1>2. CASE \E c \in {"And", "Or", "Not"} : op = [op |-> c]
  BY <1>2 DEF OpCode
<1>. QED BY <1>1, <1>2 DEF StackStep

(* The program of a legal expression is made of opcodes the driver decodes, *)
(* and asks for layers and fields that exist.                               *)
LEMMA CompiledTyped ==
  ASSUME NEW e \in Tree, Legal(e)
  PROVE  Compiled(e) \in FilterIr
<1>1. Lower[e] \in Seq(OpCode)
  <2>1. \A x \in TestsIn(e) : LegalTest(x)
    BY TestsInAre
  <2>2. \A k \in 1 .. Len(Lower[e]) : Lower[e][k] \in OpCode
    BY <2>1, TestsInAre, HeldAt, StepOpcode
  <2>3. Lower[e] \in Seq(Lowered)
    BY LowerTyped
  <2>4. \A S, T : \A q \in Seq(S) : (\A k \in 1 .. Len(q) : q[k] \in T) => q \in Seq(T)
    OBVIOUS
  <2>. QED BY <2>2, <2>3, <2>4
<1>2. \A t \in TestsOf[e][TopPlace] :
        /\ t.test \in Predicate /\ LegalTest(t.test)
        /\ RequiredLayers(t) \subseteq Layer /\ FieldOf(t.test) \in Field
  <2>1. ASSUME NEW t \in TestsOf[e][TopPlace]
        PROVE  /\ t.test \in Predicate /\ LegalTest(t.test)
               /\ RequiredLayers(t) \subseteq Layer /\ FieldOf(t.test) \in Field
    <3>1. t \in [test : Predicate, place : Place]
      BY TestsTyped, TopIsAlone
    <3>2. LegalTest(t.test)
      BY DEF Legal
    <3>3. t.test \in Predicate /\ t.place \in Place /\ t = [test |-> t.test, place |-> t.place]
      BY <3>1
    <3>4. RequiredLayers([test |-> t.test, place |-> t.place]) \subseteq Layer
      BY <3>2, <3>3, RequiredTyped
    <3>5. RequiredLayers(t) \subseteq Layer
      BY Zenon, <3>3, <3>4
    <3>. QED BY <3>2, <3>3, <3>5, OpOfTyped
  <2>. QED BY <2>1
<1>. DEFINE T == TestsOf[e][TopPlace]
            layers == UNION {RequiredLayers(t) : t \in T}
            payload == \E t \in T : t.test.node = "packet"
            fields == {FieldOf(t.test) : t \in T}
<1>3. layers \in SUBSET Layer /\ payload \in BOOLEAN /\ fields \in SUBSET Field
  BY <1>2
<1>4. Compiled(e) = [required_layers |-> layers, needs_payload |-> payload,
                     referenced_fields |-> fields, program |-> Lower[e]]
  BY DEF Compiled
<1>. HIDE DEF T, layers, payload, fields
<1>. QED BY <1>1, <1>3, <1>4 DEF FilterIr

(* An opcode of such a program is a test, a negation or a connective, with  *)
(* its operands on the stack.                                               *)
TestStep(X, s, op, t) ==
  /\ IsTest(op) /\ ~ Joins(op) /\ op.op # "Not"
  /\ \E x \in X : op = OpOf(x) /\ t = Append(s, x)

NotStep(s, op, t) ==
  /\ op.op = "Not" /\ ~ IsTest(op) /\ ~ Joins(op)
  /\ \E u \in Seq(Tree), x \in Tree : s = Append(u, x) /\ t = Append(u, Not(x))

JoinStep(s, op, t) ==
  /\ Joins(op) /\ ~ IsTest(op) /\ op.op # "Not"
  /\ \E u \in Seq(Tree), x \in Tree, y \in Tree :
       s = Append(Append(u, x), y) /\ t = Append(u, [node |-> op.op, l |-> x, r |-> y])

(* A step is one of the three.                                              *)
LEMMA StepKinds ==
  ASSUME NEW X, X \subseteq Predicate, \A x \in X : LegalTest(x),
         NEW s \in Seq(Tree), NEW t \in Seq(Tree), NEW op, StackStep(X, s, op, t)
  PROVE  TestStep(X, s, op, t) \/ NotStep(s, op, t) \/ JoinStep(s, op, t)
<1>1. ASSUME NEW x \in X, op = OpOf(x), t = Append(s, x)
      PROVE  IsTest(op) /\ ~ Joins(op) /\ op.op # "Not"
  <2>1. op.op \in {"FieldTest", "PacketLoad"}
    BY <1>1, OpOfTyped
  <2>. QED BY <2>1 DEF IsTest, Joins
<1>2. ASSUME op = [op |-> "Not"] PROVE op.op = "Not" /\ ~ IsTest(op) /\ ~ Joins(op)
  BY <1>2 DEF IsTest, Joins
<1>3. ASSUME NEW c \in {"And", "Or"}, op = [op |-> c]
      PROVE  op.op = c /\ Joins(op) /\ ~ IsTest(op) /\ op.op # "Not"
  BY <1>3 DEF IsTest, Joins
<1>4. CASE \E x \in X : op = OpOf(x) /\ t = Append(s, x)
  BY <1>1, <1>4 DEF TestStep
<1>5. CASE op = [op |-> "Not"] /\ \E u \in Seq(Tree), x \in Tree : s = Append(u, x) /\ t = Append(u, Not(x))
  BY <1>2, <1>5 DEF NotStep
<1>6. ASSUME NEW c \in {"And", "Or"}, op = [op |-> c],
             \E u \in Seq(Tree), x \in Tree, y \in Tree :
               s = Append(Append(u, x), y) /\ t = Append(u, [node |-> c, l |-> x, r |-> y])
      PROVE  JoinStep(s, op, t)
  <2>1. op.op = c
    BY <1>3, <1>6
  <2>. QED BY Zenon, <1>3, <1>6, <2>1 DEF JoinStep
<1>. QED BY <1>4, <1>5, <1>6 DEF StackStep

-----------------------------------------------------------------------------
(* What the expressions on a stack say of an event.                         *)

Answers(s, e) == [k \in 1 .. Len(s) |-> Says[s[k]][e]]

(* The answers are a stack of booleans, as deep.                            *)
LEMMA AnswersTyped ==
  ASSUME NEW s \in Seq(Tree), NEW e \in Event
  PROVE  Answers(s, e) \in Seq(BOOLEAN) /\ Len(Answers(s, e)) = Len(s)
<1>1. \A k \in 1 .. Len(s) : Says[s[k]][e] \in BOOLEAN
  <2>1. \A k \in 1 .. Len(s) : s[k] \in Tree
    OBVIOUS
  <2>. QED BY <2>1, SaysOf
<1>2. Len(s) \in Nat
  OBVIOUS
<1>. QED BY <1>1, <1>2 DEF Answers

(* One more expression, one more answer.                                    *)
LEMMA AnswersAppend ==
  ASSUME NEW s \in Seq(Tree), NEW x \in Tree, NEW e \in Event
  PROVE  Answers(Append(s, x), e) = Append(Answers(s, e), Says[x][e])
<1>1. /\ Append(s, x) \in Seq(Tree) /\ Len(Append(s, x)) = Len(s) + 1 /\ Len(s) \in Nat
      /\ \A k \in 1 .. Len(s) : Append(s, x)[k] = s[k]
      /\ Append(s, x)[Len(s) + 1] = x
  OBVIOUS
<1>2. /\ Answers(s, e) \in Seq(BOOLEAN) /\ Len(Answers(s, e)) = Len(s)
      /\ Answers(Append(s, x), e) \in Seq(BOOLEAN) /\ Len(Answers(Append(s, x), e)) = Len(s) + 1
  BY <1>1, AnswersTyped
<1>3. Says[x][e] \in BOOLEAN
  BY SaysOf
<1>4. /\ Append(Answers(s, e), Says[x][e]) \in Seq(BOOLEAN)
      /\ Len(Append(Answers(s, e), Says[x][e])) = Len(s) + 1
      /\ \A k \in 1 .. Len(s) : Append(Answers(s, e), Says[x][e])[k] = Answers(s, e)[k]
      /\ Append(Answers(s, e), Says[x][e])[Len(s) + 1] = Says[x][e]
  BY <1>1, <1>2, <1>3
<1>5. \A k \in 1 .. Len(s) : Answers(s, e)[k] = Says[s[k]][e]
  BY DEF Answers
<1>6. \A k \in 1 .. Len(s) + 1 : Answers(Append(s, x), e)[k] = Says[Append(s, x)[k]][e]
  BY <1>1 DEF Answers
<1>7. ASSUME NEW k \in 1 .. Len(s) + 1
      PROVE  Answers(Append(s, x), e)[k] = Append(Answers(s, e), Says[x][e])[k]
  <2>1. CASE k \in 1 .. Len(s)
    BY <1>1, <1>4, <1>5, <1>6, <2>1
  <2>2. CASE k = Len(s) + 1
    BY <1>1, <1>4, <1>6, <2>2
  <2>3. k \in 1 .. Len(s) \/ k = Len(s) + 1
    BY <1>1
  <2>. QED BY Zenon, <2>1, <2>2, <2>3
<1>8. ASSUME NEW A \in Seq(BOOLEAN), NEW B \in Seq(BOOLEAN), Len(A) = Len(B),
             \A k \in 1 .. Len(A) : A[k] = B[k]
      PROVE  A = B
  BY <1>8
<1>. QED BY <1>2, <1>4, <1>7, <1>8

(* What is popped off a stack, and what is left.                            *)
LEMMA FrontOfAppend ==
  ASSUME NEW A \in Seq(BOOLEAN), NEW b \in BOOLEAN, NEW c \in BOOLEAN
  PROVE  /\ SubSeq(Append(A, b), 1, Len(Append(A, b)) - 1) = A
         /\ Append(A, b)[Len(Append(A, b))] = b /\ Len(Append(A, b)) >= 1
         /\ SubSeq(Append(Append(A, b), c), 1, Len(Append(Append(A, b), c)) - 2) = A
         /\ Append(Append(A, b), c)[Len(Append(Append(A, b), c)) - 1] = b
         /\ Append(Append(A, b), c)[Len(Append(Append(A, b), c)) - 0] = c
         /\ Append(A, b)[Len(Append(A, b)) - 0] = b
         /\ Len(Append(Append(A, b), c)) >= 2
<1>1. Len(A) \in Nat /\ Len(Append(A, b)) = Len(A) + 1 /\ Len(Append(Append(A, b), c)) = Len(A) + 2
  OBVIOUS
<1>2. SubSeq(Append(A, b), 1, Len(A)) = A
  OBVIOUS
<1>3. SubSeq(Append(Append(A, b), c), 1, Len(A)) = A
  OBVIOUS
<1>4. /\ Append(A, b)[Len(A) + 1] = b
      /\ Append(Append(A, b), c)[Len(A) + 1] = b /\ Append(Append(A, b), c)[Len(A) + 2] = c
  OBVIOUS
<1>5. (Len(A) + 1) - 1 = Len(A) /\ (Len(A) + 2) - 2 = Len(A) /\ (Len(A) + 2) - 1 = Len(A) + 1
      /\ (Len(A) + 2) - 0 = Len(A) + 2 /\ (Len(A) + 1) - 0 = Len(A) + 1
      /\ Len(A) + 1 >= 1 /\ Len(A) + 2 >= 2
  BY <1>1
<1>. QED BY Zenon, <1>1, <1>2, <1>3, <1>4, <1>5

-----------------------------------------------------------------------------
(* A filter on its way from its expression to its verdicts.                 *)

Before == {"parse", "compile", "load", "shape"}

IsCompiled ==
  phase \in {"load", "shape", "ready", "run"} /\ expr # NoExpr => Legal(expr) /\ ir = Compiled(expr)

DepthIsHeld == phase = "shape" /\ expr # NoExpr => depth = Len(Held(expr)[at - 1])

StackIsHeld ==
  phase = "run" /\ expr # NoExpr /\ HasMeaning(expr) => stack = Answers(Held(expr)[at - 1], event)

CompilerInv ==
  /\ FilterInv
  /\ expr \in Expr \cup {NoExpr}
  /\ phase \in {"parse", "compile"} => at = 1 /\ depth = 0 /\ depths = <<>> /\ stack = <<>>
  /\ phase = "parse" => expr = NoExpr
  /\ phase = "compile" => expr \in Expr
  /\ phase \in Before => verdict = "unasked"
  /\ phase = "run" => event \in Event /\ event.layer = layer
  /\ IsCompiled
  /\ DepthIsHeld
  /\ StackIsHeld
  /\ CompiledIsWellShaped
  /\ VerdictIsMeaning

(* What an opcode does, where the program is a compiled one.                *)
LEMMA CompiledOp ==
  ASSUME CompilerInv, phase \in {"shape", "run"}, expr # NoExpr, at <= Len(ir.program)
  PROVE  /\ expr \in Tree /\ at \in 1 .. Len(Lower[expr]) /\ Op = Lower[expr][at]
         /\ TestsIn(expr) \subseteq Predicate
         /\ \A x \in TestsIn(expr) : LegalTest(x) /\ SupportsOp(layer, OpOf(x))
         /\ HasMeaning(expr) => \A x \in TestsIn(expr) : IsSpelt(x)
         /\ Held(expr)[at - 1] \in Seq(Tree) /\ Held(expr)[at] \in Seq(Tree)
         /\ StackStep(TestsIn(expr), Held(expr)[at - 1], Op, Held(expr)[at])
<1>1. expr \in Tree /\ Legal(expr) /\ ir = Compiled(expr) /\ ValidIr(layer, ir) /\ layer \in Layer
  BY ExprDepths DEF CompilerInv, IsCompiled, FilterInv, FilterTypeOK
<1>2. ir.program = Lower[expr]
  BY <1>1 DEF Compiled
<1>3. at \in 1 .. Len(Lower[expr]) /\ Op = Lower[expr][at]
  BY <1>1, <1>2, LowerNotEmpty DEF CompilerInv, FilterInv, FilterTypeOK, Op
<1>. QED BY <1>1, <1>3, TestsInAre, HeldAt

(* At the end of the program the expression is all there is.                *)
LEMMA CompiledEnd ==
  ASSUME CompilerInv, phase \in {"shape", "run"}, expr # NoExpr, at > Len(ir.program)
  PROVE  expr \in Tree /\ Held(expr)[at - 1] = <<expr>>
<1>1. expr \in Tree /\ ir = Compiled(expr)
  BY ExprDepths DEF CompilerInv, IsCompiled
<1>2. ir.program = Lower[expr]
  BY <1>1 DEF Compiled
<1>3. at - 1 = Len(Lower[expr])
  BY <1>2, <1>1, LowerNotEmpty DEF CompilerInv, FilterInv, FilterTypeOK
<1>. QED BY <1>1, <1>3, HeldAt

(* The check of a compiled program finds its operands, and counts the stack *)
(* of expressions.                                                          *)
LEMMA CheckOpHeld ==
  ASSUME CompilerInv, CheckOp, expr # NoExpr
  PROVE  phase' = "shape" /\ at' = at + 1 /\ depth' = Len(Held(expr)[at])
<1>0. phase = "shape" /\ at <= Len(ir.program) /\ at \in Nat
  BY DEF CheckOp, CompilerInv, FilterInv, FilterTypeOK
<1>. DEFINE s == Held(expr)[at - 1]
            t == Held(expr)[at]
<1>1. /\ s \in Seq(Tree) /\ t \in Seq(Tree) /\ depth = Len(s)
      /\ StackStep(TestsIn(expr), s, Op, t)
      /\ TestsIn(expr) \subseteq Predicate /\ \A x \in TestsIn(expr) : LegalTest(x)
  BY <1>0, CompiledOp DEF CompilerInv, DepthIsHeld
<1>. HIDE DEF s, t
<1>2. /\ (Op.op = "Not" => depth >= 1) /\ (Joins(Op) => depth >= 2)
      /\ Len(t) = IF IsTest(Op) THEN depth + 1 ELSE IF Joins(Op) THEN depth - 1 ELSE depth
  <2>1. CASE TestStep(TestsIn(expr), s, Op, t)
    <3>1. PICK x \in TestsIn(expr) : t = Append(s, x)
      BY <2>1 DEF TestStep
    <3>2. Len(t) = Len(s) + 1
      BY <1>1, <3>1
    <3>. QED BY <1>1, <2>1, <3>2 DEF TestStep
  <2>2. CASE NotStep(s, Op, t)
    <3>1. PICK u \in Seq(Tree), x \in Tree : s = Append(u, x) /\ t = Append(u, Not(x))
      BY <2>2 DEF NotStep
    <3>2. Len(s) = Len(u) + 1 /\ Len(t) = Len(u) + 1 /\ Len(u) \in Nat
      BY <3>1
    <3>. QED BY <1>1, <2>2, <3>2 DEF NotStep
  <2>3. CASE JoinStep(s, Op, t)
    <3>1. PICK u \in Seq(Tree), x \in Tree, y \in Tree :
                  s = Append(Append(u, x), y) /\ t = Append(u, [node |-> Op.op, l |-> x, r |-> y])
      BY <2>3 DEF JoinStep
    <3>2. Len(s) = Len(u) + 2 /\ Len(t) = Len(u) + 1 /\ Len(u) \in Nat
      BY <3>1
    <3>. QED BY <1>1, <2>3, <3>2 DEF JoinStep
  <2>. QED BY <1>1, <2>1, <2>2, <2>3, StepKinds
<1>3. ~ ((Op.op = "Not" /\ depth < 1) \/ (Joins(Op) /\ depth < 2))
  <2>1. depth \in Nat
    BY DEF CompilerInv, FilterInv, FilterTypeOK
  <2>. QED BY <1>2, <2>1
<1>4. /\ phase' = "shape" /\ at' = at + 1
      /\ depth' = IF IsTest(Op) THEN depth + 1 ELSE IF Joins(Op) THEN depth - 1 ELSE depth
  BY <1>0, <1>3 DEF CheckOp
<1>. QED BY <1>2, <1>4 DEF t

(* Running an opcode answers for the next stack of expressions.             *)
LEMMA RunOpHeld ==
  ASSUME CompilerInv, RunOp, expr # NoExpr, HasMeaning(expr)
  PROVE  phase' = "run" /\ at' = at + 1 /\ stack' = Answers(Held(expr)[at], event)
<1>0. phase = "run" /\ at <= Len(ir.program) /\ at \in Nat /\ event \in Event /\ event.layer = layer
  BY DEF RunOp, CompilerInv, FilterInv, FilterTypeOK
<1>. DEFINE s == Held(expr)[at - 1]
            t == Held(expr)[at]
            A(u) == Answers(u, event)
<1>1. /\ s \in Seq(Tree) /\ t \in Seq(Tree) /\ stack = A(s)
      /\ StackStep(TestsIn(expr), s, Op, t)
      /\ TestsIn(expr) \subseteq Predicate
      /\ \A x \in TestsIn(expr) : LegalTest(x) /\ IsSpelt(x) /\ SupportsOp(event.layer, OpOf(x))
  BY <1>0, CompiledOp DEF CompilerInv, StackIsHeld
<1>. HIDE DEF s, t
<1>2. SUFFICES ASSUME TRUE PROVE Leaves(A(t))
  BY <1>0 DEF Leaves, t
<1>3. CASE TestStep(TestsIn(expr), s, Op, t)
  <2>1. PICK x \in TestsIn(expr) : Op = OpOf(x) /\ t = Append(s, x)
    BY <1>3 DEF TestStep
  <2>2. x \in Predicate /\ x \in Tree /\ LegalTest(x) /\ IsSpelt(x) /\ SupportsOp(event.layer, OpOf(x))
    BY <1>1, PredicatesAreTrees, DepthsAre DEF Tree
  <2>3. Tests(event, Op) = Says[x][event]
    BY <1>0, <2>1, <2>2, TestMeans
  <2>4. Op.op = "PacketLoad" => layer \in NetworkLayer
    BY <1>0, <2>1, <2>2 DEF SupportsOp
  <2>7. ~ IsWideAddr(Op)
    BY <2>1, <2>2, SpeltIsNarrow
  <2>5. Leaves(Append(stack, Tests(event, Op)))
    BY <1>3, <2>4, <2>7 DEF TestStep, RunOp, RunTest
  <2>6. A(t) = Append(stack, Tests(event, Op))
    BY <1>0, <1>1, <2>1, <2>2, <2>3, AnswersAppend
  <2>. QED BY <2>5, <2>6
<1>4. CASE NotStep(s, Op, t)
  <2>1. PICK u \in Seq(Tree), x \in Tree : s = Append(u, x) /\ t = Append(u, Not(x))
    BY <1>4 DEF NotStep
  <2>2. Not(x) \in Tree
    <3>. DEFINE w == Not(x)
    <3>. HIDE DEF w
    <3>0. t = Append(u, w)
      BY <2>1 DEF w
    <3>1. t[Len(t)] = w /\ Len(t) \in 1 .. Len(t)
      BY <3>0
    <3>2. w \in Tree
      BY <1>1, <3>1
    <3>. QED BY <3>2 DEF w
  <2>3. Says[Not(x)][event] = ~ Says[x][event]
    <3>1. Not(x).node = "Not" /\ Not(x).l = x
      BY DEF Not
    <3>. QED BY <1>0, <2>2, <3>1, SaysOf
  <2>4. A(s) = Append(A(u), Says[x][event]) /\ A(t) = Append(A(u), ~ Says[x][event])
    BY <1>0, <2>1, <2>2, <2>3, AnswersAppend
  <2>5. A(u) \in Seq(BOOLEAN) /\ Says[x][event] \in BOOLEAN
    BY <1>0, AnswersTyped, SaysOf
  <2>6. stack = Append(A(u), Says[x][event])
    BY <1>1, <2>4
  <2>7. Len(stack) >= 1 /\ Popped(1) = A(u) /\ Top(0) = Says[x][event]
    <3>1. Len(Append(A(u), Says[x][event])) >= 1
      BY <2>5, FrontOfAppend
    <3>2. SubSeq(Append(A(u), Says[x][event]), 1, Len(Append(A(u), Says[x][event])) - 1) = A(u)
      BY <2>5, FrontOfAppend
    <3>3. Append(A(u), Says[x][event])[Len(Append(A(u), Says[x][event])) - 0] = Says[x][event]
      BY <2>5, FrontOfAppend
    <3>. QED BY Zenon, <2>6, <3>1, <3>2, <3>3 DEF Popped, Top
  <2>8. Leaves(Append(Popped(1), ~ Top(0)))
    <3>1. ~ (Len(stack) < 1)
      <4>1. Len(stack) \in Nat
        BY DEF CompilerInv, FilterInv, FilterTypeOK
      <4>. QED BY <2>7, <4>1
    <3>. QED BY <1>4, <3>1 DEF NotStep, RunOp, RunNot
  <2>. QED BY Zenon, <2>4, <2>7, <2>8
<1>5. CASE JoinStep(s, Op, t)
  <2>1. PICK u \in Seq(Tree), x \in Tree, y \in Tree :
                s = Append(Append(u, x), y) /\ t = Append(u, [node |-> Op.op, l |-> x, r |-> y])
    BY <1>5 DEF JoinStep
  <2>. DEFINE w == [node |-> Op.op, l |-> x, r |-> y]
              a == Says[x][event]
              b == Says[y][event]
  <2>0. w.node = Op.op /\ w.l = x /\ w.r = y /\ Op.op \in {"And", "Or"}
    BY <1>5 DEF JoinStep, Joins
  <2>. HIDE DEF w
  <2>2. w \in Tree /\ t = Append(u, w)
    <3>0. t = Append(u, w)
      BY <2>1 DEF w
    <3>1. t[Len(t)] = w /\ Len(t) \in 1 .. Len(t)
      BY <3>0
    <3>2. w \in Tree
      BY <1>1, <3>1
    <3>. QED BY <3>0, <3>2
  <2>3. Says[w][event] = (IF Op.op = "And" THEN a /\ b ELSE a \/ b)
    <3>1. CASE Op.op = "And"
      BY <1>0, <2>0, <2>2, <3>1, SaysOf
    <3>2. CASE Op.op = "Or"
      BY <1>0, <2>0, <2>2, <3>2, SaysOf
    <3>. QED BY <2>0, <3>1, <3>2
  <2>4. A(t) = Append(A(u), Says[w][event])
    BY <1>0, <2>2, AnswersAppend
  <2>5. A(s) = Append(Append(A(u), a), b)
    <3>1. Append(u, x) \in Seq(Tree)
      OBVIOUS
    <3>2. A(Append(u, x)) = Append(A(u), a)
      BY <1>0, AnswersAppend
    <3>3. A(Append(Append(u, x), y)) = Append(A(Append(u, x)), b)
      BY <1>0, <3>1, AnswersAppend
    <3>. QED BY Zenon, <2>1, <3>2, <3>3
  <2>6. A(u) \in Seq(BOOLEAN) /\ a \in BOOLEAN /\ b \in BOOLEAN
    BY <1>0, AnswersTyped, SaysOf
  <2>. HIDE DEF a, b
  <2>7. Len(stack) >= 2 /\ Popped(2) = A(u) /\ Top(1) = a /\ Top(0) = b
    <3>0. stack = Append(Append(A(u), a), b)
      BY <1>1, <2>5
    <3>1. Len(Append(Append(A(u), a), b)) >= 2
      BY <2>6, FrontOfAppend
    <3>2. SubSeq(Append(Append(A(u), a), b), 1, Len(Append(Append(A(u), a), b)) - 2) = A(u)
      BY <2>6, FrontOfAppend
    <3>3. /\ Append(Append(A(u), a), b)[Len(Append(Append(A(u), a), b)) - 1] = a
          /\ Append(Append(A(u), a), b)[Len(Append(Append(A(u), a), b)) - 0] = b
      BY <2>6, FrontOfAppend
    <3>. QED BY Zenon, <3>0, <3>1, <3>2, <3>3 DEF Popped, Top
  <2>8. Leaves(Append(Popped(2), IF Op.op = "And" THEN Top(1) /\ Top(0) ELSE Top(1) \/ Top(0)))
    <3>1. ~ (Len(stack) < 2)
      <4>1. Len(stack) \in Nat
        BY DEF CompilerInv, FilterInv, FilterTypeOK
      <4>. QED BY <2>7, <4>1
    <3>. QED BY <1>5, <3>1 DEF JoinStep, RunOp, RunJoin
  <2>. QED BY Zenon, <2>3, <2>4, <2>7, <2>8
<1>. QED BY <1>1, <1>3, <1>4, <1>5, StepKinds

-----------------------------------------------------------------------------
(* The invariant of the filters is inductive.                               *)
LEMMA CompilerInitInv == CompilerInit => CompilerInv
<1>1. NoIr \in FilterIr /\ NoIr.program = <<>>
  BY DEF NoIr, FilterIr
<1>2. CompilerInit => FilterInv
  <2>1. ASSUME ir = NoIr, layer = "Network", phase = "parse", at = 1, depth = 0, depths = <<>>,
               event = NoEvent, stack = <<>>, verdict = "unasked"
        PROVE  FilterInv
    BY <1>1, <2>1 DEF FilterInv, FilterTypeOK, Layer, Phases, StackIsAsChecked, EvaluationNeverGivesUp
  <2>. QED BY <2>1, InitFilterInv DEF CompilerInit
<1>. QED BY <1>2 DEF CompilerInit, FilterInit, CompilerInv, IsCompiled, DepthIsHeld, StackIsHeld,
                   CompiledIsWellShaped, VerdictIsMeaning

(* The steps in front of the engine.                                        *)
LEMMA ReadKeeps == ASSUME CompilerInv, ReadAny PROVE CompilerInv'
<1>1. /\ phase = "parse" /\ phase' \in {"compile", "unread"} /\ layer' \in Layer
      /\ phase' = "compile" => expr' \in Expr
      /\ phase' = "unread" => expr' = expr
      /\ UNCHANGED <<ir, at, depth, depths, event, stack, verdict>>
  BY DEF ReadAny, run, CompilerInv, FilterInv, FilterTypeOK
<1>2. FilterInv'
  BY <1>1 DEF CompilerInv, FilterInv, FilterTypeOK, Phases, StackIsAsChecked, EvaluationNeverGivesUp
<1>. QED BY <1>1, <1>2 DEF CompilerInv, IsCompiled, DepthIsHeld, StackIsHeld, Before,
                         CompiledIsWellShaped, VerdictIsMeaning

(* A compiled expression is legal, and its program typed.                   *)
LEMMA CompileKeeps == ASSUME CompilerInv, Compile PROVE CompilerInv'
<1>1. /\ phase = "compile" /\ expr \in Expr /\ expr \in Tree
      /\ at = 1 /\ depth = 0 /\ depths = <<>> /\ stack = <<>>
      /\ UNCHANGED <<expr, layer, at, depth, depths, event, stack, verdict>>
  BY ExprDepths DEF Compile, run, CompilerInv
<1>2. CASE ~ Legal(expr)
  <2>1. phase' = "rejected" /\ ir' = ir
    BY <1>2 DEF Compile
  <2>2. FilterInv'
    BY <1>1, <2>1 DEF CompilerInv, FilterInv, FilterTypeOK, Phases, StackIsAsChecked, EvaluationNeverGivesUp
  <2>. QED BY <1>1, <2>1, <2>2 DEF CompilerInv, IsCompiled, DepthIsHeld, StackIsHeld, Before,
                                 CompiledIsWellShaped, VerdictIsMeaning
<1>3. CASE Legal(expr)
  <2>1. phase' \in {"bad_ir", "load"} /\ ir' = Compiled(expr)
    BY <1>3 DEF Compile
  <2>2. Compiled(expr) \in FilterIr
    BY <1>1, <1>3, CompiledTyped
  <2>3. Len(ir'.program) \in Nat
    BY <2>1, <2>2 DEF FilterIr
  <2>4. FilterTypeOK'
    BY <1>1, <2>1, <2>2, <2>3 DEF CompilerInv, FilterInv, FilterTypeOK, Phases
  <2>5. FilterInv'
    BY <1>1, <2>1, <2>4 DEF CompilerInv, FilterInv, StackIsAsChecked, EvaluationNeverGivesUp
  <2>6. Legal(expr)' /\ ir' = Compiled(expr')
    BY <1>1, <1>3, <2>1
  <2>. QED BY <1>1, <2>1, <2>5, <2>6 DEF CompilerInv, IsCompiled, DepthIsHeld, StackIsHeld, Before,
                                       CompiledIsWellShaped, VerdictIsMeaning
<1>. QED BY <1>2, <1>3

(* A refused handle is never opened.                                        *)
LEMMA IncompatibleKeeps == ASSUME CompilerInv, Incompatible PROVE CompilerInv'
<1>1. phase = "load" /\ phase' = "incompatible"
      /\ UNCHANGED <<expr, ir, layer, at, depth, depths, event, stack, verdict>>
  BY DEF Incompatible, engine, run
<1>2. FilterInv'
  BY <1>1 DEF CompilerInv, FilterInv, FilterTypeOK, Phases, StackIsAsChecked, EvaluationNeverGivesUp
<1>. QED BY <1>1, <1>2 DEF CompilerInv, IsCompiled, DepthIsHeld, StackIsHeld, Before,
                         CompiledIsWellShaped, VerdictIsMeaning

(* The steps of the engine.                                                 *)
LEMMA EngineKeeps ==
  ASSUME CompilerInv, FilterNext, UNCHANGED expr
  PROVE  CompilerInv'
<1>1. FilterInv'
  BY NextFilterInv DEF CompilerInv
<1>2. CASE ValidateIr
  <2>1. /\ phase = "load" /\ phase' \in {"bad_ir", "bad_shape", "shape"}
        /\ phase' = "bad_shape" => ir.program = <<>>
        /\ UNCHANGED <<ir, layer, at, depth, depths, event, stack, verdict>>
    BY <1>2 DEF ValidateIr, engine, run
  <2>2. at = 1 /\ depth = 0
    BY <2>1 DEF CompilerInv, FilterInv
  <2>3. expr # NoExpr => /\ expr \in Tree /\ ir = Compiled(expr) /\ Legal(expr)
                         /\ ir.program = Lower[expr]
    BY <2>1, ExprDepths DEF CompilerInv, IsCompiled, Compiled
  <2>4. expr # NoExpr => phase' # "bad_shape"
    BY <2>1, <2>3, LowerNotEmpty
  <2>5. expr # NoExpr => Len(Held(expr)[at - 1]) = 0
    <3>1. at - 1 = 0
      BY <2>2
    <3>. QED BY <2>3, <3>1, HeldAt
  <2>6. DepthIsHeld'
    BY <2>1, <2>2, <2>5 DEF DepthIsHeld
  <2>7. IsCompiled'
    BY <2>1, <2>3 DEF IsCompiled
  <2>. QED BY <1>1, <2>1, <2>4, <2>6, <2>7
           DEF CompilerInv, StackIsHeld, Before, CompiledIsWellShaped, VerdictIsMeaning
<1>3. CASE CheckOp
  <2>1. /\ phase = "shape" /\ phase' \in {"bad_shape", "shape"} /\ at \in Nat
        /\ UNCHANGED <<ir, layer, event, stack, verdict>>
    BY <1>3 DEF CheckOp, engine, run, CompilerInv, FilterInv, FilterTypeOK
  <2>2. expr # NoExpr => phase' = "shape" /\ at' = at + 1 /\ depth' = Len(Held(expr)[at])
    BY <1>3, CheckOpHeld
  <2>3. DepthIsHeld'
    <3>1. (at + 1) - 1 = at
      BY <2>1
    <3>. QED BY <2>2, <3>1 DEF DepthIsHeld
  <2>4. IsCompiled'
    BY <2>1 DEF CompilerInv, IsCompiled
  <2>. QED BY <1>1, <2>1, <2>2, <2>3, <2>4
           DEF CompilerInv, StackIsHeld, Before, CompiledIsWellShaped, VerdictIsMeaning
<1>4. CASE CheckEnd
  <2>1. /\ phase = "shape" /\ at > Len(ir.program)
        /\ phase' = (IF depth = 1 THEN "ready" ELSE "bad_shape")
        /\ UNCHANGED <<ir, layer, at, depth, depths, event, stack, verdict>>
    BY <1>4 DEF CheckEnd, engine, run
  <2>2. expr # NoExpr => depth = 1
    <3>1. ASSUME expr # NoExpr PROVE depth = 1
      <4>1. Held(expr)[at - 1] = <<expr>>
        BY <2>1, <3>1, CompiledEnd
      <4>2. Len(<<expr>>) = 1
        OBVIOUS
      <4>. QED BY <2>1, <3>1, <4>1, <4>2 DEF CompilerInv, DepthIsHeld
    <3>. QED BY <3>1
  <2>3. IsCompiled'
    BY <2>1 DEF CompilerInv, IsCompiled
  <2>4. verdict' = "unasked"
    BY <2>1 DEF CompilerInv, Before
  <2>. QED BY <1>1, <2>1, <2>2, <2>3, <2>4
           DEF CompilerInv, DepthIsHeld, StackIsHeld, Before, CompiledIsWellShaped, VerdictIsMeaning
<1>5. ASSUME NEW e \in Events, Matches(e) PROVE CompilerInv'
  <2>1. phase = "ready" /\ event' = e /\ e \in Event /\ UNCHANGED <<ir, layer, depth, depths>>
    BY <1>5, FilterAssumption DEF Matches, engine
  <2>2. IsCompiled'
    BY <1>5, <2>1 DEF CompilerInv, IsCompiled, Matches
  <2>3. CASE e.layer = layer
    <3>1. phase' = "run" /\ at' = 1 /\ stack' = <<>> /\ verdict' = verdict
      BY <1>5, <2>3 DEF Matches
    <3>2. expr # NoExpr => Held(expr)[0] = <<>>
      BY ExprDepths, HeldAt DEF CompilerInv
    <3>3. Answers(<<>>, e) = <<>>
      BY DEF Answers
    <3>4. StackIsHeld'
      <4>1. at' - 1 = 0
        BY <3>1
      <4>. QED BY <2>1, <3>1, <3>2, <3>3, <4>1 DEF StackIsHeld
    <3>. QED BY <1>1, <2>1, <2>2, <2>3, <3>1, <3>4
             DEF CompilerInv, DepthIsHeld, Before, CompiledIsWellShaped, VerdictIsMeaning
  <2>4. CASE e.layer # layer
    <3>1. phase' = "ready" /\ verdict' = "false"
      BY <1>5, <2>1, <2>4 DEF Matches
    <3>2. VerdictIsMeaning'
      BY <2>1, <2>4, <3>1 DEF VerdictIsMeaning
    <3>. QED BY <1>1, <2>1, <2>2, <3>1, <3>2
             DEF CompilerInv, DepthIsHeld, StackIsHeld, Before, CompiledIsWellShaped
  <2>. QED BY <2>3, <2>4
<1>6. CASE RunOp
  <2>1. /\ phase = "run" /\ phase' \in {"run", "ready", "panicked"} /\ at \in Nat
        /\ phase' = "ready" => verdict' = "none"
        /\ UNCHANGED <<ir, layer, depth, depths, event>>
    BY <1>6 DEF RunOp, RunTest, RunNot, RunJoin, Leaves, GivesUp, Panics, engine, CompilerInv, FilterInv,
                FilterTypeOK
  <2>2. phase' \in {"run", "panicked"}
    BY <1>1, <2>1 DEF FilterInv, EvaluationNeverGivesUp
  <2>3. expr # NoExpr /\ HasMeaning(expr) =>
          phase' = "run" /\ at' = at + 1 /\ stack' = Answers(Held(expr)[at], event)
    BY <1>6, RunOpHeld
  <2>4. StackIsHeld'
    <3>1. (at + 1) - 1 = at
      BY <2>1
    <3>. QED BY <2>1, <2>3, <3>1 DEF StackIsHeld
  <2>5. IsCompiled'
    BY <2>1, <2>2 DEF CompilerInv, IsCompiled
  <2>6. VerdictIsMeaning'
    BY <2>2, <2>3 DEF VerdictIsMeaning
  <2>. QED BY <1>1, <2>1, <2>2, <2>4, <2>5, <2>6
           DEF CompilerInv, DepthIsHeld, Before, CompiledIsWellShaped
<1>7. CASE RunEnd
  <2>1. /\ phase = "run" /\ phase' = "ready" /\ at > Len(ir.program)
        /\ verdict' = (IF Len(stack) # 1 THEN "none" ELSE IF stack[1] THEN "true" ELSE "false")
        /\ UNCHANGED <<ir, layer, at, depth, depths, event, stack>>
    BY <1>7 DEF RunEnd, engine
  <2>2. IsCompiled'
    BY <2>1 DEF CompilerInv, IsCompiled
  <2>3. ASSUME expr # NoExpr, HasMeaning(expr)
        PROVE  verdict' = "true" <=> event.layer = layer /\ Says[expr][event]
    <3>1. Held(expr)[at - 1] = <<expr>> /\ expr \in Tree
      BY <2>1, <2>3, CompiledEnd
    <3>2. stack = Answers(<<expr>>, event) /\ event \in Event /\ event.layer = layer
      BY <2>1, <2>3, <3>1 DEF CompilerInv, StackIsHeld
    <3>3. Len(stack) = 1 /\ stack[1] = Says[expr][event]
      BY <3>2 DEF Answers
    <3>. QED BY <2>1, <3>1, <3>2, <3>3, SaysOf
  <2>4. VerdictIsMeaning'
    BY <2>1, <2>3 DEF VerdictIsMeaning
  <2>. QED BY <1>1, <2>1, <2>2, <2>4
           DEF CompilerInv, DepthIsHeld, StackIsHeld, Before, CompiledIsWellShaped
<1>. QED BY <1>2, <1>3, <1>4, <1>5, <1>6, <1>7 DEF FilterNext

(* Every step keeps the invariant.                                          *)
LEMMA CompilerNextInv ==
  ASSUME CompilerInv, [ReadAny \/ CompilerNext]_ccvars
  PROVE  CompilerInv'
<1>1. CASE ReadAny
  BY <1>1, ReadKeeps
<1>2. CASE Compile
  BY <1>2, CompileKeeps
<1>3. CASE Incompatible
  BY <1>3, IncompatibleKeeps
<1>4. CASE FilterNext /\ UNCHANGED expr
  BY <1>4, EngineKeeps
<1>5. CASE UNCHANGED ccvars
  <2>1. UNCHANGED <<expr, ir, layer, phase, at, depth, depths, event, stack, verdict>>
    BY <1>5 DEF ccvars, fvars, engine, run
  <2>2. FilterInv'
    BY <1>5, NextFilterInv DEF CompilerInv, ccvars
  <2>. QED BY <2>1, <2>2 DEF CompilerInv, IsCompiled, DepthIsHeld, StackIsHeld,
                           CompiledIsWellShaped, VerdictIsMeaning
<1>. QED BY <1>1, <1>2, <1>3, <1>4, <1>5 DEF CompilerNext

(* So it holds of every filter.                                             *)
LEMMA CompilerInvAlways == CompilerSpec => []CompilerInv
BY CompilerInitInv, CompilerNextInv, PTL DEF CompilerSpec

-----------------------------------------------------------------------------
(* Type correctness of the filters, from any expression to the verdict: the *)
(* compiler emits what the driver decodes, whatever the expression.         *)
THEOREM CompilerTypeCorrect == CompilerSpec => [](FilterTypeOK /\ CompilerTypeOK)
<1>1. CompilerInv => FilterTypeOK /\ CompilerTypeOK
  BY DEF CompilerInv, FilterInv, CompilerTypeOK
<1>. QED BY <1>1, CompilerInvAlways, PTL

(* A compiled filter answers: no `?` of the evaluator is taken               *)
(* (filter_eval.rs:320-392), for every expression, layer and event, and it  *)
(* panics only with an address test of a prefix above 32, which is lowered  *)
(* from a number (ir.rs:349).                                               *)
THEOREM CompiledNeverGivesUp == CompilerSpec => []EvaluationNeverGivesUp
<1>1. CompilerInv => EvaluationNeverGivesUp
  BY DEF CompilerInv, FilterInv
<1>. QED BY <1>1, CompilerInvAlways, PTL

(* The stack of a compiled filter is as deep as the check counted.          *)
THEOREM CompiledStackAsChecked == CompilerSpec => []StackIsAsChecked
<1>1. CompilerInv => StackIsAsChecked
  BY DEF CompilerInv, FilterInv
<1>. QED BY <1>1, CompilerInvAlways, PTL

(* The programs lower_expr emits all have the shape that validate_ir's      *)
(* caller asks for: the engine refuses none of them for it.                 *)
THEOREM CompiledAlwaysWellShaped == CompilerSpec => []CompiledIsWellShaped
<1>1. CompilerInv => CompiledIsWellShaped
  BY DEF CompilerInv
<1>. QED BY <1>1, CompilerInvAlways, PTL

(* Compiler correctness: the verdict of a compiled filter on an event is    *)
(* what its expression says of the event, for every expression that spells  *)
(* its addresses as such, every event and layer, and the evaluation of one  *)
(* never panics (semantics.rs, ir.rs and filter_eval.rs together).          *)
THEOREM VerdictAlwaysMeaning == CompilerSpec => []VerdictIsMeaning
<1>1. CompilerInv => VerdictIsMeaning
  BY DEF CompilerInv
<1>. QED BY <1>1, CompilerInvAlways, PTL

(* Whether a filter opens on a layer does not depend on how it is written,  *)
(* nor do its layers on the order of its operands, although visit decides   *)
(* by the neighbours of a predicate (semantics.rs:64-85).                   *)
THEOREM EquivalentAlwaysOpenAlike == CompilerSpec => []EquivalentFiltersOpenAlike
<1>1. CompilerInv => EquivalentFiltersOpenAlike
  BY AlikeAt DEF CompilerInv, FilterInv, FilterTypeOK, EquivalentFiltersOpenAlike
<1>. QED BY <1>1, CompilerInvAlways, PTL

=============================================================================
