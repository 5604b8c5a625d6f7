--------------------------- MODULE FilterProgram ----------------------------
(***************************************************************************)
(* The filter engine of a runtime handle: driver/wd-kmdf/src/filter_eval.rs *)
(* over a program decoded by crates/wd-filter/src/ir.rs.  An engine checks  *)
(* a program once, for one layer, and then runs it on each event with a     *)
(* stack of booleans.                                                       *)
(*                                                                          *)
(* A packet is its bytes, and a u64 its two halves: an address test has a   *)
(* network in the low one and a prefix length in the high one.              *)
(***************************************************************************)
EXTENDS Integers, Sequences

CONSTANTS
  Irs,      \* the programs an engine may be given, see FilterIr
  Events    \* the events and packets it is asked about, see Event

Layer == {"Network", "NetworkForward", "Flow", "Socket", "Reflect"}
NetworkLayer == {"Network", "NetworkForward"}

AddrField == {"localAddr", "remoteAddr"}
PacketField ==
  AddrField \cup {"tcp", "udp", "ipv4", "ipv6", "localPort", "remotePort", "inbound", "outbound"}
Field == PacketField \cup {"packet", "event", "processId", "layer"}

U16 == 0 .. 65535
U64 == [high : Nat, low : Nat]
Small(n) == [high |-> 0, low |-> n]

FieldTests == [op : {"FieldTest"}, field : Field, value : U64]
PacketLoads == [op : {"PacketLoad"}, width : {1, 2, 4}, offset : U16, value : Nat]
OpCode == FieldTests \cup PacketLoads \cup [op : {"And", "Or", "Not"}]

FilterIr ==
  [required_layers : SUBSET Layer, needs_payload : BOOLEAN,
   referenced_fields : SUBSET Field, program : Seq(OpCode)]

(* An Option is the set of what it holds; its layer says of what kind an    *)
(* event can be.                                                            *)
Event ==
  [layer : NetworkLayer, packet : Seq(0 .. 255)]
    \cup [layer : {"Socket"}, kind : {2}, process_id : SUBSET Nat]
    \cup [layer : {"Flow"}, kind : {4}, process_id : SUBSET Nat]
    \cup [layer : {"Reflect"}, kind : {1, 3}, process_id : SUBSET Nat]

ASSUME FilterAssumption == Irs \subseteq FilterIr /\ Events \subseteq Event

VARIABLES
  ir, layer,   \* what the engine was made from
  phase,       \* what it is doing
  at,          \* the opcode that is checked or run next
  depth,       \* validate_program_shape's
  depths,      \* history: depth before each opcode that was checked
  event,       \* the event that is, or was, evaluated
  stack,
  verdict      \* of the last evaluation; "none" is its None

engine == <<ir, layer>>
run == <<event, stack, verdict>>
fvars == <<engine, phase, at, depth, depths, run>>

(* The first five are what stands before an engine: see FilterText.         *)
Phases ==
  {"parse", "unread", "compile", "rejected", "incompatible", "load", "shape", "bad_ir", "bad_shape",
   "ready", "run", "panicked"}
NoEvent == [layer |-> "none"]

-----------------------------------------------------------------------------
(* validate_ir and validate_supported_field.                                *)

LayerValue(l) ==
  CASE l = "Network" -> 1 [] l = "NetworkForward" -> 2 [] l = "Flow" -> 3
    [] l = "Socket" -> 4 [] l = "Reflect" -> 5

EventCodes(l) ==
  CASE l = "Socket" -> {2} [] l = "Flow" -> {4} [] l = "Reflect" -> {1, 3}
    [] l \in NetworkLayer -> {}

SupportedFields(l) ==
  CASE l \in NetworkLayer -> PacketField \cup {"packet", "layer"}
    [] l \in {"Socket", "Flow"} -> {"event", "processId", "layer"}
    [] l = "Reflect" -> {"event", "layer"}

SupportsOp_AnyLoad(l, op) ==
  op.op = "FieldTest" =>
    /\ op.field \in SupportedFields(l)
    /\ op.field = "layer" => op.value = Small(LayerValue(l))
    /\ op.field = "event" => op.value \in {Small(code) : code \in EventCodes(l)}

SupportsOp(l, op) ==
  /\ op.op = "FieldTest" =>
       /\ op.field \in SupportedFields(l)
       /\ op.field = "layer" => op.value = Small(LayerValue(l))
       /\ op.field = "event" => op.value \in {Small(code) : code \in EventCodes(l)}
  /\ op.op = "PacketLoad" => l \in NetworkLayer

ValidIr(l, i) ==
  /\ i.required_layers = {} \/ l \in i.required_layers
  /\ i.needs_payload => l \in NetworkLayer
  /\ i.referenced_fields \subseteq SupportedFields(l)
  /\ \A k \in 1 .. Len(i.program) : SupportsOp(l, i.program[k])

-----------------------------------------------------------------------------
(* What a test says of a packet, and of an event.                           *)

IsVersion(p, v) == Len(p) > 0 /\ p[1] \div 16 = v

IsProtocol(p, protocol) ==
  \/ IsVersion(p, 4) /\ Len(p) > 9 /\ p[10] = protocol
  \/ IsVersion(p, 6) /\ Len(p) > 6 /\ p[7] = protocol

(* The big-endian number of so many bytes at an offset, if they are there.  *)
Loaded(p, width, offset) ==
  IF Len(p) < offset + width THEN {}
  ELSE {CASE width = 1 -> p[offset + 1]
          [] width = 2 -> 256 * p[offset + 1] + p[offset + 2]
          [] width = 4 -> 256 * (256 * (256 * p[offset + 1] + p[offset + 2])
                                   + p[offset + 3]) + p[offset + 4]}

Ends(l, source, destination) ==
  IF l = "Network" THEN [local |-> destination, remote |-> source]
  ELSE [local |-> source, remote |-> destination]

PortsAt_NoOptions(p) == IF IsVersion(p, 4) THEN 20 ELSE 40

PortsAt(p) == IF IsVersion(p, 4) THEN 4 * (p[1] % 16) ELSE 40

Ports(l, p) ==
  IF IsProtocol(p, 6) \/ IsProtocol(p, 17)
  THEN Ends(l, Loaded(p, 2, PortsAt(p)), Loaded(p, 2, PortsAt(p) + 2))
  ELSE Ends(l, {}, {})

(* Both ports are read at once: without the second there is no first.       *)
PortIs(l, p, end, value) ==
  Len(p) >= PortsAt(p) + 4 /\ \E port \in Ports(l, p)[end] : value = Small(port)

HasAddrs(p) == IsVersion(p, 4) /\ Len(p) >= 20

(* The bits of an address its prefix keeps.  A shift by 32 - prefix bits    *)
(* that wraps is one by so many bits modulo 32.                             *)
Prefix(value) == value.high % 256
Masked(addr, prefix) ==
  IF prefix = 0 THEN 0 ELSE addr - (addr % (2 ^ ((32 - prefix) % 32)))

AddrMatches(l, p, end, value) ==
  /\ HasAddrs(p)
  /\ \E addr \in Ends(l, Loaded(p, 4, 12), Loaded(p, 4, 16))[end] :
       value.low = Masked(addr, Prefix(value))

Is(value, holds) == value = Small(IF holds THEN 1 ELSE 0)

PacketTest(l, p, field, value) ==
  \/ field = "tcp" /\ Is(value, IsProtocol(p, 6))
  \/ field = "udp" /\ Is(value, IsProtocol(p, 17))
  \/ field = "ipv4" /\ Is(value, IsVersion(p, 4))
  \/ field = "ipv6" /\ Is(value, IsVersion(p, 6))
  \/ field = "localAddr" /\ AddrMatches(l, p, "local", value)
  \/ field = "remoteAddr" /\ AddrMatches(l, p, "remote", value)
  \/ field = "localPort" /\ PortIs(l, p, "local", value)
  \/ field = "remotePort" /\ PortIs(l, p, "remote", value)
  \/ field = "inbound" /\ Is(value, l = "Network")
  \/ field = "outbound" /\ Is(value, l = "NetworkForward")
  \/ field = "layer" /\ value = Small(LayerValue(l))

EventTest(e, field, value) ==
  \/ field = "event" /\ value = Small(e.kind)
  \/ field = "processId" /\ \E id \in e.process_id : value = Small(id)
  \/ field = "layer" /\ value = Small(LayerValue(e.layer))

Tests(e, op) ==
  IF op.op = "PacketLoad" THEN op.value \in Loaded(e.packet, op.width, op.offset)
  ELSE IF e.layer \in NetworkLayer THEN PacketTest(e.layer, e.packet, op.field, op.value)
  ELSE EventTest(e, op.field, op.value)

IsWideAddr(op) == op.op = "FieldTest" /\ op.field \in AddrField /\ Prefix(op.value) > 32

-----------------------------------------------------------------------------
FilterInit ==
  /\ ir \in Irs /\ layer \in Layer
  /\ phase = "load"
  /\ at = 1 /\ depth = 0 /\ depths = <<>>
  /\ event = NoEvent /\ stack = <<>> /\ verdict = "unasked"

Op == ir.program[at]
IsTest(op) == op.op \in {"FieldTest", "PacketLoad"}
Joins(op) == op.op \in {"And", "Or"}

ValidateIr ==
  /\ phase = "load"
  /\ phase' = IF ~ ValidIr(layer, ir) THEN "bad_ir"
              ELSE IF ir.program = <<>> THEN "bad_shape" ELSE "shape"
  /\ UNCHANGED <<engine, at, depth, depths, run>>

CheckOp_Unguarded ==
  /\ phase = "shape" /\ at <= Len(ir.program)
  /\ at' = at + 1
  /\ depth' = IF IsTest(Op) THEN depth + 1 ELSE IF Joins(Op) THEN depth - 1 ELSE depth
  /\ depths' = Append(depths, depth)
  /\ UNCHANGED <<engine, phase, run>>

CheckOp_NotTakesTwo ==
  /\ phase = "shape" /\ at <= Len(ir.program)
  /\ IF ~ IsTest(Op) /\ depth < 2
     THEN phase' = "bad_shape" /\ UNCHANGED <<at, depth, depths>>
     ELSE /\ at' = at + 1
          /\ depth' = IF IsTest(Op) THEN depth + 1 ELSE IF Joins(Op) THEN depth - 1 ELSE depth
          /\ depths' = Append(depths, depth)
          /\ UNCHANGED phase
  /\ UNCHANGED <<engine, run>>

CheckOp ==
  /\ phase = "shape" /\ at <= Len(ir.program)
  /\ IF (Op.op = "Not" /\ depth < 1) \/ (Joins(Op) /\ depth < 2)
     THEN phase' = "bad_shape" /\ UNCHANGED <<at, depth, depths>>
     ELSE /\ at' = at + 1
          /\ depth' = IF IsTest(Op) THEN depth + 1 ELSE IF Joins(Op) THEN depth - 1 ELSE depth
          /\ depths' = Append(depths, depth)
          /\ UNCHANGED phase
  /\ UNCHANGED <<engine, run>>

CheckEnd ==
  /\ phase = "shape" /\ at > Len(ir.program)
  /\ phase' = IF depth = 1 THEN "ready" ELSE "bad_shape"
  /\ UNCHANGED <<engine, at, depth, depths, run>>

(* FilterEngine::matches and matches_network_packet.                        *)
Matches(e) ==
  /\ phase = "ready"
  /\ event' = e
  /\ IF e.layer = layer
     THEN phase' = "run" /\ at' = 1 /\ stack' = <<>> /\ UNCHANGED verdict
     ELSE verdict' = "false" /\ UNCHANGED <<phase, at, stack>>
  /\ UNCHANGED <<engine, depth, depths>>

(* The `?` of an evaluation that finds no operand, or a load where there is *)
(* no packet: matches takes it for false.                                   *)
GivesUp == verdict' = "none" /\ phase' = "ready" /\ UNCHANGED <<at, stack>>

Leaves(s) == stack' = s /\ at' = at + 1 /\ UNCHANGED <<phase, verdict>>

Popped(n) == SubSeq(stack, 1, Len(stack) - n)
Top(n) == stack[Len(stack) - n]

(* Where overflow is checked for, 32 - prefix panics in ipv4_prefix_mask.   *)
Panics == phase' = "panicked" /\ UNCHANGED <<at, stack, verdict>>

RunTest ==
  IF Op.op = "PacketLoad" /\ layer \notin NetworkLayer THEN GivesUp
  ELSE \/ Leaves(Append(stack, Tests(event, Op)))
       \/ layer \in NetworkLayer /\ IsWideAddr(Op) /\ HasAddrs(event.packet) /\ Panics

RunNot ==
  IF Len(stack) < 1 THEN GivesUp ELSE Leaves(Append(Popped(1), ~ Top(0)))

RunJoin_KeepsLeft ==
  IF Len(stack) < 2 THEN GivesUp
  ELSE Leaves(Append(Popped(1), IF Op.op = "And" THEN Top(1) /\ Top(0) ELSE Top(1) \/ Top(0)))

RunJoin ==
  IF Len(stack) < 2 THEN GivesUp
  ELSE Leaves(Append(Popped(2), IF Op.op = "And" THEN Top(1) /\ Top(0) ELSE Top(1) \/ Top(0)))

(* evaluate_program and evaluate_network_program.                           *)
RunOp ==
  /\ phase = "run" /\ at <= Len(ir.program)
  /\ \/ IsTest(Op) /\ RunTest
     \/ Op.op = "Not" /\ RunNot
     \/ Joins(Op) /\ RunJoin
  /\ UNCHANGED <<engine, depth, depths, event>>

RunEnd ==
  /\ phase = "run" /\ at > Len(ir.program)
  /\ phase' = "ready"
  /\ verdict' = IF Len(stack) # 1 THEN "none" ELSE IF stack[1] THEN "true" ELSE "false"
  /\ UNCHANGED <<engine, at, depth, depths, event, stack>>

FilterNext ==
  \/ ValidateIr
  \/ CheckOp
  \/ CheckEnd
  \/ \E e \in Events : Matches(e)
  \/ RunOp
  \/ RunEnd

FilterSpec == FilterInit /\ [][FilterNext]_fvars

-----------------------------------------------------------------------------
(* Properties.                                                              *)

FilterTypeOK ==
  /\ ir \in FilterIr /\ layer \in Layer
  /\ phase \in Phases
  /\ at \in 1 .. Len(ir.program) + 1
  /\ depth \in Nat
  /\ depths \in Seq(Nat)
  /\ event \in Event \cup {NoEvent}
  /\ stack \in Seq(BOOLEAN)
  /\ verdict \in {"unasked", "true", "false", "none"}

(* The check at load time is all the evaluator needs: it never runs out of  *)
(* operands, never has one left, and never meets a load without a packet,   *)
(* whatever program it was given (filter_eval.rs:285-392).  It panics only  *)
(* on a program with an address test of a prefix above 32, which no check   *)
(* at load time refuses (filter_eval.rs:217, 527).                          *)
EvaluationNeverGivesUp ==
  /\ verdict # "none"
  /\ phase = "panicked" => \E k \in 1 .. Len(ir.program) : IsWideAddr(ir.program[k])

(* The stack never grows beyond the program's room for it, and holds what   *)
(* the check counted (with_capacity(program.len()), filter_eval.rs:321).    *)
StackIsAsChecked ==
  phase = "run" =>
    Len(stack) = IF at <= Len(ir.program) THEN depths[at] ELSE depth

=============================================================================
