--------------------------- MODULE FilterCompiler ---------------------------
(***************************************************************************)
(* The filter compiler, crates/wd-filter/src/semantics.rs and ir.rs, in     *)
(* front of the engine: a parsed expression is analysed, lowered, encoded,  *)
(* decoded by the driver and given to an engine for one layer.              *)
(*                                                                          *)
(* An expression is a record.  A symbolic value is its name in lower case,  *)
(* or the address and prefix it spells; a name that spells nothing is a     *)
(* symbol too.                                                              *)
(***************************************************************************)
EXTENDS FilterProgram

CONSTANTS
  MAX_PROGRAM_LEN,  \* opcodes decode_ir accepts
  MAX_DEPTH         \* how deep the operators of an expression are nested

ASSUME CompilerAssumption == MAX_PROGRAM_LEN \in Nat /\ MAX_DEPTH \in Nat

VARIABLE expr       \* NoExpr where there is none

ccvars == <<expr, fvars>>

Bare(field) == [node |-> "bare", field |-> field]
FieldEq(field, value) == [node |-> "eq", field |-> field, value |-> value]
Number(value) == [number |-> value]
Symbol(s) == [symbol |-> s]
Literal(addr, prefix) == [addr |-> addr, prefix |-> prefix]
PacketEq(width, offset, value) ==
  [node |-> "packet", width |-> width, offset |-> offset, value |-> value]
And(l, r) == [node |-> "And", l |-> l, r |-> r]
Or(l, r) == [node |-> "Or", l |-> l, r |-> r]
Not(e) == [node |-> "Not", l |-> e]

IsNumber(value) == "number" \in DOMAIN value
IsSymbol(value) == "symbol" \in DOMAIN value
IsLiteral(value) == "addr" \in DOMAIN value

LayerNamed ==
  [network |-> "Network", network_forward |-> "NetworkForward", flow |-> "Flow",
   socket |-> "Socket", reflect |-> "Reflect"]

(* A predicate, as the parser leaves it.                                    *)
Value == [number : U64] \cup [symbol : STRING] \cup [addr : Nat, prefix : 0 .. 32]

Predicate ==
  [node : {"bare"}, field : STRING]
    \cup [node : {"eq"}, field : STRING, value : Value]
    \cup [node : {"packet"}, width : {1, 2, 4}, offset : U16, value : U64]

(* The expressions with so many operators, at most, on a way to a predicate. *)
(* The other ways to write an expression, see Rewritten, nest two deeper.   *)
Trees[d \in 0 .. MAX_DEPTH + 2] ==
  IF d = 0 THEN Predicate
  ELSE LET Operand == Trees[d - 1]
       IN  Predicate
             \cup [node : {"Not"}, l : Operand]
             \cup [node : {"And", "Or"}, l : Operand, r : Operand]

Expr == Trees[MAX_DEPTH]
Tree == Trees[MAX_DEPTH + 2]

-----------------------------------------------------------------------------
(* Analysis.                                                                *)

(* contains_positive_reflect_open.                                          *)
PositiveReflectOpen[e \in Tree] ==
  [polarity \in BOOLEAN |->
     CASE e.node \in {"And", "Or"} ->
            PositiveReflectOpen[e.l][polarity] \/ PositiveReflectOpen[e.r][polarity]
       [] e.node = "Not" -> PositiveReflectOpen[e.l][~ polarity]
       [] e.node = "eq" -> polarity /\ e.field = "event" /\ e.value = Symbol("open")
       [] OTHER -> FALSE]

(* Where an expression stands in the filter, and where an operand of it.    *)
Place == [reflect_context : BOOLEAN, polarity : BOOLEAN]
TopPlace == [reflect_context |-> FALSE, polarity |-> TRUE]

Beside(place, sibling) ==
  [place EXCEPT !.reflect_context = @ \/ PositiveReflectOpen[sibling][place.polarity]]

LeftPlace_Alone(e, place) == place
LeftPlace(e, place) == IF e.node = "And" THEN Beside(place, e.r) ELSE place
RightPlace(e, place) == IF e.node = "And" THEN Beside(place, e.l) ELSE place
Negated(place) == [place EXCEPT !.polarity = ~ @]

(* visit: the predicates of an expression, each with where it stands.       *)
TestsOf[e \in Tree] ==
  [place \in Place |->
     CASE e.node \in {"And", "Or"} ->
            TestsOf[e.l][LeftPlace(e, place)] \cup TestsOf[e.r][RightPlace(e, place)]
       [] e.node = "Not" -> TestsOf[e.l][Negated(place)]
       [] OTHER -> {[test |-> e, place |-> place]}]

(* visit_predicate: the layers a predicate asks for.                        *)
RequiredLayers(t) ==
  IF t.test.node = "packet" THEN {"Network"}
  ELSE IF ~ t.place.polarity THEN {}
  ELSE IF t.test.node = "bare"
  THEN CASE t.test.field \in {"ipv4", "ipv6"} -> NetworkLayer
         [] t.test.field = "outbound" -> {"NetworkForward"}
         [] t.test.field = "inbound" -> {"Network"}
         [] OTHER -> {}
  ELSE CASE t.test.field = "event" ->
              IF t.test.value = Symbol("connect") THEN {"Socket"} ELSE {"Reflect"}
         [] t.test.field = "layer" ->
              IF t.place.reflect_context THEN {} ELSE {LayerNamed[t.test.value.symbol]}
         [] t.test.field = "processId" -> {"Socket"}
         [] t.test.field \in AddrField \cup {"localPort", "remotePort"} -> NetworkLayer
         [] OTHER -> {}

(* What visit_predicate and lower_predicate refuse.                         *)
Fits(value, width) == value.high = 0 /\ (width = 4 \/ value.low < 256 ^ width)

LegalTest(test) ==
  CASE test.node = "packet" -> Fits(test.value, test.width)
    [] test.node = "bare" -> test.field \in PacketField \ (AddrField \cup {"localPort", "remotePort"})
    [] test.node = "eq" /\ test.field = "event" ->
         test.value \in {Symbol("open"), Symbol("connect"), Symbol("close")}
    [] test.node = "eq" /\ test.field = "layer" ->
         IsSymbol(test.value) /\ test.value.symbol \in DOMAIN LayerNamed
    [] test.node = "eq" /\ test.field \in AddrField -> ~ IsSymbol(test.value)
    [] test.node = "eq" /\ test.field \in Field \ (AddrField \cup {"event", "layer", "packet"}) ->
         IsNumber(test.value)
    [] OTHER -> FALSE

FieldOf(test) == IF test.node = "packet" THEN "packet" ELSE test.field

(* analyze, as far as it does not compute the result.                       *)
Legal(e) ==
  LET tests == TestsOf[e][TopPlace]
  IN  /\ \A t \in tests : LegalTest(t.test)
      /\ ~ /\ \E t \in tests : t.test.node = "packet"
           /\ \E t \in tests : t.test.node # "packet" /\ "Flow" \in RequiredLayers(t)

-----------------------------------------------------------------------------
(* Lowering.                                                                *)

ValueOf(field, value) ==
  CASE field \in AddrField /\ IsLiteral(value) ->
         [high |-> value.prefix, low |-> Masked(value.addr, value.prefix)]
    [] field = "event" -> Small([open |-> 1, connect |-> 2, close |-> 3][value.symbol])
    [] field = "layer" -> Small(LayerValue(LayerNamed[value.symbol]))
    [] OTHER -> value.number

(* lower_predicate.                                                         *)
OpOf(test) ==
  CASE test.node = "bare" -> [op |-> "FieldTest", field |-> test.field, value |-> Small(1)]
    [] test.node = "eq" ->
         [op |-> "FieldTest", field |-> test.field, value |-> ValueOf(test.field, test.value)]
    [] test.node = "packet" ->
         [op |-> "PacketLoad", width |-> test.width, offset |-> test.offset, value |-> test.value.low]

OperatorOf(e) == [op |-> e.node]

(* lower_expr.                                                              *)
Lower[e \in Tree] ==
  CASE e.node \in {"And", "Or"} -> Lower[e.l] \o Lower[e.r] \o <<OperatorOf(e)>>
    [] e.node = "Not" -> Lower[e.l] \o <<OperatorOf(e)>>
    [] OTHER -> <<OpOf(e)>>

Compiled(e) ==
  LET tests == TestsOf[e][TopPlace]
  IN  [required_layers |-> UNION {RequiredLayers(t) : t \in tests},
       needs_payload |-> \E t \in tests : t.test.node = "packet",
       referenced_fields |-> {FieldOf(t.test) : t \in tests},
       program |-> Lower[e]]

-----------------------------------------------------------------------------
NoIr ==
  [required_layers |-> {}, needs_payload |-> FALSE, referenced_fields |-> {}, program |-> <<>>]

NoExpr == [node |-> "none"]

(* compile, encode_ir and, on the other side, decode_ir.                    *)
Compile ==
  /\ phase = "compile"
  /\ IF ~ Legal(expr) THEN phase' = "rejected" /\ UNCHANGED ir
     ELSE /\ ir' = Compiled(expr)
          /\ phase' = IF Len(ir'.program) > MAX_PROGRAM_LEN THEN "bad_ir" ELSE "load"
  /\ UNCHANGED <<expr, layer, at, depth, depths, run>>

(* HandleConfig::network, when a client prepares its filter with it before   *)
(* it opens a handle: compiled, the filter has to ask for the layer Network  *)
(* and for no other (crates/wd-user/src/handle.rs).                          *)
SuitsNetwork(program) == program.required_layers = {"Network"}

Incompatible ==
  /\ phase = "load" /\ expr # NoExpr /\ layer = "Network"
  /\ ~ SuitsNetwork(ir)
  /\ phase' = "incompatible"
  /\ UNCHANGED <<expr, engine, at, depth, depths, run>>

CompilerNext == Compile \/ Incompatible \/ (FilterNext /\ UNCHANGED expr)

(* A filter that is still a text, or a program that reached an engine on    *)
(* its own.                                                                 *)
CompilerInit ==
  /\ expr = NoExpr
  /\ \/ /\ ir = NoIr /\ layer = "Network" /\ phase = "parse"
        /\ at = 1 /\ depth = 0 /\ depths = <<>>
        /\ event = NoEvent /\ stack = <<>> /\ verdict = "unasked"
     \/ FilterInit

(* Whatever a text may say: the parser finds an expression in it, for a     *)
(* handle of some layer, or it finds none.  FilterText has the parser.      *)
ReadAny ==
  /\ phase = "parse"
  /\ \/ expr' \in Expr /\ layer' \in Layer /\ phase' = "compile"
     \/ phase' = "unread" /\ UNCHANGED <<expr, layer>>
  /\ UNCHANGED <<ir, at, depth, depths, run>>

CompilerSpec == CompilerInit /\ [][ReadAny \/ CompilerNext]_ccvars

-----------------------------------------------------------------------------
(* Properties.                                                              *)

CompilerTypeOK == expr \in Expr \cup {NoExpr}

(* What a predicate says, in the words of the filter language.              *)
Holds(field, e) ==
  \/ field = "tcp" /\ IsProtocol(e.packet, 6)
  \/ field = "udp" /\ IsProtocol(e.packet, 17)
  \/ field = "ipv4" /\ IsVersion(e.packet, 4)
  \/ field = "ipv6" /\ IsVersion(e.packet, 6)
  \/ field = "inbound" /\ e.layer = "Network"
  \/ field = "outbound" /\ e.layer = "NetworkForward"

InBlock(addr, literal) ==
  \/ literal.prefix = 0
  \/ LET block == 2 ^ (32 - literal.prefix)
     IN  addr \div block = literal.addr \div block

(* Local is where an inbound packet goes, and where an outbound one is from. *)
OfEnd(e, end, source, destination) ==
  IF (end = "local") = (e.layer = "Network") THEN destination ELSE source

Long(bytes) == 256 * (256 * (256 * bytes[1] + bytes[2]) + bytes[3]) + bytes[4]

AddrSays(e, end, literal) ==
  /\ IsVersion(e.packet, 4) /\ Len(e.packet) >= 20
  /\ InBlock(OfEnd(e, end, Long(SubSeq(e.packet, 13, 16)), Long(SubSeq(e.packet, 17, 20))), literal)

(* What is behind the IP header, its options included.                      *)
Transport(p) ==
  IF IsVersion(p, 4) THEN SubSeq(p, 4 * (p[1] - 64) + 1, Len(p)) ELSE SubSeq(p, 41, Len(p))

PortSays(e, end, value) ==
  /\ IsProtocol(e.packet, 6) \/ IsProtocol(e.packet, 17)
  /\ LET t == Transport(e.packet)
     IN  /\ Len(t) >= 4
         /\ value = Small(OfEnd(e, end, 256 * t[1] + t[2], 256 * t[3] + t[4]))

PacketSays(test, e) ==
  \/ test.node = "packet" /\ test.value.low \in Loaded(e.packet, test.width, test.offset)
  \/ test.node = "bare" /\ Holds(test.field, e)
  \/ test.node = "eq" /\
       CASE test.field = "layer" -> LayerNamed[test.value.symbol] = e.layer
         [] test.field = "localPort" -> PortSays(e, "local", test.value.number)
         [] test.field = "remotePort" -> PortSays(e, "remote", test.value.number)
         [] test.field = "localAddr" -> AddrSays(e, "local", test.value)
         [] test.field = "remoteAddr" -> AddrSays(e, "remote", test.value)
         [] OTHER -> test.value.number = Small(IF Holds(test.field, e) THEN 1 ELSE 0)

EventSays(test, e) ==
  /\ test.node = "eq"
  /\ \/ test.field = "layer" /\ LayerNamed[test.value.symbol] = e.layer
     \/ test.field = "processId" /\ \E id \in e.process_id : test.value.number = Small(id)
     \/ test.field = "event" /\
          CASE test.value = Symbol("open") -> e.layer = "Reflect" /\ e.kind = 1
            [] test.value = Symbol("close") -> e.layer = "Reflect" /\ e.kind = 3
            [] test.value = Symbol("connect") -> e.layer = "Socket"

Says[x \in Tree] ==
  [e \in Event |->
     CASE x.node = "And" -> Says[x.l][e] /\ Says[x.r][e]
       [] x.node = "Or" -> Says[x.l][e] \/ Says[x.r][e]
       [] x.node = "Not" -> ~ Says[x.l][e]
       [] OTHER -> IF e.layer \in NetworkLayer THEN PacketSays(x, e) ELSE EventSays(x, e)]

(* An address is spelt as one.  Compared with a number it has no meaning in *)
(* the filter language, though the compiler takes it (ir.rs:349).           *)
IsSpelt(test) == test.node = "eq" /\ test.field \in AddrField => ~ IsNumber(test.value)
HasMeaning(x) == \A t \in TestsOf[x][TopPlace] : IsSpelt(t.test)

(* Compiled, encoded, decoded and run with a stack, a filter says of every  *)
(* event of its layer what the expression says (semantics.rs, ir.rs and     *)
(* filter_eval.rs together), it matches nothing on another layer, and it    *)
(* never panics.                                                            *)
VerdictIsMeaning ==
  expr # NoExpr /\ HasMeaning(expr) =>
    /\ phase # "panicked"
    /\ verdict # "unasked" /\ phase = "ready" =>
         (verdict = "true" <=> (event.layer = layer /\ Says[expr][event]))

(* The engine refuses no compiled filter for the shape of its program.      *)
CompiledIsWellShaped == phase = "bad_shape" => expr = NoExpr

(* Other ways to write an expression: operands swapped, negated twice, ...  *)
Reordered(x) ==
  {Not(Not(x))}
    \cup (IF x.node = "And" THEN {And(x.r, x.l)} ELSE {})
    \cup (IF x.node = "Or" THEN {Or(x.r, x.l)} ELSE {})

(* ... a negation moved inside, a conjunction moved inside.                 *)
Rewritten(x) ==
  Reordered(x)
    \cup (IF x.node = "And" THEN {Not(Or(Not(x.l), Not(x.r)))} ELSE {})
    \cup (IF x.node = "Or" THEN {Not(And(Not(x.l), Not(x.r)))} ELSE {})
    \cup (IF x.node = "And" /\ x.l.node = "Or"
          THEN {Or(And(x.l.l, x.r), And(x.l.r, x.r))} ELSE {})

Opens(x) == Legal(x) /\ ValidIr(layer, Compiled(x))

(* Whether a filter is accepted for a layer does not depend on which of     *)
(* several equivalent ways its author chose to write it, nor do its layers  *)
(* on the order of its operands (semantics.rs:64-85, where the context of a *)
(* predicate is found from its neighbours).                                 *)
EquivalentFiltersOpenAlike ==
  phase = "compile" =>
    /\ \A y \in Rewritten(expr) : Opens(y) = Opens(expr)
    /\ \A y \in Reordered(expr) :
         /\ Legal(y) = Legal(expr)
         /\ Legal(expr) => Compiled(y).required_layers = Compiled(expr).required_layers

-----------------------------------------------------------------------------
(* A statement of the documents that the code does not keep.                *)

(* README.md:237 lists event == ESTABLISHED among the supported predicates. *)
EstablishedIsSupported ==
  expr = FieldEq("event", Symbol("established")) => phase # "rejected"

=============================================================================
