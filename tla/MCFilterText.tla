---------------------------- MODULE MCFilterText ----------------------------
EXTENDS FilterText

CONSTANTS
  MaxOps,     \* opcodes in a program no compiler wrote
  MaxPieces   \* pieces in a text no author meant

MCTests ==
  {Bare("tcp"), Bare("inbound"), FieldEq("layer", Symbol("flow")),
   FieldEq("layer", Symbol("network")), FieldEq("event", Symbol("open")),
   FieldEq("processId", Number(Small(7))), PacketEq(1, 9, Small(6))}

MCLeaves ==
  MCTests \cup
  {Bare("udp"), Bare("ipv4"), Bare("ipv6"), Bare("outbound"), Bare("localPort"),
   FieldEq("event", Symbol("connect")), FieldEq("event", Symbol("close")),
   FieldEq("event", Symbol("established")), FieldEq("event", Number(Small(2))),
   FieldEq("layer", Symbol("network_forward")), FieldEq("layer", Symbol("socket")),
   FieldEq("layer", Symbol("reflect")), FieldEq("layer", Number(Small(1))),
   FieldEq("localPort", Number(Small(53))), FieldEq("remotePort", Number(Small(80))),
   FieldEq("remotePort", Symbol("http")), FieldEq("remoteAddr", Literal(9, 30)),
   FieldEq("remoteAddr", Literal(9, 32)), FieldEq("localAddr", Literal(5, 32)),
   FieldEq("localAddr", Literal(9, 0)), FieldEq("localAddr", Symbol("nowhere")),
   FieldEq("tcp", Number(Small(1))), FieldEq("udp", Number(Small(0))), FieldEq("ipv6", Symbol("yes")),
   FieldEq("processId", Symbol("me")), FieldEq("layer", Symbol("kernel")), PacketEq(2, 8, Small(16390)), PacketEq(1, 9, Small(256)),
   PacketEq(4, 12, Small(9)), PacketEq(4, 12, [high |-> 1, low |-> 9]),
   FieldEq("localAddr", Number(Small(9))), FieldEq("remoteAddr", Number([high |-> 34, low |-> 0])),
   FieldEq("remoteAddr", Number([high |-> 288, low |-> 9])),
   FieldEq("localPort", Number([high |-> 1, low |-> 53]))}

MCPairs(left, right) ==
  {And(x, y) : x \in left, y \in right} \cup {Or(x, y) : x \in left, y \in right}

MCDeep == MCTests \cup {Not(x) : x \in MCTests} \cup MCPairs(MCTests, MCTests)

(* Every predicate on its own and negated, and every expression of depth    *)
(* two over seven predicates with a predicate on its right.                 *)
MCExprs ==
  MCLeaves \cup {Not(x) : x \in MCLeaves \cup MCDeep} \cup MCPairs(MCDeep, MCTests)

(* The filter of demo-dns-redirect. *)
MCDnsDemo == And(Bare("udp"), Bare("outbound"))

(* An expression written down with no parentheses but the ones it needs.    *)
MCOctets(a) == <<0, 0, (a \div 256) % 256, a % 256>>

MCValue(v) ==
  CASE IsNumber(v) -> Digits(v.number)
    [] IsSymbol(v) -> Word(v.symbol)
    [] IsLiteral(v) -> Dotted(MCOctets(v.addr), v.prefix)

MCAccessor(width) == CASE width = 1 -> "packet" [] width = 2 -> "packet16" [] width = 4 -> "packet32"

MCStrength(e) == CASE e.node = "Or" -> 1 [] e.node = "And" -> 2 [] e.node = "Not" -> 3 [] OTHER -> 4

RECURSIVE MCWritten(_)
MCIn(e, strength) ==
  IF MCStrength(e) >= strength THEN MCWritten(e)
  ELSE <<Mark("(")>> \o MCWritten(e) \o <<Mark(")")>>

MCWritten(e) ==
  CASE e.node = "Or" -> MCIn(e.l, 1) \o <<Word("or")>> \o MCIn(e.r, 2)
    [] e.node = "And" -> MCIn(e.l, 2) \o <<Word("and")>> \o MCIn(e.r, 3)
    [] e.node = "Not" -> <<Word("not")>> \o MCIn(e.l, 3)
    [] e.node = "bare" -> <<Word(e.field)>>
    [] e.node = "eq" -> <<Word(e.field), Mark("=="), MCValue(e.value)>>
    [] e.node = "packet" -> <<Word(MCAccessor(e.width)), Mark("["), Digits(Small(e.offset)), Mark("]"),
                              Mark("=="), Digits(e.value)>>

(* Any few pieces, and longer texts with a piece left out, twice or moved.  *)
MCPieces ==
  {Word(w) : w \in {"tcp", "packet", "and", "or", "not"}}
    \cup {Mark(m) : m \in {"==", "[", "]", "(", ")", "="}} \cup {Digits(Small(9))}

MCLong ==
  {MCWritten(Or(And(Bare("tcp"), Bare("inbound")), And(Bare("udp"), Not(Bare("outbound"))))),
   MCWritten(And(Or(Bare("tcp"), PacketEq(1, 9, Small(17))), Not(FieldEq("localPort", Number(Small(53)))))),
   MCWritten(Not(And(PacketEq(2, 8, Small(16390)), FieldEq("remoteAddr", Literal(9, 30)))))}

MCSlips(t) ==
  {Before(t, k) \o After(t, k) : k \in 1 .. Len(t)}
    \cup {Before(t, k) \o <<t[k], t[k]>> \o After(t, k) : k \in 1 .. Len(t)}
    \cup {Before(t, k) \o <<t[k + 1], t[k]>> \o After(t, k + 1) : k \in 1 .. Len(t) - 1}

MCEdges ==
  {<<Word("packet"), Mark("["), Digits(n), Mark("]"), Mark("=="), Digits(Small(9))>> :
     n \in {Small(65535), Small(65536), [high |-> 1, low |-> 9]}}
    \cup {<<Word("localAddr"), Mark("=="), Dotted(o, p)>> :
            o \in {<<0, 0, 0, 255>>, <<0, 0, 0, 256>>, <<0, 0, 1>>}, p \in {32, 33}}
    \cup {<<Word("localAddr"), Mark("=="), Digits([high |-> h, low |-> 9])>> : h \in {MAX_HIGH, MAX_HIGH + 1}}
    \cup {<<Dotted(<<0, 0, 0, 9>>, 32)>>, <<Word("tcp"), Mark("[")>>}

MCTexts ==
  {MCWritten(e) : e \in MCExprs \cup {MCDnsDemo}}
    \cup UNION {[1 .. n -> MCPieces] : n \in 0 .. MaxPieces}
    \cup UNION {MCSlips(t) : t \in MCLong}
    \cup MCEdges

-----------------------------------------------------------------------------
(* Programs no compiler wrote: one test for every layer, one for some, one  *)
(* that needs a packet, and the three operators, in any order.              *)
MCOpCodes ==
  {[op |-> "FieldTest", field |-> "layer", value |-> Small(1)],
   [op |-> "FieldTest", field |-> "event", value |-> Small(2)],
   [op |-> "FieldTest", field |-> "remoteAddr", value |-> [high |-> 34, low |-> 0]],
   [op |-> "PacketLoad", width |-> 1, offset |-> 9, value |-> 6],
   [op |-> "And"], [op |-> "Or"], [op |-> "Not"]}

MCIrs ==
  {[required_layers |-> {}, needs_payload |-> FALSE, referenced_fields |-> {}, program |-> p] :
     p \in UNION {[1 .. n -> MCOpCodes] : n \in 0 .. MaxOps}}

(* From 0.0.0.9, port 80, to 0.0.0.5, port 53, without options and with one *)
(* that looks like the ports the other way round; UDP without its ports;    *)
(* IPv6, with ports and without; a packet that breaks off.                  *)
MCHeader(version, protocol) ==
  <<version, 0, 0, 24, 0, 0, 0, 0, 64, protocol, 0, 0, 0, 0, 0, 9, 0, 0, 0, 5>>

MCHeader6 == <<96, 0, 0, 0, 0, 4, 17>> \o [i \in 1 .. 33 |-> 0]

MCEvents ==
  {[layer |-> l, packet |-> p] : l \in NetworkLayer,
     p \in {MCHeader(69, 6) \o <<0, 80, 0, 53>>, MCHeader(70, 17) \o <<0, 53, 0, 80, 0, 80, 0, 53>>,
            MCHeader(69, 17), MCHeader6 \o <<0, 80, 0, 53>>, <<96, 0, 0, 0, 0, 0, 6>>, <<69>>}}
    \cup {[layer |-> "Socket", kind |-> 2, process_id |-> {7}],
          [layer |-> "Flow", kind |-> 4, process_id |-> {7}],
          [layer |-> "Flow", kind |-> 4, process_id |-> {8}],
          [layer |-> "Reflect", kind |-> 1, process_id |-> {}],
          [layer |-> "Reflect", kind |-> 3, process_id |-> {}]}

=============================================================================
