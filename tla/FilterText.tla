----------------------------- MODULE FilterText -----------------------------
(***************************************************************************)
(* From the text of a filter to its expression: crates/wd-filter/src's      *)
(* lexer.rs and parser.rs, in front of the compiler of FilterCompiler.  The *)
(* engine of a driver may also be given a program no compiler of this       *)
(* project wrote, so a behaviour starts with a text or with a program.      *)
(*                                                                          *)
(* A text is a sequence of the pieces the lexer cuts it into: a word in     *)
(* lower case, a mark, a run of digits, or digits with dots and a slash.    *)
(***************************************************************************)
EXTENDS FilterCompiler

CONSTANTS
  Texts,       \* the filters to read
  MAX_HIGH     \* u64::MAX >> 32

VARIABLE text

tvars == <<text, ccvars>>

Word(w) == [word |-> w]
Mark(m) == [mark |-> m]
Digits(value) == [digits |-> value]
Dotted(octets, prefix) == [octets |-> octets, prefix |-> prefix]

IsPiece(piece, kind) == kind \in DOMAIN piece

-----------------------------------------------------------------------------
(* The lexer.                                                               *)

(* parse_ipv4_literal_or_cidr; an address without a prefix has all 32 bits. *)
IsAddress(octets, prefix) ==
  /\ Len(octets) = 4
  /\ \A i \in 1 .. Len(octets) : octets[i] <= 255
  /\ prefix <= 32

AddressOf(o) == 256 * (256 * (256 * o[1] + o[2]) + o[3]) + o[4]

IsLexed(piece) ==
  \/ IsPiece(piece, "word")
  \/ IsPiece(piece, "mark") /\ piece.mark \in {"==", "[", "]", "(", ")"}
  \/ IsPiece(piece, "digits") /\ piece.digits.high <= MAX_HIGH
  \/ IsPiece(piece, "octets") /\ IsAddress(piece.octets, piece.prefix)

TokenOf(piece) ==
  CASE IsPiece(piece, "word") /\ piece.word \in {"and", "or", "not"} -> [kind |-> piece.word]
    [] IsPiece(piece, "word") /\ piece.word \notin {"and", "or", "not"} ->
         [kind |-> "ident", value |-> Symbol(piece.word)]
    [] IsPiece(piece, "mark") -> [kind |-> piece.mark]
    [] IsPiece(piece, "digits") -> [kind |-> "number", value |-> Number(piece.digits)]
    [] IsPiece(piece, "octets") ->
         [kind |-> "ident", value |-> Literal(AddressOf(piece.octets), piece.prefix)]

(* lex: everything is cut into tokens, or nothing is.                       *)
Lexes(pieces) == \A i \in 1 .. Len(pieces) : IsLexed(pieces[i])
Lexed(pieces) == [i \in 1 .. Len(pieces) |-> TokenOf(pieces[i])]

-----------------------------------------------------------------------------
(* The parser: what a function of it returns for the tokens ts with idx = i *)
(* is an expression and the idx it leaves, or a failure.                    *)

RECURSIVE ParseOr(_, _), ParseAnd(_, _), ParseNot(_, _), OrRest(_, _), AndRest(_, _)

Kind(ts, i) == IF i <= Len(ts) THEN ts[i].kind ELSE "end"
Parsed(e, i) == [ok |-> TRUE, expr |-> e, idx |-> i]
Failed == [ok |-> FALSE]

(* A field is the text of its identifier; no field is spelt as an address.  *)
FieldName(token) == IF IsSymbol(token.value) THEN token.value.symbol ELSE "an address"

PacketWidths == [packet |-> 1, packet16 |-> 2, packet32 |-> 4]

IsU16(value) == value.high = 0 /\ value.low < 2 ^ 16

ParsePacket_OffsetUnchecked(ts, i) ==
  IF /\ Kind(ts, i + 2) = "number"
     /\ Kind(ts, i + 3) = "]" /\ Kind(ts, i + 4) = "==" /\ Kind(ts, i + 5) = "number"
     /\ FieldName(ts[i]) \in DOMAIN PacketWidths
  THEN Parsed(PacketEq(PacketWidths[FieldName(ts[i])], ts[i + 2].value.number.low,
                       ts[i + 5].value.number), i + 6)
  ELSE Failed

ParsePacket(ts, i) ==
  IF /\ Kind(ts, i + 2) = "number" /\ IsU16(ts[i + 2].value.number)
     /\ Kind(ts, i + 3) = "]" /\ Kind(ts, i + 4) = "==" /\ Kind(ts, i + 5) = "number"
     /\ FieldName(ts[i]) \in DOMAIN PacketWidths
  THEN Parsed(PacketEq(PacketWidths[FieldName(ts[i])], ts[i + 2].value.number.low,
                       ts[i + 5].value.number), i + 6)
  ELSE Failed

ParsePredicate(ts, i) ==
  CASE Kind(ts, i) # "ident" -> Failed
    [] Kind(ts, i) = "ident" /\ Kind(ts, i + 1) = "[" -> ParsePacket(ts, i)
    [] Kind(ts, i) = "ident" /\ Kind(ts, i + 1) = "==" ->
         IF Kind(ts, i + 2) \in {"number", "ident"}
         THEN Parsed(FieldEq(FieldName(ts[i]), ts[i + 2].value), i + 3) ELSE Failed
    [] OTHER -> Parsed(Bare(FieldName(ts[i])), i + 1)

ParsePrimary(ts, i) ==
  IF Kind(ts, i) # "(" THEN ParsePredicate(ts, i)
  ELSE LET inner == ParseOr(ts, i + 1)
       IN  IF inner.ok /\ Kind(ts, inner.idx) = ")"
           THEN Parsed(inner.expr, inner.idx + 1) ELSE Failed

ParseNot(ts, i) ==
  IF Kind(ts, i) # "not" THEN ParsePrimary(ts, i)
  ELSE LET inner == ParseNot(ts, i + 1)
       IN  IF inner.ok THEN Parsed(Not(inner.expr), inner.idx) ELSE Failed

AndRest(ts, left) ==
  IF ~ left.ok \/ Kind(ts, left.idx) # "and" THEN left
  ELSE LET right == ParseNot(ts, left.idx + 1)
       IN  IF right.ok THEN AndRest(ts, Parsed(And(left.expr, right.expr), right.idx)) ELSE Failed

ParseAnd(ts, i) == AndRest(ts, ParseNot(ts, i))

OrRest(ts, left) ==
  IF ~ left.ok \/ Kind(ts, left.idx) # "or" THEN left
  ELSE LET right == ParseAnd(ts, left.idx + 1)
       IN  IF right.ok THEN OrRest(ts, Parsed(Or(left.expr, right.expr), right.idx)) ELSE Failed

ParseOr(ts, i) == OrRest(ts, ParseAnd(ts, i))

Parse_IgnoresRest(ts) == ParseOr(ts, 1)

(* parse.                                                                   *)
Parse(ts) ==
  LET parsed == ParseOr(ts, 1)
  IN  IF parsed.ok /\ parsed.idx = Len(ts) + 1 THEN parsed ELSE Failed

-----------------------------------------------------------------------------
(* A filter to read, or a program that reached an engine on its own.        *)
TextInit == CompilerInit /\ text \in IF phase = "parse" THEN Texts ELSE {<<>>}

(* lex and parse, for a handle of some layer.                               *)
Read ==
  /\ phase = "parse"
  /\ IF Lexes(text) /\ Parse(Lexed(text)).ok
     THEN /\ expr' = Parse(Lexed(text)).expr
          /\ phase' = "compile"
          /\ layer' \in Layer
     ELSE phase' = "unread" /\ UNCHANGED <<expr, layer>>
  /\ UNCHANGED <<text, ir, at, depth, depths, run>>

TextNext == Read \/ (CompilerNext /\ UNCHANGED text)

TextSpec == TextInit /\ [][TextNext]_tvars

-----------------------------------------------------------------------------
(* Properties.                                                              *)

(* The grammar of a filter, by where its weakest operator stands: or, then  *)
(* and, then not, and the last of several alike.  All the expressions a     *)
(* sequence of tokens can be read as.                                       *)
RECURSIVE Disjunctions(_), Conjunctions(_), Negations(_)

At(ts, kind) == {k \in 1 .. Len(ts) : ts[k].kind = kind}
Before(ts, k) == SubSeq(ts, 1, k - 1)
After(ts, k) == SubSeq(ts, k + 1, Len(ts))
Kinds(ts) == [i \in 1 .. Len(ts) |-> ts[i].kind]

Predicates(ts) ==
  CASE Kinds(ts) = <<"ident">> -> {Bare(FieldName(ts[1]))}
    [] Kinds(ts) \in {<<"ident", "==", "number">>, <<"ident", "==", "ident">>} ->
         {FieldEq(FieldName(ts[1]), ts[3].value)}
    [] Kinds(ts) = <<"ident", "[", "number", "]", "==", "number">> ->
         {PacketEq(PacketWidths[w], ts[3].value.number.low, ts[6].value.number) :
            w \in {w \in DOMAIN PacketWidths : /\ w = FieldName(ts[1])
                                               /\ ts[3].value.number.low <= 65535
                                               /\ ts[3].value.number.high = 0}}
    [] OTHER -> {}

Negations(ts) ==
  CASE Kind(ts, 1) = "not" -> {Not(e) : e \in Negations(Tail(ts))}
    [] Kind(ts, 1) = "(" /\ Kind(ts, Len(ts)) = ")" -> Disjunctions(Before(Tail(ts), Len(ts) - 1))
    [] OTHER -> Predicates(ts)

Conjunctions(ts) ==
  Negations(ts) \cup
  UNION {{And(l, r) : l \in Conjunctions(Before(ts, k)), r \in Negations(After(ts, k))} :
           k \in At(ts, "and")}

Disjunctions(ts) ==
  Conjunctions(ts) \cup
  UNION {{Or(l, r) : l \in Disjunctions(Before(ts, k)), r \in Conjunctions(After(ts, k))} :
           k \in At(ts, "or")}

(* A filter is read as the one expression its grammar gives it, all of it;  *)
(* one without a reading, with a number too large or with an address that   *)
(* is none, is refused and never read in part (parser.rs:44-154).           *)
ReadsAsTheGrammar ==
  LET readings == IF Lexes(text) THEN Disjunctions(Lexed(text)) ELSE {}
  IN  /\ phase = "compile" => readings = {expr}
      /\ phase = "unread" => readings = {}

-----------------------------------------------------------------------------
(* A statement of the documents that the code does not keep.                *)

(* README.md:430-431, on demo-dns-redirect: the filter "udp and outbound"   *)
(* is compiled and then a session on Layer::Network is opened with it.      *)
DnsDemoOpensItsSession ==
  expr = And(Bare("udp"), Bare("outbound")) => phase # "incompatible"

=============================================================================
