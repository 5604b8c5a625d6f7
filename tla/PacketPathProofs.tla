-------------------------- MODULE PacketPathProofs --------------------------
(***************************************************************************)
(* What is proved of the packets' way, for every packet, message, buffer   *)
(* and size of the ring.                                                   *)
(*                                                                         *)
(* What is proved of the ring machine holds of the ring on this way: no    *)
(* step touches the ring except through its operations.                    *)
(*                                                                         *)
(* A message is proved about as a sequence of pieces.  An encoder joins    *)
(* them, so each stands at a known place (HasPiece); a decoder cuts at     *)
(* known places, so it gives the pieces back (PieceIsRead).  One lemma     *)
(* says what a receiver finds in a message's header however the message    *)
(* comes (ArrivalIsJudged), one lemma per message what its decoder makes   *)
(* of it.  The inductive invariant, PathInv, is that what the client holds *)
(* is what it decoded but for the bytes it may edit (EventKept), that a    *)
(* packet is dirty, as it came, or right (ChecksumKept), that what crossed *)
(* last was read right (HeardKept), and that the packets on the ring and   *)
(* the one received in this session were captured in it (CaptureKept).     *)
(***************************************************************************)
EXTENDS PacketPath, FrameRingProofs, SequenceTheorems,
        FiniteSetTheorems, WellFoundedInduction

(* Every step of the packets' way is a call of the ring or leaves the ring *)
(* and what it handed out alone.                                           *)
LEMMA PathStepIsRingStep == [PathNext]_pathVars => [Next]_vars
  <1> SUFFICES ASSUME [PathNext]_pathVars
               PROVE  [Next]_vars
    OBVIOUS
  <1>1. ASSUME NEW request \in Requests, Ask(request)
        PROVE  UNCHANGED vars
    BY <1>1 DEF Ask
  <1>2. ASSUME NEW response \in Responses, Answer(response)
        PROVE  UNCHANGED vars
    BY <1>2 DEF Answer
  <1>3. ASSUME NEW frame \in Frames, Capture(frame)
        PROVE  Next
    BY <1>3 DEF Capture, Next
  <1>4. ASSUME NEW outputLen \in OutputLens, Receive(outputLen)
        PROVE  Next
    BY <1>4 DEF Receive, Next
  <1>5. CASE Overhear
    BY <1>5 DEF Overhear
  <1>6. ASSUME NEW ttl \in Ttls, SetTtl(ttl)
        PROVE  UNCHANGED vars
    BY <1>6 DEF SetTtl
  <1>7. CASE RepairChecksums
    BY <1>7 DEF RepairChecksums
  <1>8. CASE Send
    BY <1>8 DEF Send
  <1>9. CASE Lose \/ Close
    BY <1>9 DEF Lose, Close, Next
  <1>10. CASE UNCHANGED pathVars
    BY <1>10 DEF pathVars
  <1> QED
    BY <1>1, <1>2, <1>3, <1>4, <1>5, <1>6, <1>7, <1>8, <1>9, <1>10 DEF PathNext

(* The packets' way is a use of the ring machine, for every frame, message *)
(* and buffer (driver/wd-kmdf-core/src/lib.rs:250-309).                    *)
THEOREM PathUsesTheRing == PathSpec => Spec
  <1>1. PathInit => Init
    BY DEF PathInit
  <1> QED
    BY <1>1, PathStepIsRingStep, PTL DEF PathSpec, Spec

(* So its ring is the bounded drop-oldest queue (lib.rs:250-309). *)
COROLLARY PathRingIsEventQueue == PathSpec => ImplementsEventQueue
  BY PathUsesTheRing, FrameRingIsEventQueue


(* A sequence, whatever its elements: what a decoder cuts out of a message  *)
(* does not depend on the bytes in it.                                     *)
IsSeq(s) == \E S : s \in Seq(S)

(* A sequence has a length, and a place for every number up to it. *)
LEMMA SeqParts ==
  ASSUME NEW s, IsSeq(s)
  PROVE  Len(s) \in Nat /\ DOMAIN s = 1 .. Len(s)
  BY LenProperties DEF IsSeq

(* Two sequences of one length that agree at every place are one. *)
LEMMA SeqSame ==
  ASSUME NEW s, NEW t, IsSeq(s), IsSeq(t), Len(s) = Len(t),
         \A i \in 1 .. Len(s) : s[i] = t[i]
  PROVE  s = t
  <1>1. PICK S, T : s \in Seq(S) /\ t \in Seq(T)
    BY DEF IsSeq
  <1>2. s \in Seq(S \cup T) /\ t \in Seq(S \cup T)
    BY <1>1, SeqMonotonic
  <1> QED
    BY <1>2, SeqEqual

(* What two sequences, one behind the other, are. *)
LEMMA Joined ==
  ASSUME NEW s, NEW t, IsSeq(s), IsSeq(t)
  PROVE  /\ IsSeq(s \o t)
         /\ Len(s \o t) = Len(s) + Len(t)
         /\ \A i \in 1 .. Len(s) : (s \o t)[i] = s[i]
         /\ \A i \in 1 .. Len(t) : (s \o t)[Len(s) + i] = t[i]
  <1>1. PICK S, T : s \in Seq(S) /\ t \in Seq(T)
    BY DEF IsSeq
  <1>2. s \in Seq(S \cup T) /\ t \in Seq(S \cup T)
    BY <1>1, SeqMonotonic
  <1>3. Len(s) \in Nat /\ Len(t) \in Nat
    BY SeqParts
  <1>4. /\ s \o t \in Seq(S \cup T)
        /\ Len(s \o t) = Len(s) + Len(t)
        /\ \A i \in 1 .. Len(s) + Len(t) :
             (s \o t)[i] = IF i <= Len(s) THEN s[i] ELSE t[i - Len(s)]
    BY <1>2, ConcatProperties
  <1>5. IsSeq(s \o t)
    BY <1>4 DEF IsSeq
  <1>6. ASSUME NEW i \in 1 .. Len(t)
        PROVE  (s \o t)[Len(s) + i] = t[i]
    <2>1. Len(s) + i \in 1 .. Len(s) + Len(t) /\ ~ (Len(s) + i <= Len(s)) /\ Len(s) + i - Len(s) = i
      BY <1>3
    <2> QED
      BY <1>4, <2>1
  <1> QED
    BY <1>3, <1>4, <1>5, <1>6

(* What a part cut out of a sequence is; it may be empty. *)
LEMMA PartOf ==
  ASSUME NEW s, IsSeq(s), NEW m \in Nat, NEW n \in Nat, m <= n, n <= Len(s)
  PROVE  /\ IsSeq(SubSeq(s, m + 1, n))
         /\ Len(SubSeq(s, m + 1, n)) = n - m
         /\ \A i \in 1 .. n - m : SubSeq(s, m + 1, n)[i] = s[m + i]
  <1>1. PICK S : s \in Seq(S)
    BY DEF IsSeq
  <1>2. \A i \in m + 1 .. n : s[i] \in S
    BY <1>1, ElementOfSeq
  <1>3. /\ SubSeq(s, m + 1, n) \in Seq(S)
        /\ Len(SubSeq(s, m + 1, n)) = IF m + 1 <= n THEN n - (m + 1) + 1 ELSE 0
        /\ \A i \in 1 .. n - (m + 1) + 1 : SubSeq(s, m + 1, n)[i] = s[m + 1 + i - 1]
    BY <1>2, SubSeqProperties
  <1>4. \A i \in 1 .. n - m : SubSeq(s, m + 1, n)[i] = s[m + i]
    BY <1>3
  <1> QED
    BY <1>3, <1>4 DEF IsSeq

(* What a sequence with one byte replaced is. *)
LEMMA Replaced ==
  ASSUME NEW s, IsSeq(s), NEW place \in 1 .. Len(s), NEW byte
  PROVE  /\ IsSeq([s EXCEPT ![place] = byte])
         /\ Len([s EXCEPT ![place] = byte]) = Len(s)
         /\ [s EXCEPT ![place] = byte][place] = byte
         /\ \A i \in 1 .. Len(s) : i # place => [s EXCEPT ![place] = byte][i] = s[i]
  <1>1. PICK S : s \in Seq(S)
    BY DEF IsSeq
  <1>2. s \in Seq(S \cup {byte})
    BY <1>1, SeqMonotonic
  <1>3. /\ [s EXCEPT ![place] = byte] \in Seq(S \cup {byte})
        /\ Len([s EXCEPT ![place] = byte]) = Len(s)
        /\ \A j \in 1 .. Len(s) :
             [s EXCEPT ![place] = byte][j] = IF j = place THEN byte ELSE s[j]
    BY <1>2, ExceptSeq
  <1> QED
    BY <1>3 DEF IsSeq

(* Four bytes written out are a sequence. *)
LEMMA FourBytes ==
  ASSUME NEW w, NEW x, NEW y, NEW z
  PROVE  /\ IsSeq(<<w, x, y, z>>) /\ Len(<<w, x, y, z>>) = 4
         /\ <<w, x, y, z>>[1] = w /\ <<w, x, y, z>>[2] = x
         /\ <<w, x, y, z>>[3] = y /\ <<w, x, y, z>>[4] = z
  <1> DEFINE S == {w, x, y, z}
  <1>1. <<w, x, y, z>> \in Seq(S)
    OBVIOUS
  <1>2. \E T : <<w, x, y, z>> \in Seq(T)
    <2> HIDE DEF S
    <2> WITNESS S
    <2> QED
      BY <1>1
  <1> QED
    BY <1>2 DEF IsSeq

(* Four bytes carry a number. *)
LEMMA LengthBytes ==
  ASSUME NEW n \in Nat
  PROVE  /\ IsSeq(LE4(n)) /\ Len(LE4(n)) = 4
         /\ FromLE4(LE4(n), 1) = n
  <1> DEFINE a == n \div 256
             b == a \div 256
             c == b \div 256
  <1>1. a \in Nat /\ b \in Nat /\ c \in Nat
    OBVIOUS
  <1>2. /\ n = 256 * a + (n % 256)
        /\ a = 256 * b + (a % 256)
        /\ b = 256 * c + (b % 256)
    OBVIOUS
  <1>3. n \div 65536 = b /\ n \div 16777216 = c
    OBVIOUS
  <1>4. LE4(n) = <<n % 256, a % 256, b % 256, c>>
    BY <1>3 DEF LE4
  <1>5. IsSeq(LE4(n)) /\ Len(LE4(n)) = 4
    BY FourBytes DEF LE4
  <1>6. FromLE4(LE4(n), 1) = (n % 256) + 256 * (a % 256) + 65536 * (b % 256) + 16777216 * c
    BY <1>4 DEF FromLE4
  <1> QED
    BY <1>1, <1>2, <1>5, <1>6

(* The bytes of part stand in s behind the first at bytes. *)
HasPiece(s, at, part) ==
  /\ at + Len(part) <= Len(s)
  /\ \A i \in 1 .. Len(part) : s[at + i] = part[i]

(* Two parts joined are pieces of the whole, and so are their own pieces. *)
LEMMA PiecesJoin ==
  ASSUME NEW s, NEW t, IsSeq(s), IsSeq(t)
  PROVE  /\ HasPiece(s \o t, 0, s)
         /\ HasPiece(s \o t, Len(s), t)
         /\ \A at \in Nat : \A part :
              IsSeq(part) /\ HasPiece(s, at, part) => HasPiece(s \o t, at, part)
  <1>1. Len(s) \in Nat /\ Len(t) \in Nat
    BY SeqParts
  <1>2. HasPiece(s \o t, 0, s) /\ HasPiece(s \o t, Len(s), t)
    BY <1>1, Joined DEF HasPiece
  <1>3. ASSUME NEW at \in Nat, NEW part, IsSeq(part), HasPiece(s, at, part)
        PROVE  HasPiece(s \o t, at, part)
    <2>1. Len(part) \in Nat /\ at + Len(part) <= Len(s)
      BY <1>3, SeqParts DEF HasPiece
    <2>2. ASSUME NEW i \in 1 .. Len(part)
          PROVE  (s \o t)[at + i] = part[i]
      <3>1. at + i \in 1 .. Len(s)
        BY <1>1, <2>1
      <3> QED
        BY <1>3, <3>1, Joined DEF HasPiece
    <2> QED
      BY <1>1, <2>1, <2>2, Joined DEF HasPiece
  <1> QED
    BY <1>2, <1>3

(* Cutting where a piece stands gives the piece. *)
LEMMA PieceIsRead ==
  ASSUME NEW s, IsSeq(s), NEW at \in Nat, NEW part, IsSeq(part), HasPiece(s, at, part)
  PROVE  Bytes(s, at, at + Len(part)) = part
  <1>1. Len(part) \in Nat /\ Len(s) \in Nat /\ at + Len(part) <= Len(s)
    BY SeqParts DEF HasPiece
  <1> DEFINE end == at + Len(part)
  <1>2. end \in Nat /\ at <= end /\ end <= Len(s) /\ end - at = Len(part)
    BY <1>1
  <1>3. /\ IsSeq(SubSeq(s, at + 1, end))
        /\ Len(SubSeq(s, at + 1, end)) = Len(part)
        /\ \A i \in 1 .. Len(part) : SubSeq(s, at + 1, end)[i] = s[at + i]
    <2> HIDE DEF end
    <2> QED
      BY <1>2, PartOf
  <1> QED
    BY <1>3, SeqSame DEF HasPiece, Bytes

(* PieceIsRead, where the end of the piece is known by another name. *)
LEMMA PartIsRead ==
  ASSUME NEW raw, NEW at \in Nat, NEW part, IsSeq(raw), IsSeq(part), HasPiece(raw, at, part),
         NEW upTo \in Nat, upTo = at + Len(part)
  PROVE  Bytes(raw, at, upTo) = part
  BY PieceIsRead

(* A number is read from where its four bytes stand. *)
LEMMA NumberIsRead ==
  ASSUME NEW s, NEW at \in Nat, NEW n \in Nat, HasPiece(s, at, LE4(n))
  PROVE  FromLE4(s, at + 1) = n
  <1>1. \A i \in 1 .. 4 : s[at + i] = LE4(n)[i]
    BY LengthBytes DEF HasPiece
  <1>2. s[at + 1] = LE4(n)[1] /\ s[at + 1 + 1] = LE4(n)[2]
        /\ s[at + 1 + 2] = LE4(n)[3] /\ s[at + 1 + 3] = LE4(n)[4]
    <2>1. at + 1 + 1 = at + 2 /\ at + 1 + 2 = at + 3 /\ at + 1 + 3 = at + 4
      OBVIOUS
    <2> QED
      BY <1>1, <2>1
  <1>3. FromLE4(LE4(n), 1) =
          LE4(n)[1] + 256 * LE4(n)[2] + 65536 * LE4(n)[3] + 16777216 * LE4(n)[4]
    BY DEF FromLE4
  <1>4. FromLE4(s, at + 1) = FromLE4(LE4(n), 1)
    BY <1>2, <1>3 DEF FromLE4
  <1> QED
    BY <1>4, LengthBytes

-----------------------------------------------------------------------------
(* The four messages that Fault and Read judge alike. *)
ReadLayouts == {OpenLayout, EventLayout, SendLayout, NetworkLayout}

(* raw begins with a whole header: the magic, the version and the layer's  *)
(* code if it has them, and the length n of the payload.                   *)
HasHeader(raw, layout, code, n) ==
  /\ IsSeq(raw)
  /\ layout.header <= Len(raw)
  /\ HasPiece(raw, 0, layout.magic)
  /\ layout.layered =>
       HasPiece(raw, Len(layout.magic), Version) /\ LayerIn(raw, layout) = code
  /\ HasPiece(raw, layout.lengthAt - 1, LE4(n))

(* The fields of a header do not overlap and are inside it. *)
LEMMA LayoutParts ==
  ASSUME NEW layout \in ReadLayouts
  PROVE  /\ IsSeq(layout.magic) /\ Len(layout.magic) \in 0 .. 4
         /\ layout.header \in Nat /\ layout.lengthAt \in Nat \ {0}
         /\ layout.lengthAt + 3 <= layout.header
         /\ Len(layout.magic) < layout.lengthAt
         /\ layout.layered => Len(layout.magic) + 5 < layout.lengthAt
         /\ Len(layout.magic) > 0 => Len(layout.magic) = 4
  <1>1. IsSeq(<<>>) /\ Len(<<>>) = 0
    BY EmptySeq DEF IsSeq
  <1>2. IsSeq(EventMagic) /\ IsSeq(SendMagic) /\ IsSeq(NetworkMagic)
    BY FourBytes DEF EventMagic, SendMagic, NetworkMagic
  <1>3. Len(EventMagic) = 4 /\ Len(SendMagic) = 4 /\ Len(NetworkMagic) = 4
    BY DEF EventMagic, SendMagic, NetworkMagic
  <1>5. CASE layout = OpenLayout
    <2>1. /\ layout.magic = <<>> /\ layout.layered
          /\ layout.header = 20 /\ layout.lengthAt = 17
      BY <1>5 DEF OpenLayout
    <2> QED
      BY <1>1, <2>1
  <1>6. CASE layout = EventLayout
    <2>1. /\ layout.magic = EventMagic /\ layout.layered
          /\ layout.header = 16 /\ layout.lengthAt = 13
      BY <1>6 DEF EventLayout
    <2>2. IsSeq(layout.magic) /\ Len(layout.magic) = 4
      BY <1>2, <1>3, <2>1
    <2> QED
      BY <2>1, <2>2
  <1>7. CASE layout = SendLayout
    <2>1. /\ layout.magic = SendMagic /\ layout.layered
          /\ layout.header = 24 /\ layout.lengthAt = 21
      BY <1>7 DEF SendLayout
    <2>2. IsSeq(layout.magic) /\ Len(layout.magic) = 4
      BY <1>2, <1>3, <2>1
    <2> QED
      BY <2>1, <2>2
  <1>8. CASE layout = NetworkLayout
    <2>1. /\ layout.magic = NetworkMagic /\ ~ layout.layered
          /\ layout.header = 16 /\ layout.lengthAt = 13
      BY <1>8 DEF NetworkLayout
    <2>2. IsSeq(layout.magic) /\ Len(layout.magic) = 4
      BY <1>2, <1>3, <2>1
    <2> QED
      BY <2>1, <2>2
  <1> QED
    BY <1>5, <1>6, <1>7, <1>8 DEF ReadLayouts

(* The version has four bytes. *)
LEMMA VersionIsFour == IsSeq(Version) /\ Len(Version) = 4
  BY FourBytes DEF Version

(* A whole header is read as it was written, and what lies behind it is a  *)
(* payload if it is long enough.                                           *)
LEMMA HeaderIsRead ==
  ASSUME NEW layout \in ReadLayouts, NEW raw, NEW code \in DOMAIN Layers, NEW n \in Nat,
         HasHeader(raw, layout, code, n)
  PROVE  /\ EndIn(raw, layout) = layout.header + n
         /\ Fault(raw, layout) = IF Len(raw) < layout.header + n THEN "truncated" ELSE "none"
  <1>1. Len(raw) \in Nat /\ ~ (Len(raw) < layout.header)
    BY LayoutParts, SeqParts DEF HasHeader
  <1>2. Bytes(raw, 0, Len(layout.magic)) = layout.magic
    <2>1. 0 + Len(layout.magic) = Len(layout.magic)
      BY LayoutParts
    <2> QED
      BY <2>1, LayoutParts, PieceIsRead DEF HasHeader
  <1>3. CASE layout.layered
    <2>1. VersionIn(raw, layout) = Version /\ LayerIn(raw, layout) \in DOMAIN Layers
      <3>1. Len(layout.magic) \in Nat
        BY LayoutParts
      <3> QED
        BY <1>3, <3>1, VersionIsFour, PieceIsRead DEF HasHeader, VersionIn
    <2>2. EndIn(raw, layout) = layout.header + n
      <3>1. layout.lengthAt - 1 \in Nat /\ layout.lengthAt - 1 + 1 = layout.lengthAt
        BY LayoutParts
      <3> QED
        BY <3>1, NumberIsRead DEF HasHeader, EndIn
    <2> QED
      BY <1>1, <1>2, <2>1, <2>2 DEF Fault
  <1>4. CASE ~ layout.layered
    <2>2. EndIn(raw, layout) = layout.header + n
      <3>1. layout.lengthAt - 1 \in Nat /\ layout.lengthAt - 1 + 1 = layout.lengthAt
        BY LayoutParts
      <3> QED
        BY <3>1, NumberIsRead DEF HasHeader, EndIn
    <2> QED
      BY <1>1, <1>2, <1>4, <2>2 DEF Fault
  <1> QED
    BY <1>3, <1>4

(* A message that agrees with another over a piece has the piece. *)
LEMMA PieceAgrees ==
  ASSUME NEW s, NEW t, NEW at \in Nat, NEW part, IsSeq(part), HasPiece(s, at, part),
         NEW upTo \in Nat, at + Len(part) <= upTo, IsSeq(t), upTo <= Len(t),
         \A i \in 1 .. upTo : t[i] = s[i]
  PROVE  HasPiece(t, at, part)
  <1>1. Len(part) \in Nat /\ Len(t) \in Nat
    BY SeqParts
  <1>2. \A i \in 1 .. Len(part) : at + i \in 1 .. upTo
    BY <1>1
  <1>3. at + Len(part) <= Len(t)
    BY <1>1
  <1> QED
    BY <1>2, <1>3 DEF HasPiece

(* A message that agrees with another up to the end of its header has the  *)
(* same header.                                                            *)
LEMMA SameHeader ==
  ASSUME NEW layout \in ReadLayouts, NEW message, NEW raw, NEW code, NEW n \in Nat,
         HasHeader(message, layout, code, n),
         IsSeq(raw), layout.header <= Len(raw),
         \A i \in 1 .. layout.header : raw[i] = message[i]
  PROVE  HasHeader(raw, layout, code, n)
  <1> USE LayoutParts, VersionIsFour, LengthBytes
  <1>0. Len(raw) \in Nat
    BY SeqParts
  <1>1. HasPiece(raw, 0, layout.magic)
    <2>1. 0 + Len(layout.magic) <= layout.header
      OBVIOUS
    <2> QED
      BY <2>1, PieceAgrees DEF HasHeader
  <1>2. HasPiece(raw, layout.lengthAt - 1, LE4(n))
    <2>1. IsSeq(LE4(n)) /\ Len(LE4(n)) = 4
      BY LengthBytes
    <2>2. layout.lengthAt - 1 \in Nat /\ layout.lengthAt - 1 + 4 <= layout.header
      OBVIOUS
    <2> QED
      BY <2>1, <2>2, PieceAgrees DEF HasHeader
  <1>3. ASSUME layout.layered
        PROVE  HasPiece(raw, Len(layout.magic), Version) /\ LayerIn(raw, layout) = code
    <2>1. /\ Len(layout.magic) \in Nat
          /\ Len(layout.magic) + Len(Version) <= layout.header
          /\ Len(layout.magic) + 5 \in 1 .. layout.header
      BY <1>3
    <2>2. HasPiece(raw, Len(layout.magic), Version)
      BY <1>3, <2>1, PieceAgrees DEF HasHeader
    <2>3. LayerIn(raw, layout) = code
      BY <1>3, <2>1 DEF HasHeader, LayerIn
    <2> QED
      BY <2>2, <2>3
  <1> QED
    BY <1>1, <1>2, <1>3 DEF HasHeader

(* A piece in front of the one byte that was replaced, or behind it, stays. *)
LEMMA PieceElsewhere ==
  ASSUME NEW s, NEW t, IsSeq(s), IsSeq(t), Len(t) = Len(s), NEW place \in Nat,
         \A i \in 1 .. Len(s) : i # place => t[i] = s[i],
         NEW at \in Nat, NEW part, IsSeq(part), HasPiece(s, at, part),
         place <= at \/ at + Len(part) < place
  PROVE  HasPiece(t, at, part)
  <1>1. Len(part) \in Nat /\ Len(s) \in Nat /\ at + Len(part) <= Len(s)
    BY SeqParts DEF HasPiece
  <1>2. \A i \in 1 .. Len(part) : at + i \in 1 .. Len(s) /\ at + i # place
    BY <1>1
  <1> QED
    BY <1>1, <1>2 DEF HasPiece

(* A message with one of its bytes replaced. *)
OneReplaced(raw, message, place) ==
  /\ IsSeq(raw) /\ Len(raw) = Len(message)
  /\ raw[place] # message[place]
  /\ \A i \in 1 .. Len(message) : i # place => raw[i] = message[i]

(* What damage to some of a message's bytes is. *)
LEMMA DamageReplaces ==
  ASSUME NEW how, NEW message, IsSeq(message), NEW places,
         NEW arrival \in Damaged(how, message, places)
  PROVE  /\ arrival.how = how
         /\ \E place \in places :
              place \in 1 .. Len(message) => OneReplaced(arrival.raw, message, place)
  <1>0. PICK place \in places :
          arrival \in {[how |-> how, raw |-> [message EXCEPT ![place] = byte]] :
                         byte \in Damage \ {message[place]}}
    BY DEF Damaged
  <1>1. PICK byte \in Damage \ {message[place]} :
          arrival = [how |-> how, raw |-> [message EXCEPT ![place] = byte]]
    BY <1>0
  <1>2. arrival.how = how /\ arrival.raw = [message EXCEPT ![place] = byte]
    BY <1>1
  <1>3. ASSUME place \in 1 .. Len(message)
        PROVE  OneReplaced(arrival.raw, message, place)
    BY <1>2, <1>3, Replaced DEF OneReplaced
  <1> QED
    BY <1>2, <1>3

(* How a message may come, one way each. *)
LEMMA WaysToArrive ==
  ASSUME NEW message, IsSeq(message), NEW layout,
         NEW arrival \in Arrivals(message, layout)
  PROVE  \/ arrival \in Delivered(message)
         \/ /\ arrival.how = "magic"
            /\ \E place \in 1 .. Len(layout.magic) :
                 place \in 1 .. Len(message) => OneReplaced(arrival.raw, message, place)
         \/ /\ arrival.how = "version"
            /\ \E place \in Len(layout.magic) + 1 .. Len(layout.magic) + 4 :
                 place \in 1 .. Len(message) => OneReplaced(arrival.raw, message, place)
         \/ /\ arrival.how = "layer" /\ layout.layered
            /\ Len(layout.magic) + 5 \in 1 .. Len(message)
                 => OneReplaced(arrival.raw, message, Len(layout.magic) + 5)
  <1>1. CASE arrival \in Damaged("magic", message, 1 .. Len(layout.magic))
    BY <1>1, DamageReplaces
  <1>2. CASE arrival \in Damaged("version", message,
                                 Len(layout.magic) + 1 .. Len(layout.magic) + 4)
    BY <1>2, DamageReplaces
  <1>3. CASE arrival \in Damaged("layer", message,
                                 IF layout.layered THEN {Len(layout.magic) + 5} ELSE {})
    BY <1>3, DamageReplaces
  <1> QED
    BY <1>1, <1>2, <1>3 DEF Arrivals

(* One that was not damaged came as it was, longer, or cut. *)
LEMMA WaysToDeliver ==
  ASSUME NEW message, IsSeq(message), NEW arrival \in Delivered(message)
  PROVE  \/ /\ arrival.how \in {"intact", "longer"}
            /\ arrival.how = "intact" => arrival.raw = message
            /\ IsSeq(arrival.raw) /\ HasPiece(arrival.raw, 0, message)
         \/ /\ arrival.how = "cut"
            /\ IsSeq(arrival.raw) /\ Len(arrival.raw) \in Nat
            /\ Len(arrival.raw) < Len(message)
            /\ \A i \in 1 .. Len(arrival.raw) : arrival.raw[i] = message[i]
  <1>1. CASE arrival = [how |-> "intact", raw |-> message]
    BY <1>1, SeqParts DEF HasPiece
  <1>2. CASE arrival = [how |-> "longer", raw |-> message \o <<69, 0>>]
    <2>1. IsSeq(<<69, 0>>)
      <3>1. <<69, 0>> \in Seq(Nat)
        OBVIOUS
      <3> QED
        BY <3>1 DEF IsSeq
    <2>2. IsSeq(message \o <<69, 0>>) /\ HasPiece(message \o <<69, 0>>, 0, message)
      BY <2>1, Joined, PiecesJoin
    <2> QED
      BY <1>2, <2>2
  <1>3. ASSUME NEW k \in 0 .. Len(message) - 1,
               arrival = [how |-> "cut", raw |-> SubSeq(message, 1, k)]
        PROVE  /\ arrival.how = "cut"
               /\ IsSeq(arrival.raw) /\ Len(arrival.raw) \in Nat
               /\ Len(arrival.raw) < Len(message)
               /\ \A i \in 1 .. Len(arrival.raw) : arrival.raw[i] = message[i]
    <2>1. Len(message) \in Nat
      BY SeqParts
    <2>2. 0 \in Nat /\ k \in Nat /\ 0 <= k /\ k <= Len(message) /\ k < Len(message)
      BY <2>1
    <2>3. /\ IsSeq(SubSeq(message, 0 + 1, k)) /\ Len(SubSeq(message, 0 + 1, k)) = k - 0
          /\ \A i \in 1 .. k - 0 : SubSeq(message, 0 + 1, k)[i] = message[0 + i]
      BY <2>1, <2>2, PartOf
    <2>4. arrival.raw = SubSeq(message, 0 + 1, k) /\ arrival.how = "cut"
      BY <1>3
    <2>5. k - 0 = k /\ \A i \in 1 .. k : 0 + i = i
      BY <2>2
    <2> QED
      BY <2>2, <2>3, <2>4, <2>5
  <1> QED
    BY <1>1, <1>2, <1>3 DEF Delivered

(* A receiver finds nothing wrong with a message that came whole, and finds  *)
(* its layer, its end and all of its bytes; nor with one whose layer became  *)
(* another.  In any other it finds the fault, and misses the magic only when *)
(* there is too little to hold one or the magic was replaced.                *)
JudgedRight(arrival, layout, code, message) ==
  LET raw == arrival.raw
  IN  /\ IsSeq(raw)
      /\ arrival.how \in {"intact", "longer", "cut", "version", "layer", "magic"}
      /\ arrival.how \in {"intact", "longer"} =>
           /\ Fault(raw, layout) = "none"
           /\ LayerIn(raw, layout) = code
           /\ EndIn(raw, layout) = Len(message)
           /\ HasPiece(raw, 0, message)
      /\ arrival.how = "cut" =>
           /\ Fault(raw, layout) \in {"header_too_short", "truncated"}
           /\ Fault(raw, layout) = "header_too_short" => Len(raw) < layout.header
      /\ arrival.how = "version" => Fault(raw, layout) = "version_mismatch"
      /\ arrival.how = "layer" =>
           \/ Fault(raw, layout) = "unsupported_layer"
           \/ /\ Fault(raw, layout) = "none"
              /\ LayerIn(raw, layout) \in DOMAIN Layers \ {code}
              /\ EndIn(raw, layout) = Len(message)
              /\ OneReplaced(raw, message, Len(layout.magic) + 5)
      /\ arrival.how = "magic" => Fault(raw, layout) = "invalid_magic"

(* A byte replaced in the first bytes of a message is seen there. *)
LEMMA ReplacedIsSeen ==
  ASSUME NEW message, NEW raw, NEW place \in 1 .. Len(message), IsSeq(message),
         OneReplaced(raw, message, place),
         NEW at \in Nat, NEW part, IsSeq(part), HasPiece(message, at, part),
         at < place, place <= at + Len(part), NEW upTo \in Nat, upTo = at + Len(part)
  PROVE  Bytes(raw, at, upTo) # part
  <1>1. Len(part) \in Nat /\ Len(message) \in Nat /\ upTo <= Len(message)
    BY SeqParts DEF HasPiece
  <1>2. IsSeq(raw) /\ Len(raw) = Len(message) /\ raw[place] # message[place]
    BY DEF OneReplaced
  <1>3. at <= upTo /\ upTo <= Len(raw) /\ upTo - at = Len(part)
    BY <1>1, <1>2
  <1>4. \A i \in 1 .. upTo - at : SubSeq(raw, at + 1, upTo)[i] = raw[at + i]
    BY <1>2, <1>3, PartOf
  <1>5. place - at \in 1 .. Len(part) /\ at + (place - at) = place
    BY <1>1
  <1>6. SubSeq(raw, at + 1, upTo)[place - at] = raw[at + (place - at)]
    BY <1>3, <1>4, <1>5
  <1>7. message[at + (place - at)] = part[place - at]
    BY <1>5 DEF HasPiece
  <1> QED
    BY <1>2, <1>5, <1>6, <1>7 DEF Bytes

(* What a layered message's receiver sees of its header, however it comes. *)
LEMMA ArrivalIsJudged ==
  ASSUME NEW layout \in ReadLayouts, layout.layered,
         NEW message, NEW code \in DOMAIN Layers, NEW n \in Nat,
         HasHeader(message, layout, code, n), Len(message) = layout.header + n,
         NEW arrival \in Arrivals(message, layout)
  PROVE  JudgedRight(arrival, layout, code, message)
  <1> DEFINE Judged == JudgedRight(arrival, layout, code, message)
             after == Len(layout.magic)
             raw == arrival.raw
  <1>0. /\ IsSeq(message) /\ Len(message) \in Nat
        /\ after \in 0 .. 4 /\ (after > 0 => after = 4)
        /\ layout.header \in Nat /\ after + 5 < layout.header
        /\ layout.header <= Len(message)
        /\ IsSeq(layout.magic)
    BY LayoutParts, SeqParts DEF HasHeader
  <1>1. ASSUME arrival.how \in {"intact", "longer"}, IsSeq(raw), HasPiece(raw, 0, message)
        PROVE  Judged
    <2>2. /\ Len(raw) \in Nat /\ Len(message) <= Len(raw)
          /\ \A i \in 1 .. Len(message) : raw[i] = message[i]
      BY <1>0, <1>1, SeqParts DEF HasPiece
    <2>3. HasHeader(raw, layout, code, n)
      <3>1. layout.header <= Len(raw) /\ \A i \in 1 .. layout.header : raw[i] = message[i]
        BY <1>0, <2>2
      <3> HIDE DEF raw
      <3> QED
        BY <1>1, <3>1, SameHeader
    <2>4. LayerIn(raw, layout) = code
      BY <2>3 DEF HasHeader
    <2>5. Fault(raw, layout) = "none" /\ EndIn(raw, layout) = Len(message)
      <3> HIDE DEF raw
      <3> QED
        BY <1>0, <2>2, <2>3, HeaderIsRead
    <2> QED
      BY <1>1, <2>4, <2>5 DEF JudgedRight
  <1>2. ASSUME arrival.how = "cut", IsSeq(raw), Len(raw) \in Nat, Len(raw) < Len(message),
               \A i \in 1 .. Len(raw) : raw[i] = message[i]
        PROVE  Judged
    <2>3. CASE Len(raw) < layout.header
      BY <1>2, <2>3 DEF Fault, JudgedRight
    <2>4. CASE ~ (Len(raw) < layout.header)
      <3>1. HasHeader(raw, layout, code, n)
        <4>1. layout.header <= Len(raw) /\ \A i \in 1 .. layout.header : raw[i] = message[i]
          BY <1>0, <1>2, <2>4
        <4> HIDE DEF raw
        <4> QED
          BY <1>2, <4>1, SameHeader
      <3>2. Fault(raw, layout) = "truncated"
        <4> HIDE DEF raw
        <4> QED
          BY <1>0, <1>2, <3>1, HeaderIsRead
      <3> QED
        BY <1>2, <3>2 DEF JudgedRight
    <2> QED
      BY <2>3, <2>4
  <1>3. CASE arrival \in Delivered(message)
    BY <1>0, <1>1, <1>2, <1>3, WaysToDeliver
  <1>4. /\ HasPiece(message, 0, layout.magic) /\ HasPiece(message, after, Version)
        /\ LayerIn(message, layout) = code
    BY DEF HasHeader
  <1>5. ASSUME NEW place \in 1 .. after, arrival.how = "magic",
               OneReplaced(raw, message, place)
        PROVE  Judged
    <2>1. place \in 1 .. Len(message) /\ 0 < place /\ place <= 0 + after /\ after = 0 + after
          /\ after \in Nat
      BY <1>0
    <2>2. Bytes(raw, 0, after) # layout.magic
      <3> HIDE DEF after, raw
      <3> QED
        BY <1>0, <1>4, <1>5, <2>1, ReplacedIsSeen DEF after
    <2>3. IsSeq(raw) /\ Len(raw) = Len(message)
      BY <1>5 DEF OneReplaced
    <2>4. Fault(raw, layout) = "invalid_magic"
      BY <1>0, <2>2, <2>3 DEF Fault
    <2> QED
      BY <1>5, <2>3, <2>4 DEF JudgedRight
  <1>6. ASSUME NEW place \in after + 1 .. Len(message), OneReplaced(raw, message, place)
        PROVE  /\ IsSeq(raw) /\ Len(raw) = Len(message)
               /\ HasPiece(raw, 0, layout.magic)
               /\ Bytes(raw, 0, after) = layout.magic
    <2>1. IsSeq(raw) /\ Len(raw) = Len(message)
      BY <1>6 DEF OneReplaced
    <2>2. \A i \in 1 .. after : raw[i] = message[i]
      BY <1>0, <1>6 DEF OneReplaced
    <2>3. HasPiece(raw, 0, layout.magic)
      BY <1>0, <1>4, <2>1, <2>2 DEF HasPiece
    <2>4. after \in Nat /\ 0 + after = after
      BY <1>0
    <2> QED
      BY <1>0, <2>1, <2>3, <2>4, PieceIsRead
  <1>7. ASSUME NEW place \in after + 1 .. after + 4, arrival.how = "version",
               OneReplaced(raw, message, place)
        PROVE  Judged
    <2>1. /\ place \in 1 .. Len(message) /\ place \in after + 1 .. Len(message)
          /\ after < place /\ place <= after + 4
          /\ after \in Nat /\ after + 4 \in Nat
      BY <1>0
    <2>2. VersionIn(raw, layout) # Version
      <3>1. IsSeq(Version) /\ Len(Version) = 4
        BY VersionIsFour
      <3>2. Bytes(raw, after, after + 4) # Version
        <4> HIDE DEF after, raw
        <4> QED
          BY <1>0, <1>4, <1>7, <2>1, <3>1, ReplacedIsSeen
      <3> QED
        BY <3>2 DEF VersionIn
    <2>3. IsSeq(raw) /\ Len(raw) = Len(message) /\ Bytes(raw, 0, after) = layout.magic
      BY <1>6, <1>7, <2>1
    <2>4. Fault(raw, layout) = "version_mismatch"
      BY <1>0, <2>2, <2>3 DEF Fault
    <2> QED
      BY <1>7, <2>3, <2>4 DEF JudgedRight
  <1>8. ASSUME arrival.how = "layer", OneReplaced(raw, message, after + 5)
        PROVE  Judged
    <2>1. after + 5 \in after + 1 .. Len(message) /\ after + 5 \in Nat /\ after \in Nat
      BY <1>0
    <2>2. /\ IsSeq(raw) /\ Len(raw) = Len(message)
          /\ HasPiece(raw, 0, layout.magic) /\ Bytes(raw, 0, after) = layout.magic
      BY <1>6, <1>8, <2>1
    <2>3. \A i \in 1 .. Len(message) : i # after + 5 => raw[i] = message[i]
      BY <1>8 DEF OneReplaced
    <2>4. HasPiece(raw, after, Version)
      <3>1. after + Len(Version) < after + 5 /\ IsSeq(Version)
        BY <2>1, VersionIsFour
      <3> HIDE DEF after, raw
      <3> QED
        BY <1>0, <1>4, <2>1, <2>2, <2>3, <3>1, PieceElsewhere
    <2>5. VersionIn(raw, layout) = Version
      <3>1. IsSeq(Version) /\ after \in Nat /\ after + 4 \in Nat /\ after + 4 = after + Len(Version)
        BY <2>1, VersionIsFour
      <3>2. Bytes(raw, after, after + 4) = Version
        <4> HIDE DEF after, raw
        <4> QED
          BY <2>2, <2>4, <3>1, PartIsRead
      <3> QED
        BY <3>2 DEF VersionIn
    <2>6. LayerIn(raw, layout) # code
      BY <1>4, <1>8 DEF OneReplaced, LayerIn
    <2>7. CASE LayerIn(raw, layout) \notin DOMAIN Layers
      <3>1. Fault(raw, layout) = "unsupported_layer"
        BY <1>0, <2>2, <2>5, <2>7 DEF Fault
      <3> QED
        BY <1>8, <2>2, <3>1 DEF JudgedRight
    <2>8. CASE LayerIn(raw, layout) \in DOMAIN Layers
      <3>1. HasPiece(raw, layout.lengthAt - 1, LE4(n))
        <4>1. /\ HasPiece(message, layout.lengthAt - 1, LE4(n))
              /\ IsSeq(LE4(n)) /\ layout.lengthAt - 1 \in Nat
              /\ after + 5 <= layout.lengthAt - 1
          BY LayoutParts, LengthBytes, <1>0 DEF HasHeader
        <4> HIDE DEF after, raw
        <4> QED
          BY <1>0, <2>1, <2>2, <2>3, <4>1, PieceElsewhere
      <3>2. HasHeader(raw, layout, LayerIn(raw, layout), n)
        BY <1>0, <2>2, <2>4, <3>1 DEF HasHeader
      <3>3. /\ EndIn(raw, layout) = Len(message)
            /\ Fault(raw, layout) = "none"
        <4>1. ~ (Len(raw) < layout.header + n)
          BY <1>0, <2>2
        <4> HIDE DEF raw
        <4> QED
          BY <2>8, <3>2, <4>1, HeaderIsRead
      <3> QED
        BY <1>8, <2>2, <2>6, <2>8, <3>3 DEF JudgedRight
    <2> QED
      BY <2>7, <2>8
  <1>9. /\ \A place \in 1 .. after : place \in 1 .. Len(message)
        /\ \A place \in after + 1 .. after + 4 : place \in 1 .. Len(message)
        /\ after + 5 \in 1 .. Len(message)
    BY <1>0
  <1>10. CASE arrival.how = "magic" /\ \E place \in 1 .. after :
                place \in 1 .. Len(message) => OneReplaced(raw, message, place)
    BY <1>5, <1>9, <1>10
  <1>11. CASE arrival.how = "version" /\ \E place \in after + 1 .. after + 4 :
                place \in 1 .. Len(message) => OneReplaced(raw, message, place)
    BY <1>7, <1>9, <1>11
  <1>12. CASE /\ arrival.how = "layer"
              /\ after + 5 \in 1 .. Len(message) => OneReplaced(raw, message, after + 5)
    BY <1>8, <1>9, <1>12
  <1> QED
    BY <1>0, <1>3, <1>10, <1>11, <1>12, WaysToArrive

-----------------------------------------------------------------------------
(* A number of fixed width, as its bytes. *)
IsWord(s, width) == IsSeq(s) /\ Len(s) = width

(* What the messages' numbers are. *)
LEMMA WordParts ==
  ASSUME NEW width \in Nat, NEW word \in Word(width)
  PROVE  IsWord(word, width)
  <1>1. word \in Seq(Byte) /\ Len(word) = width
    BY DEF Word
  <1> QED
    BY <1>1 DEF IsSeq, IsWord

(* A layer's code names the layer. *)
LEMMA WireLayers ==
  ASSUME NEW layer \in {Layers[code] : code \in DOMAIN Layers}
  PROVE  ToWire(layer) \in DOMAIN Layers /\ Layers[ToWire(layer)] = layer
  BY DEF ToWire

(* The layers of the events are layers of the wire. *)
LEMMA AllLayers ==
  /\ PacketLayers \subseteq {Layers[code] : code \in DOMAIN Layers}
  /\ "Socket" \in {Layers[code] : code \in DOMAIN Layers}
  /\ "Flow" \in {Layers[code] : code \in DOMAIN Layers}
  <1>1. /\ Layers[1] = "Network" /\ Layers[2] = "NetworkForward" /\ Layers[3] = "Flow"
        /\ Layers[4] = "Socket"
    BY DEF Layers
  <1>2. {1, 2, 3, 4} \subseteq DOMAIN Layers
    BY DEF Layers
  <1> QED
    BY <1>1, <1>2 DEF PacketLayers

(* What is in a message is at the same place in one that begins with it. *)
LEMMA PieceOfPiece ==
  ASSUME NEW raw, NEW message, NEW at \in Nat, NEW part, IsSeq(raw), IsSeq(message), IsSeq(part),
         HasPiece(raw, 0, message), HasPiece(message, at, part)
  PROVE  HasPiece(raw, at, part)
  <1>1. Len(raw) \in Nat /\ Len(message) \in Nat /\ Len(part) \in Nat
    BY SeqParts
  <1>2. Len(message) <= Len(raw) /\ at + Len(part) <= Len(message)
    BY <1>1 DEF HasPiece
  <1>3. \A i \in 1 .. Len(message) : raw[i] = message[i]
    BY <1>1 DEF HasPiece
  <1> QED
    BY <1>1, <1>2, <1>3, PieceAgrees

(* What a message of three or four parts holds, and where. *)
LEMMA ThreeParts ==
  ASSUME NEW a, NEW b, NEW c, IsSeq(a), IsSeq(b), IsSeq(c)
  PROVE  /\ IsSeq(a \o b \o c)
         /\ Len(a \o b \o c) = Len(a) + Len(b) + Len(c)
         /\ HasPiece(a \o b \o c, 0, a)
         /\ \A at \in Nat : at = Len(a) => HasPiece(a \o b \o c, at, b)
         /\ \A at \in Nat : at = Len(a) + Len(b) => HasPiece(a \o b \o c, at, c)
  <1>1. IsSeq(a \o b) /\ Len(a \o b) = Len(a) + Len(b) /\ Len(a) \in Nat
    BY Joined, SeqParts
  <1>2. HasPiece(a \o b, 0, a) /\ HasPiece(a \o b, Len(a), b)
    BY PiecesJoin
  <1>3. IsSeq((a \o b) \o c) /\ Len((a \o b) \o c) = Len(a \o b) + Len(c)
    BY <1>1, Joined
  <1>4. HasPiece((a \o b) \o c, Len(a \o b), c)
    BY <1>1, PiecesJoin
  <1>5. HasPiece((a \o b) \o c, 0, a) /\ HasPiece((a \o b) \o c, Len(a), b)
    BY <1>1, <1>2, PiecesJoin
  <1> QED
    BY <1>1, <1>3, <1>4, <1>5

(* The same of four parts. *)
LEMMA FourParts ==
  ASSUME NEW a, NEW b, NEW c, NEW d, IsSeq(a), IsSeq(b), IsSeq(c), IsSeq(d)
  PROVE  /\ IsSeq(a \o b \o c \o d)
         /\ Len(a \o b \o c \o d) = Len(a) + Len(b) + Len(c) + Len(d)
         /\ HasPiece(a \o b \o c \o d, 0, a)
         /\ \A at \in Nat : at = Len(a) => HasPiece(a \o b \o c \o d, at, b)
         /\ \A at \in Nat : at = Len(a) + Len(b) => HasPiece(a \o b \o c \o d, at, c)
         /\ \A at \in Nat : at = Len(a) + Len(b) + Len(c) => HasPiece(a \o b \o c \o d, at, d)
  <1> DEFINE abc == a \o b \o c
  <1>1. /\ IsSeq(abc) /\ Len(abc) = Len(a) + Len(b) + Len(c)
        /\ HasPiece(abc, 0, a)
        /\ \A at \in Nat : at = Len(a) => HasPiece(abc, at, b)
        /\ \A at \in Nat : at = Len(a) + Len(b) => HasPiece(abc, at, c)
    BY ThreeParts
  <1> HIDE DEF abc
  <1>3. IsSeq(abc \o d) /\ Len(abc \o d) = Len(abc) + Len(d)
    BY <1>1, Joined
  <1>4. HasPiece(abc \o d, Len(abc), d)
    BY <1>1, PiecesJoin
  <1>5. HasPiece(abc \o d, 0, a)
    BY <1>1, PiecesJoin
  <1>6. ASSUME NEW at \in Nat
        PROVE  /\ at = Len(a) => HasPiece(abc \o d, at, b)
               /\ at = Len(a) + Len(b) => HasPiece(abc \o d, at, c)
    BY <1>1, PiecesJoin
  <1> QED
    BY <1>1, <1>3, <1>4, <1>5, <1>6 DEF abc

(* The frame of a runtime event. *)
LEMMA EventIsFramed ==
  ASSUME NEW layer \in {Layers[code] : code \in DOMAIN Layers}, NEW payload, IsSeq(payload)
  PROVE  /\ HasHeader(EncodeRuntimeEvent(layer, payload), EventLayout, ToWire(layer), Len(payload))
         /\ Len(EncodeRuntimeEvent(layer, payload)) = 16 + Len(payload)
         /\ HasPiece(EncodeRuntimeEvent(layer, payload), 16, payload)
  <1> DEFINE layerBytes == <<ToWire(layer), 0, 0, 0>>
             size == LE4(Len(payload))
             head == EventMagic \o Version \o layerBytes
             message == head \o size \o payload
  <1>1. IsSeq(EventMagic) /\ IsSeq(Version) /\ IsSeq(layerBytes) /\ IsSeq(size)
    BY FourBytes, LengthBytes, SeqParts DEF EventMagic, Version
  <1>2. Len(EventMagic) = 4 /\ Len(Version) = 4 /\ Len(layerBytes) = 4 /\ Len(size) = 4
    BY FourBytes, LengthBytes, SeqParts DEF EventMagic, Version
  <1>3. Len(payload) \in Nat /\ layerBytes[1] = ToWire(layer)
    BY FourBytes, SeqParts
  <1>4. EncodeRuntimeEvent(layer, payload) = message
    BY DEF EncodeRuntimeEvent
  <1> HIDE DEF layerBytes, size
  <1>5. IsSeq(head) /\ Len(head) = Len(EventMagic) + Len(Version) + Len(layerBytes)
    BY <1>1, ThreeParts
  <1>6. Len(head) = 12
    BY <1>2, <1>5
  <1>7. HasPiece(head, 0, EventMagic) /\ HasPiece(head, 4, Version) /\ HasPiece(head, 8, layerBytes)
    <2>1. 8 = Len(EventMagic) + Len(Version)
      BY <1>2
    <2> QED
      BY <1>1, <1>2, <2>1, ThreeParts
  <1> HIDE DEF head
  <1>8. IsSeq(message) /\ Len(message) = Len(head) + Len(size) + Len(payload)
    BY <1>1, <1>5, ThreeParts
  <1>9. Len(message) = 16 + Len(payload)
    BY <1>2, <1>3, <1>6, <1>8
  <1>10. HasPiece(message, 0, head) /\ HasPiece(message, 12, size) /\ HasPiece(message, 16, payload)
    <2>1. 16 = Len(head) + Len(size)
      BY <1>2, <1>6
    <2> QED
      BY <1>1, <1>2, <1>5, <1>6, <2>1, ThreeParts
  <1> HIDE DEF message
  <1>11. /\ HasPiece(message, 0, EventMagic) /\ HasPiece(message, 4, Version)
         /\ HasPiece(message, 8, layerBytes)
    BY <1>1, <1>5, <1>7, <1>8, <1>10, PieceOfPiece
  <1>12. message[9] = ToWire(layer)
    BY <1>2, <1>3, <1>11 DEF HasPiece
  <1>13. /\ EventLayout.magic = EventMagic /\ EventLayout.layered
         /\ EventLayout.header = 16 /\ EventLayout.lengthAt - 1 = 12
    BY DEF EventLayout
  <1>14. Len(EventLayout.magic) = 4
    BY <1>2, <1>13
  <1>15. HasHeader(message, EventLayout, ToWire(layer), Len(payload))
    <2>1. HasPiece(message, Len(EventLayout.magic), Version)
      BY <1>11, <1>14
    <2>2. LayerIn(message, EventLayout) = ToWire(layer)
      <3>1. Len(EventLayout.magic) + 5 = 9
        BY <1>14
      <3> QED
        BY <1>12, <3>1 DEF LayerIn
    <2>3. HasPiece(message, EventLayout.lengthAt - 1, LE4(Len(payload)))
      BY <1>10, <1>13 DEF size
    <2>4. EventLayout.header <= Len(message)
      BY <1>3, <1>9, <1>13
    <2> QED
      BY <1>8, <1>11, <1>13, <2>1, <2>2, <2>3, <2>4 DEF HasHeader
  <1> QED
    BY <1>4, <1>9, <1>10, <1>15

(* Two bytes written out are a sequence. *)
LEMMA TwoBytes ==
  ASSUME NEW w, NEW x
  PROVE  IsSeq(<<w, x>>) /\ Len(<<w, x>>) = 2 /\ <<w, x>>[1] = w
  <1> DEFINE S == {w, x}
  <1>1. <<w, x>> \in Seq(S)
    OBVIOUS
  <1>2. \E T : <<w, x>> \in Seq(T)
    <2> HIDE DEF S
    <2> WITNESS S
    <2> QED
      BY <1>1
  <1> QED
    BY <1>2 DEF IsSeq

(* The payload of a network event. *)
LEMMA PayloadIsFramed ==
  ASSUME NEW token, NEW packet, NEW code, IsWord(token, 8), IsSeq(packet)
  PROVE  /\ HasHeader(EncodeNetworkPayload(token, packet), NetworkLayout, code, Len(packet))
         /\ Len(EncodeNetworkPayload(token, packet)) = 16 + Len(packet)
         /\ HasPiece(EncodeNetworkPayload(token, packet), 4, token)
         /\ HasPiece(EncodeNetworkPayload(token, packet), 16, packet)
  <1> DEFINE size == LE4(Len(packet))
             message == NetworkMagic \o token \o size \o packet
  <1>1. IsSeq(NetworkMagic) /\ IsSeq(token) /\ IsSeq(size)
    BY FourBytes, LengthBytes, SeqParts DEF NetworkMagic, IsWord
  <1>2. Len(NetworkMagic) = 4 /\ Len(token) = 8 /\ Len(size) = 4
    BY FourBytes, LengthBytes, SeqParts DEF NetworkMagic, IsWord
  <1>3. Len(packet) \in Nat
    BY SeqParts
  <1>4. EncodeNetworkPayload(token, packet) = message
    BY DEF EncodeNetworkPayload
  <1> HIDE DEF size
  <1>5. /\ IsSeq(message)
        /\ Len(message) = Len(NetworkMagic) + Len(token) + Len(size) + Len(packet)
    BY <1>1, FourParts
  <1>6. Len(message) = 16 + Len(packet)
    <2> HIDE DEF message
    <2> QED
      BY <1>2, <1>3, <1>5
  <1>7. /\ HasPiece(message, 0, NetworkMagic) /\ HasPiece(message, 4, token)
        /\ HasPiece(message, 12, size) /\ HasPiece(message, 16, packet)
    <2>1. 12 = Len(NetworkMagic) + Len(token) /\ 16 = Len(NetworkMagic) + Len(token) + Len(size)
      BY <1>2
    <2>2. /\ HasPiece(message, 0, NetworkMagic)
          /\ \A at \in Nat : at = Len(NetworkMagic) => HasPiece(message, at, token)
          /\ \A at \in Nat : at = Len(NetworkMagic) + Len(token) => HasPiece(message, at, size)
          /\ \A at \in Nat : at = Len(NetworkMagic) + Len(token) + Len(size)
                              => HasPiece(message, at, packet)
      BY <1>1, FourParts
    <2>3. 4 \in Nat /\ 12 \in Nat /\ 16 \in Nat
      OBVIOUS
    <2> HIDE DEF message
    <2> QED
      BY <1>2, <2>1, <2>2, <2>3
  <1> HIDE DEF message
  <1>8. /\ NetworkLayout.magic = NetworkMagic /\ ~ NetworkLayout.layered
        /\ NetworkLayout.header = 16 /\ NetworkLayout.lengthAt - 1 = 12
    BY DEF NetworkLayout
  <1>9. HasHeader(message, NetworkLayout, code, Len(packet))
    <2>1. HasPiece(message, NetworkLayout.lengthAt - 1, LE4(Len(packet)))
      BY <1>7, <1>8 DEF size
    <2>2. NetworkLayout.header <= Len(message)
      BY <1>3, <1>6, <1>8
    <2> QED
      BY <1>5, <1>7, <1>8, <2>1, <2>2 DEF HasHeader
  <1> QED
    BY <1>4, <1>6, <1>7, <1>9

(* A packet on its way back. *)
LEMMA SendIsFramed ==
  ASSUME NEW layer \in {Layers[code] : code \in DOMAIN Layers}, NEW token, NEW packet,
         IsWord(token, 8), IsSeq(packet)
  PROVE  /\ HasHeader(EncodeSendRequest(layer, token, packet), SendLayout,
                      ToWire(layer), Len(packet))
         /\ Len(EncodeSendRequest(layer, token, packet)) = 24 + Len(packet)
         /\ HasPiece(EncodeSendRequest(layer, token, packet), 12, token)
         /\ HasPiece(EncodeSendRequest(layer, token, packet), 24, packet)
  <1> DEFINE layerBytes == <<ToWire(layer), 0, 0, 0>>
             size == LE4(Len(packet))
             head == SendMagic \o Version \o layerBytes
             message == head \o token \o size \o packet
  <1>1. /\ IsSeq(SendMagic) /\ IsSeq(Version) /\ IsSeq(layerBytes)
        /\ IsSeq(token) /\ IsSeq(size)
    BY FourBytes, LengthBytes, SeqParts DEF SendMagic, Version, IsWord
  <1>2. /\ Len(SendMagic) = 4 /\ Len(Version) = 4 /\ Len(layerBytes) = 4
        /\ Len(token) = 8 /\ Len(size) = 4
    BY FourBytes, LengthBytes, SeqParts DEF SendMagic, Version, IsWord
  <1>3. Len(packet) \in Nat /\ layerBytes[1] = ToWire(layer)
    BY FourBytes, SeqParts
  <1>4. EncodeSendRequest(layer, token, packet) = message
    BY DEF EncodeSendRequest
  <1> HIDE DEF layerBytes, size
  <1>5. IsSeq(head) /\ Len(head) = Len(SendMagic) + Len(Version) + Len(layerBytes)
    BY <1>1, ThreeParts
  <1>6. Len(head) = 12
    BY <1>2, <1>5
  <1>7. HasPiece(head, 0, SendMagic) /\ HasPiece(head, 4, Version) /\ HasPiece(head, 8, layerBytes)
    <2>1. 8 = Len(SendMagic) + Len(Version)
      BY <1>2
    <2> QED
      BY <1>1, <1>2, <2>1, ThreeParts
  <1> HIDE DEF head
  <1>8. /\ IsSeq(message)
        /\ Len(message) = Len(head) + Len(token) + Len(size) + Len(packet)
    BY <1>1, <1>5, FourParts
  <1>9. Len(message) = 24 + Len(packet)
    <2> HIDE DEF message
    <2> QED
      BY <1>2, <1>3, <1>6, <1>8
  <1>10. /\ HasPiece(message, 0, head) /\ HasPiece(message, 12, token)
         /\ HasPiece(message, 20, size) /\ HasPiece(message, 24, packet)
    <2>1. 20 = Len(head) + Len(token) /\ 24 = Len(head) + Len(token) + Len(size)
      BY <1>2, <1>6
    <2> QED
      BY <1>1, <1>2, <1>5, <1>6, <2>1, FourParts
  <1> HIDE DEF message
  <1>11. /\ HasPiece(message, 0, SendMagic) /\ HasPiece(message, 4, Version)
         /\ HasPiece(message, 8, layerBytes)
    BY <1>1, <1>5, <1>7, <1>8, <1>10, PieceOfPiece
  <1>12. message[9] = ToWire(layer)
    BY <1>2, <1>3, <1>11 DEF HasPiece
  <1>13. /\ SendLayout.magic = SendMagic /\ SendLayout.layered
         /\ SendLayout.header = 24 /\ SendLayout.lengthAt - 1 = 20
    BY DEF SendLayout
  <1>14. Len(SendLayout.magic) = 4
    BY <1>2, <1>13
  <1>15. HasHeader(message, SendLayout, ToWire(layer), Len(packet))
    <2>1. HasPiece(message, Len(SendLayout.magic), Version)
      BY <1>11, <1>14
    <2>2. LayerIn(message, SendLayout) = ToWire(layer)
      <3>1. Len(SendLayout.magic) + 5 = 9
        BY <1>14
      <3> QED
        BY <1>12, <3>1 DEF LayerIn
    <2>3. HasPiece(message, SendLayout.lengthAt - 1, LE4(Len(packet)))
      BY <1>10, <1>13 DEF size
    <2>4. SendLayout.header <= Len(message)
      BY <1>3, <1>9, <1>13
    <2> QED
      BY <1>8, <1>11, <1>13, <2>1, <2>2, <2>3, <2>4 DEF HasHeader
  <1> QED
    BY <1>4, <1>9, <1>10, <1>15

(* What a client asks of an OPEN. *)
LEMMA OpenIsFramed ==
  ASSUME NEW request, request.layer \in {Layers[code] : code \in DOMAIN Layers},
         IsWord(request.priority, 2), IsWord(request.flags, 8), IsSeq(request.filter)
  PROVE  /\ HasHeader(EncodeOpenRequest(request), OpenLayout,
                      ToWire(request.layer), Len(request.filter))
         /\ Len(EncodeOpenRequest(request)) = 20 + Len(request.filter)
         /\ HasPiece(EncodeOpenRequest(request), 6, request.priority)
         /\ HasPiece(EncodeOpenRequest(request), 8, request.flags)
         /\ HasPiece(EncodeOpenRequest(request), 20, request.filter)
  <1> DEFINE layerBytes == <<ToWire(request.layer), 0>>
             size == LE4(Len(request.filter))
             head == Version \o layerBytes \o request.priority
             message == head \o request.flags \o size \o request.filter
  <1>1. /\ IsSeq(Version) /\ IsSeq(layerBytes) /\ IsSeq(size)
        /\ IsSeq(request.priority) /\ IsSeq(request.flags)
    BY FourBytes, TwoBytes, LengthBytes, SeqParts DEF Version, IsWord
  <1>2. /\ Len(Version) = 4 /\ Len(layerBytes) = 2 /\ Len(size) = 4
        /\ Len(request.priority) = 2 /\ Len(request.flags) = 8
    BY FourBytes, TwoBytes, LengthBytes, SeqParts DEF Version, IsWord
  <1>3. Len(request.filter) \in Nat /\ layerBytes[1] = ToWire(request.layer)
    BY TwoBytes, SeqParts
  <1>4. EncodeOpenRequest(request) = message
    BY DEF EncodeOpenRequest
  <1> HIDE DEF layerBytes, size
  <1>5. IsSeq(head) /\ Len(head) = Len(Version) + Len(layerBytes) + Len(request.priority)
    BY <1>1, ThreeParts
  <1>6. Len(head) = 8
    <2> HIDE DEF head
    <2> QED
      BY <1>2, <1>5
  <1>7. /\ HasPiece(head, 0, Version) /\ HasPiece(head, 4, layerBytes)
        /\ HasPiece(head, 6, request.priority)
    <2>1. 6 = Len(Version) + Len(layerBytes)
      BY <1>2
    <2> QED
      BY <1>1, <1>2, <2>1, ThreeParts
  <1> HIDE DEF head
  <1>8. /\ IsSeq(message)
        /\ Len(message) = Len(head) + Len(request.flags) + Len(size) + Len(request.filter)
    <2>1. IsSeq(head) /\ IsSeq(request.flags) /\ IsSeq(size) /\ IsSeq(request.filter)
      BY <1>1, <1>5
    <2> QED
      BY <2>1, FourParts
  <1>9. Len(message) = 20 + Len(request.filter)
    <2> HIDE DEF message
    <2> QED
      BY <1>2, <1>3, <1>6, <1>8
  <1>10. /\ HasPiece(message, 0, head) /\ HasPiece(message, 8, request.flags)
         /\ HasPiece(message, 16, size) /\ HasPiece(message, 20, request.filter)
    <2>1. /\ 16 = Len(head) + Len(request.flags)
          /\ 20 = Len(head) + Len(request.flags) + Len(size)
      BY <1>2, <1>6
    <2> QED
      BY <1>1, <1>2, <1>5, <1>6, <2>1, FourParts
  <1> HIDE DEF message
  <1>11. /\ HasPiece(message, 0, Version) /\ HasPiece(message, 4, layerBytes)
         /\ HasPiece(message, 6, request.priority)
    BY <1>1, <1>5, <1>7, <1>8, <1>10, PieceOfPiece
  <1>12. message[5] = ToWire(request.layer)
    BY <1>2, <1>3, <1>11 DEF HasPiece
  <1>13. /\ OpenLayout.magic = <<>> /\ OpenLayout.layered
         /\ OpenLayout.header = 20 /\ OpenLayout.lengthAt - 1 = 16
    BY DEF OpenLayout
  <1>14. Len(OpenLayout.magic) = 0
    BY <1>13, EmptySeq
  <1>15. HasHeader(message, OpenLayout, ToWire(request.layer), Len(request.filter))
    <2>1. HasPiece(message, Len(OpenLayout.magic), Version)
      BY <1>11, <1>14
    <2>2. LayerIn(message, OpenLayout) = ToWire(request.layer)
      <3>1. Len(OpenLayout.magic) + 5 = 5
        BY <1>14
      <3> QED
        BY <1>12, <3>1 DEF LayerIn
    <2>3. HasPiece(message, OpenLayout.lengthAt - 1, LE4(Len(request.filter)))
      BY <1>10, <1>13 DEF size
    <2>4. OpenLayout.header <= Len(message)
      BY <1>3, <1>9, <1>13
    <2>5. HasPiece(message, 0, OpenLayout.magic)
      <3>1. 0 + Len(OpenLayout.magic) <= Len(message) /\ 1 .. Len(OpenLayout.magic) = {}
        BY <1>3, <1>9, <1>14
      <3> QED
        BY <3>1 DEF HasPiece
    <2> QED
      BY <1>8, <1>13, <2>1, <2>2, <2>3, <2>4, <2>5 DEF HasHeader
  <1> QED
    BY <1>4, <1>9, <1>10, <1>11, <1>15

-----------------------------------------------------------------------------
(* A number of known width is read from where it stands. *)
LEMMA WordIsRead ==
  ASSUME NEW raw, NEW at \in Nat, NEW width \in Nat, NEW word,
         IsSeq(raw), IsWord(word, width), HasPiece(raw, at, word)
  PROVE  Bytes(raw, at, at + width) = word
  BY PieceIsRead DEF IsWord

(* A network payload is read as it was written. *)
LEMMA PayloadIsRead ==
  ASSUME NEW token, NEW packet, IsWord(token, 8), IsSeq(packet)
  PROVE  DecodeNetworkPayload(EncodeNetworkPayload(token, packet))
           = Accepted([token |-> token, packet |-> packet])
  <1> DEFINE message == EncodeNetworkPayload(token, packet)
  <1>1. /\ HasHeader(message, NetworkLayout, 1, Len(packet))
        /\ Len(message) = 16 + Len(packet)
        /\ HasPiece(message, 4, token) /\ HasPiece(message, 16, packet)
    BY PayloadIsFramed
  <1>2. IsSeq(message) /\ IsSeq(token) /\ Len(packet) \in Nat
    BY <1>1, SeqParts DEF HasHeader, IsWord
  <1> HIDE DEF message
  <1>3. NetworkLayout \in ReadLayouts /\ NetworkLayout.header = 16
    BY DEF ReadLayouts, NetworkLayout
  <1>4. EndIn(message, NetworkLayout) = 16 + Len(packet) /\ Fault(message, NetworkLayout) = "none"
    <2>1. 1 \in DOMAIN Layers
      BY DEF Layers
    <2>2. /\ EndIn(message, NetworkLayout) = 16 + Len(packet)
          /\ Fault(message, NetworkLayout) =
               IF Len(message) < 16 + Len(packet) THEN "truncated" ELSE "none"
      BY <1>1, <1>2, <1>3, <2>1, HeaderIsRead
    <2>3. ~ (Len(message) < 16 + Len(packet))
      BY <1>1, <1>2
    <2> QED
      BY <2>2, <2>3
  <1>5. Bytes(message, 4, 12) = token
    BY <1>1, <1>2, WordIsRead
  <1>6. PayloadIn(message, NetworkLayout) = packet
    <2>1. EndIn(message, NetworkLayout) \in Nat
      BY <1>2, <1>4
    <2> QED
      BY <1>1, <1>2, <1>3, <1>4, <2>1, PartIsRead DEF PayloadIn
  <1> QED
    BY <1>4, <1>5, <1>6 DEF DecodeNetworkPayload, Read, message

(* The frame of an event, however it comes: read whole, or as one of         *)
(* another layer, or refused; and what is refused for being short is too     *)
(* short for an IPv4 packet too.                                             *)
FrameRead(how, raw, layer, payload) ==
  LET got == DecodeRuntimeEvent(raw)
  IN  /\ how \in {"intact", "longer", "cut", "version", "layer", "magic"}
      /\ how \in {"intact", "longer"} => got = Accepted([layer |-> layer, payload |-> payload])
      /\ how = "cut" =>
           got = Refused("truncated") \/ (got = Refused("header_too_short") /\ ~ IsIpv4(raw))
      /\ how = "version" => got = Refused("version_mismatch")
      /\ how = "layer" =>
           \/ got = Refused("unsupported_layer")
           \/ \E other \in {Layers[code] : code \in DOMAIN Layers} :
                got = Accepted([layer |-> other, payload |-> payload])
      /\ how = "magic" => got = Refused("invalid_magic")

(* It comes in one of these ways. *)
LEMMA EventIsRead ==
  ASSUME NEW layer \in {Layers[code] : code \in DOMAIN Layers}, NEW payload, IsSeq(payload),
         NEW arrival \in Arrivals(EncodeRuntimeEvent(layer, payload), EventLayout)
  PROVE  FrameRead(arrival.how, arrival.raw, layer, payload)
  <1> DEFINE message == EncodeRuntimeEvent(layer, payload)
             raw == arrival.raw
             how == arrival.how
  <1>1. /\ HasHeader(message, EventLayout, ToWire(layer), Len(payload))
        /\ Len(message) = 16 + Len(payload)
        /\ HasPiece(message, 16, payload)
    BY EventIsFramed
  <1>2. IsSeq(message) /\ Len(payload) \in Nat
    BY <1>1, SeqParts DEF HasHeader
  <1>3. /\ EventLayout \in ReadLayouts /\ EventLayout.layered /\ EventLayout.header = 16
        /\ Len(EventLayout.magic) = 4
    BY FourBytes DEF ReadLayouts, EventLayout, EventMagic
  <1>4. ToWire(layer) \in DOMAIN Layers /\ Layers[ToWire(layer)] = layer
    BY WireLayers
  <1> HIDE DEF message
  <1>5. JudgedRight(arrival, EventLayout, ToWire(layer), message)
    BY <1>1, <1>2, <1>3, <1>4, ArrivalIsJudged DEF message
  <1>6. ASSUME IsSeq(raw), Fault(raw, EventLayout) = "none",
               EndIn(raw, EventLayout) = Len(message), HasPiece(raw, 16, payload)
        PROVE  DecodeRuntimeEvent(raw)
                 = Accepted([layer |-> Layers[LayerIn(raw, EventLayout)], payload |-> payload])
    <2>1. EndIn(raw, EventLayout) = 16 + Len(payload) /\ EndIn(raw, EventLayout) \in Nat
      BY <1>1, <1>2, <1>6
    <2>2. PayloadIn(raw, EventLayout) = payload
      <3> HIDE DEF raw
      <3> QED
        BY <1>3, <1>6, <2>1, PartIsRead, SMTT(30) DEF PayloadIn
    <2> QED
      BY <1>6, <2>2 DEF DecodeRuntimeEvent, Read
  <1>7. Fault(raw, EventLayout) # "none"
          => DecodeRuntimeEvent(raw) = Refused(Fault(raw, EventLayout))
    BY DEF DecodeRuntimeEvent, Read
  <1>8. CASE how \in {"intact", "longer"}
    <2>1. /\ IsSeq(raw) /\ Fault(raw, EventLayout) = "none"
          /\ LayerIn(raw, EventLayout) = ToWire(layer)
          /\ EndIn(raw, EventLayout) = Len(message) /\ HasPiece(raw, 0, message)
      BY <1>5, <1>8 DEF JudgedRight
    <2>2. HasPiece(raw, 16, payload)
      <3> HIDE DEF raw
      <3> QED
        BY <1>1, <1>2, <2>1, PieceOfPiece
    <2> QED
      BY <1>4, <1>6, <1>8, <2>1, <2>2 DEF FrameRead
  <1>9. CASE how = "cut"
    <2>1. /\ IsSeq(raw) /\ Fault(raw, EventLayout) \in {"header_too_short", "truncated"}
          /\ Fault(raw, EventLayout) = "header_too_short" => Len(raw) < 16
      BY <1>3, <1>5, <1>9 DEF JudgedRight
    <2>2. Len(raw) < 16 => ~ IsIpv4(raw)
      <3>1. Len(raw) \in Nat
        BY <2>1, SeqParts
      <3> QED
        BY <3>1 DEF IsIpv4
    <2> QED
      BY <1>7, <1>9, <2>1, <2>2 DEF FrameRead
  <1>10. CASE how = "version" \/ how = "magic"
    BY <1>5, <1>7, <1>10 DEF JudgedRight, FrameRead
  <1>11. CASE how = "layer"
    <2>1. CASE Fault(raw, EventLayout) = "unsupported_layer"
      BY <1>7, <1>11, <2>1 DEF FrameRead
    <2>2. CASE Fault(raw, EventLayout) # "unsupported_layer"
      <3>1. /\ IsSeq(raw) /\ Fault(raw, EventLayout) = "none"
            /\ LayerIn(raw, EventLayout) \in DOMAIN Layers
            /\ EndIn(raw, EventLayout) = Len(message)
            /\ OneReplaced(raw, message, 4 + 5)
        BY <1>3, <1>5, <1>11, <2>2 DEF JudgedRight
      <3>2. HasPiece(raw, 16, payload)
        <4>1. /\ IsSeq(raw) /\ Len(raw) = Len(message)
              /\ \A i \in 1 .. Len(message) : i # 9 => raw[i] = message[i]
          BY <3>1 DEF OneReplaced
        <4> HIDE DEF raw
        <4> QED
          BY <1>1, <1>2, <4>1, PieceElsewhere, SMTT(30)
      <3>3. DecodeRuntimeEvent(raw)
              = Accepted([layer |-> Layers[LayerIn(raw, EventLayout)], payload |-> payload])
        BY <1>6, <3>1, <3>2
      <3> QED
        BY <1>11, <3>1, <3>3 DEF FrameRead
    <2> QED
      BY <2>1, <2>2
  <1> QED
    BY <1>5, <1>8, <1>9, <1>10, <1>11 DEF JudgedRight

(* A request for another layer than the one that was meant. *)
LEMMA OtherSend ==
  ASSUME NEW layer, NEW other, NEW token, NEW packet
  PROVE  ButForItsLayer(Accepted([layer |-> other, token |-> token, packet |-> packet]),
                        Accepted([layer |-> layer, token |-> token, packet |-> packet]))
  BY DEF ButForItsLayer, Accepted

(* A packet that a client sends back: the driver has what was meant, or has  *)
(* the layer wrong and nothing else, or refuses it.                          *)
LEMMA SendIsRead ==
  ASSUME NEW layer \in PacketLayers, NEW token, NEW packet,
         IsWord(token, 8), IsSeq(packet),
         NEW arrival \in Arrivals(EncodeSendRequest(layer, token, packet), SendLayout)
  PROVE  /\ arrival.how \in {"intact", "longer", "cut", "version", "layer", "magic"}
         /\ ReadRight("send", Accepted([layer |-> layer, token |-> token, packet |-> packet]),
                      arrival.how, AcceptSend(arrival.raw))
  <1> DEFINE message == EncodeSendRequest(layer, token, packet)
             raw == arrival.raw
             how == arrival.how
             meant == Accepted([layer |-> layer, token |-> token, packet |-> packet])
  <1>0. layer \in {Layers[code] : code \in DOMAIN Layers}
    BY AllLayers
  <1>1. /\ HasHeader(message, SendLayout, ToWire(layer), Len(packet))
        /\ Len(message) = 24 + Len(packet)
        /\ HasPiece(message, 12, token) /\ HasPiece(message, 24, packet)
    BY <1>0, SendIsFramed
  <1>2. IsSeq(message) /\ IsSeq(token) /\ Len(packet) \in Nat
    BY <1>1, SeqParts DEF HasHeader, IsWord
  <1>3. /\ SendLayout \in ReadLayouts /\ SendLayout.layered /\ SendLayout.header = 24
        /\ Len(SendLayout.magic) = 4
    BY FourBytes DEF ReadLayouts, SendLayout, SendMagic
  <1>4. ToWire(layer) \in DOMAIN Layers /\ Layers[ToWire(layer)] = layer
    BY <1>0, WireLayers
  <1> HIDE DEF message
  <1>5. JudgedRight(arrival, SendLayout, ToWire(layer), message)
    BY <1>1, <1>2, <1>3, <1>4, ArrivalIsJudged DEF message
  <1>6. ASSUME IsSeq(raw), Fault(raw, SendLayout) = "none",
               EndIn(raw, SendLayout) = Len(message), HasPiece(raw, 12, token),
               HasPiece(raw, 24, packet)
        PROVE  DecodeSendRequest(raw)
                 = Accepted([layer |-> Layers[LayerIn(raw, SendLayout)],
                             token |-> token, packet |-> packet])
    <2>1. EndIn(raw, SendLayout) = 24 + Len(packet) /\ EndIn(raw, SendLayout) \in Nat
      BY <1>1, <1>2, <1>6
    <2>2. PayloadIn(raw, SendLayout) = packet
      <3> HIDE DEF raw
      <3> QED
        BY <1>3, <1>6, <2>1, PartIsRead, SMTT(30) DEF PayloadIn
    <2>3. Bytes(raw, 12, 20) = token
      <3> HIDE DEF raw
      <3> QED
        BY <1>6, WordIsRead
    <2> QED
      BY <1>6, <2>2, <2>3 DEF DecodeSendRequest, Read
  <1>7. CASE how \in {"intact", "longer"}
    <2>1. /\ IsSeq(raw) /\ Fault(raw, SendLayout) = "none"
          /\ LayerIn(raw, SendLayout) = ToWire(layer)
          /\ EndIn(raw, SendLayout) = Len(message) /\ HasPiece(raw, 0, message)
      BY <1>5, <1>7 DEF JudgedRight
    <2>2. HasPiece(raw, 12, token) /\ HasPiece(raw, 24, packet)
      <3> HIDE DEF raw
      <3> QED
        BY <1>1, <1>2, <2>1, PieceOfPiece
    <2>3. DecodeSendRequest(raw) = meant
      BY <1>4, <1>6, <2>1, <2>2
    <2>4. AcceptSend(raw) = meant
      BY <2>3 DEF AcceptSend, Accepted
    <2> QED
      BY <1>7, <2>4 DEF ReadRight
  <1>8. CASE how \in {"cut", "version", "magic"}
    <2>1. Fault(raw, SendLayout) # "none"
      BY <1>5, <1>8 DEF JudgedRight
    <2>2. ~ DecodeSendRequest(raw).ok
      BY <2>1 DEF DecodeSendRequest, Read, Refused
    <2>3. ~ AcceptSend(raw).ok
      BY <2>2 DEF AcceptSend
    <2> QED
      BY <1>8, <2>3 DEF ReadRight
  <1>9. CASE how = "layer"
    <2>1. CASE Fault(raw, SendLayout) # "none"
      <3>1. ~ DecodeSendRequest(raw).ok
        BY <2>1 DEF DecodeSendRequest, Read, Refused
      <3>2. ~ AcceptSend(raw).ok
        BY <3>1 DEF AcceptSend
      <3> QED
        BY <1>9, <3>2 DEF ReadRight
    <2>2. CASE Fault(raw, SendLayout) = "none"
      <3>1. /\ IsSeq(raw) /\ EndIn(raw, SendLayout) = Len(message)
            /\ OneReplaced(raw, message, 4 + 5)
        BY <1>3, <1>5, <1>9, <2>2 DEF JudgedRight
      <3>2. HasPiece(raw, 12, token) /\ HasPiece(raw, 24, packet)
        <4>1. /\ IsSeq(raw) /\ Len(raw) = Len(message)
              /\ \A i \in 1 .. Len(message) : i # 9 => raw[i] = message[i]
          BY <3>1 DEF OneReplaced
        <4>2. 9 \in Nat /\ 12 \in Nat /\ 24 \in Nat /\ 9 <= 12 /\ 9 <= 24
          OBVIOUS
        <4> HIDE DEF raw
        <4>3. HasPiece(raw, 12, token)
          BY <1>1, <1>2, <4>1, <4>2, PieceElsewhere, SMTT(30)
        <4>4. HasPiece(raw, 24, packet)
          BY <1>1, <1>2, <4>1, <4>2, PieceElsewhere, SMTT(30)
        <4> QED
          BY <4>3, <4>4
      <3> DEFINE other == Layers[LayerIn(raw, SendLayout)]
                 request == Accepted([layer |-> other, token |-> token, packet |-> packet])
      <3>3. DecodeSendRequest(raw) = request
        BY <1>6, <2>2, <3>1, <3>2
      <3>4. ButForItsLayer(request, meant)
        <4> HIDE DEF other
        <4> QED
          BY OtherSend
      <3>5. AcceptSend(raw) = request \/ AcceptSend(raw) = Refused("unsupported_layer")
        BY <3>3 DEF AcceptSend
      <3>6. AcceptSend(raw).ok => ButForItsLayer(AcceptSend(raw), meant)
        <4> HIDE DEF request, meant
        <4> QED
          BY <3>4, <3>5 DEF Refused
      <3> QED
        BY <1>9, <3>6 DEF ReadRight
    <2> QED
      BY <2>1, <2>2
  <1>10. how \in {"intact", "longer", "cut", "version", "layer", "magic"}
    BY <1>5 DEF JudgedRight
  <1> QED
    BY <1>7, <1>8, <1>9, <1>10

(* A client's OPEN, likewise. *)
LEMMA OpenIsRead ==
  ASSUME NEW request \in Requests,
         NEW arrival \in Arrivals(EncodeOpenRequest(request), OpenLayout)
  PROVE  /\ arrival.how \in {"intact", "longer", "cut", "version", "layer", "magic"}
         /\ ReadRight("open", Accepted(request), arrival.how, DecodeOpenRequest(arrival.raw))
  <1> DEFINE message == EncodeOpenRequest(request)
             raw == arrival.raw
             how == arrival.how
             layer == request.layer
  <1>0. /\ layer \in {Layers[code] : code \in DOMAIN Layers}
        /\ IsWord(request.priority, 2) /\ IsWord(request.flags, 8) /\ IsSeq(request.filter)
        /\ request = [layer |-> layer, priority |-> request.priority,
                      flags |-> request.flags, filter |-> request.filter]
    <2>1. request \in [layer : {Layers[code] : code \in DOMAIN Layers},
                       priority : Word(2), flags : Word(8), filter : Seq(Byte)]
      BY MessageAssumption
    <2>2. request.priority \in Word(2) /\ request.flags \in Word(8)
      BY <2>1
    <2>3. IsWord(request.priority, 2) /\ IsWord(request.flags, 8)
      BY <2>2, WordParts
    <2>4. IsSeq(request.filter)
      BY <2>1 DEF IsSeq
    <2> QED
      BY <2>1, <2>3, <2>4
  <1>1. /\ HasHeader(message, OpenLayout, ToWire(layer), Len(request.filter))
        /\ Len(message) = 20 + Len(request.filter)
        /\ HasPiece(message, 6, request.priority) /\ HasPiece(message, 8, request.flags)
        /\ HasPiece(message, 20, request.filter)
    BY <1>0, OpenIsFramed
  <1>2. /\ IsSeq(message) /\ Len(request.filter) \in Nat
        /\ IsSeq(request.priority) /\ IsSeq(request.flags) /\ IsSeq(request.filter)
    BY <1>0, <1>1, SeqParts DEF HasHeader, IsWord
  <1>3. /\ OpenLayout \in ReadLayouts /\ OpenLayout.layered /\ OpenLayout.header = 20
        /\ Len(OpenLayout.magic) = 0
    BY EmptySeq DEF ReadLayouts, OpenLayout
  <1>4. ToWire(layer) \in DOMAIN Layers /\ Layers[ToWire(layer)] = layer
    BY <1>0, WireLayers
  <1> HIDE DEF message, layer
  <1>5. JudgedRight(arrival, OpenLayout, ToWire(layer), message)
    BY <1>1, <1>2, <1>3, <1>4, ArrivalIsJudged DEF message
  <1>6. ASSUME IsSeq(raw), Fault(raw, OpenLayout) = "none",
               EndIn(raw, OpenLayout) = Len(message), HasPiece(raw, 6, request.priority),
               HasPiece(raw, 8, request.flags), HasPiece(raw, 20, request.filter)
        PROVE  DecodeOpenRequest(raw)
                 = Accepted([layer |-> Layers[LayerIn(raw, OpenLayout)],
                             priority |-> request.priority,
                             flags |-> request.flags, filter |-> request.filter])
    <2>1. EndIn(raw, OpenLayout) = 20 + Len(request.filter) /\ EndIn(raw, OpenLayout) \in Nat
      BY <1>1, <1>2, <1>6
    <2>2. PayloadIn(raw, OpenLayout) = request.filter
      <3> HIDE DEF raw
      <3> QED
        BY <1>2, <1>3, <1>6, <2>1, PartIsRead, SMTT(30) DEF PayloadIn
    <2>3. Bytes(raw, 6, 8) = request.priority
      <3>1. IsSeq(raw) /\ HasPiece(raw, 6, request.priority) /\ 6 \in Nat /\ 2 \in Nat
        BY <1>2, <1>6
      <3>2. Bytes(raw, 6, 6 + 2) = request.priority
        <4> HIDE DEF raw
        <4> QED
          BY <1>0, <3>1, WordIsRead
      <3> QED
        BY <3>2
    <2>4. Bytes(raw, 8, 16) = request.flags
      <3>1. IsSeq(raw) /\ HasPiece(raw, 8, request.flags) /\ 8 \in Nat /\ 8 \in Nat
        BY <1>2, <1>6
      <3>2. Bytes(raw, 8, 8 + 8) = request.flags
        <4> HIDE DEF raw
        <4> QED
          BY <1>0, <3>1, WordIsRead
      <3> QED
        BY <3>2
    <2> QED
      BY <1>6, <2>2, <2>3, <2>4 DEF DecodeOpenRequest, Read
  <1>7. CASE how \in {"intact", "longer"}
    <2>1. /\ IsSeq(raw) /\ Fault(raw, OpenLayout) = "none"
          /\ LayerIn(raw, OpenLayout) = ToWire(layer)
          /\ EndIn(raw, OpenLayout) = Len(message) /\ HasPiece(raw, 0, message)
      BY <1>5, <1>7 DEF JudgedRight
    <2>2. /\ HasPiece(raw, 6, request.priority) /\ HasPiece(raw, 8, request.flags)
          /\ HasPiece(raw, 20, request.filter)
      <3> HIDE DEF raw
      <3> QED
        BY <1>0, <1>1, <1>2, <2>1, PieceOfPiece
    <2>3. DecodeOpenRequest(raw) = Accepted(request)
      BY <1>0, <1>4, <1>6, <2>1, <2>2
    <2> QED
      BY <1>7, <2>3 DEF ReadRight
  <1>8. CASE how \in {"cut", "version", "magic"}
    <2>1. Fault(raw, OpenLayout) # "none"
      BY <1>5, <1>8 DEF JudgedRight
    <2>2. ~ DecodeOpenRequest(raw).ok
      BY <2>1 DEF DecodeOpenRequest, Read, Refused
    <2> QED
      BY <1>8, <2>2 DEF ReadRight
  <1>9. CASE how = "layer"
    <2>1. CASE Fault(raw, OpenLayout) # "none"
      <3>1. ~ DecodeOpenRequest(raw).ok
        BY <2>1 DEF DecodeOpenRequest, Read, Refused
      <3> QED
        BY <1>9, <3>1 DEF ReadRight
    <2>2. CASE Fault(raw, OpenLayout) = "none"
      <3>1. /\ IsSeq(raw) /\ EndIn(raw, OpenLayout) = Len(message)
            /\ OneReplaced(raw, message, 0 + 5)
        BY <1>3, <1>5, <1>9, <2>2 DEF JudgedRight
      <3>2. /\ HasPiece(raw, 6, request.priority) /\ HasPiece(raw, 8, request.flags)
            /\ HasPiece(raw, 20, request.filter)
        <4>1. /\ IsSeq(raw) /\ Len(raw) = Len(message)
              /\ \A i \in 1 .. Len(message) : i # 5 => raw[i] = message[i]
          BY <3>1 DEF OneReplaced
        <4>2. /\ 5 \in Nat /\ 6 \in Nat /\ 8 \in Nat /\ 20 \in Nat
              /\ 5 <= 6 /\ 5 <= 8 /\ 5 <= 20
          OBVIOUS
        <4> HIDE DEF raw
        <4>3. HasPiece(raw, 6, request.priority)
          BY <1>1, <1>2, <4>1, <4>2, PieceElsewhere, SMTT(30)
        <4>4. HasPiece(raw, 8, request.flags)
          BY <1>1, <1>2, <4>1, <4>2, PieceElsewhere, SMTT(30)
        <4>5. HasPiece(raw, 20, request.filter)
          BY <1>1, <1>2, <4>1, <4>2, PieceElsewhere, SMTT(30)
        <4> QED
          BY <4>3, <4>4, <4>5
      <3> DEFINE other == Layers[LayerIn(raw, OpenLayout)]
      <3>3. DecodeOpenRequest(raw)
              = Accepted([layer |-> other, priority |-> request.priority,
                          flags |-> request.flags, filter |-> request.filter])
        BY <1>6, <2>2, <3>1, <3>2
      <3>4. ButForItsLayer(DecodeOpenRequest(raw), Accepted(request))
        <4> HIDE DEF other, raw
        <4>1. request = [layer |-> request.layer, priority |-> request.priority,
                         flags |-> request.flags, filter |-> request.filter]
          BY <1>0 DEF layer
        <4>2. [request EXCEPT !.layer = other]
                = [layer |-> other, priority |-> request.priority,
                   flags |-> request.flags, filter |-> request.filter]
          BY <4>1
        <4> QED
          BY <3>3, <4>2 DEF ButForItsLayer, Accepted
      <3> QED
        BY <1>9, <3>4 DEF ReadRight
    <2> QED
      BY <2>1, <2>2
  <1>10. how \in {"intact", "longer", "cut", "version", "layer", "magic"}
    BY <1>5 DEF JudgedRight
  <1> QED
    BY <1>7, <1>8, <1>9, <1>10

(* The driver's answer.  It has no magic, so a cut one is found by its      *)
(* length alone.                                                            *)
LEMMA ResponseIsRead ==
  ASSUME NEW response \in Responses,
         NEW arrival \in Arrivals(EncodeOpenResponse(response), ResponseLayout)
  PROVE  /\ arrival.how \in {"intact", "longer", "cut", "version", "layer", "magic"}
         /\ ReadRight("answer", Accepted(response), arrival.how,
                      DecodeOpenResponse(arrival.raw))
  <1> DEFINE message == EncodeOpenResponse(response)
             raw == arrival.raw
  <1>1. /\ response.version = Version
        /\ IsWord(response.capabilities, 4) /\ IsWord(response.status, 4)
        /\ response = [version |-> Version, capabilities |-> response.capabilities,
                       status |-> response.status]
    <2>1. response \in [version : {Version}, capabilities : Word(4), status : Word(4)]
      BY MessageAssumption
    <2>2. response.capabilities \in Word(4) /\ response.status \in Word(4)
      BY <2>1
    <2>3. IsWord(response.capabilities, 4) /\ IsWord(response.status, 4)
      BY <2>2, WordParts
    <2> QED
      BY <2>1, <2>3
  <1>2. IsSeq(Version) /\ IsSeq(response.capabilities) /\ IsSeq(response.status)
    BY <1>1, VersionIsFour DEF IsWord
  <1>3. Len(Version) = 4 /\ Len(response.capabilities) = 4 /\ Len(response.status) = 4
    BY <1>1, VersionIsFour DEF IsWord
  <1>4. message = Version \o response.capabilities \o response.status
    BY <1>1 DEF EncodeOpenResponse
  <1> HIDE DEF message, raw
  <1>5. /\ IsSeq(message)
        /\ Len(message) = Len(Version) + Len(response.capabilities) + Len(response.status)
    BY <1>2, <1>4, ThreeParts
  <1>6. Len(message) = 12
    BY <1>3, <1>5
  <1>7. /\ HasPiece(message, 0, Version) /\ HasPiece(message, 4, response.capabilities)
        /\ HasPiece(message, 8, response.status)
    <2>1. 8 = Len(Version) + Len(response.capabilities)
      BY <1>3
    <2> QED
      BY <1>2, <1>3, <1>4, <2>1, ThreeParts
  <1>8. ASSUME HasPiece(raw, 0, message), IsSeq(raw)
        PROVE  DecodeOpenResponse(raw) = Accepted(response)
    <2>1. /\ Bytes(raw, 0, 4) = Version /\ Bytes(raw, 4, 8) = response.capabilities
          /\ Bytes(raw, 8, 12) = response.status
      <3>1. /\ IsWord(Version, 4) /\ IsWord(response.capabilities, 4)
            /\ IsWord(response.status, 4)
        BY <1>2, <1>3 DEF IsWord
      <3>2. /\ HasPiece(raw, 0, Version) /\ HasPiece(raw, 4, response.capabilities)
            /\ HasPiece(raw, 8, response.status)
        BY <1>2, <1>5, <1>7, <1>8, PieceOfPiece
      <3>3. Bytes(raw, 0, 4) = Version
        BY <1>8, <3>1, <3>2, WordIsRead
      <3>4. Bytes(raw, 4, 8) = response.capabilities
        BY <1>8, <3>1, <3>2, WordIsRead
      <3>5. Bytes(raw, 8, 12) = response.status
        BY <1>8, <3>1, <3>2, WordIsRead
      <3> QED
        BY <3>3, <3>4, <3>5
    <2>2. ~ (Len(raw) < 12)
      <3>1. 0 + Len(message) <= Len(raw)
        BY <1>8 DEF HasPiece
      <3>2. Len(raw) \in Nat
        BY <1>8, SeqParts
      <3> QED
        BY <1>6, <3>1, <3>2
    <2> QED
      BY <1>1, <2>1, <2>2 DEF DecodeOpenResponse
  <1>9. Len(ResponseLayout.magic) = 0 /\ ~ ResponseLayout.layered
    BY EmptySeq DEF ResponseLayout
  <1>10. CASE arrival \in Delivered(message)
    <2>1. CASE /\ arrival.how \in {"intact", "longer"}
               /\ IsSeq(raw) /\ HasPiece(raw, 0, message)
      BY <1>8, <2>1 DEF ReadRight, raw
    <2>2. CASE arrival.how = "cut" /\ Len(raw) < Len(message)
      <3>1. ~ DecodeOpenResponse(raw).ok
        BY <1>6, <2>2 DEF DecodeOpenResponse, Refused
      <3> QED
        BY <2>2, <3>1 DEF ReadRight, raw
    <2> QED
      BY <1>5, <1>10, <2>1, <2>2, WaysToDeliver DEF raw
  <1>11. ASSUME arrival.how = "version", NEW place \in 1 .. 4,
                OneReplaced(raw, message, place)
         PROVE  ReadRight("answer", Accepted(response), "version", DecodeOpenResponse(raw))
    <2>1. /\ place \in 1 .. Len(message) /\ 0 < place /\ place <= 0 + Len(Version)
          /\ 4 = 0 + Len(Version)
      BY <1>3, <1>6
    <2>2. Bytes(raw, 0, 4) # Version
      BY <1>2, <1>5, <1>7, <1>11, <2>1, ReplacedIsSeen
    <2>3. ~ DecodeOpenResponse(raw).ok
      BY <2>2 DEF DecodeOpenResponse, Refused
    <2> QED
      BY <2>3 DEF ReadRight
  <1>12. CASE /\ arrival.how = "version"
              /\ \E place \in Len(ResponseLayout.magic) + 1 .. Len(ResponseLayout.magic) + 4 :
                   place \in 1 .. Len(message) => OneReplaced(raw, message, place)
    <2>1. \A place \in Len(ResponseLayout.magic) + 1 .. Len(ResponseLayout.magic) + 4 :
            place \in 1 .. 4 /\ place \in 1 .. Len(message)
      BY <1>6, <1>9
    <2> QED
      BY <1>11, <1>12, <2>1 DEF raw
  <1>13. 1 .. Len(ResponseLayout.magic) = {}
    BY <1>9
  <1> QED
    BY <1>5, <1>9, <1>10, <1>12, <1>13, WaysToArrive DEF message, raw

-----------------------------------------------------------------------------
(* An event that carries a packet and its token. *)
IsPacketEvent(about) ==
  about.layer \in PacketLayers /\ IsWord(about.token, 8) /\ IsSeq(about.packet)

(* The parts of what is sent. *)
LEMMA EventParts ==
  /\ \A about \in NetworkEvents : about.kind = "network" /\ IsPacketEvent(about)
  /\ \A about \in SocketEvents :
       /\ about.kind = "socket" /\ IsWord(about.pid, 8)
       /\ about = [kind |-> "socket", pid |-> about.pid]
  /\ \A about \in FlowEvents :
       /\ about.kind = "flow" /\ IsWord(about.flow, 8) /\ IsWord(about.pid, 8)
       /\ about = [kind |-> "flow", flow |-> about.flow, pid |-> about.pid]
  /\ \A about \in BarePackets :
       about.kind = "bare" /\ about.layer \in PacketLayers /\ IsSeq(about.packet)
  /\ \A about \in RawPackets : about.kind = "raw" /\ IsSeq(about.packet)
  <1>1. \A packet \in Seq(Byte) : IsSeq(packet)
    BY DEF IsSeq
  <1>2. ASSUME NEW about \in NetworkEvents
        PROVE  about.kind = "network" /\ IsPacketEvent(about)
    <2>1. about.token \in Word(8)
      BY DEF NetworkEvents
    <2> QED
      BY <1>1, <2>1, WordParts DEF NetworkEvents, IsPacketEvent
  <1>3. ASSUME NEW about \in SocketEvents
        PROVE  /\ about.kind = "socket" /\ IsWord(about.pid, 8)
               /\ about = [kind |-> "socket", pid |-> about.pid]
    <2>1. about.pid \in Word(8) /\ about.kind = "socket" /\ about = [kind |-> "socket", pid |-> about.pid]
      BY DEF SocketEvents
    <2> QED
      BY <2>1, WordParts
  <1>4. ASSUME NEW about \in FlowEvents
        PROVE  /\ about.kind = "flow" /\ IsWord(about.flow, 8) /\ IsWord(about.pid, 8)
               /\ about = [kind |-> "flow", flow |-> about.flow, pid |-> about.pid]
    <2>1. /\ about.flow \in Word(8) /\ about.pid \in Word(8) /\ about.kind = "flow"
          /\ about = [kind |-> "flow", flow |-> about.flow, pid |-> about.pid]
      BY DEF FlowEvents
    <2> QED
      BY <2>1, WordParts
  <1>5. ASSUME NEW about \in BarePackets
        PROVE  about.kind = "bare" /\ about.layer \in PacketLayers /\ IsSeq(about.packet)
    BY <1>1 DEF BarePackets
  <1>6. ASSUME NEW about \in RawPackets
        PROVE  about.kind = "raw" /\ IsSeq(about.packet)
    BY <1>1 DEF RawPackets
  <1> QED
    BY <1>2, <1>3, <1>4, <1>5, <1>6

(* The payload of a socket event. *)
LEMMA SocketIsRead ==
  ASSUME NEW pid, IsWord(pid, 8)
  PROVE  /\ IsSeq(EncodeSocketPayload(pid))
         /\ Len(EncodeSocketPayload(pid)) = 16 /\ EncodeSocketPayload(pid)[1] = SocketKind
         /\ DecodeSocketPayload(EncodeSocketPayload(pid)) = Accepted([pid |-> pid])
  <1> DEFINE kind == LE4(SocketKind)
             status == LE4(0)
             message == kind \o status \o pid
  <1>1. IsSeq(kind) /\ IsSeq(status) /\ IsSeq(pid)
    BY LengthBytes DEF IsWord, SocketKind
  <1>2. Len(kind) = 4 /\ Len(status) = 4 /\ Len(pid) = 8
    BY LengthBytes DEF IsWord, SocketKind
  <1>3. EncodeSocketPayload(pid) = message
    BY DEF EncodeSocketPayload
  <1> HIDE DEF kind, status
  <1>4. IsSeq(message) /\ Len(message) = Len(kind) + Len(status) + Len(pid)
    BY <1>1, ThreeParts
  <1>5. HasPiece(message, 0, kind) /\ HasPiece(message, 8, pid)
    <2>1. 8 = Len(kind) + Len(status)
      BY <1>2
    <2> QED
      BY <1>1, <1>2, <2>1, ThreeParts
  <1> HIDE DEF message
  <1>6. Len(message) = 16
    BY <1>2, <1>4
  <1>7. FromLE4(message, 1) = SocketKind
    <2>1. FromLE4(message, 0 + 1) = SocketKind
      BY <1>5, NumberIsRead DEF kind, SocketKind
    <2> QED
      BY <2>1
  <1>8. Bytes(message, 8, 16) = pid
    BY <1>4, <1>5, WordIsRead
  <1>10. message[1] = SocketKind
    <2>1. Len(kind) = 4 /\ kind[1] = SocketKind
      BY <1>2, FourBytes DEF kind, LE4, SocketKind
    <2>2. message[0 + 1] = kind[1]
      BY <1>5, <2>1 DEF HasPiece
    <2> QED
      BY <2>1, <2>2
  <1> QED
    BY <1>10, <1>3, <1>4, <1>6, <1>7, <1>8 DEF DecodeSocketPayload

(* The payload of a flow event. *)
LEMMA FlowIsRead ==
  ASSUME NEW flow, NEW pid, IsWord(flow, 8), IsWord(pid, 8)
  PROVE  /\ IsSeq(EncodeFlowPayload(flow, pid))
         /\ Len(EncodeFlowPayload(flow, pid)) = 24 /\ EncodeFlowPayload(flow, pid)[1] = FlowKind
         /\ DecodeFlowPayload(EncodeFlowPayload(flow, pid)) = Accepted([flow |-> flow, pid |-> pid])
  <1> DEFINE kind == LE4(FlowKind)
             status == LE4(0)
             message == kind \o status \o flow \o pid
  <1>1. IsSeq(kind) /\ IsSeq(status) /\ IsSeq(flow) /\ IsSeq(pid)
    BY LengthBytes DEF IsWord, FlowKind
  <1>2. Len(kind) = 4 /\ Len(status) = 4 /\ Len(flow) = 8 /\ Len(pid) = 8
    BY LengthBytes DEF IsWord, FlowKind
  <1>3. EncodeFlowPayload(flow, pid) = message
    BY DEF EncodeFlowPayload
  <1> HIDE DEF kind, status
  <1>4. IsSeq(message) /\ Len(message) = Len(kind) + Len(status) + Len(flow) + Len(pid)
    BY <1>1, FourParts
  <1>5. HasPiece(message, 0, kind) /\ HasPiece(message, 8, flow) /\ HasPiece(message, 16, pid)
    <2>1. 8 = Len(kind) + Len(status)
      BY <1>2
    <2>2. HasPiece(message, 0, kind) /\ HasPiece(message, 8, flow)
      BY <1>1, <2>1, FourParts
    <2>3. 16 = Len(kind) + Len(status) + Len(flow)
      BY <1>2
    <2>4. HasPiece(message, 16, pid)
      BY <1>1, <2>3, FourParts
    <2> QED
      BY <2>2, <2>4
  <1> HIDE DEF message
  <1>6. Len(message) = 24
    BY <1>2, <1>4
  <1>7. FromLE4(message, 1) = FlowKind
    <2>1. FromLE4(message, 0 + 1) = FlowKind
      BY <1>5, NumberIsRead DEF kind, FlowKind
    <2> QED
      BY <2>1
  <1>8. Bytes(message, 8, 16) = flow
    BY <1>4, <1>5, WordIsRead
  <1>9. Bytes(message, 16, 24) = pid
    BY <1>4, <1>5, WordIsRead
  <1>10. message[1] = FlowKind
    <2>1. Len(kind) = 4 /\ kind[1] = FlowKind
      BY <1>2, FourBytes DEF kind, LE4, FlowKind
    <2>2. message[0 + 1] = kind[1]
      BY <1>5, <2>1 DEF HasPiece
    <2> QED
      BY <2>1, <2>2
  <1> QED
    BY <1>10, <1>3, <1>4, <1>6, <1>7, <1>8, <1>9 DEF DecodeFlowPayload

(* A kind is at least its first byte. *)
LEMMA KindIsAtLeast ==
  ASSUME NEW raw, raw[1] \in Nat, raw[2] \in Nat, raw[3] \in Nat, raw[4] \in Nat
  PROVE  FromLE4(raw, 1) >= raw[1]
  BY DEF FromLE4

(* The bytes that an IP header begins with are those of no message. *)
LEMMA FirstNibble ==
  ASSUME NEW byte \in Nat, HighNibble(byte) \in {4, 6}
  PROVE  byte >= 64 /\ byte # 87
  BY DEF HighNibble

(* Bytes that do not begin like a message are refused for just that, which *)
(* is what sends RecvEvent::decode to its fallback (frame.rs:29, 143).     *)
LEMMA BareIsNoMessage ==
  ASSUME NEW layout \in {EventLayout, NetworkLayout}, NEW raw, IsSeq(raw),
         Len(raw) >= 16 => raw[1] # 87
  PROVE  Fault(raw, layout) \in {"header_too_short", "invalid_magic"}
  <1>1. /\ layout.header = 16 /\ Len(layout.magic) = 4
        /\ layout.magic[1] = 87 /\ Len(raw) \in Nat
    BY SeqParts DEF EventLayout, NetworkLayout, EventMagic, NetworkMagic
  <1>2. CASE Len(raw) < 16
    BY <1>1, <1>2 DEF Fault
  <1>3. CASE ~ (Len(raw) < 16)
    <2>1. Bytes(raw, 0, 4) # layout.magic
      <3>1. 4 <= Len(raw)
        BY <1>1, <1>3
      <3>2. \A i \in 1 .. 4 - 0 : SubSeq(raw, 0 + 1, 4)[i] = raw[0 + i]
        BY <3>1, PartOf
      <3>3. SubSeq(raw, 0 + 1, 4)[1] = raw[1]
        BY <3>2
      <3> QED
        BY <1>1, <1>3, <3>3 DEF Bytes
    <2> QED
      BY <1>1, <1>3, <2>1 DEF Fault
  <1> QED
    BY <1>2, <1>3

(* What decoding makes of a payload by the layer it came for. *)
DecodeFor(layer, payload) ==
  CASE layer \in {"Network", "NetworkForward"} -> DecodeRuntimeNetworkPacket(layer, payload)
    [] layer = "Socket" -> SocketEvent(DecodeSocketPayload(payload))
    [] layer = "Flow" -> FlowEvent(DecodeFlowPayload(payload))
    [] layer = "Reflect" -> Refused("invalid_frame")

(* RecvEvent::decode, by what the frame's decoder says. *)
LEMMA DecodeBy ==
  ASSUME NEW raw
  PROVE  /\ \A layer, payload :
              DecodeRuntimeEvent(raw) = Accepted([layer |-> layer, payload |-> payload])
                => Decode(raw) = DecodeFor(layer, payload)
         /\ \A why : DecodeRuntimeEvent(raw) = Refused(why) =>
              IF why \in {"invalid_magic", "header_too_short"} THEN Decode(raw) = DecodeBare(raw)
              ELSE ~ Decode(raw).ok
  <1>1. ASSUME NEW layer, NEW payload,
               DecodeRuntimeEvent(raw) = Accepted([layer |-> layer, payload |-> payload])
        PROVE  Decode(raw) = DecodeFor(layer, payload)
    <2>1. /\ DecodeRuntimeEvent(raw).ok
          /\ DecodeRuntimeEvent(raw).value.layer = layer
          /\ DecodeRuntimeEvent(raw).value.payload = payload
      BY <1>1 DEF Accepted
    <2> QED
      BY <2>1 DEF Decode, DecodeFor
  <1>2. ASSUME NEW why, DecodeRuntimeEvent(raw) = Refused(why)
        PROVE  IF why \in {"invalid_magic", "header_too_short"}
               THEN Decode(raw) = DecodeBare(raw) ELSE ~ Decode(raw).ok
    <2>1. ~ DecodeRuntimeEvent(raw).ok /\ DecodeRuntimeEvent(raw).why = why
      BY <1>2 DEF Refused
    <2> QED
      BY <2>1 DEF Decode
  <1> QED
    BY <1>1, <1>2

(* A packet on its own, if it is one. *)
LEMMA BareIsTaken ==
  ASSUME NEW raw
  PROVE  /\ DecodeBare(raw).ok =>
              /\ IsIpv4(raw) /\ TakenForBare(DecodeBare(raw).value)
              /\ DecodeBare(raw).value = NetworkPacket("Network", NoToken, raw)
         /\ ~ IsIpv4(raw) => ~ DecodeBare(raw).ok
  BY DEF DecodeBare, DecodePacket, Accepted, Refused, TakenForBare, NetworkPacket

(* An event is read right however its frame comes, if its payload is read   *)
(* right for its own layer and for any other.                               *)
LEMMA FrameIsDecoded ==
  ASSUME NEW layer \in {Layers[code] : code \in DOMAIN Layers}, NEW payload, IsSeq(payload),
         NEW meant, DecodeFor(layer, payload) = meant,
         \A other \in {Layers[code] : code \in DOMAIN Layers} :
           DecodeFor(other, payload).ok => ButForItsLayer(DecodeFor(other, payload), meant),
         NEW arrival \in Arrivals(EncodeRuntimeEvent(layer, payload), EventLayout)
  PROVE  /\ arrival.how \in {"intact", "longer", "cut", "version", "layer", "magic"}
         /\ ReadRight("event", meant, arrival.how, Decode(arrival.raw))
  <1> DEFINE raw == arrival.raw
             how == arrival.how
             got == Decode(raw)
             frame == DecodeRuntimeEvent(raw)
  <1>1. FrameRead(how, raw, layer, payload)
    BY EventIsRead
  <1>2. how \in {"intact", "longer", "cut", "version", "layer", "magic"}
    BY <1>1 DEF FrameRead
  <1>3. CASE how \in {"intact", "longer"}
    <2>1. got = meant
      BY <1>1, <1>3, DecodeBy DEF FrameRead
    <2> QED
      BY <1>3, <2>1 DEF ReadRight
  <1>4. CASE how = "cut"
    <2>1. CASE frame = Refused("truncated")
      <3>1. ~ got.ok
        BY <2>1, DecodeBy
      <3> QED
        BY <1>4, <3>1 DEF ReadRight
    <2>2. CASE frame = Refused("header_too_short") /\ ~ IsIpv4(raw)
      <3>1. ~ got.ok
        BY <2>2, DecodeBy, BareIsTaken
      <3> QED
        BY <1>4, <3>1 DEF ReadRight
    <2> QED
      BY <1>1, <1>4, <2>1, <2>2 DEF FrameRead
  <1>5. CASE how = "version"
    <2>1. ~ got.ok
      BY <1>1, <1>5, DecodeBy DEF FrameRead
    <2> QED
      BY <1>5, <2>1 DEF ReadRight
  <1>6. CASE how = "layer"
    <2>1. got.ok => ButForItsLayer(got, meant)
      <3>1. CASE frame = Refused("unsupported_layer")
        BY <3>1, DecodeBy
      <3>2. ASSUME NEW other \in {Layers[code] : code \in DOMAIN Layers},
                   frame = Accepted([layer |-> other, payload |-> payload])
            PROVE  got.ok => ButForItsLayer(got, meant)
        <4>1. got = DecodeFor(other, payload)
          BY <3>2, DecodeBy
        <4> QED
          BY <4>1
      <3> QED
        BY <1>1, <1>6, <3>1, <3>2 DEF FrameRead
    <2> QED
      BY <1>6, <2>1 DEF ReadRight
  <1>7. CASE how = "magic"
    <2>1. got = DecodeBare(raw)
      BY <1>1, <1>7, DecodeBy DEF FrameRead
    <2>2. got.ok => TakenForBare(got.value)
      BY <2>1, BareIsTaken
    <2> QED
      BY <1>7, <2>2 DEF ReadRight
  <1> QED
    BY <1>2, <1>3, <1>4, <1>5, <1>6, <1>7

(* The layers, by name. *)
LEMMA LayerNames ==
  \A layer \in {Layers[code] : code \in DOMAIN Layers} :
    layer \in PacketLayers \/ layer = "Socket" \/ layer = "Flow" \/ layer = "Reflect"
  <1>1. /\ Layers[1] = "Network" /\ Layers[2] = "NetworkForward" /\ Layers[3] = "Flow"
        /\ Layers[4] = "Socket" /\ Layers[5] = "Reflect"
    BY DEF Layers
  <1>2. DOMAIN Layers = {1, 2, 3, 4, 5}
    BY DEF Layers
  <1> QED
    BY <1>1, <1>2 DEF PacketLayers

(* Each payload is read by its own layer, and by another as if it were of    *)
(* that one or not at all.                                                   *)
LEMMA ForLayers ==
  ASSUME NEW payload
  PROVE  /\ \A layer \in PacketLayers :
              DecodeFor(layer, payload) = DecodeRuntimeNetworkPacket(layer, payload)
         /\ DecodeFor("Socket", payload) = SocketEvent(DecodeSocketPayload(payload))
         /\ DecodeFor("Flow", payload) = FlowEvent(DecodeFlowPayload(payload))
         /\ DecodeFor("Reflect", payload) = Refused("invalid_frame")
  BY DEF DecodeFor, PacketLayers

(* A payload of another kind, or length, is no socket event and no flow. *)
LEMMA OtherKind ==
  ASSUME NEW payload
  PROVE  /\ Len(payload) # 16 \/ FromLE4(payload, 1) # SocketKind
              => ~ DecodeFor("Socket", payload).ok
         /\ Len(payload) # 24 \/ FromLE4(payload, 1) # FlowKind
              => ~ DecodeFor("Flow", payload).ok
  <1>1. ASSUME Len(payload) # 16 \/ FromLE4(payload, 1) # SocketKind
        PROVE  ~ DecodeFor("Socket", payload).ok
    <2>1. ~ DecodeSocketPayload(payload).ok
      BY <1>1 DEF DecodeSocketPayload, Refused
    <2>2. ~ SocketEvent(DecodeSocketPayload(payload)).ok
      BY <2>1 DEF SocketEvent
    <2> QED
      BY <2>2, ForLayers
  <1>2. ASSUME Len(payload) # 24 \/ FromLE4(payload, 1) # FlowKind
        PROVE  ~ DecodeFor("Flow", payload).ok
    <2>1. ~ DecodeFlowPayload(payload).ok
      BY <1>2 DEF DecodeFlowPayload, Refused
    <2>2. ~ FlowEvent(DecodeFlowPayload(payload)).ok
      BY <2>1 DEF FlowEvent
    <2> QED
      BY <2>2, ForLayers
  <1> QED
    BY <1>1, <1>2

(* A packet and its token, in the frame of any layer. *)
LEMMA NetworkForLayers ==
  ASSUME NEW layer \in PacketLayers, NEW token, NEW packet, IsWord(token, 8), IsSeq(packet),
         NEW payload, payload = EncodeNetworkPayload(token, packet)
  PROVE  /\ DecodeFor(layer, payload) = DecodePacket(packet, layer, token)
         /\ \A other \in {Layers[code] : code \in DOMAIN Layers} :
              DecodeFor(other, payload).ok =>
                ButForItsLayer(DecodeFor(other, payload), DecodePacket(packet, layer, token))
  <1>1. DecodeNetworkPayload(payload) = Accepted([token |-> token, packet |-> packet])
    BY PayloadIsRead
  <1>2. \A any \in PacketLayers : DecodeFor(any, payload) = DecodePacket(packet, any, token)
    BY <1>1, ForLayers DEF DecodeRuntimeNetworkPacket, Accepted
  <1>3. ASSUME NEW other \in PacketLayers, DecodeFor(other, payload).ok
        PROVE  ButForItsLayer(DecodeFor(other, payload), DecodePacket(packet, layer, token))
    <2>1. IsIpv4(packet)
      BY <1>2, <1>3 DEF DecodePacket, Refused
    <2>2. /\ DecodeFor(other, payload) = Accepted(NetworkPacket(other, token, packet))
          /\ DecodePacket(packet, layer, token) = Accepted(NetworkPacket(layer, token, packet))
      BY <1>2, <2>1 DEF DecodePacket
    <2>3. NetworkPacket(other, token, packet)
            = [NetworkPacket(layer, token, packet) EXCEPT !.layer = other]
      <3>1. [NetworkPacket(layer, token, packet) EXCEPT !.layer = other]
              = [kind |-> "network", layer |-> other, token |-> token, bytes |-> packet,
                 checksum_dirty |-> FALSE]
        <4>1. ASSUME NEW flag
              PROVE  [[kind |-> "network", layer |-> layer, token |-> token, bytes |-> packet,
                       checksum_dirty |-> flag] EXCEPT !.layer = other]
                       = [kind |-> "network", layer |-> other, token |-> token,
                          bytes |-> packet, checksum_dirty |-> flag]
          OBVIOUS
        <4> QED
          BY <4>1 DEF NetworkPacket
      <3> QED
        BY <3>1 DEF NetworkPacket
    <2>4. NetworkPacket(other, token, packet).layer = other
      BY DEF NetworkPacket
    <2>5. /\ DecodePacket(packet, layer, token).ok
          /\ DecodePacket(packet, layer, token).value = NetworkPacket(layer, token, packet)
          /\ DecodeFor(other, payload).value = NetworkPacket(other, token, packet)
      BY <2>2 DEF Accepted
    <2> QED
      BY <2>3, <2>4, <2>5 DEF ButForItsLayer
  <1>4. FromLE4(payload, 1) # SocketKind /\ FromLE4(payload, 1) # FlowKind
    <2>1. HasHeader(payload, NetworkLayout, 1, Len(packet))
      BY PayloadIsFramed
    <2>2. HasPiece(payload, 0, NetworkMagic)
      BY <2>1 DEF HasHeader, NetworkLayout
    <2>3. \A i \in 1 .. Len(NetworkMagic) : payload[0 + i] = NetworkMagic[i]
      BY <2>2 DEF HasPiece
    <2>4. payload[1] = 87 /\ payload[2] = 68 /\ payload[3] = 78 /\ payload[4] = 87
      <3>1. /\ Len(NetworkMagic) = 4 /\ NetworkMagic[1] = 87 /\ NetworkMagic[2] = 68
            /\ NetworkMagic[3] = 78 /\ NetworkMagic[4] = 87
        BY DEF NetworkMagic
      <3>2. /\ payload[0 + 1] = 87 /\ payload[0 + 2] = 68
            /\ payload[0 + 3] = 78 /\ payload[0 + 4] = 87
        BY <2>3, <3>1
      <3> QED
        BY <3>2
    <2> QED
      BY <2>4, KindIsAtLeast DEF SocketKind, FlowKind
  <1>5. ~ DecodeFor("Socket", payload).ok /\ ~ DecodeFor("Flow", payload).ok
    BY <1>4, OtherKind
  <1>6. ~ DecodeFor("Reflect", payload).ok
    BY ForLayers DEF Refused
  <1> QED
    BY <1>2, <1>3, <1>5, <1>6, LayerNames

(* A socket event, likewise: for a layer of packets it is too short for one. *)
LEMMA SocketForLayers ==
  ASSUME NEW pid, IsWord(pid, 8), NEW payload, payload = EncodeSocketPayload(pid), NEW meant,
         meant = Accepted([kind |-> "socket", pid |-> pid])
  PROVE  /\ DecodeFor("Socket", payload) = meant
         /\ \A other \in {Layers[code] : code \in DOMAIN Layers} :
              DecodeFor(other, payload).ok => other = "Socket"
  <1>1. /\ IsSeq(payload) /\ Len(payload) = 16 /\ payload[1] = SocketKind
        /\ DecodeSocketPayload(payload) = Accepted([pid |-> pid])
    BY SocketIsRead
  <1>2. DecodeFor("Socket", payload) = meant
    <2>1. DecodeSocketPayload(payload).ok /\ DecodeSocketPayload(payload).value.pid = pid
      BY <1>1 DEF Accepted
    <2>2. SocketEvent(DecodeSocketPayload(payload)) = meant
      BY <2>1 DEF SocketEvent
    <2> QED
      BY <2>2, ForLayers
  <1>3. ASSUME NEW other \in PacketLayers
        PROVE  ~ DecodeFor(other, payload).ok
    <2>1. Fault(payload, NetworkLayout) \in {"header_too_short", "invalid_magic"}
      BY <1>1, BareIsNoMessage DEF SocketKind, FlowKind
    <2>2. DecodeRuntimeNetworkPacket(other, payload) = DecodeBare(payload)
      BY <2>1 DEF DecodeRuntimeNetworkPacket, DecodeNetworkPayload, Read, Refused
    <2>3. ~ IsIpv4(payload)
      BY <1>1 DEF IsIpv4
    <2> QED
      BY <2>2, <2>3, BareIsTaken, ForLayers
  <1>4. ~ DecodeFor("Flow", payload).ok
    BY <1>1, OtherKind
  <1>5. ~ DecodeFor("Reflect", payload).ok
    BY ForLayers DEF Refused
  <1> QED
    BY <1>2, <1>3, <1>4, <1>5, LayerNames

(* A flow event, likewise: for a layer of packets it begins like none. *)
LEMMA FlowForLayers ==
  ASSUME NEW flow, NEW pid, IsWord(flow, 8), IsWord(pid, 8),
         NEW payload, payload = EncodeFlowPayload(flow, pid), NEW meant,
         meant = Accepted([kind |-> "flow", flow |-> flow, pid |-> pid])
  PROVE  /\ DecodeFor("Flow", payload) = meant
         /\ \A other \in {Layers[code] : code \in DOMAIN Layers} :
              DecodeFor(other, payload).ok => other = "Flow"
  <1>1. /\ IsSeq(payload) /\ Len(payload) = 24 /\ payload[1] = FlowKind
        /\ DecodeFlowPayload(payload) = Accepted([flow |-> flow, pid |-> pid])
    BY FlowIsRead
  <1>2. DecodeFor("Flow", payload) = meant
    <2>1. /\ DecodeFlowPayload(payload).ok /\ DecodeFlowPayload(payload).value.flow = flow
          /\ DecodeFlowPayload(payload).value.pid = pid
      BY <1>1 DEF Accepted
    <2>2. FlowEvent(DecodeFlowPayload(payload)) = meant
      BY <2>1 DEF FlowEvent
    <2> QED
      BY <2>2, ForLayers
  <1>3. ASSUME NEW other \in PacketLayers
        PROVE  ~ DecodeFor(other, payload).ok
    <2>1. Fault(payload, NetworkLayout) \in {"header_too_short", "invalid_magic"}
      BY <1>1, BareIsNoMessage DEF SocketKind, FlowKind
    <2>2. DecodeRuntimeNetworkPacket(other, payload) = DecodeBare(payload)
      BY <2>1 DEF DecodeRuntimeNetworkPacket, DecodeNetworkPayload, Read, Refused
    <2>3. ~ IsIpv4(payload)
      <3>1. HighNibble(4) # 4
        BY DEF HighNibble
      <3> QED
        BY <1>1, <3>1 DEF IsIpv4, FlowKind
    <2> QED
      BY <2>2, <2>3, BareIsTaken, ForLayers
  <1>4. ~ DecodeFor("Socket", payload).ok
    BY <1>1, OtherKind
  <1>5. ~ DecodeFor("Reflect", payload).ok
    BY ForLayers DEF Refused
  <1> QED
    BY <1>2, <1>3, <1>4, <1>5, LayerNames

(* A packet without a token, likewise. *)
LEMMA BareForLayers ==
  ASSUME NEW packet \in Seq(Byte), packet # <<>>, HighNibble(packet[1]) \in {4, 6}
  PROVE  /\ \A layer \in PacketLayers : DecodeFor(layer, packet) = DecodeBare(packet)
         /\ \A other \in {Layers[code] : code \in DOMAIN Layers} :
              DecodeFor(other, packet).ok => ButForItsLayer(DecodeFor(other, packet),
                                                            DecodeBare(packet))
  <1>1. IsSeq(packet) /\ Len(packet) \in Nat /\ Len(packet) > 0
    BY EmptySeq DEF IsSeq
  <1>2. \A i \in 1 .. Len(packet) : packet[i] \in Nat
    <2>1. \A i \in 1 .. Len(packet) : packet[i] \in Byte
      BY ElementOfSeq
    <2>2. Byte \subseteq Nat
      BY DEF Byte
    <2> QED
      BY <2>1, <2>2
  <1>3. packet[1] \in Nat /\ packet[1] >= 64 /\ packet[1] # 87
    BY <1>1, <1>2, FirstNibble
  <1>4. ASSUME NEW layer \in PacketLayers
        PROVE  DecodeFor(layer, packet) = DecodeBare(packet)
    <2>1. Fault(packet, NetworkLayout) \in {"header_too_short", "invalid_magic"}
      BY <1>1, <1>3, BareIsNoMessage
    <2>2. DecodeRuntimeNetworkPacket(layer, packet) = DecodeBare(packet)
      BY <2>1 DEF DecodeRuntimeNetworkPacket, DecodeNetworkPayload, Read, Refused
    <2> QED
      BY <2>2, ForLayers
  <1>5. DecodeBare(packet).ok => ButForItsLayer(DecodeBare(packet), DecodeBare(packet))
    BY BareIsTaken DEF ButForItsLayer, NetworkPacket
  <1>6. ~ DecodeFor("Socket", packet).ok /\ ~ DecodeFor("Flow", packet).ok
    <2>1. CASE Len(packet) \in {16, 24}
      <3>1. packet[2] \in Nat /\ packet[3] \in Nat /\ packet[4] \in Nat
        BY <1>2, <2>1
      <3>2. FromLE4(packet, 1) >= packet[1]
        BY <1>3, <3>1, KindIsAtLeast
      <3>4. FromLE4(packet, 1) \in Nat
        <4>1. \A a, b, c, d \in Nat : a + 256 * b + 65536 * c + 16777216 * d \in Nat
          OBVIOUS
        <4>2. FromLE4(packet, 1) = packet[1] + 256 * packet[2] + 65536 * packet[3]
                                     + 16777216 * packet[4]
          BY DEF FromLE4
        <4>3. packet[1] + 256 * packet[2] + 65536 * packet[3] + 16777216 * packet[4] \in Nat
          <5> DEFINE a == packet[1]
                     b == packet[2]
                     c == packet[3]
                     d == packet[4]
          <5>1. a \in Nat /\ b \in Nat /\ c \in Nat /\ d \in Nat
            BY <1>3, <3>1
          <5> HIDE DEF a, b, c, d
          <5>2. a + 256 * b + 65536 * c + 16777216 * d \in Nat
            BY <4>1, <5>1
          <5> QED
            BY <5>2 DEF a, b, c, d
        <4> QED
          BY <4>2, <4>3
      <3>3. FromLE4(packet, 1) # SocketKind /\ FromLE4(packet, 1) # FlowKind
        BY <1>3, <3>2, <3>4 DEF SocketKind, FlowKind
      <3> QED
        BY <3>3, OtherKind
    <2>2. CASE Len(packet) \notin {16, 24}
      BY <2>2, OtherKind
    <2> QED
      BY <2>1, <2>2
  <1>7. ~ DecodeFor("Reflect", packet).ok
    BY ForLayers DEF Refused
  <1> QED
    BY <1>4, <1>5, <1>6, <1>7, LayerNames

(* All that an event may be about. *)
Abouts == NetworkEvents \cup SocketEvents \cup FlowEvents \cup BarePackets \cup RawPackets

(* What a receiver may meet: packets without a header begin like packets. *)
IsAbout(about) ==
  /\ about \in Abouts
  /\ about.kind \in {"bare", "raw"} =>
       about.packet # <<>> /\ HighNibble(about.packet[1]) \in {4, 6}

(* Every event, however it comes, is read right. *)
LEMMA EventIsDecoded ==
  ASSUME NEW about, IsAbout(about), NEW arrival \in EventArrivals(about)
  PROVE  /\ arrival.how \in {"intact", "longer", "cut", "version", "layer", "magic"}
         /\ ReadRight(IF about.kind = "raw" THEN "packet" ELSE "event", Expected(about),
                      arrival.how, Decode(arrival.raw))
  <1> DEFINE raw == arrival.raw
             how == arrival.how
             got == Decode(raw)
  <1>1. CASE about \in NetworkEvents
    <2> DEFINE payload == EncodeNetworkPayload(about.token, about.packet)
               message == EncodeRuntimeEvent(about.layer, payload)
               meant == DecodePacket(about.packet, about.layer, about.token)
    <2>1. /\ about.kind = "network" /\ about.layer \in PacketLayers
          /\ IsWord(about.token, 8) /\ IsSeq(about.packet)
      BY <1>1, EventParts DEF IsPacketEvent
    <2>2. FrameBytesOf(about) = message /\ Expected(about) = meant
      BY <2>1 DEF FrameBytesOf, Expected
    <2>3. HasHeader(payload, NetworkLayout, 1, Len(about.packet))
      BY <2>1, PayloadIsFramed
    <2>4. IsSeq(payload) /\ HasPiece(payload, 0, NetworkMagic)
      BY <2>3 DEF HasHeader, NetworkLayout
    <2>5. about.layer \in {Layers[code] : code \in DOMAIN Layers}
      BY <2>1, AllLayers
    <2>6. /\ DecodeFor(about.layer, payload) = meant
          /\ \A other \in {Layers[code] : code \in DOMAIN Layers} :
               DecodeFor(other, payload).ok => ButForItsLayer(DecodeFor(other, payload), meant)
      BY <2>1, NetworkForLayers
    <2>7. CASE arrival \in Arrivals(message, EventLayout)
      <3> HIDE DEF payload, meant
      <3>1. /\ how \in {"intact", "longer", "cut", "version", "layer", "magic"}
            /\ ReadRight("event", meant, how, got)
        BY <2>4, <2>5, <2>6, <2>7, FrameIsDecoded
      <3> QED
        BY <2>1, <2>2, <3>1
    <2>8. CASE arrival \in Damaged("magic", message, 17 .. 20)
      <3> DEFINE inner == SubSeq(raw, 16 + 1, 16 + Len(payload))
      <3>1. /\ HasHeader(message, EventLayout, ToWire(about.layer), Len(payload))
            /\ Len(message) = 16 + Len(payload) /\ HasPiece(message, 16, payload)
        BY <2>4, <2>5, EventIsFramed
      <3>2. IsSeq(message) /\ Len(payload) \in Nat /\ Len(payload) >= 16
        <4>1. Len(about.packet) \in Nat /\ Len(payload) = 16 + Len(about.packet)
          BY <2>1, PayloadIsFramed, SeqParts
        <4> QED
          BY <3>1, <4>1 DEF HasHeader
      <3> HIDE DEF payload, meant, message
      <3>3. how = "magic" /\ \E place \in 17 .. 20 : OneReplaced(raw, message, place)
        <4>1. /\ how = "magic"
              /\ \E place \in 17 .. 20 :
                   place \in 1 .. Len(message) => OneReplaced(raw, message, place)
          BY <2>8, <3>2, DamageReplaces
        <4>2. \A place \in 17 .. 20 : place \in 1 .. Len(message)
          BY <3>1, <3>2
        <4> QED
          BY <4>1, <4>2
      <3>4. PICK place \in 17 .. 20 : OneReplaced(raw, message, place)
        BY <3>3
      <3>5. /\ IsSeq(raw) /\ Len(raw) = Len(message) /\ raw[place] # message[place]
            /\ \A i \in 1 .. Len(message) : i # place => raw[i] = message[i]
        BY <3>4 DEF OneReplaced
      <3>6. DecodeRuntimeEvent(raw) = Accepted([layer |-> about.layer, payload |-> inner])
        <4>1. EventLayout \in ReadLayouts /\ EventLayout.header = 16 /\ EventLayout.layered
          BY DEF ReadLayouts, EventLayout
        <4>2. ToWire(about.layer) \in DOMAIN Layers /\ Layers[ToWire(about.layer)] = about.layer
          BY <2>5, WireLayers
        <4>3. HasHeader(raw, EventLayout, ToWire(about.layer), Len(payload))
          <5>1. EventLayout.header <= Len(raw)
            BY <3>1, <3>2, <3>5, <4>1
          <5>2. \A i \in 1 .. EventLayout.header : raw[i] = message[i]
            <6>1. \A i \in 1 .. 16 : i # place /\ i \in 1 .. Len(message)
              BY <3>1, <3>2
            <6> HIDE DEF raw
            <6> QED
              BY <3>5, <4>1, <6>1
          <5> HIDE DEF raw
          <5> QED
            BY <3>1, <3>2, <3>5, <4>1, <5>1, <5>2, SameHeader
        <4>4. EndIn(raw, EventLayout) = 16 + Len(payload) /\ Fault(raw, EventLayout) = "none"
          <5>1. ~ (Len(raw) < 16 + Len(payload))
            BY <3>1, <3>2, <3>5
          <5> HIDE DEF raw
          <5> QED
            BY <3>2, <4>1, <4>2, <4>3, <5>1, HeaderIsRead
        <4>5. LayerIn(raw, EventLayout) = ToWire(about.layer)
          BY <4>1, <4>3 DEF HasHeader
        <4>6. PayloadIn(raw, EventLayout) = inner
          BY <4>1, <4>4 DEF PayloadIn, Bytes
        <4> QED
          BY <4>2, <4>4, <4>5, <4>6 DEF DecodeRuntimeEvent, Read
      <3>7. got = DecodeRuntimeNetworkPacket(about.layer, inner)
        <4> HIDE DEF raw, inner
        <4>1. Decode(raw) = DecodeFor(about.layer, inner)
          BY <3>6, DecodeBy
        <4> QED
          BY <2>1, <4>1, ForLayers
      <3>8. /\ IsSeq(inner) /\ Len(inner) = Len(payload)
            /\ \A i \in 1 .. Len(payload) : inner[i] = raw[16 + i]
        <4>1. 16 + Len(payload) \in Nat /\ 16 + Len(payload) <= Len(raw)
              /\ 16 + Len(payload) - 16 = Len(payload) /\ 16 <= 16 + Len(payload)
          BY <3>1, <3>2, <3>5
        <4>2. 16 \in Nat
          OBVIOUS
        <4>3. /\ IsSeq(SubSeq(raw, 16 + 1, 16 + Len(payload)))
              /\ Len(SubSeq(raw, 16 + 1, 16 + Len(payload))) = 16 + Len(payload) - 16
              /\ \A i \in 1 .. 16 + Len(payload) - 16 :
                   SubSeq(raw, 16 + 1, 16 + Len(payload))[i] = raw[16 + i]
          <5> DEFINE n == 16 + Len(payload)
          <5>1. IsSeq(raw) /\ n \in Nat /\ 16 <= n /\ n <= Len(raw)
            BY <3>5, <4>1
          <5> HIDE DEF raw, n
          <5>2. /\ IsSeq(SubSeq(raw, 16 + 1, n)) /\ Len(SubSeq(raw, 16 + 1, n)) = n - 16
                /\ \A i \in 1 .. n - 16 : SubSeq(raw, 16 + 1, n)[i] = raw[16 + i]
            BY <4>2, <5>1, PartOf
          <5> QED
            BY <5>2 DEF n
        <4> QED
          BY <4>1, <4>3
      <3> HIDE DEF inner
      <3>9. Fault(inner, NetworkLayout) = "invalid_magic"
        <4>1. /\ place - 16 \in 1 .. 4 /\ place - 16 \in 1 .. Len(payload)
              /\ 16 + (place - 16) = place /\ 4 <= Len(inner)
          BY <3>2, <3>8
        <4>2. inner[place - 16] = raw[place]
          BY <3>8, <4>1
        <4>3. message[place] = payload[place - 16]
          <5>1. message[16 + (place - 16)] = payload[place - 16]
            BY <3>1, <4>1 DEF HasPiece
          <5> QED
            BY <4>1, <5>1
        <4>4. payload[place - 16] = NetworkMagic[place - 16]
          <5>1. Len(NetworkMagic) = 4
            BY DEF NetworkMagic
          <5>2. payload[0 + (place - 16)] = NetworkMagic[place - 16]
            BY <2>4, <4>1, <5>1 DEF HasPiece
          <5> QED
            BY <4>1, <5>2
        <4>5. inner[place - 16] # NetworkMagic[place - 16]
          BY <3>5, <4>2, <4>3, <4>4
        <4>6. Bytes(inner, 0, 4) # NetworkMagic
          <5>1. \A i \in 1 .. 4 - 0 : SubSeq(inner, 0 + 1, 4)[i] = inner[0 + i]
            BY <3>8, <4>1, PartOf
          <5>2. SubSeq(inner, 0 + 1, 4)[place - 16] = inner[place - 16]
            BY <4>1, <5>1
          <5> QED
            BY <4>5, <5>2 DEF Bytes
        <4>7. /\ NetworkLayout.magic = NetworkMagic /\ NetworkLayout.header = 16
              /\ Len(NetworkMagic) = 4
          BY DEF NetworkLayout, NetworkMagic
        <4> QED
          BY <3>2, <3>8, <4>6, <4>7 DEF Fault
      <3>10. got = DecodeBare(inner)
        BY <3>7, <3>9 DEF DecodeRuntimeNetworkPacket, DecodeNetworkPayload, Read, Refused
      <3>11. got.ok => TakenForBare(got.value)
        <4> HIDE DEF got
        <4> QED
          BY <3>10, BareIsTaken
      <3> QED
        BY <2>1, <3>3, <3>11 DEF ReadRight
    <2> QED
      BY <2>1, <2>2, <2>7, <2>8 DEF EventArrivals
  <1>2. CASE about \in SocketEvents
    <2> DEFINE payload == EncodeSocketPayload(about.pid)
    <2>1. /\ about.kind = "socket" /\ IsWord(about.pid, 8)
          /\ about = [kind |-> "socket", pid |-> about.pid]
      BY <1>2, EventParts
    <2>2. FrameBytesOf(about) = EncodeRuntimeEvent("Socket", payload)
      BY <2>1 DEF FrameBytesOf
    <2>3. IsSeq(payload)
      BY <2>1, SocketIsRead
    <2>4. /\ DecodeFor("Socket", payload) = Accepted(about)
          /\ \A other \in {Layers[code] : code \in DOMAIN Layers} :
               DecodeFor(other, payload).ok => other = "Socket"
      BY <2>1, SocketForLayers
    <2>5. ButForItsLayer(Accepted(about), Accepted(about))
      BY <2>1 DEF ButForItsLayer, Accepted
    <2>6. Expected(about) = Accepted(about)
      BY <2>1 DEF Expected
    <2>7. arrival \in Arrivals(EncodeRuntimeEvent("Socket", payload), EventLayout)
      BY <2>1, <2>2 DEF EventArrivals, Damaged
    <2> HIDE DEF payload
    <2>8. /\ how \in {"intact", "longer", "cut", "version", "layer", "magic"}
          /\ ReadRight("event", Accepted(about), how, got)
      BY <2>3, <2>4, <2>5, <2>7, AllLayers, FrameIsDecoded
    <2> QED
      BY <2>1, <2>6, <2>8
  <1>3. CASE about \in FlowEvents
    <2> DEFINE payload == EncodeFlowPayload(about.flow, about.pid)
    <2>1. /\ about.kind = "flow" /\ IsWord(about.flow, 8) /\ IsWord(about.pid, 8)
          /\ about = [kind |-> "flow", flow |-> about.flow, pid |-> about.pid]
      BY <1>3, EventParts
    <2>2. FrameBytesOf(about) = EncodeRuntimeEvent("Flow", payload)
      BY <2>1 DEF FrameBytesOf
    <2>3. IsSeq(payload)
      BY <2>1, FlowIsRead
    <2>4. /\ DecodeFor("Flow", payload) = Accepted(about)
          /\ \A other \in {Layers[code] : code \in DOMAIN Layers} :
               DecodeFor(other, payload).ok => other = "Flow"
      BY <2>1, FlowForLayers
    <2>5. ButForItsLayer(Accepted(about), Accepted(about))
      BY <2>1 DEF ButForItsLayer, Accepted
    <2>6. Expected(about) = Accepted(about)
      BY <2>1 DEF Expected
    <2>7. arrival \in Arrivals(EncodeRuntimeEvent("Flow", payload), EventLayout)
      BY <2>1, <2>2 DEF EventArrivals, Damaged
    <2> HIDE DEF payload
    <2>8. /\ how \in {"intact", "longer", "cut", "version", "layer", "magic"}
          /\ ReadRight("event", Accepted(about), how, got)
      BY <2>3, <2>4, <2>5, <2>7, AllLayers, FrameIsDecoded
    <2> QED
      BY <2>1, <2>6, <2>8
  <1>4. CASE about \in BarePackets
    <2> DEFINE packet == about.packet
    <2>1. /\ about.kind = "bare" /\ about.layer \in PacketLayers /\ IsSeq(packet)
          /\ packet \in Seq(Byte)
      BY <1>4, EventParts DEF BarePackets
    <2>2. /\ FrameBytesOf(about) = EncodeRuntimeEvent(about.layer, packet)
          /\ Expected(about) = DecodeBare(packet)
      BY <2>1 DEF FrameBytesOf, Expected
    <2>3. /\ DecodeFor(about.layer, packet) = DecodeBare(packet)
          /\ \A other \in {Layers[code] : code \in DOMAIN Layers} :
               DecodeFor(other, packet).ok => ButForItsLayer(DecodeFor(other, packet),
                                                             DecodeBare(packet))
      BY <2>1, BareForLayers DEF IsAbout
    <2>4. arrival \in Arrivals(EncodeRuntimeEvent(about.layer, packet), EventLayout)
      BY <2>1, <2>2 DEF EventArrivals, Damaged
    <2>5. /\ how \in {"intact", "longer", "cut", "version", "layer", "magic"}
          /\ ReadRight("event", DecodeBare(packet), how, got)
      <3> HIDE DEF packet
      <3> QED
        BY <2>1, <2>3, <2>4, AllLayers, FrameIsDecoded
    <2> QED
      BY <2>1, <2>2, <2>5
  <1>5. CASE about \in RawPackets
    <2> DEFINE packet == about.packet
    <2>1. about.kind = "raw" /\ IsSeq(packet) /\ packet \in Seq(Byte)
      BY <1>5, EventParts DEF RawPackets
    <2>2. FrameBytesOf(about) = packet /\ Expected(about) = DecodeBare(packet)
      BY <2>1 DEF FrameBytesOf, Expected
    <2>3. arrival \in Delivered(packet)
      BY <2>1, <2>2 DEF EventArrivals
    <2>4. Len(packet) \in Nat /\ Len(packet) > 0 /\ packet[1] # 87
      <3>1. packet # <<>> /\ HighNibble(packet[1]) \in {4, 6}
        BY <2>1 DEF IsAbout
      <3>2. Len(packet) \in Nat /\ Len(packet) > 0 /\ packet[1] \in Nat
        <4>1. Len(packet) \in Nat /\ Len(packet) > 0
          BY <2>1, <3>1, EmptySeq DEF IsSeq
        <4>2. packet[1] \in Byte
          BY <2>1, <4>1, ElementOfSeq
        <4>3. Byte \subseteq Nat
          BY DEF Byte
        <4> HIDE DEF packet
        <4> QED
          BY <4>1, <4>2, <4>3
      <3> QED
        BY <3>1, <3>2, FirstNibble
    <2> HIDE DEF packet
    <2>5. /\ how \in {"intact", "longer", "cut"} /\ IsSeq(raw)
          /\ how = "intact" => raw = packet
          /\ Len(raw) >= 16 => raw[1] # 87
      <3>1. CASE /\ how \in {"intact", "longer"} /\ IsSeq(raw) /\ HasPiece(raw, 0, packet)
                 /\ how = "intact" => raw = packet
        <4>1. 1 \in 1 .. Len(packet) /\ 0 + 1 = 1
          BY <2>4
        <4>2. raw[0 + 1] = packet[1]
          BY <3>1, <4>1 DEF HasPiece
        <4>3. raw[1] = packet[1]
          BY <4>1, <4>2
        <4>4. raw[1] # 87
          BY <2>4, <4>3
        <4>5. how # "cut" /\ IsSeq(raw) /\ how \in {"intact", "longer", "cut"}
          BY <3>1
        <4> HIDE DEF raw, how
        <4> QED
          BY <3>1, <4>4, <4>5
      <3>2. CASE /\ how = "cut" /\ IsSeq(raw) /\ Len(raw) \in Nat
                 /\ \A i \in 1 .. Len(raw) : raw[i] = packet[i]
        BY <2>4, <3>2
      <3> QED
        BY <2>1, <2>3, <3>1, <3>2, WaysToDeliver DEF packet
    <2>6. got = DecodeBare(raw)
      <3>1. Fault(raw, EventLayout) \in {"header_too_short", "invalid_magic"}
        BY <2>5, BareIsNoMessage
      <3>2. DecodeRuntimeEvent(raw) = Refused(Fault(raw, EventLayout))
        BY <3>1 DEF DecodeRuntimeEvent, Read
      <3> QED
        BY <3>1, <3>2, DecodeBy
    <2>7. got.ok => TakenForBare(got.value)
      <3> HIDE DEF raw, got
      <3> QED
        BY <2>6, BareIsTaken
    <2> HIDE DEF got
    <2>8. ReadRight("packet", DecodeBare(packet), how, got)
      BY <2>5, <2>6, <2>7 DEF ReadRight
    <2> QED
      BY <2>1, <2>2, <2>5, <2>8 DEF got, packet
  <1> QED
    BY <1>1, <1>2, <1>3, <1>4, <1>5 DEF IsAbout, Abouts

(* Every decoder answers yes or no. *)
LEMMA DecodersAnswer ==
  ASSUME NEW raw
  PROVE  /\ DecodeOpenRequest(raw).ok \in BOOLEAN
         /\ DecodeOpenResponse(raw).ok \in BOOLEAN
         /\ DecodeSendRequest(raw).ok \in BOOLEAN
         /\ Decode(raw).ok \in BOOLEAN
  <1>1. \A layout, value : Read(raw, layout, value).ok \in BOOLEAN
    BY DEF Read, Accepted, Refused
  <1>2. \A packet, layer, token : DecodePacket(packet, layer, token).ok \in BOOLEAN
    BY DEF DecodePacket, Accepted, Refused
  <1>3. DecodeOpenResponse(raw).ok \in BOOLEAN
    BY DEF DecodeOpenResponse, Accepted, Refused
  <1>4. \A payload, layer : DecodeRuntimeNetworkPacket(layer, payload).ok \in BOOLEAN
    BY <1>2 DEF DecodeRuntimeNetworkPacket, DecodeBare, DecodeNetworkPayload, Read, Accepted, Refused
  <1>5. \A payload : SocketEvent(DecodeSocketPayload(payload)).ok \in BOOLEAN
    BY DEF SocketEvent, DecodeSocketPayload, Accepted, Refused
  <1>6. \A payload : FlowEvent(DecodeFlowPayload(payload)).ok \in BOOLEAN
    BY DEF FlowEvent, DecodeFlowPayload, Accepted, Refused
  <1>7. Decode(raw).ok \in BOOLEAN
    <2>1. CASE Fault(raw, EventLayout) = "none"
      <3> DEFINE layer == Layers[LayerIn(raw, EventLayout)]
                 payload == PayloadIn(raw, EventLayout)
      <3>1. DecodeRuntimeEvent(raw) = Accepted([layer |-> layer, payload |-> payload])
        BY <2>1 DEF DecodeRuntimeEvent, Read
      <3>2. LayerIn(raw, EventLayout) \in DOMAIN Layers
        BY <2>1 DEF Fault, EventLayout
      <3>3. layer \in {"Network", "NetworkForward", "Flow", "Socket", "Reflect"}
        <4> HIDE DEF layer
        <4> QED
          BY <3>2 DEF Layers, layer
      <3> HIDE DEF layer, payload
      <3>4. CASE layer \in {"Network", "NetworkForward"}
        BY <1>4, <3>1, <3>4 DEF Decode, Accepted
      <3>5. CASE layer = "Socket"
        BY <1>5, <3>1, <3>5 DEF Decode, Accepted
      <3>6. CASE layer = "Flow"
        BY <1>6, <3>1, <3>6 DEF Decode, Accepted
      <3>7. CASE layer = "Reflect"
        BY <3>1, <3>7 DEF Decode, Accepted, Refused
      <3> QED
        BY <3>3, <3>4, <3>5, <3>6, <3>7
    <2>2. CASE Fault(raw, EventLayout) # "none"
      <3>1. DecodeRuntimeEvent(raw) = Refused(Fault(raw, EventLayout))
        BY <2>2 DEF DecodeRuntimeEvent, Read
      <3>2. ~ DecodeRuntimeEvent(raw).ok /\ DecodeRuntimeEvent(raw).ok \in BOOLEAN
        BY <3>1 DEF Refused
      <3>3. Decode(raw) \in {DecodeBare(raw), DecodeRuntimeEvent(raw)}
        BY <3>2 DEF Decode
      <3>4. DecodeBare(raw).ok \in BOOLEAN
        BY <1>2 DEF DecodeBare
      <3> QED
        BY <3>2, <3>3, <3>4
    <2> QED
      BY <2>1, <2>2
  <1> QED
    BY <1>1, <1>3, <1>7 DEF DecodeOpenRequest, DecodeSendRequest

-----------------------------------------------------------------------------
(* Induction, of a set of numbers: library theorems that take no operator  *)
(* give the least number outside of it.                                    *)
LEMMA AllNumbers ==
  ASSUME NEW P \in SUBSET Nat, 0 \in P, \A k \in P : k + 1 \in P
  PROVE  P = Nat
  <1> DEFINE T == Nat \ P
             R == OpToRel(<, Nat)
  <1>1. ASSUME T # {}
        PROVE  FALSE
    <2>1. IsWellFoundedOn(R, Nat)
      BY NatLessThanWellFounded
    <2>2. T \subseteq Nat
      OBVIOUS
    <2>3. PICK k \in T : \A j \in T : ~ (<<j, k>> \in R)
      <3> HIDE DEF T, R
      <3> QED
        BY <1>1, <2>1, <2>2, WFMin
    <2>4. \A j \in T : ~ (j < k)
      BY <2>3 DEF OpToRel
    <2>5. k \in Nat \ {0} /\ k - 1 \in Nat /\ k - 1 < k /\ (k - 1) + 1 = k
      OBVIOUS
    <2>6. k - 1 \in P
      BY <2>4, <2>5
    <2> QED
      BY <2>5, <2>6
  <1> QED
    BY <1>1

(* What a byte adds to its header's sum. *)
Term(header, i) == header[i] * (IF i % 2 = 1 THEN 256 ELSE 1)

(* The byte that the sum takes next. *)
Pick(s) == CHOOSE x \in s : TRUE

(* The sum of each part of a header, one byte at a time. *)
Sums(header) ==
  CHOOSE sum : sum = [s \in SUBSET DOMAIN header |->
    IF s = {} THEN 0 ELSE Term(header, Pick(s)) + sum[s \ {Pick(s)}]]

(* MapThenSumSet is such a sum. *)
LEMMA WordSumIsSum == \A header : WordSum(header) = Sums(header)[DOMAIN header]
  BY DEF WordSum, MapThenSumSet, MapThenFoldSet, Sums, Term, Pick

(* The parts of at most k bytes: the induction is on k. *)
UpTo(D, k) == {s \in SUBSET D : Cardinality(s) <= k}

(* Without one of its bytes a part is smaller. *)
LEMMA Smaller ==
  ASSUME NEW D, IsFiniteSet(D), NEW k \in Nat, NEW s \in UpTo(D, k + 1), NEW x \in s
  PROVE  s \ {x} \in UpTo(D, k) /\ Cardinality(s) \in Nat
  <1>1. s \in SUBSET D /\ Cardinality(s) <= k + 1
    BY DEF UpTo
  <1>2. IsFiniteSet(s) /\ Cardinality(s) \in Nat
    BY <1>1, FS_Subset, FS_CardinalityType
  <1>3. Cardinality(s \ {x}) = Cardinality(s) - 1
    BY <1>2, FS_RemoveElement
  <1> QED
    BY <1>1, <1>2, <1>3 DEF UpTo

(* Only the empty part has no byte. *)
LEMMA NoneIsUpTo ==
  ASSUME NEW D, IsFiniteSet(D)
  PROVE  UpTo(D, 0) = {{}}
  <1>1. {} \in UpTo(D, 0)
    BY FS_EmptySet DEF UpTo
  <1>2. ASSUME NEW s \in UpTo(D, 0)
        PROVE  s = {}
    <2>1. s \in SUBSET D /\ Cardinality(s) <= 0
      BY DEF UpTo
    <2>2. IsFiniteSet(s) /\ Cardinality(s) \in Nat
      BY <2>1, FS_Subset, FS_CardinalityType
    <2> QED
      BY <2>1, <2>2, FS_EmptySet
  <1> QED
    BY <1>1, <1>2

(* A part has no more bytes than the whole. *)
LEMMA AllAreUpTo ==
  ASSUME NEW D, IsFiniteSet(D)
  PROVE  Cardinality(D) \in Nat /\ UpTo(D, Cardinality(D)) = SUBSET D
  BY FS_Subset, FS_CardinalityType DEF UpTo

(* The byte taken next is one of the part's. *)
PickIn == \A s : s # {} => Pick(s) \in s
(* It is. *)
LEMMA PickIsIn == PickIn
  BY DEF PickIn, Pick

(* sum is the sum of every part of at most k bytes. *)
SumsTo(header, k, sum) ==
  sum = [s \in UpTo(DOMAIN header, k) |->
          IF s = {} THEN 0 ELSE Term(header, Pick(s)) + sum[s \ {Pick(s)}]]

(* Such sums exist, by induction: from those of smaller parts. *)
LEMMA SumsExist ==
  ASSUME NEW header, IsFiniteSet(DOMAIN header), NEW k \in Nat
  PROVE  \E sum : SumsTo(header, k, sum)
  <1> DEFINE P == {j \in Nat : \E sum : SumsTo(header, j, sum)}
             D == DOMAIN header
  <1>1. 0 \in P
    <2> DEFINE sum == [s \in UpTo(D, 0) |-> 0]
    <2>1. sum = [s \in UpTo(D, 0) |->
                  IF s = {} THEN 0 ELSE Term(header, Pick(s)) + sum[s \ {Pick(s)}]]
      BY NoneIsUpTo
    <2>2. SumsTo(header, 0, sum)
      BY <2>1 DEF SumsTo
    <2> QED
      BY <2>2
  <1>2. ASSUME NEW j \in P
        PROVE  j + 1 \in P
    <2>1. PICK sum : SumsTo(header, j, sum)
      OBVIOUS
    <2> DEFINE more == [s \in UpTo(D, j + 1) |->
                         IF s = {} THEN 0 ELSE Term(header, Pick(s)) + sum[s \ {Pick(s)}]]
    <2>2. ASSUME NEW t \in UpTo(D, j)
          PROVE  t \in UpTo(D, j + 1) /\ more[t] = sum[t]
      <3>1. t \in SUBSET D /\ Cardinality(t) <= j /\ j \in Nat
        BY DEF UpTo
      <3>2. Cardinality(t) \in Nat
        BY <3>1, FS_Subset, FS_CardinalityType
      <3>3. t \in UpTo(D, j + 1)
        BY <3>1, <3>2 DEF UpTo
      <3>4. sum[t] = IF t = {} THEN 0 ELSE Term(header, Pick(t)) + sum[t \ {Pick(t)}]
        BY <2>1 DEF SumsTo
      <3> QED
        BY <3>3, <3>4
    <2>3. ASSUME NEW s \in UpTo(D, j + 1), s # {}
          PROVE  more[s \ {Pick(s)}] = sum[s \ {Pick(s)}]
      <3>1. s \ {Pick(s)} \in UpTo(D, j)
        BY <2>3, Smaller, PickIsIn DEF PickIn
      <3> QED
        BY <2>2, <3>1
    <2>4. more = [s \in UpTo(D, j + 1) |->
                   IF s = {} THEN 0 ELSE Term(header, Pick(s)) + more[s \ {Pick(s)}]]
      BY <2>3
    <2>5. SumsTo(header, j + 1, more)
      BY <2>4 DEF SumsTo
    <2> HIDE DEF more
    <2> QED
      BY <2>5
  <1>3. P = Nat
    <2>1. P \in SUBSET Nat
      OBVIOUS
    <2> HIDE DEF P
    <2> QED
      BY <1>1, <1>2, <2>1, AllNumbers
  <1> QED
    BY <1>3

(* The sum of any part of a header. *)
LEMMA SumIsDefined ==
  ASSUME NEW header, IsFiniteSet(DOMAIN header), NEW s \in SUBSET DOMAIN header
  PROVE  Sums(header)[s] =
           IF s = {} THEN 0 ELSE Term(header, Pick(s)) + Sums(header)[s \ {Pick(s)}]
  <1> DEFINE D == DOMAIN header
  <1>1. PICK sum : SumsTo(header, Cardinality(D), sum)
    BY AllAreUpTo, SumsExist
  <1>2. sum = [t \in SUBSET D |->
                IF t = {} THEN 0 ELSE Term(header, Pick(t)) + sum[t \ {Pick(t)}]]
    BY <1>1, AllAreUpTo DEF SumsTo
  <1>3. Sums(header) = [t \in SUBSET DOMAIN header |->
          IF t = {} THEN 0 ELSE Term(header, Pick(t)) + Sums(header)[t \ {Pick(t)}]]
    BY <1>2 DEF Sums
  <1> QED
    BY <1>3

(* What of bytes is a sum. *)
LEMMA SumIsNatural ==
  ASSUME NEW header, IsFiniteSet(DOMAIN header), \A i \in DOMAIN header : header[i] \in Nat,
         NEW s \in SUBSET DOMAIN header
  PROVE  Sums(header)[s] \in Nat
  <1> DEFINE D == DOMAIN header
             P == {k \in Nat : \A t \in UpTo(D, k) : Sums(header)[t] \in Nat}
  <1>1. 0 \in P
    BY NoneIsUpTo, SumIsDefined
  <1>2. ASSUME NEW k \in P
        PROVE  k + 1 \in P
    <2>1. ASSUME NEW t \in UpTo(D, k + 1), t # {}
          PROVE  Sums(header)[t] \in Nat
      <3>1. t \in SUBSET D /\ Pick(t) \in t
        BY <2>1, PickIsIn DEF UpTo, PickIn
      <3>2. t \ {Pick(t)} \in UpTo(D, k)
        BY <3>1, Smaller
      <3>3. Sums(header)[t \ {Pick(t)}] \in Nat
        BY <3>2
      <3>4. Term(header, Pick(t)) \in Nat
        BY <3>1 DEF Term
      <3>5. Sums(header)[t] = Term(header, Pick(t)) + Sums(header)[t \ {Pick(t)}]
        BY <2>1, <3>1, SumIsDefined
      <3> QED
        BY <3>3, <3>4, <3>5
    <2>2. Sums(header)[{}] = 0
      BY SumIsDefined
    <2>3. ASSUME NEW t \in UpTo(D, k + 1)
          PROVE  Sums(header)[t] \in Nat
      <3>1. CASE t = {}
        BY <2>2, <3>1
      <3> QED
        BY <2>1, <3>1
    <2> QED
      BY <2>3
  <1>3. P = Nat
    <2>1. P \in SUBSET Nat
      OBVIOUS
    <2> HIDE DEF P
    <2> QED
      BY <1>1, <1>2, <2>1, AllNumbers
  <1> QED
    BY <1>3, AllAreUpTo

(* What a byte adds is a number. *)
LEMMA TermIsNatural ==
  ASSUME NEW header, \A i \in DOMAIN header : header[i] \in Nat, NEW i \in DOMAIN header
  PROVE  Term(header, i) \in Nat
  BY DEF Term

(* The order of adding does not matter: any byte may be taken out first. *)
LEMMA SumWithout ==
  ASSUME NEW header, IsFiniteSet(DOMAIN header), \A i \in DOMAIN header : header[i] \in Nat,
         NEW s \in SUBSET DOMAIN header, NEW i \in s
  PROVE  Sums(header)[s] = Term(header, i) + Sums(header)[s \ {i}]
  <1> DEFINE D == DOMAIN header
             P == {k \in Nat : \A t \in UpTo(D, k) : \A j \in t :
                     Sums(header)[t] = Term(header, j) + Sums(header)[t \ {j}]}
  <1>1. 0 \in P
    BY NoneIsUpTo
  <1>2. ASSUME NEW k \in P
        PROVE  k + 1 \in P
    <2>1. ASSUME NEW t \in UpTo(D, k + 1), NEW j \in t
          PROVE  Sums(header)[t] = Term(header, j) + Sums(header)[t \ {j}]
      <3> DEFINE x == Pick(t)
      <3>1. t \in SUBSET D /\ x \in t
        BY PickIsIn DEF UpTo, PickIn
      <3>2. Sums(header)[t] = Term(header, x) + Sums(header)[t \ {x}]
        BY <3>1, SumIsDefined
      <3> HIDE DEF x
      <3>3. CASE x = j
        BY <3>2, <3>3
      <3>4. CASE x # j
        <4>1. t \ {x} \in UpTo(D, k) /\ t \ {j} \in UpTo(D, k)
          BY <3>1, Smaller
        <4>2. j \in t \ {x} /\ x \in t \ {j}
          BY <3>1, <3>4
        <4>3. Sums(header)[t \ {x}] = Term(header, j) + Sums(header)[(t \ {x}) \ {j}]
          BY <4>1, <4>2
        <4>4. Sums(header)[t \ {j}] = Term(header, x) + Sums(header)[(t \ {j}) \ {x}]
          BY <4>1, <4>2
        <4>5. (t \ {j}) \ {x} = (t \ {x}) \ {j}
          OBVIOUS
        <4> DEFINE rest == (t \ {x}) \ {j}
        <4>6. Sums(header)[rest] \in Nat /\ Term(header, x) \in Nat /\ Term(header, j) \in Nat
          BY <3>1, SumIsNatural, TermIsNatural
        <4>7. Sums(header)[t \ {x}] = Term(header, j) + Sums(header)[rest]
          BY <4>3
        <4>8. Sums(header)[t \ {j}] = Term(header, x) + Sums(header)[rest]
          BY <4>4, <4>5
        <4> HIDE DEF rest
        <4> QED
          BY <3>2, <4>6, <4>7, <4>8
      <3> QED
        BY <3>3, <3>4
    <2> QED
      BY <2>1
  <1>3. P = Nat
    <2>1. P \in SUBSET Nat
      OBVIOUS
    <2> HIDE DEF P
    <2> QED
      BY <1>1, <1>2, <2>1, AllNumbers
  <1> QED
    BY <1>3, AllAreUpTo

(* The sum of a part does not depend on the rest. *)
LEMMA SameSums ==
  ASSUME NEW one, NEW other, IsFiniteSet(DOMAIN one), DOMAIN other = DOMAIN one,
         NEW s \in SUBSET DOMAIN one, \A i \in s : one[i] = other[i]
  PROVE  Sums(one)[s] = Sums(other)[s]
  <1> DEFINE P == {k \in Nat : \A t \in UpTo(DOMAIN one, k) :
                     t \subseteq s => Sums(one)[t] = Sums(other)[t]}
  <1>1. 0 \in P
    <2>1. Sums(one)[{}] = 0 /\ Sums(other)[{}] = 0
      BY SumIsDefined
    <2> QED
      BY <2>1, NoneIsUpTo
  <1>2. ASSUME NEW k \in P
        PROVE  k + 1 \in P
    <2>1. ASSUME NEW t \in UpTo(DOMAIN one, k + 1), t \subseteq s
          PROVE  Sums(one)[t] = Sums(other)[t]
      <3>1. CASE t = {}
        <4>1. Sums(one)[{}] = 0 /\ Sums(other)[{}] = 0
          BY SumIsDefined
        <4> QED
          BY <3>1, <4>1
      <3>2. CASE t # {}
        <4>1. Pick(t) \in t
          BY <3>2, PickIsIn DEF PickIn
        <4>2. t \ {Pick(t)} \in UpTo(DOMAIN one, k)
          BY <4>1, Smaller
        <4>3. Sums(one)[t \ {Pick(t)}] = Sums(other)[t \ {Pick(t)}]
          BY <2>1, <4>2
        <4>4. Term(one, Pick(t)) = Term(other, Pick(t))
          BY <2>1, <4>1 DEF Term
        <4>5. Sums(one)[t] = Term(one, Pick(t)) + Sums(one)[t \ {Pick(t)}]
          BY <2>1, <3>2, SumIsDefined
        <4>6. Sums(other)[t] = Term(other, Pick(t)) + Sums(other)[t \ {Pick(t)}]
          BY <2>1, <3>2, SumIsDefined
        <4> QED
          BY <4>3, <4>4, <4>5, <4>6
      <3> QED
        BY <3>1, <3>2
    <2> QED
      BY <2>1
  <1>3. P = Nat
    <2>1. P \in SUBSET Nat
      OBVIOUS
    <2> HIDE DEF P
    <2> QED
      BY <1>1, <1>2, <2>1, AllNumbers
  <1> QED
    BY <1>3, AllAreUpTo

(* The checksum's own two bytes, taken out of a header's sum. *)
LEMMA SumAndChecksum ==
  ASSUME NEW header, NEW n \in Nat, 12 <= n, DOMAIN header = 1 .. n,
         \A i \in 1 .. n : header[i] \in Nat
  PROVE  /\ WordSum(header) \in Nat
         /\ Sums(header)[(1 .. n) \ {11, 12}] \in Nat
         /\ WordSum(header) = header[11] * 256 + header[12]
                                + Sums(header)[(1 .. n) \ {11, 12}]
  <1> DEFINE D == 1 .. n
             rest == D \ {11, 12}
  <1>1. IsFiniteSet(D) /\ 11 \in D /\ 12 \in D \ {11} /\ rest = (D \ {11}) \ {12}
    BY FS_Interval
  <1>2. Sums(header)[D] = Term(header, 11) + Sums(header)[D \ {11}]
    BY <1>1, SumWithout
  <1>3. Sums(header)[D \ {11}] = Term(header, 12) + Sums(header)[rest]
    <2>1. D \ {11} \in SUBSET DOMAIN header /\ 12 \in D \ {11} /\ IsFiniteSet(DOMAIN header)
      BY <1>1
    <2>2. \A i \in DOMAIN header : header[i] \in Nat
      OBVIOUS
    <2>3. Sums(header)[D \ {11}] = Term(header, 12) + Sums(header)[(D \ {11}) \ {12}]
      <3> HIDE DEF D
      <3> QED
        BY <2>1, <2>2, SumWithout
    <2> QED
      BY <1>1, <2>3
  <1>4. Term(header, 11) = header[11] * 256 /\ Term(header, 12) = header[12]
    <2>1. header[11] \in Nat /\ header[12] \in Nat
      BY <1>1
    <2> QED
      BY <2>1 DEF Term
  <1>5. Sums(header)[rest] \in Nat /\ header[11] \in Nat /\ header[12] \in Nat
    BY <1>1, SumIsNatural
  <1>6. WordSum(header) = Sums(header)[D]
    BY WordSumIsSum
  <1> HIDE DEF D
  <1>7. WordSum(header) = header[11] * 256 + (header[12] + Sums(header)[rest])
    BY <1>2, <1>3, <1>4, <1>6
  <1> HIDE DEF rest
  <1> QED
    BY <1>5, <1>7 DEF rest, D

(* A sum and its complement fold to 65535: the carries come back in. *)
LEMMA ComplementFolds ==
  ASSUME NEW sum \in Nat
  PROVE  /\ Folded(sum) \in Nat /\ Folded(sum) <= 65535
         /\ Folded(sum + (65535 - Folded(sum))) = 65535
  <1>1. CASE sum = 0
    BY <1>1 DEF Folded
  <1>2. CASE sum # 0
    <2> DEFINE q == (sum - 1) \div 65535
               r == (sum - 1) % 65535
    <2>1. sum - 1 \in Nat
      BY <1>2
    <2>2. q \in Nat /\ r \in Nat /\ r < 65535 /\ sum - 1 = 65535 * q + r
      BY <2>1
    <2>3. Folded(sum) = 1 + r
      BY <1>2 DEF Folded
    <2> HIDE DEF q, r
    <2>4. Folded(sum) \in Nat /\ Folded(sum) <= 65535
      BY <2>2, <2>3
    <2>5. sum + (65535 - Folded(sum)) = 65535 * q + 65535
      BY <2>2, <2>3
    <2>6. 65535 * q + 65535 # 0 /\ (65535 * q + 65535) - 1 = 65535 * q + 65534
      BY <2>2
    <2>7. (65535 * q + 65534) % 65535 = 65534
      BY <2>2
    <2>8. Folded(65535 * q + 65535) = 65535
      BY <2>6, <2>7 DEF Folded
    <2> QED
      BY <2>4, <2>5, <2>8
  <1> QED
    BY <1>1, <1>2

-----------------------------------------------------------------------------
(* A whole IPv4 packet. *)
IsPacket(bytes) == IsSeq(bytes) /\ IsIpv4(bytes) /\ \A i \in DOMAIN bytes : bytes[i] \in Nat

(* Its header is inside it, and holds the bytes an edit may touch. *)
LEMMA HeaderParts ==
  ASSUME NEW bytes, IsPacket(bytes)
  PROVE  /\ Len(bytes) \in Nat /\ DOMAIN bytes = 1 .. Len(bytes)
         /\ HeaderLen(bytes) \in Nat /\ 20 <= HeaderLen(bytes) /\ HeaderLen(bytes) <= Len(bytes)
         /\ IsSeq(Header(bytes)) /\ Len(Header(bytes)) = HeaderLen(bytes)
         /\ DOMAIN Header(bytes) = 1 .. HeaderLen(bytes)
         /\ \A i \in 1 .. HeaderLen(bytes) : Header(bytes)[i] = bytes[i] /\ bytes[i] \in Nat
  <1> DEFINE n == HeaderLen(bytes)
  <1>1. Len(bytes) \in Nat /\ DOMAIN bytes = 1 .. Len(bytes) /\ 20 <= Len(bytes)
    BY SeqParts DEF IsPacket, IsIpv4
  <1>2. \A i \in 1 .. Len(bytes) : bytes[i] \in Nat
    BY <1>1 DEF IsPacket
  <1>3. bytes[1] \in Nat
    BY <1>1, <1>2
  <1>4. n \in Nat /\ 20 <= n /\ n <= Len(bytes)
    <2>1. LowNibble(bytes[1]) \in Nat
      BY <1>3 DEF LowNibble
    <2>2. 5 <= LowNibble(bytes[1]) /\ Len(bytes) >= HeaderLen(bytes)
      BY <2>1 DEF IsPacket, IsIpv4
    <2> QED
      BY <1>1, <2>1, <2>2 DEF HeaderLen
  <1> HIDE DEF n
  <1>5. /\ IsSeq(SubSeq(bytes, 0 + 1, n)) /\ Len(SubSeq(bytes, 0 + 1, n)) = n - 0
        /\ \A i \in 1 .. n - 0 : SubSeq(bytes, 0 + 1, n)[i] = bytes[0 + i]
    <2>1. IsSeq(bytes) /\ 0 \in Nat /\ 0 <= n
      BY <1>4 DEF IsPacket
    <2> QED
      BY <1>4, <2>1, PartOf
  <1>6. Header(bytes) = SubSeq(bytes, 0 + 1, n)
    BY DEF Header, n
  <1>7. /\ IsSeq(Header(bytes)) /\ Len(Header(bytes)) = n
        /\ \A i \in 1 .. n : Header(bytes)[i] = bytes[i]
    BY <1>4, <1>5, <1>6
  <1>8. DOMAIN Header(bytes) = 1 .. n
    BY <1>7, SeqParts
  <1>9. \A i \in 1 .. n : bytes[i] \in Nat
    BY <1>1, <1>2, <1>4
  <1> QED
    BY <1>1, <1>4, <1>7, <1>8, <1>9 DEF n

(* An edit leaves a packet a packet, and its header as long. *)
LEMMA EditIsPacket ==
  ASSUME NEW bytes, IsPacket(bytes), NEW place \in {9, 11, 12}, NEW byte \in Nat
  PROVE  /\ IsPacket([bytes EXCEPT ![place] = byte])
         /\ HeaderLen([bytes EXCEPT ![place] = byte]) = HeaderLen(bytes)
         /\ \A i \in 1 .. Len(bytes) :
              [bytes EXCEPT ![place] = byte][i] = IF i = place THEN byte ELSE bytes[i]
  <1> DEFINE new == [bytes EXCEPT ![place] = byte]
  <1>1. /\ IsSeq(bytes) /\ IsIpv4(bytes) /\ Len(bytes) \in Nat /\ 20 <= Len(bytes)
        /\ DOMAIN bytes = 1 .. Len(bytes)
    BY SeqParts DEF IsPacket, IsIpv4
  <1>2. place \in 1 .. Len(bytes) /\ 1 \in 1 .. Len(bytes) /\ 1 # place
    BY <1>1
  <1>3. /\ IsSeq(new) /\ Len(new) = Len(bytes) /\ new[place] = byte
        /\ \A i \in 1 .. Len(bytes) : i # place => new[i] = bytes[i]
    <2>1. IsSeq(bytes) /\ place \in 1 .. Len(bytes)
      BY <1>1, <1>2
    <2> QED
      BY <2>1, Replaced
  <1> HIDE DEF new
  <1>4. new[1] = bytes[1]
    BY <1>2, <1>3
  <1>5. HeaderLen(new) = HeaderLen(bytes) /\ IsIpv4(new)
    BY <1>1, <1>3, <1>4 DEF HeaderLen, IsIpv4
  <1>6. DOMAIN new = 1 .. Len(bytes)
    BY <1>3, SeqParts
  <1>7. \A i \in DOMAIN new : new[i] \in Nat
    BY <1>1, <1>3, <1>6 DEF IsPacket
  <1>8. IsPacket(new)
    BY <1>3, <1>5, <1>7 DEF IsPacket
  <1> QED
    BY <1>3, <1>5, <1>8 DEF new

(* A number in two halves. *)
LEMMA TwoHalves ==
  ASSUME NEW n \in Nat
  PROVE  n \div 256 \in Nat /\ n % 256 \in Nat /\ (n \div 256) * 256 + (n % 256) = n
  OBVIOUS

(* A repaired header verifies, whatever its checksum was before: its words *)
(* are those of the blank one and the complement of their sum.             *)
LEMMA RepairVerifies ==
  ASSUME NEW bytes, IsPacket(bytes)
  PROVE  IsPacket(Repaired(bytes)) /\ Folded(WordSum(Header(Repaired(bytes)))) = 65535
  <1> DEFINE b1 == [bytes EXCEPT ![11] = 0]
             b2 == [b1 EXCEPT ![12] = 0]
             checksum == Ipv4HeaderChecksum(Header(b2))
             high == checksum \div 256
             low == checksum % 256
             b3 == [b2 EXCEPT ![11] = high]
             b4 == [b3 EXCEPT ![12] = low]
             n == HeaderLen(bytes)
             rest == (1 .. n) \ {11, 12}
  <1>1. Repaired(bytes) = b4
    BY DEF Repaired
  <1>2. 0 \in Nat
    OBVIOUS
  <1>3. /\ IsPacket(b1) /\ HeaderLen(b1) = n
        /\ \A i \in 1 .. Len(bytes) : b1[i] = IF i = 11 THEN 0 ELSE bytes[i]
    BY <1>2, EditIsPacket
  <1> HIDE DEF b1
  <1>4. /\ IsPacket(b2) /\ HeaderLen(b2) = n
        /\ \A i \in 1 .. Len(b1) : b2[i] = IF i = 12 THEN 0 ELSE b1[i]
    BY <1>2, <1>3, EditIsPacket
  <1> HIDE DEF b2
  <1>5. /\ n \in Nat /\ 20 <= n /\ n <= Len(b1) /\ n <= Len(b2) /\ n <= Len(bytes)
        /\ Len(b1) \in Nat /\ Len(b2) \in Nat /\ Len(bytes) \in Nat
    BY <1>3, <1>4, HeaderParts
  <1>6. /\ DOMAIN Header(b2) = 1 .. n
        /\ \A i \in 1 .. n : Header(b2)[i] = b2[i] /\ b2[i] \in Nat
    BY <1>4, HeaderParts
  <1> HIDE DEF n
  <1>7. Header(b2)[11] = 0 /\ Header(b2)[12] = 0
    <2>1. 11 \in 1 .. n /\ 12 \in 1 .. n /\ 11 \in 1 .. Len(b1) /\ 12 \in 1 .. Len(b1)
          /\ 11 \in 1 .. Len(bytes)
      BY <1>5
    <2> QED
      BY <1>3, <1>4, <1>6, <2>1
  <1>8. /\ WordSum(Header(b2)) \in Nat
        /\ WordSum(Header(b2)) = Sums(Header(b2))[rest]
    <2>1. /\ WordSum(Header(b2)) \in Nat /\ Sums(Header(b2))[rest] \in Nat
          /\ WordSum(Header(b2)) = Header(b2)[11] * 256 + Header(b2)[12] + Sums(Header(b2))[rest]
      <3>1. 12 <= n /\ \A i \in 1 .. n : Header(b2)[i] \in Nat
        BY <1>5, <1>6
      <3> QED
        BY <1>5, <1>6, <3>1, SumAndChecksum
    <2> QED
      BY <1>7, <2>1
  <1>9. checksum = 65535 - Folded(WordSum(Header(b2))) /\ checksum \in Nat /\ checksum <= 65535
    BY <1>8, ComplementFolds DEF Ipv4HeaderChecksum
  <1> HIDE DEF checksum
  <1>10. high \in Nat /\ low \in Nat /\ high * 256 + low = checksum
    BY <1>9, TwoHalves
  <1> HIDE DEF high, low
  <1>11. /\ IsPacket(b3) /\ HeaderLen(b3) = n
         /\ \A i \in 1 .. Len(b2) : b3[i] = IF i = 11 THEN high ELSE b2[i]
    BY <1>4, <1>10, EditIsPacket
  <1> HIDE DEF b3
  <1>12. /\ IsPacket(b4) /\ HeaderLen(b4) = n
         /\ \A i \in 1 .. Len(b3) : b4[i] = IF i = 12 THEN low ELSE b3[i]
    BY <1>10, <1>11, EditIsPacket
  <1> HIDE DEF b4
  <1>13. /\ DOMAIN Header(b4) = 1 .. n
         /\ \A i \in 1 .. n : Header(b4)[i] = b4[i] /\ b4[i] \in Nat
    BY <1>12, HeaderParts
  <1>14. n <= Len(b3) /\ Len(b3) \in Nat
    BY <1>11, HeaderParts
  <1>15. \A i \in 1 .. n : Header(b4)[i] = IF i = 12 THEN low ELSE IF i = 11 THEN high ELSE b2[i]
    <2>1. \A i \in 1 .. n : i \in 1 .. Len(b3) /\ i \in 1 .. Len(b2)
      BY <1>5, <1>14
    <2> QED
      BY <1>11, <1>12, <1>13, <2>1
  <1>16. Header(b4)[11] = high /\ Header(b4)[12] = low
    <2>1. 11 \in 1 .. n /\ 12 \in 1 .. n
      BY <1>5
    <2> QED
      BY <1>15, <2>1
  <1>17. Sums(Header(b4))[rest] = Sums(Header(b2))[rest]
    <2>1. IsFiniteSet(1 .. n) /\ rest \in SUBSET (1 .. n)
      BY <1>5, FS_Interval
    <2>2. \A i \in rest : Header(b4)[i] = Header(b2)[i]
      BY <1>6, <1>15
    <2> DEFINE one == Header(b4)
               other == Header(b2)
    <2>3. IsFiniteSet(DOMAIN one) /\ DOMAIN other = DOMAIN one /\ rest \in SUBSET DOMAIN one
      BY <1>6, <1>13, <2>1
    <2>4. \A i \in rest : one[i] = other[i]
      BY <2>2
    <2> HIDE DEF rest, one, other
    <2>5. Sums(one)[rest] = Sums(other)[rest]
      BY <2>3, <2>4, SameSums
    <2> QED
      BY <2>5 DEF one, other
  <1>18. WordSum(Header(b4)) = high * 256 + low + Sums(Header(b4))[rest]
    <2>1. 12 <= n /\ \A i \in 1 .. n : Header(b4)[i] \in Nat
      BY <1>5, <1>13
    <2>2. WordSum(Header(b4)) = Header(b4)[11] * 256 + Header(b4)[12] + Sums(Header(b4))[rest]
      BY <1>5, <1>13, <2>1, SumAndChecksum
    <2> QED
      BY <1>16, <2>2
  <1>19. WordSum(Header(b4)) = checksum + WordSum(Header(b2))
    BY <1>8, <1>10, <1>17, <1>18
  <1>20. WordSum(Header(b4)) = WordSum(Header(b2)) + (65535 - Folded(WordSum(Header(b2))))
    BY <1>8, <1>9, <1>19
  <1>21. Folded(WordSum(Header(b4))) = 65535
    BY <1>8, <1>20, ComplementFolds
  <1> QED
    BY <1>1, <1>12, <1>21

-----------------------------------------------------------------------------
(* What arrives is a sequence of numbers, as the checksum needs it: so is  *)
(* what is sent, and what its way may do to it keeps it one.               *)
LEMMA BytesAreNumbers ==
  /\ Seq(Byte) \subseteq Seq(Nat) /\ \A width \in Nat : Word(width) \subseteq Seq(Nat)
  <1>1. Byte \subseteq Nat
    BY DEF Byte
  <1>2. ASSUME NEW s \in Seq(Byte)
        PROVE  s \in Seq(Nat)
    <2>1. Len(s) \in Nat /\ s \in [1 .. Len(s) -> Byte]
      BY LenProperties
    <2>2. s \in [1 .. Len(s) -> Nat]
      BY <1>1, <2>1
    <2> QED
      BY <2>1, <2>2
  <1>3. ASSUME NEW width \in Nat, NEW word \in Word(width)
        PROVE  word \in Seq(Byte)
    BY <1>3 DEF Word
  <1> QED
    BY <1>2, <1>3

LEMMA JoinedNumbers ==
  ASSUME NEW s \in Seq(Nat), NEW t \in Seq(Nat)
  PROVE  s \o t \in Seq(Nat)
  BY ConcatProperties

LEMMA FourNumbers ==
  ASSUME NEW n \in Nat
  PROVE  LE4(n) \in Seq(Nat)
  <1>1. /\ n % 256 \in Nat /\ (n \div 256) % 256 \in Nat /\ (n \div 65536) % 256 \in Nat
        /\ n \div 16777216 \in Nat
    OBVIOUS
  <1> QED
    BY <1>1 DEF LE4

LEMMA FrameIsNumbers ==
  ASSUME NEW layer \in {Layers[code] : code \in DOMAIN Layers}, NEW payload \in Seq(Nat)
  PROVE  EncodeRuntimeEvent(layer, payload) \in Seq(Nat)
  <1> DEFINE kind == <<ToWire(layer), 0, 0, 0>>
             length == LE4(Len(payload))
  <1>1. EventMagic \in Seq(Nat) /\ Version \in Seq(Nat)
    BY DEF EventMagic, Version
  <1>2. kind \in Seq(Nat)
    <2>1. ToWire(layer) \in DOMAIN Layers
      BY WireLayers
    <2>2. DOMAIN Layers = {1, 2, 3, 4, 5}
      BY DEF Layers
    <2> QED
      BY <2>1, <2>2
  <1>3. length \in Seq(Nat)
    BY FourNumbers
  <1>4. EncodeRuntimeEvent(layer, payload) = EventMagic \o Version \o kind \o length \o payload
    BY DEF EncodeRuntimeEvent
  <1> HIDE DEF kind, length
  <1>5. EventMagic \o Version \in Seq(Nat)
    BY <1>1, JoinedNumbers
  <1>6. EventMagic \o Version \o kind \in Seq(Nat)
    BY <1>2, <1>5, JoinedNumbers
  <1>7. EventMagic \o Version \o kind \o length \in Seq(Nat)
    BY <1>3, <1>6, JoinedNumbers
  <1>8. EventMagic \o Version \o kind \o length \o payload \in Seq(Nat)
    BY <1>7, JoinedNumbers
  <1> QED
    BY <1>4, <1>8

LEMMA EventIsNumbers ==
  ASSUME NEW about \in Abouts
  PROVE  FrameBytesOf(about) \in Seq(Nat)
  <1>1. CASE about \in NetworkEvents
    <2>1. /\ about.kind = "network" /\ about.layer \in PacketLayers
          /\ about.token \in Seq(Nat) /\ about.packet \in Seq(Nat)
      BY <1>1, BytesAreNumbers DEF NetworkEvents
    <2> DEFINE length == LE4(Len(about.packet))
               payload == EncodeNetworkPayload(about.token, about.packet)
    <2>2. NetworkMagic \in Seq(Nat) /\ length \in Seq(Nat)
      <3>1. NetworkMagic \in Seq(Nat)
        BY DEF NetworkMagic
      <3> QED
        BY <2>1, <3>1, FourNumbers
    <2>3. payload = NetworkMagic \o about.token \o length \o about.packet
      BY DEF EncodeNetworkPayload
    <2> HIDE DEF length, payload
    <2>4. NetworkMagic \o about.token \in Seq(Nat)
      BY <2>1, <2>2, JoinedNumbers
    <2>5. NetworkMagic \o about.token \o length \in Seq(Nat)
      BY <2>2, <2>4, JoinedNumbers
    <2>6. payload \in Seq(Nat)
      BY <2>1, <2>3, <2>5, JoinedNumbers
    <2>7. FrameBytesOf(about) = EncodeRuntimeEvent(about.layer, payload)
      BY <2>1 DEF FrameBytesOf, payload
    <2> QED
      BY <2>1, <2>6, <2>7, AllLayers, FrameIsNumbers
  <1>2. ASSUME NEW kind \in Nat
        PROVE  LE4(kind) \o LE4(0) \in Seq(Nat)
    BY FourNumbers, JoinedNumbers
  <1>3. CASE about \in SocketEvents
    <2>1. about.kind = "socket" /\ about.pid \in Seq(Nat)
      BY <1>3, BytesAreNumbers DEF SocketEvents
    <2> DEFINE payload == EncodeSocketPayload(about.pid)
               head == LE4(SocketKind) \o LE4(0)
    <2>2. head \in Seq(Nat) /\ payload = head \o about.pid
      BY <1>2 DEF SocketKind, EncodeSocketPayload
    <2> HIDE DEF payload, head
    <2>3. payload \in Seq(Nat)
      BY <2>1, <2>2, JoinedNumbers
    <2>4. FrameBytesOf(about) = EncodeRuntimeEvent("Socket", payload)
      BY <2>1 DEF FrameBytesOf, payload
    <2> QED
      BY <2>3, <2>4, AllLayers, FrameIsNumbers
  <1>4. CASE about \in FlowEvents
    <2>1. about.kind = "flow" /\ about.flow \in Seq(Nat) /\ about.pid \in Seq(Nat)
      BY <1>4, BytesAreNumbers DEF FlowEvents
    <2> DEFINE payload == EncodeFlowPayload(about.flow, about.pid)
               head == LE4(FlowKind) \o LE4(0)
    <2>2. head \in Seq(Nat) /\ payload = head \o about.flow \o about.pid
      BY <1>2 DEF FlowKind, EncodeFlowPayload
    <2> HIDE DEF payload, head
    <2>3. head \o about.flow \in Seq(Nat)
      BY <2>1, <2>2, JoinedNumbers
    <2>4. payload \in Seq(Nat)
      BY <2>1, <2>2, <2>3, JoinedNumbers
    <2>5. FrameBytesOf(about) = EncodeRuntimeEvent("Flow", payload)
      BY <2>1 DEF FrameBytesOf, payload
    <2> QED
      BY <2>4, <2>5, AllLayers, FrameIsNumbers
  <1>5. CASE about \in BarePackets
    <2>1. about.kind = "bare" /\ about.layer \in PacketLayers /\ about.packet \in Seq(Nat)
      BY <1>5, BytesAreNumbers DEF BarePackets
    <2>2. FrameBytesOf(about) = EncodeRuntimeEvent(about.layer, about.packet)
      BY <2>1 DEF FrameBytesOf
    <2> QED
      BY <2>1, <2>2, AllLayers, FrameIsNumbers
  <1>6. CASE about \in RawPackets
    <2>1. about.kind = "raw" /\ about.packet \in Seq(Nat)
      BY <1>6, BytesAreNumbers DEF RawPackets
    <2> QED
      BY <2>1 DEF FrameBytesOf
  <1> QED
    BY <1>1, <1>3, <1>4, <1>5, <1>6 DEF Abouts

LEMMA ArrivalIsNumbers ==
  ASSUME NEW about \in Abouts, NEW arrival \in EventArrivals(about)
  PROVE  arrival.raw \in Seq(Nat)
  <1> DEFINE message == FrameBytesOf(about)
  <1>1. message \in Seq(Nat)
    BY EventIsNumbers
  <1>2. arrival \in Delivered(message) \/ \E how, places : arrival \in Damaged(how, message, places)
    BY DEF EventArrivals, Arrivals
  <1> HIDE DEF message
  <1>3. Len(message) \in Nat /\ message \in [1 .. Len(message) -> Nat]
    BY <1>1, LenProperties
  <1>4. CASE arrival \in Delivered(message)
    <2>1. CASE arrival = [how |-> "intact", raw |-> message]
      BY <1>1, <2>1
    <2>2. CASE arrival = [how |-> "longer", raw |-> message \o <<69, 0>>]
      <3>1. <<69, 0>> \in Seq(Nat)
        OBVIOUS
      <3>2. message \o <<69, 0>> \in Seq(Nat)
        BY <1>1, <3>1, JoinedNumbers
      <3> QED
        BY <2>2, <3>2
    <2>3. ASSUME NEW n \in 0 .. Len(message) - 1,
                 arrival = [how |-> "cut", raw |-> SubSeq(message, 1, n)]
          PROVE  arrival.raw \in Seq(Nat)
      <3>1. n \in Int /\ 1 \in Int /\ \A i \in 1 .. n : message[i] \in Nat
        BY <1>3
      <3>2. SubSeq(message, 1, n) \in Seq(Nat)
        BY <3>1, SubSeqProperties
      <3> QED
        BY <2>3, <3>2
    <2> QED
      BY <1>4, <2>1, <2>2, <2>3 DEF Delivered
  <1>5. ASSUME NEW how, NEW places, arrival \in Damaged(how, message, places)
        PROVE  arrival.raw \in Seq(Nat)
    <2>1. PICK place \in places, byte \in Damage :
            arrival = [how |-> how, raw |-> [message EXCEPT ![place] = byte]]
      BY <1>5 DEF Damaged
    <2>2. byte \in Nat
      BY MessageAssumption DEF Byte
    <2>3. [message EXCEPT ![place] = byte] \in [1 .. Len(message) -> Nat]
      BY <1>3, <2>2
    <2>4. [message EXCEPT ![place] = byte] \in Seq(Nat)
      BY <1>3, <2>3
    <2> QED
      BY <2>1, <2>4
  <1> QED
    BY <1>2, <1>4, <1>5

(* What a client may get: of a packet, its layer, its token if it has one  *)
(* and the packet, whole.                                                  *)
IsPacketOf(value, layer, token, bytes) ==
  /\ value = NetworkPacket(layer, token, bytes)
  /\ layer \in PacketLayers /\ (token = NoToken \/ IsWord(token, 8)) /\ IsPacket(bytes)

IsReceived(value) ==
  \/ value.kind \in {"socket", "flow"}
  \/ \E layer, token, bytes : IsPacketOf(value, layer, token, bytes)

LEMMA PacketGives ==
  ASSUME NEW raw \in Seq(Nat), NEW layer \in PacketLayers, NEW token,
         token = NoToken \/ IsWord(token, 8), DecodePacket(raw, layer, token).ok
  PROVE  IsReceived(DecodePacket(raw, layer, token).value)
  <1>1. IsIpv4(raw)
    BY DEF DecodePacket, Refused
  <1>2. DecodePacket(raw, layer, token).value = NetworkPacket(layer, token, raw)
    BY <1>1 DEF DecodePacket, Accepted
  <1>3. IsPacket(raw)
    <2>1. IsSeq(raw)
      BY DEF IsSeq
    <2>2. \A i \in DOMAIN raw : raw[i] \in Nat
      BY LenProperties, ElementOfSeq
    <2> QED
      BY <1>1, <2>1, <2>2 DEF IsPacket
  <1>4. IsPacketOf(DecodePacket(raw, layer, token).value, layer, token, raw)
    BY <1>2, <1>3 DEF IsPacketOf
  <1> QED
    BY <1>4 DEF IsReceived

(* The payload of a message that is in order is a part of it. *)
LEMMA PayloadIsNumbers ==
  ASSUME NEW raw \in Seq(Nat), NEW layout \in {EventLayout, NetworkLayout},
         Fault(raw, layout) = "none"
  PROVE  PayloadIn(raw, layout) \in Seq(Nat) /\ Len(raw) >= 16
  <1>1. layout.header = 16 /\ layout.lengthAt = 13
    BY DEF EventLayout, NetworkLayout
  <1>2. Len(raw) \in Nat /\ \A i \in 1 .. Len(raw) : raw[i] \in Nat
    BY LenProperties, ElementOfSeq
  <1>3. ~ (Len(raw) < 16) /\ ~ (Len(raw) < EndIn(raw, layout))
    BY <1>1 DEF Fault
  <1> DEFINE a == raw[13]
             b == raw[14]
             c == raw[15]
             d == raw[16]
  <1>4. a \in Nat /\ b \in Nat /\ c \in Nat /\ d \in Nat
    <2>1. 13 \in 1 .. Len(raw) /\ 14 \in 1 .. Len(raw) /\ 15 \in 1 .. Len(raw)
          /\ 16 \in 1 .. Len(raw)
      BY <1>2, <1>3
    <2> QED
      BY <1>2, <2>1
  <1>5. EndIn(raw, layout) = 16 + (a + 256 * b + 65536 * c + 16777216 * d)
    BY <1>1 DEF EndIn, FromLE4
  <1> HIDE DEF a, b, c, d
  <1>6. EndIn(raw, layout) \in Nat
    BY <1>4, <1>5
  <1>7. \A i \in 16 + 1 .. EndIn(raw, layout) : raw[i] \in Nat
    BY <1>2, <1>3, <1>6
  <1>8. SubSeq(raw, 16 + 1, EndIn(raw, layout)) \in Seq(Nat)
    <2>1. 16 + 1 \in Int /\ EndIn(raw, layout) \in Int
      BY <1>6
    <2> QED
      BY <1>7, <2>1, SubSeqProperties
  <1> QED
    BY <1>1, <1>2, <1>3, <1>8 DEF PayloadIn, Bytes

(* Whatever numbers RecvEvent::decode is given, what it takes is received. *)
LEMMA DecodeGives ==
  ASSUME NEW raw \in Seq(Nat), Decode(raw).ok
  PROVE  IsReceived(Decode(raw).value)
  <1>1. ASSUME NEW bytes \in Seq(Nat), DecodeBare(bytes).ok
        PROVE  IsReceived(DecodeBare(bytes).value)
    <2>1. "Network" \in PacketLayers
      BY DEF PacketLayers
    <2> QED
      BY <1>1, <2>1, PacketGives DEF DecodeBare
  <1>2. ASSUME NEW payload \in Seq(Nat), NEW layer \in PacketLayers,
               DecodeRuntimeNetworkPacket(layer, payload).ok
        PROVE  IsReceived(DecodeRuntimeNetworkPacket(layer, payload).value)
    <2> DEFINE got == DecodeRuntimeNetworkPacket(layer, payload)
               fault == Fault(payload, NetworkLayout)
               token == Bytes(payload, 4, 12)
               packet == PayloadIn(payload, NetworkLayout)
    <2>1. CASE fault = "none"
      <3>1. packet \in Seq(Nat) /\ Len(payload) >= 16
        BY <2>1, PayloadIsNumbers
      <3>2. IsWord(token, 8)
        <4>1. IsSeq(payload) /\ Len(payload) \in Nat
          BY LenProperties DEF IsSeq
        <4>2. 4 \in Nat /\ 12 \in Nat /\ 4 <= 12 /\ 12 <= Len(payload)
          BY <3>1, <4>1
        <4>3. \A m, n \in Nat : m <= n /\ n <= Len(payload) =>
                IsSeq(SubSeq(payload, m + 1, n)) /\ Len(SubSeq(payload, m + 1, n)) = n - m
          BY <4>1, PartOf
        <4>4. IsSeq(SubSeq(payload, 4 + 1, 12)) /\ Len(SubSeq(payload, 4 + 1, 12)) = 12 - 4
          BY <4>2, <4>3
        <4> QED
          BY <4>4 DEF IsWord, Bytes
      <3>3. got = DecodePacket(packet, layer, token)
        <4>1. DecodeNetworkPayload(payload) = Accepted([token |-> token, packet |-> packet])
          BY <2>1 DEF DecodeNetworkPayload, Read
        <4> HIDE DEF token, packet
        <4> QED
          BY <4>1 DEF DecodeRuntimeNetworkPacket, Accepted
      <3> HIDE DEF packet, token
      <3> QED
        BY <1>2, <3>1, <3>2, <3>3, PacketGives
    <2>2. CASE fault \in {"invalid_magic", "header_too_short"}
      <3>1. got = DecodeBare(payload)
        BY <2>2 DEF DecodeRuntimeNetworkPacket, DecodeNetworkPayload, Read, Refused
      <3> QED
        BY <1>1, <1>2, <3>1
    <2>3. CASE fault \notin {"none", "invalid_magic", "header_too_short"}
      <3>1. ~ got.ok
        BY <2>3 DEF DecodeRuntimeNetworkPacket, DecodeNetworkPayload, Read, Refused
      <3> QED
        BY <1>2, <3>1
    <2> QED
      BY <2>1, <2>2, <2>3
  <1>3. CASE Fault(raw, EventLayout) = "none"
    <2> DEFINE layer == Layers[LayerIn(raw, EventLayout)]
               payload == PayloadIn(raw, EventLayout)
    <2>1. payload \in Seq(Nat)
      BY <1>3, PayloadIsNumbers
    <2>2. layer \in {Layers[code] : code \in DOMAIN Layers}
      BY <1>3 DEF Fault, EventLayout
    <2>3. Decode(raw) = DecodeFor(layer, payload)
      <3>1. DecodeRuntimeEvent(raw) = Accepted([layer |-> layer, payload |-> payload])
        BY <1>3 DEF DecodeRuntimeEvent, Read
      <3> HIDE DEF layer, payload
      <3> QED
        BY <3>1, DecodeBy
    <2> HIDE DEF layer, payload
    <2>4. CASE layer \in PacketLayers
      BY <1>2, <2>1, <2>3, <2>4, ForLayers
    <2>5. CASE layer = "Socket"
      <3>1. Decode(raw) = SocketEvent(DecodeSocketPayload(payload))
        BY <2>3, <2>5, ForLayers
      <3>2. DecodeSocketPayload(payload).ok
        BY <3>1 DEF SocketEvent
      <3>3. Decode(raw).value.kind = "socket"
        BY <3>1, <3>2 DEF SocketEvent, Accepted
      <3> QED
        BY <3>3 DEF IsReceived
    <2>6. CASE layer = "Flow"
      <3>1. Decode(raw) = FlowEvent(DecodeFlowPayload(payload))
        BY <2>3, <2>6, ForLayers
      <3>2. DecodeFlowPayload(payload).ok
        BY <3>1 DEF FlowEvent
      <3>3. Decode(raw).value.kind = "flow"
        BY <3>1, <3>2 DEF FlowEvent, Accepted
      <3> QED
        BY <3>3 DEF IsReceived
    <2>7. CASE layer = "Reflect"
      <3>1. ~ Decode(raw).ok
        BY <2>3, <2>7, ForLayers DEF Refused
      <3> QED
        BY <3>1
    <2> QED
      BY <2>2, <2>4, <2>5, <2>6, <2>7, LayerNames
  <1>4. CASE Fault(raw, EventLayout) # "none"
    <2>1. DecodeRuntimeEvent(raw) = Refused(Fault(raw, EventLayout))
      BY <1>4 DEF DecodeRuntimeEvent, Read
    <2>2. Decode(raw) = DecodeBare(raw)
      BY <2>1, DecodeBy
    <2> QED
      BY <1>1, <2>2
  <1> QED
    BY <1>3, <1>4

-----------------------------------------------------------------------------
(* The packet a client holds: one it received, edited. *)
HeldPacket(layer, token, packet) ==
  /\ event = [kind |-> "network", layer |-> layer, token |-> token,
              bytes |-> event.bytes, checksum_dirty |-> event.checksum_dirty]
  /\ IsSeq(event.bytes) /\ 20 <= Len(event.bytes)
  /\ SameButEdited(event.bytes, packet)

PacketIsHeld(layer, token, packet) ==
  IsPacketOf(origin.read, layer, token, packet) /\ HeldPacket(layer, token, packet)

(* What the client holds is what it decoded, edited in three bytes at most. *)
EventKept ==
  /\ origin = [read |-> origin.read, here |-> origin.here]
  /\ \/ event = NoEvent /\ origin.read = NoEvent
     \/ event.kind \in {"socket", "flow"} /\ origin.read = event
     \/ \E layer, token, packet : PacketIsHeld(layer, token, packet)

(* A packet is whole, and its checksum is to be repaired, as it came, or    *)
(* right.                                                                  *)
ChecksumKept ==
  event.kind = "network" =>
    /\ IsPacket(event.bytes)
    /\ event.checksum_dirty \/ event.bytes = origin.read.bytes
                           \/ Folded(WordSum(Header(event.bytes))) = 65535

(* What has just crossed was read right, and what went to the driver is    *)
(* what the client holds.                                                  *)
HeardKept ==
  \/ heard = Silence
  \/ /\ heard.got.ok \in BOOLEAN
     /\ ReadRight(heard.message, heard.meant, heard.how, heard.got)
     /\ heard.message = "send" =>
          /\ heard.how \in {"intact", "longer", "cut", "version", "layer", "magic"}
          /\ event.kind = "network"
          /\ heard.meant = Accepted([layer |-> event.layer, token |-> event.token,
                                     packet |-> event.bytes])

(* The packets on the ring, and the one a client received in this session, *)
(* are among the captured.                                                 *)
WasCaptured(about) == about.kind = "network" => about \in captured

CaptureKept ==
  /\ \A k \in 1 .. Len(Contents(ring)) : WasCaptured(Contents(ring)[k].about)
  /\ origin.here /\ event.kind = "network" =>
       \E about \in captured :
         origin.read = NetworkPacket(about.layer, about.token, about.packet)

(* The inductive invariant. *)
PathInv ==
  /\ session \in {"closed", "asked", "open"}
  /\ EventKept /\ ChecksumKept /\ HeardKept /\ CaptureKept

(* What is received is held. *)
LEMMA ReceivedIsHeld ==
  ASSUME NEW value, IsReceived(value), NEW here,
         event' = value, origin' = [read |-> value, here |-> here]
  PROVE  EventKept' /\ ChecksumKept'
  <1>0. /\ origin'.read = value /\ origin'.here = here
        /\ origin' = [read |-> origin'.read, here |-> origin'.here]
    OBVIOUS
  <1>1. CASE value.kind \in {"socket", "flow"}
    BY <1>0, <1>1 DEF EventKept, ChecksumKept
  <1>2. ASSUME NEW layer, NEW token, NEW packet, IsPacketOf(value, layer, token, packet)
        PROVE  EventKept' /\ ChecksumKept'
    <2>1. event' = [kind |-> "network", layer |-> layer, token |-> token,
                    bytes |-> packet, checksum_dirty |-> FALSE]
      BY <1>2 DEF IsPacketOf, NetworkPacket
    <2>2. IsPacket(packet) /\ IsSeq(packet) /\ 20 <= Len(packet)
      <3>1. IsPacket(packet) /\ IsSeq(packet) /\ IsIpv4(packet)
        BY <1>2 DEF IsPacketOf, IsPacket
      <3>2. Len(packet) \in Nat
        BY <3>1, SeqParts
      <3> QED
        BY <3>1, <3>2 DEF IsIpv4
    <2>3. event'.bytes = packet /\ event'.checksum_dirty = FALSE
      BY <2>1
    <2>4. SameButEdited(packet, packet)
      BY DEF SameButEdited
    <2>5. HeldPacket(layer, token, packet)'
      BY <2>1, <2>2, <2>3, <2>4 DEF HeldPacket
    <2>6. PacketIsHeld(layer, token, packet)'
      BY <1>0, <1>2, <2>5 DEF PacketIsHeld, IsPacketOf
    <2>7. (\E l, t, p : PacketIsHeld(l, t, p))'
      BY <2>6
    <2>8. EventKept'
      BY <1>0, <2>7 DEF EventKept
    <2>9. origin'.read.bytes = packet
      BY <1>0, <1>2 DEF IsPacketOf, NetworkPacket
    <2>10. ChecksumKept'
      BY <2>2, <2>3, <2>9 DEF ChecksumKept
    <2> QED
      BY <2>8, <2>10
  <1> QED
    BY <1>1, <1>2 DEF IsReceived

(* A client that hears of an event, however it comes, keeps the invariant:  *)
(* an event that comes as it was sent, in a session, is one of its ring's.  *)
LEMMA HearKeeps ==
  ASSUME NEW about, IsAbout(about), NEW arrival \in EventArrivals(about), Hear(about, arrival),
         session = "open" =>
           /\ arrival.how = "intact" /\ WasCaptured(about)
           /\ about \in NetworkEvents \cup SocketEvents \cup FlowEvents
  PROVE  /\ EventKept' /\ ChecksumKept' /\ HeardKept'
         /\ origin'.here /\ event'.kind = "network" =>
              \E one \in captured :
                origin'.read = NetworkPacket(one.layer, one.token, one.packet)
  <1> DEFINE got == Decode(arrival.raw)
             message == IF about.kind = "raw" THEN "packet" ELSE "event"
             here == session = "open"
  <1>1. /\ got.ok \in BOOLEAN /\ ReadRight(message, Expected(about), arrival.how, got)
    BY EventIsDecoded, DecodersAnswer
  <1>2. /\ heard' = Heard(message, Expected(about), arrival.how, got)
        /\ event' = IF got.ok THEN got.value ELSE NoEvent
        /\ origin' = IF got.ok THEN [read |-> got.value, here |-> here] ELSE NoOrigin
    BY DEF Hear
  <1>3. got.ok => IsReceived(got.value)
    <2>1. arrival.raw \in Seq(Nat)
      BY ArrivalIsNumbers DEF IsAbout
    <2> QED
      BY <2>1, DecodeGives
  <1>4. message # "send"
    OBVIOUS
  <1>5. session = "open" => got = Expected(about)
    BY <1>1 DEF ReadRight
  <1> HIDE DEF got, message
  <1>6. EventKept' /\ ChecksumKept'
    <2>1. CASE got.ok
      <3>1. event' = got.value /\ origin' = [read |-> got.value, here |-> here]
        BY <1>2, <2>1
      <3> HIDE DEF here
      <3> QED
        BY <1>3, <2>1, <3>1, ReceivedIsHeld
    <2>2. CASE ~ got.ok
      <3>1. event' = NoEvent /\ origin' = NoOrigin
        BY <1>2, <2>2
      <3> QED
        BY <3>1 DEF EventKept, ChecksumKept, NoEvent, NoOrigin
    <2> QED
      BY <2>1, <2>2
  <1>7. HeardKept'
    <2>1. /\ heard'.message = message /\ heard'.meant = Expected(about)
          /\ heard'.how = arrival.how /\ heard'.got = got
      BY <1>2 DEF Heard
    <2> QED
      BY <1>1, <1>4, <2>1 DEF HeardKept
  <1>8. ASSUME origin'.here, event'.kind = "network"
        PROVE  \E one \in captured :
                 origin'.read = NetworkPacket(one.layer, one.token, one.packet)
    <2>1. got.ok
      BY <1>2, <1>8 DEF NoOrigin
    <2>2. session = "open" /\ origin'.read = got.value /\ event' = got.value
      BY <1>2, <1>8, <2>1
    <2>3. got = Expected(about) /\ WasCaptured(about)
          /\ about \in NetworkEvents \cup SocketEvents \cup FlowEvents
      BY <1>5, <2>2
    <2>4. about.kind = "network"
      <3>1. CASE about.kind \in {"socket", "flow"}
        <4>1. got.value = about
          BY <2>3, <3>1 DEF Expected, Accepted
        <4> QED
          BY <1>8, <2>2, <3>1, <4>1
      <3> QED
        BY <2>3, <3>1, EventParts
    <2>5. got = DecodePacket(about.packet, about.layer, about.token)
      BY <2>3, <2>4 DEF Expected
    <2>6. got.value = NetworkPacket(about.layer, about.token, about.packet)
      BY <2>1, <2>5 DEF DecodePacket, Accepted, Refused
    <2>7. about \in captured
      BY <2>3, <2>4 DEF WasCaptured
    <2> QED
      BY <2>2, <2>6, <2>7
  <1> QED
    BY <1>6, <1>7, <1>8

(* One edit of a byte that may be edited. *)
LEMMA EditKeeps ==
  ASSUME NEW bytes, NEW packet, NEW place \in {9, 11, 12}, NEW byte,
         IsSeq(bytes), 20 <= Len(bytes), SameButEdited(bytes, packet)
  PROVE  /\ IsSeq([bytes EXCEPT ![place] = byte])
         /\ 20 <= Len([bytes EXCEPT ![place] = byte])
         /\ SameButEdited([bytes EXCEPT ![place] = byte], packet)
  <1> DEFINE new == [bytes EXCEPT ![place] = byte]
  <1>1. Len(bytes) \in Nat /\ place \in 1 .. Len(bytes) /\ DOMAIN bytes = 1 .. Len(bytes)
    BY SeqParts
  <1>2. /\ IsSeq(new) /\ Len(new) = Len(bytes)
        /\ \A i \in 1 .. Len(bytes) : i # place => new[i] = bytes[i]
    BY <1>1, Replaced
  <1> HIDE DEF new
  <1>3. DOMAIN new = 1 .. Len(bytes)
    BY <1>2, SeqParts
  <1>4. SameButEdited(new, packet)
    BY <1>1, <1>2, <1>3 DEF SameButEdited
  <1> QED
    BY <1>2, <1>4 DEF new

(* A repair is four edits of the two checksum bytes. *)
LEMMA RepairKeeps ==
  ASSUME NEW bytes, NEW packet, IsSeq(bytes), 20 <= Len(bytes), SameButEdited(bytes, packet)
  PROVE  /\ IsSeq(Repaired(bytes)) /\ 20 <= Len(Repaired(bytes))
         /\ SameButEdited(Repaired(bytes), packet)
  <1> DEFINE b1 == [bytes EXCEPT ![11] = 0]
             b2 == [b1 EXCEPT ![12] = 0]
             checksum == Ipv4HeaderChecksum(Header(b2))
             high == checksum \div 256
             low == checksum % 256
             b3 == [b2 EXCEPT ![11] = high]
             b4 == [b3 EXCEPT ![12] = low]
  <1>1. IsSeq(b1) /\ 20 <= Len(b1) /\ SameButEdited(b1, packet)
    BY EditKeeps
  <1>2. Repaired(bytes) = b4
    BY DEF Repaired
  <1> HIDE DEF b1
  <1>3. IsSeq(b2) /\ 20 <= Len(b2) /\ SameButEdited(b2, packet)
    BY <1>1, EditKeeps
  <1> HIDE DEF b2, checksum, high, low
  <1>4. IsSeq(b3) /\ 20 <= Len(b3) /\ SameButEdited(b3, packet)
    BY <1>3, EditKeeps
  <1> HIDE DEF b3
  <1>5. IsSeq(b4) /\ 20 <= Len(b4) /\ SameButEdited(b4, packet)
    BY <1>4, EditKeeps
  <1> QED
    BY <1>2, <1>5

(* The client's packet, edited. *)
LEMMA EditedIsKept ==
  ASSUME EventKept, event.kind = "network", NEW bytes, NEW dirty,
         event' = [event EXCEPT !.bytes = bytes, !.checksum_dirty = dirty],
         UNCHANGED origin,
         \A packet : SameButEdited(event.bytes, packet) /\ IsSeq(event.bytes)
                       /\ 20 <= Len(event.bytes)
                     => /\ IsSeq(bytes) /\ 20 <= Len(bytes)
                        /\ SameButEdited(bytes, packet)
  PROVE  EventKept' /\ event'.bytes = bytes /\ event'.checksum_dirty = dirty
  <1>1. PICK layer, token, packet : PacketIsHeld(layer, token, packet)
    BY DEF EventKept, NoEvent
  <1>2. PICK old, flag : event = [kind |-> "network", layer |-> layer, token |-> token,
                                  bytes |-> old, checksum_dirty |-> flag]
    BY <1>1 DEF PacketIsHeld, HeldPacket
  <1>3. event' = [kind |-> "network", layer |-> layer, token |-> token,
                  bytes |-> bytes, checksum_dirty |-> dirty]
    BY <1>2
  <1>4. IsSeq(bytes) /\ 20 <= Len(bytes) /\ SameButEdited(bytes, packet)
    BY <1>1 DEF PacketIsHeld, HeldPacket
  <1>5. event'.bytes = bytes /\ event'.checksum_dirty = dirty
    BY <1>3
  <1>6. HeldPacket(layer, token, packet)'
    BY <1>3, <1>4, <1>5 DEF HeldPacket
  <1>7. PacketIsHeld(layer, token, packet)'
    BY <1>1, <1>6 DEF PacketIsHeld, IsPacketOf
  <1>8. (\E l, t, p : PacketIsHeld(l, t, p))'
    BY <1>7
  <1>9. origin' = [read |-> origin'.read, here |-> origin'.here]
    BY DEF EventKept
  <1> QED
    BY <1>5, <1>8, <1>9 DEF EventKept

(* A frame is the encoding of an event of the driver. *)
LEMMA FramesAreEvents ==
  ASSUME NEW frame \in Frames
  PROVE  /\ frame.about \in NetworkEvents \cup SocketEvents \cup FlowEvents
         /\ IsAbout(frame.about)
         /\ frame.bytes = FrameBytesOf(frame.about)
  <1>1. frame = FrameOf(frame.about)
    BY PathAssumption
  <1>2. FrameOf(frame.about).bytes = FrameBytesOf(frame.about)
    BY DEF FrameOf
  <1>3. frame.about \in NetworkEvents \cup SocketEvents \cup FlowEvents
    BY MessageAssumption
  <1>4. frame.about.kind \in {"network", "socket", "flow"}
    BY <1>3, EventParts
  <1> QED
    BY <1>1, <1>2, <1>3, <1>4 DEF Abouts, IsAbout

LEMMA StraysAreEvents == \A about \in Strays : IsAbout(about)
  <1> SUFFICES ASSUME NEW about \in Strays
               PROVE  IsAbout(about)
    OBVIOUS
  <1>1. about \in NetworkEvents \cup BarePackets \cup RawPackets
    BY MessageAssumption
  <1>2. about.kind \in {"bare", "raw"} =>
          about.packet # <<>> /\ HighNibble(about.packet[1]) \in {4, 6}
    BY MessageAssumption
  <1> QED
    BY <1>1, <1>2 DEF Abouts, IsAbout

(* What is on the ring stays captured: a frame is queued as the newest, and *)
(* only the oldest goes.                                                    *)
OnRing(one) == \A k \in 1 .. Len(Contents(one)) : WasCaptured(Contents(one)[k].about)

LEMMA OldestLeaves ==
  ASSUME RingInv, OnRing(ring), ring.len # 0
  PROVE  OnRing(DropOldest(ring)) /\ WasCaptured(Oldest(ring).about) /\ Oldest(ring) \in Frames
  <1> DEFINE S == Frames \cup {Vacant}
             all == Contents(ring)
             rest == Contents(DropOldest(ring))
  <1>1. all \in Seq(S) /\ all # <<>> /\ Oldest(ring) = Head(all) /\ rest = Tail(all)
        /\ Oldest(ring) \in Frames
    BY ContentsType, DropOldestSteps DEF RingInv, TypeOK, RingKeepsNoStaleFrame
  <1> HIDE DEF S, all, rest
  <1>2. Len(all) \in Nat /\ Len(all) > 0 /\ Head(all) = all[1]
    BY <1>1, EmptySeq
  <1>3. /\ Len(rest) = Len(all) - 1 /\ \A i \in 1 .. Len(rest) : rest[i] = all[i + 1]
    BY <1>1, HeadTailProperties
  <1>4. ASSUME NEW i \in 1 .. Len(rest)
        PROVE  WasCaptured(rest[i].about)
    <2>1. i + 1 \in 1 .. Len(all) /\ rest[i] = all[i + 1]
      BY <1>2, <1>3
    <2> QED
      BY <2>1 DEF OnRing, all
  <1>5. WasCaptured(all[1].about)
    BY <1>2 DEF OnRing, all
  <1> QED
    BY <1>1, <1>2, <1>4, <1>5 DEF OnRing, rest

LEMMA PushedIsOldOrNew ==
  ASSUME NEW S, NEW all \in Seq(S), NEW frame \in S
  PROVE  \A k \in 1 .. Len(Fifo!Pushed(all, frame)) :
           \/ Fifo!Pushed(all, frame)[k] = frame
           \/ \E j \in 1 .. Len(all) : Fifo!Pushed(all, frame)[k] = all[j]
  <1> DEFINE new == Fifo!Pushed(all, frame)
  <1>1. CASE new = Append(all, frame)
    BY <1>1, AppendProperties, LenProperties
  <1>2. CASE new = Append(Tail(all), frame) /\ Len(all) = RingSlots
    <2> DEFINE rest == Tail(all)
    <2>1. all # <<>>
      BY <1>2, RingAssumption, EmptySeq
    <2>2. /\ rest \in Seq(S) /\ Len(rest) = Len(all) - 1
          /\ \A i \in 1 .. Len(rest) : rest[i] = all[i + 1]
      BY <2>1, HeadTailProperties
    <2>3. Len(all) \in Nat
      BY LenProperties
    <2>4. \A i \in 1 .. Len(rest) : i + 1 \in 1 .. Len(all)
      BY <2>2, <2>3
    <2> HIDE DEF rest, new
    <2>5. new = Append(rest, frame)
      BY <1>2 DEF rest
    <2>6. \A k \in 1 .. Len(new) : new[k] = frame \/ \E i \in 1 .. Len(rest) : new[k] = rest[i]
      BY <2>2, <2>5, AppendProperties, LenProperties
    <2>7. \A k \in 1 .. Len(new) : new[k] = frame \/ \E j \in 1 .. Len(all) : new[k] = all[j]
      BY <2>2, <2>4, <2>6
    <2> QED
      BY <2>7 DEF new
  <1> QED
    BY <1>1, <1>2, RingAssumption DEF Fifo!Pushed

(* What a client may send back came whole and with a token. *)
LEMMA SendableIsReceived ==
  ASSUME EventKept, event.kind = "network", event.token # NoToken
  PROVE  event.layer \in PacketLayers /\ IsWord(event.token, 8) /\ IsSeq(event.bytes)
  <1>1. PICK layer, token, packet : PacketIsHeld(layer, token, packet)
    BY DEF EventKept, NoEvent
  <1>2. event.layer = layer /\ event.token = token /\ IsSeq(event.bytes)
    BY <1>1 DEF PacketIsHeld, HeldPacket
  <1> QED
    BY <1>1, <1>2 DEF PacketIsHeld, IsPacketOf

(* A packet that was read tells its parts. *)
LEMMA SamePacket ==
  ASSUME NEW layer, NEW token, NEW packet, NEW layer2, NEW token2, NEW packet2,
         NetworkPacket(layer, token, packet) = NetworkPacket(layer2, token2, packet2)
  PROVE  layer = layer2 /\ token = token2 /\ packet = packet2
  <1>1. /\ NetworkPacket(layer, token, packet).layer = layer
        /\ NetworkPacket(layer, token, packet).token = token
        /\ NetworkPacket(layer, token, packet).bytes = packet
    BY DEF NetworkPacket
  <1>2. /\ NetworkPacket(layer2, token2, packet2).layer = layer2
        /\ NetworkPacket(layer2, token2, packet2).token = token2
        /\ NetworkPacket(layer2, token2, packet2).bytes = packet2
    BY DEF NetworkPacket
  <1> QED
    BY <1>1, <1>2

(* Nothing is held, queued or captured and nothing has crossed at first. *)
LEMMA PathInvInit == PathInit => PathInv
  <1> SUFFICES ASSUME PathInit
               PROVE  PathInv
    OBVIOUS
  <1>1. Contents(ring) = <<>>
    BY NewRingProperties DEF PathInit, Init
  <1>2. CaptureKept
    BY <1>1 DEF CaptureKept, PathInit, NoOrigin
  <1> QED
    BY <1>2 DEF PathInit, PathInv, EventKept, ChecksumKept, HeardKept, NoEvent, NoOrigin

(* What a step that leaves the client's event alone need not show. *)
LEMMA EventStays ==
  ASSUME EventKept, ChecksumKept, UNCHANGED <<event, origin>>
  PROVE  EventKept' /\ ChecksumKept'
  <1>1. EventKept'
    <2>1. ASSUME NEW layer, NEW token, NEW packet, PacketIsHeld(layer, token, packet)
          PROVE  (\E l, t, p : PacketIsHeld(l, t, p))'
      BY <2>1 DEF PacketIsHeld, HeldPacket, IsPacketOf
    <2> QED
      BY <2>1 DEF EventKept
  <1>2. ChecksumKept'
    BY DEF ChecksumKept
  <1> QED
    BY <1>1, <1>2

(* Every step keeps the invariant: an OPEN and its answer by OpenIsRead and *)
(* ResponseIsRead, an event by HearKeeps, the edits by EditedIsKept, a SEND *)
(* by SendIsRead, what is on the ring by PushedIsOldOrNew and OldestLeaves. *)
LEMMA PathInvStep == RingInv /\ PathInv /\ [PathNext]_pathVars => PathInv'
  <1> SUFFICES ASSUME RingInv, PathInv, [PathNext]_pathVars
               PROVE  PathInv'
    OBVIOUS
  <1>0. /\ session \in {"closed", "asked", "open"} /\ EventKept /\ ChecksumKept
        /\ OnRing(ring)
        /\ origin.here /\ event.kind = "network" =>
             \E about \in captured :
               origin.read = NetworkPacket(about.layer, about.token, about.packet)
    BY DEF PathInv, CaptureKept, OnRing
  <1>1. ASSUME session' \in {"closed", "asked", "open"}, HeardKept',
               UNCHANGED <<event, origin, ring, captured>>
        PROVE  PathInv'
    <2>1. CaptureKept'
      BY <1>0, <1>1 DEF CaptureKept, OnRing, WasCaptured
    <2> QED
      BY <1>0, <1>1, <2>1, EventStays DEF PathInv
  <1>2. ASSUME NEW request \in Requests, Ask(request)
        PROVE  PathInv'
    <2>1. PICK arrival \in Arrivals(EncodeOpenRequest(request), OpenLayout) :
            /\ heard' = Heard("open", Accepted(request), arrival.how,
                              DecodeOpenRequest(arrival.raw))
            /\ session' = IF DecodeOpenRequest(arrival.raw).ok THEN "asked" ELSE "closed"
      BY <1>2 DEF Ask
    <2> DEFINE got == DecodeOpenRequest(arrival.raw)
    <2>2. got.ok \in BOOLEAN /\ ReadRight("open", Accepted(request), arrival.how, got)
      BY OpenIsRead, DecodersAnswer
    <2> HIDE DEF got
    <2>3. /\ heard'.message = "open" /\ heard'.meant = Accepted(request)
          /\ heard'.how = arrival.how /\ heard'.got = got
      BY <2>1 DEF Heard, got
    <2>4. HeardKept'
      BY <2>2, <2>3 DEF HeardKept
    <2>5. session' \in {"closed", "asked", "open"}
      BY <2>1
    <2>6. UNCHANGED <<event, origin, ring, captured>>
      BY <1>2 DEF Ask, vars
    <2> QED
      BY <1>1, <2>4, <2>5, <2>6
  <1>3. ASSUME NEW response \in Responses, Answer(response)
        PROVE  PathInv'
    <2>1. PICK arrival \in Arrivals(EncodeOpenResponse(response), ResponseLayout) :
            /\ heard' = Heard("answer", Accepted(response), arrival.how,
                              DecodeOpenResponse(arrival.raw))
            /\ session' \in {"open", "closed"}
      BY <1>3 DEF Answer
    <2> DEFINE got == DecodeOpenResponse(arrival.raw)
    <2>2. got.ok \in BOOLEAN /\ ReadRight("answer", Accepted(response), arrival.how, got)
      BY ResponseIsRead, DecodersAnswer
    <2> HIDE DEF got
    <2>3. /\ heard'.message = "answer" /\ heard'.meant = Accepted(response)
          /\ heard'.how = arrival.how /\ heard'.got = got
      BY <2>1 DEF Heard, got
    <2>4. HeardKept'
      BY <2>2, <2>3 DEF HeardKept
    <2>5. session' \in {"closed", "asked", "open"}
      BY <2>1
    <2>6. UNCHANGED <<event, origin, ring, captured>>
      BY <1>3 DEF Answer, vars
    <2> QED
      BY <1>1, <2>4, <2>5, <2>6
  <1>4. ASSUME NEW frame \in Frames, Capture(frame)
        PROVE  PathInv'
    <2>1. /\ session = "open" /\ heard' = Silence /\ UNCHANGED <<session, event, origin>>
          /\ captured \subseteq captured'
      BY <1>4 DEF Capture, clientVars
    <2>2. ASSUME NEW one, OnRing(one)
          PROVE  \A k \in 1 .. Len(Contents(one)) :
                   Contents(one)[k].about.kind = "network" => Contents(one)[k].about \in captured'
      BY <2>1, <2>2 DEF OnRing, WasCaptured
    <2>3. \A k \in 1 .. Len(Contents(ring')) :
            Contents(ring')[k].about.kind = "network" => Contents(ring')[k].about \in captured'
      <3>1. CASE ~ FitsSlot(frame)
        <4>1. ring' = ring
          BY <1>4, <3>1 DEF Capture, PushFrame
        <4> QED
          BY <1>0, <2>2, <4>1
      <3>2. CASE FitsSlot(frame)
        <4>1. /\ ring' = Push(ring, frame)
              /\ frame.about.kind = "network" => frame.about \in captured'
          BY <1>4, <3>2 DEF Capture, PushFrame
        <4>2. captured' = captured \/ captured' = captured \cup {frame.about}
          BY <1>4 DEF Capture
        <4> DEFINE all == Contents(ring)
                   new == Contents(ring')
        <4>3. \A k \in 1 .. Len(all) : all[k].about.kind = "network" => all[k].about \in captured'
          BY <1>0, <2>2
        <4>4. new = Fifo!Pushed(all, frame)
          BY <4>1, PushSteps DEF RingInv, TypeOK, RingKeepsNoStaleFrame
        <4>5. all \in Seq(Frames \cup {Vacant})
          BY ContentsType DEF RingInv, TypeOK
        <4> HIDE DEF all, new
        <4>6. \A k \in 1 .. Len(new) : new[k] = frame \/ \E j \in 1 .. Len(all) : new[k] = all[j]
          BY <4>4, <4>5, PushedIsOldOrNew
        <4>7. \A k \in 1 .. Len(new) : new[k].about.kind = "network" => new[k].about \in captured'
          BY <4>1, <4>3, <4>6
        <4> QED
          BY <4>7 DEF new
      <3> QED
        BY <3>1, <3>2
    <2>4. CaptureKept'
      BY <1>0, <2>1, <2>3 DEF CaptureKept, WasCaptured
    <2> QED
      BY <1>0, <2>1, <2>4, EventStays DEF PathInv, HeardKept
  <1>5. ASSUME NEW outputLen \in OutputLens, Receive(outputLen)
        PROVE  PathInv'
    <2>1. session = "open" /\ UNCHANGED <<session, captured>> /\ PopInto(outputLen)
      BY <1>5 DEF Receive
    <2>2. ASSUME NEW one, OnRing(one)
          PROVE  \A k \in 1 .. Len(Contents(one)) :
                   Contents(one)[k].about.kind = "network" => Contents(one)[k].about \in captured'
      BY <2>1, <2>2 DEF OnRing, WasCaptured
    <2>3. CASE popped' = <<>>
      <3>1. UNCHANGED <<ring, event, origin>> /\ heard' = Silence
        <4>1. UNCHANGED ring
          BY <2>1, <2>3 DEF PopInto
        <4> QED
          BY <1>5, <2>3, <4>1 DEF Receive
      <3> QED
        BY <1>0, <1>1, <2>1, <3>1 DEF HeardKept
    <2>4. CASE popped' # <<>>
      <3> DEFINE frame == Oldest(ring)
                 arrival == [how |-> "intact", raw |-> frame.bytes]
      <3>1. ring.len > 0 /\ ring' = DropOldest(ring) /\ popped' = <<frame>>
        BY <2>1, <2>4 DEF PopInto
      <3>2. ring.len # 0
        BY <3>1, RingSizes DEF RingInv, TypeOK, RingKeepsNoStaleFrame
      <3>3. OnRing(DropOldest(ring)) /\ WasCaptured(frame.about) /\ frame \in Frames
        BY <1>0, <3>2, OldestLeaves
      <3>4. popped'[1] = frame
        BY <3>1
      <3>5. Hear(frame.about, arrival)
        BY <1>5, <2>4, <3>4 DEF Receive
      <3> HIDE DEF frame
      <3>6. /\ frame.about \in NetworkEvents \cup SocketEvents \cup FlowEvents
            /\ IsAbout(frame.about) /\ frame.bytes = FrameBytesOf(frame.about)
        BY <3>3, FramesAreEvents
      <3>7. arrival \in EventArrivals(frame.about) /\ arrival.how = "intact"
        <4>1. arrival \in Delivered(FrameBytesOf(frame.about))
          BY <3>6 DEF Delivered
        <4> QED
          BY <4>1 DEF EventArrivals, Arrivals
      <3> HIDE DEF arrival
      <3>8. /\ EventKept' /\ ChecksumKept' /\ HeardKept'
            /\ origin'.here /\ event'.kind = "network" =>
                 \E one \in captured :
                   origin'.read = NetworkPacket(one.layer, one.token, one.packet)
        BY <3>3, <3>5, <3>6, <3>7, HearKeeps
      <3>9. CaptureKept'
        <4>1. \A k \in 1 .. Len(Contents(ring')) :
                Contents(ring')[k].about.kind = "network" => Contents(ring')[k].about \in captured'
          BY <2>2, <3>1, <3>3
        <4>2. captured' = captured
          BY <2>1
        <4> QED
          BY <3>8, <4>1, <4>2 DEF CaptureKept, WasCaptured
      <3> QED
        BY <1>0, <2>1, <3>8, <3>9 DEF PathInv
    <2> QED
      BY <2>3, <2>4
  <1>6. CASE Overhear
    <2>1. /\ session = "closed" /\ UNCHANGED <<session, ring, captured>>
          /\ \E about \in Strays \cup {frame.about : frame \in Frames} :
               \E arrival \in EventArrivals(about) : Hear(about, arrival)
      BY <1>6 DEF Overhear, vars
    <2>2. PICK about \in Strays \cup {frame.about : frame \in Frames} :
            \E arrival \in EventArrivals(about) : Hear(about, arrival)
      BY <2>1
    <2>3. PICK arrival \in EventArrivals(about) : Hear(about, arrival)
      BY <2>2
    <2>4. IsAbout(about)
      BY FramesAreEvents, StraysAreEvents
    <2>5. session # "open"
      BY <2>1
    <2>6. /\ EventKept' /\ ChecksumKept' /\ HeardKept'
          /\ origin'.here /\ event'.kind = "network" =>
               \E one \in captured :
                 origin'.read = NetworkPacket(one.layer, one.token, one.packet)
      BY <2>3, <2>4, <2>5, HearKeeps
    <2>7. CaptureKept'
      BY <1>0, <2>1, <2>6 DEF CaptureKept, OnRing, WasCaptured
    <2> QED
      BY <1>0, <2>1, <2>6, <2>7 DEF PathInv
  <1>7. ASSUME event.kind = "network", UNCHANGED <<ring, session, origin, captured>>,
               heard' = Silence, EventKept', ChecksumKept'
        PROVE  PathInv'
    <2>1. CaptureKept'
      BY <1>0, <1>7 DEF CaptureKept, OnRing, WasCaptured
    <2> QED
      BY <1>0, <1>7, <2>1 DEF PathInv, HeardKept
  <1>8. ASSUME NEW ttl \in Ttls, SetTtl(ttl)
        PROVE  PathInv'
    <2> DEFINE bytes == [event.bytes EXCEPT ![9] = ttl]
    <2>1. /\ event.kind = "network" /\ heard' = Silence
          /\ event' = [event EXCEPT !.bytes = bytes, !.checksum_dirty = TRUE]
          /\ UNCHANGED <<ring, session, origin, captured>>
      BY <1>8 DEF SetTtl, vars
    <2>2. ASSUME NEW packet, SameButEdited(event.bytes, packet), IsSeq(event.bytes),
                 20 <= Len(event.bytes)
          PROVE  IsSeq(bytes) /\ 20 <= Len(bytes) /\ SameButEdited(bytes, packet)
      BY <2>2, EditKeeps
    <2>3. IsPacket(bytes)
      <3>1. ttl \in Nat
        <4>1. ttl \in Byte
          BY MessageAssumption
        <4> QED
          BY <4>1 DEF Byte
      <3>2. IsPacket(event.bytes)
        BY <1>0, <2>1 DEF ChecksumKept
      <3> QED
        BY <3>1, <3>2, EditIsPacket
    <2> HIDE DEF bytes
    <2>4. EventKept' /\ event'.bytes = bytes /\ event'.checksum_dirty = TRUE
      <3>1. EventKept /\ UNCHANGED origin
        BY <1>0, <2>1
      <3> QED
        BY <2>1, <2>2, <3>1, EditedIsKept
    <2>5. ChecksumKept'
      BY <2>3, <2>4 DEF ChecksumKept
    <2> QED
      BY <1>7, <2>1, <2>4, <2>5
  <1>9. CASE RepairChecksums
    <2> DEFINE bytes == Repaired(event.bytes)
    <2>1. /\ event.kind = "network" /\ heard' = Silence
          /\ event' = [event EXCEPT !.bytes = bytes, !.checksum_dirty = FALSE]
          /\ UNCHANGED <<ring, session, origin, captured>>
      BY <1>9 DEF RepairChecksums, vars
    <2>2. ASSUME NEW packet, SameButEdited(event.bytes, packet), IsSeq(event.bytes),
                 20 <= Len(event.bytes)
          PROVE  IsSeq(bytes) /\ 20 <= Len(bytes) /\ SameButEdited(bytes, packet)
      BY <2>2, RepairKeeps
    <2>3. IsPacket(bytes) /\ Folded(WordSum(Header(bytes))) = 65535
      <3>1. IsPacket(event.bytes)
        BY <1>0, <2>1 DEF ChecksumKept
      <3> QED
        BY <3>1, RepairVerifies
    <2> HIDE DEF bytes
    <2>4. EventKept' /\ event'.bytes = bytes
      <3>1. EventKept /\ UNCHANGED origin
        BY <1>0, <2>1
      <3> QED
        BY <2>1, <2>2, <3>1, EditedIsKept
    <2>5. ChecksumKept'
      BY <2>3, <2>4 DEF ChecksumKept
    <2> QED
      BY <1>7, <2>1, <2>4, <2>5
  <1>10. CASE Send
    <2> DEFINE meant == Accepted([layer |-> event.layer, token |-> event.token,
                                  packet |-> event.bytes])
    <2>1. PICK arrival \in Arrivals(EncodeSendRequest(event.layer, event.token, event.bytes),
                                    SendLayout) :
            heard' = Heard("send", meant, arrival.how, AcceptSend(arrival.raw))
      BY <1>10 DEF Send
    <2> DEFINE got == AcceptSend(arrival.raw)
    <2>2. /\ event.kind = "network" /\ event.token # NoToken
          /\ UNCHANGED <<session, event, origin, ring, captured>>
      BY <1>10 DEF Send, clientVars, vars
    <2>3. event.layer \in PacketLayers /\ IsWord(event.token, 8) /\ IsSeq(event.bytes)
      BY <1>0, <2>2, SendableIsReceived
    <2>4. /\ arrival.how \in {"intact", "longer", "cut", "version", "layer", "magic"}
          /\ ReadRight("send", meant, arrival.how, got)
      BY <2>3, SendIsRead
    <2>5. got.ok \in BOOLEAN
      BY DecodersAnswer DEF AcceptSend, Refused
    <2> HIDE DEF got, meant
    <2>6. /\ heard'.message = "send" /\ heard'.meant = meant
          /\ heard'.how = arrival.how /\ heard'.got = got
      BY <2>1 DEF Heard, got
    <2>7. HeardKept'
      BY <2>2, <2>4, <2>5, <2>6 DEF HeardKept, meant
    <2> QED
      BY <1>0, <1>1, <2>2, <2>7
  <1>11. CASE Lose
    <2>1. /\ heard' = Silence /\ UNCHANGED <<session, event, origin, captured>>
          /\ ring' = DropOldest(ring)
      BY <1>11 DEF Lose, clientVars, DropOldestFrame
    <2>2. OnRing(DropOldest(ring))
      <3>1. CASE ring.len = 0
        <4>1. DropOldest(ring) = ring
          BY <3>1 DEF DropOldest
        <4> QED
          BY <1>0, <4>1
      <3> QED
        BY <1>0, <3>1, OldestLeaves
    <2>3. CaptureKept'
      BY <1>0, <2>1, <2>2 DEF CaptureKept, OnRing, WasCaptured
    <2> QED
      BY <1>0, <2>1, <2>3, EventStays DEF PathInv, HeardKept
  <1>12. CASE Close
    <2>1. /\ session' = "closed" /\ heard' = Silence /\ event' = event
          /\ origin' = [origin EXCEPT !.here = FALSE] /\ ring' = Clear(ring)
      BY <1>12 DEF Close, ClearRing
    <2>2. origin'.read = origin.read /\ origin' = [read |-> origin.read, here |-> FALSE]
      <3>1. origin = [read |-> origin.read, here |-> origin.here]
        BY <1>0 DEF EventKept
      <3> QED
        BY <2>1, <3>1
    <2>3. EventKept' /\ ChecksumKept'
      <3>1. ASSUME NEW layer, NEW token, NEW packet, PacketIsHeld(layer, token, packet)
            PROVE  (\E l, t, p : PacketIsHeld(l, t, p))'
        BY <2>1, <2>2, <3>1 DEF PacketIsHeld, HeldPacket, IsPacketOf
      <3>2. EventKept'
        BY <1>0, <2>1, <2>2, <3>1 DEF EventKept
      <3>3. ChecksumKept'
        BY <1>0, <2>1, <2>2 DEF ChecksumKept
      <3> QED
        BY <3>2, <3>3
    <2>4. CaptureKept'
      <3>1. Contents(ring') = <<>>
        BY <2>1, ClearEmpties DEF RingInv, TypeOK
      <3>2. ~ origin'.here
        BY <2>2
      <3> QED
        BY <3>1, <3>2 DEF CaptureKept
    <2> QED
      BY <2>1, <2>3, <2>4 DEF PathInv, HeardKept
  <1>13. CASE UNCHANGED pathVars
    <2>1. UNCHANGED <<session, event, origin, ring, captured, heard>>
      BY <1>13 DEF pathVars, clientVars, vars
    <2>2. HeardKept'
      BY <2>1 DEF PathInv, HeardKept
    <2> QED
      BY <1>0, <1>1, <2>1, <2>2
  <1> QED
    BY <1>2, <1>3, <1>4, <1>5, <1>6, <1>8, <1>9, <1>10, <1>11, <1>12, <1>13 DEF PathNext

(* The invariant holds of every packet, message, buffer and size of ring. *)
LEMMA PathInvariant == PathSpec => []PathInv
  <1>1. PathSpec => []RingInv
    <2>1. TypeOK /\ RingKeepsNoStaleFrame => RingInv
      BY DEF RingInv
    <2> QED
      BY <2>1, PathUsesTheRing, FrameRingTypeCorrect, FrameRingKeepsNoStaleFrame, PTL
  <1> QED
    BY <1>1, PathInvInit, PathInvStep, PTL DEF PathSpec

(* A client holds an event just when it decoded one, and every decoder      *)
(* answers with what it read or a reason (frame.rs:9-14, wd-proto/src/lib.rs *)
(* :410-741).                                                                *)
THEOREM PathTypeCorrect == PathSpec => []PathTypeOK
  <1>1. PathInv => PathTypeOK
    <2> SUFFICES ASSUME PathInv
                 PROVE  PathTypeOK
      OBVIOUS
    <2>1. heard # Silence => heard.got.ok \in BOOLEAN
      BY DEF PathInv, HeardKept
    <2>2. /\ event.kind \in {"none", "network", "socket", "flow"}
          /\ event = NoEvent <=> origin.read = NoEvent
      <3>1. CASE event = NoEvent /\ origin.read = NoEvent
        BY <3>1 DEF NoEvent
      <3>2. CASE event.kind \in {"socket", "flow"} /\ origin.read = event
        BY <3>2 DEF NoEvent
      <3>3. ASSUME NEW layer, NEW token, NEW packet, PacketIsHeld(layer, token, packet)
            PROVE  event.kind = "network" /\ origin.read.kind = "network"
        BY <3>3 DEF PacketIsHeld, HeldPacket, IsPacketOf, NetworkPacket
      <3>4. NoEvent.kind = "none"
        BY DEF NoEvent
      <3> QED
        BY <3>1, <3>2, <3>3, <3>4 DEF PathInv, EventKept
    <2> QED
      BY <2>1, <2>2 DEF PathInv, PathTypeOK
  <1> QED
    BY <1>1, PathInvariant, PTL

(* For every message and every way it may come, with any byte of its        *)
(* version, layer or magic replaced by any other: the receiver reads what   *)
(* the sender meant, whole, or refuses it, but for the two things the       *)
(* format cannot tell it.  A layer replaced by another layer is read as     *)
(* that layer's; an event without its magic, or its packet's, whose first   *)
(* byte is an IP header's, is read as a packet without a token              *)
(* (wd-proto/src/lib.rs:410-692, frame.rs:16-34, 137-146).                  *)
THEOREM PathReadsWholeOrRefuses == PathSpec => []ReadWholeOrRefused
  <1>1. PathInv => ReadWholeOrRefused
    BY DEF PathInv, HeardKept, ReadWholeOrRefused
  <1> QED
    BY <1>1, PathInvariant, PTL

(* For every packet: what the driver takes back from a client that received *)
(* it in this session is a packet captured in this session, under the token *)
(* it was given, changed in three bytes at most, whatever the client did    *)
(* with the events of other sessions before (frame.rs:133-172,              *)
(* wd-proto/src/lib.rs:592-651, runtime_device.rs:165-171).                 *)
THEOREM PathReturnsTheCaptured == PathSpec => []OnlyCapturedPacketsReturn
  <1>1. PathInv => OnlyCapturedPacketsReturn
    <2> SUFFICES ASSUME PathInv, heard.message = "send", heard.got.ok, origin.here
                 PROVE  \E about \in captured :
                          /\ heard.got.value.token = about.token
                          /\ heard.how # "layer" => heard.got.value.layer = about.layer
                          /\ SameButEdited(heard.got.value.packet, about.packet)
      BY DEF OnlyCapturedPacketsReturn
    <2> DEFINE meant == [layer |-> event.layer, token |-> event.token, packet |-> event.bytes]
    <2>1. /\ heard.how \in {"intact", "longer", "cut", "version", "layer", "magic"}
          /\ event.kind = "network" /\ heard.meant = Accepted(meant)
          /\ ReadRight("send", Accepted(meant), heard.how, heard.got)
      <3>1. heard # Silence
        BY DEF Silence
      <3> QED
        BY <3>1 DEF PathInv, HeardKept
    <2>2. /\ heard.got.value.token = event.token /\ heard.got.value.packet = event.bytes
          /\ heard.how # "layer" => heard.got.value.layer = event.layer
      <3> HIDE DEF meant
      <3>1. CASE heard.how \in {"intact", "longer"}
        <4>1. heard.got.value = meant
          BY <2>1, <3>1 DEF ReadRight, Accepted
        <4> QED
          BY <4>1 DEF meant
      <3>2. CASE heard.how = "layer"
        <4>1. heard.got.value = [meant EXCEPT !.layer = heard.got.value.layer]
          BY <2>1, <3>2 DEF ReadRight, ButForItsLayer, Accepted
        <4>2. ASSUME NEW other
              PROVE  /\ [meant EXCEPT !.layer = other].token = event.token
                     /\ [meant EXCEPT !.layer = other].packet = event.bytes
          BY DEF meant
        <4> HIDE DEF meant
        <4> QED
          BY <3>2, <4>1, <4>2
      <3> QED
        BY <2>1, <3>1, <3>2 DEF ReadRight
    <2>3. PICK about \in captured :
            origin.read = NetworkPacket(about.layer, about.token, about.packet)
      BY <2>1 DEF PathInv, CaptureKept
    <2>4. PICK layer, token, packet : PacketIsHeld(layer, token, packet)
      BY <2>1 DEF PathInv, EventKept, NoEvent
    <2>5. layer = about.layer /\ token = about.token /\ packet = about.packet
      <3>1. NetworkPacket(layer, token, packet)
              = NetworkPacket(about.layer, about.token, about.packet)
        BY <2>3, <2>4 DEF PacketIsHeld, IsPacketOf
      <3> QED
        BY <3>1, SamePacket
    <2>6. event.layer = layer /\ event.token = token /\ SameButEdited(event.bytes, packet)
      BY <2>4 DEF PacketIsHeld, HeldPacket
    <2> QED
      BY <2>2, <2>5, <2>6
  <1> QED
    BY <1>1, PathInvariant, PTL

(* For every packet, whatever its length and its checksum, and every order *)
(* of edits and repairs: one that its client need not repair is as it came *)
(* or has a header whose words sum to 65535 (frame.rs:94-131).             *)
THEOREM PathEditedPacketsVerify == PathSpec => []EditedPacketsVerify
  <1>1. PathInv => EditedPacketsVerify
    <2> SUFFICES ASSUME PathInv, event.kind = "network"
                 PROVE  /\ SameButEdited(event.bytes, origin.read.bytes)
                        /\ event.checksum_dirty \/ event.bytes = origin.read.bytes
                                               \/ Folded(WordSum(Header(event.bytes))) = 65535
      BY DEF EditedPacketsVerify
    <2>1. PICK layer, token, packet : PacketIsHeld(layer, token, packet)
      BY DEF PathInv, EventKept, NoEvent
    <2>2. origin.read.bytes = packet /\ SameButEdited(event.bytes, packet)
      BY <2>1 DEF PacketIsHeld, HeldPacket, IsPacketOf, NetworkPacket
    <2> QED
      BY <2>2 DEF PathInv, ChecksumKept
  <1> QED
    BY <1>1, PathInvariant, PTL

=============================================================================
