----------------------------- MODULE PacketPath -----------------------------
(***************************************************************************)
(* What becomes of a packet's bytes on its way from the driver to a client *)
(* and back: the driver encodes it (driver/wd-kmdf/src/network_runtime.rs) *)
(* and puts the frame on its ring, the client pops and decodes it          *)
(* (crates/wd-user/src/frame.rs), may edit it, and sends it back.  Before  *)
(* that the two agree on a session (crates/wd-user/src/handle.rs).         *)
(*                                                                         *)
(* Driver and client are built and installed apart, and anything may call  *)
(* the driver, so a message may also be of another version, cut short,     *)
(* followed by leftovers of its buffer, damaged, or no such message at     *)
(* all.  The functions of the client's side are public: a client may       *)
(* decode bytes no session of its own received, and keep an event longer   *)
(* than the session it came in.                                            *)
(***************************************************************************)
EXTENDS FrameRing, Wire, FiniteSetsExt

CONSTANTS
  Requests,   \* what clients ask of an OPEN: layer, priority, flags, filter
  Responses,  \* what drivers answer: version, capabilities, status
  Strays,     \* events a client meets elsewhere: bare, or not IPv4
  Damage,     \* what a byte of a message may be replaced by
  Ttls        \* what a client sets a packet's time to live to

VARIABLES
  session,   \* "closed", "asked" (the driver took the OPEN), "open"
  event,     \* the RecvEvent the client holds, or NoEvent
  \* history, which no action looks at:
  origin,    \* that event as it was decoded, and whether in this session
  captured,  \* the packets that were queued in this session
  heard      \* the message that has just crossed, or Silence

clientVars == <<session, event, origin>>
pathVars == <<vars, clientVars, captured, heard>>

NoEvent == [kind |-> "none"]
NoOrigin == [read |-> NoEvent, here |-> FALSE]
Silence == [message |-> "none"]

(* What was sent, how it came across and what the receiver made of it. *)
Heard(message, meant, how, got) ==
  [message |-> message, meant |-> meant, how |-> how, got |-> got]

(* The bytes an event comes in. *)
FrameBytesOf(about) ==
  CASE about.kind = "network" ->
         EncodeRuntimeEvent(about.layer, EncodeNetworkPayload(about.token, about.packet))
    [] about.kind = "bare" -> EncodeRuntimeEvent(about.layer, about.packet)
    [] about.kind = "raw" -> about.packet
    [] about.kind = "socket" -> EncodeRuntimeEvent("Socket", EncodeSocketPayload(about.pid))
    [] about.kind = "flow" ->
         EncodeRuntimeEvent("Flow", EncodeFlowPayload(about.flow, about.pid))

FrameOf(about) ==
  LET bytes == FrameBytesOf(about)
  IN  [about |-> about, bytes |-> bytes, size |-> Len(bytes)]

ASSUME PathAssumption == \A frame \in Frames : frame = FrameOf(frame.about)

(* What the driver and its clients speak of: numbers of fixed width, and   *)
(* packets of any length.  A packet without a payload's header around it   *)
(* begins like one: the version of an IP header is 4 or 6.                 *)
Byte == 0 .. 255
Word(width) == [1 .. width -> Byte]

PacketLayers == {"Network", "NetworkForward"}

NetworkEvents ==
  [kind : {"network"}, layer : PacketLayers, token : Word(8), packet : Seq(Byte)]
SocketEvents == [kind : {"socket"}, pid : Word(8)]
FlowEvents   == [kind : {"flow"}, flow : Word(8), pid : Word(8)]
BarePackets  == [kind : {"bare"}, layer : PacketLayers, packet : Seq(Byte)]
RawPackets   == [kind : {"raw"}, packet : Seq(Byte)]

HighNibble(byte) == byte \div 16
LowNibble(byte)  == byte % 16

ASSUME MessageAssumption ==
  /\ Requests \subseteq [layer : {Layers[code] : code \in DOMAIN Layers},
                         priority : Word(2), flags : Word(8), filter : Seq(Byte)]
  /\ Responses \subseteq [version : {Version}, capabilities : Word(4), status : Word(4)]
  /\ \A frame \in Frames : frame.about \in NetworkEvents \cup SocketEvents \cup FlowEvents
  /\ Strays \subseteq NetworkEvents \cup BarePackets \cup RawPackets
  /\ \A about \in Strays :
       about.kind # "network" =>
         about.packet # <<>> /\ HighNibble(about.packet[1]) \in {4, 6}
  /\ Damage \subseteq Byte /\ Ttls \subseteq Byte

(* How a message may come: as it was sent, longer, cut at any byte, or     *)
(* with a byte of its version, its layer or its magic replaced.            *)
ResponseLayout == [magic |-> <<>>, layered |-> FALSE]

Delivered(message) ==
  {[how |-> "intact", raw |-> message],
   [how |-> "longer", raw |-> message \o <<69, 0>>]}
    \cup {[how |-> "cut", raw |-> SubSeq(message, 1, n)] : n \in 0 .. Len(message) - 1}

Damaged(how, message, places) ==
  UNION {{[how |-> how, raw |-> [message EXCEPT ![place] = byte]] :
            byte \in Damage \ {message[place]}} : place \in places}

Arrivals(message, layout) ==
  LET after == Len(layout.magic)
  IN  Delivered(message)
      \cup Damaged("magic", message, 1 .. after)
      \cup Damaged("version", message, after + 1 .. after + 4)
      \cup Damaged("layer", message, IF layout.layered THEN {after + 5} ELSE {})

(* An event's packet may have a magic of its own, in front of its token; a *)
(* raw packet has nothing in front of it.                                  *)
EventArrivals(about) ==
  LET bytes == FrameBytesOf(about)
  IN  IF about.kind = "raw" THEN Delivered(bytes)
      ELSE Arrivals(bytes, EventLayout)
           \cup Damaged("magic", bytes, IF about.kind = "network" THEN 17 .. 20 ELSE {})

-----------------------------------------------------------------------------
(* The client's side of the wire (frame.rs). *)

HeaderLen(bytes) == 4 * LowNibble(bytes[1])

IsIpv4(bytes) ==
  /\ Len(bytes) >= 20
  /\ HighNibble(bytes[1]) = 4 /\ LowNibble(bytes[1]) >= 5
  /\ Len(bytes) >= HeaderLen(bytes)

NetworkPacket(layer, token, bytes) ==
  [kind |-> "network", layer |-> layer, token |-> token,
   bytes |-> bytes, checksum_dirty |-> FALSE]

NoToken == <<>>

DecodePacket(raw, layer, token) ==
  IF IsIpv4(raw) THEN Accepted(NetworkPacket(layer, token, raw))
  ELSE Refused("invalid_frame")

DecodeBare(raw) == DecodePacket(raw, "Network", NoToken)

(* A payload that does not begin like a network payload is a bare packet;  *)
(* one that does, and is cut, is an error.                                 *)
DecodeRuntimeNetworkPacket(layer, raw) ==
  LET payload == DecodeNetworkPayload(raw)
  IN  IF payload.ok THEN DecodePacket(payload.value.packet, layer, payload.value.token)
      ELSE IF payload.why \in {"invalid_magic", "header_too_short"} THEN DecodeBare(raw)
      ELSE payload

SocketEvent(payload) ==
  IF payload.ok THEN Accepted([kind |-> "socket", pid |-> payload.value.pid]) ELSE payload

FlowEvent(payload) ==
  IF payload.ok
  THEN Accepted([kind |-> "flow", flow |-> payload.value.flow, pid |-> payload.value.pid])
  ELSE payload

(* RecvEvent::decode, with the same fallback for the frame itself. *)
Decode(raw) ==
  LET frame == DecodeRuntimeEvent(raw)
      layer == frame.value.layer
      payload == frame.value.payload
  IN  IF frame.ok
      THEN CASE layer \in {"Network", "NetworkForward"} ->
                  DecodeRuntimeNetworkPacket(layer, payload)
             [] layer = "Socket" -> SocketEvent(DecodeSocketPayload(payload))
             [] layer = "Flow" -> FlowEvent(DecodeFlowPayload(payload))
             [] layer = "Reflect" -> Refused("invalid_frame")
      ELSE IF frame.why \in {"invalid_magic", "header_too_short"} THEN DecodeBare(raw)
      ELSE frame

-----------------------------------------------------------------------------
(* The checksum of an IPv4 header, whose bytes number a multiple of 4: the *)
(* words' sum, with every carry out of 16 bits added back in.              *)
Folded(sum) == IF sum = 0 THEN 0 ELSE 1 + ((sum - 1) % 65535)

WordSum(header) ==
  MapThenSumSet(LAMBDA i : header[i] * (IF i % 2 = 1 THEN 256 ELSE 1), DOMAIN header)

Ipv4HeaderChecksum(header) == 65535 - Folded(WordSum(header))

Header(bytes) == SubSeq(bytes, 1, HeaderLen(bytes))

Repaired_KeepsOldSum(bytes) ==
  LET checksum == Ipv4HeaderChecksum(Header(bytes))
  IN  [bytes EXCEPT ![11] = checksum \div 256, ![12] = checksum % 256]

Repaired(bytes) ==
  LET blank == [bytes EXCEPT ![11] = 0, ![12] = 0]
      checksum == Ipv4HeaderChecksum(Header(blank))
  IN  [blank EXCEPT ![11] = checksum \div 256, ![12] = checksum % 256]

-----------------------------------------------------------------------------
PathInit ==
  /\ Init
  /\ session = "closed" /\ event = NoEvent
  /\ origin = NoOrigin /\ captured = {} /\ heard = Silence

(* A client's OPEN reaches the driver. *)
Ask(request) ==
  /\ session = "closed"
  /\ \E arrival \in Arrivals(EncodeOpenRequest(request), OpenLayout) :
       LET got == DecodeOpenRequest(arrival.raw)
       IN  /\ heard' = Heard("open", Accepted(request), arrival.how, got)
           /\ session' = IF got.ok THEN "asked" ELSE "closed"
  /\ UNCHANGED <<vars, event, origin, captured>>

(* The driver's answer reaches the client: DynamicHandle::from_open_response *)
(* wants a status of 0, and a client that is not content closes its handle.  *)
Answer(response) ==
  /\ session = "asked"
  /\ \E arrival \in Arrivals(EncodeOpenResponse(response), ResponseLayout) :
       LET got == DecodeOpenResponse(arrival.raw)
           content == got.ok /\ got.value.status = LE4(0)
       IN  /\ heard' = Heard("answer", Accepted(response), arrival.how, got)
           /\ session' = IF content THEN "open" ELSE "closed"
  /\ UNCHANGED <<vars, event, origin, captured>>

(* The driver captures something and queues its frame. *)
Capture(frame) ==
  /\ session = "open"
  /\ PushFrame(frame)
  /\ captured' = IF FitsSlot(frame) /\ frame.about.kind = "network"
                 THEN captured \cup {frame.about} ELSE captured
  /\ heard' = Silence
  /\ UNCHANGED clientVars

(* What decoding an event should give.  The layer and the token of a       *)
(* packet are in its network payload; without one they are not known.      *)
Expected(about) ==
  CASE about.kind = "network" -> DecodePacket(about.packet, about.layer, about.token)
    [] about.kind \in {"bare", "raw"} -> DecodeBare(about.packet)
    [] OTHER -> Accepted(about)

Hear_KeepsEvent(about, arrival) ==
  LET got == Decode(arrival.raw)
  IN  /\ heard' = Heard(IF about.kind = "raw" THEN "packet" ELSE "event",
                        Expected(about), arrival.how, got)
      /\ event' = IF got.ok THEN got.value ELSE event
      /\ origin' = IF got.ok THEN [read |-> got.value, here |-> session = "open"] ELSE NoOrigin

Hear(about, arrival) ==
  LET got == Decode(arrival.raw)
  IN  /\ heard' = Heard(IF about.kind = "raw" THEN "packet" ELSE "event",
                        Expected(about), arrival.how, got)
      /\ event' = IF got.ok THEN got.value ELSE NoEvent
      /\ origin' = IF got.ok THEN [read |-> got.value, here |-> session = "open"] ELSE NoOrigin

(* A RECV: the oldest frame, decoded, or nothing. *)
Receive(outputLen) ==
  /\ session = "open"
  /\ PopInto(outputLen)
  /\ IF popped' = <<>> THEN heard' = Silence /\ UNCHANGED <<event, origin>>
     ELSE Hear(popped'[1].about, [how |-> "intact", raw |-> popped'[1].bytes])
  /\ UNCHANGED <<session, captured>>

(* RecvEvent::decode is given bytes that no session of this driver sent. *)
Overhear ==
  /\ session = "closed"
  /\ \E about \in Strays \cup {frame.about : frame \in Frames} :
       \E arrival \in EventArrivals(about) : Hear(about, arrival)
  /\ UNCHANGED <<vars, session, captured>>

(* NetworkPacket::set_ipv4_ttl *)
SetTtl(ttl) ==
  /\ event.kind = "network" /\ event.bytes[9] # ttl
  /\ event' = [event EXCEPT !.bytes[9] = ttl, !.checksum_dirty = TRUE]
  /\ heard' = Silence
  /\ UNCHANGED <<vars, session, origin, captured>>

(* RecvEvent::repair_checksums; the header of a decoded packet is whole. *)
RepairChecksums ==
  /\ event.kind = "network" /\ event.checksum_dirty
  /\ event' = [event EXCEPT !.bytes = Repaired(event.bytes), !.checksum_dirty = FALSE]
  /\ heard' = Silence
  /\ UNCHANGED <<vars, session, origin, captured>>

(* NetworkRuntime::accept_send, as far as it reads the request. *)
AcceptSend(raw) ==
  LET request == DecodeSendRequest(raw)
  IN  IF request.ok /\ request.value.layer \notin PacketLayers
      THEN Refused("unsupported_layer") ELSE request

(* A packet that came with a token is sent back. *)
Send ==
  /\ session = "open"
  /\ event.kind = "network" /\ event.token # NoToken
  /\ \E arrival \in Arrivals(EncodeSendRequest(event.layer, event.token, event.bytes),
                              SendLayout) :
       heard' = Heard("send",
                      Accepted([layer |-> event.layer, token |-> event.token,
                                packet |-> event.bytes]),
                      arrival.how, AcceptSend(arrival.raw))
  /\ UNCHANGED <<vars, clientVars, captured>>

(* The driver gives up a frame for room. *)
Lose ==
  /\ session = "open"
  /\ DropOldestFrame
  /\ heard' = Silence
  /\ UNCHANGED <<clientVars, captured>>

(* The session ends; the client may hold on to an event. *)
Close_LeavesQueue ==
  /\ session = "open"
  /\ session' = "closed" /\ heard' = Silence
  /\ origin' = [origin EXCEPT !.here = FALSE] /\ captured' = {}
  /\ UNCHANGED <<vars, event>>

Close ==
  /\ session = "open"
  /\ ClearRing
  /\ session' = "closed" /\ heard' = Silence
  /\ origin' = [origin EXCEPT !.here = FALSE] /\ captured' = {}
  /\ UNCHANGED event

PathNext ==
  \/ \E request \in Requests : Ask(request)
  \/ \E response \in Responses : Answer(response)
  \/ \E frame \in Frames : Capture(frame)
  \/ \E outputLen \in OutputLens : Receive(outputLen)
  \/ Overhear
  \/ \E ttl \in Ttls : SetTtl(ttl)
  \/ RepairChecksums
  \/ Send
  \/ Lose
  \/ Close

PathSpec == PathInit /\ [][PathNext]_pathVars

-----------------------------------------------------------------------------
PathTypeOK ==
  /\ session \in {"closed", "asked", "open"}
  /\ event.kind \in {"none", "network", "socket", "flow"}
  /\ event = NoEvent <=> origin.read = NoEvent
  /\ heard # Silence => heard.got.ok \in BOOLEAN

(* A packet that nobody can send back: it came without a token. *)
TakenForBare(value) ==
  value.kind = "network" /\ value.layer = "Network" /\ value.token = NoToken

ButForItsLayer(got, meant) ==
  meant.ok /\ got.value = [meant.value EXCEPT !.layer = got.value.layer]

(* What a receiver may make of a message.  Bytes after it do not matter; a *)
(* message that is cut anywhere or of another version is refused, and so   *)
(* is one with another layer, unless that is a layer too: then it is read  *)
(* as meant for it.  A replaced magic is found, but an event without its   *)
(* magic, or its packet's, passes for a packet on its own when its first   *)
(* byte does; and a packet on its own, which has no length, is as long as  *)
(* it came.  Neither has a token.                                          *)
ReadRight(message, meant, how, got) ==
  /\ how = "intact" \/ (how = "longer" /\ message # "packet") => got = meant
  /\ how \in {"cut", "version"} /\ message # "packet" => ~ got.ok
  /\ how = "layer" /\ got.ok => ButForItsLayer(got, meant)
  /\ how = "magic" /\ got.ok => message = "event" /\ TakenForBare(got.value)
  /\ message = "packet" /\ got.ok => TakenForBare(got.value)

(* A receiver reads what the sender meant, whole, or refuses the message,  *)
(* but for the two things the format cannot tell it: which of the layers   *)
(* was meant, and that a packet on its own is the rest of something else   *)
(* (wd-proto/src/lib.rs:410-692, frame.rs:16-34, 137-146).                 *)
ReadWholeOrRefused ==
  heard # Silence => ReadRight(heard.message, heard.meant, heard.how, heard.got)

(* The bytes set_ipv4_ttl and repair_checksums may touch. *)
SameButEdited(bytes, packet) ==
  /\ Len(bytes) = Len(packet)
  /\ \A i \in DOMAIN bytes \ {9, 11, 12} : bytes[i] = packet[i]

(* A packet its client holds and need not repair is as it came or has a    *)
(* header whose words sum to 65535, whatever its checksum was when it was  *)
(* captured and however often it was edited (frame.rs:94-131).             *)
EditedPacketsVerify ==
  event.kind = "network" =>
    /\ SameButEdited(event.bytes, origin.read.bytes)
    /\ event.checksum_dirty \/ event.bytes = origin.read.bytes
                           \/ Folded(WordSum(Header(event.bytes))) = 65535

(* What the driver takes back from a client that received it in this       *)
(* session is a packet it captured in this session, with its token and its *)
(* bytes but for the edits, on its layer unless the request's was damaged. *)
(* Nothing that came without a token, and no frame left over from another  *)
(* session, takes this way (frame.rs:133-172, wd-proto/src/lib.rs:592-651, *)
(* runtime_device.rs:165-171).                                             *)
OnlyCapturedPacketsReturn ==
  heard.message = "send" /\ heard.got.ok /\ origin.here =>
    \E about \in captured :
      /\ heard.got.value.token = about.token
      /\ heard.how # "layer" => heard.got.value.layer = about.layer
      /\ SameButEdited(heard.got.value.packet, about.packet)

=============================================================================
