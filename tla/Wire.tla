------------------------------- MODULE Wire ---------------------------------
(***************************************************************************)
(* The messages the driver and its clients exchange, byte by byte          *)
(* (crates/wd-proto/src/lib.rs).  A message is a sequence of bytes.  What  *)
(* is only carried (a token, a pid, a flow id, a priority, flags,          *)
(* capabilities, a status) is the sequence of its bytes in wire order;     *)
(* what is computed with (a length, a kind) is a number.  A decoder        *)
(* answers Accepted(what it read) or Refused(why).                         *)
(***************************************************************************)
EXTENDS Integers, Sequences

Layers == <<"Network", "NetworkForward", "Flow", "Socket", "Reflect">>

ToWire(layer) == CHOOSE code \in DOMAIN Layers : Layers[code] = layer

Version == <<0, 0, 1, 0>>   \* major 0, minor 1

EventMagic   == <<87, 68, 82, 84>>   \* "WDRT"
SendMagic    == <<87, 68, 83, 78>>   \* "WDSN"
NetworkMagic == <<87, 68, 78, 87>>   \* "WDNW"

SocketKind == 2   \* Connect
FlowKind   == 4   \* Established

(* A u32, least significant byte first. *)
LE4(n) == <<n % 256, (n \div 256) % 256, (n \div 65536) % 256, n \div 16777216>>

FromLE4(raw, at) ==
  raw[at] + 256 * raw[at + 1] + 65536 * raw[at + 2] + 16777216 * raw[at + 3]

Bytes(raw, from, to) == SubSeq(raw, from + 1, to)   \* raw[from..to]

Accepted(value) == [ok |-> TRUE, value |-> value]
Refused(why)    == [ok |-> FALSE, why |-> why]

-----------------------------------------------------------------------------
(* The encoders. *)

EncodeOpenRequest(request) ==
  Version \o <<ToWire(request.layer), 0>> \o request.priority \o request.flags
    \o LE4(Len(request.filter)) \o request.filter

EncodeOpenResponse(response) ==
  response.version \o response.capabilities \o response.status

EncodeRuntimeEvent(layer, payload) ==
  EventMagic \o Version \o <<ToWire(layer), 0, 0, 0>> \o LE4(Len(payload)) \o payload

EncodeNetworkPayload(token, packet) ==
  NetworkMagic \o token \o LE4(Len(packet)) \o packet

EncodeSendRequest(layer, token, packet) ==
  SendMagic \o Version \o <<ToWire(layer), 0, 0, 0>> \o token
    \o LE4(Len(packet)) \o packet

EncodeSocketPayload(pid) == LE4(SocketKind) \o LE4(0) \o pid

EncodeFlowPayload(flow, pid) == LE4(FlowKind) \o LE4(0) \o flow \o pid

-----------------------------------------------------------------------------
(* Four of the decoders check alike, in this order: a header of header     *)
(* bytes, the magic it starts with, the version and the layer behind the   *)
(* magic when the message has them, and, at lengthAt, the length of the    *)
(* payload, which must be there.  What follows the payload is ignored.     *)
OpenLayout    == [magic |-> <<>>, layered |-> TRUE, header |-> 20, lengthAt |-> 17]
EventLayout   == [magic |-> EventMagic, layered |-> TRUE, header |-> 16, lengthAt |-> 13]
SendLayout    == [magic |-> SendMagic, layered |-> TRUE, header |-> 24, lengthAt |-> 21]
NetworkLayout == [magic |-> NetworkMagic, layered |-> FALSE, header |-> 16, lengthAt |-> 13]

VersionIn(raw, layout) == Bytes(raw, Len(layout.magic), Len(layout.magic) + 4)
LayerIn(raw, layout)   == raw[Len(layout.magic) + 5]
EndIn(raw, layout)     == layout.header + FromLE4(raw, layout.lengthAt)
PayloadIn(raw, layout) == Bytes(raw, layout.header, EndIn(raw, layout))

Fault_AnyVersion(raw, layout) ==
  IF Len(raw) < layout.header THEN "header_too_short"
  ELSE IF Bytes(raw, 0, Len(layout.magic)) # layout.magic THEN "invalid_magic"
  ELSE IF layout.layered /\ LayerIn(raw, layout) \notin DOMAIN Layers
       THEN "unsupported_layer"
  ELSE IF Len(raw) < EndIn(raw, layout) THEN "truncated"
  ELSE "none"

Fault(raw, layout) ==
  IF Len(raw) < layout.header THEN "header_too_short"
  ELSE IF Bytes(raw, 0, Len(layout.magic)) # layout.magic THEN "invalid_magic"
  ELSE IF layout.layered /\ VersionIn(raw, layout) # Version THEN "version_mismatch"
  ELSE IF layout.layered /\ LayerIn(raw, layout) \notin DOMAIN Layers
       THEN "unsupported_layer"
  ELSE IF Len(raw) < EndIn(raw, layout) THEN "truncated"
  ELSE "none"

(* The value is looked at only when nothing is wrong with the message. *)
Read(raw, layout, value) ==
  LET fault == Fault(raw, layout)
  IN  IF fault = "none" THEN Accepted(value) ELSE Refused(fault)

DecodeOpenRequest(raw) ==
  Read(raw, OpenLayout,
       [layer    |-> Layers[LayerIn(raw, OpenLayout)],
        priority |-> Bytes(raw, 6, 8),
        flags    |-> Bytes(raw, 8, 16),
        filter   |-> PayloadIn(raw, OpenLayout)])

DecodeRuntimeEvent(raw) ==
  Read(raw, EventLayout,
       [layer   |-> Layers[LayerIn(raw, EventLayout)],
        payload |-> PayloadIn(raw, EventLayout)])

DecodeNetworkPayload(raw) ==
  Read(raw, NetworkLayout,
       [token  |-> Bytes(raw, 4, 12),
        packet |-> PayloadIn(raw, NetworkLayout)])

DecodeSendRequest(raw) ==
  Read(raw, SendLayout,
       [layer  |-> Layers[LayerIn(raw, SendLayout)],
        token  |-> Bytes(raw, 12, 20),
        packet |-> PayloadIn(raw, SendLayout)])

DecodeOpenResponse(raw) ==
  IF Len(raw) < 12 THEN Refused("buffer_too_short")
  ELSE IF Bytes(raw, 0, 4) # Version THEN Refused("version_mismatch")
  ELSE Accepted([version      |-> Bytes(raw, 0, 4),
                 capabilities |-> Bytes(raw, 4, 8),
                 status       |-> Bytes(raw, 8, 12)])

(* The payloads of a socket and of a flow event have one length each. *)
DecodeSocketPayload(raw) ==
  IF Len(raw) # 16 THEN Refused("invalid_length")
  ELSE IF FromLE4(raw, 1) # SocketKind THEN Refused("unsupported_kind")
  ELSE Accepted([pid |-> Bytes(raw, 8, 16)])

DecodeFlowPayload(raw) ==
  IF Len(raw) # 24 THEN Refused("invalid_length")
  ELSE IF FromLE4(raw, 1) # FlowKind THEN Refused("unsupported_kind")
  ELSE Accepted([flow |-> Bytes(raw, 8, 16), pid |-> Bytes(raw, 16, 24)])

=============================================================================
