--------------------------- MODULE RuntimeDevice ----------------------------
(***************************************************************************)
(* One runtime handle of the driver: driver/wd-kmdf/src/runtime_device.rs  *)
(* with the token side of network_runtime.rs and the lifecycle of          *)
(* wd-kmdf-core.  A handle is used by one caller at a time (&mut self), so *)
(* a call is a step.  Each call leaves its result in reply.                *)
(*                                                                         *)
(* Packets and events are records: what the filter program can tell of one *)
(* is its tag, its length is in bytes, and the id the driver gives it      *)
(* stands for its contents too.                                            *)
(***************************************************************************)
EXTENDS ByteRing, ReinjectionTable

CONSTANTS
  QueueCapacities,  \* values of queue_capacity a device is created with
  Tags,             \* what a filter program can tell apart
  PacketIds,        \* the packet ids the driver assigns
  Packets,          \* the packets the driver may see: [id, len, tag]
  Requests,         \* decoded open requests: [layer, ir, accepts]
  CaptureLayers,    \* layers queue_network_event is called with
  SendLayers,       \* layers in the headers of send requests
  OutputLens,       \* lengths of the buffers handed to recv_into
  SendLens          \* lengths of the packets handed to send

Layer == {"Network", "NetworkForward", "Flow", "Socket", "Reflect"}
NetworkLayer == {"Network", "NetworkForward"}

(* The three shapes of OpenRequest.filter_ir: no bytes, bytes that          *)
(* FilterEngine::from_ir_bytes refuses, and a program, which accepts the    *)
(* events with certain tags.                                                *)
Request == [layer : Layer, ir : {"empty", "malformed", "program"}, accepts : SUBSET Tags]
Packet == [id : PacketIds, len : Nat, tag : Tags]

ASSUME DeviceAssumption ==
  /\ QueueCapacities \subseteq Nat
  /\ 0 \notin PacketIds
  /\ Packets \subseteq Packet
  /\ Requests \subseteq Request
  /\ CaptureLayers \subseteq Layer
  /\ SendLayers \subseteq Layer
  /\ OutputLens \subseteq Nat
  /\ SendLens \subseteq Nat

(* RUNTIME_FRAME_SLOTS = 32 and REINJECTION_CAPACITY = 256: every frame    *)
(* that can be queued has its place in the token table.                    *)
ASSUME WindowAssumption == RingSlots <= TableSlots

VARIABLES
  state,            \* HandleState
  open_request,     \* the request the handle was opened with, or NoRequest
  filter_engine,    \* its compiled filter, or NoEngine
  queue_capacity,
  queue,            \* ByteRing of frames
  reinjection,      \* ReinjectionTable
  reply,            \* result of the last call
  issued,           \* history: what each token was last issued for
  accepted          \* history: what send last accepted for each token

handle == <<state, open_request, filter_engine, queue_capacity>>
history == <<issued, accepted>>
device == <<handle, queue, reinjection>>
vars == <<device, reply, history>>

-----------------------------------------------------------------------------
HandleState ==
  {"Opening", "Running", "RecvShutdown", "SendShutdown", "Closing", "Closed"}

NoRequest == [layer |-> "none", ir |-> "empty", accepts |-> {}]
NoEngine == [layer |-> "none", accepts |-> {}]
Engine == [layer : Layer, accepts : SUBSET Tags]

RuntimeEventHeaderLen == 16
NetworkPayloadHeaderLen == 16
SocketPayloadLen == 16
FlowPayloadLen == 24
AcceptedPacketBytes == 2048

(* A queued frame: the layer in its header, the token in its payload (0    *)
(* where the layer has none), the packet whose bytes it carries, its tag.  *)
Frame ==
  [layer : Layer, token : Token \cup {0}, id : PacketIds \cup {0},
   tag : Tags, size : Nat]

(* AcceptedReinjection, and the same pair for an issued token. *)
Reinjection == [packet_id : PacketIds, layer : NetworkLayer]
NoReinjection == [packet_id |-> 0, layer |-> "none"]

(* The tokens send has accepted. *)
spent == {t \in Token : accepted[t] # NoReinjection}

Results ==
  {"Ok", "InvalidState", "RecvDisabled", "SendDisabled", "QueueEmpty",
   "FilterCompile", "QueueStorage", "UnsupportedLayer", "EncodeInto",
   "DecodeSend", "PacketBuffer", "UnknownToken"}

Returns(result) == reply' = result

Fails(error) ==
  /\ Returns(error)
  /\ UNCHANGED <<device, history>>

Ignored ==
  /\ Returns("Ok")
  /\ UNCHANGED <<device, history>>

TypeOK ==
  /\ state \in HandleState
  /\ open_request \in Request \cup {NoRequest}
  /\ filter_engine \in Engine \cup {NoEngine}
  /\ queue_capacity \in QueueCapacities
  /\ queue \in Rings(Frame)
  /\ reinjection \in Tables(PacketIds)
  /\ reply \in Results
  /\ issued \in [Token -> Reinjection \cup {NoReinjection}]
  /\ accepted \in [Token -> Reinjection \cup {NoReinjection}]

(* RuntimeDevice::new *)
Init ==
  /\ state = "Opening"
  /\ open_request = NoRequest
  /\ filter_engine = NoEngine
  /\ queue_capacity \in QueueCapacities
  /\ queue = NewRing
  /\ reinjection = NewTable
  /\ reply = "Ok"
  /\ issued = [t \in Token |-> NoReinjection]
  /\ accepted = [t \in Token |-> NoReinjection]

-----------------------------------------------------------------------------
(* Opening.                                                                *)

Open ==
  \/ state # "Opening" /\ Fails("InvalidState")
  \/ /\ state = "Opening"
     /\ state' = "Running"
     /\ open_request' = NoRequest
     /\ filter_engine' = NoEngine
     /\ Returns("Ok")
     /\ UNCHANGED <<queue_capacity, queue, reinjection, history>>

(* compile_filter_for_request *)
CompiledFilter(request) ==
  IF request.ir = "empty" THEN NoEngine
  ELSE [layer |-> request.layer, accepts |-> request.accepts]

(* The filter is compiled before the state is looked at. *)
OpenWithRequest(request) ==
  \/ request.ir = "malformed" /\ Fails("FilterCompile")
  \/ /\ request.ir # "malformed"
     /\ \/ state # "Opening" /\ Fails("InvalidState")
        \/ /\ state = "Opening"
           /\ state' = "Running"
           /\ open_request' = request
           /\ filter_engine' = CompiledFilter(request)
           /\ Returns("Ok")
           /\ UNCHANGED <<queue_capacity, queue, reinjection, history>>

-----------------------------------------------------------------------------
(* Events from the driver side.                                            *)

FilterAllows_AnyLayer(layer, tag) ==
  filter_engine = NoEngine \/ tag \in filter_engine.accepts

FilterAllows(layer, tag) ==
  \/ filter_engine = NoEngine
  \/ filter_engine.layer = layer /\ tag \in filter_engine.accepts

(* filter_allows_network: with a filter, a layer that is not one of the    *)
(* two network layers is let through, for issue_event_into to refuse.      *)
FilterAllowsNetwork(layer, tag) ==
  layer \notin NetworkLayer \/ FilterAllows(layer, tag)

EffectiveCapacity ==
  IF queue_capacity < RingSlots THEN queue_capacity ELSE RingSlots

(* The queue after enqueue_frame. *)
Enqueued_NewestLost(frame) ==
  IF queue_capacity = 0 \/ queue.len = EffectiveCapacity THEN queue
  ELSE Push(queue, frame)

Enqueued(frame) ==
  IF queue_capacity = 0 THEN queue
  ELSE IF queue.len = EffectiveCapacity THEN Push(DropOldest(queue), frame)
  ELSE Push(queue, frame)

NetworkFrame(layer, packet) ==
  [layer |-> layer, token |-> reinjection.next_token, id |-> packet.id,
   tag |-> packet.tag,
   size |-> RuntimeEventHeaderLen + NetworkPayloadHeaderLen + packet.len]

PlainFrame(layer, tag, payloadLen) ==
  [layer |-> layer, token |-> 0, id |-> 0, tag |-> tag,
   size |-> RuntimeEventHeaderLen + payloadLen]

(* NetworkRuntime::issue_event_into and enqueue_frame: a token, then the   *)
(* frame that carries it.                                                  *)
IssueAndEnqueue(layer, packet) ==
  /\ reinjection' = Issue(reinjection, packet.id)
  /\ queue' = Enqueued(NetworkFrame(layer, packet))
  /\ issued' = [issued EXCEPT ![reinjection.next_token] =
                  [packet_id |-> packet.id, layer |-> layer]]
  /\ Returns("Ok")
  /\ UNCHANGED <<handle, accepted>>

(* A filtered event is no error and leaves nothing. *)
QueueNetworkEvent(layer, packet) ==
  \/ state # "Running" /\ Fails("RecvDisabled")
  \/ /\ state = "Running"
     /\ \/ ~ FilterAllowsNetwork(layer, packet.tag) /\ Ignored
        \/ layer \notin NetworkLayer /\ Fails("UnsupportedLayer")
        \/ /\ layer \in NetworkLayer /\ FilterAllowsNetwork(layer, packet.tag)
           /\ IF NetworkFrame(layer, packet).size > FrameBytes
              THEN Fails("EncodeInto")
              ELSE IssueAndEnqueue(layer, packet)

(* queue_socket_event and queue_flow_event differ in layer and size only:  *)
(* their frames are below FrameBytes, so encoding them does not fail.      *)
QueuePlainEvent(layer, tag, payloadLen) ==
  \/ state # "Running" /\ Fails("RecvDisabled")
  \/ /\ state = "Running"
     /\ \/ ~ FilterAllows(layer, tag) /\ Ignored
        \/ /\ FilterAllows(layer, tag)
           /\ queue' = Enqueued(PlainFrame(layer, tag, payloadLen))
           /\ Returns("Ok")
           /\ UNCHANGED <<handle, reinjection, history>>

QueueSocketEvent(tag) == QueuePlainEvent("Socket", tag, SocketPayloadLen)

QueueFlowEvent(tag) == QueuePlainEvent("Flow", tag, FlowPayloadLen)

-----------------------------------------------------------------------------
(* Calls from the user side.                                               *)

RecvInto_Strict(outputLen) ==
  \/ state # "Running" /\ Fails("RecvDisabled")
  \/ /\ state = "Running"
     /\ \/ queue.len = 0 /\ Fails("QueueEmpty")
        \/ queue.len > 0 /\ Oldest(queue).size >= outputLen /\ Fails("QueueStorage")
        \/ /\ queue.len > 0 /\ Oldest(queue).size < outputLen
           /\ queue' = DropOldest(queue)
           /\ Returns("Ok")
           /\ UNCHANGED <<handle, reinjection, history>>

RecvInto(outputLen) ==
  \/ state # "Running" /\ Fails("RecvDisabled")
  \/ /\ state = "Running"
     /\ \/ queue.len = 0 /\ Fails("QueueEmpty")
        \/ queue.len > 0 /\ Oldest(queue).size > outputLen /\ Fails("QueueStorage")
        \/ /\ queue.len > 0 /\ Oldest(queue).size <= outputLen
           /\ queue' = DropOldest(queue)
           /\ Returns("Ok")
           /\ UNCHANGED <<handle, reinjection, history>>

(* The state checks at the head of send. *)
SendRefused ==
  \/ state \in {"SendShutdown", "Closing", "Closed"} /\ Fails("SendDisabled")
  \/ state = "Opening" /\ Fails("InvalidState")

SendAllowed == state \in {"Running", "RecvShutdown"}

Accepts(layer, token) ==
  /\ reinjection' = Consume(reinjection, token)
  /\ accepted' = [accepted EXCEPT ![token] =
                    [packet_id |-> PacketIdOf(reinjection, token), layer |-> layer]]
  /\ Returns("Ok")
  /\ UNCHANGED <<handle, queue, issued>>

SendPacket_ConsumeBeforeCopy(layer, token, len) ==
  /\ SendAllowed /\ layer \in NetworkLayer /\ HoldsToken(reinjection, token)
  /\ IF len <= AcceptedPacketBytes
     THEN Accepts(layer, token)
     ELSE /\ reinjection' = Consume(reinjection, token)
          /\ Returns("PacketBuffer")
          /\ UNCHANGED <<handle, queue, history>>

(* send with a request that decodes to this layer, token and length:       *)
(* accept_send checks the layer, copies the packet, and only then consumes *)
(* the token.                                                              *)
SendPacket(layer, token, len) ==
  \/ SendRefused
  \/ /\ SendAllowed
     /\ \/ layer \notin NetworkLayer /\ Fails("UnsupportedLayer")
        \/ layer \in NetworkLayer /\ len > AcceptedPacketBytes /\ Fails("PacketBuffer")
        \/ /\ layer \in NetworkLayer /\ len <= AcceptedPacketBytes
           /\ IF HoldsToken(reinjection, token)
              THEN Accepts(layer, token)
              ELSE Fails("UnknownToken")

(* send with bytes decode_runtime_send_request refuses. *)
SendUndecodable ==
  \/ SendRefused
  \/ SendAllowed /\ Fails("DecodeSend")

-----------------------------------------------------------------------------
(* Shutting down.                                                          *)

Advance(from, to) ==
  /\ state = from
  /\ state' = to
  /\ Returns("Ok")
  /\ UNCHANGED <<queue_capacity, reinjection, history>>

ShutdownRecv ==
  \/ state # "Running" /\ Fails("InvalidState")
  \/ /\ Advance("Running", "RecvShutdown")
     /\ UNCHANGED <<open_request, filter_engine, queue>>

ShutdownSend ==
  \/ state # "RecvShutdown" /\ Fails("InvalidState")
  \/ /\ Advance("RecvShutdown", "SendShutdown")
     /\ UNCHANGED <<open_request, filter_engine, queue>>

Close_QueueKept ==
  /\ Advance("SendShutdown", "Closed")
  /\ open_request' = NoRequest
  /\ filter_engine' = NoEngine
  /\ UNCHANGED queue

(* close passes through Closing to Closed in one call. *)
Close ==
  \/ state # "SendShutdown" /\ Fails("InvalidState")
  \/ /\ Advance("SendShutdown", "Closed")
     /\ open_request' = NoRequest
     /\ filter_engine' = NoEngine
     /\ queue' = Clear(queue)

-----------------------------------------------------------------------------
CallsButCapture ==
  \/ Open
  \/ \E request \in Requests : OpenWithRequest(request)
  \/ \E tag \in Tags : QueueSocketEvent(tag)
  \/ \E tag \in Tags : QueueFlowEvent(tag)
  \/ \E outputLen \in OutputLens : RecvInto(outputLen)
  \/ \E layer \in SendLayers, token \in Token, len \in SendLens : SendPacket(layer, token, len)
  \/ SendUndecodable
  \/ ShutdownRecv
  \/ ShutdownSend
  \/ Close

Next ==
  \/ CallsButCapture
  \/ \E layer \in CaptureLayers, packet \in Packets : QueueNetworkEvent(layer, packet)

Spec == Init /\ [][Next]_vars

-----------------------------------------------------------------------------
(* Properties.                                                             *)

(* The token counter is below u64::MAX: a device that has issued fewer     *)
(* than 2^64 - 1 tokens.  At the ceiling tokens repeat.                    *)
Unsaturated == reinjection.next_token < MaxToken

(* A packet waiting in the queue can still be reinjected: however frames   *)
(* of other layers are mixed in, whatever was dropped, received or sent,   *)
(* its token is in the table for its own packet unless it was already      *)
(* used (queue of 32 frames, runtime_device.rs:197-208, against a table of *)
(* 256 that overwrites blindly, wd-kmdf-core lib.rs:128-138).              *)
QueuedTokensRedeemable ==
  Unsaturated =>
    \A k \in 1 .. queue.len :
      LET frame == Contents(queue)[k]
      IN  (frame.layer \in NetworkLayer /\ frame.token \notin spent) =>
            [token |-> frame.token, packet_id |-> frame.id] \in Live(reinjection)

(* The table forgets by age only: of the last TableSlots tokens, each one  *)
(* that was not used is held, for the packet it was issued for; no older   *)
(* one is (lib.rs:128-152).                                                *)
TokenWindow ==
  Unsaturated =>
    LET recent == {t \in Token : /\ t < reinjection.next_token
                                 /\ reinjection.next_token - t <= TableSlots}
    IN  Live(reinjection) =
          {[token |-> t, packet_id |-> issued[t].packet_id] : t \in recent \ spent}

(* A token works once: one that send has accepted is never held again, not *)
(* even after the write index has come round to its slot.                  *)
TokensAreOneShot ==
  Unsaturated => \A t \in spent : ~ HoldsToken(reinjection, t)

(* What send accepts is the packet the token was issued for, whichever     *)
(* slots other packets have taken since (network_runtime.rs:70-87).        *)
AcceptedPacketIsTheOneIssued ==
  Unsaturated => \A t \in spent : accepted[t].packet_id = issued[t].packet_id

(* Delivery follows capture: the tokens of the queued packets increase,    *)
(* and a frame about to be received is never younger than one behind it.   *)
QueueInTokenOrder ==
  Unsaturated =>
    \A j, k \in 1 .. queue.len :
      LET older == Contents(queue)[j]
          newer == Contents(queue)[k]
      IN  (j < k /\ older.token # 0 /\ newer.token # 0) => older.token < newer.token

(* A handle opened with a filter never delivers an event of another layer  *)
(* or one the filter rejects, whichever of the three queue_* calls brought *)
(* it (runtime_device.rs:62-127, 181-195).                                 *)
QueueHoldsOnlyMatches ==
  (open_request.ir = "program") =>
    \A k \in 1 .. queue.len :
      /\ Contents(queue)[k].layer = open_request.layer
      /\ Contents(queue)[k].tag \in open_request.accepts

(* A call that reports an error has changed nothing: no token is spent or  *)
(* burnt, no frame lost, the lifecycle has not moved, so that the caller   *)
(* can try again with better arguments.                                    *)
FailureChangesNothing ==
  [][ reply' # "Ok" => UNCHANGED <<device, history>> ]_vars

(* close requires the receive and the send side shut down first, and       *)
(* leaves no frame, request or filter behind (runtime_device.rs:165-171).  *)
ClosedHandleIsEmpty ==
  state = "Closed" =>
    /\ queue.len = 0
    /\ \A i \in Slot : queue.slots[i] = Vacant
    /\ open_request = NoRequest /\ filter_engine = NoEngine

-----------------------------------------------------------------------------
(* The handle keeps its contract as long as the token counter does not     *)
(* saturate.                                                               *)

UnsaturatedNext ==
  \/ CallsButCapture
  \/ \E layer \in CaptureLayers, packet \in Packets :
       QueueNetworkEvent(layer, packet) /\ Unsaturated'

UnsaturatedSpec == Init /\ [][UnsaturatedNext]_vars

OfferedFrames ==
  {[layer |-> layer, token |-> t, id |-> p.id, tag |-> p.tag,
    size |-> RuntimeEventHeaderLen + NetworkPayloadHeaderLen + p.len] :
      layer \in NetworkLayer, t \in Token, p \in Packets}
  \cup {PlainFrame("Socket", tag, SocketPayloadLen) : tag \in Tags}
  \cup {PlainFrame("Flow", tag, FlowPayloadLen) : tag \in Tags}

Promise == INSTANCE DeviceContract
             WITH Frames     <- OfferedFrames,
                  MaxBacklog <- RingSlots,
                  Window     <- TableSlots,
                  phase      <- state,
                  capacity   <- queue_capacity,
                  backlog    <- Contents(queue),
                  pending    <- Live(reinjection),
                  next       <- reinjection.next_token

(* Ring, drop-oldest rule and token slots together are the contract: FIFO  *)
(* delivery, loss of the oldest frame only, one redemption per capture     *)
(* within the window.                                                      *)
KeepsContract == Promise!Contract

-----------------------------------------------------------------------------
(* Statements of the documents and tests that the code does not keep.      *)

(* "On close(), the driver drains and releases ... pending reinjection     *)
(* state" (rewrite-design.md:242-244).                                     *)
ClosedHandleHoldsNoToken == state = "Closed" => Live(reinjection) = {}

(* "Driver reinjects the packet through the correct path" after it has     *)
(* validated "layer eligibility" (rewrite-design.md:228-233): a packet     *)
(* captured on one network layer is reinjected on that layer.              *)
ReinjectedOnItsLayer == \A t \in spent : accepted[t].layer = issued[t].layer

=============================================================================
