------------------------ MODULE RuntimeDeviceProofs -------------------------
(***************************************************************************)
(* The runtime handle, for every number of queue and token slots with the  *)
(* queue the smaller, every set of packets, requests and buffer lengths,   *)
(* and every requested capacity.                                           *)
(*                                                                         *)
(* The argument for the tokens: a frame in the queue is at most as many    *)
(* captures old as there are frames from it to the end, whatever was       *)
(* dropped or delivered before it; the queue is no longer than the token   *)
(* table, and the table keeps a token for as many captures as it has       *)
(* slots.                                                                  *)
(***************************************************************************)
EXTENDS RuntimeDevice, ByteRingProofs, ReinjectionTableProofs

Ids == [t \in Token |-> issued[t].packet_id]

-----------------------------------------------------------------------------
(* The inductive invariant.                                                *)

QueueKept ==
  /\ NoStaleSlot(queue)
  /\ queue.len <= EffectiveCapacity

AllMatch(frames, request) ==
  \A k \in 1 .. Len(frames) :
    frames[k].layer = request.layer /\ frames[k].tag \in request.accepts

(* Nothing is queued before the handle has its filter, and the filter is   *)
(* the one of the request while there is a request.                        *)
FilterKept ==
  /\ state = "Opening" => queue.len = 0 /\ open_request = NoRequest
  /\ open_request.ir = "program" =>
       /\ filter_engine = [layer |-> open_request.layer, accepts |-> open_request.accepts]
       /\ AllMatch(Contents(queue), open_request)

(* The frame k-th from the end was among the last k captures. *)
FrameAges(frames, next, ids) ==
  \A k \in 1 .. Len(frames) :
    IF frames[k].layer \in NetworkLayer
    THEN /\ frames[k].token \in Token
         /\ next - frames[k].token \in 1 .. Len(frames) - k + 1
         /\ frames[k].id = ids[frames[k].token]
    ELSE frames[k].token = 0

InOrder(frames) ==
  \A j, k \in 1 .. Len(frames) :
    (j < k /\ frames[j].token # 0 /\ frames[k].token # 0) => frames[j].token < frames[k].token

TokensKept ==
  Unsaturated =>
    /\ TableInv(reinjection, Ids, spent)
    /\ FrameAges(Contents(queue), reinjection.next_token, Ids)
    /\ InOrder(Contents(queue))
    /\ \A t \in spent : accepted[t].packet_id = issued[t].packet_id

DeviceInv == TypeOK /\ QueueKept /\ FilterKept /\ ClosedHandleIsEmpty /\ TokensKept

-----------------------------------------------------------------------------
(* What a call can do to the handle.  Every action is one of these.        *)

Quiet == reply' \in Results /\ UNCHANGED <<device, history>>

Refused == Quiet /\ reply' # "Ok"

Opens ==
  /\ state = "Opening" /\ state' = "Running"
  /\ \/ open_request' = NoRequest /\ filter_engine' = NoEngine
     \/ \E request \in Requests :
          open_request' = request /\ filter_engine' = CompiledFilter(request)
  /\ Returns("Ok")
  /\ UNCHANGED <<queue_capacity, queue, reinjection, history>>

Issues(layer, packet) ==
  /\ state = "Running" /\ FilterAllows(layer, packet.tag)
  /\ IssueAndEnqueue(layer, packet)

Notes(frame) ==
  /\ state = "Running" /\ FilterAllows(frame.layer, frame.tag)
  /\ queue' = Enqueued(frame)
  /\ Returns("Ok")
  /\ UNCHANGED <<handle, reinjection, history>>

Delivers ==
  /\ state = "Running" /\ queue.len > 0
  /\ queue' = DropOldest(queue)
  /\ Returns("Ok")
  /\ UNCHANGED <<handle, reinjection, history>>

Moves ==
  /\ \/ state = "Running" /\ state' = "RecvShutdown"
     \/ state = "RecvShutdown" /\ state' = "SendShutdown"
  /\ Returns("Ok")
  /\ UNCHANGED <<open_request, filter_engine, queue_capacity, queue, reinjection, history>>

Closes ==
  /\ state = "SendShutdown" /\ state' = "Closed"
  /\ open_request' = NoRequest /\ filter_engine' = NoEngine
  /\ queue' = Clear(queue)
  /\ Returns("Ok")
  /\ UNCHANGED <<queue_capacity, reinjection, history>>

PlainFrames ==
  {PlainFrame("Socket", tag, SocketPayloadLen) : tag \in Tags}
  \cup {PlainFrame("Flow", tag, FlowPayloadLen) : tag \in Tags}

Redeems(layer, token) ==
  /\ SendAllowed /\ HoldsToken(reinjection, token)
  /\ Accepts(layer, token)

CallKinds ==
  \/ Quiet
  \/ Opens
  \/ \E frame \in PlainFrames : Notes(frame)
  \/ Delivers
  \/ \E layer \in NetworkLayer, token \in Token : Redeems(layer, token)
  \/ Moves
  \/ Closes

StepKinds ==
  \/ CallKinds
  \/ \E layer \in NetworkLayer, packet \in Packets : Issues(layer, packet)

LEMMA FailsIsRefused ==
  ASSUME NEW error \in Results \ {"Ok"}, Fails(error)
  PROVE  Refused
  BY DEF Fails, Refused, Quiet, Returns

LEMMA IgnoredIsQuiet == Ignored => Quiet
  BY DEF Ignored, Quiet, Returns, Results

(* The actions with parameters, one by one, whatever the parameters.       *)

LEMMA OpenKind ==
  ASSUME NEW request \in Requests, OpenWithRequest(request)
  PROVE  Refused \/ Opens
  BY FailsIsRefused DEF OpenWithRequest, Opens, Results

LEMMA CaptureKind ==
  ASSUME NEW layer, NEW packet \in Packets, QueueNetworkEvent(layer, packet)
  PROVE  Refused \/ Ignored \/ (layer \in NetworkLayer /\ Issues(layer, packet))
  <1>1. CASE \E error \in Results \ {"Ok"} : Fails(error)
    BY <1>1, FailsIsRefused
  <1>2. CASE Ignored
    BY <1>2
  <1>3. CASE /\ state = "Running" /\ layer \in NetworkLayer
             /\ FilterAllowsNetwork(layer, packet.tag) /\ IssueAndEnqueue(layer, packet)
    BY <1>3 DEF FilterAllowsNetwork, Issues
  <1> QED
    BY <1>1, <1>2, <1>3 DEF QueueNetworkEvent, Results

LEMMA PlainKind ==
  ASSUME NEW tag \in Tags, QueueSocketEvent(tag) \/ QueueFlowEvent(tag)
  PROVE  Refused \/ Ignored \/ \E frame \in PlainFrames : Notes(frame)
  <1>1. PICK frame \in PlainFrames :
          \/ Fails("RecvDisabled")
          \/ Ignored
          \/ Notes(frame)
    BY DEF QueueSocketEvent, QueueFlowEvent, QueuePlainEvent, PlainFrames, Notes, PlainFrame
  <1> QED
    BY <1>1, FailsIsRefused DEF Results

LEMMA RecvKind ==
  ASSUME NEW outputLen, RecvInto(outputLen)
  PROVE  Refused \/ Delivers
  BY FailsIsRefused DEF RecvInto, Delivers, Results

LEMMA SendKind ==
  ASSUME NEW layer, NEW token, NEW len, SendPacket(layer, token, len)
  PROVE  Refused \/ (layer \in NetworkLayer /\ Redeems(layer, token))
  BY FailsIsRefused DEF SendPacket, SendRefused, Redeems, Results

LEMMA UndecodableKind == SendUndecodable => Refused
  BY FailsIsRefused DEF SendUndecodable, SendRefused, Results

LEMMA CallsAreCallKinds == CallsButCapture => CallKinds
  <1> SUFFICES ASSUME CallsButCapture PROVE CallKinds
    OBVIOUS
  <1> USE FailsIsRefused, IgnoredIsQuiet DEF Results, CallKinds, Refused
  <1>1. CASE Open
    BY <1>1 DEF Open, Opens
  <1>2. ASSUME NEW request \in Requests, OpenWithRequest(request)
        PROVE  CallKinds
    BY <1>2, OpenKind
  <1>3. ASSUME NEW tag \in Tags, QueueSocketEvent(tag) \/ QueueFlowEvent(tag)
        PROVE  CallKinds
    BY <1>3, PlainKind
  <1>4. ASSUME NEW outputLen \in OutputLens, RecvInto(outputLen)
        PROVE  CallKinds
    BY <1>4, RecvKind
  <1>5. ASSUME NEW layer \in SendLayers, NEW token \in Token, NEW len \in SendLens,
               SendPacket(layer, token, len)
        PROVE  CallKinds
    BY <1>5, SendKind
  <1>6. CASE SendUndecodable
    BY <1>6, UndecodableKind
  <1>7. CASE ShutdownRecv \/ ShutdownSend
    BY <1>7 DEF ShutdownRecv, ShutdownSend, Advance, Moves
  <1>8. CASE Close
    BY <1>8 DEF Close, Advance, Closes
  <1> QED
    BY <1>1, <1>2, <1>3, <1>4, <1>5, <1>6, <1>7, <1>8 DEF CallsButCapture

LEMMA NextIsStepKinds == Next => StepKinds
  BY CallsAreCallKinds, CaptureKind, IgnoredIsQuiet DEF Next, StepKinds, CallKinds, Refused

-----------------------------------------------------------------------------
(* Frames and queues.                                                      *)

(* No frame is Vacant: every frame has at least its header.                *)

LEMMA PlainFrameIsFrame ==
  ASSUME NEW frame \in PlainFrames
  PROVE  /\ frame \in Frame /\ frame # Vacant
         /\ frame.layer \in Layer \ NetworkLayer /\ frame.token = 0
  BY DEF PlainFrames, PlainFrame, Frame, Vacant, Layer, NetworkLayer, Token,
         RuntimeEventHeaderLen, SocketPayloadLen, FlowPayloadLen

LEMMA NetworkFrameIsFrame ==
  ASSUME NEW layer \in NetworkLayer, NEW packet \in Packets, reinjection \in Tables(PacketIds)
  PROVE  /\ NetworkFrame(layer, packet) \in Frame
         /\ NetworkFrame(layer, packet) # Vacant
         /\ NetworkFrame(layer, packet).layer = layer
         /\ NetworkFrame(layer, packet).token = reinjection.next_token
         /\ NetworkFrame(layer, packet).id = packet.id
         /\ NetworkFrame(layer, packet).tag = packet.tag
         /\ reinjection.next_token \in Token /\ packet.id \in PacketIds \ {0}
  <1>1. /\ packet.id \in PacketIds /\ packet.len \in Nat /\ packet.tag \in Tags
        /\ layer \in Layer /\ 0 \notin PacketIds
    BY DeviceAssumption DEF Packet, Layer, NetworkLayer
  <1>2. reinjection.next_token \in Token
    BY DEF Tables
  <1>3. 16 + 16 + packet.len \in Nat /\ 16 + 16 + packet.len # 0
    BY <1>1
  <1> QED
    BY <1>1, <1>2, <1>3
       DEF NetworkFrame, Frame, Vacant, RuntimeEventHeaderLen, NetworkPayloadHeaderLen

(* The frames in the queue are frames. *)
LEMMA QueuedFrames ==
  ASSUME queue \in Rings(Frame), NoStaleSlot(queue)
  PROVE  Contents(queue) \in Seq(Frame) /\ Len(Contents(queue)) = queue.len
  <1>1. /\ Contents(queue) \in Seq(Frame \cup {Vacant}) /\ Len(Contents(queue)) = queue.len
        /\ \A k \in 1 .. queue.len : Contents(queue)[k] = queue.slots[SlotAt(queue, k - 1)]
    BY ContentsType
  <1>2. ASSUME NEW k \in 1 .. queue.len
        PROVE  Contents(queue)[k] \in Frame
    <2> DEFINE j == k - 1
    <2>1. queue.len \in 0 .. RingSlots
      BY RingAssumption DEF Rings
    <2>2. j \in 0 .. queue.len - 1 /\ j \in 0 .. RingSlots
      BY <2>1, RingAssumption
    <2> HIDE DEF j
    <2>3. SlotAt(queue, j) \in Slot
      BY <2>2, SlotAtLinear DEF Rings
    <2>4. queue.slots[SlotAt(queue, j)] # Vacant
      BY <2>2, <2>3 DEF NoStaleSlot
    <2>5. queue.slots[SlotAt(queue, j)] \in Frame \cup {Vacant}
      BY <2>3 DEF Rings
    <2> QED
      BY <1>1, <2>4, <2>5 DEF j
  <1> QED
    BY <1>1, <1>2

(* enqueue_frame: the frame is last, possibly at the cost of the first, or *)
(* the queue is one that never holds anything.                             *)
LEMMA EnqueuedIs ==
  ASSUME queue \in Rings(Frame), QueueKept, queue_capacity \in Nat,
         NEW frame \in Frame, frame # Vacant
  PROVE  /\ Enqueued(frame) \in Rings(Frame)
         /\ NoStaleSlot(Enqueued(frame))
         /\ Enqueued(frame).len <= EffectiveCapacity
         /\ \/ queue_capacity = 0 /\ Contents(queue) = <<>> /\ Enqueued(frame) = queue
            \/ /\ queue_capacity # 0 /\ queue.len < EffectiveCapacity
               /\ Contents(Enqueued(frame)) = Append(Contents(queue), frame)
            \/ /\ queue_capacity # 0 /\ queue.len = EffectiveCapacity /\ Contents(queue) # <<>>
               /\ Contents(Enqueued(frame)) = Append(Tail(Contents(queue)), frame)
  <1>1. queue.len \in 0 .. RingSlots /\ RingSlots \in Nat \ {0}
    BY RingAssumption DEF Rings
  <1>2. /\ EffectiveCapacity \in 0 .. RingSlots
        /\ queue_capacity = 0 <=> EffectiveCapacity = 0
        /\ queue.len <= EffectiveCapacity
    BY <1>1 DEF EffectiveCapacity, QueueKept
  <1>3. NoStaleSlot(queue)
    BY DEF QueueKept
  <1>4. CASE queue_capacity = 0
    <2>1. queue.len = 0 /\ Enqueued(frame) = queue
      BY <1>1, <1>2, <1>4 DEF Enqueued
    <2>2. Contents(queue) = <<>>
      BY <2>1 DEF Contents
    <2> QED
      BY <1>2, <1>3, <1>4, <2>1, <2>2
  <1>5. CASE queue_capacity # 0 /\ queue.len = EffectiveCapacity
    <2> DEFINE emptied == DropOldest(queue)
    <2>1. queue.len > 0
      BY <1>1, <1>2, <1>5
    <2>2. /\ emptied \in Rings(Frame) /\ NoStaleSlot(emptied)
          /\ emptied.len = queue.len - 1
          /\ Contents(queue) # <<>> /\ Contents(emptied) = Tail(Contents(queue))
      BY <1>3, <2>1, DropOldestIsTail, DropOldestKeepsNoStaleSlot
    <2>3. emptied.len < RingSlots /\ emptied.len + 1 <= EffectiveCapacity
      BY <1>1, <1>2, <1>5, <2>2
    <2>4. Enqueued(frame) = Push(emptied, frame)
      BY <1>5 DEF Enqueued
    <2>5. /\ Push(emptied, frame) \in Rings(Frame)
          /\ Push(emptied, frame).len = emptied.len + 1
          /\ Contents(Push(emptied, frame)) = Append(Contents(emptied), frame)
      BY <2>2, <2>3, PushAppends
    <2>6. NoStaleSlot(Push(emptied, frame))
      BY <2>2, <2>3, PushKeepsNoStaleSlot
    <2> QED
      BY <1>5, <2>2, <2>3, <2>4, <2>5, <2>6
  <1>6. CASE queue_capacity # 0 /\ queue.len # EffectiveCapacity
    <2>1. queue.len < RingSlots /\ queue.len + 1 <= EffectiveCapacity /\ queue.len < EffectiveCapacity
      BY <1>1, <1>2, <1>6
    <2>2. Enqueued(frame) = Push(queue, frame)
      BY <1>6 DEF Enqueued
    <2>3. /\ Push(queue, frame) \in Rings(Frame)
          /\ Push(queue, frame).len = queue.len + 1
          /\ Contents(Push(queue, frame)) = Append(Contents(queue), frame)
      BY <2>1, PushAppends
    <2>4. NoStaleSlot(Push(queue, frame))
      BY <1>3, <2>1, PushKeepsNoStaleSlot
    <2> QED
      BY <1>6, <2>1, <2>2, <2>3, <2>4
  <1> QED
    BY <1>4, <1>5, <1>6

-----------------------------------------------------------------------------
(* The statements about sequences of frames survive a tail and an append.  *)

LEMMA TailKeeps ==
  ASSUME NEW frames \in Seq(Frame), frames # <<>>, NEW next \in Int, NEW ids, NEW request
  PROVE  /\ AllMatch(frames, request) => AllMatch(Tail(frames), request)
         /\ FrameAges(frames, next, ids) => FrameAges(Tail(frames), next, ids)
         /\ InOrder(frames) => InOrder(Tail(frames))
  <1> DEFINE rest == Tail(frames)
  <1>1. /\ Len(rest) = Len(frames) - 1 /\ Len(frames) \in Nat \ {0}
        /\ \A k \in 1 .. Len(rest) : rest[k] = frames[k + 1] /\ k + 1 \in 1 .. Len(frames)
    OBVIOUS
  <1> HIDE DEF rest
  <1>2. AllMatch(frames, request) => AllMatch(rest, request)
    BY <1>1 DEF AllMatch
  <1>3. ASSUME FrameAges(frames, next, ids)
        PROVE  FrameAges(rest, next, ids)
    <2> SUFFICES ASSUME NEW k \in 1 .. Len(rest)
                 PROVE  IF rest[k].layer \in NetworkLayer
                        THEN /\ rest[k].token \in Token
                             /\ next - rest[k].token \in 1 .. Len(rest) - k + 1
                             /\ rest[k].id = ids[rest[k].token]
                        ELSE rest[k].token = 0
      BY DEF FrameAges
    <2> DEFINE j == k + 1
    <2>1. j \in 1 .. Len(frames) /\ rest[k] = frames[j] /\ Len(frames) - j + 1 = Len(rest) - k + 1
      BY <1>1
    <2> HIDE DEF j
    <2> QED
      BY <1>3, <2>1 DEF FrameAges
  <1>4. InOrder(frames) => InOrder(rest)
    BY <1>1 DEF InOrder
  <1> QED
    BY <1>2, <1>3, <1>4 DEF rest

LEMMA AppendPlainKeeps ==
  ASSUME NEW frames \in Seq(Frame), NEW next \in Int, NEW ids,
         NEW frame \in Frame, frame.layer \notin NetworkLayer, frame.token = 0
  PROVE  /\ FrameAges(frames, next, ids) => FrameAges(Append(frames, frame), next, ids)
         /\ InOrder(frames) => InOrder(Append(frames, frame))
  <1> DEFINE more == Append(frames, frame)
  <1>1. /\ Len(more) = Len(frames) + 1 /\ Len(frames) \in Nat
        /\ \A k \in 1 .. Len(frames) : more[k] = frames[k]
        /\ more[Len(more)] = frame
    OBVIOUS
  <1> HIDE DEF more
  <1>2. ASSUME FrameAges(frames, next, ids), NEW k \in 1 .. Len(more)
        PROVE  IF more[k].layer \in NetworkLayer
               THEN /\ more[k].token \in Token
                    /\ next - more[k].token \in 1 .. Len(more) - k + 1
                    /\ more[k].id = ids[more[k].token]
               ELSE more[k].token = 0
    <2>1. CASE k = Len(more)
      BY <1>1, <2>1
    <2>2. CASE k \in 1 .. Len(frames)
      <3>1. \A x \in Int : x \in 1 .. Len(frames) - k + 1 => x \in 1 .. Len(more) - k + 1
        BY <1>1
      <3>2. more[k].token \in Token => next - more[k].token \in Int
        BY DEF Token
      <3> QED
        BY <1>1, <1>2, <2>2, <3>1, <3>2 DEF FrameAges
    <2> QED
      BY <1>1, <2>1, <2>2
  <1>3. ASSUME InOrder(frames), NEW j \in 1 .. Len(more), NEW k \in 1 .. Len(more),
               j < k, more[j].token # 0, more[k].token # 0
        PROVE  more[j].token < more[k].token
    <2>1. k # Len(more)
      BY <1>1, <1>3
    <2>2. k \in 1 .. Len(frames) /\ j \in 1 .. Len(frames)
      BY <1>1, <1>3, <2>1
    <2> QED
      BY <1>1, <1>3, <2>2 DEF InOrder
  <1> QED
    BY <1>2, <1>3 DEF FrameAges, InOrder, more

(* A capture ages every frame by one, and its own is the youngest. *)
LEMMA AppendIssuedKeeps ==
  ASSUME NEW frames \in Seq(Frame), NEW next \in Token, NEW ids \in [Token -> PacketIds \cup {0}],
         NEW frame \in Frame, frame.layer \in NetworkLayer, frame.token = next,
         frame.id \in PacketIds, FrameAges(frames, next, ids)
  PROVE  /\ FrameAges(Append(frames, frame), next + 1, [ids EXCEPT ![next] = frame.id])
         /\ InOrder(frames) => InOrder(Append(frames, frame))
  <1> DEFINE more == Append(frames, frame)
             ids2 == [ids EXCEPT ![next] = frame.id]
  <1>1. /\ Len(more) = Len(frames) + 1 /\ Len(frames) \in Nat
        /\ \A k \in 1 .. Len(frames) : more[k] = frames[k]
        /\ more[Len(more)] = frame
    OBVIOUS
  <1>2. /\ \A t \in Token : t # next => ids2[t] = ids[t]
        /\ ids2[next] = frame.id
        /\ next \in Int /\ Token \subseteq Int
    BY DEF Token
  <1> HIDE DEF more, ids2
  <1>3. \A k \in 1 .. Len(frames) :
          IF frames[k].layer \in NetworkLayer
          THEN /\ frames[k].token \in Token
               /\ next - frames[k].token \in 1 .. Len(frames) - k + 1
               /\ frames[k].id = ids[frames[k].token]
          ELSE frames[k].token = 0
    BY DEF FrameAges
  <1>4. ASSUME NEW k \in 1 .. Len(more)
        PROVE  IF more[k].layer \in NetworkLayer
               THEN /\ more[k].token \in Token
                    /\ (next + 1) - more[k].token \in 1 .. Len(more) - k + 1
                    /\ more[k].id = ids2[more[k].token]
               ELSE more[k].token = 0
    <2>1. CASE k = Len(more)
      <3>1. (next + 1) - next \in 1 .. Len(more) - k + 1
        BY <1>1, <1>2, <2>1
      <3> QED
        BY <1>1, <1>2, <2>1, <3>1
    <2>2. CASE k \in 1 .. Len(frames) /\ frames[k].layer \in NetworkLayer
      <3> DEFINE t == frames[k].token
      <3>1. t \in Token /\ next - t \in 1 .. Len(frames) - k + 1 /\ frames[k].id = ids[t]
        BY <1>3, <2>2
      <3> HIDE DEF t
      <3>2. t # next /\ (next + 1) - t \in 1 .. Len(more) - k + 1
        BY <1>1, <1>2, <2>2, <3>1
      <3> QED
        BY <1>1, <1>2, <2>2, <3>1, <3>2 DEF t
    <2>3. CASE k \in 1 .. Len(frames) /\ frames[k].layer \notin NetworkLayer
      BY <1>1, <1>3, <2>3
    <2> QED
      BY <1>1, <2>1, <2>2, <2>3
  <1>5. ASSUME InOrder(frames), NEW j \in 1 .. Len(more), NEW k \in 1 .. Len(more),
               j < k, more[j].token # 0, more[k].token # 0
        PROVE  more[j].token < more[k].token
    <2>1. j \in 1 .. Len(frames) /\ more[j] = frames[j]
      BY <1>1, <1>5
    <2>2. CASE k = Len(more)
      <3> DEFINE t == frames[j].token
      <3>1. t \in Token /\ next - t \in 1 .. Len(frames) - j + 1
        BY <1>3, <1>5, <2>1
      <3> HIDE DEF t
      <3>2. t < next
        BY <1>1, <1>2, <2>1, <3>1
      <3> QED
        BY <1>1, <2>1, <2>2, <3>2 DEF t
    <2>3. CASE k # Len(more)
      <3>1. k \in 1 .. Len(frames)
        BY <1>1, <2>3
      <3> QED
        BY <1>1, <1>5, <2>1, <3>1 DEF InOrder
    <2> QED
      BY <2>2, <2>3
  <1> QED
    BY <1>4, <1>5 DEF FrameAges, InOrder, more, ids2

LEMMA AppendMatches ==
  ASSUME NEW frames \in Seq(Frame), NEW frame \in Frame, NEW request,
         AllMatch(frames, request), frame.layer = request.layer, frame.tag \in request.accepts
  PROVE  AllMatch(Append(frames, frame), request)
  <1>1. /\ Len(Append(frames, frame)) = Len(frames) + 1 /\ Len(frames) \in Nat
        /\ \A k \in 1 .. Len(frames) : Append(frames, frame)[k] = frames[k]
        /\ Append(frames, frame)[Len(frames) + 1] = frame
    OBVIOUS
  <1> QED
    BY <1>1 DEF AllMatch

-----------------------------------------------------------------------------
(* The invariant holds at the start and is kept by every kind of step.     *)

LEMMA DeviceInvInit == Init => DeviceInv
  <1> SUFFICES ASSUME Init PROVE DeviceInv
    OBVIOUS
  <1> USE DEF Init
  <1>1. NewRing \in Rings(Frame) /\ Contents(queue) = <<>>
    BY NewRingProperties
  <1>2. reinjection \in Tables(PacketIds)
    <2>1. NewTable \in Tables(PacketIds)
      BY TableAssumption DEF NewTable, Tables, Token, TableSlot
    <2> QED
      BY <2>1
  <1>3. TypeOK
    BY <1>1, <1>2 DEF TypeOK, HandleState, Results
  <1>4. QueueKept
    <2>1. queue_capacity \in Nat /\ RingSlots \in Nat /\ queue.len = 0
      BY DeviceAssumption, RingAssumption DEF NewRing
    <2>2. NoStaleSlot(queue)
      BY DEF NewRing, NoStaleSlot
    <2> QED
      BY <2>1, <2>2 DEF QueueKept, EffectiveCapacity
  <1>5. FilterKept
    BY DEF FilterKept, NoRequest, NewRing
  <1>6. spent = {}
    BY DEF spent
  <1>7. TokensKept
    BY <1>1, <1>6, NewTableInv DEF TokensKept, FrameAges, InOrder
  <1> QED
    BY <1>3, <1>4, <1>5, <1>7 DEF DeviceInv, ClosedHandleIsEmpty

(* What the invariant says of the parts a step reads. *)
LEMMA DeviceFacts ==
  ASSUME DeviceInv
  PROVE  /\ queue \in Rings(Frame) /\ NoStaleSlot(queue)
         /\ Contents(queue) \in Seq(Frame) /\ Len(Contents(queue)) = queue.len
         /\ queue_capacity \in Nat
         /\ reinjection \in Tables(PacketIds) /\ reinjection.next_token \in Token
         /\ reinjection.next_token \in Int
         /\ Ids \in [Token -> PacketIds \cup {0}]
         /\ spent \in SUBSET Token
  <1>1. TypeOK /\ NoStaleSlot(queue)
    BY DEF DeviceInv, QueueKept
  <1>2. queue \in Rings(Frame) /\ reinjection \in Tables(PacketIds) /\ queue_capacity \in Nat
    BY <1>1, DeviceAssumption DEF TypeOK
  <1>3. \A t \in Token : issued[t].packet_id \in PacketIds \cup {0}
    BY <1>1 DEF TypeOK, Reinjection, NoReinjection
  <1>4. reinjection.next_token \in Token /\ reinjection.next_token \in Int
    BY <1>2 DEF Tables, Token
  <1> QED
    BY <1>1, <1>2, <1>3, <1>4, QueuedFrames DEF Ids, spent

LEMMA QuietKeeps == DeviceInv /\ Quiet => DeviceInv'
  BY DEF DeviceInv, Quiet, device, handle, history, TypeOK, QueueKept, EffectiveCapacity,
         FilterKept, ClosedHandleIsEmpty, TokensKept, Unsaturated, Ids, spent

LEMMA OpensKeeps == DeviceInv /\ Opens => DeviceInv'
  <1> SUFFICES ASSUME DeviceInv, Opens PROVE DeviceInv'
    OBVIOUS
  <1> USE DEF DeviceInv, Opens, history, Returns
  <1>1. TypeOK'
    BY DeviceAssumption
       DEF TypeOK, HandleState, Results, CompiledFilter, Request, Engine
  <1>2. QueueKept' /\ TokensKept'
    BY DEF QueueKept, EffectiveCapacity, TokensKept, Unsaturated, Ids, spent
  <1>3. FilterKept'
    <2>1. Contents(queue)' = <<>>
      BY DEF FilterKept, Contents
    <2>2. \A request : AllMatch(<<>>, request)
      BY DEF AllMatch
    <2>3. ASSUME NEW request \in Requests, request.ir = "program"
          PROVE  CompiledFilter(request) = [layer |-> request.layer, accepts |-> request.accepts]
      BY <2>3 DEF CompiledFilter
    <2> QED
      BY <2>1, <2>2, <2>3 DEF FilterKept, NoRequest
  <1>4. ClosedHandleIsEmpty'
    BY DEF ClosedHandleIsEmpty
  <1> QED
    BY <1>1, <1>2, <1>3, <1>4

LEMMA MovesKeeps == DeviceInv /\ Moves => DeviceInv'
  BY DEF DeviceInv, Moves, history, Returns, TypeOK, HandleState, Results, QueueKept,
         EffectiveCapacity, FilterKept, ClosedHandleIsEmpty, TokensKept, Unsaturated, Ids, spent

LEMMA ClosesKeeps == DeviceInv /\ Closes => DeviceInv'
  <1> SUFFICES ASSUME DeviceInv, Closes PROVE DeviceInv'
    OBVIOUS
  <1> USE DEF Closes, history, Returns
  <1>1. /\ queue' \in Rings(Frame) /\ Contents(queue') = <<>> /\ queue'.len = 0
        /\ NoStaleSlot(queue') /\ \A i \in Slot : queue'.slots[i] = Vacant
    BY DeviceFacts, ClearEmpties, ClearKeepsNoStaleSlot
  <1>2. TypeOK'
    BY <1>1 DEF DeviceInv, TypeOK, HandleState, Results
  <1>3. QueueKept'
    <2>1. queue_capacity \in Nat /\ RingSlots \in Nat
      BY DeviceFacts, RingAssumption
    <2> QED
      BY <1>1, <2>1 DEF QueueKept, EffectiveCapacity
  <1>4. FilterKept' /\ ClosedHandleIsEmpty'
    BY <1>1 DEF FilterKept, NoRequest, ClosedHandleIsEmpty
  <1>5. TokensKept'
    <2>1. \A n, ids : FrameAges(<<>>, n, ids) /\ InOrder(<<>>)
      BY DEF FrameAges, InOrder
    <2> QED
      BY <1>1, <2>1 DEF DeviceInv, TokensKept, Unsaturated, Ids, spent
  <1> QED
    BY <1>2, <1>3, <1>4, <1>5 DEF DeviceInv

LEMMA DeliversKeeps == DeviceInv /\ Delivers => DeviceInv'
  <1> SUFFICES ASSUME DeviceInv, Delivers PROVE DeviceInv'
    OBVIOUS
  <1> USE DEF Delivers, handle, history, Returns
  <1>1. /\ queue' \in Rings(Frame) /\ NoStaleSlot(queue') /\ queue'.len = queue.len - 1
        /\ Contents(queue) # <<>> /\ Contents(queue') = Tail(Contents(queue))
    BY DeviceFacts, DropOldestIsTail, DropOldestKeepsNoStaleSlot
  <1>2. TypeOK'
    BY <1>1 DEF DeviceInv, TypeOK, Results
  <1>3. QueueKept'
    <2>1. queue.len \in Nat /\ queue_capacity \in Nat /\ RingSlots \in Nat
      BY DeviceFacts, RingAssumption DEF Rings
    <2> QED
      BY <1>1, <2>1 DEF DeviceInv, QueueKept, EffectiveCapacity
  <1>4. FilterKept' /\ ClosedHandleIsEmpty'
    BY <1>1, DeviceFacts, TailKeeps DEF DeviceInv, FilterKept, ClosedHandleIsEmpty
  <1>5. TokensKept'
    <2>1. Ids' = Ids /\ spent' = spent /\ reinjection' = reinjection
      BY DEF Ids, spent
    <2> SUFFICES ASSUME Unsaturated
                 PROVE  /\ TableInv(reinjection, Ids, spent)
                        /\ FrameAges(Contents(queue'), reinjection.next_token, Ids)
                        /\ InOrder(Contents(queue'))
                        /\ \A t \in spent : accepted[t].packet_id = issued[t].packet_id
      BY <2>1 DEF TokensKept, Unsaturated
    <2>2. /\ TableInv(reinjection, Ids, spent)
          /\ FrameAges(Contents(queue), reinjection.next_token, Ids)
          /\ InOrder(Contents(queue))
          /\ \A t \in spent : accepted[t].packet_id = issued[t].packet_id
      BY DEF DeviceInv, TokensKept
    <2>3. /\ FrameAges(Tail(Contents(queue)), reinjection.next_token, Ids)
          /\ InOrder(Tail(Contents(queue)))
      BY <1>1, <2>2, DeviceFacts, TailKeeps
    <2> QED
      BY <1>1, <2>2, <2>3
  <1> QED
    BY <1>2, <1>3, <1>4, <1>5 DEF DeviceInv


(* A frame that gets past the filter keeps the queue's frames matching. *)
LEMMA EnqueuedMatches ==
  ASSUME DeviceInv, NEW frame \in Frame, frame # Vacant, state = "Running",
         FilterAllows(frame.layer, frame.tag), open_request.ir = "program"
  PROVE  AllMatch(Contents(Enqueued(frame)), open_request)
  <1>1. AllMatch(Contents(queue), open_request)
    BY DEF DeviceInv, FilterKept
  <1>2. frame.layer = open_request.layer /\ frame.tag \in open_request.accepts
    <2>1. filter_engine = [layer |-> open_request.layer, accepts |-> open_request.accepts]
      BY DEF DeviceInv, FilterKept
    <2>2. open_request \in Request
      BY DEF DeviceInv, TypeOK, NoRequest
    <2>3. open_request.layer # "none"
      BY <2>2 DEF Request, Layer
    <2>4. filter_engine # NoEngine
      BY <2>1, <2>3 DEF NoEngine
    <2> QED
      BY <2>1, <2>4 DEF FilterAllows
  <1>3. /\ Contents(queue) \in Seq(Frame)
        /\ \/ Contents(queue) = <<>> /\ Enqueued(frame) = queue
           \/ Contents(Enqueued(frame)) = Append(Contents(queue), frame)
           \/ /\ Contents(queue) # <<>>
              /\ Contents(Enqueued(frame)) = Append(Tail(Contents(queue)), frame)
    BY DeviceFacts, EnqueuedIs DEF DeviceInv
  <1>4. CASE Contents(queue) # <<>> /\ Contents(Enqueued(frame)) = Append(Tail(Contents(queue)), frame)
    <2>1. Tail(Contents(queue)) \in Seq(Frame)
      BY <1>3, <1>4
    <2>2. AllMatch(Tail(Contents(queue)), open_request)
      BY <1>1, <1>3, <1>4, TailKeeps
    <2> QED
      BY <1>2, <1>4, <2>1, <2>2, AppendMatches
  <1> QED
    BY <1>1, <1>2, <1>3, <1>4, AppendMatches

LEMMA NotesKeeps ==
  ASSUME DeviceInv, NEW frame \in PlainFrames, Notes(frame)
  PROVE  DeviceInv'
  <1> USE DEF Notes, handle, history, Returns
  <1>1. /\ frame \in Frame /\ frame # Vacant
        /\ frame.layer \notin NetworkLayer /\ frame.token = 0
    BY PlainFrameIsFrame
  <1>2. /\ queue' \in Rings(Frame) /\ NoStaleSlot(queue') /\ queue'.len <= EffectiveCapacity
        /\ \/ Contents(queue) = <<>> /\ queue' = queue
           \/ Contents(queue') = Append(Contents(queue), frame)
           \/ /\ Contents(queue) # <<>>
              /\ Contents(queue') = Append(Tail(Contents(queue)), frame)
    BY <1>1, DeviceFacts, EnqueuedIs DEF DeviceInv
  <1>3. TypeOK'
    BY <1>2 DEF DeviceInv, TypeOK, Results
  <1>4. QueueKept'
    BY <1>2 DEF QueueKept, EffectiveCapacity
  <1>5. FilterKept' /\ ClosedHandleIsEmpty'
    <2>1. open_request.ir = "program" => AllMatch(Contents(queue'), open_request)
      BY <1>1, EnqueuedMatches
    <2> QED
      BY <2>1 DEF DeviceInv, FilterKept, ClosedHandleIsEmpty
  <1>6. TokensKept'
    <2>1. Ids' = Ids /\ spent' = spent
      BY DEF Ids, spent
    <2> SUFFICES ASSUME Unsaturated
                 PROVE  /\ TableInv(reinjection, Ids, spent)
                        /\ FrameAges(Contents(queue'), reinjection.next_token, Ids)
                        /\ InOrder(Contents(queue'))
                        /\ \A t \in spent : accepted[t].packet_id = issued[t].packet_id
      BY <2>1 DEF TokensKept, Unsaturated
    <2> DEFINE next == reinjection.next_token
    <2>2. /\ TableInv(reinjection, Ids, spent)
          /\ FrameAges(Contents(queue), next, Ids)
          /\ InOrder(Contents(queue))
          /\ \A t \in spent : accepted[t].packet_id = issued[t].packet_id
      BY DEF DeviceInv, TokensKept
    <2>3. Contents(queue) \in Seq(Frame) /\ next \in Int
      BY DeviceFacts
    <2> HIDE DEF next
    <2>4. CASE Contents(queue) # <<>> /\ Contents(queue') = Append(Tail(Contents(queue)), frame)
      <3>1. Tail(Contents(queue)) \in Seq(Frame)
        BY <2>3, <2>4
      <3>2. FrameAges(Tail(Contents(queue)), next, Ids) /\ InOrder(Tail(Contents(queue)))
        BY <2>2, <2>3, <2>4, TailKeeps
      <3>3. FrameAges(Contents(queue'), next, Ids) /\ InOrder(Contents(queue'))
        BY <1>1, <2>3, <2>4, <3>1, <3>2, AppendPlainKeeps
      <3> QED
        BY <2>2, <3>3 DEF next
    <2>5. CASE Contents(queue') = Append(Contents(queue), frame)
      <3>1. FrameAges(Contents(queue'), next, Ids) /\ InOrder(Contents(queue'))
        BY <1>1, <2>2, <2>3, <2>5, AppendPlainKeeps
      <3> QED
        BY <2>2, <3>1 DEF next
    <2> QED
      BY <1>2, <2>2, <2>4, <2>5 DEF next
  <1> QED
    BY <1>3, <1>4, <1>5, <1>6 DEF DeviceInv

LEMMA IssuesKeeps ==
  ASSUME DeviceInv, NEW layer \in NetworkLayer, NEW packet \in Packets, Issues(layer, packet)
  PROVE  DeviceInv'
  <1> DEFINE frame == NetworkFrame(layer, packet)
             n == reinjection.next_token
  <1>1. /\ frame \in Frame /\ frame # Vacant
        /\ frame.layer = layer /\ frame.token = n /\ frame.id = packet.id /\ frame.tag = packet.tag
        /\ n \in Token /\ packet.id \in PacketIds \ {0}
    BY DeviceFacts, NetworkFrameIsFrame
  <1>2. /\ state = "Running" /\ FilterAllows(frame.layer, frame.tag)
        /\ reinjection' = Issue(reinjection, packet.id)
        /\ queue' = Enqueued(frame)
        /\ issued' = [issued EXCEPT ![n] = [packet_id |-> packet.id, layer |-> layer]]
        /\ reply' = "Ok"
        /\ UNCHANGED <<handle, accepted>>
    BY <1>1 DEF Issues, IssueAndEnqueue, Returns
  <1> HIDE DEF frame, n
  <1>3. /\ queue' \in Rings(Frame) /\ NoStaleSlot(queue') /\ queue'.len <= EffectiveCapacity
        /\ \/ Contents(queue) = <<>> /\ queue' = queue
           \/ Contents(queue') = Append(Contents(queue), frame)
           \/ /\ Contents(queue) # <<>>
              /\ Contents(queue') = Append(Tail(Contents(queue)), frame)
    BY <1>1, <1>2, DeviceFacts, EnqueuedIs DEF DeviceInv
  <1>4. reinjection' \in Tables(PacketIds)
    BY <1>1, <1>2, DeviceFacts, TableTypes
  <1>5. TypeOK'
    <2>1. [packet_id |-> packet.id, layer |-> layer] \in Reinjection
      BY <1>1 DEF Reinjection
    <2>2. issued' \in [Token -> Reinjection \cup {NoReinjection}]
      BY <1>1, <1>2, <2>1 DEF DeviceInv, TypeOK
    <2> QED
      BY <1>2, <1>3, <1>4, <2>2 DEF DeviceInv, TypeOK, Results, handle
  <1>6. QueueKept'
    BY <1>2, <1>3 DEF QueueKept, EffectiveCapacity, handle
  <1>7. FilterKept' /\ ClosedHandleIsEmpty'
    <2>1. open_request.ir = "program" => AllMatch(Contents(queue'), open_request)
      BY <1>1, <1>2, EnqueuedMatches
    <2> QED
      BY <1>2, <2>1 DEF DeviceInv, FilterKept, ClosedHandleIsEmpty, handle
  <1>8. TokensKept'
    <2>1. spent' = spent
      BY <1>2 DEF spent
    <2>2. Ids' = [Ids EXCEPT ![n] = packet.id]
      <3>1. \A t \in Token : issued'[t].packet_id = IF t = n THEN packet.id ELSE issued[t].packet_id
        BY <1>1, <1>2 DEF DeviceInv, TypeOK
      <3> QED
        BY <1>1, <3>1 DEF Ids
    <2> SUFFICES ASSUME Unsaturated'
                 PROVE  /\ TableInv(reinjection', [Ids EXCEPT ![n] = packet.id], spent)
                        /\ FrameAges(Contents(queue'), reinjection'.next_token,
                                     [Ids EXCEPT ![n] = packet.id])
                        /\ InOrder(Contents(queue'))
                        /\ \A t \in spent : accepted[t].packet_id = issued'[t].packet_id
      BY <1>2, <2>1, <2>2 DEF TokensKept
    <2>3. n < MaxToken /\ reinjection'.next_token = n + 1 /\ n \in Int
      BY <1>1, <1>2, TableAssumption DEF Unsaturated, Issue, Token, n
    <2>4. /\ TableInv(reinjection, Ids, spent)
          /\ FrameAges(Contents(queue), n, Ids)
          /\ InOrder(Contents(queue))
          /\ \A t \in spent : accepted[t].packet_id = issued[t].packet_id
      BY <2>3 DEF DeviceInv, TokensKept, Unsaturated, n
    <2>5. /\ Contents(queue) \in Seq(Frame) /\ Ids \in [Token -> PacketIds \cup {0}]
          /\ spent \in SUBSET Token /\ reinjection \in Tables(PacketIds)
      BY DeviceFacts
    <2>6. TableInv(reinjection', [Ids EXCEPT ![n] = packet.id], spent)
      BY <1>1, <1>2, <2>3, <2>4, <2>5, IssueKeepsTableInv DEF n
    <2>7. \A t \in spent : accepted[t].packet_id = issued'[t].packet_id
      <3>1. \A t \in spent : t < n
        BY <2>4 DEF TableInv, UsedWereIssued, n
      <3>2. n \notin spent
        BY <2>3, <3>1
      <3> QED
        BY <1>1, <1>2, <2>4, <2>5, <3>2 DEF DeviceInv, TypeOK
    <2>8. /\ FrameAges(Contents(queue'), n + 1, [Ids EXCEPT ![n] = packet.id])
          /\ InOrder(Contents(queue'))
      <3>1. ASSUME NEW frames \in Seq(Frame), FrameAges(frames, n, Ids), InOrder(frames)
            PROVE  /\ FrameAges(Append(frames, frame), n + 1, [Ids EXCEPT ![n] = packet.id])
                   /\ InOrder(Append(frames, frame))
        BY <1>1, <2>5, <3>1, AppendIssuedKeeps
      <3>2. CASE Contents(queue) = <<>> /\ queue' = queue
        BY <3>2 DEF FrameAges, InOrder
      <3>3. CASE Contents(queue') = Append(Contents(queue), frame)
        BY <2>4, <2>5, <3>1, <3>3
      <3>4. CASE Contents(queue) # <<>> /\ Contents(queue') = Append(Tail(Contents(queue)), frame)
        <4>1. Tail(Contents(queue)) \in Seq(Frame)
          BY <2>5, <3>4
        <4>2. FrameAges(Tail(Contents(queue)), n, Ids) /\ InOrder(Tail(Contents(queue)))
          BY <2>3, <2>4, <2>5, <3>4, TailKeeps
        <4> QED
          BY <3>1, <3>4, <4>1, <4>2
      <3> QED
        BY <1>3, <3>2, <3>3, <3>4
    <2> QED
      BY <2>3, <2>6, <2>7, <2>8
  <1> QED
    BY <1>5, <1>6, <1>7, <1>8 DEF DeviceInv

LEMMA RedeemsKeeps ==
  ASSUME DeviceInv, NEW layer \in NetworkLayer, NEW token \in Token, Redeems(layer, token)
  PROVE  DeviceInv'
  <1> DEFINE id == PacketIdOf(reinjection, token)
  <1>1. /\ reinjection' = Consume(reinjection, token)
        /\ accepted' = [accepted EXCEPT ![token] = [packet_id |-> id, layer |-> layer]]
        /\ reply' = "Ok"
        /\ UNCHANGED <<handle, queue, issued>>
        /\ HoldsToken(reinjection, token)
    BY DEF Redeems, Accepts, Returns
  <1>2. reinjection' \in Tables(PacketIds) /\ id \in PacketIds
    BY <1>1, DeviceFacts, TableTypes
  <1> HIDE DEF id
  <1>3. accepted' \in [Token -> Reinjection \cup {NoReinjection}]
    <2>1. [packet_id |-> id, layer |-> layer] \in Reinjection
      BY <1>2 DEF Reinjection
    <2> QED
      BY <1>1, <2>1 DEF DeviceInv, TypeOK
  <1>4. TypeOK'
    BY <1>1, <1>2, <1>3 DEF DeviceInv, TypeOK, Results, handle
  <1>5. QueueKept' /\ FilterKept' /\ ClosedHandleIsEmpty'
    BY <1>1 DEF DeviceInv, QueueKept, EffectiveCapacity, FilterKept, ClosedHandleIsEmpty, handle
  <1>6. TokensKept'
    <2>1. Ids' = Ids /\ reinjection'.next_token = reinjection.next_token
      BY <1>1 DEF Ids, Consume
    <2>2. spent' = spent \cup {token}
      <3>1. id # 0
        BY <1>2, DeviceAssumption
      <3>2. [packet_id |-> id, layer |-> layer] # NoReinjection
        BY <3>1 DEF NoReinjection
      <3>3. \A t \in Token : accepted'[t] = IF t = token THEN [packet_id |-> id, layer |-> layer]
                                            ELSE accepted[t]
        BY <1>1 DEF DeviceInv, TypeOK
      <3> QED
        BY <3>2, <3>3 DEF spent
    <2> SUFFICES ASSUME Unsaturated
                 PROVE  /\ TableInv(reinjection', Ids, spent \cup {token})
                        /\ FrameAges(Contents(queue), reinjection.next_token, Ids)
                        /\ InOrder(Contents(queue))
                        /\ \A t \in spent \cup {token} : accepted'[t].packet_id = issued[t].packet_id
      BY <1>1, <2>1, <2>2 DEF TokensKept, Unsaturated
    <2>3. /\ TableInv(reinjection, Ids, spent)
          /\ FrameAges(Contents(queue), reinjection.next_token, Ids)
          /\ InOrder(Contents(queue))
          /\ \A t \in spent : accepted[t].packet_id = issued[t].packet_id
      BY DEF DeviceInv, TokensKept
    <2>4. /\ TableInv(reinjection', Ids, spent \cup {token})
          /\ id = Ids[token]
      BY <1>1, <2>3, DeviceFacts, ConsumeKeepsTableInv DEF id
    <2>5. ASSUME NEW t \in spent \cup {token}
          PROVE  accepted'[t].packet_id = issued[t].packet_id
      <3>1. CASE t = token
        BY <1>1, <2>4, <3>1 DEF DeviceInv, TypeOK, Ids
      <3>2. CASE t # token
        BY <1>1, <2>3, <3>2 DEF DeviceInv, TypeOK, spent
      <3> QED
        BY <3>1, <3>2
    <2> QED
      BY <2>3, <2>4, <2>5
  <1> QED
    BY <1>4, <1>5, <1>6 DEF DeviceInv

LEMMA DeviceInvStep == DeviceInv /\ [StepKinds]_vars => DeviceInv'
  <1> SUFFICES ASSUME DeviceInv, [StepKinds]_vars PROVE DeviceInv'
    OBVIOUS
  <1>1. CASE StepKinds
    BY <1>1, QuietKeeps, OpensKeeps, IssuesKeeps, NotesKeeps, DeliversKeeps,
       RedeemsKeeps, MovesKeeps, ClosesKeeps DEF StepKinds, CallKinds
  <1>2. CASE UNCHANGED vars
    <2>1. Quiet
      BY <1>2 DEF vars, Quiet, DeviceInv, TypeOK
    <2> QED
      BY <2>1, QuietKeeps
  <1> QED
    BY <1>1, <1>2

LEMMA DeviceInvariant == Spec => []DeviceInv
  <1>1. DeviceInv /\ [Next]_vars => DeviceInv'
    BY NextIsStepKinds, DeviceInvStep
  <1> QED
    BY <1>1, DeviceInvInit, PTL DEF Spec

-----------------------------------------------------------------------------
(* Every part of the handle stays well formed.                             *)
THEOREM DeviceTypeCorrect == Spec => []TypeOK
  BY DeviceInvariant, PTL DEF DeviceInv

(* A frame that waits can be reinjected, for every queue no longer than    *)
(* the token table and whatever was captured, dropped, received or sent    *)
(* (runtime_device.rs:62-151).                                             *)
THEOREM DeviceQueuedTokensRedeemable == Spec => []QueuedTokensRedeemable
  <1>1. ASSUME DeviceInv PROVE QueuedTokensRedeemable
    <2> SUFFICES ASSUME Unsaturated, NEW k \in 1 .. queue.len,
                        Contents(queue)[k].layer \in NetworkLayer,
                        Contents(queue)[k].token \notin spent
                 PROVE  [token |-> Contents(queue)[k].token, packet_id |-> Contents(queue)[k].id]
                          \in Live(reinjection)
      BY DEF QueuedTokensRedeemable
    <2> DEFINE t == Contents(queue)[k].token
    <2>1. /\ TableInv(reinjection, Ids, spent)
          /\ FrameAges(Contents(queue), reinjection.next_token, Ids)
      BY <1>1 DEF DeviceInv, TokensKept
    <2>2. /\ Len(Contents(queue)) = queue.len /\ queue.len \in 0 .. RingSlots
          /\ reinjection \in Tables(PacketIds) /\ spent \in SUBSET Token
      BY <1>1, DeviceFacts DEF Rings
    <2>3. /\ t \in Token /\ reinjection.next_token - t \in 1 .. queue.len - k + 1
          /\ Contents(queue)[k].id = Ids[t]
      BY <2>1, <2>2 DEF FrameAges
    <2>4. queue.len \in Nat /\ TableSlots \in Nat /\ queue.len <= TableSlots /\ k \in Nat /\ k >= 1
      BY <2>2, WindowAssumption, RingAssumption, TableAssumption
    <2> HIDE DEF t
    <2>5. InWindow(reinjection, t)
      BY <2>3, <2>4 DEF InWindow, Age
    <2>6. Live(reinjection) = {[token |-> u, packet_id |-> Ids[u]] :
                                 u \in {v \in Token : InWindow(reinjection, v)} \ spent}
      BY <2>1, <2>2, LiveIsWindow
    <2>7. t \in {v \in Token : InWindow(reinjection, v)} \ spent
      BY <2>3, <2>5 DEF t
    <2>8. [token |-> t, packet_id |-> Ids[t]] \in Live(reinjection)
      BY <2>6, <2>7
    <2> QED
      BY <2>3, <2>8 DEF t
  <1> QED
    BY <1>1, DeviceInvariant, PTL

(* The table holds exactly the unused tokens of the last TableSlots        *)
(* captures, each for its own packet (wd-kmdf-core lib.rs:128-152).        *)
THEOREM DeviceTokenWindow == Spec => []TokenWindow
  <1>1. ASSUME DeviceInv PROVE TokenWindow
    <2> SUFFICES ASSUME Unsaturated
                 PROVE  Live(reinjection) =
                          {[token |-> t, packet_id |-> issued[t].packet_id] :
                             t \in {u \in Token : /\ u < reinjection.next_token
                                                  /\ reinjection.next_token - u <= TableSlots}
                                   \ spent}
      BY DEF TokenWindow
    <2>1. TableInv(reinjection, Ids, spent)
      BY <1>1 DEF DeviceInv, TokensKept
    <2>2. /\ reinjection \in Tables(PacketIds) /\ spent \in SUBSET Token
          /\ reinjection.next_token \in Int
      BY <1>1, DeviceFacts
    <2>3. Live(reinjection) = {[token |-> t, packet_id |-> Ids[t]] :
                                 t \in {u \in Token : InWindow(reinjection, u)} \ spent}
      BY <2>1, <2>2, LiveIsWindow
    <2>4. \A u \in Token : InWindow(reinjection, u) <=>
            /\ u < reinjection.next_token
            /\ reinjection.next_token - u <= TableSlots
      BY <2>2, TableAssumption DEF InWindow, Age, Token
    <2>5. \A u \in Token : Ids[u] = issued[u].packet_id
      BY DEF Ids
    <2> QED
      BY <2>3, <2>4, <2>5
  <1> QED
    BY <1>1, DeviceInvariant, PTL

(* A token that send has accepted is never held again. *)
THEOREM DeviceTokensAreOneShot == Spec => []TokensAreOneShot
  <1>1. ASSUME DeviceInv PROVE TokensAreOneShot
    BY <1>1 DEF DeviceInv, TokensKept, TokensAreOneShot, TableInv, EntriesInPlace,
                HoldsToken, Holders
  <1> QED
    BY <1>1, DeviceInvariant, PTL

(* What send accepts is the packet the token was issued for. *)
THEOREM DeviceAcceptsThePacketIssued == Spec => []AcceptedPacketIsTheOneIssued
  BY DeviceInvariant, PTL DEF DeviceInv, TokensKept, AcceptedPacketIsTheOneIssued

(* The tokens in the queue increase towards its end. *)
THEOREM DeviceQueueInTokenOrder == Spec => []QueueInTokenOrder
  <1>1. ASSUME DeviceInv PROVE QueueInTokenOrder
    BY <1>1, DeviceFacts DEF DeviceInv, TokensKept, QueueInTokenOrder, InOrder
  <1> QED
    BY <1>1, DeviceInvariant, PTL

(* A filtered handle queues what its filter accepts and nothing else. *)
THEOREM DeviceQueueHoldsOnlyMatches == Spec => []QueueHoldsOnlyMatches
  <1>1. ASSUME DeviceInv PROVE QueueHoldsOnlyMatches
    BY <1>1, DeviceFacts DEF DeviceInv, FilterKept, QueueHoldsOnlyMatches, AllMatch
  <1> QED
    BY <1>1, DeviceInvariant, PTL

(* A closed handle holds no frame, request or filter. *)
THEOREM DeviceClosedHandleIsEmpty == Spec => []ClosedHandleIsEmpty
  BY DeviceInvariant, PTL DEF DeviceInv

(* A call that reports an error has changed nothing. *)
THEOREM DeviceFailureChangesNothing == Spec => FailureChangesNothing
  <1>1. [Next]_vars => [reply' # "Ok" => UNCHANGED <<device, history>>]_vars
    <2>1. StepKinds /\ reply' # "Ok" => UNCHANGED <<device, history>>
      BY DEF StepKinds, CallKinds, Quiet, Opens, Issues, IssueAndEnqueue, Notes, Delivers,
             Redeems, Accepts, Moves, Closes, Returns
    <2> QED
      BY <2>1, NextIsStepKinds
  <1> QED
    BY <1>1, PTL DEF Spec, FailureChangesNothing

-----------------------------------------------------------------------------
(* The handle is its contract.                                             *)

LEMMA TailOfAppend ==
  ASSUME NEW S, NEW s \in Seq(S), s # <<>>, NEW e \in S
  PROVE  Tail(Append(s, e)) = Append(Tail(s), e)
  OBVIOUS

(* enqueue_frame appends, and drops the oldest frame beyond the limits. *)
LEMMA EnqueuedIsKept ==
  ASSUME DeviceInv, NEW frame \in Frame, frame # Vacant
  PROVE  Contents(Enqueued(frame)) = Promise!Kept(Append(Contents(queue), frame))
  <1> DEFINE old == Contents(queue)
             all == Append(old, frame)
  <1>1. /\ old \in Seq(Frame) /\ Len(old) = queue.len /\ Len(all) = queue.len + 1
        /\ queue_capacity \in Nat /\ RingSlots \in Nat \ {0} /\ queue.len \in Nat
    BY DeviceFacts, RingAssumption DEF Rings
  <1>2. \/ queue_capacity = 0 /\ old = <<>> /\ Enqueued(frame) = queue
        \/ /\ queue_capacity # 0 /\ queue.len < EffectiveCapacity
           /\ Contents(Enqueued(frame)) = Append(old, frame)
        \/ /\ queue_capacity # 0 /\ queue.len = EffectiveCapacity /\ old # <<>>
           /\ Contents(Enqueued(frame)) = Append(Tail(old), frame)
    BY DeviceFacts, EnqueuedIs DEF DeviceInv
  <1>3. queue.len < EffectiveCapacity =>
          ~ (Len(all) > queue_capacity \/ Len(all) > RingSlots)
    BY <1>1 DEF EffectiveCapacity
  <1>4. queue.len = EffectiveCapacity =>
          Len(all) > queue_capacity \/ Len(all) > RingSlots
    BY <1>1 DEF EffectiveCapacity
  <1>5. CASE queue_capacity = 0 /\ old = <<>> /\ Enqueued(frame) = queue
    <2>1. Len(all) > queue_capacity /\ Tail(all) = <<>>
      BY <1>1, <1>5
    <2> QED
      BY <1>5, <2>1 DEF Promise!Kept
  <1>6. CASE queue.len < EffectiveCapacity /\ Contents(Enqueued(frame)) = all
    BY <1>3, <1>6 DEF Promise!Kept
  <1>7. CASE /\ queue.len = EffectiveCapacity /\ old # <<>>
             /\ Contents(Enqueued(frame)) = Append(Tail(old), frame)
    <2>1. Tail(all) = Append(Tail(old), frame)
      BY <1>1, <1>7, TailOfAppend
    <2> QED
      BY <1>4, <1>7, <2>1 DEF Promise!Kept
  <1> QED
    BY <1>2, <1>5, <1>6, <1>7

(* Captures stop below the ceiling. *)
ContractInv == DeviceInv /\ Unsaturated

UnsaturatedKinds ==
  \/ CallKinds
  \/ \E layer \in NetworkLayer, packet \in Packets : Issues(layer, packet) /\ Unsaturated'

LEMMA UnsaturatedNextIsKinds == UnsaturatedNext => UnsaturatedKinds
  BY CallsAreCallKinds, CaptureKind, IgnoredIsQuiet
     DEF UnsaturatedNext, UnsaturatedKinds, CallKinds, Refused

LEMMA ContractInvInit == Init => ContractInv
  <1> SUFFICES ASSUME Init PROVE Unsaturated
    BY DeviceInvInit DEF ContractInv
  <1> QED
    BY TableAssumption DEF Init, NewTable, Unsaturated

LEMMA ContractInvStep == ContractInv /\ [UnsaturatedKinds]_vars => ContractInv'
  <1> SUFFICES ASSUME ContractInv, [UnsaturatedKinds]_vars
               PROVE  Unsaturated'
    BY DeviceInvStep DEF ContractInv, UnsaturatedKinds, StepKinds
  <1>1. CASE CallKinds \/ UNCHANGED vars
    <2>1. \/ reinjection' = reinjection
          \/ \E token : reinjection' = Consume(reinjection, token)
      BY <1>1 DEF CallKinds, Quiet, vars, device, Opens, Notes, Delivers, Redeems, Accepts,
                  Moves, Closes
    <2> QED
      BY <2>1 DEF ContractInv, Unsaturated, Consume
  <1> QED
    BY <1>1 DEF UnsaturatedKinds

LEMMA IssuesIsCapture ==
  ASSUME ContractInv, NEW layer \in NetworkLayer, NEW packet \in Packets,
         Issues(layer, packet), Unsaturated'
  PROVE  \E frame \in OfferedFrames : Promise!Capture(frame)
  <1> DEFINE frame == NetworkFrame(layer, packet)
             n == reinjection.next_token
  <1>1. /\ frame \in Frame /\ frame # Vacant
        /\ frame.token = n /\ frame.id = packet.id
        /\ n \in Token /\ packet.id \in PacketIds
    BY DeviceFacts, NetworkFrameIsFrame DEF ContractInv
  <1>2. frame \in OfferedFrames
    BY <1>1 DEF OfferedFrames, NetworkFrame
  <1>3. /\ state = "Running" /\ UNCHANGED <<state, queue_capacity>>
        /\ reinjection' = Issue(reinjection, packet.id)
        /\ queue' = Enqueued(frame)
    BY DEF Issues, IssueAndEnqueue, handle
  <1> HIDE DEF frame
  <1>4. n < MaxToken /\ reinjection'.next_token = n + 1
    BY <1>1, <1>3, TableAssumption DEF Unsaturated, Issue, Token
  <1>5. Live(reinjection') = {e \in Live(reinjection) : n - e.token < TableSlots}
                               \cup {[token |-> n, packet_id |-> frame.id]}
    <2>1. TableInv(reinjection, Ids, spent)
      BY <1>4 DEF ContractInv, DeviceInv, TokensKept, Unsaturated
    <2> QED
      BY <1>1, <1>3, <1>4, <2>1, DeviceFacts, IssueForgetsTheOldest DEF ContractInv
  <1>6. Contents(queue') = Promise!Kept(Append(Contents(queue), frame))
    BY <1>1, <1>3, EnqueuedIsKept DEF ContractInv
  <1>7. Promise!Capture(frame)
    BY <1>1, <1>3, <1>4, <1>5, <1>6 DEF Promise!Capture
  <1> QED
    BY <1>2, <1>7

LEMMA NotesIsNotify ==
  ASSUME ContractInv, NEW frame \in PlainFrames, Notes(frame)
  PROVE  frame \in OfferedFrames /\ Promise!Notify(frame)
  <1>1. frame \in Frame /\ frame # Vacant /\ frame.token = 0
    BY PlainFrameIsFrame
  <1>2. frame \in OfferedFrames
    BY DEF PlainFrames, OfferedFrames
  <1>3. Contents(queue') = Promise!Kept(Append(Contents(queue), frame))
    BY <1>1, EnqueuedIsKept DEF ContractInv, Notes
  <1> QED
    BY <1>1, <1>2, <1>3 DEF Notes, handle, Promise!Notify

LEMMA DeliversIsDeliver == ContractInv /\ Delivers => Promise!Deliver
  <1> SUFFICES ASSUME ContractInv, Delivers PROVE Promise!Deliver
    OBVIOUS
  <1>1. Contents(queue) # <<>> /\ Contents(queue') = Tail(Contents(queue))
    BY DeviceFacts, DropOldestIsTail DEF ContractInv, Delivers
  <1> QED
    BY <1>1 DEF Delivers, handle, Promise!Deliver

LEMMA RedeemsIsRedeem ==
  ASSUME ContractInv, NEW layer \in NetworkLayer, NEW token \in Token, Redeems(layer, token)
  PROVE  Promise!Redeem
  <1> DEFINE entry == [token |-> token, packet_id |-> Ids[token]]
  <1>1. HoldsToken(reinjection, token) /\ reinjection' = Consume(reinjection, token)
    BY DEF Redeems, Accepts
  <1>2. TableInv(reinjection, Ids, spent)
    BY <1>1 DEF ContractInv, DeviceInv, TokensKept
  <1>3. entry \in Live(reinjection) /\ Live(reinjection') = Live(reinjection) \ {entry}
    BY <1>1, <1>2, DeviceFacts, ConsumeTakesOne DEF ContractInv
  <1>4. reinjection'.next_token = reinjection.next_token
    BY <1>1 DEF Consume
  <1> HIDE DEF entry
  <1> QED
    BY <1>3, <1>4 DEF Redeems, Accepts, SendAllowed, handle, Promise!Redeem

(* Opening, shutting down and closing are steps of the lifecycle. *)
LEMMA LifecycleIsStep == ContractInv /\ (Opens \/ Moves \/ Closes) => Promise!Step
  <1> SUFFICES ASSUME ContractInv, Opens \/ Moves \/ Closes PROVE Promise!Step
    OBVIOUS
  <1>1. CASE Opens
    BY <1>1 DEF Opens, Promise!Step, Promise!Successor
  <1>2. CASE Moves
    BY <1>2 DEF Moves, Promise!Step, Promise!Successor
  <1>3. CASE Closes
    <2>1. Contents(queue') = <<>>
      BY <1>3, DeviceFacts, ClearEmpties DEF ContractInv, Closes
    <2> QED
      BY <1>3, <2>1 DEF Closes, Promise!Step, Promise!Successor
  <1> QED
    BY <1>1, <1>2, <1>3

LEMMA InitIsContractInit == Init => Promise!ContractInit
  <1> SUFFICES ASSUME Init PROVE Promise!ContractInit
    OBVIOUS
  <1>1. Contents(queue) = <<>>
    BY NewRingProperties DEF Init
  <1>2. Live(reinjection) = {}
    BY DEF Init, NewTable, Live
  <1> QED
    BY <1>1, <1>2, DeviceAssumption DEF Init, NewTable, Promise!ContractInit

(* Every step maps to a step of the contract or to none. *)
LEMMA ContractStep ==
  ContractInv /\ [UnsaturatedKinds]_vars => [Promise!ContractNext]_(Promise!cvars)
  <1> SUFFICES ASSUME ContractInv, [UnsaturatedKinds]_vars
               PROVE  Promise!ContractNext \/ UNCHANGED Promise!cvars
    OBVIOUS
  <1>1. CASE Quiet \/ UNCHANGED vars
    BY <1>1 DEF Quiet, vars, device, handle, Promise!cvars
  <1>2. ASSUME NEW layer \in NetworkLayer, NEW packet \in Packets,
               Issues(layer, packet), Unsaturated'
        PROVE  Promise!ContractNext
    BY <1>2, IssuesIsCapture DEF Promise!ContractNext
  <1>3. ASSUME NEW frame \in PlainFrames, Notes(frame)
        PROVE  Promise!ContractNext
    BY <1>3, NotesIsNotify DEF Promise!ContractNext
  <1>4. CASE Delivers
    BY <1>4, DeliversIsDeliver DEF Promise!ContractNext
  <1>5. ASSUME NEW layer \in NetworkLayer, NEW token \in Token, Redeems(layer, token)
        PROVE  Promise!ContractNext
    BY <1>5, RedeemsIsRedeem DEF Promise!ContractNext
  <1>6. CASE Opens \/ Moves \/ Closes
    BY <1>6, LifecycleIsStep DEF Promise!ContractNext
  <1> QED
    BY <1>1, <1>2, <1>3, <1>4, <1>5, <1>6 DEF UnsaturatedKinds, CallKinds

(* Below the token ceiling the handle is its contract, for every number of *)
(* queue and token slots: one captured packet in, one token; the oldest    *)
(* frame out; a token redeemed at most once, and only while fewer than     *)
(* TableSlots packets were captured after its own                          *)
(* (runtime_device.rs:51-208, wd-kmdf-core lib.rs:128-152).                *)
THEOREM DeviceKeepsContract == UnsaturatedSpec => KeepsContract
  <1>1. [UnsaturatedNext]_vars => [UnsaturatedKinds]_vars
    BY UnsaturatedNextIsKinds
  <1> QED
    BY <1>1, InitIsContractInit, ContractInvInit, ContractInvStep, ContractStep, PTL
       DEF UnsaturatedSpec, KeepsContract, Promise!Contract

=============================================================================
