-------------------------- MODULE FrameRingProofs ---------------------------
(***************************************************************************)
(* The ring machine keeps its slots clean and implements the bounded       *)
(* drop-oldest queue, for every number of slots, every set of frames and   *)
(* every buffer length.                                                    *)
(***************************************************************************)
EXTENDS FrameRing, ByteRingProofs

(* Types alone are not inductive: that pop_into hands out a frame, and not *)
(* the contents of a slot that was given up, rests on the second conjunct. *)
RingInv == TypeOK /\ RingKeepsNoStaleFrame

(* No offered frame is empty, so none looks like a slot given up. *)
LEMMA FramesHaveLength == \A f \in Frames : f # Vacant
  BY FramesAssumption DEF Vacant

(* One push, full ring or not. *)
LEMMA PushSteps ==
  ASSUME ring \in Rings(Frames), NoStaleSlot(ring), NEW frame \in Frames
  PROVE  /\ Push(ring, frame) \in Rings(Frames)
         /\ NoStaleSlot(Push(ring, frame))
         /\ Contents(Push(ring, frame)) = Fifo!Pushed(Contents(ring), frame)
  <1>1. ring.len \in 0 .. RingSlots /\ RingSlots \in Nat \ {0}
    BY RingAssumption DEF Rings
  <1>2. Len(Contents(ring)) = ring.len
    BY ContentsType
  <1>3. CASE ring.len < RingSlots
    <2>1. NoStaleSlot(Push(ring, frame))
      BY <1>3, FramesHaveLength, PushKeepsNoStaleSlot
    <2>2. /\ Push(ring, frame) \in Rings(Frames)
          /\ Contents(Push(ring, frame)) = Append(Contents(ring), frame)
      BY <1>3, PushAppends
    <2> QED
      BY <1>1, <1>2, <1>3, <2>1, <2>2 DEF Fifo!Pushed
  <1>4. CASE ring.len = RingSlots
    <2> DEFINE emptied == DropOldest(ring)
    <2>1. ring.len > 0
      BY <1>1, <1>4
    <2>2. emptied \in Rings(Frames) /\ NoStaleSlot(emptied) /\ emptied.len = ring.len - 1
      BY <2>1, DropOldestIsTail, DropOldestKeepsNoStaleSlot
    <2>3. emptied.len < RingSlots
      BY <1>1, <1>4, <2>2
    <2>4. NoStaleSlot(Push(emptied, frame))
      BY <2>2, <2>3, FramesHaveLength, PushKeepsNoStaleSlot
    <2>5. Push(ring, frame) = Push(emptied, frame)
      BY <1>4, PushDropsFirst
    <2>6. /\ Push(ring, frame) \in Rings(Frames)
          /\ Contents(Push(ring, frame)) = Append(Tail(Contents(ring)), frame)
      BY <1>4, PushOnFullRing
    <2> QED
      BY <1>1, <1>2, <1>4, <2>4, <2>5, <2>6 DEF Fifo!Pushed
  <1> QED
    BY <1>1, <1>3, <1>4

(* One frame leaves, handed out or dropped. *)
LEMMA DropOldestSteps ==
  ASSUME ring \in Rings(Frames), NoStaleSlot(ring), ring.len # 0
  PROVE  /\ DropOldest(ring) \in Rings(Frames)
         /\ NoStaleSlot(DropOldest(ring))
         /\ Oldest(ring) \in Frames
         /\ Contents(ring) # <<>>
         /\ Oldest(ring) = Head(Contents(ring))
         /\ Contents(DropOldest(ring)) = Tail(Contents(ring))
  <1>1. ring.len > 0
    BY RingAssumption DEF Rings
  <1> QED
    BY <1>1, DropOldestIsTail, DropOldestKeepsNoStaleSlot

(* The numbers the calls decide by, and an empty ring. *)
LEMMA RingSizes ==
  ASSUME ring \in Rings(Frames), NoStaleSlot(ring)
  PROVE  /\ ring.len \in Nat
         /\ ring.len # 0 => Oldest(ring).size \in Nat
         /\ ring.len = 0 => Contents(ring) = <<>>
  <1>1. ring.len \in Nat
    BY RingAssumption DEF Rings
  <1>2. ASSUME ring.len # 0 PROVE Oldest(ring).size \in Nat
    BY <1>2, DropOldestSteps, FramesAssumption
  <1>3. /\ Contents(ring) \in Seq(Frames \cup {Vacant})
        /\ Len(Contents(ring)) = ring.len
    BY ContentsType
  <1>4. ring.len = 0 => Contents(ring) = <<>>
    BY <1>3
  <1> QED
    BY <1>1, <1>2, <1>4

-----------------------------------------------------------------------------
LEMMA RingInvInit == Init => RingInv
  BY NewRingProperties, RingAssumption
     DEF Init, RingInv, TypeOK, RingKeepsNoStaleFrame, NoStaleSlot, NewRing

(* Each call keeps the invariant and is a step of the queue. *)
LEMMA RingStep == RingInv /\ [Next]_vars => RingInv' /\ [Fifo!Next]_(Fifo!vars)
  <1> SUFFICES ASSUME RingInv, [Next]_vars
               PROVE  RingInv' /\ [Fifo!Next]_(Fifo!vars)
    OBVIOUS
  <1> USE DEF RingInv, TypeOK, RingKeepsNoStaleFrame
  <1>1. ASSUME NEW frame \in Frames, PushFrame(frame)
        PROVE  RingInv' /\ [Fifo!Next]_(Fifo!vars)
    <2>1. CASE FitsSlot(frame)
      <3>1. ring' = Push(ring, frame) /\ answer' = "pushed" /\ popped' = <<>>
        BY <1>1, <2>1 DEF PushFrame
      <3>2. RingInv'
        BY <3>1, PushSteps
      <3>3. Fifo!push(frame)
        BY <3>1, PushSteps DEF Fifo!push
      <3> QED
        BY <2>1, <3>2, <3>3 DEF Fifo!Next
    <2>2. CASE ~ FitsSlot(frame)
      BY <1>1, <2>2 DEF PushFrame, Fifo!Next, Fifo!refuse
    <2> QED
      BY <2>1, <2>2
  <1>2. ASSUME NEW outputLen \in OutputLens, PopInto(outputLen)
        PROVE  RingInv' /\ [Fifo!Next]_(Fifo!vars)
    <2>1. CASE ring.len = 0
      <3>1. ring' = ring /\ answer' = "empty" /\ popped' = <<>>
        BY <1>2, <2>1 DEF PopInto
      <3>2. Contents(ring) = <<>>
        BY <2>1, RingSizes
      <3> QED
        BY <3>1, <3>2 DEF Fifo!Next, Fifo!pop_none
    <2>2. CASE ring.len > 0 /\ Oldest(ring).size > outputLen
      <3>1. ring' = ring /\ answer' = "too_small" /\ popped' = <<>>
        BY <1>2, <2>2, RingSizes, FramesAssumption DEF PopInto
      <3>2. Contents(ring) # <<>>
        BY <2>2, DropOldestSteps
      <3> QED
        BY <3>1, <3>2 DEF Fifo!Next, Fifo!refuse
    <2>3. CASE ring.len > 0 /\ Oldest(ring).size <= outputLen
      <3>1. ring' = DropOldest(ring) /\ answer' = "popped" /\ popped' = <<Oldest(ring)>>
        BY <1>2, <2>3, RingSizes, FramesAssumption DEF PopInto
      <3>2. RingInv'
        BY <2>3, <3>1, DropOldestSteps
      <3>3. Fifo!pop
        BY <2>3, <3>1, DropOldestSteps DEF Fifo!pop
      <3> QED
        BY <3>2, <3>3 DEF Fifo!Next
    <2> QED
      BY <1>2, <2>1, <2>2, <2>3 DEF PopInto
  <1>3. CASE DropOldestFrame
    <2>1. CASE ring.len = 0
      <3>1. ring' = ring /\ answer' = "empty" /\ popped' = <<>>
        BY <1>3, <2>1 DEF DropOldestFrame, DropOldest
      <3>2. Contents(ring) = <<>>
        BY <2>1, RingSizes
      <3> QED
        BY <3>1, <3>2 DEF Fifo!Next, Fifo!pop_none
    <2>2. CASE ring.len # 0
      <3>1. ring' = DropOldest(ring) /\ answer' = "dropped" /\ popped' = <<>>
        BY <1>3, <2>2 DEF DropOldestFrame
      <3>2. RingInv'
        BY <2>2, <3>1, DropOldestSteps
      <3>3. Fifo!drop_oldest
        BY <2>2, <3>1, DropOldestSteps DEF Fifo!drop_oldest
      <3> QED
        BY <3>2, <3>3 DEF Fifo!Next
    <2> QED
      BY <2>1, <2>2
  <1>4. CASE ClearRing
    <2>1. ring' = Clear(ring) /\ answer' = "cleared" /\ popped' = <<>>
      BY <1>4 DEF ClearRing
    <2>2. RingInv' /\ Fifo!clear
      BY <2>1, ClearEmpties, ClearKeepsNoStaleSlot DEF Fifo!clear
    <2> QED
      BY <2>2 DEF Fifo!Next
  <1>5. CASE UNCHANGED vars
    BY <1>5 DEF vars, Fifo!vars
  <1> QED
    BY <1>1, <1>2, <1>3, <1>4, <1>5 DEF Next

(* The ring is well formed and its frames are frames, in every behaviour.  *)
THEOREM FrameRingTypeCorrect == Spec => []TypeOK
  BY RingInvInit, RingStep, PTL DEF Spec, RingInv

(* No slot keeps a frame that was handed out or dropped, and every frame   *)
(* still held has its length (lib.rs:274-309).                             *)
THEOREM FrameRingKeepsNoStaleFrame == Spec => []RingKeepsNoStaleFrame
  BY RingInvInit, RingStep, PTL DEF Spec, RingInv

(* The ring, modulo arithmetic and all, is the bounded drop-oldest queue.  *)
THEOREM FrameRingIsEventQueue == Spec => ImplementsEventQueue
  <1>1. Init => Fifo!Init
    BY NewRingProperties DEF Init, Fifo!Init
  <1> QED
    BY <1>1, RingInvInit, RingStep, PTL DEF Spec, ImplementsEventQueue, Fifo!Spec

=============================================================================
