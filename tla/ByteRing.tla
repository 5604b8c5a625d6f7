------------------------------ MODULE ByteRing ------------------------------
(***************************************************************************)
(* The fixed frame ring of the driver core (driver/wd-kmdf-core):          *)
(* ByteRing<SLOTS, BYTES>.  A frame is a record with a field "size", the   *)
(* number of its bytes; a ring is a record                                 *)
(*   head   index of the oldest frame,                                     *)
(*   len    number of frames held,                                         *)
(*   slots  storage and lengths together: the frame last copied to a       *)
(*          slot, or Vacant where the slot's length has been reset to 0.   *)
(* The operators are pure; the modules that own a ring prime it.  A ring   *)
(* without slots, on which every operation returns at once, is left out.   *)
(***************************************************************************)
EXTENDS Integers, Sequences

CONSTANTS
  RingSlots,  \* SLOTS: the number of slots
  FrameBytes  \* BYTES: the bytes a slot holds

ASSUME RingAssumption ==
  /\ RingSlots \in Nat \ {0}
  /\ FrameBytes \in Nat

Slot == 0 .. RingSlots - 1

Vacant == [size |-> 0]

(* ByteRing::new *)
NewRing == [head |-> 0, len |-> 0, slots |-> [i \in Slot |-> Vacant]]

Rings(Frames) ==
  [head : Slot, len : 0 .. RingSlots, slots : [Slot -> Frames \cup {Vacant}]]

FitsSlot(frame) == frame.size <= FrameBytes

-----------------------------------------------------------------------------
(* The slot of the k-th oldest frame, counting from 0. *)
SlotAt(ring, k) == (ring.head + k) % RingSlots

(* ByteRing::push of a frame that fits: the next free slot, or, with every *)
(* slot in use, the oldest frame's slot.                                   *)
Push_ForgetHead(ring, frame) ==
  LET place == SlotAt(ring, ring.len % RingSlots)
  IN  [head  |-> ring.head,
       len   |-> IF ring.len < RingSlots THEN ring.len + 1 ELSE ring.len,
       slots |-> [ring.slots EXCEPT ![place] = frame]]

Push(ring, frame) ==
  IF ring.len < RingSlots
  THEN [head  |-> ring.head,
        len   |-> ring.len + 1,
        slots |-> [ring.slots EXCEPT ![SlotAt(ring, ring.len)] = frame]]
  ELSE [head  |-> (ring.head + 1) % RingSlots,
        len   |-> ring.len,
        slots |-> [ring.slots EXCEPT ![ring.head] = frame]]

Oldest(ring) == ring.slots[ring.head]

(* ByteRing::drop_oldest, and what ByteRing::pop_into leaves behind once   *)
(* the frame has been copied out.                                          *)
DropOldest_HeadRunsOn(ring) ==
  IF ring.len = 0 THEN ring
  ELSE [head  |-> ring.head + 1,
        len   |-> ring.len - 1,
        slots |-> [ring.slots EXCEPT ![ring.head] = Vacant]]

DropOldest(ring) ==
  IF ring.len = 0 THEN ring
  ELSE [head  |-> (ring.head + 1) % RingSlots,
        len   |-> ring.len - 1,
        slots |-> [ring.slots EXCEPT ![ring.head] = Vacant]]

(* ByteRing::clear: drop_oldest until nothing is left. *)
Clear_ResetLenOnly(ring) ==
  [ring EXCEPT !.head = SlotAt(ring, ring.len), !.len = 0]

Clear(ring) ==
  LET dropped == {SlotAt(ring, k) : k \in 0 .. ring.len - 1}
  IN  [head  |-> SlotAt(ring, ring.len),
       len   |-> 0,
       slots |-> [i \in Slot |-> IF i \in dropped THEN Vacant ELSE ring.slots[i]]]

(* The frames held, oldest first. *)
Contents(ring) == [k \in 1 .. ring.len |-> ring.slots[SlotAt(ring, k - 1)]]

(* A slot has a length exactly while it holds one of the frames.           *)
NoStaleSlot(ring) ==
  \A i \in Slot :
    (\E k \in 0 .. ring.len - 1 : SlotAt(ring, k) = i) <=> ring.slots[i] # Vacant

=============================================================================
