--------------------------- MODULE ByteRingProofs ---------------------------
(***************************************************************************)
(* What the operators of ByteRing do to the sequence of frames held, for   *)
(* every number of slots.  Positions are computed modulo the number of     *)
(* slots; the first lemma turns them into linear arithmetic and the others *)
(* are stated on sequences only.                                           *)
(***************************************************************************)
EXTENDS ByteRing, TLAPS

(* Below a full turn a position wraps at most once. *)
LEMMA SlotAtLinear ==
  ASSUME NEW ring, ring.head \in Slot, NEW k \in 0 .. RingSlots
  PROVE  /\ SlotAt(ring, k) = IF ring.head + k < RingSlots
                              THEN ring.head + k ELSE ring.head + k - RingSlots
         /\ SlotAt(ring, k) \in Slot
  <1>1. ring.head \in 0 .. RingSlots - 1 /\ RingSlots \in Nat \ {0}
    BY RingAssumption DEF Slot
  <1>2. CASE ring.head + k < RingSlots
    <2>1. ring.head + k \in 0 .. RingSlots - 1
      BY <1>1, <1>2
    <2>2. (ring.head + k) % RingSlots = ring.head + k
      BY <1>1, <2>1
    <2> QED
      BY <1>2, <2>1, <2>2 DEF SlotAt, Slot
  <1>3. CASE ring.head + k >= RingSlots
    <2>1. (ring.head + k) - RingSlots \in 0 .. RingSlots - 1
      BY <1>1, <1>3
    <2>2. (ring.head + k) % RingSlots = (ring.head + k) - RingSlots
      BY <1>1, <1>3, <2>1
    <2> QED
      BY <1>1, <1>3, <2>1, <2>2 DEF SlotAt, Slot
  <1> QED
    BY <1>1, <1>2, <1>3

(* Frames less than a full turn apart are in different slots. *)
LEMMA SlotAtInjective ==
  ASSUME NEW ring, ring.head \in Slot,
         NEW j \in 0 .. RingSlots - 1, NEW k \in 0 .. RingSlots - 1,
         SlotAt(ring, j) = SlotAt(ring, k)
  PROVE  j = k
  BY SlotAtLinear, RingAssumption DEF Slot

(* A full ring's next free position is its head. *)
LEMMA SlotAtFullTurn ==
  ASSUME NEW ring, ring.head \in Slot
  PROVE  SlotAt(ring, RingSlots) = ring.head /\ SlotAt(ring, 0) = ring.head
  BY RingAssumption DEF SlotAt, Slot

(* Moving the head moves every position by one. *)
LEMMA SlotAtNextHead ==
  ASSUME NEW ring, NEW next, ring.head \in Slot,
         next.head = (ring.head + 1) % RingSlots,
         NEW k \in 0 .. RingSlots - 1
  PROVE  next.head \in Slot /\ SlotAt(next, k) = SlotAt(ring, k + 1)
  <1>1. next.head = IF ring.head + 1 < RingSlots THEN ring.head + 1 ELSE 0
    BY RingAssumption DEF Slot
  <1>2. next.head \in Slot
    BY <1>1, RingAssumption DEF Slot
  <1>3. SlotAt(next, k) = IF next.head + k < RingSlots
                          THEN next.head + k ELSE next.head + k - RingSlots
    BY <1>2, SlotAtLinear, RingAssumption
  <1>4. SlotAt(ring, k + 1) = IF ring.head + (k + 1) < RingSlots
                              THEN ring.head + (k + 1) ELSE ring.head + (k + 1) - RingSlots
    BY SlotAtLinear, RingAssumption
  <1> QED
    BY <1>1, <1>2, <1>3, <1>4, RingAssumption DEF Slot

-----------------------------------------------------------------------------
(* A new ring is well formed and holds nothing. *)
LEMMA NewRingProperties ==
  ASSUME NEW Frames
  PROVE  NewRing \in Rings(Frames) /\ Contents(NewRing) = <<>>
  BY RingAssumption DEF NewRing, Rings, Slot, Contents

(* Contents is a sequence of len slots' frames. *)
LEMMA ContentsType ==
  ASSUME NEW Frames, NEW ring \in Rings(Frames)
  PROVE  /\ Contents(ring) \in Seq(Frames \cup {Vacant})
         /\ Len(Contents(ring)) = ring.len
         /\ \A k \in 1 .. ring.len : Contents(ring)[k] = ring.slots[SlotAt(ring, k - 1)]
  <1>1. \A k \in 1 .. ring.len : SlotAt(ring, k - 1) \in Slot
    BY SlotAtLinear, RingAssumption DEF Rings
  <1>2. \A k \in 1 .. ring.len : ring.slots[SlotAt(ring, k - 1)] \in Frames \cup {Vacant}
    BY <1>1 DEF Rings
  <1>3. ring.len \in Nat
    BY RingAssumption DEF Rings
  <1> QED
    BY <1>2, <1>3 DEF Contents

(* A push on a ring with a free slot appends. *)
LEMMA PushAppends ==
  ASSUME NEW Frames, NEW ring \in Rings(Frames), NEW frame \in Frames,
         ring.len < RingSlots
  PROVE  /\ Push(ring, frame) \in Rings(Frames)
         /\ Push(ring, frame).len = ring.len + 1
         /\ Contents(Push(ring, frame)) = Append(Contents(ring), frame)
  <1> DEFINE next == Push(ring, frame)
  <1>1. /\ ring.head \in Slot /\ ring.len \in 0 .. RingSlots - 1
        /\ ring.slots \in [Slot -> Frames \cup {Vacant}]
    BY RingAssumption DEF Rings
  <1>2. SlotAt(ring, ring.len) \in Slot
    BY <1>1, SlotAtLinear, RingAssumption
  <1>3. /\ next.head = ring.head /\ next.len = ring.len + 1
        /\ next.slots = [ring.slots EXCEPT ![SlotAt(ring, ring.len)] = frame]
    BY <1>1 DEF Push
  <1>4. next \in Rings(Frames)
    BY <1>1, <1>2, RingAssumption DEF Push, Rings
  <1>5. \A k : SlotAt(next, k) = SlotAt(ring, k)
    BY <1>3 DEF SlotAt
  <1>6. /\ Contents(next) \in Seq(Frames \cup {Vacant}) /\ Len(Contents(next)) = ring.len + 1
        /\ \A k \in 1 .. ring.len + 1 : Contents(next)[k] = next.slots[SlotAt(ring, k - 1)]
    <2>1. /\ Contents(next) \in Seq(Frames \cup {Vacant}) /\ Len(Contents(next)) = next.len
          /\ \A k \in 1 .. next.len : Contents(next)[k] = next.slots[SlotAt(next, k - 1)]
      BY <1>4, ContentsType
    <2> HIDE DEF next
    <2> QED
      BY <1>3, <1>5, <2>1
  <1>7. /\ Contents(ring) \in Seq(Frames \cup {Vacant}) /\ Len(Contents(ring)) = ring.len
        /\ \A k \in 1 .. ring.len : Contents(ring)[k] = ring.slots[SlotAt(ring, k - 1)]
    BY ContentsType
  <1>8. ASSUME NEW k \in 1 .. ring.len
        PROVE  Contents(next)[k] = Contents(ring)[k]
    <2>1. k - 1 \in 0 .. RingSlots - 1 /\ k - 1 # ring.len
      BY <1>1, RingAssumption
    <2>2. SlotAt(ring, k - 1) # SlotAt(ring, ring.len)
      BY <2>1, <1>1, SlotAtInjective, RingAssumption
    <2>3. SlotAt(ring, k - 1) \in Slot
      BY <2>1, <1>1, SlotAtLinear, RingAssumption
    <2>4. next.slots[SlotAt(ring, k - 1)] = ring.slots[SlotAt(ring, k - 1)]
      BY <2>2, <2>3, <1>1, <1>3
    <2> QED
      BY <2>4, <1>1, <1>6, <1>7
  <1>9. Contents(next)[ring.len + 1] = frame
    <2> DEFINE n == ring.len + 1
    <2>1. n \in 1 .. ring.len + 1 /\ n - 1 = ring.len
      BY <1>1
    <2> HIDE DEF n, next
    <2>2. Contents(next)[n] = next.slots[SlotAt(ring, n - 1)]
      BY <2>1, <1>6
    <2>3. Contents(next)[n] = frame
      BY <2>1, <2>2, <1>1, <1>2, <1>3
    <2> QED
      BY <2>3 DEF n
  <1>10. Contents(next) = Append(Contents(ring), frame)
    BY <1>1, <1>6, <1>7, <1>8, <1>9
  <1> QED
    BY <1>3, <1>4, <1>10

(* drop_oldest, and pop_into once it has copied the frame, remove the head. *)
LEMMA DropOldestIsTail ==
  ASSUME NEW Frames, NEW ring \in Rings(Frames), ring.len > 0
  PROVE  /\ DropOldest(ring) \in Rings(Frames)
         /\ DropOldest(ring).len = ring.len - 1
         /\ Contents(ring) # <<>>
         /\ Oldest(ring) = Head(Contents(ring))
         /\ Contents(DropOldest(ring)) = Tail(Contents(ring))
  <1> DEFINE next == DropOldest(ring)
  <1>1. /\ ring.head \in Slot /\ ring.len \in 1 .. RingSlots
        /\ ring.slots \in [Slot -> Frames \cup {Vacant}]
    BY RingAssumption DEF Rings
  <1>2. /\ next.head = (ring.head + 1) % RingSlots /\ next.len = ring.len - 1
        /\ next.slots = [ring.slots EXCEPT ![ring.head] = Vacant]
    BY <1>1 DEF DropOldest
  <1>3. next.head \in Slot
    BY <1>1, <1>2, RingAssumption DEF Slot
  <1>4. next \in Rings(Frames)
    BY <1>1, <1>2, <1>3, RingAssumption DEF DropOldest, Rings
  <1>5. /\ Contents(next) \in Seq(Frames \cup {Vacant}) /\ Len(Contents(next)) = ring.len - 1
        /\ Contents(ring) \in Seq(Frames \cup {Vacant}) /\ Len(Contents(ring)) = ring.len
    BY <1>2, <1>4, ContentsType
  <1>6. ASSUME NEW k \in 1 .. ring.len - 1
        PROVE  Contents(next)[k] = Contents(ring)[k + 1]
    <2>1. k - 1 \in 0 .. RingSlots - 1 /\ k \in 0 .. RingSlots - 1
      BY <1>1, RingAssumption
    <2>2. SlotAt(next, k - 1) = SlotAt(ring, k)
      BY <2>1, <1>1, <1>2, SlotAtNextHead
    <2>3. SlotAt(ring, k) # ring.head
      BY <2>1, <1>1, SlotAtInjective, SlotAtFullTurn, RingAssumption
    <2>4. SlotAt(ring, k) \in Slot
      BY <2>1, <1>1, SlotAtLinear, RingAssumption
    <2>5. next.slots[SlotAt(ring, k)] = ring.slots[SlotAt(ring, k)]
      BY <2>3, <2>4, <1>1, <1>2
    <2>6. Contents(next)[k] = next.slots[SlotAt(next, k - 1)]
      BY <1>2, <1>4, ContentsType
    <2>7. k + 1 \in 1 .. ring.len /\ (k + 1) - 1 = k
      BY <1>1
    <2>8. Contents(ring)[k + 1] = ring.slots[SlotAt(ring, k)]
      BY <2>7, ContentsType
    <2> QED
      BY <2>2, <2>5, <2>6, <2>8
  <1>7. Contents(next) = Tail(Contents(ring))
    BY <1>1, <1>5, <1>6
  <1>8. Oldest(ring) = Head(Contents(ring)) /\ Contents(ring) # <<>>
    BY <1>1, <1>5, ContentsType, SlotAtFullTurn DEF Oldest
  <1> QED
    BY <1>2, <1>4, <1>7, <1>8

(* On a full ring, push is drop_oldest and a push on what it leaves.       *)
LEMMA PushDropsFirst ==
  ASSUME NEW Frames, NEW ring \in Rings(Frames), NEW frame, ring.len = RingSlots
  PROVE  Push(ring, frame) = Push(DropOldest(ring), frame)
  <1> DEFINE emptied == DropOldest(ring)
  <1>1. /\ ring.head \in Slot /\ ring.slots \in [Slot -> Frames \cup {Vacant}]
        /\ RingSlots \in Nat \ {0}
    BY RingAssumption DEF Rings
  <1>2. /\ emptied.head = (ring.head + 1) % RingSlots /\ emptied.len = RingSlots - 1
        /\ emptied.slots = [ring.slots EXCEPT ![ring.head] = Vacant]
    BY <1>1 DEF DropOldest
  <1>3. SlotAt(emptied, RingSlots - 1) = ring.head
    BY <1>1, <1>2, SlotAtNextHead, SlotAtFullTurn
  <1>4. [emptied.slots EXCEPT ![ring.head] = frame] = [ring.slots EXCEPT ![ring.head] = frame]
    BY <1>1, <1>2
  <1>5. Push(emptied, frame) =
          [head |-> emptied.head, len |-> RingSlots,
           slots |-> [emptied.slots EXCEPT ![ring.head] = frame]]
    BY <1>1, <1>2, <1>3 DEF Push
  <1>6. Push(ring, frame) =
          [head |-> (ring.head + 1) % RingSlots, len |-> RingSlots,
           slots |-> [ring.slots EXCEPT ![ring.head] = frame]]
    BY <1>1 DEF Push
  <1> QED
    BY <1>2, <1>4, <1>5, <1>6

(* A push on a full ring loses the oldest frame and appends. *)
LEMMA PushOnFullRing ==
  ASSUME NEW Frames, NEW ring \in Rings(Frames), NEW frame \in Frames,
         ring.len = RingSlots
  PROVE  /\ Push(ring, frame) \in Rings(Frames)
         /\ Push(ring, frame).len = RingSlots
         /\ Contents(Push(ring, frame)) = Append(Tail(Contents(ring)), frame)
  <1> DEFINE emptied == DropOldest(ring)
  <1>1. RingSlots \in Nat \ {0}
    BY RingAssumption
  <1>2. /\ emptied \in Rings(Frames) /\ emptied.len = RingSlots - 1
        /\ Contents(emptied) = Tail(Contents(ring))
    BY <1>1, DropOldestIsTail
  <1>3. Push(ring, frame) = Push(emptied, frame)
    BY PushDropsFirst
  <1>4. emptied.len < RingSlots /\ emptied.len + 1 = RingSlots
    BY <1>1, <1>2
  <1>5. /\ Push(emptied, frame) \in Rings(Frames)
        /\ Push(emptied, frame).len = emptied.len + 1
        /\ Contents(Push(emptied, frame)) = Append(Contents(emptied), frame)
    BY <1>2, <1>4, PushAppends
  <1> QED
    BY <1>2, <1>3, <1>4, <1>5

(* clear leaves a well-formed ring that holds nothing. *)
LEMMA ClearEmpties ==
  ASSUME NEW Frames, NEW ring \in Rings(Frames)
  PROVE  Clear(ring) \in Rings(Frames) /\ Contents(Clear(ring)) = <<>> /\ Clear(ring).len = 0
  <1>1. SlotAt(ring, ring.len) \in Slot
    BY SlotAtLinear, RingAssumption DEF Rings
  <1>2. \A i \in Slot : ring.slots[i] \in Frames \cup {Vacant}
    BY DEF Rings
  <1>3. Clear(ring) \in Rings(Frames) /\ Clear(ring).len = 0
    BY <1>1, <1>2, RingAssumption DEF Clear, Rings
  <1> QED
    BY <1>3 DEF Contents

-----------------------------------------------------------------------------
(* The slots in use are those with a length: kept by push, ...             *)
LEMMA PushKeepsNoStaleSlot ==
  ASSUME NEW Frames, NEW ring \in Rings(Frames), NEW frame \in Frames,
         frame # Vacant, ring.len < RingSlots, NoStaleSlot(ring)
  PROVE  NoStaleSlot(Push(ring, frame))
  <1> DEFINE next  == Push(ring, frame)
             place == SlotAt(ring, ring.len)
  <1>1. /\ ring.head \in Slot /\ ring.len \in 0 .. RingSlots - 1
        /\ ring.slots \in [Slot -> Frames \cup {Vacant}]
    BY RingAssumption DEF Rings
  <1>2. /\ next.head = ring.head /\ next.len = ring.len + 1
        /\ next.slots = [ring.slots EXCEPT ![place] = frame]
    BY <1>1 DEF Push
  <1>3. \A k : SlotAt(next, k) = SlotAt(ring, k)
    BY <1>2 DEF SlotAt
  <1> SUFFICES ASSUME NEW i \in Slot
               PROVE  (\E k \in 0 .. next.len - 1 : SlotAt(next, k) = i) <=> next.slots[i] # Vacant
    BY DEF NoStaleSlot
  <1>4. (\E k \in 0 .. next.len - 1 : SlotAt(next, k) = i) <=> (\E k \in 0 .. ring.len : SlotAt(ring, k) = i)
    <2>1. next.len - 1 = ring.len
      BY <1>1, <1>2
    <2> HIDE DEF next
    <2> QED
      BY <1>3, <2>1
  <1>5. (\E k \in 0 .. ring.len - 1 : SlotAt(ring, k) = i) <=> ring.slots[i] # Vacant
    BY DEF NoStaleSlot
  <1> HIDE DEF next, place
  <1>6. CASE i = place
    <2>1. next.slots[i] = frame
      BY <1>1, <1>2, <1>6
    <2>2. \E k \in 0 .. ring.len : SlotAt(ring, k) = i
      BY <1>1, <1>6 DEF place
    <2> QED
      BY <1>4, <2>1, <2>2
  <1>7. CASE i # place
    <2>1. next.slots[i] = ring.slots[i]
      BY <1>1, <1>2, <1>7
    <2>2. (\E k \in 0 .. ring.len : SlotAt(ring, k) = i)
            <=> (\E k \in 0 .. ring.len - 1 : SlotAt(ring, k) = i)
      BY <1>1, <1>7 DEF place
    <2> QED
      BY <1>4, <1>5, <2>1, <2>2
  <1> QED
    BY <1>6, <1>7

(* ... by drop_oldest and pop_into, ...                                    *)
LEMMA DropOldestKeepsNoStaleSlot ==
  ASSUME NEW Frames, NEW ring \in Rings(Frames), ring.len > 0, NoStaleSlot(ring)
  PROVE  NoStaleSlot(DropOldest(ring)) /\ Oldest(ring) \in Frames
  <1> DEFINE next == DropOldest(ring)
  <1>1. /\ ring.head \in Slot /\ ring.len \in 1 .. RingSlots
        /\ ring.slots \in [Slot -> Frames \cup {Vacant}]
    BY RingAssumption DEF Rings
  <1>2. /\ next.head = (ring.head + 1) % RingSlots /\ next.len = ring.len - 1
        /\ next.slots = [ring.slots EXCEPT ![ring.head] = Vacant]
    BY <1>1 DEF DropOldest
  <1>3. SlotAt(ring, 0) = ring.head
    BY <1>1, SlotAtFullTurn
  <1>4. Oldest(ring) \in Frames
    <2>1. 0 \in 0 .. ring.len - 1
      BY <1>1
    <2>2. ring.slots[ring.head] # Vacant
      BY <1>1, <1>3, <2>1 DEF NoStaleSlot
    <2> QED
      BY <1>1, <2>2 DEF Oldest
  <1>5. ASSUME NEW i \in Slot
        PROVE  (\E k \in 0 .. next.len - 1 : SlotAt(next, k) = i) <=> next.slots[i] # Vacant
    <2>1. (\E k \in 0 .. next.len - 1 : SlotAt(next, k) = i)
            <=> (\E k \in 1 .. ring.len - 1 : SlotAt(ring, k) = i)
      <3>1. ASSUME NEW k \in 0 .. next.len - 1
            PROVE  SlotAt(next, k) = SlotAt(ring, k + 1) /\ k + 1 \in 1 .. ring.len - 1
        <4>1. k \in 0 .. RingSlots - 1 /\ k + 1 \in 1 .. ring.len - 1
          BY <1>1, <1>2, RingAssumption
        <4> QED
          BY <4>1, <1>1, <1>2, SlotAtNextHead
      <3>2. ASSUME NEW k \in 1 .. ring.len - 1
            PROVE  \E j \in 0 .. next.len - 1 : SlotAt(next, j) = SlotAt(ring, k)
        <4> DEFINE j == k - 1
        <4>1. j \in 0 .. next.len - 1 /\ j + 1 = k
          BY <1>1, <1>2
        <4> HIDE DEF j
        <4>2. SlotAt(next, j) = SlotAt(ring, j + 1)
          BY <4>1, <3>1
        <4> QED
          BY <4>1, <4>2
      <3> HIDE DEF next
      <3> QED
        BY <3>1, <3>2
    <2>2. (\E k \in 0 .. ring.len - 1 : SlotAt(ring, k) = i) <=> ring.slots[i] # Vacant
      BY DEF NoStaleSlot
    <2> HIDE DEF next
    <2>3. CASE i = ring.head
      <3>1. next.slots[i] = Vacant
        BY <1>1, <1>2, <2>3
      <3>2. ASSUME NEW k \in 1 .. ring.len - 1
            PROVE  SlotAt(ring, k) # i
        <4>1. k \in 0 .. RingSlots - 1 /\ 0 \in 0 .. RingSlots - 1 /\ k # 0
          BY <1>1, RingAssumption
        <4> QED
          BY <4>1, <1>1, <1>3, <2>3, SlotAtInjective
      <3> QED
        BY <2>1, <3>1, <3>2
    <2>4. CASE i # ring.head
      <3>1. next.slots[i] = ring.slots[i]
        BY <1>1, <1>2, <2>4
      <3>2. (\E k \in 0 .. ring.len - 1 : SlotAt(ring, k) = i)
              <=> (\E k \in 1 .. ring.len - 1 : SlotAt(ring, k) = i)
        BY <1>1, <1>3, <2>4
      <3> QED
        BY <2>1, <2>2, <3>1, <3>2
    <2> QED
      BY <2>3, <2>4
  <1> QED
    BY <1>4, <1>5 DEF NoStaleSlot

(* ... and by clear.                                                       *)
LEMMA ClearKeepsNoStaleSlot ==
  ASSUME NEW Frames, NEW ring \in Rings(Frames), NoStaleSlot(ring)
  PROVE  NoStaleSlot(Clear(ring)) /\ \A i \in Slot : Clear(ring).slots[i] = Vacant
  <1>1. ASSUME NEW i \in Slot
        PROVE  Clear(ring).slots[i] = Vacant
    <2>1. (\E k \in 0 .. ring.len - 1 : SlotAt(ring, k) = i) <=> ring.slots[i] # Vacant
      BY DEF NoStaleSlot
    <2> QED
      BY <2>1 DEF Clear
  <1>2. 0 .. Clear(ring).len - 1 = {}
    BY DEF Clear
  <1> QED
    BY <1>1, <1>2 DEF NoStaleSlot

=============================================================================
