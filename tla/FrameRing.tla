----------------------------- MODULE FrameRing ------------------------------
(***************************************************************************)
(* A ByteRing in the hands of one owner, every public operation of the     *)
(* type called in any order (driver/wd-kmdf-core/src/lib.rs).  The frames  *)
(* carry their size, so that a frame may not fit a slot and an output      *)
(* buffer may not fit a frame.  The machine implements EventQueue with the *)
(* number of slots as its capacity.                                        *)
(***************************************************************************)
EXTENDS ByteRing

CONSTANTS
  Frames,      \* the frames offered, records with a field size
  OutputLens   \* the lengths of the buffers handed to pop_into

ASSUME FramesAssumption ==
  /\ \A f \in Frames : f.size \in Nat \ {0}
  /\ OutputLens \subseteq Nat

VARIABLES
  ring,
  answer,  \* what the last call returned: Ok or which error
  popped   \* <<frame>> when the last call copied one out, else <<>>

vars == <<ring, answer, popped>>

TypeOK ==
  /\ ring \in Rings(Frames)
  /\ popped \in Seq(Frames)

Init ==
  /\ ring = NewRing
  /\ answer = "cleared"   \* a new queue is as one just cleared
  /\ popped = <<>>

PushFrame(frame) ==
  /\ popped' = <<>>
  /\ IF FitsSlot(frame)
     THEN ring' = Push(ring, frame) /\ answer' = "pushed"
     ELSE UNCHANGED ring /\ answer' = "too_large"

(* Ok(None), Err(OutputTooSmall), Ok(Some(frame_len)). *)
PopInto_DropsShort(outputLen) ==
  \/ /\ ring.len = 0
     /\ answer' = "empty" /\ popped' = <<>>
     /\ UNCHANGED ring
  \/ /\ ring.len > 0 /\ Oldest(ring).size > outputLen
     /\ answer' = "too_small" /\ popped' = <<>>
     /\ ring' = DropOldest(ring)
  \/ /\ ring.len > 0 /\ Oldest(ring).size <= outputLen
     /\ answer' = "popped" /\ popped' = <<Oldest(ring)>>
     /\ ring' = DropOldest(ring)

PopInto(outputLen) ==
  \/ /\ ring.len = 0
     /\ answer' = "empty" /\ popped' = <<>>
     /\ UNCHANGED ring
  \/ /\ ring.len > 0 /\ Oldest(ring).size > outputLen
     /\ answer' = "too_small" /\ popped' = <<>>
     /\ UNCHANGED ring
  \/ /\ ring.len > 0 /\ Oldest(ring).size <= outputLen
     /\ answer' = "popped" /\ popped' = <<Oldest(ring)>>
     /\ ring' = DropOldest(ring)

DropOldestFrame ==
  /\ ring' = DropOldest(ring)
  /\ answer' = IF ring.len = 0 THEN "empty" ELSE "dropped"
  /\ popped' = <<>>

ClearRing ==
  /\ ring' = Clear(ring)
  /\ answer' = "cleared"
  /\ popped' = <<>>

Next ==
  \/ \E frame \in Frames : PushFrame(frame)
  \/ \E outputLen \in OutputLens : PopInto(outputLen)
  \/ DropOldestFrame
  \/ ClearRing

Spec == Init /\ [][Next]_vars

-----------------------------------------------------------------------------
(* A slot's length is 0 exactly while the slot is out of use: pop_into,    *)
(* drop_oldest and clear reset the lengths of all the slots they give up,  *)
(* whatever the head has wrapped past, so that no later head can meet a    *)
(* frame that was already handed out.                                      *)
RingKeepsNoStaleFrame == NoStaleSlot(ring)

Fifo == INSTANCE EventQueue
          WITH Entries  <- {f \in Frames : FitsSlot(f)},
               Capacity <- RingSlots,
               entries  <- Contents(ring)

(* The ring is the bounded drop-oldest queue: frames leave oldest first, a *)
(* push on a full ring loses the oldest frame and no other, and no frame   *)
(* is lost by a call that does not say so: not by a push that answers      *)
(* FrameTooLarge, nor by a pop_into that answers OutputTooSmall or None    *)
(* (lib.rs:250-309).                                                       *)
ImplementsEventQueue == Fifo!Spec

=============================================================================
