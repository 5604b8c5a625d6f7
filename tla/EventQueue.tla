----------------------------- MODULE EventQueue -----------------------------
(***************************************************************************)
(* The bounded drop-oldest queue as driver/wd-kmdf/src/queue.rs writes it  *)
(* on VecDeque: a capacity and the entries, oldest first.  It is also what *)
(* the fixed ring of the driver core promises (module FrameRing), so it    *)
(* is parameterised by the entries it may hold.                            *)
(***************************************************************************)
EXTENDS Integers, Sequences

CONSTANTS
  Entries,   \* DriverEvent: what may be queued
  Capacity   \* usize handed to EventQueue::new

VARIABLES
  entries,   \* EventQueue::entries
  answer,    \* what the last call was answered
  popped     \* the entry it handed out, as <<entry>>, or <<>>

vars == <<entries, answer, popped>>

TypeOK ==
  /\ entries \in Seq(Entries)
  /\ popped \in Seq(Entries)

Init ==
  /\ entries = <<>>
  /\ answer = "cleared"   \* a new queue is as one just cleared
  /\ popped = <<>>

(* The queue after EventQueue::push. *)
Pushed(queue, entry) ==
  IF Capacity = 0 THEN queue
  ELSE IF Len(queue) = Capacity THEN Append(Tail(queue), entry)
  ELSE Append(queue, entry)

push(entry) ==
  /\ entries' = Pushed(entries, entry)
  /\ answer' = "pushed" /\ popped' = <<>>

(* EventQueue::pop: the oldest entry, or None. *)
pop ==
  /\ entries # <<>>
  /\ entries' = Tail(entries)
  /\ answer' = "popped" /\ popped' = <<Head(entries)>>

pop_none ==
  /\ entries = <<>>
  /\ answer' = "empty" /\ popped' = <<>>
  /\ UNCHANGED entries

(* The queue as the ring of the driver core has it: a call that is refused *)
(* leaves every entry where it is.  An entry too long for any slot is not  *)
(* taken; the oldest one, if it is too long for the caller, not handed out.*)
refuse ==
  /\ answer' \in {"too_large"} \cup (IF entries = <<>> THEN {} ELSE {"too_small"})
  /\ popped' = <<>>
  /\ UNCHANGED entries

(* The oldest entry goes without being handed out, and only where asked.   *)
drop_oldest ==
  /\ entries # <<>>
  /\ entries' = Tail(entries)
  /\ answer' = "dropped" /\ popped' = <<>>

clear ==
  /\ entries' = <<>>
  /\ answer' = "cleared" /\ popped' = <<>>

Next ==
  \/ \E entry \in Entries : push(entry)
  \/ pop
  \/ pop_none
  \/ refuse
  \/ drop_oldest
  \/ clear

Spec == Init /\ [][Next]_vars

=============================================================================
