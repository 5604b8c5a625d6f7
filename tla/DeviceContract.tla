--------------------------- MODULE DeviceContract ---------------------------
(***************************************************************************)
(* What a runtime handle of the driver promises its user, without rings    *)
(* and slots: frames are delivered oldest first from a bounded backlog     *)
(* that loses its oldest frame to a new one; every captured packet gets a  *)
(* fresh token, which can be redeemed once, for that packet, while fewer   *)
(* than Window packets have been captured after it.                        *)
(***************************************************************************)
EXTENDS Integers, Sequences

CONSTANTS
  Frames,      \* records with at least the fields token and id
  MaxBacklog,  \* no backlog is longer, whatever the capacity asked for
  Window       \* how many captures a token outlives

VARIABLES
  phase,      \* the handle's lifecycle state
  capacity,   \* the length of the backlog the creator asked for
  backlog,    \* frames not yet delivered
  pending,    \* tokens that can be redeemed: [token, packet_id]
  next        \* the token of the next captured packet

cvars == <<phase, capacity, backlog, pending, next>>

ContractInit ==
  /\ phase = "Opening"
  /\ capacity \in Nat
  /\ backlog = <<>>
  /\ pending = {}
  /\ next = 1

(* A backlog that has just been appended to, cut to its limits. *)
Kept(frames) ==
  IF Len(frames) > capacity \/ Len(frames) > MaxBacklog THEN Tail(frames) ELSE frames

Capture(frame) ==
  /\ phase = "Running"
  /\ frame.token = next
  /\ backlog' = Kept(Append(backlog, frame))
  /\ pending' = {e \in pending : next - e.token < Window}
                  \cup {[token |-> next, packet_id |-> frame.id]}
  /\ next' = next + 1
  /\ UNCHANGED <<phase, capacity>>

Notify(frame) ==
  /\ phase = "Running"
  /\ frame.token = 0
  /\ backlog' = Kept(Append(backlog, frame))
  /\ UNCHANGED <<phase, capacity, pending, next>>

Deliver ==
  /\ phase = "Running"
  /\ backlog # <<>>
  /\ backlog' = Tail(backlog)
  /\ UNCHANGED <<phase, capacity, pending, next>>

Redeem ==
  /\ phase \in {"Running", "RecvShutdown"}
  /\ \E entry \in pending : pending' = pending \ {entry}
  /\ UNCHANGED <<phase, capacity, backlog, next>>

Successor(p) ==
  CASE p = "Opening" -> "Running"
    [] p = "Running" -> "RecvShutdown"
    [] p = "RecvShutdown" -> "SendShutdown"
    [] p = "SendShutdown" -> "Closed"

Step ==
  /\ phase # "Closed"
  /\ phase' = Successor(phase)
  /\ backlog' = IF phase' = "Closed" THEN <<>> ELSE backlog
  /\ UNCHANGED <<capacity, pending, next>>

ContractNext ==
  \/ \E frame \in Frames : Capture(frame) \/ Notify(frame)
  \/ Deliver
  \/ Redeem
  \/ Step

Contract == ContractInit /\ [][ContractNext]_cvars

=============================================================================
