---------------------------- MODULE RuntimeGlue -----------------------------
(***************************************************************************)
(* The driver as its C side sees it: driver/wd-kmdf/src/glue_api.rs over   *)
(* ioctl_dispatch.rs over one RuntimeDevice.  The file object creates a    *)
(* runtime, routes device-control requests and captured packets to it, and *)
(* destroys it; the next file object gets a new one.  Every call answers   *)
(* with a GlueIoResult.  The ABI has no call for shutdown or close, nor    *)
(* for socket and flow events.                                             *)
(*                                                                         *)
(* While no runtime exists the device variables are those of the next one. *)
(***************************************************************************)
EXTENDS RuntimeDevice

VARIABLES
  runtime,           \* whether the file context holds a runtime
  result,            \* GlueIoResult of the last call
  last_reinjection   \* the dispatcher's: what the last good SEND accepted

glue == <<runtime, result, last_reinjection>>
gvars == <<vars, glue>>

OpenResponseLen == 12

GlueIoStatus ==
  {"Success", "UnsupportedIoctl", "DecodeOpen", "OutputTooSmall", "QueueEmpty",
   "RecvDisabled", "SendDisabled", "InvalidState", "NetworkRuntime",
   "InvalidPointer", "InvalidHandle", "InvalidLayer"}

(* map_ioctl_error on the device's errors. *)
StatusOf(error) ==
  IF error \in {"QueueEmpty", "RecvDisabled", "SendDisabled", "InvalidState"} THEN error
  ELSE IF error = "FilterCompile" THEN "DecodeOpen"
  ELSE "NetworkRuntime"

Answers(status, bytes) == result' = [status |-> status, bytes_written |-> bytes]

(* A call that fails before it reaches the device. *)
Rejects(status) ==
  /\ Answers(status, 0)
  /\ UNCHANGED <<vars, runtime, last_reinjection>>

(* The answer to a call the device has served, whose result is in reply'.  *)
AnswersWith(bytes) ==
  IF reply' = "Ok" THEN Answers("Success", bytes) ELSE Answers(StatusOf(reply'), 0)

(* RuntimeGlueApi::new, as far as it is not RuntimeDevice's Init. *)
GlueInit ==
  /\ Init
  /\ runtime = FALSE
  /\ result = [status |-> "Success", bytes_written |-> 0]
  /\ last_reinjection = NoReinjection

-----------------------------------------------------------------------------
(* wd_runtime_glue_create *)
CreateRuntime ==
  /\ ~ runtime
  /\ runtime' = TRUE
  /\ UNCHANGED <<vars, result, last_reinjection>>

DestroyRuntime_KeepsLast ==
  /\ runtime
  /\ runtime' = FALSE
  /\ state' = "Opening"
  /\ open_request' = NoRequest
  /\ filter_engine' = NoEngine
  /\ queue_capacity' \in QueueCapacities
  /\ queue' = NewRing
  /\ reinjection' = NewTable
  /\ Returns("Ok")
  /\ issued' = [t \in Token |-> NoReinjection]
  /\ accepted' = [t \in Token |-> NoReinjection]
  /\ UNCHANGED <<result, last_reinjection>>

(* wd_runtime_glue_destroy, and the state the next runtime will have. *)
DestroyRuntime ==
  /\ runtime
  /\ runtime' = FALSE
  /\ state' = "Opening"
  /\ open_request' = NoRequest
  /\ filter_engine' = NoEngine
  /\ queue_capacity' \in QueueCapacities
  /\ queue' = NewRing
  /\ reinjection' = NewTable
  /\ Returns("Ok")
  /\ issued' = [t \in Token |-> NoReinjection]
  /\ accepted' = [t \in Token |-> NoReinjection]
  /\ last_reinjection' = NoReinjection
  /\ UNCHANGED result

(* A call with a null handle. *)
CallWithoutRuntime == ~ runtime /\ Rejects("InvalidHandle")

(* A null pointer with a length, in any of the calls. *)
CallWithNullBuffer == runtime /\ Rejects("InvalidPointer")

ControlUnsupported == runtime /\ Rejects("UnsupportedIoctl")

(* IOCTL_OPEN with bytes decode_open_request refuses. *)
ControlOpenUndecodable == runtime /\ Rejects("DecodeOpen")

ControlOpen_ReportsRequired(request, outputLen) ==
  /\ runtime
  /\ OpenWithRequest(request)
  /\ IF reply' = "Ok" /\ outputLen < OpenResponseLen
     THEN Answers("OutputTooSmall", OpenResponseLen)
     ELSE AnswersWith(OpenResponseLen)
  /\ UNCHANGED <<runtime, last_reinjection>>

(* dispatch_open_into: the device is opened before the response is found   *)
(* not to fit.                                                             *)
ControlOpen(request, outputLen) ==
  /\ runtime
  /\ OpenWithRequest(request)
  /\ IF reply' = "Ok" /\ outputLen < OpenResponseLen
     THEN Answers("OutputTooSmall", 0)
     ELSE AnswersWith(OpenResponseLen)
  /\ UNCHANGED <<runtime, last_reinjection>>

ControlRecv(outputLen) ==
  /\ runtime
  /\ RecvInto(outputLen)
  /\ AnswersWith(Oldest(queue).size)
  /\ UNCHANGED <<runtime, last_reinjection>>

ControlSend_RecordsFirst(layer, token, len) ==
  /\ runtime
  /\ SendPacket(layer, token, len)
  /\ AnswersWith(0)
  /\ last_reinjection' = accepted'[token]
  /\ UNCHANGED runtime

ControlSend(layer, token, len) ==
  /\ runtime
  /\ SendPacket(layer, token, len)
  /\ AnswersWith(0)
  /\ last_reinjection' = IF reply' = "Ok" THEN accepted'[token] ELSE last_reinjection
  /\ UNCHANGED runtime

ControlSendUndecodable ==
  /\ runtime
  /\ SendUndecodable
  /\ AnswersWith(0)
  /\ UNCHANGED <<runtime, last_reinjection>>

(* wd_runtime_glue_queue_network_event *)
CaptureNetwork(layer, packet) ==
  /\ runtime
  /\ QueueNetworkEvent(layer, packet)
  /\ AnswersWith(0)
  /\ UNCHANGED <<runtime, last_reinjection>>

(* A layer byte that Layer::from_wire does not know. *)
CaptureUnknownLayer == runtime /\ Rejects("InvalidLayer")

-----------------------------------------------------------------------------
GlueNext ==
  \/ CreateRuntime
  \/ DestroyRuntime
  \/ CallWithoutRuntime
  \/ CallWithNullBuffer
  \/ ControlUnsupported
  \/ ControlOpenUndecodable
  \/ \E request \in Requests, outputLen \in OutputLens : ControlOpen(request, outputLen)
  \/ \E outputLen \in OutputLens : ControlRecv(outputLen)
  \/ \E layer \in SendLayers, token \in Token, len \in SendLens : ControlSend(layer, token, len)
  \/ ControlSendUndecodable
  \/ \E layer \in CaptureLayers, packet \in Packets :
       CaptureNetwork(layer, packet) /\ Unsaturated'
  \/ CaptureUnknownLayer

(* A client that polls, as demo-conn-monitor does: it calls RECV again     *)
(* whatever the last answer was, with a buffer of 65535 bytes, more than a *)
(* frame has.                                                              *)
Polls == \E outputLen \in OutputLens : outputLen >= FrameBytes /\ ControlRecv(outputLen)

GlueSpec == GlueInit /\ [][GlueNext]_gvars /\ WF_gvars(Polls)

-----------------------------------------------------------------------------
(* Properties.                                                             *)

GlueTypeOK ==
  /\ TypeOK
  /\ runtime \in BOOLEAN
  /\ result \in [status : GlueIoStatus, bytes_written : Nat]
  /\ last_reinjection \in Reinjection \cup {NoReinjection}
  /\ result.status # "Success" => result.bytes_written = 0

(* A call that is answered with an error has left no trace in the runtime  *)
(* and in what it hands over for reinjection, with one exception: an OPEN  *)
(* whose response does not fit has opened the handle                       *)
(* (ioctl_dispatch.rs:83-97).                                              *)
OnlyShortOpenLeavesATrace ==
  [][ (runtime /\ runtime' /\ result'.status # "Success") =>
        \/ UNCHANGED <<device, history, last_reinjection>>
        \/ /\ result'.status = "OutputTooSmall"
           /\ state = "Opening" /\ state' = "Running"
           /\ UNCHANGED <<queue, reinjection, history, last_reinjection>> ]_gvars

(* What is handed over for reinjection was accepted by this runtime: never *)
(* a packet of an earlier runtime, never one whose SEND was refused.       *)
HandedOverWasAccepted ==
  last_reinjection # NoReinjection => \E t \in spent : accepted[t] = last_reinjection

(* A packet in the queue does not stay there while its runtime lives: the  *)
(* polling client gets it, or later packets push it out.  No frame is too  *)
(* large for the client and blocks the ones behind it.                     *)
Queued(t) == \E k \in 1 .. queue.len : Contents(queue)[k].token = t
EveryQueuedPacketLeaves == \A t \in Token : Queued(t) ~> ~ Queued(t)

-----------------------------------------------------------------------------
(* Statements of the documents that the code does not keep.                *)

(* "OutputTooSmall | 3": the output buffer is too small                    *)
(* (openspec/specs/protocol-spec.md:179).                                  *)
ShortBufferIsReported ==
  [][ \A n \in OutputLens :
        (ControlRecv(n) /\ reply' = "QueueStorage") => result'.status = "OutputTooSmall" ]_gvars

(* "RECV_DISABLED ... Receive path intentionally shut down"                *)
(* (driver/glue/KMDF-bridge-notes.md:35).                                  *)
RecvDisabledMeansShutDown ==
  (runtime /\ result.status = "RecvDisabled") =>
    state \in {"RecvShutdown", "SendShutdown", "Closing", "Closed"}

=============================================================================
