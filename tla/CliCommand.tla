----------------------------- MODULE CliCommand -----------------------------
(***************************************************************************)
(* One run of a wd-cli command (crates/wd-cli/src/cmd) against the driver, *)
(* while the kernel side goes on capturing: probe, a first open that is    *)
(* closed at once, a session, the receive loop or a receive and a send,    *)
(* and close, under one time budget.  What a command prints is left out.   *)
(* demo-conn-monitor, watching one layer, is a command too, without budget *)
(* and without end.                                                        *)
(***************************************************************************)
EXTENDS WindowsSession

CONSTANTS
  Commands,      \* the commands to run, see Command
  MaxRecvBytes   \* MAX_RECV_BYTES

(* The arguments of a command, good or bad.                                *)
(* kind: "probe" and "open" are reflectctl's actions (validate of          *)
(*   netfilter is an open too), "observe" is netfilter observe and         *)
(*   netdump, "track" flowtrack and socketdump, "reinject" netfilter's,    *)
(*   "monitor" demo-conn-monitor with --socket-only or --flow-only.        *)
(* wanted: the events a tracking command is after, by process id or by the *)
(*   filter it evaluates itself.  fits: whether its filter compiles for its *)
(*   layer, or is absent where none is implemented.  timeout: whether      *)
(*   --timeout-ms is more than 0.                                          *)
Command ==
  [kind : {"probe", "open", "observe", "track", "reinject", "monitor"}, request : Requests,
   count : Nat, follow : BOOLEAN, wanted : SUBSET Tags, fits : BOOLEAN, timeout : BOOLEAN]

ASSUME CommandAssumption ==
  /\ Commands \subseteq Command
  /\ MaxRecvBytes >= FrameBytes

VARIABLES
  cmd,
  pc,        \* where execute_with_transport is
  expired,   \* whether the time budget has run out
  got,       \* frames received and kept
  error      \* category of the error the command ends with, or "none"

Points ==
  {"arguments", "probe", "open", "open_negotiate", "open_close", "open_session", "session_negotiate",
   "recv", "decode", "send", "close_session", "drop", "report", "done"}

cli == <<cmd, pc, expired, got, error>>
cvars == <<svars, cli>>

Categories == {"none", "argument_error", "device_unavailable", "open_failed", "protocol_mismatch",
               "io_failure"}

CliInit ==
  /\ SessionInit
  /\ cmd \in Commands
  /\ pc = "arguments"
  /\ expired = FALSE
  /\ got = <<>>
  /\ error = "none"

-----------------------------------------------------------------------------
(* The command goes on, or returns an error: a session it still holds is   *)
(* dropped then.                                                           *)
GoesTo(where) == pc' = where /\ UNCHANGED error

FailsWith(category) ==
  /\ error' = category
  /\ pc' = IF device_handle' = INVALID_HANDLE_VALUE THEN "done" ELSE "drop"

Checked_OutsideLoop ==
  {"probe", "open", "open_session", "send", "close_session", "report"}

(* TimeoutBudget::run checks before and after each step; the check after   *)
(* one step and the one before the next are one point of this model.       *)
Checked == {"probe", "open", "open_session", "recv", "decode", "send",
            "close_session", "report"}

Budgeted == cmd.kind # "monitor"

Proceeds(where) == pc = where /\ (Budgeted /\ where \in Checked => ~ expired)

OverBudget ==
  /\ Budgeted /\ pc \in Checked
  /\ expired
  /\ UNCHANGED <<svars, cmd, expired, got>>
  /\ FailsWith("io_failure")

(* validate_count: only a command that observes or tracks may ask for more *)
(* than one event, and has to follow then.                                 *)
FollowsToCount == cmd.follow \/ cmd.count = 1
SingleShot     == cmd.count = 1 /\ ~ cmd.follow

ValidCount ==
  /\ cmd.count > 0
  /\ IF cmd.kind \in {"observe", "track"} THEN FollowsToCount ELSE SingleShot

ValidFilter == cmd.fits

(* The checks before the device is looked for; TimeoutBudget::new is last. *)
CheckArguments ==
  /\ Proceeds("arguments")
  /\ UNCHANGED <<svars, cmd, expired, got>>
  /\ IF ~ (ValidCount /\ ValidFilter) THEN FailsWith("argument_error")
     ELSE IF Budgeted /\ ~ cmd.timeout THEN FailsWith("io_failure")
     ELSE GoesTo("probe")

Probe ==
  /\ Proceeds("probe")
  /\ UNCHANGED <<svars, cmd, expired, got>>
  /\ \/ GoesTo(IF cmd.kind = "probe" THEN "report" ELSE "open")
     \/ FailsWith("device_unavailable")
     \/ FailsWith("io_failure")

(* WindowsTransport::open and open_session start alike. *)
OpenDevice(from, to) ==
  /\ Proceeds(from)
  /\ OpenDeviceHandle
  /\ IF win32' = "ok" THEN GoesTo(to) ELSE FailsWith(OpenError(win32'))
  /\ UNCHANGED <<cmd, expired, got>>

Negotiate_LeaksHandle(from, accepted_to) ==
  /\ Proceeds(from)
  /\ NegotiateOpen(cmd.request)
  /\ error' \in NegotiationErrors
  /\ pc' = IF error' = "none" THEN accepted_to
           ELSE IF from = "open_negotiate" THEN "open_close" ELSE "done"
  /\ UNCHANGED <<cmd, expired, got>>

Negotiate(from, accepted_to) ==
  /\ Proceeds(from)
  /\ NegotiateOpen(cmd.request)
  /\ error' \in NegotiationErrors
  /\ pc' = IF error' = "none" THEN accepted_to ELSE "open_close"
  /\ UNCHANGED <<cmd, expired, got>>

(* close_handle_after_negotiate: an error of its own hides the first one.  *)
CloseAfterNegotiate ==
  /\ Proceeds("open_close")
  /\ CloseHandle
  /\ IF win32' = "failed" THEN FailsWith("io_failure")
     ELSE IF error # "none" THEN FailsWith(error)
     ELSE GoesTo(IF cmd.kind = "open" THEN "report" ELSE "open_session")
  /\ UNCHANGED <<cmd, expired, got>>

(* recv_one: no data is an error like any other. *)
Recv ==
  /\ Proceeds("recv") /\ cmd.kind # "monitor"
  /\ RecvOne(MaxRecvBytes)
  /\ IF win32' = "ok"
     THEN got' = Append(got, Oldest(queue)) /\ GoesTo("decode")
     ELSE UNCHANGED got /\ FailsWith("io_failure")
  /\ UNCHANGED <<cmd, expired>>

(* The loop of demo-conn-monitor.  An io_failure, the error of recv_one,   *)
(* may be an empty queue; an event of another kind is passed over.         *)
MonitorPolls ==
  /\ Proceeds("recv") /\ cmd.kind = "monitor"
  /\ RecvOne(MaxRecvBytes)
  /\ GoesTo("recv")
  /\ UNCHANGED <<cmd, expired, got>>

PacketLen(frame) == frame.size - RuntimeEventHeaderLen - NetworkPayloadHeaderLen

(* RecvEvent::decode, and the check that the event is of the command's     *)
(* kind.  Packets are taken to be IPv4 from 20 bytes on.                   *)
Expected(frame) ==
  IF cmd.kind = "track" THEN frame.layer = cmd.request.layer
  ELSE frame.layer \in NetworkLayer /\ PacketLen(frame) >= 20

Decode_OneMore ==
  LET frame == got[Len(got)]
  IN  /\ Proceeds("decode")
      /\ UNCHANGED <<svars, cmd, expired, got>>
      /\ IF ~ Expected(frame) THEN FailsWith("io_failure")
         ELSE GoesTo(IF cmd.kind = "reinject" THEN "send"
                     ELSE IF Len(got) > cmd.count THEN "close_session" ELSE "recv")

Decode_KeepsAll ==
  LET frame == got[Len(got)]
  IN  /\ Proceeds("decode")
      /\ UNCHANGED <<svars, cmd, expired>>
      /\ IF ~ Expected(frame) THEN UNCHANGED got /\ FailsWith("io_failure")
         ELSE /\ UNCHANGED got
              /\ GoesTo(IF cmd.kind = "reinject" THEN "send"
                        ELSE IF Len(got) = cmd.count THEN "close_session" ELSE "recv")

Decode ==
  LET frame == got[Len(got)]
  IN  /\ Proceeds("decode")
      /\ UNCHANGED <<svars, cmd, expired>>
      /\ IF ~ Expected(frame) THEN UNCHANGED got /\ FailsWith("io_failure")
         ELSE IF cmd.kind = "track" /\ frame.tag \notin cmd.wanted
         THEN got' = SubSeq(got, 1, Len(got) - 1) /\ GoesTo("recv")
         ELSE /\ UNCHANGED got
              /\ GoesTo(IF cmd.kind = "reinject" THEN "send"
                        ELSE IF Len(got) = cmd.count THEN "close_session" ELSE "recv")

(* The packet goes back as it was received. *)
Send ==
  /\ Proceeds("send")
  /\ SendOne(got[1].layer, got[1].token, PacketLen(got[1]))
  /\ IF win32' = "ok" THEN GoesTo("close_session") ELSE FailsWith("io_failure")
  /\ UNCHANGED <<cmd, expired, got>>

(* WindowsSession::close consumes the session, which is dropped too. *)
CloseSession ==
  /\ Proceeds("close_session")
  /\ CloseHandle
  /\ error' = IF win32' = "failed" THEN "io_failure" ELSE "none"
  /\ pc' = "drop"
  /\ UNCHANGED <<cmd, expired, got>>

(* Drop for WindowsSession: an error of CloseHandle is not reported. *)
Drop ==
  /\ Proceeds("drop")
  /\ IF device_handle = INVALID_HANDLE_VALUE THEN UNCHANGED svars ELSE CloseHandle
  /\ GoesTo(IF error = "none" THEN "report" ELSE "done")
  /\ UNCHANGED <<cmd, expired, got>>

Report ==
  /\ Proceeds("report")
  /\ GoesTo("done")
  /\ UNCHANGED <<svars, cmd, expired, got>>

Expire ==
  /\ Budgeted /\ ~ expired /\ pc \notin {"arguments", "done"}
  /\ expired' = TRUE
  /\ UNCHANGED <<svars, cmd, pc, got, error>>

-----------------------------------------------------------------------------
(* The kernel side, at any time.  Socket and flow events reach the device  *)
(* through the dispatcher; the C ABI has no function for them.             *)
PacketArrives ==
  /\ \E layer \in CaptureLayers, packet \in Packets :
       CaptureNetwork(layer, packet) /\ Unsaturated'
  /\ UNCHANGED <<session, cli>>

EventArrives ==
  /\ runtime
  /\ \E tag \in Tags : QueueSocketEvent(tag) \/ QueueFlowEvent(tag)
  /\ UNCHANGED <<glue, session, cli>>

CommandStep ==
  \/ CheckArguments
  \/ OverBudget
  \/ Probe
  \/ OpenDevice("open", "open_negotiate")
  \/ Negotiate("open_negotiate", "open_close")
  \/ CloseAfterNegotiate
  \/ OpenDevice("open_session", "session_negotiate")
  \/ Negotiate("session_negotiate", "recv")
  \/ Recv
  \/ MonitorPolls
  \/ Decode
  \/ Send
  \/ CloseSession
  \/ Drop
  \/ Report

CliNext == CommandStep \/ Expire \/ PacketArrives \/ EventArrives

(* The command's thread runs and time passes; nothing is assumed of the    *)
(* kernel side.                                                            *)
CliSpec == CliInit /\ [][CliNext]_cvars /\ WF_cvars(CommandStep) /\ WF_cvars(Expire)

-----------------------------------------------------------------------------
(* Properties.                                                             *)

CliTypeOK ==
  /\ SessionTypeOK
  /\ cmd \in Commands
  /\ pc \in Points
  /\ expired \in BOOLEAN
  /\ Len(got) <= cmd.count
  /\ \A k \in 1 .. Len(got) : got[k] \in Frame
  /\ error \in Categories

(* Whatever fails and whenever the budget runs out, each handle that was   *)
(* opened is closed, and closed once: a second CloseHandle might hit a     *)
(* handle that is in use elsewhere (windows.rs:173-206, 238-264).          *)
HandlesClosedOnce ==
  /\ \A h \in DOMAIN closes : closes[h] <= 1
  /\ pc = "done" => \A h \in DOMAIN closes : closes[h] = 1

(* A command that reports success has what it was asked for: its count of  *)
(* events, one at least, in the order they were captured, each of its      *)
(* layer and accepted by its filter; and the driver holds nothing of it    *)
(* any more.  A command whose arguments are refused never had a handle.    *)
SuccessIsEarned ==
  /\ error = "argument_error" => closes = <<>>
  /\ (pc = "done" /\ error = "none") =>
    /\ ~ runtime
    /\ cmd.count > 0 /\ cmd.fits
    /\ Len(got) = IF cmd.kind \in {"probe", "open"} THEN 0 ELSE cmd.count
    /\ \A k \in 1 .. Len(got) :
         /\ Expected(got[k])
         /\ cmd.kind = "track" => got[k].tag \in cmd.wanted
         /\ cmd.request.ir = "program" => got[k].tag \in cmd.request.accepts
    /\ \A j, k \in 1 .. Len(got) :
         (j < k /\ cmd.kind = "observe") => got[j].token < got[k].token

(* What is reinjected is the one packet the command received, on the layer *)
(* it came from, however many packets were captured between its receive    *)
(* and its send; no other command reinjects anything.                      *)
ReinjectsWhatItReceived ==
  \A t \in spent :
    /\ cmd.kind = "reinject"
    /\ t = got[1].token
    /\ accepted[t] = [packet_id |-> got[1].id, layer |-> got[1].layer]

(* Every command under a budget comes to an end, also while events it does *)
(* not want keep arriving (flowtrack.rs:74-82, 156-173).                   *)
CommandEnds == Budgeted ~> pc = "done"

-----------------------------------------------------------------------------
(* A statement of the documents that the code does not keep.               *)

(* "--follow with --count means stream until N events or user interrupt"   *)
(* (2026-04-08-enterprise-cli-runtime-design.md:359).                      *)
FollowStreamsToCount ==
  (pc = "done" /\ cmd.follow /\ result.status = "QueueEmpty" /\ error # "none") => expired

=============================================================================
