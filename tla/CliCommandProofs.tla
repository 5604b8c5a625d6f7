-------------------------- MODULE CliCommandProofs ---------------------------
(***************************************************************************)
(* One run of a command, for every command with its arguments, every       *)
(* number of queue and token slots, and whatever the kernel side captures  *)
(* between any two of its steps.                                           *)
(*                                                                         *)
(* The argument has three parts.  The handle: where the command is says    *)
(* whether it holds one, and every handle it does not hold was closed      *)
(* once.  The outcome: it reports success only from places that are        *)
(* reached with valid arguments, its count of events and the runtime gone. *)
(* The frames: what it has received is older than all that is still        *)
(* queued, and its token still stands for its own packet.                  *)
(***************************************************************************)
EXTENDS CliCommand, RuntimeGlueProofs, SequenceTheorems

-----------------------------------------------------------------------------
(* The inductive invariant.                                                *)

CliTypes ==
  /\ closes \in Seq(Nat)
  /\ device_handle \in {INVALID_HANDLE_VALUE} \cup DOMAIN closes
  /\ win32 \in Win32
  /\ cmd \in Commands
  /\ pc \in Points
  /\ expired \in BOOLEAN
  /\ got \in Seq(Frame)
  /\ error \in Categories

Unopened == {"arguments", "probe", "open", "open_session", "report", "done"}

Holding == {"open_negotiate", "open_close", "session_negotiate", "recv", "decode", "send",
            "close_session"}

(* A handle has been closed once, or it is the one that is held. *)
HandleKept ==
  /\ \A h \in DOMAIN closes : closes[h] = IF h = device_handle THEN 0 ELSE 1
  /\ pc \in Unopened => device_handle = INVALID_HANDLE_VALUE
  /\ pc \in Holding => device_handle # INVALID_HANDLE_VALUE

(* A command has an error only on its way out, and a runtime outlives its  *)
(* handle only if closing the handle failed.                               *)
ErrorKept ==
  /\ pc \notin {"open_close", "drop", "done"} => error = "none"
  /\ pc = "open_close" => error \in {"none", "open_failed", "protocol_mismatch"}
  /\ pc = "arguments" => closes = <<>>
  /\ error = "argument_error" => pc = "done" /\ closes = <<>>
  /\ runtime => \/ device_handle # INVALID_HANDLE_VALUE
                \/ pc \in {"drop", "done"} /\ error # "none"
  /\ pc = "drop" /\ error = "none" => device_handle = INVALID_HANDLE_VALUE

InSession == {"open_session", "session_negotiate", "recv", "decode", "send", "close_session"}

BeforeSession == {"arguments", "probe", "open", "open_negotiate", "open_close", "open_session",
                  "session_negotiate"}

Succeeding == pc \in {"close_session", "report"} \/ (pc \in {"drop", "done"} /\ error = "none")

Asked == IF cmd.kind \in {"probe", "open"} THEN 0 ELSE cmd.count

(* Which command can be where, and with how many frames. *)
CourseKept ==
  /\ pc # "arguments" /\ (pc = "done" => error = "none") => ValidCount /\ ValidFilter
  /\ pc \in InSession => cmd.kind \notin {"probe", "open"}
  /\ pc \in {"open", "open_negotiate", "open_close"} => cmd.kind # "probe"
  /\ pc \in BeforeSession => got = <<>>
  /\ Len(got) <= cmd.count
  /\ pc = "recv" /\ cmd.kind # "monitor" => Len(got) < cmd.count
  /\ pc = "decode" => cmd.kind # "monitor" /\ Len(got) >= 1
  /\ pc = "send" => cmd.kind = "reinject" /\ Len(got) = 1
  /\ Succeeding => cmd.kind # "monitor" /\ Len(got) = Asked

Wanted(frame) ==
  Expected(frame) /\ (cmd.kind = "track" => frame.tag \in cmd.wanted)

(* The frames kept are the wanted ones, but for one not looked at yet, or  *)
(* the one that ended the command.                                         *)
FramesKept ==
  /\ \A k \in 1 .. Len(got) :
       (k < Len(got) \/ (pc # "decode" /\ error = "none")) => Wanted(got[k])
  /\ pc \in {"recv", "decode"} => open_request = cmd.request
  /\ cmd.request.ir = "program" => \A k \in 1 .. Len(got) : got[k].tag \in cmd.request.accepts
  /\ InOrder(got)
  /\ \A k \in 1 .. Len(got) : got[k].layer \in NetworkLayer => got[k].token \in Token

(* Frames the device has given out: their tokens are behind the counter,   *)
(* and still stand for the packets they came with.                         *)
Given(frames) ==
  \A k \in 1 .. Len(frames) :
    frames[k].token # 0 =>
      frames[k].token < reinjection.next_token /\ frames[k].id = Ids[frames[k].token]

(* They are older than every frame that still waits. *)
OlderThanQueued(frames) ==
  \A j \in 1 .. Len(frames), k \in 1 .. Len(Contents(queue)) :
    (frames[j].token # 0 /\ Contents(queue)[k].token # 0) =>
      frames[j].token < Contents(queue)[k].token

OriginKept ==
  /\ pc \in {"recv", "decode", "send"} => Given(got)
  /\ pc \in {"recv", "decode"} => OlderThanQueued(got)
  /\ pc \notin {"close_session", "drop", "report", "done"} => spent = {}
  /\ ReinjectsWhatItReceived

CliInv ==
  GlueInv /\ CliTypes /\ HandleKept /\ ErrorKept /\ CourseKept /\ FramesKept /\ OriginKept

Course == CliTypes /\ HandleKept /\ ErrorKept /\ CourseKept

-----------------------------------------------------------------------------
(* The handle.                                                             *)

LEMMA CommandFacts ==
  ASSUME CliTypes
  PROVE  /\ cmd.request \in Requests /\ cmd.request \in Request
         /\ cmd.count \in Nat
         /\ cmd.kind \in {"probe", "open", "observe", "track", "reinject", "monitor"}
         /\ Len(got) \in Nat /\ Len(closes) \in Nat /\ DOMAIN closes = 1 .. Len(closes)
  BY CommandAssumption, DeviceAssumption DEF CliTypes, Command

LEMMA OpenDeviceHandleIs ==
  ASSUME CliTypes, HandleKept, device_handle = INVALID_HANDLE_VALUE, OpenDeviceHandle
  PROVE  /\ closes' \in Seq(Nat)
         /\ device_handle' \in {INVALID_HANDLE_VALUE} \cup DOMAIN closes'
         /\ win32' \in Win32
         /\ \A h \in DOMAIN closes' : closes'[h] = IF h = device_handle' THEN 0 ELSE 1
         /\ win32' = "ok" => device_handle' # INVALID_HANDLE_VALUE
         /\ win32' # "ok" => UNCHANGED <<gvars, device_handle, closes>>
         /\ UNCHANGED vars
  <1>1. CASE CreateRuntime /\ device_handle' = Len(closes) + 1 /\ closes' = Append(closes, 0)
             /\ win32' = "ok"
    <2>1. /\ closes' \in Seq(Nat) /\ Len(closes) \in Nat
          /\ DOMAIN closes = 1 .. Len(closes) /\ DOMAIN closes' = 1 .. Len(closes) + 1
          /\ \A h \in 1 .. Len(closes) : closes'[h] = closes[h]
          /\ closes'[Len(closes) + 1] = 0
      BY <1>1, AppendProperties DEF CliTypes
    <2>2. \A h \in 1 .. Len(closes) : closes[h] = 1
      BY <2>1 DEF HandleKept, INVALID_HANDLE_VALUE
    <2> QED
      BY <1>1, <2>1, <2>2 DEF INVALID_HANDLE_VALUE, Win32, CreateRuntime
  <1>2. CASE win32' \in Win32 \ {"ok"} /\ UNCHANGED <<gvars, device_handle, closes>>
    BY <1>2 DEF CliTypes, HandleKept, gvars
  <1> QED
    BY <1>1, <1>2 DEF OpenDeviceHandle

LEMMA CloseHandleIs ==
  ASSUME CliTypes, HandleKept, device_handle # INVALID_HANDLE_VALUE, CloseHandle
  PROVE  /\ closes' \in Seq(Nat) /\ DOMAIN closes' = DOMAIN closes /\ closes' # <<>>
         /\ device_handle' = INVALID_HANDLE_VALUE
         /\ win32' \in Win32
         /\ \A h \in DOMAIN closes' : closes'[h] = IF h = device_handle' THEN 0 ELSE 1
         /\ win32' = "failed" \/ ~ runtime'
         /\ DestroyRuntime \/ UNCHANGED gvars
  <1>1. /\ closes \in Seq(Nat) /\ device_handle \in 1 .. Len(closes) /\ Len(closes) \in Nat
        /\ DOMAIN closes = 1 .. Len(closes)
    BY DEF CliTypes
  <1>2. closes[device_handle] = 0 /\ closes' = [closes EXCEPT ![device_handle] = 0 + 1]
    BY <1>1 DEF HandleKept, CloseHandle
  <1>3. /\ closes' \in Seq(Nat) /\ Len(closes') = Len(closes)
        /\ \A h \in 1 .. Len(closes) : closes'[h] = IF h = device_handle THEN 1 ELSE closes[h]
    BY <1>1, <1>2, ExceptSeq
  <1>4. DOMAIN closes' = 1 .. Len(closes)
    BY <1>1, <1>3
  <1> QED
    BY <1>1, <1>3, <1>4
       DEF HandleKept, CloseHandle, DestroyRuntime, INVALID_HANDLE_VALUE, Win32

-----------------------------------------------------------------------------
(* Where the command is: each of its steps keeps the handle, the error and *)
(* the counts in step.                                                     *)

LEMMA CheckArgumentsCourse == Course /\ CheckArguments => Course'
  <1> SUFFICES ASSUME Course, CheckArguments PROVE Course'
    OBVIOUS
  <1> USE DEF Course, CheckArguments, Proceeds
  <1>1. /\ pc = "arguments" /\ device_handle = INVALID_HANDLE_VALUE /\ closes = <<>>
        /\ got = <<>> /\ error = "none" /\ ~ runtime
    BY DEF HandleKept, ErrorKept, CourseKept, Unopened, BeforeSession
  <1>2. UNCHANGED <<device_handle, closes, win32, runtime, cmd, expired, got>>
    BY DEF svars, session, gvars, glue
  <1>3. CASE GoesTo("probe") /\ ValidCount /\ ValidFilter
    BY <1>1, <1>2, <1>3
       DEF GoesTo, CliTypes, Points, HandleKept, Unopened, Holding, ErrorKept, CourseKept,
           InSession, BeforeSession, Succeeding, ValidCount, ValidFilter, SingleShot, FollowsToCount
  <1>4. CASE FailsWith("argument_error") \/ FailsWith("io_failure")
    BY <1>1, <1>2, <1>4
       DEF FailsWith, CliTypes, Points, Categories, HandleKept, Unopened, Holding, ErrorKept,
           CourseKept, InSession, BeforeSession, Succeeding
  <1> QED
    BY <1>3, <1>4

LEMMA OverBudgetCourse == Course /\ OverBudget => Course'
  <1> SUFFICES ASSUME Course, OverBudget PROVE Course'
    OBVIOUS
  <1> USE DEF Course, OverBudget
  <1>1. UNCHANGED <<device_handle, closes, win32, runtime, cmd, expired, got>>
    BY DEF svars, session, gvars, glue
  <1>2. /\ error' = "io_failure"
        /\ pc' = IF device_handle = INVALID_HANDLE_VALUE THEN "done" ELSE "drop"
    BY <1>1 DEF FailsWith
  <1>3. pc \in {"probe", "open", "open_session", "recv", "decode", "send", "close_session", "report"}
    BY DEF Checked
  <1> QED
    BY <1>1, <1>2, <1>3
       DEF CliTypes, Points, Categories, HandleKept, Unopened, Holding, ErrorKept, CourseKept,
           InSession, BeforeSession, Succeeding, ValidCount, ValidFilter, SingleShot, FollowsToCount

LEMMA ProbeCourse == Course /\ Probe => Course'
  <1> SUFFICES ASSUME Course, Probe PROVE Course'
    OBVIOUS
  <1> USE DEF Course, Probe, Proceeds
  <1>1. /\ pc = "probe" /\ device_handle = INVALID_HANDLE_VALUE
        /\ got = <<>> /\ error = "none" /\ ~ runtime
    BY DEF HandleKept, ErrorKept, CourseKept, Unopened, BeforeSession
  <1>2. UNCHANGED <<device_handle, closes, win32, runtime, cmd, expired, got>>
    BY DEF svars, session, gvars, glue
  <1>3. CASE GoesTo(IF cmd.kind = "probe" THEN "report" ELSE "open")
    BY <1>1, <1>2, <1>3
       DEF GoesTo, CliTypes, Points, HandleKept, Unopened, Holding, ErrorKept, CourseKept,
           InSession, BeforeSession, Succeeding, Asked, ValidCount, ValidFilter, SingleShot,
           FollowsToCount
  <1>4. CASE FailsWith("device_unavailable") \/ FailsWith("io_failure")
    BY <1>1, <1>2, <1>4
       DEF FailsWith, CliTypes, Points, Categories, HandleKept, Unopened, Holding, ErrorKept,
           CourseKept, InSession, BeforeSession, Succeeding
  <1> QED
    BY <1>3, <1>4

LEMMA OpenDeviceCourse ==
  ASSUME Course,
         \/ OpenDevice("open", "open_negotiate")
         \/ OpenDevice("open_session", "session_negotiate")
  PROVE  Course'
  <1> USE DEF Course
  <1>1. PICK from \in {"open", "open_session"} :
          /\ pc = from /\ OpenDeviceHandle
          /\ IF win32' = "ok"
             THEN GoesTo(IF from = "open" THEN "open_negotiate" ELSE "session_negotiate")
             ELSE FailsWith(OpenError(win32'))
          /\ UNCHANGED <<cmd, expired, got>>
    BY DEF OpenDevice, Proceeds
  <1>2. /\ device_handle = INVALID_HANDLE_VALUE /\ got = <<>> /\ error = "none" /\ ~ runtime
    BY <1>1 DEF HandleKept, ErrorKept, CourseKept, Unopened, BeforeSession
  <1>3. /\ closes' \in Seq(Nat)
        /\ device_handle' \in {INVALID_HANDLE_VALUE} \cup DOMAIN closes'
        /\ win32' \in Win32
        /\ \A h \in DOMAIN closes' : closes'[h] = IF h = device_handle' THEN 0 ELSE 1
        /\ win32' = "ok" => device_handle' # INVALID_HANDLE_VALUE
        /\ win32' # "ok" => UNCHANGED <<gvars, device_handle, closes>>
    BY <1>1, <1>2, OpenDeviceHandleIs
  <1>4. CASE win32' = "ok"
    BY <1>1, <1>2, <1>3, <1>4
       DEF GoesTo, CliTypes, Points, HandleKept, Unopened, Holding, ErrorKept, CourseKept,
           InSession, BeforeSession, Succeeding, ValidCount, ValidFilter, SingleShot, FollowsToCount
  <1>5. CASE win32' # "ok"
    <2>1. /\ error' \in {"device_unavailable", "open_failed", "io_failure"} /\ pc' = "done"
          /\ ~ runtime' /\ device_handle' = INVALID_HANDLE_VALUE
      BY <1>1, <1>2, <1>3, <1>5 DEF FailsWith, OpenError, Win32, gvars, glue
    <2> QED
      BY <1>1, <1>2, <1>3, <2>1
         DEF CliTypes, Points, Categories, HandleKept, Unopened, Holding, ErrorKept, CourseKept,
             InSession, BeforeSession, Succeeding
  <1> QED
    BY <1>4, <1>5

(* A control call leaves the handle to the device where it is, and either  *)
(* the driver serves it or nothing happens there.                          *)
LEMMA RecvOneIs ==
  ASSUME NEW max_bytes, RecvOne(max_bytes)
  PROVE  /\ UNCHANGED <<device_handle, closes>> /\ win32' \in {"ok", "failed"}
         /\ \/ ControlRecv(max_bytes) /\ (win32' = "ok" <=> result'.status = "Success")
            \/ UNCHANGED gvars /\ win32' = "failed"
  BY DEF RecvOne, DeviceIoControl

LEMMA SendOneIs ==
  ASSUME NEW layer, NEW token, NEW len, SendOne(layer, token, len)
  PROVE  /\ UNCHANGED <<device_handle, closes>> /\ win32' \in {"ok", "failed"}
         /\ \/ ControlSend(layer, token, len) /\ (win32' = "ok" <=> result'.status = "Success")
            \/ UNCHANGED gvars /\ win32' = "failed"
  BY DEF SendOne, DeviceIoControl

LEMMA NegotiateOpenIs ==
  ASSUME NEW request, NegotiateOpen(request)
  PROVE  /\ UNCHANGED <<device_handle, closes>> /\ win32' \in {"ok", "failed"}
         /\ NegotiationErrors \subseteq {"none", "open_failed", "protocol_mismatch"}
         /\ "none" \in NegotiationErrors => win32' = "ok"
         /\ \/ ControlOpen(request, OpenResponseLen) /\ (win32' = "ok" <=> result'.status = "Success")
            \/ UNCHANGED gvars /\ win32' = "failed"
  BY DEF NegotiateOpen, DeviceIoControl, NegotiationErrors

LEMMA NegotiateCourse ==
  ASSUME Course,
         \/ Negotiate("open_negotiate", "open_close")
         \/ Negotiate("session_negotiate", "recv")
  PROVE  Course'
  <1> USE DEF Course
  <1>1. PICK from \in {"open_negotiate", "session_negotiate"} :
          /\ pc = from /\ NegotiateOpen(cmd.request)
          /\ error' \in NegotiationErrors
          /\ pc' = IF error' = "none"
                   THEN (IF from = "open_negotiate" THEN "open_close" ELSE "recv")
                   ELSE "open_close"
          /\ UNCHANGED <<cmd, expired, got>>
    BY DEF Negotiate, Proceeds
  <1>2. /\ UNCHANGED <<device_handle, closes, runtime>> /\ win32' \in Win32
        /\ error' \in {"none", "open_failed", "protocol_mismatch"}
    BY <1>1, NegotiateOpenIs DEF ControlOpen, Win32, gvars, glue
  <1>3. device_handle # INVALID_HANDLE_VALUE /\ got = <<>> /\ error = "none"
    BY <1>1 DEF HandleKept, ErrorKept, CourseKept, Holding, BeforeSession
  <1>4. ValidCount /\ ValidFilter /\ cmd.count \in Nat /\ cmd.count > 0
    BY <1>1, CommandFacts DEF CourseKept, ValidCount
  <1>5. pc = "session_negotiate" => cmd.kind \notin {"probe", "open"}
    BY DEF CourseKept, InSession
  <1> QED
    BY <1>1, <1>2, <1>3, <1>4, <1>5
       DEF CliTypes, Points, Categories, HandleKept, Unopened, Holding, ErrorKept,
           CourseKept, InSession, BeforeSession, Succeeding, ValidCount, ValidFilter, SingleShot,
           FollowsToCount

LEMMA CloseAfterNegotiateCourse == Course /\ CloseAfterNegotiate => Course'
  <1> SUFFICES ASSUME Course, CloseAfterNegotiate PROVE Course'
    OBVIOUS
  <1> USE DEF Course
  <1>1. pc = "open_close" /\ CloseHandle /\ UNCHANGED <<cmd, expired, got>>
    BY DEF CloseAfterNegotiate, Proceeds
  <1>2. /\ device_handle # INVALID_HANDLE_VALUE /\ got = <<>>
        /\ error \in {"none", "open_failed", "protocol_mismatch"}
    BY <1>1 DEF HandleKept, ErrorKept, CourseKept, Holding, BeforeSession
  <1>3. /\ closes' \in Seq(Nat) /\ win32' \in Win32
        /\ device_handle' = INVALID_HANDLE_VALUE
        /\ \A h \in DOMAIN closes' : closes'[h] = IF h = device_handle' THEN 0 ELSE 1
        /\ win32' = "failed" \/ ~ runtime'
    BY <1>1, <1>2, CloseHandleIs
  <1>4. ValidCount /\ ValidFilter
    BY <1>1 DEF CourseKept
  <1>5. CASE /\ win32' # "failed" /\ error = "none"
             /\ GoesTo(IF cmd.kind = "open" THEN "report" ELSE "open_session")
    <2>1. ~ runtime' /\ error' = "none" /\ UNCHANGED <<cmd, expired, got>>
      BY <1>1, <1>2, <1>3, <1>5 DEF GoesTo
    <2>2. /\ Len(got) = 0 /\ Len(got) <= cmd.count
          /\ (ValidCount /\ ValidFilter)'
      BY <1>2, <1>4, <2>1
         DEF CourseKept, ValidCount, ValidFilter, SingleShot, FollowsToCount
    <2>3. CASE cmd.kind = "open" /\ pc' = "report"
      <3>1. (CliTypes /\ HandleKept /\ ErrorKept)'
        BY <1>3, <2>1, <2>3
           DEF CliTypes, Points, Categories, HandleKept, Unopened, Holding, ErrorKept
      <3> QED
        BY <1>2, <2>1, <2>2, <2>3, <3>1
           DEF CourseKept, InSession, BeforeSession, Succeeding, Asked
    <2>4. CASE cmd.kind # "open" /\ pc' = "open_session"
      <3>1. cmd.kind # "probe"
        BY <1>1 DEF CourseKept
      <3>2. (CliTypes /\ HandleKept /\ ErrorKept)'
        BY <1>3, <2>1, <2>4
           DEF CliTypes, Points, Categories, HandleKept, Unopened, Holding, ErrorKept
      <3> QED
        BY <1>2, <2>1, <2>2, <2>4, <3>1, <3>2
           DEF CourseKept, InSession, BeforeSession, Succeeding
    <2> QED
      BY <1>5, <2>3, <2>4 DEF GoesTo
  <1>6. CASE FailsWith("io_failure") \/ (error # "none" /\ FailsWith(error))
    BY <1>1, <1>2, <1>3, <1>6
       DEF FailsWith, CliTypes, Points, Categories, HandleKept, Unopened, Holding, ErrorKept,
           CourseKept, InSession, BeforeSession, Succeeding
  <1> QED
    BY <1>5, <1>6 DEF CloseAfterNegotiate

(* A step that ends the command with io_failure, with or without a handle. *)
LEMMA FailingCourse ==
  ASSUME Course, pc \in {"recv", "decode", "send"}, FailsWith("io_failure"),
         UNCHANGED <<device_handle, closes, runtime, cmd, expired, got>>, win32' \in Win32
  PROVE  Course'
  <1>1. device_handle # INVALID_HANDLE_VALUE /\ error' = "io_failure" /\ pc' = "drop"
    BY DEF Course, HandleKept, Holding, FailsWith
  <1>2. ValidCount' /\ ValidFilter' /\ Len(got') <= cmd'.count
    BY DEF Course, CourseKept, ValidCount, ValidFilter, SingleShot, FollowsToCount
  <1> QED
    BY <1>1, <1>2
       DEF Course, CliTypes, Points, Categories, HandleKept, Unopened, Holding, ErrorKept,
           CourseKept, InSession, BeforeSession, Succeeding

LEMMA RecvCourse == GlueInv /\ Course /\ Recv => Course'
  <1> SUFFICES ASSUME GlueInv, Course, Recv PROVE Course'
    OBVIOUS
  <1>1. pc = "recv" /\ cmd.kind # "monitor" /\ RecvOne(MaxRecvBytes) /\ UNCHANGED <<cmd, expired>>
    BY DEF Recv, Proceeds
  <1>2. UNCHANGED <<device_handle, closes, runtime>> /\ win32' \in Win32
    BY <1>1, RecvOneIs DEF ControlRecv, Win32, gvars, glue
  <1>3. CASE win32' = "ok" /\ got' = Append(got, Oldest(queue)) /\ GoesTo("decode")
    <2>1. Oldest(queue) \in Frame
      <3>1. Delivers
        BY <1>1, <1>3, RecvOneIs, RecvServes
      <3> QED
        BY <3>1, DeviceFacts, DropOldestKeepsNoStaleSlot DEF GlueInv, ContractInv, Delivers
    <2>2. got' \in Seq(Frame) /\ Len(got') = Len(got) + 1 /\ Len(got) \in Nat
      BY <1>3, <2>1, AppendProperties DEF Course, CliTypes
    <2>3. /\ device_handle # INVALID_HANDLE_VALUE /\ error = "none" /\ Len(got) < cmd.count
          /\ ValidCount /\ ValidFilter /\ cmd.kind \notin {"probe", "open"} /\ cmd.count \in Nat
      BY <1>1, CommandFacts DEF Course, HandleKept, ErrorKept, CourseKept, Holding, InSession
    <2> QED
      BY <1>1, <1>2, <1>3, <2>2, <2>3
         DEF Course, GoesTo, CliTypes, Points, HandleKept, Unopened, Holding, ErrorKept,
             CourseKept, InSession, BeforeSession, Succeeding, ValidCount, ValidFilter,
             SingleShot, FollowsToCount
  <1>4. CASE UNCHANGED got /\ FailsWith("io_failure")
    BY <1>1, <1>2, <1>4, FailingCourse
  <1> QED
    BY <1>3, <1>4 DEF Recv

LEMMA MonitorPollsCourse == Course /\ MonitorPolls => Course'
  <1> SUFFICES ASSUME Course, MonitorPolls PROVE Course'
    OBVIOUS
  <1>1. /\ pc = "recv" /\ RecvOne(MaxRecvBytes) /\ pc' = "recv"
        /\ UNCHANGED <<cmd, expired, got, error>>
    BY DEF MonitorPolls, Proceeds, GoesTo
  <1>2. UNCHANGED <<device_handle, closes, runtime>> /\ win32' \in Win32
    BY <1>1, RecvOneIs DEF ControlRecv, Win32, gvars, glue
  <1> QED
    BY <1>1, <1>2
       DEF Course, CliTypes, HandleKept, ErrorKept, CourseKept, Succeeding, Asked, ValidCount,
           ValidFilter, SingleShot, FollowsToCount

LEMMA ButLast ==
  ASSUME NEW S, NEW s \in Seq(S), Len(s) >= 1
  PROVE  /\ SubSeq(s, 1, Len(s) - 1) \in Seq(S)
         /\ Len(SubSeq(s, 1, Len(s) - 1)) = Len(s) - 1
         /\ \A k \in 1 .. Len(s) - 1 : SubSeq(s, 1, Len(s) - 1)[k] = s[k]
  <1> DEFINE last == Len(s) - 1
  <1>1. last \in Nat /\ 1 \in Int /\ last \in Int /\ (\A k \in 1 .. last : s[k] \in S)
    OBVIOUS
  <1> HIDE DEF last
  <1>2. /\ SubSeq(s, 1, last) \in Seq(S)
        /\ Len(SubSeq(s, 1, last)) = IF 1 <= last THEN last - 1 + 1 ELSE 0
        /\ \A k \in 1 .. last - 1 + 1 : SubSeq(s, 1, last)[k] = s[1 + k - 1]
    BY <1>1, SubSeqProperties
  <1>3. (IF 1 <= last THEN last - 1 + 1 ELSE 0) = last /\ last - 1 + 1 = last
    BY <1>1
  <1>4. \A k \in 1 .. last : 1 + k - 1 = k
    BY <1>1
  <1> QED
    BY <1>2, <1>3, <1>4 DEF last

LEMMA DecodeCourse == Course /\ Decode => Course'
  <1> SUFFICES ASSUME Course, Decode PROVE Course'
    OBVIOUS
  <1> DEFINE n == Len(got)
             frame == got[n]
             next == IF cmd.kind = "reinject" THEN "send"
                     ELSE IF n = cmd.count THEN "close_session" ELSE "recv"
  <1>1. /\ pc = "decode" /\ UNCHANGED <<device_handle, closes, win32, runtime, cmd, expired>>
        /\ \/ UNCHANGED got /\ FailsWith("io_failure")
           \/ /\ cmd.kind = "track" /\ got' = SubSeq(got, 1, n - 1) /\ GoesTo("recv")
           \/ UNCHANGED got /\ GoesTo(next)
    BY DEF Decode, Proceeds, svars, session, gvars, glue
  <1>2. /\ device_handle # INVALID_HANDLE_VALUE /\ error = "none"
        /\ cmd.kind \notin {"probe", "open", "monitor"}
        /\ n \in 1 .. cmd.count /\ cmd.count \in Nat /\ n \in Nat
    BY <1>1, CommandFacts DEF Course, HandleKept, ErrorKept, CourseKept, Holding, InSession
  <1>3. (ValidCount /\ ValidFilter)' /\ (cmd.kind = "reinject" => cmd.count = 1)
    BY <1>1, <1>2 DEF Course, CourseKept, ValidCount, ValidFilter, SingleShot, FollowsToCount
  <1>4. CASE UNCHANGED got /\ FailsWith("io_failure")
    BY <1>1, <1>4, FailingCourse DEF Course, CliTypes
  <1>5. CASE got' = SubSeq(got, 1, n - 1) /\ GoesTo("recv")
    <2>1. got' \in Seq(Frame) /\ Len(got') = n - 1
      BY <1>2, <1>5, ButLast DEF Course, CliTypes
    <2>2. /\ pc' = "recv" /\ error' = "none" /\ Len(got') = n - 1
          /\ UNCHANGED <<device_handle, closes, win32, runtime, cmd, expired>>
      BY <1>1, <1>2, <1>5, <2>1 DEF GoesTo
    <2> HIDE DEF n
    <2>3. (CliTypes /\ HandleKept /\ ErrorKept)'
      BY <1>2, <2>1, <2>2
         DEF Course, CliTypes, Points, Categories, HandleKept, Unopened, Holding, ErrorKept
    <2>4. CourseKept'
      BY <1>2, <1>3, <2>2 DEF CourseKept, InSession, BeforeSession, Succeeding, Asked
    <2> QED
      BY <2>3, <2>4 DEF Course
  <1>6. CASE UNCHANGED got /\ GoesTo(next)
    <2>1. next \in {"send", "close_session", "recv"}
      OBVIOUS
    <2>2. next = "send" => cmd.kind = "reinject" /\ n = 1
      <3>1. next = "send" => cmd.kind = "reinject"
        OBVIOUS
      <3> HIDE DEF n
      <3>2. cmd.kind = "reinject" => n = 1
        BY <1>2, <1>3
      <3> QED
        BY <3>1, <3>2
    <2>3. next = "close_session" => n = cmd.count
      OBVIOUS
    <2>4. next = "recv" => n < cmd.count
      BY <1>2
    <2> HIDE DEF next
    <2>5. /\ pc' = next /\ error' = "none" /\ Len(got') = n
          /\ UNCHANGED <<device_handle, closes, win32, runtime, cmd, expired, got>>
      BY <1>1, <1>2, <1>6 DEF GoesTo
    <2> HIDE DEF n
    <2>6. (CliTypes /\ HandleKept /\ ErrorKept)'
      BY <1>2, <2>1, <2>5
         DEF Course, CliTypes, Points, Categories, HandleKept, Unopened, Holding, ErrorKept
    <2>7. CourseKept'
      BY <1>2, <1>3, <2>1, <2>2, <2>3, <2>4, <2>5
         DEF CourseKept, InSession, BeforeSession, Succeeding, Asked
    <2> QED
      BY <2>6, <2>7 DEF Course
  <1> QED
    BY <1>1, <1>4, <1>5, <1>6

LEMMA SendCourse == Course /\ Send => Course'
  <1> SUFFICES ASSUME Course, Send PROVE Course'
    OBVIOUS
  <1>1. /\ pc = "send" /\ SendOne(got[1].layer, got[1].token, PacketLen(got[1]))
        /\ UNCHANGED <<cmd, expired, got>>
        /\ GoesTo("close_session") \/ FailsWith("io_failure")
    BY DEF Send, Proceeds
  <1>2. UNCHANGED <<device_handle, closes, runtime>> /\ win32' \in Win32
    BY <1>1, SendOneIs DEF ControlSend, Win32, gvars, glue
  <1>3. CASE GoesTo("close_session")
    <2>1. /\ device_handle # INVALID_HANDLE_VALUE /\ error = "none"
          /\ cmd.kind = "reinject" /\ Len(got) = 1
      BY <1>1 DEF Course, HandleKept, ErrorKept, CourseKept, Holding
    <2>2. (ValidCount /\ ValidFilter)' /\ cmd.count = 1
      BY <1>1, <2>1 DEF Course, CourseKept, ValidCount, ValidFilter, SingleShot, FollowsToCount
    <2> QED
      BY <1>1, <1>2, <1>3, <2>1, <2>2
         DEF GoesTo, Course, CliTypes, Points, HandleKept, Unopened, Holding, ErrorKept,
             CourseKept, InSession, BeforeSession, Succeeding, Asked
  <1>4. CASE FailsWith("io_failure")
    BY <1>1, <1>2, <1>4, FailingCourse
  <1> QED
    BY <1>1, <1>3, <1>4

LEMMA CloseSessionCourse == Course /\ CloseSession => Course'
  <1> SUFFICES ASSUME Course, CloseSession PROVE Course'
    OBVIOUS
  <1>1. /\ pc = "close_session" /\ CloseHandle /\ pc' = "drop"
        /\ error' = IF win32' = "failed" THEN "io_failure" ELSE "none"
        /\ UNCHANGED <<cmd, expired, got>>
    BY DEF CloseSession, Proceeds
  <1>2. /\ device_handle # INVALID_HANDLE_VALUE /\ error = "none"
        /\ cmd.kind # "monitor" /\ Len(got) = Asked
    BY <1>1 DEF Course, HandleKept, ErrorKept, CourseKept, Holding, Succeeding
  <1>3. /\ closes' \in Seq(Nat) /\ win32' \in Win32
        /\ device_handle' = INVALID_HANDLE_VALUE
        /\ \A h \in DOMAIN closes' : closes'[h] = IF h = device_handle' THEN 0 ELSE 1
        /\ win32' = "failed" \/ ~ runtime'
    BY <1>1, <1>2, CloseHandleIs DEF Course
  <1>4. (ValidCount /\ ValidFilter)' /\ Asked' = Asked /\ Len(got) <= cmd.count
    BY <1>1 DEF Course, CourseKept, ValidCount, ValidFilter, SingleShot, FollowsToCount, Asked
  <1> QED
    BY <1>1, <1>2, <1>3, <1>4
       DEF Course, CliTypes, Points, Categories, HandleKept, Unopened, Holding, ErrorKept,
           CourseKept, InSession, BeforeSession, Succeeding

LEMMA DropCourse == Course /\ Drop => Course'
  <1> SUFFICES ASSUME Course, Drop PROVE Course'
    OBVIOUS
  <1>1. /\ pc = "drop"
        /\ IF device_handle = INVALID_HANDLE_VALUE THEN UNCHANGED svars ELSE CloseHandle
        /\ pc' = IF error = "none" THEN "report" ELSE "done"
        /\ UNCHANGED <<cmd, expired, got, error>>
    BY DEF Drop, Proceeds, GoesTo
  <1>2. /\ closes' \in Seq(Nat) /\ win32' \in Win32
        /\ device_handle' = INVALID_HANDLE_VALUE
        /\ \A h \in DOMAIN closes' : closes'[h] = IF h = device_handle' THEN 0 ELSE 1
        /\ error = "none" => ~ runtime'
    <2>1. CASE device_handle = INVALID_HANDLE_VALUE
      BY <1>1, <2>1 DEF svars, session, gvars, glue, Course, CliTypes, HandleKept, ErrorKept
    <2>2. CASE device_handle # INVALID_HANDLE_VALUE
      BY <1>1, <2>2, CloseHandleIs DEF Course, ErrorKept
    <2> QED
      BY <2>1, <2>2
  <1>3. (ValidCount /\ ValidFilter)' /\ Asked' = Asked /\ Len(got) <= cmd.count
    BY <1>1 DEF Course, CourseKept, ValidCount, ValidFilter, SingleShot, FollowsToCount, Asked
  <1>4. /\ error = "none" => cmd.kind # "monitor" /\ Len(got) = Asked
        /\ error # "argument_error"
    BY <1>1 DEF Course, ErrorKept, CourseKept, Succeeding
  <1> QED
    BY <1>1, <1>2, <1>3, <1>4
       DEF Course, CliTypes, Points, HandleKept, Unopened, Holding, ErrorKept, CourseKept,
           InSession, BeforeSession, Succeeding

LEMMA ReportCourse == Course /\ Report => Course'
  <1> SUFFICES ASSUME Course, Report PROVE Course'
    OBVIOUS
  <1>1. /\ pc = "report" /\ pc' = "done"
        /\ UNCHANGED <<device_handle, closes, win32, runtime, cmd, expired, got, error>>
    BY DEF Report, Proceeds, GoesTo, svars, session, gvars, glue
  <1>2. (ValidCount /\ ValidFilter)' /\ Asked' = Asked
    BY <1>1 DEF Course, CourseKept, ValidCount, ValidFilter, SingleShot, FollowsToCount, Asked
  <1> QED
    BY <1>1, <1>2
       DEF Course, CliTypes, Points, HandleKept, Unopened, Holding, ErrorKept, CourseKept,
           InSession, BeforeSession, Succeeding

(* Time passes, packets and events arrive: the command is where it was.    *)
LEMMA IdleCourse ==
  ASSUME Course, expired' \in BOOLEAN,
         UNCHANGED <<runtime, device_handle, closes, win32, cmd, pc, got, error>>
  PROVE  Course'
  BY DEF Course, CliTypes, HandleKept, ErrorKept, CourseKept, Succeeding, Asked, ValidCount,
         ValidFilter, SingleShot, FollowsToCount

LEMMA CourseStep == GlueInv /\ Course /\ [CliNext]_cvars => Course'
  <1> SUFFICES ASSUME GlueInv, Course, [CliNext]_cvars PROVE Course'
    OBVIOUS
  <1>1. CASE CommandStep
    BY <1>1, CheckArgumentsCourse, OverBudgetCourse, ProbeCourse, OpenDeviceCourse,
       NegotiateCourse, CloseAfterNegotiateCourse, RecvCourse, MonitorPollsCourse, DecodeCourse,
       SendCourse, CloseSessionCourse, DropCourse, ReportCourse DEF CommandStep
  <1>2. CASE Expire
    BY <1>2, IdleCourse DEF Expire, svars, session, gvars, glue
  <1>3. CASE PacketArrives \/ EventArrives
    BY <1>3, IdleCourse
       DEF PacketArrives, EventArrives, CaptureNetwork, session, glue, cli, Course, CliTypes
  <1>4. CASE UNCHANGED cvars
    BY <1>4, IdleCourse DEF cvars, svars, session, gvars, glue, cli, Course, CliTypes
  <1> QED
    BY <1>1, <1>2, <1>3, <1>4 DEF CliNext

LEMMA CourseInit == CliInit => Course
  <1> SUFFICES ASSUME CliInit PROVE Course
    OBVIOUS
  <1>1. cmd \in Commands /\ cmd.count \in Nat
    BY CommandAssumption DEF CliInit, Command
  <1>2. /\ pc = "arguments" /\ error = "none" /\ got = <<>> /\ closes = <<>>
        /\ device_handle = INVALID_HANDLE_VALUE /\ win32 = "ok" /\ ~ runtime /\ expired = FALSE
    BY DEF CliInit, SessionInit, GlueInit
  <1>3. Len(<<>>) = 0 /\ DOMAIN closes = {} /\ closes \in Seq(Nat) /\ got \in Seq(Frame)
    BY <1>2
  <1>4. CliTypes /\ HandleKept /\ ErrorKept
    BY <1>1, <1>2, <1>3
       DEF CliTypes, Win32, Points, Categories, HandleKept, Unopened, Holding, ErrorKept
  <1>5. CourseKept
    BY <1>1, <1>2, <1>3 DEF CourseKept, InSession, BeforeSession, Succeeding
  <1> QED
    BY <1>4, <1>5 DEF Course

-----------------------------------------------------------------------------
(* The driver side of a step.                                              *)

(* What the kernel side does leaves the command alone, keeps the tokens    *)
(* given out and their packets, and queues at most one frame, the newest.  *)
Arrives ==
  /\ UNCHANGED <<runtime, device_handle, closes, win32, cli, open_request, accepted>>
  /\ reinjection'.next_token \in Int /\ reinjection'.next_token >= reinjection.next_token
  /\ \A t \in Token : t < reinjection.next_token => Ids'[t] = Ids[t]
  /\ \A k \in 1 .. Len(Contents(queue')) :
       \/ Contents(queue')[k].token \in {0, reinjection.next_token}
       \/ \E j \in 1 .. Len(Contents(queue)) : Contents(queue')[k] = Contents(queue)[j]

LEMMA EnqueuedFrames ==
  ASSUME DeviceInv, NEW frame \in Frame, frame # Vacant,
         NEW k \in 1 .. Len(Contents(Enqueued(frame)))
  PROVE  \/ Contents(Enqueued(frame))[k] = frame
         \/ \E j \in 1 .. Len(Contents(queue)) : Contents(Enqueued(frame))[k] = Contents(queue)[j]
  <1> DEFINE old == Contents(queue)
             new == Contents(Enqueued(frame))
  <1>1. /\ old \in Seq(Frame)
        /\ \/ new = old
           \/ new = Append(old, frame)
           \/ old # <<>> /\ new = Append(Tail(old), frame)
    BY DeviceFacts, EnqueuedIs DEF DeviceInv
  <1>2. k \in 1 .. Len(new)
    OBVIOUS
  <1> HIDE DEF old, new
  <1>3. CASE new = old
    BY <1>3 DEF old, new
  <1>4. CASE new = Append(old, frame)
    <2>1. /\ Len(new) = Len(old) + 1 /\ Len(old) \in Nat
          /\ \A i \in 1 .. Len(old) : new[i] = old[i]
          /\ new[Len(old) + 1] = frame
      BY <1>1, <1>4, AppendProperties
    <2>2. k = Len(old) + 1 \/ k \in 1 .. Len(old)
      BY <1>2, <2>1
    <2> QED
      BY <2>1, <2>2 DEF old, new
  <1>5. CASE old # <<>> /\ new = Append(Tail(old), frame)
    <2>1. /\ Tail(old) \in Seq(Frame) /\ Len(Tail(old)) = Len(old) - 1 /\ Len(old) \in Nat \ {0}
          /\ \A i \in 1 .. Len(Tail(old)) : Tail(old)[i] = old[i + 1] /\ i + 1 \in 1 .. Len(old)
      BY <1>1, <1>5, HeadTailProperties
    <2> DEFINE n == Len(Tail(old))
    <2>2. /\ Len(new) = n + 1
          /\ \A i \in 1 .. n : new[i] = Tail(old)[i]
          /\ new[n + 1] = frame
      BY <1>5, <2>1, AppendProperties
    <2>3. n \in Nat /\ \A i \in 1 .. n : Tail(old)[i] = old[i + 1] /\ i + 1 \in 1 .. Len(old)
      BY <2>1
    <2> HIDE DEF n
    <2>4. k = n + 1 \/ k \in 1 .. n
      BY <1>2, <2>2, <2>3
    <2> QED
      BY <2>2, <2>3, <2>4 DEF old, new
  <1> QED
    BY <1>1, <1>3, <1>4, <1>5

LEMMA QuietArrives ==
  ASSUME GlueInv, UNCHANGED <<device, history, runtime, session, cli>>
  PROVE  Arrives
  <1>1. reinjection.next_token \in Int /\ Ids' = Ids
    BY DeviceFacts DEF GlueInv, ContractInv, history, Ids
  <1> QED
    BY <1>1 DEF Arrives, device, handle, history, session

LEMMA IssuesArrives ==
  ASSUME GlueInv, NEW layer \in NetworkLayer, NEW packet \in Packets, Issues(layer, packet),
         UNCHANGED <<runtime, session, cli>>
  PROVE  Arrives
  <1> DEFINE frame == NetworkFrame(layer, packet)
             n == reinjection.next_token
  <1>1. DeviceInv /\ n \in Int /\ n \in Token
    BY DeviceFacts DEF GlueInv, ContractInv
  <1>2. frame \in Frame /\ frame # Vacant /\ frame.token = n
    BY <1>1, DeviceFacts, NetworkFrameIsFrame
  <1>3. /\ reinjection' = Issue(reinjection, packet.id) /\ queue' = Enqueued(frame)
        /\ issued' = [issued EXCEPT ![n] = [packet_id |-> packet.id, layer |-> layer]]
        /\ UNCHANGED <<handle, accepted>>
    BY DEF Issues, IssueAndEnqueue
  <1> HIDE DEF frame
  <1>4. reinjection'.next_token \in {n, n + 1}
    BY <1>3 DEF Issue
  <1>5. \A t \in Token : t < n => Ids'[t] = Ids[t]
    BY <1>1, <1>3 DEF Ids, DeviceInv, TypeOK
  <1>6. \A k \in 1 .. Len(Contents(queue')) :
          \/ Contents(queue')[k].token = n
          \/ \E j \in 1 .. Len(Contents(queue)) : Contents(queue')[k] = Contents(queue)[j]
    BY <1>1, <1>2, <1>3, EnqueuedFrames
  <1> QED
    BY <1>1, <1>3, <1>4, <1>5, <1>6 DEF Arrives, handle, session

LEMMA NotesArrives ==
  ASSUME GlueInv, NEW frame \in PlainFrames, Notes(frame), UNCHANGED <<runtime, session, cli>>
  PROVE  Arrives
  <1>1. DeviceInv /\ reinjection.next_token \in Int /\ Ids' = Ids
    BY DeviceFacts DEF GlueInv, ContractInv, Notes, history, Ids
  <1>2. \A k \in 1 .. Len(Contents(queue')) :
          \/ Contents(queue')[k].token = 0
          \/ \E j \in 1 .. Len(Contents(queue)) : Contents(queue')[k] = Contents(queue)[j]
    BY <1>1, PlainFrameIsFrame, EnqueuedFrames DEF Notes
  <1> QED
    BY <1>1, <1>2 DEF Arrives, Notes, handle, history, session

LEMMA ArrivalArrives ==
  ASSUME GlueInv, PacketArrives \/ EventArrives
  PROVE  Arrives /\ Serves
  <1>1. CASE PacketArrives
    <2>1. PICK layer \in CaptureLayers, packet \in Packets :
            CaptureNetwork(layer, packet) /\ Unsaturated'
      BY <1>1 DEF PacketArrives
    <2>2. Serves /\ UNCHANGED <<runtime, session, cli>>
      BY <1>1, <2>1, CaptureServes DEF PacketArrives
    <2>3. Refused \/ Ignored \/ (layer \in NetworkLayer /\ Issues(layer, packet))
      BY <2>1, CaptureKind DEF CaptureNetwork
    <2> QED
      BY <2>2, <2>3, QuietArrives, IssuesArrives DEF Refused, Quiet, Ignored
  <1>2. CASE EventArrives
    <2>1. UNCHANGED <<glue, session, cli>>
      BY <1>2 DEF EventArrives
    <2>2. Refused \/ Ignored \/ \E frame \in PlainFrames : Notes(frame)
      BY <1>2, PlainKind DEF EventArrives
    <2>3. CallKinds /\ UNCHANGED accepted
      BY <2>2, IgnoredIsQuiet DEF CallKinds, Refused, Quiet, Notes, history
    <2>4. Serves
      BY <2>1, <2>3 DEF Serves, UnsaturatedKinds, glue, GlueInv, GlueTypeOK, ResultKept, Result
    <2> QED
      BY <2>1, <2>2, <2>4, QuietArrives, NotesArrives DEF Refused, Quiet, Ignored, glue
  <1> QED
    BY <1>1, <1>2

(* The driver's invariant is kept by all that a command does. *)
LEMMA CliServes ==
  ASSUME GlueInv, Course, CliNext
  PROVE  Serves \/ DestroyRuntime \/ UNCHANGED gvars
  <1>1. CASE CheckArguments \/ OverBudget \/ Probe \/ Decode \/ Report \/ Expire
    BY <1>1 DEF CheckArguments, OverBudget, Probe, Decode, Report, Expire, svars
  <1>2. CASE \/ OpenDevice("open", "open_negotiate")
             \/ OpenDevice("open_session", "session_negotiate")
    BY <1>2, CreateServes DEF OpenDevice, OpenDeviceHandle
  <1>3. CASE \/ Negotiate("open_negotiate", "open_close")
             \/ Negotiate("session_negotiate", "recv")
    BY <1>3, CommandFacts, NegotiateOpenIs, OpenServes DEF Course, Negotiate
  <1>4. CASE Recv \/ MonitorPolls
    BY <1>4, RecvOneIs, RecvServes DEF Recv, MonitorPolls
  <1>5. CASE Send
    BY <1>5, SendOneIs, SendServes DEF Send
  <1>6. CASE CloseAfterNegotiate \/ CloseSession \/ Drop
    BY <1>6 DEF CloseAfterNegotiate, CloseSession, Drop, CloseHandle, svars
  <1>7. CASE PacketArrives \/ EventArrives
    BY <1>7, ArrivalArrives
  <1> QED
    BY <1>1, <1>2, <1>3, <1>4, <1>5, <1>6, <1>7 DEF CliNext, CommandStep

LEMMA GlueInvCliStep == GlueInv /\ Course /\ [CliNext]_cvars => GlueInv'
  <1> SUFFICES ASSUME GlueInv, Course, [CliNext]_cvars PROVE GlueInv'
    OBVIOUS
  <1>1. CASE UNCHANGED gvars
    <2>1. Serves
      BY <1>1 DEF gvars, glue, vars, history, Serves, GlueInv, GlueTypeOK, ResultKept, Result
    <2> QED
      BY <2>1, ServesKeeps
  <1>2. CASE UNCHANGED cvars
    BY <1>1, <1>2 DEF cvars, svars
  <1> QED
    BY <1>1, <1>2, CliServes, ServesKeeps, DestroyKeeps

-----------------------------------------------------------------------------
(* The frames received.                                                    *)

(* A step that receives nothing. *)
LEMMA FramesStay ==
  ASSUME CliTypes, FramesKept, UNCHANGED <<cmd, got>>,
         (pc' # "decode" /\ error' = "none") => (pc # "decode" /\ error = "none"),
         pc' \in {"recv", "decode"} => open_request' = cmd.request
  PROVE  FramesKept'
  BY DEF FramesKept, Wanted, Expected, InOrder, PacketLen

(* The frame the device delivers is the oldest it holds. *)
LEMMA DeliveredFrame ==
  ASSUME GlueInv, Delivers
  PROVE  /\ Oldest(queue) \in Frame
         /\ 1 \in 1 .. Len(Contents(queue)) /\ Contents(queue)[1] = Oldest(queue)
         /\ Len(Contents(queue')) = Len(Contents(queue)) - 1
         /\ \A k \in 1 .. Len(Contents(queue')) :
              k + 1 \in 1 .. Len(Contents(queue)) /\ Contents(queue')[k] = Contents(queue)[k + 1]
         /\ UNCHANGED <<open_request, reinjection, issued, accepted>>
  <1> DEFINE old == Contents(queue)
             new == Contents(queue')
  <1>1. old \in Seq(Frame) /\ old # <<>> /\ new = Tail(old) /\ Oldest(queue) = Head(old)
    BY DeviceFacts, DropOldestIsTail DEF GlueInv, ContractInv, Delivers
  <1> HIDE DEF old, new
  <1>2. /\ Head(old) = old[1] /\ old[1] \in Frame
        /\ Len(new) = Len(old) - 1 /\ Len(old) \in Nat \ {0}
        /\ \A k \in 1 .. Len(new) : k + 1 \in 1 .. Len(old) /\ new[k] = old[k + 1]
    BY <1>1, HeadTailProperties
  <1> QED
    BY <1>1, <1>2 DEF old, new, Delivers, handle, history

(* With its token it carries the id the token was issued for, and none of  *)
(* the frames behind it is older.                                          *)
LEMMA DeliveredFacts ==
  ASSUME GlueInv, Delivers
  PROVE  /\ Oldest(queue).layer \in NetworkLayer => Oldest(queue).token \in Token
         /\ Oldest(queue).token # 0 =>
              /\ Oldest(queue).token < reinjection.next_token
              /\ Oldest(queue).id = Ids[Oldest(queue).token]
              /\ \A k \in 1 .. Len(Contents(queue')) :
                   Contents(queue')[k].token # 0 => Oldest(queue).token < Contents(queue')[k].token
         /\ open_request.ir = "program" => Oldest(queue).tag \in open_request.accepts
  <1> DEFINE first == Oldest(queue)
             old == Contents(queue)
             n == reinjection.next_token
  <1>1. /\ 1 \in 1 .. Len(old) /\ old[1] = first /\ Len(old) \in Nat /\ n \in Int
        /\ \A k \in 1 .. Len(Contents(queue')) :
             k + 1 \in 1 .. Len(old) /\ 1 < k + 1 /\ Contents(queue')[k] = old[k + 1]
    <2>1. \A k \in Nat \ {0} : 1 < k + 1
      OBVIOUS
    <2> QED
      BY <2>1, DeliveredFrame, DeviceFacts DEF GlueInv, ContractInv
  <1>2. FrameAges(old, n, Ids) /\ InOrder(old) /\ FilterKept
    BY DEF GlueInv, ContractInv, DeviceInv, TokensKept
  <1>3. open_request.ir = "program" => first.tag \in open_request.accepts
    BY <1>1, <1>2 DEF FilterKept, AllMatch
  <1> HIDE DEF old, first, n
  <1>4. IF first.layer \in NetworkLayer
        THEN /\ first.token \in Token /\ n - first.token \in 1 .. Len(old)
             /\ first.id = Ids[first.token]
        ELSE first.token = 0
    <2>1. Len(old) - 1 + 1 = Len(old)
      BY <1>1
    <2> QED
      BY <1>1, <1>2, <2>1 DEF FrameAges
  <1>5. first.token # 0 => first.token < n /\ first.id = Ids[first.token]
    <2>1. \A t \in Token : n - t \in 1 .. Len(old) => t < n
      BY <1>1 DEF Token
    <2> QED
      BY <1>4, <2>1
  <1>6. first.token # 0 =>
          \A k \in 1 .. Len(Contents(queue')) :
            Contents(queue')[k].token # 0 => first.token < Contents(queue')[k].token
    BY <1>1, <1>2 DEF InOrder
  <1> QED
    BY <1>3, <1>4, <1>5, <1>6 DEF first, n

(* receive *)
LEMMA RecvIs ==
  ASSUME GlueInv, Course, Recv
  PROVE  /\ pc = "recv" /\ error = "none" /\ UNCHANGED cmd
         /\ \/ /\ Delivers /\ Oldest(queue) \in Frame
               /\ got' = Append(got, Oldest(queue)) /\ pc' = "decode" /\ error' = "none"
            \/ /\ UNCHANGED <<device, history>>
               /\ pc' = "drop" /\ error' = "io_failure" /\ UNCHANGED got
  <1>1. /\ pc = "recv" /\ RecvOne(MaxRecvBytes) /\ UNCHANGED cmd
        /\ IF win32' = "ok"
           THEN got' = Append(got, Oldest(queue)) /\ GoesTo("decode")
           ELSE UNCHANGED got /\ FailsWith("io_failure")
    BY DEF Recv, Proceeds
  <1>2. error = "none" /\ device_handle # INVALID_HANDLE_VALUE
    BY <1>1 DEF Course, ErrorKept, HandleKept, Holding
  <1>3. /\ UNCHANGED device_handle
        /\ \/ ControlRecv(MaxRecvBytes) /\ (win32' = "ok" <=> result'.status = "Success")
           \/ UNCHANGED gvars /\ win32' = "failed"
    BY <1>1, RecvOneIs
  <1>4. /\ win32' = "ok" => Delivers
        /\ win32' # "ok" => UNCHANGED <<device, history>>
    BY <1>3, RecvServes DEF Refused, Quiet, gvars, vars
  <1>5. Delivers => Oldest(queue) \in Frame
    BY DeliveredFrame
  <1> QED
    BY <1>1, <1>2, <1>3, <1>4, <1>5 DEF GoesTo, FailsWith

LEMMA AppendFrame ==
  ASSUME NEW s \in Seq(Frame), NEW f \in Frame
  PROVE  /\ Len(Append(s, f)) = Len(s) + 1 /\ Len(s) \in Nat
         /\ \A k \in 1 .. Len(s) : Append(s, f)[k] = s[k]
         /\ Append(s, f)[Len(s) + 1] = f
         /\ \A k \in 1 .. Len(s) + 1 : k = Len(s) + 1 \/ (k \in 1 .. Len(s) /\ k < Len(s) + 1)
  <1>1. \A n \in Nat : \A k \in 1 .. n + 1 : k = n + 1 \/ (k \in 1 .. n /\ k < n + 1)
    OBVIOUS
  <1> QED
    BY <1>1, AppendProperties

(* A received frame is appended: it matches the filter the handle was      *)
(* opened with, and it is the youngest of those received.                  *)
LEMMA RecvFrames ==
  ASSUME GlueInv, Course, FramesKept, OriginKept, Recv
  PROVE  FramesKept'
  <1>1. /\ pc = "recv" /\ error = "none" /\ UNCHANGED cmd
        /\ \/ /\ Delivers /\ Oldest(queue) \in Frame
              /\ got' = Append(got, Oldest(queue)) /\ pc' = "decode" /\ error' = "none"
           \/ /\ UNCHANGED <<device, history>>
              /\ pc' = "drop" /\ error' = "io_failure" /\ UNCHANGED got
    BY RecvIs
  <1>2. CASE pc' = "drop" /\ error' = "io_failure" /\ UNCHANGED got
    BY <1>1, <1>2, FramesStay DEF Course
  <1>3. CASE /\ Delivers /\ Oldest(queue) \in Frame
             /\ got' = Append(got, Oldest(queue)) /\ pc' = "decode" /\ error' = "none"
    <2> DEFINE f == Oldest(queue)
               n == Len(got)
    <2>1. open_request = cmd.request /\ open_request' = open_request
      BY <1>1, <1>3, DeliveredFrame DEF FramesKept
    <2>2. /\ f.layer \in NetworkLayer => f.token \in Token
          /\ cmd.request.ir = "program" => f.tag \in cmd.request.accepts
      BY <1>3, <2>1, DeliveredFacts
    <2>3. \A j \in 1 .. n : (got[j].token # 0 /\ f.token # 0) => got[j].token < f.token
      <3>1. 1 \in 1 .. Len(Contents(queue)) /\ Contents(queue)[1] = f
        BY <1>3, DeliveredFrame
      <3> QED
        BY <1>1, <3>1 DEF OriginKept, OlderThanQueued
    <2>4. /\ Len(got') = n + 1 /\ n \in Nat
          /\ \A k \in 1 .. n : got'[k] = got[k]
          /\ got'[n + 1] = f
          /\ \A k \in 1 .. n + 1 : k = n + 1 \/ (k \in 1 .. n /\ k < n + 1)
      BY <1>3, AppendFrame DEF Course, CliTypes
    <2>5. \A k \in 1 .. n : Wanted(got[k])
      BY <1>1 DEF FramesKept
    <2> HIDE DEF f, n
    <2>6. (\A k \in 1 .. Len(got) : k < Len(got) => Wanted(got[k]))'
      BY <1>1, <2>4, <2>5 DEF Wanted, Expected, PacketLen
    <2>7. InOrder(got')
      <3> SUFFICES ASSUME NEW j \in 1 .. n + 1, NEW k \in 1 .. n + 1,
                          j < k, got'[j].token # 0, got'[k].token # 0
                   PROVE  got'[j].token < got'[k].token
        BY <2>4 DEF InOrder
      <3>1. j \in 1 .. n
        BY <2>4
      <3> QED
        BY <2>3, <2>4, <3>1 DEF FramesKept, InOrder, n
    <2>8. \A k \in 1 .. n + 1 :
            /\ cmd.request.ir = "program" => got'[k].tag \in cmd.request.accepts
            /\ got'[k].layer \in NetworkLayer => got'[k].token \in Token
      BY <2>2, <2>4 DEF FramesKept, n
    <2> QED
      BY <1>1, <1>3, <2>1, <2>4, <2>6, <2>7, <2>8 DEF FramesKept
  <1> QED
    BY <1>1, <1>2, <1>3

(* decode *)
LEMMA DecodeIs ==
  ASSUME Course, Decode
  PROVE  /\ pc = "decode" /\ error = "none" /\ Len(got) >= 1 /\ UNCHANGED <<svars, cmd>>
         /\ \/ UNCHANGED got /\ error' = "io_failure" /\ pc' = "drop"
            \/ got' = SubSeq(got, 1, Len(got) - 1) /\ error' = "none" /\ pc' = "recv"
            \/ /\ UNCHANGED got /\ error' = "none" /\ pc' \in {"send", "close_session", "recv"}
               /\ Wanted(got[Len(got)])
  <1>1. /\ pc = "decode" /\ error = "none" /\ Len(got) >= 1
        /\ device_handle # INVALID_HANDLE_VALUE /\ UNCHANGED <<svars, cmd>>
    BY DEF Course, ErrorKept, CourseKept, HandleKept, Holding, Decode, Proceeds
  <1>2. device_handle' # INVALID_HANDLE_VALUE
    BY <1>1 DEF svars, session
  <1> QED
    BY <1>1, <1>2 DEF Decode, GoesTo, FailsWith, Wanted

LEMMA ShorterFrames ==
  ASSUME CliTypes, Len(got) >= 1, got' = SubSeq(got, 1, Len(got) - 1)
  PROVE  \A k \in 1 .. Len(got') : got'[k] = got[k] /\ k \in 1 .. Len(got) /\ k < Len(got)
  <1> DEFINE n == Len(got)
  <1>1. /\ Len(got') = n - 1 /\ n \in Nat
        /\ \A k \in 1 .. n - 1 : got'[k] = got[k]
    BY ButLast DEF CliTypes
  <1> HIDE DEF n
  <1>2. \A k \in 1 .. n - 1 : k \in 1 .. n /\ k < n
    BY <1>1
  <1> QED
    BY <1>1, <1>2 DEF n

LEMMA DecodeFrames ==
  ASSUME GlueInv, Course, FramesKept, Decode
  PROVE  FramesKept'
  <1>1. /\ pc = "decode" /\ error = "none" /\ Len(got) >= 1 /\ UNCHANGED <<svars, cmd>>
        /\ \/ UNCHANGED got /\ error' = "io_failure" /\ pc' = "drop"
           \/ got' = SubSeq(got, 1, Len(got) - 1) /\ error' = "none" /\ pc' = "recv"
           \/ /\ UNCHANGED got /\ error' = "none" /\ pc' \in {"send", "close_session", "recv"}
              /\ Wanted(got[Len(got)])
    BY DecodeIs
  <1>2. UNCHANGED open_request /\ open_request = cmd.request
    BY <1>1 DEF svars, gvars, vars, device, handle, FramesKept
  <1>3. CASE UNCHANGED got /\ error' = "io_failure" /\ pc' = "drop"
    BY <1>1, <1>3, FramesStay DEF Course
  <1>4. CASE got' = SubSeq(got, 1, Len(got) - 1) /\ error' = "none" /\ pc' = "recv"
    <2>1. \A k \in 1 .. Len(got') : got'[k] = got[k] /\ k \in 1 .. Len(got) /\ k < Len(got)
      BY <1>1, <1>4, ShorterFrames DEF Course
    <2>2. (\A k \in 1 .. Len(got) : Wanted(got[k]))'
      BY <1>1, <2>1 DEF FramesKept, Wanted, Expected, PacketLen
    <2>3. InOrder(got')
      BY <2>1 DEF FramesKept, InOrder
    <2> QED
      BY <1>1, <1>2, <2>1, <2>2, <2>3 DEF FramesKept
  <1>5. CASE /\ UNCHANGED got /\ error' = "none" /\ pc' \in {"send", "close_session", "recv"}
             /\ Wanted(got[Len(got)])
    <2>1. \A k \in 1 .. Len(got) : k < Len(got) \/ k = Len(got)
      BY DEF Course, CliTypes
    <2>2. \A k \in 1 .. Len(got) : Wanted(got[k])
      BY <1>5, <2>1 DEF FramesKept
    <2>3. (\A k \in 1 .. Len(got) : Wanted(got[k]))'
      BY <1>1, <1>5, <2>2 DEF Wanted, Expected, PacketLen
    <2> QED
      BY <1>1, <1>2, <1>5, <2>3 DEF FramesKept, InOrder
  <1> QED
    BY <1>1, <1>3, <1>4, <1>5

(* negotiate_open: the handle has its request, or is still without one. *)
LEMMA NegotiateIs ==
  ASSUME GlueInv, Course,
         \/ Negotiate("open_negotiate", "open_close")
         \/ Negotiate("session_negotiate", "recv")
  PROVE  /\ got = <<>> /\ error = "none" /\ pc \in {"open_negotiate", "session_negotiate"}
         /\ UNCHANGED <<queue, reinjection, issued, accepted, cmd, got>>
         /\ \/ pc' = "open_close"
            \/ pc' = "recv" /\ error' = "none" /\ open_request' = cmd.request
  <1>1. PICK from \in {"open_negotiate", "session_negotiate"} :
          /\ pc = from /\ NegotiateOpen(cmd.request)
          /\ error' \in NegotiationErrors
          /\ pc' = IF error' = "none"
                   THEN (IF from = "open_negotiate" THEN "open_close" ELSE "recv")
                   ELSE "open_close"
          /\ UNCHANGED <<cmd, got>>
    BY DEF Negotiate, Proceeds
  <1>2. got = <<>> /\ error = "none"
    BY <1>1 DEF Course, ErrorKept, CourseKept, BeforeSession
  <1>3. /\ error' = "none" => win32' = "ok"
        /\ \/ /\ ControlOpen(cmd.request, OpenResponseLen)
              /\ win32' = "ok" <=> result'.status = "Success"
           \/ UNCHANGED gvars /\ win32' = "failed"
    BY <1>1, NegotiateOpenIs
  <1>4. CASE UNCHANGED gvars /\ win32' = "failed"
    BY <1>1, <1>2, <1>3, <1>4 DEF gvars, vars, device, history
  <1>5. CASE /\ ControlOpen(cmd.request, OpenResponseLen)
             /\ win32' = "ok" <=> result'.status = "Success"
    <2>1. /\ result'.status = "Success" => Opens
          /\ Refused \/ Opens
      BY <1>5, CommandFacts, OpenServes DEF Course
    <2>2. Opens => open_request' = cmd.request
      <3>1. Opens => reply' = "Ok" /\ state = "Opening"
        BY DEF Opens, Returns
      <3>2. Opens => ~ Fails("InvalidState") /\ ~ Fails("FilterCompile")
        BY <3>1 DEF Fails, Returns
      <3> QED
        BY <1>5, <3>1, <3>2 DEF ControlOpen, OpenWithRequest
    <2>3. UNCHANGED <<queue, reinjection, issued, accepted>>
      BY <2>1 DEF Refused, Quiet, Opens, device, history
    <2> QED
      BY <1>1, <1>2, <1>3, <1>5, <2>1, <2>2, <2>3
  <1> QED
    BY <1>3, <1>4, <1>5

(* A monitor polls on, whatever the answer. *)
LEMMA MonitorPollsIs ==
  ASSUME GlueInv, MonitorPolls
  PROVE  /\ pc = "recv" /\ pc' = "recv" /\ UNCHANGED <<cmd, got, error, open_request>>
         /\ \/ Delivers
            \/ UNCHANGED <<queue, reinjection, issued, accepted>>
  <1>1. /\ pc = "recv" /\ pc' = "recv" /\ RecvOne(MaxRecvBytes)
        /\ UNCHANGED <<cmd, got, error>>
    BY DEF MonitorPolls, Proceeds, GoesTo
  <1>2. Delivers \/ Refused \/ UNCHANGED gvars
    BY <1>1, RecvOneIs, RecvServes
  <1> QED
    BY <1>1, <1>2 DEF Delivers, Refused, Quiet, device, handle, history, gvars, vars

(* The steps that close the handle or come after it: the command is on its *)
(* way out, or about to open its session.                                  *)
LEMMA ClosingIs ==
  ASSUME Course, CloseAfterNegotiate \/ CloseSession \/ Drop
  PROVE  /\ DestroyRuntime \/ UNCHANGED gvars
         /\ UNCHANGED <<cmd, got>>
         /\ pc \in {"open_close", "close_session", "drop"}
         /\ pc' \in {"open_session", "drop", "report", "done"}
         /\ pc' = "open_session" => pc = "open_close"
         /\ error' = "none" => error = "none"
  <1>1. CASE CloseAfterNegotiate
    <2>1. /\ pc = "open_close" /\ CloseHandle /\ UNCHANGED <<cmd, got>>
          /\ \/ FailsWith("io_failure")
             \/ error # "none" /\ FailsWith(error)
             \/ error = "none" /\ GoesTo(IF cmd.kind = "open" THEN "report" ELSE "open_session")
      BY <1>1 DEF CloseAfterNegotiate, Proceeds
    <2> QED
      BY <2>1 DEF CloseHandle, FailsWith, GoesTo
  <1>2. CASE CloseSession
    <2>1. error = "none"
      BY <1>2 DEF CloseSession, Proceeds, Course, ErrorKept
    <2> QED
      BY <1>2, <2>1 DEF CloseSession, CloseHandle, Proceeds
  <1>3. CASE Drop
    BY <1>3 DEF Drop, CloseHandle, Proceeds, GoesTo, svars
  <1> QED
    BY <1>1, <1>2, <1>3

(* The steps that do not touch the driver, or only make a runtime. *)
LEMMA UserStepIs ==
  ASSUME Course,
         \/ CheckArguments \/ OverBudget \/ Probe \/ Report \/ Expire
         \/ OpenDevice("open", "open_negotiate")
         \/ OpenDevice("open_session", "session_negotiate")
  PROVE  /\ UNCHANGED <<vars, cmd, got>>
         /\ error' = "none" => error = "none"
         /\ pc' = pc \/ pc' \notin {"recv", "decode", "send"}
         /\ pc = "decode" /\ error' = "none" => pc' = "decode"
         /\ pc \in {"close_session", "drop", "report", "done"} =>
              pc' \in {"close_session", "drop", "report", "done"}
  <1>1. CASE CheckArguments
    BY <1>1 DEF CheckArguments, Proceeds, GoesTo, FailsWith, svars, gvars
  <1>2. CASE OverBudget
    BY <1>2 DEF OverBudget, FailsWith, svars, gvars
  <1>3. CASE Probe
    BY <1>3 DEF Probe, Proceeds, GoesTo, FailsWith, svars, gvars
  <1>4. CASE Report
    BY <1>4 DEF Report, Proceeds, GoesTo, svars, gvars
  <1>5. CASE Expire
    BY <1>5 DEF Expire, svars, gvars
  <1>6. CASE \/ OpenDevice("open", "open_negotiate")
             \/ OpenDevice("open_session", "session_negotiate")
    <2>1. /\ pc \in {"open", "open_session"} /\ OpenDeviceHandle /\ UNCHANGED <<cmd, got>>
          /\ \/ GoesTo("open_negotiate") \/ GoesTo("session_negotiate")
             \/ FailsWith(OpenError(win32'))
      BY <1>6 DEF OpenDevice, Proceeds
    <2>2. error = "none"
      BY <2>1 DEF Course, ErrorKept
    <2> QED
      BY <2>1, <2>2 DEF OpenDeviceHandle, CreateRuntime, gvars, GoesTo, FailsWith
  <1> QED
    BY <1>1, <1>2, <1>3, <1>4, <1>5, <1>6

(* send: the frame that was received, on its layer, or nothing. *)
LEMMA SendIs ==
  ASSUME GlueInv, Course, Send
  PROVE  /\ pc = "send" /\ error = "none" /\ UNCHANGED <<cmd, got, queue, issued>>
         /\ \/ /\ got[1].layer \in NetworkLayer /\ got[1].token \in Token
               /\ Redeems(got[1].layer, got[1].token)
               /\ pc' = "close_session" /\ error' = "none"
            \/ /\ UNCHANGED <<reinjection, accepted>>
               /\ pc' = "drop" /\ error' = "io_failure"
  <1>1. /\ pc = "send" /\ SendOne(got[1].layer, got[1].token, PacketLen(got[1]))
        /\ IF win32' = "ok" THEN GoesTo("close_session") ELSE FailsWith("io_failure")
        /\ UNCHANGED <<cmd, got>>
    BY DEF Send, Proceeds
  <1>2. error = "none" /\ device_handle # INVALID_HANDLE_VALUE
    BY <1>1 DEF Course, ErrorKept, HandleKept, Holding
  <1>3. /\ UNCHANGED device_handle
        /\ \/ /\ ControlSend(got[1].layer, got[1].token, PacketLen(got[1]))
              /\ win32' = "ok" <=> result'.status = "Success"
           \/ UNCHANGED gvars /\ win32' = "failed"
    BY <1>1, SendOneIs
  <1>4. /\ win32' = "ok" =>
             got[1].layer \in NetworkLayer /\ got[1].token \in Token
               /\ Redeems(got[1].layer, got[1].token)
        /\ win32' # "ok" => Refused \/ UNCHANGED gvars
    BY <1>3, SendServes
  <1>5. /\ Refused \/ UNCHANGED gvars => UNCHANGED <<queue, reinjection, issued, accepted>>
        /\ Redeems(got[1].layer, got[1].token) => UNCHANGED <<queue, issued>>
    BY DEF Refused, Quiet, device, history, Redeems, Accepts, gvars, vars
  <1> QED
    BY <1>1, <1>2, <1>3, <1>4, <1>5 DEF GoesTo, FailsWith

LEMMA FramesStep ==
  ASSUME GlueInv, Course, FramesKept, OriginKept, [CliNext]_cvars
  PROVE  FramesKept'
  <1> USE DEF Course
  <1>1. CASE Recv
    BY <1>1, RecvFrames
  <1>2. CASE Decode
    BY <1>2, DecodeFrames
  <1>3. CASE \/ Negotiate("open_negotiate", "open_close")
             \/ Negotiate("session_negotiate", "recv")
    BY <1>3, NegotiateIs, FramesStay
  <1>4. CASE MonitorPolls
    BY <1>4, MonitorPollsIs, FramesStay DEF FramesKept
  <1>5. CASE CloseAfterNegotiate \/ CloseSession \/ Drop
    BY <1>5, ClosingIs, FramesStay
  <1>6. CASE \/ CheckArguments \/ OverBudget \/ Probe \/ Report \/ Expire
             \/ OpenDevice("open", "open_negotiate")
             \/ OpenDevice("open_session", "session_negotiate")
    BY <1>6, UserStepIs, FramesStay DEF FramesKept, vars, device, handle
  <1>7. CASE Send
    BY <1>7, SendIs, FramesStay
  <1>8. CASE PacketArrives \/ EventArrives
    BY <1>8, ArrivalArrives, FramesStay DEF Arrives, cli, FramesKept
  <1>9. CASE UNCHANGED cvars
    BY <1>9, FramesStay DEF cvars, svars, gvars, vars, device, handle, cli, FramesKept
  <1> QED
    BY <1>1, <1>2, <1>3, <1>4, <1>5, <1>6, <1>7, <1>8, <1>9 DEF CliNext, CommandStep

-----------------------------------------------------------------------------
(* Where the frames come from.                                             *)

(* A step that leaves the tokens and the queue as they are. *)
LEMMA OriginStays ==
  ASSUME OriginKept, UNCHANGED <<cmd, got, queue, reinjection, issued, accepted>>,
         pc' \in {"recv", "decode", "send"} => got = <<>> \/ pc \in {"recv", "decode", "send"},
         pc' \in {"recv", "decode"} => got = <<>> \/ pc \in {"recv", "decode"},
         pc \in {"close_session", "drop", "report", "done"} =>
           pc' \in {"close_session", "drop", "report", "done"}
  PROVE  OriginKept'
  <1>1. got = <<>> => Given(got) /\ OlderThanQueued(got)
    BY DEF Given, OlderThanQueued
  <1>2. /\ Given(got)' <=> Given(got)
        /\ OlderThanQueued(got)' <=> OlderThanQueued(got)
        /\ spent' = spent
    BY DEF Given, OlderThanQueued, Ids, spent
  <1>3. ReinjectsWhatItReceived'
    BY <1>2 DEF OriginKept, ReinjectsWhatItReceived
  <1> QED
    BY <1>1, <1>2, <1>3 DEF OriginKept

(* With its runtime go all the tokens. *)
LEMMA OriginGone ==
  ASSUME DestroyRuntime, pc' \notin {"recv", "decode", "send"}
  PROVE  OriginKept'
  <1>1. spent' = {}
    BY DEF DestroyRuntime, spent
  <1> QED
    BY <1>1 DEF OriginKept, ReinjectsWhatItReceived

(* What arrives is younger than all that was received. *)
LEMMA OriginArrives ==
  ASSUME GlueInv, Course, OriginKept, Arrives
  PROVE  OriginKept'
  <1> DEFINE n == reinjection.next_token
  <1>1. /\ UNCHANGED <<cmd, pc, got, accepted>>
        /\ reinjection'.next_token \in Int /\ reinjection'.next_token >= n /\ n \in Int
        /\ \A t \in Token : t < n => Ids'[t] = Ids[t]
        /\ \A k \in 1 .. Len(Contents(queue')) :
             \/ Contents(queue')[k].token \in {0, n}
             \/ \E j \in 1 .. Len(Contents(queue)) : Contents(queue')[k] = Contents(queue)[j]
    BY DeviceFacts DEF Arrives, cli, GlueInv, ContractInv
  <1>2. \A k \in 1 .. Len(got) : got[k].token # 0 => got[k].token \in Token
    <2>1. \A k \in 1 .. Len(got) : got[k] \in Frame
      BY DEF Course, CliTypes
    <2>2. \A f \in Frame : f.token # 0 => f.token \in Token
      BY DEF Frame
    <2> QED
      BY <2>1, <2>2
  <1>3. spent' = spent /\ ReinjectsWhatItReceived'
    BY <1>1 DEF OriginKept, ReinjectsWhatItReceived, spent
  <1> HIDE DEF n
  <1>4. ASSUME Given(got)
        PROVE  Given(got)'
    <2> SUFFICES ASSUME NEW k \in 1 .. Len(got), got[k].token # 0
                 PROVE  /\ got[k].token < reinjection'.next_token
                        /\ got[k].id = Ids'[got[k].token]
      BY <1>1 DEF Given
    <2>1. got[k].token \in Token /\ got[k].token < n /\ got[k].id = Ids[got[k].token]
      BY <1>2, <1>4 DEF Given, n
    <2> QED
      BY <1>1, <2>1 DEF Token
  <1>5. ASSUME Given(got), OlderThanQueued(got)
        PROVE  OlderThanQueued(got)'
    <2> SUFFICES ASSUME NEW i \in 1 .. Len(got), NEW k \in 1 .. Len(Contents(queue')),
                        got[i].token # 0, Contents(queue')[k].token # 0
                 PROVE  got[i].token < Contents(queue')[k].token
      BY <1>1 DEF OlderThanQueued
    <2>1. got[i].token < n
      BY <1>5 DEF Given, n
    <2>2. CASE Contents(queue')[k].token = n
      BY <2>1, <2>2
    <2>3. ASSUME NEW j \in 1 .. Len(Contents(queue)), Contents(queue')[k] = Contents(queue)[j]
          PROVE  got[i].token < Contents(queue')[k].token
      BY <1>5, <2>3 DEF OlderThanQueued
    <2> QED
      BY <1>1, <2>2, <2>3
  <1> QED
    BY <1>1, <1>3, <1>4, <1>5 DEF OriginKept

(* A monitor drops what it is delivered. *)
LEMMA OriginMonitor ==
  ASSUME GlueInv, OriginKept, Delivers, UNCHANGED <<cmd, got, pc>>
  PROVE  OriginKept'
  <1>1. /\ UNCHANGED <<reinjection, issued, accepted>>
        /\ \A k \in 1 .. Len(Contents(queue')) :
             k + 1 \in 1 .. Len(Contents(queue)) /\ Contents(queue')[k] = Contents(queue)[k + 1]
    BY DeliveredFrame
  <1>2. spent' = spent /\ ReinjectsWhatItReceived' /\ (Given(got) => Given(got)')
    BY <1>1 DEF OriginKept, ReinjectsWhatItReceived, spent, Given, Ids
  <1>3. OlderThanQueued(got) => OlderThanQueued(got)'
    BY <1>1 DEF OlderThanQueued
  <1> QED
    BY <1>1, <1>2, <1>3 DEF OriginKept

(* A received frame: it was issued, and it was the oldest that waited.     *)
LEMMA OriginRecv ==
  ASSUME GlueInv, Course, OriginKept, Recv
  PROVE  OriginKept'
  <1>1. /\ pc = "recv" /\ UNCHANGED cmd
        /\ \/ /\ Delivers /\ Oldest(queue) \in Frame
              /\ got' = Append(got, Oldest(queue)) /\ pc' = "decode" /\ error' = "none"
           \/ /\ UNCHANGED <<device, history>>
              /\ pc' = "drop" /\ error' = "io_failure" /\ UNCHANGED got
    BY RecvIs
  <1>2. CASE UNCHANGED <<device, history>> /\ pc' = "drop" /\ UNCHANGED got
    BY <1>1, <1>2, OriginStays DEF device, history
  <1>3. CASE /\ Delivers /\ Oldest(queue) \in Frame
             /\ got' = Append(got, Oldest(queue)) /\ pc' = "decode"
    <2> DEFINE f == Oldest(queue)
               n == Len(got)
    <2>1. /\ UNCHANGED <<reinjection, issued, accepted>>
          /\ \A k \in 1 .. Len(Contents(queue')) :
               k + 1 \in 1 .. Len(Contents(queue)) /\ Contents(queue')[k] = Contents(queue)[k + 1]
      BY <1>3, DeliveredFrame
    <2>2. f.token # 0 =>
            /\ f.token < reinjection.next_token /\ f.id = Ids[f.token]
            /\ \A k \in 1 .. Len(Contents(queue')) :
                 Contents(queue')[k].token # 0 => f.token < Contents(queue')[k].token
      BY <1>3, DeliveredFacts
    <2>3. /\ Len(got') = n + 1 /\ n \in Nat
          /\ \A k \in 1 .. n : got'[k] = got[k]
          /\ got'[n + 1] = f
          /\ \A k \in 1 .. n + 1 : k = n + 1 \/ (k \in 1 .. n /\ k < n + 1)
      BY <1>3, AppendFrame DEF Course, CliTypes
    <2>4. Given(got) /\ OlderThanQueued(got) /\ spent = {}
      BY <1>1 DEF OriginKept
    <2>5. spent' = {} /\ Ids' = Ids
      BY <2>1, <2>4 DEF spent, Ids
    <2> HIDE DEF f, n
    <2>6. Given(got)'
      <3> SUFFICES ASSUME NEW k \in 1 .. n + 1, got'[k].token # 0
                   PROVE  /\ got'[k].token < reinjection.next_token
                          /\ got'[k].id = Ids[got'[k].token]
        BY <2>1, <2>3, <2>5 DEF Given
      <3> QED
        BY <2>2, <2>3, <2>4 DEF Given, n
    <2>7. OlderThanQueued(got)'
      <3> SUFFICES ASSUME NEW j \in 1 .. n + 1, NEW k \in 1 .. Len(Contents(queue')),
                          got'[j].token # 0, Contents(queue')[k].token # 0
                   PROVE  got'[j].token < Contents(queue')[k].token
        BY <2>3 DEF OlderThanQueued
      <3>1. CASE j = n + 1
        BY <2>2, <2>3, <3>1
      <3>2. CASE j \in 1 .. n
        BY <2>1, <2>3, <2>4, <3>2 DEF OlderThanQueued, n
      <3> QED
        BY <2>3, <3>1, <3>2
    <2>8. ReinjectsWhatItReceived'
      BY <2>5 DEF ReinjectsWhatItReceived
    <2> QED
      BY <1>3, <2>5, <2>6, <2>7, <2>8 DEF OriginKept
  <1> QED
    BY <1>1, <1>2, <1>3

LEMMA OriginDecode ==
  ASSUME GlueInv, Course, OriginKept, Decode
  PROVE  OriginKept'
  <1>1. /\ pc = "decode" /\ error = "none" /\ Len(got) >= 1 /\ UNCHANGED <<svars, cmd>>
        /\ \/ UNCHANGED got /\ error' = "io_failure" /\ pc' = "drop"
           \/ got' = SubSeq(got, 1, Len(got) - 1) /\ error' = "none" /\ pc' = "recv"
           \/ UNCHANGED got /\ pc' \in {"send", "close_session", "recv"}
    BY DecodeIs
  <1>2. UNCHANGED <<queue, reinjection, issued, accepted>>
    BY <1>1 DEF svars, gvars, vars, device, history
  <1>3. CASE UNCHANGED got /\ pc' \in {"drop", "send", "close_session", "recv"}
    BY <1>1, <1>2, <1>3, OriginStays
  <1>4. CASE got' = SubSeq(got, 1, Len(got) - 1) /\ pc' = "recv"
    <2>1. \A k \in 1 .. Len(got') : got'[k] = got[k] /\ k \in 1 .. Len(got) /\ k < Len(got)
      BY <1>1, <1>4, ShorterFrames DEF Course
    <2>2. Given(got) /\ OlderThanQueued(got) /\ spent = {}
      BY <1>1 DEF OriginKept
    <2>3. Given(got)' /\ OlderThanQueued(got)' /\ spent' = {}
      BY <1>2, <2>1, <2>2 DEF Given, OlderThanQueued, Ids, spent
    <2> QED
      BY <1>4, <2>3 DEF OriginKept, ReinjectsWhatItReceived
  <1> QED
    BY <1>1, <1>3, <1>4

(* send accepts one token, that of the frame that was received, and the id *)
(* it finds in the table is the frame's: the token was never given again.  *)
LEMMA OriginSend ==
  ASSUME GlueInv, Course, OriginKept, Send
  PROVE  OriginKept'
  <1> DEFINE t == got[1].token
             layer == got[1].layer
  <1>1. /\ pc = "send" /\ UNCHANGED <<cmd, got, queue, issued>>
        /\ \/ /\ layer \in NetworkLayer /\ t \in Token /\ Redeems(layer, t)
              /\ pc' = "close_session"
           \/ UNCHANGED <<reinjection, accepted>> /\ pc' = "drop"
    BY SendIs
  <1>2. cmd.kind = "reinject" /\ Len(got) = 1 /\ Given(got) /\ spent = {}
    BY <1>1 DEF Course, CourseKept, OriginKept
  <1>3. CASE UNCHANGED <<reinjection, accepted>> /\ pc' = "drop"
    BY <1>1, <1>3, OriginStays
  <1>4. CASE /\ layer \in NetworkLayer /\ t \in Token /\ Redeems(layer, t)
             /\ pc' = "close_session"
    <2> DEFINE id == PacketIdOf(reinjection, t)
    <2>1. /\ HoldsToken(reinjection, t)
          /\ accepted' = [accepted EXCEPT ![t] = [packet_id |-> id, layer |-> layer]]
          /\ accepted \in [Token -> Reinjection \cup {NoReinjection}]
      BY <1>4 DEF Redeems, Accepts, GlueInv, ContractInv, DeviceInv, TypeOK
    <2>2. id = Ids[t]
      <3>1. TableInv(reinjection, Ids, spent)
        BY DEF GlueInv, ContractInv, DeviceInv, TokensKept
      <3>2. reinjection \in Tables(PacketIds) /\ spent \in SUBSET Token
        BY DeviceFacts DEF GlueInv, ContractInv
      <3>3. t \in Token /\ HoldsToken(reinjection, t)
        BY <1>4, <2>1
      <3> HIDE DEF t
      <3> QED
        BY <3>1, <3>2, <3>3, ConsumeKeepsTableInv
    <2>3. got[1].id = Ids[t]
      <3>1. 1 \in 1 .. Len(got) /\ \A u \in Token : u # 0
        BY <1>2 DEF Token
      <3> QED
        BY <1>2, <1>4, <3>1 DEF Given
    <2> HIDE DEF id
    <2>4. /\ accepted'[t] = [packet_id |-> got[1].id, layer |-> layer]
          /\ \A u \in Token : u # t => accepted'[u] = accepted[u]
      BY <1>4, <2>1, <2>2, <2>3
    <2>5. \A u \in spent' : u = t
      BY <1>2, <2>4 DEF spent
    <2>6. ReinjectsWhatItReceived'
      BY <1>1, <1>2, <2>4, <2>5 DEF ReinjectsWhatItReceived
    <2> QED
      BY <1>4, <2>6 DEF OriginKept
  <1> QED
    BY <1>1, <1>3, <1>4

LEMMA OriginStep ==
  ASSUME GlueInv, Course, OriginKept, [CliNext]_cvars
  PROVE  OriginKept'
  <1>1. CASE Recv
    BY <1>1, OriginRecv
  <1>2. CASE Decode
    BY <1>2, OriginDecode
  <1>3. CASE \/ Negotiate("open_negotiate", "open_close")
             \/ Negotiate("session_negotiate", "recv")
    BY <1>3, NegotiateIs, OriginStays
  <1>4. CASE MonitorPolls
    BY <1>4, MonitorPollsIs, OriginMonitor, OriginStays
  <1>5. CASE CloseAfterNegotiate \/ CloseSession \/ Drop
    <2>1. /\ DestroyRuntime \/ UNCHANGED gvars
          /\ UNCHANGED <<cmd, got>>
          /\ pc \in {"open_close", "close_session", "drop"}
          /\ pc' \in {"open_session", "drop", "report", "done"}
          /\ pc' = "open_session" => pc = "open_close"
      BY <1>5, ClosingIs
    <2> QED
      BY <2>1, OriginGone, OriginStays DEF gvars, vars, device, history
  <1>6. CASE \/ CheckArguments \/ OverBudget \/ Probe \/ Report \/ Expire
             \/ OpenDevice("open", "open_negotiate")
             \/ OpenDevice("open_session", "session_negotiate")
    <2>1. /\ UNCHANGED <<vars, cmd, got>>
          /\ pc' = pc \/ pc' \notin {"recv", "decode", "send"}
          /\ pc \in {"close_session", "drop", "report", "done"} =>
               pc' \in {"close_session", "drop", "report", "done"}
      BY <1>6, UserStepIs
    <2> QED
      BY <2>1, OriginStays DEF vars, device, history
  <1>7. CASE Send
    BY <1>7, OriginSend
  <1>8. CASE PacketArrives \/ EventArrives
    BY <1>8, ArrivalArrives, OriginArrives
  <1>9. CASE UNCHANGED cvars
    BY <1>9, OriginStays DEF cvars, svars, gvars, vars, device, history, cli
  <1> QED
    BY <1>1, <1>2, <1>3, <1>4, <1>5, <1>6, <1>7, <1>8, <1>9 DEF CliNext, CommandStep

-----------------------------------------------------------------------------
(* The invariant.                                                          *)

LEMMA CliInvInit == CliInit => CliInv
  <1> SUFFICES ASSUME CliInit PROVE CliInv
    OBVIOUS
  <1>1. GlueInv /\ Course
    BY GlueInvInit, CourseInit DEF CliInit, SessionInit
  <1>2. got = <<>> /\ Len(<<>>) = 0 /\ pc = "arguments"
    BY DEF CliInit
  <1>3. spent = {}
    BY DEF CliInit, SessionInit, GlueInit, Init, spent
  <1>4. FramesKept
    BY <1>2 DEF FramesKept, InOrder
  <1>5. OriginKept
    BY <1>2, <1>3 DEF OriginKept, ReinjectsWhatItReceived
  <1> QED
    BY <1>1, <1>4, <1>5 DEF CliInv, Course

LEMMA CliInvStep == CliInv /\ [CliNext]_cvars => CliInv'
  <1> SUFFICES ASSUME CliInv, [CliNext]_cvars PROVE CliInv'
    OBVIOUS
  <1>1. GlueInv /\ Course /\ FramesKept /\ OriginKept
    BY DEF CliInv, Course
  <1>2. GlueInv' /\ Course' /\ FramesKept' /\ OriginKept'
    BY <1>1, GlueInvCliStep, CourseStep, FramesStep, OriginStep
  <1> QED
    BY <1>2 DEF CliInv, Course

LEMMA CliInvariant == CliSpec => []CliInv
  BY CliInvInit, CliInvStep, PTL DEF CliSpec

-----------------------------------------------------------------------------
(* Every part of a command's state stays well formed, and it never keeps   *)
(* more frames than its count.                                             *)
THEOREM CliTypeCorrect == CliSpec => []CliTypeOK
  <1>1. ASSUME CliInv PROVE CliTypeOK
    BY <1>1 DEF CliInv, CliTypes, CourseKept, GlueInv, CliTypeOK, SessionTypeOK
  <1> QED
    BY <1>1, CliInvariant, PTL

(* Whatever fails, and whenever the budget runs out, every handle is       *)
(* closed and none twice (windows.rs:173-206, 238-264).                    *)
THEOREM CliHandlesClosedOnce == CliSpec => []HandlesClosedOnce
  <1>1. ASSUME CliInv PROVE HandlesClosedOnce
    <2>1. /\ \A h \in DOMAIN closes : closes[h] = IF h = device_handle THEN 0 ELSE 1
          /\ pc = "done" => device_handle = INVALID_HANDLE_VALUE
          /\ \A h \in DOMAIN closes : h # INVALID_HANDLE_VALUE
      BY <1>1 DEF CliInv, CliTypes, HandleKept, Unopened, INVALID_HANDLE_VALUE
    <2> QED
      BY <2>1 DEF HandlesClosedOnce
  <1> QED
    BY <1>1, CliInvariant, PTL

(* A command that reports success has the events it was asked for, each of *)
(* its layer and accepted by its filter, in the order of their capture,    *)
(* and has left nothing in the driver (netfilter.rs, flowtrack.rs).        *)
THEOREM CliSuccessIsEarned == CliSpec => []SuccessIsEarned
  <1>1. ASSUME CliInv PROVE SuccessIsEarned
    <2>1. error = "argument_error" => closes = <<>>
      BY <1>1 DEF CliInv, ErrorKept
    <2> SUFFICES ASSUME pc = "done", error = "none"
                 PROVE  /\ ~ runtime
                        /\ cmd.count > 0 /\ cmd.fits
                        /\ Len(got) = IF cmd.kind \in {"probe", "open"} THEN 0 ELSE cmd.count
                        /\ \A k \in 1 .. Len(got) :
                             /\ Expected(got[k])
                             /\ cmd.kind = "track" => got[k].tag \in cmd.wanted
                             /\ cmd.request.ir = "program" => got[k].tag \in cmd.request.accepts
                        /\ \A j, k \in 1 .. Len(got) :
                             (j < k /\ cmd.kind = "observe") => got[j].token < got[k].token
      BY <2>1 DEF SuccessIsEarned
    <2>2. ~ runtime
      BY <1>1 DEF CliInv, HandleKept, ErrorKept, Unopened
    <2>3. /\ cmd.count > 0 /\ cmd.fits
          /\ Len(got) = IF cmd.kind \in {"probe", "open"} THEN 0 ELSE cmd.count
      BY <1>1 DEF CliInv, CourseKept, ValidCount, ValidFilter, Succeeding, Asked
    <2>4. \A k \in 1 .. Len(got) :
            /\ Expected(got[k])
            /\ cmd.kind = "track" => got[k].tag \in cmd.wanted
            /\ cmd.request.ir = "program" => got[k].tag \in cmd.request.accepts
      BY <1>1 DEF CliInv, FramesKept, Wanted
    <2>5. ASSUME NEW j \in 1 .. Len(got), NEW k \in 1 .. Len(got), j < k, cmd.kind = "observe"
          PROVE  got[j].token < got[k].token
      <3>1. got[j].layer \in NetworkLayer /\ got[k].layer \in NetworkLayer
        BY <2>4, <2>5 DEF Expected
      <3>2. got[j].token # 0 /\ got[k].token # 0
        BY <1>1, <3>1 DEF CliInv, FramesKept, Token
      <3> QED
        BY <1>1, <2>5, <3>2 DEF CliInv, FramesKept, InOrder
    <2> QED
      BY <2>2, <2>3, <2>4, <2>5
  <1> QED
    BY <1>1, CliInvariant, PTL

(* What is reinjected is the packet that was received, on its layer,       *)
(* however many packets the driver captured between the receive and the    *)
(* send (netfilter.rs:102-140).                                            *)
THEOREM CliReinjectsWhatItReceived == CliSpec => []ReinjectsWhatItReceived
  BY CliInvariant, PTL DEF CliInv, OriginKept

=============================================================================
