-------------------------- MODULE RuntimeGlueProofs --------------------------
(***************************************************************************)
(* The driver as its C side sees it, over any number of runtimes that are  *)
(* created and destroyed one after the other.  Whatever a call of the C    *)
(* ABI asks for, it is one call of the handle, or none; destroying the     *)
(* runtime starts the handle anew.  So the handle's invariant is the       *)
(* glue's too, and what remains is what the dispatcher itself keeps: the   *)
(* answer and the packet handed over.                                      *)
(***************************************************************************)
EXTENDS RuntimeGlue, RuntimeDeviceProofs

Result == [status : GlueIoStatus, bytes_written : Nat]

(* An answer that is an error reports no bytes. *)
ResultKept == result \in Result /\ (result.status # "Success" => result.bytes_written = 0)

GlueInv == ContractInv /\ GlueTypeOK /\ HandedOverWasAccepted

(* What a call does, to the handle and to what is handed over. *)
Serves ==
  /\ UnsaturatedKinds \/ UNCHANGED vars
  /\ \/ UNCHANGED <<accepted, last_reinjection>>
     \/ \E layer \in NetworkLayer, token \in Token :
          Redeems(layer, token) /\ last_reinjection' = accepted'[token]
  /\ runtime' \in BOOLEAN
  /\ ResultKept'

-----------------------------------------------------------------------------
(* A token that is held is one the counter can have given out. *)
LEMMA HeldIsToken ==
  ASSUME DeviceInv, NEW token, HoldsToken(reinjection, token)
  PROVE  token \in Token
  <1>1. PICK i \in TableSlot : reinjection.slots[i] # None /\ reinjection.slots[i].token = token
    BY DEF HoldsToken, Holders
  <1>2. reinjection.slots[i] \in Entry(PacketIds)
    BY <1>1, DeviceFacts DEF Tables
  <1> QED
    BY <1>1, <1>2 DEF Entry

(* send accepts a packet that has an id. *)
LEMMA RedeemsHandsOver ==
  ASSUME DeviceInv, NEW layer \in NetworkLayer, NEW token \in Token, Redeems(layer, token)
  PROVE  token \in spent' /\ accepted'[token] \in Reinjection
  <1> DEFINE id == PacketIdOf(reinjection, token)
  <1>1. /\ accepted' = [accepted EXCEPT ![token] = [packet_id |-> id, layer |-> layer]]
        /\ accepted \in [Token -> Reinjection \cup {NoReinjection}]
    BY DEF Redeems, Accepts, DeviceInv, TypeOK
  <1>2. id \in PacketIds /\ id # 0
    BY DeviceFacts, TableTypes, DeviceAssumption DEF Redeems
  <1> HIDE DEF id
  <1>3. accepted'[token] = [packet_id |-> id, layer |-> layer]
    BY <1>1
  <1> QED
    BY <1>2, <1>3 DEF spent, Reinjection, NoReinjection

(* The answer to a call the handle has served. *)
LEMMA AnswerKept ==
  ASSUME reply' \in Results, NEW bytes, reply' = "Ok" => bytes \in Nat, AnswersWith(bytes)
  PROVE  ResultKept' /\ (result'.status = "Success" <=> reply' = "Ok")
  <1>1. CASE reply' = "Ok"
    BY <1>1 DEF AnswersWith, Answers, ResultKept, Result, GlueIoStatus
  <1>2. CASE reply' # "Ok"
    <2>1. StatusOf(reply') \in GlueIoStatus \ {"Success"}
      BY <1>2 DEF StatusOf, GlueIoStatus, Results
    <2>2. result' = [status |-> StatusOf(reply'), bytes_written |-> 0]
      BY <1>2 DEF AnswersWith, Answers
    <2> QED
      BY <1>2, <2>1, <2>2 DEF ResultKept, Result
  <1> QED
    BY <1>1, <1>2

-----------------------------------------------------------------------------
(* The calls, one by one, whatever their arguments.  An answer other than  *)
(* Success means the handle has refused the call, but for an open whose    *)
(* response does not fit.                                                  *)

LEMMA RejectsServes ==
  ASSUME GlueInv, NEW status \in GlueIoStatus \ {"Success"}, Rejects(status)
  PROVE  Serves /\ UNCHANGED <<vars, last_reinjection, runtime>>
  BY DEF GlueInv, GlueTypeOK, Rejects, Answers, Serves, ResultKept, Result, vars, history

LEMMA CreateServes == GlueInv /\ CreateRuntime => Serves
  BY DEF GlueInv, GlueTypeOK, CreateRuntime, Serves, ResultKept, Result, vars, history

LEMMA OpenServes ==
  ASSUME GlueInv, NEW request \in Requests, NEW outputLen, ControlOpen(request, outputLen)
  PROVE  /\ Serves
         /\ result'.status = "Success" => Opens
         /\ result'.status # "Success" => Refused \/ (Opens /\ result'.status = "OutputTooSmall")
         /\ UNCHANGED <<runtime, last_reinjection>>
  <1>1. Refused \/ Opens
    BY OpenKind DEF ControlOpen
  <1>2. reply' \in Results /\ UNCHANGED accepted
    BY <1>1 DEF Refused, Quiet, Opens, Returns, Results, history
  <1>3. \/ reply' = "Ok" /\ Answers("OutputTooSmall", 0)
        \/ AnswersWith(OpenResponseLen)
    BY DEF ControlOpen
  <1>4. ResultKept' /\ (result'.status = "Success" => reply' = "Ok")
                    /\ (result'.status # "Success" =>
                          reply' # "Ok" \/ (reply' = "Ok" /\ result'.status = "OutputTooSmall"))
    <2>1. CASE reply' = "Ok" /\ Answers("OutputTooSmall", 0)
      BY <2>1 DEF Answers, ResultKept, Result, GlueIoStatus
    <2>2. CASE AnswersWith(OpenResponseLen)
      BY <1>2, <2>2, AnswerKept DEF OpenResponseLen
    <2> QED
      BY <1>3, <2>1, <2>2
  <1>5. UNCHANGED <<runtime, last_reinjection>> /\ runtime \in BOOLEAN
    BY DEF ControlOpen, GlueInv, GlueTypeOK
  <1>6. Opens => reply' = "Ok"
    BY DEF Opens, Returns
  <1> QED
    BY <1>1, <1>2, <1>4, <1>5, <1>6 DEF Serves, UnsaturatedKinds, CallKinds, Refused

LEMMA RecvServes ==
  ASSUME GlueInv, NEW outputLen, ControlRecv(outputLen)
  PROVE  /\ Serves
         /\ result'.status = "Success" => Delivers
         /\ result'.status # "Success" => Refused
         /\ UNCHANGED <<runtime, last_reinjection>>
  <1>1. Refused \/ Delivers
    BY RecvKind DEF ControlRecv
  <1>2. reply' \in Results /\ UNCHANGED accepted
    BY <1>1 DEF Refused, Quiet, Delivers, Returns, Results, history
  <1>3. Delivers => Oldest(queue).size \in Nat
    <2>1. queue.len > 0 => Oldest(queue) \in Frame
      BY DeviceFacts, DropOldestKeepsNoStaleSlot DEF GlueInv, ContractInv
    <2> QED
      BY <2>1 DEF Delivers, Frame
  <1>4. Refused => reply' # "Ok"
    BY DEF Refused
  <1>5. ResultKept' /\ (result'.status = "Success" <=> reply' = "Ok")
    BY <1>1, <1>2, <1>3, <1>4, AnswerKept DEF ControlRecv
  <1>6. UNCHANGED <<runtime, last_reinjection>> /\ runtime \in BOOLEAN
    BY DEF ControlRecv, GlueInv, GlueTypeOK
  <1>7. Delivers => reply' = "Ok"
    BY DEF Delivers, Returns
  <1> QED
    BY <1>1, <1>2, <1>4, <1>5, <1>6, <1>7 DEF Serves, UnsaturatedKinds, CallKinds, Refused

LEMMA SendServes ==
  ASSUME GlueInv, NEW layer, NEW token, NEW len, ControlSend(layer, token, len)
  PROVE  /\ Serves
         /\ result'.status = "Success" =>
              layer \in NetworkLayer /\ token \in Token /\ Redeems(layer, token)
         /\ result'.status # "Success" => Refused /\ UNCHANGED last_reinjection
         /\ UNCHANGED runtime
  <1>1. Refused \/ (layer \in NetworkLayer /\ Redeems(layer, token))
    BY SendKind DEF ControlSend
  <1>2. Redeems(layer, token) => token \in Token /\ reply' = "Ok"
    BY HeldIsToken DEF GlueInv, ContractInv, Redeems, Accepts, Returns
  <1>3. Refused => reply' # "Ok" /\ reply' \in Results /\ UNCHANGED accepted
    BY DEF Refused, Quiet, history
  <1>4. reply' \in Results
    BY <1>1, <1>2, <1>3 DEF Results
  <1>5. ResultKept' /\ (result'.status = "Success" <=> reply' = "Ok")
    BY <1>4, AnswerKept DEF ControlSend
  <1>6. /\ UNCHANGED runtime /\ runtime \in BOOLEAN
        /\ last_reinjection' = IF reply' = "Ok" THEN accepted'[token] ELSE last_reinjection
    BY DEF ControlSend, GlueInv, GlueTypeOK
  <1> QED
    BY <1>1, <1>2, <1>3, <1>5, <1>6 DEF Serves, UnsaturatedKinds, CallKinds, Refused

LEMMA SendUndecodableServes ==
  ASSUME GlueInv, ControlSendUndecodable
  PROVE  Serves /\ Refused /\ UNCHANGED <<runtime, last_reinjection>>
  <1>1. Refused
    BY UndecodableKind DEF ControlSendUndecodable
  <1>2. ResultKept'
    BY <1>1, AnswerKept DEF ControlSendUndecodable, Refused, Quiet
  <1>3. UNCHANGED <<runtime, last_reinjection>> /\ runtime \in BOOLEAN
    BY DEF ControlSendUndecodable, GlueInv, GlueTypeOK
  <1> QED
    BY <1>1, <1>2, <1>3 DEF Serves, UnsaturatedKinds, CallKinds, Refused, Quiet, history

LEMMA CaptureServes ==
  ASSUME GlueInv, NEW layer, NEW packet \in Packets,
         CaptureNetwork(layer, packet), Unsaturated'
  PROVE  /\ Serves
         /\ result'.status # "Success" => Refused
         /\ UNCHANGED <<runtime, last_reinjection>>
  <1>1. Refused \/ Ignored \/ (layer \in NetworkLayer /\ Issues(layer, packet))
    BY CaptureKind DEF CaptureNetwork
  <1>2. Issues(layer, packet) => reply' = "Ok" /\ UNCHANGED accepted
    BY DEF Issues, IssueAndEnqueue, Returns
  <1>3. Ignored => Quiet /\ reply' = "Ok"
    BY IgnoredIsQuiet DEF Ignored, Returns
  <1>4. reply' \in Results /\ UNCHANGED accepted
    BY <1>1, <1>2, <1>3 DEF Refused, Quiet, Results, history
  <1>5. ResultKept' /\ (result'.status = "Success" <=> reply' = "Ok")
    BY <1>4, AnswerKept DEF CaptureNetwork
  <1>6. UNCHANGED <<runtime, last_reinjection>> /\ runtime \in BOOLEAN
    BY DEF CaptureNetwork, GlueInv, GlueTypeOK
  <1>7. UnsaturatedKinds
    BY <1>1, <1>3 DEF UnsaturatedKinds, CallKinds, Refused
  <1> QED
    BY <1>1, <1>2, <1>3, <1>4, <1>5, <1>6, <1>7 DEF Serves

-----------------------------------------------------------------------------
(* The invariant.                                                          *)

LEMMA GlueInvInit == GlueInit => GlueInv
  <1> SUFFICES ASSUME GlueInit PROVE GlueInv
    OBVIOUS
  <1>1. ContractInv
    BY ContractInvInit DEF GlueInit
  <1>2. GlueTypeOK
    BY <1>1 DEF ContractInv, DeviceInv, GlueInit, GlueTypeOK, GlueIoStatus
  <1> QED
    BY <1>1, <1>2 DEF GlueInv, GlueInit, HandedOverWasAccepted

LEMMA ServesKeeps == GlueInv /\ Serves => GlueInv'
  <1> SUFFICES ASSUME GlueInv, Serves PROVE GlueInv'
    OBVIOUS
  <1>1. ContractInv'
    BY ContractInvStep DEF GlueInv, Serves
  <1>2. CASE UNCHANGED <<accepted, last_reinjection>>
    <2>1. HandedOverWasAccepted'
      BY <1>2 DEF GlueInv, HandedOverWasAccepted, spent
    <2>2. GlueTypeOK'
      BY <1>1, <1>2 DEF GlueInv, ContractInv, DeviceInv, GlueTypeOK, Serves, ResultKept, Result
    <2> QED
      BY <1>1, <2>1, <2>2 DEF GlueInv
  <1>3. ASSUME NEW layer \in NetworkLayer, NEW token \in Token,
               Redeems(layer, token), last_reinjection' = accepted'[token]
        PROVE  GlueInv'
    <2>1. token \in spent' /\ last_reinjection' \in Reinjection
      BY <1>3, RedeemsHandsOver DEF GlueInv, ContractInv
    <2>2. HandedOverWasAccepted'
      BY <1>3, <2>1 DEF HandedOverWasAccepted
    <2>3. GlueTypeOK'
      BY <1>1, <2>1 DEF ContractInv, DeviceInv, GlueTypeOK, Serves, ResultKept, Result
    <2> QED
      BY <1>1, <2>2, <2>3 DEF GlueInv
  <1> QED
    BY <1>2, <1>3 DEF Serves

LEMMA DestroyIsInit == DestroyRuntime => Init'
  BY DEF DestroyRuntime, Init, Returns

LEMMA DestroyKeeps == GlueInv /\ DestroyRuntime => GlueInv'
  <1> SUFFICES ASSUME GlueInv, DestroyRuntime PROVE GlueInv'
    OBVIOUS
  <1>1. ContractInv'
    BY DestroyIsInit, ContractInvInit, PTL
  <1>2. GlueTypeOK'
    BY <1>1 DEF ContractInv, DeviceInv, GlueInv, GlueTypeOK, DestroyRuntime
  <1> QED
    BY <1>1, <1>2 DEF GlueInv, DestroyRuntime, HandedOverWasAccepted

LEMMA GlueNextServes == GlueInv /\ GlueNext => Serves \/ DestroyRuntime
  <1> SUFFICES ASSUME GlueInv, GlueNext PROVE Serves \/ DestroyRuntime
    OBVIOUS
  <1>1. CASE CallWithoutRuntime \/ CallWithNullBuffer \/ ControlUnsupported
             \/ ControlOpenUndecodable \/ CaptureUnknownLayer
    BY <1>1, RejectsServes
       DEF CallWithoutRuntime, CallWithNullBuffer, ControlUnsupported, ControlOpenUndecodable,
           CaptureUnknownLayer, GlueIoStatus
  <1>2. CASE CreateRuntime
    BY <1>2, CreateServes
  <1>3. CASE \/ \E request \in Requests, outputLen \in OutputLens : ControlOpen(request, outputLen)
             \/ \E outputLen \in OutputLens : ControlRecv(outputLen)
             \/ \E layer \in SendLayers, token \in Token, len \in SendLens :
                  ControlSend(layer, token, len)
             \/ ControlSendUndecodable
             \/ \E layer \in CaptureLayers, packet \in Packets :
                  CaptureNetwork(layer, packet) /\ Unsaturated'
    BY <1>3, OpenServes, RecvServes, SendServes, SendUndecodableServes, CaptureServes
  <1> QED
    BY <1>1, <1>2, <1>3 DEF GlueNext

LEMMA GlueInvStep == GlueInv /\ [GlueNext]_gvars => GlueInv'
  <1> SUFFICES ASSUME GlueInv, [GlueNext]_gvars PROVE GlueInv'
    OBVIOUS
  <1>1. CASE UNCHANGED gvars
    <2>1. Serves
      BY <1>1 DEF gvars, glue, vars, history, Serves, GlueInv, GlueTypeOK, ResultKept, Result
    <2> QED
      BY <2>1, ServesKeeps
  <1> QED
    BY <1>1, GlueNextServes, ServesKeeps, DestroyKeeps

LEMMA GlueInvariant == GlueSpec => []GlueInv
  BY GlueInvInit, GlueInvStep, PTL DEF GlueSpec

-----------------------------------------------------------------------------
(* Every answer of the C ABI is well formed, and an error reports no bytes *)
(* (glue_api.rs, ioctl_dispatch.rs).                                       *)
THEOREM GlueTypeCorrect == GlueSpec => []GlueTypeOK
  BY GlueInvariant, PTL DEF GlueInv

(* What is handed over for reinjection was accepted by the runtime there   *)
(* is, whatever was refused, captured or destroyed in between              *)
(* (ioctl_dispatch.rs:64-80).                                              *)
THEOREM GlueHandsOverTheAccepted == GlueSpec => []HandedOverWasAccepted
  BY GlueInvariant, PTL DEF GlueInv

(* An error leaves no trace, but for the open whose response does not fit. *)
THEOREM GlueErrorLeavesNoTrace == GlueSpec => OnlyShortOpenLeavesATrace
  <1> DEFINE NoTrace ==
        (runtime /\ runtime' /\ result'.status # "Success") =>
          \/ UNCHANGED <<device, history, last_reinjection>>
          \/ /\ result'.status = "OutputTooSmall"
             /\ state = "Opening" /\ state' = "Running"
             /\ UNCHANGED <<queue, reinjection, history, last_reinjection>>
  <1>1. GlueInv /\ [GlueNext]_gvars => [NoTrace]_gvars
    <2> SUFFICES ASSUME GlueInv, GlueNext, runtime, runtime', result'.status # "Success"
                 PROVE  \/ UNCHANGED <<device, history, last_reinjection>>
                        \/ /\ result'.status = "OutputTooSmall"
                           /\ state = "Opening" /\ state' = "Running"
                           /\ UNCHANGED <<queue, reinjection, history, last_reinjection>>
      OBVIOUS
    <2>1. CASE CallWithoutRuntime \/ CreateRuntime \/ DestroyRuntime
      BY <2>1 DEF CallWithoutRuntime, CreateRuntime, DestroyRuntime
    <2>2. CASE CallWithNullBuffer \/ ControlUnsupported \/ ControlOpenUndecodable
               \/ CaptureUnknownLayer
      BY <2>2 DEF CallWithNullBuffer, ControlUnsupported, ControlOpenUndecodable,
                  CaptureUnknownLayer, Rejects, vars
    <2>3. ASSUME NEW request \in Requests, NEW outputLen, ControlOpen(request, outputLen)
          PROVE  \/ UNCHANGED <<device, history, last_reinjection>>
                 \/ /\ result'.status = "OutputTooSmall"
                    /\ state = "Opening" /\ state' = "Running"
                    /\ UNCHANGED <<queue, reinjection, history, last_reinjection>>
      BY <2>3, OpenServes DEF Refused, Quiet, Opens
    <2>4. CASE \/ \E outputLen \in OutputLens : ControlRecv(outputLen)
               \/ \E layer \in SendLayers, token \in Token, len \in SendLens :
                    ControlSend(layer, token, len)
               \/ ControlSendUndecodable
               \/ \E layer \in CaptureLayers, packet \in Packets :
                    CaptureNetwork(layer, packet) /\ Unsaturated'
      BY <2>4, RecvServes, SendServes, SendUndecodableServes, CaptureServes DEF Refused, Quiet
    <2> QED
      BY <2>1, <2>2, <2>3, <2>4 DEF GlueNext
  <1> QED
    BY <1>1, GlueInvariant, PTL DEF GlueSpec, OnlyShortOpenLeavesATrace

(* Through the dispatcher and the C ABI a handle keeps its contract: every *)
(* step is a step of the contract or none, but for a destroy, after which  *)
(* the contract starts again.                                              *)
THEOREM GlueKeepsContract ==
  GlueSpec => /\ Promise!ContractInit
              /\ [][ \/ Promise!ContractNext
                     \/ DestroyRuntime /\ Promise!ContractInit' ]_(Promise!cvars)
  <1>1. GlueInv /\ [GlueNext]_gvars =>
          [Promise!ContractNext \/ (DestroyRuntime /\ Promise!ContractInit')]_(Promise!cvars)
    <2> SUFFICES ASSUME GlueInv, [GlueNext]_gvars
                 PROVE  \/ Promise!ContractNext
                        \/ DestroyRuntime /\ Promise!ContractInit'
                        \/ UNCHANGED Promise!cvars
      OBVIOUS
    <2>1. CASE UNCHANGED gvars
      BY <2>1, ContractStep DEF gvars, GlueInv
    <2>2. CASE Serves
      BY <2>2, ContractStep DEF Serves, GlueInv
    <2>3. DestroyRuntime => Promise!ContractInit'
      BY DestroyIsInit, InitIsContractInit, PTL
    <2> QED
      BY <2>1, <2>2, <2>3, GlueNextServes
  <1>2. GlueInit => Promise!ContractInit
    BY InitIsContractInit DEF GlueInit
  <1> QED
    BY <1>1, <1>2, GlueInvariant, PTL DEF GlueSpec

=============================================================================
