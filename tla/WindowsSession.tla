--------------------------- MODULE WindowsSession ---------------------------
(***************************************************************************)
(* The user side of a runtime: WindowsTransport and WindowsSession of      *)
(* crates/wd-user/src/windows.rs over the driver.  CreateFile makes a file *)
(* object and with it a runtime, DeviceIoControl is a control call of that *)
(* runtime, CloseHandle destroys it.  Each call leaves what Win32 answered *)
(* in win32; what the driver wrote is in result and in the device.         *)
(***************************************************************************)
EXTENDS RuntimeGlue

VARIABLES
  device_handle,   \* the handle the transport or the session holds
  closes,   \* history: CloseHandle calls, for each handle CreateFile returned
  win32     \* outcome of the last call

session == <<device_handle, closes, win32>>
svars == <<gvars, session>>

INVALID_HANDLE_VALUE == 0

(* not_found: ERROR_FILE_NOT_FOUND or ERROR_PATH_NOT_FOUND; denied:        *)
(* ERROR_ACCESS_DENIED or ERROR_SHARING_VIOLATION; failed: any other.      *)
Win32 == {"ok", "not_found", "denied", "failed"}

SessionTypeOK ==
  /\ GlueTypeOK
  /\ closes \in Seq(Nat)
  /\ device_handle \in {INVALID_HANDLE_VALUE} \cup DOMAIN closes
  /\ win32 \in Win32

SessionInit ==
  /\ GlueInit
  /\ device_handle = INVALID_HANDLE_VALUE
  /\ closes = <<>>
  /\ win32 = "ok"

(* classify_open_error *)
OpenError(outcome) ==
  CASE outcome = "not_found" -> "device_unavailable"
    [] outcome = "denied"    -> "open_failed"
    [] outcome = "failed"    -> "io_failure"

(* open_device_handle *)
OpenDeviceHandle ==
  \/ /\ CreateRuntime
     /\ device_handle' = Len(closes) + 1
     /\ closes' = Append(closes, 0)
     /\ win32' = "ok"
  \/ /\ win32' \in Win32 \ {"ok"}
     /\ UNCHANGED <<gvars, device_handle, closes>>

(* device_io_control: Win32 fails the call before it gets to the driver, or *)
(* the driver serves it, and whatever the status is the caller sees a      *)
(* success or an error.                                                    *)
DeviceIoControl(Control) ==
  /\ \/ Control /\ win32' = IF result'.status = "Success" THEN "ok" ELSE "failed"
     \/ UNCHANGED gvars /\ win32' = "failed"
  /\ UNCHANGED <<device_handle, closes>>

(* negotiate_open, with its response of 12 bytes.  A driver of another     *)
(* build may answer what does not decode, or a status other than 0.        *)
NegotiateOpen(request) == DeviceIoControl(ControlOpen(request, OpenResponseLen))

NegotiationErrors ==
  IF win32' = "ok" THEN {"none", "protocol_mismatch", "open_failed"} ELSE {"open_failed"}

RecvOne(max_bytes) == DeviceIoControl(ControlRecv(max_bytes))

SendOne(layer, token, len) == DeviceIoControl(ControlSend(layer, token, len))

(* WindowsSession::close_handle, which forgets the handle before it closes *)
(* it, and close_handle_after_negotiate, after which the handle is gone    *)
(* with the call.  A failing CloseHandle leaves the file object.           *)
CloseHandle ==
  /\ closes' = [closes EXCEPT ![device_handle] = @ + 1]
  /\ device_handle' = INVALID_HANDLE_VALUE
  /\ \/ DestroyRuntime /\ win32' = "ok"
     \/ win32' = "failed" /\ UNCHANGED gvars

=============================================================================
