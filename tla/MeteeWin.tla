------------------------------- MODULE MeteeWin -------------------------------
(***************************************************************************)
(* The Windows back end: src/Windows/metee_win.c and metee_winhelpers.c    *)
(* over a driver with overlapped requests.                                 *)
(*                                                                         *)
(* A session owns three OVERLAPPED structures, each with its event: one    *)
(* for IOCTLs, one for reads, one for writes.  A call starts a request on  *)
(* one of them and waits for its event; a call that gives up leaves the    *)
(* request with the driver.  As in MeteeLinux one thread makes the calls   *)
(* and another cancels and disconnects.  A call is split where it waits    *)
(* and where the other thread's work could be seen.                        *)
(***************************************************************************)
EXTENDS Naturals

CONSTANTS
  Reports,       \* what a client may report: its version and message length
  PromptCancel,  \* the driver ends a cancelled request within CANCEL_TIMEOUT
  Usage          \* when the caller calls TeeDisconnect: see MayDisconnect

ASSUME ReportsAssumption == "none" \notin Reports
ASSUME PromptCancelAssumption == PromptCancel \in BOOLEAN
ASSUME UsageAssumption == Usage \in {"serial", "exception"}

VARIABLES
  impl,   \* handle->handle points to a live struct METEE_WIN_IMPL
  hdl,    \* the report TeeConnect copied into the TEEHANDLE
  win,    \* the struct METEE_WIN_IMPL of the session
  evt,    \* each OVERLAPPED: its request and, when that is over, its outcome
  files,  \* the open device handles: the caller's own and the library's
  used,   \* the file objects on which a client was connected once
  report, \* what the client of the last connection reported
  io,     \* the I/O thread: where it waits, the result of the last call
  ctl,    \* the control thread: its place in TeeCancelIO or TeeDisconnect
  fault   \* a thread used the session's memory after TeeDisconnect freed it

vars == <<impl, hdl, win, evt, files, used, report, io, ctl, fault>>

Slots == {"IOCTL", "READ", "WRITE"}

PendingStates == {"pending", "cancelling"}
OverStates == {"success", "error", "aborted"}

\* The Win32 errors Win32ErrorToTee() tells apart; OTHER stands for the rest.
Win32Errors == {"INVALID_HANDLE", "INSUFFICIENT_BUFFER", "GEN_FAILURE",
                "DEVICE_NOT_CONNECTED", "NOT_FOUND", "ACCESS_DENIED",
                "OPERATION_ABORTED", "OTHER"}

InitErrors == {"INVALID_PARAMETER", "DEVICE_NOT_FOUND", "DEVICE_NOT_READY",
               "PERMISSION_DENIED", "INTERNAL_ERROR"}

\* The last one is no TEESTATUS: SendIOCTL() returns a Win32 code as it is.
Statuses == InitErrors \cup
  {"SUCCESS", "CLIENT_NOT_FOUND", "DISCONNECTED", "TIMEOUT", "INSUFFICIENT_BUFFER",
   "UNABLE_TO_COMPLETE_OPERATION", "ERROR_INVALID_PARAMETER"}

Transfers == {"read", "write"}

\* TeeFWStatus, TeeGetTRC and GetDriverVersion are one call here, "query".
Calls == Transfers \cup {"connect", "query"}
-------------------------------------------------------------------------------
\* Mutant: an error of the device is returned as it is.
Win32ErrorToTeeRaw(e) ==
  CASE e = "INVALID_HANDLE"        -> "INVALID_PARAMETER"
    [] e = "NOT_FOUND"             -> "CLIENT_NOT_FOUND"
    [] e \in {"GEN_FAILURE", "OPERATION_ABORTED"} -> "UNABLE_TO_COMPLETE_OPERATION"
    [] OTHER                       -> e

Win32ErrorToTee(e) ==
  CASE e = "INVALID_HANDLE"        -> "INVALID_PARAMETER"
    [] e = "INSUFFICIENT_BUFFER"   -> "INSUFFICIENT_BUFFER"
    [] e \in {"GEN_FAILURE", "OPERATION_ABORTED"} -> "UNABLE_TO_COMPLETE_OPERATION"
    [] e = "DEVICE_NOT_CONNECTED"  -> "DEVICE_NOT_READY"
    [] e = "NOT_FOUND"             -> "CLIENT_NOT_FOUND"
    [] e = "ACCESS_DENIED"         -> "PERMISSION_DENIED"
    [] e = "OTHER"                 -> "INTERNAL_ERROR"

\* What __CreateFile() makes of the errors of CreateFileA().
CreateFileErrors == {"DEVICE_NOT_FOUND", "PERMISSION_DENIED", "DEVICE_NOT_READY"}

\* TeeConnect reports a client it cannot find: the driver says INVALID_HANDLE.
ConnectError(e) ==
  IF Win32ErrorToTee(e) = "INVALID_PARAMETER" THEN "CLIENT_NOT_FOUND"
  ELSE Win32ErrorToTee(e)

\* The errors GetOverlappedResult() gives for a request that is over.
ErrorsOf(outcome) ==
  CASE outcome = "error"   -> Win32Errors \ {"OPERATION_ABORTED"}
    [] outcome = "aborted" -> {"OPERATION_ABORTED"}
    [] OTHER               -> {}

Slot(op) == CASE op = "read" -> "READ" [] op = "write" -> "WRITE" [] OTHER -> "IOCTL"

Pending(slot) == evt[slot] \in PendingStates

\* The manual-reset event of an OVERLAPPED is set from the end of a request to the
\* start of the next one.
Signaled(slot) == evt[slot] \in OverStates

NewEvents == [slot \in Slots |-> "idle"]

\* The last handle of a file object is closed: its requests are over.
AbortAll(e) == [slot \in Slots |-> IF e[slot] \in PendingStates THEN "aborted" ELSE e[slot]]

WinImpl(state, file) == [state |-> state, file |-> file, closeOnExit |-> file # "caller"]

FileOf(kind) == IF kind = "path" THEN "device" ELSE "caller"

\* By path, by GUID or by default; or a handle of the caller.
InitKinds == {"path", "handle"}

\* The call in progress, or one that does not wait, returns.
Returns(op, status) ==
  io' = [io EXCEPT !.pc = "idle", !.ret = [op |-> op, status |-> status]]

\* Mutant: a transfer that timed out leaves the session connected.
FailedUnlessTimeout(status) ==
  win' = [win EXCEPT !.state = IF status = "TIMEOUT" THEN win.state ELSE "FAILED"]

\* Whatever the failure, the session has to be connected again.
Failed(status) == win' = [win EXCEPT !.state = "FAILED"]

Disconnecting == ctl \in {"discCancel", "discWait", "discFree"}

\* The I/O thread makes a call: never during TeeDisconnect (README, Thread safety).
MayCall == io.pc = "idle" /\ ~Disconnecting
-------------------------------------------------------------------------------
Init ==
  /\ impl = FALSE
  /\ hdl = "none"
  /\ win = WinImpl("NONE", "none")
  /\ evt = NewEvents
  /\ files = {"caller"}
  /\ used = {}
  /\ report = "none"
  /\ io = [pc |-> "idle", op |-> "read", timed |-> FALSE,
           ret |-> [op |-> "none", status |-> "SUCCESS"]]
  /\ ctl = "idle"
  /\ fault = FALSE

(* TeeInitFullInt() on a handle without a session. *)

\* A NULL handle or GUID is refused before the handle is cleared.
TeeInitRefused ==
  /\ MayCall /\ ~impl
  /\ Returns("init", "INVALID_PARAMETER")
  /\ UNCHANGED <<impl, hdl, win, evt, files, used, report, ctl, fault>>

\* Another parameter is wrong, the device is not found or not opened.
TeeInitFails(status) ==
  /\ MayCall /\ ~impl
  /\ hdl' = "none"
  /\ Returns("init", status)
  /\ UNCHANGED <<impl, win, evt, files, used, report, ctl, fault>>

\* Mutant: the device handle is forgotten.
UndoneLeaks(kind) == {}

UndoneCloses(kind) == {FileOf(kind)}

\* malloc(), _strdup() or CreateEvent() fails when there is a device handle: it is
\* closed, the caller's own too.
TeeInitUndone(kind, status) ==
  /\ MayCall /\ ~impl
  /\ FileOf(kind) = "caller" => "caller" \in files
  /\ hdl' = "none"
  /\ files' = (files \cup {FileOf(kind)}) \ UndoneCloses(kind)
  /\ Returns("init", status)
  /\ UNCHANGED <<impl, win, evt, used, report, ctl, fault>>

TeeInitSucceeds(kind) ==
  /\ MayCall /\ ~impl
  /\ FileOf(kind) = "caller" => "caller" \in files
  /\ impl' = TRUE
  /\ hdl' = "none"
  /\ win' = WinImpl("NONE", FileOf(kind))
  /\ evt' = NewEvents
  /\ files' = files \cup {FileOf(kind)}
  /\ used' = used \ {"device"}
  /\ Returns("init", "SUCCESS")
  /\ UNCHANGED <<report, ctl, fault>>

(* TeeConnect(). *)

TeeConnectNoSession ==
  /\ MayCall /\ ~impl
  /\ Returns("connect", "INVALID_PARAMETER")
  /\ UNCHANGED <<impl, hdl, win, evt, files, used, report, ctl, fault>>

TeeConnectRefused ==
  /\ MayCall /\ impl
  /\ win.state = "CONNECTED"
  /\ Returns("connect", "INTERNAL_ERROR")
  /\ UNCHANGED <<impl, hdl, win, evt, files, used, report, ctl, fault>>

\* Mutant: a failed session goes on with the handle it has.
NeverReopens == FALSE

\* A failed session gets a new device handle, unless the handle is the caller's.
Reopens == win.state = "FAILED" /\ win.closeOnExit

TeeConnectCannotReopen(status) ==
  /\ MayCall /\ impl
  /\ win.state # "CONNECTED" /\ Reopens
  /\ files' = files \ {"device"}
  /\ evt' = AbortAll(evt)
  /\ win' = [win EXCEPT !.file = "invalid"]
  /\ Returns("connect", status)
  /\ UNCHANGED <<impl, hdl, used, report, ctl, fault>>

Waits(pc, op, timed) == io' = [io EXCEPT !.pc = pc, !.op = op, !.timed = timed]

\* The CONNECT_CLIENT request is sent.
TeeConnectStarts ==
  /\ MayCall /\ impl
  /\ win.state # "CONNECTED"
  /\ IF Reopens
     THEN /\ files' = files \cup {"device"}
          /\ used' = used \ {"device"}
          /\ win' = [win EXCEPT !.file = "device"]
          /\ evt' = [AbortAll(evt) EXCEPT !["IOCTL"] = "pending"]
     ELSE /\ evt' = [evt EXCEPT !["IOCTL"] = "pending"]
          /\ UNCHANGED <<files, used, win>>
  /\ Waits("ioctl", "connect", FALSE)
  /\ UNCHANGED <<impl, hdl, report, ctl, fault>>

\* Mutant: the report is copied on the first connection only.
ReportOnce == IF hdl = "none" THEN report ELSE hdl

FreshReport == report

TeeConnectSucceeds ==
  /\ io.pc = "ioctl" /\ io.op = "connect" /\ impl
  /\ evt["IOCTL"] = "success"
  /\ win' = [win EXCEPT !.state = "CONNECTED"]
  /\ hdl' = FreshReport
  /\ Returns("connect", "SUCCESS")
  /\ UNCHANGED <<impl, evt, files, used, report, ctl, fault>>

\* The state is not touched: NONE may be tried again as it is.
TeeConnectFails(e) ==
  /\ io.pc = "ioctl" /\ io.op = "connect" /\ impl
  /\ e \in ErrorsOf(evt["IOCTL"])
  /\ Returns("connect", ConnectError(e))
  /\ UNCHANGED <<impl, hdl, win, evt, files, used, report, ctl, fault>>

(* TeeFWStatus(), TeeGetTRC(), GetDriverVersion(). *)

\* No session, no place for the result, or a status number above 5.
TeeQueryRefused ==
  /\ MayCall
  /\ Returns("query", "INVALID_PARAMETER")
  /\ UNCHANGED <<impl, hdl, win, evt, files, used, report, ctl, fault>>

\* The device handle was lost in a TeeConnect that could not open it again.
TeeQueryNoDevice ==
  /\ MayCall /\ impl
  /\ win.file = "invalid"
  /\ Failed("ERROR_INVALID_PARAMETER")
  /\ Returns("query", "ERROR_INVALID_PARAMETER")
  /\ UNCHANGED <<impl, hdl, evt, files, used, report, ctl, fault>>

TeeQueryStarts ==
  /\ MayCall /\ impl
  /\ win.file # "invalid"
  /\ evt' = [evt EXCEPT !["IOCTL"] = "pending"]
  /\ Waits("ioctl", "query", FALSE)
  /\ UNCHANGED <<impl, hdl, win, files, used, report, ctl, fault>>

TeeQuerySucceeds ==
  /\ io.pc = "ioctl" /\ io.op = "query" /\ impl
  /\ evt["IOCTL"] = "success"
  /\ Returns("query", "SUCCESS")
  /\ UNCHANGED <<impl, hdl, win, evt, files, used, report, ctl, fault>>

TeeQueryFails(e) ==
  /\ io.pc = "ioctl" /\ io.op = "query" /\ impl
  /\ e \in ErrorsOf(evt["IOCTL"])
  /\ Failed(Win32ErrorToTee(e))
  /\ Returns("query", Win32ErrorToTee(e))
  /\ UNCHANGED <<impl, hdl, evt, files, used, report, ctl, fault>>

(* TeeRead() and TeeWrite(): BeginOverlappedInternal() and EndOverlapped(). *)

\* No session, no buffer or a timeout above INT_MAX.
TeeTransferBadParameter(op) ==
  /\ MayCall
  /\ Returns(op, "INVALID_PARAMETER")
  /\ UNCHANGED <<impl, hdl, win, evt, files, used, report, ctl, fault>>

\* Mutant: a session that failed may go on.
EverConnected == win.state # "NONE"

Connected == win.state = "CONNECTED"

TeeTransferNotConnected(op) ==
  /\ MayCall /\ impl
  /\ ~Connected
  /\ Returns(op, "DISCONNECTED")
  /\ UNCHANGED <<impl, hdl, win, evt, files, used, report, ctl, fault>>

\* The request is with the driver; one that is refused at once is over at once.
TeeTransferStarts(op, timed) ==
  /\ MayCall /\ impl
  /\ Connected
  /\ evt' = [evt EXCEPT ![Slot(op)] = "pending"]
  /\ Waits("waiting", op, timed)
  /\ UNCHANGED <<impl, hdl, win, files, used, report, ctl, fault>>

TransferSucceeds ==
  /\ io.pc = "waiting" /\ impl
  /\ evt[Slot(io.op)] = "success"
  /\ Returns(io.op, "SUCCESS")
  /\ UNCHANGED <<impl, hdl, win, evt, files, used, report, ctl, fault>>

TransferFails(e) ==
  /\ io.pc = "waiting" /\ impl
  /\ e \in ErrorsOf(evt[Slot(io.op)])
  /\ Failed(Win32ErrorToTee(e))
  /\ Returns(io.op, Win32ErrorToTee(e))
  /\ UNCHANGED <<impl, hdl, evt, files, used, report, ctl, fault>>

\* WaitForSingleObject() gives up.  The request stays with the driver, and with it
\* the OVERLAPPED and the caller's buffer.
TransferTimesOut ==
  /\ io.pc = "waiting" /\ io.timed /\ impl
  /\ Pending(Slot(io.op))
  /\ Failed("TIMEOUT")
  /\ Returns(io.op, "TIMEOUT")
  /\ UNCHANGED <<impl, hdl, evt, files, used, report, ctl, fault>>

\* WaitForSingleObject() itself fails: the request stays too.
TransferWaitFails(e) ==
  /\ io.pc = "waiting" /\ impl
  /\ Pending(Slot(io.op))
  /\ Failed(Win32ErrorToTee(e))
  /\ Returns(io.op, Win32ErrorToTee(e))
  /\ UNCHANGED <<impl, hdl, evt, files, used, report, ctl, fault>>

\* EndOverlapped() goes on with the session and the OVERLAPPED that were freed.
TransferFaults ==
  /\ io.pc = "waiting" /\ ~impl
  /\ fault' = TRUE
  /\ io' = [io EXCEPT !.pc = "faulted"]
  /\ UNCHANGED <<impl, hdl, win, evt, files, used, report, ctl>>
-------------------------------------------------------------------------------
(* The control thread. *)

TeeCancelIO ==
  /\ ctl = "idle" /\ impl
  /\ ctl' = "cancel"
  /\ UNCHANGED <<impl, hdl, win, evt, files, used, report, io, fault>>

\* When the caller calls TeeDisconnect (README, Thread safety): between calls, or,
\* by the documented exception, to leave a read blocked on the other thread.
MayDisconnect ==
  \/ io.pc = "idle"
  \/ Usage = "exception" /\ io.pc = "waiting" /\ io.op = "read" /\ Pending("READ")

TeeDisconnect ==
  /\ ctl = "idle" /\ impl
  /\ MayDisconnect
  /\ ctl' = "discCancel"
  /\ UNCHANGED <<impl, hdl, win, evt, files, used, report, io, fault>>

AfterCancel == IF ctl \in {"cancel", "cancelWait"} THEN "idle" ELSE "discFree"

\* Mutant: only reads are cancelled.
CancelledReads == {"READ"}

\* CancelIoEx(handle, NULL): the requests of all threads on the device handle.
Cancelled == Slots

\* __TeeCancelIO() waits only when there was something to cancel.
CancelIo ==
  /\ ctl \in {"cancel", "discCancel"}
  /\ evt' = [slot \in Slots |->
               IF Pending(slot) /\ slot \in Cancelled THEN "cancelling" ELSE evt[slot]]
  /\ ctl' = CASE \A slot \in Slots : ~Pending(slot) -> AfterCancel
              [] ctl = "cancel" -> "cancelWait"
              [] OTHER -> "discWait"
  /\ UNCHANGED <<impl, hdl, win, files, used, report, io, fault>>

\* Mutant: the wait has no time-out.
CancelWaitForAll == \A slot \in Slots : Signaled(slot)

\* WaitForMultipleObjects() wants all three events.  One whose OVERLAPPED was never
\* used is not set, so the wait also ends with CANCEL_TIMEOUT.
CancelWaitOver ==
  \/ \A slot \in Slots : Signaled(slot)
  \/ PromptCancel => \A slot \in Slots : evt[slot] # "cancelling"

CancelWaitEnds ==
  /\ ctl \in {"cancelWait", "discWait"}
  /\ CancelWaitOver
  /\ ctl' = AfterCancel
  /\ UNCHANGED <<impl, hdl, win, evt, files, used, report, io, fault>>

\* Mutant: the caller's handle is closed too.
DisconnectClosesAny == {win.file}

DisconnectCloses == IF win.closeOnExit THEN {win.file} ELSE {}

\* The events, the device handle, the session; handle->handle is cleared.
DisconnectFree ==
  /\ ctl = "discFree"
  /\ files' = files \ DisconnectCloses
  /\ evt' = NewEvents
  /\ impl' = FALSE
  /\ ctl' = "idle"
  /\ UNCHANGED <<hdl, win, used, report, io, fault>>
-------------------------------------------------------------------------------
(* The driver and the caller's own handle. *)

ConnectPending == Pending("IOCTL") /\ io.pc = "ioctl" /\ io.op = "connect"

\* A client is connected once per file object ("the handle have to be reopened in
\* this case to reconnect to work", metee_win.c:300).
ConnectAccepted(r) ==
  /\ ConnectPending
  /\ win.file \notin used
  /\ evt' = [evt EXCEPT !["IOCTL"] = "success"]
  /\ used' = used \cup {win.file}
  /\ report' = r
  /\ UNCHANGED <<impl, hdl, win, files, io, ctl, fault>>

\* Whether or not a call still waits for it.
RequestEnds(slot, outcome) ==
  /\ Pending(slot)
  /\ slot = "IOCTL" /\ outcome = "success" => ~ConnectPending
  /\ evt' = [evt EXCEPT ![slot] = outcome]
  /\ UNCHANGED <<impl, hdl, win, files, used, report, io, ctl, fault>>

CancelledEnds(slot) ==
  /\ evt[slot] = "cancelling"
  /\ evt' = [evt EXCEPT ![slot] = "aborted"]
  /\ UNCHANGED <<impl, hdl, win, files, used, report, io, ctl, fault>>

CallerOpens ==
  /\ "caller" \notin files
  /\ files' = files \cup {"caller"}
  /\ used' = used \ {"caller"}
  /\ UNCHANGED <<impl, hdl, win, evt, report, io, ctl, fault>>
-------------------------------------------------------------------------------
IoCalls ==
  \/ TeeInitRefused
  \/ \E status \in InitErrors : TeeInitFails(status)
  \/ \E kind \in InitKinds, status \in {"INTERNAL_ERROR", "UNABLE_TO_COMPLETE_OPERATION"} :
       TeeInitUndone(kind, status)
  \/ \E kind \in InitKinds : TeeInitSucceeds(kind)
  \/ TeeConnectNoSession
  \/ TeeConnectRefused
  \/ \E status \in CreateFileErrors : TeeConnectCannotReopen(status)
  \/ TeeConnectStarts
  \/ TeeQueryRefused
  \/ TeeQueryNoDevice
  \/ TeeQueryStarts
  \/ \E op \in Transfers : TeeTransferBadParameter(op)
  \/ \E op \in Transfers : TeeTransferNotConnected(op)
  \/ \E op \in Transfers, timed \in BOOLEAN : TeeTransferStarts(op, timed)

\* A call in progress goes on.
IoProgress ==
  \/ TeeConnectSucceeds
  \/ \E e \in Win32Errors : TeeConnectFails(e)
  \/ TeeQuerySucceeds
  \/ \E e \in Win32Errors : TeeQueryFails(e)
  \/ TransferSucceeds
  \/ \E e \in Win32Errors : TransferFails(e)
  \/ TransferTimesOut
  \/ TransferFaults

IoStep == IoProgress \/ \E e \in Win32Errors : TransferWaitFails(e)

CtlCalls == TeeCancelIO \/ TeeDisconnect

CtlStep == CancelIo \/ CancelWaitEnds \/ DisconnectFree

DriverAborts == \E slot \in Slots : CancelledEnds(slot)

Driver ==
  \/ \E r \in Reports : ConnectAccepted(r)
  \/ \E slot \in Slots, outcome \in {"success", "error"} : RequestEnds(slot, outcome)
  \/ DriverAborts

\* After a fault the program's behaviour is undefined and the model stops.
Next == ~fault /\ (IoCalls \/ IoStep \/ CtlCalls \/ CtlStep \/ Driver \/ CallerOpens)

\* Both threads keep running once they are in a call, and the driver ends what it
\* was asked to cancel; it owes no other answer.
Fairness ==
  /\ WF_vars(~fault /\ IoProgress)
  /\ WF_vars(~fault /\ CtlStep)
  /\ WF_vars(~fault /\ DriverAborts)

Spec == Init /\ [][Next]_vars

FairSpec == Spec /\ Fairness
-------------------------------------------------------------------------------
StructImpl ==
  [state : {"NONE", "CONNECTED", "FAILED"}, file : {"none", "device", "caller", "invalid"},
   closeOnExit : BOOLEAN]

Results == [op : {"none", "init"} \cup Calls, status : Statuses]

IoThread ==
  [pc : {"idle", "ioctl", "waiting", "faulted"}, op : Calls, timed : BOOLEAN, ret : Results]

Files == {"device", "caller"}

TypeOK ==
  /\ impl \in BOOLEAN
  /\ hdl \in Reports \cup {"none"}
  /\ win \in StructImpl
  /\ evt \in [Slots -> {"idle"} \cup PendingStates \cup OverStates]
  /\ files \subseteq Files
  /\ used \subseteq Files
  /\ report \in Reports \cup {"none"}
  /\ io \in IoThread
  /\ ctl \in {"idle", "cancel", "cancelWait", "discCancel", "discWait", "discFree"}
  /\ fault \in BOOLEAN

(* Safety. *)

\* As long as a session is connected, every request the driver holds is one a call
\* is waiting for: a read that gave up can neither take a message the next read
\* should get nor have its OVERLAPPED started a second time, because whatever
\* makes a call give up also makes the session FAILED.
RequestsHaveWaiters ==
  impl /\ win.state = "CONNECTED" =>
    \A slot \in Slots : Pending(slot) => io.pc \in {"waiting", "ioctl"} /\ slot = Slot(io.op)

\* TeeDisconnect frees the three OVERLAPPED structures only when the driver has
\* finished with them, those of calls that gave up long before included; provided
\* the driver ends what it is asked to cancel before CANCEL_TIMEOUT.
RequestsOverBeforeFree ==
  [][impl /\ ~impl' => \A slot \in Slots : ~Pending(slot)]_vars

\* A device handle the library opened is open exactly as long as its session has
\* it, through failed initializations and through reopenings that succeed or not;
\* a session on the caller's handle never outlives it.
HandlesAccounted ==
  /\ "device" \in files <=> impl /\ win.file = "device"
  /\ impl /\ win.file = "caller" => "caller" \in files

\* The caller's handle is left open by TeeDisconnect and by every reconnection; only
\* a TeeInit that fails late closes it (metee_win.c:216), when there is no session.
CallerHandleKept ==
  [][files \ files' = {"caller"} =>
       ~impl /\ ~impl' /\ io'.ret.op = "init" /\ io'.ret.status # "SUCCESS"]_vars

\* A session that owns its device handle never asks for a connection on a file
\* object that had one before, which the driver would refuse, whatever made the
\* session fail.
ConnectsOnFreshFile ==
  impl /\ win.closeOnExit /\ ConnectPending => win.file \notin used

\* While a session is connected the caller's TEEHANDLE shows what the client
\* reported for this connection.
HandleMirrorsReport == impl /\ win.state = "CONNECTED" => hdl = report

(* What the safety invariants rest on. *)

\* Where the two threads may be, and what a call in progress may rely on.
PlacesOfCalls ==
  /\ ctl # "idle" => impl
  /\ io.pc = "ioctl" =>
       /\ impl /\ ~Disconnecting
       /\ io.op \in {"connect", "query"}
       /\ win.file \in Files
       /\ io.op = "connect" => win.state # "CONNECTED"
  /\ io.pc = "waiting" => io.op \in Transfers /\ (impl => win.state = "CONNECTED")

\* The device handle of a session: open, or lost while the session is FAILED.
FileOfSession ==
  impl =>
    /\ win.file \in Files \cup {"invalid"}
    /\ win.closeOnExit <=> win.file # "caller"
    /\ win.file = "invalid" => win.state = "FAILED"

ConnectAnswered == io.pc = "ioctl" /\ io.op = "connect" /\ evt["IOCTL"] = "success"

\* Transfers exist only on a file object that had its connection, so a request left
\* by an older call and a new connection never meet.
RequestsOfSession ==
  /\ \A slot \in Slots : Pending(slot) => impl
  /\ Pending("IOCTL") => io.pc = "ioctl"
  /\ Pending("READ") \/ Pending("WRITE") => win.file \in used
  /\ impl /\ win.state = "CONNECTED" => win.file \in used
  /\ ConnectAnswered => /\ win.file \in used
                        /\ ~Pending("READ") /\ ~Pending("WRITE")
  /\ impl /\ win.closeOnExit /\ win.state = "NONE" /\ win.file \in used => ConnectAnswered

\* What TeeDisconnect has still to wait for.
RequestsWhileDisconnecting ==
  /\ ctl = "discWait" => \A slot \in Slots : evt[slot] # "pending"
  /\ ctl = "discFree" => \A slot \in Slots : ~Pending(slot)

(* Liveness. *)

\* A call that is waiting when TeeCancelIO or TeeDisconnect begins returns, whichever
\* of the three requests it waits for and without a timeout of its own.
CancelEndsCalls ==
  ctl \in {"cancel", "discCancel"} /\ io.pc \in {"waiting", "ioctl"}
    ~> io.pc \in {"idle", "faulted"}

\* TeeDisconnect returns: unlike on Linux nothing in it waits without a bound.
DisconnectReturns == ctl = "discCancel" ~> ctl = "idle"

(* The session the caller sees. *)

Phase ==
  IF ~impl THEN "closed" ELSE IF win.state = "CONNECTED" THEN "connected" ELSE "open"

Session == INSTANCE TeeSession WITH
  Errors <- Statuses \ {"SUCCESS"}, phase <- Phase, ret <- io.ret

\* The Windows back end keeps the promises of metee.h that TeeSession states: in
\* particular TEE_DISCONNECTED always comes with a session that TeeConnect does not
\* refuse, although time-outs, cancels and failed queries end the connection here.
ImplementsSession == Session!SessionSpec
===============================================================================
