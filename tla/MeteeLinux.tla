------------------------------ MODULE MeteeLinux ------------------------------
(***************************************************************************)
(* The Linux back end: src/linux/metee_linux.c on top of the state machine *)
(* of libmei, src/linux/mei.c.                                             *)
(*                                                                         *)
(* One TEEHANDLE is used by two threads: the I/O thread initializes it,    *)
(* connects, reads and writes; the control thread cancels I/O and          *)
(* disconnects.  TeeRead and TeeWrite are split where the two threads can  *)
(* meet (in poll() and between poll() and the transfer), and so is         *)
(* TeeDisconnect (at the blocking pipe write, at mei_deinit() and at the   *)
(* release of the session).  The mei driver is the environment.            *)
(***************************************************************************)
EXTENDS Naturals

CONSTANTS
  Versions,   \* protocol versions the firmware client may report (uint8_t)
  MsgLens,    \* maximum message lengths the firmware client may report
  PipeCap,    \* cancel marks the cancel pipe holds before write() blocks
  MaxRx,      \* bound on the messages the driver has queued for the reader
  Usage       \* when the caller calls TeeDisconnect: see MayDisconnect

ASSUME VersionsAssumption == Versions \subseteq Nat
ASSUME MsgLensAssumption  == MsgLens \subseteq Nat
ASSUME PipeCapAssumption  == PipeCap \in Nat \ {0}
ASSUME MaxRxAssumption    == MaxRx \in Nat \ {0}
ASSUME UsageAssumption    == Usage \in {"serial", "exception"}

VARIABLES
  intl,   \* handle->handle points to a live struct metee_linux_intl
  hdl,    \* the properties TeeConnect copies into the TEEHANDLE
  me,     \* the struct mei of the session
  fds,    \* the open descriptors: the caller's own and those of the library
  pipe,   \* cancel marks in the cancel pipe; no code reads them
  io,     \* the I/O thread: its place in a transfer, the result of the last call
  ctl,    \* the control thread: its place in TeeCancelIO or TeeDisconnect
  driver, \* the driver's side of the device descriptor
  fault   \* a thread used the session's memory after TeeDisconnect freed it

vars == <<intl, hdl, me, fds, pipe, io, ctl, driver, fault>>

MeiStates == {"ZERO", "INITIALIZED", "DISABLED", "CONNECTED", "DISCONNECTED",
              "NOT_PRESENT", "VERSION_MISMATCH", "ERROR"}

\* The errno values of the driver that the code tells apart; OTHER stands for the
\* rest.  ECANCELED is poll()'s alone: the driver is taken not to return it.
Errnos == {"ENOTTY", "EBUSY", "ENODEV", "EOPNOTSUPP", "ETIME", "EACCES", "ENODATA",
           "ENOSPC", "OTHER"}

\* The errors of the parameter checks and what errno2status_init() makes of the errors
\* of mei_init_with_log*(), mei_init_fd() and pipe().  ENODEV, which it would turn into
\* DEVICE_NOT_READY, is not among them: it comes from open() alone, and there
\* mei_init_with_log*() succeeds with a disabled session.
InitErrors == {"INVALID_PARAMETER", "DEVICE_NOT_FOUND", "BUSY", "TIMEOUT",
               "PERMISSION_DENIED", "INTERNAL_ERROR"}

Statuses == InitErrors \cup
  {"SUCCESS", "CLIENT_NOT_FOUND", "DISCONNECTED", "NOTSUPPORTED",
   "UNABLE_TO_COMPLETE_OPERATION", "INSUFFICIENT_BUFFER"}

Transfers == {"read", "write"}

Queued == 0..MaxRx
------------------------------------------------------------------------------
\* Mutant: an unplugged device leaves the state as it is.
ErrnoToStateKeeps(e, state) ==
  CASE e = "ENOTTY"                  -> "NOT_PRESENT"
    [] e = "EBUSY"                   -> "DISCONNECTED"
    [] e \in {"ENODEV", "EOPNOTSUPP"} -> state
    [] OTHER                         -> "ERROR"

ErrnoToState(e, state) ==
  CASE e = "ENOTTY"              -> "NOT_PRESENT"
    [] e \in {"EBUSY", "ENODEV"} -> "DISCONNECTED"
    [] e = "EOPNOTSUPP"          -> state
    [] OTHER                     -> "ERROR"

\* Mutant: the default case returns the errno itself.
ErrnoToStatusRaw(e) ==
  CASE e = "ENOTTY" -> "CLIENT_NOT_FOUND"
    [] e = "EBUSY"  -> "BUSY"
    [] e = "ENODEV" -> "DISCONNECTED"
    [] OTHER        -> e

ErrnoToStatus(e) ==
  CASE e = "ENOTTY"                     -> "CLIENT_NOT_FOUND"
    [] e = "EBUSY"                      -> "BUSY"
    [] e = "ENODEV"                     -> "DISCONNECTED"
    [] e = "ETIME"                      -> "TIMEOUT"
    [] e = "EACCES"                     -> "PERMISSION_DENIED"
    [] e \in {"EOPNOTSUPP", "ENODATA"}  -> "NOTSUPPORTED"
    [] e = "ENOSPC"                     -> "INSUFFICIENT_BUFFER"
    [] e = "OTHER"                      -> "INTERNAL_ERROR"

\* Mutant: the caller's own descriptor is closed too.
DeinitClosesAny(m) == {m.fd} \ {"none"}

\* The descriptors mei_deinit() closes.
DeinitCloses(m) == IF m.closeOnExit THEN {m.fd} \ {"none"} ELSE {}

\* What mei_deinit() leaves in the struct.
Deinited(m) == [m EXCEPT !.fd = "none", !.bufSize = 0, !.protVer = 0, !.state = "ZERO"]

\* What mei_init_with_log*() and mei_init_fd() leave in the struct: the device
\* opened, the device node there but disabled (open() gives ENODEV), or the
\* caller's descriptor adopted.
MeiInit(kind) ==
  [state       |-> IF kind = "disabled" THEN "DISABLED" ELSE "INITIALIZED",
   fd          |-> CASE kind = "path" -> "device" [] kind = "handle" -> "caller"
                     [] kind = "disabled" -> "none",
   closeOnExit |-> kind # "handle",
   protVer     |-> 0,
   bufSize     |-> 0]

InitKinds == {"path", "disabled", "handle"}

NoProperties == [maxMsgLen |-> 0, protcolVer |-> 0]

\* Mutant: the properties are copied on the first connection only.
PropertiesOnce(ver, len) ==
  IF hdl = NoProperties THEN [maxMsgLen |-> len, protcolVer |-> ver] ELSE hdl

Properties(ver, len) == [maxMsgLen |-> len, protcolVer |-> ver]

\* A device descriptor just opened.
NoLink == [link |-> "none", rx |-> 0, txFull |-> FALSE, ver |-> 0, len |-> 0]

\* A call that does not wait returns.
Returns(op, status) == io' = [io EXCEPT !.ret = [op |-> op, status |-> status]]

\* The transfer in progress returns.
TransferReturns(status) ==
  io' = [io EXCEPT !.pc = "idle", !.ret = [op |-> io.op, status |-> status]]

Disconnecting == ctl \in {"discCancel", "discDeinit", "discFree"}

\* The I/O thread makes a call: never during TeeDisconnect (README, Thread safety).
MayCall == io.pc = "idle" /\ ~Disconnecting
------------------------------------------------------------------------------
Init ==
  /\ intl = FALSE
  /\ hdl = NoProperties
  /\ me = Deinited(MeiInit("handle"))
  /\ fds = {"caller"}
  /\ pipe = 0
  /\ io = [pc |-> "idle", op |-> "read", timed |-> FALSE, hit |-> FALSE,
           ret |-> [op |-> "none", status |-> "SUCCESS"]]
  /\ ctl = "idle"
  /\ driver = NoLink
  /\ fault = FALSE

(* TeeInitFullInt() on a handle without a session. *)

\* A NULL handle or GUID is refused before the handle is cleared.
TeeInitRefused ==
  /\ MayCall /\ ~intl
  /\ Returns("init", "INVALID_PARAMETER")
  /\ UNCHANGED <<intl, hdl, me, fds, pipe, ctl, driver, fault>>

\* Another parameter is wrong, or malloc(), open() or mei_init_fd() fails.
TeeInitFails(status) ==
  /\ MayCall /\ ~intl
  /\ hdl' = NoProperties
  /\ Returns("init", status)
  /\ UNCHANGED <<intl, me, fds, pipe, ctl, driver, fault>>

\* strdup() or pipe() fails when the device is already open: mei_deinit(), free().
TeeInitUndone(kind) ==
  /\ MayCall /\ ~intl
  /\ hdl' = NoProperties
  /\ fds' = (fds \cup ({MeiInit(kind).fd} \ {"none"})) \ DeinitCloses(MeiInit(kind))
  /\ Returns("init", "INTERNAL_ERROR")
  /\ UNCHANGED <<intl, me, pipe, ctl, driver, fault>>

TeeInitSucceeds(kind) ==
  /\ MayCall /\ ~intl
  /\ intl' = TRUE
  /\ hdl' = NoProperties
  /\ me' = MeiInit(kind)
  /\ fds' = fds \cup ({MeiInit(kind).fd} \ {"none"}) \cup {"pipe0", "pipe1"}
  /\ pipe' = 0
  /\ driver' \in IF kind = "handle" THEN {NoLink, driver} ELSE {NoLink}
  /\ Returns("init", "SUCCESS")
  /\ UNCHANGED <<ctl, fault>>

(* TeeConnect() and mei_connect(). *)

TeeConnectNoSession ==
  /\ MayCall /\ ~intl
  /\ Returns("connect", "INVALID_PARAMETER")
  /\ UNCHANGED <<intl, hdl, me, fds, pipe, ctl, driver, fault>>

TeeConnectRefused ==
  /\ MayCall /\ intl
  /\ me.state \in {"CONNECTED", "DISABLED"}
  /\ Returns("connect", "INTERNAL_ERROR")
  /\ UNCHANGED <<intl, hdl, me, fds, pipe, ctl, driver, fault>>

TeeConnectFails(e) ==
  /\ MayCall /\ intl
  /\ me.state \notin {"CONNECTED", "DISABLED"}
  /\ me' = [me EXCEPT !.state = ErrnoToState(e, me.state)]
  /\ Returns("connect", ErrnoToStatus(e))
  /\ UNCHANGED <<intl, hdl, fds, pipe, ctl, driver, fault>>

\* Mutant: any version is taken.
ClientVersionNeverTooOld(ver) == FALSE

\* The ioctl succeeds and the client reports its version and message length.
ClientVersionTooOld(ver) == me.protVer > 0 /\ ver < me.protVer

TeeConnectAnswered(ver, len) ==
  /\ MayCall /\ intl
  /\ me.state \notin {"CONNECTED", "DISABLED"}
  /\ driver' = [driver EXCEPT !.link = "up", !.ver = ver, !.len = len]
  /\ IF ClientVersionTooOld(ver)
     THEN /\ me' = [me EXCEPT !.state = "VERSION_MISMATCH"]
          /\ hdl' = hdl
          /\ Returns("connect", "INTERNAL_ERROR")
     ELSE /\ me' = [me EXCEPT !.state = "CONNECTED", !.bufSize = len, !.protVer = ver]
          /\ hdl' = Properties(ver, len)
          /\ Returns("connect", "SUCCESS")
  /\ UNCHANGED <<intl, fds, pipe, ctl, fault>>

\* The call changes nothing of the session.
OnlyReturns(op, status) ==
  /\ Returns(op, status)
  /\ UNCHANGED <<intl, hdl, me, fds, pipe, ctl, driver, fault>>

(* TeeFWStatus(), TeeGetTRC(), TeeGetKind() and GetDriverVersion(). *)

\* No session, no place for the result, or a status number above 5.
TeeQueryRefused ==
  /\ MayCall
  /\ OnlyReturns("query", "INVALID_PARAMETER")

\* The errno values of sysfs; a file that is too short is EPROTO, an empty one
\* ENODATA, a buffer too small for the kind ENOSPC.  GetDriverVersion has no answer.
QueryResults == {"SUCCESS", "NOTSUPPORTED"} \cup {ErrnoToStatus(e) : e \in Errnos}

\* A file of sysfs is opened, read and closed: no connection is needed, and unlike on
\* Windows none is lost when the device does not answer.
TeeQueryAnswered(status) ==
  /\ MayCall /\ intl
  /\ OnlyReturns("query", status)

(* TeeRead() and TeeWrite(): the checks, poll(), the transfer. *)

\* No session, no buffer or a timeout above INT_MAX.
TeeTransferBadParameter(op) ==
  /\ MayCall
  /\ OnlyReturns(op, "INVALID_PARAMETER")

TeeTransferNotConnected(op) ==
  /\ MayCall /\ intl
  /\ me.state # "CONNECTED"
  /\ OnlyReturns(op, "DISCONNECTED")

\* The call enters poll(); a timeout of 0 waits for ever.
TeeTransferPolls(op, timed) ==
  /\ MayCall /\ intl
  /\ me.state = "CONNECTED"
  /\ io' = [io EXCEPT !.pc = "polling", !.op = op, !.timed = timed, !.hit = FALSE]
  /\ UNCHANGED <<intl, hdl, me, fds, pipe, ctl, driver, fault>>

\* poll() finds the device descriptor readable or writable, or in error.
DeviceReady(op) ==
  \/ driver.link # "up"
  \/ op = "read" /\ driver.rx > 0
  \/ op = "write" /\ ~driver.txFull

\* Mutant: the cancel pipe is not in the set given to poll().
CancelNeverReady == FALSE

CancelReady == pipe > 0

\* __mei_select() returns 0.
SelectReady ==
  /\ io.pc = "polling"
  /\ DeviceReady(io.op) /\ ~CancelReady
  /\ io' = [io EXCEPT !.pc = "ready"]
  /\ UNCHANGED <<intl, hdl, me, fds, pipe, ctl, driver, fault>>

SelectCancelled ==
  /\ io.pc = "polling"
  /\ CancelReady
  /\ TransferReturns("UNABLE_TO_COMPLETE_OPERATION")
  /\ UNCHANGED <<intl, hdl, me, fds, pipe, ctl, driver, fault>>

SelectTimesOut ==
  /\ io.pc = "polling" /\ io.timed
  /\ ~DeviceReady(io.op) /\ ~CancelReady
  /\ TransferReturns("TIMEOUT")
  /\ UNCHANGED <<intl, hdl, me, fds, pipe, ctl, driver, fault>>

\* poll() itself fails (EINTR).
SelectFails ==
  /\ io.pc = "polling"
  /\ ~DeviceReady(io.op) /\ ~CancelReady
  /\ TransferReturns("INTERNAL_ERROR")
  /\ UNCHANGED <<intl, hdl, me, fds, pipe, ctl, driver, fault>>

\* mei_recv_msg() or mei_send_msg() reads me->state after the session was freed.
TransferFaults ==
  /\ io.pc = "ready" /\ ~intl
  /\ fault' = TRUE
  /\ io' = [io EXCEPT !.pc = "faulted"]
  /\ UNCHANGED <<intl, hdl, me, fds, pipe, ctl, driver>>

\* The session was deinitialized under the call.
TransferFindsNoConnection ==
  /\ io.pc = "ready" /\ intl
  /\ me.state # "CONNECTED"
  /\ TransferReturns("INTERNAL_ERROR")
  /\ UNCHANGED <<intl, hdl, me, fds, pipe, ctl, driver, fault>>

TransferFails(e) ==
  /\ io.pc = "ready" /\ intl
  /\ me.state = "CONNECTED"
  /\ me' = [me EXCEPT !.state = ErrnoToState(e, me.state)]
  /\ TransferReturns(ErrnoToStatus(e))
  /\ UNCHANGED <<intl, hdl, fds, pipe, ctl, driver, fault>>

ReadSucceeds ==
  /\ io.pc = "ready" /\ io.op = "read" /\ intl
  /\ me.state = "CONNECTED"
  /\ driver.link = "up" /\ driver.rx > 0
  /\ driver' = [driver EXCEPT !.rx = driver.rx - 1]
  /\ TransferReturns("SUCCESS")
  /\ UNCHANGED <<intl, hdl, me, fds, pipe, ctl, fault>>

WriteSucceeds(full) ==
  /\ io.pc = "ready" /\ io.op = "write" /\ intl
  /\ me.state = "CONNECTED"
  /\ driver.link = "up" /\ ~driver.txFull
  /\ driver' = [driver EXCEPT !.txFull = full]
  /\ TransferReturns("SUCCESS")
  /\ UNCHANGED <<intl, hdl, me, fds, pipe, ctl, fault>>
------------------------------------------------------------------------------
(* The control thread. *)

\* Its purpose is to be called while the other thread is in a transfer, so it may
\* come at any time under both usages.
TeeCancelIO ==
  /\ ctl = "idle" /\ intl
  /\ ctl' = "cancel"
  /\ UNCHANGED <<intl, hdl, me, fds, pipe, io, driver, fault>>

\* Mutant: TeeCancelIO goes on as TeeDisconnect does.
WriteCancelMarkAndClose ==
  /\ ctl \in {"cancel", "discCancel"}
  /\ pipe < PipeCap
  /\ pipe' = pipe + 1
  /\ io' = [io EXCEPT !.hit = io.hit \/ io.pc # "idle"]
  /\ ctl' = "discDeinit"
  /\ UNCHANGED <<intl, hdl, me, fds, driver, fault>>

\* Mutant: TeeDisconnect does not cancel.
WriteCancelMarkUnlessDisconnecting ==
  /\ ctl \in {"cancel", "discCancel"}
  /\ pipe < PipeCap
  /\ pipe' = IF ctl = "cancel" THEN pipe + 1 ELSE pipe
  /\ io' = [io EXCEPT !.hit = io.hit \/ io.pc # "idle"]
  /\ ctl' = IF ctl = "cancel" THEN "idle" ELSE "discDeinit"
  /\ UNCHANGED <<intl, hdl, me, fds, driver, fault>>

\* __TeeCancelIO(): a blocking write() of one mark, which waits in a full pipe.
WriteCancelMark ==
  /\ ctl \in {"cancel", "discCancel"}
  /\ pipe < PipeCap
  /\ pipe' = pipe + 1
  /\ io' = [io EXCEPT !.hit = io.hit \/ io.pc # "idle"]
  /\ ctl' = IF ctl = "cancel" THEN "idle" ELSE "discDeinit"
  /\ UNCHANGED <<intl, hdl, me, fds, driver, fault>>

\* When the caller calls TeeDisconnect (README, Thread safety): under "serial" use
\* no other call is in progress; under the documented "exception" it may also be
\* called to leave a read blocked on the other thread.
MayDisconnect ==
  \/ io.pc = "idle"
  \/ /\ Usage = "exception"
     /\ io.pc = "polling" /\ io.op = "read"
     /\ ~DeviceReady("read")

TeeDisconnect ==
  /\ ctl = "idle" /\ intl
  /\ MayDisconnect
  /\ ctl' = "discCancel"
  /\ UNCHANGED <<intl, hdl, me, fds, pipe, io, driver, fault>>

\* mei_deinit(): closing the last descriptor of the device ends the connection.
DisconnectDeinit ==
  /\ ctl = "discDeinit"
  /\ me' = Deinited(me)
  /\ fds' = fds \ DeinitCloses(me)
  /\ driver' = IF me.fd \in DeinitCloses(me)
               THEN [driver EXCEPT !.link = "none", !.rx = 0, !.txFull = FALSE]
               ELSE driver
  /\ ctl' = "discFree"
  /\ UNCHANGED <<intl, hdl, pipe, io, fault>>

\* The pipe is closed, the session freed and handle->handle cleared.
DisconnectFree ==
  /\ ctl = "discFree"
  /\ fds' = fds \ {"pipe0", "pipe1"}
  /\ intl' = FALSE
  /\ ctl' = "idle"
  /\ UNCHANGED <<hdl, me, pipe, io, driver, fault>>
------------------------------------------------------------------------------
(* The mei driver and the firmware. *)

MessageArrives ==
  /\ driver.link = "up" /\ driver.rx < MaxRx
  /\ driver' = [driver EXCEPT !.rx = driver.rx + 1]
  /\ UNCHANGED <<intl, hdl, me, fds, pipe, io, ctl, fault>>

TransmitDrains ==
  /\ driver.txFull
  /\ driver' = [driver EXCEPT !.txFull = FALSE]
  /\ UNCHANGED <<intl, hdl, me, fds, pipe, io, ctl, fault>>

\* The firmware or the link resets: the driver drops what was queued.
LinkLost ==
  /\ driver.link = "up"
  /\ driver' = [driver EXCEPT !.link = "down", !.rx = 0, !.txFull = FALSE]
  /\ UNCHANGED <<intl, hdl, me, fds, pipe, io, ctl, fault>>
------------------------------------------------------------------------------
IoCalls ==
  \/ TeeInitRefused
  \/ \E status \in InitErrors : TeeInitFails(status)
  \/ \E kind \in InitKinds : TeeInitUndone(kind)
  \/ \E kind \in InitKinds : TeeInitSucceeds(kind)
  \/ TeeConnectNoSession
  \/ TeeConnectRefused
  \/ \E e \in Errnos : TeeConnectFails(e)
  \/ \E ver \in Versions, len \in MsgLens : TeeConnectAnswered(ver, len)
  \/ TeeQueryRefused
  \/ \E status \in QueryResults : TeeQueryAnswered(status)
  \/ \E op \in Transfers : TeeTransferBadParameter(op)
  \/ \E op \in Transfers : TeeTransferNotConnected(op)
  \/ \E op \in Transfers, timed \in BOOLEAN : TeeTransferPolls(op, timed)

\* A call in progress goes on.
IoProgress ==
  \/ SelectReady
  \/ SelectCancelled
  \/ SelectTimesOut
  \/ TransferFaults
  \/ TransferFindsNoConnection
  \/ \E e \in Errnos : TransferFails(e)
  \/ ReadSucceeds
  \/ \E full \in BOOLEAN : WriteSucceeds(full)

IoStep == IoProgress \/ SelectFails

CtlCalls == TeeCancelIO \/ TeeDisconnect

CtlStep == WriteCancelMark \/ DisconnectDeinit \/ DisconnectFree

Environment == MessageArrives \/ TransmitDrains \/ LinkLost

\* After a fault the program's behaviour is undefined and the model stops.
Next == ~fault /\ (IoCalls \/ IoStep \/ CtlCalls \/ CtlStep \/ Environment)

\* Both threads keep running once they are in a call; nobody has to make a call,
\* poll() need not fail, and the driver owes nothing.
Fairness == WF_vars(~fault /\ IoProgress) /\ WF_vars(~fault /\ CtlStep)

Spec == Init /\ [][Next]_vars

FairSpec == Spec /\ Fairness
------------------------------------------------------------------------------
HandleProperties == [maxMsgLen : MsgLens \cup {0}, protcolVer : Versions \cup {0}]

StructMei ==
  [state : MeiStates, fd : {"none", "device", "caller"}, closeOnExit : BOOLEAN,
   protVer : Versions \cup {0}, bufSize : MsgLens \cup {0}]

Results == [op : {"none", "init", "connect", "query"} \cup Transfers, status : Statuses]

IoThread ==
  [pc : {"idle", "polling", "ready", "faulted"}, op : Transfers, timed : BOOLEAN,
   hit : BOOLEAN, ret : Results]

DriverStates ==
  [link : {"none", "up", "down"}, rx : Queued, txFull : BOOLEAN,
   ver : Versions \cup {0}, len : MsgLens \cup {0}]

Descriptors == {"caller", "device", "pipe0", "pipe1"}

TypeOK ==
  /\ intl \in BOOLEAN
  /\ hdl \in HandleProperties
  /\ me \in StructMei
  /\ fds \subseteq Descriptors
  /\ pipe \in 0..PipeCap
  /\ io \in IoThread
  /\ ctl \in {"idle", "cancel", "discCancel", "discDeinit", "discFree"}
  /\ driver \in DriverStates
  /\ fault \in BOOLEAN

(* Safety. *)

\* No thread touches the struct metee_linux_intl after TeeDisconnect freed it.
\* TeeDisconnect writes the cancel mark and goes on at once: nothing in it waits
\* for the call it interrupts.
NoUseAfterFree == ~fault

\* Every descriptor the library opened is closed again when no session is left,
\* whichever step of TeeInit failed and however the session ended, and the
\* caller's own descriptor is never closed.
DescriptorsAccounted ==
  /\ "caller" \in fds
  /\ ~intl => fds = {"caller"}
  /\ intl /\ me.state \notin {"ZERO", "DISABLED"} => me.fd \in fds

\* While a session is connected, the message length and protocol version in the
\* caller's TEEHANDLE are those the client reported for this connection, however
\* often it was lost and made again with other values.
HandleMirrorsConnection ==
  intl /\ me.state = "CONNECTED" =>
    /\ driver.link \in {"up", "down"}
    /\ hdl = [maxMsgLen |-> driver.len, protcolVer |-> driver.ver]
    /\ me.bufSize = hdl.maxMsgLen /\ me.protVer = hdl.protcolVer

\* A session reconnected after a firmware update or reset never runs on a
\* protocol older than the one it negotiated before: mei_connect() keeps the
\* version of the last connection as the minimum for the next.
VersionNeverDowngrades ==
  [][intl /\ intl' /\ me'.state = "CONNECTED" => me'.protVer >= me.protVer]_vars

\* What metee.h says of TeeCancelIO, "Try to stop all in-process reads and
\* writes": a transfer ends as cancelled only if a cancel came while it was in
\* process.
CancelStopsOnlyInProcess ==
  io.pc = "idle" /\ io.ret.status = "UNABLE_TO_COMPLETE_OPERATION" => io.hit

(* What the safety invariants rest on. *)

\* Under serial use the session stays while a call is in progress.
SessionHeldDuringCalls ==
  /\ ~fault /\ io.pc # "faulted"
  /\ ctl # "idle" => intl
  /\ io.pc # "idle" => intl /\ ~Disconnecting

\* Which descriptors are open at each point of the life of a session.
DescriptorsOfSession ==
  /\ "caller" \in fds
  /\ "pipe0" \in fds <=> intl
  /\ "pipe1" \in fds <=> intl
  /\ "device" \in fds <=> intl /\ me.fd = "device"
  /\ me.fd = "device" => me.closeOnExit
  /\ me.fd = "caller" => ~me.closeOnExit
  /\ me.fd = "none" => me.state \in {"ZERO", "DISABLED"}
  /\ Disconnecting => intl
  /\ me.state = "ZERO" => me.fd = "none"
  /\ me.state = "ZERO" <=> ctl = "discFree" \/ ~intl

(* Liveness. *)

\* A call blocked in poll() returns once it is cancelled, its timeout is set or
\* its link is lost, though no message ever comes.
BlockedCallEnds ==
  io.pc = "polling" /\ (pipe > 0 \/ io.timed \/ driver.link = "down")
    ~> io.pc \in {"idle", "faulted"}

\* TeeDisconnect returns and takes the thread blocked in a read out of it, as
\* long as the cancel pipe has room for its mark.
DisconnectEndsRead ==
  ctl = "discCancel" /\ pipe < PipeCap ~> ctl = "idle" /\ io.pc # "polling"

(* The session the caller sees: closed from mei_deinit() on. *)

Phase ==
  IF ~intl \/ ctl = "discFree" THEN "closed"
  ELSE IF me.state = "CONNECTED" THEN "connected" ELSE "open"

Session == INSTANCE TeeSession WITH
  Errors <- Statuses \ {"SUCCESS"}, phase <- Phase, ret <- io.ret

\* The Linux back end keeps the promises of metee.h that TeeSession states; above
\* all TEE_DISCONNECTED from a transfer always comes with a session that can be
\* connected again, because the errno that gives this status also changes the
\* state of struct mei.
ImplementsSession == Session!SessionSpec
===============================================================================
