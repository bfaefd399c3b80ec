---------------------------- MODULE MeteeWinProofs ----------------------------
(***************************************************************************)
(* What holds of the Windows back end for every set of reports, whether or *)
(* not the driver ends cancelled requests in time, and for both usages.    *)
(***************************************************************************)
EXTENDS MeteeWin, TLAPS

EventStates == {"idle"} \cup PendingStates \cup OverStates

(* The values of the records and how the updates of the code stay in them. *)

LEMMA ErrorStatuses ==
  ASSUME NEW e \in Win32Errors
  PROVE  /\ Win32ErrorToTee(e) \in Statuses \ {"SUCCESS", "DISCONNECTED"}
         /\ ConnectError(e) \in Statuses \ {"SUCCESS", "DISCONNECTED"}
<1>1. Win32ErrorToTee(e) \in
        {"INVALID_PARAMETER", "INSUFFICIENT_BUFFER", "UNABLE_TO_COMPLETE_OPERATION",
         "DEVICE_NOT_READY", "CLIENT_NOT_FOUND", "PERMISSION_DENIED", "INTERNAL_ERROR"}
  BY DEF Win32Errors, Win32ErrorToTee
<1>2. QED
  BY <1>1 DEF ConnectError, Statuses, InitErrors

LEMMA PlainStatuses ==
  /\ InitErrors \subseteq Statuses \ {"SUCCESS", "DISCONNECTED"}
  /\ CreateFileErrors \subseteq Statuses \ {"SUCCESS", "DISCONNECTED"}
  /\ {"INVALID_PARAMETER", "INTERNAL_ERROR", "UNABLE_TO_COMPLETE_OPERATION", "TIMEOUT",
      "ERROR_INVALID_PARAMETER"} \subseteq Statuses \ {"SUCCESS", "DISCONNECTED"}
  /\ "SUCCESS" \in Statuses /\ "DISCONNECTED" \in Statuses
  BY DEF Statuses, InitErrors, CreateFileErrors

LEMMA ReturnsType ==
  ASSUME io \in IoThread, NEW op \in {"none", "init"} \cup Calls, NEW status \in Statuses,
         Returns(op, status)
  PROVE  /\ io' \in IoThread
         /\ io'.pc = "idle" /\ io'.op = io.op
         /\ io'.ret = [op |-> op, status |-> status]
  BY DEF IoThread, Results, Returns

LEMMA WaitsType ==
  ASSUME io \in IoThread, NEW pc \in {"ioctl", "waiting"}, NEW op \in Calls,
         NEW timed \in BOOLEAN, Waits(pc, op, timed)
  PROVE  /\ io' \in IoThread
         /\ io'.pc = pc /\ io'.op = op /\ io'.ret = io.ret
  BY DEF IoThread, Waits

LEMMA FailedType ==
  ASSUME win \in StructImpl, NEW status, Failed(status)
  PROVE  /\ win' \in StructImpl
         /\ win'.state = "FAILED" /\ win'.file = win.file
         /\ win'.closeOnExit = win.closeOnExit
  BY DEF StructImpl, Failed

LEMMA NewImpl ==
  ASSUME NEW kind \in InitKinds
  PROVE  /\ FileOf(kind) \in Files
         /\ WinImpl("NONE", FileOf(kind)) \in StructImpl
         /\ WinImpl("NONE", FileOf(kind)).state = "NONE"
         /\ WinImpl("NONE", FileOf(kind)).file = FileOf(kind)
         /\ WinImpl("NONE", FileOf(kind)).closeOnExit <=> FileOf(kind) # "caller"
  BY DEF InitKinds, FileOf, WinImpl, StructImpl, Files

LEMMA EventUpdates ==
  ASSUME evt \in [Slots -> EventStates]
  PROVE  /\ NewEvents \in [Slots -> EventStates]
         /\ AbortAll(evt) \in [Slots -> EventStates]
         /\ \A slot \in Slots, v \in EventStates :
              /\ [evt EXCEPT ![slot] = v] \in [Slots -> EventStates]
              /\ [AbortAll(evt) EXCEPT ![slot] = v] \in [Slots -> EventStates]
  BY DEF EventStates, NewEvents, AbortAll, PendingStates, OverStates

LEMMA SlotType ==
  ASSUME NEW op \in Calls
  PROVE  /\ Slot(op) \in Slots
         /\ op = "read" => Slot(op) = "READ"
         /\ op = "write" => Slot(op) = "WRITE"
         /\ op \notin Transfers => Slot(op) = "IOCTL"
  BY DEF Slot, Slots, Calls, Transfers

-------------------------------------------------------------------------------
(* Types, the places of the two threads, and the device handle of the session. *)

Shape == TypeOK /\ PlacesOfCalls /\ FileOfSession

LEMMA ShapeInit == Init => Shape
<1> SUFFICES ASSUME Init PROVE Shape
  OBVIOUS
<1>1. io \in IoThread /\ io.pc = "idle"
  BY PlainStatuses DEF Init, IoThread, Results, Calls, Transfers
<1>2. win \in StructImpl
  BY DEF Init, WinImpl, StructImpl
<1>3. evt \in [Slots -> EventStates]
  BY DEF Init, NewEvents, EventStates
<1>4. TypeOK
  BY <1>1, <1>2, <1>3 DEF Init, TypeOK, Files, EventStates
<1>5. QED
  BY <1>1, <1>4 DEF Init, Shape, PlacesOfCalls, FileOfSession

LEMMA ShapeTeeInit ==
  ASSUME Shape,
         \/ TeeInitRefused
         \/ \E status \in InitErrors : TeeInitFails(status)
         \/ \E kind \in InitKinds, status \in {"INTERNAL_ERROR", "UNABLE_TO_COMPLETE_OPERATION"} :
              TeeInitUndone(kind, status)
         \/ \E kind \in InitKinds : TeeInitSucceeds(kind)
  PROVE  Shape'
<1> USE DEF Shape
<1>1. io \in IoThread
  BY DEF TypeOK
<1>2. CASE TeeInitRefused
  <2>1. io' \in IoThread /\ io'.pc = "idle"
    BY <1>1, <1>2, ReturnsType, PlainStatuses DEF TeeInitRefused
  <2>2. QED
    BY <1>2, <2>1 DEF TeeInitRefused, TypeOK, PlacesOfCalls, FileOfSession, MayCall
<1>3. ASSUME NEW status \in InitErrors, TeeInitFails(status)
      PROVE  Shape'
  <2>1. io' \in IoThread /\ io'.pc = "idle"
    BY <1>1, <1>3, ReturnsType, PlainStatuses DEF TeeInitFails
  <2>2. QED
    BY <1>3, <2>1 DEF TeeInitFails, TypeOK, PlacesOfCalls, FileOfSession, MayCall
<1>4. ASSUME NEW kind \in InitKinds,
             NEW status \in {"INTERNAL_ERROR", "UNABLE_TO_COMPLETE_OPERATION"},
             TeeInitUndone(kind, status)
      PROVE  Shape'
  <2>1. io' \in IoThread /\ io'.pc = "idle"
    BY <1>1, <1>4, ReturnsType, PlainStatuses DEF TeeInitUndone
  <2>2. files' \subseteq Files
    BY <1>4, NewImpl DEF TeeInitUndone, TypeOK
  <2>3. QED
    BY <1>4, <2>1, <2>2 DEF TeeInitUndone, TypeOK, PlacesOfCalls, FileOfSession, MayCall
<1>5. ASSUME NEW kind \in InitKinds, TeeInitSucceeds(kind)
      PROVE  Shape'
  <2>1. io' \in IoThread /\ io'.pc = "idle"
    BY <1>1, <1>5, ReturnsType, PlainStatuses DEF TeeInitSucceeds
  <2>2. files' \subseteq Files /\ used' \subseteq Files
    BY <1>5, NewImpl DEF TeeInitSucceeds, TypeOK
  <2>3. evt' \in [Slots -> EventStates]
    BY <1>5, EventUpdates DEF TeeInitSucceeds, TypeOK, EventStates
  <2>4. /\ win' \in StructImpl
        /\ win'.state = "NONE" /\ win'.file \in Files
        /\ win'.closeOnExit <=> win'.file # "caller"
    BY <1>5, NewImpl DEF TeeInitSucceeds
  <2>5. QED
    BY <1>5, <2>1, <2>2, <2>3, <2>4
    DEF TeeInitSucceeds, TypeOK, PlacesOfCalls, FileOfSession, EventStates, Files
<1>6. QED
  BY <1>2, <1>3, <1>4, <1>5

LEMMA ShapeTeeConnect ==
  ASSUME Shape,
         \/ TeeConnectNoSession \/ TeeConnectRefused
         \/ \E status \in CreateFileErrors : TeeConnectCannotReopen(status)
         \/ TeeConnectStarts \/ TeeConnectSucceeds
         \/ \E e \in Win32Errors : TeeConnectFails(e)
  PROVE  Shape'
<1> USE DEF Shape
<1>1. io \in IoThread
  BY DEF TypeOK
<1>2. CASE TeeConnectNoSession \/ TeeConnectRefused
  <2>1. io' \in IoThread /\ io'.pc = "idle"
    BY <1>1, <1>2, ReturnsType, PlainStatuses
    DEF TeeConnectNoSession, TeeConnectRefused, Calls
  <2>2. QED
    BY <1>2, <2>1
    DEF TeeConnectNoSession, TeeConnectRefused, TypeOK, PlacesOfCalls, FileOfSession
<1>3. ASSUME NEW status \in CreateFileErrors, TeeConnectCannotReopen(status)
      PROVE  Shape'
  <2>1. io' \in IoThread /\ io'.pc = "idle"
    BY <1>1, <1>3, ReturnsType, PlainStatuses DEF TeeConnectCannotReopen, Calls
  <2>2. evt' \in [Slots -> EventStates]
    BY <1>3, EventUpdates DEF TeeConnectCannotReopen, TypeOK, EventStates
  <2>3. /\ win' \in StructImpl
        /\ win'.file = "invalid" /\ win'.state = "FAILED" /\ win'.closeOnExit
    BY <1>3 DEF TeeConnectCannotReopen, Reopens, TypeOK, StructImpl
  <2>4. QED
    BY <1>3, <2>1, <2>2, <2>3
    DEF TeeConnectCannotReopen, TypeOK, PlacesOfCalls, FileOfSession, EventStates
<1>4. CASE TeeConnectStarts
  <2>1. io' \in IoThread /\ io'.pc = "ioctl" /\ io'.op = "connect"
    BY <1>1, <1>4, WaitsType DEF TeeConnectStarts, Calls
  <2>2. evt' \in [Slots -> EventStates]
    BY <1>4, EventUpdates DEF TeeConnectStarts, TypeOK, EventStates, Slots, PendingStates
  <2>3. /\ win' \in StructImpl
        /\ win'.state = win.state /\ win'.state # "CONNECTED"
        /\ win'.closeOnExit = win.closeOnExit
        /\ win'.file \in Files
        /\ win'.closeOnExit <=> win'.file # "caller"
    BY <1>4 DEF TeeConnectStarts, Reopens, TypeOK, StructImpl, FileOfSession, Files
  <2>4. files' \subseteq Files /\ used' \subseteq Files
    BY <1>4 DEF TeeConnectStarts, TypeOK, Files
  <2>5. QED
    BY <1>4, <2>1, <2>2, <2>3, <2>4
    DEF TeeConnectStarts, TypeOK, PlacesOfCalls, FileOfSession, EventStates, MayCall,
        Disconnecting, Files
<1>5. CASE TeeConnectSucceeds
  <2>1. io' \in IoThread /\ io'.pc = "idle"
    BY <1>1, <1>5, ReturnsType, PlainStatuses DEF TeeConnectSucceeds, Calls
  <2>2. /\ win' \in StructImpl
        /\ win'.file = win.file /\ win'.closeOnExit = win.closeOnExit
    BY <1>5 DEF TeeConnectSucceeds, TypeOK, StructImpl
  <2>3. hdl' \in Reports \cup {"none"}
    BY <1>5 DEF TeeConnectSucceeds, FreshReport, TypeOK
  <2>4. QED
    BY <1>5, <2>1, <2>2, <2>3
    DEF TeeConnectSucceeds, TypeOK, PlacesOfCalls, FileOfSession, Files
<1>6. ASSUME NEW e \in Win32Errors, TeeConnectFails(e)
      PROVE  Shape'
  <2>1. io' \in IoThread /\ io'.pc = "idle"
    BY <1>1, <1>6, ReturnsType, ErrorStatuses DEF TeeConnectFails, Calls
  <2>2. QED
    BY <1>6, <2>1 DEF TeeConnectFails, TypeOK, PlacesOfCalls, FileOfSession
<1>7. QED
  BY <1>2, <1>3, <1>4, <1>5, <1>6

LEMMA ShapeTeeQuery ==
  ASSUME Shape,
         \/ TeeQueryRefused \/ TeeQueryNoDevice \/ TeeQueryStarts \/ TeeQuerySucceeds
         \/ \E e \in Win32Errors : TeeQueryFails(e)
  PROVE  Shape'
<1> USE DEF Shape
<1>1. io \in IoThread /\ win \in StructImpl
  BY DEF TypeOK
<1>2. CASE TeeQueryRefused \/ TeeQuerySucceeds
  <2>1. io' \in IoThread /\ io'.pc = "idle"
    BY <1>1, <1>2, ReturnsType, PlainStatuses DEF TeeQueryRefused, TeeQuerySucceeds, Calls
  <2>2. QED
    BY <1>2, <2>1
    DEF TeeQueryRefused, TeeQuerySucceeds, TypeOK, PlacesOfCalls, FileOfSession
<1>3. CASE TeeQueryNoDevice
  <2>1. io' \in IoThread /\ io'.pc = "idle"
    BY <1>1, <1>3, ReturnsType, PlainStatuses DEF TeeQueryNoDevice, Calls
  <2>2. /\ win' \in StructImpl /\ win'.state = "FAILED"
        /\ win'.file = win.file /\ win'.closeOnExit = win.closeOnExit
    BY <1>1, <1>3, FailedType DEF TeeQueryNoDevice
  <2>3. QED
    BY <1>3, <2>1, <2>2 DEF TeeQueryNoDevice, TypeOK, PlacesOfCalls, FileOfSession
<1>4. CASE TeeQueryStarts
  <2>1. io' \in IoThread /\ io'.pc = "ioctl" /\ io'.op = "query"
    BY <1>1, <1>4, WaitsType DEF TeeQueryStarts, Calls
  <2>2. evt' \in [Slots -> EventStates]
    BY <1>4, EventUpdates DEF TeeQueryStarts, TypeOK, EventStates, Slots, PendingStates
  <2>3. QED
    BY <1>4, <2>1, <2>2
    DEF TeeQueryStarts, TypeOK, PlacesOfCalls, FileOfSession, EventStates, MayCall,
        Disconnecting
<1>5. ASSUME NEW e \in Win32Errors, TeeQueryFails(e)
      PROVE  Shape'
  <2>1. io' \in IoThread /\ io'.pc = "idle"
    BY <1>1, <1>5, ReturnsType, ErrorStatuses DEF TeeQueryFails, Calls
  <2>2. /\ win' \in StructImpl /\ win'.state = "FAILED"
        /\ win'.file = win.file /\ win'.closeOnExit = win.closeOnExit
    BY <1>1, <1>5, FailedType DEF TeeQueryFails
  <2>3. QED
    BY <1>5, <2>1, <2>2 DEF TeeQueryFails, TypeOK, PlacesOfCalls, FileOfSession
<1>6. QED
  BY <1>2, <1>3, <1>4, <1>5

\* The ways a transfer ends without success.
TransferGivesUp(status) ==
  \/ TransferTimesOut /\ status = "TIMEOUT"
  \/ \E e \in Win32Errors :
       status = Win32ErrorToTee(e) /\ (TransferFails(e) \/ TransferWaitFails(e))

LEMMA GivingUp ==
  ASSUME Shape, NEW status, TransferGivesUp(status)
  PROVE  /\ io.pc = "waiting" /\ impl /\ io.op \in Transfers
         /\ status \in Statuses \ {"SUCCESS", "DISCONNECTED"}
         /\ io' \in IoThread /\ io'.pc = "idle" /\ io'.op = io.op
         /\ io'.ret = [op |-> io.op, status |-> status]
         /\ win' \in StructImpl /\ win'.state = "FAILED"
         /\ win'.file = win.file /\ win'.closeOnExit = win.closeOnExit
         /\ UNCHANGED <<impl, hdl, evt, files, used, report, ctl, fault>>
<1>1. io \in IoThread /\ win \in StructImpl /\ io.op \in {"none", "init"} \cup Calls
  BY DEF Shape, TypeOK, IoThread
<1>2. status \in Statuses \ {"SUCCESS", "DISCONNECTED"}
  BY PlainStatuses, ErrorStatuses DEF TransferGivesUp
<1>3. /\ io.pc = "waiting" /\ impl
      /\ Returns(io.op, status) /\ Failed(status)
      /\ UNCHANGED <<impl, hdl, evt, files, used, report, ctl, fault>>
  BY DEF TransferGivesUp, TransferTimesOut, TransferFails, TransferWaitFails, Failed
<1>4. QED
  BY <1>1, <1>2, <1>3, ReturnsType, FailedType DEF Shape, PlacesOfCalls

LEMMA ShapeTransfers ==
  ASSUME Shape,
         \/ \E op \in Transfers : TeeTransferBadParameter(op)
         \/ \E op \in Transfers : TeeTransferNotConnected(op)
         \/ \E op \in Transfers, timed \in BOOLEAN : TeeTransferStarts(op, timed)
         \/ TransferSucceeds \/ TransferFaults
         \/ \E status : TransferGivesUp(status)
  PROVE  Shape'
<1> USE DEF Shape
<1>1. io \in IoThread /\ win \in StructImpl /\ io.op \in Calls
  BY DEF TypeOK, IoThread
<1>2. ASSUME NEW op \in Transfers, TeeTransferBadParameter(op) \/ TeeTransferNotConnected(op)
      PROVE  Shape'
  <2>1. io' \in IoThread /\ io'.pc = "idle"
    BY <1>1, <1>2, ReturnsType, PlainStatuses
    DEF TeeTransferBadParameter, TeeTransferNotConnected, Calls
  <2>2. QED
    BY <1>2, <2>1
    DEF TeeTransferBadParameter, TeeTransferNotConnected, TypeOK, PlacesOfCalls, FileOfSession
<1>3. ASSUME NEW op \in Transfers, NEW timed \in BOOLEAN, TeeTransferStarts(op, timed)
      PROVE  Shape'
  <2>1. io' \in IoThread /\ io'.pc = "waiting" /\ io'.op = op
    BY <1>1, <1>3, WaitsType DEF TeeTransferStarts, Calls
  <2>2. op \in Calls /\ "pending" \in EventStates
    BY DEF Calls, EventStates, PendingStates
  <2>3. evt' \in [Slots -> EventStates]
    BY <1>3, <2>2, EventUpdates, SlotType DEF TeeTransferStarts, TypeOK, EventStates
  <2>4. QED
    BY <1>3, <2>1, <2>3
    DEF TeeTransferStarts, Connected, TypeOK, PlacesOfCalls, FileOfSession, EventStates
<1>4. CASE TransferSucceeds
  <2>1. io' \in IoThread /\ io'.pc = "idle"
    BY <1>1, <1>4, ReturnsType, PlainStatuses DEF TransferSucceeds
  <2>2. QED
    BY <1>4, <2>1 DEF TransferSucceeds, TypeOK, PlacesOfCalls, FileOfSession
<1>5. CASE TransferFaults
  <2>1. io' \in IoThread /\ io'.pc = "faulted"
    BY <1>1, <1>5 DEF TransferFaults, IoThread
  <2>2. QED
    BY <1>5, <2>1 DEF TransferFaults, TypeOK, PlacesOfCalls, FileOfSession
<1>6. ASSUME NEW status, TransferGivesUp(status)
      PROVE  Shape'
  BY <1>6, GivingUp DEF TypeOK, PlacesOfCalls, FileOfSession
<1>7. QED
  BY <1>2, <1>3, <1>4, <1>5, <1>6

LEMMA ShapeControl ==
  ASSUME Shape, CtlCalls \/ CtlStep
  PROVE  Shape'
<1> USE DEF Shape
<1>1. CASE TeeCancelIO
  BY <1>1 DEF TeeCancelIO, TypeOK, PlacesOfCalls, FileOfSession, Disconnecting
<1>2. CASE TeeDisconnect
  BY <1>2 DEF TeeDisconnect, MayDisconnect, TypeOK, PlacesOfCalls, FileOfSession, Disconnecting
<1>3. CASE CancelIo
  <2>1. evt' \in [Slots -> EventStates]
    BY <1>3 DEF CancelIo, TypeOK, EventStates, PendingStates
  <2>2. /\ ctl' \in {"idle", "cancelWait", "discWait", "discFree"}
        /\ ctl = "cancel" => ctl' \in {"idle", "cancelWait"}
    BY <1>3 DEF CancelIo, AfterCancel
  <2>3. QED
    BY <1>3, <2>1, <2>2
    DEF CancelIo, TypeOK, PlacesOfCalls, FileOfSession, Disconnecting, EventStates
<1>4. CASE CancelWaitEnds
  BY <1>4 DEF CancelWaitEnds, AfterCancel, TypeOK, PlacesOfCalls, FileOfSession, Disconnecting
<1>5. CASE DisconnectFree
  <2>1. evt' \in [Slots -> EventStates]
    BY <1>5, EventUpdates DEF DisconnectFree, TypeOK, EventStates
  <2>2. QED
    BY <1>5, <2>1
    DEF DisconnectFree, TypeOK, PlacesOfCalls, FileOfSession, Disconnecting, EventStates
<1>6. QED
  BY <1>1, <1>2, <1>3, <1>4, <1>5 DEF CtlCalls, CtlStep

LEMMA ShapeEnvironment ==
  ASSUME Shape, Driver \/ CallerOpens
  PROVE  Shape'
<1> USE DEF Shape
<1>1. ASSUME NEW r \in Reports, ConnectAccepted(r)
      PROVE  Shape'
  <2>1. evt' \in [Slots -> EventStates]
    BY <1>1, EventUpdates DEF ConnectAccepted, TypeOK, EventStates, Slots, OverStates
  <2>2. used' \subseteq Files
    BY <1>1 DEF ConnectAccepted, ConnectPending, TypeOK, PlacesOfCalls
  <2>3. QED
    BY <1>1, <2>1, <2>2
    DEF ConnectAccepted, TypeOK, PlacesOfCalls, FileOfSession, Disconnecting, EventStates
<1>2. ASSUME NEW slot \in Slots, NEW outcome \in OverStates, evt' = [evt EXCEPT ![slot] = outcome],
             UNCHANGED <<impl, hdl, win, files, used, report, io, ctl, fault>>
      PROVE  Shape'
  <2>1. evt' \in [Slots -> EventStates]
    BY <1>2, EventUpdates DEF TypeOK, EventStates
  <2>2. QED
    BY <1>2, <2>1 DEF TypeOK, PlacesOfCalls, FileOfSession, Disconnecting, EventStates
<1>3. CASE CallerOpens
  BY <1>3 DEF CallerOpens, TypeOK, PlacesOfCalls, FileOfSession, Disconnecting, Files
<1>4. QED
  BY <1>1, <1>2, <1>3 DEF Driver, DriverAborts, RequestEnds, CancelledEnds, OverStates

LEMMA ShapeStep == Shape /\ [Next]_vars => Shape'
<1> SUFFICES ASSUME Shape, [Next]_vars PROVE Shape'
  OBVIOUS
<1>1. CASE UNCHANGED vars
  BY <1>1 DEF vars, Shape, TypeOK, PlacesOfCalls, FileOfSession, Disconnecting
<1>2. CASE IoStep \/ IoCalls
  BY <1>2, ShapeTeeInit, ShapeTeeConnect, ShapeTeeQuery, ShapeTransfers
  DEF IoStep, IoProgress, IoCalls, TransferGivesUp
<1>3. QED
  BY <1>1, <1>2, ShapeControl, ShapeEnvironment DEF Next

LEMMA ShapeAlways == Spec => []Shape
  BY ShapeInit, ShapeStep, PTL DEF Spec

\* Every variable of the Windows back end keeps its type (metee_win.c as a whole).
THEOREM TypeCorrect == Spec => []TypeOK
<1>1. Shape => TypeOK
  BY DEF Shape
<1>2. QED
  BY <1>1, ShapeAlways, PTL
-------------------------------------------------------------------------------
(* The device handles. *)

\* The actions that leave the session, its device handle and the open ones alone.
KeepsHandles ==
  \/ TeeInitRefused
  \/ \E status \in InitErrors : TeeInitFails(status)
  \/ TeeConnectNoSession \/ TeeConnectRefused
  \/ TeeConnectSucceeds
  \/ \E e \in Win32Errors : TeeConnectFails(e)
  \/ TeeQueryRefused \/ TeeQueryNoDevice \/ TeeQueryStarts \/ TeeQuerySucceeds
  \/ \E e \in Win32Errors : TeeQueryFails(e)
  \/ \E op \in Transfers : TeeTransferBadParameter(op)
  \/ \E op \in Transfers : TeeTransferNotConnected(op)
  \/ \E op \in Transfers, timed \in BOOLEAN : TeeTransferStarts(op, timed)
  \/ TransferSucceeds \/ TransferFaults
  \/ \E status : TransferGivesUp(status)
  \/ TeeCancelIO \/ TeeDisconnect \/ CancelIo \/ CancelWaitEnds
  \/ Driver

LEMMA HandlesKept ==
  ASSUME Shape, KeepsHandles
  PROVE  /\ UNCHANGED <<impl, files>>
         /\ win'.file = win.file /\ win'.closeOnExit = win.closeOnExit
<1>1. win \in StructImpl
  BY DEF Shape, TypeOK
<1>2. CASE \/ TeeConnectSucceeds \/ TeeQueryNoDevice
           \/ \E e \in Win32Errors : TeeQueryFails(e)
  <2>1. UNCHANGED <<impl, files>>
    BY <1>2 DEF TeeConnectSucceeds, TeeQueryNoDevice, TeeQueryFails
  <2>2. \E state : win' = [win EXCEPT !.state = state]
    BY <1>2 DEF TeeConnectSucceeds, TeeQueryNoDevice, TeeQueryFails, Failed
  <2>3. QED
    BY <1>1, <2>1, <2>2 DEF StructImpl
<1>3. CASE \E status : TransferGivesUp(status)
  BY <1>3, GivingUp
<1>4. CASE UNCHANGED <<impl, files, win>>
  BY <1>4
<1>5. CASE Driver
  BY <1>5 DEF Driver, DriverAborts, ConnectAccepted, RequestEnds, CancelledEnds
<1>6. CASE \/ TeeInitRefused
           \/ \E status \in InitErrors : TeeInitFails(status)
           \/ TeeConnectNoSession \/ TeeConnectRefused
           \/ \E e \in Win32Errors : TeeConnectFails(e)
           \/ TeeQueryRefused \/ TeeQueryStarts \/ TeeQuerySucceeds
  BY <1>6
  DEF TeeInitRefused, TeeInitFails, TeeConnectNoSession, TeeConnectRefused, TeeConnectFails,
      TeeQueryRefused, TeeQueryStarts, TeeQuerySucceeds
<1>7. CASE \/ \E op \in Transfers : TeeTransferBadParameter(op)
           \/ \E op \in Transfers : TeeTransferNotConnected(op)
           \/ \E op \in Transfers, timed \in BOOLEAN : TeeTransferStarts(op, timed)
           \/ TransferSucceeds \/ TransferFaults
           \/ TeeCancelIO \/ TeeDisconnect \/ CancelIo \/ CancelWaitEnds
  BY <1>7
  DEF TeeTransferBadParameter, TeeTransferNotConnected, TeeTransferStarts, TransferSucceeds,
      TransferFaults, TeeCancelIO, TeeDisconnect, CancelIo, CancelWaitEnds
<1>8. QED
  BY <1>2, <1>3, <1>4, <1>5, <1>6, <1>7 DEF KeepsHandles

\* The other steps, each by its name.
LEMMA StepsOfNext ==
  ASSUME Next
  PROVE  \/ KeepsHandles
         \/ \E kind \in InitKinds, status \in {"INTERNAL_ERROR", "UNABLE_TO_COMPLETE_OPERATION"} :
              TeeInitUndone(kind, status)
         \/ \E kind \in InitKinds : TeeInitSucceeds(kind)
         \/ \E status \in CreateFileErrors : TeeConnectCannotReopen(status)
         \/ TeeConnectStarts \/ DisconnectFree \/ CallerOpens
<1>1. CASE IoStep
  BY <1>1 DEF IoStep, IoProgress, KeepsHandles, TransferGivesUp
<1>2. CASE IoCalls
  BY <1>2 DEF IoCalls, KeepsHandles
<1>3. QED
  BY <1>1, <1>2 DEF Next, CtlCalls, CtlStep, KeepsHandles

LEMMA HandlesStep == Shape /\ HandlesAccounted /\ [Next]_vars => HandlesAccounted'
<1> SUFFICES ASSUME Shape, HandlesAccounted, [Next]_vars PROVE HandlesAccounted'
  OBVIOUS
<1>1. /\ impl => win.file \in Files \cup {"invalid"} /\ (win.closeOnExit <=> win.file # "caller")
      /\ files \subseteq Files
      /\ ctl # "idle" => impl
  BY DEF Shape, TypeOK, FileOfSession, PlacesOfCalls
<1>2. CASE UNCHANGED vars
  BY <1>2 DEF vars, HandlesAccounted
<1>3. CASE KeepsHandles
  BY <1>3, HandlesKept DEF HandlesAccounted
<1>4. ASSUME NEW kind \in InitKinds, NEW status, TeeInitUndone(kind, status)
      PROVE  HandlesAccounted'
  BY <1>4, NewImpl DEF TeeInitUndone, UndoneCloses, HandlesAccounted, Files
<1>5. ASSUME NEW kind \in InitKinds, TeeInitSucceeds(kind)
      PROVE  HandlesAccounted'
  <2>1. impl' /\ win'.file = FileOf(kind) /\ FileOf(kind) \in Files
    BY <1>5, NewImpl DEF TeeInitSucceeds
  <2>2. QED
    BY <1>5, <2>1 DEF TeeInitSucceeds, HandlesAccounted, Files
<1>6. ASSUME NEW status, TeeConnectCannotReopen(status)
      PROVE  HandlesAccounted'
  <2>1. impl /\ impl' /\ win'.file = "invalid"
    BY <1>6 DEF TeeConnectCannotReopen, Shape, TypeOK, StructImpl
  <2>2. QED
    BY <1>6, <2>1 DEF TeeConnectCannotReopen, HandlesAccounted
<1>7. CASE TeeConnectStarts
  <2>1. CASE Reopens
    <3>1. impl /\ impl' /\ win'.file = "device" /\ files' = files \cup {"device"}
      BY <1>7, <2>1 DEF TeeConnectStarts, Shape, TypeOK, StructImpl
    <3>2. QED
      BY <3>1 DEF HandlesAccounted
  <2>2. CASE ~Reopens
    BY <1>7, <2>2 DEF TeeConnectStarts, HandlesAccounted
  <2>3. QED
    BY <2>1, <2>2
<1>8. CASE DisconnectFree
  BY <1>1, <1>8 DEF DisconnectFree, DisconnectCloses, HandlesAccounted, Files
<1>9. CASE CallerOpens
  BY <1>9 DEF CallerOpens, HandlesAccounted
<1>10. QED
  BY <1>2, <1>3, <1>4, <1>5, <1>6, <1>7, <1>8, <1>9, StepsOfNext

\* A device handle the library opened is open exactly as long as its session has it,
\* and a session on the caller's handle never outlives it (TeeInitFullInt, TeeConnect,
\* TeeDisconnect).
THEOREM HandlesAreAccounted == Spec => []HandlesAccounted
<1>1. Init => HandlesAccounted
  BY DEF Init, HandlesAccounted
<1>2. QED
  BY <1>1, HandlesStep, ShapeAlways, PTL DEF Spec

\* The caller's handle is closed by a TeeInit that fails late and by nothing else
\* (TeeInitFullInt, metee_win.c:203-220; CloseHandleInternal, metee_win.c:579-585).
THEOREM CallersHandleIsKept == Spec => CallerHandleKept
<1> DEFINE Closed == files \ files' = {"caller"}
           ByInit == ~impl /\ ~impl' /\ io'.ret.op = "init" /\ io'.ret.status # "SUCCESS"
<1>1. ASSUME Shape, [Next]_vars, Closed
      PROVE  ByInit
  <2>1. CASE UNCHANGED vars
    BY <1>1, <2>1 DEF vars
  <2>2. CASE KeepsHandles
    BY <1>1, <2>2, HandlesKept
  <2>3. ASSUME NEW kind \in InitKinds,
               NEW status \in {"INTERNAL_ERROR", "UNABLE_TO_COMPLETE_OPERATION"},
               TeeInitUndone(kind, status)
        PROVE  ByInit
    <3>1. io'.ret = [op |-> "init", status |-> status]
      BY <2>3, <1>1, ReturnsType, PlainStatuses DEF TeeInitUndone, Shape, TypeOK
    <3>2. QED
      BY <2>3, <3>1 DEF TeeInitUndone
  <2>4. CASE \E kind \in InitKinds : TeeInitSucceeds(kind)
    BY <1>1, <2>4 DEF TeeInitSucceeds
  <2>5. CASE \E status \in CreateFileErrors : TeeConnectCannotReopen(status)
    BY <1>1, <2>5 DEF TeeConnectCannotReopen
  <2>6. CASE TeeConnectStarts
    BY <1>1, <2>6 DEF TeeConnectStarts
  <2>7. CASE DisconnectFree
    BY <1>1, <2>7
    DEF DisconnectFree, DisconnectCloses, Shape, PlacesOfCalls, FileOfSession
  <2>8. CASE CallerOpens
    BY <1>1, <2>8 DEF CallerOpens
  <2>9. QED
    BY <1>1, <2>1, <2>2, <2>3, <2>4, <2>5, <2>6, <2>7, <2>8, StepsOfNext
<1>2. Shape /\ [Next]_vars => [Closed => ByInit]_vars
  BY <1>1
<1>3. QED
  BY <1>2, ShapeAlways, PTL DEF Spec, CallerHandleKept
-------------------------------------------------------------------------------
(* The requests with the driver. *)

Requests == RequestsOfSession /\ RequestsHaveWaiters /\ ConnectsOnFreshFile

\* What the proofs below need of the shape.
LEMMA ShapeFacts ==
  ASSUME Shape
  PROVE  /\ io \in IoThread /\ win \in StructImpl /\ evt \in [Slots -> EventStates]
         /\ io.pc = "ioctl" => impl /\ io.op \in {"connect", "query"}
         /\ io.pc = "ioctl" /\ io.op = "connect" => win.state # "CONNECTED"
         /\ io.pc = "waiting" => io.op \in Transfers /\ (impl => win.state = "CONNECTED")
         /\ impl => win.file \in Files \cup {"invalid"}
         /\ impl => (win.closeOnExit <=> win.file # "caller")
         /\ ctl # "idle" => impl
  BY DEF Shape, TypeOK, PlacesOfCalls, FileOfSession, EventStates

LEMMA PendingAfter ==
  ASSUME evt \in [Slots -> EventStates], NEW slot \in Slots, NEW v \in EventStates,
         evt' = [evt EXCEPT ![slot] = v]
  PROVE  /\ evt'[slot] = v
         /\ Pending(slot)' <=> v \in PendingStates
         /\ \A other \in Slots : other # slot => evt'[other] = evt[other]
         /\ \A other \in Slots : other # slot => (Pending(other)' <=> Pending(other))
  BY DEF Pending

LEMMA AbortedAll ==
  /\ \A slot \in Slots : AbortAll(evt)[slot] \notin PendingStates
  /\ \A slot \in Slots : NewEvents[slot] \notin PendingStates
  BY DEF AbortAll, NewEvents, PendingStates

\* A call returns, or starts nothing: no request begins or ends.
LEMMA RequestsQuiet ==
  ASSUME Shape, Requests, UNCHANGED <<impl, evt, used>>,
         win'.file = win.file, win'.closeOnExit = win.closeOnExit,
         win'.state = win.state \/ win'.state = "FAILED",
         \/ UNCHANGED io
         \/ io'.pc \notin {"ioctl", "waiting"} /\ io.pc \notin {"ioctl", "waiting"}
         \/ /\ io.pc \in {"ioctl", "waiting"} /\ io'.pc \notin {"ioctl", "waiting"}
            /\ win'.state = "FAILED" \/ ~impl \/ ~Pending(Slot(io.op))
            /\ Pending("IOCTL") => io.pc # "ioctl"
            /\ ~ConnectAnswered
  PROVE  Requests'
<1> USE DEF Requests, Pending
<1>1. RequestsOfSession'
  BY DEF RequestsOfSession, ConnectAnswered
<1>2. RequestsHaveWaiters'
  BY DEF RequestsHaveWaiters
<1>3. ConnectsOnFreshFile'
  BY DEF ConnectsOnFreshFile, ConnectPending
<1>4. QED
  BY <1>1, <1>2, <1>3

LEMMA RequestsTeeInit ==
  ASSUME Shape, Requests,
         \/ TeeInitRefused
         \/ \E status \in InitErrors : TeeInitFails(status)
         \/ \E kind \in InitKinds, status \in {"INTERNAL_ERROR", "UNABLE_TO_COMPLETE_OPERATION"} :
              TeeInitUndone(kind, status)
         \/ \E kind \in InitKinds : TeeInitSucceeds(kind)
  PROVE  Requests'
<1>1. io \in IoThread
  BY ShapeFacts
<1>2. CASE \/ TeeInitRefused
           \/ \E status \in InitErrors : TeeInitFails(status)
           \/ \E kind \in InitKinds, status \in {"INTERNAL_ERROR", "UNABLE_TO_COMPLETE_OPERATION"} :
                TeeInitUndone(kind, status)
  <2>1. UNCHANGED <<impl, evt, used, win>> /\ io.pc = "idle"
    BY <1>2 DEF TeeInitRefused, TeeInitFails, TeeInitUndone, MayCall
  <2>2. io'.pc = "idle"
    BY <1>1, <1>2, ReturnsType, PlainStatuses DEF TeeInitRefused, TeeInitFails, TeeInitUndone
  <2>3. QED
    BY <2>1, <2>2, RequestsQuiet
<1>3. ASSUME NEW kind \in InitKinds, TeeInitSucceeds(kind)
      PROVE  Requests'
  <2>1. io'.pc = "idle"
    BY <1>1, <1>3, ReturnsType, PlainStatuses DEF TeeInitSucceeds
  <2>2. \A slot \in Slots : ~Pending(slot)'
    BY <1>3, AbortedAll DEF TeeInitSucceeds, Pending
  <2>3. /\ win'.state = "NONE" /\ win'.file \in Files
        /\ win'.closeOnExit <=> win'.file # "caller"
        /\ "device" \notin used'
    BY <1>3, NewImpl DEF TeeInitSucceeds
  <2>4. QED
    BY <2>1, <2>2, <2>3
    DEF Requests, RequestsOfSession, RequestsHaveWaiters, ConnectsOnFreshFile, ConnectAnswered,
        ConnectPending, Files, Slots
<1>4. QED
  BY <1>2, <1>3

LEMMA RequestsTeeConnect ==
  ASSUME Shape, Requests,
         \/ TeeConnectNoSession \/ TeeConnectRefused
         \/ \E status \in CreateFileErrors : TeeConnectCannotReopen(status)
         \/ TeeConnectStarts \/ TeeConnectSucceeds
         \/ \E e \in Win32Errors : TeeConnectFails(e)
  PROVE  Requests'
<1>1. io \in IoThread /\ win \in StructImpl /\ evt \in [Slots -> EventStates]
  BY ShapeFacts
<1>2. CASE TeeConnectNoSession \/ TeeConnectRefused
  <2>1. UNCHANGED <<impl, evt, used, win>> /\ io.pc = "idle"
    BY <1>2 DEF TeeConnectNoSession, TeeConnectRefused, MayCall
  <2>2. io'.pc = "idle"
    BY <1>1, <1>2, ReturnsType, PlainStatuses
    DEF TeeConnectNoSession, TeeConnectRefused, Calls
  <2>3. QED
    BY <2>1, <2>2, RequestsQuiet
<1>3. ASSUME NEW status \in CreateFileErrors, TeeConnectCannotReopen(status)
      PROVE  Requests'
  <2>1. io'.pc = "idle"
    BY <1>1, <1>3, ReturnsType, PlainStatuses DEF TeeConnectCannotReopen, Calls
  <2>2. \A slot \in Slots : ~Pending(slot)'
    BY <1>3, AbortedAll DEF TeeConnectCannotReopen, Pending
  <2>3. win'.state = "FAILED"
    BY <1>1, <1>3 DEF TeeConnectCannotReopen, Reopens, StructImpl
  <2>4. QED
    BY <2>1, <2>2, <2>3
    DEF Requests, RequestsOfSession, RequestsHaveWaiters, ConnectsOnFreshFile, ConnectAnswered,
        ConnectPending, Slots
<1>4. CASE TeeConnectStarts
  <2>1. io.pc = "idle" /\ io'.pc = "ioctl" /\ io'.op = "connect" /\ impl /\ impl'
    BY <1>1, <1>4, WaitsType DEF TeeConnectStarts, Calls, MayCall
  <2>2. "pending" \in EventStates /\ "IOCTL" \in Slots /\ "pending" \in PendingStates
    BY DEF EventStates, PendingStates, Slots
  <2>3. CASE Reopens
    <3>1. /\ win'.state = "FAILED" /\ win'.file = "device"
          /\ "device" \notin used'
      BY <1>1, <1>4, <2>3 DEF TeeConnectStarts, Reopens, StructImpl
    <3>2. evt' = [AbortAll(evt) EXCEPT !["IOCTL"] = "pending"]
      BY <1>4, <2>3 DEF TeeConnectStarts
    <3>3. evt'["IOCTL"] = "pending" /\ ~Pending("READ")' /\ ~Pending("WRITE")'
      BY <3>2, AbortedAll DEF AbortAll, Pending, Slots
    <3>4. QED
      BY <2>1, <2>2, <3>1, <3>3
      DEF Requests, RequestsOfSession, RequestsHaveWaiters, ConnectsOnFreshFile,
          ConnectAnswered, ConnectPending, Slots
  <2>4. CASE ~Reopens
    <3>1. /\ UNCHANGED <<used, win>>
          /\ evt' = [evt EXCEPT !["IOCTL"] = "pending"]
          /\ win.state # "CONNECTED"
      BY <1>4, <2>4 DEF TeeConnectStarts
    <3>2. /\ evt'["IOCTL"] = "pending"
          /\ Pending("READ")' <=> Pending("READ")
          /\ Pending("WRITE")' <=> Pending("WRITE")
      BY <1>1, <2>2, <3>1, PendingAfter DEF Slots
    <3>3. win.closeOnExit => win.state = "NONE"
      BY <1>1, <2>4, <3>1 DEF Reopens, StructImpl
    <3>4. QED
      BY <2>1, <2>2, <3>1, <3>2, <3>3
      DEF Requests, RequestsOfSession, RequestsHaveWaiters, ConnectsOnFreshFile,
          ConnectAnswered, ConnectPending, Slots
  <2>5. QED
    BY <2>3, <2>4
<1>5. CASE TeeConnectSucceeds
  <2>1. io'.pc = "idle" /\ ConnectAnswered /\ UNCHANGED <<impl, evt, used>>
    BY <1>1, <1>5, ReturnsType, PlainStatuses DEF TeeConnectSucceeds, Calls, ConnectAnswered
  <2>2. win'.state = "CONNECTED" /\ win'.file = win.file
    BY <1>1, <1>5 DEF TeeConnectSucceeds, StructImpl
  <2>3. /\ win.file \in used /\ ~Pending("READ") /\ ~Pending("WRITE")
        /\ ~Pending("IOCTL")
    BY <2>1 DEF Requests, RequestsOfSession, ConnectAnswered, Pending, PendingStates
  <2>4. \A slot \in Slots : ~Pending(slot)'
    BY <2>1, <2>3 DEF Slots, Pending
  <2>5. QED
    BY <2>1, <2>2, <2>3, <2>4
    DEF Requests, RequestsOfSession, RequestsHaveWaiters, ConnectsOnFreshFile, ConnectAnswered,
        ConnectPending, Slots
<1>6. ASSUME NEW e \in Win32Errors, TeeConnectFails(e)
      PROVE  Requests'
  <2>1. io'.pc = "idle" /\ UNCHANGED <<impl, evt, used, win>>
    BY <1>1, <1>6, ReturnsType, ErrorStatuses DEF TeeConnectFails, Calls
  <2>2. evt["IOCTL"] \in {"error", "aborted"} /\ io.pc = "ioctl" /\ io.op = "connect"
    BY <1>6 DEF TeeConnectFails, ErrorsOf
  <2>3. ~Pending("IOCTL") /\ Slot(io.op) = "IOCTL" /\ ~ConnectAnswered
    BY <2>2 DEF Pending, PendingStates, Slot, ConnectAnswered
  <2>4. QED
    BY <2>1, <2>2, <2>3, RequestsQuiet
<1>7. QED
  BY <1>2, <1>3, <1>4, <1>5, <1>6
LEMMA RequestsTeeQuery ==
  ASSUME Shape, Requests,
         \/ TeeQueryRefused \/ TeeQueryNoDevice \/ TeeQueryStarts \/ TeeQuerySucceeds
         \/ \E e \in Win32Errors : TeeQueryFails(e)
  PROVE  Requests'
<1>1. io \in IoThread /\ win \in StructImpl /\ evt \in [Slots -> EventStates]
  BY ShapeFacts
<1>2. CASE TeeQueryRefused
  <2>1. io'.pc = "idle" /\ io.pc = "idle" /\ UNCHANGED <<impl, evt, used, win>>
    BY <1>1, <1>2, ReturnsType, PlainStatuses DEF TeeQueryRefused, Calls, MayCall
  <2>2. QED
    BY <2>1, RequestsQuiet
<1>3. CASE TeeQueryNoDevice
  <2>1. io'.pc = "idle" /\ io.pc = "idle" /\ UNCHANGED <<impl, evt, used>>
    BY <1>1, <1>3, ReturnsType, PlainStatuses DEF TeeQueryNoDevice, Calls, MayCall
  <2>2. win'.state = "FAILED" /\ win'.file = win.file /\ win'.closeOnExit = win.closeOnExit
    BY <1>1, <1>3, FailedType DEF TeeQueryNoDevice
  <2>3. QED
    BY <2>1, <2>2, RequestsQuiet
<1>4. CASE TeeQueryStarts
  <2>1. /\ io.pc = "idle" /\ io'.pc = "ioctl" /\ io'.op = "query"
        /\ impl /\ impl' /\ UNCHANGED <<used, win>>
    BY <1>1, <1>4, WaitsType DEF TeeQueryStarts, Calls, MayCall
  <2>2. "pending" \in EventStates /\ "IOCTL" \in Slots
    BY DEF EventStates, PendingStates, Slots
  <2>3. evt' = [evt EXCEPT !["IOCTL"] = "pending"]
    BY <1>4 DEF TeeQueryStarts
  <2>4. /\ Pending("READ")' <=> Pending("READ")
        /\ Pending("WRITE")' <=> Pending("WRITE")
    BY <1>1, <2>2, <2>3, PendingAfter DEF Slots
  <2>5. Slot(io'.op) = "IOCTL"
    BY <2>1 DEF Slot
  <2>6. QED
    BY <2>1, <2>4, <2>5
    DEF Requests, RequestsOfSession, RequestsHaveWaiters, ConnectsOnFreshFile, ConnectAnswered,
        ConnectPending, Slots
<1>5. CASE TeeQuerySucceeds \/ \E e \in Win32Errors : TeeQueryFails(e)
  <2>1. /\ io.pc = "ioctl" /\ io.op = "query" /\ UNCHANGED <<impl, evt, used>>
        /\ evt["IOCTL"] \in OverStates
    BY <1>5 DEF TeeQuerySucceeds, TeeQueryFails, ErrorsOf, OverStates
  <2>2. io'.pc = "idle"
    BY <1>1, <1>5, ReturnsType, PlainStatuses, ErrorStatuses
    DEF TeeQuerySucceeds, TeeQueryFails, Calls
  <2>3. /\ win'.file = win.file /\ win'.closeOnExit = win.closeOnExit
        /\ win'.state = win.state \/ win'.state = "FAILED"
    BY <1>1, <1>5, FailedType DEF TeeQuerySucceeds, TeeQueryFails
  <2>4. ~Pending("IOCTL") /\ Slot(io.op) = "IOCTL" /\ ~ConnectAnswered
    BY <2>1 DEF Pending, PendingStates, OverStates, Slot, ConnectAnswered
  <2>5. QED
    BY <2>1, <2>2, <2>3, <2>4, RequestsQuiet
<1>6. QED
  BY <1>2, <1>3, <1>4, <1>5

LEMMA RequestsTransfers ==
  ASSUME Shape, Requests,
         \/ \E op \in Transfers : TeeTransferBadParameter(op)
         \/ \E op \in Transfers : TeeTransferNotConnected(op)
         \/ \E op \in Transfers, timed \in BOOLEAN : TeeTransferStarts(op, timed)
         \/ TransferSucceeds \/ TransferFaults
         \/ \E status : TransferGivesUp(status)
  PROVE  Requests'
<1>1. io \in IoThread /\ win \in StructImpl /\ evt \in [Slots -> EventStates]
  BY ShapeFacts
<1>2. ASSUME NEW op \in Transfers, TeeTransferBadParameter(op) \/ TeeTransferNotConnected(op)
      PROVE  Requests'
  <2>1. io'.pc = "idle" /\ io.pc = "idle" /\ UNCHANGED <<impl, evt, used, win>>
    BY <1>1, <1>2, ReturnsType, PlainStatuses
    DEF TeeTransferBadParameter, TeeTransferNotConnected, Calls, MayCall
  <2>2. QED
    BY <2>1, RequestsQuiet
<1>3. ASSUME NEW op \in Transfers, NEW timed \in BOOLEAN, TeeTransferStarts(op, timed)
      PROVE  Requests'
  <2>1. /\ io.pc = "idle" /\ io'.pc = "waiting" /\ io'.op = op
        /\ impl /\ impl' /\ win.state = "CONNECTED" /\ UNCHANGED <<used, win>>
    BY <1>1, <1>3, WaitsType DEF TeeTransferStarts, Connected, Calls, MayCall
  <2>2. Slot(op) \in {"READ", "WRITE"} /\ Slot(op) \in Slots /\ "pending" \in EventStates
    BY SlotType DEF Transfers, Calls, Slots, EventStates, PendingStates
  <2>3. /\ \A slot \in Slots : slot # Slot(op) => evt'[slot] = evt[slot]
        /\ \A slot \in Slots : ~Pending(slot)
    BY <1>1, <1>3, <2>1, <2>2, PendingAfter
    DEF TeeTransferStarts, Requests, RequestsHaveWaiters
  <2>4. \A slot \in Slots : Pending(slot)' => slot = Slot(op)
    BY <2>3 DEF Pending
  <2>5. QED
    BY <2>1, <2>2, <2>4
    DEF Requests, RequestsOfSession, RequestsHaveWaiters, ConnectsOnFreshFile, ConnectAnswered,
        ConnectPending, Slots
<1>4. CASE TransferSucceeds
  <2>1. /\ io.pc = "waiting" /\ ~Pending(Slot(io.op)) /\ UNCHANGED <<impl, evt, used, win>>
    BY <1>4 DEF TransferSucceeds, Pending, PendingStates
  <2>2. io'.pc = "idle"
    BY <1>1, <1>4, ReturnsType, PlainStatuses DEF TransferSucceeds, IoThread
  <2>3. QED
    BY <2>1, <2>2, RequestsQuiet DEF ConnectAnswered
<1>5. CASE TransferFaults
  <2>1. /\ io.pc = "waiting" /\ ~impl /\ io'.pc = "faulted"
        /\ UNCHANGED <<impl, evt, used, win>>
    BY <1>1, <1>5 DEF TransferFaults, IoThread
  <2>2. QED
    BY <2>1, RequestsQuiet DEF ConnectAnswered
<1>6. ASSUME NEW status, TransferGivesUp(status)
      PROVE  Requests'
  BY <1>6, GivingUp, RequestsQuiet DEF ConnectAnswered
<1>7. QED
  BY <1>2, <1>3, <1>4, <1>5, <1>6

LEMMA RequestsControl ==
  ASSUME Shape, Requests, CtlCalls \/ CtlStep
  PROVE  Requests'
<1>1. CASE TeeCancelIO \/ TeeDisconnect \/ CancelWaitEnds
  BY <1>1, RequestsQuiet DEF TeeCancelIO, TeeDisconnect, CancelWaitEnds
<1>2. CASE CancelIo
  <2>1. /\ \A slot \in Slots : Pending(slot)' <=> Pending(slot)
        /\ \A slot \in Slots : Pending(slot) \/ evt'[slot] = evt[slot]
        /\ UNCHANGED <<impl, used, win, io>>
    BY <1>2 DEF CancelIo, Pending, PendingStates
  <2>2. ConnectAnswered' <=> ConnectAnswered
    BY <1>2, <2>1 DEF ConnectAnswered, CancelIo, Pending, PendingStates, Slots
  <2>3. RequestsOfSession'
    BY <2>1, <2>2 DEF Requests, RequestsOfSession, Slots
  <2>4. RequestsHaveWaiters' /\ ConnectsOnFreshFile'
    BY <2>1 DEF Requests, RequestsHaveWaiters, ConnectsOnFreshFile, ConnectPending, Slots
  <2>5. QED
    BY <2>3, <2>4 DEF Requests
<1>3. CASE DisconnectFree
  <2>1. ~impl' /\ io' = io /\ \A slot \in Slots : ~Pending(slot)'
    BY <1>3, AbortedAll DEF DisconnectFree, Pending
  <2>2. ~ConnectAnswered'
    BY <1>3, <2>1 DEF ConnectAnswered, DisconnectFree, NewEvents, Slots
  <2>3. QED
    BY <2>1, <2>2
    DEF Requests, RequestsOfSession, RequestsHaveWaiters, ConnectsOnFreshFile, Slots
<1>4. QED
  BY <1>1, <1>2, <1>3 DEF CtlCalls, CtlStep

LEMMA RequestsDriver ==
  ASSUME Shape, Requests, Driver
  PROVE  Requests'
<1> USE DEF Requests
<1>1. evt \in [Slots -> EventStates]
  BY ShapeFacts
<1>2. ASSUME NEW r \in Reports, ConnectAccepted(r)
      PROVE  Requests'
  <2>1. /\ "IOCTL" \in Slots /\ "success" \in EventStates
        /\ "success" \notin PendingStates
    BY DEF Slots, EventStates, OverStates, PendingStates
  <2>2. /\ evt' = [evt EXCEPT !["IOCTL"] = "success"] /\ UNCHANGED <<impl, win, io>>
        /\ ConnectPending /\ win.file \notin used /\ win.file \in used'
        /\ io.pc = "ioctl" /\ io.op = "connect"
    BY <1>2 DEF ConnectAccepted, ConnectPending
  <2>3. ~Pending("READ") /\ ~Pending("WRITE")
    BY <2>2 DEF RequestsOfSession
  <2>4. \A slot \in Slots : ~Pending(slot)'
    BY <1>1, <2>1, <2>2, <2>3, PendingAfter DEF Slots
  <2>5. evt'["IOCTL"] = "success"
    BY <1>1, <2>1, <2>2, PendingAfter
  <2>6. QED
    BY <2>1, <2>2, <2>4, <2>5
    DEF RequestsOfSession, RequestsHaveWaiters, ConnectsOnFreshFile, ConnectAnswered,
        ConnectPending, Slots
<1>3. ASSUME NEW slot \in Slots, NEW outcome \in OverStates, Pending(slot),
             slot = "IOCTL" /\ outcome = "success" => ~ConnectPending,
             evt' = [evt EXCEPT ![slot] = outcome],
             UNCHANGED <<impl, hdl, win, files, used, report, io, ctl, fault>>
      PROVE  Requests'
  <2>1. outcome \in EventStates /\ outcome \notin PendingStates
    BY DEF EventStates, OverStates, PendingStates
  <2>2. /\ evt'[slot] = outcome
        /\ \A other \in Slots : Pending(other)' => Pending(other)
        /\ \A other \in Slots : other # slot => evt'[other] = evt[other]
    BY <1>1, <1>3, <2>1, PendingAfter
  <2>3. ConnectAnswered' => ConnectAnswered
    BY <1>3, <2>2 DEF ConnectAnswered, ConnectPending, Slots
  <2>4. ConnectAnswered => slot # "IOCTL"
    BY <1>3 DEF ConnectAnswered, Pending, PendingStates
  <2>5. ConnectAnswered => ConnectAnswered'
    BY <1>3, <2>2, <2>4 DEF ConnectAnswered, Slots
  <2>6. RequestsOfSession'
    BY <1>3, <2>2, <2>3, <2>5 DEF RequestsOfSession, Slots
  <2>7. RequestsHaveWaiters' /\ ConnectsOnFreshFile'
    BY <1>3, <2>2 DEF RequestsHaveWaiters, ConnectsOnFreshFile, ConnectPending, Slots
  <2>8. QED
    BY <2>6, <2>7
<1>4. QED
  <2>1. ASSUME NEW slot \in Slots, NEW outcome \in {"success", "error"},
               RequestEnds(slot, outcome)
        PROVE  Requests'
    BY <1>3, <2>1 DEF RequestEnds, OverStates
  <2>2. ASSUME NEW slot \in Slots, CancelledEnds(slot)
        PROVE  Requests'
    BY <1>3, <2>2 DEF CancelledEnds, OverStates, Pending, PendingStates
  <2>3. QED
    BY <1>2, <2>1, <2>2 DEF Driver, DriverAborts

LEMMA RequestsStep ==
  Shape /\ HandlesAccounted /\ Requests /\ [Next]_vars => Requests'
<1> SUFFICES ASSUME Shape, HandlesAccounted, Requests, [Next]_vars PROVE Requests'
  OBVIOUS
<1>1. CASE UNCHANGED vars
  BY <1>1, RequestsQuiet DEF vars
<1>2. CASE IoStep \/ IoCalls
  BY <1>2, RequestsTeeInit, RequestsTeeConnect, RequestsTeeQuery, RequestsTransfers
  DEF IoStep, IoProgress, IoCalls, TransferGivesUp
<1>3. CASE CallerOpens
  <2>1. /\ UNCHANGED <<impl, evt, win, io>> /\ used' = used \ {"caller"}
        /\ impl => win.file # "caller"
    BY <1>3 DEF CallerOpens, HandlesAccounted
  <2>2. impl => (win.file \in used' <=> win.file \in used)
    BY <2>1
  <2>3. ConnectAnswered => impl
    BY ShapeFacts DEF ConnectAnswered
  <2>4. QED
    BY <2>1, <2>2, <2>3
    DEF Requests, RequestsOfSession, RequestsHaveWaiters, ConnectsOnFreshFile, ConnectAnswered,
        ConnectPending, Pending, Slots
<1>4. QED
  BY <1>1, <1>2, <1>3, RequestsControl, RequestsDriver DEF Next

LEMMA RequestsAlways == Spec => []Requests
<1>1. ASSUME Init
      PROVE  Requests
  <2>1. /\ \A slot \in Slots : ~Pending(slot)
        /\ ~impl /\ io.pc = "idle"
    BY <1>1, AbortedAll DEF Init, Pending
  <2>2. QED
    BY <2>1
    DEF Requests, RequestsOfSession, RequestsHaveWaiters, ConnectsOnFreshFile,
        ConnectAnswered, ConnectPending, Slots
<1>2. QED
  BY <1>1, RequestsStep, ShapeAlways, HandlesAreAccounted, PTL DEF Spec

\* A request the driver holds while the session is connected is one a call waits for,
\* so no transfer starts on an OVERLAPPED that is in use (EndOverlapped,
\* metee_winhelpers.c:123-137; TeeRead and TeeWrite, metee_win.c:375-379).
THEOREM RequestsAlwaysHaveWaiters == Spec => []RequestsHaveWaiters
<1>1. Requests => RequestsHaveWaiters
  BY DEF Requests
<1>2. QED
  BY <1>1, RequestsAlways, PTL

\* A session that owns its device handle asks for a connection on a file object that
\* had none (TeeConnect, metee_win.c:298-307).
THEOREM ConnectionsAreFresh == Spec => []ConnectsOnFreshFile
<1>1. Requests => ConnectsOnFreshFile
  BY DEF Requests
<1>2. QED
  BY <1>1, RequestsAlways, PTL
-------------------------------------------------------------------------------
(* The end of a session, and the report of its connection. *)

LEMMA DisconnectingStep ==
  ASSUME PromptCancel, Shape, RequestsWhileDisconnecting, [Next]_vars
  PROVE  RequestsWhileDisconnecting'
<1> USE DEF RequestsWhileDisconnecting, Pending
<1>1. evt \in [Slots -> EventStates]
  BY ShapeFacts
<1>2. CASE UNCHANGED <<evt, ctl>>
  BY <1>2
<1>3. CASE IoCalls
  <2>1. ctl' = ctl /\ ~Disconnecting
    BY <1>3
    DEF IoCalls, MayCall, TeeInitRefused, TeeInitFails, TeeInitUndone, TeeInitSucceeds,
        TeeConnectNoSession, TeeConnectRefused, TeeConnectCannotReopen, TeeConnectStarts,
        TeeQueryRefused, TeeQueryNoDevice, TeeQueryStarts, TeeTransferBadParameter,
        TeeTransferNotConnected, TeeTransferStarts
  <2>2. QED
    BY <2>1 DEF Disconnecting
<1>4. CASE IoStep
  <2>1. UNCHANGED <<evt, ctl>>
    BY <1>4
    DEF IoStep, IoProgress, TeeConnectSucceeds, TeeConnectFails, TeeQuerySucceeds,
        TeeQueryFails, TransferSucceeds, TransferFails, TransferTimesOut, TransferWaitFails,
        TransferFaults
  <2>2. QED
    BY <1>2, <2>1
<1>5. CASE TeeCancelIO \/ TeeDisconnect
  BY <1>5 DEF TeeCancelIO, TeeDisconnect
<1>6. CASE CancelIo
  <2>1. /\ \A slot \in Slots : evt'[slot] # "pending"
        /\ (\A slot \in Slots : evt[slot] \notin PendingStates) => evt' = evt
    BY <1>1, <1>6 DEF CancelIo, Cancelled, PendingStates
  <2>2. ctl' = "discFree" => \A slot \in Slots : evt[slot] \notin PendingStates
    BY <1>6 DEF CancelIo, AfterCancel
  <2>3. QED
    BY <2>1, <2>2
<1>7. CASE CancelWaitEnds
  <2>1. UNCHANGED evt /\ ctl' \in {"idle", "discFree"}
    BY <1>7 DEF CancelWaitEnds, AfterCancel
  <2>2. \A slot \in Slots : evt[slot] # "cancelling"
    BY <1>7 DEF CancelWaitEnds, CancelWaitOver, Signaled, OverStates
  <2>3. ctl' = "discFree" => ctl = "discWait"
    BY <1>7 DEF CancelWaitEnds, AfterCancel
  <2>4. QED
    BY <2>1, <2>2, <2>3 DEF PendingStates
<1>8. CASE DisconnectFree
  BY <1>8 DEF DisconnectFree
<1>9. CASE Driver
  <2>1. /\ ctl' = ctl
        /\ \A slot \in Slots : evt'[slot] = evt[slot] \/ evt'[slot] \in OverStates
    BY <1>1, <1>9
    DEF Driver, DriverAborts, ConnectAccepted, RequestEnds, CancelledEnds, OverStates
  <2>2. \A v \in OverStates : v # "pending" /\ v \notin PendingStates
    BY DEF OverStates, PendingStates
  <2>3. QED
    BY <2>1, <2>2
<1>10. CASE CallerOpens
  BY <1>2, <1>10 DEF CallerOpens
<1>11. QED
  BY <1>2, <1>3, <1>4, <1>5, <1>6, <1>7, <1>8, <1>9, <1>10 DEF Next, vars, CtlCalls, CtlStep

\* When the driver ends cancelled requests within CANCEL_TIMEOUT, TeeDisconnect frees
\* no OVERLAPPED the driver still has (TeeDisconnect, metee_win.c:576-592).
THEOREM RequestsAreOverBeforeFree == PromptCancel /\ Spec => RequestsOverBeforeFree
<1> DEFINE Freed == impl /\ ~impl' => \A slot \in Slots : ~Pending(slot)
<1>1. Init => RequestsWhileDisconnecting
  BY DEF Init, RequestsWhileDisconnecting
<1>2. PromptCancel /\ Shape /\ RequestsWhileDisconnecting /\ [Next]_vars
        => RequestsWhileDisconnecting'
  BY DisconnectingStep
<1>3. ASSUME Shape, RequestsWhileDisconnecting, [Next]_vars, impl, ~impl'
      PROVE  \A slot \in Slots : ~Pending(slot)
  <2>1. CASE UNCHANGED vars
    BY <1>3, <2>1 DEF vars
  <2>2. CASE KeepsHandles
    BY <1>3, <2>2, HandlesKept
  <2>3. CASE DisconnectFree
    BY <1>3, <2>3 DEF DisconnectFree, RequestsWhileDisconnecting
  <2>4. QED
    BY <1>3, <2>1, <2>2, <2>3, StepsOfNext
    DEF TeeInitUndone, TeeInitSucceeds, TeeConnectCannotReopen, TeeConnectStarts, CallerOpens
<1>4. Shape /\ RequestsWhileDisconnecting /\ [Next]_vars => [Freed]_vars
  BY <1>3
<1>5. PromptCancel => PromptCancel'
  OBVIOUS
<1>6. QED
  BY <1>1, <1>2, <1>4, <1>5, ShapeAlways, PTL DEF Spec, RequestsOverBeforeFree

LEMMA MirrorStep ==
  ASSUME Shape, HandleMirrorsReport, [Next]_vars
  PROVE  HandleMirrorsReport'
<1> USE DEF HandleMirrorsReport
<1>1. win \in StructImpl
  BY ShapeFacts
<1>2. CASE UNCHANGED <<impl, hdl, win, report>>
  BY <1>2
<1>3. CASE UNCHANGED <<impl, hdl, report>> /\ win'.state \in {win.state, "FAILED"}
  BY <1>3
<1>4. CASE IoCalls
  <2>1. CASE \/ TeeInitRefused
             \/ \E status \in InitErrors : TeeInitFails(status)
             \/ \E kind \in InitKinds, status \in {"INTERNAL_ERROR", "UNABLE_TO_COMPLETE_OPERATION"} :
                  TeeInitUndone(kind, status)
    BY <1>2, <2>1 DEF TeeInitRefused, TeeInitFails, TeeInitUndone
  <2>2. CASE \E kind \in InitKinds : TeeInitSucceeds(kind)
    BY <2>2, NewImpl DEF TeeInitSucceeds
  <2>3. CASE \/ \E status \in CreateFileErrors : TeeConnectCannotReopen(status)
             \/ TeeConnectStarts \/ TeeQueryNoDevice
    <3>1. UNCHANGED <<impl, hdl, report>>
      BY <2>3 DEF TeeConnectCannotReopen, TeeConnectStarts, TeeQueryNoDevice
    <3>2. win'.state \in {win.state, "FAILED"}
      BY <1>1, <2>3
      DEF TeeConnectCannotReopen, TeeConnectStarts, TeeQueryNoDevice, Failed, StructImpl
    <3>3. QED
      BY <1>3, <3>1, <3>2
  <2>4. CASE \/ TeeConnectNoSession \/ TeeConnectRefused \/ TeeQueryRefused \/ TeeQueryStarts
             \/ \E op \in Transfers : TeeTransferBadParameter(op)
             \/ \E op \in Transfers : TeeTransferNotConnected(op)
             \/ \E op \in Transfers, timed \in BOOLEAN : TeeTransferStarts(op, timed)
    BY <1>2, <2>4
    DEF TeeConnectNoSession, TeeConnectRefused, TeeQueryRefused, TeeQueryStarts,
        TeeTransferBadParameter, TeeTransferNotConnected, TeeTransferStarts
  <2>5. QED
    BY <1>4, <2>1, <2>2, <2>3, <2>4 DEF IoCalls
<1>5. CASE IoStep
  <2>1. CASE TeeConnectSucceeds
    BY <2>1 DEF TeeConnectSucceeds, FreshReport
  <2>2. CASE \E e \in Win32Errors : TeeQueryFails(e)
    BY <1>1, <1>3, <2>2 DEF TeeQueryFails, Failed, StructImpl
  <2>3. CASE \E status : TransferGivesUp(status)
    BY <1>3, <2>3, GivingUp
  <2>4. CASE \/ \E e \in Win32Errors : TeeConnectFails(e)
             \/ TeeQuerySucceeds \/ TransferSucceeds \/ TransferFaults
    BY <1>2, <2>4 DEF TeeConnectFails, TeeQuerySucceeds, TransferSucceeds, TransferFaults
  <2>5. QED
    BY <1>5, <2>1, <2>2, <2>3, <2>4 DEF IoStep, IoProgress, TransferGivesUp
<1>6. CASE CtlCalls \/ CtlStep
  BY <1>6 DEF CtlCalls, CtlStep, TeeCancelIO, TeeDisconnect, CancelIo, CancelWaitEnds,
              DisconnectFree
<1>7. CASE Driver
  <2>1. ASSUME NEW r \in Reports, ConnectAccepted(r)
        PROVE  HandleMirrorsReport'
    BY <2>1, ShapeFacts DEF ConnectAccepted, ConnectPending
  <2>2. QED
    BY <1>2, <1>7, <2>1 DEF Driver, DriverAborts, RequestEnds, CancelledEnds
<1>8. QED
  BY <1>2, <1>4, <1>5, <1>6, <1>7 DEF Next, vars, CallerOpens

\* While a session is connected the caller's TEEHANDLE shows what the client reported
\* for this connection (TeeConnect, metee_win.c:320-325).
THEOREM HandleAlwaysMirrorsReport == Spec => []HandleMirrorsReport
<1>1. Init => HandleMirrorsReport
  BY DEF Init, HandleMirrorsReport
<1>2. Shape /\ HandleMirrorsReport /\ [Next]_vars => HandleMirrorsReport'
  BY MirrorStep
<1>3. QED
  BY <1>1, <1>2, ShapeAlways, PTL DEF Spec
-------------------------------------------------------------------------------
(* The session the caller sees. *)

\* A call that returns an error and leaves the phase as it was.
LEMMA RefinesError ==
  ASSUME NEW op \in {"connect", "query"} \cup Transfers,
         NEW status \in Statuses \ {"SUCCESS"},
         io'.ret = [op |-> op, status |-> status], Phase' = Phase,
         op \in Transfers /\ Phase = "connected" => status # "DISCONNECTED"
  PROVE  Session!SessionNext
<1>1. CASE op = "connect"
  BY <1>1 DEF Session!SessionNext, Session!ConnectFails, Session!Returned
<1>2. CASE op = "query"
  BY <1>2 DEF Session!SessionNext, Session!Query, Session!Returned
<1>3. CASE op \in Transfers
  BY <1>3 DEF Session!SessionNext, Session!TransferFails, Session!Returned,
              Session!TransferCalls, Transfers
<1>4. QED
  BY <1>1, <1>2, <1>3

LEMMA WinTeeInit ==
  ASSUME Shape,
         \/ TeeInitRefused
         \/ \E status \in InitErrors : TeeInitFails(status)
         \/ \E kind \in InitKinds, status \in {"INTERNAL_ERROR", "UNABLE_TO_COMPLETE_OPERATION"} :
              TeeInitUndone(kind, status)
         \/ \E kind \in InitKinds : TeeInitSucceeds(kind)
  PROVE  Session!SessionNext
<1>1. io \in IoThread
  BY ShapeFacts
<1>2. ASSUME NEW status \in Statuses \ {"SUCCESS"}, ~impl, ~impl',
             io'.ret = [op |-> "init", status |-> status]
      PROVE  Session!SessionNext
  BY <1>2 DEF Session!SessionNext, Session!OpenFails, Session!Returned, Phase
<1>3. CASE \/ TeeInitRefused
           \/ \E status \in InitErrors : TeeInitFails(status)
           \/ \E kind \in InitKinds, status \in {"INTERNAL_ERROR", "UNABLE_TO_COMPLETE_OPERATION"} :
                TeeInitUndone(kind, status)
  <2>1. \E status \in Statuses \ {"SUCCESS"} :
          Returns("init", status) /\ ~impl /\ ~impl'
    BY <1>3, PlainStatuses DEF TeeInitRefused, TeeInitFails, TeeInitUndone
  <2>2. QED
    BY <1>1, <1>2, <2>1, ReturnsType
<1>4. ASSUME NEW kind \in InitKinds, TeeInitSucceeds(kind)
      PROVE  Session!SessionNext
  <2>1. Phase = "closed" /\ Phase' = "open"
    BY <1>4, NewImpl DEF TeeInitSucceeds, Phase
  <2>2. io'.ret = [op |-> "init", status |-> "SUCCESS"]
    BY <1>1, <1>4, ReturnsType, PlainStatuses DEF TeeInitSucceeds
  <2>3. QED
    BY <2>1, <2>2 DEF Session!SessionNext, Session!Open, Session!Returned
<1>5. QED
  BY <1>3, <1>4

LEMMA WinTeeConnect ==
  ASSUME Shape,
         \/ TeeConnectNoSession \/ TeeConnectRefused
         \/ \E status \in CreateFileErrors : TeeConnectCannotReopen(status)
         \/ TeeConnectStarts \/ TeeConnectSucceeds
         \/ \E e \in Win32Errors : TeeConnectFails(e)
  PROVE  Session!SessionNext \/ UNCHANGED <<Phase, io.ret>>
<1>1. io \in IoThread /\ win \in StructImpl
  BY ShapeFacts
<1>2. CASE \/ TeeConnectNoSession \/ TeeConnectRefused
           \/ \E status \in CreateFileErrors : TeeConnectCannotReopen(status)
           \/ \E e \in Win32Errors : TeeConnectFails(e)
  <2>1. PICK status \in Statuses \ {"SUCCESS"} : Returns("connect", status)
    BY <1>2, PlainStatuses, ErrorStatuses
    DEF TeeConnectNoSession, TeeConnectRefused, TeeConnectCannotReopen, TeeConnectFails
  <2>2. /\ UNCHANGED impl
        /\ UNCHANGED win.state
    BY <1>1, <1>2
    DEF TeeConnectNoSession, TeeConnectRefused, TeeConnectCannotReopen, TeeConnectFails,
        StructImpl
  <2>3. Phase' = Phase
    BY <2>2 DEF Phase
  <2>4. io'.ret = [op |-> "connect", status |-> status]
    BY <1>1, <2>1, ReturnsType DEF Calls
  <2>5. "connect" \notin Transfers
    BY DEF Transfers
  <2>6. QED
    BY <2>3, <2>4, <2>5, RefinesError
<1>3. CASE TeeConnectStarts
  <2>1. io'.ret = io.ret /\ UNCHANGED impl
    BY <1>1, <1>3, WaitsType DEF TeeConnectStarts, Calls
  <2>2. win'.state = win.state
    BY <1>1, <1>3 DEF TeeConnectStarts, StructImpl
  <2>3. QED
    BY <2>1, <2>2 DEF Phase
<1>4. CASE TeeConnectSucceeds
  <2>1. Phase = "open"
    BY <1>4, ShapeFacts DEF TeeConnectSucceeds, Phase
  <2>2. impl' /\ win'.state = "CONNECTED"
    BY <1>1, <1>4 DEF TeeConnectSucceeds, StructImpl
  <2>3. io'.ret = [op |-> "connect", status |-> "SUCCESS"]
    BY <1>1, <1>4, ReturnsType, PlainStatuses DEF TeeConnectSucceeds, Calls
  <2>4. QED
    BY <2>1, <2>2, <2>3 DEF Phase, Session!SessionNext, Session!Connect, Session!Returned
<1>5. QED
  BY <1>2, <1>3, <1>4

LEMMA WinTeeQuery ==
  ASSUME Shape,
         \/ TeeQueryRefused \/ TeeQueryNoDevice \/ TeeQueryStarts \/ TeeQuerySucceeds
         \/ \E e \in Win32Errors : TeeQueryFails(e)
  PROVE  Session!SessionNext \/ UNCHANGED <<Phase, io.ret>>
<1>1. io \in IoThread /\ win \in StructImpl
  BY ShapeFacts
<1>2. CASE TeeQueryRefused \/ TeeQuerySucceeds
  <2>1. \E status \in Statuses : Returns("query", status) /\ UNCHANGED <<impl, win>>
    BY <1>2, PlainStatuses DEF TeeQueryRefused, TeeQuerySucceeds
  <2>2. QED
    BY <1>1, <2>1, ReturnsType
    DEF Phase, Calls, Session!SessionNext, Session!Query, Session!Returned
<1>3. CASE TeeQueryStarts
  BY <1>1, <1>3, WaitsType DEF TeeQueryStarts, Calls, Phase
<1>4. CASE TeeQueryNoDevice \/ \E e \in Win32Errors : TeeQueryFails(e)
  <2>1. \E status \in Statuses \ {"SUCCESS"} :
          Returns("query", status) /\ Failed(status) /\ impl /\ impl'
    BY <1>4, PlainStatuses, ErrorStatuses DEF TeeQueryNoDevice, TeeQueryFails
  <2>2. Phase # "closed" /\ Phase' = "open"
    BY <1>1, <2>1, FailedType DEF Phase
  <2>3. \E status \in Statuses \ {"SUCCESS"} : io'.ret = [op |-> "query", status |-> status]
    BY <1>1, <2>1, ReturnsType DEF Calls
  <2>4. QED
    BY <2>2, <2>3
    DEF Phase, Session!SessionNext, Session!Query, Session!QueryLosesConnection,
        Session!Returned
<1>5. QED
  BY <1>2, <1>3, <1>4

LEMMA WinTransfers ==
  ASSUME Shape,
         \/ \E op \in Transfers : TeeTransferBadParameter(op)
         \/ \E op \in Transfers : TeeTransferNotConnected(op)
         \/ \E op \in Transfers, timed \in BOOLEAN : TeeTransferStarts(op, timed)
         \/ TransferSucceeds \/ TransferFaults
         \/ \E status : TransferGivesUp(status)
  PROVE  Session!SessionNext \/ UNCHANGED <<Phase, io.ret>>
<1>1. io \in IoThread /\ win \in StructImpl
  BY ShapeFacts
<1>2. ASSUME NEW op \in Transfers, TeeTransferBadParameter(op) \/ TeeTransferNotConnected(op)
      PROVE  Session!SessionNext
  <2>1. PICK status \in Statuses \ {"SUCCESS"} :
          /\ Returns(op, status) /\ UNCHANGED <<impl, win>>
          /\ Phase = "connected" => status # "DISCONNECTED"
    BY <1>2, PlainStatuses
    DEF TeeTransferBadParameter, TeeTransferNotConnected, Connected, Phase, Statuses
  <2>2. io'.ret = [op |-> op, status |-> status]
    BY <1>1, <2>1, ReturnsType DEF Calls
  <2>3. Phase' = Phase
    BY <2>1 DEF Phase
  <2>4. QED
    BY <2>1, <2>2, <2>3, RefinesError
<1>3. ASSUME NEW op \in Transfers, NEW timed \in BOOLEAN, TeeTransferStarts(op, timed)
      PROVE  UNCHANGED <<Phase, io.ret>>
  BY <1>1, <1>3, WaitsType DEF TeeTransferStarts, Calls, Phase
<1>4. CASE TransferSucceeds
  <2>1. io.op \in Transfers /\ Phase = "connected" /\ Phase' = "connected"
    BY <1>4, ShapeFacts DEF TransferSucceeds, Phase
  <2>2. io'.ret = [op |-> io.op, status |-> "SUCCESS"]
    BY <1>1, <1>4, <2>1, ReturnsType, PlainStatuses DEF TransferSucceeds, Calls
  <2>3. QED
    BY <2>1, <2>2 DEF Session!SessionNext, Session!Transfer, Session!Returned,
                      Session!TransferCalls, Transfers
<1>5. CASE TransferFaults
  BY <1>1, <1>5 DEF TransferFaults, IoThread, Phase
<1>6. ASSUME NEW status, TransferGivesUp(status)
      PROVE  Session!SessionNext
  <2>1. Phase = "connected" /\ Phase' = "open"
    BY <1>6, GivingUp, ShapeFacts DEF Phase
  <2>2. QED
    BY <1>6, <2>1, GivingUp
    DEF Session!SessionNext, Session!TransferLosesConnection, Session!Returned,
        Session!TransferCalls, Transfers
<1>7. QED
  BY <1>2, <1>3, <1>4, <1>5, <1>6

LEMMA WinControl ==
  ASSUME Shape, CtlCalls \/ CtlStep
  PROVE  Session!SessionNext \/ UNCHANGED <<Phase, io.ret>>
<1>1. CASE TeeCancelIO \/ TeeDisconnect \/ CancelIo \/ CancelWaitEnds
  BY <1>1 DEF TeeCancelIO, TeeDisconnect, CancelIo, CancelWaitEnds, Phase
<1>2. CASE DisconnectFree
  <2>1. Phase # "closed" /\ Phase' = "closed" /\ io' = io
    BY <1>2, ShapeFacts DEF DisconnectFree, Phase
  <2>2. QED
    BY <2>1 DEF Session!SessionNext, Session!Close
<1>3. QED
  BY <1>1, <1>2 DEF CtlCalls, CtlStep

\* Every step of the two threads and of the driver is, to the caller, one of the
\* steps TeeSession allows or none at all (metee_win.c as a whole).
THEOREM WinImplementsSession == Spec => ImplementsSession
<1>1. Init => Session!SessionInit
  BY DEF Init, Session!SessionInit, Phase
<1>2. Shape /\ [Next]_vars => [Session!SessionNext]_(Session!sessionVars)
  <2> SUFFICES ASSUME Shape, [Next]_vars
               PROVE  Session!SessionNext \/ UNCHANGED <<Phase, io.ret>>
    BY DEF Session!sessionVars
  <2>1. CASE IoStep \/ IoCalls
    BY <2>1, WinTeeInit, WinTeeConnect, WinTeeQuery, WinTransfers
    DEF IoStep, IoProgress, IoCalls, TransferGivesUp
  <2>2. CASE Driver \/ CallerOpens \/ UNCHANGED vars
    <3>1. UNCHANGED <<impl, win, io>>
      BY <2>2
      DEF Driver, DriverAborts, ConnectAccepted, RequestEnds, CancelledEnds, CallerOpens, vars
    <3>2. QED
      BY <3>1 DEF Phase
  <2>3. QED
    BY <2>1, <2>2, WinControl DEF Next
<1>3. QED
  BY <1>1, <1>2, ShapeAlways, PTL DEF Spec, ImplementsSession, Session!SessionSpec

\* After a transfer that returned TEE_DISCONNECTED the session is not connected, so
\* that TeeConnect does not refuse the caller who recovers, (Windows/metee_win.c):
\* a consequence of the refinement alone.
THEOREM WinDisconnectedMayConnect == Spec => []Session!DisconnectedMayConnect
<1>1. Session!SessionInit => Session!DisconnectedMayConnect
  BY DEF Session!SessionInit, Session!DisconnectedMayConnect, Session!TransferCalls
<1>2. Session!DisconnectedMayConnect /\ [Session!SessionNext]_(Session!sessionVars)
        => Session!DisconnectedMayConnect'
  <2> SUFFICES ASSUME Phase = "connected"
                        => ~(io.ret.op \in {"read", "write"} /\ io.ret.status = "DISCONNECTED"),
                      Session!SessionNext \/ UNCHANGED <<Phase, io.ret>>,
                      Phase' = "connected"
               PROVE  ~(io'.ret.op \in {"read", "write"} /\ io'.ret.status = "DISCONNECTED")
    BY DEF Session!DisconnectedMayConnect, Session!TransferCalls, Session!sessionVars
  <2>1. CASE \E error \in Statuses \ {"SUCCESS"} :
               Session!ConnectFails(error) \/ Session!OpenFails(error) \/ Session!QueryLosesConnection(error)
    BY <2>1 DEF Session!ConnectFails, Session!OpenFails, Session!QueryLosesConnection, Session!Returned
  <2>2. CASE Session!Open \/ Session!Connect \/ Session!Close
    BY <2>2 DEF Session!Open, Session!Connect, Session!Close, Session!Returned
  <2>3. CASE \E op \in Session!TransferCalls : Session!Transfer(op)
    BY <2>3 DEF Session!Transfer, Session!Returned
  <2>4. CASE \E op \in Session!TransferCalls, error \in Statuses \ {"SUCCESS"} :
               Session!TransferFails(op, error) \/ Session!TransferLosesConnection(op, error)
    BY <2>4 DEF Session!TransferFails, Session!TransferLosesConnection, Session!Returned
  <2>5. CASE \E status : Session!Query(status)
    BY <2>5 DEF Session!Query, Session!Returned
  <2>6. CASE UNCHANGED <<Phase, io.ret>>
    BY <2>6
  <2>7. QED
    BY <2>1, <2>2, <2>3, <2>4, <2>5, <2>6 DEF Session!SessionNext
<1>3. QED
  BY <1>1, <1>2, WinImplementsSession, PTL DEF ImplementsSession, Session!SessionSpec
===============================================================================
