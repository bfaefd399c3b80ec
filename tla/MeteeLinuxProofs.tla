--------------------------- MODULE MeteeLinuxProofs ---------------------------
(***************************************************************************)
(* What holds of the Linux back end for every set of versions and message  *)
(* lengths, every capacity of the cancel pipe and every length of the      *)
(* driver's queue.                                                         *)
(***************************************************************************)
EXTENDS MeteeLinux, TLAPS

(* The values of the records and how the updates of the code stay in them. *)

LEMMA StatusesContain ==
  /\ \A status \in InitErrors : status \in Statuses /\ status # "SUCCESS"
  /\ "SUCCESS" \in Statuses /\ "INVALID_PARAMETER" \in Statuses
  /\ "TIMEOUT" \in Statuses /\ "INTERNAL_ERROR" \in Statuses
  /\ "DISCONNECTED" \in Statuses /\ "UNABLE_TO_COMPLETE_OPERATION" \in Statuses
  BY DEF Statuses, InitErrors

LEMMA ErrnoToStateType ==
  ASSUME NEW e \in Errnos, NEW state \in MeiStates
  PROVE  /\ ErrnoToState(e, state) \in MeiStates
         /\ ErrnoToState(e, state) \in {"ZERO", "DISABLED"} => ErrnoToState(e, state) = state
         /\ ErrnoToState(e, state) = "CONNECTED" => state = "CONNECTED"
  BY DEF Errnos, MeiStates, ErrnoToState

LEMMA ErrnoToStatusType ==
  ASSUME NEW e \in Errnos
  PROVE  /\ ErrnoToStatus(e) \in Statuses
         /\ ErrnoToStatus(e) # "SUCCESS"
<1>1. \A s \in {"CLIENT_NOT_FOUND", "BUSY", "DISCONNECTED", "NOTSUPPORTED", "TIMEOUT",
                "PERMISSION_DENIED", "INSUFFICIENT_BUFFER", "INTERNAL_ERROR"} : s \in Statuses /\ s # "SUCCESS"
  BY DEF Statuses, InitErrors
<1>2. QED
  BY <1>1 DEF Errnos, ErrnoToStatus

LEMMA MeiInitType ==
  ASSUME NEW kind \in InitKinds
  PROVE  /\ MeiInit(kind) \in StructMei
         /\ MeiInit(kind).state \in {"INITIALIZED", "DISABLED"}
         /\ MeiInit(kind).fd = "device" => MeiInit(kind).closeOnExit
         /\ MeiInit(kind).fd = "caller" => ~MeiInit(kind).closeOnExit
         /\ MeiInit(kind).fd = "none" => MeiInit(kind).state = "DISABLED"
  BY DEF InitKinds, MeiInit, MeiStates, StructMei

LEMMA DeinitedType ==
  ASSUME NEW m \in StructMei
  PROVE  Deinited(m) \in StructMei /\ Deinited(m).state = "ZERO"
  BY DEF StructMei, Deinited, MeiStates

LEMMA MeiStateType ==
  ASSUME NEW m \in StructMei, NEW state \in MeiStates
  PROVE  [m EXCEPT !.state = state] \in StructMei
  BY DEF StructMei

LEMMA ResultType ==
  ASSUME NEW i \in IoThread, NEW op \in {"none", "init", "connect", "query"} \cup Transfers,
         NEW status \in Statuses
  PROVE  /\ [i EXCEPT !.ret = [op |-> op, status |-> status]] \in IoThread
         /\ [i EXCEPT !.pc = "idle", !.ret = [op |-> op, status |-> status]] \in IoThread
  BY DEF IoThread, Results

LEMMA ReturnsType ==
  ASSUME io \in IoThread, NEW op \in {"none", "init", "connect", "query"} \cup Transfers,
         NEW status \in Statuses, Returns(op, status)
  PROVE  io' \in IoThread
  BY ResultType DEF Returns

LEMMA TransferReturnsType ==
  ASSUME io \in IoThread, NEW status \in Statuses, TransferReturns(status)
  PROVE  io' \in IoThread
<1>1. io.op \in Transfers
  BY DEF IoThread
<1>2. QED
  BY <1>1, ResultType DEF TransferReturns

LEMMA QueuedBounds ==
  /\ 0 \in Queued
  /\ \A n \in Queued : /\ n \in Nat
                       /\ n < MaxRx => n + 1 \in Queued
                       /\ n > 0 => n - 1 \in Queued
  BY MaxRxAssumption DEF Queued

LEMMA NoLinkType == NoLink \in DriverStates
  BY QueuedBounds DEF NoLink, DriverStates

LEMMA DriverUpdates ==
  ASSUME NEW d \in DriverStates
  PROVE  /\ \A n \in Queued : [d EXCEPT !.rx = n] \in DriverStates
         /\ \A full \in BOOLEAN : [d EXCEPT !.txFull = full] \in DriverStates
         /\ \A link \in {"none", "up", "down"} :
              [d EXCEPT !.link = link, !.rx = 0, !.txFull = FALSE] \in DriverStates
         /\ \A ver \in Versions, len \in MsgLens :
              [d EXCEPT !.link = "up", !.ver = ver, !.len = len] \in DriverStates
  BY QueuedBounds DEF DriverStates

-------------------------------------------------------------------------------
(* Type correctness: one lemma per group of actions. *)

LEMMA TypeInit == Init => TypeOK
<1>1. ASSUME Init PROVE me \in StructMei
  BY <1>1, MeiInitType, DeinitedType DEF Init, InitKinds
<1>2. ASSUME Init PROVE io \in IoThread
  BY <1>2, StatusesContain DEF Init, IoThread, Results, Transfers
<1>3. NoProperties \in HandleProperties /\ {"caller"} \subseteq Descriptors
  BY DEF NoProperties, HandleProperties, Descriptors
<1>4. 0 \in 0..PipeCap
  BY PipeCapAssumption
<1>5. QED
  BY <1>1, <1>2, <1>3, <1>4, NoLinkType DEF Init, TypeOK

LEMMA TypeTeeInit ==
  ASSUME TypeOK,
         \/ TeeInitRefused
         \/ \E status \in InitErrors : TeeInitFails(status)
         \/ \E kind \in InitKinds : TeeInitUndone(kind)
         \/ \E kind \in InitKinds : TeeInitSucceeds(kind)
  PROVE  TypeOK'
<1>1. NoProperties \in HandleProperties
  BY DEF NoProperties, HandleProperties
<1>2. CASE TeeInitRefused
  BY <1>2, ReturnsType, StatusesContain DEF TeeInitRefused, TypeOK
<1>3. ASSUME NEW status \in InitErrors, TeeInitFails(status)
      PROVE  TypeOK'
  BY <1>1, <1>3, ReturnsType, StatusesContain DEF TeeInitFails, TypeOK
<1>4. ASSUME NEW kind \in InitKinds, MeiInit(kind) \in StructMei
      PROVE  {MeiInit(kind).fd} \ {"none"} \subseteq Descriptors
  BY <1>4 DEF StructMei, Descriptors
<1>5. ASSUME NEW kind \in InitKinds, TeeInitUndone(kind)
      PROVE  TypeOK'
  <2>1. fds' \subseteq Descriptors
    BY <1>4, <1>5, MeiInitType DEF TeeInitUndone, TypeOK
  <2>2. QED
    BY <1>1, <1>5, <2>1, ReturnsType, StatusesContain DEF TeeInitUndone, TypeOK
<1>6. ASSUME NEW kind \in InitKinds, TeeInitSucceeds(kind)
      PROVE  TypeOK'
  <2>1. fds' \subseteq Descriptors
    BY <1>4, <1>6, MeiInitType DEF TeeInitSucceeds, TypeOK, Descriptors
  <2>2. driver' \in DriverStates
    BY <1>6, NoLinkType DEF TeeInitSucceeds, TypeOK
  <2>3. io' \in IoThread
    BY <1>6, ReturnsType, StatusesContain DEF TeeInitSucceeds, TypeOK
  <2>4. QED
    BY <1>1, <1>6, <2>1, <2>2, <2>3, MeiInitType, PipeCapAssumption
    DEF TeeInitSucceeds, TypeOK
<1>7. QED
  BY <1>2, <1>3, <1>5, <1>6

LEMMA TypeTeeConnect ==
  ASSUME TypeOK,
         \/ TeeConnectNoSession
         \/ TeeConnectRefused
         \/ \E e \in Errnos : TeeConnectFails(e)
         \/ \E ver \in Versions, len \in MsgLens : TeeConnectAnswered(ver, len)
  PROVE  TypeOK'
<1>1. CASE TeeConnectNoSession
  BY <1>1, ReturnsType, StatusesContain DEF TeeConnectNoSession, TypeOK
<1>2. CASE TeeConnectRefused
  BY <1>2, ReturnsType, StatusesContain DEF TeeConnectRefused, TypeOK
<1>3. ASSUME NEW e \in Errnos, TeeConnectFails(e)
      PROVE  TypeOK'
  <2>1. me.state \in MeiStates
    BY DEF TypeOK, StructMei
  <2>2. me' \in StructMei
    BY <1>3, <2>1, ErrnoToStateType, MeiStateType DEF TeeConnectFails, TypeOK
  <2>3. QED
    BY <1>3, <2>2, ErrnoToStatusType, ReturnsType DEF TeeConnectFails, TypeOK
<1>4. ASSUME NEW ver \in Versions, NEW len \in MsgLens, TeeConnectAnswered(ver, len)
      PROVE  TypeOK'
  <2>1. me' \in StructMei
    <3>1. CASE ClientVersionTooOld(ver)
      BY <1>4, <3>1, MeiStateType DEF TeeConnectAnswered, TypeOK, MeiStates
    <3>2. CASE ~ClientVersionTooOld(ver)
      <4>1. me' = [me EXCEPT !.state = "CONNECTED", !.bufSize = len, !.protVer = ver]
        BY <1>4, <3>2 DEF TeeConnectAnswered
      <4>2. QED
        BY <4>1 DEF TypeOK, StructMei, MeiStates
    <3>3. QED
      BY <3>1, <3>2
  <2>2. hdl' \in HandleProperties
    <3>1. hdl' \in {hdl, [maxMsgLen |-> len, protcolVer |-> ver]}
      BY <1>4 DEF TeeConnectAnswered, Properties
    <3>2. [maxMsgLen |-> len, protcolVer |-> ver] \in HandleProperties
      BY DEF HandleProperties
    <3>3. QED
      BY <3>1, <3>2 DEF TypeOK
  <2>3. io' \in IoThread
    BY <1>4, ReturnsType, StatusesContain DEF TeeConnectAnswered, TypeOK
  <2>4. driver' \in DriverStates
    <3>1. driver' = [driver EXCEPT !.link = "up", !.ver = ver, !.len = len]
      BY <1>4 DEF TeeConnectAnswered
    <3>2. QED
      BY <3>1, DriverUpdates DEF TypeOK
  <2>5. QED
    BY <1>4, <2>1, <2>2, <2>3, <2>4 DEF TeeConnectAnswered, TypeOK
<1>5. QED
  BY <1>1, <1>2, <1>3, <1>4

LEMMA TypeTransferCalls ==
  ASSUME TypeOK,
         NEW op \in Transfers,
         \/ TeeTransferBadParameter(op)
         \/ TeeTransferNotConnected(op)
         \/ \E timed \in BOOLEAN : TeeTransferPolls(op, timed)
  PROVE  TypeOK'
<1>1. CASE TeeTransferBadParameter(op) \/ TeeTransferNotConnected(op)
  BY <1>1, ReturnsType, StatusesContain
  DEF TeeTransferBadParameter, TeeTransferNotConnected, OnlyReturns, TypeOK
<1>2. ASSUME NEW timed \in BOOLEAN, TeeTransferPolls(op, timed)
      PROVE  TypeOK'
  <2>1. io' \in IoThread
    BY <1>2 DEF TeeTransferPolls, TypeOK, IoThread
  <2>2. QED
    BY <1>2, <2>1 DEF TeeTransferPolls, TypeOK
<1>3. QED
  BY <1>1, <1>2

LEMMA TypeIoStep ==
  ASSUME TypeOK, IoStep
  PROVE  TypeOK'
<1>1. CASE SelectReady
  <2>1. io' \in IoThread
    BY <1>1 DEF SelectReady, TypeOK, IoThread
  <2>2. QED
    BY <1>1, <2>1 DEF SelectReady, TypeOK
<1>2. CASE SelectCancelled
  BY <1>2, TransferReturnsType, StatusesContain DEF SelectCancelled, TypeOK
<1>3. CASE SelectTimesOut
  BY <1>3, TransferReturnsType, StatusesContain DEF SelectTimesOut, TypeOK
<1>4. CASE SelectFails
  BY <1>4, TransferReturnsType, StatusesContain DEF SelectFails, TypeOK
<1>5. CASE TransferFaults
  <2>1. io' \in IoThread
    BY <1>5 DEF TransferFaults, TypeOK, IoThread
  <2>2. QED
    BY <1>5, <2>1 DEF TransferFaults, TypeOK
<1>6. CASE TransferFindsNoConnection
  BY <1>6, TransferReturnsType, StatusesContain DEF TransferFindsNoConnection, TypeOK
<1>7. ASSUME NEW e \in Errnos, TransferFails(e)
      PROVE  TypeOK'
  <2>1. me.state \in MeiStates
    BY DEF TypeOK, StructMei
  <2>2. me' \in StructMei
    BY <1>7, <2>1, ErrnoToStateType, MeiStateType DEF TransferFails, TypeOK
  <2>3. QED
    BY <1>7, <2>2, ErrnoToStatusType, TransferReturnsType DEF TransferFails, TypeOK
<1>8. CASE ReadSucceeds
  <2>1. driver.rx \in Queued
    BY DEF TypeOK, DriverStates
  <2>2. driver' \in DriverStates
    BY <1>8, <2>1, QueuedBounds, DriverUpdates DEF ReadSucceeds, TypeOK
  <2>3. QED
    BY <1>8, <2>2, TransferReturnsType, StatusesContain DEF ReadSucceeds, TypeOK
<1>9. ASSUME NEW full \in BOOLEAN, WriteSucceeds(full)
      PROVE  TypeOK'
  <2>1. driver' \in DriverStates
    BY <1>9, DriverUpdates DEF WriteSucceeds, TypeOK
  <2>2. QED
    BY <1>9, <2>1, TransferReturnsType, StatusesContain DEF WriteSucceeds, TypeOK
<1>10. QED
  BY <1>1, <1>2, <1>3, <1>4, <1>5, <1>6, <1>7, <1>8, <1>9 DEF IoStep, IoProgress

LEMMA TypeControl ==
  ASSUME TypeOK, CtlCalls \/ CtlStep
  PROVE  TypeOK'
<1>1. CASE TeeCancelIO
  BY <1>1 DEF TeeCancelIO, TypeOK
<1>2. CASE TeeDisconnect
  BY <1>2 DEF TeeDisconnect, TypeOK
<1>3. CASE WriteCancelMark
  <2>1. io' \in IoThread
    BY <1>3 DEF WriteCancelMark, TypeOK, IoThread
  <2>2. pipe' \in 0..PipeCap
    BY <1>3, PipeCapAssumption DEF WriteCancelMark, TypeOK
  <2>3. QED
    BY <1>3, <2>1, <2>2 DEF WriteCancelMark, TypeOK
<1>4. CASE DisconnectDeinit
  BY <1>4, DeinitedType, DriverUpdates DEF DisconnectDeinit, TypeOK
<1>5. CASE DisconnectFree
  BY <1>5 DEF DisconnectFree, TypeOK
<1>6. QED
  BY <1>1, <1>2, <1>3, <1>4, <1>5 DEF CtlCalls, CtlStep

LEMMA TypeEnvironment ==
  ASSUME TypeOK, Environment
  PROVE  TypeOK'
<1>1. driver.rx \in Queued
  BY DEF TypeOK, DriverStates
<1>2. driver' \in DriverStates
  BY <1>1, QueuedBounds, DriverUpdates
  DEF Environment, MessageArrives, TransmitDrains, LinkLost, TypeOK
<1>3. QED
  BY <1>2 DEF Environment, MessageArrives, TransmitDrains, LinkLost, TypeOK

\* What the calls that ask for a value do.
LEMMA QueryReturns ==
  ASSUME TypeOK,
         \/ TeeQueryRefused
         \/ \E status \in QueryResults : TeeQueryAnswered(status)
  PROVE  /\ MayCall
         /\ UNCHANGED <<intl, hdl, me, fds, pipe, ctl, driver, fault>>
         /\ \E status \in Statuses : Returns("query", status)
<1>1. QueryResults \subseteq Statuses
  <2>1. "NOTSUPPORTED" \in Statuses
    BY DEF Statuses
  <2>2. QED
    BY <2>1, StatusesContain, ErrnoToStatusType DEF QueryResults
<1>2. QED
  BY <1>1, StatusesContain DEF TeeQueryRefused, TeeQueryAnswered, OnlyReturns

LEMMA TypeQuery ==
  ASSUME TypeOK,
         \/ TeeQueryRefused
         \/ \E status \in QueryResults : TeeQueryAnswered(status)
  PROVE  TypeOK'
<1>1. io' \in IoThread
  BY QueryReturns, ReturnsType DEF TypeOK
<1>2. QED
  BY <1>1, QueryReturns DEF TypeOK

LEMMA TypeStep == TypeOK /\ [Next]_vars => TypeOK'
<1>1. TypeOK /\ UNCHANGED vars => TypeOK'
  BY DEF vars, TypeOK
<1>2. QED
  BY <1>1, TypeTeeInit, TypeTeeConnect, TypeTransferCalls, TypeQuery, TypeIoStep,
     TypeControl, TypeEnvironment DEF Next, IoCalls

\* Every variable keeps to its values, whatever the two threads and the driver do.
THEOREM TypeCorrect == Spec => []TypeOK
  BY TypeInit, TypeStep, PTL DEF Spec
-------------------------------------------------------------------------------
(* Use after free: the session outlives every call when its use is serial. *)

LEMMA SerialStep ==
  ASSUME Usage = "serial", TypeOK, SessionHeldDuringCalls, [Next]_vars
  PROVE  SessionHeldDuringCalls'
<1> USE DEF SessionHeldDuringCalls, Disconnecting
<1>1. CASE IoCalls
  <2>1. io \in IoThread
    BY DEF TypeOK
  <2>2. ASSUME NEW op \in Transfers, NEW timed \in BOOLEAN, TeeTransferPolls(op, timed)
        PROVE  SessionHeldDuringCalls'
    BY <2>1, <2>2 DEF TeeTransferPolls, MayCall, IoThread
  <2>3. ASSUME MayCall, NEW op, NEW status, Returns(op, status),
               UNCHANGED <<ctl, fault>>, intl' = intl \/ intl'
        PROVE  SessionHeldDuringCalls'
    BY <2>1, <2>3 DEF MayCall, Returns, IoThread
  <2>4. QED
    BY <1>1, <2>2, <2>3, QueryReturns
    DEF IoCalls, TeeInitRefused, TeeInitFails, TeeInitUndone, TeeInitSucceeds,
        TeeConnectNoSession, TeeConnectRefused, TeeConnectFails, TeeConnectAnswered,
        TeeTransferBadParameter, TeeTransferNotConnected, OnlyReturns
<1>2. CASE IoStep
  <2>1. io \in IoThread
    BY DEF TypeOK
  <2>2. ~TransferFaults
    BY DEF TransferFaults
  <2>3. /\ io.pc # "idle"
        /\ io'.pc \in {"idle", "ready"}
        /\ UNCHANGED <<intl, ctl, fault>>
    BY <1>2, <2>1, <2>2
    DEF IoStep, IoProgress, SelectReady, SelectCancelled, SelectTimesOut, SelectFails,
        TransferFindsNoConnection, TransferFails, ReadSucceeds, WriteSucceeds,
        TransferReturns, IoThread
  <2>4. QED
    BY <2>3
<1>3. CASE CtlCalls
  BY <1>3 DEF CtlCalls, TeeCancelIO, TeeDisconnect, MayDisconnect
<1>4. CASE CtlStep
  <2>1. CASE WriteCancelMark
    BY <2>1 DEF WriteCancelMark, TypeOK, IoThread
  <2>2. CASE DisconnectDeinit \/ DisconnectFree
    BY <2>2 DEF DisconnectDeinit, DisconnectFree
  <2>3. QED
    BY <1>4, <2>1, <2>2 DEF CtlStep
<1>5. CASE Environment
  BY <1>5 DEF Environment, MessageArrives, TransmitDrains, LinkLost
<1>6. CASE UNCHANGED vars
  BY <1>6 DEF vars
<1>7. QED
  BY <1>1, <1>2, <1>3, <1>4, <1>5, <1>6 DEF Next

\* When the caller keeps calls and TeeDisconnect of a session apart, as the README
\* asks, no call ever uses freed memory, however cancels, errors and lost links
\* interleave with it.
THEOREM SerialUseIsSafe ==
  ASSUME Usage = "serial"
  PROVE  Spec => []NoUseAfterFree
<1>1. Init => SessionHeldDuringCalls
  BY DEF Init, SessionHeldDuringCalls, Disconnecting
<1>2. TypeOK /\ SessionHeldDuringCalls /\ [Next]_vars => SessionHeldDuringCalls'
  BY SerialStep
<1>3. SessionHeldDuringCalls => NoUseAfterFree
  BY DEF SessionHeldDuringCalls, NoUseAfterFree
<1>4. QED
  BY <1>1, <1>2, <1>3, TypeCorrect, PTL DEF Spec

-------------------------------------------------------------------------------
(* Descriptors. *)

LEMMA DescriptorsInit == Init => DescriptorsOfSession
  BY DEF Init, DescriptorsOfSession, Disconnecting, Deinited, MeiInit

LEMMA DescriptorsTeeInit ==
  ASSUME TypeOK, DescriptorsOfSession,
         NEW kind \in InitKinds, TeeInitUndone(kind) \/ TeeInitSucceeds(kind)
  PROVE  DescriptorsOfSession'
<1>1. CASE TeeInitUndone(kind)
  <2>1. fds' = fds
    BY <1>1 DEF TeeInitUndone, DescriptorsOfSession, DeinitCloses, MeiInit, InitKinds
  <2>2. QED
    BY <1>1, <2>1 DEF TeeInitUndone, DescriptorsOfSession, Disconnecting
<1>2. CASE TeeInitSucceeds(kind)
  BY <1>2, MeiInitType
  DEF TeeInitSucceeds, MayCall, DescriptorsOfSession, Disconnecting, StructMei
<1>3. QED
  BY <1>1, <1>2

\* A step that leaves the descriptors alone and takes the state of struct mei from
\* one value other than "ZERO" to another keeps what is said of them.
LEMMA DescriptorsKept ==
  ASSUME TypeOK, DescriptorsOfSession,
         UNCHANGED <<intl, fds, ctl>>,
         me'.fd = me.fd, me'.closeOnExit = me.closeOnExit,
         \/ me'.state = me.state
         \/ me.state \notin {"ZERO", "DISABLED"} /\ me'.state # "ZERO"
  PROVE  DescriptorsOfSession'
  BY DEF DescriptorsOfSession, Disconnecting

LEMMA DescriptorsIo ==
  ASSUME TypeOK, DescriptorsOfSession, IoCalls \/ IoStep
  PROVE  DescriptorsOfSession'
<1>1. me \in StructMei /\ me.state \in MeiStates
  BY DEF TypeOK, StructMei
<1>2. ASSUME NEW e \in Errnos, TeeConnectFails(e)
      PROVE  DescriptorsOfSession'
  <2>1. me.state \notin {"ZERO", "DISABLED"}
    BY <1>2 DEF TeeConnectFails, MayCall, DescriptorsOfSession, Disconnecting
  <2>2. ErrnoToState(e, me.state) # "ZERO"
    BY <1>1, <2>1, ErrnoToStateType
  <2>3. QED
    BY <1>1, <1>2, <2>1, <2>2, DescriptorsKept DEF TeeConnectFails, StructMei
<1>3. ASSUME NEW ver \in Versions, NEW len \in MsgLens, TeeConnectAnswered(ver, len)
      PROVE  DescriptorsOfSession'
  <2>1. me.state \notin {"ZERO", "DISABLED"}
    BY <1>3 DEF TeeConnectAnswered, MayCall, DescriptorsOfSession, Disconnecting
  <2>2. /\ me'.fd = me.fd /\ me'.closeOnExit = me.closeOnExit
        /\ me'.state \in {"CONNECTED", "VERSION_MISMATCH"}
    BY <1>1, <1>3 DEF TeeConnectAnswered, StructMei
  <2>3. QED
    BY <1>3, <2>1, <2>2, DescriptorsKept DEF TeeConnectAnswered
<1>4. ASSUME NEW e \in Errnos, TransferFails(e)
      PROVE  DescriptorsOfSession'
  <2>1. ErrnoToState(e, me.state) # "ZERO"
    BY <1>1, <1>4, ErrnoToStateType DEF TransferFails
  <2>2. QED
    BY <1>1, <1>4, <2>1, DescriptorsKept DEF TransferFails, StructMei
<1>5. ASSUME UNCHANGED <<intl, me, fds, ctl>>
      PROVE  DescriptorsOfSession'
  BY <1>5, DescriptorsKept
<1>6. QED
  BY <1>2, <1>3, <1>4, <1>5, DescriptorsTeeInit, QueryReturns
  DEF IoCalls, TeeInitRefused, TeeInitFails, TeeConnectNoSession, TeeConnectRefused,
      TeeTransferBadParameter, TeeTransferNotConnected, OnlyReturns,
      TeeTransferPolls, IoStep, IoProgress, SelectReady, SelectCancelled, SelectTimesOut,
      SelectFails, TransferFaults, TransferFindsNoConnection, ReadSucceeds,
      WriteSucceeds

LEMMA DescriptorsControl ==
  ASSUME TypeOK, DescriptorsOfSession, CtlCalls \/ CtlStep
  PROVE  DescriptorsOfSession'
<1>1. CASE TeeCancelIO \/ TeeDisconnect
  BY <1>1 DEF TeeCancelIO, TeeDisconnect, DescriptorsOfSession, Disconnecting
<1>2. CASE WriteCancelMark
  BY <1>2 DEF WriteCancelMark, DescriptorsOfSession, Disconnecting
<1>3. CASE DisconnectDeinit
  <2>1. me'.fd = "none" /\ me'.state = "ZERO"
    BY <1>3 DEF DisconnectDeinit, Deinited, TypeOK, StructMei
  <2>2. \A d \in {"caller", "pipe0", "pipe1"} : d \in fds' <=> d \in fds
    BY <1>3 DEF DisconnectDeinit, DeinitCloses, DescriptorsOfSession, TypeOK, StructMei
  <2>3. "device" \notin fds'
    BY <1>3 DEF DisconnectDeinit, DeinitCloses, DescriptorsOfSession
  <2>4. QED
    BY <1>3, <2>1, <2>2, <2>3
    DEF DisconnectDeinit, DescriptorsOfSession, Disconnecting
<1>4. CASE DisconnectFree
  BY <1>4 DEF DisconnectFree, DescriptorsOfSession, Disconnecting
<1>5. QED
  BY <1>1, <1>2, <1>3, <1>4 DEF CtlCalls, CtlStep

LEMMA DescriptorsStep == TypeOK /\ DescriptorsOfSession /\ [Next]_vars => DescriptorsOfSession'
<1>1. TypeOK /\ DescriptorsOfSession /\ Environment => DescriptorsOfSession'
  BY DescriptorsKept DEF Environment, MessageArrives, TransmitDrains, LinkLost
<1>2. TypeOK /\ DescriptorsOfSession /\ UNCHANGED vars => DescriptorsOfSession'
  BY DescriptorsKept DEF vars
<1>3. QED
  BY <1>1, <1>2, DescriptorsIo, DescriptorsControl DEF Next

LEMMA DescriptorsAlways == Spec => []DescriptorsOfSession
  BY DescriptorsInit, DescriptorsStep, TypeCorrect, PTL DEF Spec

\* No path through TeeInit, TeeConnect and TeeDisconnect leaks a descriptor of the
\* library or closes the caller's own.
THEOREM NoDescriptorLeaks == Spec => []DescriptorsAccounted
<1>1. TypeOK /\ DescriptorsOfSession => DescriptorsAccounted
  BY DEF TypeOK, Descriptors, DescriptorsOfSession, DescriptorsAccounted, StructMei
<1>2. QED
  BY <1>1, TypeCorrect, DescriptorsAlways, PTL
-------------------------------------------------------------------------------
(* The connection the caller's handle describes. *)

\* A step that changes neither the handle nor struct mei, and keeps what the driver
\* reported as long as a connection exists.
LEMMA MirrorKept ==
  ASSUME TypeOK, HandleMirrorsConnection,
         intl' => intl, UNCHANGED <<hdl, me>>,
         \/ driver' = driver
         \/ /\ driver'.ver = driver.ver /\ driver'.len = driver.len
            /\ driver'.link \in {"up", "down"}
  PROVE  HandleMirrorsConnection'
  BY DEF HandleMirrorsConnection

LEMMA MirrorIo ==
  ASSUME TypeOK, HandleMirrorsConnection, IoCalls \/ IoStep
  PROVE  HandleMirrorsConnection'
<1>1. me \in StructMei /\ me.state \in MeiStates
  BY DEF TypeOK, StructMei
<1>2. ASSUME ~intl, ~intl' \/ me'.state # "CONNECTED"
      PROVE  HandleMirrorsConnection'
  BY <1>2 DEF HandleMirrorsConnection
<1>3. ASSUME NEW kind \in InitKinds, TeeInitUndone(kind) \/ TeeInitSucceeds(kind)
      PROVE  HandleMirrorsConnection'
  BY <1>2, <1>3, MeiInitType DEF TeeInitUndone, TeeInitSucceeds
<1>4. ASSUME NEW e \in Errnos, TeeConnectFails(e)
      PROVE  HandleMirrorsConnection'
  <2>1. me'.state # "CONNECTED"
    BY <1>1, <1>4, ErrnoToStateType DEF TeeConnectFails, StructMei
  <2>2. QED
    BY <2>1 DEF HandleMirrorsConnection
<1>5. ASSUME NEW ver \in Versions, NEW len \in MsgLens, TeeConnectAnswered(ver, len)
      PROVE  HandleMirrorsConnection'
  <2>1. driver'.link = "up" /\ driver'.ver = ver /\ driver'.len = len
    BY <1>5 DEF TeeConnectAnswered, TypeOK, DriverStates
  <2>2. CASE ClientVersionTooOld(ver)
    BY <1>1, <1>5, <2>2 DEF TeeConnectAnswered, HandleMirrorsConnection, StructMei
  <2>3. CASE ~ClientVersionTooOld(ver)
    <3>1. me'.bufSize = len /\ me'.protVer = ver
      BY <1>1, <1>5, <2>3 DEF TeeConnectAnswered, StructMei
    <3>2. hdl' = [maxMsgLen |-> len, protcolVer |-> ver]
      BY <1>5, <2>3 DEF TeeConnectAnswered, Properties
    <3>3. QED
      BY <2>1, <3>1, <3>2 DEF HandleMirrorsConnection
  <2>4. QED
    BY <2>2, <2>3
<1>6. ASSUME NEW e \in Errnos, TransferFails(e)
      PROVE  HandleMirrorsConnection'
  <2>1. me'.bufSize = me.bufSize /\ me'.protVer = me.protVer
    BY <1>1, <1>6 DEF TransferFails, StructMei
  <2>2. QED
    BY <1>6, <2>1 DEF TransferFails, HandleMirrorsConnection
<1>7. CASE ReadSucceeds \/ \E full \in BOOLEAN : WriteSucceeds(full)
  <2>1. /\ driver'.ver = driver.ver /\ driver'.len = driver.len
        /\ driver'.link \in {"up", "down"}
    BY <1>7 DEF ReadSucceeds, WriteSucceeds, TypeOK, DriverStates
  <2>2. QED
    BY <1>7, <2>1, MirrorKept DEF ReadSucceeds, WriteSucceeds
<1>8. CASE \E status \in InitErrors : TeeInitFails(status)
  BY <1>2, <1>8 DEF TeeInitFails
<1>9. CASE UNCHANGED <<intl, hdl, me, driver>>
  BY <1>9, MirrorKept
<1>10. QED
  BY <1>3, <1>4, <1>5, <1>6, <1>7, <1>8, <1>9, QueryReturns
  DEF IoCalls, TeeInitRefused, TeeConnectNoSession, TeeConnectRefused,
      TeeTransferBadParameter, TeeTransferNotConnected, OnlyReturns,
      TeeTransferPolls, IoStep, IoProgress, SelectReady, SelectCancelled, SelectTimesOut,
      SelectFails, TransferFaults, TransferFindsNoConnection

LEMMA MirrorStep ==
  TypeOK /\ HandleMirrorsConnection /\ [Next]_vars => HandleMirrorsConnection'
<1> SUFFICES ASSUME TypeOK, HandleMirrorsConnection, [Next]_vars
             PROVE  HandleMirrorsConnection'
  OBVIOUS
<1>1. CASE CtlCalls \/ WriteCancelMark
  BY <1>1, MirrorKept DEF CtlCalls, TeeCancelIO, TeeDisconnect, WriteCancelMark
<1>2. CASE DisconnectDeinit
  <2>1. me'.state = "ZERO"
    BY <1>2 DEF DisconnectDeinit, Deinited, TypeOK, StructMei
  <2>2. QED
    BY <2>1 DEF HandleMirrorsConnection
<1>3. CASE DisconnectFree
  BY <1>3 DEF DisconnectFree, HandleMirrorsConnection
<1>4. CASE Environment
  <2>1. /\ driver'.ver = driver.ver /\ driver'.len = driver.len
        /\ driver'.link \in {driver.link, "down"}
    BY <1>4 DEF Environment, MessageArrives, TransmitDrains, LinkLost, TypeOK, DriverStates
  <2>2. UNCHANGED <<intl, hdl, me>>
    BY <1>4 DEF Environment, MessageArrives, TransmitDrains, LinkLost
  <2>3. QED
    BY <2>1, <2>2 DEF HandleMirrorsConnection
<1>5. CASE UNCHANGED vars
  BY <1>5, MirrorKept DEF vars
<1>6. QED
  BY <1>1, <1>2, <1>3, <1>4, <1>5, MirrorIo DEF Next, CtlStep

\* The caller's handle always describes the connection it has, not an earlier one.
THEOREM HandleIsCurrent == Spec => []HandleMirrorsConnection
<1>1. Init => HandleMirrorsConnection
  BY DEF Init, HandleMirrorsConnection
<1>2. QED
  BY <1>1, MirrorStep, TypeCorrect, PTL DEF Spec

\* The check of mei_connect() against the version of the last connection holds for
\* every sequence of connections a session makes.
THEOREM NoVersionDowngrade == Spec => VersionNeverDowngrades
<1>1. ASSUME TypeOK, [Next]_vars, intl, intl', me'.state = "CONNECTED"
      PROVE  me'.protVer >= me.protVer
  <2>1. me \in StructMei /\ me.protVer \in Nat
    <3>1. me \in StructMei
      BY <1>1 DEF TypeOK
    <3>2. me.protVer \in Versions \cup {0}
      BY <3>1 DEF StructMei
    <3>3. \A v \in Versions \cup {0} : v \in Nat
      BY VersionsAssumption
    <3>4. QED
      BY <3>1, <3>2, <3>3
  <2>2. ASSUME NEW ver \in Versions, NEW len \in MsgLens, TeeConnectAnswered(ver, len)
        PROVE  me'.protVer >= me.protVer
    <3>1. ~ClientVersionTooOld(ver)
      BY <1>1, <2>1, <2>2 DEF TeeConnectAnswered, StructMei
    <3>2. me'.protVer = ver /\ ver \in Nat
      BY <2>1, <2>2, <3>1, VersionsAssumption DEF TeeConnectAnswered, StructMei
    <3>3. QED
      BY <2>1, <3>1, <3>2 DEF ClientVersionTooOld
  <2>3. ASSUME NEW e \in Errnos, TeeConnectFails(e) \/ TransferFails(e)
        PROVE  me'.protVer >= me.protVer
    <3>1. me'.protVer = me.protVer
      BY <2>1, <2>3 DEF TeeConnectFails, TransferFails, StructMei
    <3>2. QED
      BY <2>1, <3>1
  <2>4. ~DisconnectDeinit
    BY <1>1, <2>1 DEF DisconnectDeinit, Deinited, StructMei
  <2>5. ASSUME me' = me
        PROVE  me'.protVer >= me.protVer
    BY <2>1, <2>5
  <2>6. ~(\E kind \in InitKinds : TeeInitUndone(kind) \/ TeeInitSucceeds(kind))
    BY <1>1 DEF TeeInitUndone, TeeInitSucceeds
  <2>7. CASE IoCalls
    BY <1>1, <2>2, <2>3, <2>5, <2>6, <2>7, QueryReturns
    DEF IoCalls, TeeInitRefused, TeeInitFails, TeeConnectNoSession, TeeConnectRefused,
        TeeTransferBadParameter, TeeTransferNotConnected, OnlyReturns,
        TeeTransferPolls
  <2>8. CASE IoStep
    BY <2>3, <2>5, <2>8
    DEF IoStep, IoProgress, SelectReady, SelectCancelled, SelectTimesOut, SelectFails,
        TransferFaults, TransferFindsNoConnection, ReadSucceeds, WriteSucceeds
  <2>9. CASE CtlCalls \/ CtlStep
    BY <2>4, <2>5, <2>9
    DEF CtlCalls, TeeCancelIO, TeeDisconnect, CtlStep, WriteCancelMark, DisconnectFree
  <2>10. CASE Environment \/ UNCHANGED vars
    BY <2>5, <2>10 DEF Environment, MessageArrives, TransmitDrains, LinkLost, vars
  <2>11. QED
    BY <1>1, <2>7, <2>8, <2>9, <2>10 DEF Next
<1>2. TypeOK /\ [Next]_vars =>
        [intl /\ intl' /\ me'.state = "CONNECTED" => me'.protVer >= me.protVer]_vars
  BY <1>1
<1>3. QED
  BY <1>2, TypeCorrect, PTL DEF Spec, VersionNeverDowngrades
------------------------------------------------------------------------------
(* The Linux back end implements TeeSession. *)

LEMMA IoFields ==
  ASSUME io \in IoThread
  PROVE  /\ io.op \in Transfers
         /\ \A op, status : Returns(op, status) => io'.ret = [op |-> op, status |-> status]
         /\ \A status : TransferReturns(status) => io'.ret = [op |-> io.op, status |-> status]
  BY DEF IoThread, Returns, TransferReturns

\* What the results of the library's own checks map to.
LEMMA RefinesRefusal ==
  ASSUME NEW op \in {"init", "connect", "read", "write"}, NEW status \in Statuses,
         status # "SUCCESS", status # "DISCONNECTED" \/ Phase # "connected",
         op = "init" => Phase = "closed",
         Phase' = Phase, io'.ret = [op |-> op, status |-> status]
  PROVE  Session!SessionNext
<1>1. status \in Statuses \ {"SUCCESS"}
  OBVIOUS
<1>2. CASE op = "init"
  BY <1>1, <1>2 DEF Session!SessionNext, Session!OpenFails, Session!Returned
<1>3. CASE op = "connect"
  BY <1>1, <1>3 DEF Session!SessionNext, Session!ConnectFails, Session!Returned
<1>4. CASE op \in {"read", "write"}
  BY <1>1, <1>4
  DEF Session!SessionNext, Session!TransferFails, Session!Returned, Session!TransferCalls
<1>5. QED
  BY <1>2, <1>3, <1>4

LEMMA RefinesTeeInit ==
  ASSUME TypeOK, DescriptorsOfSession,
         \/ TeeInitRefused
         \/ \E status \in InitErrors : TeeInitFails(status)
         \/ \E kind \in InitKinds : TeeInitUndone(kind)
         \/ \E kind \in InitKinds : TeeInitSucceeds(kind)
  PROVE  Session!SessionNext
<1>1. Phase = "closed"
  BY DEF TeeInitRefused, TeeInitFails, TeeInitUndone, TeeInitSucceeds, Phase
<1>2. io \in IoThread
  BY DEF TypeOK
<1>3. ASSUME NEW status \in InitErrors, Returns("init", status), ~intl, intl' = intl
      PROVE  Session!SessionNext
  <2>1. Phase' = Phase
    BY <1>1, <1>3 DEF Phase
  <2>2. io'.ret = [op |-> "init", status |-> status]
    BY <1>2, <1>3, IoFields
  <2>3. QED
    BY <1>1, <2>1, <2>2, StatusesContain
    DEF Session!SessionNext, Session!OpenFails, Session!Returned
<1>4. ASSUME NEW kind \in InitKinds, TeeInitSucceeds(kind)
      PROVE  Session!SessionNext
  <2>1. Phase' = "open"
    BY <1>4, MeiInitType DEF TeeInitSucceeds, MayCall, Disconnecting, Phase
  <2>2. QED
    BY <1>1, <1>2, <1>4, <2>1, IoFields
    DEF TeeInitSucceeds, Session!SessionNext, Session!Open, Session!Returned
<1>5. "INVALID_PARAMETER" \in InitErrors /\ "INTERNAL_ERROR" \in InitErrors
  BY DEF InitErrors
<1>6. QED
  BY <1>3, <1>4, <1>5 DEF TeeInitRefused, TeeInitFails, TeeInitUndone

LEMMA RefinesTeeConnect ==
  ASSUME TypeOK, DescriptorsOfSession,
         \/ TeeConnectNoSession
         \/ TeeConnectRefused
         \/ \E e \in Errnos : TeeConnectFails(e)
         \/ \E ver \in Versions, len \in MsgLens : TeeConnectAnswered(ver, len)
  PROVE  Session!SessionNext
<1>1. io \in IoThread /\ me \in StructMei /\ me.state \in MeiStates
  BY DEF TypeOK, StructMei
<1>2. ASSUME NEW status \in Statuses, status # "SUCCESS", Returns("connect", status),
             Phase' = Phase
      PROVE  Session!SessionNext
  <2>1. io'.ret = [op |-> "connect", status |-> status]
    BY <1>1, <1>2, IoFields
  <2>2. QED
    BY <1>2, <2>1
    DEF Session!SessionNext, Session!ConnectFails, Session!Returned
<1>3. CASE TeeConnectNoSession \/ TeeConnectRefused
  <2>1. Phase' = Phase
    BY <1>3 DEF TeeConnectNoSession, TeeConnectRefused, Phase
  <2>2. QED
    BY <1>2, <1>3, <2>1, StatusesContain DEF TeeConnectNoSession, TeeConnectRefused
<1>4. ASSUME NEW e \in Errnos, TeeConnectFails(e)
      PROVE  Session!SessionNext
  <2>1. me'.state # "CONNECTED" /\ me.state # "CONNECTED"
    BY <1>1, <1>4, ErrnoToStateType DEF TeeConnectFails, StructMei
  <2>2. Phase' = Phase
    BY <1>4, <2>1 DEF TeeConnectFails, Phase
  <2>3. QED
    BY <1>2, <1>4, <2>2, ErrnoToStatusType DEF TeeConnectFails
<1>5. ASSUME NEW ver \in Versions, NEW len \in MsgLens, TeeConnectAnswered(ver, len)
      PROVE  Session!SessionNext
  <2>1. Phase = "open"
    BY <1>5 DEF TeeConnectAnswered, MayCall, Disconnecting, Phase
  <2>2. CASE ClientVersionTooOld(ver)
    <3>1. me'.state = "VERSION_MISMATCH"
      BY <1>1, <1>5, <2>2 DEF TeeConnectAnswered, StructMei
    <3>2. Phase' = Phase
      BY <1>5, <2>1, <3>1 DEF TeeConnectAnswered, MayCall, Disconnecting, Phase
    <3>3. QED
      BY <1>2, <1>5, <2>2, <3>2, StatusesContain DEF TeeConnectAnswered
  <2>3. CASE ~ClientVersionTooOld(ver)
    <3>1. me'.state = "CONNECTED"
      BY <1>1, <1>5, <2>3 DEF TeeConnectAnswered, StructMei
    <3>2. Phase' = "connected"
      BY <1>5, <3>1 DEF TeeConnectAnswered, MayCall, Disconnecting, Phase
    <3>3. io'.ret = [op |-> "connect", status |-> "SUCCESS"]
      BY <1>1, <1>5, <2>3, IoFields DEF TeeConnectAnswered
    <3>4. QED
      BY <2>1, <3>2, <3>3
      DEF Session!SessionNext, Session!Connect, Session!Returned
  <2>4. QED
    BY <2>2, <2>3
<1>6. QED
  BY <1>3, <1>4, <1>5

LEMMA RefinesQuery ==
  ASSUME TypeOK,
         \/ TeeQueryRefused
         \/ \E status \in QueryResults : TeeQueryAnswered(status)
  PROVE  Session!SessionNext
<1>1. PICK status \in Statuses : Returns("query", status)
  BY QueryReturns
<1>2. io'.ret = [op |-> "query", status |-> status]
  BY <1>1, IoFields DEF TypeOK
<1>3. Phase' = Phase
  BY QueryReturns DEF Phase
<1>4. QED
  BY <1>2, <1>3 DEF Session!SessionNext, Session!Query, Session!Returned

LEMMA RefinesTransferCalls ==
  ASSUME TypeOK, NEW op \in Transfers,
         \/ TeeTransferBadParameter(op)
         \/ TeeTransferNotConnected(op)
         \/ \E timed \in BOOLEAN : TeeTransferPolls(op, timed)
  PROVE  Session!SessionNext \/ UNCHANGED <<Phase, io.ret>>
<1>1. io \in IoThread
  BY DEF TypeOK
<1>2. UNCHANGED <<intl, ctl, me>>
  BY DEF TeeTransferBadParameter, TeeTransferNotConnected, OnlyReturns,
         TeeTransferPolls
<1>3. Phase' = Phase
  BY <1>2 DEF Phase
<1>4. CASE TeeTransferBadParameter(op)
  <2>1. io'.ret = [op |-> op, status |-> "INVALID_PARAMETER"]
    BY <1>1, <1>4, IoFields DEF TeeTransferBadParameter, OnlyReturns
  <2>2. QED
    BY <1>3, <2>1, StatusesContain, RefinesRefusal DEF Transfers
<1>5. CASE TeeTransferNotConnected(op)
  <2>1. io'.ret = [op |-> op, status |-> "DISCONNECTED"]
    BY <1>1, <1>5, IoFields DEF TeeTransferNotConnected, OnlyReturns
  <2>2. Phase # "connected"
    BY <1>5 DEF TeeTransferNotConnected, Phase
  <2>3. QED
    BY <1>3, <2>1, <2>2, StatusesContain, RefinesRefusal DEF Transfers
<1>6. ASSUME NEW timed \in BOOLEAN, TeeTransferPolls(op, timed)
      PROVE  UNCHANGED <<Phase, io.ret>>
  BY <1>1, <1>3, <1>6 DEF TeeTransferPolls, IoThread
<1>7. QED
  BY <1>4, <1>5, <1>6

LEMMA RefinesIoStep ==
  ASSUME TypeOK, DescriptorsOfSession, IoStep
  PROVE  Session!SessionNext \/ UNCHANGED <<Phase, io.ret>>
<1>1. io \in IoThread /\ me \in StructMei /\ me.state \in MeiStates
  BY DEF TypeOK, StructMei
<1>2. CASE SelectReady \/ TransferFaults
  BY <1>1, <1>2 DEF SelectReady, TransferFaults, IoThread, Phase
<1>3. CASE SelectCancelled \/ SelectTimesOut \/ SelectFails \/ TransferFindsNoConnection
  <2>1. Phase' = Phase
    BY <1>3 DEF SelectCancelled, SelectTimesOut, SelectFails,
                TransferFindsNoConnection, Phase
  <2>2. PICK status \in {"UNABLE_TO_COMPLETE_OPERATION", "TIMEOUT", "INTERNAL_ERROR"} :
          TransferReturns(status)
    BY <1>3 DEF SelectCancelled, SelectTimesOut, SelectFails, TransferFindsNoConnection
  <2>3. io'.ret = [op |-> io.op, status |-> status]
    BY <1>1, <2>2, IoFields
  <2>4. QED
    BY <1>1, <2>1, <2>3, IoFields, StatusesContain, RefinesRefusal DEF Transfers
<1>4. ASSUME NEW e \in Errnos, TransferFails(e)
      PROVE  Session!SessionNext
  <2>1. Phase = "connected" /\ ctl # "discFree"
    BY <1>4 DEF TransferFails, DescriptorsOfSession, Phase
  <2>2. io'.ret = [op |-> io.op, status |-> ErrnoToStatus(e)]
    BY <1>1, <1>4, IoFields DEF TransferFails
  <2>3. me'.state = ErrnoToState(e, "CONNECTED")
    BY <1>1, <1>4 DEF TransferFails, StructMei
  <2>4. CASE e = "EOPNOTSUPP"
    <3>1. me'.state = "CONNECTED" /\ ErrnoToStatus(e) = "NOTSUPPORTED"
      BY <2>3, <2>4 DEF ErrnoToState, ErrnoToStatus
    <3>2. Phase' = Phase
      BY <1>4, <2>1, <3>1 DEF TransferFails, Phase
    <3>3. QED
      BY <1>1, <2>2, <3>1, <3>2, IoFields, ErrnoToStatusType, RefinesRefusal DEF Transfers
  <2>5. CASE e # "EOPNOTSUPP"
    <3>1. me'.state # "CONNECTED"
      BY <2>3, <2>5 DEF ErrnoToState, Errnos
    <3>2. Phase' = "open"
      BY <1>4, <2>1, <3>1 DEF TransferFails, Phase
    <3>3. QED
      BY <1>1, <2>1, <2>2, <3>2, IoFields, ErrnoToStatusType
      DEF Session!SessionNext, Session!TransferLosesConnection, Session!Returned,
          Session!TransferCalls, Transfers
  <2>6. QED
    BY <2>4, <2>5
<1>5. CASE ReadSucceeds \/ \E full \in BOOLEAN : WriteSucceeds(full)
  <2>1. Phase = "connected" /\ Phase' = "connected"
    BY <1>5 DEF ReadSucceeds, WriteSucceeds, DescriptorsOfSession, Phase
  <2>2. io'.ret = [op |-> io.op, status |-> "SUCCESS"]
    BY <1>1, <1>5, IoFields DEF ReadSucceeds, WriteSucceeds
  <2>3. QED
    BY <1>1, <2>1, <2>2, IoFields
    DEF Session!SessionNext, Session!Transfer, Session!Returned,
        Session!TransferCalls, Transfers
<1>6. QED
  BY <1>2, <1>3, <1>4, <1>5 DEF IoStep, IoProgress

LEMMA RefinesControl ==
  ASSUME TypeOK, DescriptorsOfSession, CtlCalls \/ CtlStep
  PROVE  Session!SessionNext \/ UNCHANGED <<Phase, io.ret>>
<1>1. io \in IoThread /\ me \in StructMei
  BY DEF TypeOK
<1>2. CASE TeeCancelIO \/ TeeDisconnect
  BY <1>2 DEF TeeCancelIO, TeeDisconnect, Phase
<1>3. CASE WriteCancelMark
  BY <1>1, <1>3 DEF WriteCancelMark, IoThread, Phase
<1>4. CASE DisconnectDeinit
  <2>1. Phase # "closed" /\ Phase' = "closed" /\ io' = io
    BY <1>4 DEF DisconnectDeinit, DescriptorsOfSession, Disconnecting, Phase
  <2>2. QED
    BY <2>1 DEF Session!SessionNext, Session!Close
<1>5. CASE DisconnectFree
  BY <1>5 DEF DisconnectFree, Phase
<1>6. QED
  BY <1>2, <1>3, <1>4, <1>5 DEF CtlCalls, CtlStep

\* Every step of the two threads and of the driver is, to the caller, one of the
\* steps TeeSession allows or none at all.
THEOREM LinuxImplementsSession == Spec => ImplementsSession
<1>1. Init => Session!SessionInit
  BY DEF Init, Session!SessionInit, Phase
<1>2. TypeOK /\ DescriptorsOfSession /\ [Next]_vars
        => [Session!SessionNext]_(Session!sessionVars)
  <2> SUFFICES ASSUME TypeOK, DescriptorsOfSession, [Next]_vars
               PROVE  Session!SessionNext \/ UNCHANGED <<Phase, io.ret>>
    BY DEF Session!sessionVars
  <2>1. CASE Environment \/ UNCHANGED vars
    BY <2>1 DEF Environment, MessageArrives, TransmitDrains, LinkLost, vars, Phase
  <2>2. QED
    BY <2>1, RefinesTeeInit, RefinesTeeConnect, RefinesQuery, RefinesTransferCalls,
       RefinesIoStep, RefinesControl DEF Next, IoCalls
<1>3. QED
  BY <1>1, <1>2, TypeCorrect, DescriptorsAlways, PTL
  DEF Spec, ImplementsSession, Session!SessionSpec

\* After a transfer that returned TEE_DISCONNECTED the session is not connected, so
\* that TeeConnect does not refuse the caller who recovers, (linux/metee_linux.c, linux/mei.c):
\* a consequence of the refinement alone.
THEOREM LinuxDisconnectedMayConnect == Spec => []Session!DisconnectedMayConnect
<1>1. Session!SessionInit => Session!DisconnectedMayConnect
  BY DEF Session!SessionInit, Session!DisconnectedMayConnect, Session!TransferCalls
<1>2. Session!DisconnectedMayConnect /\ [Session!SessionNext]_(Session!sessionVars)
        => Session!DisconnectedMayConnect'
  <2> SUFFICES ASSUME Phase = "connected"
                        => ~(io.ret.op \in {"read", "write"} /\ io.ret.status = "DISCONNECTED"),
                      Session!SessionNext \/ UNCHANGED <<Phase, io.ret>>,
                      Phase' = "connected"
               PROVE  ~(io'.ret.op \in {"read", "write"} /\ io'.ret.status = "DISCONNECTED")
    BY DEF Session!DisconnectedMayConnect, Session!TransferCalls, Session!sessionVars
  <2>1. CASE \E error \in Statuses \ {"SUCCESS"} :
               Session!ConnectFails(error) \/ Session!OpenFails(error) \/ Session!QueryLosesConnection(error)
    BY <2>1 DEF Session!ConnectFails, Session!OpenFails, Session!QueryLosesConnection, Session!Returned
  <2>2. CASE Session!Open \/ Session!Connect \/ Session!Close
    BY <2>2 DEF Session!Open, Session!Connect, Session!Close, Session!Returned
  <2>3. CASE \E op \in Session!TransferCalls : Session!Transfer(op)
    BY <2>3 DEF Session!Transfer, Session!Returned
  <2>4. CASE \E op \in Session!TransferCalls, error \in Statuses \ {"SUCCESS"} :
               Session!TransferFails(op, error) \/ Session!TransferLosesConnection(op, error)
    BY <2>4 DEF Session!TransferFails, Session!TransferLosesConnection, Session!Returned
  <2>5. CASE \E status : Session!Query(status)
    BY <2>5 DEF Session!Query, Session!Returned
  <2>6. CASE UNCHANGED <<Phase, io.ret>>
    BY <2>6
  <2>7. QED
    BY <2>1, <2>2, <2>3, <2>4, <2>5, <2>6 DEF Session!SessionNext
<1>3. QED
  BY <1>1, <1>2, LinuxImplementsSession, PTL DEF ImplementsSession, Session!SessionSpec
===============================================================================
