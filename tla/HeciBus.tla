-------------------------------- MODULE HeciBus --------------------------------
(***************************************************************************)
(* The UEFI back end: src/uefi/metee_efi.c on top of the HECI bus messages *)
(* of src/uefi/heci_efi.c.                                                 *)
(*                                                                         *)
(* UEFI runs one call at a time, but all handles of a device share one     *)
(* struct HeciDeviceLibrary and one pair of circular buffers, and the      *)
(* replies are told apart by nothing but their order.  A call is split     *)
(* where it sends or reads a message, so that the firmware can act in      *)
(* between.  HeciSend, HeciReceive and ResetHeciInterface (heci_core.c)    *)
(* appear as their outcomes: done, EFI_ABORTED, or EFI_DEVICE_ERROR when   *)
(* the PCI device is gone.  The firmware is the environment.               *)
(***************************************************************************)
EXTENDS Naturals, Sequences

CONSTANTS
  Handles,       \* the TEEHANDLEs
  Clients,       \* the firmware clients
  FixedClients,  \* those with a fixed address
  NoClient,
  MaxId,         \* the last host client id (255 in the code)
  MaxGen,        \* bound on the link resets
  RingCap,       \* messages a circular buffer holds
  HeciFunction,  \* the PCI function of the device; 0 is HECI1
  OddReplies,    \* the firmware may answer a bus message with another one
  Usage          \* how the callers share the device: see MayCall and MayReset

ASSUME ClientsAssumption == FixedClients \subseteq Clients /\ NoClient \notin Clients
ASSUME BoundsAssumption ==
  /\ MaxId \in Nat \ {0} /\ MaxGen \in Nat \ {0}
  /\ RingCap \in Nat /\ RingCap >= 2
ASSUME ModeAssumption ==
  /\ HeciFunction \in Nat /\ OddReplies \in BOOLEAN
  /\ Usage \in {"any", "quiesced", "lockstep"}

VARIABLES
  lib,      \* gHeciDeviceLibrary[].State of the device
  handle,   \* the struct METEE_EFI_IMPL of each TEEHANDLE
  call,     \* the call in progress and its place
  ret,      \* what the last call returned, while no call is in progress
  ring,     \* the two circular buffers
  conns,    \* the connections the firmware holds
  owed,     \* in lockstep use, the handle that has yet to read an answer
  present   \* the PCI device is there

vars == <<lib, handle, call, ret, ring, conns, owed, present>>

Ids == 1..MaxId

Statuses == {"SUCCESS", "INVALID_PARAMETER", "INTERNAL_ERROR", "DISCONNECTED",
             "CLIENT_NOT_FOUND", "UNABLE_TO_COMPLETE_OPERATION"}

Connections == [client : Clients, id : Ids]

MessageKinds == {"enumReq", "enumRes", "propReq", "propRes", "connReq", "connRes",
                 "discReq", "discRes", "flow", "data", "odd"}

\* A message on the bus: an HBM command, or data between a client and a host id
\* (0 for a fixed client).
Msg(kind, client, id, ok) == [kind |-> kind, client |-> client, id |-> id, ok |-> ok]

NoMsg == Msg("none", NoClient, 0, TRUE)

Places == {"idle", "reset", "enumReq", "enumRes", "propReq", "propRes", "match",
           "connReq", "connRes", "connFlow", "writeFlow", "writeData",
           "read", "readAgain", "readFlow", "discReq", "discRes"}

Reading == {"enumRes", "propRes", "connRes", "connFlow", "read", "readAgain",
            "readFlow", "discRes"}
------------------------------------------------------------------------------
\* No call in progress.
Idle == [op |-> "none", pc |-> "idle"]

At(pc) == call.pc = pc

\* A handle without a struct METEE_EFI_IMPL, and one just allocated.
NoImpl == [impl |-> FALSE, client |-> NoClient, state |-> "NONE", connected |-> FALSE,
           gen |-> 0, id |-> 0, props |-> FALSE]

NewImpl(client) == [NoImpl EXCEPT !.impl = TRUE, !.client = client]

\* The TEESTATUS that metee_efi.c makes of an EFI_STATUS.
TeeStatus(op, efi) ==
  CASE efi = "SUCCESS" -> "SUCCESS"
    [] efi = "PROTOCOL_ERROR" /\ op = "connect" -> "UNABLE_TO_COMPLETE_OPERATION"
    [] efi = "NOT_FOUND" /\ op = "connect"      -> "CLIENT_NOT_FOUND"
    [] efi = "MEDIA_CHANGED" /\ op \in {"read", "write"} -> "DISCONNECTED"
    [] OTHER -> "INTERNAL_ERROR"

Result(h, op, status, msg) == [h |-> h, op |-> op, status |-> status, msg |-> msg]

NoResult == [op |-> "none", status |-> "SUCCESS"]

\* The call in progress returns and leaves hd in its handle; TeeDisconnect frees
\* the struct whatever the outcome.
Returns(efi, hd, msg) ==
  /\ call' = Idle
  /\ ret' = IF call.op = "disconnect" THEN NoResult
            ELSE Result(call.h, call.op, TeeStatus(call.op, efi), msg)
  /\ handle' = [handle EXCEPT ![call.h] = IF call.op = "disconnect" THEN NoImpl ELSE hd]
  /\ owed' = IF call.op = "write" /\ efi = "SUCCESS" /\ Usage = "lockstep"
             THEN owed \cup {call.h}
             ELSE IF call.op = "read" THEN owed \ {call.h} ELSE owed

\* A call that sends nothing returns.
ReturnsAtOnce(h, op, status) ==
  /\ ret' = Result(h, op, status, NoMsg)
  /\ UNCHANGED <<lib, call, ring, conns, present>>

\* A call starts; it works on its own handle h, host client id and message.
Starts(op, pc, h) ==
  /\ call' = [op |-> op, pc |-> pc, h |-> h, id |-> 0, todo |-> {}, msg |-> NoMsg]
  /\ ret' = NoResult

Continues(pc) == call' = [call EXCEPT !.pc = pc]

\* No call is made during another (there are no threads).  In "lockstep" use the
\* answer of each request is read before anything else is called.
MayCall(h, op) ==
  /\ At("idle") /\ handle[h].impl
  /\ Usage = "lockstep" => IF owed = {} THEN op # "read" ELSE op = "read" /\ owed = {h}

\* Outside "any" use a connect that resets the link comes after every other handle
\* that had a host client id was disconnected.
MayReset(h) ==
  /\ lib.gen < MaxGen
  /\ Usage # "any" => \A g \in Handles \ {h} : handle[g].id = 0

IsFixed(h) == handle[h].props /\ handle[h].client \in FixedClients

(* heciSendMsg() and heciReadMsg(), one send or read at each place of a call. *)

\* The data of a handle on the bus, and the HBM command about its connection.
Data(h) ==
  Msg("data", handle[h].client, IF IsFixed(h) THEN 0 ELSE handle[h].id, TRUE)

Hbm(kind, h, id) == Msg(kind, handle[h].client, id, TRUE)

\* What is sent next; the request for properties goes to each client once.
Outgoing ==
  CASE At("enumReq")   -> {Msg("enumReq", NoClient, 0, TRUE)}
    [] At("propReq")   -> {Msg("propReq", client, 0, TRUE) : client \in call.todo}
    [] At("connReq")   -> {Hbm("connReq", call.h, call.id)}
    [] At("writeFlow") -> {Hbm("flow", call.h, handle[call.h].id)}
    [] At("writeData") -> {Data(call.h)}
    [] At("discReq")   -> {Hbm("discReq", call.h, handle[call.h].id)}
    [] OTHER           -> {}

AfterSending ==
  [enumReq |-> "enumRes", propReq |-> "propRes", connReq |-> "connRes",
   writeFlow |-> "writeData", discReq |-> "discRes"]

Sends(m) ==
  /\ present /\ Len(ring.tx) < RingCap
  /\ ring' = [ring EXCEPT !.tx = Append(ring.tx, m)]

HbmSent ==
  /\ call.pc \in DOMAIN AfterSending
  /\ \E m \in Outgoing :
       Sends(m) /\ call' = [call EXCEPT !.pc = AfterSending[call.pc], !.msg = m]
  /\ UNCHANGED <<lib, handle, ret, conns, owed, present>>

Reads(pc) ==
  /\ At(pc) /\ present /\ ring.rx # <<>>
  /\ ring' = [ring EXCEPT !.rx = Tail(ring.rx)]

\* Mutant: the library stays valid.
LinkBreaksForHandle ==
  /\ Returns("MEDIA_CHANGED", [handle[call.h] EXCEPT !.connected = FALSE], NoMsg)
  /\ UNCHANGED <<lib, conns, present>>

\* EFI_ABORTED: the firmware is not ready, the buffer stays full or nothing comes
\* in time.  The library and this handle, but no other, lose their link.
LinkBreaks ==
  /\ lib' = [lib EXCEPT !.valid = FALSE]
  /\ Returns("MEDIA_CHANGED", [handle[call.h] EXCEPT !.connected = FALSE], NoMsg)
  /\ UNCHANGED <<conns, present>>

\* Mutant: the flow control of a write fails and its data is sent all the same.
SendAbortedGoesOn ==
  /\ present /\ At("writeFlow")
  /\ lib' = [lib EXCEPT !.valid = FALSE]
  /\ Continues("writeData")
  /\ UNCHANGED <<handle, ret, ring, conns, owed, present>>

SendAborted ==
  /\ present /\ Outgoing # {}
  /\ ring' = ring \/ \E m \in Outgoing : Sends(m)
  /\ LinkBreaks

ReadAborted ==
  /\ present /\ call.pc \in Reading
  /\ ring' = ring \/ Reads(call.pc)
  /\ LinkBreaks

\* The base address register reads 0.
DeviceError ==
  /\ ~present /\ (Outgoing # {} \/ call.pc \in Reading)
  /\ Returns("DEVICE_ERROR", handle[call.h], NoMsg)
  /\ UNCHANGED <<lib, ring, conns, present>>
------------------------------------------------------------------------------
Init ==
  /\ lib = [valid |-> FALSE, gen |-> 0, ids |-> {}, clients |-> {}]
  /\ handle = [h \in Handles |-> NoImpl]
  /\ call = Idle
  /\ ret = NoResult
  /\ ring = [tx |-> <<>>, rx |-> <<>>]
  /\ conns = {}
  /\ owed = {}
  /\ present = TRUE

(* TeeInit*(): allocates and clears the struct. *)

TeeInit(h, client) ==
  /\ At("idle") /\ ~handle[h].impl
  /\ Usage = "lockstep" => owed = {}
  /\ handle' = [handle EXCEPT ![h] = NewImpl(client)]
  /\ ReturnsAtOnce(h, "init", "SUCCESS")
  /\ UNCHANGED owed

TeeInitFails(h, status) ==
  /\ At("idle") /\ ~handle[h].impl
  /\ Usage = "lockstep" => owed = {}
  /\ ReturnsAtOnce(h, "init", status)
  /\ UNCHANGED <<handle, owed>>

(* TeeConnect(), EfiTeeHeciConnectClient() and HeciDeviceEnumerateClients(). *)

\* Both the State of metee_efi.c and the connected flag of heci_efi.c are looked at.
ConnectRefused(h) == handle[h].state = "CONNECTED" \/ handle[h].connected

TeeConnectRefused(h) ==
  /\ MayCall(h, "connect")
  /\ ConnectRefused(h)
  /\ ReturnsAtOnce(h, "connect", "INTERNAL_ERROR")
  /\ UNCHANGED <<handle, owed>>

\* The clients of the device are known.
TeeConnectMatches(h) ==
  /\ MayCall(h, "connect")
  /\ ~ConnectRefused(h) /\ lib.valid
  /\ Starts("connect", "match", h)
  /\ UNCHANGED <<lib, handle, ring, conns, owed, present>>

\* They are not: the link is reset first, which starts a new generation.
TeeConnectResets(h) ==
  /\ MayCall(h, "connect") /\ MayReset(h)
  /\ ~ConnectRefused(h) /\ ~lib.valid
  /\ lib' = [lib EXCEPT !.gen = lib.gen + 1]
  /\ Starts("connect", "reset", h)
  /\ UNCHANGED <<handle, ring, conns, owed, present>>

\* The buffers and the firmware's connections do not survive the reset.
LinkReset == ring' = [tx |-> <<>>, rx |-> <<>>] /\ conns' = {}

ResetSucceeds ==
  /\ At("reset") /\ present
  /\ LinkReset
  /\ lib' = [lib EXCEPT !.ids = {}, !.clients = {}]
  /\ Continues("enumReq")
  /\ UNCHANGED <<handle, ret, owed, present>>

\* The handshake times out before or after the firmware reset its side.
ResetFails ==
  /\ At("reset")
  /\ (present /\ LinkReset) \/ UNCHANGED <<ring, conns>>
  /\ Returns("DEVICE_ERROR", handle[call.h], NoMsg)
  /\ UNCHANGED <<lib, present>>

\* Mutant: a client that is not described is asked again.
RemainingOrRefused(reply) ==
  IF reply.ok THEN call.todo \ {reply.client} ELSE call.todo

\* The clients still to be asked once one has answered.
Remaining(reply) == call.todo \ {reply.client}

\* Whatever is wrong with the enumeration is a device error to TeeConnect.
EnumerationAnswered ==
  /\ Reads("enumRes")
  /\ IF Head(ring.rx).kind = "enumRes"
     THEN call' = [call EXCEPT !.pc = "propReq", !.todo = Clients]
          /\ UNCHANGED <<handle, ret, owed>>
     ELSE Returns("DEVICE_ERROR", handle[call.h], NoMsg)
  /\ UNCHANGED <<lib, conns, present>>

\* The properties of one client: a client the firmware refuses to describe is
\* skipped, and a reply of another kind ends the enumeration without an error and
\* without marking it as valid.
PropertiesAnswered ==
  /\ Reads("propRes")
  /\ LET reply == Head(ring.rx)
     IN IF reply.kind = "propRes"
        THEN /\ lib' = [lib EXCEPT !.clients = lib.clients \cup
                                     IF reply.ok THEN {reply.client} ELSE {}]
             /\ call' = [call EXCEPT !.pc = "propReq", !.todo = Remaining(reply)]
        ELSE lib' = lib /\ Continues("match")
  /\ UNCHANGED <<handle, ret, conns, owed, present>>

EnumerationDone ==
  /\ At("propReq") /\ call.todo = {}
  /\ lib' = [lib EXCEPT !.valid = TRUE]
  /\ Continues("match")
  /\ UNCHANGED <<handle, ret, ring, conns, owed, present>>

\* The handle as a connection that is made leaves it.
Connected(h, id) ==
  [handle[h] EXCEPT !.state = "CONNECTED", !.connected = TRUE, !.gen = lib.gen,
                    !.id = id, !.props = TRUE]

\* Mutant: the search starts at 0, the address of the bus itself.
FreeIdsFromZero == (Ids \cup {0}) \ lib.ids

FreeIds == Ids \ lib.ids

LowestFreeId == CHOOSE id \in FreeIds : \A other \in FreeIds : id <= other

\* The client is looked up and a host client id chosen; the id is taken only when
\* the connection is made.
MatchFails ==
  LET h == call.h IN
  /\ At("match")
  /\ handle[h].client \notin lib.clients \/ FreeIds = {}
  /\ Returns(IF handle[h].client \notin lib.clients THEN "NOT_FOUND" ELSE "DEVICE_ERROR",
             [handle[h] EXCEPT !.props = FALSE], NoMsg)
  /\ UNCHANGED <<lib, ring, conns, present>>

MatchFixed ==
  LET h == call.h IN
  /\ At("match")
  /\ handle[h].client \in lib.clients \cap FixedClients /\ FreeIds # {}
  /\ lib' = [lib EXCEPT !.ids = lib.ids \cup {LowestFreeId}]
  /\ Returns("SUCCESS", Connected(h, LowestFreeId), NoMsg)
  /\ UNCHANGED <<ring, conns, present>>

\* Mutant: the id is taken with the request already.
MatchDynamicTakesId ==
  LET h == call.h IN
  /\ At("match")
  /\ handle[h].client \in lib.clients \ FixedClients /\ FreeIds # {}
  /\ handle' = [handle EXCEPT ![h].props = FALSE]
  /\ call' = [call EXCEPT !.pc = "connReq", !.id = LowestFreeId]
  /\ lib' = [lib EXCEPT !.ids = lib.ids \cup {LowestFreeId}]
  /\ UNCHANGED <<ret, ring, conns, owed, present>>

MatchDynamic ==
  LET h == call.h IN
  /\ At("match")
  /\ handle[h].client \in lib.clients \ FixedClients /\ FreeIds # {}
  /\ handle' = [handle EXCEPT ![h].props = FALSE]
  /\ call' = [call EXCEPT !.pc = "connReq", !.id = LowestFreeId]
  /\ UNCHANGED <<lib, ret, ring, conns, owed, present>>

\* A reply of another kind ends the connect with the EFI_SUCCESS of the read: the
\* State becomes CONNECTED, the connection does not.
ConnectAnswered ==
  LET h == call.h
      reply == Head(ring.rx)
  IN
  /\ Reads("connRes")
  /\ CASE reply.kind # "connRes" ->
            Returns("SUCCESS", [handle[h] EXCEPT !.state = "CONNECTED"], NoMsg)
       [] reply.kind = "connRes" /\ ~reply.ok ->
            Returns("PROTOCOL_ERROR", handle[h], NoMsg)
       [] reply.kind = "connRes" /\ reply.ok ->
            Continues("connFlow") /\ UNCHANGED <<handle, ret, owed>>
  /\ UNCHANGED <<lib, conns, present>>

\* The next message is taken for the flow control of the client, whatever it is.
ConnectFlowRead ==
  /\ Reads("connFlow")
  /\ lib' = [lib EXCEPT !.ids = lib.ids \cup {call.id}]
  /\ Returns("SUCCESS", Connected(call.h, call.id), NoMsg)
  /\ UNCHANGED <<conns, present>>

(* TeeWrite() and EfiTeeHeciSendMessage(); TeeRead() and EfiTeeHeciReceiveMessage(). *)

Transfers == {"read", "write"}

\* A bad parameter, or a buffer above the maximum message length (0 until the
\* properties are known).
TransferRefused(h, op, status) ==
  /\ MayCall(h, op)
  /\ handle[h].state = "CONNECTED" \/ status = "INVALID_PARAMETER"
  /\ ReturnsAtOnce(h, op, status)
  /\ UNCHANGED <<handle, owed>>

NotConnected(h) == handle[h].state # "CONNECTED" \/ ~handle[h].connected

TransferNotConnected(h, op) ==
  /\ MayCall(h, op)
  /\ NotConnected(h)
  /\ handle[h].state = "CONNECTED" => handle[h].props
  /\ ReturnsAtOnce(h, op, "DISCONNECTED")
  /\ owed' = owed \ {h}
  /\ UNCHANGED handle

\* Mutant: the generation is not compared.
StaleLibrary(h) == ~lib.valid

\* The link was reset, or has to be, since the handle connected.
Stale(h) == ~lib.valid \/ handle[h].gen # lib.gen

WriteStale(h) ==
  /\ MayCall(h, "write")
  /\ ~NotConnected(h) /\ Stale(h)
  /\ handle' = [handle EXCEPT ![h].connected = FALSE]
  /\ ReturnsAtOnce(h, "write", "DISCONNECTED")
  /\ UNCHANGED owed

TeeWrite(h) ==
  /\ MayCall(h, "write")
  /\ ~NotConnected(h) /\ ~Stale(h)
  /\ Starts("write", IF IsFixed(h) THEN "writeData" ELSE "writeFlow", h)
  /\ UNCHANGED <<lib, handle, ring, conns, owed, present>>

DataSent ==
  /\ At("writeData")
  /\ Sends(Data(call.h))
  /\ Returns("SUCCESS", handle[call.h], NoMsg)
  /\ UNCHANGED <<lib, conns, present>>

\* Unlike TeeWrite, TeeRead looks at neither the library nor the generation.
TeeRead(h) ==
  /\ MayCall(h, "read")
  /\ ~NotConnected(h)
  /\ Starts("read", "read", h)
  /\ UNCHANGED <<lib, handle, ring, conns, owed, present>>

\* Mutant: HECI1 is taken for the other devices.
ExpectsFlowElsewhere(h) == HeciFunction # 0 /\ ~IsFixed(h)

\* On HECI1 data that came first is followed by flow control.
ExpectsFlow(h) == HeciFunction = 0 /\ ~IsFixed(h)

\* The first message is returned, whatever it is, unless it is flow control.
FirstRead ==
  LET m == Head(ring.rx) IN
  /\ Reads("read")
  /\ CASE m.kind = "flow" ->
            Continues("readAgain") /\ UNCHANGED <<handle, ret, owed>>
       [] m.kind # "flow" /\ ExpectsFlow(call.h) ->
            /\ call' = [call EXCEPT !.pc = "readFlow", !.msg = m]
            /\ UNCHANGED <<handle, ret, owed>>
       [] OTHER -> Returns("SUCCESS", handle[call.h], m)
  /\ UNCHANGED <<lib, conns, present>>

SecondRead ==
  /\ Reads("readAgain")
  /\ Returns("SUCCESS", handle[call.h], Head(ring.rx))
  /\ UNCHANGED <<lib, conns, present>>

FlowAfterRead ==
  /\ Reads("readFlow")
  /\ Returns("SUCCESS", handle[call.h], call.msg)
  /\ UNCHANGED <<lib, conns, present>>

(* TeeDisconnect() and EfiTeeHeciUninitialize(). *)

\* Mutant: all ids are released.
ReleaseAllIds(h) == lib' = [lib EXCEPT !.ids = {}]

\* The id is released whatever the generation of the handle.
ReleaseId(h) == lib' = [lib EXCEPT !.ids = lib.ids \ {handle[h].id}]

\* Mutant: the test of the connected flag is inverted.
NothingToCloseInverted(h) == IsFixed(h) \/ handle[h].connected

NothingToClose(h) == IsFixed(h) \/ ~handle[h].connected

DisconnectLocally(h) ==
  /\ MayCall(h, "disconnect")
  /\ NothingToClose(h)
  /\ ReleaseId(h)
  /\ handle' = [handle EXCEPT ![h] = NoImpl]
  /\ ret' = NoResult
  /\ UNCHANGED <<call, ring, conns, owed, present>>

TeeDisconnect(h) ==
  /\ MayCall(h, "disconnect")
  /\ ~NothingToClose(h)
  /\ ReleaseId(h)
  /\ Starts("disconnect", "discReq", h)
  /\ UNCHANGED <<handle, ring, conns, owed, present>>

DisconnectAnswered ==
  LET reply == Head(ring.rx) IN
  /\ Reads("discRes")
  /\ Returns(IF reply.kind = "discRes" /\ reply.ok THEN "SUCCESS" ELSE "PROTOCOL_ERROR",
             NoImpl, NoMsg)
  /\ UNCHANGED <<lib, conns, present>>
------------------------------------------------------------------------------
(* The firmware and the device: how src/ expects them to behave. *)

\* The firmware takes the next message of the host and answers it.
Answers(answer) ==
  /\ Len(ring.rx) + Len(answer) <= RingCap
  /\ ring' = [tx |-> Tail(ring.tx), rx |-> ring.rx \o answer]
  /\ UNCHANGED <<lib, handle, call, ret, owed, present>>

Request(kind) == present /\ ring.tx # <<>> /\ Head(ring.tx).kind = kind

Asked == Head(ring.tx)

Reply(kind, ok) == Msg(kind, Asked.client, Asked.id, ok)

Link == [client |-> Asked.client, id |-> Asked.id]

FwEnumerates == Request("enumReq") /\ Answers(<<Reply("enumRes", TRUE)>>) /\ UNCHANGED conns

FwDescribes(ok) == Request("propReq") /\ Answers(<<Reply("propRes", ok)>>) /\ UNCHANGED conns

FwAccepts ==
  /\ Request("connReq")
  /\ Answers(<<Reply("connRes", TRUE), Reply("flow", TRUE)>>)
  /\ conns' = conns \cup {Link}

FwRefuses == Request("connReq") /\ Answers(<<Reply("connRes", FALSE)>>) /\ UNCHANGED conns

FwDisconnects ==
  /\ Request("discReq")
  /\ Answers(<<Reply("discRes", Link \in conns)>>)
  /\ conns' = conns \ {Link}

FwTakesFlow == Request("flow") /\ Answers(<<>>) /\ UNCHANGED conns

\* A request of a fixed client is answered with data alone, one of a connection
\* with data and a flow control message; only HECI1 may send the data first.
FwResponds(flowFirst) ==
  LET data == Reply("data", TRUE)
      flow == Reply("flow", TRUE)
  IN
  /\ Request("data")
  /\ flowFirst \/ HeciFunction = 0
  /\ Answers(IF Asked.client \in FixedClients THEN <<data>>
             ELSE IF Link \notin conns THEN <<>>
             ELSE IF flowFirst THEN <<flow, data>> ELSE <<data, flow>>)
  /\ UNCHANGED conns

FwAnswersOddly ==
  /\ OddReplies
  /\ \E kind \in {"enumReq", "propReq", "connReq", "discReq"} : Request(kind)
  /\ Answers(<<Reply("odd", TRUE)>>)
  /\ UNCHANGED conns

\* The firmware resets by itself; the host learns of it only from what fails.
FwResets ==
  /\ present /\ LinkReset
  /\ UNCHANGED <<lib, handle, call, ret, owed, present>>

DeviceGone ==
  /\ present /\ present' = FALSE
  /\ UNCHANGED <<lib, handle, call, ret, ring, conns, owed>>
------------------------------------------------------------------------------
CallStep ==
  \/ ResetSucceeds \/ ResetFails
  \/ HbmSent \/ SendAborted \/ ReadAborted \/ DeviceError
  \/ EnumerationAnswered \/ PropertiesAnswered \/ EnumerationDone
  \/ MatchFails \/ MatchFixed \/ MatchDynamic
  \/ ConnectAnswered \/ ConnectFlowRead
  \/ DataSent
  \/ FirstRead \/ SecondRead \/ FlowAfterRead
  \/ DisconnectAnswered

Calls(h) ==
  \/ \E client \in Clients : TeeInit(h, client)
  \/ \E status \in {"INVALID_PARAMETER", "INTERNAL_ERROR"} : TeeInitFails(h, status)
  \/ TeeConnectRefused(h) \/ TeeConnectMatches(h) \/ TeeConnectResets(h)
  \/ \E op \in Transfers, status \in {"INVALID_PARAMETER", "INTERNAL_ERROR"} :
       TransferRefused(h, op, status)
  \/ \E op \in Transfers : TransferNotConnected(h, op)
  \/ WriteStale(h) \/ TeeWrite(h) \/ TeeRead(h)
  \/ DisconnectLocally(h) \/ TeeDisconnect(h)

Firmware ==
  \/ FwEnumerates \/ \E ok \in BOOLEAN : FwDescribes(ok)
  \/ FwAccepts \/ FwRefuses \/ FwDisconnects
  \/ FwTakesFlow \/ \E flowFirst \in BOOLEAN : FwResponds(flowFirst)
  \/ FwAnswersOddly \/ FwResets \/ DeviceGone

Next == CallStep \/ (\E h \in Handles : Calls(h)) \/ Firmware

Spec == Init /\ [][Next]_vars

\* A call that was made goes on: every wait of heci_core.c is bounded.  Nobody has
\* to make a call, and nothing is assumed of the firmware.
FairSpec == Spec /\ WF_vars(CallStep)
------------------------------------------------------------------------------
Messages ==
  [kind : MessageKinds, client : Clients \cup {NoClient}, id : Ids \cup {0}, ok : BOOLEAN]

CallsInProgress ==
  [op : {"connect", "read", "write", "disconnect"}, pc : Places \ {"idle"}, h : Handles,
   id : Ids \cup {0}, todo : SUBSET Clients, msg : Messages \cup {NoMsg}]

Results ==
  [h : Handles, op : {"init", "connect", "read", "write"}, status : Statuses,
   msg : Messages \cup {NoMsg}]

Impls ==
  [impl : BOOLEAN, client : Clients \cup {NoClient}, state : {"NONE", "CONNECTED"},
   connected : BOOLEAN, gen : 0..MaxGen, id : Ids \cup {0}, props : BOOLEAN]

TypeOK ==
  /\ lib \in [valid : BOOLEAN, gen : 0..MaxGen, ids : SUBSET Ids, clients : SUBSET Clients]
  /\ handle \in [Handles -> Impls]
  /\ call \in CallsInProgress \cup {Idle}
  /\ ret \in Results \cup {NoResult}
  /\ ring \in [tx : Seq(Messages), rx : Seq(Messages)]
  /\ Len(ring.tx) <= RingCap /\ Len(ring.rx) <= RingCap
  /\ conns \subseteq Connections
  /\ owed \subseteq Handles
  /\ present \in BOOLEAN

(* Safety. *)

\* A connection of the current generation: what lib and the handle agree on.
Current(h) == handle[h].connected /\ handle[h].gen = lib.gen

\* No two connected handles of one generation have the same host client id, the
\* only thing that tells their connections apart on the bus: HostClientIds[] knows
\* every id in use.
HostIdsDistinct ==
  \A g, h \in Handles :
    g # h /\ Current(g) /\ Current(h) => handle[g].id # handle[h].id

\* On a valid link every id that HostClientIds[] shows as taken belongs to a handle of
\* this generation: a connect that fails leaves none behind, however late it fails, or
\* the ids would run out in a driver that tries again.
IdsAccounted ==
  lib.valid =>
    \A id \in lib.ids : \E h \in Handles : handle[h].id = id /\ handle[h].gen = lib.gen

\* Between calls, when no answer is outstanding, nothing is left in the buffers
\* that a later call could take for its own reply: each call reads exactly what
\* its requests produce, flow control messages included.
RingDrained ==
  At("idle") /\ lib.valid /\ present /\ owed = {} =>
    ring = [tx |-> <<>>, rx |-> <<>>]

\* A TeeRead that succeeds returns data of its own client, for its own host client
\* id, though messages carry no handle and replies are told apart by order alone.
ReadsOwnMessages ==
  [][ret'.op = "read" /\ ret'.status = "SUCCESS" =>
       ret'.msg = Data(ret'.h)]_vars

\* Between calls on a valid link the firmware holds no connection that no handle
\* has: every failing path of TeeConnect and TeeDisconnect closes the connection
\* or invalidates the link.
NoOrphanConnections ==
  At("idle") /\ lib.valid /\ present =>
    \A c \in conns : \E h \in Handles :
      Current(h) /\ c = [client |-> handle[h].client, id |-> handle[h].id]

\* A handle of an older generation, or of a link known to be broken, sends neither
\* data nor flow control: its id may belong to another handle by now.
StaleHandleWritesNothing ==
  [][Len(ring'.tx) > Len(ring.tx) /\ call.op = "write" =>
       lib.valid /\ Current(call.h)]_vars

\* TeeConnect "Connects to the TEE driver and starts a session" (metee.h): after it
\* returned TEE_SUCCESS the handle is connected.
ConnectMeansConnected ==
  At("idle") /\ ret.op = "connect" /\ ret.status = "SUCCESS" => handle[ret.h].connected

(* Liveness. *)

\* Every call returns, whatever the firmware answers or fails to answer.
CallsEnd == ~At("idle") ~> At("idle")
===============================================================================
