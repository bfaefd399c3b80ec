----------------------------- MODULE HeciBusProofs -----------------------------
(***************************************************************************)
(* What holds of the HECI bus layer for any number of handles and clients, *)
(* any table of host client ids, any number of link resets and every       *)
(* device.                                                                 *)
(***************************************************************************)
EXTENDS HeciBus, Integers, WellFoundedInduction, SequenceTheorems, TLAPS

Libraries ==
  [valid : BOOLEAN, gen : 0..MaxGen, ids : SUBSET Ids, clients : SUBSET Clients]

\* The messages each side sends name the client or connection they are about.
HostMessages ==
  {m \in Messages : /\ m.kind = "connReq" => m.client \in Clients /\ m.id \in Ids
                    /\ m.kind = "propReq" => m.client \in Clients}

FwMessages == {m \in Messages : m.kind = "propRes" => m.client \in Clients}

PlacesOf ==
  [connect |-> {"reset", "enumReq", "enumRes", "propReq", "propRes", "match", "connReq",
                "connRes", "connFlow"},
   write |-> {"writeFlow", "writeData"},
   read |-> {"read", "readAgain", "readFlow"},
   disconnect |-> {"discReq", "discRes"}]

\* A connect has chosen its host client id.
Choosing == {"connReq", "connRes", "connFlow"}

LinkOK ==
  /\ lib \in Libraries /\ conns \subseteq Connections
  /\ owed \subseteq Handles /\ present \in BOOLEAN

HandleOK ==
  /\ handle \in [Handles -> Impls]
  /\ \A h \in Handles : handle[h].impl => handle[h].client \in Clients

\* What a call in progress may rely on.
CallOK ==
  /\ call \in CallsInProgress \cup {Idle}
  /\ call # Idle =>
       /\ call.pc \in PlacesOf[call.op]
       /\ handle[call.h].impl
       /\ call.pc \in Choosing => call.id \in Ids
       /\ call.op = "write" => lib.valid /\ Current(call.h)

RetOK == ret \in Results \cup {NoResult}

RingOK ==
  /\ ring \in [tx : Seq(HostMessages), rx : Seq(FwMessages)]
  /\ Len(ring.tx) <= RingCap /\ Len(ring.rx) <= RingCap

Inv == LinkOK /\ HandleOK /\ CallOK /\ RetOK /\ RingOK
------------------------------------------------------------------------------
(* Types of the parts. *)

LEMMA IdleIsNoCall == Idle \notin CallsInProgress
<1> SUFFICES ASSUME Idle \in CallsInProgress PROVE FALSE
  OBVIOUS
<1>1. Idle.pc \in Places \ {"idle"}
  BY DEF CallsInProgress
<1> QED BY <1>1 DEF Idle

\* A call that is somewhere is a call in progress on an allocated handle.
LEMMA CallTyped ==
  ASSUME Inv, ~At("idle")
  PROVE  /\ call # Idle /\ call \in CallsInProgress
         /\ call.h \in Handles /\ handle[call.h] \in Impls
         /\ handle[call.h].impl /\ handle[call.h].client \in Clients
<1>1. call # Idle
  BY DEF At, Idle
<1>2. call \in CallsInProgress
  BY <1>1 DEF Inv, CallOK
<1>3. call.h \in Handles
  BY <1>2 DEF CallsInProgress
<1> QED BY <1>1, <1>2, <1>3 DEF Inv, CallOK, HandleOK

LEMMA IdleTyped == ASSUME Inv, At("idle") PROVE call = Idle
<1>1. call \notin CallsInProgress
  BY DEF At, CallsInProgress
<1> QED BY <1>1 DEF Inv, CallOK

\* A search of the table finds an id if there is one.
LEMMA LowestIsFree == FreeIds # {} => LowestFreeId \in FreeIds
<1> SUFFICES ASSUME FreeIds # {} PROVE LowestFreeId \in FreeIds
  OBVIOUS
<1>1. FreeIds \subseteq Nat
  BY BoundsAssumption DEF FreeIds, Ids
<1> DEFINE Less == {pair \in Nat \X Nat : pair[1] < pair[2]}
<1>2. IsWellFoundedOn(Less, Nat)
  BY NatLessThanWellFounded, Zenon DEF OpToRel
<1>3. PICK least \in FreeIds : \A other \in FreeIds : <<other, least>> \notin Less
  <2> HIDE DEF Less
  <2> QED BY <1>1, <1>2, WFMin, Zenon
<1>4. ASSUME NEW other \in FreeIds PROVE least <= other
  <2>1. other \in Nat /\ least \in Nat
    BY <1>1
  <2>2. <<other, least>> \in Nat \X Nat /\ <<other, least>> \notin Less
    BY <1>3, <2>1
  <2>3. ~(other < least)
    BY <2>2
  <2> QED BY <2>1, <2>3
<1> QED BY <1>4 DEF LowestFreeId

LEMMA NewImplTyped ==
  /\ NoImpl \in Impls /\ ~NoImpl.impl
  /\ \A client \in Clients :
       /\ NewImpl(client) \in Impls /\ NewImpl(client).impl
       /\ NewImpl(client).client = client
<1>1. 0 \in 0..MaxGen
  BY BoundsAssumption
<1>2. NoImpl \in Impls /\ ~NoImpl.impl
  BY <1>1 DEF NoImpl, Impls
<1> QED BY <1>2 DEF NewImpl, Impls

LEMMA MessagesTyped ==
  /\ HostMessages \subseteq Messages /\ FwMessages \subseteq Messages
  /\ \A kind \in MessageKinds, client \in Clients \cup {NoClient}, id \in Ids \cup {0}, ok \in BOOLEAN :
       Msg(kind, client, id, ok) \in Messages
BY DEF HostMessages, FwMessages, Messages, Msg

\* The call in progress returns.
LEMMA ReturnsKeeps ==
  ASSUME Inv, ~At("idle"), NEW efi, NEW hd \in Impls, hd.impl => hd.client \in Clients,
         NEW msg \in Messages \cup {NoMsg}, Returns(efi, hd, msg)
  PROVE  HandleOK' /\ CallOK' /\ RetOK' /\ owed' \subseteq Handles
<1>1. call \in CallsInProgress /\ call.h \in Handles
  BY CallTyped
<1>2. call.op \in {"connect", "read", "write", "disconnect"}
  BY <1>1 DEF CallsInProgress
<1>3. handle \in [Handles -> Impls] /\ owed \subseteq Handles
  BY DEF Inv, HandleOK, LinkOK
<1>4. HandleOK'
  BY <1>1, <1>3, NewImplTyped DEF Returns, HandleOK, Inv
<1>5. CallOK'
  BY DEF Returns, CallOK
<1>6. TeeStatus(call.op, efi) \in Statuses
  BY DEF TeeStatus, Statuses
<1>7. RetOK'
  BY <1>1, <1>2, <1>6 DEF Returns, Result, Results, RetOK
<1>8. owed' \subseteq Handles
  BY <1>1, <1>3 DEF Returns
<1> QED BY <1>4, <1>5, <1>7, <1>8

\* A message is sent, a message is read.
LEMMA SendsKeeps == ASSUME Inv, NEW m \in HostMessages, Sends(m) PROVE RingOK'
<1>1. ring.tx \in Seq(HostMessages) /\ ring.rx \in Seq(FwMessages) /\ Len(ring.rx) <= RingCap
  BY DEF Inv, RingOK
<1>2. Append(ring.tx, m) \in Seq(HostMessages) /\ Len(Append(ring.tx, m)) = Len(ring.tx) + 1
  BY <1>1
<1>3. Len(ring.tx) + 1 <= RingCap
  BY <1>1, BoundsAssumption DEF Sends
<1>4. ring' = [tx |-> Append(ring.tx, m), rx |-> ring.rx]
  BY DEF Sends, Inv, RingOK
<1> QED BY <1>1, <1>2, <1>3, <1>4 DEF RingOK

LEMMA ReadsKeeps ==
  ASSUME Inv, NEW pc, Reads(pc)
  PROVE  RingOK' /\ Head(ring.rx) \in FwMessages /\ Head(ring.rx) \in Messages
<1>1. ring.tx \in Seq(HostMessages) /\ ring.rx \in Seq(FwMessages) /\ Len(ring.rx) <= RingCap
      /\ Len(ring.tx) <= RingCap
  BY DEF Inv, RingOK
<1>2. ring.rx # <<>>
  BY DEF Reads
<1>3. Head(ring.rx) \in FwMessages /\ Tail(ring.rx) \in Seq(FwMessages)
      /\ Len(Tail(ring.rx)) = Len(ring.rx) - 1
  BY <1>1, <1>2
<1>4. ring' = [tx |-> ring.tx, rx |-> Tail(ring.rx)]
  BY DEF Reads, Inv, RingOK
<1> QED BY <1>1, <1>3, <1>4, BoundsAssumption, MessagesTyped DEF RingOK

\* What a call sends names its client and its connection.
LEMMA OutgoingTyped ==
  ASSUME Inv, NEW m \in Outgoing PROVE m \in HostMessages /\ ~At("idle")
<1>1. ~At("idle")
  BY DEF Outgoing, At
<1>2. call \in CallsInProgress /\ call.h \in Handles /\ handle[call.h] \in Impls
      /\ handle[call.h].client \in Clients /\ call # Idle
  BY <1>1, CallTyped
<1>3. handle[call.h].id \in Ids \cup {0} /\ call.id \in Ids \cup {0} /\ call.todo \subseteq Clients
  BY <1>2 DEF CallsInProgress, Impls
<1>4. At("connReq") => call.id \in Ids
  BY <1>2 DEF At, Choosing, Inv, CallOK
<1>5. m \in Messages
  BY <1>2, <1>3, MessagesTyped DEF Outgoing, Hbm, Data, MessageKinds
<1>6. CASE At("propReq")
  BY <1>1, <1>3, <1>5, <1>6 DEF Outgoing, At, Msg, HostMessages
<1>7. CASE At("connReq")
  BY <1>2, <1>4, <1>5, <1>7 DEF Outgoing, At, Msg, Hbm, HostMessages
<1>8. CASE ~At("propReq") /\ ~At("connReq")
  <2>1. m \in {Msg("enumReq", NoClient, 0, TRUE), Hbm("flow", call.h, handle[call.h].id),
              Data(call.h), Hbm("discReq", call.h, handle[call.h].id)}
    BY <1>8 DEF Outgoing
  <2>2. Data(call.h).kind = "data"
    BY DEF Msg, Data
  <2>3. m.kind \in {"enumReq", "flow", "data", "discReq"}
    BY <2>1, <2>2 DEF Msg, Hbm
  <2> QED BY <2>3, <1>1, <1>5 DEF HostMessages
<1> QED BY <1>1, <1>6, <1>7, <1>8

\* The place of a call tells its operation.
LEMMA OpOfPlace ==
  ASSUME Inv, ~At("idle")
  PROVE  /\ call.op \in {"connect", "read", "write", "disconnect"}
         /\ call.pc \in PlacesOf.connect => call.op = "connect"
         /\ call.pc \in PlacesOf.write => call.op = "write"
         /\ call.pc \in PlacesOf.read => call.op = "read"
         /\ call.pc \in PlacesOf.disconnect => call.op = "disconnect"
<1>1. call.op \in {"connect", "read", "write", "disconnect"}
  BY CallTyped DEF CallsInProgress
<1>2. call.pc \in PlacesOf[call.op]
  BY CallTyped DEF Inv, CallOK
<1> QED BY <1>1, <1>2 DEF PlacesOf

\* A call goes on: it stays on its handle and keeps its operation.
LEMMA ProceedsKeeps ==
  ASSUME Inv, ~At("idle"), call' \in CallsInProgress, call'.op = call.op, call'.h = call.h,
         call'.pc \in PlacesOf[call.op], call'.pc \in Choosing => call'.id \in Ids,
         handle'[call.h].impl, call.op = "write" => lib' = lib /\ handle' = handle
  PROVE  CallOK'
<1>1. call # Idle /\ call' # Idle
  BY CallTyped, IdleIsNoCall
<1>2. call.op = "write" => lib.valid /\ Current(call.h)
  BY <1>1 DEF Inv, CallOK
<1> QED BY <1>1, <1>2 DEF CallOK, Current

\* A call starts.
LEMMA StartsKeeps ==
  ASSUME Inv, NEW h \in Handles, NEW op \in {"connect", "read", "write", "disconnect"},
         NEW pc \in PlacesOf[op], pc \notin Choosing, Starts(op, pc, h), handle'[h].impl,
         op = "write" => lib'.valid /\ handle'[h].connected /\ handle'[h].gen = lib'.gen
  PROVE  CallOK' /\ RetOK'
<1>1. pc \in Places \ {"idle"}
  BY DEF PlacesOf, Places
<1>2. call' = [op |-> op, pc |-> pc, h |-> h, id |-> 0, todo |-> {}, msg |-> NoMsg]
  BY DEF Starts
<1>3. call' \in CallsInProgress
  BY <1>1, <1>2 DEF CallsInProgress
<1>4. call'.pc = pc /\ call'.op = op /\ call'.h = h
  BY <1>2
<1>5. CallOK'
  BY <1>3, <1>4 DEF CallOK, Current
<1> QED BY <1>5 DEF Starts, RetOK
------------------------------------------------------------------------------
(* The steps of a call. *)

\* The link is lost in the middle of a call.
LEMMA LinkBreaksKeeps ==
  ASSUME Inv, ~At("idle"), LinkBreaks, RingOK' PROVE Inv'
<1>1. handle[call.h] \in Impls /\ handle[call.h].client \in Clients
  BY CallTyped
<1> DEFINE hd == [handle[call.h] EXCEPT !.connected = FALSE]
<1>2. hd \in Impls /\ hd.client \in Clients
  BY <1>1 DEF Impls
<1>3. Returns("MEDIA_CHANGED", hd, NoMsg)
  BY DEF LinkBreaks
<1>4. HandleOK' /\ CallOK' /\ RetOK' /\ owed' \subseteq Handles
  <2> HIDE DEF hd
  <2> QED BY <1>2, <1>3, ReturnsKeeps
<1>5. lib' \in Libraries /\ conns' \subseteq Connections /\ present' \in BOOLEAN
  BY DEF LinkBreaks, Inv, LinkOK, Libraries
<1> QED BY <1>4, <1>5 DEF Inv, LinkOK

LEMMA HbmSentKeeps == ASSUME Inv, HbmSent PROVE Inv'
<1>1. PICK m \in Outgoing : Sends(m) /\ call' = [call EXCEPT !.pc = AfterSending[call.pc], !.msg = m]
  BY DEF HbmSent
<1>2. m \in HostMessages /\ ~At("idle") /\ m \in Messages
  BY OutgoingTyped, MessagesTyped
<1>3. RingOK'
  BY <1>1, <1>2, SendsKeeps
<1>4. call \in CallsInProgress /\ handle[call.h].impl
  BY <1>2, CallTyped
<1>5. call.op \in {"connect", "read", "write", "disconnect"} /\ call.pc \in PlacesOf[call.op]
  BY <1>2, CallTyped, OpOfPlace DEF Inv, CallOK
<1>6. call.pc \in {"enumReq", "propReq", "connReq", "writeFlow", "discReq"}
  BY DEF HbmSent, AfterSending
<1>7. /\ AfterSending[call.pc] \in PlacesOf[call.op] \cap (Places \ {"idle"})
      /\ AfterSending[call.pc] \in Choosing => call.pc \in Choosing
  BY <1>5, <1>6 DEF AfterSending, PlacesOf, Places, Choosing
<1>8. call' \in CallsInProgress /\ call'.op = call.op /\ call'.h = call.h
      /\ call'.pc = AfterSending[call.pc] /\ call'.id = call.id
  <2> DEFINE next == AfterSending[call.pc]
  <2>1. next \in Places \ {"idle"}
    BY <1>7
  <2> HIDE DEF next
  <2>2. call' = [call EXCEPT !.pc = next, !.msg = m]
    BY <1>1 DEF next
  <2>3. /\ call' \in CallsInProgress /\ call'.op = call.op /\ call'.h = call.h
        /\ call'.pc = next /\ call'.id = call.id
    BY <1>2, <1>4, <2>1, <2>2 DEF CallsInProgress
  <2> QED BY <2>3 DEF next
<1>9. call.pc \in Choosing => call.id \in Ids
  BY <1>2, CallTyped DEF Inv, CallOK
<1>10. CallOK'
  BY <1>2, <1>4, <1>7, <1>8, <1>9, ProceedsKeeps DEF HbmSent
<1> QED BY <1>3, <1>10 DEF HbmSent, Inv, LinkOK, HandleOK, RetOK

LEMMA SendAbortedKeeps == ASSUME Inv, SendAborted PROVE Inv'
<1>1. PICK m \in Outgoing : TRUE
  BY DEF SendAborted
<1>2. ~At("idle")
  BY <1>1, OutgoingTyped
<1>3. RingOK'
  <2>1. CASE ring' = ring
    BY <2>1 DEF Inv, RingOK
  <2>2. CASE \E n \in Outgoing : Sends(n)
    BY <2>2, OutgoingTyped, SendsKeeps
  <2> QED BY <2>1, <2>2 DEF SendAborted
<1> QED BY <1>2, <1>3, LinkBreaksKeeps DEF SendAborted

LEMMA ReadAbortedKeeps == ASSUME Inv, ReadAborted PROVE Inv'
<1>1. ~At("idle")
  BY DEF ReadAborted, Reading, At
<1>2. RingOK'
  <2>1. CASE ring' = ring
    BY <2>1 DEF Inv, RingOK
  <2>2. CASE Reads(call.pc)
    BY <2>2, ReadsKeeps
  <2> QED BY <2>1, <2>2 DEF ReadAborted
<1> QED BY <1>1, <1>2, LinkBreaksKeeps DEF ReadAborted

LEMMA DeviceErrorKeeps == ASSUME Inv, DeviceError PROVE Inv'
<1>1. ~At("idle")
  BY DEF DeviceError, Reading, At, Outgoing
<1>2. handle[call.h] \in Impls /\ handle[call.h].client \in Clients
  BY <1>1, CallTyped
<1>3. HandleOK' /\ CallOK' /\ RetOK' /\ owed' \subseteq Handles
  BY <1>1, <1>2, ReturnsKeeps DEF DeviceError
<1> QED BY <1>3 DEF DeviceError, Inv, LinkOK, RingOK

\* A reset empties the buffers and drops the firmware's connections.
LEMMA LinkResetKeeps ==
  ASSUME Inv
  PROVE  /\ ring' = ring \/ LinkReset => RingOK'
         /\ conns' = conns \/ LinkReset => conns' \subseteq Connections
<1>1. <<>> \in Seq(HostMessages) /\ <<>> \in Seq(FwMessages) /\ Len(<<>>) = 0 /\ 0 <= RingCap
  BY BoundsAssumption
<1>2. LinkReset => RingOK'
  BY <1>1 DEF RingOK, LinkReset
<1>3. ring' = ring => RingOK'
  BY DEF Inv, RingOK
<1> QED BY <1>2, <1>3 DEF Inv, LinkOK, LinkReset

LEMMA ResetKeeps == ASSUME Inv, ResetSucceeds \/ ResetFails PROVE Inv'
<1>1. ~At("idle")
  BY DEF ResetSucceeds, ResetFails, At
<1>2. /\ call \in CallsInProgress /\ call # Idle
      /\ handle[call.h] \in Impls /\ handle[call.h].client \in Clients /\ handle[call.h].impl
  BY <1>1, CallTyped
<1>3. /\ ring' = ring \/ LinkReset => RingOK'
      /\ conns' = conns \/ LinkReset => conns' \subseteq Connections
  BY LinkResetKeeps
<1>4. CASE ResetSucceeds
  <2>1. call.op = "connect"
    BY <1>1, <1>4, OpOfPlace DEF ResetSucceeds, At, PlacesOf
  <2>2. /\ call' \in CallsInProgress /\ call'.op = call.op /\ call'.h = call.h
        /\ call'.pc = "enumReq"
    BY <1>2, <1>4 DEF ResetSucceeds, Continues, CallsInProgress, Places
  <2>3. CallOK'
    BY <1>1, <1>2, <1>4, <2>1, <2>2, ProceedsKeeps DEF ResetSucceeds, PlacesOf, Choosing
  <2>4. lib' \in Libraries
    BY <1>4 DEF ResetSucceeds, Inv, LinkOK, Libraries
  <2> QED BY <1>3, <1>4, <2>3, <2>4 DEF ResetSucceeds, Inv, LinkOK, HandleOK, RetOK
<1>5. CASE ResetFails
  <2>1. HandleOK' /\ CallOK' /\ RetOK' /\ owed' \subseteq Handles
    BY <1>1, <1>2, <1>5, ReturnsKeeps DEF ResetFails
  <2> QED BY <1>3, <1>5, <2>1 DEF ResetFails, Inv, LinkOK
<1> QED BY <1>4, <1>5

LEMMA EnumerationKeeps ==
  ASSUME Inv, EnumerationAnswered \/ PropertiesAnswered \/ EnumerationDone PROVE Inv'
<1>1. ~At("idle")
  BY DEF EnumerationAnswered, PropertiesAnswered, EnumerationDone, Reads, At
<1>2. /\ call \in CallsInProgress /\ call # Idle /\ call.todo \subseteq Clients
      /\ handle[call.h] \in Impls /\ handle[call.h].client \in Clients /\ handle[call.h].impl
  BY <1>1, CallTyped DEF CallsInProgress
<1>3. call.op = "connect"
  BY <1>1, OpOfPlace
  DEF EnumerationAnswered, PropertiesAnswered, EnumerationDone, Reads, At, PlacesOf
<1>4. ASSUME NEW pc \in {"propReq", "match"}, NEW todo \in SUBSET Clients,
             call' = [call EXCEPT !.pc = pc, !.todo = todo], handle' = handle
      PROVE  CallOK'
  <2>1. pc \in Places \ {"idle"} /\ pc \in PlacesOf["connect"] /\ pc \notin Choosing
    BY DEF Places, PlacesOf, Choosing
  <2>2. /\ call' \in CallsInProgress /\ call'.op = call.op /\ call'.h = call.h
        /\ call'.pc = pc
    BY <1>2, <1>4, <2>1 DEF CallsInProgress
  <2> QED BY <1>1, <1>2, <1>3, <1>4, <2>1, <2>2, ProceedsKeeps
<1>5. ASSUME NEW pc \in {"propReq", "match"}, Continues(pc)
      PROVE  call' = [call EXCEPT !.pc = pc, !.todo = call.todo]
  BY <1>2, <1>5 DEF Continues, CallsInProgress
<1>6. CASE EnumerationAnswered
  <2>1. RingOK'
    BY <1>6, ReadsKeeps DEF EnumerationAnswered
  <2>2. CASE Head(ring.rx).kind = "enumRes"
    <3>1. CallOK'
      BY <1>4, <1>6, <2>2 DEF EnumerationAnswered
    <3> QED BY <1>6, <2>1, <2>2, <3>1 DEF EnumerationAnswered, Inv, LinkOK, HandleOK, RetOK
  <2>3. CASE Head(ring.rx).kind # "enumRes"
    <3>1. HandleOK' /\ CallOK' /\ RetOK' /\ owed' \subseteq Handles
      BY <1>1, <1>2, <1>6, <2>3, ReturnsKeeps DEF EnumerationAnswered
    <3> QED BY <1>6, <2>1, <3>1 DEF EnumerationAnswered, Inv, LinkOK
  <2> QED BY <2>2, <2>3
<1>7. CASE PropertiesAnswered
  <2> DEFINE reply == Head(ring.rx)
  <2>1. RingOK' /\ reply \in FwMessages
    BY <1>7, ReadsKeeps DEF PropertiesAnswered
  <2>2. CallOK' /\ lib' \in Libraries
    <3>1. CASE reply.kind = "propRes"
      <4>1. reply.client \in Clients
        BY <2>1, <3>1 DEF FwMessages
      <4>2. lib' \in Libraries
        BY <1>7, <3>1, <4>1 DEF PropertiesAnswered, Inv, LinkOK, Libraries
      <4>3. Remaining(reply) \in SUBSET Clients
        BY <1>2 DEF Remaining
      <4>4. call' = [call EXCEPT !.pc = "propReq", !.todo = Remaining(reply)]
        BY <1>7, <3>1 DEF PropertiesAnswered
      <4> QED BY <1>4, <1>7, <4>2, <4>3, <4>4 DEF PropertiesAnswered
    <3>2. CASE reply.kind # "propRes"
      <4>1. Continues("match") /\ lib' = lib
        BY <1>7, <3>2 DEF PropertiesAnswered
      <4> QED BY <1>2, <1>4, <1>5, <1>7, <4>1 DEF PropertiesAnswered, Inv, LinkOK
    <3> QED BY <3>1, <3>2
  <2> QED BY <1>7, <2>1, <2>2 DEF PropertiesAnswered, Inv, LinkOK, HandleOK, RetOK
<1>8. CASE EnumerationDone
  <2>1. CallOK'
    BY <1>2, <1>4, <1>5, <1>8 DEF EnumerationDone
  <2>2. lib' \in Libraries
    BY <1>8 DEF EnumerationDone, Inv, LinkOK, Libraries
  <2> QED BY <1>8, <2>1, <2>2 DEF EnumerationDone, Inv, LinkOK, HandleOK, RetOK, RingOK
<1> QED BY <1>6, <1>7, <1>8

\* The handle of a connection that is made.
LEMMA ConnectedTyped ==
  ASSUME Inv, NEW h \in Handles, NEW id \in Ids
  PROVE  /\ Connected(h, id) \in Impls
         /\ Connected(h, id).client = handle[h].client /\ Connected(h, id).impl = handle[h].impl
         /\ Connected(h, id).id = id /\ Connected(h, id).state = "CONNECTED"
<1>1. handle[h] \in Impls
  BY DEF Inv, HandleOK
<1>2. lib.gen \in 0..MaxGen
  BY DEF Inv, LinkOK, Libraries
<1> QED BY <1>1, <1>2 DEF Connected, Impls

LEMMA MatchKeeps ==
  ASSUME Inv, MatchFails \/ MatchFixed \/ MatchDynamic PROVE Inv'
<1>1. ~At("idle")
  BY DEF MatchFails, MatchFixed, MatchDynamic, At
<1>2. /\ call \in CallsInProgress /\ call # Idle /\ call.h \in Handles
      /\ handle[call.h] \in Impls /\ handle[call.h].client \in Clients /\ handle[call.h].impl
  BY <1>1, CallTyped
<1>3. call.op = "connect"
  BY <1>1, OpOfPlace DEF MatchFails, MatchFixed, MatchDynamic, At, PlacesOf
<1>4. FreeIds # {} => LowestFreeId \in Ids
  BY LowestIsFree DEF FreeIds
<1>5. CASE MatchFails
  <2> DEFINE hd == [handle[call.h] EXCEPT !.props = FALSE]
  <2>1. hd \in Impls /\ hd.client \in Clients
    BY <1>2 DEF Impls
  <2>2. PICK efi : Returns(efi, hd, NoMsg)
    BY <1>5 DEF MatchFails
  <2>3. HandleOK' /\ CallOK' /\ RetOK' /\ owed' \subseteq Handles
    <3> HIDE DEF hd
    <3> QED BY <1>1, <2>1, <2>2, ReturnsKeeps
  <2> QED BY <1>5, <2>3 DEF MatchFails, Inv, LinkOK, RingOK
<1>6. CASE MatchFixed
  <2>1. LowestFreeId \in Ids
    BY <1>4, <1>6 DEF MatchFixed
  <2>2. Connected(call.h, LowestFreeId) \in Impls /\ Connected(call.h, LowestFreeId).client \in Clients
    BY <1>2, <2>1, ConnectedTyped
  <2>3. HandleOK' /\ CallOK' /\ RetOK' /\ owed' \subseteq Handles
    BY <1>1, <1>6, <2>2, ReturnsKeeps DEF MatchFixed
  <2>4. lib' \in Libraries
    BY <1>6, <2>1 DEF MatchFixed, Inv, LinkOK, Libraries
  <2> QED BY <1>6, <2>3, <2>4 DEF MatchFixed, Inv, LinkOK, RingOK
<1>7. CASE MatchDynamic
  <2>1. LowestFreeId \in Ids
    BY <1>4, <1>7 DEF MatchDynamic
  <2>2. call' = [call EXCEPT !.pc = "connReq", !.id = LowestFreeId]
        /\ handle' = [handle EXCEPT ![call.h].props = FALSE]
    BY <1>7 DEF MatchDynamic
  <2>3. "connReq" \in PlacesOf["connect"] \cap (Places \ {"idle"})
    BY DEF PlacesOf, Places
  <2>4. /\ call' \in CallsInProgress /\ call'.op = call.op /\ call'.h = call.h
        /\ call'.pc = "connReq" /\ call'.id \in Ids
    BY <1>2, <2>1, <2>2, <2>3 DEF CallsInProgress
  <2>5. HandleOK' /\ handle'[call.h].impl
    BY <1>2, <2>2 DEF Inv, HandleOK, Impls
  <2>6. CallOK'
    BY <1>1, <1>3, <2>3, <2>4, <2>5, ProceedsKeeps
  <2> QED BY <1>7, <2>5, <2>6 DEF MatchDynamic, Inv, LinkOK, RingOK, RetOK
<1> QED BY <1>5, <1>6, <1>7

LEMMA ConnectKeeps == ASSUME Inv, ConnectAnswered \/ ConnectFlowRead PROVE Inv'
<1>1. ~At("idle")
  BY DEF ConnectAnswered, ConnectFlowRead, Reads, At
<1>2. /\ call \in CallsInProgress /\ call # Idle /\ call.h \in Handles
      /\ handle[call.h] \in Impls /\ handle[call.h].client \in Clients /\ handle[call.h].impl
  BY <1>1, CallTyped
<1>3. call.op = "connect" /\ call.id \in Ids
  <2>1. call.pc \in {"connRes", "connFlow"}
    BY DEF ConnectAnswered, ConnectFlowRead, Reads, At
  <2>2. call.id \in Ids
    BY <1>2, <2>1 DEF Choosing, Inv, CallOK
  <2> QED BY <1>1, <2>1, <2>2, OpOfPlace DEF PlacesOf
<1>4. RingOK'
  BY ReadsKeeps DEF ConnectAnswered, ConnectFlowRead
<1>5. CASE ConnectAnswered
  <2> DEFINE hd == [handle[call.h] EXCEPT !.state = "CONNECTED"]
  <2>1. hd \in Impls /\ hd.client \in Clients
    BY <1>2 DEF Impls
  <2>2. \/ \E efi : Returns(efi, hd, NoMsg)
        \/ \E efi : Returns(efi, handle[call.h], NoMsg)
        \/ Continues("connFlow") /\ UNCHANGED <<handle, ret, owed>>
    BY <1>5 DEF ConnectAnswered
  <2>3. CASE \E efi : Returns(efi, hd, NoMsg)
    <3> HIDE DEF hd
    <3>1. HandleOK' /\ CallOK' /\ RetOK' /\ owed' \subseteq Handles
      BY <1>1, <2>1, <2>3, ReturnsKeeps
    <3> QED BY <1>4, <1>5, <3>1 DEF ConnectAnswered, Inv, LinkOK
  <2>4. CASE \E efi : Returns(efi, handle[call.h], NoMsg)
    <3>1. HandleOK' /\ CallOK' /\ RetOK' /\ owed' \subseteq Handles
      BY <1>1, <1>2, <2>4, ReturnsKeeps
    <3> QED BY <1>4, <1>5, <3>1 DEF ConnectAnswered, Inv, LinkOK
  <2>5. CASE Continues("connFlow") /\ UNCHANGED <<handle, ret, owed>>
    <3>1. "connFlow" \in PlacesOf["connect"] \cap (Places \ {"idle"})
      BY DEF PlacesOf, Places
    <3>2. /\ call' \in CallsInProgress /\ call'.op = call.op /\ call'.h = call.h
          /\ call'.pc = "connFlow" /\ call'.id = call.id
      BY <1>2, <2>5, <3>1 DEF Continues, CallsInProgress
    <3>3. CallOK'
      BY <1>1, <1>2, <1>3, <2>5, <3>1, <3>2, ProceedsKeeps
    <3> QED BY <1>4, <1>5, <2>5, <3>3 DEF ConnectAnswered, Inv, LinkOK, HandleOK, RetOK
  <2> HIDE DEF hd
  <2> QED BY <2>2, <2>3, <2>4, <2>5
<1>6. CASE ConnectFlowRead
  <2>1. Connected(call.h, call.id) \in Impls /\ Connected(call.h, call.id).client \in Clients
    BY <1>2, <1>3, ConnectedTyped
  <2>2. HandleOK' /\ CallOK' /\ RetOK' /\ owed' \subseteq Handles
    BY <1>1, <1>6, <2>1, ReturnsKeeps DEF ConnectFlowRead
  <2>3. lib' \in Libraries
    BY <1>3, <1>6 DEF ConnectFlowRead, Inv, LinkOK, Libraries
  <2> QED BY <1>4, <1>6, <2>2, <2>3 DEF ConnectFlowRead, Inv, LinkOK
<1> QED BY <1>5, <1>6

LEMMA DataSentKeeps == ASSUME Inv, DataSent PROVE Inv'
<1>1. Data(call.h) \in Outgoing
  BY DEF DataSent, Outgoing, At
<1>2. ~At("idle") /\ RingOK'
  BY <1>1, OutgoingTyped, SendsKeeps DEF DataSent
<1>3. handle[call.h] \in Impls /\ handle[call.h].client \in Clients
  BY <1>2, CallTyped
<1>4. HandleOK' /\ CallOK' /\ RetOK' /\ owed' \subseteq Handles
  BY <1>2, <1>3, ReturnsKeeps DEF DataSent
<1> QED BY <1>2, <1>4 DEF DataSent, Inv, LinkOK

LEMMA ReadingKeeps == ASSUME Inv, FirstRead \/ SecondRead \/ FlowAfterRead PROVE Inv'
<1>1. ~At("idle")
  BY DEF FirstRead, SecondRead, FlowAfterRead, Reads, At
<1>2. /\ call \in CallsInProgress /\ call # Idle /\ call.msg \in Messages \cup {NoMsg}
      /\ handle[call.h] \in Impls /\ handle[call.h].client \in Clients /\ handle[call.h].impl
  BY <1>1, CallTyped DEF CallsInProgress
<1>3. call.op = "read"
  BY <1>1, OpOfPlace DEF FirstRead, SecondRead, FlowAfterRead, Reads, At, PlacesOf
<1>4. RingOK' /\ Head(ring.rx) \in Messages
  BY ReadsKeeps DEF FirstRead, SecondRead, FlowAfterRead
<1>5. ASSUME NEW msg \in Messages \cup {NoMsg}, Returns("SUCCESS", handle[call.h], msg)
      PROVE  HandleOK' /\ CallOK' /\ RetOK' /\ owed' \subseteq Handles
  BY <1>1, <1>2, <1>5, ReturnsKeeps
<1>6. ASSUME NEW pc \in {"readAgain", "readFlow"}, NEW msg \in Messages \cup {NoMsg},
             call' = [call EXCEPT !.pc = pc, !.msg = msg], handle' = handle
      PROVE  CallOK'
  <2>1. pc \in Places \ {"idle"} /\ pc \in PlacesOf["read"] /\ pc \notin Choosing
    BY DEF Places, PlacesOf, Choosing
  <2>2. call' \in CallsInProgress /\ call'.op = call.op /\ call'.h = call.h /\ call'.pc = pc
    BY <1>2, <1>6, <2>1 DEF CallsInProgress
  <2> QED BY <1>1, <1>2, <1>3, <1>6, <2>1, <2>2, ProceedsKeeps
<1>7. CASE FirstRead
  <2> DEFINE m == Head(ring.rx)
  <2>1. \/ Continues("readAgain") /\ UNCHANGED <<handle, ret, owed>>
        \/ call' = [call EXCEPT !.pc = "readFlow", !.msg = m] /\ UNCHANGED <<handle, ret, owed>>
        \/ Returns("SUCCESS", handle[call.h], m)
    BY <1>7 DEF FirstRead
  <2>2. CASE Continues("readAgain") /\ UNCHANGED <<handle, ret, owed>>
    <3>1. call' = [call EXCEPT !.pc = "readAgain", !.msg = call.msg]
      BY <1>2, <2>2 DEF Continues, CallsInProgress
    <3>2. CallOK'
      BY <1>2, <1>6, <2>2, <3>1
    <3> QED BY <1>4, <1>7, <2>2, <3>2 DEF FirstRead, Inv, LinkOK, HandleOK, RetOK
  <2>3. CASE call' = [call EXCEPT !.pc = "readFlow", !.msg = m] /\ UNCHANGED <<handle, ret, owed>>
    <3>1. CallOK'
      BY <1>4, <1>6, <2>3
    <3> QED BY <1>4, <1>7, <2>3, <3>1 DEF FirstRead, Inv, LinkOK, HandleOK, RetOK
  <2>4. CASE Returns("SUCCESS", handle[call.h], m)
    BY <1>4, <1>5, <1>7, <2>4 DEF FirstRead, Inv, LinkOK
  <2> QED BY <2>1, <2>2, <2>3, <2>4
<1>8. CASE SecondRead
  BY <1>4, <1>5, <1>8 DEF SecondRead, Inv, LinkOK
<1>9. CASE FlowAfterRead
  BY <1>2, <1>4, <1>5, <1>9 DEF FlowAfterRead, Inv, LinkOK
<1> QED BY <1>7, <1>8, <1>9

LEMMA DisconnectAnsweredKeeps == ASSUME Inv, DisconnectAnswered PROVE Inv'
<1>1. ~At("idle") /\ RingOK'
  BY ReadsKeeps DEF DisconnectAnswered, Reads, At
<1>2. PICK efi : Returns(efi, NoImpl, NoMsg)
  BY DEF DisconnectAnswered
<1>3. HandleOK' /\ CallOK' /\ RetOK' /\ owed' \subseteq Handles
  BY <1>1, <1>2, NewImplTyped, ReturnsKeeps
<1> QED BY <1>1, <1>3 DEF DisconnectAnswered, Inv, LinkOK

LEMMA CallStepKeeps == ASSUME Inv, CallStep PROVE Inv'
BY ResetKeeps, HbmSentKeeps, SendAbortedKeeps, ReadAbortedKeeps, DeviceErrorKeeps,
   EnumerationKeeps, MatchKeeps, ConnectKeeps, DataSentKeeps, ReadingKeeps,
   DisconnectAnsweredKeeps
DEF CallStep
------------------------------------------------------------------------------
(* The calls. *)

\* A call that sends nothing returns: it leaves no call in progress.
LEMMA ReturnsAtOnceKeeps ==
  ASSUME Inv, At("idle"), NEW h \in Handles, NEW op \in {"init", "connect", "read", "write"},
         NEW status \in Statuses, ReturnsAtOnce(h, op, status), HandleOK',
         owed' \subseteq Handles
  PROVE  Inv'
<1>1. call' = Idle
  BY IdleTyped DEF ReturnsAtOnce
<1>2. RetOK'
  BY DEF ReturnsAtOnce, Result, Results, RetOK
<1>3. CallOK'
  BY <1>1 DEF CallOK
<1> QED BY <1>2, <1>3 DEF ReturnsAtOnce, Inv, LinkOK, RingOK

LEMMA InitCallsKeep ==
  ASSUME Inv, NEW h \in Handles,
         \/ \E client \in Clients : TeeInit(h, client)
         \/ \E status \in {"INVALID_PARAMETER", "INTERNAL_ERROR"} : TeeInitFails(h, status)
  PROVE  Inv'
<1>1. ASSUME NEW client \in Clients, TeeInit(h, client) PROVE Inv'
  <2>1. HandleOK'
    BY <1>1, NewImplTyped DEF TeeInit, Inv, HandleOK
  <2>2. owed' \subseteq Handles
    BY <1>1 DEF TeeInit, Inv, LinkOK
  <2> QED BY <1>1, <2>1, <2>2, ReturnsAtOnceKeeps DEF TeeInit, Statuses
<1>2. ASSUME NEW status \in {"INVALID_PARAMETER", "INTERNAL_ERROR"}, TeeInitFails(h, status)
      PROVE  Inv'
  <2>1. HandleOK' /\ owed' \subseteq Handles
    BY <1>2 DEF TeeInitFails, Inv, HandleOK, LinkOK
  <2> QED BY <1>2, <2>1, ReturnsAtOnceKeeps DEF TeeInitFails, Statuses
<1> QED BY <1>1, <1>2

LEMMA ConnectCallsKeep ==
  ASSUME Inv, NEW h \in Handles,
         TeeConnectRefused(h) \/ TeeConnectMatches(h) \/ TeeConnectResets(h)
  PROVE  Inv'
<1>1. At("idle") /\ handle[h].impl
  BY DEF TeeConnectRefused, TeeConnectMatches, TeeConnectResets, MayCall
<1>2. HandleOK' /\ owed' \subseteq Handles /\ handle' = handle
  BY DEF TeeConnectRefused, TeeConnectMatches, TeeConnectResets, Inv, HandleOK, LinkOK
<1>3. CASE TeeConnectRefused(h)
  BY <1>1, <1>2, <1>3, ReturnsAtOnceKeeps DEF TeeConnectRefused, Statuses
<1>4. CASE TeeConnectMatches(h)
  <2>1. CallOK' /\ RetOK'
    BY <1>1, <1>2, <1>4, StartsKeeps DEF TeeConnectMatches, PlacesOf, Choosing
  <2> QED BY <1>2, <1>4, <2>1 DEF TeeConnectMatches, Inv, LinkOK, RingOK
<1>5. CASE TeeConnectResets(h)
  <2>1. CallOK' /\ RetOK'
    BY <1>1, <1>2, <1>5, StartsKeeps DEF TeeConnectResets, PlacesOf, Choosing
  <2>2. lib' \in Libraries
    BY <1>5, BoundsAssumption DEF TeeConnectResets, MayReset, Inv, LinkOK, Libraries
  <2> QED BY <1>2, <1>5, <2>1, <2>2 DEF TeeConnectResets, Inv, LinkOK, RingOK
<1> QED BY <1>3, <1>4, <1>5

LEMMA TransferCallsKeep ==
  ASSUME Inv, NEW h \in Handles,
         \/ \E op \in Transfers, status \in {"INVALID_PARAMETER", "INTERNAL_ERROR"} :
              TransferRefused(h, op, status)
         \/ \E op \in Transfers : TransferNotConnected(h, op)
         \/ WriteStale(h) \/ TeeWrite(h) \/ TeeRead(h)
  PROVE  Inv'
<1>1. At("idle") /\ handle[h].impl
  BY DEF TransferRefused, TransferNotConnected, WriteStale, TeeWrite, TeeRead, MayCall
<1>2. handle \in [Handles -> Impls] /\ HandleOK /\ owed \subseteq Handles
  BY DEF Inv, HandleOK, LinkOK
<1>3. ASSUME NEW op \in Transfers, NEW status \in {"INVALID_PARAMETER", "INTERNAL_ERROR"},
             TransferRefused(h, op, status)
      PROVE  Inv'
  <2>1. HandleOK' /\ owed' \subseteq Handles
    BY <1>2, <1>3 DEF TransferRefused, HandleOK
  <2> QED BY <1>1, <1>3, <2>1, ReturnsAtOnceKeeps DEF TransferRefused, Transfers, Statuses
<1>4. ASSUME NEW op \in Transfers, TransferNotConnected(h, op) PROVE Inv'
  <2>1. HandleOK' /\ owed' \subseteq Handles
    BY <1>2, <1>4 DEF TransferNotConnected, HandleOK
  <2> QED BY <1>1, <1>4, <2>1, ReturnsAtOnceKeeps DEF TransferNotConnected, Transfers, Statuses
<1>5. CASE WriteStale(h)
  <2>1. HandleOK' /\ owed' \subseteq Handles
    <3>1. handle' = [handle EXCEPT ![h].connected = FALSE] /\ owed' = owed
      BY <1>5 DEF WriteStale
    <3>2. handle' \in [Handles -> Impls]
      BY <1>2, <3>1 DEF Impls
    <3>3. \A g \in Handles : /\ handle'[g].impl = handle[g].impl
                              /\ handle'[g].client = handle[g].client
      BY <1>2, <3>1 DEF Impls
    <3> QED BY <1>2, <3>1, <3>2, <3>3 DEF HandleOK
  <2> QED BY <1>1, <1>5, <2>1, ReturnsAtOnceKeeps DEF WriteStale, Statuses
<1>6. CASE TeeWrite(h)
  <2>1. lib' = lib /\ handle' = handle /\ lib.valid /\ handle[h].connected /\ handle[h].gen = lib.gen
    BY <1>6 DEF TeeWrite, NotConnected, Stale
  <2>2. PICK pc \in {"writeData", "writeFlow"} : Starts("write", pc, h)
    BY <1>6 DEF TeeWrite
  <2>3. CallOK' /\ RetOK'
    BY <1>1, <2>1, <2>2, StartsKeeps DEF PlacesOf, Choosing
  <2> QED BY <1>2, <1>6, <2>3 DEF TeeWrite, Inv, LinkOK, HandleOK, RingOK
<1>7. CASE TeeRead(h)
  <2>1. CallOK' /\ RetOK'
    BY <1>1, <1>7, StartsKeeps DEF TeeRead, PlacesOf, Choosing
  <2> QED BY <1>2, <1>7, <2>1 DEF TeeRead, Inv, LinkOK, HandleOK, RingOK
<1> QED BY <1>3, <1>4, <1>5, <1>6, <1>7

LEMMA DisconnectCallsKeep ==
  ASSUME Inv, NEW h \in Handles, DisconnectLocally(h) \/ TeeDisconnect(h) PROVE Inv'
<1>1. At("idle") /\ handle[h].impl
  BY DEF DisconnectLocally, TeeDisconnect, MayCall
<1>2. ReleaseId(h) => lib' \in Libraries
  BY DEF ReleaseId, Inv, LinkOK, Libraries
<1>3. CASE DisconnectLocally(h)
  <2>1. HandleOK'
    BY <1>3, NewImplTyped DEF DisconnectLocally, Inv, HandleOK
  <2>2. call' = Idle /\ RetOK'
    BY <1>1, <1>3, IdleTyped DEF DisconnectLocally, RetOK
  <2>3. CallOK'
    BY <2>2 DEF CallOK
  <2> QED BY <1>2, <1>3, <2>1, <2>2, <2>3 DEF DisconnectLocally, Inv, LinkOK, RingOK
<1>4. CASE TeeDisconnect(h)
  <2>1. CallOK' /\ RetOK'
    BY <1>1, <1>4, StartsKeeps DEF TeeDisconnect, PlacesOf, Choosing
  <2> QED BY <1>2, <1>4, <2>1 DEF TeeDisconnect, Inv, LinkOK, HandleOK, RingOK
<1> QED BY <1>3, <1>4

LEMMA CallsKeep == ASSUME Inv, NEW h \in Handles, Calls(h) PROVE Inv'
BY InitCallsKeep, ConnectCallsKeep, TransferCallsKeep, DisconnectCallsKeep DEF Calls
------------------------------------------------------------------------------
(* The firmware and the device. *)

\* The message of the host that the firmware answers.
LEMMA AskedTyped ==
  ASSUME Inv, NEW kind, Request(kind)
  PROVE  /\ Asked \in HostMessages /\ Asked \in Messages
         /\ Asked.kind = kind
         /\ Asked.client \in Clients \cup {NoClient} /\ Asked.id \in Ids \cup {0}
         /\ ring.tx \in Seq(HostMessages) /\ ring.tx # <<>>
<1>1. ring.tx \in Seq(HostMessages) /\ ring.tx # <<>>
  BY DEF Request, Inv, RingOK
<1>2. Asked \in HostMessages /\ Asked \in Messages
  BY <1>1, MessagesTyped DEF Asked
<1> QED BY <1>1, <1>2 DEF Messages, Request, Asked

LEMMA AnswersAreSequences ==
  \A m, n \in FwMessages : <<m>> \in Seq(FwMessages) /\ <<m, n>> \in Seq(FwMessages)
OBVIOUS

LEMMA AnswersKeeps ==
  ASSUME Inv, NEW kind, Request(kind), NEW answer \in Seq(FwMessages), Answers(answer),
         conns' \subseteq Connections
  PROVE  Inv'
<1>1. ring.tx \in Seq(HostMessages) /\ ring.tx # <<>> /\ ring.rx \in Seq(FwMessages)
      /\ Len(ring.tx) <= RingCap
  BY AskedTyped DEF Inv, RingOK
<1>2. Tail(ring.tx) \in Seq(HostMessages) /\ Len(Tail(ring.tx)) = Len(ring.tx) - 1
  BY <1>1
<1>3. ring.rx \o answer \in Seq(FwMessages) /\ Len(ring.rx \o answer) = Len(ring.rx) + Len(answer)
  BY <1>1
<1>4. Len(Tail(ring.tx)) <= RingCap /\ Len(ring.rx \o answer) <= RingCap
  BY <1>1, <1>2, <1>3, BoundsAssumption DEF Answers
<1>5. RingOK'
  BY <1>2, <1>3, <1>4 DEF Answers, RingOK
<1> QED BY <1>5 DEF Answers, Inv, LinkOK, HandleOK, CallOK, Current, RetOK

\* A reply names the client and the connection of the request.
LEMMA ReplyTyped ==
  ASSUME Inv, NEW kind, Request(kind)
  PROVE  /\ \A k \in MessageKinds \ {"propRes"}, ok \in BOOLEAN : Reply(k, ok) \in FwMessages
         /\ kind = "propReq" => \A ok \in BOOLEAN : Reply("propRes", ok) \in FwMessages
<1>1. ASSUME NEW k \in MessageKinds, NEW ok \in BOOLEAN PROVE Reply(k, ok) \in Messages
  BY AskedTyped, MessagesTyped DEF Reply
<1>2. ASSUME NEW k, NEW ok PROVE Reply(k, ok).kind = k /\ Reply(k, ok).client = Asked.client
  BY DEF Reply, Msg
<1>3. kind = "propReq" => Asked.client \in Clients
  BY AskedTyped DEF HostMessages
<1>4. "propRes" \in MessageKinds
  BY DEF MessageKinds
<1> QED BY <1>1, <1>2, <1>3, <1>4 DEF FwMessages

LEMMA ConnectionsTyped ==
  ASSUME Inv
  PROVE  /\ conns \subseteq Connections /\ conns \ {Link} \subseteq Connections
         /\ Request("connReq") => conns \cup {Link} \subseteq Connections
<1>1. conns \subseteq Connections
  BY DEF Inv, LinkOK
<1>2. ASSUME Request("connReq") PROVE Asked.client \in Clients /\ Asked.id \in Ids
  BY <1>2, AskedTyped DEF HostMessages
<1> QED BY <1>1, <1>2 DEF Link, Connections

LEMMA FirmwareKeeps == ASSUME Inv, Firmware PROVE Inv'
<1>1. ASSUME FwEnumerates PROVE Inv'
  <2>1. Reply("enumRes", TRUE) \in FwMessages
    BY <1>1, ReplyTyped DEF FwEnumerates, MessageKinds
  <2>2. <<Reply("enumRes", TRUE)>> \in Seq(FwMessages)
    BY <2>1, AnswersAreSequences, Zenon
  <2> QED BY <1>1, <2>2, AnswersKeeps, ConnectionsTyped DEF FwEnumerates
<1>2. ASSUME NEW ok \in BOOLEAN, FwDescribes(ok) PROVE Inv'
  <2>1. Reply("propRes", ok) \in FwMessages
    BY <1>2, ReplyTyped DEF FwDescribes, MessageKinds
  <2>2. <<Reply("propRes", ok)>> \in Seq(FwMessages)
    BY <2>1, AnswersAreSequences, Zenon
  <2> QED BY <1>2, <2>2, AnswersKeeps, ConnectionsTyped DEF FwDescribes
<1>3. ASSUME FwAccepts PROVE Inv'
  <2>1. Reply("connRes", TRUE) \in FwMessages /\ Reply("flow", TRUE) \in FwMessages
    BY <1>3, ReplyTyped DEF FwAccepts, MessageKinds
  <2>2. <<Reply("connRes", TRUE), Reply("flow", TRUE)>> \in Seq(FwMessages)
    BY <2>1, AnswersAreSequences, Zenon
  <2> QED BY <1>3, <2>2, AnswersKeeps, ConnectionsTyped DEF FwAccepts
<1>4. ASSUME FwRefuses PROVE Inv'
  <2>1. Reply("connRes", FALSE) \in FwMessages
    BY <1>4, ReplyTyped DEF FwRefuses, MessageKinds
  <2>2. <<Reply("connRes", FALSE)>> \in Seq(FwMessages)
    BY <2>1, AnswersAreSequences, Zenon
  <2> QED BY <1>4, <2>2, AnswersKeeps, ConnectionsTyped DEF FwRefuses
<1>5. ASSUME FwDisconnects PROVE Inv'
  <2> DEFINE ok == Link \in conns
  <2>1. \A known \in BOOLEAN : Reply("discRes", known) \in FwMessages
    BY <1>5, ReplyTyped DEF FwDisconnects, MessageKinds
  <2>2. ok \in BOOLEAN
    OBVIOUS
  <2>3. <<Reply("discRes", ok)>> \in Seq(FwMessages)
    <3> HIDE DEF ok
    <3> QED BY <2>1, <2>2, AnswersAreSequences, Zenon
  <2> QED BY <1>5, <2>3, AnswersKeeps, ConnectionsTyped DEF FwDisconnects
<1>6. ASSUME FwTakesFlow PROVE Inv'
  <2>1. <<>> \in Seq(FwMessages)
    OBVIOUS
  <2> QED BY <1>6, <2>1, AnswersKeeps, ConnectionsTyped DEF FwTakesFlow
<1>7. ASSUME NEW flowFirst \in BOOLEAN, FwResponds(flowFirst) PROVE Inv'
  <2> DEFINE data == Reply("data", TRUE)
             flow == Reply("flow", TRUE)
  <2>1. data \in FwMessages /\ flow \in FwMessages
    BY <1>7, ReplyTyped DEF FwResponds, MessageKinds
  <2>2. Answers(<<data>>) \/ Answers(<<>>) \/ Answers(<<flow, data>>) \/ Answers(<<data, flow>>)
    BY <1>7 DEF FwResponds
  <2>3. /\ <<data>> \in Seq(FwMessages) /\ <<>> \in Seq(FwMessages)
        /\ <<flow, data>> \in Seq(FwMessages) /\ <<data, flow>> \in Seq(FwMessages)
    <3> HIDE DEF data, flow
    <3> QED BY <2>1
  <2>4. Request("data") /\ conns' \subseteq Connections
    BY <1>7, ConnectionsTyped DEF FwResponds
  <2> HIDE DEF data, flow
  <2> QED BY <2>2, <2>3, <2>4, AnswersKeeps
<1>8. ASSUME FwAnswersOddly PROVE Inv'
  <2>1. PICK kind \in {"enumReq", "propReq", "connReq", "discReq"} : Request(kind)
    BY <1>8 DEF FwAnswersOddly
  <2>2. Reply("odd", TRUE) \in FwMessages
    BY <2>1, ReplyTyped DEF MessageKinds
  <2>3. <<Reply("odd", TRUE)>> \in Seq(FwMessages)
    BY <2>2, AnswersAreSequences, Zenon
  <2> QED BY <1>8, <2>1, <2>3, AnswersKeeps, ConnectionsTyped DEF FwAnswersOddly
<1>9. ASSUME FwResets PROVE Inv'
  BY <1>9, LinkResetKeeps DEF FwResets, Inv, LinkOK, HandleOK, CallOK, Current, RetOK
<1>10. ASSUME DeviceGone PROVE Inv'
  BY <1>10 DEF DeviceGone, Inv, LinkOK, HandleOK, CallOK, Current, RetOK, RingOK
<1> QED
  BY <1>1, <1>2, <1>3, <1>4, <1>5, <1>6, <1>7, <1>8, <1>9, <1>10 DEF Firmware
------------------------------------------------------------------------------
LEMMA InitInv == Init => Inv
<1> SUFFICES ASSUME Init PROVE Inv
  OBVIOUS
<1>1. LinkOK /\ RetOK
  BY BoundsAssumption DEF Init, LinkOK, Libraries, RetOK
<1>2. HandleOK
  BY NewImplTyped DEF Init, HandleOK
<1>3. CallOK
  BY DEF Init, CallOK
<1>4. <<>> \in Seq(HostMessages) /\ <<>> \in Seq(FwMessages) /\ Len(<<>>) = 0 /\ 0 <= RingCap
  BY BoundsAssumption
<1>5. RingOK
  BY <1>4 DEF Init, RingOK
<1> QED BY <1>1, <1>2, <1>3, <1>5 DEF Inv

LEMMA NextInv == Inv /\ [Next]_vars => Inv'
<1> SUFFICES ASSUME Inv, [Next]_vars PROVE Inv'
  OBVIOUS
<1>1. CASE Next
  BY <1>1, CallStepKeeps, CallsKeep, FirmwareKeeps DEF Next
<1>2. CASE UNCHANGED vars
  BY <1>2 DEF vars, Inv, LinkOK, HandleOK, CallOK, Current, RetOK, RingOK
<1> QED BY <1>1, <1>2

LEMMA InvHolds == Spec => []Inv
BY InitInv, NextInv, PTL DEF Spec

LEMMA InvTyped == Inv => TypeOK
<1> SUFFICES ASSUME Inv PROVE TypeOK
  OBVIOUS
<1>1. ring.tx \in Seq(Messages) /\ ring.rx \in Seq(Messages)
  <2>1. ring.tx \in Seq(HostMessages) /\ ring.rx \in Seq(FwMessages)
    BY DEF Inv, RingOK
  <2> QED BY <2>1, MessagesTyped, SeqDef
<1>2. ring \in [tx : Seq(Messages), rx : Seq(Messages)]
  BY <1>1 DEF Inv, RingOK
<1> QED BY <1>2 DEF Inv, LinkOK, Libraries, HandleOK, CallOK, RetOK, RingOK, TypeOK

\* Every variable keeps its type: the buffers never hold more messages than they
\* have room for, and no reply puts a handle or the library out of shape.
THEOREM TypeCorrect == Spec => []TypeOK
BY InvHolds, InvTyped, PTL

\* A handle of an older generation, or of a link known to be broken, writes
\* nothing: EfiTeeHeciSendMessage compares both before it sends, and neither can
\* change before the data is out.
THEOREM StaleHandlesWriteNothing == Spec => StaleHandleWritesNothing
<1>1. Inv => [Len(ring'.tx) > Len(ring.tx) /\ call.op = "write" => lib.valid /\ Current(call.h)]_vars
  BY DEF Inv, CallOK, Idle
<1> QED BY <1>1, InvHolds, PTL DEF StaleHandleWritesNothing
------------------------------------------------------------------------------
(* The table of host client ids. *)

\* The disconnect of a handle has released its id already.
Disconnecting(h) == call.op = "disconnect" /\ call.h = h

\* Outside "any" use the table knows every id a handle has, of whatever generation,
\* and no two handles have the same; the id a connect has chosen is still free.
IdsKnown ==
  /\ \A h \in Handles :
       /\ handle[h].connected => handle[h].id # 0
       /\ handle[h].id # 0 => /\ handle[h].state = "CONNECTED"
                              /\ handle[h].id \in lib.ids \/ Disconnecting(h)
  /\ \A g, h \in Handles : g # h /\ handle[g].id # 0 => handle[g].id # handle[h].id
  /\ call # Idle =>
       /\ call.op = "connect" => handle[call.h].id = 0
       /\ call.pc \in Choosing => call.id \notin lib.ids
       /\ At("reset") => \A h \in Handles : handle[h].id = 0

\* A step that gives no handle an id, and leaves no call that would.
LEMMA IdsOnlyReleased ==
  ASSUME IdsKnown,
         \A h \in Handles :
           /\ handle'[h].connected => handle[h].connected /\ handle'[h].id = handle[h].id
           /\ handle'[h].id \in {0, handle[h].id}
           /\ handle'[h].id # 0 => /\ handle[h].state = "CONNECTED" => handle'[h].state = "CONNECTED"
                                   /\ handle'[h].id \in lib'.ids \/ Disconnecting(h)',
         call' # Idle => /\ call'.op = "connect" => handle'[call'.h].id = 0
                         /\ call'.pc \in Choosing => call'.id \notin lib'.ids
                         /\ call'.pc = "reset" => \A h \in Handles : handle'[h].id = 0
  PROVE  IdsKnown'
BY DEF IdsKnown, At

\* A call returns and leaves the id of its handle as it was.
LEMMA ReturnKeepsIds ==
  ASSUME Inv, IdsKnown, ~At("idle"), NEW efi, NEW hd, NEW msg, Returns(efi, hd, msg),
         call.op # "disconnect" =>
           /\ hd.id = handle[call.h].id
           /\ hd.connected => handle[call.h].connected
           /\ handle[call.h].state = "CONNECTED" => hd.state = "CONNECTED",
         lib'.ids = lib.ids
  PROVE  IdsKnown'
<1>1. call.h \in Handles /\ call' = Idle
  BY CallTyped DEF Returns
<1>2. handle' = [handle EXCEPT ![call.h] = IF call.op = "disconnect" THEN NoImpl ELSE hd]
  BY DEF Returns
<1>3. handle \in [Handles -> Impls]
  BY DEF Inv, HandleOK
<1>4. NoImpl.id = 0 /\ ~NoImpl.connected
  BY DEF NoImpl
<1>5. ASSUME NEW h \in Handles
      PROVE  /\ handle'[h].connected => handle[h].connected /\ handle'[h].id = handle[h].id
             /\ handle'[h].id \in {0, handle[h].id}
             /\ handle'[h].id # 0 => /\ handle[h].state = "CONNECTED" => handle'[h].state = "CONNECTED"
                                     /\ handle'[h].id \in lib'.ids \/ Disconnecting(h)'
  <2>1. CASE h # call.h
    <3>1. handle'[h] = handle[h] /\ ~Disconnecting(h)
      BY <1>2, <1>3, <2>1 DEF Disconnecting
    <3> QED BY <3>1 DEF IdsKnown
  <2>2. CASE h = call.h /\ call.op = "disconnect"
    <3>1. handle'[h] = NoImpl
      BY <1>2, <1>3, <2>2
    <3> QED BY <1>4, <3>1
  <2>3. CASE h = call.h /\ call.op # "disconnect"
    <3>1. handle'[h] = hd /\ ~Disconnecting(h)
      BY <1>2, <1>3, <2>3 DEF Disconnecting
    <3> QED BY <2>3, <3>1 DEF IdsKnown
  <2> QED BY <2>1, <2>2, <2>3
<1> QED BY <1>1, <1>5, IdsOnlyReleased

\* A call goes on without a change of its choice or of any handle's id.
LEMMA ProceedKeepsIds ==
  ASSUME Inv, IdsKnown, ~At("idle"), call'.op = call.op, call'.h = call.h,
         call'.pc # "reset", call'.pc \in Choosing => call.pc \in Choosing /\ call'.id = call.id,
         handle' = handle, lib'.ids = lib.ids
  PROVE  IdsKnown'
<1>1. call # Idle
  BY CallTyped
<1> QED BY <1>1 DEF IdsKnown, Disconnecting, At

\* A connection is made with an id that was free.
LEMMA ConnectKeepsIds ==
  ASSUME Inv, IdsKnown, call.op = "connect", ~At("idle"),
         NEW id \in Ids, id \notin lib.ids,
         Returns("SUCCESS", Connected(call.h, id), NoMsg),
         lib'.ids = lib.ids \cup {id}
  PROVE  IdsKnown'
<1>1. call.h \in Handles /\ call' = Idle /\ call # Idle
  BY CallTyped DEF Returns
<1>2. handle' = [handle EXCEPT ![call.h] = Connected(call.h, id)]
  BY DEF Returns
<1>3. handle \in [Handles -> Impls] /\ id # 0
  BY BoundsAssumption DEF Inv, HandleOK, Ids
<1>4. handle'[call.h].id = id /\ handle'[call.h].state = "CONNECTED"
  BY <1>1, <1>2, <1>3, ConnectedTyped
<1>5. ASSUME NEW h \in Handles, h # call.h
      PROVE  /\ handle'[h] = handle[h]
             /\ handle[h].id # 0 => handle[h].id \in lib.ids /\ handle[h].id # id
  BY <1>1, <1>2, <1>3, <1>5 DEF IdsKnown, Disconnecting
<1>6. ASSUME NEW h \in Handles
      PROVE  /\ handle'[h].connected => handle'[h].id # 0
             /\ handle'[h].id # 0 => /\ handle'[h].state = "CONNECTED"
                                     /\ handle'[h].id \in lib'.ids
  <2>1. CASE h = call.h
    BY <1>3, <1>4, <2>1
  <2>2. CASE h # call.h
    BY <1>5, <2>2 DEF IdsKnown
  <2> QED BY <2>1, <2>2
<1>7. ASSUME NEW g \in Handles, NEW h \in Handles, g # h, handle'[g].id # 0
      PROVE  handle'[g].id # handle'[h].id
  <2>1. CASE g # call.h /\ h # call.h
    BY <1>5, <1>7, <2>1 DEF IdsKnown
  <2>2. CASE g = call.h \/ h = call.h
    BY <1>3, <1>4, <1>5, <1>7, <2>2
  <2> QED BY <2>1, <2>2
<1> QED BY <1>1, <1>6, <1>7 DEF IdsKnown

LEMMA MovesKeepIds ==
  ASSUME Inv, IdsKnown, HbmSent \/ SendAborted \/ ReadAborted \/ DeviceError \/ DataSent
  PROVE  IdsKnown'
<1>1. ~At("idle")
  BY OutgoingTyped
  DEF HbmSent, SendAborted, ReadAborted, DeviceError, DataSent, Reading, At
<1>2. call \in CallsInProgress /\ handle[call.h] \in Impls
  BY <1>1, CallTyped
<1>3. CASE HbmSent
  <2>1. PICK m : call' = [call EXCEPT !.pc = AfterSending[call.pc], !.msg = m]
    BY <1>3 DEF HbmSent
  <2> DEFINE next == AfterSending[call.pc]
  <2>2. next # "reset" /\ (next \in Choosing => call.pc \in Choosing)
    <3>1. call.pc \in {"enumReq", "propReq", "connReq", "writeFlow", "discReq"}
      BY <1>3 DEF HbmSent, AfterSending
    <3> QED BY <3>1 DEF AfterSending, Choosing
  <2>3. call'.op = call.op /\ call'.h = call.h /\ call'.pc = next /\ call'.id = call.id
    <3> HIDE DEF next
    <3>1. call' = [call EXCEPT !.pc = next, !.msg = m]
      BY <2>1 DEF next
    <3> QED BY <1>2, <3>1 DEF CallsInProgress
  <2> HIDE DEF next
  <2> QED BY <1>1, <1>3, <2>2, <2>3, ProceedKeepsIds DEF HbmSent
<1>4. CASE LinkBreaks
  <2> DEFINE hd == [handle[call.h] EXCEPT !.connected = FALSE]
  <2>1. hd.id = handle[call.h].id /\ ~hd.connected /\ hd.state = handle[call.h].state
    BY <1>2 DEF Impls
  <2>2. Returns("MEDIA_CHANGED", hd, NoMsg) /\ lib'.ids = lib.ids
    BY <1>4 DEF LinkBreaks, Inv, LinkOK, Libraries
  <2> HIDE DEF hd
  <2> QED BY <1>1, <2>1, <2>2, ReturnKeepsIds
<1>5. CASE DeviceError \/ DataSent
  BY <1>1, <1>5, ReturnKeepsIds DEF DeviceError, DataSent
<1> QED BY <1>3, <1>4, <1>5 DEF SendAborted, ReadAborted

LEMMA ResetKeepsIds == ASSUME Inv, IdsKnown, ResetSucceeds \/ ResetFails PROVE IdsKnown'
<1>1. ~At("idle") /\ At("reset")
  BY DEF ResetSucceeds, ResetFails, At
<1>2. call \in CallsInProgress /\ call # Idle /\ call.h \in Handles
  BY <1>1, CallTyped
<1>3. CASE ResetSucceeds
  <2>1. \A h \in Handles : handle[h].id = 0
    BY <1>1, <1>2 DEF IdsKnown
  <2>2. call'.h = call.h /\ call'.pc = "enumReq" /\ handle' = handle
    BY <1>2, <1>3 DEF ResetSucceeds, Continues, CallsInProgress
  <2> QED BY <1>2, <2>1, <2>2, IdsOnlyReleased DEF IdsKnown, Choosing
<1>4. CASE ResetFails
  BY <1>1, <1>4, ReturnKeepsIds DEF ResetFails
<1> QED BY <1>3, <1>4

LEMMA EnumerationKeepsIds ==
  ASSUME Inv, IdsKnown, EnumerationAnswered \/ PropertiesAnswered \/ EnumerationDone
  PROVE  IdsKnown'
<1>1. ~At("idle")
  BY DEF EnumerationAnswered, PropertiesAnswered, EnumerationDone, Reads, At
<1>2. call \in CallsInProgress
  BY <1>1, CallTyped
<1>3. lib'.ids = lib.ids
  BY DEF EnumerationAnswered, PropertiesAnswered, EnumerationDone, Inv, LinkOK, Libraries
<1>4. \/ Returns("DEVICE_ERROR", handle[call.h], NoMsg)
      \/ \E pc \in {"propReq", "match"} : \E todo :
           call' = [call EXCEPT !.pc = pc, !.todo = todo] /\ handle' = handle
  <2>1. Continues("match") => call' = [call EXCEPT !.pc = "match", !.todo = call.todo]
    BY <1>2 DEF Continues, CallsInProgress
  <2>2. CASE EnumerationAnswered
    BY <2>2, Zenon DEF EnumerationAnswered
  <2>3. CASE PropertiesAnswered
    BY <2>1, <2>3, Zenon DEF PropertiesAnswered
  <2>4. CASE EnumerationDone
    BY <2>1, <2>4, Zenon DEF EnumerationDone
  <2> QED BY <2>2, <2>3, <2>4
<1>5. CASE Returns("DEVICE_ERROR", handle[call.h], NoMsg)
  BY <1>1, <1>3, <1>5, ReturnKeepsIds
<1>6. ASSUME NEW pc \in {"propReq", "match"}, NEW todo,
             call' = [call EXCEPT !.pc = pc, !.todo = todo], handle' = handle
      PROVE  IdsKnown'
  <2>1. call'.op = call.op /\ call'.h = call.h /\ call'.pc = pc
    BY <1>2, <1>6 DEF CallsInProgress
  <2> QED BY <1>1, <1>3, <1>6, <2>1, ProceedKeepsIds DEF Choosing
<1> QED BY <1>4, <1>5, <1>6

LEMMA MatchKeepsIds ==
  ASSUME Inv, IdsKnown, MatchFails \/ MatchFixed \/ MatchDynamic PROVE IdsKnown'
<1>1. ~At("idle") /\ At("match")
  BY DEF MatchFails, MatchFixed, MatchDynamic, At
<1>2. call \in CallsInProgress /\ call # Idle /\ call.h \in Handles /\ handle[call.h] \in Impls
  BY <1>1, CallTyped
<1>3. call.op = "connect"
  BY <1>1, OpOfPlace DEF At, PlacesOf
<1>4. FreeIds # {} => LowestFreeId \in Ids /\ LowestFreeId \notin lib.ids
  BY LowestIsFree DEF FreeIds
<1>5. CASE MatchFails
  <2> DEFINE hd == [handle[call.h] EXCEPT !.props = FALSE]
  <2>1. hd.id = handle[call.h].id /\ hd.connected = handle[call.h].connected
        /\ hd.state = handle[call.h].state
    BY <1>2 DEF Impls
  <2>2. lib' = lib /\ \E efi : Returns(efi, hd, NoMsg)
    BY <1>5 DEF MatchFails
  <2> HIDE DEF hd
  <2> QED BY <1>1, <2>1, <2>2, ReturnKeepsIds
<1>6. CASE MatchFixed
  <2>1. lib'.ids = lib.ids \cup {LowestFreeId}
    BY <1>6 DEF MatchFixed, Inv, LinkOK, Libraries
  <2>2. FreeIds # {} /\ Returns("SUCCESS", Connected(call.h, LowestFreeId), NoMsg)
    BY <1>6 DEF MatchFixed
  <2> QED BY <1>1, <1>3, <1>4, <2>1, <2>2, ConnectKeepsIds
<1>7. CASE MatchDynamic
  <2>1. /\ LowestFreeId \notin lib.ids /\ lib' = lib
        /\ call' = [call EXCEPT !.pc = "connReq", !.id = LowestFreeId]
        /\ handle' = [handle EXCEPT ![call.h].props = FALSE]
    BY <1>4, <1>7 DEF MatchDynamic
  <2>2. call'.op = "connect" /\ call'.h = call.h /\ call'.pc = "connReq"
        /\ call'.id = LowestFreeId
    BY <1>2, <1>3, <2>1 DEF CallsInProgress
  <2>3. \A h \in Handles : /\ handle'[h].id = handle[h].id
                           /\ handle'[h].connected = handle[h].connected
                           /\ handle'[h].state = handle[h].state
    BY <1>2, <2>1 DEF Inv, HandleOK, Impls
  <2>4. handle[call.h].id = 0 /\ \A h \in Handles : handle[h].id # 0 => handle[h].id \in lib.ids
    BY <1>2, <1>3 DEF IdsKnown, Disconnecting
  <2> QED BY <1>2, <2>1, <2>2, <2>3, <2>4, IdsOnlyReleased
<1> QED BY <1>5, <1>6, <1>7

LEMMA ConnectRepliesKeepIds ==
  ASSUME Inv, IdsKnown, ConnectAnswered \/ ConnectFlowRead PROVE IdsKnown'
<1>1. ~At("idle") /\ (At("connRes") \/ At("connFlow"))
  BY DEF ConnectAnswered, ConnectFlowRead, Reads, At
<1>2. call \in CallsInProgress /\ call # Idle /\ handle[call.h] \in Impls
  BY <1>1, CallTyped
<1>3. call.op = "connect" /\ call.id \in Ids /\ call.id \notin lib.ids
  BY <1>1, <1>2, OpOfPlace DEF At, PlacesOf, Choosing, Inv, CallOK, IdsKnown
<1>4. CASE ConnectAnswered
  <2> DEFINE hd == [handle[call.h] EXCEPT !.state = "CONNECTED"]
  <2>1. hd.id = handle[call.h].id /\ hd.connected = handle[call.h].connected
        /\ hd.state = "CONNECTED"
    BY <1>2 DEF Impls
  <2>2. /\ lib' = lib
        /\ \/ \E efi : Returns(efi, hd, NoMsg)
           \/ \E efi : Returns(efi, handle[call.h], NoMsg)
           \/ Continues("connFlow") /\ UNCHANGED <<handle, ret, owed>>
    BY <1>4 DEF ConnectAnswered
  <2>3. CASE \E efi : Returns(efi, hd, NoMsg)
    <3> HIDE DEF hd
    <3> QED BY <1>1, <2>1, <2>2, <2>3, ReturnKeepsIds
  <2>4. CASE \E efi : Returns(efi, handle[call.h], NoMsg)
    BY <1>1, <2>2, <2>4, ReturnKeepsIds
  <2>5. CASE Continues("connFlow") /\ UNCHANGED <<handle, ret, owed>>
    <3>1. /\ call'.op = call.op /\ call'.h = call.h /\ call'.pc = "connFlow"
          /\ call'.id = call.id
      BY <1>2, <2>5 DEF Continues, CallsInProgress
    <3> QED BY <1>1, <2>2, <2>5, <3>1, ProceedKeepsIds DEF At, Choosing
  <2> HIDE DEF hd
  <2> QED BY <2>2, <2>3, <2>4, <2>5
<1>5. CASE ConnectFlowRead
  <2>1. lib'.ids = lib.ids \cup {call.id}
    BY <1>5 DEF ConnectFlowRead, Inv, LinkOK, Libraries
  <2> QED BY <1>1, <1>3, <1>5, <2>1, ConnectKeepsIds DEF ConnectFlowRead
<1> QED BY <1>4, <1>5

LEMMA TransfersKeepIds ==
  ASSUME Inv, IdsKnown, FirstRead \/ SecondRead \/ FlowAfterRead \/ DisconnectAnswered
  PROVE  IdsKnown'
<1>1. ~At("idle")
  BY DEF FirstRead, SecondRead, FlowAfterRead, DisconnectAnswered, Reads, At
<1>2. call \in CallsInProgress
  BY <1>1, CallTyped
<1>3. lib' = lib
  BY DEF FirstRead, SecondRead, FlowAfterRead, DisconnectAnswered
<1>4. ASSUME NEW msg, Returns("SUCCESS", handle[call.h], msg) PROVE IdsKnown'
  BY <1>1, <1>3, <1>4, ReturnKeepsIds
<1>5. CASE FirstRead
  <2>1. \/ \E msg : Returns("SUCCESS", handle[call.h], msg)
        \/ \E pc \in {"readAgain", "readFlow"} : \E msg :
             call' = [call EXCEPT !.pc = pc, !.msg = msg] /\ handle' = handle
    <3>1. Continues("readAgain") => call' = [call EXCEPT !.pc = "readAgain", !.msg = call.msg]
      BY <1>2 DEF Continues, CallsInProgress
    <3>2. \/ Continues("readAgain") /\ handle' = handle
          \/ call' = [call EXCEPT !.pc = "readFlow", !.msg = Head(ring.rx)] /\ handle' = handle
          \/ Returns("SUCCESS", handle[call.h], Head(ring.rx))
      BY <1>5 DEF FirstRead
    <3> QED BY <3>1, <3>2, Zenon
  <2>2. ASSUME NEW pc \in {"readAgain", "readFlow"}, NEW msg,
               call' = [call EXCEPT !.pc = pc, !.msg = msg], handle' = handle
        PROVE  IdsKnown'
    <3>1. call'.op = call.op /\ call'.h = call.h /\ call'.pc = pc
      BY <1>2, <2>2 DEF CallsInProgress
    <3> QED BY <1>1, <1>3, <2>2, <3>1, ProceedKeepsIds DEF Choosing
  <2> QED BY <1>4, <2>1, <2>2
<1>6. CASE SecondRead \/ FlowAfterRead
  BY <1>4, <1>6 DEF SecondRead, FlowAfterRead
<1>7. CASE DisconnectAnswered
  <2>1. call.op = "disconnect"
    BY <1>1, <1>7, OpOfPlace DEF DisconnectAnswered, Reads, At, PlacesOf
  <2>2. \E efi : Returns(efi, NoImpl, NoMsg)
    BY <1>7 DEF DisconnectAnswered
  <2> QED BY <1>1, <1>3, <2>1, <2>2, ReturnKeepsIds
<1> QED BY <1>5, <1>6, <1>7

LEMMA CallStepKeepsIds == ASSUME Inv, IdsKnown, CallStep PROVE IdsKnown'
BY MovesKeepIds, ResetKeepsIds, EnumerationKeepsIds, MatchKeepsIds, ConnectRepliesKeepIds,
   TransfersKeepIds
DEF CallStep

\* Where no call is in progress every handle's id is in the table.
LEMMA IdleIds ==
  ASSUME Inv, IdsKnown, At("idle")
  PROVE  call = Idle /\ \A h \in Handles : handle[h].id # 0 => handle[h].id \in lib.ids
<1>1. call = Idle
  BY IdleTyped
<1> QED BY <1>1 DEF IdsKnown, Disconnecting, Idle

\* A call that sends nothing keeps the ids of the handles and the table.
LEMMA CallsAtOnceKeepIds ==
  ASSUME Inv, IdsKnown, At("idle"), call' = Idle, lib' = lib,
         \A h \in Handles :
           \/ handle'[h] = handle[h]
           \/ ~handle'[h].connected /\ handle'[h].id = 0
           \/ /\ ~handle'[h].connected /\ handle'[h].id = handle[h].id
              /\ handle'[h].state = handle[h].state
  PROVE  IdsKnown'
BY IdleIds, IdsOnlyReleased

\* A call starts on its handle.
LEMMA StartKeepsIds ==
  ASSUME Inv, IdsKnown, At("idle"), NEW h \in Handles, NEW op, NEW pc, Starts(op, pc, h),
         pc \notin Choosing, handle' = handle, lib'.ids = lib.ids,
         op = "connect" => handle[h].id = 0,
         pc = "reset" => \A g \in Handles : handle[g].id = 0
  PROVE  IdsKnown'
<1>1. call'.op = op /\ call'.pc = pc /\ call'.h = h
  BY DEF Starts
<1> QED BY <1>1, IdleIds, IdsOnlyReleased

LEMMA CallsKeepIds ==
  ASSUME Usage # "any", Inv, IdsKnown, NEW h \in Handles, Calls(h) PROVE IdsKnown'
<1>1. handle \in [Handles -> Impls]
  BY DEF Inv, HandleOK
<1>2. NoImpl.id = 0 /\ ~NoImpl.connected
  BY DEF NoImpl
<1>3. ASSUME NEW client \in Clients, TeeInit(h, client) PROVE IdsKnown'
  <2>1. NewImpl(client).id = 0 /\ ~NewImpl(client).connected
    BY <1>2, NewImplTyped DEF NewImpl, Impls
  <2>2. At("idle") /\ call' = Idle /\ lib' = lib /\ handle' = [handle EXCEPT ![h] = NewImpl(client)]
    BY <1>3, IdleTyped DEF TeeInit, ReturnsAtOnce
  <2> QED BY <1>1, <2>1, <2>2, CallsAtOnceKeepIds
<1>4. ASSUME \/ \E status : TeeInitFails(h, status)
             \/ TeeConnectRefused(h)
             \/ \E op, status : TransferRefused(h, op, status)
             \/ \E op : TransferNotConnected(h, op)
      PROVE  IdsKnown'
  <2>1. At("idle") /\ lib' = lib /\ handle' = handle /\ call' = call
    BY <1>4
    DEF TeeInitFails, TeeConnectRefused, TransferRefused, TransferNotConnected, MayCall,
        ReturnsAtOnce
  <2> QED BY <2>1, IdleTyped, CallsAtOnceKeepIds
<1>5. ASSUME WriteStale(h) PROVE IdsKnown'
  <2>1. At("idle") /\ call' = Idle /\ lib' = lib
        /\ handle' = [handle EXCEPT ![h].connected = FALSE]
    BY <1>5, IdleTyped DEF WriteStale, MayCall, ReturnsAtOnce
  <2> QED BY <1>1, <2>1, CallsAtOnceKeepIds DEF Impls
<1>6. ASSUME TeeWrite(h) \/ TeeRead(h) PROVE IdsKnown'
  <2>1. At("idle") /\ lib' = lib /\ handle' = handle
    BY <1>6 DEF TeeWrite, TeeRead, MayCall
  <2>2. \E op \in {"read", "write"} : \E pc \in {"writeData", "writeFlow", "read"} : Starts(op, pc, h)
    BY <1>6 DEF TeeWrite, TeeRead
  <2> QED BY <2>1, <2>2, StartKeepsIds DEF Choosing
\* A handle that may connect has no id.
<1>7. ~ConnectRefused(h) => handle[h].id = 0
  BY <1>1 DEF ConnectRefused, IdsKnown
<1>8. ASSUME TeeConnectMatches(h) PROVE IdsKnown'
  BY <1>7, <1>8, StartKeepsIds DEF TeeConnectMatches, MayCall, Choosing
\* No other handle has one when the link is reset.
<1>9. ASSUME TeeConnectResets(h) PROVE IdsKnown'
  <2>1. \A g \in Handles : handle[g].id = 0
    BY <1>7, <1>9 DEF TeeConnectResets, MayReset
  <2>2. lib'.ids = lib.ids
    BY <1>9 DEF TeeConnectResets, Inv, LinkOK, Libraries
  <2> QED BY <1>9, <2>1, <2>2, StartKeepsIds DEF TeeConnectResets, MayCall, Choosing
\* The released id is of no other handle.
<1>10. ReleaseId(h) /\ At("idle") =>
         \A g \in Handles \ {h} : handle[g].id # 0 => handle[g].id \in lib'.ids
  <2> SUFFICES ASSUME ReleaseId(h), At("idle"), NEW g \in Handles \ {h}, handle[g].id # 0
               PROVE  handle[g].id \in lib'.ids
    OBVIOUS
  <2>1. handle[g].id \in lib.ids /\ handle[g].id # handle[h].id
    BY IdleIds DEF IdsKnown
  <2> QED BY <2>1 DEF ReleaseId, Inv, LinkOK, Libraries
<1>11. ASSUME DisconnectLocally(h) PROVE IdsKnown'
  <2>1. At("idle") /\ call' = Idle /\ ReleaseId(h) /\ handle' = [handle EXCEPT ![h] = NoImpl]
    BY <1>11, IdleTyped DEF DisconnectLocally, MayCall
  <2> QED BY <1>1, <1>2, <1>10, <2>1, IdsOnlyReleased
<1>12. ASSUME TeeDisconnect(h) PROVE IdsKnown'
  <2>1. /\ At("idle") /\ ReleaseId(h) /\ handle' = handle
        /\ call'.op = "disconnect" /\ call'.h = h /\ call'.pc = "discReq"
    BY <1>12 DEF TeeDisconnect, MayCall, Starts
  <2> QED BY <1>10, <2>1, IdsOnlyReleased DEF Choosing, Disconnecting
<1> QED BY <1>3, <1>4, <1>5, <1>6, <1>8, <1>9, <1>11, <1>12 DEF Calls

LEMMA FirmwareKeepsIds == ASSUME IdsKnown, Firmware PROVE IdsKnown'
<1>1. lib' = lib /\ handle' = handle /\ call' = call
  BY DEF Firmware, FwEnumerates, FwDescribes, FwAccepts, FwRefuses, FwDisconnects, FwTakesFlow,
         FwResponds, FwAnswersOddly, FwResets, DeviceGone, Answers
<1> QED BY <1>1 DEF IdsKnown, Disconnecting, At

LEMMA IdsKnownHolds == ASSUME Usage # "any" PROVE Spec => []IdsKnown
<1>1. Init => IdsKnown
  BY DEF Init, IdsKnown, NoImpl
<1>2. Inv /\ IdsKnown /\ [Next]_vars => IdsKnown'
  <2> SUFFICES ASSUME Inv, IdsKnown, [Next]_vars PROVE IdsKnown'
    OBVIOUS
  <2>1. CASE Next
    BY <2>1, CallStepKeepsIds, CallsKeepIds, FirmwareKeepsIds DEF Next
  <2>2. CASE UNCHANGED vars
    BY <2>2 DEF vars, IdsKnown, Disconnecting, At
  <2> QED BY <2>1, <2>2
<1> QED BY <1>1, <1>2, InvHolds, PTL DEF Spec

\* Where a link is reset only after every other handle was disconnected, no two
\* connected handles of one generation have the same host client id: HostClientIds[]
\* knows each id of a handle from the search that finds it to the disconnect that
\* releases it, whatever fails in between.
THEOREM HostIdsStayDistinct == ASSUME Usage # "any" PROVE Spec => []HostIdsDistinct
<1>1. Inv /\ IdsKnown => HostIdsDistinct
  BY DEF HostIdsDistinct, IdsKnown, Current
<1> QED BY <1>1, InvHolds, IdsKnownHolds, PTL
------------------------------------------------------------------------------
(* No id is taken for nothing. *)

\* The link was reset and the clients are being asked for.
Enumerating == {"enumReq", "enumRes", "propReq", "propRes"}

IdsHeld == \A id \in lib.ids : \E h \in Handles : handle[h].id = id /\ handle[h].gen = lib.gen

\* The ids of the table belong to handles: the enumeration starts from an empty table, the
\* handle of a connect has no id before, and that of a disconnect has given its id back.
IdsGiven ==
  /\ lib.valid => IdsHeld
  /\ \A h \in Handles : handle[h].id # 0 => handle[h].impl /\ handle[h].state = "CONNECTED"
  /\ call # Idle =>
       /\ call.op = "connect" => handle[call.h].id = 0
       /\ call.op = "disconnect" => handle[call.h].id \notin lib.ids
       /\ call.pc \in Enumerating => lib.ids = {}

\* The table loses ids, or handles lose ids that are not in it.
LEMMA HeldKept ==
  ASSUME IdsGiven, lib'.valid => lib'.ids = {} \/ (lib.valid /\ lib'.gen = lib.gen),
         lib'.ids \subseteq lib.ids,
         \A h \in Handles : \/ handle'[h].id = handle[h].id /\ handle'[h].gen = handle[h].gen
                            \/ handle[h].id \notin lib'.ids
  PROVE  lib'.valid => IdsHeld'
<1> SUFFICES ASSUME lib'.valid, NEW id \in lib'.ids
             PROVE  \E h \in Handles : handle'[h].id = id /\ handle'[h].gen = lib'.gen
  BY DEF IdsHeld
<1>1. lib.valid /\ lib'.gen = lib.gen /\ id \in lib.ids
  OBVIOUS
<1>2. PICK h \in Handles : handle[h].id = id /\ handle[h].gen = lib.gen
  BY <1>1 DEF IdsGiven, IdsHeld
<1> QED BY <1>1, <1>2

\* A call returns and leaves the id of its handle as it was.
LEMMA ReturnKeepsGiven ==
  ASSUME Inv, IdsGiven, ~At("idle"), NEW efi, NEW hd, NEW msg, Returns(efi, hd, msg),
         call.op # "disconnect" =>
           /\ hd.id = handle[call.h].id /\ hd.gen = handle[call.h].gen /\ hd.impl
           /\ handle[call.h].state = "CONNECTED" => hd.state = "CONNECTED",
         lib'.ids = lib.ids, lib'.gen = lib.gen, lib'.valid => lib.valid
  PROVE  IdsGiven'
<1>1. call.h \in Handles /\ call' = Idle /\ call # Idle
  BY CallTyped DEF Returns
<1>2. handle' = [handle EXCEPT ![call.h] = IF call.op = "disconnect" THEN NoImpl ELSE hd]
  BY DEF Returns
<1>3. handle \in [Handles -> Impls] /\ NoImpl.id = 0
  BY DEF Inv, HandleOK, NoImpl
<1>4. ASSUME NEW h \in Handles
      PROVE  /\ \/ handle'[h].id = handle[h].id /\ handle'[h].gen = handle[h].gen
                \/ handle[h].id \notin lib'.ids
             /\ handle'[h].id # 0 => handle'[h].impl /\ handle'[h].state = "CONNECTED"
  <2>1. CASE h # call.h
    BY <1>2, <1>3, <2>1 DEF IdsGiven
  <2>2. CASE h = call.h /\ call.op = "disconnect"
    <3>1. handle'[h] = NoImpl
      BY <1>2, <1>3, <2>2
    <3> QED BY <1>1, <1>3, <2>2, <3>1 DEF IdsGiven
  <2>3. CASE h = call.h /\ call.op # "disconnect"
    <3>1. handle'[h] = hd
      BY <1>2, <1>3, <2>3
    <3> QED BY <2>3, <3>1 DEF IdsGiven
  <2> QED BY <2>1, <2>2, <2>3
<1>5. lib'.valid => IdsHeld'
  BY <1>4, HeldKept
<1> QED BY <1>1, <1>4, <1>5 DEF IdsGiven

\* A call goes on without a change of any handle's id.
LEMMA ProceedKeepsGiven ==
  ASSUME Inv, IdsGiven, ~At("idle"), call'.op = call.op, call'.h = call.h,
         \A h \in Handles :
           /\ handle'[h].id = handle[h].id /\ handle'[h].gen = handle[h].gen
           /\ handle'[h].impl = handle[h].impl /\ handle'[h].state = handle[h].state,
         lib'.valid => lib'.ids = {} \/ lib.valid, lib'.ids \subseteq lib.ids, lib'.gen = lib.gen,
         call'.pc \in Enumerating => lib'.ids = {}
  PROVE  IdsGiven'
<1>1. call # Idle /\ call.h \in Handles
  BY CallTyped
<1>2. lib'.valid => IdsHeld'
  BY HeldKept
<1> QED BY <1>1, <1>2 DEF IdsGiven

\* A connection is made with an id that its handle keeps.
LEMMA ConnectKeepsGiven ==
  ASSUME Inv, IdsGiven, ~At("idle"), call.op = "connect", NEW id \in Ids,
         Returns("SUCCESS", Connected(call.h, id), NoMsg),
         lib' = [lib EXCEPT !.ids = lib.ids \cup {id}]
  PROVE  IdsGiven'
<1>1. /\ call.h \in Handles /\ call # Idle /\ call' = Idle /\ handle[call.h].impl
      /\ handle[call.h] \in Impls
  BY CallTyped DEF Returns
<1>2. handle' = [handle EXCEPT ![call.h] = Connected(call.h, id)]
  BY DEF Returns
<1>3. handle \in [Handles -> Impls] /\ lib \in Libraries
  BY DEF Inv, HandleOK, LinkOK
<1>4. /\ handle'[call.h].id = id /\ handle'[call.h].state = "CONNECTED"
      /\ handle'[call.h].gen = lib.gen /\ handle'[call.h].impl
  BY <1>1, <1>2, <1>3 DEF Connected, Impls
<1>5. \A h \in Handles : h # call.h => handle'[h] = handle[h]
  BY <1>1, <1>2, <1>3
<1>6. /\ lib'.ids = lib.ids \cup {id} /\ lib'.gen = lib.gen /\ lib'.valid = lib.valid
      /\ lib.ids \subseteq Ids
  BY <1>3 DEF Libraries
<1>7. ASSUME lib'.valid, NEW taken \in lib'.ids
      PROVE  \E h \in Handles : handle'[h].id = taken /\ handle'[h].gen = lib'.gen
  <2>1. CASE taken = id
    BY <1>1, <1>4, <1>6, <2>1
  <2>2. CASE taken \in lib.ids
    <3>1. PICK h \in Handles : handle[h].id = taken /\ handle[h].gen = lib.gen
      BY <1>6, <1>7, <2>2 DEF IdsGiven, IdsHeld
    <3>2. taken # 0 /\ handle[call.h].id = 0
      BY <1>1, <1>6, <2>2, BoundsAssumption DEF IdsGiven, Ids
    <3> QED BY <1>5, <1>6, <3>1, <3>2
  <2> QED BY <1>6, <1>7, <2>1, <2>2
<1>8. ASSUME NEW h \in Handles, handle'[h].id # 0
      PROVE  handle'[h].impl /\ handle'[h].state = "CONNECTED"
  BY <1>4, <1>5, <1>8 DEF IdsGiven
<1> QED BY <1>1, <1>7, <1>8 DEF IdsGiven, IdsHeld

LEMMA MovesKeepGiven ==
  ASSUME Inv, IdsGiven, HbmSent \/ SendAborted \/ ReadAborted \/ DeviceError \/ DataSent
  PROVE  IdsGiven'
<1>1. ~At("idle")
  BY OutgoingTyped
  DEF HbmSent, SendAborted, ReadAborted, DeviceError, DataSent, Reading, At
<1>2. call # Idle /\ call \in CallsInProgress /\ handle[call.h] \in Impls /\ handle[call.h].impl
  BY <1>1, CallTyped
<1>3. CASE HbmSent
  <2>1. PICK m : call' = [call EXCEPT !.pc = AfterSending[call.pc], !.msg = m]
    BY <1>3 DEF HbmSent
  <2>2. PICK next : next = AfterSending[call.pc]
    OBVIOUS
  <2>3. next \in Enumerating => call.pc \in Enumerating
    <3>1. call.pc \in {"enumReq", "propReq", "connReq", "writeFlow", "discReq"}
      BY <1>3 DEF HbmSent, AfterSending
    <3> QED BY <2>2, <3>1 DEF AfterSending, Enumerating
  <2>4. call'.op = call.op /\ call'.h = call.h /\ call'.pc = next
    BY <1>2, <2>1, <2>2 DEF CallsInProgress
  <2>5. lib' = lib /\ handle' = handle
    BY <1>3 DEF HbmSent
  <2>6. next \in Enumerating => lib.ids = {}
    BY <1>2, <2>3 DEF IdsGiven
  <2> QED BY <1>1, <2>4, <2>5, <2>6, ProceedKeepsGiven
<1>4. CASE LinkBreaks
  <2> DEFINE hd == [handle[call.h] EXCEPT !.connected = FALSE]
  <2>1. /\ hd.id = handle[call.h].id /\ hd.gen = handle[call.h].gen /\ hd.impl
        /\ hd.state = handle[call.h].state
    BY <1>2 DEF Impls
  <2>2. /\ Returns("MEDIA_CHANGED", hd, NoMsg) /\ lib'.ids = lib.ids /\ lib'.gen = lib.gen
        /\ ~lib'.valid
    BY <1>4 DEF LinkBreaks, Inv, LinkOK, Libraries
  <2> HIDE DEF hd
  <2> QED BY <1>1, <2>1, <2>2, ReturnKeepsGiven
<1>5. CASE DeviceError \/ DataSent
  BY <1>1, <1>2, <1>5, ReturnKeepsGiven DEF DeviceError, DataSent
<1> QED BY <1>3, <1>4, <1>5 DEF SendAborted, ReadAborted

LEMMA ResetKeepsGiven == ASSUME Inv, IdsGiven, ResetSucceeds \/ ResetFails PROVE IdsGiven'
<1>1. ~At("idle")
  BY DEF ResetSucceeds, ResetFails, At
<1>2. call \in CallsInProgress /\ call.h \in Handles /\ handle[call.h].impl
  BY <1>1, CallTyped
<1>3. CASE ResetSucceeds
  <2>1. call'.op = call.op /\ call'.h = call.h /\ handle' = handle
    BY <1>2, <1>3 DEF ResetSucceeds, Continues, CallsInProgress
  <2>2. lib'.ids = {} /\ lib'.gen = lib.gen
    BY <1>3 DEF ResetSucceeds, Inv, LinkOK, Libraries
  <2> QED BY <1>1, <2>1, <2>2, ProceedKeepsGiven
<1>4. CASE ResetFails
  BY <1>1, <1>2, <1>4, ReturnKeepsGiven DEF ResetFails
<1> QED BY <1>3, <1>4

LEMMA EnumerationKeepsGiven ==
  ASSUME Inv, IdsGiven, EnumerationAnswered \/ PropertiesAnswered \/ EnumerationDone
  PROVE  IdsGiven'
<1>1. ~At("idle") /\ call.pc \in Enumerating
  BY DEF EnumerationAnswered, PropertiesAnswered, EnumerationDone, Reads, At, Enumerating
<1>2. call \in CallsInProgress /\ call # Idle /\ handle[call.h].impl
  BY <1>1, CallTyped
<1>3. lib.ids = {}
  BY <1>1, <1>2 DEF IdsGiven
<1>4. lib'.ids = lib.ids /\ lib'.gen = lib.gen
  BY DEF EnumerationAnswered, PropertiesAnswered, EnumerationDone, Inv, LinkOK, Libraries
<1>5. \/ Returns("DEVICE_ERROR", handle[call.h], NoMsg) /\ lib' = lib
      \/ \E pc \in {"propReq", "match"} : \E todo :
           call' = [call EXCEPT !.pc = pc, !.todo = todo] /\ handle' = handle
  <2>1. Continues("match") => call' = [call EXCEPT !.pc = "match", !.todo = call.todo]
    BY <1>2 DEF Continues, CallsInProgress
  <2>2. CASE EnumerationAnswered
    BY <2>2, Zenon DEF EnumerationAnswered
  <2>3. CASE PropertiesAnswered
    BY <2>1, <2>3, Zenon DEF PropertiesAnswered
  <2>4. CASE EnumerationDone
    BY <2>1, <2>4, Zenon DEF EnumerationDone
  <2> QED BY <2>2, <2>3, <2>4
<1>6. CASE Returns("DEVICE_ERROR", handle[call.h], NoMsg) /\ lib' = lib
  BY <1>1, <1>2, <1>6, ReturnKeepsGiven
<1>7. ASSUME NEW pc \in {"propReq", "match"}, NEW todo,
             call' = [call EXCEPT !.pc = pc, !.todo = todo], handle' = handle
      PROVE  IdsGiven'
  <2>1. call'.op = call.op /\ call'.h = call.h
    BY <1>2, <1>7 DEF CallsInProgress
  <2> QED BY <1>1, <1>3, <1>4, <1>7, <2>1, ProceedKeepsGiven
<1> QED BY <1>5, <1>6, <1>7

LEMMA MatchKeepsGiven ==
  ASSUME Inv, IdsGiven, MatchFails \/ MatchFixed \/ MatchDynamic PROVE IdsGiven'
<1>1. ~At("idle") /\ At("match")
  BY DEF MatchFails, MatchFixed, MatchDynamic, At
<1>2. /\ call \in CallsInProgress /\ call # Idle /\ call.h \in Handles
      /\ handle[call.h] \in Impls /\ handle[call.h].impl
  BY <1>1, CallTyped
<1>3. call.op = "connect"
  BY <1>1, OpOfPlace DEF At, PlacesOf
<1>4. CASE MatchFails
  <2> DEFINE hd == [handle[call.h] EXCEPT !.props = FALSE]
  <2>1. /\ hd.id = handle[call.h].id /\ hd.gen = handle[call.h].gen /\ hd.impl
        /\ hd.state = handle[call.h].state
    BY <1>2 DEF Impls
  <2>2. lib' = lib /\ \E efi : Returns(efi, hd, NoMsg)
    BY <1>4 DEF MatchFails
  <2> HIDE DEF hd
  <2> QED BY <1>1, <2>1, <2>2, ReturnKeepsGiven
<1>5. CASE MatchFixed
  <2>1. LowestFreeId \in Ids
    BY <1>5, LowestIsFree DEF MatchFixed, FreeIds
  <2> QED BY <1>1, <1>3, <1>5, <2>1, ConnectKeepsGiven DEF MatchFixed
<1>6. CASE MatchDynamic
  <2>1. /\ lib' = lib /\ call' = [call EXCEPT !.pc = "connReq", !.id = LowestFreeId]
        /\ handle' = [handle EXCEPT ![call.h].props = FALSE]
    BY <1>6 DEF MatchDynamic
  <2>2. call'.op = call.op /\ call'.h = call.h /\ call'.pc = "connReq"
    BY <1>2, <2>1 DEF CallsInProgress
  <2>3. \A h \in Handles :
          /\ handle'[h].id = handle[h].id /\ handle'[h].gen = handle[h].gen
          /\ handle'[h].impl = handle[h].impl /\ handle'[h].state = handle[h].state
    BY <1>2, <2>1 DEF Inv, HandleOK, Impls
  <2> QED BY <1>1, <2>1, <2>2, <2>3, ProceedKeepsGiven DEF Enumerating
<1> QED BY <1>4, <1>5, <1>6

LEMMA ConnectRepliesKeepGiven ==
  ASSUME Inv, IdsGiven, ConnectAnswered \/ ConnectFlowRead PROVE IdsGiven'
<1>1. ~At("idle") /\ (At("connRes") \/ At("connFlow"))
  BY DEF ConnectAnswered, ConnectFlowRead, Reads, At
<1>2. call \in CallsInProgress /\ handle[call.h] \in Impls /\ handle[call.h].impl
  BY <1>1, CallTyped
<1>3. call.op = "connect" /\ call.id \in Ids
  BY <1>1, <1>2, OpOfPlace, CallTyped DEF At, PlacesOf, Choosing, Inv, CallOK
<1>4. CASE ConnectAnswered
  <2> DEFINE hd == [handle[call.h] EXCEPT !.state = "CONNECTED"]
  <2>1. /\ hd.id = handle[call.h].id /\ hd.gen = handle[call.h].gen /\ hd.impl
        /\ hd.state = "CONNECTED"
    BY <1>2 DEF Impls
  <2>2. /\ lib' = lib
        /\ \/ \E efi : Returns(efi, hd, NoMsg)
           \/ \E efi : Returns(efi, handle[call.h], NoMsg)
           \/ Continues("connFlow") /\ UNCHANGED <<handle, ret, owed>>
    BY <1>4 DEF ConnectAnswered
  <2>3. CASE \E efi : Returns(efi, hd, NoMsg)
    <3> HIDE DEF hd
    <3> QED BY <1>1, <2>1, <2>2, <2>3, ReturnKeepsGiven
  <2>4. CASE \E efi : Returns(efi, handle[call.h], NoMsg)
    BY <1>1, <1>2, <2>2, <2>4, ReturnKeepsGiven
  <2>5. CASE Continues("connFlow") /\ UNCHANGED <<handle, ret, owed>>
    <3>1. call'.op = call.op /\ call'.h = call.h /\ call'.pc = "connFlow"
      BY <1>2, <2>5 DEF Continues, CallsInProgress
    <3> QED BY <1>1, <2>2, <2>5, <3>1, ProceedKeepsGiven DEF Enumerating
  <2> HIDE DEF hd
  <2> QED BY <2>2, <2>3, <2>4, <2>5
<1>5. CASE ConnectFlowRead
  BY <1>1, <1>3, <1>5, ConnectKeepsGiven DEF ConnectFlowRead
<1> QED BY <1>4, <1>5

LEMMA TransfersKeepGiven ==
  ASSUME Inv, IdsGiven, FirstRead \/ SecondRead \/ FlowAfterRead \/ DisconnectAnswered
  PROVE  IdsGiven'
<1>1. ~At("idle")
  BY DEF FirstRead, SecondRead, FlowAfterRead, DisconnectAnswered, Reads, At
<1>2. call \in CallsInProgress /\ handle[call.h].impl
  BY <1>1, CallTyped
<1>3. lib' = lib
  BY DEF FirstRead, SecondRead, FlowAfterRead, DisconnectAnswered
<1>4. ASSUME NEW msg, Returns("SUCCESS", handle[call.h], msg) PROVE IdsGiven'
  BY <1>1, <1>2, <1>3, <1>4, ReturnKeepsGiven
<1>5. CASE FirstRead
  <2>1. \/ \E msg : Returns("SUCCESS", handle[call.h], msg)
        \/ \E pc \in {"readAgain", "readFlow"} : \E msg :
             call' = [call EXCEPT !.pc = pc, !.msg = msg] /\ handle' = handle
    <3>1. Continues("readAgain") => call' = [call EXCEPT !.pc = "readAgain", !.msg = call.msg]
      BY <1>2 DEF Continues, CallsInProgress
    <3>2. \/ Continues("readAgain") /\ handle' = handle
          \/ call' = [call EXCEPT !.pc = "readFlow", !.msg = Head(ring.rx)] /\ handle' = handle
          \/ Returns("SUCCESS", handle[call.h], Head(ring.rx))
      BY <1>5 DEF FirstRead
    <3> QED BY <3>1, <3>2, Zenon
  <2>2. ASSUME NEW pc \in {"readAgain", "readFlow"}, NEW msg,
               call' = [call EXCEPT !.pc = pc, !.msg = msg], handle' = handle
        PROVE  IdsGiven'
    <3>1. call'.op = call.op /\ call'.h = call.h /\ call'.pc = pc
      BY <1>2, <2>2 DEF CallsInProgress
    <3>2. pc \notin Enumerating
      BY DEF Enumerating
    <3> QED BY <1>1, <1>3, <2>2, <3>1, <3>2, ProceedKeepsGiven
  <2> QED BY <1>4, <2>1, <2>2
<1>6. CASE SecondRead \/ FlowAfterRead
  BY <1>4, <1>6 DEF SecondRead, FlowAfterRead
<1>7. CASE DisconnectAnswered
  <2>1. call.op = "disconnect"
    BY <1>1, <1>7, OpOfPlace DEF DisconnectAnswered, Reads, At, PlacesOf
  <2>2. \E efi : Returns(efi, NoImpl, NoMsg)
    BY <1>7 DEF DisconnectAnswered
  <2> QED BY <1>1, <1>3, <2>1, <2>2, ReturnKeepsGiven
<1> QED BY <1>5, <1>6, <1>7

LEMMA CallStepKeepsGiven == ASSUME Inv, IdsGiven, CallStep PROVE IdsGiven'
BY MovesKeepGiven, ResetKeepsGiven, EnumerationKeepsGiven, MatchKeepsGiven,
   ConnectRepliesKeepGiven, TransfersKeepGiven
DEF CallStep

\* A call that sends nothing.
LEMMA CallsAtOnceKeepGiven ==
  ASSUME IdsGiven, call' = Idle, lib'.ids \subseteq lib.ids, lib'.gen = lib.gen,
         lib'.valid = lib.valid,
         \A h \in Handles :
           \/ /\ handle'[h].id = handle[h].id /\ handle'[h].gen = handle[h].gen
              /\ handle'[h].impl = handle[h].impl /\ handle'[h].state = handle[h].state
           \/ handle[h].id \notin lib'.ids /\ handle'[h].id = 0
  PROVE  IdsGiven'
<1>1. lib'.valid => IdsHeld'
  BY HeldKept
<1> QED BY <1>1 DEF IdsGiven

\* A call starts on its handle.
LEMMA StartKeepsGiven ==
  ASSUME IdsGiven, NEW h \in Handles, NEW op, NEW pc, Starts(op, pc, h), handle' = handle,
         pc \notin Enumerating, lib'.ids \subseteq lib.ids,
         lib'.valid => lib.valid /\ lib'.gen = lib.gen,
         op = "connect" => handle[h].id = 0, op = "disconnect" => handle[h].id \notin lib'.ids
  PROVE  IdsGiven'
<1>1. call'.op = op /\ call'.pc = pc /\ call'.h = h
  BY DEF Starts
<1>2. lib'.valid => IdsHeld'
  BY HeldKept
<1> QED BY <1>1, <1>2 DEF IdsGiven

LEMMA CallsKeepGiven == ASSUME Inv, IdsGiven, NEW h \in Handles, Calls(h) PROVE IdsGiven'
<1>1. handle \in [Handles -> Impls] /\ lib \in Libraries
  BY DEF Inv, HandleOK, LinkOK
<1>2. NoImpl.id = 0 /\ 0 \notin lib.ids
  BY <1>1, BoundsAssumption DEF NoImpl, Libraries, Ids
<1>3. ASSUME NEW client \in Clients, TeeInit(h, client) PROVE IdsGiven'
  <2>1. NewImpl(client).id = 0
    BY <1>2, NewImplTyped DEF NewImpl, Impls
  <2>2. /\ call' = Idle /\ lib' = lib /\ handle' = [handle EXCEPT ![h] = NewImpl(client)]
        /\ ~handle[h].impl
    BY <1>3, IdleTyped DEF TeeInit, ReturnsAtOnce
  <2>3. handle[h].id \notin lib'.ids
    BY <1>2, <2>2 DEF IdsGiven
  <2> QED BY <1>1, <2>1, <2>2, <2>3, CallsAtOnceKeepGiven
<1>4. ASSUME \/ \E status : TeeInitFails(h, status)
             \/ TeeConnectRefused(h)
             \/ \E op, status : TransferRefused(h, op, status)
             \/ \E op : TransferNotConnected(h, op)
      PROVE  IdsGiven'
  <2>1. At("idle") /\ lib' = lib /\ handle' = handle /\ call' = call
    BY <1>4
    DEF TeeInitFails, TeeConnectRefused, TransferRefused, TransferNotConnected, MayCall,
        ReturnsAtOnce
  <2> QED BY <2>1, IdleTyped, CallsAtOnceKeepGiven
<1>5. ASSUME WriteStale(h) PROVE IdsGiven'
  <2>1. call' = Idle /\ lib' = lib /\ handle' = [handle EXCEPT ![h].connected = FALSE]
    BY <1>5, IdleTyped DEF WriteStale, MayCall, ReturnsAtOnce
  <2> QED BY <1>1, <2>1, CallsAtOnceKeepGiven DEF Impls
<1>6. ASSUME TeeWrite(h) \/ TeeRead(h) PROVE IdsGiven'
  <2>1. lib' = lib /\ handle' = handle
    BY <1>6 DEF TeeWrite, TeeRead
  <2>2. \E op \in {"read", "write"} : \E pc \in {"writeData", "writeFlow", "read"} : Starts(op, pc, h)
    BY <1>6 DEF TeeWrite, TeeRead
  <2> QED BY <2>1, <2>2, StartKeepsGiven DEF Enumerating
\* A handle that may connect has no id.
<1>7. ~ConnectRefused(h) => handle[h].id = 0
  BY DEF ConnectRefused, IdsGiven
<1>8. ASSUME TeeConnectMatches(h) PROVE IdsGiven'
  BY <1>7, <1>8, StartKeepsGiven DEF TeeConnectMatches, Enumerating
<1>9. ASSUME TeeConnectResets(h) PROVE IdsGiven'
  <2>1. lib'.ids = lib.ids /\ ~lib'.valid
    BY <1>1, <1>9 DEF TeeConnectResets, Libraries
  <2> QED BY <1>7, <1>9, <2>1, StartKeepsGiven DEF TeeConnectResets, Enumerating
<1>10. ReleaseId(h) => /\ lib'.ids \subseteq lib.ids /\ lib'.gen = lib.gen
                       /\ lib'.valid = lib.valid /\ handle[h].id \notin lib'.ids
  BY <1>1 DEF ReleaseId, Libraries
<1>11. ASSUME DisconnectLocally(h) PROVE IdsGiven'
  <2>1. call' = Idle /\ ReleaseId(h) /\ handle' = [handle EXCEPT ![h] = NoImpl]
    BY <1>11, IdleTyped DEF DisconnectLocally, MayCall
  <2> QED BY <1>1, <1>2, <1>10, <2>1, CallsAtOnceKeepGiven
<1>12. ASSUME TeeDisconnect(h) PROVE IdsGiven'
  BY <1>10, <1>12, StartKeepsGiven DEF TeeDisconnect, Enumerating
<1> QED BY <1>3, <1>4, <1>5, <1>6, <1>8, <1>9, <1>11, <1>12 DEF Calls

LEMMA FirmwareKeepsGiven == ASSUME IdsGiven, Firmware PROVE IdsGiven'
<1>1. lib' = lib /\ handle' = handle /\ call' = call
  BY DEF Firmware, FwEnumerates, FwDescribes, FwAccepts, FwRefuses, FwDisconnects, FwTakesFlow,
         FwResponds, FwAnswersOddly, FwResets, DeviceGone, Answers
<1> QED BY <1>1 DEF IdsGiven, IdsHeld

\* In any use and with any answers, an id that HostClientIds[] shows as taken on a valid
\* link belongs to a handle of this generation: EfiTeeHeciConnectClient marks it only with
\* the connection, and EfiTeeHeciUninitialize clears it first of all.
THEOREM IdsAreAccounted == Spec => []IdsAccounted
<1>1. Init => IdsGiven
  BY DEF Init, IdsGiven, IdsHeld, NoImpl
<1>2. Inv /\ IdsGiven /\ [Next]_vars => IdsGiven'
  <2> SUFFICES ASSUME Inv, IdsGiven, [Next]_vars PROVE IdsGiven'
    OBVIOUS
  <2>1. CASE Next
    BY <2>1, CallStepKeepsGiven, CallsKeepGiven, FirmwareKeepsGiven DEF Next
  <2>2. CASE UNCHANGED vars
    BY <2>2 DEF vars, IdsGiven, IdsHeld
  <2> QED BY <2>1, <2>2
<1>3. IdsGiven => IdsAccounted
  BY DEF IdsGiven, IdsHeld, IdsAccounted
<1> QED BY <1>1, <1>2, <1>3, InvHolds, PTL DEF Spec
===============================================================================
