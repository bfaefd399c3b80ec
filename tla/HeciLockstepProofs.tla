--------------------------- MODULE HeciLockstepProofs ---------------------------
(***************************************************************************)
(* The HECI bus layer where the answer of each request is read before      *)
(* anything else is called, and the firmware answers bus messages with the *)
(* replies they ask for.  Replies are then told apart by their order       *)
(* alone, whatever fails, for any number of handles and clients.           *)
(***************************************************************************)
EXTENDS HeciBusProofs

Lockstep == Usage = "lockstep" /\ OddReplies = FALSE

\* What the circular buffers hold in an exchange: nothing, since it has not begun or
\* the firmware reset; requests the firmware has still to take; or its answer.
Quiet == ring.tx = <<>> /\ ring.rx = <<>>

Sent(requests) == ring.tx = requests /\ ring.rx = <<>>

Answered(replies) == ring.tx = <<>> /\ ring.rx = replies

\* The flow control of a handle's connection.
Flow(h) == Hbm("flow", h, handle[h].id)

\* The exchange of a request whose answer has still to be read.
DataExchange(h) ==
  \/ Quiet
  \/ Sent(<<Data(h)>>)
  \/ (IsFixed(h) /\ Answered(<<Data(h)>>))
  \/ (~IsFixed(h) /\ (Sent(<<Flow(h), Data(h)>>) \/ Answered(<<Flow(h), Data(h)>>)))
  \/ (~IsFixed(h) /\ HeciFunction = 0 /\ Answered(<<Data(h), Flow(h)>>))

PropertiesExchange(client) ==
  \/ Quiet
  \/ Sent(<<Msg("propReq", client, 0, TRUE)>>)
  \/ \E ok \in BOOLEAN : Answered(<<Msg("propRes", client, 0, ok)>>)

ConnectExchange(h, id) ==
  \/ Quiet
  \/ Sent(<<Hbm("connReq", h, id)>>)
  \/ Answered(<<Hbm("connRes", h, id), Hbm("flow", h, id)>>)
  \/ Answered(<<Msg("connRes", handle[h].client, id, FALSE)>>)

DisconnectExchange(h) ==
  \/ Quiet
  \/ Sent(<<Hbm("discReq", h, handle[h].id)>>)
  \/ \E ok \in BOOLEAN : Answered(<<Msg("discRes", handle[h].client, handle[h].id, ok)>>)

\* The places of a call at which none of its messages is on its way.
QuietPlaces == {"enumReq", "propReq", "match", "connReq", "writeFlow", "discReq"}

\* What the buffers hold at each place of a call, and between calls.
Conversation ==
  /\ At("idle") /\ owed = {} => Quiet
  /\ At("idle") \/ At("read") => \A h \in owed : DataExchange(h)
  /\ call.pc \in QuietPlaces => Quiet
  /\ At("enumRes") => \/ Quiet
                      \/ Sent(<<Msg("enumReq", NoClient, 0, TRUE)>>)
                      \/ Answered(<<Msg("enumRes", NoClient, 0, TRUE)>>)
  /\ At("propRes") => \E client \in Clients : PropertiesExchange(client)
  /\ At("connRes") => ConnectExchange(call.h, call.id)
  /\ At("connFlow") => Quiet \/ Answered(<<Hbm("flow", call.h, call.id)>>)
  /\ At("writeData") => Quiet \/ (~IsFixed(call.h) /\ Sent(<<Flow(call.h)>>))
  /\ At("readAgain") => Quiet \/ Answered(<<Data(call.h)>>)
  /\ At("readFlow") => Quiet \/ Answered(<<Flow(call.h)>>)
  /\ At("discRes") => DisconnectExchange(call.h)

LinkOf(h, id) == [client |-> handle[h].client, id |-> id]

\* The connection that the connect in progress is about to have.
Pending(c) ==
  /\ At("connFlow") \/ (At("connRes") /\ ring.rx # <<>> /\ Head(ring.rx).ok)
  /\ c = LinkOf(call.h, call.id)

\* The firmware holds the connections of the handles and no other.
ConnsKnown ==
  /\ \A c \in conns :
       /\ c.client \notin FixedClients
       /\ Pending(c) \/ \E h \in Handles : Current(h) /\ c = LinkOf(h, handle[h].id)
  /\ At("discRes") /\ ring.rx # <<>> => LinkOf(call.h, handle[call.h].id) \notin conns

\* The link is in order, or a connect has just reset it.
InOrder == present /\ (lib.valid \/ (call.op = "connect" /\ ~At("reset")))

\* A handle that is connected has a struct, in the state of a connection and with the
\* properties of its client.
ConnectedHandles ==
  \A h \in Handles :
    handle[h].connected => handle[h].impl /\ handle[h].props /\ handle[h].state = "CONNECTED"

\* One handle at most has an answer to read.
OwedOnce == \A h \in owed : owed = {h} /\ lib.valid /\ handle[h].connected

\* What a call in progress has made sure of.
CallRole ==
  ~At("idle") =>
    /\ call.op = "read" => owed = {call.h}
    /\ call.op # "read" => owed = {}
    /\ call.op = "connect" => ~handle[call.h].connected
    /\ At("reset") => ~lib.valid
    /\ call.pc \in Choosing => handle[call.h].client \notin FixedClients
    /\ call.pc \in {"writeFlow", "readAgain", "readFlow", "discReq", "discRes"} => ~IsFixed(call.h)
    /\ At("readFlow") => call.msg = Data(call.h)

OwnMessage == ret.op = "read" /\ ret.status = "SUCCESS" => ret.msg = Data(ret.h)

Roles == ConnectedHandles /\ OwedOnce /\ CallRole /\ OwnMessage

InStep == InOrder => Conversation /\ ConnsKnown
------------------------------------------------------------------------------
(* Messages and buffers. *)

LEMMA MessageFields ==
  \A k, c, i, o : /\ Msg(k, c, i, o).kind = k /\ Msg(k, c, i, o).client = c
                  /\ Msg(k, c, i, o).id = i
BY DEF Msg

LEMMA OkField == \A k, c, i, o : Msg(k, c, i, o).ok = o
BY DEF Msg

LEMMA RefusalIsNotOk == \A k, c, i : ~Msg(k, c, i, FALSE).ok
BY OkField

LEMMA HbmFields ==
  \A k, h, i : /\ Hbm(k, h, i).kind = k /\ Hbm(k, h, i).client = handle[h].client
               /\ Hbm(k, h, i).id = i /\ Hbm(k, h, i).ok = TRUE
BY DEF Hbm, Msg

LEMMA DataFields ==
  \A h : /\ Data(h).kind = "data" /\ Data(h).client = handle[h].client
         /\ Flow(h).kind = "flow"
         /\ ~IsFixed(h) => Data(h).id = handle[h].id
BY DEF Data, Flow, Hbm, Msg

\* What is said of a handle depends on its struct alone.
LEMMA SteadyHandle ==
  ASSUME NEW h, handle'[h] = handle[h]
  PROVE  /\ Data(h)' = Data(h) /\ Flow(h)' = Flow(h)
         /\ IsFixed(h)' <=> IsFixed(h)
         /\ \A k, i : Hbm(k, h, i)' = Hbm(k, h, i)
         /\ \A i : LinkOf(h, i)' = LinkOf(h, i)
BY DEF Data, Flow, Hbm, Msg, IsFixed, LinkOf

LEMMA ShortSequences ==
  /\ \A m : Append(<<>>, m) = <<m>> /\ Head(<<m>>) = m /\ Tail(<<m>>) = <<>> /\ <<m>> # <<>>
  /\ \A m, n : /\ Append(<<m>>, n) = <<m, n>> /\ Head(<<m, n>>) = m /\ Tail(<<m, n>>) = <<n>>
              /\ <<m, n>> # <<>>
<1>1. ASSUME NEW m PROVE Append(<<>>, m) = <<m>> /\ Head(<<m>>) = m /\ Tail(<<m>>) = <<>> /\ <<m>> # <<>>
  OBVIOUS
<1>2. ASSUME NEW m, NEW n
      PROVE /\ Append(<<m>>, n) = <<m, n>> /\ Head(<<m, n>>) = m /\ Tail(<<m, n>>) = <<n>>
            /\ <<m, n>> # <<>>
  <2>1. Append(<<m>>, n) = <<m, n>>
    <3>1. <<m>> \in Seq({m, n}) /\ Len(<<m>>) = 1 /\ <<m>>[1] = m
      OBVIOUS
    <3>2. <<m, n>> \in Seq({m, n}) /\ Len(<<m, n>>) = 2 /\ <<m, n>>[1] = m /\ <<m, n>>[2] = n
      OBVIOUS
    <3> DEFINE s == Append(<<m>>, n)
    <3>3. s \in Seq({m, n}) /\ Len(s) = 2 /\ s[1] = m /\ s[2] = n
      BY <3>1, AppendProperties
    <3> HIDE DEF s
    <3>4. s = <<m, n>>
      BY <3>2, <3>3, SeqEqual
    <3> QED BY <3>4 DEF s
  <2>2. Head(<<m, n>>) = m /\ <<m, n>> # <<>>
    OBVIOUS
  <2>3. Tail(<<m, n>>) = <<n>>
    OBVIOUS
  <2> QED BY <2>1, <2>2, <2>3
<1> QED BY <1>1, <1>2

LEMMA SendsMore ==
  ASSUME Inv, NEW m, Sends(m)
  PROVE  /\ ring'.rx = ring.rx
         /\ Quiet => ring'.tx = <<m>>
         /\ \A f : Sent(<<f>>) => ring'.tx = <<f, m>>
<1>1. ring'.tx = Append(ring.tx, m) /\ ring'.rx = ring.rx
  BY DEF Sends, Inv, RingOK
<1> QED BY <1>1, ShortSequences DEF Quiet, Sent

LEMMA ReadsFirst ==
  ASSUME Inv, NEW pc, Reads(pc)
  PROVE  /\ ~Quiet /\ \A s : ~Sent(s)
         /\ ring'.tx = ring.tx
         /\ \A m : Answered(<<m>>) => Head(ring.rx) = m /\ ring'.rx = <<>>
         /\ \A m, n : Answered(<<m, n>>) => Head(ring.rx) = m /\ ring'.rx = <<n>>
<1>1. ring'.tx = ring.tx /\ ring'.rx = Tail(ring.rx) /\ ring.rx # <<>>
  BY DEF Reads, Inv, RingOK
<1> QED BY <1>1, ShortSequences DEF Quiet, Sent, Answered

LEMMA ShortAnswers ==
  /\ <<>> \o <<>> = <<>>
  /\ \A m : <<>> \o <<m>> = <<m>>
  /\ \A m, n : <<>> \o <<m, n>> = <<m, n>>
<1>1. \A S : \A s \in Seq(S) : <<>> \o s = s
  BY ConcatEmptySeq
<1>2. ASSUME NEW m PROVE <<>> \o <<m>> = <<m>>
  BY <1>1, <<m>> \in Seq({m})
<1>3. ASSUME NEW m, NEW n PROVE <<>> \o <<m, n>> = <<m, n>>
  BY <1>1, <<m, n>> \in Seq({m, n})
<1>4. <<>> \o <<>> = <<>>
  BY <1>1, <<>> \in Seq({})
<1> QED BY <1>2, <1>3, <1>4

LEMMA AnswersFirst ==
  ASSUME NEW answer, Answers(answer)
  PROVE  /\ UNCHANGED <<lib, handle, call, ret, owed, present>>
         /\ \A m : Sent(<<m>>) => /\ Asked = m
                                 /\ ring'.tx = <<>> /\ ring'.rx = <<>> \o answer
         /\ \A m, n : Sent(<<m, n>>) => /\ Asked = m
                                       /\ ring'.tx = <<n>> /\ ring'.rx = <<>> \o answer
<1>1. ring'.tx = Tail(ring.tx) /\ ring'.rx = ring.rx \o answer
  BY DEF Answers
<1>2. ASSUME NEW m, Sent(<<m>>)
      PROVE  Asked = m /\ ring'.tx = <<>> /\ ring'.rx = <<>> \o answer
  BY <1>1, <1>2, ShortSequences DEF Sent, Asked
<1>3. ASSUME NEW m, NEW n, Sent(<<m, n>>)
      PROVE  Asked = m /\ ring'.tx = <<n>> /\ ring'.rx = <<>> \o answer
  BY <1>1, <1>3, ShortSequences DEF Sent, Asked
<1>4. UNCHANGED <<lib, handle, call, ret, owed, present>>
  BY DEF Answers
<1> QED BY <1>2, <1>3, <1>4
------------------------------------------------------------------------------
(* The firmware. *)

EnumerationAsked == At("enumRes") /\ Sent(<<Msg("enumReq", NoClient, 0, TRUE)>>)

PropertiesAsked(client) == At("propRes") /\ Sent(<<Msg("propReq", client, 0, TRUE)>>)

ConnectAsked == At("connRes") /\ Sent(<<Hbm("connReq", call.h, call.id)>>)

DisconnectAsked == At("discRes") /\ Sent(<<Hbm("discReq", call.h, handle[call.h].id)>>)

FlowAlone == At("writeData") /\ ~IsFixed(call.h) /\ Sent(<<Flow(call.h)>>)

FlowBeforeData(h) ==
  (At("idle") \/ At("read")) /\ ~IsFixed(h) /\ Sent(<<Flow(h), Data(h)>>)

DataAsked(h) == (At("idle") \/ At("read")) /\ Sent(<<Data(h)>>)

\* Each message of the host is met at one place only, flow control at two.
LEMMA RequestPlaces ==
  ASSUME Inv, CallRole, InOrder, Conversation, NEW kind, Request(kind)
  PROVE  \/ kind = "enumReq" /\ EnumerationAsked
         \/ kind = "propReq" /\ \E client \in Clients : PropertiesAsked(client)
         \/ kind = "connReq" /\ ConnectAsked
         \/ kind = "discReq" /\ DisconnectAsked
         \/ kind = "flow" /\ (FlowAlone \/ \E h \in owed : FlowBeforeData(h))
         \/ kind = "data" /\ \E h \in owed : DataAsked(h)
<1>1. ring.tx # <<>> /\ Head(ring.tx).kind = kind
  BY DEF Request
<1>2. ~Quiet /\ \A s : ~Answered(s)
  BY <1>1 DEF Quiet, Answered
<1>3. call.pc \in Places
  <2>1. CASE At("idle")
    BY <2>1 DEF At, Places
  <2>2. CASE ~At("idle")
    BY <2>2, CallTyped DEF CallsInProgress
  <2> QED BY <2>1, <2>2
<1>4. \A m : Sent(<<m>>) => kind = m.kind
  BY <1>1, ShortSequences DEF Sent
<1>5. \A m, n : Sent(<<m, n>>) => kind = m.kind
  BY <1>1, ShortSequences DEF Sent
<1>6. CASE At("idle") \/ At("read")
  <2>1. PICK h \in owed : DataExchange(h)
    <3>1. CASE At("idle")
      BY <1>2, <3>1 DEF Conversation
    <3>2. CASE At("read")
      <4>1. ~At("idle") /\ call.op = "read"
        BY <3>2, OpOfPlace DEF At, PlacesOf
      <4> QED BY <3>2, <4>1 DEF Conversation, CallRole
    <3> QED BY <1>6, <3>1, <3>2
  <2>2. Sent(<<Data(h)>>) \/ (~IsFixed(h) /\ Sent(<<Flow(h), Data(h)>>))
    BY <1>2, <2>1 DEF DataExchange
  <2>3. CASE Sent(<<Data(h)>>)
    <3>1. kind = "data"
      BY <1>4, <2>3, DataFields
    <3> QED BY <1>6, <2>3, <3>1 DEF DataAsked
  <2>4. CASE ~IsFixed(h) /\ Sent(<<Flow(h), Data(h)>>)
    <3>1. kind = "flow"
      BY <1>5, <2>4, DataFields
    <3> QED BY <1>6, <2>4, <3>1 DEF FlowBeforeData
  <2> QED BY <2>2, <2>3, <2>4
<1>7. CASE At("enumRes")
  <2> DEFINE m == Msg("enumReq", NoClient, 0, TRUE)
  <2>1. Sent(<<m>>)
    BY <1>2, <1>7 DEF Conversation
  <2>2. m.kind = "enumReq"
    BY DEF Msg
  <2>3. kind = "enumReq"
    <3> HIDE DEF m
    <3> QED BY <1>4, <2>1, <2>2
  <2> QED BY <1>7, <2>1, <2>3 DEF EnumerationAsked
<1>8. CASE At("propRes")
  <2>1. PICK client \in Clients : Sent(<<Msg("propReq", client, 0, TRUE)>>)
    BY <1>2, <1>8 DEF Conversation, PropertiesExchange
  <2> DEFINE m == Msg("propReq", client, 0, TRUE)
  <2>2. m.kind = "propReq"
    BY DEF Msg
  <2>3. kind = "propReq"
    <3>1. Sent(<<m>>)
      BY <2>1
    <3> HIDE DEF m
    <3> QED BY <1>4, <2>2, <3>1
  <2> QED BY <1>8, <2>1, <2>3 DEF PropertiesAsked
<1>9. CASE At("connRes")
  <2>1. Sent(<<Hbm("connReq", call.h, call.id)>>)
    BY <1>2, <1>9 DEF Conversation, ConnectExchange
  <2>2. kind = "connReq"
    BY <1>4, <2>1, HbmFields
  <2> QED BY <1>9, <2>1, <2>2 DEF ConnectAsked
<1>10. CASE At("discRes")
  <2>1. Sent(<<Hbm("discReq", call.h, handle[call.h].id)>>)
    BY <1>2, <1>10 DEF Conversation, DisconnectExchange
  <2>2. kind = "discReq"
    BY <1>4, <2>1, HbmFields
  <2> QED BY <1>10, <2>1, <2>2 DEF DisconnectAsked
<1>11. CASE At("writeData")
  <2>1. ~IsFixed(call.h) /\ Sent(<<Flow(call.h)>>)
    BY <1>2, <1>11 DEF Conversation
  <2>2. kind = "flow"
    BY <1>4, <2>1, DataFields
  <2> QED BY <1>11, <2>1, <2>2 DEF FlowAlone
<1>12. CASE call.pc \in QuietPlaces \cup {"connFlow", "readAgain", "readFlow"}
  BY <1>2, <1>12 DEF Conversation, At, QuietPlaces
<1>13. ~At("reset")
  BY DEF InOrder, CallRole, At
<1> QED
  BY <1>3, <1>6, <1>7, <1>8, <1>9, <1>10, <1>11, <1>12, <1>13 DEF At, Places, QuietPlaces

LEMMA ConnsSteady ==
  ASSUME ConnsKnown, UNCHANGED <<lib, handle, call>>, conns' \subseteq conns,
         \A c : Pending(c) => Pending(c)',
         At("discRes") /\ ring'.rx # <<>> => LinkOf(call.h, handle[call.h].id) \notin conns'
  PROVE  ConnsKnown'
<1>1. \A h, i : LinkOf(h, i)' = LinkOf(h, i) /\ (Current(h)' <=> Current(h))
  BY DEF LinkOf, Current
<1> QED BY <1>1 DEF ConnsKnown, At

\* No request is on its way when the connection of a connect is pending.
LEMMA NotPending == ASSUME Inv, NEW kind, Request(kind), ~At("connFlow"), ring.rx = <<>>
                    PROVE \A c : ~Pending(c)
BY DEF Pending

LEMMA EnumerationAnswers ==
  ASSUME Inv, CallRole, InOrder, Conversation, ConnsKnown,
         FwEnumerates \/ \E ok \in BOOLEAN : FwDescribes(ok)
  PROVE  Conversation' /\ ConnsKnown'
<1>1. CASE FwEnumerates
  <2> DEFINE m == Msg("enumReq", NoClient, 0, TRUE)
             reply == Reply("enumRes", TRUE)
  <2>1. Request("enumReq") /\ Answers(<<reply>>) /\ conns' = conns
    BY <1>1 DEF FwEnumerates
  <2>2. At("enumRes") /\ Sent(<<m>>)
    <3>1. EnumerationAsked
      BY <2>1, RequestPlaces
    <3> QED BY <3>1 DEF EnumerationAsked
  <2>3. m.client = NoClient /\ m.id = 0
    BY DEF Msg
  <2>4. Asked = m /\ ring'.tx = <<>> /\ ring'.rx = <<reply>> /\ UNCHANGED <<lib, handle, call>>
    <3> HIDE DEF m, reply
    <3> QED BY <2>1, <2>2, AnswersFirst, ShortAnswers
  <2>5. reply = Msg("enumRes", NoClient, 0, TRUE)
    BY <2>3, <2>4, Zenon DEF Reply
  <2>6. Conversation'
    BY <2>2, <2>4, <2>5 DEF Conversation, At, QuietPlaces, Answered
  <2>7. ConnsKnown'
    BY <2>1, <2>2, <2>4, ConnsSteady DEF At, Pending
  <2> QED BY <2>6, <2>7
<1>2. ASSUME NEW ok \in BOOLEAN, FwDescribes(ok) PROVE Conversation' /\ ConnsKnown'
  <2> DEFINE reply == Reply("propRes", ok)
  <2>1. Request("propReq") /\ Answers(<<reply>>) /\ conns' = conns
    BY <1>2 DEF FwDescribes
  <2>2. PICK client \in Clients : PropertiesAsked(client)
    BY <2>1, RequestPlaces
  <2>3. At("propRes") /\ Sent(<<Msg("propReq", client, 0, TRUE)>>)
    BY <2>2 DEF PropertiesAsked
  <2> DEFINE m == Msg("propReq", client, 0, TRUE)
  <2>4. m.client = client /\ m.id = 0
    BY DEF Msg
  <2>5. Asked = m /\ ring'.tx = <<>> /\ ring'.rx = <<reply>> /\ UNCHANGED <<lib, handle, call>>
    <3>1. Sent(<<m>>)
      BY <2>3
    <3> HIDE DEF m, reply
    <3> QED BY <2>1, <3>1, AnswersFirst, ShortAnswers
  <2>6. reply = Msg("propRes", client, 0, ok)
    BY <2>4, <2>5, Zenon DEF Reply
  <2>7. PropertiesExchange(client)'
    BY <2>5, <2>6 DEF PropertiesExchange, Answered
  <2>8. Conversation'
    BY <2>3, <2>5, <2>7 DEF Conversation, At, QuietPlaces
  <2>9. ConnsKnown'
    BY <2>1, <2>3, <2>5, ConnsSteady DEF At, Pending
  <2> QED BY <2>8, <2>9
<1> QED BY <1>1, <1>2

LEMMA ConnectAnswers ==
  ASSUME Inv, CallRole, InOrder, Conversation, ConnsKnown, FwAccepts \/ FwRefuses
  PROVE  Conversation' /\ ConnsKnown'
<1> DEFINE m == Hbm("connReq", call.h, call.id)
           yes == Reply("connRes", TRUE)
           flow == Reply("flow", TRUE)
           no == Reply("connRes", FALSE)
<1>1. Request("connReq")
  BY DEF FwAccepts, FwRefuses
<1>2. At("connRes") /\ Sent(<<m>>)
  <2>1. ConnectAsked
    BY <1>1, RequestPlaces
  <2> QED BY <2>1 DEF ConnectAsked
<1>3. m.client = handle[call.h].client /\ m.id = call.id
  BY DEF Hbm, Msg
<1>4. handle[call.h].client \notin FixedClients
  BY <1>2 DEF CallRole, At, Choosing
<1>5. \A c \in conns : ~Pending(c)
  BY <1>2 DEF Pending, At, Sent
<1>6. CASE FwAccepts
  <2>1. Answers(<<yes, flow>>) /\ conns' = conns \cup {Link}
    BY <1>6 DEF FwAccepts
  <2>2. /\ Asked = m /\ ring'.tx = <<>> /\ ring'.rx = <<yes, flow>>
        /\ UNCHANGED <<lib, handle, call>>
    <3> HIDE DEF m, yes, flow
    <3> QED BY <1>2, <2>1, AnswersFirst, ShortAnswers
  <2>3. yes = Hbm("connRes", call.h, call.id) /\ flow = Hbm("flow", call.h, call.id)
    BY <1>3, <2>2 DEF Reply, Hbm
  <2>4. ConnectExchange(call.h, call.id)'
    <3>1. \A k : Hbm(k, call.h, call.id)' = Hbm(k, call.h, call.id)
      BY <2>2 DEF Hbm, Msg
    <3> QED BY <2>2, <2>3, <3>1 DEF ConnectExchange, Answered
  <2>5. Conversation'
    BY <1>2, <2>2, <2>4 DEF Conversation, At, QuietPlaces
  <2>6. Link = LinkOf(call.h, call.id)
    BY <1>3, <2>2 DEF Link, LinkOf
  <2>7. \A h, i : LinkOf(h, i)' = LinkOf(h, i) /\ (Current(h)' <=> Current(h))
    BY <2>2 DEF LinkOf, Current
  <2>8. ASSUME NEW c, c = Link PROVE Pending(c)' /\ c.client \notin FixedClients
    <3>1. Head(ring'.rx) = yes /\ ring'.rx # <<>>
      BY <2>2, ShortSequences
    <3>2. yes.ok
      BY DEF Reply, Msg
    <3>3. c.client = handle[call.h].client
      BY <1>3, <2>2, <2>8 DEF Link
    <3>4. c = LinkOf(call.h, call.id)'
      BY <2>2, <2>6, <2>7, <2>8
    <3> HIDE DEF yes
    <3>5. At("connRes")' /\ ring'.rx # <<>> /\ Head(ring'.rx).ok
      BY <1>2, <2>2, <3>1, <3>2 DEF At
    <3> QED BY <1>4, <2>2, <3>3, <3>4, <3>5 DEF Pending
  <2>9. ASSUME NEW c \in conns'
        PROVE  /\ c.client \notin FixedClients
               /\ Pending(c)' \/ \E h \in Handles : Current(h)' /\ c = LinkOf(h, handle[h].id)
    <3>1. CASE c = Link
      BY <2>8, <3>1
    <3>2. CASE c \in conns
      BY <1>5, <2>7, <3>2 DEF ConnsKnown
    <3> QED BY <2>1, <3>1, <3>2
  <2>10. ConnsKnown'
    BY <1>2, <2>2, <2>7, <2>9 DEF ConnsKnown, At
  <2> QED BY <2>5, <2>10
<1>7. CASE FwRefuses
  <2>1. Answers(<<no>>) /\ conns' = conns
    BY <1>7 DEF FwRefuses
  <2>2. /\ Asked = m /\ ring'.tx = <<>> /\ ring'.rx = <<no>>
        /\ UNCHANGED <<lib, handle, call>>
    <3> HIDE DEF m, no
    <3> QED BY <1>2, <2>1, AnswersFirst, ShortAnswers
  <2>3. no = Msg("connRes", handle[call.h].client, call.id, FALSE)
    BY <1>3, <2>2 DEF Reply
  <2>4. ConnectExchange(call.h, call.id)'
    BY <2>2, <2>3 DEF ConnectExchange, Answered
  <2>5. Conversation'
    BY <1>2, <2>2, <2>4 DEF Conversation, At, QuietPlaces
  <2>6. ConnsKnown'
    BY <1>2, <2>1, <2>2, ConnsSteady DEF At, Pending, Sent
  <2> QED BY <2>5, <2>6
<1> QED BY <1>6, <1>7

LEMMA DisconnectAnswers ==
  ASSUME Inv, CallRole, InOrder, Conversation, ConnsKnown, FwDisconnects
  PROVE  Conversation' /\ ConnsKnown'
<1> DEFINE m == Hbm("discReq", call.h, handle[call.h].id)
           known == Link \in conns
           reply == Reply("discRes", known)
<1>1. Request("discReq") /\ Answers(<<reply>>) /\ conns' = conns \ {Link}
  BY DEF FwDisconnects
<1>2. At("discRes") /\ Sent(<<m>>)
  <2>1. DisconnectAsked
    BY <1>1, RequestPlaces
  <2> QED BY <2>1 DEF DisconnectAsked
<1>3. m.client = handle[call.h].client /\ m.id = handle[call.h].id
  BY DEF Hbm, Msg
<1>4. /\ Asked = m /\ ring'.tx = <<>> /\ ring'.rx = <<reply>>
      /\ UNCHANGED <<lib, handle, call>>
  <2> HIDE DEF m, reply
  <2> QED BY <1>1, <1>2, AnswersFirst, ShortAnswers
<1>5. \E ok \in BOOLEAN : reply = Msg("discRes", handle[call.h].client, handle[call.h].id, ok)
  <2>1. known \in BOOLEAN
    OBVIOUS
  <2>2. reply = Msg("discRes", handle[call.h].client, handle[call.h].id, known)
    <3> HIDE DEF known
    <3> QED BY <1>3, <1>4 DEF Reply
  <2> HIDE DEF known
  <2> QED BY <2>1, <2>2
<1>6. DisconnectExchange(call.h)'
  <2> HIDE DEF reply
  <2> QED BY <1>4, <1>5 DEF DisconnectExchange, Answered
<1>7. Conversation'
  BY <1>2, <1>4, <1>6 DEF Conversation, At, QuietPlaces
<1>8. Link = LinkOf(call.h, handle[call.h].id)
  BY <1>3, <1>4 DEF Link, LinkOf
<1>9. ConnsKnown'
  <2>1. \A c : ~Pending(c)
    BY <1>2 DEF Pending, At
  <2> QED BY <1>1, <1>4, <1>8, <2>1, ConnsSteady
<1> QED BY <1>7, <1>9

\* What is said of an exchange while its call waits.
LEMMA ExchangeSteady ==
  ASSUME UNCHANGED handle, NEW h
  PROVE  /\ Data(h)' = Data(h) /\ Flow(h)' = Flow(h) /\ (IsFixed(h)' <=> IsFixed(h))
BY DEF Data, Flow, Hbm, Msg, IsFixed

LEMMA FlowTaken ==
  ASSUME Inv, Roles, InOrder, Conversation, ConnsKnown, FwTakesFlow
  PROVE  Conversation' /\ ConnsKnown'
<1>1. Request("flow") /\ Answers(<<>>) /\ conns' = conns
  BY DEF FwTakesFlow
<1>2. UNCHANGED <<lib, handle, call, owed>>
  BY <1>1, AnswersFirst
<1>3. FlowAlone \/ \E h \in owed : FlowBeforeData(h)
  BY <1>1, RequestPlaces DEF Roles
<1>4. CASE FlowAlone
  <2>1. ring'.tx = <<>> /\ ring'.rx = <<>>
    BY <1>1, <1>4, AnswersFirst, ShortAnswers DEF FlowAlone
  <2>2. Conversation'
    BY <1>2, <1>4, <2>1 DEF FlowAlone, Conversation, At, QuietPlaces, Quiet
  <2>3. ConnsKnown'
    BY <1>1, <1>2, <1>4, ConnsSteady DEF FlowAlone, At, Pending
  <2> QED BY <2>2, <2>3
<1>5. CASE \E h \in owed : FlowBeforeData(h)
  <2>1. PICK h \in owed : FlowBeforeData(h)
    BY <1>5
  <2>2. ring'.tx = <<Data(h)>> /\ ring'.rx = <<>>
    BY <1>1, <2>1, AnswersFirst, ShortAnswers DEF FlowBeforeData
  <2>3. owed = {h}
    BY DEF Roles, OwedOnce
  <2>4. DataExchange(h)'
    BY <1>2, <2>2, ExchangeSteady DEF DataExchange, Sent
  <2>5. Conversation'
    BY <1>2, <2>1, <2>3, <2>4 DEF FlowBeforeData, Conversation, At, QuietPlaces
  <2>6. ConnsKnown'
    BY <1>1, <1>2, <2>1, ConnsSteady DEF FlowBeforeData, At, Pending
  <2> QED BY <2>5, <2>6
<1> QED BY <1>3, <1>4, <1>5

\* The connection of a handle without a fixed client, and its messages.
LEMMA FirmwareResponds ==
  ASSUME Inv, Roles, InOrder, Conversation, ConnsKnown, NEW flowFirst \in BOOLEAN,
         FwResponds(flowFirst)
  PROVE  Conversation' /\ ConnsKnown'
<1> DEFINE data == Reply("data", TRUE)
           flow == Reply("flow", TRUE)
<1>1. Request("data") /\ conns' = conns /\ (flowFirst \/ HeciFunction = 0)
  BY DEF FwResponds
<1>2. PICK h \in owed : DataAsked(h)
  BY <1>1, RequestPlaces DEF Roles
<1>3. owed = {h} /\ (At("idle") \/ At("read")) /\ Sent(<<Data(h)>>)
  BY <1>2 DEF Roles, OwedOnce, DataAsked
<1>4. h \in Handles /\ handle[h].props
  BY <1>2 DEF Roles, OwedOnce, ConnectedHandles, Inv, LinkOK
<1>5. PICK answer : Answers(answer)
  BY DEF FwResponds
<1>6. Asked = Data(h) /\ UNCHANGED <<lib, handle, call, owed>>
  BY <1>3, <1>5, AnswersFirst
<1>7. Asked.client = handle[h].client /\ Asked.id = IF IsFixed(h) THEN 0 ELSE handle[h].id
  BY <1>6 DEF Data, Msg
<1>8. data = Data(h)
  BY <1>7 DEF Reply, Data
<1>9. ~IsFixed(h) => flow = Flow(h)
  BY <1>7 DEF Reply, Flow, Hbm
<1>10. IsFixed(h) <=> Asked.client \in FixedClients
  BY <1>4, <1>7 DEF IsFixed
<1>11. CASE IsFixed(h)
  <2>1. Answers(<<data>>)
    BY <1>10, <1>11 DEF FwResponds
  <2>2. ring'.tx = <<>> /\ ring'.rx = <<data>>
    <3> HIDE DEF data
    <3> QED BY <1>3, <2>1, AnswersFirst, ShortAnswers
  <2>3. DataExchange(h)'
    BY <1>6, <1>8, <1>11, <2>2, ExchangeSteady DEF DataExchange, Answered
  <2> QED BY <1>1, <1>3, <1>6, <2>3, ConnsSteady DEF Conversation, At, QuietPlaces, Pending
<1>12. CASE ~IsFixed(h)
  <2>1. \/ Answers(<<data>>) /\ Asked.client \in FixedClients
        \/ Answers(<<>>)
        \/ Answers(<<flow, data>>)
        \/ Answers(<<data, flow>>) /\ HeciFunction = 0
    BY <1>1 DEF FwResponds
  <2>2. DataExchange(h)'
    <3> HIDE DEF data, flow
    <3>1. CASE Answers(<<>>)
      <4>1. ring'.tx = <<>> /\ ring'.rx = <<>>
        BY <1>3, <3>1, AnswersFirst, ShortAnswers
      <4> QED BY <4>1 DEF DataExchange, Quiet
    <3>2. CASE Answers(<<flow, data>>)
      <4>1. ring'.tx = <<>> /\ ring'.rx = <<flow, data>>
        BY <1>3, <3>2, AnswersFirst, ShortAnswers
      <4> QED BY <1>6, <1>8, <1>9, <1>12, <4>1, ExchangeSteady DEF DataExchange, Answered
    <3>3. CASE Answers(<<data, flow>>) /\ HeciFunction = 0
      <4>1. ring'.tx = <<>> /\ ring'.rx = <<data, flow>>
        BY <1>3, <3>3, AnswersFirst, ShortAnswers
      <4> QED BY <1>6, <1>8, <1>9, <1>12, <3>3, <4>1, ExchangeSteady DEF DataExchange, Answered
    <3> QED BY <1>10, <1>12, <2>1, <3>1, <3>2, <3>3
  <2> QED BY <1>1, <1>3, <1>6, <2>2, ConnsSteady DEF Conversation, At, QuietPlaces, Pending
<1> QED BY <1>11, <1>12

\* Nothing is on its way: whatever the call waits for was lost.
LEMMA EmptyIsInStep ==
  ASSUME Inv, ring'.tx = <<>>, ring'.rx = <<>>, UNCHANGED <<handle, call, owed>>, conns' = {}
  PROVE  Conversation' /\ ConnsKnown'
<1>1. Quiet'
  BY DEF Quiet
<1>2. At("propRes") => \E client \in Clients : TRUE
  <2> SUFFICES ASSUME At("propRes") PROVE \E client \in Clients : TRUE
    OBVIOUS
  <2> QED BY CallTyped DEF At
<1>3. Conversation'
  BY <1>1, <1>2
  DEF Conversation, DataExchange, PropertiesExchange, ConnectExchange, DisconnectExchange, At
<1> QED BY <1>3 DEF ConnsKnown

LEMMA FirmwareInStep ==
  ASSUME Lockstep, Inv, Roles, InStep, Firmware PROVE Roles' /\ InStep'
<1>1. UNCHANGED <<lib, handle, call, ret, owed>>
  BY DEF Firmware, FwEnumerates, FwDescribes, FwAccepts, FwRefuses, FwDisconnects, FwTakesFlow,
         FwResponds, FwAnswersOddly, FwResets, DeviceGone, Answers
<1>2. Roles'
  <2>1. \A h : Data(h)' = Data(h) /\ (IsFixed(h)' <=> IsFixed(h))
    BY <1>1 DEF Data, IsFixed, Msg
  <2> QED BY <1>1, <2>1 DEF Roles, ConnectedHandles, OwedOnce, CallRole, OwnMessage, At
<1>3. SUFFICES ASSUME InOrder' PROVE Conversation' /\ ConnsKnown'
  BY <1>2 DEF InStep
<1>4. ~DeviceGone
  BY <1>3 DEF DeviceGone, InOrder
<1>5. InOrder /\ Conversation /\ ConnsKnown
  <2>1. present
    BY <1>4 DEF Firmware, FwEnumerates, FwDescribes, FwAccepts, FwRefuses, FwDisconnects,
                FwTakesFlow, FwResponds, FwAnswersOddly, FwResets, Request
  <2> QED BY <1>1, <1>3, <2>1 DEF InOrder, InStep, At
<1>6. CASE FwResets
  BY <1>1, <1>6, EmptyIsInStep DEF FwResets, LinkReset
<1>7. ~FwAnswersOddly
  BY DEF FwAnswersOddly, Lockstep
<1> QED
  BY <1>4, <1>5, <1>6, <1>7, EnumerationAnswers, ConnectAnswers, DisconnectAnswers, FlowTaken,
     FirmwareResponds
  DEF Firmware, Roles
------------------------------------------------------------------------------
(* The steps of a call. *)

\* The call in progress returns.
LEMMA ReturnRoles ==
  ASSUME Lockstep, Inv, Roles, ~At("idle"), NEW efi, NEW hd, NEW msg, Returns(efi, hd, msg),
         call.op # "disconnect" /\ hd.connected => hd.impl /\ hd.props /\ hd.state = "CONNECTED",
         call.op = "write" /\ efi = "SUCCESS" => lib'.valid /\ hd.connected,
         call.op = "read" /\ efi = "SUCCESS" => hd = handle[call.h] /\ msg = Data(call.h)
  PROVE  /\ Roles'
         /\ owed' = IF call.op = "write" /\ efi = "SUCCESS" THEN {call.h} ELSE {}
<1>1. call.h \in Handles /\ call' = Idle /\ call.op \in {"connect", "read", "write", "disconnect"}
  BY CallTyped, OpOfPlace DEF Returns
<1>2. handle' = [handle EXCEPT ![call.h] = IF call.op = "disconnect" THEN NoImpl ELSE hd]
  BY DEF Returns
<1>3. handle \in [Handles -> Impls]
  BY DEF Inv, HandleOK
<1>4. owed' = IF call.op = "write" /\ efi = "SUCCESS" THEN {call.h} ELSE {}
  BY <1>1 DEF Returns, Lockstep, Roles, CallRole
<1>5. ConnectedHandles'
  <2> SUFFICES ASSUME NEW h \in Handles, handle'[h].connected
               PROVE  handle'[h].impl /\ handle'[h].props /\ handle'[h].state = "CONNECTED"
    BY DEF ConnectedHandles
  <2>1. CASE h # call.h
    BY <1>2, <1>3, <2>1 DEF Roles, ConnectedHandles
  <2>2. CASE h = call.h
    BY <1>2, <1>3, <2>2 DEF NoImpl
  <2> QED BY <2>1, <2>2
<1>6. OwedOnce'
  BY <1>1, <1>2, <1>3, <1>4 DEF OwedOnce
<1>7. CallRole'
  BY <1>1 DEF CallRole, At, Idle
<1>8. OwnMessage'
  <2>1. CASE ret'.op = "read" /\ ret'.status = "SUCCESS"
    <3>1. call.op # "disconnect"
      BY <2>1 DEF Returns, NoResult
    <3>2. ret'.op = call.op /\ ret'.h = call.h /\ ret'.msg = msg
          /\ ret'.status = TeeStatus(call.op, efi)
      BY <3>1 DEF Returns, Result
    <3>3. efi = "SUCCESS"
      BY <2>1, <3>2 DEF TeeStatus
    <3>4. hd = handle[call.h] /\ msg = Data(call.h)
      BY <2>1, <3>2, <3>3
    <3>5. handle' = handle
      BY <1>1, <1>2, <1>3, <3>1, <3>4
    <3> QED BY <3>2, <3>4, <3>5 DEF OwnMessage, Data, IsFixed, Msg
  <2>2. CASE ~(ret'.op = "read" /\ ret'.status = "SUCCESS")
    BY <2>2 DEF OwnMessage
  <2> QED BY <2>1, <2>2
<1> QED BY <1>4, <1>5, <1>6, <1>7, <1>8 DEF Roles

\* A call goes on.
LEMMA ProceedRoles ==
  ASSUME Inv, Roles, ~At("idle"), call'.op = call.op, call'.h = call.h,
         UNCHANGED <<handle, ret, owed>>, call.op = "connect" \/ lib' = lib,
         call'.pc # "reset",
         call'.pc \in Choosing => call.pc \in Choosing,
         call'.pc \in {"writeFlow", "readAgain", "readFlow", "discReq", "discRes"} => ~IsFixed(call.h),
         call'.pc = "readFlow" => call'.msg = Data(call.h)
  PROVE  Roles'
<1>1. call.op = "connect" => owed = {}
  BY DEF Roles, CallRole
<1>2. \A h : Data(h)' = Data(h) /\ (IsFixed(h)' <=> IsFixed(h))
  BY DEF Data, IsFixed, Msg
<1>3. CallRole'
  BY <1>1, <1>2 DEF Roles, CallRole, At
<1> QED BY <1>1, <1>2, <1>3 DEF Roles, ConnectedHandles, OwedOnce, OwnMessage

\* A call returned in order: nothing is left of it.
LEMMA ReturnedInStep ==
  ASSUME call' = Idle, ring'.tx = <<>>, ring'.rx = <<>>, owed' = {} PROVE Conversation'
BY DEF Conversation, At, Idle, QuietPlaces, Quiet

\* A call that ends changes at most the connection of its own handle k.
LEMMA ReturnedConns ==
  ASSUME ConnsKnown, call' = Idle, conns' = conns, lib'.gen = lib.gen, NEW k \in Handles,
         \A h \in Handles \ {k} : handle'[h] = handle[h],
         \A c \in conns :
           Pending(c) \/ (Current(k) /\ c = LinkOf(k, handle[k].id)) =>
             /\ handle'[k].connected /\ handle'[k].gen = lib.gen
             /\ c = [client |-> handle'[k].client, id |-> handle'[k].id]
  PROVE  ConnsKnown'
<1>1. ASSUME NEW c \in conns
      PROVE  /\ c.client \notin FixedClients
             /\ \E h \in Handles : Current(h)' /\ c = LinkOf(h, handle[h].id)'
  <2>1. c.client \notin FixedClients
    BY DEF ConnsKnown
  <2>2. CASE Pending(c) \/ (Current(k) /\ c = LinkOf(k, handle[k].id))
    <3>1. Current(k)' /\ c = LinkOf(k, handle[k].id)'
      BY <2>2 DEF Current, LinkOf
    <3> QED BY <2>1, <3>1
  <2>3. CASE ~Pending(c) /\ ~(Current(k) /\ c = LinkOf(k, handle[k].id))
    <3>1. PICK h \in Handles \ {k} : Current(h) /\ c = LinkOf(h, handle[h].id)
      BY <2>3 DEF ConnsKnown
    <3>2. Current(h)' /\ c = LinkOf(h, handle[h].id)'
      BY <3>1 DEF Current, LinkOf
    <3> QED BY <2>1, <3>2
  <2> QED BY <2>2, <2>3
<1>2. ~At("discRes")'
  BY DEF At, Idle
<1> QED BY <1>1, <1>2 DEF ConnsKnown

LEMMA LinkBreaksInStep ==
  ASSUME Lockstep, Inv, Roles, ~At("idle"), LinkBreaks PROVE Roles' /\ InStep'
<1> DEFINE hd == [handle[call.h] EXCEPT !.connected = FALSE]
<1>1. Returns("MEDIA_CHANGED", hd, NoMsg)
  BY DEF LinkBreaks
<1>2. ~hd.connected
  BY CallTyped DEF Impls
<1>3. Roles'
  <2> HIDE DEF hd
  <2> QED BY <1>1, <1>2, ReturnRoles
<1>4. ~lib'.valid /\ call' = Idle
  BY DEF LinkBreaks, Returns, Inv, LinkOK, Libraries
<1> QED BY <1>3, <1>4 DEF InStep, InOrder, Idle

LEMMA FailuresInStep ==
  ASSUME Lockstep, Inv, Roles, SendAborted \/ ReadAborted \/ DeviceError \/ ResetFails
  PROVE  Roles' /\ InStep'
<1>1. ~At("idle")
  BY OutgoingTyped DEF SendAborted, ReadAborted, DeviceError, ResetFails, Reading, At
<1>2. CASE SendAborted \/ ReadAborted
  BY <1>1, <1>2, LinkBreaksInStep DEF SendAborted, ReadAborted
<1>3. CASE DeviceError \/ ResetFails
  <2>1. Returns("DEVICE_ERROR", handle[call.h], NoMsg) /\ lib' = lib /\ present' = present
    BY <1>3 DEF DeviceError, ResetFails
  <2>2. Roles'
    BY <1>1, <2>1, CallTyped, ReturnRoles DEF Roles, ConnectedHandles
  <2>3. call' = Idle
    BY <2>1 DEF Returns
  <2>4. ~present' \/ ~lib'.valid
    BY <1>1, <1>3, <2>1 DEF DeviceError, ResetFails, Roles, CallRole
  <2> QED BY <2>2, <2>3, <2>4 DEF InStep, InOrder, Idle
<1> QED BY <1>2, <1>3

\* A call that goes on was in order if it is afterwards.
LEMMA ProceedInOrder ==
  ASSUME InStep, InOrder', call'.op = call.op, present' = present, lib' = lib \/ call.op = "connect",
         ~At("reset")
  PROVE  InOrder /\ Conversation /\ ConnsKnown
BY DEF InStep, InOrder

LEMMA SendInStep ==
  ASSUME Lockstep, Inv, Roles, InStep, HbmSent PROVE Roles' /\ InStep'
<1>1. PICK m \in Outgoing : Sends(m) /\ call' = [call EXCEPT !.pc = AfterSending[call.pc], !.msg = m]
  BY DEF HbmSent
<1>2. ~At("idle") /\ call \in CallsInProgress /\ call.todo \subseteq Clients
  BY CallTyped, OutgoingTyped DEF CallsInProgress
<1>3. call.pc \in {"enumReq", "propReq", "connReq", "writeFlow", "discReq"}
  BY DEF HbmSent, AfterSending
<1> DEFINE next == AfterSending[call.pc]
<1>4. /\ call.pc = "enumReq" => next = "enumRes"
      /\ call.pc = "propReq" => next = "propRes"
      /\ call.pc = "connReq" => next = "connRes"
      /\ call.pc = "writeFlow" => next = "writeData"
      /\ call.pc = "discReq" => next = "discRes"
  BY DEF AfterSending
<1>5. call'.pc = next /\ call'.h = call.h /\ call'.op = call.op /\ call'.id = call.id
  <2> HIDE DEF next
  <2>1. call' = [call EXCEPT !.pc = next, !.msg = m]
    BY <1>1 DEF next
  <2> QED BY <1>2, <2>1 DEF CallsInProgress
<1> HIDE DEF next
<1>6. Roles'
  BY <1>2, <1>3, <1>4, <1>5, ProceedRoles DEF HbmSent, Choosing, Roles, CallRole
<1>7. SUFFICES ASSUME InOrder' PROVE Conversation' /\ ConnsKnown'
  BY <1>6 DEF InStep
<1>8. Conversation /\ ConnsKnown
  BY <1>3, <1>5, <1>7, ProceedInOrder DEF HbmSent, At
<1>9. Quiet
  BY <1>3, <1>8 DEF Conversation, QuietPlaces
<1>10. ring'.tx = <<m>> /\ ring'.rx = <<>> /\ UNCHANGED <<lib, handle, ret, conns, owed>>
  BY <1>1, <1>9, SendsMore DEF HbmSent, Quiet
<1>11. ConnsKnown'
  <2>1. \A c : ~Pending(c)
    BY <1>3 DEF Pending, At
  <2>2. \A h, i : LinkOf(h, i)' = LinkOf(h, i) /\ (Current(h)' <=> Current(h))
    BY <1>10 DEF LinkOf, Current
  <2> QED BY <1>8, <1>10, <2>1, <2>2 DEF ConnsKnown
<1>12. Conversation'
  <2>1. CASE At("enumReq")
    <3>1. m = Msg("enumReq", NoClient, 0, TRUE)
      BY <2>1 DEF Outgoing, At
    <3> QED BY <1>4, <1>5, <1>10, <2>1, <3>1 DEF At, Conversation, QuietPlaces, Sent
  <2>2. CASE At("propReq")
    <3>1. PICK client \in Clients : m = Msg("propReq", client, 0, TRUE)
      BY <1>2, <2>2 DEF Outgoing, At
    <3>2. PropertiesExchange(client)'
      BY <1>10, <3>1 DEF PropertiesExchange, Sent
    <3> QED BY <1>4, <1>5, <2>2, <3>2 DEF At, Conversation, QuietPlaces
  <2>3. CASE At("connReq")
    <3>1. m = Hbm("connReq", call.h, call.id)
      BY <2>3 DEF Outgoing, At
    <3>2. ConnectExchange(call.h, call.id)'
      BY <1>5, <1>10, <3>1 DEF ConnectExchange, Sent, Hbm, Msg
    <3> QED BY <1>4, <1>5, <2>3, <3>2 DEF At, Conversation, QuietPlaces
  <2>4. CASE At("writeFlow")
    <3>1. m = Flow(call.h) /\ ~IsFixed(call.h)
      BY <1>2, <2>4 DEF Outgoing, At, Flow, Roles, CallRole
    <3>2. (~IsFixed(call.h) /\ Sent(<<Flow(call.h)>>))'
      BY <1>5, <1>10, <3>1 DEF Sent, IsFixed, Flow, Hbm, Msg
    <3> QED BY <1>4, <1>5, <2>4, <3>2 DEF At, Conversation, QuietPlaces
  <2>5. CASE At("discReq")
    <3>1. m = Hbm("discReq", call.h, handle[call.h].id)
      BY <2>5 DEF Outgoing, At
    <3>2. DisconnectExchange(call.h)'
      BY <1>5, <1>10, <3>1 DEF DisconnectExchange, Sent, Hbm, Msg
    <3> QED BY <1>4, <1>5, <2>5, <3>2 DEF At, Conversation, QuietPlaces
  <2> QED BY <1>3, <2>1, <2>2, <2>3, <2>4, <2>5 DEF At
<1> QED BY <1>11, <1>12

\* The places of a connect.
LEMMA ConnectPlaces ==
  ASSUME Inv, Roles, call.pc \in PlacesOf.connect
  PROVE  /\ ~At("idle") /\ call.op = "connect" /\ call \in CallsInProgress
         /\ call.h \in Handles /\ handle[call.h] \in Impls /\ ~handle[call.h].connected
         /\ handle[call.h].impl /\ owed = {}
<1>1. ~At("idle")
  BY DEF At, PlacesOf
<1>2. call.op = "connect"
  BY <1>1, OpOfPlace
<1> QED BY <1>1, <1>2, CallTyped DEF Roles, CallRole

LEMMA ResetSucceedsInStep ==
  ASSUME Lockstep, Inv, Roles, InStep, ResetSucceeds PROVE Roles' /\ InStep'
<1>1. ~At("idle") /\ call.op = "connect" /\ call \in CallsInProgress /\ owed = {}
  BY ConnectPlaces DEF ResetSucceeds, At, PlacesOf
<1>2. call'.pc = "enumReq" /\ call'.op = call.op /\ call'.h = call.h
  BY <1>1 DEF ResetSucceeds, Continues, CallsInProgress
<1>3. Roles'
  BY <1>1, <1>2, ProceedRoles DEF ResetSucceeds, Choosing
<1>4. Quiet' /\ conns' = {} /\ owed' = {}
  BY <1>1 DEF ResetSucceeds, LinkReset, Quiet
<1>5. Conversation' /\ ConnsKnown'
  BY <1>2, <1>4 DEF Conversation, ConnsKnown, At, QuietPlaces
<1> QED BY <1>3, <1>5 DEF InStep

LEMMA EnumerationInStep ==
  ASSUME Lockstep, Inv, Roles, InStep, EnumerationAnswered \/ PropertiesAnswered \/ EnumerationDone
  PROVE  Roles' /\ InStep'
<1>1. call.pc \in {"enumRes", "propRes", "propReq"}
  BY DEF EnumerationAnswered, PropertiesAnswered, EnumerationDone, Reads, At
<1>2. ~At("idle") /\ call.op = "connect" /\ call \in CallsInProgress /\ owed = {}
      /\ call.h \in Handles /\ ~handle[call.h].connected /\ handle[call.h].impl
  BY <1>1, ConnectPlaces DEF PlacesOf
<1>3. \A c : ~Pending(c)
  BY <1>1 DEF Pending, At
<1>4. CASE EnumerationAnswered /\ Head(ring.rx).kind # "enumRes"
  <2>1. Returns("DEVICE_ERROR", handle[call.h], NoMsg) /\ lib' = lib /\ conns' = conns
        /\ present' = present /\ Reads("enumRes")
    BY <1>4 DEF EnumerationAnswered
  <2>2. Roles' /\ owed' = {}
    BY <1>2, <2>1, ReturnRoles
  <2>3. ~InOrder
    <3>1. SUFFICES ASSUME InOrder PROVE FALSE
      OBVIOUS
    <3> DEFINE m == Msg("enumRes", NoClient, 0, TRUE)
    <3>2. m.kind = "enumRes"
      BY DEF Msg
    <3>3. Answered(<<m>>)
      BY <1>1, <2>1, <3>1, ReadsFirst DEF InStep, Conversation, Reads
    <3> HIDE DEF m
    <3> QED BY <1>4, <2>1, <3>2, <3>3, ReadsFirst
  <2>4. ~InOrder'
    BY <1>2, <2>1, <2>3 DEF InOrder, Returns, Idle, Reads, At
  <2> QED BY <2>2, <2>4 DEF InStep
<1>5. CASE PropertiesAnswered /\ Head(ring.rx).kind # "propRes"
  <2>1. Reads("propRes") /\ lib' = lib /\ present' = present /\ conns' = conns /\ Continues("match")
        /\ UNCHANGED <<handle, ret, owed>>
    BY <1>5 DEF PropertiesAnswered
  <2>2. call'.pc = "match" /\ call'.op = call.op /\ call'.h = call.h
    BY <1>2, <2>1 DEF Continues, CallsInProgress
  <2>3. Roles'
    BY <1>2, <2>1, <2>2, ProceedRoles DEF Choosing
  <2>4. ~InOrder
    <3>1. SUFFICES ASSUME InOrder PROVE FALSE
      OBVIOUS
    <3>2. PICK client \in Clients, ok \in BOOLEAN : Answered(<<Msg("propRes", client, 0, ok)>>)
      BY <2>1, <3>1, ReadsFirst DEF InStep, Conversation, Reads, PropertiesExchange
    <3> DEFINE m == Msg("propRes", client, 0, ok)
    <3>3. m.kind = "propRes" /\ Answered(<<m>>)
      BY <3>2 DEF Msg
    <3> HIDE DEF m
    <3> QED BY <1>5, <2>1, <3>3, ReadsFirst
  <2>5. ~InOrder'
    BY <1>2, <2>1, <2>2, <2>4 DEF InOrder, Reads, At
  <2> QED BY <2>3, <2>5 DEF InStep
<1>6. CASE \/ EnumerationAnswered /\ Head(ring.rx).kind = "enumRes"
           \/ PropertiesAnswered /\ Head(ring.rx).kind = "propRes"
           \/ EnumerationDone
  <2>1. /\ call'.pc \in {"propReq", "match"} /\ call'.op = call.op /\ call'.h = call.h
        /\ UNCHANGED <<handle, ret, conns, owed, present>>
    <3>1. CASE EnumerationAnswered /\ Head(ring.rx).kind = "enumRes"
      BY <1>2, <3>1 DEF EnumerationAnswered, CallsInProgress
    <3>2. CASE PropertiesAnswered /\ Head(ring.rx).kind = "propRes"
      <4> DEFINE todo == Remaining(Head(ring.rx))
      <4>1. call' = [call EXCEPT !.pc = "propReq", !.todo = todo]
        BY <3>2 DEF PropertiesAnswered
      <4> HIDE DEF todo
      <4> QED BY <1>2, <3>2, <4>1 DEF PropertiesAnswered, CallsInProgress
    <3>3. CASE EnumerationDone
      BY <1>2, <3>3 DEF EnumerationDone, Continues, CallsInProgress
    <3> QED BY <1>6, <3>1, <3>2, <3>3
  <2>2. Roles'
    BY <1>2, <2>1, ProceedRoles DEF Choosing
  <2>3. SUFFICES ASSUME InOrder' PROVE Conversation' /\ ConnsKnown'
    BY <2>2 DEF InStep
  <2>4. InOrder /\ Conversation /\ ConnsKnown
    BY <1>1, <1>2, <2>1, <2>3, ProceedInOrder DEF At
  <2>5. Quiet'
    <3>1. CASE EnumerationAnswered
      <4>1. Reads("enumRes")
        BY <3>1 DEF EnumerationAnswered
      <4>2. Answered(<<Msg("enumRes", NoClient, 0, TRUE)>>)
        BY <2>4, <4>1, ReadsFirst DEF Conversation, Reads
      <4> QED BY <4>1, <4>2, ReadsFirst DEF Answered, Quiet
    <3>2. CASE PropertiesAnswered
      <4>1. Reads("propRes")
        BY <3>2 DEF PropertiesAnswered
      <4>2. PICK client \in Clients, ok \in BOOLEAN : Answered(<<Msg("propRes", client, 0, ok)>>)
        BY <2>4, <4>1, ReadsFirst DEF Conversation, Reads, PropertiesExchange
      <4> QED BY <4>1, <4>2, ReadsFirst DEF Answered, Quiet
    <3>3. CASE EnumerationDone
      BY <2>4, <3>3 DEF EnumerationDone, Conversation, QuietPlaces, At, Quiet
    <3> QED BY <1>6, <3>1, <3>2, <3>3
  <2>6. Conversation'
    BY <1>2, <2>1, <2>5 DEF Conversation, At, QuietPlaces
  <2>7. ConnsKnown'
    <3>1. lib'.gen = lib.gen
      BY <1>6 DEF EnumerationAnswered, PropertiesAnswered, EnumerationDone, Inv, LinkOK, Libraries
    <3>2. \A h, i : LinkOf(h, i)' = LinkOf(h, i) /\ (Current(h)' <=> Current(h))
      BY <2>1, <3>1 DEF LinkOf, Current
    <3> QED BY <1>3, <2>1, <2>4, <3>2 DEF ConnsKnown, At
  <2> QED BY <2>6, <2>7
<1> QED BY <1>4, <1>5, <1>6

\* A connect returns: nothing is left of its exchange, and a connection that was
\* pending is the one its handle now has.
LEMMA ConnectReturned ==
  ASSUME Lockstep, Inv, Roles, InStep, call.pc \in PlacesOf.connect, ~At("reset"),
         NEW efi, NEW hd, Returns(efi, hd, NoMsg),
         hd.connected => hd.impl /\ hd.props /\ hd.state = "CONNECTED",
         conns' = conns, present' = present, lib'.gen = lib.gen,
         InOrder' => /\ Quiet'
                     /\ \A c \in conns : Pending(c) =>
                          hd.connected /\ hd.gen = lib.gen /\ c = [client |-> hd.client, id |-> hd.id]
  PROVE  Roles' /\ InStep'
<1>1. ~At("idle") /\ call.op = "connect" /\ call.h \in Handles /\ ~handle[call.h].connected
  BY ConnectPlaces
<1>2. Roles' /\ owed' = {}
  <2>1. Roles'
    BY <1>1, ReturnRoles
  <2>2. owed' = {}
    BY <1>1, ReturnRoles
  <2> QED BY <2>1, <2>2
<1>3. SUFFICES ASSUME InOrder' PROVE Conversation' /\ ConnsKnown'
  BY <1>2 DEF InStep
<1>4. InOrder /\ ConnsKnown
  <2>1. InOrder
    BY <1>1, <1>3 DEF InOrder
  <2> QED BY <2>1 DEF InStep
<1>5. call' = Idle /\ handle' = [handle EXCEPT ![call.h] = hd]
  BY <1>1 DEF Returns
<1>6. Conversation'
  BY <1>2, <1>3, <1>5, ReturnedInStep DEF Quiet
<1>7. handle'[call.h] = hd /\ \A h \in Handles \ {call.h} : handle'[h] = handle[h]
  BY <1>1, <1>5 DEF Inv, HandleOK
<1>8. ~Current(call.h)
  BY <1>1 DEF Current
<1>9. ConnsKnown'
  BY <1>1, <1>3, <1>4, <1>5, <1>7, <1>8, ReturnedConns
<1> QED BY <1>6, <1>9

LEMMA MatchInStep ==
  ASSUME Lockstep, Inv, Roles, InStep, MatchFails \/ MatchFixed \/ MatchDynamic
  PROVE  Roles' /\ InStep'
<1>1. call.pc = "match"
  BY DEF MatchFails, MatchFixed, MatchDynamic, At
<1>2. ~At("idle") /\ call.op = "connect" /\ call \in CallsInProgress /\ owed = {}
      /\ call.h \in Handles /\ handle[call.h] \in Impls /\ ~handle[call.h].connected
      /\ handle[call.h].impl
  BY <1>1, ConnectPlaces DEF PlacesOf
<1>3. \A c : ~Pending(c)
  BY <1>1 DEF Pending, At
<1>4. ring' = ring /\ conns' = conns /\ present' = present /\ lib'.gen = lib.gen
  BY DEF MatchFails, MatchFixed, MatchDynamic, Inv, LinkOK, Libraries
<1>5. InOrder' => InOrder /\ Conversation /\ ConnsKnown
  <2>1. InOrder' => InOrder
    BY <1>1, <1>2, <1>4 DEF InOrder, At
  <2> QED BY <2>1 DEF InStep
<1>6. InOrder' => Quiet'
  BY <1>1, <1>4, <1>5 DEF Conversation, QuietPlaces, Quiet
<1>7. CASE MatchFails
  <2> DEFINE hd == [handle[call.h] EXCEPT !.props = FALSE]
  <2>1. ~hd.connected
    BY <1>2 DEF Impls
  <2>2. PICK efi : Returns(efi, hd, NoMsg)
    BY <1>7 DEF MatchFails
  <2> HIDE DEF hd
  <2> QED BY <1>1, <1>3, <1>4, <1>6, <2>1, <2>2, ConnectReturned DEF PlacesOf, At
<1>8. CASE MatchFixed
  <2> DEFINE hd == Connected(call.h, LowestFreeId)
  <2>1. hd.impl /\ hd.props /\ hd.state = "CONNECTED"
    BY <1>2 DEF Connected, Impls
  <2>2. Returns("SUCCESS", hd, NoMsg)
    BY <1>8 DEF MatchFixed
  <2> HIDE DEF hd
  <2> QED BY <1>1, <1>3, <1>4, <1>6, <2>1, <2>2, ConnectReturned DEF PlacesOf, At
<1>9. CASE MatchDynamic
  <2>1. /\ handle[call.h].client \notin FixedClients
        /\ handle' = [handle EXCEPT ![call.h].props = FALSE]
        /\ UNCHANGED <<lib, ret, owed>>
    BY <1>9 DEF MatchDynamic
  <2>2. call'.pc = "connReq" /\ call'.op = call.op /\ call'.h = call.h
    <3> DEFINE id == LowestFreeId
    <3>1. call' = [call EXCEPT !.pc = "connReq", !.id = id]
      BY <1>9 DEF MatchDynamic
    <3> HIDE DEF id
    <3> QED BY <1>2, <3>1 DEF CallsInProgress
  <2>3. \A h \in Handles \ {call.h} : handle'[h] = handle[h]
    BY <1>2, <2>1 DEF Inv, HandleOK
  <2>4. /\ ~handle'[call.h].connected /\ ~handle'[call.h].props
        /\ handle'[call.h].client = handle[call.h].client /\ handle'[call.h].id = handle[call.h].id
    BY <1>2, <2>1 DEF Inv, HandleOK, Impls
  <2>5. Roles'
    <3>1. ConnectedHandles'
      BY <2>3, <2>4 DEF Roles, ConnectedHandles
    <3>2. OwedOnce' /\ CallRole'
      BY <1>2, <2>1, <2>2, <2>4 DEF OwedOnce, CallRole, At
    <3>3. \A h \in Handles : Data(h)' = Data(h)
      <4>1. ASSUME NEW h \in Handles \ {call.h} PROVE Data(h)' = Data(h)
        BY <2>3, SteadyHandle
      <4>2. \A h : h = call.h => Data(h)' = Data(h)
        BY <2>1, <2>4 DEF Data, IsFixed, Msg
      <4> QED BY <4>1, <4>2
    <3>4. OwnMessage'
      <4>1. ret.op = "read" => ret.h \in Handles
        BY DEF Inv, RetOK, Results, NoResult
      <4> QED BY <2>1, <3>3, <4>1 DEF Roles, OwnMessage
    <3> QED BY <3>1, <3>2, <3>4 DEF Roles
  <2>6. SUFFICES ASSUME InOrder' PROVE Conversation' /\ ConnsKnown'
    BY <2>5 DEF InStep
  <2>7. Conversation'
    BY <1>6, <2>2, <2>6 DEF Conversation, At, QuietPlaces
  <2>8. ConnsKnown'
    <3>1. ASSUME NEW c \in conns, NEW h \in Handles, Current(h), c = LinkOf(h, handle[h].id)
          PROVE  Current(h)' /\ c = LinkOf(h, handle[h].id)'
      <4>1. h # call.h
        BY <1>2, <3>1 DEF Current
      <4> QED BY <2>1, <2>3, <3>1, <4>1 DEF Current, LinkOf
    <3> QED BY <1>3, <1>4, <1>5, <2>2, <2>6, <3>1 DEF ConnsKnown, At
  <2> QED BY <2>7, <2>8
<1> QED BY <1>7, <1>8, <1>9

LEMMA ConnectInStep ==
  ASSUME Lockstep, Inv, Roles, InStep, ConnectAnswered \/ ConnectFlowRead
  PROVE  Roles' /\ InStep'
<1>1. call.pc \in {"connRes", "connFlow"} /\ present' = present /\ conns' = conns
      /\ lib'.gen = lib.gen
  BY DEF ConnectAnswered, ConnectFlowRead, Reads, At, Inv, LinkOK, Libraries
<1>2. ~At("idle") /\ call.op = "connect" /\ call \in CallsInProgress /\ owed = {}
      /\ call.h \in Handles /\ handle[call.h] \in Impls /\ ~handle[call.h].connected
      /\ handle[call.h].impl
  BY <1>1, ConnectPlaces DEF PlacesOf
<1>3. InOrder' => InOrder /\ Conversation /\ ConnsKnown
  <2>1. InOrder' => InOrder
    BY <1>1, <1>2 DEF InOrder, At
  <2> QED BY <2>1 DEF InStep
<1>4. CASE ConnectFlowRead
  <2>1. Reads("connFlow") /\ At("connFlow")
    BY <1>4 DEF ConnectFlowRead, Reads
  <2> DEFINE hd == Connected(call.h, call.id)
  <2>2. /\ hd.impl /\ hd.props /\ hd.state = "CONNECTED" /\ hd.connected /\ hd.gen = lib.gen
        /\ hd.id = call.id /\ hd.client = handle[call.h].client
    BY <1>2 DEF Connected, Impls
  <2>3. Returns("SUCCESS", hd, NoMsg)
    BY <1>4 DEF ConnectFlowRead
  <2>4. InOrder' => Quiet'
    <3>1. SUFFICES ASSUME InOrder' PROVE Quiet'
      OBVIOUS
    <3>2. Answered(<<Hbm("flow", call.h, call.id)>>)
      BY <1>3, <2>1, <3>1, ReadsFirst DEF Conversation
    <3> QED BY <2>1, <3>2, ReadsFirst DEF Answered, Quiet
  <2>5. \A c : Pending(c) => c = [client |-> hd.client, id |-> hd.id]
    BY <2>2 DEF Pending, LinkOf
  <2> HIDE DEF hd
  <2> QED BY <1>1, <2>1, <2>2, <2>3, <2>4, <2>5, ConnectReturned DEF PlacesOf, At
<1>5. CASE ConnectAnswered
  <2> DEFINE reply == Head(ring.rx)
             yes == Hbm("connRes", call.h, call.id)
             flow == Hbm("flow", call.h, call.id)
             no == Msg("connRes", handle[call.h].client, call.id, FALSE)
  <2>1. Reads("connRes") /\ At("connRes") /\ lib' = lib
    BY <1>5 DEF ConnectAnswered, Reads
  <2>2. yes.kind = "connRes" /\ yes.ok = TRUE /\ no.kind = "connRes"
    <3>1. no.kind = "connRes"
      BY DEF Msg
    <3>2. yes.kind = "connRes" /\ yes.ok = TRUE
      BY DEF Hbm, Msg
    <3> QED BY <3>1, <3>2, Zenon
  <2>3. ~no.ok
    <3>1. \A c, i : ~Msg("connRes", c, i, FALSE).ok
      BY RefusalIsNotOk, Zenon
    <3> QED BY <3>1, Zenon
  <2>4. ASSUME InOrder
        PROVE  /\ reply.kind = "connRes"
               /\ reply.ok => ring'.tx = <<>> /\ ring'.rx = <<flow>>
               /\ ~reply.ok => Quiet'
    <3>1. Answered(<<yes, flow>>) \/ Answered(<<no>>)
      BY <2>1, <2>4, ReadsFirst DEF InStep, Conversation, ConnectExchange
    <3> HIDE DEF yes, flow, no
    <3>2. CASE Answered(<<yes, flow>>)
      BY <2>1, <2>2, <3>2, ReadsFirst DEF Answered
    <3>3. CASE Answered(<<no>>)
      BY <2>1, <2>2, <2>3, <3>3, ReadsFirst DEF Answered, Quiet
    <3> QED BY <3>1, <3>2, <3>3
  <2>5. CASE reply.kind = "connRes" /\ reply.ok
    <3>1. Continues("connFlow") /\ UNCHANGED <<handle, ret, owed>>
      BY <1>5, <2>5 DEF ConnectAnswered
    <3>2. call'.pc = "connFlow" /\ call'.op = call.op /\ call'.h = call.h /\ call'.id = call.id
      BY <1>2, <3>1 DEF Continues, CallsInProgress
    <3>3. Roles'
      BY <1>2, <2>1, <3>1, <3>2, ProceedRoles DEF Choosing, At
    <3>4. SUFFICES ASSUME InOrder' PROVE Conversation' /\ ConnsKnown'
      BY <3>3 DEF InStep
    <3>5. (Answered(<<Hbm("flow", call.h, call.id)>>))'
      BY <1>3, <2>4, <2>5, <3>1, <3>2, <3>4 DEF Answered, Hbm, Msg
    <3>6. Conversation'
      BY <3>2, <3>5 DEF Conversation, At, QuietPlaces
    <3>7. \A h, i : LinkOf(h, i)' = LinkOf(h, i) /\ (Current(h)' <=> Current(h))
      BY <2>1, <3>1 DEF LinkOf, Current
    <3>8. \A c : Pending(c) => Pending(c)'
      BY <3>1, <3>2 DEF Pending, LinkOf, At
    <3>9. ConnsKnown'
      BY <1>1, <1>3, <3>1, <3>2, <3>4, <3>7, <3>8 DEF ConnsKnown, At
    <3> QED BY <3>6, <3>9
  <2>6. CASE ~(reply.kind = "connRes" /\ reply.ok)
    <3>1. PICK efi, hd : Returns(efi, hd, NoMsg) /\ ~hd.connected
      <4>1. CASE reply.kind # "connRes"
        <5> DEFINE hd == [handle[call.h] EXCEPT !.state = "CONNECTED"]
        <5>1. Returns("SUCCESS", hd, NoMsg)
          BY <1>5, <4>1 DEF ConnectAnswered
        <5>2. ~hd.connected
          BY <1>2 DEF Impls
        <5> HIDE DEF hd
        <5> QED BY <5>1, <5>2
      <4>2. CASE reply.kind = "connRes" /\ ~reply.ok
        BY <1>2, <1>5, <4>2 DEF ConnectAnswered
      <4> QED BY <2>6, <4>1, <4>2
    <3>2. InOrder' => Quiet' /\ \A c : ~Pending(c)
      BY <1>3, <2>1, <2>4, <2>6 DEF Pending, At
    <3> QED BY <1>1, <2>1, <3>1, <3>2, ConnectReturned DEF PlacesOf, At
  <2> QED BY <2>5, <2>6
<1> QED BY <1>4, <1>5

\* A write returns once its data is sent; the handle has an answer to read.
LEMMA DataSentInStep == ASSUME Lockstep, Inv, Roles, InStep, DataSent PROVE Roles' /\ InStep'
<1> DEFINE data == Data(call.h)
           flow == Flow(call.h)
<1>1. Sends(data) /\ Returns("SUCCESS", handle[call.h], NoMsg) /\ UNCHANGED <<lib, conns, present>>
      /\ call.pc = "writeData"
  BY DEF DataSent, At
<1>2. ~At("idle") /\ call # Idle /\ call.op = "write" /\ call.h \in Handles /\ handle[call.h] \in Impls
  BY <1>1, CallTyped, OpOfPlace DEF At, PlacesOf
<1>3. lib.valid /\ handle[call.h].connected
  BY <1>2 DEF Inv, CallOK, Current
<1>4. Roles' /\ owed' = {call.h}
  <2>1. handle[call.h].impl /\ handle[call.h].props /\ handle[call.h].state = "CONNECTED"
    BY <1>2, <1>3 DEF Roles, ConnectedHandles
  <2> QED BY <1>1, <1>2, <1>3, <2>1, ReturnRoles
<1>5. SUFFICES ASSUME InOrder' PROVE Conversation' /\ ConnsKnown'
  BY <1>4 DEF InStep
<1>6. Conversation /\ ConnsKnown
  BY <1>1, <1>3, <1>5 DEF InStep, InOrder
<1>7. call' = Idle /\ handle' = handle
  <2>1. handle' = [handle EXCEPT ![call.h] = handle[call.h]]
    BY <1>1, <1>2 DEF Returns
  <2> QED BY <1>1, <2>1 DEF Returns, Inv, HandleOK
<1>8. PICK k : k = call.h
  OBVIOUS
<1>9. DataExchange(k)'
  <2>1. Data(k)' = data /\ Flow(k)' = flow /\ (IsFixed(k)' <=> IsFixed(call.h))
    BY <1>7, <1>8, ExchangeSteady
  <2>2. Quiet \/ (~IsFixed(call.h) /\ Sent(<<flow>>))
    BY <1>1, <1>6 DEF Conversation, At
  <2> HIDE DEF data, flow
  <2>3. CASE Quiet
    <3>1. ring'.tx = <<data>> /\ ring'.rx = <<>>
      BY <1>1, <2>3, SendsMore DEF Quiet
    <3> QED BY <2>1, <3>1 DEF DataExchange, Sent
  <2>4. CASE ~IsFixed(call.h) /\ Sent(<<flow>>)
    <3>1. ring'.tx = <<flow, data>> /\ ring'.rx = <<>>
      BY <1>1, <2>4, SendsMore DEF Sent
    <3> QED BY <2>1, <2>4, <3>1 DEF DataExchange, Sent
  <2> QED BY <2>2, <2>3, <2>4
<1>10. Conversation'
  BY <1>4, <1>7, <1>8, <1>9 DEF Conversation, At, Idle, QuietPlaces
<1>11. ConnsKnown'
  <2>1. \A c : ~Pending(c)
    BY <1>1 DEF Pending, At
  <2> QED BY <1>1, <1>2, <1>6, <1>7, <2>1, ReturnedConns DEF Current, LinkOf
<1> QED BY <1>10, <1>11

\* A read returns with the data of its handle.
LEMMA ReadReturned ==
  ASSUME Lockstep, Inv, Roles, InOrder, InStep, call.pc \in PlacesOf.read, Quiet',
         Returns("SUCCESS", handle[call.h], Data(call.h)), UNCHANGED <<lib, conns, present>>
  PROVE  Roles' /\ InStep'
<1>1. ~At("idle") /\ call.op = "read" /\ call.h \in Handles
  BY CallTyped, OpOfPlace DEF At, PlacesOf
<1>2. Roles' /\ owed' = {}
  BY <1>1, ReturnRoles DEF Roles, ConnectedHandles
<1>3. call' = Idle /\ handle' = handle
  <2>1. handle' = [handle EXCEPT ![call.h] = handle[call.h]]
    BY <1>1 DEF Returns
  <2> QED BY <2>1 DEF Returns, Inv, HandleOK
<1>4. Conversation'
  BY <1>2, <1>3, ReturnedInStep DEF Quiet
<1>5. ConnsKnown'
  <2>1. \A c : ~Pending(c)
    BY DEF Pending, At, PlacesOf
  <2> QED BY <1>1, <1>3, <2>1, ReturnedConns DEF Current, LinkOf, InStep
<1> QED BY <1>2, <1>4, <1>5 DEF InStep

LEMMA ReadInStep ==
  ASSUME Lockstep, Inv, Roles, InStep, FirstRead \/ SecondRead \/ FlowAfterRead
  PROVE  Roles' /\ InStep'
<1> DEFINE data == Data(call.h)
           flow == Flow(call.h)
           m == Head(ring.rx)
<1>1. PICK pc \in PlacesOf.read : Reads(pc) /\ call.pc = pc
  BY DEF FirstRead, SecondRead, FlowAfterRead, PlacesOf, Reads, At
<1>2. ~At("idle") /\ call.op = "read" /\ call.h \in Handles /\ call \in CallsInProgress
  BY <1>1, CallTyped, OpOfPlace DEF At, PlacesOf
<1>3. owed = {call.h} /\ lib.valid /\ present
  BY <1>1, <1>2 DEF Roles, CallRole, OwedOnce, Reads
<1>4. InOrder /\ Conversation /\ ConnsKnown
  BY <1>3 DEF InOrder, InStep
<1>5. data.kind = "data" /\ flow.kind = "flow"
  BY DataFields
<1>6. UNCHANGED <<lib, conns, present>>
  BY DEF FirstRead, SecondRead, FlowAfterRead
<1>7. CASE FirstRead
  <2>1. At("read") /\ DataExchange(call.h)
    BY <1>3, <1>4, <1>7 DEF FirstRead, Reads, Conversation
  <2>2. \/ IsFixed(call.h) /\ Answered(<<data>>)
        \/ ~IsFixed(call.h) /\ Answered(<<flow, data>>)
        \/ ~IsFixed(call.h) /\ HeciFunction = 0 /\ Answered(<<data, flow>>)
    BY <1>1, <2>1, ReadsFirst DEF DataExchange
  <2>3. CASE IsFixed(call.h) /\ Answered(<<data>>)
    <3>1. m = data /\ Quiet'
      <4> HIDE DEF data
      <4> QED BY <1>1, <2>3, ReadsFirst DEF Answered, Quiet
    <3>2. Returns("SUCCESS", handle[call.h], data)
      BY <1>5, <1>7, <2>3, <3>1 DEF FirstRead, ExpectsFlow
    <3> QED BY <1>1, <1>4, <1>6, <3>1, <3>2, ReadReturned
  <2>4. CASE ~IsFixed(call.h) /\ Answered(<<flow, data>>)
    <3>1. m = flow /\ ring'.tx = <<>> /\ ring'.rx = <<data>>
      <4> HIDE DEF data, flow
      <4> QED BY <1>1, <2>4, ReadsFirst DEF Answered
    <3>2. Continues("readAgain") /\ UNCHANGED <<handle, ret, owed>>
      BY <1>5, <1>7, <3>1 DEF FirstRead
    <3>3. call'.pc = "readAgain" /\ call'.op = call.op /\ call'.h = call.h
      BY <1>2, <3>2 DEF Continues, CallsInProgress
    <3>4. Roles'
      BY <1>2, <1>6, <2>4, <3>2, <3>3, ProceedRoles DEF Choosing
    <3>5. (Answered(<<Data(call.h)>>))'
      BY <3>1, <3>2, <3>3 DEF Answered, Data, IsFixed, Msg
    <3>6. Conversation'
      BY <3>3, <3>5 DEF Conversation, At, QuietPlaces
    <3>7. ConnsKnown'
      <4>1. \A h, i : LinkOf(h, i)' = LinkOf(h, i) /\ (Current(h)' <=> Current(h))
        BY <1>6, <3>2 DEF LinkOf, Current
      <4> QED BY <1>4, <1>6, <2>1, <3>2, <3>3, <4>1 DEF ConnsKnown, Pending, At
    <3> QED BY <3>4, <3>6, <3>7 DEF InStep
  <2>5. CASE ~IsFixed(call.h) /\ HeciFunction = 0 /\ Answered(<<data, flow>>)
    <3>1. m = data /\ ring'.tx = <<>> /\ ring'.rx = <<flow>>
      <4> HIDE DEF data, flow
      <4> QED BY <1>1, <2>5, ReadsFirst DEF Answered
    <3>2. call' = [call EXCEPT !.pc = "readFlow", !.msg = data] /\ UNCHANGED <<handle, ret, owed>>
      BY <1>5, <1>7, <2>5, <3>1 DEF FirstRead, ExpectsFlow
    <3>3. call'.pc = "readFlow" /\ call'.op = call.op /\ call'.h = call.h /\ call'.msg = data
      <4> HIDE DEF data
      <4> QED BY <1>2, <3>2 DEF CallsInProgress
    <3>4. Roles'
      BY <1>2, <1>6, <2>5, <3>2, <3>3, ProceedRoles DEF Choosing
    <3>5. (Answered(<<Flow(call.h)>>))'
      BY <3>1, <3>2, <3>3 DEF Answered, Flow, Hbm, Msg
    <3>6. Conversation'
      BY <3>3, <3>5 DEF Conversation, At, QuietPlaces
    <3>7. ConnsKnown'
      <4>1. \A h, i : LinkOf(h, i)' = LinkOf(h, i) /\ (Current(h)' <=> Current(h))
        BY <1>6, <3>2 DEF LinkOf, Current
      <4> QED BY <1>4, <1>6, <2>1, <3>2, <3>3, <4>1 DEF ConnsKnown, Pending, At
    <3> QED BY <3>4, <3>6, <3>7 DEF InStep
  <2> QED BY <2>2, <2>3, <2>4, <2>5
<1>8. CASE SecondRead
  <2>1. Answered(<<data>>) /\ Returns("SUCCESS", handle[call.h], m)
    BY <1>1, <1>4, <1>8, ReadsFirst DEF SecondRead, Reads, Conversation
  <2>2. m = data /\ Quiet'
    <3> HIDE DEF data
    <3> QED BY <1>1, <2>1, ReadsFirst DEF Answered, Quiet
  <2> QED BY <1>1, <1>4, <1>6, <2>1, <2>2, ReadReturned
<1>9. CASE FlowAfterRead
  <2>1. Answered(<<flow>>) /\ Returns("SUCCESS", handle[call.h], call.msg)
    BY <1>1, <1>4, <1>9, ReadsFirst DEF FlowAfterRead, Reads, Conversation
  <2>2. call.msg = data
    BY <1>2, <1>9 DEF FlowAfterRead, Reads, Roles, CallRole
  <2>3. Quiet'
    <3> HIDE DEF flow
    <3> QED BY <1>1, <2>1, ReadsFirst DEF Answered, Quiet
  <2> QED BY <1>1, <1>4, <1>6, <2>1, <2>2, <2>3, ReadReturned
<1> QED BY <1>7, <1>8, <1>9

\* The firmware has dropped the connection by the time it answers.
LEMMA DisconnectInStep ==
  ASSUME Lockstep, Inv, Roles, InStep, DisconnectAnswered PROVE Roles' /\ InStep'
<1>1. Reads("discRes") /\ At("discRes") /\ UNCHANGED <<lib, conns, present>>
  BY DEF DisconnectAnswered, Reads
<1>2. ~At("idle") /\ call.op = "disconnect" /\ call.h \in Handles
  BY <1>1, CallTyped, OpOfPlace DEF At, PlacesOf
<1>3. PICK efi : Returns(efi, NoImpl, NoMsg)
  BY DEF DisconnectAnswered
<1>4. Roles' /\ owed' = {}
  BY <1>2, <1>3, ReturnRoles
<1>5. SUFFICES ASSUME InOrder' PROVE Conversation' /\ ConnsKnown'
  BY <1>4 DEF InStep
<1>6. call' = Idle /\ handle' = [handle EXCEPT ![call.h] = NoImpl]
  BY <1>2, <1>3 DEF Returns
<1>7. InOrder /\ Conversation /\ ConnsKnown
  BY <1>1, <1>5, <1>6 DEF InStep, InOrder, Idle
<1>8. Quiet'
  <2>1. PICK ok \in BOOLEAN : Answered(<<Msg("discRes", handle[call.h].client, handle[call.h].id, ok)>>)
    BY <1>1, <1>7, ReadsFirst DEF Conversation, DisconnectExchange
  <2> QED BY <1>1, <2>1, ReadsFirst DEF Answered, Quiet
<1>9. Conversation'
  BY <1>4, <1>6, <1>8, ReturnedInStep DEF Quiet
<1>10. ConnsKnown'
  <2>1. \A c \in conns : ~Pending(c) /\ c # LinkOf(call.h, handle[call.h].id)
    BY <1>1, <1>7 DEF Pending, At, ConnsKnown, Reads
  <2>2. \A h \in Handles \ {call.h} : handle'[h] = handle[h]
    BY <1>2, <1>6 DEF Inv, HandleOK
  <2> QED BY <1>1, <1>2, <1>6, <1>7, <2>1, <2>2, ReturnedConns
<1> QED BY <1>9, <1>10

LEMMA CallStepInStep == ASSUME Lockstep, Inv, Roles, InStep, CallStep PROVE Roles' /\ InStep'
BY ResetSucceedsInStep, FailuresInStep, SendInStep, EnumerationInStep, MatchInStep, ConnectInStep,
   DataSentInStep, ReadInStep, DisconnectInStep
DEF CallStep
------------------------------------------------------------------------------
(* The calls. *)

\* A call that sends nothing leaves the buffers and the connections to the others.
LEMMA AtOnceInStep ==
  ASSUME Lockstep, Inv, Roles, InStep, At("idle"), NEW h \in Handles,
         UNCHANGED <<call, ring, conns, owed, present>>,
         lib'.valid = lib.valid, lib'.gen = lib.gen,
         handle' = handle \/ owed = {},
         \A g \in Handles \ {h} : handle'[g] = handle[g],
         handle'[h].connected => handle'[h] = handle[h],
         InOrder => \A c \in conns : Current(h) /\ c = LinkOf(h, handle[h].id) => handle'[h] = handle[h],
         ~(ret'.op = "read" /\ ret'.status = "SUCCESS")
  PROVE  Roles' /\ InStep'
<1>1. Roles'
  <2>1. ConnectedHandles'
    BY DEF Roles, ConnectedHandles
  <2>2. OwedOnce'
    BY DEF Roles, OwedOnce
  <2>3. CallRole' /\ OwnMessage'
    BY DEF CallRole, OwnMessage, At
  <2> QED BY <2>1, <2>2, <2>3 DEF Roles
<1>2. SUFFICES ASSUME InOrder' PROVE Conversation' /\ ConnsKnown'
  BY <1>1 DEF InStep
<1>3. InOrder /\ Conversation /\ ConnsKnown
  BY <1>2 DEF InStep, InOrder, At
<1>4. Conversation'
  <2>1. CASE owed = {}
    BY <1>3, <2>1 DEF Conversation, At, Quiet, QuietPlaces
  <2>2. CASE handle' = handle
    <3>1. \A g \in owed : DataExchange(g)'
      BY <1>3, <2>2, ExchangeSteady DEF Conversation, DataExchange, Quiet, Sent, Answered
    <3> QED BY <1>3, <3>1 DEF Conversation, At, Quiet, QuietPlaces
  <2> QED BY <2>1, <2>2
<1>5. ConnsKnown'
  <2>1. \A c : ~Pending(c) /\ ~Pending(c)'
    BY DEF Pending, At
  <2>2. ASSUME NEW c \in conns
        PROVE  /\ c.client \notin FixedClients
               /\ \E g \in Handles : Current(g)' /\ c = LinkOf(g, handle[g].id)'
    <3>1. PICK g \in Handles : Current(g) /\ c = LinkOf(g, handle[g].id)
      BY <1>3, <2>1 DEF ConnsKnown
    <3>2. handle'[g] = handle[g]
      BY <1>3, <3>1
    <3> QED BY <1>3, <3>1, <3>2 DEF ConnsKnown, Current, LinkOf
  <2> QED BY <2>2 DEF ConnsKnown, At
<1> QED BY <1>4, <1>5

\* A call that starts finds the buffers as its first step expects them.
LEMMA StartInStep ==
  ASSUME Lockstep, Inv, Roles, InStep, NEW h \in Handles, NEW op, NEW pc,
         MayCall(h, op), Starts(op, pc, h),
         UNCHANGED <<handle, ring, conns, owed, present>>,
         lib'.valid = lib.valid, lib'.gen = lib.gen,
         pc \in {"match", "writeFlow", "writeData", "read", "discReq"},
         op = "read" <=> pc = "read",
         op = "connect" => lib.valid /\ ~handle[h].connected,
         pc \in {"writeFlow", "discReq"} => ~IsFixed(h)
  PROVE  Roles' /\ InStep'
<1>1. At("idle") /\ IF op = "read" THEN owed = {h} ELSE owed = {}
  BY DEF MayCall, Lockstep
<1>2. call'.pc = pc /\ call'.op = op /\ call'.h = h /\ ret' = NoResult
  BY DEF Starts
<1>3. \A g : Data(g)' = Data(g) /\ Flow(g)' = Flow(g) /\ (IsFixed(g)' <=> IsFixed(g))
  BY ExchangeSteady
<1>4. Roles'
  <2>1. ConnectedHandles' /\ OwedOnce'
    BY DEF Roles, ConnectedHandles, OwedOnce
  <2>2. CallRole'
    BY <1>1, <1>2, <1>3 DEF CallRole, At, Choosing
  <2>3. OwnMessage'
    BY <1>2 DEF OwnMessage, NoResult
  <2> QED BY <2>1, <2>2, <2>3 DEF Roles
<1>5. SUFFICES ASSUME InOrder' PROVE Conversation' /\ ConnsKnown'
  BY <1>4 DEF InStep
<1>6. InOrder /\ Conversation /\ ConnsKnown
  BY <1>2, <1>5 DEF InStep, InOrder
<1>7. Conversation'
  <2>1. CASE op = "read"
    <3>1. \A g \in owed : DataExchange(g)'
      BY <1>1, <1>3, <1>6 DEF Conversation, DataExchange, Quiet, Sent, Answered
    <3> QED BY <1>2, <2>1, <3>1 DEF Conversation, At, QuietPlaces
  <2>2. CASE op # "read"
    <3>1. Quiet'
      BY <1>1, <1>6, <2>2 DEF Conversation, Quiet
    <3> QED BY <1>2, <2>2, <3>1 DEF Conversation, At, QuietPlaces
  <2> QED BY <2>1, <2>2
<1>8. ConnsKnown'
  <2>1. \A c : ~Pending(c)
    BY <1>1 DEF Pending, At
  <2>2. \A g, i : LinkOf(g, i)' = LinkOf(g, i) /\ (Current(g)' <=> Current(g))
    BY DEF LinkOf, Current
  <2>3. ~At("discRes")'
    BY <1>2 DEF At
  <2> QED BY <1>6, <2>1, <2>2, <2>3 DEF ConnsKnown
<1> QED BY <1>7, <1>8

LEMMA CallsInStep ==
  ASSUME Lockstep, Inv, Roles, InStep, NEW h \in Handles, Calls(h) PROVE Roles' /\ InStep'
<1>1. At("idle") /\ handle \in [Handles -> Impls]
  BY DEF Calls, TeeInit, TeeInitFails, TeeConnectRefused, TeeConnectMatches, TeeConnectResets,
         TransferRefused, TransferNotConnected, WriteStale, TeeWrite, TeeRead, DisconnectLocally,
         TeeDisconnect, MayCall, Inv, HandleOK
<1>2. \A op : MayCall(h, op) => IF op = "read" THEN owed = {h} ELSE owed = {}
  BY DEF MayCall, Lockstep
<1>3. \A op, status : ReturnsAtOnce(h, op, status) =>
        UNCHANGED <<lib, call, ring, conns, present>> /\ ret'.op = op /\ ret'.status = status
  BY DEF ReturnsAtOnce, Result
<1>4. ASSUME NEW client \in Clients, TeeInit(h, client) PROVE Roles' /\ InStep'
  <2>1. owed = {} /\ owed' = owed /\ ~handle[h].impl /\ handle' = [handle EXCEPT ![h] = NewImpl(client)]
        /\ ReturnsAtOnce(h, "init", "SUCCESS")
    BY <1>4 DEF TeeInit, Lockstep
  <2>2. ~handle'[h].connected /\ \A g \in Handles \ {h} : handle'[g] = handle[g]
    BY <1>1, <2>1 DEF NewImpl, NoImpl
  <2>3. ~Current(h)
    BY <2>1 DEF Current, Roles, ConnectedHandles
  <2> QED BY <1>1, <1>3, <2>1, <2>2, <2>3, AtOnceInStep
<1>5. ASSUME \/ \E status \in {"INVALID_PARAMETER", "INTERNAL_ERROR"} : TeeInitFails(h, status)
             \/ TeeConnectRefused(h)
             \/ \E op \in Transfers, status \in {"INVALID_PARAMETER", "INTERNAL_ERROR"} :
                  TransferRefused(h, op, status)
      PROVE  Roles' /\ InStep'
  <2>1. PICK op, status : ReturnsAtOnce(h, op, status) /\ UNCHANGED <<handle, owed>> /\ status # "SUCCESS"
    BY <1>5 DEF TeeInitFails, TeeConnectRefused, TransferRefused
  <2> QED BY <1>1, <1>3, <2>1, AtOnceInStep
<1>6. ASSUME NEW op \in Transfers, TransferNotConnected(h, op) PROVE Roles' /\ InStep'
  <2>1. MayCall(h, op) /\ NotConnected(h) /\ ReturnsAtOnce(h, op, "DISCONNECTED") /\ handle' = handle
        /\ owed' = owed \ {h}
    BY <1>6 DEF TransferNotConnected
  <2>2. h \notin owed
    BY <2>1 DEF NotConnected, Roles, OwedOnce, ConnectedHandles
  <2>3. owed' = owed
    BY <2>1, <2>2
  <2> QED BY <1>1, <1>3, <2>1, <2>3, AtOnceInStep
<1>7. ASSUME WriteStale(h) PROVE Roles' /\ InStep'
  <2>1. owed = {} /\ owed' = owed /\ Stale(h) /\ ReturnsAtOnce(h, "write", "DISCONNECTED")
        /\ handle' = [handle EXCEPT ![h].connected = FALSE]
    BY <1>2, <1>7 DEF WriteStale
  <2>2. ~handle'[h].connected /\ \A g \in Handles \ {h} : handle'[g] = handle[g]
    BY <1>1, <2>1 DEF Impls
  <2>3. InOrder => ~Current(h)
    <3>1. call.op # "connect"
      BY <1>1, IdleTyped DEF Idle
    <3> QED BY <2>1, <3>1 DEF InOrder, Current, Stale
  <2> QED BY <1>1, <1>3, <2>1, <2>2, <2>3, AtOnceInStep
<1>8. ASSUME DisconnectLocally(h) PROVE Roles' /\ InStep'
  <2>1. owed = {} /\ NothingToClose(h) /\ UNCHANGED <<call, ring, conns, owed, present>>
        /\ handle' = [handle EXCEPT ![h] = NoImpl] /\ ret' = NoResult
    BY <1>2, <1>8 DEF DisconnectLocally
  <2>2. lib'.valid = lib.valid /\ lib'.gen = lib.gen
    BY <1>8 DEF DisconnectLocally, ReleaseId, Inv, LinkOK, Libraries
  <2>3. ~handle'[h].connected /\ \A g \in Handles \ {h} : handle'[g] = handle[g]
    BY <1>1, <2>1 DEF NoImpl
  <2>4. InOrder => \A c \in conns : ~(Current(h) /\ c = LinkOf(h, handle[h].id))
    <3>1. CASE IsFixed(h)
      BY <3>1 DEF IsFixed, InStep, ConnsKnown, LinkOf
    <3>2. CASE ~handle[h].connected
      BY <3>2 DEF Current
    <3> QED BY <2>1, <3>1, <3>2 DEF NothingToClose
  <2>5. ~(ret'.op = "read" /\ ret'.status = "SUCCESS")
    BY <2>1 DEF NoResult
  <2> QED BY <1>1, <2>1, <2>2, <2>3, <2>4, <2>5, AtOnceInStep
<1>9. ASSUME TeeConnectMatches(h) PROVE Roles' /\ InStep'
  BY <1>9, StartInStep DEF TeeConnectMatches, ConnectRefused
<1>10. ASSUME TeeConnectResets(h) PROVE Roles' /\ InStep'
  <2>1. /\ owed = {} /\ ~lib.valid /\ ~handle[h].connected
        /\ UNCHANGED <<handle, ring, conns, owed, present>> /\ Starts("connect", "reset", h)
    BY <1>2, <1>10 DEF TeeConnectResets, ConnectRefused
  <2>2. call'.pc = "reset" /\ call'.op = "connect" /\ call'.h = h /\ ret' = NoResult
    BY <2>1 DEF Starts
  <2>3. ~lib'.valid
    BY <1>10, <2>1 DEF TeeConnectResets, Inv, LinkOK, Libraries
  <2>4. Roles'
    BY <2>1, <2>2, <2>3
    DEF Roles, ConnectedHandles, OwedOnce, CallRole, OwnMessage, At, Choosing, NoResult
  <2>5. ~InOrder'
    BY <2>2, <2>3 DEF InOrder, At
  <2> QED BY <2>4, <2>5 DEF InStep
<1>11. ASSUME TeeWrite(h) PROVE Roles' /\ InStep'
  <2>1. PICK pc \in {"writeFlow", "writeData"} : Starts("write", pc, h) /\ (pc = "writeFlow" => ~IsFixed(h))
    BY <1>11 DEF TeeWrite
  <2> QED BY <1>11, <2>1, StartInStep DEF TeeWrite
<1>12. ASSUME TeeRead(h) PROVE Roles' /\ InStep'
  BY <1>12, StartInStep DEF TeeRead
<1>13. ASSUME TeeDisconnect(h) PROVE Roles' /\ InStep'
  <2>1. lib'.valid = lib.valid /\ lib'.gen = lib.gen
    BY <1>13 DEF TeeDisconnect, ReleaseId, Inv, LinkOK, Libraries
  <2> QED BY <1>13, <2>1, StartInStep DEF TeeDisconnect, NothingToClose
<1> QED BY <1>4, <1>5, <1>6, <1>7, <1>8, <1>9, <1>10, <1>11, <1>12, <1>13 DEF Calls
------------------------------------------------------------------------------
(* The theorems. *)

LEMMA InitInStep == Init => Roles /\ InStep
BY DEF Init, Roles, ConnectedHandles, OwedOnce, CallRole, OwnMessage, InStep, InOrder, NoImpl,
       NoResult, Idle, At

LEMMA NextInStep == Lockstep /\ Inv /\ Roles /\ InStep /\ [Next]_vars => Roles' /\ InStep'
<1> SUFFICES ASSUME Lockstep, Inv, Roles, InStep, [Next]_vars PROVE Roles' /\ InStep'
  OBVIOUS
<1>1. CASE Next
  BY <1>1, CallStepInStep, CallsInStep, FirmwareInStep DEF Next
<1>2. CASE UNCHANGED vars
  <2>1. \A h : Data(h)' = Data(h) /\ Flow(h)' = Flow(h) /\ (IsFixed(h)' <=> IsFixed(h))
    BY <1>2, ExchangeSteady DEF vars
  <2>2. Roles'
    BY <1>2, <2>1 DEF vars, Roles, ConnectedHandles, OwedOnce, CallRole, OwnMessage, At
  <2>3. InStep'
    <3>1. InOrder' => InOrder
      BY <1>2 DEF vars, InOrder, At
    <3>2. Conversation => Conversation'
      <4>1. Quiet => Quiet'
        BY <1>2 DEF vars, Quiet
      <4>2. \A h \in owed : DataExchange(h) => DataExchange(h)'
        BY <1>2, <2>1 DEF vars, DataExchange, Quiet, Sent, Answered
      <4>3. \A client : PropertiesExchange(client) => PropertiesExchange(client)'
        BY <1>2 DEF vars, PropertiesExchange, Quiet, Sent, Answered, Msg
      <4>4. \A h, id : ConnectExchange(h, id) => ConnectExchange(h, id)'
        BY <1>2 DEF vars, ConnectExchange, Quiet, Sent, Answered, Hbm, Msg
      <4>5. \A h : DisconnectExchange(h) => DisconnectExchange(h)'
        BY <1>2 DEF vars, DisconnectExchange, Quiet, Sent, Answered, Hbm, Msg
      <4>6. \A h, id : Hbm("flow", h, id)' = Hbm("flow", h, id)
        BY <1>2 DEF vars, Hbm, Msg
      <4>7. /\ ring' = ring /\ call' = call /\ owed' = owed
            /\ \A s : (Sent(s) => Sent(s)') /\ (Answered(s) => Answered(s)')
        BY <1>2 DEF vars, Sent, Answered
      <4> QED BY <2>1, <4>1, <4>2, <4>3, <4>4, <4>5, <4>6, <4>7 DEF Conversation, At, Sent, Answered, Msg
    <3>3. ConnsKnown => ConnsKnown'
      BY <1>2 DEF vars, ConnsKnown, Pending, LinkOf, Current, At
    <3> QED BY <3>1, <3>2, <3>3 DEF InStep
  <2> QED BY <2>2, <2>3
<1> QED BY <1>1, <1>2

LEMMA StaysInStep == ASSUME Lockstep PROVE Spec => [](Inv /\ Roles /\ InStep)
<1>1. Init => Roles /\ InStep
  BY InitInStep
<1>2. Inv /\ Roles /\ InStep /\ [Next]_vars => (Roles /\ InStep)'
  BY NextInStep
<1> QED BY <1>1, <1>2, InvHolds, PTL DEF Spec

LEMMA IdleIsInOrder == Inv /\ At("idle") /\ lib.valid /\ present => InOrder
BY DEF InOrder

\* Between calls, when no answer is outstanding, the buffers are empty: every call
\* has read exactly what its requests produce, whatever failed before it.
THEOREM NothingLeftOver == ASSUME Lockstep PROVE Spec => []RingDrained
<1>1. Inv /\ Roles /\ InStep => RingDrained
  <2> SUFFICES ASSUME Inv, InStep, At("idle"), lib.valid, present, owed = {}
               PROVE  ring = [tx |-> <<>>, rx |-> <<>>]
    BY DEF RingDrained
  <2>1. Quiet
    BY DEF InOrder, InStep, Conversation
  <2> QED BY <2>1 DEF Quiet, Inv, RingOK
<1> QED BY <1>1, StaysInStep, PTL

\* Between calls on a valid link the firmware holds no connection that no handle
\* has: a connect or disconnect that fails closes it or invalidates the link.
THEOREM ConnectionsHaveHandles == ASSUME Lockstep PROVE Spec => []NoOrphanConnections
<1>1. Inv /\ Roles /\ InStep => NoOrphanConnections
  <2> SUFFICES ASSUME Inv, InStep, At("idle"), lib.valid, present
               PROVE  \A c \in conns : \E h \in Handles :
                        Current(h) /\ c = [client |-> handle[h].client, id |-> handle[h].id]
    BY DEF NoOrphanConnections
  <2>1. ConnsKnown
    BY DEF InOrder, InStep
  <2> QED BY <2>1 DEF ConnsKnown, Pending, LinkOf, At
<1> QED BY <1>1, StaysInStep, PTL

\* A read that succeeds leaves its handle as it was.
LEMMA ReadLeavesHandle ==
  ASSUME Inv, ~At("idle"), NEW efi, NEW hd, NEW msg, Returns(efi, hd, msg),
         call.op = "read" /\ efi = "SUCCESS" => hd = handle[call.h],
         ret'.op = "read", ret'.status = "SUCCESS"
  PROVE  handle' = handle
<1>1. call.op # "disconnect"
  BY DEF Returns, NoResult
<1>2. ret'.op = call.op /\ ret'.status = TeeStatus(call.op, efi)
  BY <1>1 DEF Returns, Result
<1>3. efi = "SUCCESS"
  BY <1>2 DEF TeeStatus
<1>4. handle' = [handle EXCEPT ![call.h] = handle[call.h]]
  BY <1>1, <1>2, <1>3 DEF Returns
<1> QED BY <1>4 DEF Inv, HandleOK

LEMMA ReadReturnsOwnData ==
  ASSUME Inv, Roles, Roles', [Next]_vars, ret'.op = "read", ret'.status = "SUCCESS"
  PROVE  ret'.msg = Data(ret'.h)
<1>1. CASE handle' = handle
  BY <1>1 DEF Roles, OwnMessage, Data, IsFixed, Msg
<1>2. CASE MatchDynamic
  <2>1. /\ call.h \in Handles /\ handle[call.h] \in Impls
        /\ handle[call.h].client \notin FixedClients
        /\ handle' = [handle EXCEPT ![call.h].props = FALSE]
        /\ ret' = ret
    BY <1>2, CallTyped DEF MatchDynamic, At
  <2>2. ret'.h \in Handles
    BY <2>1 DEF Inv, RetOK, Results, NoResult
  <2>3. PICK r \in Handles : r = ret'.h
    BY <2>2
  <2>4. /\ handle'[r].client = handle[r].client /\ handle'[r].id = handle[r].id
        /\ r # call.h => handle'[r] = handle[r]
        /\ ~IsFixed(call.h)
    BY <2>1 DEF Inv, HandleOK, Impls, IsFixed
  <2>5. handle'[call.h].client = handle[call.h].client
    BY <2>1 DEF Inv, HandleOK, Impls
  <2> QED BY <2>1, <2>3, <2>4, <2>5 DEF Roles, OwnMessage, Data, IsFixed, Msg
<1>3. CASE CallStep /\ ~MatchDynamic
  <2>1. ~At("idle")
    BY <1>3, OutgoingTyped
    DEF CallStep, ResetSucceeds, ResetFails, HbmSent, SendAborted, ReadAborted, DeviceError,
        EnumerationAnswered, PropertiesAnswered, EnumerationDone, MatchFails, MatchFixed,
        ConnectAnswered, ConnectFlowRead, DataSent, FirstRead, SecondRead, FlowAfterRead,
        DisconnectAnswered, Reads, Reading, At
  <2>2. CASE MatchFails \/ MatchFixed \/ ConnectAnswered \/ ConnectFlowRead \/ DisconnectAnswered
    <3>1. call.op # "read"
      BY <2>1, <2>2, OpOfPlace
      DEF MatchFails, MatchFixed, ConnectAnswered, ConnectFlowRead, DisconnectAnswered, Reads, At,
          PlacesOf
    <3>2. handle' = handle \/ \E efi, hd, msg : Returns(efi, hd, msg)
      BY <2>2, Zenon
      DEF MatchFails, MatchFixed, ConnectAnswered, ConnectFlowRead, DisconnectAnswered
    <3> QED BY <1>1, <2>1, <3>1, <3>2, ReadLeavesHandle
  <2>3. CASE SendAborted \/ ReadAborted
    <3>1. PICK hd : Returns("MEDIA_CHANGED", hd, NoMsg)
      BY <2>3 DEF SendAborted, ReadAborted, LinkBreaks
    <3> QED BY <1>1, <2>1, <3>1, ReadLeavesHandle
  <2>4. CASE ~(MatchFails \/ MatchFixed \/ ConnectAnswered \/ ConnectFlowRead \/ DisconnectAnswered
               \/ SendAborted \/ ReadAborted)
    <3>1. handle' = handle \/ \E efi, msg : Returns(efi, handle[call.h], msg)
      BY <1>3, <2>4
      DEF CallStep, ResetSucceeds, ResetFails, HbmSent, DeviceError, EnumerationAnswered,
          PropertiesAnswered, EnumerationDone, DataSent, FirstRead, SecondRead, FlowAfterRead
    <3> QED BY <1>1, <2>1, <3>1, ReadLeavesHandle
  <2> QED BY <2>2, <2>3, <2>4
<1>4. ASSUME NEW h \in Handles, Calls(h) PROVE FALSE
  <2>1. \A op, status : ReturnsAtOnce(h, op, status) => ret'.op = op /\ ret'.status = status
    BY DEF ReturnsAtOnce, Result
  <2>2. ret' # NoResult
    BY DEF NoResult
  <2> QED BY <1>4, <2>1, <2>2
      DEF Calls, TeeInit, TeeInitFails, TeeConnectRefused, TeeConnectMatches, TeeConnectResets,
          TransferRefused, TransferNotConnected, WriteStale, TeeWrite, TeeRead, DisconnectLocally,
          TeeDisconnect, Starts
<1>5. CASE Firmware
  BY <1>1, <1>5
  DEF Firmware, FwEnumerates, FwDescribes, FwAccepts, FwRefuses, FwDisconnects, FwTakesFlow,
      FwResponds, FwAnswersOddly, FwResets, DeviceGone, Answers
<1> QED BY <1>1, <1>2, <1>3, <1>4, <1>5 DEF Next, vars

\* A TeeRead that succeeds returns data of its own client for its own host client
\* id, though a message carries no handle and replies are told apart by order alone.
THEOREM ReadsReturnOwnData == ASSUME Lockstep PROVE Spec => ReadsOwnMessages
<1>1. Lockstep /\ Inv /\ Roles /\ InStep /\ [Next]_vars =>
        [ret'.op = "read" /\ ret'.status = "SUCCESS" => ret'.msg = Data(ret'.h)]_vars
  <2> SUFFICES ASSUME Lockstep, Inv, Roles, InStep, [Next]_vars,
                      ret'.op = "read", ret'.status = "SUCCESS"
               PROVE  ret'.msg = Data(ret'.h)
    OBVIOUS
  <2>1. Roles'
    BY NextInStep
  <2> QED BY <2>1, ReadReturnsOwnData
<1> QED BY <1>1, StaysInStep, PTL DEF Spec, ReadsOwnMessages

\* In lockstep a connect response is what the connect reads at its place.
LEMMA ConnectReadsItsAnswer ==
  ASSUME Inv, InStep, Reads("connRes") PROVE Head(ring.rx).kind = "connRes"
<1> DEFINE yes == Hbm("connRes", call.h, call.id)
           flow == Hbm("flow", call.h, call.id)
           no == Msg("connRes", handle[call.h].client, call.id, FALSE)
<1>1. present /\ At("connRes")
  BY DEF Reads
<1>2. call.op = "connect"
  BY <1>1, OpOfPlace DEF At, PlacesOf
<1>3. ConnectExchange(call.h, call.id)
  BY <1>1, <1>2 DEF InStep, InOrder, Conversation, At
<1>4. Answered(<<yes, flow>>) \/ Answered(<<no>>)
  BY <1>3, ReadsFirst DEF ConnectExchange
<1>5. yes.kind = "connRes" /\ no.kind = "connRes"
  <2>1. yes.kind = "connRes"
    BY HbmFields, Zenon
  <2>2. no.kind = "connRes"
    BY DEF Msg
  <2> QED BY <2>1, <2>2
<1> HIDE DEF yes, flow, no
<1> QED BY <1>4, <1>5, ReadsFirst

\* A call that returned success as a connect left its handle as it returned it.
LEMMA ConnectReturns ==
  ASSUME Inv, ~At("idle"), NEW efi, NEW hd, NEW msg, Returns(efi, hd, msg),
         ret'.op = "connect", ret'.status = "SUCCESS"
  PROVE  call.op = "connect" /\ efi = "SUCCESS" /\ handle'[ret'.h] = hd
<1>1. call.op # "disconnect"
  BY DEF Returns, NoResult
<1>2. ret'.op = call.op /\ ret'.h = call.h /\ ret'.status = TeeStatus(call.op, efi)
  BY <1>1 DEF Returns, Result
<1>3. efi = "SUCCESS"
  BY <1>2 DEF TeeStatus
<1>4. call.h \in Handles
  BY CallTyped DEF CallsInProgress
<1> QED BY <1>1, <1>2, <1>3, <1>4 DEF Returns, Inv, HandleOK

LEMMA CallStepConnects ==
  ASSUME Inv, InStep, CallStep, At("idle")', ret'.op = "connect", ret'.status = "SUCCESS"
  PROVE  handle'[ret'.h].connected
<1>1. ~At("idle")
  BY OutgoingTyped
  DEF CallStep, ResetSucceeds, ResetFails, HbmSent, SendAborted, ReadAborted, DeviceError,
      EnumerationAnswered, PropertiesAnswered, EnumerationDone, MatchFails, MatchFixed,
      MatchDynamic, ConnectAnswered, ConnectFlowRead, DataSent, FirstRead, SecondRead,
      FlowAfterRead, DisconnectAnswered, Reads, Reading, At
<1>2. call \in CallsInProgress /\ \A pc : Continues(pc) /\ At("idle")' => pc = "idle"
  BY <1>1, CallTyped DEF Continues, CallsInProgress, At
<1>3. ASSUME ResetSucceeds \/ HbmSent \/ PropertiesAnswered \/ EnumerationDone \/ MatchDynamic
      PROVE  FALSE
  <2>1. PICK pc \in Places \ {"idle"} : call'.pc = pc
    <3>1. CASE HbmSent
      BY <1>2, <3>1 DEF HbmSent, AfterSending, CallsInProgress, Places
    <3>2. CASE PropertiesAnswered
      BY <1>2, <3>2 DEF PropertiesAnswered, Continues, CallsInProgress, Places
    <3>3. CASE ResetSucceeds \/ EnumerationDone \/ MatchDynamic
      BY <1>2, <3>3
      DEF ResetSucceeds, EnumerationDone, MatchDynamic, Continues, CallsInProgress, Places
    <3> QED BY <1>3, <3>1, <3>2, <3>3
  <2> QED BY <2>1 DEF At
<1>4. ASSUME ResetFails \/ SendAborted \/ ReadAborted \/ DeviceError \/ EnumerationAnswered \/ MatchFails
      PROVE  FALSE
  <2>1. \E efi, hd : Returns(efi, hd, NoMsg) /\ efi # "SUCCESS"
    <3>1. CASE EnumerationAnswered
      <4>1. call' # [call EXCEPT !.pc = "propReq", !.todo = Clients]
        BY <1>2 DEF CallsInProgress, At
      <4>2. Returns("DEVICE_ERROR", handle[call.h], NoMsg)
        BY <3>1, <4>1 DEF EnumerationAnswered
      <4> QED BY <4>2
    <3>2. CASE SendAborted \/ ReadAborted
      BY <3>2 DEF SendAborted, ReadAborted, LinkBreaks
    <3>3. CASE ResetFails \/ DeviceError
      BY <3>3 DEF ResetFails, DeviceError
    <3>4. CASE MatchFails
      <4>1. PICK efi, hd : Returns(efi, hd, NoMsg) /\ efi \in {"NOT_FOUND", "DEVICE_ERROR"}
        BY <3>4 DEF MatchFails
      <4> QED BY <4>1
    <3> QED BY <1>4, <3>1, <3>2, <3>3, <3>4
  <2> QED BY <1>1, <2>1, ConnectReturns
<1>5. CASE MatchFixed \/ ConnectFlowRead
  <2>1. PICK id : Returns("SUCCESS", Connected(call.h, id), NoMsg)
    BY <1>5 DEF MatchFixed, ConnectFlowRead
  <2>2. Connected(call.h, id).connected
    BY <1>2 DEF Connected, CallsInProgress, Inv, HandleOK, Impls
  <2>3. handle'[ret'.h] = Connected(call.h, id)
    BY <1>1, <2>1, ConnectReturns
  <2> QED BY <2>2, <2>3
<1>6. ASSUME ConnectAnswered PROVE FALSE
  <2>1. Head(ring.rx).kind = "connRes"
    BY <1>6, ConnectReadsItsAnswer DEF ConnectAnswered
  <2>2. Returns("PROTOCOL_ERROR", handle[call.h], NoMsg) \/ Continues("connFlow")
    BY <1>6, <2>1 DEF ConnectAnswered
  <2> QED BY <1>1, <1>2, <2>2, ConnectReturns
<1>7. ASSUME DataSent \/ FirstRead \/ SecondRead \/ FlowAfterRead \/ DisconnectAnswered PROVE FALSE
  <2>1. call.op # "connect"
    BY <1>1, <1>7, OpOfPlace
    DEF DataSent, FirstRead, SecondRead, FlowAfterRead, DisconnectAnswered, Reads, At, PlacesOf
  <2>2. \E efi, hd, msg : Returns(efi, hd, msg)
    BY <1>2, <1>7
    DEF DataSent, FirstRead, SecondRead, FlowAfterRead, DisconnectAnswered, CallsInProgress,
        Continues, At
  <2> QED BY <1>1, <2>1, <2>2, ConnectReturns
<1> QED BY <1>3, <1>4, <1>5, <1>6, <1>7 DEF CallStep

\* In lockstep use a TeeConnect that returned TEE_SUCCESS did connect its handle: it
\* took the answer to its own request, and nothing that an earlier call left.
THEOREM ConnectsAreReal == ASSUME Lockstep PROVE Spec => []ConnectMeansConnected
<1>1. Init => ConnectMeansConnected
  BY DEF Init, ConnectMeansConnected, NoResult
<1>2. Inv /\ Roles /\ InStep /\ ConnectMeansConnected /\ [Next]_vars => ConnectMeansConnected'
  <2> SUFFICES ASSUME Inv, InStep, ConnectMeansConnected, [Next]_vars,
                      At("idle")', ret'.op = "connect", ret'.status = "SUCCESS"
               PROVE  handle'[ret'.h].connected
    BY DEF ConnectMeansConnected
  <2>1. CASE UNCHANGED <<call, ret, handle>>
    BY <2>1 DEF ConnectMeansConnected, At
  <2>2. ASSUME NEW h \in Handles, Calls(h) PROVE FALSE
    <3>1. \A op, status : ReturnsAtOnce(h, op, status) => ret'.op = op /\ ret'.status = status
      BY DEF ReturnsAtOnce, Result
    <3>2. ret' # NoResult
      BY DEF NoResult
    <3> QED BY <2>2, <3>1, <3>2
        DEF Calls, TeeInit, TeeInitFails, TeeConnectRefused, TeeConnectMatches, TeeConnectResets,
            TransferRefused, TransferNotConnected, WriteStale, TeeWrite, TeeRead,
            DisconnectLocally, TeeDisconnect, Starts, Transfers
  <2>3. CASE Firmware
    BY <2>1, <2>3
    DEF Firmware, FwEnumerates, FwDescribes, FwAccepts, FwRefuses, FwDisconnects, FwTakesFlow,
        FwResponds, FwAnswersOddly, FwResets, DeviceGone, Answers
  <2> QED BY <2>1, <2>2, <2>3, CallStepConnects DEF Next, vars
<1> QED BY <1>1, <1>2, StaysInStep, PTL DEF Spec
===============================================================================
