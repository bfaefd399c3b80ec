---------------------------- MODULE HeciCoreProofs -----------------------------
(***************************************************************************)
(* Type correctness of HeciCore, and its slot arithmetic, for every depth  *)
(* of the buffers and every width of their pointers that is larger: the    *)
(* host never writes into a full buffer, although it looks for room once   *)
(* for a whole packet.                                                     *)
(*                                                                         *)
(* The strengthening says where each side is in its packet: the words      *)
(* still to come are words of the message, and, for the host, fit the free *)
(* slots.  Only the host fills its buffer; the firmware takes slots away,  *)
(* and a reset takes all of them.                                          *)
(*                                                                         *)
(* At the end, the reset handshake: a reset that succeeds leaves nothing   *)
(* of an earlier message.                                                  *)
(***************************************************************************)
EXTENDS HeciCore, TLAPS

\* What is left of the host's packet belongs to the message and fits the buffer.
SendPlace ==
  call.op = "send" =>
    /\ sent # <<>> /\ call.left <= sent[Len(sent)]
    /\ call.at = "body" => /\ call.todo <= Words(PacketLength(call.left))
                           /\ call.todo <= Depth - Fill(tx)

ReceivePlace ==
  call.op = "receive" /\ call.at \in {"gather", "stall", "body"} => call.todo <= Words(call.n)

FwPlace ==
  fw.left > 0 \/ fw.todo > 0 =>
    fw.out \in DOMAIN put /\ Words(fw.left) + fw.todo <= Words(put[fw.out])

Inv == TypeOK /\ HostNeverOverflows /\ SendPlace /\ ReceivePlace /\ FwPlace
------------------------------------------------------------------------------
(* The operations on a buffer. *)

Pointers == 0..(Width - 1)
Memories == [0..(Depth - 1) -> Slots]

LEMMA BufferParts ==
  ASSUME NEW b \in Buffers
  PROVE  b.mem \in Memories /\ b.wp \in Pointers /\ b.rp \in Pointers
BY DEF Buffers, Memories, Pointers

LEMMA BuffersAre == Buffers = [mem : Memories, wp : Pointers, rp : Pointers]
BY DEF Buffers, Memories, Pointers

LEMMA SlotIndex == \A p \in Pointers : p % Depth \in 0..(Depth - 1)
BY DepthAssumption DEF Pointers

LEMMA AdvanceIsPointer == \A p \in Pointers : Advance(p) \in Pointers
BY DepthAssumption DEF Advance, Pointers

\* The count of filled slots, from pointers that wrap.
LEMMA FillIsCount ==
  ASSUME NEW b \in Buffers
  PROVE  Fill(b) \in 0..(Width - 1)
BY BufferParts, DepthAssumption DEF Fill, Pointers

LEMMA JunkIsSlot == Junk \in Slots
BY DEF Junk, Slots

LEMMA EmptyHasNone == EmptyBuffer \in Buffers /\ Fill(EmptyBuffer) = 0
<1>1. 0 \in Pointers
  BY DepthAssumption DEF Pointers
<1>2. [i \in 0..(Depth - 1) |-> Junk] \in Memories
  BY JunkIsSlot DEF Memories
<1>3. EmptyBuffer \in Buffers
  BY <1>1, <1>2, BuffersAre DEF EmptyBuffer
<1>4. Fill(EmptyBuffer) = 0
  BY DEF EmptyBuffer, Fill
<1> QED BY <1>3, <1>4

LEMMA FrontIsSlot == ASSUME NEW b \in Buffers PROVE Front(b) \in Slots
BY BufferParts, SlotIndex, JunkIsSlot DEF Front, Memories

\* A slot written to a buffer that is not full adds one to the count, also where
\* the pointer wraps.
LEMMA PushAddsOne ==
  ASSUME NEW b \in Buffers, NEW slot \in Slots
  PROVE  /\ Push(b, slot) \in Buffers
         /\ Fill(b) < Depth => Fill(Push(b, slot)) = Fill(b) + 1
<1> DEFINE mem == [b.mem EXCEPT ![b.wp % Depth] = slot]
<1>1. mem \in Memories
  BY BufferParts DEF Memories
<1>2. Push(b, slot) = [b EXCEPT !.mem = mem, !.wp = Advance(b.wp)]
  BY DEF Push
<1>3. Advance(b.wp) \in Pointers
  BY BufferParts, AdvanceIsPointer
<1> HIDE DEF mem
<1>4. Push(b, slot) \in Buffers /\ Push(b, slot).wp = Advance(b.wp)
      /\ Push(b, slot).rp = b.rp
  <2> DEFINE wp == Advance(b.wp)
  <2> SUFFICES /\ [b EXCEPT !.mem = mem, !.wp = wp] \in Buffers
               /\ [b EXCEPT !.mem = mem, !.wp = wp].wp = wp
               /\ [b EXCEPT !.mem = mem, !.wp = wp].rp = b.rp
    BY <1>2, Zenon
  <2>1. wp \in Pointers
    BY <1>3
  <2> HIDE DEF wp
  <2> QED BY <1>1, <2>1, BuffersAre
<1>5. Fill(b) < Depth => Fill(Push(b, slot)) = Fill(b) + 1
  BY <1>4, BufferParts, DepthAssumption DEF Fill, Advance, Pointers
<1> QED BY <1>4, <1>5

\* A slot read takes one from the count; from an empty buffer it takes nothing.
LEMMA PopTakesOne ==
  ASSUME NEW b \in Buffers
  PROVE  Pop(b) \in Buffers /\ Fill(Pop(b)) <= Fill(b)
<1>1. CASE b.wp = b.rp
  BY <1>1, FillIsCount DEF Pop
<1>2. CASE b.wp # b.rp
  <2> DEFINE mem == [b.mem EXCEPT ![b.rp % Depth] = Junk]
  <2>1. mem \in Memories
    BY BufferParts, JunkIsSlot DEF Memories
  <2>2. Pop(b) = [b EXCEPT !.mem = mem, !.rp = Advance(b.rp)]
    BY <1>2 DEF Pop
  <2>3. Advance(b.rp) \in Pointers
    BY BufferParts, AdvanceIsPointer
  <2> HIDE DEF mem
  <2>4. Pop(b) \in Buffers /\ Pop(b).wp = b.wp /\ Pop(b).rp = Advance(b.rp)
    <3> DEFINE rp == Advance(b.rp)
    <3> SUFFICES /\ [b EXCEPT !.mem = mem, !.rp = rp] \in Buffers
                 /\ [b EXCEPT !.mem = mem, !.rp = rp].wp = b.wp
                 /\ [b EXCEPT !.mem = mem, !.rp = rp].rp = rp
      BY <2>2, Zenon
    <3>1. rp \in Pointers
      BY <2>3
    <3> HIDE DEF rp
    <3> QED BY <2>1, <3>1, BuffersAre
  <2>5. Fill(Pop(b)) <= Fill(b)
    BY <1>2, <2>4, BufferParts, DepthAssumption DEF Fill, Advance, Pointers
  <2> QED BY <2>4, <2>5
<1> QED BY <1>1, <1>2

\* The test for room, on a buffer that is not overflowed, means what it says.
LEMMA RoomMeansFits ==
  ASSUME NEW words \in Nat, tx \in Buffers, Fill(tx) <= Depth, HasRoom(words)
  PROVE  words + 1 <= Depth - Fill(tx)
BY FillIsCount, DepthAssumption DEF HasRoom, Room, GetFilledSlots, HECI_CB_OVERFLOW
------------------------------------------------------------------------------
(* Lengths. *)

LEMMA WordsIsNat == \A n \in Nat : Words(n) \in Nat /\ (n > 0 => Words(n) > 0)
BY DEF Words

LEMMA WordsMonotone == \A m, n \in Nat : m <= n => Words(m) <= Words(n)
BY DEF Words

\* A packet of whole words, or the whole rest, splits the words of a message.
LEMMA WordsSplit ==
  \A n, left \in Nat : n <= left /\ (n = left \/ n % 4 = 0) =>
    Words(left - n) + Words(n) = Words(left)
BY DEF Words

LEMMA LastIsLength ==
  ASSUME sent \in Seq(HostLens), sent # <<>>
  PROVE  Len(sent) \in Nat /\ sent[Len(sent)] \in Nat
<1>1. Len(sent) \in Nat /\ Len(sent) # 0
  OBVIOUS
<1>2. Len(sent) \in 1..Len(sent)
  BY <1>1
<1>3. sent[Len(sent)] \in HostLens
  BY <1>2
<1> QED BY <1>1, <1>3, LengthAssumption

LEMMA PacketLengthBounds ==
  \A n \in Nat : PacketLength(n) \in Nat /\ PacketLength(n) <= n
BY DepthAssumption DEF PacketLength, Least, Capacity
------------------------------------------------------------------------------
(* What the steps of the host have in common. *)

LEMMA CallKinds ==
  ASSUME TypeOK
  PROVE  /\ call.op = "send" => call \in Sending
         /\ call.op = "receive" => call \in Receiving
         /\ call.op = "reset" => call \in Resetting
BY DEF TypeOK, Sending, Receiving, Resetting, Idle

\* The host leaves the firmware's side alone, so its type and its own place remain.
LEMMA HostStep ==
  ASSUME Inv,
         tx' \in Buffers, Fill(tx') <= Depth, rx' \in Buffers,
         hcsr' \in Csrs, mecsr' = mecsr, fwVars' = fwVars,
         call' \in Sending \cup Receiving \cup Resetting \cup {Idle},
         ret' \in Results \cup Received \cup {NoResult}, valid' \in BOOLEAN,
         sent' \in Seq(HostLens), SendPlace', ReceivePlace'
  PROVE  Inv'
<1>1. fw' = fw /\ put' = put /\ done' = done /\ resets' = resets
  BY DEF fwVars
<1>2. TypeOK'
  BY <1>1 DEF Inv, TypeOK
<1>3. HostNeverOverflows'
  BY DEF HostNeverOverflows
<1>4. FwPlace'
  BY <1>1 DEF Inv, FwPlace
<1> QED BY <1>2, <1>3, <1>4 DEF Inv

LEMMA EndKeeps ==
  ASSUME Inv, NEW result \in Results \cup Received, Ends(result),
         tx' = tx, rx' \in Buffers, hcsr' \in Csrs, mecsr' = mecsr, sent' = sent,
         fwVars' = fwVars
  PROVE  Inv'
<1>1. tx' \in Buffers /\ Fill(tx') <= Depth /\ sent' \in Seq(HostLens)
  BY DEF Inv, TypeOK, HostNeverOverflows
<1>2. call' = Idle /\ ret' = result
  BY DEF Ends
<1>3. valid' \in BOOLEAN
  BY Zenon DEF Ends
<1>4. SendPlace' /\ ReceivePlace'
  BY <1>2 DEF SendPlace, ReceivePlace, Idle
<1> HIDE DEF Inv
<1> QED BY <1>1, <1>2, <1>3, <1>4, HostStep

LEMMA AbortKeeps ==
  ASSUME Inv, call.op \in {"send", "receive", "reset"}, Aborted,
         tx' = tx, rx' \in Buffers, hcsr' = hcsr, mecsr' = mecsr, sent' = sent,
         fwVars' = fwVars
  PROVE  Inv'
<1> DEFINE result == [op |-> call.op, status |-> "ABORTED"]
<1>1. result \in Results
  BY DEF Results
<1>2. Ends(result)
  BY DEF Aborted
<1>3. hcsr' \in Csrs
  BY DEF Inv, TypeOK
<1> HIDE DEF result
<1> QED BY <1>1, <1>2, <1>3, EndKeeps

\* A call begins, or goes on outside a packet.
LEMMA OutsidePacket ==
  ASSUME Inv, NEW c, call' = c, sent' \in Seq(HostLens),
         c \in Sending \cup Receiving \cup Resetting,
         c.op = "send" => c.at # "body" /\ sent' # <<>> /\ c.left <= sent'[Len(sent')],
         c.op = "receive" => c.at \notin {"gather", "stall", "body"},
         ret' \in {ret, NoResult}, valid' = valid,
         tx' = tx, rx' = rx, hcsr' \in Csrs, mecsr' = mecsr, fwVars' = fwVars
  PROVE  Inv'
<1>1. tx' \in Buffers /\ Fill(tx') <= Depth /\ rx' \in Buffers /\ valid' \in BOOLEAN
      /\ ret' \in Results \cup Received \cup {NoResult}
  BY DEF Inv, TypeOK, HostNeverOverflows
<1>2. SendPlace' /\ ReceivePlace'
  BY DEF SendPlace, ReceivePlace
<1>3. call' \in Sending \cup Receiving \cup Resetting \cup {Idle}
  OBVIOUS
<1> QED BY <1>1, <1>2, <1>3, HostStep
------------------------------------------------------------------------------
(* HeciSend. *)

LEMMA SendBegins == ASSUME Inv, NEW len \in HostLens, HeciSend(len) PROVE Inv'
<1> DEFINE c == [op |-> "send", at |-> "ready", left |-> len, todo |-> 0]
<1>1. sent \in Seq(HostLens) /\ hcsr \in Csrs /\ len \in Nat
  BY LengthAssumption DEF Inv, TypeOK
<1>2. sent' = Append(sent, len)
  BY DEF HeciSend
<1>3. sent' \in Seq(HostLens) /\ sent' # <<>> /\ sent'[Len(sent')] = len
  BY <1>1, <1>2
<1>4. c \in Sending /\ c.op = "send" /\ c.at = "ready" /\ c.left <= len
  BY <1>1 DEF Sending
<1>5. call' = c /\ ret' = NoResult
      /\ UNCHANGED <<tx, rx, hcsr, mecsr, valid, fwVars>>
  BY DEF HeciSend
<1> HIDE DEF c
<1> QED BY <1>1, <1>3, <1>4, <1>5, OutsidePacket

LEMMA SendGoesOn == ASSUME Inv, SendReady PROVE Inv'
<1> DEFINE c == [call EXCEPT !.at = "room"]
<1>1. call \in Sending /\ sent \in Seq(HostLens) /\ hcsr \in Csrs
  BY CallKinds DEF SendReady, At, Inv, TypeOK
<1>2. c \in Sending /\ c.op = "send" /\ c.at = "room" /\ c.left = call.left
  BY <1>1 DEF Sending
<1>3. sent # <<>> /\ call.left <= sent[Len(sent)]
  BY DEF SendReady, At, Inv, SendPlace
<1>4. call' = c /\ UNCHANGED <<tx, rx, hcsr, mecsr, ret, valid, sent, fwVars>>
  BY DEF SendReady, Continues
<1> HIDE DEF c
<1> QED BY <1>1, <1>2, <1>3, <1>4, OutsidePacket

LEMMA HeaderWritten == ASSUME Inv, WriteHeader PROVE Inv'
<1> DEFINE n == PacketLength(call.left)
           slot == Header(Len(sent), n, MessageComplete(call.left))
           c == [call EXCEPT !.at = "body", !.todo = Words(n)]
<1>1. call \in Sending /\ call.left \in Nat /\ sent \in Seq(HostLens)
      /\ tx \in Buffers /\ rx \in Buffers /\ hcsr \in Csrs /\ Fill(tx) <= Depth
      /\ ret \in Results \cup Received \cup {NoResult} /\ valid \in BOOLEAN
  BY CallKinds DEF WriteHeader, At, Inv, TypeOK, HostNeverOverflows, Sending
<1>2. n \in Nat /\ Words(n) \in Nat
  BY <1>1, PacketLengthBounds, WordsIsNat
<1>3. Words(n) + 1 <= Depth - Fill(tx)
  BY <1>1, <1>2, RoomMeansFits DEF WriteHeader
<1>4. slot \in Slots
  <2>1. MessageComplete(call.left) \in BOOLEAN
    BY DEF MessageComplete
  <2>2. Len(sent) \in Nat
    BY <1>1
  <2> HIDE DEF n
  <2> QED BY <1>2, <2>1, <2>2 DEF Header, Slots
<1>5. tx' = Push(tx, slot) /\ call' = c
      /\ UNCHANGED <<rx, hcsr, mecsr, ret, valid, sent, fwVars>>
  BY DEF WriteHeader
<1>6. Fill(tx) \in Nat /\ Fill(tx) < Depth
  BY <1>1, <1>2, <1>3, FillIsCount, DepthAssumption
<1>7. tx' \in Buffers /\ Fill(tx') = Fill(tx) + 1
  <2> HIDE DEF slot
  <2> QED BY <1>1, <1>4, <1>5, <1>6, PushAddsOne
<1>8. c \in Sending /\ c.op = "send" /\ c.left = call.left /\ c.todo = Words(n)
  <2> HIDE DEF n
  <2> QED BY <1>1, <1>2 DEF Sending
<1>9. SendPlace'
  <2>1. sent # <<>> /\ call.left <= sent[Len(sent)]
    BY DEF WriteHeader, At, Inv, SendPlace
  <2>2. c.todo <= Depth - Fill(tx')
    BY <1>2, <1>3, <1>6, <1>7, <1>8, DepthAssumption
  <2>3. c.todo <= Words(PacketLength(c.left))
    BY <1>2, <1>8
  <2> HIDE DEF c, n
  <2> QED BY <1>5, <1>8, <2>1, <2>2, <2>3 DEF SendPlace
<1>10. ReceivePlace'
  BY <1>5, <1>8 DEF ReceivePlace
<1> HIDE DEF c, n, slot
<1> QED BY <1>1, <1>5, <1>6, <1>7, <1>8, <1>9, <1>10, HostStep, DepthAssumption

LEMMA WordWritten == ASSUME Inv, WriteWord PROVE Inv'
<1> DEFINE slot == Word(Len(sent), NextWord)
           c == [call EXCEPT !.todo = call.todo - 1]
<1>1. call \in Sending /\ call.left \in Nat /\ call.todo \in Nat /\ call.todo > 0
      /\ call.op = "send" /\ call.at = "body" /\ sent \in Seq(HostLens)
      /\ tx \in Buffers /\ rx \in Buffers /\ hcsr \in Csrs /\ Fill(tx) <= Depth
      /\ ret \in Results \cup Received \cup {NoResult} /\ valid \in BOOLEAN
  BY CallKinds DEF WriteWord, At, Inv, TypeOK, HostNeverOverflows, Sending
<1>2. /\ sent # <<>> /\ call.left <= sent[Len(sent)]
      /\ call.todo <= Words(PacketLength(call.left)) /\ call.todo <= Depth - Fill(tx)
  BY <1>1 DEF Inv, SendPlace
<1>3. Fill(tx) \in Nat /\ Fill(tx) < Depth
  BY <1>1, <1>2, FillIsCount, DepthAssumption
<1>4. NextWord \in Nat
  <2>1. Len(sent) \in Nat /\ sent[Len(sent)] \in Nat
    BY <1>1, <1>2, LastIsLength
  <2>2. Words(call.left) \in Nat /\ Words(sent[Len(sent)]) \in Nat
        /\ Words(PacketLength(call.left)) \in Nat
    BY <1>1, <2>1, WordsIsNat, PacketLengthBounds
  <2>3. Words(call.left) <= Words(sent[Len(sent)])
    BY <1>1, <1>2, <2>1, WordsMonotone
  <2> QED BY <1>1, <1>2, <2>2, <2>3 DEF NextWord
<1>5. slot \in Slots
  BY <1>1, <1>4 DEF Word, Slots
<1>6. tx' = Push(tx, slot) /\ call' = c
      /\ UNCHANGED <<rx, hcsr, mecsr, ret, valid, sent, fwVars>>
  BY DEF WriteWord
<1>7. tx' \in Buffers /\ Fill(tx') = Fill(tx) + 1
  <2> HIDE DEF slot
  <2> QED BY <1>1, <1>3, <1>5, <1>6, PushAddsOne
<1>8. c \in Sending /\ c.op = "send" /\ c.left = call.left /\ c.todo = call.todo - 1
  BY <1>1 DEF Sending
<1>9. SendPlace'
  <2>1. Words(PacketLength(call.left)) \in Nat
    BY <1>1, WordsIsNat, PacketLengthBounds
  <2>2. c.todo <= Depth - Fill(tx') /\ c.todo <= Words(PacketLength(c.left))
    BY <1>1, <1>2, <1>3, <1>7, <1>8, <2>1, DepthAssumption
  <2> HIDE DEF c
  <2> QED BY <1>2, <1>6, <1>8, <2>2 DEF SendPlace
<1>10. ReceivePlace'
  BY <1>6, <1>8 DEF ReceivePlace
<1> HIDE DEF c, slot
<1> QED BY <1>1, <1>3, <1>6, <1>7, <1>8, <1>9, <1>10, HostStep, DepthAssumption

LEMMA PacketEnds == ASSUME Inv, PacketWritten PROVE Inv'
<1> DEFINE left == call.left - PacketLength(call.left)
           c == [call EXCEPT !.at = "room", !.left = left]
           success == [op |-> "send", status |-> "SUCCESS"]
<1>1. call \in Sending /\ call.left \in Nat /\ call.op = "send"
      /\ sent \in Seq(HostLens) /\ rx \in Buffers /\ hcsr \in Csrs
  BY CallKinds DEF PacketWritten, At, Inv, TypeOK, Sending
<1>2. UNCHANGED <<tx, rx, hcsr, mecsr, sent, fwVars>>
  BY DEF PacketWritten
<1>3. CASE Aborted
  BY <1>1, <1>2, <1>3, AbortKeeps
<1>4. CASE Ends(success)
  <2>1. success \in Results
    BY DEF Results
  <2> HIDE DEF success
  <2> QED BY <1>1, <1>2, <1>4, <2>1, EndKeeps
<1>5. CASE call' = c /\ UNCHANGED <<ret, valid>>
  <2>1. left \in Nat /\ left <= call.left
    <3>1. PacketLength(call.left) \in Nat /\ PacketLength(call.left) <= call.left
      BY <1>1, PacketLengthBounds
    <3> DEFINE n == PacketLength(call.left)
    <3> HIDE DEF n
    <3> QED BY <1>1, <3>1 DEF n
  <2>2. sent # <<>> /\ call.left <= sent[Len(sent)] /\ sent[Len(sent)] \in Nat
    BY <1>1, LastIsLength DEF Inv, SendPlace
  <2>3. left <= sent[Len(sent)]
    BY <1>1, <2>1, <2>2
  <2> HIDE DEF left
  <2>4. c \in Sending /\ c.op = "send" /\ c.at = "room" /\ c.left = left
    BY <1>1, <2>1 DEF Sending
  <2> HIDE DEF c
  <2> QED BY <1>1, <1>2, <1>5, <2>2, <2>3, <2>4, OutsidePacket
<1> QED BY <1>3, <1>4, <1>5 DEF PacketWritten
------------------------------------------------------------------------------
(* Steps that abort a call, and the reset. *)

LEMMA AbortSteps ==
  ASSUME Inv, FwNotReady \/ NoRoom \/ NoHeader \/ PacketLate
  PROVE  Inv'
<1>1. call.op \in {"send", "receive", "reset"}
  BY DEF FwNotReady, NoRoom, NoHeader, PacketLate, At
<1>2. Aborted /\ UNCHANGED <<tx, rx, hcsr, mecsr, sent, fwVars>>
  BY DEF FwNotReady, NoRoom, NoHeader, PacketLate
<1>3. rx' \in Buffers
  BY <1>2 DEF Inv, TypeOK
<1> QED BY <1>1, <1>2, <1>3, AbortKeeps

LEMMA ResetSteps ==
  ASSUME Inv, ResetHeciInterface \/ ResetStarted \/ ResetTimesOut \/ ResetFinished
  PROVE  Inv'
<1>1. rx \in Buffers /\ hcsr \in Csrs /\ sent \in Seq(HostLens)
  BY DEF Inv, TypeOK
<1>2. CASE ResetHeciInterface
  <2> DEFINE c == [op |-> "reset", at |-> "started"]
  <2>1. c \in Resetting /\ c.op = "reset"
    BY DEF Resetting
  <2>2. hcsr' \in Csrs
    BY <1>1, <1>2 DEF ResetHeciInterface, Csrs
  <2>3. call' = c /\ ret' = NoResult /\ UNCHANGED <<tx, rx, mecsr, valid, sent, fwVars>>
    BY <1>2 DEF ResetHeciInterface
  <2> HIDE DEF c
  <2> QED BY <1>1, <2>1, <2>2, <2>3, OutsidePacket
<1>3. CASE ResetStarted
  <2> DEFINE c == [call EXCEPT !.at = "finished"]
  <2>1. call \in Resetting
    BY <1>3, CallKinds DEF Inv, ResetStarted, At
  <2>2. c \in Resetting /\ c.op = "reset"
    BY <2>1 DEF Resetting
  <2>3. call' = c /\ UNCHANGED <<tx, rx, hcsr, mecsr, ret, valid, sent, fwVars>>
    BY <1>3 DEF ResetStarted, Continues
  <2> HIDE DEF c
  <2> QED BY <1>1, <2>2, <2>3, OutsidePacket
<1>4. CASE ResetTimesOut
  <2> DEFINE late == [op |-> "reset", status |-> "TIMEOUT"]
  <2>1. late \in Results
    BY DEF Results
  <2>2. Ends(late) /\ UNCHANGED <<tx, rx, hcsr, mecsr, sent, fwVars>>
    BY <1>4 DEF ResetTimesOut
  <2> HIDE DEF late
  <2> QED BY <1>1, <2>1, <2>2, EndKeeps
<1>5. CASE ResetFinished
  <2> DEFINE success == [op |-> "reset", status |-> "SUCCESS"]
  <2>1. success \in Results
    BY DEF Results
  <2>2. Ends(success) /\ UNCHANGED <<tx, rx, mecsr, sent, fwVars>> /\ hcsr' \in Csrs
    BY <1>5 DEF ResetFinished, Csrs
  <2> HIDE DEF success
  <2> QED BY <1>1, <2>1, <2>2, EndKeeps
<1> QED BY <1>2, <1>3, <1>4, <1>5

LEMMA NoDeviceStep ==
  ASSUME Inv, NEW op \in {"send", "receive", "reset"}, NoDevice(op)
  PROVE  Inv'
<1>1. UNCHANGED <<tx, rx, hcsr, mecsr, call, valid, sent, fwVars>>
      /\ ret' = [op |-> op, status |-> "DEVICE_ERROR"]
  BY DEF NoDevice
<1>2. ret' \in Results
  BY <1>1 DEF Results
<1>3. SendPlace' /\ ReceivePlace'
  BY <1>1 DEF Inv, SendPlace, ReceivePlace, Fill
<1>4. /\ tx' \in Buffers /\ Fill(tx') <= Depth /\ rx' \in Buffers /\ hcsr' \in Csrs
      /\ call' \in Sending \cup Receiving \cup Resetting \cup {Idle}
      /\ valid' \in BOOLEAN /\ sent' \in Seq(HostLens)
  BY <1>1 DEF Inv, TypeOK, HostNeverOverflows
<1> QED BY <1>1, <1>2, <1>3, <1>4, HostStep
------------------------------------------------------------------------------
(* HeciReceive. *)

\* A step inside a packet that leaves tx alone.
LEMMA InsidePacket ==
  ASSUME Inv, NEW c \in Receiving, call' = c, c.todo <= Words(c.n),
         UNCHANGED <<tx, hcsr, mecsr, ret, valid, sent, fwVars>>, rx' \in Buffers
  PROVE  Inv'
<1>1. SendPlace' /\ ReceivePlace'
  BY DEF SendPlace, ReceivePlace, Receiving
<1>2. /\ tx' \in Buffers /\ Fill(tx') <= Depth /\ hcsr' \in Csrs
      /\ ret' \in Results \cup Received \cup {NoResult}
      /\ valid' \in BOOLEAN /\ sent' \in Seq(HostLens)
  BY DEF Inv, TypeOK, HostNeverOverflows
<1> QED BY <1>1, <1>2, HostStep

LEMMA ReceiveBegins == ASSUME Inv, NEW len \in BufSizes, HeciReceive(len) PROVE Inv'
<1> DEFINE c == [op |-> "receive", at |-> "ready", len |-> len, total |-> 0,
                 space |-> len, n |-> 0, last |-> FALSE, todo |-> 0, got |-> {}]
<1>1. sent \in Seq(HostLens) /\ hcsr \in Csrs /\ len \in Nat
  BY LengthAssumption DEF Inv, TypeOK
<1>2. c \in Receiving /\ c.op = "receive" /\ c.at = "ready"
  BY <1>1 DEF Receiving
<1>3. call' = c /\ ret' = NoResult
      /\ UNCHANGED <<tx, rx, hcsr, mecsr, valid, sent, fwVars>>
  BY DEF HeciReceive
<1> HIDE DEF c
<1> QED BY <1>1, <1>2, <1>3, OutsidePacket

LEMMA ReceiveGoesOn == ASSUME Inv, ReceiveReady \/ HeaderThere PROVE Inv'
<1>1. call \in Receiving /\ sent \in Seq(HostLens) /\ hcsr \in Csrs
  BY CallKinds DEF ReceiveReady, HeaderThere, At, Inv, TypeOK
<1>2. ASSUME NEW at \in {"header", "fetch"}, Continues(at),
             UNCHANGED <<tx, rx, hcsr, mecsr, sent, fwVars>>
      PROVE  Inv'
  <2> DEFINE c == [call EXCEPT !.at = at]
  <2>1. c \in Receiving /\ c.op = "receive" /\ c.at \in {"header", "fetch"}
    BY <1>1 DEF Receiving
  <2>2. call' = c /\ UNCHANGED <<ret, valid>>
    BY <1>2 DEF Continues
  <2> HIDE DEF c
  <2> QED BY <1>1, <1>2, <2>1, <2>2, OutsidePacket
<1> QED BY <1>2 DEF ReceiveReady, HeaderThere

LEMMA HeaderFields ==
  ASSUME NEW slot \in Slots, NEW header \in AsHeader(slot)
  PROVE  header.n \in Nat /\ header.last \in BOOLEAN
BY DepthAssumption DEF AsHeader, Header, Slots

LEMMA HeaderRead == ASSUME Inv, ReadHeader PROVE Inv'
<1>1. call \in Receiving /\ call.op = "receive" /\ rx \in Buffers
  BY CallKinds DEF ReadHeader, At, Inv, TypeOK
<1>2. rx' = Pop(rx) /\ UNCHANGED <<tx, hcsr, mecsr, sent, fwVars>>
  BY DEF ReadHeader
<1>3. rx' \in Buffers
  BY <1>1, <1>2, PopTakesOne
<1>4. PICK header \in AsHeader(Front(rx)) :
        IF Words(header.n) > Depth THEN Aborted
        ELSE /\ call' = [call EXCEPT !.at = "gather", !.n = header.n,
                                     !.last = header.last, !.todo = Words(header.n)]
             /\ UNCHANGED <<ret, valid>>
  BY DEF ReadHeader
<1>5. CASE Aborted
  BY <1>1, <1>2, <1>3, <1>5, AbortKeeps
<1>6. CASE ~Aborted
  <2> DEFINE n == header.n
             last == header.last
             todo == Words(n)
             c == [call EXCEPT !.at = "gather", !.n = n, !.last = last, !.todo = todo]
  <2>1. call' = c /\ UNCHANGED <<ret, valid>>
    BY <1>4, <1>6
  <2>2. n \in Nat /\ last \in BOOLEAN
    BY <1>1, FrontIsSlot, HeaderFields
  <2>3. todo \in Nat
    BY <2>2, WordsIsNat
  <2>4. todo = Words(n)
    OBVIOUS
  <2> HIDE DEF n, last, todo
  <2>5. c \in Receiving /\ c.n = n /\ c.todo = todo
    BY <1>1, <2>2, <2>3 DEF Receiving
  <2>6. c.todo <= Words(c.n)
    BY <2>3, <2>4, <2>5
  <2> HIDE DEF c
  <2> QED BY <1>2, <1>3, <2>1, <2>5, <2>6, InsidePacket
<1> QED BY <1>5, <1>6

LEMMA PacketGathered == ASSUME Inv, PacketThere \/ StallEnds PROVE Inv'
<1>1. /\ call \in Receiving /\ call.op = "receive" /\ call.at \in {"gather", "stall"}
      /\ rx \in Buffers
  BY CallKinds DEF PacketThere, StallEnds, At, Inv, TypeOK
<1>2. call.todo <= Words(call.n)
  BY <1>1 DEF Inv, ReceivePlace
<1>3. ASSUME NEW at \in {"stall", "body"}, Continues(at),
             UNCHANGED <<tx, rx, hcsr, mecsr, sent, fwVars>>
      PROVE  Inv'
  <2> DEFINE c == [call EXCEPT !.at = at]
  <2>1. c \in Receiving /\ c.n = call.n /\ c.todo = call.todo
    BY <1>1 DEF Receiving
  <2>2. call' = c /\ UNCHANGED <<ret, valid>>
    BY <1>3 DEF Continues
  <2> HIDE DEF c
  <2> QED BY <1>1, <1>2, <1>3, <2>1, <2>2, InsidePacket
<1> QED BY <1>3 DEF PacketThere, StallEnds

LEMMA WordRead == ASSUME Inv, ReadWord PROVE Inv'
<1> DEFINE bytes == Least(4, call.space)
           place == (call.total \div 4) + Words(call.n) - call.todo + 1
           got == IF bytes = 0 THEN call.got
                  ELSE call.got \cup {[place |-> place, slot |-> Front(rx), bytes |-> bytes]}
           todo == call.todo - 1
           space == call.space - bytes
           c == [call EXCEPT !.todo = todo, !.space = space, !.got = got]
<1>1. call \in Receiving /\ call.op = "receive" /\ call.at = "body" /\ call.todo > 0
      /\ rx \in Buffers
  BY CallKinds DEF ReadWord, At, Inv, TypeOK
<1>2. call.todo \in Nat /\ call.space \in Nat /\ call.total \in Nat /\ call.n \in Nat
      /\ call.got \in SUBSET Copies
  BY <1>1 DEF Receiving
<1>3. call.todo <= Words(call.n) /\ Words(call.n) \in Nat
  BY <1>1, <1>2, WordsIsNat DEF Inv, ReceivePlace
<1>4. todo \in Nat /\ todo <= Words(call.n)
  BY <1>1, <1>2, <1>3
<1>5. bytes \in 0..4 /\ space \in Nat
  BY <1>2 DEF Least
<1>6. place \in Nat
  BY <1>2, <1>3
<1>7. got \in SUBSET Copies
  <2> HIDE DEF bytes, place
  <2>1. Front(rx) \in Slots
    BY <1>1, FrontIsSlot
  <2> QED BY <1>2, <1>5, <1>6, <2>1 DEF Copies
<1>8. call' = c /\ rx' = Pop(rx) /\ UNCHANGED <<tx, hcsr, mecsr, ret, valid, sent, fwVars>>
  BY DEF ReadWord
<1>9. rx' \in Buffers
  BY <1>1, <1>8, PopTakesOne
<1> HIDE DEF bytes, place, got, todo, space
<1>10. c \in Receiving /\ c.n = call.n /\ c.todo = todo
  BY <1>1, <1>4, <1>5, <1>7 DEF Receiving
<1> HIDE DEF c
<1> QED BY <1>4, <1>8, <1>9, <1>10, InsidePacket

LEMMA PacketReadEnds == ASSUME Inv, PacketRead PROVE Inv'
<1> DEFINE total == call.total + call.n
           space == SpaceLeft(call.len, total)
           c == [call EXCEPT !.at = "header", !.total = total, !.space = space]
           success == [op |-> "receive", status |-> "SUCCESS", len |-> call.len,
                       total |-> total, got |-> call.got]
<1>1. call \in Receiving /\ call.op = "receive" /\ rx \in Buffers /\ hcsr \in Csrs
      /\ sent \in Seq(HostLens)
  BY CallKinds DEF PacketRead, At, Inv, TypeOK
<1>2. call.total \in Nat /\ call.n \in Nat /\ call.len \in BufSizes /\ call.len \in Nat
      /\ call.got \in SUBSET Copies
  BY <1>1, LengthAssumption DEF Receiving
<1>3. total \in Nat /\ space \in Nat
  BY <1>2 DEF SpaceLeft
<1>4. UNCHANGED <<tx, rx, hcsr, mecsr, sent, fwVars>>
  BY DEF PacketRead
<1>5. CASE Aborted
  BY <1>1, <1>4, <1>5, AbortKeeps
<1>6. CASE Ends(success)
  <2> HIDE DEF total
  <2>1. success \in Received
    BY <1>2, <1>3 DEF Received
  <2> HIDE DEF success
  <2> QED BY <1>1, <1>4, <1>6, <2>1, EndKeeps
<1>7. CASE call' = c /\ UNCHANGED <<ret, valid>>
  <2> HIDE DEF total, space
  <2>1. c \in Receiving /\ c.op = "receive" /\ c.at = "header"
    BY <1>1, <1>3 DEF Receiving
  <2> HIDE DEF c
  <2> QED BY <1>1, <1>4, <1>7, <2>1, OutsidePacket
<1> QED BY <1>5, <1>6, <1>7 DEF PacketRead
------------------------------------------------------------------------------
(* The firmware. *)

\* The firmware never fills the host's buffer, so a packet being written still fits.
LEMMA FwStep ==
  ASSUME Inv, UNCHANGED <<call, ret, valid, sent>>,
         tx' \in Buffers, Fill(tx') <= Fill(tx), rx' \in Buffers,
         hcsr' \in Csrs, mecsr' \in Csrs, fw' \in FwStates, put' \in Seq(FwLens),
         done' \in Seq(Messages), resets' \in 0..MaxResets,
         FwPlace'
  PROVE  Inv'
<1>1. TypeOK'
  BY DEF Inv, TypeOK
<1>2. Fill(tx) \in Nat /\ Fill(tx') \in Nat /\ Fill(tx) <= Depth
  BY FillIsCount, DepthAssumption DEF Inv, TypeOK, HostNeverOverflows
<1>3. HostNeverOverflows'
  BY <1>2, DepthAssumption DEF HostNeverOverflows
<1>4. SendPlace'
  <2>1. call.op = "send" => call.todo \in Nat
    BY CallKinds DEF Inv, Sending
  <2> QED BY <1>2, <2>1, DepthAssumption DEF Inv, SendPlace
<1>5. ReceivePlace'
  BY DEF Inv, ReceivePlace
<1> QED BY <1>1, <1>3, <1>4, <1>5 DEF Inv

LEMMA FwTypes ==
  ASSUME Inv
  PROVE  /\ tx \in Buffers /\ rx \in Buffers /\ hcsr \in Csrs /\ mecsr \in Csrs
         /\ fw \in FwStates /\ put \in Seq(FwLens) /\ resets \in 0..MaxResets
         /\ done \in Seq(Messages)
         /\ Fill(tx) \in Nat /\ FwPlace
BY FillIsCount, DepthAssumption DEF Inv, TypeOK

\* A firmware that was reset knows of no message, and the buffers are empty.
LEMMA FwStartsAfresh ==
  ASSUME FwForgets
  PROVE  fw' \in FwStates /\ fw'.left = 0 /\ fw'.todo = 0
BY DEF FwForgets, FwStates

LEMMA FwResetSteps ==
  ASSUME Inv, FwTakesReset \/ FwResets \/ FwReady
  PROVE  Inv'
<1>1. CASE FwReady
  <2>1. UNCHANGED <<tx, rx, hcsr, call, ret, valid, sent, fw, put, done, resets>>
    BY <1>1 DEF FwReady, fwVars
  <2>2. mecsr' \in Csrs
    BY <1>1, FwTypes DEF FwReady, Csrs
  <2>3. FwPlace'
    BY <2>1, FwTypes DEF FwPlace
  <2> QED BY <2>1, <2>2, <2>3, FwTypes, FwStep
<1>2. CASE FwTakesReset \/ FwResets
  <2>1. FwForgets /\ tx' = EmptyBuffer /\ rx' = EmptyBuffer
        /\ UNCHANGED <<call, ret, valid, sent, put, done>>
    BY <1>2 DEF FwTakesReset, FwResets
  <2>2. hcsr' \in Csrs /\ mecsr' \in Csrs
    <3>1. CASE FwTakesReset
      BY <3>1, FwTypes DEF FwTakesReset, Csrs
    <3>2. CASE FwResets
      BY <3>2, FwTypes DEF FwResets, Csrs
    <3> QED BY <1>2, <3>1, <3>2
  <2>3. resets' \in 0..MaxResets
    BY <1>2, FwTypes, BoundAssumption DEF FwTakesReset, FwResets
  <2>4. FwPlace'
    BY <2>1, FwStartsAfresh DEF FwPlace
  <2>5. tx' \in Buffers /\ rx' \in Buffers /\ Fill(tx') <= Fill(tx)
    BY <2>1, FwTypes, EmptyHasNone
  <2>6. fw' \in FwStates
    BY <2>1, FwStartsAfresh
  <2> QED BY <2>1, <2>2, <2>3, <2>4, <2>5, <2>6, FwTypes, FwStep
<1> QED BY <1>1, <1>2

LEMMA FwReadStep == ASSUME Inv, FwReads PROVE Inv'
<1> DEFINE slot == Front(tx)
           words == Append(fw.words, slot)
           whole == fw.need = 1 /\ fw.last
<1>1. slot \in Slots
  BY FwTypes, FrontIsSlot
<1>2. tx' = Pop(tx) /\ UNCHANGED <<rx, hcsr, mecsr, call, ret, valid, sent, put, resets>>
  BY DEF FwReads
<1>3. tx' \in Buffers /\ Fill(tx') <= Fill(tx)
  BY <1>2, FwTypes, PopTakesOne
<1>4. fw.need \in Nat /\ fw.bytes \in Nat /\ fw.words \in Seq(Slots)
  BY FwTypes DEF FwStates
<1>5. words \in Seq(Slots)
  <2> HIDE DEF slot
  <2> QED BY <1>1, <1>4
<1>6. CASE fw.need = 0
  <2> DEFINE need == Words(slot.n)
             last == slot.last
             bytes == fw.bytes + slot.n
  <2>1. fw' = [fw EXCEPT !.need = need, !.last = last, !.bytes = bytes] /\ done' = done
    BY <1>6 DEF FwReads
  <2>2. need \in Nat /\ last \in BOOLEAN /\ bytes \in Nat
    <3> HIDE DEF slot
    <3>1. slot.n \in Nat /\ slot.last \in BOOLEAN
      BY <1>1 DEF Slots
    <3>2. Words(slot.n) \in Nat
      BY <3>1, WordsIsNat
    <3>3. fw.bytes + slot.n \in Nat
      BY <1>4, <3>1
    <3> QED BY <3>1, <3>2, <3>3
  <2> HIDE DEF need, last, bytes
  <2>3. fw' \in FwStates /\ fw'.out = fw.out /\ fw'.left = fw.left /\ fw'.todo = fw.todo
    BY <2>1, <2>2, FwTypes DEF FwStates
  <2>4. FwPlace'
    BY <1>2, <2>3, FwTypes DEF FwPlace
  <2> QED BY <1>2, <1>3, <2>1, <2>3, <2>4, FwTypes, FwStep
<1>7. CASE fw.need # 0
  <2> DEFINE need == fw.need - 1
             rest == IF whole THEN <<>> ELSE words
             bytes == IF whole THEN 0 ELSE fw.bytes
             message == [bytes |-> fw.bytes, words |-> words]
  <2>1. fw' = [fw EXCEPT !.need = need, !.words = rest, !.bytes = bytes]
        /\ done' = (IF whole THEN Append(done, message) ELSE done)
    BY <1>7 DEF FwReads
  <2> HIDE DEF words, whole
  <2>2. need \in Nat /\ rest \in Seq(Slots) /\ bytes \in Nat
    BY <1>4, <1>5, <1>7
  <2>3. message \in Messages
    BY <1>4, <1>5 DEF Messages
  <2> HIDE DEF need, rest, bytes, message
  <2>4. fw' \in FwStates /\ fw'.out = fw.out /\ fw'.left = fw.left /\ fw'.todo = fw.todo
    BY <2>1, <2>2, FwTypes DEF FwStates
  <2>5. done' \in Seq(Messages)
    BY <2>1, <2>3, FwTypes
  <2>6. FwPlace'
    BY <1>2, <2>4, FwTypes DEF FwPlace
  <2> QED BY <1>2, <1>3, <2>4, <2>5, <2>6, FwTypes, FwStep
<1> QED BY <1>6, <1>7

LEMMA FwBeginStep == ASSUME Inv, NEW len \in FwLens, FwBegins(len) PROVE Inv'
<1> DEFINE out == Len(put) + 1
<1>1. UNCHANGED <<tx, rx, hcsr, mecsr, call, ret, valid, sent, done, resets>>
      /\ fw.out = 0 /\ put' = Append(put, len) /\ fw' = [fw EXCEPT !.out = out, !.left = len]
  BY DEF FwBegins
<1>2. len \in Nat /\ put \in Seq(FwLens) /\ fw \in FwStates /\ FwPlace
  BY FwTypes, LengthAssumption
<1>3. out \in Nat /\ out # 0 /\ put' \in Seq(FwLens) /\ out \in DOMAIN put' /\ put'[out] = len
  BY <1>1, <1>2
<1>4. fw.left \in Nat /\ fw.todo \in Nat /\ 0 \notin DOMAIN put
  BY <1>2 DEF FwStates
<1>5. fw.todo = 0
  BY <1>1, <1>2, <1>4 DEF FwPlace
<1> HIDE DEF out
<1>6. fw' \in FwStates /\ fw'.out = out /\ fw'.left = len /\ fw'.todo = fw.todo
  BY <1>1, <1>2, <1>3 DEF FwStates
<1>7. FwPlace'
  BY <1>2, <1>3, <1>5, <1>6, WordsIsNat DEF FwPlace
<1> QED BY <1>1, <1>3, <1>6, <1>7, FwTypes, FwStep

LEMMA FwHeaderStep == ASSUME Inv, NEW n \in Nat, FwHeader(n) PROVE Inv'
<1> DEFINE slot == Header(fw.out, n, n = fw.left)
           left == fw.left - n
           todo == Words(n)
<1>1. UNCHANGED <<tx, hcsr, mecsr, call, ret, valid, sent, put, done, resets>>
      /\ rx' = Push(rx, slot) /\ fw' = [fw EXCEPT !.left = left, !.todo = todo]
      /\ fw.left > 0 /\ fw.todo = 0 /\ n <= fw.left /\ (n = fw.left \/ n % 4 = 0)
  <2>1. fw.left \in Nat
    BY FwTypes DEF FwStates
  <2> QED BY <2>1 DEF FwHeader
<1>2. fw.left \in Nat /\ fw.out \in Nat
  BY FwTypes DEF FwStates
<1>3. slot \in Slots
  <2>1. (n = fw.left) \in BOOLEAN
    OBVIOUS
  <2> QED BY <1>2, <2>1 DEF Header, Slots
<1>4. rx' \in Buffers
  <2> HIDE DEF slot
  <2> QED BY <1>1, <1>3, FwTypes, PushAddsOne
<1>5. left \in Nat /\ todo \in Nat /\ Words(left) + todo = Words(fw.left)
  BY <1>1, <1>2, WordsIsNat, WordsSplit
<1>6. fw.out \in DOMAIN put /\ Words(fw.left) + fw.todo <= Words(put[fw.out])
  BY <1>1, FwTypes DEF FwPlace
<1>7. Words(fw.left) \in Nat
  BY <1>2, WordsIsNat
<1> HIDE DEF left, todo
<1>8. fw' \in FwStates /\ fw'.out = fw.out /\ fw'.left = left /\ fw'.todo = todo
  BY <1>1, <1>5, FwTypes DEF FwStates
<1>9. FwPlace'
  BY <1>1, <1>5, <1>6, <1>7, <1>8 DEF FwPlace
<1> QED BY <1>1, <1>4, <1>8, <1>9, FwTypes, FwStep

LEMMA FwWordStep == ASSUME Inv, FwWord PROVE Inv'
<1> DEFINE k == Words(put[fw.out]) - Words(fw.left) - fw.todo + 1
           slot == Word(fw.out, k)
           todo == fw.todo - 1
           out == IF fw.todo = 1 /\ fw.left = 0 THEN 0 ELSE fw.out
<1>1. UNCHANGED <<tx, hcsr, mecsr, call, ret, valid, sent, put, done, resets>>
      /\ rx' = Push(rx, slot) /\ fw' = [fw EXCEPT !.todo = todo, !.out = out]
      /\ fw.todo > 0
  BY DEF FwWord
<1>2. fw.left \in Nat /\ fw.out \in Nat /\ fw.todo \in Nat
  BY FwTypes DEF FwStates
<1>3. fw.out \in DOMAIN put /\ Words(fw.left) + fw.todo <= Words(put[fw.out])
  BY <1>1, FwTypes DEF FwPlace
<1>4. put[fw.out] \in Nat
  <2>1. put[fw.out] \in FwLens
    BY <1>3, FwTypes
  <2> QED BY <2>1, LengthAssumption
<1>5. Words(fw.left) \in Nat /\ Words(put[fw.out]) \in Nat
  BY <1>2, <1>4, WordsIsNat
<1>6. k \in Nat /\ todo \in Nat /\ out \in Nat
  BY <1>1, <1>2, <1>3, <1>5
<1>7. rx' \in Buffers
  <2>1. slot \in Slots
    <3> HIDE DEF k
    <3> QED BY <1>2, <1>6 DEF Word, Slots
  <2> HIDE DEF slot
  <2> QED BY <1>1, <2>1, FwTypes, PushAddsOne
<1>8. todo > 0 \/ fw.left > 0 => out = fw.out
  BY <1>2
<1>9. todo <= fw.todo
  BY <1>2
<1> HIDE DEF todo, out
<1>10. fw' \in FwStates /\ fw'.out = out /\ fw'.left = fw.left /\ fw'.todo = todo
  BY <1>1, <1>6, FwTypes DEF FwStates
<1>11. FwPlace'
  BY <1>1, <1>2, <1>3, <1>5, <1>6, <1>8, <1>9, <1>10 DEF FwPlace
<1> QED BY <1>1, <1>7, <1>10, <1>11, FwTypes, FwStep
------------------------------------------------------------------------------
LEMMA Initially == Init => Inv
<1> SUFFICES ASSUME Init PROVE Inv
  OBVIOUS
<1>1. tx \in Buffers /\ rx \in Buffers /\ Fill(tx) = 0
  BY EmptyHasNone DEF Init
<1>2. hcsr \in Csrs /\ mecsr \in Csrs
  BY DEF Init, Csrs
<1>3. fw \in FwStates
  BY DEF Init, FwStates
<1>4. TypeOK
  <2>1. sent \in Seq(HostLens) /\ put \in Seq(FwLens) /\ done \in Seq(Messages)
    BY DEF Init
  <2>2. call = Idle /\ ret = NoResult
    BY DEF Init
  <2>3. resets \in 0..MaxResets
    BY BoundAssumption DEF Init
  <2>4. valid \in BOOLEAN
    BY Zenon DEF Init
  <2> QED BY <1>1, <1>2, <1>3, <2>1, <2>2, <2>3, <2>4 DEF TypeOK
<1>5. HostNeverOverflows
  BY <1>1, DepthAssumption DEF HostNeverOverflows
<1>6. SendPlace /\ ReceivePlace /\ FwPlace
  BY DEF Init, Idle, SendPlace, ReceivePlace, FwPlace
<1> QED BY <1>4, <1>5, <1>6 DEF Inv

LEMMA StutterKeeps == ASSUME Inv, UNCHANGED vars PROVE Inv'
BY DEF vars, Inv, TypeOK, HostNeverOverflows, SendPlace, ReceivePlace, FwPlace, Fill

LEMMA StepKeeps == Inv /\ [Next]_vars => Inv'
<1> SUFFICES ASSUME Inv, [Next]_vars PROVE Inv'
  OBVIOUS
<1>1. CASE Calls
  <2>1. ASSUME NEW len \in HostLens, HeciSend(len) PROVE Inv'
    BY <2>1, SendBegins
  <2>2. ASSUME NEW len \in BufSizes, HeciReceive(len) PROVE Inv'
    BY <2>2, ReceiveBegins
  <2>3. ASSUME NEW op \in {"send", "receive", "reset"}, NoDevice(op) PROVE Inv'
    BY <2>3, NoDeviceStep
  <2> QED BY <1>1, <2>1, <2>2, <2>3, ResetSteps DEF Calls
<1>2. CASE CallStep
  BY <1>2, AbortSteps, SendGoesOn, HeaderWritten, WordWritten, PacketEnds, ReceiveGoesOn,
     HeaderRead, PacketGathered, WordRead, PacketReadEnds, ResetSteps DEF CallStep
<1>3. CASE Firmware
  <2>1. ASSUME NEW len \in FwLens, FwBegins(len) PROVE Inv'
    BY <2>1, FwBeginStep
  <2>2. ASSUME NEW n \in 1..Least(4 * Depth, 511), FwHeader(n) PROVE Inv'
    <3>1. n \in Nat
      BY DepthAssumption DEF Least
    <3> QED BY <2>2, <3>1, FwHeaderStep
  <2> QED BY <1>3, <2>1, <2>2, FwResetSteps, FwReadStep, FwWordStep DEF Firmware
<1>4. CASE UNCHANGED vars
  BY <1>4, StutterKeeps
<1> QED BY <1>1, <1>2, <1>3, <1>4 DEF Next

\* Inv is an invariant: every variable has its type and each side knows its place
\* in the packet it writes or reads.
THEOREM PlacesKept == Spec => []Inv
<1> QED BY Initially, StepKeeps, PTL DEF Spec

\* Every variable of heci_core.c and of the device keeps its type, for all depths,
\* pointer widths, message lengths and buffer sizes.
THEOREM TypeCorrect == Spec => []TypeOK
<1>1. Inv => TypeOK
  BY DEF Inv
<1> QED BY <1>1, PlacesKept, PTL

\* HeciPacketWrite never writes into a slot that the firmware has not read, whatever
\* resets come between its test for room and its writes.
THEOREM RoomIsEnough == Spec => []HostNeverOverflows
<1>1. Inv => HostNeverOverflows
  BY DEF Inv
<1> QED BY <1>1, PlacesKept, PTL
------------------------------------------------------------------------------
(* The reset handshake. *)

\* Nothing of any message, in the buffers or with the firmware.
Nothing ==
  /\ Fill(tx) = 0 /\ Fill(rx) = 0
  /\ fw.need = 0 /\ fw.bytes = 0 /\ fw.words = <<>> /\ fw.out = 0

\* From where the hardware takes the host's reset to its end nothing can be put into a
\* buffer: the firmware's link is down, and the host sends on a valid link only.
ResetPlace ==
  /\ call.op = "send" => valid
  /\ valid => hcsr.ready /\ ~hcsr.reset
  /\ At("reset", "finished") => ~hcsr.ready
  /\ call.op = "reset" => ret = NoResult
  /\ ~hcsr.ready => Nothing

LEMMA PopOfNothing == ASSUME Inv, Fill(rx) = 0 PROVE Fill(Pop(rx)) = 0
<1>1. rx \in Buffers
  BY DEF Inv, TypeOK
<1>2. Pop(rx) \in Buffers /\ Fill(Pop(rx)) <= 0
  BY <1>1, PopTakesOne
<1>3. Fill(Pop(rx)) \in 0..(Width - 1)
  BY <1>2, FillIsCount
<1> QED BY <1>2, <1>3, DepthAssumption

\* A step that leaves the host's register alone.
LEMMA ResetPlaceKept ==
  ASSUME Inv, ResetPlace, hcsr' = hcsr,
         hcsr.ready \/ (tx' = tx /\ fw' = fw /\ (rx' = rx \/ rx' = Pop(rx))),
         valid' => valid,
         call'.op = "send" => valid',
         call'.op = "reset" => ret' = NoResult /\ (call'.at = "finished" => ~hcsr.ready)
  PROVE  ResetPlace'
<1>1. ASSUME ~hcsr.ready PROVE Nothing'
  <2>1. Nothing
    BY <1>1 DEF ResetPlace
  <2>2. Fill(rx') = 0
    BY <1>1, <2>1, PopOfNothing DEF Nothing
  <2>3. Fill(tx') = 0 /\ fw' = fw
    BY <1>1, <2>1 DEF Nothing
  <2> QED BY <2>1, <2>2, <2>3 DEF Nothing, Fill
<1> QED BY <1>1 DEF ResetPlace, At

\* A call that goes on stays the call it is.
LEMMA SameCall ==
  ASSUME Inv,
         \/ SendReady \/ WriteHeader \/ WriteWord
         \/ ReceiveReady \/ HeaderThere \/ PacketThere \/ StallEnds \/ ReadWord
         \/ (PacketWritten \/ ReadHeader \/ PacketRead) /\ call' # Idle
         \/ ResetStarted
  PROVE  call'.op = call.op /\ ret' = ret /\ valid' = valid
<1>1. TypeOK
  BY DEF Inv
<1>2. CASE SendReady \/ WriteHeader \/ WriteWord \/ (PacketWritten /\ call' # Idle)
  <2>1. call \in Sending
    BY <1>1, <1>2, CallKinds DEF SendReady, WriteHeader, WriteWord, PacketWritten, At
  <2>2. CASE SendReady
    BY <2>1, <2>2 DEF SendReady, Continues, Sending
  <2>3. CASE WriteHeader
    <3> DEFINE todo == Words(PacketLength(call.left))
    <3>1. call' = [call EXCEPT !.at = "body", !.todo = todo] /\ UNCHANGED <<ret, valid>>
      BY <2>3 DEF WriteHeader
    <3> HIDE DEF todo
    <3> QED BY <2>1, <3>1 DEF Sending
  <2>4. CASE WriteWord
    BY <2>1, <2>4 DEF WriteWord, Sending
  <2>5. CASE PacketWritten /\ call' # Idle
    <3> DEFINE left == call.left - PacketLength(call.left)
    <3>1. call' = [call EXCEPT !.at = "room", !.left = left] /\ UNCHANGED <<ret, valid>>
      BY <2>5 DEF PacketWritten, Aborted, Ends
    <3> HIDE DEF left
    <3> QED BY <2>1, <3>1 DEF Sending
  <2> QED BY <1>2, <2>2, <2>3, <2>4, <2>5
<1>3. CASE \/ ReceiveReady \/ HeaderThere \/ PacketThere \/ StallEnds \/ ReadWord
           \/ (ReadHeader \/ PacketRead) /\ call' # Idle
  <2>1. call \in Receiving
    BY <1>1, <1>3, CallKinds DEF ReceiveReady, HeaderThere, PacketThere, StallEnds, ReadWord,
       ReadHeader, PacketRead, At
  <2>2. CASE ReceiveReady \/ HeaderThere \/ PacketThere \/ StallEnds
    BY <2>1, <2>2 DEF ReceiveReady, HeaderThere, PacketThere, StallEnds, Continues, Receiving
  <2>3. CASE ReadWord
    <3>1. PICK space, got : call' = [call EXCEPT !.todo = @ - 1, !.space = space, !.got = got]
                            /\ UNCHANGED <<ret, valid>>
      BY <2>3, Zenon DEF ReadWord
    <3> QED BY <2>1, <3>1 DEF Receiving
  <2>4. CASE ReadHeader /\ call' # Idle
    <3>1. PICK n, last, todo :
            /\ call' = [call EXCEPT !.at = "gather", !.n = n, !.last = last, !.todo = todo]
            /\ UNCHANGED <<ret, valid>>
      <4>1. PICK header \in AsHeader(Front(rx)) :
              \/ Aborted
              \/ /\ call' = [call EXCEPT !.at = "gather", !.n = header.n, !.last = header.last,
                                         !.todo = Words(header.n)]
                 /\ UNCHANGED <<ret, valid>>
        BY <2>4, Zenon DEF ReadHeader
      <4>2. ~Aborted
        BY <2>4 DEF Aborted, Ends
      <4> QED BY <4>1, <4>2, Zenon
    <3> QED BY <2>1, <3>1 DEF Receiving
  <2>5. CASE PacketRead /\ call' # Idle
    <3>1. PICK total, space :
            /\ call' = [call EXCEPT !.at = "header", !.total = total, !.space = space]
            /\ UNCHANGED <<ret, valid>>
      BY <2>5, Zenon DEF PacketRead, Aborted, Ends
    <3> QED BY <2>1, <3>1 DEF Receiving
  <2> QED BY <1>3, <2>2, <2>3, <2>4, <2>5
<1>4. CASE ResetStarted
  <2>1. call \in Resetting
    BY <1>1, <1>4, CallKinds DEF ResetStarted, At
  <2> QED BY <1>4, <2>1 DEF ResetStarted, Continues, Resetting
<1> QED BY <1>2, <1>3, <1>4

LEMMA ResetPlaceAtFirst == Init => ResetPlace
BY EmptyHasNone DEF Init, ResetPlace, Nothing, Idle, At

LEMMA ResetPlaceOfCalls == ASSUME Inv, ResetPlace, Calls PROVE ResetPlace'
<1>1. ASSUME NEW len \in HostLens, HeciSend(len) PROVE ResetPlace'
  <2>1. valid
    BY <1>1 DEF HeciSend, MayCall
  <2>2. call'.op = "send" /\ valid' = valid /\ hcsr' = hcsr
        /\ tx' = tx /\ rx' = rx /\ fw' = fw
    BY <1>1 DEF HeciSend, fwVars
  <2> QED BY <2>1, <2>2, ResetPlaceKept
<1>2. ASSUME NEW len \in BufSizes, HeciReceive(len) PROVE ResetPlace'
  <2>1. call'.op = "receive" /\ valid' = valid /\ hcsr' = hcsr
        /\ tx' = tx /\ rx' = rx /\ fw' = fw
    BY <1>2 DEF HeciReceive, fwVars
  <2> QED BY <2>1, ResetPlaceKept
<1>3. ASSUME NEW op \in {"send", "receive", "reset"}, NoDevice(op) PROVE ResetPlace'
  <2>1. call'.op = "none" /\ valid' = valid /\ hcsr' = hcsr
        /\ tx' = tx /\ rx' = rx /\ fw' = fw
    BY <1>3 DEF NoDevice, MayCall, Idle, fwVars
  <2> QED BY <2>1, ResetPlaceKept
<1>4. CASE ResetHeciInterface
  <2>1. ~valid
    BY <1>4 DEF ResetHeciInterface, MayCall
  <2>2. hcsr'.ready = hcsr.ready
    BY <1>4 DEF ResetHeciInterface, Inv, TypeOK, Csrs
  <2>3. call'.op = "reset" /\ call'.at = "started" /\ ret' = NoResult /\ valid' = valid
        /\ tx' = tx /\ rx' = rx /\ fw' = fw
    BY <1>4 DEF ResetHeciInterface, fwVars
  <2> QED BY <2>1, <2>2, <2>3 DEF ResetPlace, Nothing, Fill, At
<1> QED BY <1>1, <1>2, <1>3, <1>4 DEF Calls

\* A call that ends leaves the link valid only if it was, a reset apart.
LEMMA ResetPlaceAtEnd ==
  ASSUME Inv, ResetPlace, NEW result, Ends(result),
         result.status # "SUCCESS" \/ call.op # "reset",
         UNCHANGED <<tx, hcsr, fw>>, rx' = rx \/ rx' = Pop(rx)
  PROVE  ResetPlace'
<1>1. call'.op = "none" /\ (valid' => valid)
  BY DEF Ends, Idle, Inv, TypeOK
<1> QED BY <1>1, ResetPlaceKept

\* A call that goes on writes into a buffer only if it is a send, on a valid link.
LEMMA ResetPlaceGoesOn ==
  ASSUME Inv, ResetPlace,
         call'.op = call.op /\ ret' = ret /\ valid' = valid,
         UNCHANGED <<hcsr, fw>>,
         call.op # "send" => tx' = tx /\ (rx' = rx \/ rx' = Pop(rx)),
         At("reset", "finished")' => ~hcsr.ready
  PROVE  ResetPlace'
<1>1. call.op = "send" => hcsr.ready
  BY DEF ResetPlace
<1> QED BY <1>1, ResetPlaceKept DEF ResetPlace, At

LEMMA ResetPlaceOfAborts ==
  ASSUME Inv, ResetPlace,
         FwNotReady \/ NoRoom \/ NoHeader \/ PacketLate \/ ResetTimesOut
  PROVE  ResetPlace'
<1>1. /\ Aborted \/ Ends([op |-> "reset", status |-> "TIMEOUT"])
      /\ UNCHANGED <<tx, rx, hcsr, fw>>
  BY DEF FwNotReady, NoRoom, NoHeader, PacketLate, ResetTimesOut, fwVars
<1>2. PICK result : Ends(result) /\ result.status # "SUCCESS"
  <2>1. CASE Aborted
    <3> DEFINE result == [op |-> call.op, status |-> "ABORTED"]
    <3>1. result.status # "SUCCESS"
      OBVIOUS
    <3>2. Ends(result)
      BY <2>1 DEF Aborted
    <3> HIDE DEF result
    <3> QED BY <3>1, <3>2
  <2>2. CASE Ends([op |-> "reset", status |-> "TIMEOUT"])
    <3> DEFINE result == [op |-> "reset", status |-> "TIMEOUT"]
    <3>1. result.status # "SUCCESS"
      OBVIOUS
    <3>2. Ends(result)
      BY <2>2
    <3> HIDE DEF result
    <3> QED BY <3>1, <3>2
  <2> QED BY <1>1, <2>1, <2>2
<1> QED BY <1>1, <1>2, ResetPlaceAtEnd

\* The last step of a packet, where it ends the call.
LEMMA ResetPlaceOfPackets ==
  ASSUME Inv, ResetPlace, PacketWritten \/ ReadHeader \/ PacketRead, call' = Idle
  PROVE  ResetPlace'
<1>1. call.op # "reset" /\ UNCHANGED <<tx, hcsr, fw>> /\ (rx' = rx \/ rx' = Pop(rx))
  BY DEF PacketWritten, ReadHeader, PacketRead, At, fwVars
<1>2. valid' => valid
  <2>1. CASE PacketWritten
    BY <1>1, <2>1, Zenon DEF PacketWritten, Aborted, Ends
  <2>2. CASE ReadHeader
    BY <1>1, <2>2, Zenon DEF ReadHeader, Aborted, Ends
  <2>3. CASE PacketRead
    BY <1>1, <2>3, Zenon DEF PacketRead, Aborted, Ends
  <2> QED BY <2>1, <2>2, <2>3
<1>3. call'.op = "none"
  BY DEF Idle
<1> QED BY <1>1, <1>2, <1>3, ResetPlaceKept

LEMMA ResetPlaceOfSteps == ASSUME Inv, ResetPlace, CallStep PROVE ResetPlace'
<1>1. CASE FwNotReady \/ NoRoom \/ NoHeader \/ PacketLate \/ ResetTimesOut
  BY <1>1, ResetPlaceOfAborts
<1>2. CASE (PacketWritten \/ ReadHeader \/ PacketRead) /\ call' = Idle
  BY <1>2, ResetPlaceOfPackets
<1>3. CASE \/ SendReady \/ WriteHeader \/ WriteWord
           \/ ((PacketWritten \/ ReadHeader \/ PacketRead) /\ call' # Idle)
           \/ ReceiveReady \/ HeaderThere \/ PacketThere \/ StallEnds \/ ReadWord
  <2>1. call'.op = call.op /\ ret' = ret /\ valid' = valid
    BY <1>3, SameCall
  <2>2. call.op # "reset" /\ UNCHANGED <<hcsr, fw>>
    BY <1>3 DEF SendReady, WriteHeader, WriteWord, PacketWritten, ReadHeader, PacketRead,
       ReceiveReady, HeaderThere, PacketThere, StallEnds, ReadWord, At, fwVars
  <2>3. call.op # "send" => tx' = tx /\ (rx' = rx \/ rx' = Pop(rx))
    BY <1>3 DEF SendReady, WriteHeader, WriteWord, PacketWritten, ReadHeader, PacketRead,
       ReceiveReady, HeaderThere, PacketThere, StallEnds, ReadWord, At
  <2> QED BY <2>1, <2>2, <2>3, ResetPlaceGoesOn DEF At
<1>4. CASE ResetStarted
  <2>1. call'.op = call.op /\ ret' = ret /\ valid' = valid
    BY <1>4, SameCall
  <2>2. ~hcsr.ready /\ UNCHANGED <<tx, rx, hcsr, fw>>
    BY <1>4 DEF ResetStarted, ResetBegun, fwVars
  <2> QED BY <2>1, <2>2, ResetPlaceGoesOn
<1>5. CASE ResetFinished
  <2>1. hcsr'.ready /\ ~hcsr'.reset
    BY <1>5 DEF ResetFinished
  <2>2. call'.op = "none"
    BY <1>5 DEF ResetFinished, Ends, Idle
  <2> QED BY <2>1, <2>2 DEF ResetPlace, At
<1> QED BY <1>1, <1>2, <1>3, <1>4, <1>5 DEF CallStep

\* The firmware puts and takes packets on a link that is up; it and the hardware
\* leave nothing behind in a reset.
LEMMA ResetPlaceOfFirmware == ASSUME Inv, ResetPlace, Firmware PROVE ResetPlace'
<1>1. UNCHANGED <<call, ret, valid>>
  BY DEF Firmware, FwTakesReset, FwResets, FwReady, FwReads, FwBegins, FwHeader, FwWord
<1>2. CASE FwTakesReset \/ FwResets
  <2>1. Nothing'
    <3>1. tx' = EmptyBuffer /\ rx' = EmptyBuffer /\ FwForgets
      BY <1>2 DEF FwTakesReset, FwResets
    <3>2. Fill(tx') = 0 /\ Fill(rx') = 0
      BY <3>1, EmptyHasNone
    <3>3. fw'.need = 0 /\ fw'.bytes = 0 /\ fw'.words = <<>> /\ fw'.out = 0
      BY <3>1 DEF FwForgets
    <3> QED BY <3>2, <3>3 DEF Nothing, Fill
  <2>2. CASE FwTakesReset
    <3>1. ~valid /\ hcsr'.ready = FALSE
      BY <2>2 DEF FwTakesReset, ResetPlace, Inv, TypeOK, Csrs
    <3> QED BY <1>1, <2>1, <3>1 DEF ResetPlace, At
  <2>3. CASE FwResets
    <3>1. hcsr' = hcsr
      BY <2>3 DEF FwResets
    <3> QED BY <1>1, <2>1, <3>1 DEF ResetPlace, At
  <2> QED BY <1>2, <2>2, <2>3
<1>3. CASE FwReady
  <2>1. UNCHANGED <<tx, rx, hcsr, fw>>
    BY <1>3 DEF FwReady, fwVars
  <2> QED BY <1>1, <2>1, ResetPlaceKept DEF ResetPlace, At
<1>4. CASE \/ FwReads \/ FwWord
           \/ \E len \in FwLens : FwBegins(len)
           \/ \E n \in 1..Least(4 * Depth, 511) : FwHeader(n)
  <2>1. hcsr.ready /\ hcsr' = hcsr
    BY <1>4 DEF FwReads, FwWord, FwBegins, FwHeader, LinkUp
  <2> QED BY <1>1, <2>1, ResetPlaceKept DEF ResetPlace, At
<1> QED BY <1>2, <1>3, <1>4 DEF Firmware

\* The host's Ready bit is down and nothing is in the buffers from the begin of a
\* reset to its end.
THEOREM ResetsTakePlace == Spec => []ResetPlace
<1>1. Inv /\ ResetPlace /\ [Next]_vars => ResetPlace'
  <2>1. UNCHANGED vars /\ ResetPlace => ResetPlace'
    BY DEF vars, ResetPlace, Nothing, Fill, At
  <2> QED BY <2>1, ResetPlaceOfCalls, ResetPlaceOfSteps, ResetPlaceOfFirmware DEF Next
<1> QED BY <1>1, ResetPlaceAtFirst, PlacesKept, PTL DEF Spec

\* ResetHeciInterface that succeeds leaves nothing of an earlier message, neither in
\* the circular buffers nor with the firmware, wherever the reset found either side.
THEOREM ResetsAreClean == Spec => ResetLeavesNothing
<1>1. ASSUME Inv, ResetPlace, Next, call.op = "reset", ret'.op = "reset",
             ret'.status = "SUCCESS"
      PROVE  Nothing'
  <2>1. ret = NoResult /\ call # Idle
    BY <1>1 DEF ResetPlace, Idle
  <2>2. ret' # ret
    BY <1>1, <2>1 DEF NoResult
  <2>3. ~Calls
    BY <2>1 DEF Calls, HeciSend, HeciReceive, NoDevice, ResetHeciInterface, MayCall
  <2>4. ~Firmware
    BY <2>2 DEF Firmware, FwTakesReset, FwResets, FwReady, FwReads, FwBegins, FwHeader, FwWord
  <2>5. ResetStarted \/ ResetTimesOut \/ ResetFinished
    BY <1>1, <2>3, <2>4 DEF Next, CallStep, FwNotReady, SendReady, WriteHeader, NoRoom,
       WriteWord, PacketWritten, ReceiveReady, NoHeader, HeaderThere, ReadHeader, PacketThere,
       PacketLate, StallEnds, ReadWord, PacketRead, At
  <2>6. ~ResetStarted
    BY <2>2 DEF ResetStarted, Continues
  <2>7. ~ResetTimesOut
    BY <1>1 DEF ResetTimesOut, Ends
  <2>8. ~hcsr.ready /\ UNCHANGED <<tx, rx, fw>>
    BY <1>1, <2>5, <2>6, <2>7 DEF ResetFinished, ResetPlace, fwVars
  <2> QED BY <1>1, <2>8 DEF ResetPlace, Nothing, Fill
<1>2. Inv /\ ResetPlace /\ [Next]_vars =>
        [call.op = "reset" /\ ret'.op = "reset" /\ ret'.status = "SUCCESS" =>
           /\ Fill(tx') = 0 /\ Fill(rx') = 0
           /\ fw'.need = 0 /\ fw'.words = <<>> /\ fw'.out = 0]_vars
  BY <1>1 DEF Nothing, Fill
<1> QED BY <1>2, PlacesKept, ResetsTakePlace, PTL DEF Spec, ResetLeavesNothing
===============================================================================
