-------------------------------- MODULE HeciCore -------------------------------
(***************************************************************************)
(* src/uefi/heci_core.c: one message at a time through the two circular    *)
(* buffers of the device, and the reset of the interface.                  *)
(*                                                                         *)
(* HeciSend cuts a message into packets that fit the host's buffer,        *)
(* HeciReceive puts the packets of the firmware's buffer together again.   *)
(* The firmware works at the same time: it reads, writes, and may reset     *)
(* itself and be ready again between any two accesses to a register.  It   *)
(* is the environment, known by the registers and the packets.             *)
(*                                                                         *)
(* A slot of a buffer holds a packet header or a 32-bit word of a message; *)
(* a word is known by its message and its place in it.                     *)
(***************************************************************************)
EXTENDS Naturals, Sequences

CONSTANTS
  Depth,      \* CBDepth: the slots of each circular buffer
  Width,      \* the values of a buffer pointer (256 in the code)
  HostLens,   \* the lengths in bytes of the messages the host sends
  FwLens,     \* and of those the firmware sends
  BufSizes,   \* the sizes in bytes of the buffers the callers read into
  MaxMsgs,    \* bound on the messages of each side
  MaxResets,  \* bound on the resets the firmware begins by itself
  OneHandle   \* no other handle reads after a call was aborted: see MayCall

ASSUME DepthAssumption == Depth \in Nat /\ Depth >= 2 /\ Width \in Nat /\ Depth < Width
ASSUME PointerAssumption == Width % Depth = 0
\* The length of a packet has 9 bits in its header and the code does not look.
ASSUME HeaderAssumption == 4 * Depth - 4 < 512
ASSUME LengthAssumption ==
  /\ HostLens \subseteq Nat \ {0} /\ FwLens \subseteq Nat \ {0} /\ BufSizes \subseteq Nat \ {0}
ASSUME BoundAssumption == MaxMsgs \in Nat /\ MaxResets \in Nat /\ OneHandle \in BOOLEAN

VARIABLES
  tx,      \* the host's circular buffer and its pointers
  rx,      \* the firmware's
  hcsr,    \* Ready and Reset of H_CSR
  mecsr,   \* Ready and Reset of ME_CSR_HA
  call,    \* the call in progress
  ret,     \* what the last call returned
  valid,   \* no call was aborted since the last reset (lib->State.IsValid)
  fw,      \* the message the firmware takes in, and the one it puts out
  sent,    \* the lengths of the messages given to HeciSend
  put,     \* the lengths of the messages the firmware began to send
  done,    \* the messages the firmware has put together
  resets   \* how often the firmware reset itself

fwVars == <<fw, put, done, resets>>
vars == <<tx, rx, hcsr, mecsr, call, ret, valid, fw, sent, put, done, resets>>
------------------------------------------------------------------------------
(* The circular buffers. *)

Header(msg, n, last) == [kind |-> "header", msg |-> msg, n |-> n, last |-> last]
Word(msg, k) == [kind |-> "word", msg |-> msg, n |-> k, last |-> FALSE]
Junk == [kind |-> "junk", msg |-> 0, n |-> 0, last |-> FALSE]

EmptyBuffer == [mem |-> [i \in 0..(Depth - 1) |-> Junk], wp |-> 0, rp |-> 0]

\* The difference of the pointers, which have Width values and wrap.
Fill(b) == IF b.rp <= b.wp THEN b.wp - b.rp ELSE Width + b.wp - b.rp

\* Larger than any count (0xFFFFFFFF in the code).
HECI_CB_OVERFLOW == Width

GetFilledSlots(b) == IF Fill(b) > Depth THEN HECI_CB_OVERFLOW ELSE Fill(b)

\* The subtraction is unsigned: an overflowed buffer seems to have room.
Room(b) == IF GetFilledSlots(b) = HECI_CB_OVERFLOW THEN Depth + 1
           ELSE Depth - GetFilledSlots(b)

Advance(p) == IF p + 1 = Width THEN 0 ELSE p + 1

Push(b, slot) == [b EXCEPT !.mem = [@ EXCEPT ![b.wp % Depth] = slot],
                           !.wp = Advance(@)]

\* Reading an empty buffer gives junk and moves nothing.
Front(b) == IF b.wp = b.rp THEN Junk ELSE b.mem[b.rp % Depth]

Pop(b) == IF b.wp = b.rp THEN b
          ELSE [b EXCEPT !.mem = [@ EXCEPT ![b.rp % Depth] = Junk], !.rp = Advance(@)]
------------------------------------------------------------------------------
Least(a, b) == IF a <= b THEN a ELSE b

Words(bytes) == (bytes + 3) \div 4

\* The bytes of a packet that fits the host's buffer with its header.
Capacity == 4 * Depth - 4

PacketLength(left) == Least(Capacity, left)

\* Mutant: the header is forgotten.
MessageCompleteEarly(left) == left <= 4 * Depth

\* Mutant: a last packet that fills the buffer is not marked.
MessageCompleteLate(left) == left < Capacity

MessageComplete(left) == left <= Capacity

\* Mutant: no slot is kept for the header.
HasRoomForBody(words) == words <= Room(tx)

HasRoom(words) == words + 1 <= Room(tx)

\* Mutant: the space is not reduced.
SpaceOfBuffer(len, total) == len

\* Mutant: the subtraction is not guarded; less than nothing is left of a short buffer.
SpaceUnguarded(len, total) == len - total

\* PacketBuffer: what is left of the caller's buffer after total bytes.
SpaceLeft(len, total) == IF total < len THEN len - total ELSE 0

Idle == [op |-> "none"]

NoResult == [op |-> "none", status |-> "SUCCESS"]

At(op, at) == call.op = op /\ call.at = at

\* Mutant: an aborted call leaves the link valid.
EndsUnnoticed(result) ==
  /\ call' = Idle
  /\ ret' = result
  /\ valid' = (valid \/ (result.status = "SUCCESS" /\ call.op = "reset"))

\* The call ends.  An aborted call or a reset that timed out leaves a link that
\* heci_efi.c does not use before the next reset.
Ends(result) ==
  /\ call' = Idle
  /\ ret' = result
  /\ valid' = (result.status = "SUCCESS" /\ (valid \/ call.op = "reset"))

Aborted == Ends([op |-> call.op, status |-> "ABORTED"])

Continues(at) == call' = [call EXCEPT !.at = at] /\ UNCHANGED <<ret, valid>>

\* A link that is not valid is reset by the next TeeConnect, and EfiTeeHeciSendMessage
\* and EfiTeeHeciUninitialize do not use it.  EfiTeeHeciReceiveMessage looks at the
\* connected flag of its own handle only: another handle goes on reading.
MayCall(op) ==
  /\ call = Idle
  /\ CASE op = "reset" -> ~valid
       [] op = "send" -> valid
       [] op = "receive" -> valid \/ (~OneHandle /\ sent # <<>>)

\* CheckAndFixHeciForAccess finds no device; nothing else happens.
NoDevice(op) ==
  /\ MayCall(op)
  /\ ret' = [op |-> op, status |-> "DEVICE_ERROR"]
  /\ UNCHANGED <<tx, rx, hcsr, mecsr, call, valid, sent, fwVars>>

\* IsMeReady: the Reset bit is looked at first.
MeReady == ~mecsr.reset /\ mecsr.ready

\* Not before the time-out, or a reset.
FwNotReady ==
  /\ At("send", "ready") \/ At("receive", "ready")
  /\ ~MeReady
  /\ Aborted
  /\ UNCHANGED <<tx, rx, hcsr, mecsr, sent, fwVars>>
------------------------------------------------------------------------------
(* HeciSend and HeciPacketWrite. *)

Init ==
  /\ tx = EmptyBuffer /\ rx = EmptyBuffer
  /\ hcsr = [ready |-> TRUE, reset |-> FALSE]
  /\ mecsr = [ready |-> TRUE, reset |-> FALSE]
  /\ call = Idle /\ ret = NoResult /\ valid = FALSE
  /\ fw = [need |-> 0, last |-> FALSE, bytes |-> 0, words |-> <<>>,
           out |-> 0, left |-> 0, todo |-> 0]
  /\ sent = <<>> /\ put = <<>> /\ done = <<>> /\ resets = 0

HeciSend(len) ==
  /\ MayCall("send") /\ Len(sent) < MaxMsgs
  /\ sent' = Append(sent, len)
  /\ call' = [op |-> "send", at |-> "ready", left |-> len, todo |-> 0]
  /\ ret' = NoResult
  /\ UNCHANGED <<tx, rx, hcsr, mecsr, valid, fwVars>>

SendReady ==
  /\ At("send", "ready") /\ MeReady
  /\ Continues("room")
  /\ UNCHANGED <<tx, rx, hcsr, mecsr, sent, fwVars>>

\* There is room for the whole packet; its header is written.
WriteHeader ==
  /\ At("send", "room")
  /\ LET n == PacketLength(call.left) IN
     /\ HasRoom(Words(n))
     /\ tx' = Push(tx, Header(Len(sent), n, MessageComplete(call.left)))
     /\ call' = [call EXCEPT !.at = "body", !.todo = Words(n)]
  /\ UNCHANGED <<rx, hcsr, mecsr, ret, valid, sent, fwVars>>

NoRoom ==
  /\ At("send", "room")
  /\ ~HasRoom(Words(PacketLength(call.left)))
  /\ Aborted
  /\ UNCHANGED <<tx, rx, hcsr, mecsr, sent, fwVars>>

\* The place in the message of the next word of the packet.
NextWord ==
  Words(sent[Len(sent)]) - Words(call.left) + Words(PacketLength(call.left)) - call.todo + 1

WriteWord ==
  /\ At("send", "body") /\ call.todo > 0
  /\ tx' = Push(tx, Word(Len(sent), NextWord))
  /\ call' = [call EXCEPT !.todo = @ - 1]
  /\ UNCHANGED <<rx, hcsr, mecsr, ret, valid, sent, fwVars>>

\* The firmware's Ready bit tells whether the packet went into a reset.
PacketWritten ==
  /\ At("send", "body") /\ call.todo = 0
  /\ LET left == call.left - PacketLength(call.left) IN
     IF ~mecsr.ready THEN Aborted
     ELSE IF left = 0 THEN Ends([op |-> "send", status |-> "SUCCESS"])
     ELSE call' = [call EXCEPT !.at = "room", !.left = left] /\ UNCHANGED <<ret, valid>>
  /\ UNCHANGED <<tx, rx, hcsr, mecsr, sent, fwVars>>
------------------------------------------------------------------------------
(* HeciReceive and HeciPacketRead, with BLOCKING, which is all heci_efi.c uses. *)

HeciReceive(len) ==
  /\ MayCall("receive")
  /\ call' = [op |-> "receive", at |-> "ready", len |-> len, total |-> 0, space |-> len,
              n |-> 0, last |-> FALSE, todo |-> 0, got |-> {}]
  /\ ret' = NoResult
  /\ UNCHANGED <<tx, rx, hcsr, mecsr, valid, sent, fwVars>>

ReceiveReady ==
  /\ At("receive", "ready") /\ MeReady
  /\ Continues("header")
  /\ UNCHANGED <<tx, rx, hcsr, mecsr, sent, fwVars>>

\* Nothing comes before the time-out, or the buffer is overflowed.
NoHeader ==
  /\ At("receive", "header")
  /\ GetFilledSlots(rx) \in {0, HECI_CB_OVERFLOW}
  /\ Aborted
  /\ UNCHANGED <<tx, rx, hcsr, mecsr, sent, fwVars>>

\* The count says that there is a slot; by the time the slot is read there may be none.
HeaderThere ==
  /\ At("receive", "header")
  /\ GetFilledSlots(rx) \notin {0, HECI_CB_OVERFLOW}
  /\ Continues("fetch")
  /\ UNCHANGED <<tx, rx, hcsr, mecsr, sent, fwVars>>

\* The headers a slot may be taken for: a word of a message may look like any.
AsHeader(slot) ==
  IF slot.kind = "header" THEN {slot}
  ELSE {Header(0, 4 * words, last) : words \in 0..(Depth + 1), last \in BOOLEAN}

\* What is in front now is taken for the header, whatever came since it was counted.
ReadHeader ==
  /\ At("receive", "fetch")
  /\ rx' = Pop(rx)
  /\ \E header \in AsHeader(Front(rx)) :
       IF Words(header.n) > Depth THEN Aborted
       ELSE /\ call' = [call EXCEPT !.at = "gather", !.n = header.n, !.last = header.last,
                                    !.todo = Words(header.n)]
            /\ UNCHANGED <<ret, valid>>
  /\ UNCHANGED <<tx, hcsr, mecsr, sent, fwVars>>

\* The count that ends the wait is looked at only after the stall that follows it.
PacketThere ==
  /\ At("receive", "gather") /\ GetFilledSlots(rx) >= call.todo
  /\ Continues("stall")
  /\ UNCHANGED <<tx, rx, hcsr, mecsr, sent, fwVars>>

StallEnds ==
  /\ At("receive", "stall")
  /\ Continues("body")
  /\ UNCHANGED <<tx, rx, hcsr, mecsr, sent, fwVars>>

\* The timer is looked at before the count, so this may happen in any case.
PacketLate ==
  /\ At("receive", "gather")
  /\ Aborted
  /\ UNCHANGED <<tx, rx, hcsr, mecsr, sent, fwVars>>

\* A word goes to its place in the caller's buffer, as far as there is space.
ReadWord ==
  /\ At("receive", "body") /\ call.todo > 0
  /\ rx' = Pop(rx)
  /\ LET bytes == Least(4, call.space)
         place == (call.total \div 4) + Words(call.n) - call.todo + 1
     IN call' = [call EXCEPT
          !.todo = @ - 1, !.space = @ - bytes,
          !.got = IF bytes = 0 THEN @
                  ELSE @ \cup {[place |-> place, slot |-> Front(rx), bytes |-> bytes]}]
  /\ UNCHANGED <<tx, hcsr, mecsr, ret, valid, sent, fwVars>>

\* A message longer than the buffer is a success too, with its whole length.
PacketRead ==
  /\ At("receive", "body") /\ call.todo = 0
  /\ LET total == call.total + call.n IN
     IF ~mecsr.ready THEN Aborted
     ELSE IF call.last
     THEN Ends([op |-> "receive", status |-> "SUCCESS", len |-> call.len,
                total |-> total, got |-> call.got])
     ELSE /\ call' = [call EXCEPT !.at = "header", !.total = total,
                                  !.space = SpaceLeft(call.len, total)]
          /\ UNCHANGED <<ret, valid>>
  /\ UNCHANGED <<tx, rx, hcsr, mecsr, sent, fwVars>>
------------------------------------------------------------------------------
(* ResetHeciInterface. *)

ResetHeciInterface ==
  /\ MayCall("reset")
  /\ hcsr' = [hcsr EXCEPT !.reset = TRUE]
  /\ call' = [op |-> "reset", at |-> "started"]
  /\ ret' = NoResult
  /\ UNCHANGED <<tx, rx, mecsr, valid, sent, fwVars>>

\* Mutant: the host's Ready bit is not awaited.
ResetBegunAtOnce == TRUE

\* The hardware clears the host's Ready bit when the reset has begun.
ResetBegun == ~hcsr.ready

ResetStarted ==
  /\ At("reset", "started") /\ ResetBegun
  /\ Continues("finished")
  /\ UNCHANGED <<tx, rx, hcsr, mecsr, sent, fwVars>>

\* Both waits share one timer, which is looked at before the registers.
ResetTimesOut ==
  /\ call.op = "reset"
  /\ Ends([op |-> "reset", status |-> "TIMEOUT"])
  /\ UNCHANGED <<tx, rx, hcsr, mecsr, sent, fwVars>>

ResetFinished ==
  /\ At("reset", "finished") /\ mecsr.ready
  /\ hcsr' = [ready |-> TRUE, reset |-> FALSE]
  /\ Ends([op |-> "reset", status |-> "SUCCESS"])
  /\ UNCHANGED <<tx, rx, mecsr, sent, fwVars>>
------------------------------------------------------------------------------
(* The firmware and the hardware. *)

\* Packets are exchanged.  A firmware that reset itself keeps its Reset bit until
\* the host has reset the interface as well.
LinkUp == hcsr.ready /\ MeReady

FwForgets == fw' = [need |-> 0, last |-> FALSE, bytes |-> 0, words |-> <<>>,
                    out |-> 0, left |-> 0, todo |-> 0]

FwTakesReset ==
  /\ hcsr.reset /\ hcsr.ready
  /\ hcsr' = [hcsr EXCEPT !.ready = FALSE]
  /\ mecsr' = [ready |-> FALSE, reset |-> FALSE]
  /\ tx' = EmptyBuffer /\ rx' = EmptyBuffer
  /\ FwForgets
  /\ UNCHANGED <<call, ret, valid, sent, put, done, resets>>

FwResets ==
  /\ resets < MaxResets
  /\ resets' = resets + 1
  /\ mecsr' = [ready |-> FALSE, reset |-> TRUE]
  /\ tx' = EmptyBuffer /\ rx' = EmptyBuffer
  /\ FwForgets
  /\ UNCHANGED <<hcsr, call, ret, valid, sent, put, done>>

FwReady ==
  /\ ~mecsr.ready
  /\ mecsr' = [mecsr EXCEPT !.ready = TRUE]
  /\ UNCHANGED <<tx, rx, hcsr, call, ret, valid, sent, fwVars>>

\* A header, then as many words as it says, and so on to the last packet.
FwReads ==
  /\ LinkUp /\ Fill(tx) > 0
  /\ tx' = Pop(tx)
  /\ LET slot == Front(tx) IN
     IF fw.need = 0
     THEN /\ fw' = [fw EXCEPT !.need = Words(slot.n), !.last = slot.last, !.bytes = @ + slot.n]
          /\ UNCHANGED done
     ELSE LET words == Append(fw.words, slot)
              whole == fw.need = 1 /\ fw.last
          IN /\ fw' = [fw EXCEPT !.need = @ - 1,
                                 !.words = IF whole THEN <<>> ELSE words,
                                 !.bytes = IF whole THEN 0 ELSE @]
             /\ done' = IF whole THEN Append(done, [bytes |-> fw.bytes, words |-> words])
                        ELSE done
  /\ UNCHANGED <<rx, hcsr, mecsr, call, ret, valid, sent, put, resets>>

FwBegins(len) ==
  /\ LinkUp /\ fw.out = 0 /\ Len(put) < MaxMsgs
  /\ put' = Append(put, len)
  /\ fw' = [fw EXCEPT !.out = Len(put) + 1, !.left = len]
  /\ UNCHANGED <<tx, rx, hcsr, mecsr, call, ret, valid, sent, done, resets>>

\* All packets but the last hold whole words (HeciReceive counts on it), and none
\* is longer than the buffer.
FwHeader(n) ==
  /\ LinkUp /\ fw.left > 0 /\ fw.todo = 0 /\ Fill(rx) < Depth
  /\ n = fw.left \/ (n < fw.left /\ n % 4 = 0)
  /\ rx' = Push(rx, Header(fw.out, n, n = fw.left))
  /\ fw' = [fw EXCEPT !.left = @ - n, !.todo = Words(n)]
  /\ UNCHANGED <<tx, hcsr, mecsr, call, ret, valid, sent, put, done, resets>>

FwWord ==
  /\ LinkUp /\ fw.todo > 0 /\ Fill(rx) < Depth
  /\ rx' = Push(rx, Word(fw.out, Words(put[fw.out]) - Words(fw.left) - fw.todo + 1))
  /\ fw' = [fw EXCEPT !.todo = @ - 1,
                      !.out = IF fw.todo = 1 /\ fw.left = 0 THEN 0 ELSE @]
  /\ UNCHANGED <<tx, hcsr, mecsr, call, ret, valid, sent, put, done, resets>>
------------------------------------------------------------------------------
Calls ==
  \/ \E len \in HostLens : HeciSend(len)
  \/ \E len \in BufSizes : HeciReceive(len)
  \/ ResetHeciInterface
  \/ \E op \in {"send", "receive", "reset"} : NoDevice(op)

CallStep ==
  \/ FwNotReady
  \/ SendReady \/ WriteHeader \/ NoRoom \/ WriteWord \/ PacketWritten
  \/ ReceiveReady \/ NoHeader \/ HeaderThere \/ ReadHeader
  \/ PacketThere \/ PacketLate \/ StallEnds \/ ReadWord \/ PacketRead
  \/ ResetStarted \/ ResetTimesOut \/ ResetFinished

Firmware ==
  \/ FwTakesReset \/ FwResets \/ FwReady
  \/ FwReads
  \/ \E len \in FwLens : FwBegins(len)
  \/ \E n \in 1..Least(4 * Depth, 511) : FwHeader(n)
  \/ FwWord

Next == Calls \/ CallStep \/ Firmware

Spec == Init /\ [][Next]_vars

\* A call that was made goes on, and a firmware whose link is up reads what it is
\* sent.  Nobody has to make a call, and the firmware need not answer.
Fairness == WF_vars(CallStep) /\ WF_vars(FwReads)
------------------------------------------------------------------------------
Slots == [kind : {"header", "word", "junk"}, msg : Nat, n : Nat, last : BOOLEAN]
Buffers == [mem : [0..(Depth - 1) -> Slots], wp : 0..(Width - 1), rp : 0..(Width - 1)]
Csrs == [ready : BOOLEAN, reset : BOOLEAN]
Copies == [place : Nat, slot : Slots, bytes : 1..4]

Sending == [op : {"send"}, at : {"ready", "room", "body"}, left : Nat, todo : Nat]
Receiving ==
  [op : {"receive"}, at : {"ready", "header", "fetch", "gather", "stall", "body"}, len : BufSizes,
   total : Nat, space : Nat, n : Nat, last : BOOLEAN, todo : Nat, got : SUBSET Copies]
Resetting == [op : {"reset"}, at : {"started", "finished"}]

Messages == [bytes : Nat, words : Seq(Slots)]

FwStates ==
  [need : Nat, last : BOOLEAN, bytes : Nat, words : Seq(Slots),
   out : Nat, left : Nat, todo : Nat]

Results ==
  [op : {"send", "receive", "reset"},
   status : {"SUCCESS", "ABORTED", "TIMEOUT", "DEVICE_ERROR"}]

Received ==
  [op : {"receive"}, status : {"SUCCESS"}, len : BufSizes, total : Nat, got : SUBSET Copies]

TypeOK ==
  /\ tx \in Buffers /\ rx \in Buffers
  /\ hcsr \in Csrs /\ mecsr \in Csrs
  /\ call \in Sending \cup Receiving \cup Resetting \cup {Idle}
  /\ ret \in Results \cup Received \cup {NoResult}
  /\ valid \in BOOLEAN
  /\ fw \in FwStates
  /\ sent \in Seq(HostLens) /\ put \in Seq(FwLens)
  /\ done \in Seq(Messages)
  /\ resets \in 0..MaxResets

(* Safety. *)

\* The host never writes more than the buffer holds, although room is tested once
\* for a whole packet, a full buffer and an empty one differ in their pointers only,
\* and an overflowed one would seem to have room.
HostNeverOverflows == Fill(tx) <= Depth

\* The words of message i, a firmware message of the given length, in a buffer of
\* len bytes: each at its place, cut off at the end of the buffer.
Copied(i, length, len) ==
  {[place |-> k, slot |-> Word(i, k), bytes |-> Least(4, len - 4 * (k - 1))] :
     k \in 1..Words(Least(length, len))}

\* The firmware has reset itself, and the code does not know: it looks at Ready only.
ReadyAgain == mecsr.reset /\ mecsr.ready

ReceiveSucceeds == call.op = "receive" /\ call' = Idle /\ ret'.status = "SUCCESS"

\* HeciReceive that succeeds returns one message of the firmware, all of it that the
\* buffer holds and no word of another, through packets, aborts and resets.  One case
\* alone is different: a reset of the firmware that began and ended within the call.
ReceivedWhole ==
  [][ReceiveSucceeds =>
       \/ ReadyAgain
       \/ \E i \in DOMAIN put :
            ret'.total = put[i] /\ ret'.got = Copied(i, put[i], ret'.len)]_vars

\* What the firmware puts together out of packets is a message given to HeciSend,
\* each at most once and in their order; some are lost to a reset.
FwGetsWhole ==
  \E from \in [DOMAIN done -> DOMAIN sent] :
    /\ \A j, k \in DOMAIN done : j < k => from[j] < from[k]
    /\ \A j \in DOMAIN done :
         done[j] = [bytes |-> sent[from[j]],
                    words |-> [k \in 1..Words(sent[from[j]]) |-> Word(from[j], k)]]

\* After a reset that succeeds nothing of an earlier message is left: not in either
\* buffer, and not half taken in or half put out by the firmware.
ResetLeavesNothing ==
  [][call.op = "reset" /\ ret'.op = "reset" /\ ret'.status = "SUCCESS" =>
       /\ Fill(tx') = 0 /\ Fill(rx') = 0
       /\ fw'.need = 0 /\ fw'.words = <<>> /\ fw'.out = 0]_vars

(* Liveness. *)

\* A message that HeciSend has sent reaches the firmware, unless there is a reset.
SentMessageArrives ==
  \A i \in 1..MaxMsgs :
    (Len(sent) = i /\ ret.op = "send" /\ ret.status = "SUCCESS")
      ~> ((done # <<>> /\ done[Len(done)].words[1].msg >= i)
          \/ mecsr.reset \/ ~mecsr.ready)
===============================================================================
