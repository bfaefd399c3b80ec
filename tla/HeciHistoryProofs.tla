---------------------------- MODULE HeciHistoryProofs ----------------------------
(***************************************************************************)
(* Each direction of HeciCore implements HeciChannel, step by step: the    *)
(* counters of the history are the places that HeciStreamProofs follows.   *)
(***************************************************************************)
EXTENDS HeciHistory, HeciStreamProofs

historyAndVars == <<vars, historyVars>>

\* The history forbids no step and adds none.
LEMMA HistoryIsCore == HistorySpec => Spec
<1>1. HistoryInit => Init
  BY DEF HistoryInit
<1>2. [HistoryNext]_<<vars, historyVars>> => [Next]_vars
  BY DEF HistoryNext
<1> QED BY <1>1, <1>2, PTL DEF HistorySpec, Spec

LEMMA HistoryKeepsPlaces == HistorySpec => []Inv /\ []ResetPlace
BY HistoryIsCore, PlacesKept, ResetsTakePlace, PTL

\* Only a reset that succeeds mends a link, and each does.
LEMMA MendedIsFinished ==
  ASSUME Inv, ResetPlace, [Next]_vars
  PROVE  LinkMended <=> ResetFinished
<1>1. valid \in BOOLEAN
  BY DEF Inv, TypeOK
<1>2. ASSUME ResetFinished PROVE LinkMended
  <2>1. call.op = "reset" /\ ~hcsr.ready
    BY <1>2 DEF ResetFinished, ResetPlace, At
  <2>2. ~valid
    BY <2>1 DEF ResetPlace
  <2>3. valid'
    BY <1>2, <2>1 DEF ResetFinished, Ends
  <2> QED BY <2>2, <2>3 DEF LinkMended
<1>3. ASSUME LinkMended, ~ResetFinished PROVE FALSE
  <2>1. ~valid /\ valid'
    BY <1>3 DEF LinkMended
  <2>2. ~Aborted
    BY <2>1 DEF Aborted, Ends
  <2>3. ~Calls
    BY <2>1 DEF Calls, HeciSend, HeciReceive, ResetHeciInterface, NoDevice
  <2>4. ~Firmware /\ ~UNCHANGED vars
    BY <2>1 DEF Firmware, FwTakesReset, FwResets, FwReady, FwReads, FwBegins, FwHeader, FwWord,
       vars
  <2>5. CallStep
    BY <2>3, <2>4 DEF Next
  <2>6. ~(FwNotReady \/ SendReady \/ WriteHeader \/ NoRoom \/ WriteWord \/ PacketWritten)
    <3>1. ASSUME PacketWritten PROVE FALSE
      <4>1. call.op = "send"
        BY <3>1 DEF PacketWritten, At
      <4> QED BY <2>1, <4>1 DEF ResetPlace
    <3> QED BY <2>1, <2>2, <3>1 DEF FwNotReady, SendReady, WriteHeader, NoRoom, WriteWord, Continues
  <2>7. /\ ~(ReceiveReady \/ NoHeader \/ HeaderThere \/ ReadHeader)
        /\ ~(PacketThere \/ PacketLate \/ StallEnds \/ ReadWord)
    <3>1. ~ReadHeader
      BY <2>1, <2>2, Zenon DEF ReadHeader
    <3> QED BY <2>1, <2>2, <3>1 DEF ReceiveReady, NoHeader, HeaderThere, PacketThere, PacketLate,
            StallEnds, ReadWord, Continues
  <2>8. ~PacketRead
    BY <2>1, <2>2 DEF PacketRead, Ends, At
  <2>9. ~(ResetStarted \/ ResetTimesOut)
    BY <2>1 DEF ResetStarted, ResetTimesOut, Continues, Ends
  <2> QED BY <1>3, <2>5, <2>6, <2>7, <2>8, <2>9 DEF CallStep
<1> QED BY <1>2, <1>3

\* Nothing else happens in the step that mends the link.
LEMMA MendsAlone ==
  ASSUME ResetFinished
  PROVE  UNCHANGED <<sent, put, done, mecsr>> /\ ~ReceiveSucceeds
BY DEF ResetFinished, ReceiveSucceeds, At, fwVars

LEMMA FwReadsAlone ==
  ASSUME FwReads
  PROVE  UNCHANGED <<sent, put, valid>> /\ ~ReceiveSucceeds
BY DEF FwReads, ReceiveSucceeds, Idle

\* The firmware gives up its Reset bit only where it takes a reset of the host.
LEMMA ResetBitGoes ==
  ASSUME [Next]_vars, mecsr.reset, ~mecsr'.reset, mecsr \in [{"ready", "reset"} -> BOOLEAN]
  PROVE  hcsr.reset
<1>1. \A value : [mecsr EXCEPT !.ready = value].reset
  OBVIOUS
<1>2. ~FwReady /\ ~FwResets
  BY <1>1 DEF FwReady, FwResets
<1>3. mecsr' # mecsr
  OBVIOUS
<1>4. ~Calls /\ ~CallStep
  BY <1>3 DEF Calls, HeciSend, HeciReceive, ResetHeciInterface, NoDevice, CallStep, FwNotReady,
     SendReady, WriteHeader, NoRoom, WriteWord, PacketWritten, ReceiveReady, NoHeader, HeaderThere,
     ReadHeader, PacketThere, PacketLate, StallEnds, ReadWord, PacketRead, ResetStarted,
     ResetTimesOut, ResetFinished
<1>5. FwTakesReset
  BY <1>2, <1>3, <1>4 DEF Next, Firmware, FwReads, FwBegins, FwHeader, FwWord, vars
<1> QED BY <1>5 DEF FwTakesReset
------------------------------------------------------------------------------
(* Messages are given to the channels one at a time. *)

\* The lengths of the messages that were begun.
LEMMA GivenGrows ==
  ASSUME Inv, [Next]_vars
  PROVE  /\ Len(sent) \in Nat /\ Len(put) \in Nat
         /\ \/ sent' = sent
            \/ Len(sent') = Len(sent) + 1 /\ UNCHANGED <<put, done, valid>> /\ ~ReceiveSucceeds
         /\ \/ put' = put
            \/ /\ Len(put') = Len(put) + 1 /\ UNCHANGED <<sent, done, valid, mecsr>>
               /\ ~ReceiveSucceeds
<1>1. Len(sent) \in Nat /\ sent \in Seq(Bytes) /\ Len(put) \in Nat /\ put \in Seq(Bytes)
  BY SentBytes, PutBytes
<1>2. \A new : Len(Append(sent, new)) = Len(sent) + 1 /\ Len(Append(put, new)) = Len(put) + 1
  BY <1>1
<1>3. ASSUME NEW len, HeciSend(len)
      PROVE  Len(sent') = Len(sent) + 1 /\ UNCHANGED <<put, done, valid>> /\ ~ReceiveSucceeds
  BY <1>2, <1>3 DEF HeciSend, ReceiveSucceeds, fwVars, MayCall, Idle
<1>4. ASSUME NEW len, FwBegins(len)
      PROVE  /\ Len(put') = Len(put) + 1 /\ UNCHANGED <<sent, done, valid, mecsr>>
             /\ ~ReceiveSucceeds
  BY <1>2, <1>4 DEF FwBegins, ReceiveSucceeds, Idle
<1>5. (\E len \in HostLens : HeciSend(len)) \/ sent' = sent
  BY DEF Next, Calls, HeciReceive, ResetHeciInterface, NoDevice, CallStep, FwNotReady, SendReady,
     WriteHeader, NoRoom, WriteWord, PacketWritten, ReceiveReady, NoHeader, HeaderThere, ReadHeader,
     PacketThere, PacketLate, StallEnds, ReadWord, PacketRead, ResetStarted, ResetTimesOut,
     ResetFinished, Firmware, FwTakesReset, FwResets, FwReady, FwReads, FwBegins, FwHeader, FwWord,
     vars
<1>6. (\E len \in FwLens : FwBegins(len)) \/ put' = put
  BY DEF Next, Calls, HeciSend, HeciReceive, ResetHeciInterface, NoDevice, CallStep, FwNotReady,
     SendReady, WriteHeader, NoRoom, WriteWord, PacketWritten, ReceiveReady, NoHeader, HeaderThere,
     ReadHeader, PacketThere, PacketLate, StallEnds, ReadWord, PacketRead, ResetStarted,
     ResetTimesOut, ResetFinished, Firmware, FwTakesReset, FwResets, FwReady, FwReads, FwHeader,
     FwWord, vars, fwVars
<1> QED BY <1>1, <1>3, <1>4, <1>5, <1>6
------------------------------------------------------------------------------
(* From the host to the firmware. *)

LEMMA SourcesOfSent ==
  ASSUME NEW m \in DOMAIN sent, sent[m] \in Bytes
  PROVE  SourcesOfDone(SentMessage(m)) = {m}
<1>1. PICK n \in Nat : n = Words(sent[m]) /\ n > 0
  BY WordsIsNat DEF Bytes
<1>2. PICK words : words = WordsOf(m, n)
  OBVIOUS
<1>3. SentMessage(m).words = words
  BY <1>1, <1>2 DEF SentMessage
<1>4. DOMAIN words = 1..n /\ 1 \in 1..n /\ \A k \in 1..n : words[k].msg = m
  BY <1>1, <1>2 DEF WordsOf, Word
<1>5. {words[k] : k \in DOMAIN words} # {} /\ \A w \in {words[k] : k \in DOMAIN words} : w.msg = m
  BY <1>4
<1> QED BY <1>3, <1>5 DEF SourcesOfDone, Sources

\* The history and the firmware's place in the messages.
FwHistory == fwPassed \in Nat /\ TxInv(fwPassed)

LEMMA TxInvIs ==
  ASSUME NEW q, q = fwPassed', TxInv(q)'
  PROVE  TxInv(fwPassed)'
BY DEF TxInv

LEMMA FwTakesNext ==
  ASSUME NEW m, done \in Seq(Messages), NEW message \in Messages, done' = Append(done, message),
         SourcesOfDone(message) = {m}
  PROVE  [i \in DOMAIN done' |-> SourcesOfDone(done'[i])] =
           Append([i \in DOMAIN done |-> SourcesOfDone(done[i])], {m})
<1> DEFINE S(x) == SourcesOfDone(x)
           old == [i \in DOMAIN done |-> S(done[i])]
           new == [i \in DOMAIN done' |-> S(done'[i])]
<1> HIDE DEF S
<1>1. PICK n \in Nat : n = Len(done) /\ DOMAIN done = 1..n
  OBVIOUS
<1>2. /\ DOMAIN done' = 1..(n + 1) /\ done'[n + 1] = message
      /\ \A i \in 1..n : done'[i] = done[i]
  BY <1>1
<1>3. S(message) = {m}
  BY DEF S
<1>4. Append(old, {m}) = [i \in 1..(n + 1) |-> IF i = n + 1 THEN {m} ELSE old[i]]
  <2>1. old \in Seq({S(done[i]) : i \in DOMAIN done} \cup {{m}}) /\ Len(old) = n
    BY <1>1
  <2> QED BY <2>1
<1>5. \A i \in 1..(n + 1) : new[i] = IF i = n + 1 THEN {m} ELSE old[i]
  <2>1. \A i \in 1..(n + 1) : new[i] = S(done'[i])
    BY <1>2
  <2>2. \A i \in 1..n : old[i] = S(done[i]) /\ i # n + 1
    BY <1>1
  <2>3. \A i \in 1..(n + 1) : i = n + 1 \/ i \in 1..n
    BY <1>1
  <2> HIDE DEF old, new
  <2> QED BY <1>2, <1>3, <2>1, <2>2, <2>3
<1>6. DOMAIN new = 1..(n + 1) /\ new = [i \in DOMAIN new |-> new[i]]
  BY <1>2
<1>7. new = Append(old, {m})
  BY <1>4, <1>5, <1>6
<1> QED BY <1>7 DEF S

\* A step gives the channel a message, or takes the next one, or breaks or mends the link,
\* or is none of the channel's business.
LEMMA HostChannelStep ==
  ASSUME Inv, ResetPlace, FwHistory, [HistoryNext]_historyAndVars
  PROVE  FwHistory' /\ [ToFw!ChannelNext]_(ToFw!channelVars)
<1>1. PICK p \in Nat : p = fwPassed /\ TxInv(p)
  BY DEF FwHistory
<1>2. [Next]_vars
  BY DEF HistoryNext, historyAndVars
<1>3. CASE UNCHANGED historyAndVars
  <2>1. UNCHANGED vars /\ fwPassed' = p
    BY <1>1, <1>3 DEF historyAndVars, historyVars
  <2>2. TxInv(p)'
    BY <1>1, <2>1, TxOfStutter
  <2> QED BY <1>1, <2>1, <2>2, TxInvIs DEF FwHistory, ToFw!channelVars, vars
<1>4. CASE HistoryNext
  <2>1. fwPassed' = IF ResetFinished THEN Len(sent) ELSE IF done' # done THEN p + 1 ELSE p
    <3>1. LinkMended <=> ResetFinished
      BY <1>2, MendedIsFinished
    <3>2. fwPassed' = CASE LinkMended -> Len(sent)
                        [] done' # done -> p + 1
                        [] OTHER -> p
      BY <1>1, <1>4 DEF HistoryNext, Remember
    <3>3. CASE LinkMended
      <4>1. ~(done' # done)
        BY <1>2, <3>1, <3>3, MendsAlone
      <4> QED BY <3>1, <3>2, <3>3, <4>1
    <3>4. CASE ~LinkMended
      BY <3>1, <3>2, <3>4
    <3> QED BY <3>3, <3>4
  <2>2. CASE ResetFinished
    <3>1. UNCHANGED <<sent, done>> /\ LinkMended
      BY <1>2, <2>2, MendsAlone, MendedIsFinished
    <3>2. PICK n \in Nat : n = Len(sent)
      BY SentBytes
    <3>3. TxInv(n)'
      BY <1>1, <1>2, <2>2, <3>2, TxKept
    <3>4. FwHistory'
      BY <2>1, <2>2, <3>2, <3>3, TxInvIs DEF FwHistory
    <3>5. ToFw!Mend
      BY <2>1, <2>2, <3>1 DEF ToFw!Mend, LinkMended
    <3> QED BY <3>4, <3>5 DEF ToFw!ChannelNext
  <2>3. CASE done' # done
    <3>1. ~ResetFinished /\ sent' = sent /\ valid' = valid
      BY <1>2, <2>3, MendsAlone, DoneStays, FwReadsAlone
    <3>2. /\ p + 1 \in DOMAIN sent /\ SentMessage(p + 1) \in Messages
          /\ done' = Append(done, SentMessage(p + 1)) /\ TxInv(p + 1)'
      BY <1>1, <1>2, <2>3, TxKept
    <3>3. fwPassed' = p + 1 /\ p < Len(sent)
      BY <2>1, <2>3, <3>1, <3>2, SentBytes
    <3>4. FwHistory'
      BY <3>2, <3>3, TxInvIs DEF FwHistory
    <3>5. SourcesOfDone(SentMessage(p + 1)) = {p + 1}
      BY <3>2, SentBytes, SourcesOfSent
    <3>6. done \in Seq(Messages)
      BY DEF Inv, TypeOK
    <3>7. ToFw!Take
      BY <1>1, <3>1, <3>2, <3>3, <3>5, <3>6, FwTakesNext DEF ToFw!Take
    <3> QED BY <3>4, <3>7 DEF ToFw!ChannelNext
  <2>4. CASE ~ResetFinished /\ done' = done
    <3>1. fwPassed' = p /\ TxInv(p)'
      BY <1>1, <1>2, <2>1, <2>4, TxKept
    <3>2. FwHistory'
      BY <3>1, TxInvIs DEF FwHistory
    <3>3. ToFw!Give \/ ToFw!Break \/ UNCHANGED ToFw!channelVars
      <4>1. ~(~valid /\ valid')
        BY <1>2, <2>4, MendedIsFinished DEF LinkMended
      <4>2. valid \in BOOLEAN /\ valid' \in BOOLEAN
        BY <1>2, StepKeeps DEF Inv, TypeOK
      <4>3. CASE sent' = sent
        BY <1>1, <2>4, <3>1, <4>1, <4>2, <4>3 DEF ToFw!Break, ToFw!channelVars
      <4>4. CASE sent' # sent
        BY <1>1, <1>2, <2>4, <3>1, <4>4, GivenGrows DEF ToFw!Give
      <4> QED BY <4>3, <4>4
    <3> QED BY <3>2, <3>3 DEF ToFw!ChannelNext
  <2> QED BY <2>2, <2>3, <2>4
<1> QED BY <1>3, <1>4

\* HeciSend, the packets, aborted calls and resets of either side are, seen from the two
\* ends, a channel that hands over the messages in order and unmixed and loses some only
\* where a broken link is mended.
THEOREM HostChannelKept == HistorySpec => HostChannel
<1>1. HistoryInit => ToFw!ChannelInit
  BY DEF HistoryInit, Init, ToFw!ChannelInit
<1>2. HistoryInit => FwHistory
  BY Initially, TxAtFirst DEF HistoryInit, FwHistory
<1>3. Inv /\ ResetPlace /\ FwHistory /\ [HistoryNext]_historyAndVars
        => FwHistory' /\ [ToFw!ChannelNext]_(ToFw!channelVars)
  BY HostChannelStep
<1> QED BY <1>1, <1>2, <1>3, HistoryKeepsPlaces, PTL
        DEF HistorySpec, HostChannel, ToFw!Channel, historyAndVars
------------------------------------------------------------------------------
(* From the firmware to the host. *)

LEMMA SourcesOfCopied ==
  ASSUME NEW r \in Nat, NextIsReturned(r), put \in Seq(Bytes)
  PROVE  SourcesOfRet(ret') = {r + 1}
<1>1. PICK length \in Nat, len \in Nat :
        length = put[r + 1] /\ len = ret'.len /\ length > 0 /\ len > 0
  BY DEF NextIsReturned, Bytes
<1>2. PICK n \in Nat : n = Words(Least(length, len)) /\ n > 0
  <2>1. Least(length, len) \in Nat /\ Least(length, len) > 0
    BY <1>1 DEF Least
  <2> QED BY <2>1, WordsIsNat
<1>3. PICK got : got = Copied(r + 1, length, len) /\ ret'.got = got
  BY <1>1 DEF NextIsReturned
<1>4. PICK slots : slots = {copy.slot : copy \in got}
  OBVIOUS
<1>5. \A slot \in slots : slot.msg = r + 1
  BY <1>3, <1>4 DEF Copied, Word
<1>6. slots # {}
  <2>1. 1 \in 1..n
    BY <1>2
  <2> QED BY <1>2, <1>3, <1>4, <2>1 DEF Copied
<1>7. SourcesOfRet(ret') = {slot.msg : slot \in slots}
  BY <1>3, <1>4 DEF SourcesOfRet, Sources
<1> QED BY <1>5, <1>6, <1>7

\* The history and the host's place in the messages.
HostHistory ==
  /\ hostPassed \in Nat /\ RxInv(hostPassed)
  /\ \E S : received \in Seq(S)

LEMMA RxInvIs ==
  ASSUME NEW q, q = hostPassed', RxInv(q)'
  PROVE  RxInv(hostPassed)'
BY DEF RxInv

\* A receive that succeeds changes nothing but the call.
LEMMA ReturnsAlone ==
  ASSUME Inv, [Next]_vars, ReceiveSucceeds
  PROVE  UNCHANGED <<put, valid, mecsr>>
<1>1. PacketRead /\ ~Aborted
  BY OnlyPacketsReturn
<1>2. valid \in BOOLEAN
  BY DEF Inv, TypeOK
<1>3. put' = put /\ mecsr' = mecsr
  BY <1>1 DEF PacketRead, fwVars
<1>4. valid' = valid
  <2>1. call' = Idle /\ call.op = "receive" /\ ret'.status = "SUCCESS"
    BY DEF ReceiveSucceeds
  <2>2. call.at = "body"
    BY <1>1 DEF PacketRead, At
  <2> QED BY <1>1, <1>2, <2>1, <2>2 DEF PacketRead, Ends
<1> QED BY <1>3, <1>4

\* The link comes into order only by a reset that finds the firmware without a reset of its
\* own, a call in progress keeps it in order as far as the host knows, and neither changes
\* what the firmware has said.
LEMMA ComesIntoOrder ==
  ASSUME Inv, ResetPlace, NEW r \in Nat, RxInv(r), [Next]_vars
  PROVE  /\ InOrder \in BOOLEAN /\ InOrder' \in BOOLEAN
         /\ ~InOrder /\ InOrder' <=> ResetFinished /\ ~mecsr.reset
         /\ ResetFinished => ~InOrder /\ mecsr' = mecsr
         /\ ReceiveSucceeds => (InOrder <=> ~mecsr.reset) /\ (InOrder' <=> InOrder)
<1>1. /\ valid \in BOOLEAN /\ valid' \in BOOLEAN
      /\ mecsr \in [{"ready", "reset"} -> BOOLEAN] /\ mecsr.reset \in BOOLEAN
      /\ mecsr'.reset \in BOOLEAN
  <2>1. mecsr \in [ready : BOOLEAN, reset : BOOLEAN] /\ valid \in BOOLEAN
    BY DEF Inv, TypeOK, Csrs
  <2>2. mecsr' \in [ready : BOOLEAN, reset : BOOLEAN] /\ valid' \in BOOLEAN
    BY StepKeeps DEF Inv, TypeOK, Csrs
  <2> QED BY <2>1, <2>2
<1>2. ASSUME ResetFinished PROVE ~valid /\ valid' /\ mecsr' = mecsr
  BY <1>2, MendedIsFinished, MendsAlone DEF LinkMended
<1>3. ASSUME ~InOrder, InOrder', ~ResetFinished PROVE FALSE
  <2>1. valid
    BY <1>1, <1>3, MendedIsFinished DEF LinkMended, InOrder
  <2>2. mecsr.reset /\ ~mecsr'.reset
    BY <1>3, <2>1 DEF InOrder
  <2>3. hcsr.reset
    BY <1>1, <2>2, ResetBitGoes
  <2> QED BY <2>1, <2>3 DEF ResetPlace
<1>4. ASSUME ReceiveSucceeds PROVE valid /\ UNCHANGED <<valid, mecsr>>
  BY <1>4, ReturnsAlone DEF ReceiveSucceeds, RxInv, RxPlace
<1>5. InOrder \in BOOLEAN /\ InOrder' \in BOOLEAN
  BY <1>1 DEF InOrder
<1> QED BY <1>1, <1>2, <1>3, <1>4, <1>5 DEF InOrder

\* What a receive returned is the last of what was received.
LEMMA ReceivedGrows ==
  ASSUME NEW S, received \in Seq(S), NEW sources, received' = Append(received, sources)
  PROVE  /\ received' # <<>> /\ received' = Append(received, received'[Len(received')])
         /\ \E T : received' \in Seq(T)
<1>1. PICK T : T = S \cup {sources}
  OBVIOUS
<1>2. received \in Seq(T) /\ sources \in T /\ Len(received) \in Nat
  BY <1>1, SeqMonotonic, LenProperties
<1>3. PICK n \in Nat : n = Len(received)
  BY <1>2
<1>4. /\ received' \in Seq(T) /\ Len(received') = n + 1
      /\ received'[n + 1] = sources
  BY <1>2, <1>3
<1>5. received'[Len(received')] = sources
  BY <1>4
<1>6. received' # <<>>
  BY <1>3, <1>4
<1> QED BY <1>4, <1>5, <1>6

\* A step gives the channel a message, takes the next one, breaks or mends the link, or
\* garbles what the host has from a firmware that reset itself.
LEMMA FwChannelStep ==
  ASSUME OneHandle, Inv, ResetPlace, HostHistory, [HistoryNext]_historyAndVars
  PROVE  HostHistory' /\ [ToHost!ChannelNext \/ ToHost!Garble]_(ToHost!channelVars)
<1>1. PICK r \in Nat : r = hostPassed /\ RxInv(r)
  BY DEF HostHistory
<1>2. [Next]_vars
  BY DEF HistoryNext, historyAndVars
<1>3. PICK S : received \in Seq(S)
  BY DEF HostHistory
<1>4. CASE UNCHANGED historyAndVars
  <2>1. UNCHANGED vars /\ hostPassed' = r /\ received' = received
    BY <1>1, <1>4 DEF historyAndVars, historyVars
  <2>2. RxInv(r)'
    BY <1>1, <2>1, RxOfFw
  <2>3. UNCHANGED ToHost!channelVars
    BY <1>1, <2>1 DEF ToHost!channelVars, vars, InOrder
  <2> QED BY <1>1, <1>3, <2>1, <2>2, <2>3, RxInvIs DEF HostHistory
<1>5. CASE HistoryNext
  <2>1. /\ received' = IF ReceiveSucceeds THEN Append(received, SourcesOfRet(ret')) ELSE received
        /\ ~InOrder /\ InOrder' => hostPassed' = Len(put)
        /\ ~(~InOrder /\ InOrder') /\ ReceiveSucceeds /\ InOrder => hostPassed' = r + 1
        /\ ~(~InOrder /\ InOrder') /\ ~(ReceiveSucceeds /\ InOrder) => hostPassed' = r
    BY <1>1, <1>5, Zenon DEF HistoryNext, Remember
  <2>2. /\ InOrder \in BOOLEAN /\ InOrder' \in BOOLEAN
        /\ ~InOrder /\ InOrder' <=> ResetFinished /\ ~mecsr.reset
        /\ ResetFinished => ~InOrder /\ mecsr' = mecsr
        /\ ReceiveSucceeds => (InOrder <=> ~mecsr.reset) /\ (InOrder' <=> InOrder)
    BY <1>1, <1>2, ComesIntoOrder
  <2>3. CASE ResetFinished
    <3>1. put' = put /\ ~ReceiveSucceeds /\ ~InOrder /\ mecsr' = mecsr
      BY <1>2, <2>2, <2>3, MendsAlone
    <3>2. PICK n \in Nat : n = Len(put)
      BY PutBytes
    <3>3. RxInv(n)'
      BY <1>1, <1>2, <2>3, <3>2, RxKept
    <3>4. CASE mecsr.reset
      <4>1. hostPassed' = r /\ received' = received /\ ~InOrder'
        BY <2>1, <2>2, <2>3, <3>1, <3>4
      <4>2. RxInv(r)'
        BY <3>1, <3>3, <3>4 DEF RxInv, RxStream
      <4>3. UNCHANGED ToHost!channelVars
        BY <1>1, <2>2, <3>1, <4>1 DEF ToHost!channelVars
      <4> QED BY <1>1, <1>3, <4>1, <4>2, <4>3, RxInvIs DEF HostHistory
    <3>5. CASE ~mecsr.reset
      <4>1. hostPassed' = n /\ received' = received /\ InOrder'
        BY <2>1, <2>2, <2>3, <3>1, <3>2, <3>5
      <4>2. ToHost!Mend
        BY <3>1, <3>2, <4>1 DEF ToHost!Mend
      <4> QED BY <1>3, <3>2, <3>3, <4>1, <4>2, RxInvIs DEF HostHistory, ToHost!ChannelNext
    <3> QED BY <3>4, <3>5
  <2>4. CASE ReceiveSucceeds /\ ~mecsr.reset
    <3>1. put' = put /\ InOrder /\ InOrder'
      BY <1>2, <2>2, <2>4, ReturnsAlone
    <3>2. NextIsReturned(r) /\ RxInv(r + 1)'
      BY <1>1, <1>2, <2>4, RxKept
    <3>3. hostPassed' = r + 1 /\ r < Len(put)
      <4>1. r + 1 \in DOMAIN put
        BY <3>2 DEF NextIsReturned
      <4> QED BY <2>1, <2>4, <3>1, <4>1, PutBytes
    <3>4. SourcesOfRet(ret') = {r + 1}
      BY <3>2, PutBytes, SourcesOfCopied
    <3>5. received' = Append(received, {r + 1})
      BY <2>1, <2>4, <3>4
    <3>6. HostHistory'
      <4>1. PICK sources : sources = {r + 1}
        OBVIOUS
      <4>2. \E T : received' \in Seq(T)
        BY <1>3, <3>5, <4>1, ReceivedGrows
      <4> QED BY <3>2, <3>3, <4>2, RxInvIs DEF HostHistory
    <3>7. ToHost!Take
      BY <1>1, <2>2, <3>1, <3>3, <3>5 DEF ToHost!Take
    <3> QED BY <3>6, <3>7 DEF ToHost!ChannelNext
  <2>5. CASE ReceiveSucceeds /\ mecsr.reset
    <3>1. put' = put /\ ~InOrder /\ ~InOrder' /\ ~ResetFinished
      BY <1>2, <2>2, <2>5, ReturnsAlone, MendsAlone
    <3>2. hostPassed' = r /\ RxInv(r)'
      BY <1>1, <1>2, <2>1, <2>5, <3>1, RxKept
    <3>3. PICK sources : sources = SourcesOfRet(ret')
      OBVIOUS
    <3>4. received' = Append(received, sources)
      BY <2>1, <2>5, <3>3
    <3>5. /\ received' # <<>> /\ received' = Append(received, received'[Len(received')])
          /\ \E T : received' \in Seq(T)
      BY <1>3, <3>4, ReceivedGrows
    <3>6. HostHistory'
      BY <3>2, <3>5, RxInvIs DEF HostHistory
    <3>7. ToHost!Garble
      BY <1>1, <2>2, <3>1, <3>2, <3>5 DEF ToHost!Garble
    <3> QED BY <3>6, <3>7
  <2>6. CASE ~ResetFinished /\ ~ReceiveSucceeds
    <3>1. hostPassed' = r /\ received' = received /\ RxInv(r)' /\ ~(~InOrder /\ InOrder')
      BY <1>1, <1>2, <2>1, <2>2, <2>6, RxKept
    <3>2. HostHistory'
      BY <1>3, <3>1, RxInvIs DEF HostHistory
    <3>3. ToHost!Give \/ ToHost!Break \/ UNCHANGED ToHost!channelVars
      <4>1. CASE put' = put
        BY <1>1, <2>2, <3>1, <4>1 DEF ToHost!Break, ToHost!channelVars
      <4>2. CASE put' # put
        <5>1. Len(put') = Len(put) + 1 /\ UNCHANGED <<valid, mecsr>>
          BY <1>2, <4>2, GivenGrows
        <5>2. InOrder' = InOrder
          BY <5>1 DEF InOrder
        <5> QED BY <1>1, <3>1, <5>1, <5>2 DEF ToHost!Give
      <4> QED BY <4>1, <4>2
    <3> QED BY <3>2, <3>3 DEF ToHost!ChannelNext
  <2> QED BY <2>3, <2>4, <2>5, <2>6
<1> QED BY <1>4, <1>5 DEF historyAndVars

\* The firmware's packets, HeciReceive, aborted calls and resets of either side are such a
\* channel to the host, if one handle alone reads: another handle may go on after a call
\* was aborted and take words of a message for a header (the run HeciTornMessage).
THEOREM FwChannelKept == ASSUME OneHandle PROVE HistorySpec => FwChannel
<1>1. HistoryInit => ToHost!ChannelInit
  BY DEF HistoryInit, Init, ToHost!ChannelInit, InOrder
<1>2. HistoryInit => HostHistory
  <2>1. HistoryInit => received \in Seq({})
    BY DEF HistoryInit
  <2> QED BY <2>1, Initially, RxAtFirst DEF HistoryInit, HostHistory
<1>3. Inv /\ ResetPlace /\ HostHistory /\ [HistoryNext]_historyAndVars
        => HostHistory' /\ [ToHost!ChannelNext \/ ToHost!Garble]_(ToHost!channelVars)
  BY FwChannelStep
<1> QED BY <1>1, <1>2, <1>3, HistoryKeepsPlaces, PTL
        DEF HistorySpec, FwChannel, ToHost!GarblingChannel, historyAndVars
===============================================================================
