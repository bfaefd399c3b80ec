------------------------------ MODULE HeciHistory ------------------------------
(***************************************************************************)
(* HeciCore with what a reader of its two buffers has behind it, so that   *)
(* each direction can be compared with a channel.  The history changes no  *)
(* step: it only remembers.                                                *)
(***************************************************************************)
EXTENDS HeciCore

VARIABLES
  received,    \* for each receive that succeeded, the messages its words are from
  hostPassed,  \* the messages of the firmware that were received or lost
  fwPassed     \* the messages of the host that arrived or were lost

historyVars == <<received, hostPassed, fwPassed>>

Sources(words) == {word.msg : word \in words}

SourcesOfDone(message) == Sources({message.words[k] : k \in DOMAIN message.words})
SourcesOfRet(result) == Sources({copy.slot : copy \in result.got})

\* The link was out of order and is valid again.
LinkMended == ~valid /\ valid'

\* The firmware has not broken the link either, known or not.
InOrder == valid /\ ~mecsr.reset

Remember ==
  /\ received' = IF ReceiveSucceeds THEN Append(received, SourcesOfRet(ret')) ELSE received
  /\ hostPassed' = CASE ~InOrder /\ InOrder' -> Len(put)
                     [] ReceiveSucceeds /\ InOrder -> hostPassed + 1
                     [] OTHER -> hostPassed
  /\ fwPassed' = CASE LinkMended -> Len(sent)
                   [] done' # done -> fwPassed + 1
                   [] OTHER -> fwPassed

HistoryInit == Init /\ received = <<>> /\ hostPassed = 0 /\ fwPassed = 0

HistoryNext == Next /\ Remember

HistorySpec == HistoryInit /\ [][HistoryNext]_<<vars, historyVars>>

HistoryFairSpec == HistorySpec /\ Fairness
------------------------------------------------------------------------------
ToFw == INSTANCE HeciChannel WITH
  given <- Len(sent), passed <- fwPassed, up <- valid,
  taken <- [i \in DOMAIN done |-> SourcesOfDone(done[i])]

ToHost == INSTANCE HeciChannel WITH
  given <- Len(put), passed <- hostPassed, up <- InOrder, taken <- received

\* HeciSend and the host's buffer are a channel to the firmware: the firmware puts
\* together the next message of the host and no other, its words all from that one;
\* messages are passed over only where ResetHeciInterface mends a link that an aborted
\* call has broken, and then all that were begun before it.
HostChannel == ToFw!Channel

\* The firmware's buffer and HeciReceive are a channel to the host, if one handle alone
\* reads: a receive that succeeds returns words of the firmware's next message only, and
\* none is passed over but by the reset that mends a broken link.  As long as the host
\* has not noticed a reset of the firmware, what it receives may be garbled.
FwChannel == ToHost!GarblingChannel
===============================================================================
