------------------------------ MODULE HeciChannel ------------------------------
(***************************************************************************)
(* What one direction of heci_core.c promises: messages arrive unmixed, in *)
(* the order in which they were given, and none is passed over as long as  *)
(* the link is up.  A link that is mended has lost what was on its way.    *)
(***************************************************************************)
EXTENDS Naturals, Sequences

VARIABLES
  given,   \* how many messages the writer has begun
  passed,  \* how many of them the reader has behind it, taken or lost
  taken,   \* for each message that arrived, the messages its words are from
  up       \* the link is in order

channelVars == <<given, passed, taken, up>>

ChannelInit == given = 0 /\ passed = 0 /\ taken = <<>> /\ ~up

\* A writer that has not seen the link break goes on.
Give == given' = given + 1 /\ UNCHANGED <<passed, taken, up>>

Take ==
  /\ passed < given
  /\ passed' = passed + 1
  /\ taken' = Append(taken, {passed + 1})
  /\ UNCHANGED <<given, up>>

Break == up /\ ~up' /\ UNCHANGED <<given, passed, taken>>

Mend == ~up /\ up' /\ passed' = given /\ UNCHANGED <<given, taken>>

ChannelNext == Give \/ Take \/ Break \/ Mend

Channel == ChannelInit /\ [][ChannelNext]_channelVars

\* A link that is out of order may also hand out something that is no message.
Garble ==
  /\ ~up
  /\ taken' # <<>> /\ taken' = Append(taken, taken'[Len(taken')])
  /\ UNCHANGED <<given, passed, up>>

GarblingChannel == ChannelInit /\ [][ChannelNext \/ Garble]_channelVars
===============================================================================
