------------------------------ MODULE TeeSession ------------------------------
(***************************************************************************)
(* What include/metee.h promises the user of one TEEHANDLE, whatever the   *)
(* back end: the phase of the session and the result of the last call that *)
(* returned.  Messages, threads and devices are not part of it.            *)
(***************************************************************************)
CONSTANT Errors   \* the TEESTATUS values other than TEE_SUCCESS

VARIABLES
  phase,  \* "closed", "open" (initialized) or "connected"
  ret     \* the last call that returned, and its status

sessionVars == <<phase, ret>>

Phases == {"closed", "open", "connected"}
TransferCalls == {"read", "write"}
Calls == {"init", "connect", "query"} \cup TransferCalls

Returned(op, status) == ret' = [op |-> op, status |-> status]

SessionInit == phase = "closed" /\ ret = [op |-> "none", status |-> "SUCCESS"]

\* TeeInit*: opens a session, or leaves none.
Open == phase = "closed" /\ phase' = "open" /\ Returned("init", "SUCCESS")

OpenFails(error) == phase = "closed" /\ phase' = "closed" /\ Returned("init", error)

\* TeeConnect: connects an open session; a connected one is refused.
Connect == phase = "open" /\ phase' = "connected" /\ Returned("connect", "SUCCESS")

ConnectFails(error) == phase' = phase /\ Returned("connect", error)

\* TeeRead and TeeWrite succeed on a connected session only.
Transfer(op) ==
  phase = "connected" /\ phase' = "connected" /\ Returned(op, "SUCCESS")

\* A transfer that fails keeps the phase (a timeout, a cancel, a bad parameter,
\* no connection), but never tells a connected session that it is not connected.
TransferFails(op, error) ==
  /\ phase = "connected" => error # "DISCONNECTED"
  /\ phase' = phase
  /\ Returned(op, error)

\* A transfer that fails because the connection broke ends the connection.
TransferLosesConnection(op, error) ==
  phase = "connected" /\ phase' = "open" /\ Returned(op, error)

\* TeeFWStatus, TeeGetTRC and GetDriverVersion need no connection and make none,
\* but a back end may end a connection whose device does not answer them.
Query(status) == phase' = phase /\ Returned("query", status)

QueryLosesConnection(error) ==
  phase = "connected" /\ phase' = "open" /\ Returned("query", error)

\* TeeDisconnect.
Close == phase # "closed" /\ phase' = "closed" /\ ret' = ret

SessionNext ==
  \/ Open
  \/ \E error \in Errors : OpenFails(error)
  \/ Connect
  \/ \E error \in Errors : ConnectFails(error)
  \/ \E op \in TransferCalls : Transfer(op)
  \/ \E op \in TransferCalls, error \in Errors : TransferFails(op, error)
  \/ \E op \in TransferCalls, error \in Errors : TransferLosesConnection(op, error)
  \/ \E status \in Errors \cup {"SUCCESS"} : Query(status)
  \/ \E error \in Errors : QueryLosesConnection(error)
  \/ Close

SessionSpec == SessionInit /\ [][SessionNext]_sessionVars

------------------------------------------------------------------------------
SessionTypeOK ==
  /\ phase \in Phases
  /\ ret \in [op : Calls \cup {"none"}, status : Errors \cup {"SUCCESS"}]

\* After a transfer that said TEE_DISCONNECTED the session is not connected, so
\* that TeeConnect may be called again.
DisconnectedMayConnect ==
  ret.op \in TransferCalls /\ ret.status = "DISCONNECTED" => phase # "connected"
===============================================================================
