------------------------------- MODULE MeteeCpp -------------------------------
(***************************************************************************)
(* The C++ wrapper: include/meteepp.h.  An object of class metee holds a   *)
(* TEEHANDLE by value; it is made by TeeInit, moved from one object to     *)
(* another, and ends the session in its destructor.  Every member that     *)
(* fails throws, and its caller may catch that and go on.                  *)
(*                                                                         *)
(* The C library is known by what TeeSession says of one session; it frees *)
(* a session in TeeDisconnect and may hand the same memory to the next     *)
(* one.  The values of the TEEHANDLE that a move has to carry along are    *)
(* the pointer to the session and the message length of its client.        *)
(***************************************************************************)
EXTENDS Naturals

CONSTANTS
  Objects,   \* the objects a program declares
  Sessions,  \* the memory TeeInit may give a session
  MsgLens,   \* the message lengths a client may report
  Null,      \* the pointer to no session
  Dead       \* an object not yet constructed or already destroyed

ASSUME MsgLensAssumption == MsgLens \subseteq Nat \ {0}

VARIABLES
  handle,   \* the TEEHANDLE of each object that lives
  session,  \* each session: its phase, and what its client reported last
  ret       \* the last member that returned or threw

vars == <<handle, session, ret>>

Handles == [ptr : Sessions \cup {Null}, maxMsgLen : MsgLens \cup {0}]

ASSUME NullAssumption == Null \notin Sessions
ASSUME DeadAssumption == Dead \notin Handles

Alive(o) == handle[o] # Dead

Free == [phase |-> "closed", msgLen |-> 0]

\* The phase of the session an object has; none is "closed".
PhaseOf(o) == IF handle[o].ptr = Null THEN "closed" ELSE session[handle[o].ptr].phase

Ends(op, outcome) == ret' = [op |-> op, outcome |-> outcome]

Init ==
  /\ handle = [o \in Objects |-> Dead]
  /\ session = [s \in Sessions |-> Free]
  /\ ret = [op |-> "none", outcome |-> "returned"]
-------------------------------------------------------------------------------
(* Constructors. *)

Construct(o, s) ==
  /\ ~Alive(o) /\ session[s].phase = "closed"
  /\ session' = [session EXCEPT ![s] = [phase |-> "open", msgLen |-> 0]]
  /\ handle' = [handle EXCEPT ![o] = [ptr |-> s, maxMsgLen |-> 0]]
  /\ Ends("constructor", "returned")

\* TeeInit fails and leaves no session: there is no object.
ConstructThrows(o) ==
  /\ ~Alive(o)
  /\ Ends("constructor", "threw")
  /\ UNCHANGED <<handle, session>>

\* Mutant: the other object keeps its pointer.
MovedFromKeeps(h) == h

\* Mutant: the pointer is poisoned, not cleared.
MovedFromPoisoned(h) == [h EXCEPT !.ptr = Dead]

\* A moved-from object: its other fields stay as they were.
MovedFrom(h) == [h EXCEPT !.ptr = Null]

MoveConstruct(o, other) ==
  /\ ~Alive(o) /\ Alive(other)
  /\ handle' = [handle EXCEPT ![o] = handle[other], ![other] = MovedFrom(handle[other])]
  /\ Ends("move", "returned")
  /\ UNCHANGED session

(* TeeDisconnect(), which does nothing without a session, and its callers. *)

\* The sessions as they are after TeeDisconnect(h).
Disconnected(h) ==
  [s \in Sessions |-> IF s = h.ptr THEN Free ELSE session[s]]

\* Mutant: the session the object had is forgotten.
AssignmentForgets(o) == session

AssignmentCloses(o) == Disconnected(handle[o])

\* Mutant: the pointer alone is copied.
CopiesPointer(o, other) == [handle[o] EXCEPT !.ptr = handle[other].ptr]

CopiesHandle(o, other) == handle[other]

\* Nothing keeps the program from moving an object to itself; TeeDisconnect has then
\* cleared the pointer that is copied.
MoveAssign(o, other) ==
  /\ Alive(o) /\ Alive(other)
  /\ session' = AssignmentCloses(o)
  /\ handle' = IF o = other THEN [handle EXCEPT ![o] = MovedFrom(handle[o])]
               ELSE [handle EXCEPT ![o] = CopiesHandle(o, other),
                                   ![other] = MovedFrom(handle[other])]
  /\ Ends("move", "returned")

Destroy(o) ==
  /\ Alive(o)
  /\ session' = Disconnected(handle[o])
  /\ handle' = [handle EXCEPT ![o] = Dead]
  /\ Ends("destructor", "returned")
-------------------------------------------------------------------------------
(* Members that use the session; without one they throw. *)

Connect(o, len) ==
  /\ Alive(o) /\ PhaseOf(o) = "open"
  /\ session' = [session EXCEPT ![handle[o].ptr] = [phase |-> "connected", msgLen |-> len]]
  /\ handle' = [handle EXCEPT ![o].maxMsgLen = len]
  /\ Ends("connect", "returned")

\* No session, a session that is connected, or no such client.
ConnectThrows(o) ==
  /\ Alive(o)
  /\ Ends("connect", "threw")
  /\ UNCHANGED <<handle, session>>

\* read() offers a buffer of max_msg_len() bytes.
BufferOf(o) == handle[o].maxMsgLen

\* A message of any length up to the client's; a longer one than the buffer fails.
Read(o, n) ==
  /\ Alive(o) /\ PhaseOf(o) = "connected"
  /\ n \in 1..session[handle[o].ptr].msgLen
  /\ Ends("read", IF n <= BufferOf(o) THEN "returned" ELSE "cut")
  /\ UNCHANGED <<handle, session>>

\* No session; no buffer, for an object that was never connected; no connection; a
\* time-out or a cancel.
ReadThrows(o) ==
  /\ Alive(o)
  /\ Ends("read", "threw")
  /\ UNCHANGED <<handle, session>>

\* write(), fw_status(), trc(), kind(), driver_version() returned a value or threw.
Call(o, outcome) ==
  /\ Alive(o)
  /\ outcome = "returned" => PhaseOf(o) # "closed"
  /\ Ends("call", outcome)
  /\ UNCHANGED <<handle, session>>

\* Whatever it is, the call that finds the connection lost throws.
ConnectionLost(o) ==
  /\ Alive(o) /\ PhaseOf(o) = "connected"
  /\ session' = [session EXCEPT ![handle[o].ptr].phase = "open"]
  /\ \E op \in {"read", "call"} : Ends(op, "threw")
  /\ UNCHANGED handle
-------------------------------------------------------------------------------
Lifetime(o) ==
  \/ \E s \in Sessions : Construct(o, s)
  \/ ConstructThrows(o)
  \/ \E other \in Objects : MoveConstruct(o, other)
  \/ \E other \in Objects : MoveAssign(o, other)
  \/ Destroy(o)

Member(o) ==
  \/ \E len \in MsgLens : Connect(o, len)
  \/ ConnectThrows(o)
  \/ \E len \in MsgLens : \E n \in 1..len : Read(o, n)
  \/ ReadThrows(o)
  \/ \E outcome \in {"returned", "threw"} : Call(o, outcome)
  \/ ConnectionLost(o)

Next == \E o \in Objects : Lifetime(o) \/ Member(o)

Spec == Init /\ [][Next]_vars
-------------------------------------------------------------------------------
TypeOK ==
  /\ handle \in [Objects -> Handles \cup {Dead}]
  /\ session \in [Sessions -> [phase : {"closed", "open", "connected"},
                               msgLen : MsgLens \cup {0}]]
  /\ ret \in [op : {"none", "constructor", "move", "destructor", "connect", "read", "call"},
              outcome : {"returned", "threw", "cut"}]

Owns(o, s) == Alive(o) /\ handle[o].ptr = s

\* Every session is owned by exactly one live object and no object points to memory
\* that was freed, through moves in any order, to itself and from moved-from objects,
\* exceptions of constructors and members, and memory used again: so each session is
\* disconnected exactly once.
OwnedOnce ==
  \A s \in Sessions :
    /\ session[s].phase # "closed" => \E o \in Objects : Owns(o, s)
    /\ \A o, p \in Objects : Owns(o, s) /\ Owns(p, s) => o = p
    /\ \A o \in Objects : Owns(o, s) => session[s].phase # "closed"

\* The buffer read() offers holds any message the client of the present connection
\* may send, after reconnections with other lengths and after moves.
ReadsWhole == ~(ret.op = "read" /\ ret.outcome = "cut")

\* What it rests on: the message length moves with the pointer.
LengthFollows ==
  \A o \in Objects, s \in Sessions :
    Owns(o, s) /\ session[s].phase = "connected" => handle[o].maxMsgLen = session[s].msgLen
===============================================================================
