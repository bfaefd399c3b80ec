---------------------------- MODULE MeteeCppProofs ----------------------------
(***************************************************************************)
(* What holds of the C++ wrapper for any number of objects and sessions    *)
(* and every set of message lengths.                                       *)
(***************************************************************************)
EXTENDS MeteeCpp, TLAPS

SessionStates == [phase : {"closed", "open", "connected"}, msgLen : MsgLens \cup {0}]

Inv == TypeOK /\ OwnedOnce /\ LengthFollows

\* An object that lives, its handle, and how the code changes the handle.
LEMMA HandleFacts ==
  ASSUME Inv, NEW o \in Objects
  PROVE  /\ Alive(o) <=> handle[o] \in Handles
         /\ Alive(o) => /\ handle[o].ptr \in Sessions \cup {Null}
                        /\ handle[o].maxMsgLen \in MsgLens \cup {0}
                        /\ MovedFrom(handle[o]) \in Handles
                        /\ MovedFrom(handle[o]).ptr = Null
  BY DeadAssumption DEF Inv, TypeOK, Alive, Handles, MovedFrom

\* The pointers of the objects do not change: nothing but phases and lengths.
LEMMA MemberStep ==
  ASSUME Inv, NEW o \in Objects, Member(o)
  PROVE  Inv'
<1> USE DEF Inv
<1>1. CASE UNCHANGED <<handle, session>> /\ ret' \in [op : {"connect", "read", "call"},
                                                      outcome : {"returned", "threw", "cut"}]
  BY <1>1 DEF TypeOK, OwnedOnce, LengthFollows, Owns, Alive
<1>2. ASSUME NEW phase \in {"open", "connected"}, NEW len \in MsgLens \cup {0},
             NEW old, Alive(o), PhaseOf(o) # "closed",
             session' = [session EXCEPT ![handle[o].ptr] = [phase |-> phase, msgLen |-> len]],
             handle' = [handle EXCEPT ![o].maxMsgLen = old],
             old \in MsgLens \cup {0}, phase = "connected" => old = len,
             ret' \in [op : {"connect", "read", "call"}, outcome : {"returned", "threw", "cut"}]
      PROVE  Inv'
  <2>1. /\ handle[o] \in Handles /\ handle[o].ptr \in Sessions
        /\ session[handle[o].ptr].phase # "closed"
    BY <1>2, HandleFacts DEF PhaseOf
  <2>2. [handle[o] EXCEPT !.maxMsgLen = old] \in Handles
    BY <1>2, <2>1 DEF Handles
  <2>3. TypeOK'
    BY <1>2, <2>1, <2>2 DEF TypeOK, Handles
  <2>4. \A p \in Objects :
          /\ Alive(p)' <=> Alive(p)
          /\ Alive(p) => handle'[p].ptr = handle[p].ptr
    BY <1>2, <2>1, <2>2, DeadAssumption DEF Alive, TypeOK, Handles
  <2>5. \A p \in Objects, s \in Sessions : Owns(p, s)' <=> Owns(p, s)
    BY <2>4 DEF Owns
  <2>6. \A s \in Sessions : s # handle[o].ptr => session'[s] = session[s]
    BY <1>2 DEF TypeOK
  <2>7. session'[handle[o].ptr] = [phase |-> phase, msgLen |-> len]
    BY <1>2, <2>1 DEF TypeOK
  <2>8. OwnedOnce'
    <3>1. \A s \in Sessions : session'[s].phase # "closed" <=> session[s].phase # "closed"
      BY <1>2, <2>1, <2>6, <2>7
    <3>2. QED
      BY <2>5, <3>1 DEF OwnedOnce
  <2>9. \A p \in Objects : p # o => handle'[p] = handle[p]
    BY <1>2 DEF TypeOK
  <2>10. handle'[o].maxMsgLen = old
    BY <1>2, <2>1 DEF TypeOK, Handles
  <2>11. Owns(o, handle[o].ptr)
    BY <1>2 DEF Owns
  <2>12. LengthFollows'
    <3> SUFFICES ASSUME NEW p \in Objects, NEW s \in Sessions,
                        Owns(p, s)', session'[s].phase = "connected"
                 PROVE  handle'[p].maxMsgLen = session'[s].msgLen
      BY DEF LengthFollows
    <3>1. CASE s = handle[o].ptr
      <4>1. p = o
        BY <2>5, <2>11, <3>1 DEF OwnedOnce
      <4>2. QED
        BY <1>2, <2>7, <2>10, <3>1, <4>1
    <3>2. CASE s # handle[o].ptr
      <4>1. p # o /\ Owns(p, s)
        BY <2>5, <3>2 DEF Owns
      <4>2. QED
        BY <2>6, <2>9, <3>2, <4>1 DEF LengthFollows
    <3>3. QED
      BY <3>1, <3>2
  <2>13. QED
    BY <2>3, <2>8, <2>12
<1>3. ASSUME NEW len \in MsgLens, Connect(o, len)
      PROVE  Inv'
  BY <1>2, <1>3 DEF Connect, Ends
<1>4. CASE ConnectionLost(o)
  <2>1. handle[o] \in Handles /\ handle[o].ptr \in Sessions
    BY <1>4, HandleFacts DEF ConnectionLost, PhaseOf
  <2>2. /\ session' = [session EXCEPT ![handle[o].ptr] =
                         [phase |-> "open", msgLen |-> session[handle[o].ptr].msgLen]]
        /\ session[handle[o].ptr].msgLen \in MsgLens \cup {0}
    <3>1. session[handle[o].ptr] \in SessionStates
      BY <2>1 DEF TypeOK, SessionStates
    <3>2. [session[handle[o].ptr] EXCEPT !.phase = "open"]
            = [phase |-> "open", msgLen |-> session[handle[o].ptr].msgLen]
      BY <3>1 DEF SessionStates
    <3>3. session' = [session EXCEPT ![handle[o].ptr] =
                        [session[handle[o].ptr] EXCEPT !.phase = "open"]]
      BY <1>4 DEF ConnectionLost
    <3>4. QED
      BY <3>1, <3>2, <3>3 DEF SessionStates
  <2>3. /\ handle' = [handle EXCEPT ![o].maxMsgLen = handle[o].maxMsgLen]
        /\ handle[o].maxMsgLen \in MsgLens \cup {0}
    <3>1. [handle[o] EXCEPT !.maxMsgLen = handle[o].maxMsgLen] = handle[o]
      BY <2>1 DEF Handles
    <3>2. [handle EXCEPT ![o] = [handle[o] EXCEPT !.maxMsgLen = handle[o].maxMsgLen]] = handle
      BY <3>1 DEF TypeOK
    <3>3. QED
      BY <1>4, <2>1, <3>2 DEF ConnectionLost, Handles
  <2>4. /\ Alive(o) /\ PhaseOf(o) # "closed"
        /\ ret' \in [op : {"connect", "read", "call"}, outcome : {"returned", "threw", "cut"}]
    BY <1>4 DEF ConnectionLost, Ends
  <2>5. \A len \in MsgLens \cup {0}, old \in MsgLens \cup {0} :
          /\ session' = [session EXCEPT ![handle[o].ptr] = [phase |-> "open", msgLen |-> len]]
          /\ handle' = [handle EXCEPT ![o].maxMsgLen = old]
          => Inv'
    BY ONLY <1>2, <2>4
  <2>6. QED
    BY ONLY <2>2, <2>3, <2>5
<1>5. QED
  BY <1>1, <1>3, <1>4 DEF Member, ConnectThrows, Read, ReadThrows, Call, Ends

LEMMA ConstructStep ==
  ASSUME Inv, NEW o \in Objects, NEW s \in Sessions, Construct(o, s)
  PROVE  Inv'
<1> USE DEF Inv
<1>1. [ptr |-> s, maxMsgLen |-> 0] \in Handles
  BY DEF Handles
<1>2. TypeOK'
  BY <1>1 DEF Construct, Ends, TypeOK
<1>3. /\ handle'[o] = [ptr |-> s, maxMsgLen |-> 0] /\ ~Alive(o)
      /\ \A p \in Objects : p # o => handle'[p] = handle[p]
      /\ session'[s] = [phase |-> "open", msgLen |-> 0] /\ session[s].phase = "closed"
      /\ \A t \in Sessions : t # s => session'[t] = session[t]
  BY DEF Construct, TypeOK
<1>4. \A p \in Objects : ~Owns(p, s)
  BY <1>3 DEF OwnedOnce
<1>5. \A t \in Sessions, p \in Objects : Owns(p, t)' <=> Owns(p, t) \/ (p = o /\ t = s)
  BY <1>1, <1>3, DeadAssumption DEF Owns, Alive
<1>6. OwnedOnce'
  BY <1>3, <1>4, <1>5 DEF OwnedOnce
<1>7. LengthFollows'
  BY <1>3, <1>4, <1>5 DEF LengthFollows, Owns
<1>8. QED
  BY <1>2, <1>6, <1>7

LEMMA MoveConstructStep ==
  ASSUME Inv, NEW o \in Objects, NEW other \in Objects, MoveConstruct(o, other)
  PROVE  Inv'
<1> USE DEF Inv
<1>1. /\ ~Alive(o) /\ o # other
      /\ handle[other] \in Handles
      /\ MovedFrom(handle[other]) \in Handles /\ MovedFrom(handle[other]).ptr = Null
  BY HandleFacts DEF MoveConstruct
<1>2. TypeOK'
  BY <1>1 DEF MoveConstruct, Ends, TypeOK
<1>3. /\ handle'[o] = handle[other] /\ handle'[other] = MovedFrom(handle[other])
      /\ \A p \in Objects : p \notin {o, other} => handle'[p] = handle[p]
      /\ session' = session
  BY <1>1 DEF MoveConstruct, TypeOK
<1>4. \A s \in Sessions, p \in Objects :
        Owns(p, s)' <=> (p = o /\ Owns(other, s)) \/ (p \notin {o, other} /\ Owns(p, s))
  BY <1>1, <1>3, NullAssumption, DeadAssumption DEF Owns, Alive
<1>5. OwnedOnce'
  BY <1>1, <1>3, <1>4 DEF OwnedOnce, Owns
<1>6. LengthFollows'
  BY <1>3, <1>4 DEF LengthFollows
<1>7. QED
  BY <1>2, <1>5, <1>6

\* TeeDisconnect frees the session of an object.
LEMMA DisconnectedFacts ==
  ASSUME Inv, NEW o \in Objects, Alive(o)
  PROVE  /\ Disconnected(handle[o]) \in [Sessions -> SessionStates]
         /\ \A s \in Sessions : Owns(o, s) => Disconnected(handle[o])[s].phase = "closed"
         /\ \A s \in Sessions : ~Owns(o, s) => Disconnected(handle[o])[s] = session[s]
  BY DEF Inv, TypeOK, Disconnected, SessionStates, Free, Owns

LEMMA DestroyStep ==
  ASSUME Inv, NEW o \in Objects, Destroy(o)
  PROVE  Inv'
<1> USE DEF Inv
<1>1. TypeOK'
  BY DisconnectedFacts DEF Destroy, Ends, TypeOK, SessionStates
<1>2. \A s \in Sessions, p \in Objects : Owns(p, s)' <=> p # o /\ Owns(p, s)
  BY DEF Destroy, Owns, Alive, TypeOK
<1>3. \A p \in Objects : p # o => handle'[p] = handle[p]
  BY DEF Destroy, TypeOK
<1>4. /\ \A s \in Sessions : Owns(o, s) => session'[s].phase = "closed"
      /\ \A s \in Sessions : ~Owns(o, s) => session'[s] = session[s]
  BY DisconnectedFacts DEF Destroy
<1>5. OwnedOnce'
  BY <1>2, <1>4 DEF OwnedOnce
<1>6. LengthFollows'
  BY <1>2, <1>3, <1>4 DEF LengthFollows
<1>7. QED
  BY <1>1, <1>5, <1>6

LEMMA MoveAssignStep ==
  ASSUME Inv, NEW o \in Objects, NEW other \in Objects, MoveAssign(o, other)
  PROVE  Inv'
<1> USE DEF Inv
<1>1. /\ handle[o] \in Handles /\ handle[other] \in Handles
      /\ MovedFrom(handle[other]) \in Handles /\ MovedFrom(handle[other]).ptr = Null
  BY HandleFacts DEF MoveAssign
<1>2. session' = Disconnected(handle[o])
  BY DEF MoveAssign, AssignmentCloses
<1>3. TypeOK'
  BY <1>1, <1>2, DisconnectedFacts DEF MoveAssign, CopiesHandle, Ends, TypeOK, SessionStates
<1>4. /\ \A s \in Sessions : Owns(o, s) => session'[s].phase = "closed"
      /\ \A s \in Sessions : ~Owns(o, s) => session'[s] = session[s]
  BY <1>2, DisconnectedFacts DEF MoveAssign
<1>5. CASE o = other
  <2>1. /\ handle'[o] = MovedFrom(handle[o])
        /\ \A p \in Objects : p # o => handle'[p] = handle[p]
    BY <1>5 DEF MoveAssign, TypeOK
  <2>2. \A s \in Sessions, p \in Objects : Owns(p, s)' <=> p # o /\ Owns(p, s)
    BY <1>1, <1>5, <2>1, NullAssumption DEF Owns, Alive
  <2>3. OwnedOnce'
    BY <1>4, <2>2 DEF OwnedOnce
  <2>4. LengthFollows'
    BY <1>4, <2>1, <2>2 DEF LengthFollows
  <2>5. QED
    BY <1>3, <2>3, <2>4
<1>6. CASE o # other
  <2>1. /\ handle'[o] = handle[other] /\ handle'[other] = MovedFrom(handle[other])
        /\ \A p \in Objects : p \notin {o, other} => handle'[p] = handle[p]
    BY <1>6 DEF MoveAssign, CopiesHandle, TypeOK
  <2>2. \A s \in Sessions, p \in Objects :
          Owns(p, s)' <=> (p = o /\ Owns(other, s)) \/ (p \notin {o, other} /\ Owns(p, s))
    BY <1>1, <1>6, <2>1, NullAssumption, DeadAssumption DEF Owns, Alive
  <2>3. \A s \in Sessions : Owns(other, s) => ~Owns(o, s)
    BY <1>6 DEF OwnedOnce
  <2>4. OwnedOnce'
    BY <1>4, <1>6, <2>2, <2>3 DEF OwnedOnce
  <2>5. LengthFollows'
    BY <1>4, <2>1, <2>2, <2>3 DEF LengthFollows, OwnedOnce
  <2>6. QED
    BY <1>3, <2>4, <2>5
<1>7. QED
  BY <1>5, <1>6

LEMMA InvStep == Inv /\ [Next]_vars => Inv'
<1> SUFFICES ASSUME Inv, [Next]_vars PROVE Inv'
  OBVIOUS
<1>1. CASE UNCHANGED vars
  BY <1>1 DEF vars, Inv, TypeOK, OwnedOnce, LengthFollows, Owns, Alive
<1>2. ASSUME NEW o \in Objects, ConstructThrows(o)
      PROVE  Inv'
  BY <1>2 DEF ConstructThrows, Ends, Inv, TypeOK, OwnedOnce, LengthFollows, Owns, Alive
<1>3. QED
  BY <1>1, <1>2, ConstructStep, MoveConstructStep, MoveAssignStep, DestroyStep, MemberStep
  DEF Next, Lifetime

LEMMA InvAlways == Spec => []Inv
<1>1. Init => Inv
  BY DEF Init, Inv, TypeOK, OwnedOnce, LengthFollows, Owns, Alive, Free
<1>2. QED
  BY <1>1, InvStep, PTL DEF Spec

\* Every variable of the wrapper keeps its type.
THEOREM TypeCorrect == Spec => []TypeOK
<1>1. Inv => TypeOK
  BY DEF Inv
<1>2. QED
  BY <1>1, InvAlways, PTL

\* Each session is owned, and so disconnected, exactly once (the constructors, the move
\* operator and the destructor, meteepp.h:99-193).
THEOREM SessionsOwnedOnce == Spec => []OwnedOnce
<1>1. Inv => OwnedOnce
  BY DEF Inv
<1>2. QED
  BY <1>1, InvAlways, PTL

\* read() always offers a buffer for the longest message (meteepp.h:215-229).
THEOREM ReadsAreWhole == Spec => []ReadsWhole
<1>1. Init => ReadsWhole
  BY DEF Init, ReadsWhole
<1>2. ASSUME Inv, ReadsWhole, [Next]_vars
      PROVE  ReadsWhole'
  <2>1. ASSUME NEW o \in Objects, NEW len \in MsgLens, NEW n \in 1..len, Read(o, n)
        PROVE  ReadsWhole'
    <3>1. handle[o].ptr \in Sessions /\ session[handle[o].ptr].phase = "connected"
      BY <1>2, <2>1, HandleFacts DEF Read, PhaseOf
    <3>2. handle[o].maxMsgLen = session[handle[o].ptr].msgLen
      BY <1>2, <2>1, <3>1 DEF Inv, LengthFollows, Owns, Read
    <3>3. session[handle[o].ptr].msgLen \in Nat
      <4>1. session[handle[o].ptr].msgLen \in MsgLens \cup {0}
        BY <1>2, <3>1 DEF Inv, TypeOK
      <4>2. \A l \in MsgLens \cup {0} : l \in Nat
        BY MsgLensAssumption
      <4>3. QED
        BY <4>1, <4>2
    <3>4. n <= BufferOf(o)
      BY <2>1, <3>2, <3>3 DEF Read, BufferOf
    <3>5. QED
      BY <2>1, <3>4 DEF Read, Ends, ReadsWhole
  <2>2. ASSUME NEW op, NEW outcome, outcome # "cut", Ends(op, outcome)
        PROVE  ReadsWhole'
    BY <2>2 DEF Ends, ReadsWhole
  <2>3. CASE UNCHANGED vars
    BY <1>2, <2>3 DEF vars, ReadsWhole
  <2>4. QED
    BY <1>2, <2>1, <2>2, <2>3
    DEF Next, Lifetime, Member, Construct, ConstructThrows, MoveConstruct, MoveAssign, Destroy,
        Connect, ConnectThrows, ReadThrows, Call, ConnectionLost
<1>3. QED
  BY <1>1, <1>2, InvAlways, PTL DEF Spec
===============================================================================
