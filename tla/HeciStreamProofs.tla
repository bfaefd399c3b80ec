--------------------------- MODULE HeciStreamProofs ----------------------------
(***************************************************************************)
(* What the circular buffers of HeciCore hold, for every depth, and that   *)
(* messages therefore arrive whole: the firmware puts together what the    *)
(* host has sent, in its order, and a read returns a message of the        *)
(* firmware.                                                               *)
(*                                                                         *)
(* Between the place a reader has come to and the place its writer has     *)
(* come to, each filled slot leads from one place in the messages to the   *)
(* next.  The same is said of both buffers.                                *)
(***************************************************************************)
EXTENDS HeciCoreProofs, SequenceTheorems

------------------------------------------------------------------------------
(* The slots of a buffer in the order they are read. *)

Content(b, i) == b.mem[(b.rp + i) % Depth]

LEMMA Remainder ==
  ASSUME NEW q \in Nat, NEW r \in 0..(Depth - 1)
  PROVE  (Depth * q + r) % Depth = r
BY DepthAssumption

\* A pointer that wraps goes on in the slot after the last.
LEMMA WrapKeepsSlot == \A i \in Nat : (Width + i) % Depth = i % Depth
<1> SUFFICES ASSUME NEW i \in Nat PROVE (Width + i) % Depth = i % Depth
  OBVIOUS
<1> DEFINE k == Width \div Depth
           q == i \div Depth
           r == i % Depth
<1>1. k \in Nat /\ Width = Depth * k
  BY DepthAssumption, PointerAssumption
<1>2. q \in Nat /\ r \in 0..(Depth - 1) /\ i = Depth * q + r
  BY DepthAssumption
<1>3. k + q \in Nat
  BY <1>1, <1>2
<1> HIDE DEF k, q, r
<1>4. Width + i = Depth * (k + q) + r
  BY <1>1, <1>2, DepthAssumption
<1>5. (Width + i) % Depth = r
  BY <1>2, <1>3, <1>4, Remainder
<1> QED BY <1>5 DEF r

\* Slots nearer than the depth are different slots.
LEMMA SlotsDiffer ==
  ASSUME NEW p \in Nat, NEW i \in Nat, NEW j \in Nat, i < j, j - i < Depth
  PROVE  (p + i) % Depth # (p + j) % Depth
<1> DEFINE q1 == (p + i) \div Depth
           q2 == (p + j) \div Depth
           r == (p + i) % Depth
<1> SUFFICES ASSUME (p + j) % Depth = r PROVE FALSE
  OBVIOUS
<1>1. q1 \in Nat /\ p + i = Depth * q1 + r /\ r \in Nat
  BY DepthAssumption
<1>2. q2 \in Nat /\ p + j = Depth * q2 + r
  BY DepthAssumption
<1> HIDE DEF q1, q2, r
<1>3. j - i = Depth * (q2 - q1)
  BY <1>1, <1>2, DepthAssumption
<1>4. CASE q2 <= q1
  BY <1>1, <1>2, <1>4, DepthAssumption
<1>5. CASE q2 > q1
  <2>1. PICK d \in Nat : q2 = q1 + 1 + d
    BY <1>1, <1>2, <1>5
  <2>2. j - i = Depth + Depth * d
    BY <1>1, <1>2, <1>3, <2>1, DepthAssumption
  <2>3. Depth * d >= 0
    BY DepthAssumption
  <2> QED BY <2>1, <2>2, <2>3, DepthAssumption
<1> QED BY <1>1, <1>2, <1>4, <1>5

LEMMA ContentIsSlot ==
  ASSUME NEW b \in Buffers, NEW i \in Nat
  PROVE  Content(b, i) \in Slots
<1>1. (b.rp + i) % Depth \in 0..(Depth - 1)
  BY BufferParts, DepthAssumption DEF Pointers
<1> QED BY <1>1, BufferParts DEF Content, Memories

\* The write pointer is the read pointer after as many slots as are filled.
LEMMA WritePlace ==
  ASSUME NEW b \in Buffers
  PROVE  b.wp % Depth = (b.rp + Fill(b)) % Depth
<1>1. b.wp \in Nat /\ b.rp \in Nat
  BY BufferParts, DepthAssumption DEF Pointers
<1>2. CASE b.rp <= b.wp
  <2>1. b.rp + Fill(b) = b.wp
    BY <1>1, <1>2 DEF Fill
  <2> QED BY <2>1
<1>3. CASE ~(b.rp <= b.wp)
  <2>1. b.rp + Fill(b) = Width + b.wp
    BY <1>1, <1>3, DepthAssumption DEF Fill
  <2> QED BY <1>1, <2>1, WrapKeepsSlot
<1> QED BY <1>2, <1>3

LEMMA PushContent ==
  ASSUME NEW b \in Buffers, NEW slot \in Slots, Fill(b) < Depth
  PROVE  /\ Fill(Push(b, slot)) = Fill(b) + 1
         /\ \A i \in 0..(Fill(b) - 1) : Content(Push(b, slot), i) = Content(b, i)
         /\ Content(Push(b, slot), Fill(b)) = slot
<1>1. Fill(b) \in Nat /\ b.rp \in Nat /\ b.wp \in Nat
  BY FillIsCount, BufferParts, DepthAssumption DEF Pointers
<1> DEFINE mem == [b.mem EXCEPT ![b.wp % Depth] = slot]
           wp == Advance(b.wp)
<1>2. Push(b, slot).mem = mem /\ Push(b, slot).rp = b.rp
  <2>1. Push(b, slot) = [b EXCEPT !.mem = mem, !.wp = wp]
    BY DEF Push
  <2> HIDE DEF mem, wp
  <2> QED BY <2>1, BuffersAre
<1>3. b.mem \in Memories /\ b.wp % Depth \in 0..(Depth - 1)
  BY BufferParts, SlotIndex
<1>4. \A k \in 0..(Depth - 1) : mem[k] = IF k = b.wp % Depth THEN slot ELSE b.mem[k]
  BY <1>3 DEF Memories
<1> HIDE DEF mem, wp
<1>5. ASSUME NEW i \in 0..(Fill(b) - 1) PROVE Content(Push(b, slot), i) = Content(b, i)
  <2>1. i \in Nat /\ i < Fill(b) /\ Fill(b) - i < Depth
    BY <1>1, <1>5, DepthAssumption
  <2>2. (b.rp + i) % Depth # b.wp % Depth
    BY <1>1, <2>1, SlotsDiffer, WritePlace
  <2>3. (b.rp + i) % Depth \in 0..(Depth - 1)
    BY <1>1, <2>1, DepthAssumption
  <2> QED BY <1>2, <1>4, <2>2, <2>3 DEF Content
<1>6. Content(Push(b, slot), Fill(b)) = slot
  BY <1>2, <1>3, <1>4, WritePlace DEF Content
<1> QED BY <1>5, <1>6, PushAddsOne

\* A read takes the first slot, and the others follow.
LEMMA PopContent ==
  ASSUME NEW b \in Buffers, Fill(b) > 0, Fill(b) <= Depth
  PROVE  /\ Front(b) = Content(b, 0)
         /\ Fill(Pop(b)) = Fill(b) - 1
         /\ \A i \in 0..(Fill(b) - 2) : Content(Pop(b), i) = Content(b, i + 1)
<1>1. Fill(b) \in Nat /\ b.rp \in Nat /\ b.wp \in Nat /\ b.rp < Width /\ b.wp < Width
  BY FillIsCount, BufferParts, DepthAssumption DEF Pointers
<1>2. b.wp # b.rp
  BY <1>1 DEF Fill
<1> DEFINE mem == [b.mem EXCEPT ![b.rp % Depth] = Junk]
           rp == Advance(b.rp)
<1>3. rp \in Pointers /\ mem \in Memories
  BY BufferParts, AdvanceIsPointer, JunkIsSlot DEF Memories
<1>4. Pop(b).mem = mem /\ Pop(b).rp = rp /\ Pop(b).wp = b.wp
  <2>1. Pop(b) = [b EXCEPT !.mem = mem, !.rp = rp]
    BY <1>2 DEF Pop
  <2> HIDE DEF mem, rp
  <2> QED BY <1>3, <2>1, BuffersAre
<1>5. b.mem \in Memories /\ b.rp % Depth \in 0..(Depth - 1)
  BY BufferParts, SlotIndex
<1>6. \A k \in 0..(Depth - 1) : k # b.rp % Depth => mem[k] = b.mem[k]
  BY <1>5 DEF Memories
<1>7. rp = b.rp + 1 \/ (rp = 0 /\ b.rp + 1 = Width)
  BY DEF Advance
<1>8. Fill(Pop(b)) = Fill(b) - 1
  BY <1>1, <1>2, <1>4, <1>7, DepthAssumption DEF Fill
<1>9. Front(b) = Content(b, 0)
  BY <1>1, <1>2 DEF Front, Content
<1> HIDE DEF mem, rp
<1>10. ASSUME NEW i \in 0..(Fill(b) - 2) PROVE Content(Pop(b), i) = Content(b, i + 1)
  <2>1. i \in Nat /\ i + 1 \in Nat /\ i + 1 < Depth
    BY <1>1, <1>10, DepthAssumption
  <2>2. (rp + i) % Depth = (b.rp + (i + 1)) % Depth
    <3>1. CASE rp = b.rp + 1
      <4>1. rp + i = b.rp + (i + 1)
        BY <1>1, <2>1, <3>1
      <4> QED BY <4>1
    <3>2. CASE rp = 0 /\ b.rp + 1 = Width
      <4>1. b.rp + (i + 1) = Width + i /\ rp + i = i
        BY <1>1, <2>1, <3>2
      <4> QED BY <2>1, <4>1, WrapKeepsSlot
    <3> QED BY <1>7, <3>1, <3>2
  <2>3. (b.rp + 0) % Depth # (b.rp + (i + 1)) % Depth
    <3>1. 0 < i + 1 /\ (i + 1) - 0 < Depth
      BY <2>1
    <3> QED BY <1>1, <2>1, <3>1, SlotsDiffer
  <2>4. (b.rp + (i + 1)) % Depth \in 0..(Depth - 1) /\ b.rp + 0 = b.rp
    BY <1>1, <2>1, DepthAssumption
  <2> QED BY <1>4, <1>6, <2>2, <2>3, <2>4 DEF Content
<1> QED BY <1>8, <1>9, <1>10
------------------------------------------------------------------------------
(* Places in the messages of one side, whose lengths are lens: left bytes of message *)
(* msg have not been announced by a header, and todo words announced are to come.    *)

Bytes == Nat \ {0}

Places(lens) ==
  {c \in [msg : 0..Len(lens), left : Nat, todo : Nat] :
     c.left > 0 \/ c.todo > 0 =>
       /\ c.msg > 0 /\ c.left <= lens[c.msg]
       /\ Words(c.left) + c.todo <= Words(lens[c.msg])}

\* After a message and before the next.
Between(c) == c.left = 0 /\ c.todo = 0

\* After message m: the writer may have begun another.
After(lens, m, d) ==
  /\ d.todo = 0
  /\ \/ d.left = 0 /\ d.msg = m
     \/ d.left > 0 /\ d.msg = m + 1 /\ d.left = lens[d.msg]

\* A packet that is not the last one holds whole words.
HeaderLeads(c, slot, d) ==
  LET n == c.left - d.left IN
  /\ c.todo = 0
  /\ d.msg = c.msg /\ d.left < c.left /\ d.todo = Words(n)
  /\ d.left = 0 \/ n % 4 = 0
  /\ slot = Header(c.msg, n, d.left = 0)

WordLeads(lens, c, slot, d) ==
  /\ c.todo > 0
  /\ slot = Word(c.msg, Words(lens[c.msg]) - Words(c.left) - c.todo + 1)
  /\ IF c.left = 0 /\ c.todo = 1 THEN After(lens, c.msg, d)
     ELSE d.msg = c.msg /\ d.left = c.left /\ d.todo = c.todo - 1

Leads(lens, c, slot, d) == HeaderLeads(c, slot, d) \/ WordLeads(lens, c, slot, d)

\* The slots of b lead from place to place, the reader's first and the writer's last.
Chain(b, lens, at) ==
  /\ at \in [0..Fill(b) -> Places(lens)]
  /\ \A i \in 0..(Fill(b) - 1) : Leads(lens, at[i], Content(b, i), at[i + 1])

LEMMA PlaceParts ==
  ASSUME NEW lens \in Seq(Bytes), NEW c \in Places(lens)
  PROVE  /\ c.msg \in 0..Len(lens) /\ c.msg \in Nat /\ c.left \in Nat /\ c.todo \in Nat
         /\ c.left > 0 \/ c.todo > 0 =>
              /\ c.msg \in DOMAIN lens /\ lens[c.msg] \in Bytes /\ c.left <= lens[c.msg]
              /\ Words(c.left) + c.todo <= Words(lens[c.msg])
         /\ c = [msg |-> c.msg, left |-> c.left, todo |-> c.todo]
<1>1. c \in [msg : 0..Len(lens), left : Nat, todo : Nat]
  BY DEF Places
<1>2. c.left > 0 \/ c.todo > 0 =>
        /\ c.msg > 0 /\ c.left <= lens[c.msg]
        /\ Words(c.left) + c.todo <= Words(lens[c.msg])
  BY DEF Places
<1>3. Len(lens) \in Nat /\ DOMAIN lens = 1..Len(lens) /\ \A i \in 1..Len(lens) : lens[i] \in Bytes
  OBVIOUS
<1> QED BY <1>1, <1>2, <1>3

LEMMA PlaceIs ==
  ASSUME NEW lens \in Seq(Bytes), NEW m \in 0..Len(lens), NEW left \in Nat, NEW todo \in Nat,
         left > 0 \/ todo > 0 => m > 0 /\ left <= lens[m] /\ Words(left) + todo <= Words(lens[m])
  PROVE  [msg |-> m, left |-> left, todo |-> todo] \in Places(lens)
BY DEF Places

\* An empty buffer: the reader is where the writer is.
LEMMA ChainOfNothing ==
  ASSUME NEW b \in Buffers, Fill(b) = 0, NEW lens \in Seq(Bytes), NEW c \in Places(lens)
  PROVE  \E at : Chain(b, lens, at) /\ at[0] = c
<1> DEFINE at == [i \in 0..0 |-> c]
<1>1. at \in [0..Fill(b) -> Places(lens)] /\ at[0] = c
  OBVIOUS
<1> HIDE DEF at
<1>2. Chain(b, lens, at)
  BY <1>1 DEF Chain
<1> QED BY <1>1, <1>2

LEMMA ChainEnds ==
  ASSUME NEW b \in Buffers, NEW lens, NEW at, Chain(b, lens, at)
  PROVE  at[0] \in Places(lens) /\ at[Fill(b)] \in Places(lens)
<1>1. Fill(b) \in Nat
  BY FillIsCount, DepthAssumption
<1> QED BY <1>1 DEF Chain

\* A slot that is written leads on from the place of the writer.
LEMMA ChainWritten ==
  ASSUME NEW b \in Buffers, NEW slot \in Slots, Fill(b) < Depth,
         NEW lens, NEW at, Chain(b, lens, at),
         NEW d \in Places(lens), Leads(lens, at[Fill(b)], slot, d)
  PROVE  \E at2 : /\ Chain(Push(b, slot), lens, at2)
                  /\ at2[0] = at[0] /\ at2[Fill(Push(b, slot))] = d
<1> DEFINE n == Fill(b)
           p == Push(b, slot)
           at2 == [i \in 0..(n + 1) |-> IF i <= n THEN at[i] ELSE d]
<1>1. n \in Nat
  BY FillIsCount, DepthAssumption
<1>2. /\ Fill(p) = n + 1
      /\ \A i \in 0..(n - 1) : Content(p, i) = Content(b, i)
      /\ Content(p, n) = slot
  BY PushContent
<1>3. /\ at \in [0..n -> Places(lens)]
      /\ \A i \in 0..(n - 1) : Leads(lens, at[i], Content(b, i), at[i + 1])
      /\ Leads(lens, at[n], slot, d)
  BY DEF Chain
<1> HIDE DEF n, p
<1>4. /\ at2 \in [0..(n + 1) -> Places(lens)] /\ at2[0] = at[0] /\ at2[n + 1] = d /\ at2[n] = at[n]
      /\ \A i \in 0..(n - 1) : at2[i] = at[i] /\ at2[i + 1] = at[i + 1]
  BY <1>1, <1>3
<1> HIDE DEF at2
<1>5. \A i \in 0..n : Leads(lens, at2[i], Content(p, i), at2[i + 1])
  <2> SUFFICES ASSUME NEW i \in 0..n PROVE Leads(lens, at2[i], Content(p, i), at2[i + 1])
    OBVIOUS
  <2>1. CASE i = n
    BY <1>2, <1>3, <1>4, <2>1
  <2>2. CASE i # n
    <3>1. i \in 0..(n - 1)
      BY <1>1, <2>2
    <3> QED BY <1>2, <1>3, <1>4, <3>1
  <2> QED BY <2>1, <2>2
<1>6. Chain(p, lens, at2)
  <2>1. (n + 1) - 1 = n
    BY <1>1
  <2> QED BY <1>2, <1>4, <1>5, <2>1 DEF Chain
<1> QED BY <1>2, <1>4, <1>6 DEF p

\* A slot that is read leads the reader on.
LEMMA ChainRead ==
  ASSUME NEW b \in Buffers, Fill(b) > 0, Fill(b) <= Depth,
         NEW lens, NEW at, Chain(b, lens, at)
  PROVE  /\ Leads(lens, at[0], Front(b), at[1]) /\ at[1] \in Places(lens)
         /\ \E at2 : /\ Chain(Pop(b), lens, at2)
                     /\ at2[0] = at[1] /\ at2[Fill(Pop(b))] = at[Fill(b)]
<1> DEFINE n == Fill(b)
           p == Pop(b)
           at2 == [i \in 0..(n - 1) |-> at[i + 1]]
<1>1. n \in Nat /\ n > 0
  BY FillIsCount, DepthAssumption
<1>2. /\ Fill(p) = n - 1 /\ Front(b) = Content(b, 0)
      /\ \A i \in 0..(n - 2) : Content(p, i) = Content(b, i + 1)
  BY PopContent
<1>3. /\ at \in [0..n -> Places(lens)]
      /\ \A i \in 0..(n - 1) : Leads(lens, at[i], Content(b, i), at[i + 1])
  BY DEF Chain
<1>4. Leads(lens, at[0], Front(b), at[1]) /\ at[1] \in Places(lens)
  <2>1. 0 \in 0..(n - 1) /\ 1 \in 0..n /\ 0 + 1 = 1
    BY <1>1
  <2> HIDE DEF n
  <2> QED BY <1>2, <1>3, <2>1
<1> HIDE DEF n, p
<1>5. /\ at2 \in [0..(n - 1) -> Places(lens)] /\ at2[0] = at[1] /\ at2[n - 1] = at[n]
      /\ \A i \in 0..(n - 2) : at2[i] = at[i + 1] /\ at2[i + 1] = at[(i + 1) + 1]
  BY <1>1, <1>3
<1> HIDE DEF at2
<1>6. \A i \in 0..(n - 2) : Leads(lens, at2[i], Content(p, i), at2[i + 1])
  <2> SUFFICES ASSUME NEW i \in 0..(n - 2) PROVE Leads(lens, at2[i], Content(p, i), at2[i + 1])
    OBVIOUS
  <2>1. i + 1 \in 0..(n - 1)
    BY <1>1
  <2> QED BY <1>2, <1>3, <1>5, <2>1
<1>7. Chain(p, lens, at2)
  <2>1. (n - 1) - 1 = n - 2
    BY <1>1
  <2> QED BY <1>2, <1>5, <1>6, <2>1 DEF Chain
<1> QED BY <1>2, <1>4, <1>5, <1>7 DEF n, p

\* A message that is begun is longer than nothing and comes after all others.
LEMMA Begun ==
  ASSUME NEW lens \in Seq(Bytes), NEW len \in Bytes
  PROVE  /\ Append(lens, len) \in Seq(Bytes) /\ Len(Append(lens, len)) = Len(lens) + 1
         /\ Len(lens) \in Nat /\ Append(lens, len)[Len(lens) + 1] = len
         /\ \A m \in 1..Len(lens) : Append(lens, len)[m] = lens[m]
         /\ DOMAIN lens = 1..Len(lens)
BY AppendProperties

LEMMA PlacesStay ==
  ASSUME NEW lens \in Seq(Bytes), NEW len \in Bytes, NEW c \in Places(lens)
  PROVE  c \in Places(Append(lens, len))
<1> DEFINE new == Append(lens, len)
<1>1. /\ Len(new) = Len(lens) + 1 /\ Len(lens) \in Nat
      /\ \A m \in 1..Len(lens) : new[m] = lens[m]
  BY Begun
<1> HIDE DEF new
<1>2. c \in [msg : 0..Len(lens), left : Nat, todo : Nat]
  BY DEF Places
<1>3. c \in [msg : 0..Len(new), left : Nat, todo : Nat]
  BY <1>1, <1>2
<1>4. c.left > 0 \/ c.todo > 0 =>
        /\ c.msg > 0 /\ c.left <= lens[c.msg]
        /\ Words(c.left) + c.todo <= Words(lens[c.msg])
  BY DEF Places
<1>5. c.msg > 0 => new[c.msg] = lens[c.msg]
  BY <1>1, <1>2
<1>6. c \in Places(new)
  BY <1>3, <1>4, <1>5 DEF Places
<1> QED BY <1>6 DEF new

LEMMA NewPlace ==
  ASSUME NEW lens \in Seq(Bytes), NEW len \in Bytes
  PROVE  [msg |-> Len(lens) + 1, left |-> len, todo |-> 0] \in Places(Append(lens, len))
<1> DEFINE new == Append(lens, len)
           m == Len(lens) + 1
<1>1. new \in Seq(Bytes) /\ m \in 0..Len(new) /\ m > 0 /\ new[m] = len /\ len \in Nat /\ len > 0
  BY Begun DEF Bytes
<1> HIDE DEF new, m
<1>2. len <= new[m] /\ Words(len) + 0 <= Words(new[m])
  BY <1>1, WordsIsNat
<1>3. [msg |-> m, left |-> len, todo |-> 0] \in Places(new)
  BY <1>1, <1>2, PlaceIs
<1> QED BY <1>3 DEF new, m

LEMMA LeadsStays ==
  ASSUME NEW lens \in Seq(Bytes), NEW len \in Bytes, NEW c \in Places(lens),
         NEW d \in Places(lens), NEW slot, Leads(lens, c, slot, d)
  PROVE  Leads(Append(lens, len), c, slot, d)
<1> DEFINE new == Append(lens, len)
<1>1. \A m \in DOMAIN lens : new[m] = lens[m]
  BY Begun
<1>2. c.todo > 0 => c.msg \in DOMAIN lens
  BY PlaceParts
<1>3. d.left > 0 => d.msg \in DOMAIN lens
  BY PlaceParts
<1> HIDE DEF new
<1>4. Leads(new, c, slot, d)
  BY <1>1, <1>2, <1>3 DEF Leads, WordLeads, After
<1> QED BY <1>4 DEF new

\* No slot leads between two messages but the last word of the one before.
LEMMA LastWordLeads ==
  ASSUME NEW lens \in Seq(Bytes), NEW c \in Places(lens), NEW d \in Places(lens), NEW slot,
         Leads(lens, c, slot, d), Between(d)
  PROVE  /\ c.todo = 1 /\ c.left = 0 /\ c.msg \in 1..Len(lens) /\ d.msg = c.msg
         /\ slot = Word(c.msg, Words(lens[c.msg]) - Words(c.left) - c.todo + 1)
<1>1. c.left \in Nat /\ c.todo \in Nat /\ d.left \in Nat
  BY PlaceParts
<1>2. ~HeaderLeads(c, slot, d)
  <2> SUFFICES ASSUME HeaderLeads(c, slot, d) PROVE FALSE
    OBVIOUS
  <2>1. c.left - d.left \in Nat /\ c.left - d.left > 0 /\ Words(c.left - d.left) = 0
    BY <1>1 DEF HeaderLeads, Between
  <2> QED BY <2>1, WordsIsNat
<1>3. WordLeads(lens, c, slot, d)
  BY <1>2 DEF Leads
<1>4. c.todo = 1 /\ c.left = 0
  BY <1>1, <1>3 DEF WordLeads, Between
<1>5. c.msg \in DOMAIN lens
  BY <1>4, PlaceParts
<1>6. d.msg = c.msg
  BY <1>3, <1>4 DEF WordLeads, After, Between
<1> QED BY <1>3, <1>4, <1>5, <1>6 DEF WordLeads

\* The writer begins a message; a reader that has nothing to read begins it too.
LEMMA ChainBegun ==
  ASSUME NEW b \in Buffers, NEW lens \in Seq(Bytes), NEW len \in Bytes,
         NEW at, Chain(b, lens, at), Between(at[Fill(b)]), at[Fill(b)].msg = Len(lens),
         NEW w, w = [msg |-> Len(lens) + 1, left |-> len, todo |-> 0]
  PROVE  \E at2 : /\ Chain(b, Append(lens, len), at2)
                  /\ at2[Fill(b)] = w
                  /\ at2[0] = IF Fill(b) = 0 THEN w ELSE at[0]
<1> DEFINE n == Fill(b)
           new == Append(lens, len)
           at2 == [i \in 0..n |-> IF i = n THEN w ELSE at[i]]
<1>1. n \in Nat
  BY FillIsCount, DepthAssumption
<1>2. /\ at \in [0..n -> Places(lens)]
      /\ \A i \in 0..(n - 1) : Leads(lens, at[i], Content(b, i), at[i + 1])
  BY DEF Chain
<1>3. w \in Places(new) /\ \A c \in Places(lens) : c \in Places(new)
  BY NewPlace, PlacesStay
<1> HIDE DEF n
<1>4. at2[n] = w /\ at2[0] = (IF n = 0 THEN w ELSE at[0])
      /\ \A i \in 0..(n - 1) : at2[i] = at[i]
  BY <1>1
<1>5. at2 \in [0..n -> Places(new)]
  <2>1. \A i \in 0..n : at[i] \in Places(lens)
    BY <1>2
  <2> HIDE DEF new
  <2> QED BY <1>3, <2>1
<1> HIDE DEF at2
<1>6. ASSUME NEW i \in 0..(n - 1) PROVE Leads(new, at2[i], Content(b, i), at2[i + 1])
  <2> DEFINE c == at[i]
             d == at[i + 1]
             slot == Content(b, i)
  <2>1. i \in 0..n /\ i + 1 \in 0..n /\ (i + 1 # n => i + 1 \in 0..(n - 1))
    BY <1>1
  <2>2. c \in Places(lens) /\ d \in Places(lens) /\ Leads(lens, c, slot, d) /\ at2[i] = c
    BY <1>2, <1>4, <2>1
  <2>3. CASE i + 1 # n
    <3>1. at2[i + 1] = d
      BY <1>4, <2>1, <2>3
    <3> HIDE DEF c, d, slot
    <3>2. Leads(new, c, slot, d)
      BY <2>2, LeadsStays
    <3> QED BY <2>2, <3>1, <3>2 DEF slot
  <2>4. CASE i + 1 = n
    <3>1. Between(d) /\ d.msg = Len(lens) /\ at2[i + 1] = w
      BY <1>4, <2>4 DEF n
    <3> HIDE DEF c, d, slot
    <3>2. /\ c.todo = 1 /\ c.left = 0 /\ c.msg \in 1..Len(lens) /\ c.msg = Len(lens)
          /\ slot = Word(c.msg, Words(lens[c.msg]) - Words(c.left) - c.todo + 1)
      BY <2>2, <3>1, LastWordLeads
    <3>3. new[c.msg] = lens[c.msg] /\ new[w.msg] = len /\ w.msg = c.msg + 1 /\ w.left > 0 /\ w.todo = 0
          /\ w.left = len
      BY <3>2, Begun DEF Bytes
    <3> HIDE DEF new
    <3>4. WordLeads(new, c, slot, w)
      BY <3>2, <3>3 DEF WordLeads, After
    <3> QED BY <2>2, <3>1, <3>4 DEF Leads, slot
  <2> QED BY <2>3, <2>4
<1>7. Chain(b, new, at2)
  BY <1>5, <1>6 DEF Chain, n
<1> QED BY <1>4, <1>7 DEF n
------------------------------------------------------------------------------
(* Messages of the host. *)

WordsOf(m, count) == [k \in 1..count |-> Word(m, k)]

LEMMA WordsAre ==
  ASSUME NEW m \in Nat, NEW count \in Nat
  PROVE  /\ WordsOf(m, count) \in Seq(Slots) /\ Len(WordsOf(m, count)) = count
         /\ \A k \in 1..count : WordsOf(m, count)[k] = Word(m, k)
<1>1. \A k \in Nat : Word(m, k) \in Slots
  BY DEF Word, Slots
<1> QED BY <1>1 DEF WordsOf

LEMMA NoWords == \A m : WordsOf(m, 0) = <<>>
BY DEF WordsOf

LEMMA OneMoreWord ==
  ASSUME NEW m \in Nat, NEW count \in Nat
  PROVE  Append(WordsOf(m, count), Word(m, count + 1)) = WordsOf(m, count + 1)
<1> DEFINE s == WordsOf(m, count)
           t == WordsOf(m, count + 1)
           e == Word(m, count + 1)
           a == Append(s, e)
<1>1. count + 1 \in Nat
  OBVIOUS
<1>2. s \in Seq(Slots) /\ Len(s) = count /\ \A k \in 1..count : s[k] = Word(m, k)
  BY WordsAre
<1>3. t \in Seq(Slots) /\ Len(t) = count + 1 /\ \A k \in 1..(count + 1) : t[k] = Word(m, k)
  BY <1>1, WordsAre
<1>4. e \in Slots
  BY DEF Word, Slots
<1> HIDE DEF s, t
<1>5. a \in Seq(Slots) /\ Len(a) = count + 1 /\ a[count + 1] = e
      /\ \A k \in 1..count : a[k] = s[k]
  BY <1>2, <1>4, AppendProperties
<1> HIDE DEF a
<1>6. \A k \in 1..(count + 1) : a[k] = t[k]
  <2> SUFFICES ASSUME NEW k \in 1..(count + 1) PROVE a[k] = t[k]
    OBVIOUS
  <2>1. k \in 1..count \/ k = count + 1
    OBVIOUS
  <2> QED BY <1>2, <1>3, <1>5, <2>1
<1>7. a = t
  BY <1>3, <1>5, <1>6, SeqEqual
<1> QED BY <1>7 DEF a, t, s

SentMessage(i) == [bytes |-> sent[i], words |-> WordsOf(i, Words(sent[i]))]

\* The firmware has put together some of the first m messages, in their order.
Delivered(m) ==
  \E from \in [DOMAIN done -> 1..m] :
    /\ \A j, k \in DOMAIN done : j < k => from[j] < from[k]
    /\ \A j \in DOMAIN done : done[j] = SentMessage(from[j])

\* What a firmware that has come to place c has of the message.
FwHas(c) ==
  IF Between(c) THEN fw.need = 0 /\ fw.bytes = 0 /\ fw.words = <<>>
  ELSE /\ fw.need = c.todo /\ fw.bytes = sent[c.msg] - c.left
       /\ fw.words = WordsOf(c.msg, Words(sent[c.msg]) - Words(c.left) - c.todo)
       /\ c.todo > 0 => fw.last = (c.left = 0)

\* The messages before place c.
Taken(c) == IF Between(c) THEN c.msg ELSE c.msg - 1

\* The place the host has come to; a call that was aborted may have left it anywhere
\* in its message, and nothing is sent before the next reset.
HostAt(w) ==
  /\ w.msg = Len(sent)
  /\ call.op # "send" /\ valid => Between(w)
  /\ call.op = "send" =>
       /\ w.todo = call.todo
       /\ w.left = IF call.at = "body" THEN call.left - PacketLength(call.left) ELSE call.left

\* A firmware that has the first p messages behind it.  One that has reset itself reads
\* nothing until the host has reset as well.
TxStream(p) ==
  hcsr.ready /\ ~mecsr.reset =>
    \E at : /\ Chain(tx, sent, at)
            /\ FwHas(at[0]) /\ Taken(at[0]) = p
            /\ HostAt(at[Fill(tx)])

SendStarts == call.op = "send" /\ call.at # "body" => call.left > 0 /\ call.todo = 0

TxInv(p) == SendStarts /\ p \in 0..Len(sent) /\ Delivered(p) /\ TxStream(p)

LEMMA SentBytes == ASSUME Inv PROVE sent \in Seq(Bytes) /\ Len(sent) \in Nat
<1>1. HostLens \subseteq Bytes
  BY LengthAssumption DEF Bytes
<1>2. sent \in Seq(HostLens)
  BY DEF Inv, TypeOK
<1> QED BY <1>1, <1>2, SeqMonotonic, LenProperties

LEMMA PacketOf ==
  ASSUME NEW left \in Nat, left > 0
  PROVE  LET n == PacketLength(left) IN
         /\ n \in Nat /\ n > 0 /\ n <= left /\ (n = left \/ n % 4 = 0)
         /\ MessageComplete(left) = (left - n = 0)
         /\ left - n \in Nat /\ Words(left - n) + Words(n) = Words(left)
<1> DEFINE n == PacketLength(left)
<1>1. Capacity \in Nat /\ Capacity > 0 /\ Capacity % 4 = 0
  <2>1. Capacity = 4 * (Depth - 1) /\ Depth - 1 \in Nat /\ Depth - 1 > 0
    BY DepthAssumption DEF Capacity
  <2> QED BY <2>1
<1>2. n = IF Capacity <= left THEN Capacity ELSE left
  BY DEF PacketLength, Least
<1>3. MessageComplete(left) = (left <= Capacity)
  BY DEF MessageComplete
<1> HIDE DEF n
<1>4. n \in Nat /\ n > 0 /\ n <= left /\ (n = left \/ n % 4 = 0)
  BY <1>1, <1>2
<1>5. MessageComplete(left) = (left - n = 0)
  BY <1>1, <1>2, <1>3
<1>6. left - n \in Nat /\ Words(left - n) + Words(n) = Words(left)
  BY <1>4, WordsSplit
<1> QED BY <1>4, <1>5, <1>6 DEF n

LEMMA DeliveredSteady ==
  ASSUME NEW m \in Nat, NEW m2 \in Nat, m <= m2, Delivered(m), done' = done,
         \A i \in 1..m : sent'[i] = sent[i]
  PROVE  Delivered(m2)'
<1>1. PICK from \in [DOMAIN done -> 1..m] :
        /\ \A j, k \in DOMAIN done : j < k => from[j] < from[k]
        /\ \A j \in DOMAIN done : done[j] = SentMessage(from[j])
  BY DEF Delivered
<1>2. \A j \in DOMAIN done : SentMessage(from[j])' = SentMessage(from[j])
  BY <1>1 DEF SentMessage
<1>3. from \in [DOMAIN done -> 1..m2]
  BY <1>1
<1> QED BY <1>1, <1>2, <1>3 DEF Delivered

LEMMA DeliveredMore ==
  ASSUME Inv, NEW m \in Nat, m > 0, Delivered(m - 1), sent' = sent,
         NEW message \in Messages, message = SentMessage(m), done' = Append(done, message),
         NEW m2 \in Nat, m <= m2
  PROVE  Delivered(m2)'
<1>1. PICK from \in [DOMAIN done -> 1..(m - 1)] :
        /\ \A j, k \in DOMAIN done : j < k => from[j] < from[k]
        /\ \A j \in DOMAIN done : done[j] = SentMessage(from[j])
  BY DEF Delivered
<1>2. done \in Seq(Messages)
  BY DEF Inv, TypeOK
<1>3. PICK n \in Nat : n = Len(done) /\ DOMAIN done = 1..n
  BY <1>2
<1>4. /\ DOMAIN done' = 1..(n + 1) /\ done'[n + 1] = message
      /\ \A j \in 1..n : done'[j] = done[j]
  <2>1. /\ Append(done, message) \in Seq(Messages) /\ Len(Append(done, message)) = n + 1
        /\ Append(done, message)[n + 1] = message
        /\ \A j \in 1..n : Append(done, message)[j] = done[j]
    BY <1>2, <1>3, AppendProperties
  <2> QED BY <2>1
<1>5. \A j \in 1..n : from[j] \in 1..(m - 1)
  BY <1>1, <1>3
<1>6. PICK from2 \in [1..(n + 1) -> 1..m] :
        from2[n + 1] = m /\ \A j \in 1..n : from2[j] = from[j]
  <2> DEFINE f == [j \in 1..(n + 1) |-> IF j <= n THEN from[j] ELSE m]
  <2>1. f \in [1..(n + 1) -> 1..m] /\ f[n + 1] = m /\ \A j \in 1..n : f[j] = from[j]
    BY <1>5
  <2> HIDE DEF f
  <2> QED BY <2>1
<1>7. \A j \in 1..(n + 1) : j \in 1..n \/ j = n + 1
  OBVIOUS
<1>8. \A j, k \in 1..(n + 1) : j < k => from2[j] < from2[k]
  <2> SUFFICES ASSUME NEW j \in 1..(n + 1), NEW k \in 1..(n + 1), j < k
               PROVE  from2[j] < from2[k]
    OBVIOUS
  <2>1. j \in 1..n
    OBVIOUS
  <2>2. CASE k = n + 1
    BY <1>5, <1>6, <2>1, <2>2
  <2>3. CASE k \in 1..n
    BY <1>1, <1>3, <1>6, <2>1, <2>3
  <2> QED BY <1>7, <2>2, <2>3
<1>9. \A j \in 1..(n + 1) : done'[j] = SentMessage(from2[j])'
  <2> SUFFICES ASSUME NEW j \in 1..(n + 1) PROVE done'[j] = SentMessage(from2[j])'
    OBVIOUS
  <2>1. SentMessage(from2[j])' = SentMessage(from2[j])
    BY DEF SentMessage
  <2>2. CASE j = n + 1
    BY <1>4, <1>6, <2>1, <2>2
  <2>3. CASE j \in 1..n
    <3>1. done'[j] = SentMessage(from[j]) /\ from2[j] = from[j]
      BY <1>1, <1>3, <1>4, <1>6, <2>3
    <3> QED BY <2>1, <3>1
  <2> QED BY <1>7, <2>2, <2>3
<1>10. /\ from2 \in [DOMAIN done' -> 1..m2]
       /\ \A j, k \in DOMAIN done' : j < k => from2[j] < from2[k]
       /\ \A j \in DOMAIN done' : done'[j] = SentMessage(from2[j])'
  <2>1. from2 \in [1..(n + 1) -> 1..m2]
    BY <1>6
  <2>2. from2 \in [DOMAIN done' -> 1..m2]
    BY <1>4, <2>1
  <2>3. \A j, k \in DOMAIN done' : j < k => from2[j] < from2[k]
    BY <1>4, <1>8
  <2>4. \A j \in DOMAIN done' : done'[j] = SentMessage(from2[j])'
    BY <1>4, <1>9
  <2> QED BY <2>2, <2>3, <2>4
<1> QED BY <1>10, Zenon DEF Delivered

\* A step that leaves the host's buffer and what the firmware has of it.
LEMMA TxSteady ==
  ASSUME Inv, NEW p \in Nat, TxInv(p), tx' = tx, sent' = sent, done' = done,
         mecsr'.reset = mecsr.reset, hcsr'.ready => hcsr.ready,
         fw'.need = fw.need, fw'.bytes = fw.bytes, fw'.words = fw.words, fw'.last = fw.last,
         SendStarts',
         \A w : HostAt(w) => HostAt(w)'
  PROVE  TxInv(p)'
<1>1. Delivered(p)'
  BY DeliveredSteady DEF TxInv
<1>2. ASSUME hcsr'.ready, ~mecsr'.reset PROVE TxStream(p)'
  <2>1. PICK at : /\ Chain(tx, sent, at) /\ FwHas(at[0]) /\ Taken(at[0]) = p
                  /\ HostAt(at[Fill(tx)])
    BY <1>2 DEF TxInv, TxStream
  <2>2. FwHas(at[0])'
    BY <2>1 DEF FwHas
  <2>3. HostAt(at[Fill(tx)])'
    BY <2>1
  <2> QED BY <2>1, <2>2, <2>3 DEF TxStream, Fill
<1> QED BY <1>1, <1>2 DEF TxInv, TxStream

\* The firmware's side and the buffer stay as they are.
LEMMA TxOfHost ==
  ASSUME Inv, NEW p \in Nat, TxInv(p), UNCHANGED <<tx, sent, mecsr, fwVars>>,
         hcsr'.ready = hcsr.ready, SendStarts',
         \A w : HostAt(w) => HostAt(w)'
  PROVE  TxInv(p)'
<1>1. fw' = fw /\ done' = done /\ mecsr' = mecsr
  BY DEF fwVars
<1>2. /\ fw'.need = fw.need /\ fw'.bytes = fw.bytes /\ fw'.words = fw.words
      /\ fw'.last = fw.last /\ mecsr'.reset = mecsr.reset
  BY <1>1
<1> QED BY <1>1, <1>2, TxSteady

\* No send goes on, and one that was given up leaves a link that is not valid.
LEMMA TxOfOthers ==
  ASSUME Inv, NEW p \in Nat, TxInv(p), UNCHANGED <<tx, sent, mecsr, fwVars>>,
         hcsr'.ready = hcsr.ready, call'.op # "send", call.op # "send" \/ ~valid', valid' => valid
  PROVE  TxInv(p)'
<1>1. SendStarts'
  BY DEF SendStarts
<1>2. \A w : HostAt(w) => HostAt(w)'
  BY DEF HostAt
<1> QED BY <1>1, <1>2, TxOfHost

LEMMA AbortedLeavesIdle ==
  ASSUME NEW result, Ends(result), result.status # "SUCCESS"
  PROVE  call' = Idle /\ call'.op # "send" /\ ~valid'
BY DEF Ends, Idle

LEMMA AbortedIs == Aborted => call' = Idle /\ call'.op # "send" /\ ~valid'
<1> SUFFICES ASSUME Aborted PROVE call' = Idle /\ call'.op # "send" /\ ~valid'
  OBVIOUS
<1> DEFINE result == [op |-> call.op, status |-> "ABORTED"]
<1>1. Ends(result) /\ result.status # "SUCCESS"
  BY DEF Aborted
<1> HIDE DEF result
<1> QED BY <1>1, AbortedLeavesIdle

LEMMA TxOfAborts ==
  ASSUME Inv, NEW p \in Nat, TxInv(p),
         FwNotReady \/ NoRoom \/ NoHeader \/ PacketLate \/ ResetTimesOut
  PROVE  TxInv(p)'
<1>1. UNCHANGED <<tx, sent, hcsr, mecsr, fwVars>>
  BY DEF FwNotReady, NoRoom, NoHeader, PacketLate, ResetTimesOut
<1>2. call'.op # "send" /\ ~valid'
  <2>1. CASE ResetTimesOut
    <3> DEFINE result == [op |-> "reset", status |-> "TIMEOUT"]
    <3>1. Ends(result) /\ result.status # "SUCCESS"
      BY <2>1 DEF ResetTimesOut
    <3> HIDE DEF result
    <3> QED BY <3>1, AbortedLeavesIdle
  <2>2. CASE FwNotReady \/ NoRoom \/ NoHeader \/ PacketLate
    BY <2>2, AbortedIs DEF FwNotReady, NoRoom, NoHeader, PacketLate
  <2> QED BY <2>1, <2>2
<1> QED BY <1>1, <1>2, TxOfOthers

LEMMA TxOfReceives ==
  ASSUME Inv, NEW p \in Nat, TxInv(p),
         \/ ReceiveReady \/ HeaderThere \/ ReadHeader \/ PacketThere \/ StallEnds \/ ReadWord
         \/ PacketRead \/ ResetStarted
  PROVE  TxInv(p)'
<1>1. UNCHANGED <<tx, sent, hcsr, mecsr, fwVars>> /\ call.op \in {"receive", "reset"}
  BY DEF ReceiveReady, HeaderThere, ReadHeader, PacketThere, StallEnds, ReadWord, PacketRead,
     ResetStarted, At
<1>2. CASE call' # Idle
  <2>1. call'.op = call.op /\ valid' = valid
    BY <1>2, SameCall
  <2> QED BY <1>1, <2>1, TxOfOthers
<1>3. CASE call' = Idle
  <2>1. ReadHeader \/ PacketRead
    <3>1. CASE ReceiveReady \/ HeaderThere \/ PacketThere \/ StallEnds \/ ReadWord \/ ResetStarted
      <4>1. call'.op = call.op
        BY <3>1, SameCall
      <4> QED BY <1>1, <1>3, <4>1 DEF Idle
    <3> QED BY <3>1
  <2>2. valid' => valid
    <3>1. CASE ReadHeader
      BY <1>1, <3>1, Zenon DEF ReadHeader, Aborted, Ends, At
    <3>2. CASE PacketRead
      BY <1>1, <3>2, Zenon DEF PacketRead, Aborted, Ends, At
    <3> QED BY <2>1, <3>1, <3>2
  <2>3. call'.op # "send"
    BY <1>3 DEF Idle
  <2> QED BY <1>1, <2>2, <2>3, TxOfOthers
<1> QED BY <1>2, <1>3

LEMMA TxOfSendReady == ASSUME Inv, NEW p \in Nat, TxInv(p), SendReady PROVE TxInv(p)'
<1>1. call \in Sending /\ call.at = "ready" /\ call.op = "send"
  BY CallKinds DEF SendReady, At, Inv
<1>2. UNCHANGED <<tx, sent, hcsr, mecsr, fwVars, valid>> /\ call' = [call EXCEPT !.at = "room"]
  BY DEF SendReady, Continues
<1>3. call'.op = "send" /\ call'.at = "room" /\ call'.left = call.left /\ call'.todo = call.todo
  BY <1>1, <1>2 DEF Sending
<1>4. SendStarts'
  BY <1>1, <1>3 DEF TxInv, SendStarts
<1>5. \A w : HostAt(w) => HostAt(w)'
  BY <1>1, <1>2, <1>3 DEF HostAt
<1> QED BY <1>2, <1>4, <1>5, TxOfHost

LEMMA TxOfPackets == ASSUME Inv, NEW p \in Nat, TxInv(p), PacketWritten PROVE TxInv(p)'
<1> DEFINE left == call.left - PacketLength(call.left)
<1>1. call \in Sending /\ call.left \in Nat /\ call.at = "body" /\ call.op = "send" /\ call.todo = 0
  BY CallKinds DEF PacketWritten, At, Inv, Sending
<1>2. UNCHANGED <<tx, sent, hcsr, mecsr, fwVars>>
  BY DEF PacketWritten
<1>3. left \in Nat
  BY <1>1, PacketLengthBounds
<1>4. CASE Aborted
  BY <1>2, <1>4, AbortedIs, TxOfOthers
<1>5. CASE left = 0 /\ Ends([op |-> "send", status |-> "SUCCESS"])
  <2>1. call' = Idle /\ call'.op # "send"
    BY <1>5 DEF Ends, Idle
  <2>2. \A w : HostAt(w) => HostAt(w)'
    BY <1>1, <1>2, <1>5, <2>1 DEF HostAt, Between
  <2>3. SendStarts'
    BY <2>1 DEF SendStarts
  <2> QED BY <1>2, <2>2, <2>3, TxOfHost
<1>6. CASE left # 0 /\ call' = [call EXCEPT !.at = "room", !.left = left] /\ UNCHANGED <<ret, valid>>
  <2> HIDE DEF left
  <2>1. call'.op = "send" /\ call'.at = "room" /\ call'.left = left /\ call'.todo = 0
    BY <1>1, <1>6 DEF Sending
  <2>2. SendStarts'
    BY <1>3, <1>6, <2>1 DEF SendStarts
  <2>3. \A w : HostAt(w) => HostAt(w)'
    <3>1. call.op = "send" /\ call.at = "body" /\ call.todo = 0 /\ sent' = sent
      BY <1>1, <1>2
    <3>2. left = call.left - PacketLength(call.left)
      BY DEF left
    <3> QED BY <2>1, <3>1, <3>2 DEF HostAt
  <2> QED BY <1>2, <2>2, <2>3, TxOfHost
<1> QED BY <1>4, <1>5, <1>6, Zenon DEF PacketWritten

\* The firmware resets itself, gets ready, or puts out packets.
LEMMA TxOfPuts ==
  ASSUME Inv, NEW p \in Nat, TxInv(p),
         \/ FwReady \/ FwWord
         \/ \E len \in FwLens : FwBegins(len)
         \/ \E n \in 1..Least(4 * Depth, 511) : FwHeader(n)
  PROVE  TxInv(p)'
<1>1. UNCHANGED <<tx, hcsr, sent, call, valid, done>>
  BY DEF FwReady, FwWord, FwBegins, FwHeader, fwVars
<1>2. mecsr'.reset = mecsr.reset
  <2>1. CASE FwReady
    BY <2>1 DEF FwReady, Inv, TypeOK, Csrs
  <2> QED BY <2>1 DEF FwWord, FwBegins, FwHeader
<1>3. /\ fw'.need = fw.need /\ fw'.bytes = fw.bytes /\ fw'.words = fw.words
      /\ fw'.last = fw.last
  <2>1. fw \in FwStates
    BY DEF Inv, TypeOK
  <2>2. CASE FwReady
    BY <2>2 DEF FwReady, fwVars
  <2>3. CASE FwWord
    <3>1. PICK out, todo : fw' = [fw EXCEPT !.todo = todo, !.out = out]
      BY <2>3, Zenon DEF FwWord
    <3> QED BY <2>1, <3>1 DEF FwStates
  <2>4. CASE \E len \in FwLens : FwBegins(len)
    <3>1. PICK out, left : fw' = [fw EXCEPT !.out = out, !.left = left]
      BY <2>4, Zenon DEF FwBegins
    <3> QED BY <2>1, <3>1 DEF FwStates
  <2>5. CASE \E n \in 1..Least(4 * Depth, 511) : FwHeader(n)
    <3>1. PICK left, todo : fw' = [fw EXCEPT !.left = left, !.todo = todo]
      BY <2>5, Zenon DEF FwHeader
    <3> QED BY <2>1, <3>1 DEF FwStates
  <2> QED BY <2>2, <2>3, <2>4, <2>5
<1>4. SendStarts'
  BY <1>1 DEF TxInv, SendStarts
<1>5. \A w : HostAt(w) => HostAt(w)'
  BY <1>1 DEF HostAt
<1> QED BY <1>1, <1>2, <1>3, <1>4, <1>5, TxSteady

\* A firmware that waits for the next message has it at its begin.
LEMMA TxOfSends ==
  ASSUME Inv, NEW p \in Nat, TxInv(p), NEW len \in HostLens, HeciSend(len)
  PROVE TxInv(p)'
<1>1. len \in Bytes /\ len \in Nat /\ len > 0 /\ sent \in Seq(Bytes) /\ tx \in Buffers
  BY SentBytes, LengthAssumption DEF Bytes, Inv, TypeOK
<1>2. PICK n \in Nat : n = Len(sent)
  BY <1>1
<1>3. PICK w : w = [msg |-> n + 1, left |-> len, todo |-> 0]
  OBVIOUS
<1>4. PICK new \in Seq(Bytes) : new = Append(sent, len)
  BY <1>1, Begun
<1>5. /\ Len(new) = n + 1 /\ new[n + 1] = len /\ n + 1 \in Nat
      /\ \A m \in 1..n : new[m] = sent[m]
  BY <1>1, <1>2, <1>4, Begun
<1>6. /\ call = Idle /\ valid /\ sent' = new
      /\ call' = [op |-> "send", at |-> "ready", left |-> len, todo |-> 0]
      /\ UNCHANGED <<tx, hcsr, mecsr, valid, fw, done>>
  BY <1>4 DEF HeciSend, MayCall, fwVars
<1>7. p \in 0..n /\ Delivered(p)
  BY <1>2 DEF TxInv
<1>8. Delivered(p)'
  <2>1. \A i \in 1..p : sent'[i] = sent[i]
    BY <1>5, <1>6, <1>7
  <2> QED BY <1>6, <1>7, <2>1, DeliveredSteady
<1>9. SendStarts'
  BY <1>1, <1>6 DEF SendStarts
<1>10. ASSUME hcsr.ready, ~mecsr.reset PROVE TxStream(p)'
  <2>1. PICK at : /\ Chain(tx, sent, at) /\ FwHas(at[0]) /\ Taken(at[0]) = p
                  /\ HostAt(at[Fill(tx)])
    BY <1>10 DEF TxInv, TxStream
  <2>2. Between(at[Fill(tx)]) /\ at[Fill(tx)].msg = n
    BY <1>2, <1>6, <2>1 DEF HostAt, Idle
  <2>3. PICK at2 : /\ Chain(tx, new, at2) /\ at2[Fill(tx)] = w
                   /\ at2[0] = IF Fill(tx) = 0 THEN w ELSE at[0]
    BY <1>1, <1>2, <1>3, <1>4, <2>1, <2>2, ChainBegun
  <2>4. HostAt(at2[Fill(tx)])'
    <3>1. HostAt(w)'
      BY <1>3, <1>5, <1>6 DEF HostAt
    <3> QED BY <1>6, <2>3, <3>1
  <2>5. CASE Fill(tx) = 0
    <3>1. fw.need = 0 /\ fw.bytes = 0 /\ fw.words = <<>> /\ p = n
      BY <2>1, <2>2, <2>5 DEF FwHas, Taken
    <3>2. Words(len) \in Nat
      BY <1>1, WordsIsNat
    <3>3. FwHas(w)' /\ Taken(w) = n
      <4>1. w.msg = n + 1 /\ w.left = len /\ w.todo = 0 /\ ~Between(w)
        BY <1>1, <1>3 DEF Between
      <4>2. sent'[w.msg] = len
        BY <1>5, <1>6, <4>1
      <4>3. sent'[w.msg] - w.left = 0 /\ Words(sent'[w.msg]) - Words(w.left) - w.todo = 0
        BY <1>1, <3>2, <4>1, <4>2
      <4>4. WordsOf(w.msg, Words(sent'[w.msg]) - Words(w.left) - w.todo) = <<>>
        BY <4>3, NoWords
      <4> QED BY <1>2, <1>6, <3>1, <4>1, <4>3, <4>4 DEF FwHas, Taken
    <3>4. at2[0] = w
      BY <2>3, <2>5
    <3> QED BY <1>6, <2>3, <2>4, <3>1, <3>3, <3>4 DEF TxStream, Fill
  <2>6. CASE Fill(tx) # 0
    <3>1. PICK c \in Places(sent) : c = at[0]
      BY <1>1, <2>1, ChainEnds
    <3>2. c.msg \in 0..n /\ (c.left > 0 \/ c.todo > 0 => c.msg \in 1..n)
      BY <1>1, <1>2, <3>1, PlaceParts
    <3>3. c.left \in Nat /\ c.todo \in Nat
      BY <1>1, PlaceParts
    <3>4. ~Between(c) => sent'[c.msg] = sent[c.msg]
      BY <1>5, <1>6, <3>2, <3>3 DEF Between
    <3>5. FwHas(c)'
      BY <1>6, <2>1, <3>1, <3>4 DEF FwHas
    <3>6. at2[0] = c
      BY <2>3, <2>6, <3>1
    <3> QED BY <1>6, <2>1, <2>3, <2>4, <3>1, <3>5, <3>6 DEF TxStream, Fill
  <2> QED BY <2>5, <2>6
<1>11. p \in 0..(n + 1) /\ Len(sent') = n + 1
  BY <1>2, <1>5, <1>6, <1>7
<1> QED BY <1>6, <1>8, <1>9, <1>10, <1>11 DEF TxInv, TxStream

\* The host writes a slot and has come to place d.
LEMMA TxWritten ==
  ASSUME Inv, NEW p \in Nat, TxInv(p), NEW slot \in Slots, Fill(tx) < Depth,
         tx' = Push(tx, slot), UNCHANGED <<sent, hcsr, mecsr, fw, done>>, SendStarts',
         NEW d \in Places(sent), HostAt(d)',
         \A w \in Places(sent) : HostAt(w) => Leads(sent, w, slot, d)
  PROVE  TxInv(p)'
<1>1. Delivered(p)'
  BY DeliveredSteady DEF TxInv
<1>2. ASSUME hcsr.ready, ~mecsr.reset PROVE TxStream(p)'
  <2>1. PICK at : /\ Chain(tx, sent, at) /\ FwHas(at[0]) /\ Taken(at[0]) = p
                  /\ HostAt(at[Fill(tx)])
    BY <1>2 DEF TxInv, TxStream
  <2>2. tx \in Buffers
    BY DEF Inv, TypeOK
  <2>3. at[Fill(tx)] \in Places(sent)
    BY <2>1, <2>2, ChainEnds
  <2>4. Leads(sent, at[Fill(tx)], slot, d)
    BY <2>1, <2>3
  <2>5. PICK at2 : /\ Chain(Push(tx, slot), sent, at2)
                   /\ at2[0] = at[0] /\ at2[Fill(Push(tx, slot))] = d
    BY <2>1, <2>2, <2>4, ChainWritten
  <2>6. FwHas(at[0])'
    BY <2>1 DEF FwHas
  <2> QED BY <2>1, <2>5, <2>6 DEF TxStream, Fill
<1> QED BY <1>1, <1>2 DEF TxInv, TxStream

LEMMA TxOfHeaders == ASSUME Inv, NEW p \in Nat, TxInv(p), WriteHeader PROVE TxInv(p)'
<1>1. PICK left \in Nat : left = call.left
  BY CallKinds DEF WriteHeader, At, Inv, Sending
<1>2. /\ call \in Sending /\ call.op = "send" /\ call.at = "room"
      /\ left > 0 /\ call.todo = 0 /\ sent # <<>> /\ left <= sent[Len(sent)]
  BY <1>1, CallKinds DEF WriteHeader, At, Inv, SendPlace, TxInv, SendStarts
<1>3. PICK n : n = PacketLength(left)
  OBVIOUS
<1>4. PICK m : m = Len(sent)
  OBVIOUS
<1>5. m \in 1..Len(sent) /\ sent[m] \in Nat /\ sent \in Seq(Bytes) /\ m \in Nat
  <2>1. sent \in Seq(Bytes)
    BY SentBytes
  <2> QED BY <1>2, <1>4, <2>1 DEF Bytes
<1>6. /\ n \in Nat /\ n > 0 /\ n <= left /\ (n = left \/ n % 4 = 0)
      /\ MessageComplete(left) = (left - n = 0)
      /\ left - n \in Nat /\ Words(left - n) + Words(n) = Words(left)
  BY <1>2, <1>3, PacketOf
<1>7. PICK d : d = [msg |-> m, left |-> left - n, todo |-> Words(n)]
  OBVIOUS
<1>8. d \in Places(sent) /\ Words(n) \in Nat
  <2>1. PICK length \in Nat : length = sent[m] /\ left <= length
    BY <1>2, <1>4, <1>5
  <2>2. n \in Nat /\ n <= left /\ left - n \in Nat /\ Words(left - n) + Words(n) = Words(left)
    BY <1>6
  <2>3. Words(n) \in Nat /\ Words(left) <= Words(length) /\ left - n <= length
    BY <2>1, <2>2, WordsIsNat, WordsMonotone
  <2>4. m \in 0..Len(sent) /\ m > 0
    BY <1>5
  <2> QED BY <1>5, <1>7, <2>1, <2>2, <2>3, <2>4, PlaceIs
<1>9. PICK slot \in Slots : slot = Header(m, n, left - n = 0)
  BY <1>5, <1>6 DEF Header, Slots
<1>10. tx' = Push(tx, slot) /\ UNCHANGED <<sent, hcsr, mecsr, fw, done, valid>>
       /\ call' = [call EXCEPT !.at = "body", !.todo = Words(n)] /\ HasRoom(Words(n))
  BY <1>1, <1>3, <1>4, <1>6, <1>9 DEF WriteHeader, fwVars
<1>11. Fill(tx) < Depth
  <2>1. tx \in Buffers /\ Fill(tx) <= Depth
    BY DEF Inv, TypeOK, HostNeverOverflows
  <2>2. Words(n) + 1 <= Depth - Fill(tx)
    BY <1>8, <1>10, <2>1, RoomMeansFits
  <2> QED BY <1>8, <2>1, <2>2, FillIsCount, DepthAssumption
<1>12. call'.op = "send" /\ call'.at = "body" /\ call'.left = left /\ call'.todo = Words(n)
  BY <1>1, <1>2, <1>10 DEF Sending
<1>13. SendStarts'
  BY <1>12 DEF SendStarts
<1>14. HostAt(d)'
  BY <1>3, <1>4, <1>7, <1>10, <1>12 DEF HostAt
<1>15. \A w \in Places(sent) : HostAt(w) => Leads(sent, w, slot, d)
  <2> SUFFICES ASSUME NEW w \in Places(sent), HostAt(w) PROVE Leads(sent, w, slot, d)
    OBVIOUS
  <2>1. w.msg = m /\ w.todo = 0 /\ w.left = left
    BY <1>1, <1>2, <1>4 DEF HostAt
  <2>2. d.msg = m /\ d.left = left - n /\ d.todo = Words(n) /\ left - d.left = n
    BY <1>6, <1>7
  <2>3. d.left < left /\ (d.left = 0 \/ n % 4 = 0) /\ slot = Header(m, n, d.left = 0)
    BY <1>6, <1>9, <2>2
  <2> QED BY <2>1, <2>2, <2>3 DEF Leads, HeaderLeads
<1> QED BY <1>8, <1>9, <1>10, <1>11, <1>13, <1>14, <1>15, TxWritten

LEMMA TxOfWords == ASSUME Inv, NEW p \in Nat, TxInv(p), WriteWord PROVE TxInv(p)'
<1>1. PICK left \in Nat : left = call.left
  BY CallKinds DEF WriteWord, At, Inv, Sending
<1>2. PICK todo \in Nat : todo = call.todo
  BY CallKinds DEF WriteWord, At, Inv, Sending
<1>3. PICK n : n = PacketLength(left)
  OBVIOUS
<1>4. PICK m : m = Len(sent)
  OBVIOUS
<1>5. /\ call \in Sending /\ call.op = "send" /\ call.at = "body" /\ todo > 0
      /\ sent # <<>> /\ left <= sent[m] /\ todo <= Words(n) /\ todo <= Depth - Fill(tx)
  BY <1>1, <1>2, <1>3, <1>4, CallKinds DEF WriteWord, At, Inv, SendPlace
<1>6. m \in 1..Len(sent) /\ sent[m] \in Nat /\ sent \in Seq(Bytes) /\ m \in Nat
  <2>1. sent \in Seq(Bytes)
    BY SentBytes
  <2> QED BY <1>4, <1>5, <2>1 DEF Bytes
<1>7. left > 0
  <2> SUFFICES ASSUME left = 0 PROVE FALSE
    OBVIOUS
  <2>1. n = 0
    BY <1>3, PacketLengthBounds
  <2> QED BY <1>5, <2>1 DEF Words
<1>8. /\ n \in Nat /\ n <= left /\ left - n \in Nat /\ Words(left - n) + Words(n) = Words(left)
  BY <1>3, <1>7, PacketOf
<1>9. /\ Words(n) \in Nat /\ Words(left) \in Nat /\ Words(left - n) \in Nat
      /\ Words(sent[m]) \in Nat /\ Words(left) <= Words(sent[m])
  BY <1>5, <1>6, <1>8, WordsIsNat, WordsMonotone
<1>10. PICK k \in Nat : k = Words(sent[m]) - Words(left - n) - todo + 1 /\ k = NextWord
  <2>1. Words(sent[m]) - Words(left - n) - todo + 1 \in Nat
    BY <1>5, <1>8, <1>9
  <2>2. NextWord = Words(sent[m]) - Words(left - n) - todo + 1
    <3>1. NextWord = Words(sent[m]) - Words(left) + Words(n) - todo + 1
      BY <1>1, <1>2, <1>3, <1>4 DEF NextWord
    <3> QED BY <1>8, <1>9, <3>1
  <2> QED BY <2>1, <2>2
<1>11. PICK d : d = [msg |-> m, left |-> left - n, todo |-> todo - 1]
  OBVIOUS
<1>12. d \in Places(sent)
  <2>1. m \in 0..Len(sent) /\ m > 0 /\ left - n <= sent[m] /\ todo - 1 \in Nat
    BY <1>5, <1>6, <1>8
  <2>2. Words(left - n) + (todo - 1) <= Words(sent[m])
    BY <1>5, <1>8, <1>9
  <2> QED BY <1>6, <1>8, <1>11, <2>1, <2>2, PlaceIs
<1>13. PICK slot \in Slots : slot = Word(m, k)
  BY <1>6 DEF Word, Slots
<1>14. tx' = Push(tx, slot) /\ UNCHANGED <<sent, hcsr, mecsr, fw, done, valid>>
       /\ call' = [call EXCEPT !.todo = todo - 1]
  BY <1>2, <1>4, <1>10, <1>13 DEF WriteWord, fwVars
<1>15. Fill(tx) < Depth
  <2>1. tx \in Buffers
    BY DEF Inv, TypeOK
  <2> QED BY <1>5, <2>1, FillIsCount, DepthAssumption
<1>16. call'.op = "send" /\ call'.at = "body" /\ call'.left = left /\ call'.todo = todo - 1
  BY <1>1, <1>5, <1>14 DEF Sending
<1>17. SendStarts'
  BY <1>16 DEF SendStarts
<1>18. HostAt(d)'
  BY <1>3, <1>4, <1>11, <1>14, <1>16 DEF HostAt
<1>19. \A w \in Places(sent) : HostAt(w) => Leads(sent, w, slot, d)
  <2> SUFFICES ASSUME NEW w \in Places(sent), HostAt(w) PROVE Leads(sent, w, slot, d)
    OBVIOUS
  <2>1. w.msg = m /\ w.todo = todo /\ w.left = left - n
    BY <1>1, <1>2, <1>3, <1>4, <1>5 DEF HostAt
  <2>2. d.msg = m /\ d.left = left - n /\ d.todo = todo - 1
    BY <1>11
  <2>3. slot = Word(w.msg, Words(sent[w.msg]) - Words(w.left) - w.todo + 1)
    BY <1>10, <1>13, <2>1
  <2> QED BY <1>5, <2>1, <2>2, <2>3 DEF Leads, WordLeads, After
<1> QED BY <1>12, <1>13, <1>14, <1>15, <1>17, <1>18, <1>19, TxWritten

\* The host's reset and the firmware's stop what is under way.
LEMMA TxOfResets ==
  ASSUME Inv, ResetPlace, NEW p \in Nat, TxInv(p), FwTakesReset \/ FwResets
  PROVE  TxInv(p)'
<1>1. UNCHANGED <<sent, done, call>>
  BY DEF FwTakesReset, FwResets
<1>2. ~hcsr'.ready \/ mecsr'.reset
  BY DEF FwTakesReset, FwResets, Inv, TypeOK, Csrs
<1>3. Delivered(p)'
  BY <1>1, DeliveredSteady DEF TxInv
<1> QED BY <1>1, <1>2, <1>3 DEF TxInv, TxStream, SendStarts

\* Nothing is under way when the reset is over: both sides are after the last message.
LEMMA TxAfresh ==
  ASSUME Inv, ResetPlace, NEW p \in Nat, TxInv(p), ResetFinished,
         NEW n \in Nat, n = Len(sent)
  PROVE  TxInv(n)'
<1>1. Nothing /\ UNCHANGED <<tx, sent, fw, done>>
  BY DEF ResetFinished, ResetPlace, fwVars
<1>2. call'.op # "send"
  BY DEF ResetFinished, Ends, Idle
<1>3. tx \in Buffers /\ Fill(tx) = 0
  BY <1>1 DEF Nothing, Inv, TypeOK
<1>4. fw'.need = 0 /\ fw'.bytes = 0 /\ fw'.words = <<>>
  BY <1>1 DEF Nothing
<1>5. Delivered(n)'
  BY <1>1, DeliveredSteady DEF TxInv
<1>6. PICK d : d = [msg |-> n, left |-> 0, todo |-> 0]
  OBVIOUS
<1>7. d \in Places(sent) /\ Between(d) /\ Taken(d) = n /\ d.msg = n
  <2>1. n \in 0..Len(sent)
    OBVIOUS
  <2> QED BY <1>6, <2>1, PlaceIs, SentBytes DEF Between, Taken
<1>8. FwHas(d)' /\ HostAt(d)'
  BY <1>1, <1>2, <1>4, <1>7 DEF FwHas, HostAt
<1>9. PICK at : Chain(tx, sent, at) /\ at[0] = d
  BY <1>3, <1>7, ChainOfNothing, SentBytes
<1>10. TxStream(n)'
  BY <1>1, <1>3, <1>7, <1>8, <1>9 DEF TxStream, Fill
<1>11. SendStarts'
  BY <1>2 DEF SendStarts
<1> QED BY <1>1, <1>5, <1>10, <1>11 DEF TxInv

LEMMA TxOfStutter == ASSUME Inv, NEW p \in Nat, TxInv(p), UNCHANGED vars PROVE TxInv(p)'
<1>1. UNCHANGED <<tx, hcsr, sent, mecsr, fwVars>> /\ UNCHANGED <<sent, call, valid>>
  BY DEF vars, fwVars
<1>2. SendStarts'
  BY <1>1 DEF TxInv, SendStarts
<1>3. \A w : HostAt(w) => HostAt(w)'
  BY <1>1 DEF HostAt
<1> QED BY <1>1, <1>2, <1>3, TxOfHost

\* The firmware reads a slot; what it has of a message is what comes before its place.
LEMMA TxOfReads ==
  ASSUME Inv, NEW p \in Nat, TxInv(p), FwReads
  PROVE  \/ done' = done /\ TxInv(p)'
         \/ /\ p + 1 \in DOMAIN sent /\ SentMessage(p + 1) \in Messages
            /\ done' = Append(done, SentMessage(p + 1)) /\ TxInv(p + 1)'
<1>1. /\ hcsr.ready /\ ~mecsr.reset /\ Fill(tx) > 0 /\ Fill(tx) <= Depth /\ tx' = Pop(tx)
      /\ tx \in Buffers /\ fw \in FwStates
      /\ UNCHANGED <<call, valid, hcsr, mecsr, sent>>
  BY DEF FwReads, LinkUp, MeReady, Inv, TypeOK, HostNeverOverflows
<1>2. PICK at : /\ Chain(tx, sent, at) /\ FwHas(at[0]) /\ Taken(at[0]) = p
                /\ HostAt(at[Fill(tx)])
  BY <1>1 DEF TxInv, TxStream
<1>3. PICK c \in Places(sent) : c = at[0]
  BY <1>1, <1>2, ChainEnds
<1>4. PICK slot : slot = Front(tx)
  OBVIOUS
<1>5. PICK d \in Places(sent) : d = at[1] /\ Leads(sent, c, slot, d)
  BY <1>1, <1>2, <1>3, <1>4, ChainRead
<1>6. ASSUME NEW q \in Nat, FwHas(d)', Taken(d) = q, q <= Len(sent), Delivered(q)' PROVE TxInv(q)'
  <2>1. PICK at2 : /\ Chain(Pop(tx), sent, at2)
                   /\ at2[0] = d /\ at2[Fill(Pop(tx))] = at[Fill(tx)]
    <3>1. \E at2 : /\ Chain(Pop(tx), sent, at2)
                   /\ at2[0] = at[1] /\ at2[Fill(Pop(tx))] = at[Fill(tx)]
      BY <1>1, <1>2, ChainRead
    <3> QED BY <1>5, <3>1
  <2>2. HostAt(at2[Fill(tx)])'
    <3>1. PICK w : w = at[Fill(tx)] /\ HostAt(w)
      BY <1>2, Zenon
    <3>2. HostAt(w)'
      BY <1>1, <3>1 DEF HostAt
    <3>3. at2[Fill(tx')] = w
      BY <1>1, <2>1, <3>1
    <3> QED BY <3>2, <3>3 DEF Fill
  <2>3. TxStream(q)'
    BY <1>1, <1>6, <2>1, <2>2 DEF TxStream, Fill
  <2>4. SendStarts'
    BY <1>1 DEF TxInv, SendStarts
  <2>5. q \in 0..Len(sent)
    BY <1>6, SentBytes
  <2> QED BY <1>1, <1>6, <2>3, <2>4, <2>5 DEF TxInv
<1>7. sent \in Seq(Bytes) /\ c.left \in Nat /\ c.todo \in Nat /\ c.msg \in Nat
      /\ d.left \in Nat /\ d.todo \in Nat /\ d.msg \in Nat
  BY SentBytes, PlaceParts
<1>8. ~Between(c)
  BY <1>5, <1>7 DEF Between, Leads, HeaderLeads, WordLeads
<1>9. PICK length \in Nat : /\ length = sent[c.msg] /\ c.left <= length
                            /\ Words(c.left) + c.todo <= Words(length)
  <2>1. sent[c.msg] \in Nat /\ c.left <= sent[c.msg] /\ Words(c.left) + c.todo <= Words(sent[c.msg])
    BY <1>7, <1>8, PlaceParts DEF Between, Bytes
  <2> QED BY <2>1
<1>10. c.msg \in 1..Len(sent)
  BY <1>7, <1>8, PlaceParts DEF Between
<1>11. /\ fw.need = c.todo /\ fw.bytes = length - c.left
       /\ fw.words = WordsOf(c.msg, Words(length) - Words(c.left) - c.todo)
       /\ c.todo > 0 => fw.last = (c.left = 0)
  BY <1>2, <1>3, <1>8, <1>9 DEF FwHas
<1>12. Words(length) \in Nat /\ Words(c.left) \in Nat
  BY <1>7, WordsIsNat
<1>13. ASSUME done' = done, FwHas(d)', Taken(d) = Taken(c) PROVE TxInv(p)'
  <2>1. Taken(d) = p /\ p <= Len(sent) /\ Delivered(p)'
    BY <1>1, <1>2, <1>3, <1>13, DeliveredSteady DEF TxInv
  <2> QED BY <1>6, <1>13, <2>1
<1>14. CASE fw.need = 0
  <2>1. HeaderLeads(c, slot, d)
    BY <1>5, <1>7, <1>11, <1>14 DEF Leads, WordLeads
  <2>2. PICK n \in Nat : n = c.left - d.left
    BY <1>7, <2>1 DEF HeaderLeads
  <2>3. /\ c.todo = 0 /\ d.msg = c.msg /\ d.left < c.left /\ d.todo = Words(n)
        /\ d.left = 0 \/ n % 4 = 0
        /\ slot = Header(c.msg, n, d.left = 0)
    BY <2>1, <2>2 DEF HeaderLeads
  <2>4. n <= c.left /\ (n = c.left \/ n % 4 = 0) /\ c.left - n = d.left /\ n > 0
    <3>1. d.left = 0 => n = c.left
      BY <1>7, <2>2
    <3>2. n <= c.left /\ c.left - n = d.left /\ n > 0
      BY <1>7, <2>2, <2>3
    <3> QED BY <2>3, <3>1, <3>2
  <2>5. Words(d.left) + Words(n) = Words(c.left) /\ Words(n) > 0 /\ Words(n) \in Nat
        /\ Words(d.left) \in Nat
    BY <1>7, <2>4, WordsSplit, WordsIsNat
  <2>6. slot.n = n /\ slot.last = (d.left = 0)
    BY <2>3 DEF Header
  <2>7. done' = done /\ fw' = [fw EXCEPT !.need = Words(slot.n), !.last = slot.last,
                                         !.bytes = @ + slot.n]
    BY <1>4, <1>14 DEF FwReads
  <2>8. fw'.need = Words(n) /\ fw'.bytes = fw.bytes + n /\ fw'.words = fw.words
        /\ fw'.last = (d.left = 0)
    BY <1>1, <2>6, <2>7 DEF FwStates
  <2>9. ~Between(d) /\ ~Between(c) /\ Taken(d) = Taken(c)
    BY <1>8, <2>3, <2>5 DEF Between, Taken
  <2>10. /\ fw'.bytes = length - d.left
         /\ Words(length) - Words(c.left) - c.todo = Words(length) - Words(d.left) - d.todo
    <3>1. length - c.left + n = length - d.left
      BY <1>7, <2>2
    <3>2. Words(length) - Words(c.left) - 0 = Words(length) - Words(d.left) - Words(n)
      BY <1>12, <2>5
    <3> QED BY <1>11, <2>3, <2>8, <3>1, <3>2
  <2>11. FwHas(d)'
    BY <1>1, <1>9, <1>11, <2>3, <2>8, <2>9, <2>10 DEF FwHas
  <2> QED BY <1>13, <2>7, <2>9, <2>11
<1>15. CASE fw.need # 0
  <2>1. c.todo > 0
    BY <1>7, <1>11, <1>15
  <2>2. WordLeads(sent, c, slot, d)
    BY <1>5, <2>1 DEF Leads, HeaderLeads
  <2>3. PICK k \in Nat : k = Words(length) - Words(c.left) - c.todo
    BY <1>7, <1>9, <1>12
  <2>4. slot = Word(c.msg, k + 1)
    BY <1>9, <2>2, <2>3 DEF WordLeads
  <2>5. Append(fw.words, slot) = WordsOf(c.msg, k + 1)
    <3>1. fw.words = WordsOf(c.msg, k)
      BY <1>11, <2>3
    <3> QED BY <1>7, <2>4, <3>1, OneMoreWord
  <2>6. CASE ~(c.todo = 1 /\ c.left = 0)
    <3>1. ~(fw.need = 1 /\ fw.last)
      BY <1>11, <2>1, <2>6
    <3>2. done' = done /\ fw' = [fw EXCEPT !.need = @ - 1, !.words = Append(fw.words, slot)]
      BY <1>1, <1>4, <1>15, <3>1 DEF FwReads, FwStates
    <3>3. fw'.need = c.todo - 1 /\ fw'.words = WordsOf(c.msg, k + 1) /\ fw'.bytes = fw.bytes
          /\ fw'.last = (c.left = 0)
      BY <1>1, <1>11, <2>1, <2>5, <3>2 DEF FwStates
    <3>4. d.msg = c.msg /\ d.left = c.left /\ d.todo = c.todo - 1
      BY <2>2, <2>6 DEF WordLeads
    <3>5. ~Between(d) /\ Taken(d) = Taken(c)
      BY <1>7, <1>8, <2>1, <2>6, <3>4 DEF Between, Taken
    <3>6. Words(length) - Words(d.left) - d.todo = k + 1
      BY <1>7, <1>12, <2>3, <3>4
    <3>7. FwHas(d)'
      BY <1>1, <1>9, <1>11, <3>3, <3>4, <3>5, <3>6 DEF FwHas
    <3> QED BY <1>13, <3>2, <3>5, <3>7
  <2>7. CASE c.todo = 1 /\ c.left = 0
    <3>1. fw.need = 1 /\ fw.last
      <4>1. (c.left = 0) = TRUE /\ c.todo > 0
        BY <2>7
      <4> QED BY <1>11, <2>7, <4>1
    <3>2. k + 1 = Words(length) /\ fw.bytes = length
      <4>1. Words(0) = 0
        BY DEF Words
      <4> QED BY <1>11, <1>12, <2>3, <2>7, <4>1
    <3>3. PICK message : message = [bytes |-> length, words |-> WordsOf(c.msg, Words(length))]
      OBVIOUS
    <3>4. message \in Messages /\ message = SentMessage(c.msg)
      <4>1. WordsOf(c.msg, Words(length)) \in Seq(Slots)
        BY <1>7, <1>12, WordsAre
      <4> QED BY <1>9, <3>3, <4>1 DEF Messages, SentMessage
    <3>5. done' = Append(done, message)
          /\ fw' = [fw EXCEPT !.need = @ - 1, !.words = <<>>, !.bytes = 0]
      BY <1>1, <1>4, <1>15, <2>5, <3>1, <3>2, <3>3 DEF FwReads
    <3>6. fw'.need = 0 /\ fw'.words = <<>> /\ fw'.bytes = 0
      BY <1>1, <3>1, <3>5 DEF FwStates
    <3>7. After(sent, c.msg, d)
      BY <2>2, <2>7 DEF WordLeads
    <3>8. c.msg = p + 1 /\ Delivered(c.msg - 1)
      BY <1>2, <1>3, <1>7, <1>8 DEF Taken, TxInv
    <3>9. PICK q \in Nat : q = p + 1 /\ q = c.msg
      BY <3>8
    <3>10. Delivered(q)'
      BY <1>1, <1>7, <1>10, <3>4, <3>5, <3>8, <3>9, DeliveredMore
    <3>11. Taken(d) = q /\ q <= Len(sent)
      BY <1>7, <1>10, <3>7, <3>9 DEF After, Taken, Between
    <3>12. FwHas(d)'
      <4>1. CASE Between(d)
        BY <3>6, <4>1 DEF FwHas
      <4>2. CASE ~Between(d)
        <5>1. PICK all \in Nat : all = sent[d.msg] /\ d.left = all /\ d.todo = 0
          BY <1>7, <3>7, <4>2 DEF After, Between
        <5>2. Words(all) \in Nat
          BY <5>1, WordsIsNat
        <5>3. all - d.left = 0 /\ Words(all) - Words(d.left) - d.todo = 0
          BY <5>1, <5>2
        <5>4. WordsOf(d.msg, Words(all) - Words(d.left) - d.todo) = <<>>
          BY <5>3, NoWords
        <5> QED BY <1>1, <3>6, <4>2, <5>1, <5>3, <5>4 DEF FwHas
      <4> QED BY <4>1, <4>2
    <3>13. TxInv(q)'
      BY <1>6, <3>10, <3>11, <3>12
    <3>14. p + 1 \in DOMAIN sent
      BY <1>7, <1>10, <3>9
    <3> QED BY <3>4, <3>5, <3>9, <3>13, <3>14
  <2> QED BY <2>6, <2>7
<1> QED BY <1>14, <1>15

LEMMA TxOfCalls ==
  ASSUME Inv, NEW p \in Nat, TxInv(p),
         \/ \E len \in BufSizes : HeciReceive(len)
         \/ ResetHeciInterface
         \/ \E op \in {"send", "receive", "reset"} : NoDevice(op)
  PROVE  TxInv(p)'
<1>1. UNCHANGED <<tx, sent, mecsr, fwVars, valid>> /\ call.op # "send" /\ call'.op # "send"
  BY DEF HeciReceive, ResetHeciInterface, NoDevice, MayCall, Idle
<1>2. hcsr'.ready = hcsr.ready
  BY DEF HeciReceive, ResetHeciInterface, NoDevice, Inv, TypeOK, Csrs
<1> QED BY <1>1, <1>2, TxOfOthers

LEMMA TxAtFirst == ASSUME Init, Inv PROVE TxInv(0)
<1>1. sent = <<>> /\ done = <<>> /\ Len(sent) = 0 /\ DOMAIN done = {}
  BY DEF Init
<1>2. PICK d : d = [msg |-> 0, left |-> 0, todo |-> 0]
  OBVIOUS
<1>3. d \in Places(sent) /\ Between(d) /\ Taken(d) = 0 /\ d.msg = 0
  <2>1. 0 \in 0..Len(sent)
    BY <1>1
  <2> QED BY <1>2, <2>1, PlaceIs, SentBytes DEF Between, Taken
<1>4. tx \in Buffers /\ Fill(tx) = 0
  BY EmptyHasNone DEF Init
<1>5. PICK at : Chain(tx, sent, at) /\ at[0] = d
  BY <1>3, <1>4, ChainOfNothing, SentBytes
<1>6. FwHas(d) /\ HostAt(d)
  BY <1>1, <1>3 DEF Init, FwHas, HostAt, Idle
<1>7. Delivered(0)
  <2>1. \E from \in [{} -> 1..0] : TRUE
    <3>1. [j \in {} |-> 1] \in [{} -> 1..0]
      OBVIOUS
    <3> QED BY <3>1
  <2> QED BY <1>1, <2>1 DEF Delivered
<1>8. TxStream(0)
  BY <1>3, <1>4, <1>5, <1>6, <1>7 DEF TxStream
<1>9. SendStarts
  BY DEF SendStarts, Init, Idle
<1> QED BY <1>1, <1>7, <1>8, <1>9 DEF TxInv

LEMMA DoneStays ==
  ASSUME Inv, [Next]_vars, ~FwReads
  PROVE  done' = done
<1>1. CASE Calls
  BY <1>1 DEF Calls, HeciSend, HeciReceive, ResetHeciInterface, NoDevice, fwVars
<1>2. CASE CallStep
  BY <1>2 DEF CallStep, FwNotReady, SendReady, WriteHeader, NoRoom, WriteWord, PacketWritten,
     ReceiveReady, NoHeader, HeaderThere, ReadHeader, PacketThere, PacketLate, StallEnds,
     ReadWord, PacketRead,
     ResetStarted, ResetTimesOut, ResetFinished, fwVars
<1>3. CASE Firmware \/ UNCHANGED vars
  BY <1>3 DEF Firmware, FwTakesReset, FwResets, FwReady, FwBegins, FwHeader, FwWord, vars, fwVars
<1> QED BY <1>1, <1>2, <1>3 DEF Next

\* A step passes the next message to the firmware, or all of them by a reset, or none.
LEMMA TxKept ==
  ASSUME Inv, ResetPlace, NEW p \in Nat, TxInv(p), [Next]_vars
  PROVE  /\ ResetFinished => \A n \in Nat : n = Len(sent) => TxInv(n)'
         /\ ~ResetFinished /\ done' = done => TxInv(p)'
         /\ done' # done => /\ p + 1 \in DOMAIN sent /\ SentMessage(p + 1) \in Messages
                           /\ done' = Append(done, SentMessage(p + 1)) /\ TxInv(p + 1)'
<1>1. CASE FwReads
  <2>1. ~ResetFinished
    BY <1>1 DEF FwReads, ResetFinished, Ends, At, Idle
  <2>2. ASSUME SentMessage(p + 1) \in Messages PROVE Append(done, SentMessage(p + 1)) # done
    <3>1. done \in Seq(Messages)
      BY DEF Inv, TypeOK
    <3> QED BY <2>2, <3>1
  <2> QED BY <1>1, <2>1, <2>2, TxOfReads
<1>2. CASE ResetFinished
  <2>1. \A n \in Nat : n = Len(sent) => TxInv(n)'
    BY <1>2, TxAfresh
  <2>2. done' = done
    BY <1>2 DEF ResetFinished, fwVars
  <2> QED BY <1>2, <2>1, <2>2
<1>3. CASE ~FwReads /\ ~ResetFinished
  <2>1. done' = done
    BY <1>3, DoneStays
  <2>2. CASE Calls
    BY <1>3, <2>1, <2>2, TxOfCalls, TxOfSends DEF Calls
  <2>3. CASE CallStep
    BY <1>3, <2>1, <2>3, TxOfAborts, TxOfReceives, TxOfSendReady, TxOfPackets, TxOfHeaders,
       TxOfWords DEF CallStep
  <2>4. CASE Firmware
    BY <1>3, <2>1, <2>4, TxOfPuts, TxOfResets DEF Firmware
  <2>5. CASE UNCHANGED vars
    BY <1>3, <2>1, <2>5, TxOfStutter
  <2> QED BY <1>3, <2>1, <2>2, <2>3, <2>4, <2>5 DEF Next
<1> QED BY <1>1, <1>2, <1>3

HostInOrder == \E p \in Nat : TxInv(p)

\* The host's buffer holds what comes between the firmware's place in the messages and
\* the host's, none left out, in every state but between a reset of either side and the
\* end of the host's.
THEOREM HostBufferInOrder == Spec => []HostInOrder
<1>1. Init => HostInOrder
  BY Initially, TxAtFirst DEF HostInOrder
<1>2. Inv /\ ResetPlace /\ HostInOrder /\ [Next]_vars => HostInOrder'
  <2> SUFFICES ASSUME Inv, ResetPlace, NEW p \in Nat, TxInv(p), [Next]_vars
               PROVE  \E q \in Nat : TxInv(q)'
    BY DEF HostInOrder
  <2>1. PICK n \in Nat : n = Len(sent)
    BY SentBytes
  <2>2. p + 1 \in Nat
    OBVIOUS
  <2> QED BY <2>1, <2>2, TxKept
<1> QED BY <1>1, <1>2, PlacesKept, ResetsTakePlace, PTL DEF Spec

\* HeciSend and HeciPacketWrite: whatever the firmware puts together is a message that
\* was sent, unchanged, each at most once and in their order, through packets that wrap
\* around the buffer, sends that are given up and resets of either side.
THEOREM HostMessagesAreWhole == Spec => []FwGetsWhole
<1>1. Inv /\ HostInOrder => FwGetsWhole
  <2> SUFFICES ASSUME Inv, NEW p \in Nat, TxInv(p) PROVE FwGetsWhole
    BY DEF HostInOrder
  <2>1. DOMAIN sent = 1..Len(sent)
    BY SentBytes
  <2>2. PICK from \in [DOMAIN done -> 1..p] :
          /\ \A j, k \in DOMAIN done : j < k => from[j] < from[k]
          /\ \A j \in DOMAIN done : done[j] = SentMessage(from[j])
    BY DEF TxInv, Delivered
  <2>3. from \in [DOMAIN done -> DOMAIN sent]
    BY <2>1, <2>2, SentBytes DEF TxInv
  <2> QED BY <2>2, <2>3, Zenon DEF FwGetsWhole, SentMessage, WordsOf
<1> QED BY <1>1, PlacesKept, HostBufferInOrder, PTL
------------------------------------------------------------------------------
(* Messages of the firmware. *)

\* The first count words of message m, in a buffer of len bytes.
CopiedWords(m, count, len) ==
  {[place |-> k, slot |-> Word(m, k), bytes |-> Least(4, len - 4 * (k - 1))] :
     k \in {j \in 1..count : 4 * (j - 1) < len}}

LEMMA CopiedNothing == \A m, len : CopiedWords(m, 0, len) = {}
BY DEF CopiedWords

LEMMA CopiedMore ==
  ASSUME NEW m, NEW count \in Nat, NEW len \in Nat
  PROVE  CopiedWords(m, count + 1, len) =
           IF 4 * count < len
           THEN CopiedWords(m, count, len) \cup
                  {[place |-> count + 1, slot |-> Word(m, count + 1),
                    bytes |-> Least(4, len - 4 * count)]}
           ELSE CopiedWords(m, count, len)
<1> DEFINE Places1(n) == {j \in 1..n : 4 * (j - 1) < len}
           Copy(k) == [place |-> k, slot |-> Word(m, k), bytes |-> Least(4, len - 4 * (k - 1))]
<1>1. (count + 1) - 1 = count
  OBVIOUS
<1>2. Copy(count + 1) = [place |-> count + 1, slot |-> Word(m, count + 1),
                         bytes |-> Least(4, len - 4 * count)]
  BY <1>1
<1>3. \A n : CopiedWords(m, n, len) = {Copy(k) : k \in Places1(n)}
  BY DEF CopiedWords
<1>4. Places1(count + 1) = IF 4 * count < len THEN Places1(count) \cup {count + 1} ELSE Places1(count)
  OBVIOUS
<1> HIDE DEF Places1, Copy
<1>5. CASE 4 * count < len
  <2>1. CopiedWords(m, count + 1, len) = {Copy(k) : k \in Places1(count) \cup {count + 1}}
    BY <1>3, <1>4, <1>5
  <2>2. @ = {Copy(k) : k \in Places1(count)} \cup {Copy(count + 1)}
    OBVIOUS
  <2> QED BY <1>2, <1>3, <1>5, <2>1, <2>2
<1>6. CASE ~(4 * count < len)
  BY <1>3, <1>4, <1>6
<1> QED BY <1>5, <1>6

\* A word is copied unless the buffer ends before it.
LEMMA WordBegins ==
  ASSUME NEW length \in Nat, NEW k \in Nat, k > 0
  PROVE  k <= Words(length) <=> 4 * (k - 1) < length
BY DEF Words

\* All words of a message, cut off at the end of the buffer.
LEMMA CopiedAll ==
  ASSUME NEW m, NEW length \in Nat, NEW len \in Nat
  PROVE  CopiedWords(m, Words(length), len) = Copied(m, length, len)
<1> DEFINE Copy(k) == [place |-> k, slot |-> Word(m, k), bytes |-> Least(4, len - 4 * (k - 1))]
           s == {j \in 1..Words(length) : 4 * (j - 1) < len}
           t == 1..Words(Least(length, len))
<1>1. s = t
  <2>1. PICK least \in Nat : least = Least(length, len)
                             /\ least <= length /\ least <= len /\ (least = length \/ least = len)
    BY DEF Least
  <2>2. Words(length) \in Nat /\ Words(least) \in Nat
    BY WordsIsNat
  <2>3. ASSUME NEW k \in Nat, k > 0 PROVE k \in s <=> k \in t
    <3>1. k <= Words(length) <=> 4 * (k - 1) < length
      BY <2>3, WordBegins
    <3>2. k <= Words(least) <=> 4 * (k - 1) < least
      BY <2>1, <2>3, WordBegins
    <3> QED BY <2>1, <2>2, <2>3, <3>1, <3>2
  <2>4. \A k : (k \in s => k \in Nat /\ k > 0) /\ (k \in t => k \in Nat /\ k > 0)
    BY <2>1, <2>2
  <2> HIDE DEF s, t
  <2> QED BY <2>3, <2>4
<1>2. CopiedWords(m, Words(length), len) = {Copy(k) : k \in s}
  BY DEF CopiedWords
<1>3. Copied(m, length, len) = {Copy(k) : k \in t}
  BY DEF Copied
<1> HIDE DEF s, t, Copy
<1> QED BY <1>1, <1>2, <1>3

\* The space after one more word.
LEMMA SpaceShrinks ==
  ASSUME NEW len \in Nat, NEW p \in Nat, NEW space, space = SpaceLeft(len, p),
         NEW bytes, bytes = Least(4, space)
  PROVE  /\ space - bytes = SpaceLeft(len, p + 4)
         /\ bytes = 0 <=> ~(p < len)
         /\ p < len => bytes = Least(4, len - p)
BY DEF SpaceLeft, Least

\* The words before a packet and in it, where the packets before it held whole words.
LEMMA WordsBefore ==
  ASSUME NEW total \in Nat, NEW n \in Nat, NEW left \in Nat, total % 4 = 0,
         left > 0 => n % 4 = 0
  PROVE  /\ total \div 4 \in Nat /\ total = 4 * (total \div 4)
         /\ Words(total + n) = total \div 4 + Words(n)
         /\ Words(total + n + left) = total \div 4 + Words(n) + Words(left)
         /\ left > 0 => (total + n) % 4 = 0 /\ (total + n) \div 4 = total \div 4 + Words(n)
BY DEF Words

\* Where a call that begins to read must find the reader.
Boundary(c) == c.todo = 0 /\ (c.left = 0 \/ c.left = put[c.msg])

\* The packets before place c are in the caller's buffer.
BetweenPackets(c) ==
  /\ c.todo = 0 /\ call.total % 4 = 0
  /\ call.space = SpaceLeft(call.len, call.total)
  /\ call.got = CopiedWords(c.msg, call.total \div 4, call.len)
  /\ IF call.total = 0 THEN Boundary(c) ELSE c.left > 0 /\ call.total + c.left = put[c.msg]

\* So are the words of this packet of message m that were read; left bytes of m come
\* in later packets.
InPacket(c, m, left) ==
  LET read == Words(call.n) - call.todo IN
  /\ call.total % 4 = 0 /\ call.n > 0 /\ call.total + call.n + left = put[m]
  /\ left > 0 => call.n % 4 = 0
  /\ left = 0 <=> call.last
  /\ call.space = SpaceLeft(call.len, call.total + 4 * read)
  /\ call.got = CopiedWords(m, call.total \div 4 + read, call.len)
  /\ IF left = 0 /\ call.todo = 0 THEN Boundary(c) /\ Taken(c) = m
     ELSE c.msg = m /\ c.left = left /\ c.todo = call.todo

\* What a host that has come to place c has of the message after the first r.
HostHas(c, r) ==
  /\ call.op # "receive" => Boundary(c) /\ Taken(c) = r
  /\ At("receive", "ready") \/ At("receive", "header") \/ At("receive", "fetch") =>
       BetweenPackets(c) /\ Taken(c) = r
  /\ At("receive", "gather") \/ At("receive", "stall") \/ At("receive", "body") =>
       r + 1 \in DOMAIN put /\ \E left \in Nat : InPacket(c, r + 1, left)
  /\ At("receive", "fetch") => Fill(rx) > 0
  /\ At("receive", "stall") \/ At("receive", "body") => call.todo <= Fill(rx)

\* The place the firmware has come to.
FwAt(w) ==
  /\ w.msg = Len(put)
  /\ IF fw.out = 0 THEN Between(w)
     ELSE w.msg = fw.out /\ w.left = fw.left /\ w.todo = fw.todo

\* A host that has the first r messages behind it.  After a call was aborted, or when the
\* firmware has reset itself, it may have lost its place.
RxStream(r) ==
  valid /\ ~mecsr.reset =>
    \E at : Chain(rx, put, at) /\ HostHas(at[0], r) /\ FwAt(at[Fill(rx)])

RxPlace ==
  /\ Fill(rx) <= Depth
  /\ mecsr.reset => Fill(rx) = 0
  /\ call.op = "receive" => valid

RxInv(r) == RxPlace /\ RxStream(r)

LEMMA PutBytes == ASSUME Inv PROVE put \in Seq(Bytes) /\ Len(put) \in Nat
<1>1. FwLens \subseteq Bytes
  BY LengthAssumption DEF Bytes
<1>2. put \in Seq(FwLens)
  BY DEF Inv, TypeOK
<1> QED BY <1>1, <1>2, SeqMonotonic, LenProperties

LEMMA ReceivingParts ==
  ASSUME Inv, call.op = "receive"
  PROVE  /\ call \in Receiving
         /\ call.len \in Nat /\ call.len > 0 /\ call.total \in Nat /\ call.space \in Nat
         /\ call.n \in Nat /\ call.todo \in Nat /\ call.last \in BOOLEAN
         /\ call.at \in {"gather", "stall", "body"} =>
              call.todo <= Words(call.n) /\ Words(call.n) - call.todo \in Nat
<1>1. call \in Receiving
  BY CallKinds DEF Inv
<1>2. call.len \in BufSizes /\ call.total \in Nat /\ call.space \in Nat
      /\ call.n \in Nat /\ call.todo \in Nat /\ call.last \in BOOLEAN
  BY <1>1 DEF Receiving
<1>3. call.len \in Nat /\ call.len > 0
  <2>1. call.len \in Bytes
    BY <1>2, LengthAssumption, Zenon DEF Bytes
  <2> QED BY <2>1 DEF Bytes
<1>4. Words(call.n) \in Nat
  BY <1>2, WordsIsNat
<1>5. call.at \in {"gather", "stall", "body"} => call.todo <= Words(call.n)
  BY DEF Inv, ReceivePlace
<1> QED BY <1>1, <1>2, <1>3, <1>4, <1>5

\* What a step leaves as it is when it touches neither the call nor what was put.
LEMMA HostHasSteady ==
  ASSUME NEW c, NEW r, HostHas(c, r), call' = call, put' = put, Fill(rx) \in Nat, Fill(rx') \in Nat,
         Fill(rx) <= Fill(rx'), call.op = "receive" => call.todo \in Nat
  PROVE  HostHas(c, r)'
<1>1. BetweenPackets(c)' <=> BetweenPackets(c)
  BY DEF BetweenPackets, Boundary
<1>2. \A m, left : InPacket(c, m, left)' <=> InPacket(c, m, left)
  BY DEF InPacket, Boundary
<1>3. Boundary(c)' <=> Boundary(c)
  BY DEF Boundary
<1>4. Fill(rx)' = Fill(rx')
  BY DEF Fill
<1>5. /\ At("receive", "fetch")' => Fill(rx') > 0
      /\ At("receive", "stall")' \/ At("receive", "body")' => call.todo <= Fill(rx')
  BY DEF HostHas, At
<1>6. Taken(c)' = Taken(c)
  BY DEF Taken, Between
<1> HIDE DEF Boundary, BetweenPackets, InPacket
<1> QED BY <1>1, <1>2, <1>3, <1>4, <1>5, <1>6 DEF HostHas, At

\* A step of the host that is not part of a receive.
LEMMA RxSteady ==
  ASSUME Inv, NEW r \in Nat, RxInv(r), UNCHANGED <<rx, put, mecsr>>,
         fw'.out = fw.out, fw'.left = fw.left, fw'.todo = fw.todo,
         call.op # "receive", call'.op # "receive", valid' => valid
  PROVE  RxInv(r)'
<1>1. RxPlace'
  BY DEF RxInv, RxPlace, Fill
<1>2. ASSUME valid', ~mecsr'.reset PROVE RxStream(r)'
  <2>1. PICK at : Chain(rx, put, at) /\ HostHas(at[0], r) /\ FwAt(at[Fill(rx)])
    BY <1>2 DEF RxInv, RxStream
  <2>2. PICK c : c = at[0] /\ HostHas(c, r)
    BY <2>1, Zenon
  <2>3. HostHas(c, r)'
    BY <2>2 DEF HostHas, Boundary, Taken, Between, At
  <2>4. PICK w : w = at[Fill(rx)] /\ FwAt(w)
    BY <2>1, Zenon
  <2>5. FwAt(w)'
    BY <2>4 DEF FwAt
  <2> QED BY <2>1, <2>2, <2>3, <2>4, <2>5 DEF RxStream, Fill
<1> QED BY <1>1, <1>2 DEF RxInv, RxStream

\* A step that is none of the host's.
LEMMA RxOfOthers ==
  ASSUME Inv, NEW r \in Nat, RxInv(r),
         UNCHANGED <<rx, put, call, valid>>, mecsr'.reset = mecsr.reset,
         fw'.out = fw.out, fw'.left = fw.left, fw'.todo = fw.todo
  PROVE  RxInv(r)'
<1>1. RxPlace'
  BY DEF RxInv, RxPlace, Fill
<1>2. ASSUME valid, ~mecsr.reset PROVE RxStream(r)'
  <2>1. PICK at : Chain(rx, put, at) /\ HostHas(at[0], r) /\ FwAt(at[Fill(rx)])
    BY <1>2 DEF RxInv, RxStream
  <2>2. PICK c : c = at[0] /\ HostHas(c, r)
    BY <2>1, Zenon
  <2>3. Fill(rx) \in Nat /\ Fill(rx') = Fill(rx)
    <3>1. rx \in Buffers
      BY DEF Inv, TypeOK
    <3> QED BY <3>1, FillIsCount, DepthAssumption
  <2>4. HostHas(c, r)'
    <3>1. Fill(rx) <= Fill(rx') /\ Fill(rx') \in Nat
      BY <2>3
    <3> QED BY <2>2, <2>3, <3>1, ReceivingParts, HostHasSteady
  <2>5. PICK w : w = at[Fill(rx)] /\ FwAt(w)
    BY <2>1, Zenon
  <2>6. FwAt(w)'
    BY <2>5 DEF FwAt
  <2> QED BY <2>1, <2>2, <2>4, <2>5, <2>6 DEF RxStream, Fill
<1> QED BY <1>1, <1>2 DEF RxInv, RxStream

\* A call is aborted; it may have read a slot.
LEMMA RxAborted ==
  ASSUME Inv, NEW r \in Nat, RxInv(r),
         UNCHANGED <<put, mecsr>>, rx' = rx \/ rx' = Pop(rx), call' = Idle, ~valid'
  PROVE  RxInv(r)'
<1>1. Fill(rx') <= Fill(rx) /\ Fill(rx) \in Nat /\ Fill(rx') \in Nat
  <2>1. rx \in Buffers
    BY DEF Inv, TypeOK
  <2>2. rx' \in Buffers /\ Fill(rx) \in Nat /\ Fill(rx') \in Nat
    BY <2>1, PopTakesOne, FillIsCount, DepthAssumption
  <2>3. CASE rx' = rx
    BY <2>2, <2>3
  <2>4. CASE rx' = Pop(rx)
    BY <2>1, <2>2, <2>4, PopTakesOne
  <2> QED BY <2>2, <2>3, <2>4
<1>2. Fill(rx)' = Fill(rx') /\ call'.op = "none"
  BY DEF Fill, Idle
<1>3. RxPlace'
  BY <1>1, <1>2, DepthAssumption DEF RxInv, RxPlace
<1> QED BY <1>3 DEF RxInv, RxStream

LEMMA RxOfAborts ==
  ASSUME Inv, NEW r \in Nat, RxInv(r),
         \/ FwNotReady \/ NoRoom \/ NoHeader \/ PacketLate \/ ResetTimesOut
         \/ (PacketWritten \/ ReadHeader \/ PacketRead) /\ Aborted
  PROVE  RxInv(r)'
<1>1. UNCHANGED <<put, mecsr>> /\ (rx' = rx \/ rx' = Pop(rx))
  BY DEF FwNotReady, NoRoom, NoHeader, PacketLate, ResetTimesOut, PacketWritten, ReadHeader,
     PacketRead, fwVars
<1>2. PICK result : Ends(result) /\ result.status # "SUCCESS"
  <2>1. CASE Aborted
    <3> DEFINE result == [op |-> call.op, status |-> "ABORTED"]
    <3>1. Ends(result) /\ result.status # "SUCCESS"
      BY <2>1 DEF Aborted
    <3> HIDE DEF result
    <3> QED BY <3>1
  <2>2. CASE ResetTimesOut
    <3> DEFINE result == [op |-> "reset", status |-> "TIMEOUT"]
    <3>1. Ends(result) /\ result.status # "SUCCESS"
      BY <2>2 DEF ResetTimesOut
    <3> HIDE DEF result
    <3> QED BY <3>1
  <2> QED BY <2>1, <2>2 DEF FwNotReady, NoRoom, NoHeader, PacketLate
<1>3. call' = Idle /\ ~valid'
  BY <1>2 DEF Ends
<1> QED BY <1>1, <1>3, RxAborted

LEMMA RxOfSends ==
  ASSUME Inv, NEW r \in Nat, RxInv(r),
         \/ \E len \in HostLens : HeciSend(len)
         \/ SendReady \/ WriteHeader \/ WriteWord
         \/ PacketWritten /\ ~Aborted
         \/ ResetHeciInterface \/ ResetStarted
         \/ \E op \in {"send", "receive", "reset"} : NoDevice(op)
  PROVE  RxInv(r)'
<1>1. UNCHANGED <<rx, put, mecsr, fw>> /\ call.op # "receive"
  BY DEF HeciSend, SendReady, WriteHeader, WriteWord, PacketWritten, ResetHeciInterface,
     ResetStarted, NoDevice, MayCall, At, Idle, fwVars
<1>2. CASE \/ SendReady \/ WriteHeader \/ WriteWord
           \/ PacketWritten /\ ~Aborted /\ call' # Idle
           \/ ResetStarted
  <2>1. call'.op = call.op /\ ret' = ret /\ valid' = valid
    BY <1>2, SameCall
  <2> QED BY <1>1, <2>1, RxSteady
<1>3. CASE PacketWritten /\ ~Aborted /\ call' = Idle
  <2>1. call.op = "send" /\ call'.op = "none" /\ ~Aborted
    BY <1>3 DEF PacketWritten, At, Idle
  <2>2. call'.op # call.op
    BY <2>1
  <2>3. Ends([op |-> "send", status |-> "SUCCESS"])
    <3>1. call \in Sending
      BY <2>1, CallKinds DEF Inv
    <3>2. \A left : [call EXCEPT !.at = "room", !.left = left].op = "send"
      BY <2>1, <3>1 DEF Sending
    <3> QED BY <1>3, <2>1, <2>2, <3>2 DEF PacketWritten
  <2>4. valid' => valid
    BY <2>1, <2>3 DEF Ends
  <2> QED BY <1>1, <2>1, <2>4, RxSteady
<1>4. CASE \/ \E len \in HostLens : HeciSend(len)
           \/ ResetHeciInterface
  <2>1. call'.op # "receive" /\ valid' = valid
    BY <1>4 DEF HeciSend, ResetHeciInterface
  <2> QED BY <1>1, <2>1, RxSteady
<1>5. CASE \E op \in {"send", "receive", "reset"} : NoDevice(op)
  <2>1. call'.op # "receive" /\ valid' = valid
    BY <1>1, <1>5 DEF NoDevice
  <2> QED BY <1>1, <2>1, RxSteady
<1> QED BY <1>2, <1>3, <1>4, <1>5

LEMMA RxOfResets ==
  ASSUME Inv, ResetPlace, NEW r \in Nat, RxInv(r), FwTakesReset \/ FwResets
  PROVE  RxInv(r)'
<1>1. Fill(rx') = 0 /\ UNCHANGED <<put, call, valid>>
  BY EmptyHasNone DEF FwTakesReset, FwResets
<1>2. ~valid' \/ mecsr'.reset
  BY DEF FwTakesReset, FwResets, ResetPlace
<1>3. RxPlace'
  BY <1>1, DepthAssumption DEF RxInv, RxPlace, Fill
<1> QED BY <1>2, <1>3 DEF RxInv, RxStream

\* When the reset is over both sides are after the last message.
LEMMA RxAfresh ==
  ASSUME Inv, ResetPlace, NEW r \in Nat, RxInv(r), ResetFinished,
         NEW n \in Nat, n = Len(put)
  PROVE  RxInv(n)'
<1>1. Nothing /\ UNCHANGED <<rx, put, fw, mecsr>>
  BY DEF ResetFinished, ResetPlace, fwVars
<1>2. call'.op = "none"
  BY DEF ResetFinished, Ends, Idle
<1>3. rx \in Buffers /\ Fill(rx) = 0
  BY <1>1 DEF Nothing, Inv, TypeOK
<1>4. PICK d : d = [msg |-> n, left |-> 0, todo |-> 0]
  OBVIOUS
<1>5. d \in Places(put) /\ Between(d) /\ Taken(d) = n /\ d.msg = n
  <2>1. n \in 0..Len(put)
    OBVIOUS
  <2> QED BY <1>4, <2>1, PlaceIs, PutBytes DEF Between, Taken
<1>6. PICK at : Chain(rx, put, at) /\ at[0] = d
  BY <1>3, <1>5, ChainOfNothing, PutBytes
<1>7. HostHas(d, n)' /\ FwAt(d)'
  BY <1>1, <1>2, <1>5 DEF HostHas, FwAt, Boundary, Between, Taken, Nothing, At
<1>8. RxStream(n)'
  BY <1>1, <1>3, <1>6, <1>7 DEF RxStream, Fill
<1>9. RxPlace'
  BY <1>1, <1>2 DEF RxInv, RxPlace, Fill
<1> QED BY <1>8, <1>9 DEF RxInv

\* The call begins, or the firmware is ready, or a header has come.
LEMMA RxOfReceives ==
  ASSUME Inv, NEW r \in Nat, RxInv(r), OneHandle,
         ReceiveReady \/ HeaderThere \/ \E len \in BufSizes : HeciReceive(len)
  PROVE  RxInv(r)'
<1>1. UNCHANGED <<rx, put, mecsr, fw, valid>> /\ valid
  BY DEF ReceiveReady, HeaderThere, HeciReceive, MayCall, Continues, RxInv, RxPlace, At, fwVars
<1>2. /\ call'.op = "receive" /\ call'.at \in {"ready", "header", "fetch"}
      /\ call'.at = "fetch" => Fill(rx) > 0
      /\ \A c \in Places(put) : HostHas(c, r) => BetweenPackets(c)' /\ Taken(c) = r
  <2>1. CASE ReceiveReady \/ HeaderThere
    <3>1. /\ call \in Receiving /\ call.op = "receive" /\ call.at \in {"ready", "header"}
          /\ \/ call' = [call EXCEPT !.at = "header"]
             \/ call' = [call EXCEPT !.at = "fetch"] /\ Fill(rx) # 0
      BY <2>1, CallKinds DEF ReceiveReady, HeaderThere, GetFilledSlots, Continues, At, Inv
    <3>2. /\ call'.op = "receive" /\ call'.at \in {"header", "fetch"}
          /\ call'.at = "fetch" => Fill(rx) # 0
          /\ call'.total = call.total
          /\ call'.space = call.space /\ call'.len = call.len /\ call'.got = call.got
      BY <3>1 DEF Receiving
    <3>3. ASSUME NEW c \in Places(put), HostHas(c, r) PROVE BetweenPackets(c)' /\ Taken(c) = r
      <4>1. BetweenPackets(c) /\ Taken(c) = r
        BY <3>1, <3>3 DEF HostHas, At
      <4> QED BY <1>1, <3>2, <4>1 DEF BetweenPackets, Boundary
    <3>4. Fill(rx) \in Nat
      BY FillIsCount, DepthAssumption DEF Inv, TypeOK
    <3> QED BY <3>2, <3>3, <3>4
  <2>2. CASE \E len \in BufSizes : HeciReceive(len)
    <3>1. PICK len \in BufSizes : HeciReceive(len)
      BY <2>2
    <3>2. /\ call.op # "receive" /\ call'.op = "receive" /\ call'.at = "ready"
          /\ call'.total = 0 /\ call'.space = len /\ call'.len = len /\ call'.got = {}
      BY <3>1 DEF HeciReceive, MayCall, Idle
    <3>3. len \in Nat /\ len > 0
      <4>1. len \in Bytes
        BY LengthAssumption, Zenon DEF Bytes
      <4> QED BY <4>1 DEF Bytes
    <3>4. len = SpaceLeft(len, 0)
      BY <3>3 DEF SpaceLeft
    <3>5. ASSUME NEW c \in Places(put), HostHas(c, r) PROVE BetweenPackets(c)' /\ Taken(c) = r
      <4>1. Boundary(c) /\ Taken(c) = r
        BY <3>2, <3>5 DEF HostHas
      <4>2. {} = CopiedWords(c.msg, 0 \div 4, len)
        BY CopiedNothing
      <4> QED BY <1>1, <3>2, <3>4, <4>1, <4>2 DEF BetweenPackets, Boundary
    <3> QED BY <3>2, <3>5
  <2> QED BY <2>1, <2>2
<1>3. RxPlace'
  BY <1>1, <1>2 DEF RxInv, RxPlace, Fill
<1>4. ASSUME ~mecsr.reset PROVE RxStream(r)'
  <2>1. PICK at : Chain(rx, put, at) /\ HostHas(at[0], r) /\ FwAt(at[Fill(rx)])
    BY <1>1, <1>4 DEF RxInv, RxStream
  <2>2. PICK c \in Places(put) : c = at[0] /\ HostHas(c, r)
    <3>1. rx \in Buffers
      BY DEF Inv, TypeOK
    <3> QED BY <2>1, <3>1, ChainEnds, Zenon
  <2>3. HostHas(c, r)'
    BY <1>1, <1>2, <2>2 DEF HostHas, Taken, Between, At, Fill
  <2>4. PICK w : w = at[Fill(rx)] /\ FwAt(w)
    BY <2>1, Zenon
  <2>5. FwAt(w)'
    BY <1>1, <2>4 DEF FwAt
  <2> QED BY <1>1, <2>1, <2>2, <2>3, <2>4, <2>5 DEF RxStream, Fill
<1> QED BY <1>1, <1>3, <1>4 DEF RxInv, RxStream

\* A slot is read: it leads from the place the host has come to to the next.
LEMMA RxRead ==
  ASSUME Inv, NEW r \in Nat, RxInv(r), valid, ~mecsr.reset, Fill(rx) > 0
  PROVE  \E c \in Places(put), d \in Places(put) :
           /\ HostHas(c, r) /\ Leads(put, c, Front(rx), d)
           /\ rx' = Pop(rx) /\ UNCHANGED <<put, mecsr, fw>> /\ HostHas(d, r)' => RxStream(r)'
<1>1. rx \in Buffers /\ Fill(rx) <= Depth
  BY DEF Inv, TypeOK, RxInv, RxPlace
<1>2. PICK at : Chain(rx, put, at) /\ HostHas(at[0], r) /\ FwAt(at[Fill(rx)])
  BY DEF RxInv, RxStream
<1>3. PICK c \in Places(put) : c = at[0] /\ HostHas(c, r)
  BY <1>1, <1>2, ChainEnds, Zenon
<1>4. PICK d \in Places(put) : d = at[1] /\ Leads(put, c, Front(rx), d)
  BY <1>1, <1>2, <1>3, ChainRead
<1>5. PICK w : w = at[Fill(rx)] /\ FwAt(w)
  BY <1>2, Zenon
<1>6. ASSUME rx' = Pop(rx), UNCHANGED <<put, mecsr, fw>>, HostHas(d, r)' PROVE RxStream(r)'
  <2>1. PICK at2 : Chain(Pop(rx), put, at2) /\ at2[0] = d /\ at2[Fill(Pop(rx))] = w
    <3>1. \E at2 : /\ Chain(Pop(rx), put, at2)
                   /\ at2[0] = at[1] /\ at2[Fill(Pop(rx))] = at[Fill(rx)]
      BY <1>1, <1>2, ChainRead
    <3> QED BY <1>4, <1>5, <3>1
  <2>2. FwAt(w)'
    BY <1>5, <1>6 DEF FwAt
  <2>3. at2[Fill(rx')] = w
    BY <1>6, <2>1
  <2> QED BY <1>6, <2>1, <2>2, <2>3 DEF RxStream, Fill
<1> QED BY <1>3, <1>4, <1>6

\* What a receive reads after the firmware has reset itself is nothing of a message.
LEMMA RxGarbled ==
  ASSUME Inv, NEW r \in Nat, RxInv(r), mecsr.reset, ~Aborted,
         ReadHeader \/ PacketThere \/ StallEnds \/ ReadWord \/ PacketRead
  PROVE  RxInv(r)'
<1>1. call.op = "receive" /\ valid /\ mecsr' = mecsr /\ (rx' = rx \/ rx' = Pop(rx))
  BY DEF ReadHeader, PacketThere, StallEnds, ReadWord, PacketRead, RxInv, RxPlace, At
<1>2. Fill(rx') = 0
  <2>1. Fill(rx) = 0
    BY DEF RxInv, RxPlace
  <2> QED BY <1>1, <2>1, PopOfNothing
<1>3. valid'
  <2>1. CASE ReadHeader
    BY <1>1, <2>1, Zenon DEF ReadHeader
  <2>2. CASE PacketRead
    <3>1. PICK result : UNCHANGED valid \/ (Ends(result) /\ result.status = "SUCCESS")
      <4> DEFINE result == [op |-> "receive", status |-> "SUCCESS", len |-> call.len,
                            total |-> call.total + call.n, got |-> call.got]
      <4>1. UNCHANGED valid \/ Ends(result)
        BY <2>2 DEF PacketRead
      <4>2. result.status = "SUCCESS"
        OBVIOUS
      <4> HIDE DEF result
      <4> QED BY <4>1, <4>2
    <3> QED BY <1>1, <3>1 DEF Ends
  <2>3. CASE PacketThere \/ StallEnds \/ ReadWord
    BY <1>1, <2>3 DEF PacketThere, StallEnds, ReadWord, Continues
  <2> QED BY <2>1, <2>2, <2>3
<1>4. RxPlace'
  BY <1>2, <1>3, DepthAssumption DEF RxPlace, Fill
<1> QED BY <1>1, <1>4 DEF RxInv, RxStream

LEMMA RxOfHeaders ==
  ASSUME Inv, NEW r \in Nat, RxInv(r), ~mecsr.reset, ReadHeader, ~Aborted
  PROVE  RxInv(r)'
<1>1. /\ call.op = "receive" /\ call.at = "fetch" /\ call \in Receiving /\ valid
      /\ rx' = Pop(rx) /\ UNCHANGED <<put, mecsr, fw>> /\ rx \in Buffers /\ Fill(rx) <= Depth
  BY CallKinds DEF ReadHeader, At, RxInv, RxPlace, fwVars, Inv, TypeOK
<1>2. Fill(rx) > 0
  <2>1. PICK at : HostHas(at[0], r)
    BY <1>1 DEF RxInv, RxStream
  <2> QED BY <1>1, <2>1 DEF HostHas, At
<1>3. PICK c \in Places(put), d \in Places(put) :
        /\ HostHas(c, r) /\ Leads(put, c, Front(rx), d)
        /\ rx' = Pop(rx) /\ UNCHANGED <<put, mecsr, fw>> /\ HostHas(d, r)' => RxStream(r)'
  BY <1>1, <1>2, RxRead
<1>4. BetweenPackets(c) /\ Taken(c) = r
  BY <1>1, <1>3 DEF HostHas, At
<1>5. HeaderLeads(c, Front(rx), d)
  BY <1>3, <1>4 DEF BetweenPackets, Leads, WordLeads
<1>6. /\ c.left \in Nat /\ c.todo \in Nat /\ c.msg \in Nat /\ d.left \in Nat
      /\ c.left > 0 => c.msg \in DOMAIN put /\ put[c.msg] \in Nat
  BY PutBytes, PlaceParts DEF Bytes
<1>7. PICK n \in Nat : n = c.left - d.left /\ n > 0
  BY <1>5, <1>6 DEF HeaderLeads
<1>8. /\ c.todo = 0 /\ d.msg = c.msg /\ d.left < c.left /\ d.todo = Words(n)
      /\ d.left = 0 \/ n % 4 = 0
      /\ Front(rx) = Header(c.msg, n, d.left = 0)
  BY <1>5, <1>7 DEF HeaderLeads
<1>9. call' = [call EXCEPT !.at = "gather", !.n = n, !.last = (d.left = 0), !.todo = Words(n)]
      /\ UNCHANGED <<ret, valid>>
  <2>1. PICK slot : slot = Front(rx) /\ slot.kind = "header" /\ slot.n = n
                    /\ slot.last = (d.left = 0)
    BY <1>8 DEF Header
  <2>2. AsHeader(slot) = {slot}
    BY <2>1 DEF AsHeader
  <2>3. \E header \in AsHeader(slot) :
          /\ call' = [call EXCEPT !.at = "gather", !.n = header.n, !.last = header.last,
                                  !.todo = Words(header.n)]
          /\ UNCHANGED <<ret, valid>>
    BY <2>1, Zenon DEF ReadHeader
  <2>4. /\ call' = [call EXCEPT !.at = "gather", !.n = slot.n, !.last = slot.last,
                                !.todo = Words(slot.n)]
        /\ UNCHANGED <<ret, valid>>
    BY <2>2, <2>3, Zenon
  <2> QED BY <2>1, <2>4, Zenon
<1>10. /\ call'.op = "receive" /\ call'.at = "gather" /\ call'.n = n
       /\ call'.last = (d.left = 0) /\ call'.todo = Words(n)
       /\ call'.total = call.total /\ call'.len = call.len /\ call'.space = call.space
       /\ call'.got = call.got
  <2>1. PICK todo, last : todo = Words(n) /\ last = (d.left = 0)
    OBVIOUS
  <2>2. call' = [call EXCEPT !.at = "gather", !.n = n, !.last = last, !.todo = todo]
    BY <1>9, <2>1, Zenon
  <2> QED BY <1>1, <2>1, <2>2 DEF Receiving
<1>11. Words(n) \in Nat /\ Words(n) > 0
  BY <1>7, WordsIsNat
<1>12. call.total \in Nat /\ call.total + c.left = put[c.msg]
  <2>1. call.total \in Nat
    BY <1>1 DEF Receiving
  <2>2. call.total = 0 => c.left = put[c.msg]
    BY <1>4, <1>6, <1>8 DEF BetweenPackets, Boundary
  <2>3. call.total # 0 => call.total + c.left = put[c.msg]
    BY <1>4 DEF BetweenPackets
  <2> QED BY <1>6, <2>1, <2>2, <2>3
<1>13. c.msg = r + 1 /\ c.msg \in DOMAIN put
  BY <1>4, <1>6, <1>8 DEF Taken, Between
<1>14. InPacket(d, c.msg, d.left)'
  <2>1. PICK read : read = Words(call'.n) - call'.todo
    OBVIOUS
  <2>2. read = 0
    BY <1>10, <1>11, <2>1
  <2>3. call.total % 4 = 0 /\ call.space = SpaceLeft(call.len, call.total)
        /\ call.got = CopiedWords(c.msg, call.total \div 4, call.len)
    BY <1>4 DEF BetweenPackets
  <2>4. call.total + 4 * read = call.total /\ call.total \div 4 + read = call.total \div 4
    BY <1>12, <2>2
  <2>5. call'.total + call'.n + d.left = put'[c.msg]
    BY <1>1, <1>6, <1>7, <1>10, <1>12
  <2>6. d.left > 0 => call'.n % 4 = 0
    BY <1>8, <1>10
  <2>7. d.left = 0 <=> call'.last
    BY <1>10
  <2>8. ~(d.left = 0 /\ call'.todo = 0) /\ d.msg = c.msg /\ d.todo = call'.todo
    BY <1>8, <1>10, <1>11
  <2>9. call'.space = SpaceLeft(call'.len, call'.total + 4 * read)
        /\ call'.got = CopiedWords(c.msg, call'.total \div 4 + read, call'.len)
    BY <1>10, <2>3, <2>4
  <2> QED BY <1>7, <1>10, <2>1, <2>3, <2>5, <2>6, <2>7, <2>8, <2>9 DEF InPacket
<1>15. HostHas(d, r)'
  BY <1>1, <1>6, <1>10, <1>13, <1>14 DEF HostHas, At
<1>16. RxStream(r)'
  BY <1>1, <1>3, <1>15
<1>17. RxPlace'
  <2>1. Fill(rx') <= Depth
    BY <1>1, PopTakesOne, FillIsCount, DepthAssumption
  <2> QED BY <1>1, <1>9, <2>1 DEF RxPlace, Fill
<1> QED BY <1>16, <1>17 DEF RxInv

LEMMA RxOfGathers ==
  ASSUME Inv, NEW r \in Nat, RxInv(r), ~mecsr.reset, PacketThere \/ StallEnds
  PROVE  RxInv(r)'
<1>1. /\ call.op = "receive" /\ call.at \in {"gather", "stall"} /\ call \in Receiving /\ valid
      /\ call.todo \in Nat
      /\ UNCHANGED <<rx, put, mecsr, fw, valid>> /\ Fill(rx) \in Nat /\ Fill(rx) <= Depth
      /\ \/ call' = [call EXCEPT !.at = "stall"]
         \/ call' = [call EXCEPT !.at = "body"]
  <2>1. rx \in Buffers
    BY DEF Inv, TypeOK
  <2> QED BY <2>1, FillIsCount, DepthAssumption, ReceivingParts
          DEF PacketThere, StallEnds, Continues, At, RxInv, RxPlace, fwVars
<1>2. call.todo <= Fill(rx)
  <2>1. CASE PacketThere
    BY <1>1, <2>1, DepthAssumption DEF PacketThere, GetFilledSlots
  <2>2. CASE StallEnds
    <3>1. PICK at : HostHas(at[0], r)
      BY <1>1 DEF RxInv, RxStream
    <3> QED BY <2>2, <3>1 DEF StallEnds, HostHas
  <2> QED BY <2>1, <2>2
<1>3. /\ call'.op = "receive" /\ call'.at \in {"stall", "body"} /\ call'.n = call.n
      /\ call'.last = call.last /\ call'.todo = call.todo
      /\ call'.total = call.total /\ call'.len = call.len /\ call'.space = call.space
      /\ call'.got = call.got
  BY <1>1 DEF Receiving
<1>4. PICK at : Chain(rx, put, at) /\ HostHas(at[0], r) /\ FwAt(at[Fill(rx)])
  BY <1>1, <1>2 DEF RxInv, RxStream
<1>5. PICK c : c = at[0] /\ HostHas(c, r)
  BY <1>4, Zenon
<1>6. HostHas(c, r)'
  <2>1. PICK left \in Nat : r + 1 \in DOMAIN put /\ InPacket(c, r + 1, left)
    BY <1>1, <1>5 DEF HostHas, At
  <2>2. InPacket(c, r + 1, left)'
    BY <1>1, <1>3, <2>1 DEF InPacket, Boundary, Taken, Between
  <2>3. call'.todo <= Fill(rx')
    BY <1>1, <1>2, <1>3
  <2> QED BY <1>1, <1>3, <2>1, <2>2, <2>3 DEF HostHas, At, Fill
<1>7. PICK w : w = at[Fill(rx)] /\ FwAt(w)
  BY <1>4, Zenon
<1>8. FwAt(w)'
  BY <1>1, <1>7 DEF FwAt
<1>9. RxStream(r)'
  BY <1>1, <1>4, <1>5, <1>6, <1>7, <1>8 DEF RxStream, Fill
<1>10. RxPlace'
  BY <1>1, <1>3 DEF RxInv, RxPlace, Fill
<1> QED BY <1>9, <1>10 DEF RxInv

\* A word goes to its place.
LEMMA RxOfWords ==
  ASSUME Inv, NEW r \in Nat, RxInv(r), ~mecsr.reset, ReadWord
  PROVE  RxInv(r)'
<1>1. /\ call.op = "receive" /\ call.at = "body" /\ call \in Receiving /\ valid
      /\ call.todo \in Nat /\ call.todo > 0 /\ call.n \in Nat /\ call.total \in Nat
      /\ call.len \in Nat /\ call.last \in BOOLEAN
      /\ rx' = Pop(rx) /\ UNCHANGED <<put, mecsr, fw, ret, valid>>
      /\ rx \in Buffers /\ Fill(rx) <= Depth
  <2>1. call.op = "receive" /\ call.at = "body" /\ call.todo > 0
    BY DEF ReadWord, At
  <2>2. valid /\ Fill(rx) <= Depth
    BY <2>1 DEF RxInv, RxPlace
  <2> QED BY <2>1, <2>2, ReceivingParts DEF ReadWord, fwVars, Inv, TypeOK
<1>2. PICK read \in Nat : read = Words(call.n) - call.todo
  BY <1>1, ReceivingParts
<1>3. PICK bytes : bytes = Least(4, call.space)
  OBVIOUS
<1>4. PICK place : place = call.total \div 4 + Words(call.n) - call.todo + 1
  OBVIOUS
<1>5. PICK got2 : got2 = IF bytes = 0 THEN call.got
                         ELSE call.got \cup {[place |-> place, slot |-> Front(rx), bytes |-> bytes]}
  OBVIOUS
<1>6. call' = [call EXCEPT !.todo = call.todo - 1, !.space = call.space - bytes, !.got = got2]
  BY <1>3, <1>4, <1>5 DEF ReadWord
<1>7. /\ call'.op = "receive" /\ call'.at = "body" /\ call'.n = call.n
      /\ call'.last = call.last /\ call'.todo = call.todo - 1
      /\ call'.total = call.total /\ call'.len = call.len /\ call'.space = call.space - bytes
      /\ call'.got = got2
  BY <1>1, <1>6 DEF Receiving
<1>8. Fill(rx) \in Nat /\ Fill(rx') \in Nat /\ Fill(rx') <= Fill(rx)
  BY <1>1, PopTakesOne, FillIsCount, DepthAssumption
<1>9. RxPlace'
  BY <1>1, <1>7, <1>8, DepthAssumption DEF RxInv, RxPlace, Fill
<1>10. RxStream(r)'
  <2>1. Fill(rx) > 0 /\ call.todo <= Fill(rx)
    <3>1. PICK at : HostHas(at[0], r)
      BY <1>1 DEF RxInv, RxStream
    <3>2. call.todo <= Fill(rx)
      BY <1>1, <3>1 DEF HostHas, At
    <3> QED BY <1>1, <1>8, <3>2
  <2>2. PICK c \in Places(put), d \in Places(put) :
          /\ HostHas(c, r) /\ Leads(put, c, Front(rx), d)
          /\ rx' = Pop(rx) /\ UNCHANGED <<put, mecsr, fw>> /\ HostHas(d, r)' => RxStream(r)'
    BY <1>1, <2>1, RxRead
  <2>3. PICK m \in DOMAIN put, left \in Nat : m = r + 1 /\ InPacket(c, m, left)
    BY <1>1, <2>2 DEF HostHas, At
  <2>4. /\ call.total % 4 = 0 /\ call.n > 0 /\ call.total + call.n + left = put[m]
        /\ left > 0 => call.n % 4 = 0
        /\ left = 0 <=> call.last
        /\ call.space = SpaceLeft(call.len, call.total + 4 * read)
        /\ call.got = CopiedWords(m, call.total \div 4 + read, call.len)
        /\ c.msg = m /\ c.left = left /\ c.todo = call.todo
    BY <1>1, <1>2, <2>3 DEF InPacket
  <2>5. /\ Front(rx) = Word(m, Words(put[m]) - Words(left) - call.todo + 1)
        /\ IF left = 0 /\ call.todo = 1 THEN After(put, m, d)
           ELSE d.msg = m /\ d.left = left /\ d.todo = call.todo - 1
    BY <1>1, <2>2, <2>4 DEF Leads, HeaderLeads, WordLeads
  <2>6. PICK k \in Nat : /\ k = call.total \div 4 + read /\ 4 * k = call.total + 4 * read
                         /\ Words(put[m]) - Words(left) - call.todo = k /\ place = k + 1
    <3>1. /\ call.total \div 4 \in Nat /\ call.total = 4 * (call.total \div 4)
          /\ Words(call.total + call.n + left) = call.total \div 4 + Words(call.n) + Words(left)
      <4>1. PICK total \in Nat, n \in Nat : /\ total = call.total /\ n = call.n
                                           /\ total % 4 = 0 /\ (left > 0 => n % 4 = 0)
        BY <1>1, <2>4
      <4>2. /\ total \div 4 \in Nat /\ total = 4 * (total \div 4)
            /\ Words(total + n + left) = total \div 4 + Words(n) + Words(left)
        <5>1. left \in Nat /\ total \in Nat /\ n \in Nat
          BY <2>3, <4>1
        <5>2. total % 4 = 0
          BY <4>1
        <5>3. left > 0 => n % 4 = 0
          BY <4>1
        <5> QED BY ONLY <5>1, <5>2, <5>3, WordsBefore, ZenonT(30)
      <4> QED BY <4>1, <4>2
    <3>2. PICK q \in Nat : q = call.total \div 4
      BY <3>1
    <3>3. PICK wn \in Nat, wl \in Nat : wn = Words(call.n) /\ wl = Words(left)
      BY <1>1, WordsIsNat
    <3>4. Words(put[m]) = q + wn + wl /\ call.total = 4 * q
      BY <2>4, <3>1, <3>2, <3>3
    <3>5. read = wn - call.todo /\ place = q + wn - call.todo + 1
      BY <1>2, <1>4, <3>2, <3>3
    <3>6. q + wn + wl - wl - call.todo = q + read /\ place = q + read + 1
      BY <1>1, <3>5
    <3>7. 4 * (q + read) = call.total + 4 * read /\ q + read \in Nat
      BY <1>2, <3>4
    <3>8. Words(put[m]) - Words(left) - call.todo = q + read
      BY <1>1, <3>3, <3>4, <3>6
    <3>9. q + read = call.total \div 4 + read
      BY <3>2
    <3> QED BY <3>6, <3>7, <3>8, <3>9
  <2>7. Front(rx) = Word(m, k + 1)
    BY <2>5, <2>6
  <2>8. /\ call.space - bytes = SpaceLeft(call.len, 4 * k + 4)
        /\ bytes = 0 <=> ~(4 * k < call.len)
        /\ 4 * k < call.len => bytes = Least(4, call.len - 4 * k)
    <3>1. 4 * k \in Nat /\ call.space = SpaceLeft(call.len, 4 * k)
      BY <2>4, <2>6
    <3> QED BY <1>1, <1>3, <3>1, SpaceShrinks
  <2>9. got2 = CopiedWords(m, k + 1, call.len)
    <3>1. call.got = CopiedWords(m, k, call.len)
      BY <2>4, <2>6
    <3>2. CASE 4 * k < call.len
      BY <1>1, <1>5, <2>6, <2>7, <2>8, <3>1, <3>2, CopiedMore
    <3>3. CASE ~(4 * k < call.len)
      BY <1>1, <1>5, <2>8, <3>1, <3>3, CopiedMore
    <3> QED BY <3>2, <3>3
  <2>10. PICK read2 : read2 = Words(call'.n) - call'.todo
    OBVIOUS
  <2>11. read2 = read + 1 /\ call.total + 4 * read2 = 4 * k + 4 /\ call.total \div 4 + read2 = k + 1
    <3>1. Words(call.n) \in Nat
      BY <1>1, WordsIsNat
    <3>2. read2 = read + 1
      BY <1>1, <1>2, <1>7, <2>10, <3>1
    <3>3. call.total \div 4 \in Nat
      BY <1>1
    <3>4. call.total + 4 * (read + 1) = call.total + 4 * read + 4
      BY <1>1, <1>2
    <3>5. call.total + 4 * read2 = 4 * k + 4
      BY <2>6, <3>2, <3>4
    <3>6. call.total \div 4 + read2 = k + 1
      BY <1>2, <2>6, <3>2, <3>3
    <3> QED BY <3>2, <3>5, <3>6
  <2>12. IF left = 0 /\ call'.todo = 0 THEN Boundary(d)' /\ Taken(d) = m
         ELSE d.msg = m /\ d.left = left /\ d.todo = call'.todo
    <3>1. CASE left = 0 /\ call.todo = 1
      BY <1>1, <1>7, <2>3, <2>5, <3>1 DEF After, Boundary, Taken, Between
    <3>2. CASE ~(left = 0 /\ call.todo = 1)
      BY <1>1, <1>7, <2>5, <3>2
    <3> QED BY <3>1, <3>2
  <2>13. InPacket(d, m, left)'
    BY <1>1, <1>7, <2>4, <2>8, <2>9, <2>10, <2>11, <2>12 DEF InPacket, Taken, Between
  <2>14. call'.todo <= Fill(rx')
    <3>1. Fill(rx') = Fill(rx) - 1
      BY <1>1, <2>1, PopContent
    <3> QED BY <1>1, <1>7, <1>8, <2>1, <3>1
  <2>15. HostHas(d, r)'
    BY <1>1, <1>7, <2>3, <2>13, <2>14 DEF HostHas, At, Fill
  <2> QED BY <1>1, <2>2, <2>15
<1> QED BY <1>9, <1>10 DEF RxInv

\* What is returned is the message after the first r.
NextIsReturned(r) ==
  /\ r + 1 \in DOMAIN put /\ ret'.len \in Bytes /\ ret'.total = put[r + 1]
  /\ ret'.got = Copied(r + 1, put[r + 1], ret'.len)

\* The last packet ends the call with the message, another one goes on with it.
LEMMA RxOfPackets ==
  ASSUME Inv, NEW r \in Nat, RxInv(r), ~mecsr.reset, PacketRead, ~Aborted
  PROVE  \/ ~ReceiveSucceeds /\ RxInv(r)'
         \/ ReceiveSucceeds /\ NextIsReturned(r) /\ RxInv(r + 1)'
<1>1. /\ call.op = "receive" /\ call.at = "body" /\ call \in Receiving /\ valid
      /\ call.todo = 0 /\ call.n \in Nat /\ call.total \in Nat /\ call.len \in Nat
      /\ call.last \in BOOLEAN
      /\ UNCHANGED <<rx, put, mecsr, fw>> /\ rx \in Buffers
  <2>1. call.op = "receive" /\ call.at = "body" /\ call.todo = 0
    BY DEF PacketRead, At
  <2>2. valid
    BY <2>1 DEF RxInv, RxPlace
  <2> QED BY <2>1, <2>2, ReceivingParts DEF PacketRead, fwVars, Inv, TypeOK
<1>2. PICK total : total = call.total + call.n
  OBVIOUS
<1>3. /\ call.last => Ends([op |-> "receive", status |-> "SUCCESS", len |-> call.len,
                            total |-> total, got |-> call.got])
      /\ ~call.last => /\ call' = [call EXCEPT !.at = "header", !.total = total,
                                               !.space = SpaceLeft(call.len, total)]
                       /\ UNCHANGED <<ret, valid>>
  BY <1>2, Zenon DEF PacketRead
<1>5. PICK at : Chain(rx, put, at) /\ HostHas(at[0], r) /\ FwAt(at[Fill(rx)])
  BY <1>1 DEF RxInv, RxStream
<1>6. PICK c \in Places(put) : c = at[0] /\ HostHas(c, r)
  BY <1>1, <1>5, ChainEnds, Zenon
<1>7. PICK w : w = at[Fill(rx)] /\ FwAt(w)
  BY <1>5, Zenon
<1>8. FwAt(w)'
  BY <1>1, <1>7 DEF FwAt
<1>9. ASSUME NEW q \in Nat, HostHas(c, q)' PROVE RxStream(q)'
  BY <1>1, <1>5, <1>6, <1>7, <1>8, <1>9 DEF RxStream, Fill
<1>10. PICK m \in DOMAIN put, left \in Nat : m = r + 1 /\ InPacket(c, m, left)
  BY <1>1, <1>6 DEF HostHas, At
<1>11. PICK wn \in Nat : wn = Words(call.n) /\ Words(call.n) - call.todo = wn
  BY <1>1, WordsIsNat
<1>12. /\ call.total % 4 = 0 /\ call.n > 0 /\ call.total + call.n + left = put[m]
       /\ left > 0 => call.n % 4 = 0
       /\ left = 0 <=> call.last
       /\ call.got = CopiedWords(m, call.total \div 4 + wn, call.len)
       /\ IF left = 0 THEN Boundary(c) /\ Taken(c) = m
          ELSE c.msg = m /\ c.left = left /\ c.todo = 0
  BY <1>1, <1>10, <1>11 DEF InPacket
<1>13. /\ Words(call.total + call.n) = call.total \div 4 + wn
       /\ left > 0 => total % 4 = 0 /\ total \div 4 = call.total \div 4 + wn
  <2>1. /\ Words(call.total + call.n) = call.total \div 4 + Words(call.n)
        /\ left > 0 => /\ (call.total + call.n) % 4 = 0
                       /\ (call.total + call.n) \div 4 = call.total \div 4 + Words(call.n)
    <3>1. PICK before \in Nat, n \in Nat : /\ before = call.total /\ n = call.n
                                          /\ before % 4 = 0 /\ (left > 0 => n % 4 = 0)
      BY <1>1, <1>12
    <3>2. /\ Words(before + n) = before \div 4 + Words(n)
          /\ left > 0 => (before + n) % 4 = 0 /\ (before + n) \div 4 = before \div 4 + Words(n)
      BY <3>1, WordsBefore
    <3> QED BY <3>1, <3>2
  <2> QED BY <1>2, <1>11, <2>1
<1>14. CASE call.last
  <2>1. /\ call' = Idle /\ valid' = valid
        /\ ret' = [op |-> "receive", status |-> "SUCCESS", len |-> call.len,
                   total |-> total, got |-> call.got]
    BY <1>1, <1>3, <1>14 DEF Ends
  <2>2. call'.op = "none"
    BY <2>1 DEF Idle
  <2>3. RxPlace'
    BY <1>1, <2>1, <2>2 DEF RxInv, RxPlace, Fill
  <2>4. PICK q \in Nat : q = r + 1 /\ q = m
    BY <1>10
  <2>5. HostHas(c, q)'
    BY <1>1, <1>12, <1>14, <2>2, <2>4 DEF HostHas, Boundary, Taken, Between, At
  <2>6. total = put[m] /\ total \in Nat /\ total = call.total + call.n
    BY <1>1, <1>2, <1>12, <1>14
  <2>7. call.got = Copied(m, put[m], call.len)
    <3>1. CopiedWords(m, Words(total), call.len) = Copied(m, total, call.len)
      BY <1>1, <2>6, CopiedAll
    <3> QED BY <1>12, <1>13, <2>6, <3>1
  <2>9. ReceiveSucceeds /\ NextIsReturned(r)
    <3>1. call.len \in Bytes
      BY <1>1, LengthAssumption, Zenon DEF Receiving, Bytes
    <3> QED BY <1>1, <2>1, <2>4, <2>6, <2>7, <3>1 DEF ReceiveSucceeds, NextIsReturned
  <2> QED BY <1>9, <2>3, <2>4, <2>5, <2>9 DEF RxInv
<1>15. CASE ~call.last
  <2>1. /\ call'.op = "receive" /\ call'.at = "header" /\ call'.total = total
        /\ call'.space = SpaceLeft(call.len, total) /\ call'.len = call.len
        /\ call'.got = call.got /\ UNCHANGED <<ret, valid>>
    <3>1. PICK space : space = SpaceLeft(call.len, total)
      OBVIOUS
    <3>2. call' = [call EXCEPT !.at = "header", !.total = total, !.space = space]
          /\ UNCHANGED <<ret, valid>>
      BY <1>3, <1>15, <3>1
    <3> QED BY <1>1, <3>1, <3>2 DEF Receiving
  <2>2. left > 0 /\ c.msg = m /\ c.left = left /\ c.todo = 0
    BY <1>12, <1>15
  <2>3. total \in Nat /\ total # 0 /\ total + c.left = put[c.msg] /\ total % 4 = 0
    BY <1>1, <1>2, <1>12, <1>13, <2>2
  <2>4. call.got = CopiedWords(c.msg, total \div 4, call.len)
    BY <1>12, <1>13, <2>2
  <2>5. BetweenPackets(c)'
    BY <1>1, <2>1, <2>2, <2>3, <2>4 DEF BetweenPackets
  <2>6. HostHas(c, r)'
    <3>1. Taken(c) = r
      BY <1>10, <2>2 DEF Taken, Between
    <3> QED BY <2>1, <2>5, <3>1 DEF HostHas, Taken, Between, At
  <2>7. RxPlace'
    BY <1>1, <2>1 DEF RxInv, RxPlace, Fill
  <2>8. ~ReceiveSucceeds
    BY <2>1 DEF ReceiveSucceeds, Idle
  <2> QED BY <1>9, <2>6, <2>7, <2>8 DEF RxInv
<1> QED BY <1>1, <1>14, <1>15

\* The firmware writes a slot and has come to place d.
LEMMA RxWritten ==
  ASSUME Inv, NEW r \in Nat, RxInv(r), NEW slot \in Slots, Fill(rx) < Depth, rx' = Push(rx, slot),
         UNCHANGED <<put, mecsr, call, valid>>, ~mecsr.reset,
         NEW d,
         \A w \in Places(put) :
           FwAt(w) => d \in Places(put) /\ Leads(put, w, slot, d) /\ FwAt(d)'
  PROVE  RxInv(r)'
<1>1. rx \in Buffers /\ Fill(rx) \in Nat /\ Fill(rx') = Fill(rx) + 1
  <2>1. rx \in Buffers
    BY DEF Inv, TypeOK
  <2> QED BY <2>1, PushAddsOne, FillIsCount, DepthAssumption
<1>2. Fill(rx') <= Depth
  BY <1>1, DepthAssumption
<1>3. RxPlace'
  BY <1>2 DEF RxInv, RxPlace, Fill
<1>4. ASSUME valid PROVE RxStream(r)'
  <2>1. PICK at : Chain(rx, put, at) /\ HostHas(at[0], r) /\ FwAt(at[Fill(rx)])
    BY <1>4 DEF RxInv, RxStream
  <2>2. PICK c : c = at[0] /\ HostHas(c, r)
    BY <2>1, Zenon
  <2>3. PICK w \in Places(put) : w = at[Fill(rx)] /\ FwAt(w)
    BY <1>1, <2>1, ChainEnds, Zenon
  <2>4. d \in Places(put) /\ Leads(put, at[Fill(rx)], slot, d) /\ FwAt(d)'
    BY <2>3
  <2>5. PICK at2 : Chain(Push(rx, slot), put, at2)
                   /\ at2[0] = at[0] /\ at2[Fill(Push(rx, slot))] = d
    BY <1>1, <2>1, <2>4, ChainWritten
  <2>6. HostHas(c, r)'
    <3>1. Fill(rx) <= Fill(rx') /\ Fill(rx') \in Nat
      BY <1>1
    <3> QED BY <1>1, <2>2, <3>1, ReceivingParts, HostHasSteady
  <2>7. at2[Fill(rx')] = d /\ at2[0] = c
    BY <2>2, <2>5
  <2> QED BY <2>4, <2>5, <2>6, <2>7 DEF RxStream, Fill
<1> QED BY <1>3, <1>4 DEF RxInv, RxStream

LEMMA RxOfFwHeaders ==
  ASSUME Inv, NEW r \in Nat, RxInv(r), NEW n \in Nat, n > 0, FwHeader(n)
  PROVE RxInv(r)'
<1>1. PICK left \in Nat, m \in Nat : left = fw.left /\ m = fw.out
  BY DEF Inv, TypeOK, FwStates
<1>2. /\ left > 0 /\ fw.todo = 0 /\ fw \in FwStates /\ m \in DOMAIN put /\ m \in Nat /\ m > 0
      /\ Words(left) <= Words(put[m]) /\ put[m] \in Nat
  <2>1. /\ left > 0 /\ fw.todo = 0 /\ fw \in FwStates /\ m \in DOMAIN put
        /\ Words(left) + 0 <= Words(put[m])
    BY <1>1 DEF FwHeader, Inv, TypeOK, FwPlace
  <2>2. m \in 1..Len(put) /\ put[m] \in Nat
    BY <2>1, PutBytes DEF Bytes
  <2>3. Words(left) <= Words(put[m])
    BY <2>1, WordsIsNat
  <2> QED BY <2>1, <2>2, <2>3
<1>3. n <= left /\ (n = left \/ n % 4 = 0) /\ left - n \in Nat
  BY <1>1, <1>2 DEF FwHeader
<1>4. Words(left - n) + Words(n) = Words(left) /\ Words(n) \in Nat
  BY <1>3, WordsSplit, WordsIsNat
<1>5. PICK slot \in Slots : slot = Header(m, n, n = left)
  <2>1. PICK last \in BOOLEAN : last = (n = left)
    OBVIOUS
  <2>2. Header(m, n, last) \in Slots
    BY <1>2 DEF Header, Slots
  <2> QED BY <2>1, <2>2, Zenon
<1>6. PICK d : d = [msg |-> m, left |-> left - n, todo |-> Words(n)]
  OBVIOUS
<1>7. /\ Fill(rx) < Depth /\ rx' = Push(rx, slot) /\ ~mecsr.reset
      /\ UNCHANGED <<put, mecsr, call, ret, valid>>
      /\ fw' = [fw EXCEPT !.left = left - n, !.todo = Words(n)]
  BY <1>1, <1>5 DEF FwHeader, LinkUp, MeReady
<1>8. fw'.left = left - n /\ fw'.todo = Words(n) /\ fw'.out = m
  <2>1. PICK todo : todo = Words(n)
    OBVIOUS
  <2> QED BY <1>1, <1>2, <1>7, <2>1 DEF FwStates
<1>9. m = Len(put) => FwAt(d)'
  BY <1>2, <1>6, <1>7, <1>8 DEF FwAt
<1>10. ASSUME NEW w \in Places(put), FwAt(w)
      PROVE  d \in Places(put) /\ Leads(put, w, slot, d) /\ FwAt(d)'
  <2>1. w.msg = m /\ w.left = left /\ w.todo = 0 /\ m = Len(put)
    BY <1>1, <1>2, <1>10 DEF FwAt
  <2>2. left <= put[m]
    BY <1>2, <2>1, PutBytes, PlaceParts
  <2>3. d \in Places(put)
    <3>1. m \in 0..Len(put)
      BY <1>2, PutBytes
    <3>2. left - n <= put[m] /\ Words(left - n) + Words(n) <= Words(put[m])
      BY <1>2, <1>3, <1>4, <2>2
    <3> QED BY <1>2, <1>3, <1>4, <1>6, <3>1, <3>2, PutBytes, PlaceIs
  <2>4. d.msg = m /\ d.left = left - n /\ d.todo = Words(n) /\ left - d.left = n
    BY <1>3, <1>6
  <2>5. d.left < left /\ (d.left = 0 \/ n % 4 = 0) /\ (d.left = 0 <=> n = left)
    BY <1>2, <1>3, <2>4
  <2>6. slot = Header(m, n, d.left = 0)
    BY <1>5, <2>5
  <2> QED BY <1>9, <2>1, <2>3, <2>4, <2>5, <2>6 DEF Leads, HeaderLeads
<1> QED BY <1>7, <1>10, RxWritten

LEMMA RxOfFwWords == ASSUME Inv, NEW r \in Nat, RxInv(r), FwWord PROVE RxInv(r)'
<1>1. PICK left \in Nat, todo \in Nat, m \in Nat : left = fw.left /\ todo = fw.todo /\ m = fw.out
  BY DEF Inv, TypeOK, FwStates
<1>2. /\ todo > 0 /\ fw \in FwStates /\ m \in DOMAIN put /\ m \in Nat /\ m > 0
      /\ Words(left) + todo <= Words(put[m]) /\ put[m] \in Nat
  <2>1. /\ todo > 0 /\ fw \in FwStates /\ m \in DOMAIN put
        /\ Words(left) + todo <= Words(put[m])
    BY <1>1 DEF FwWord, Inv, TypeOK, FwPlace
  <2>2. m \in 1..Len(put) /\ put[m] \in Nat
    BY <2>1, PutBytes DEF Bytes
  <2> QED BY <2>1, <2>2
<1>3. Words(left) \in Nat /\ Words(put[m]) \in Nat
  BY <1>2, WordsIsNat
<1>4. PICK k \in Nat : k = Words(put[m]) - Words(left) - todo + 1
  BY <1>2, <1>3
<1>5. PICK slot \in Slots : slot = Word(m, k)
  BY <1>2 DEF Word, Slots
<1>6. PICK d : d = [msg |-> m, left |-> left, todo |-> todo - 1]
  OBVIOUS
<1>7. PICK out : out = IF todo = 1 /\ left = 0 THEN 0 ELSE m
  OBVIOUS
<1>8. /\ Fill(rx) < Depth /\ rx' = Push(rx, slot) /\ ~mecsr.reset
      /\ UNCHANGED <<put, mecsr, call, ret, valid>>
      /\ fw' = [fw EXCEPT !.todo = todo - 1, !.out = out]
  BY <1>1, <1>4, <1>5, <1>7 DEF FwWord, LinkUp, MeReady
<1>9. fw'.left = left /\ fw'.todo = todo - 1 /\ fw'.out = out
  BY <1>1, <1>2, <1>8 DEF FwStates
<1>10. m = Len(put) => FwAt(d)'
  <2>1. CASE todo = 1 /\ left = 0
    BY <1>6, <1>7, <1>8, <1>9, <2>1 DEF FwAt, Between
  <2>2. CASE ~(todo = 1 /\ left = 0)
    BY <1>2, <1>6, <1>7, <1>8, <1>9, <2>2 DEF FwAt
  <2> QED BY <2>1, <2>2
<1>11. ASSUME NEW w \in Places(put), FwAt(w)
      PROVE  d \in Places(put) /\ Leads(put, w, slot, d) /\ FwAt(d)'
  <2>1. w.msg = m /\ w.left = left /\ w.todo = todo /\ m = Len(put)
    BY <1>1, <1>2, <1>11 DEF FwAt
  <2>2. left <= put[m]
    BY <1>2, <2>1, PutBytes, PlaceParts
  <2>3. d \in Places(put)
    <3>1. m \in 0..Len(put) /\ todo - 1 \in Nat
      BY <1>2, PutBytes
    <3>2. Words(left) + (todo - 1) <= Words(put[m])
      BY <1>2, <1>3
    <3> QED BY <1>2, <1>6, <2>2, <3>1, <3>2, PutBytes, PlaceIs
  <2>4. d.msg = m /\ d.left = left /\ d.todo = todo - 1
    BY <1>6
  <2> QED BY <1>2, <1>4, <1>5, <1>10, <2>1, <2>3, <2>4 DEF Leads, WordLeads, After
<1> QED BY <1>8, <1>11, RxWritten

\* What the host has read stays what it is when another message is begun; a host that
\* has read everything finds itself at the begin of that message.
LEMMA HostHasMore ==
  ASSUME Inv, NEW r \in Nat, NEW c \in Places(put), HostHas(c, r), UNCHANGED <<rx, call>>,
         \A i \in DOMAIN put : i \in DOMAIN put' /\ put'[i] = put[i],
         NEW d, \/ d = c
                \/ /\ Between(c) /\ d.todo = 0 /\ d.left = put'[d.msg] /\ d.left > 0
                   /\ d.msg = c.msg + 1
  PROVE  HostHas(d, r)'
<1>1. c.left \in Nat /\ c.todo \in Nat /\ c.msg \in Nat /\ (c.left > 0 => c.msg \in DOMAIN put)
  BY PutBytes, PlaceParts
<1>2. Taken(d)' = Taken(c)
  BY <1>1 DEF Taken, Between
<1>3. Boundary(c) => Boundary(d)'
  BY <1>1 DEF Boundary, Between
<1>4. ASSUME BetweenPackets(c) PROVE BetweenPackets(d)'
  <2>1. CASE d = c
    BY <1>1, <1>3, <1>4, <2>1 DEF BetweenPackets
  <2>2. CASE d # c
    <3>1. call.total = 0 /\ Boundary(c)
      BY <1>4, <2>2 DEF BetweenPackets, Between
    <3>2. call.got = CopiedWords(d.msg, call.total \div 4, call.len)
      <4>1. 0 \div 4 = 0
        OBVIOUS
      <4>2. call.got = {} /\ call.total \div 4 = 0
        BY <1>4, <3>1, <4>1, CopiedNothing DEF BetweenPackets
      <4> QED BY <4>2, CopiedNothing
    <3> QED BY <1>3, <1>4, <2>2, <3>1, <3>2 DEF BetweenPackets
  <2> QED BY <2>1, <2>2
<1>5. ASSUME NEW m \in DOMAIN put, NEW left \in Nat, InPacket(c, m, left)
      PROVE  m \in DOMAIN put' /\ InPacket(d, m, left)'
  <2>1. put'[m] = put[m] /\ m \in DOMAIN put'
    OBVIOUS
  <2>2. CASE left = 0 /\ call.todo = 0
    <3>1. Boundary(d)' /\ Taken(d)' = m
      BY <1>2, <1>3, <1>5, <2>2 DEF InPacket
    <3> QED BY <1>5, <2>1, <2>2, <3>1 DEF InPacket
  <2>3. CASE ~(left = 0 /\ call.todo = 0)
    <3>1. d = c
      BY <1>5, <2>3 DEF InPacket, Between
    <3> QED BY <1>5, <2>1, <2>3, <3>1 DEF InPacket
  <2> QED BY <2>2, <2>3
<1> HIDE DEF Boundary, BetweenPackets, InPacket
<1> QED BY <1>3, <1>4, <1>5, <1>2 DEF HostHas, At, Fill

LEMMA RxOfFwBegins ==
  ASSUME Inv, NEW r \in Nat, RxInv(r), NEW len \in FwLens, FwBegins(len)
  PROVE RxInv(r)'
<1>1. /\ len \in Bytes /\ len \in Nat /\ len > 0 /\ put \in Seq(Bytes) /\ rx \in Buffers
      /\ fw \in FwStates
  <2>1. len \in Bytes
    BY LengthAssumption, Zenon DEF Bytes
  <2> QED BY <2>1, PutBytes DEF Bytes, Inv, TypeOK
<1>2. PICK n \in Nat : n = Len(put) /\ DOMAIN put = 1..n
  BY <1>1, Begun
<1>3. PICK w : w = [msg |-> n + 1, left |-> len, todo |-> 0]
  OBVIOUS
<1>4. PICK new \in Seq(Bytes) : new = Append(put, len)
  BY <1>1, Begun
<1>5. /\ Len(new) = n + 1 /\ new[n + 1] = len /\ DOMAIN new = 1..(n + 1)
      /\ \A m \in 1..n : new[m] = put[m]
  BY <1>1, <1>2, <1>4, Begun
<1>6. /\ fw.out = 0 /\ ~mecsr.reset /\ put' = new
      /\ fw' = [fw EXCEPT !.out = n + 1, !.left = len]
      /\ UNCHANGED <<rx, mecsr, call, ret, valid>>
  BY <1>2, <1>4 DEF FwBegins, LinkUp, MeReady
<1>7. fw.todo = 0
  <2>1. fw.todo \in Nat /\ 0 \notin DOMAIN put
    BY <1>1, <1>2 DEF FwStates
  <2> QED BY <1>6, <2>1 DEF Inv, FwPlace
<1>8. fw'.out = n + 1 /\ fw'.left = len /\ fw'.todo = 0
  BY <1>1, <1>6, <1>7 DEF FwStates
<1>9. \A i \in DOMAIN put : i \in DOMAIN put' /\ put'[i] = put[i]
  BY <1>2, <1>5, <1>6
<1>10. RxPlace'
  BY <1>6 DEF RxInv, RxPlace, Fill
<1>11. ASSUME valid PROVE RxStream(r)'
  <2>1. PICK at : Chain(rx, put, at) /\ HostHas(at[0], r) /\ FwAt(at[Fill(rx)])
    BY <1>6, <1>11 DEF RxInv, RxStream
  <2>2. Between(at[Fill(rx)]) /\ at[Fill(rx)].msg = n
    BY <1>2, <1>6, <2>1 DEF FwAt
  <2>3. PICK at2 : /\ Chain(rx, new, at2) /\ at2[Fill(rx)] = w
                   /\ at2[0] = IF Fill(rx) = 0 THEN w ELSE at[0]
    BY <1>1, <1>2, <1>3, <1>4, <2>1, <2>2, ChainBegun
  <2>4. PICK c \in Places(put) : c = at[0] /\ HostHas(c, r)
    BY <1>1, <2>1, ChainEnds, Zenon
  <2>5. PICK d : d = at2[0]
    OBVIOUS
  <2>6. \/ d = c
        \/ /\ Between(c) /\ d.todo = 0 /\ d.left = put'[d.msg] /\ d.left > 0
           /\ d.msg = c.msg + 1
    BY <1>1, <1>3, <1>5, <1>6, <2>2, <2>3, <2>4, <2>5
  <2>7. HostHas(d, r)'
    BY <1>6, <1>9, <2>4, <2>6, HostHasMore
  <2>8. FwAt(w)'
    <3>1. n + 1 # 0
      OBVIOUS
    <3> QED BY <1>3, <1>5, <1>6, <1>8, <3>1 DEF FwAt
  <2> QED BY <1>6, <2>3, <2>5, <2>7, <2>8 DEF RxStream, Fill
<1> QED BY <1>6, <1>10, <1>11 DEF RxInv, RxStream

LEMMA RxOfFw ==
  ASSUME Inv, NEW r \in Nat, RxInv(r), FwReads \/ FwReady \/ UNCHANGED vars
  PROVE  RxInv(r)'
<1>1. UNCHANGED <<rx, put, call, valid>>
  BY DEF FwReads, FwReady, vars, fwVars
<1>2. fw'.out = fw.out /\ fw'.left = fw.left /\ fw'.todo = fw.todo
  <2>1. CASE FwReads
    <3>1. fw \in FwStates
      BY DEF Inv, TypeOK
    <3>2. \/ \E need, last, bytes : fw' = [fw EXCEPT !.need = need, !.last = last, !.bytes = bytes]
          \/ \E need, words, bytes : fw' = [fw EXCEPT !.need = need, !.words = words, !.bytes = bytes]
      <4>1. CASE fw.need = 0
        BY <2>1, <4>1, Zenon DEF FwReads
      <4>2. CASE fw.need # 0
        <5> DEFINE whole == fw.need = 1 /\ fw.last
        <5>1. PICK need, words, bytes :
                /\ need = fw.need - 1
                /\ words = IF whole THEN <<>> ELSE Append(fw.words, Front(tx))
                /\ bytes = IF whole THEN 0 ELSE fw.bytes
          OBVIOUS
        <5>2. fw' = [fw EXCEPT !.need = need, !.words = words, !.bytes = bytes]
          BY <2>1, <4>2, <5>1 DEF FwReads
        <5> QED BY <5>2, Zenon
      <4> QED BY <4>1, <4>2
    <3> QED BY <3>1, <3>2 DEF FwStates
  <2> QED BY <2>1 DEF FwReady, vars, fwVars
<1>3. mecsr'.reset = mecsr.reset
  BY DEF FwReads, FwReady, vars, Inv, TypeOK, Csrs
<1> QED BY <1>1, <1>2, <1>3, RxOfOthers

LEMMA RxAtFirst == ASSUME Init, Inv PROVE RxInv(0)
<1>1. rx = EmptyBuffer /\ Fill(rx) = 0 /\ call.op = "none" /\ ~valid /\ ~mecsr.reset
  BY EmptyHasNone DEF Init, Idle
<1> QED BY <1>1, DepthAssumption DEF RxInv, RxPlace, RxStream

LEMMA OnlyPacketsReturn ==
  ASSUME Inv, [Next]_vars, ReceiveSucceeds
  PROVE  PacketRead /\ ~Aborted
<1>1. call.op = "receive" /\ call.op # Idle.op /\ call' = Idle /\ ret'.status = "SUCCESS"
  BY DEF ReceiveSucceeds, Idle
<1>2. call' # call /\ call'.op # "receive"
  BY <1>1 DEF Idle
<1>3. ~Aborted
  <2>1. ASSUME Aborted PROVE ret'.status = "ABORTED"
    BY <2>1 DEF Aborted, Ends
  <2> QED BY <1>1, <2>1
<1>4. ~Calls
  BY <1>1 DEF Calls, HeciSend, HeciReceive, ResetHeciInterface, NoDevice, MayCall
<1>5. ~Firmware /\ ~UNCHANGED vars
  BY <1>2 DEF Firmware, FwTakesReset, FwResets, FwReady, FwReads, FwBegins, FwHeader, FwWord, vars
<1>6. ~(ReceiveReady \/ HeaderThere \/ PacketThere \/ StallEnds \/ ReadWord)
  BY <1>1, <1>2, SameCall
<1>7. ~ReadHeader
  <2> SUFFICES ASSUME ReadHeader PROVE FALSE
    OBVIOUS
  <2>1. PICK n, last, todo :
          call' = [call EXCEPT !.at = "gather", !.n = n, !.last = last, !.todo = todo]
    BY <1>3, Zenon DEF ReadHeader
  <2>2. call \in Receiving
    BY <1>1, CallKinds DEF Inv
  <2> QED BY <1>1, <1>2, <2>1, <2>2 DEF Receiving
<1>8. CallStep
  BY <1>4, <1>5 DEF Next
<1> QED BY <1>1, <1>3, <1>6, <1>7, <1>8
        DEF CallStep, FwNotReady, SendReady, WriteHeader, NoRoom, WriteWord, PacketWritten,
            NoHeader, PacketLate, ResetStarted, ResetTimesOut, ResetFinished, At

\* A step returns the next message of the firmware, or loses all of them by a reset, or
\* does neither.
LEMMA RxKept ==
  ASSUME OneHandle, Inv, ResetPlace, NEW r \in Nat, RxInv(r), [Next]_vars
  PROVE  /\ ResetFinished => \A n \in Nat : n = Len(put) => RxInv(n)'
         /\ ReceiveSucceeds /\ ~mecsr.reset => NextIsReturned(r) /\ RxInv(r + 1)'
         /\ ~ResetFinished /\ ~(ReceiveSucceeds /\ ~mecsr.reset) => RxInv(r)'
<1>1. CASE ResetFinished
  <2>1. ~ReceiveSucceeds
    BY <1>1 DEF ReceiveSucceeds, ResetFinished, At
  <2> QED BY <1>1, <2>1, RxAfresh
<1>2. CASE PacketRead /\ ~Aborted
  <2>1. ~ResetFinished
    BY <1>2 DEF PacketRead, ResetFinished, At
  <2> QED BY <1>2, <2>1, RxOfPackets, RxGarbled
<1>3. CASE ~ResetFinished /\ ~(PacketRead /\ ~Aborted)
  <2>1. ~ReceiveSucceeds
    BY <1>3, OnlyPacketsReturn
  <2>2. CASE Calls
    BY <1>3, <2>1, <2>2, RxOfSends, RxOfReceives DEF Calls
  <2>3. CASE CallStep
    <3>1. CASE PacketThere \/ StallEnds \/ ReadWord
      <4>1. call'.op = call.op /\ call.op = "receive"
        BY <3>1, SameCall DEF PacketThere, StallEnds, ReadWord, At
      <4>2. ~Aborted
        BY <4>1, AbortedIs DEF Aborted, Ends, Idle
      <4> QED BY <1>3, <2>1, <3>1, <4>2, RxGarbled, RxOfGathers, RxOfWords
    <3> QED BY <1>3, <2>1, <2>3, <3>1, RxOfAborts, RxOfSends, RxOfReceives, RxOfHeaders,
            RxGarbled DEF CallStep
  <2>4. CASE Firmware
    <3>1. ASSUME NEW n \in 1..Least(4 * Depth, 511), FwHeader(n) PROVE RxInv(r)'
      <4>1. n \in Nat /\ n > 0
        BY DepthAssumption DEF Least
      <4> QED BY <3>1, <4>1, RxOfFwHeaders
    <3> QED BY <1>3, <2>1, <2>4, <3>1, RxOfFw, RxOfFwBegins, RxOfFwWords, RxOfResets DEF Firmware
  <2>5. CASE UNCHANGED vars
    BY <1>3, <2>1, <2>5, RxOfFw
  <2> QED BY <2>2, <2>3, <2>4, <2>5 DEF Next
<1> QED BY <1>1, <1>2, <1>3

FwInOrder == \E r \in Nat : RxInv(r)

\* The firmware's buffer holds what comes between the host's place in the messages and
\* the firmware's, none left out, while the link is valid and the firmware has not reset
\* itself; one handle alone reads.
THEOREM FwBufferInOrder == ASSUME OneHandle PROVE Spec => []FwInOrder
<1>1. Init => FwInOrder
  BY Initially, RxAtFirst DEF FwInOrder
<1>2. Inv /\ ResetPlace /\ FwInOrder /\ [Next]_vars => FwInOrder'
  <2> SUFFICES ASSUME Inv, ResetPlace, NEW r \in Nat, RxInv(r), [Next]_vars
               PROVE  \E q \in Nat : RxInv(q)'
    BY DEF FwInOrder
  <2>1. PICK n \in Nat : n = Len(put)
    BY PutBytes
  <2>2. r + 1 \in Nat
    OBVIOUS
  <2> QED BY <2>1, <2>2, RxKept
<1> QED BY <1>1, <1>2, PlacesKept, ResetsTakePlace, PTL DEF Spec

\* HeciReceive and HeciPacketRead: a receive that succeeds returns one message of the
\* firmware, its length and all of it that the buffer holds, for every cut into packets
\* and every length of the buffer, unless the firmware has reset itself in the call and
\* is ready again; one handle alone reads.
THEOREM FwMessagesAreWhole == ASSUME OneHandle PROVE Spec => ReceivedWhole
<1>1. ASSUME Inv, ResetPlace, FwInOrder, Next, ReceiveSucceeds, ~ReadyAgain
      PROVE  \E i \in DOMAIN put :
               ret'.total = put[i] /\ ret'.got = Copied(i, put[i], ret'.len)
  <2>1. PICK r \in Nat : RxInv(r)
    BY <1>1 DEF FwInOrder
  <2>2. mecsr.ready
    <3>1. PacketRead /\ ~Aborted
      BY <1>1, OnlyPacketsReturn
    <3> QED BY <3>1, Zenon DEF PacketRead
  <2>3. ~mecsr.reset
    BY <1>1, <2>2 DEF ReadyAgain
  <2>4. NextIsReturned(r)
    BY <1>1, <2>1, <2>3, RxKept
  <2> QED BY <2>4 DEF NextIsReturned
<1>2. Inv /\ ResetPlace /\ FwInOrder /\ [Next]_vars =>
        [ReceiveSucceeds =>
           \/ ReadyAgain
           \/ \E i \in DOMAIN put :
                ret'.total = put[i] /\ ret'.got = Copied(i, put[i], ret'.len)]_vars
  BY <1>1
<1> QED BY <1>2, PlacesKept, ResetsTakePlace, FwBufferInOrder, PTL DEF Spec, ReceivedWhole
===============================================================================
