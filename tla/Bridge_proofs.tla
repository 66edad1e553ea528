---------------------------- MODULE Bridge_proofs ---------------------------
(***************************************************************************)
(* Proofs about Bridge, for buffers, capacities, spin limits and numbers   *)
(* of bytes of any size.                                                   *)
(***************************************************************************)
EXTENDS Bridge, SequenceTheorems, TLAPS

-----------------------------------------------------------------------------
(* Sequences *)

\* Cutting a sequence in two changes nothing of it.
LEMMA CutInTwo ==
    ASSUME NEW S, NEW q \in Seq(S), NEW n \in 1..Len(q)
    PROVE  /\ SubSeq(q, 1, n) \in Seq(S) /\ Len(SubSeq(q, 1, n)) = n
           /\ SubSeq(q, n + 1, Len(q)) \in Seq(S) /\ Len(SubSeq(q, n + 1, Len(q))) = Len(q) - n
           /\ SubSeq(q, 1, n) \o SubSeq(q, n + 1, Len(q)) = q
<1>1. Len(q) \in Nat /\ \A i \in 1..Len(q) : q[i] \in S
  BY LenProperties, ElementOfSeq
<1>2. SubSeq(q, 1, n) \in Seq(S) /\ Len(SubSeq(q, 1, n)) = n
  BY <1>1, SubSeqProperties
<1>3. SubSeq(q, n + 1, Len(q)) \in Seq(S) /\ Len(SubSeq(q, n + 1, Len(q))) = Len(q) - n
  BY <1>1, SubSeqProperties
<1>4. SubSeq(q, 1, n) \o SubSeq(q, n + 1, Len(q)) = SubSeq(q, 1, Len(q))
  BY <1>1, ConcatAdjacentSubSeq
<1> QED
  BY <1>2, <1>3, <1>4, SubSeqFull

\* Nor does moving its head to the end of another.
LEMMA HeadMoves ==
    ASSUME NEW S, NEW p \in Seq(S), NEW q \in Seq(S), q # <<>>
    PROVE  /\ Append(p, Head(q)) \in Seq(S) /\ Tail(q) \in Seq(S) /\ Len(Tail(q)) < Len(q)
           /\ Append(p, Head(q)) \o Tail(q) = p \o q
<1>1. Head(q) \in S /\ Tail(q) \in Seq(S) /\ Len(Tail(q)) = Len(q) - 1 /\ Len(q) \in Nat \ {0}
  BY HeadTailProperties, EmptySeq
<1>2. Append(p, Head(q)) = p \o <<Head(q)>> /\ Append(p, Head(q)) \in Seq(S)
  BY <1>1, AppendIsConcat, AppendProperties
<1>3. <<Head(q)>> \in Seq(S)
  BY <1>1
<1>4. Head(q) = q[1]
  OBVIOUS
<1>5. q = <<Head(q)>> \o Tail(q)
  BY <1>1, <1>4, SubSeqRecursiveFirst, SubSeqFull, TailIsSubSeq
<1>6. (p \o <<Head(q)>>) \o Tail(q) = p \o (<<Head(q)>> \o Tail(q))
  BY <1>1, <1>3, ConcatAssociative
<1> QED
  BY <1>1, <1>2, <1>5, <1>6

\* Concatenation of bytes, for any three sequences at once.
LEMMA Associative ==
    \A p, q, r \in Seq(Bytes) : /\ p \o q \in Seq(Bytes) /\ Len(p \o q) = Len(p) + Len(q)
                                /\ (p \o q) \o r = p \o (q \o r)
  BY ConcatProperties, ConcatAssociative

\* The bytes 1 to n in a row.
LEMMA Counting ==
    ASSUME NEW n \in Nat
    PROVE  /\ [k \in 1..n |-> k] \in Seq(1..n) /\ Len([k \in 1..n |-> k]) = n
           /\ Append([k \in 1..n |-> k], n + 1) = [k \in 1..(n + 1) |-> k]
<1>1. [k \in 1..n |-> k] \in Seq(1..n) /\ Len([k \in 1..n |-> k]) = n
  OBVIOUS
<1> QED
  BY <1>1

-----------------------------------------------------------------------------
(* The initial states *)

LEMMA InitEstablishes == Init => IndInv
<1> SUFFICES ASSUME Init
             PROVE  IndInv
  OBVIOUS
<1>0. <<>> \in Seq(Bytes) /\ Len(<<>>) = 0
  BY EmptySeq
<1>1. TypeOK
  <2>1. Len(buf) <= BufferSize /\ \A s \in Sides : Len(outbox[s]) <= Capacity
    BY <1>0, BufferAssumption, CapacityAssumption DEF Init
  <2>2. sent \in [Sides -> 0..MaxSent] /\ spins \in 0..(SpinLimit + 1)
    BY SentAssumption, SpinAssumption DEF Init
  <2> QED
    BY <1>0, <2>1, <2>2 DEF Init, TypeOK, Sides
<1>2. ASSUME NEW s \in Sides
      PROVE  Written(Other(s)) \o Carried(s) \o inbox[s] = [k \in 1..sent[s] |-> k]
  <2>1. Written(Other(s)) \o Carried(s) \o inbox[s] = (<<>> \o <<>>) \o <<>> \o <<>>
    BY DEF Init, Written, Carried, Other, Sides
  <2>2. sent[s] = 0
    BY DEF Init
  <2>3. [k \in 1..0 |-> k] = <<>>
    BY Counting, EmptySeq
  <2> QED
    BY <2>1, <2>2, <2>3, ConcatEmptySeq
<1> QED
  BY <1>1, <1>2, SpinAssumption
     DEF Init, IndInv, InOrder, DoneIsDrained, HeldWhileWriting, EndsWhenDone

-----------------------------------------------------------------------------
(* What every step relies on *)

LEMMA Shape ==
    ASSUME TypeOK, NEW s \in Sides
    PROVE  /\ Other(s) \in Sides /\ Other(s) # s /\ Other(Other(s)) = s
           /\ Written(s) \in Seq(Bytes) /\ Carried(s) \in Seq(Bytes) /\ inbox[s] \in Seq(Bytes)
<1>1. inbox[s] \in Seq(Bytes) /\ got[s] \in Seq(Bytes) /\ outbox[s] \in Seq(Bytes)
  BY DEF TypeOK
<1>2. Written(s) \in Seq(Bytes)
  BY <1>1, ConcatProperties DEF Written
<1>3. Carried(s) \in Seq(Bytes)
  BY EmptySeq DEF Carried, TypeOK
<1> QED
  BY <1>1, <1>2, <1>3 DEF Other, Sides

\* The next side may be taken up once the buffer is empty.
LEMMA NothingMoves ==
    ASSUME IndInv, UNCHANGED <<sent, inbox, outbox, got, buf>>, side' = side \/ buf = <<>>
    PROVE  InOrder'
<1> SUFFICES ASSUME NEW s \in Sides
             PROVE  (Written(Other(s)) \o Carried(s) \o inbox[s] = [k \in 1..sent[s] |-> k])'
  BY DEF InOrder
<1>1. Carried(s)' = Carried(s)
  BY DEF Carried
<1>2. Written(Other(s))' = Written(Other(s))
  BY DEF Written, Other
<1> QED
  BY <1>1, <1>2 DEF IndInv, InOrder

\* NextSide goes to a side, and not to a write.
LEMMA NextSideType ==
    ASSUME NextSide
    PROVE  side' \in Sides /\ pc' \in {"top", "read"}
  BY DEF NextSide, Sides

-----------------------------------------------------------------------------
(* The bridge's steps *)

LEMMA TopKeeps == ASSUME IndInv, Top PROVE IndInv'
<1>1. InOrder'
  BY NothingMoves DEF Top, peers
<1> QED
  BY <1>1 DEF IndInv, Top, peers, TypeOK, DoneIsDrained, HeldWhileWriting, EndsWhenDone

LEMMA ReadNothingKeeps == ASSUME IndInv, ReadNothing PROVE IndInv'
<1>1. buf = <<>> /\ ~err
  BY DEF IndInv, ReadNothing, HeldWhileWriting
<1>2. InOrder'
  BY <1>1, NothingMoves DEF ReadNothing, peers
<1> QED
  BY <1>1, <1>2, NextSideType
     DEF IndInv, ReadNothing, peers, TypeOK, DoneIsDrained, HeldWhileWriting, EndsWhenDone

LEMMA ReadEofKeeps == ASSUME IndInv, ReadEof PROVE IndInv'
<1>1. buf = <<>> /\ ~err
  BY DEF IndInv, ReadEof, HeldWhileWriting
<1>2. InOrder'
  BY <1>1, NothingMoves DEF ReadEof, peers
<1> QED
  BY <1>1, <1>2, NextSideType
     DEF IndInv, ReadEof, peers, TypeOK, DoneIsDrained, HeldWhileWriting, EndsWhenDone

\* What is read goes from the front of the inbox to the empty buffer.
LEMMA ReadSomeKeeps == ASSUME IndInv, ReadSome PROVE IndInv'
<1> USE DEF ReadSome, peers
<1>1. PICK n \in 1..BufferSize :
          /\ n <= Len(inbox[side])
          /\ buf' = SubSeq(inbox[side], 1, n)
          /\ inbox' = [inbox EXCEPT ![side] = SubSeq(@, n + 1, Len(@))]
  OBVIOUS
<1>2. buf = <<>> /\ ~err /\ side \in Sides /\ inbox[side] \in Seq(Bytes)
  BY DEF IndInv, HeldWhileWriting, TypeOK
<1>3. n \in 1..Len(inbox[side])
  BY <1>1, <1>2, BufferAssumption, LenProperties
<1>4. /\ buf' \in Seq(Bytes) /\ Len(buf') <= BufferSize /\ inbox'[side] \in Seq(Bytes)
      /\ buf' \o inbox'[side] = inbox[side]
  <2>1. inbox'[side] = SubSeq(inbox[side], n + 1, Len(inbox[side]))
    BY <1>1, <1>2 DEF IndInv, TypeOK
  <2> QED
    BY <1>1, <1>2, <1>3, <2>1, CutInTwo, BufferAssumption
<1>5. TypeOK'
  BY <1>1, <1>4, SpinAssumption DEF IndInv, TypeOK
<1>6. InOrder'
  <2> SUFFICES ASSUME NEW s \in Sides
               PROVE  (Written(Other(s)) \o Carried(s) \o inbox[s] = [k \in 1..sent[s] |-> k])'
    BY DEF InOrder
  <2>1. Written(Other(s))' = Written(Other(s)) /\ Written(Other(s)) \in Seq(Bytes)
    BY Shape DEF IndInv, Written, Other
  <2>2. Written(Other(s)) \o Carried(s) \o inbox[s] = [k \in 1..sent[s] |-> k]
    BY DEF IndInv, InOrder
  <2>3. CASE s = side
    <3>1. Carried(s) = <<>> /\ Carried(s)' = buf'
      BY <1>2, <2>3 DEF Carried
    <3>2. (Written(Other(s)) \o buf') \o inbox'[s] = Written(Other(s)) \o (buf' \o inbox'[s])
      <4>1. inbox'[s] \in Seq(Bytes) /\ buf' \in Seq(Bytes)
        BY <1>4, <2>3
      <4> HIDE DEF ReadSome, peers
      <4> QED
        BY <2>1, <4>1, Associative
    <3>3. Written(Other(s)) \o <<>> = Written(Other(s))
      BY <2>1, ConcatEmptySeq
    <3>4. sent' = sent
      BY <1>1
    <3> HIDE DEF ReadSome, peers
    <3>5. (Written(Other(s)) \o Carried(s) \o inbox[s])' = (Written(Other(s)) \o buf') \o inbox'[s]
      BY <2>1, <3>1
    <3>6. Written(Other(s)) \o Carried(s) \o inbox[s] = Written(Other(s)) \o inbox[s]
      BY <3>1, <3>3
    <3> QED
      BY <1>4, <2>2, <2>3, <3>2, <3>4, <3>5, <3>6
  <2>4. CASE s # side
    BY <1>1, <1>2, <2>1, <2>2, <2>4 DEF Carried, IndInv, TypeOK
  <2> QED
    BY <2>3, <2>4
<1>7. DoneIsDrained' /\ HeldWhileWriting' /\ EndsWhenDone'
  BY <1>1, <1>2, SpinAssumption
     DEF IndInv, TypeOK, DoneIsDrained, HeldWhileWriting, EndsWhenDone
<1> QED
  BY <1>5, <1>6, <1>7 DEF IndInv

LEMMA ReadFailsKeeps == ASSUME IndInv, ReadFails PROVE IndInv'
<1>1. InOrder'
  BY NothingMoves DEF ReadFails, peers
<1> QED
  BY <1>1 DEF IndInv, ReadFails, Fail, peers, TypeOK, DoneIsDrained, HeldWhileWriting, EndsWhenDone

\* What is written goes from the front of the buffer to the end of the outbox.
LEMMA WriteSomeKeeps == ASSUME IndInv, WriteSome PROVE IndInv'
<1> DEFINE to == Other(side)
<1>1. PICK n \in 1..Len(buf) :
          /\ n + Len(outbox[to]) <= Capacity
          /\ outbox' = [outbox EXCEPT ![to] = @ \o SubSeq(buf, 1, n)]
          /\ buf' = SubSeq(buf, n + 1, Len(buf))
  BY DEF WriteSome
<1>2. /\ pc = "write" /\ ~err /\ side \in Sides /\ buf \in Seq(Bytes) /\ ~done[side]
      /\ to \in Sides /\ to # side /\ outbox[to] \in Seq(Bytes) /\ got[to] \in Seq(Bytes)
      /\ inbox[side] \in Seq(Bytes) /\ Len(outbox[to]) \in Nat
  BY Shape, LenProperties DEF WriteSome, IndInv, HeldWhileWriting, TypeOK
<1> DEFINE moved == SubSeq(buf, 1, n)
<1>3. /\ moved \in Seq(Bytes) /\ Len(moved) = n
      /\ buf' \in Seq(Bytes) /\ Len(buf') = Len(buf) - n
      /\ moved \o buf' = buf
  BY <1>1, <1>2, CutInTwo
<1>4. /\ outbox'[to] = outbox[to] \o moved
      /\ \A s \in Sides \ {to} : outbox'[s] = outbox[s]
      /\ outbox' = [outbox EXCEPT ![to] = outbox[to] \o moved]
  BY <1>1, <1>2 DEF IndInv, TypeOK
<1>5. UNCHANGED <<sent, inbox, got, peer, stop, done, err>> /\ spins' = 0
  BY DEF WriteSome, peers
<1>6. /\ side' \in Sides /\ pc' \in {"top", "read", "write"}
      /\ (buf' # <<>> => side' = side /\ pc' = "write")
      /\ (buf' = <<>> => pc' # "write")
  BY <1>2, NextSideType DEF WriteSome
<1> HIDE DEF to, moved
<1>7. outbox'[to] \in Seq(Bytes) /\ Len(outbox'[to]) = Len(outbox[to]) + n
  <2>1. outbox[to] \o moved \in Seq(Bytes) /\ Len(outbox[to] \o moved) = Len(outbox[to]) + Len(moved)
    BY <1>2, <1>3, Associative, Zenon
  <2> QED
    BY <1>3, <1>4, <2>1
<1>8. TypeOK'
  <2>1. Len(buf') <= BufferSize
    BY <1>1, <1>2, <1>3, LenProperties, BufferAssumption DEF IndInv, TypeOK
  <2>2. outbox' \in [Sides -> Seq(Bytes)]
    BY <1>2, <1>4, <1>7 DEF IndInv, TypeOK
  <2>3. \A s \in Sides : Len(outbox'[s]) <= Capacity
    BY <1>1, <1>4, <1>7 DEF IndInv, TypeOK
  <2>4. spins' \in 0..(SpinLimit + 1)
    BY <1>5, SpinAssumption
  <2> QED
    BY <1>3, <1>5, <1>6, <2>1, <2>2, <2>3, <2>4 DEF IndInv, TypeOK
<1>9. InOrder'
  <2> SUFFICES ASSUME NEW s \in Sides
               PROVE  (Written(Other(s)) \o Carried(s) \o inbox[s] = [k \in 1..sent[s] |-> k])'
    BY DEF InOrder
  <2>1. Written(Other(s)) \o Carried(s) \o inbox[s] = [k \in 1..sent[s] |-> k]
    BY DEF IndInv, InOrder
  <2>2. CASE s = side
    <3>1. Carried(s) = buf /\ Carried(s)' = buf'
      BY <1>6, <2>2 DEF Carried
    <3>2. Other(s) = to /\ Other(s)' = to
      BY <2>2 DEF Other, to
    <3>3. Written(to) \in Seq(Bytes)
      BY <1>2, Associative DEF Written
    <3>4. Written(Other(s))' = got[to] \o (outbox[to] \o moved)
      BY <1>4, <1>5, <3>2 DEF Written
    <3>5. got[to] \o (outbox[to] \o moved) = Written(to) \o moved
      <4>1. got[to] \in Seq(Bytes) /\ outbox[to] \in Seq(Bytes) /\ moved \in Seq(Bytes)
        BY <1>2, <1>3
      <4>2. (got[to] \o outbox[to]) \o moved = got[to] \o (outbox[to] \o moved)
        BY <4>1, Associative, Zenon
      <4> QED
        BY <4>2 DEF Written
    <3>6. (Written(to) \o moved) \o buf' = Written(to) \o (moved \o buf')
      BY <1>3, <3>3, Associative
    <3>7. Written(Other(s))' \o Carried(s)' = Written(Other(s)) \o Carried(s)
      BY <1>3, <3>1, <3>2, <3>4, <3>5, <3>6
    <3> QED
      BY <1>5, <2>1, <3>7
  <2>3. CASE s # side
    <3>1. Carried(s) = <<>> /\ Carried(s)' = <<>>
      BY <1>6, <2>3 DEF Carried
    <3>2. Other(s) \in Sides \ {to} /\ Other(s)' = Other(s)
      BY <1>2, <2>3 DEF Other, Sides, to
    <3>3. Written(Other(s))' = Written(Other(s))
      BY <1>4, <1>5, <3>2 DEF Written
    <3> QED
      BY <1>5, <2>1, <3>1, <3>3
  <2> QED
    BY <2>2, <2>3
<1>10. DoneIsDrained' /\ HeldWhileWriting' /\ EndsWhenDone'
  <2>1. DoneIsDrained'
    BY <1>5 DEF IndInv, DoneIsDrained
  <2>2. HeldWhileWriting'
    BY <1>2, <1>5, <1>6, SpinAssumption DEF HeldWhileWriting
  <2>3. EndsWhenDone'
    BY <1>6 DEF EndsWhenDone
  <2> QED
    BY <2>1, <2>2, <2>3
<1> QED
  BY <1>8, <1>9, <1>10 DEF IndInv

LEMMA WriteBlockedKeeps == ASSUME IndInv, WriteBlocked PROVE IndInv'
<1>1. InOrder'
  BY NothingMoves DEF WriteBlocked, peers
<1>2. spins' \in 0..(SpinLimit + 1) /\ (spins' <= SpinLimit \/ spins' > SpinLimit)
  BY SpinAssumption DEF IndInv, WriteBlocked, TypeOK, HeldWhileWriting
<1> QED
  BY <1>1, <1>2
     DEF IndInv, WriteBlocked, Fail, peers, TypeOK, DoneIsDrained, HeldWhileWriting, EndsWhenDone

LEMMA WriteFailsKeeps == ASSUME IndInv, WriteFails PROVE IndInv'
<1>1. InOrder'
  BY NothingMoves DEF WriteFails, peers
<1> QED
  BY <1>1 DEF IndInv, WriteFails, Fail, peers, TypeOK, DoneIsDrained, HeldWhileWriting, EndsWhenDone

-----------------------------------------------------------------------------
(* The peers' steps *)

\* The next byte goes to the end of the inbox.
LEMMA SendKeeps == ASSUME IndInv, NEW s \in Sides, Send(s) PROVE IndInv'
<1> USE DEF Send, bridge
<1>1. sent[s] \in Nat /\ sent[s] + 1 \in Bytes /\ sent'[s] = sent[s] + 1
  BY SentAssumption DEF IndInv, TypeOK, Bytes
<1>2. inbox[s] \in Seq(Bytes)
  BY DEF IndInv, TypeOK
<1>3. inbox' = [inbox EXCEPT ![s] = Append(@, sent[s] + 1)]
  OBVIOUS
<1>4. inbox'[s] = Append(inbox[s], sent[s] + 1) /\ inbox'[s] \in Seq(Bytes)
  BY <1>1, <1>2, <1>3, AppendProperties DEF IndInv, TypeOK
<1>5. TypeOK'
  BY <1>1, <1>3, <1>4, SentAssumption DEF IndInv, TypeOK
<1>6. InOrder'
  <2> SUFFICES ASSUME NEW t \in Sides
               PROVE  (Written(Other(t)) \o Carried(t) \o inbox[t] = [k \in 1..sent[t] |-> k])'
    BY DEF InOrder
  <2>1. Written(Other(t)) \o Carried(t) \o inbox[t] = [k \in 1..sent[t] |-> k]
    BY DEF IndInv, InOrder
  <2>2. Written(Other(t))' = Written(Other(t)) /\ Carried(t)' = Carried(t)
    BY DEF Written, Other, Carried
  <2>3. CASE t = s
    <3> DEFINE before == Written(Other(t)) \o Carried(t)
    <3>1. before \in Seq(Bytes)
      BY Shape, ConcatProperties DEF IndInv
    <3>2. <<sent[s] + 1>> \in Seq(Bytes) /\ inbox'[s] = inbox[s] \o <<sent[s] + 1>>
      BY <1>1, <1>2, <1>4, AppendIsConcat
    <3>3. before \o inbox[s] \in Seq(Bytes)
      BY <1>2, <3>1, ConcatProperties
    <3>4. before \o (inbox[s] \o <<sent[s] + 1>>) = (before \o inbox[s]) \o <<sent[s] + 1>>
      <4> HIDE DEF before, Send, bridge
      <4> QED
        BY <1>2, <3>1, <3>2, Associative
    <3>5. (before \o inbox[s]) \o <<sent[s] + 1>> = Append(before \o inbox[s], sent[s] + 1)
      BY <1>1, <3>3, AppendIsConcat
    <3> HIDE DEF Send, bridge
    <3>6. (before \o inbox[t])' = Append(before \o inbox[s], sent[s] + 1)
      BY <2>2, <2>3, <3>2, <3>4, <3>5
    <3>7. before \o inbox[s] = [k \in 1..sent[s] |-> k]
      BY <2>1, <2>3
    <3>8. (before \o inbox[t])' = [k \in 1..(sent[s] + 1) |-> k]
      BY <1>1, <3>6, <3>7, Counting
    <3> QED
      BY <1>1, <2>3, <3>8
  <2>4. CASE t # s
    BY <1>3, <2>1, <2>2, <2>4 DEF IndInv, TypeOK
  <2> QED
    BY <2>3, <2>4
<1>7. DoneIsDrained' /\ HeldWhileWriting' /\ EndsWhenDone'
  BY <1>3 DEF IndInv, TypeOK, DoneIsDrained, HeldWhileWriting, EndsWhenDone
<1> QED
  BY <1>5, <1>6, <1>7 DEF IndInv

\* The head of the outbox goes to the end of what the peer has.
LEMMA TakeKeeps == ASSUME IndInv, NEW s \in Sides, Take(s) PROVE IndInv'
<1> USE DEF Take, bridge
<1>1. got[s] \in Seq(Bytes) /\ outbox[s] \in Seq(Bytes) /\ outbox[s] # <<>>
  BY DEF IndInv, TypeOK
<1>2. got' = [got EXCEPT ![s] = Append(@, Head(outbox[s]))]
  OBVIOUS
<1>3. outbox' = [outbox EXCEPT ![s] = Tail(@)]
  OBVIOUS
<1>4. /\ Append(got[s], Head(outbox[s])) \in Seq(Bytes)
      /\ Tail(outbox[s]) \in Seq(Bytes) /\ Len(Tail(outbox[s])) < Len(outbox[s])
      /\ Append(got[s], Head(outbox[s])) \o Tail(outbox[s]) = Written(s)
  BY <1>1, HeadMoves DEF Written
<1>5. TypeOK'
  <2>1. Len(Tail(outbox[s])) <= Capacity
    BY <1>1, <1>4, LenProperties, CapacityAssumption DEF IndInv, TypeOK
  <2>2. \A t \in Sides : got'[t] \in Seq(Bytes) /\ outbox'[t] \in Seq(Bytes) /\ Len(outbox'[t]) <= Capacity
    BY <1>2, <1>3, <1>4, <2>1 DEF IndInv, TypeOK
  <2> QED
    BY <2>2 DEF IndInv, TypeOK
<1>6. \A t \in Sides : Written(t)' = Written(t) /\ Carried(t)' = Carried(t)
  <2> TAKE t \in Sides
  <2>1. Carried(t)' = Carried(t)
    BY DEF Carried
  <2>2. CASE t = s
    BY <1>2, <1>3, <1>4, <2>1, <2>2 DEF Written, IndInv, TypeOK
  <2>3. CASE t # s
    BY <1>2, <1>3, <2>1, <2>3 DEF Written, IndInv, TypeOK
  <2> QED
    BY <2>2, <2>3
<1>7. InOrder'
  <2> SUFFICES ASSUME NEW t \in Sides
               PROVE  (Written(Other(t)) \o Carried(t) \o inbox[t] = [k \in 1..sent[t] |-> k])'
    BY DEF InOrder
  <2>1. Written(Other(t))' = Written(Other(t))
    BY <1>6, Shape DEF IndInv, Other
  <2> QED
    BY <1>6, <2>1 DEF IndInv, InOrder
<1>8. DoneIsDrained' /\ HeldWhileWriting' /\ EndsWhenDone'
  BY DEF IndInv, DoneIsDrained, HeldWhileWriting, EndsWhenDone
<1> QED
  BY <1>5, <1>7, <1>8 DEF IndInv

LEMMA CloseKeeps == ASSUME IndInv, NEW s \in Sides, Close(s) PROVE IndInv'
<1>1. InOrder'
  BY NothingMoves DEF Close, bridge
<1> QED
  BY <1>1 DEF IndInv, Close, bridge, TypeOK, DoneIsDrained, HeldWhileWriting, EndsWhenDone

LEMMA StopKeeps == ASSUME IndInv, Stop PROVE IndInv'
<1>1. InOrder'
  BY NothingMoves DEF Stop, bridge
<1> QED
  BY <1>1 DEF IndInv, Stop, bridge, TypeOK, DoneIsDrained, HeldWhileWriting, EndsWhenDone

LEMMA StepPreserves == IndInv /\ [Next]_vars => IndInv'
<1> SUFFICES ASSUME IndInv, [Next]_vars
             PROVE  IndInv'
  OBVIOUS
<1>1. CASE Step
  BY <1>1, TopKeeps, ReadNothingKeeps, ReadEofKeeps, ReadSomeKeeps, ReadFailsKeeps,
     WriteSomeKeeps, WriteBlockedKeeps, WriteFailsKeeps DEF Step, Moves
<1>2. CASE Stop
  BY <1>2, StopKeeps
<1>3. ASSUME NEW s \in Sides, Send(s) \/ Take(s) \/ Close(s)
      PROVE  IndInv'
  BY <1>3, SendKeeps, TakeKeeps, CloseKeeps
<1>4. CASE Returned \/ UNCHANGED vars
  <2>1. UNCHANGED vars
    BY <1>4 DEF Returned
  <2>2. InOrder'
    BY <2>1, NothingMoves DEF vars
  <2> QED
    BY <2>1, <2>2 DEF vars, IndInv, TypeOK, DoneIsDrained, HeldWhileWriting, EndsWhenDone
<1> QED
  BY <1>1, <1>2, <1>3, <1>4 DEF Next

-----------------------------------------------------------------------------
(* The theorems *)

\* Why bytes keep their order and none is left behind: what a side holds back is
\* only what it reads and writes at the moment (bridge_bidirectional).
THEOREM Invariance == Spec => []IndInv
  BY InitEstablishes, StepPreserves, PTL DEF Spec

\* Every variable keeps its type: the buffers keep to their sizes, and the spin
\* count never goes past the limit by more than one (write_all_nb).
THEOREM TypeCorrect == Spec => []TypeOK
<1>1. IndInv => TypeOK
  BY DEF IndInv
<1> QED
  BY <1>1, Invariance, PTL

\* Whatever the sizes of reads, writes and buffers, no byte is lost, repeated or
\* overtaken between what a peer sent and what the other took, however the
\* bridge ends (bridge_bidirectional, write_all_nb).
THEOREM BytesStayInOrder == Spec => []InOrder
<1>1. IndInv => InOrder
  BY DEF IndInv
<1> QED
  BY <1>1, Invariance, PTL

\* What a peer has taken is the beginning of what the other has sent: its k-th
\* byte is the k-th one.
PeersTakeInOrder == \A s \in Sides : \A k \in 1..Len(got[s]) : got[s][k] = k

THEOREM TakenIsABeginning == Spec => []PeersTakeInOrder
<1>1. ASSUME IndInv, NEW s \in Sides, NEW k \in 1..Len(got[s])
      PROVE  got[s][k] = k
  <2> DEFINE t == Other(s)
             rest == outbox[s] \o (Carried(t) \o inbox[t])
  <2>1. t \in Sides /\ Other(t) = s
    BY <1>1, Shape DEF IndInv
  <2>2. /\ got[s] \in Seq(Bytes) /\ outbox[s] \in Seq(Bytes) /\ Written(s) \in Seq(Bytes)
        /\ Carried(t) \in Seq(Bytes) /\ inbox[t] \in Seq(Bytes) /\ sent[t] \in Nat
    <3>1. TypeOK
      BY <1>1 DEF IndInv
    <3>2. /\ Carried(t) \in Seq(Bytes) /\ inbox[t] \in Seq(Bytes)
          /\ Written(Other(t)) \in Seq(Bytes)
      BY <2>1, <3>1, Shape
    <3>3. got[s] \in Seq(Bytes) /\ outbox[s] \in Seq(Bytes) /\ sent[t] \in Nat
      BY <2>1, <3>1, SentAssumption DEF TypeOK
    <3> HIDE DEF t
    <3> QED
      BY <2>1, <3>2, <3>3
  <2> HIDE DEF t
  <2>3. Carried(t) \o inbox[t] \in Seq(Bytes) /\ rest \in Seq(Bytes)
    BY <2>2, Associative
  <2>4. (Written(s) \o Carried(t)) \o inbox[t] = got[s] \o rest
    <3>1. (Written(s) \o Carried(t)) \o inbox[t] = Written(s) \o (Carried(t) \o inbox[t])
      <4>1. Written(s) \in Seq(Bytes) /\ Carried(t) \in Seq(Bytes) /\ inbox[t] \in Seq(Bytes)
        BY <2>2
      <4> QED
        BY <4>1, Associative, Zenon
    <3>2. Written(s) \o (Carried(t) \o inbox[t]) = got[s] \o rest
      <4> DEFINE later == Carried(t) \o inbox[t]
      <4>1. got[s] \in Seq(Bytes) /\ outbox[s] \in Seq(Bytes) /\ later \in Seq(Bytes)
        BY <2>2, <2>3
      <4>2. (got[s] \o outbox[s]) \o later = got[s] \o (outbox[s] \o later)
        <5> HIDE DEF later
        <5> QED
          BY <4>1, Associative, Zenon
      <4> QED
        BY <4>2 DEF Written
    <3> QED
      BY <3>1, <3>2
  <2> HIDE DEF rest
  <2>5. got[s] \o rest = [j \in 1..sent[t] |-> j]
    BY <1>1, <2>1, <2>4 DEF IndInv, InOrder
  <2>6. /\ Len(got[s]) \in Nat /\ Len(rest) \in Nat
        /\ Len(got[s] \o rest) = Len(got[s]) + Len(rest)
        /\ (got[s] \o rest)[k] = got[s][k]
    BY <2>2, <2>3, ConcatProperties, LenProperties
  <2> QED
    BY <2>2, <2>5, <2>6, Counting
<1>2. IndInv => PeersTakeInOrder
  BY <1>1 DEF PeersTakeInOrder
<1> QED
  BY <1>2, Invariance, PTL

\* A bridge that ends by itself has carried everything both peers sent: the end
\* of one direction does not cut the other short (a_done && b_done).
THEOREM NothingIsCutOff == Spec => []DrainedAtEnd
<1>1. ASSUME IndInv, pc = "returned", ~err, ~stop, NEW s \in Sides
      PROVE  Len(Written(Other(s))) = sent[s]
  <2>1. Carried(s) = <<>> /\ inbox[s] = <<>> /\ Written(Other(s)) \in Seq(Bytes)
    BY <1>1, Shape DEF IndInv, Carried, HeldWhileWriting, EndsWhenDone, DoneIsDrained
  <2>2. Written(Other(s)) \o <<>> \o <<>> = [k \in 1..sent[s] |-> k]
    BY <1>1, <2>1 DEF IndInv, InOrder
  <2>3. Written(Other(s)) = [k \in 1..sent[s] |-> k]
    BY <2>1, <2>2, ConcatEmptySeq
  <2> QED
    BY <1>1, <2>3, SentAssumption, Counting DEF IndInv, TypeOK
<1>2. IndInv => DrainedAtEnd
  BY <1>1 DEF DrainedAtEnd
<1> QED
  BY <1>2, Invariance, PTL
=============================================================================
