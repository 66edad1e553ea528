------------------------- MODULE HttpFraming_proofs -------------------------
(***************************************************************************)
(* Proofs about HttpFraming, for messages, caps, chunks and word widths of *)
(* any size, and any way the bytes may be cut.                             *)
(***************************************************************************)
EXTENDS HttpFraming, WellFoundedInduction, TLAPS

-----------------------------------------------------------------------------
(* Numbers *)

\* A usize holds what fits into it.
LEMMA Wraps ==
    ASSUME NEW M \in Nat \ {0}, NEW x \in Nat
    PROVE  /\ x % M \in Nat /\ x % M <= x
           /\ x < M => x % M = x
  OBVIOUS

Less == {p \in Nat \X Nat : p[1] < p[2]}

LEMMA LessIsWellFounded == IsWellFoundedOn(Less, Nat)
<1>1. Less = OpToRel(<, Nat)
  BY Zenon DEF Less, OpToRel
<1> QED
  BY <1>1, NatLessThanWellFounded, Zenon

LEMMA LeastOne ==
    ASSUME NEW S \in SUBSET Nat, S # {}
    PROVE  \E x \in S : \A y \in S : x <= y
<1>1. PICK x \in S : \A y \in S : ~(<<y, x>> \in Less)
  BY LessIsWellFounded, WFMin, Zenon
<1>2. ASSUME NEW y \in S
      PROVE  x <= y
  <2>1. <<y, x>> \in Nat \X Nat /\ <<y, x>>[1] = y /\ <<y, x>>[2] = x
    OBVIOUS
  <2>2. ~(y < x)
    BY <1>1, <2>1 DEF Less
  <2> QED
    BY <2>2
<1> QED
  BY <1>2

LEMMA MinIsThere ==
    ASSUME NEW S \in SUBSET Nat, S # {}
    PROVE  Min(S) \in S
  BY LeastOne DEF Min

LEMMA MaxIsThere ==
    ASSUME NEW n \in Nat, NEW S \in SUBSET (1..n), S # {}
    PROVE  Max(S) \in S
<1> DEFINE T == {n - i : i \in S}
<1>1. \A x \in T : x \in Nat
  OBVIOUS
<1>2. T # {}
  OBVIOUS
<1>3. PICK x \in T : \A y \in T : x <= y
  <2> HIDE DEF T
  <2> QED
    BY <1>1, <1>2, LeastOne
<1>4. PICK i \in S : x = n - i
  OBVIOUS
<1>5. ASSUME NEW j \in S
      PROVE  i >= j
  BY <1>3, <1>4
<1> QED
  BY <1>5 DEF Max

-----------------------------------------------------------------------------
(* What n bytes of a message say *)

LEMMA SizesFit ==
    ASSUME NEW m \in Messages
    PROVE  /\ Cap \in Nat \ {0} /\ Chunk \in Nat \ {0} /\ Modulus \in Nat \ {0}
           /\ m \in Message /\ m.size \in Nat /\ m.size + Cap + Chunk <= Modulus
<1>1. m \in Message /\ m.size \in Nat
  BY FramingAssumption DEF Message
<1>2. Cap \in Nat /\ Cap >= 1 /\ Chunk \in Nat /\ Chunk >= 1 /\ Modulus \in Nat
  BY FramingAssumption
<1>3. m.size + Cap + Chunk <= Modulus
  BY FramingAssumption
<1> QED
  BY <1>1, <1>2, <1>3

LEMMA StartIsThere ==
    ASSUME NEW m, NEW n \in Nat
    PROVE  BodyStart(m, n) \in 0..n
  BY DEF BodyStart

LEMMA LengthsAreNumbers ==
    ASSUME NEW m \in Messages, NEW n \in Nat
    PROVE  /\ ReadLength(m, n) \in Nat
           /\ ~Malformed(m, n) => ParseLength(m, n) \in Nat
<1>1. /\ DOMAIN m.lengths = 1..Len(m.lengths) /\ Len(m.lengths) \in Nat
      /\ \A i \in DOMAIN m.lengths : m.lengths[i].value \in Nat \cup {Bad}
  <2>1. m.lengths \in Seq([at : Nat, value : Nat \cup {Bad}])
    BY SizesFit DEF Message
  <2>2. ASSUME NEW R, NEW s \in Seq(R)
        PROVE  DOMAIN s = 1..Len(s) /\ Len(s) \in Nat /\ \A i \in DOMAIN s : s[i] \in R
    OBVIOUS
  <2>3. \A l \in [at : Nat, value : Nat \cup {Bad}] : l.value \in Nat \cup {Bad}
    OBVIOUS
  <2> QED
    BY <2>1, <2>2, <2>3
<1>2. HeadLengths(m, n) \subseteq 1..Len(m.lengths)
  BY <1>1 DEF HeadLengths
<1>3. ReadLength(m, n) \in Nat
  <2> DEFINE parsed == {i \in HeadLengths(m, n) : m.lengths[i].value # Bad}
  <2>1. CASE ~m.utf8 \/ parsed = {}
    BY <2>1 DEF ReadLength
  <2>2. CASE m.utf8 /\ parsed # {}
    <3>1. Min(parsed) \in parsed
      <4>1. parsed \in SUBSET Nat /\ parsed # {}
        BY <1>2, <2>2
      <4> HIDE DEF parsed
      <4> QED
        BY <4>1, MinIsThere
    <3>2. ReadLength(m, n) = m.lengths[Min(parsed)].value
      BY <2>2 DEF ReadLength
    <3> HIDE DEF parsed
    <3>3. m.lengths[Min(parsed)].value # Bad /\ Min(parsed) \in DOMAIN m.lengths
      BY <1>1, <1>2, <3>1 DEF parsed
    <3> QED
      BY <1>1, <3>2, <3>3
  <2> QED
    BY <2>1, <2>2
<1>4. ASSUME ~Malformed(m, n)
      PROVE  ParseLength(m, n) \in Nat
  <2>1. CASE HeadLengths(m, n) = {}
    BY <2>1 DEF ParseLength
  <2>2. CASE HeadLengths(m, n) # {}
    <3>1. Max(HeadLengths(m, n)) \in HeadLengths(m, n)
      BY <1>1, <1>2, <2>2, MaxIsThere
    <3>2. ParseLength(m, n) = m.lengths[Max(HeadLengths(m, n))].value
      BY <2>2 DEF ParseLength
    <3> QED
      BY <1>1, <1>2, <1>4, <3>1, <3>2 DEF Malformed
  <2> QED
    BY <2>1, <2>2
<1> QED
  BY <1>3, <1>4

Results(n) == [kind : Errors \cup {"pending", "request"}, body : 0..n]

LEMMA ParseReturns ==
    ASSUME NEW m \in Messages, NEW n \in Nat
    PROVE  /\ Parse(m, n) \in Results(n) /\ AtEof(m, n) \in Results(n)
           /\ Parse(m, n).kind \in {"request", "malformed", "panic"}
           /\ AtEof(m, n).kind \in {"request", "malformed", "panic", "empty", "truncated"}
<1> DEFINE start == BodyStart(m, n)
           end == (start + ParseLength(m, n)) % Modulus
<1>1. start \in 0..n
  BY StartIsThere
<1>2. ~Malformed(m, n) => end \in Nat
  BY <1>1, LengthsAreNumbers, SizesFit, Wraps
<1>3. Parse(m, n) = IF Malformed(m, n) THEN Error("malformed")
                    ELSE IF end > n THEN Request(n - start)
                    ELSE IF end < start THEN Error("panic") ELSE Request(end - start)
  BY DEF Parse
<1> HIDE DEF start, end
<1>4. /\ Parse(m, n) \in Results(n)
      /\ Parse(m, n).kind \in {"request", "malformed", "panic"}
  BY <1>1, <1>2, <1>3 DEF Results, Error, Request, Errors
<1> QED
  BY <1>4 DEF AtEof, Results, Error, Errors

-----------------------------------------------------------------------------
(* The inductive invariant *)

LEMMA InitEstablishes == Init => FramingInv
<1> SUFFICES ASSUME Init
             PROVE  FramingInv
  OBVIOUS
<1>0. msg \in Messages
  BY DEF Init
<1>1. msg.size \in Nat /\ Cap + Chunk > 0 /\ AnswerSize \in Nat
  BY <1>0, SizesFit, FramingAssumption
<1>2. TypeOK
  <2>1. 0 \in 0..msg.size /\ 0 \in 0..0 /\ 0 \in 0..AnswerSize
    BY <1>1
  <2>2. Pending \in [kind : Errors \cup {"pending", "request"}, body : 0..msg.size]
    BY <2>1 DEF Pending
  <2> QED
    BY <1>0, <2>1, <2>2 DEF Init, TypeOK
<1>3. ~Enough(msg, 0)
  BY DEF Enough, BodyStart
<1>4. ReadingInOrder
  BY <1>1, <1>3 DEF Init, ReadingInOrder, Pending
<1>5. AnswerInOrder
  BY DEF Init, AnswerInOrder
<1> QED
  BY <1>2, <1>4, <1>5 DEF FramingInv

\* What the steps of the other side, and those that follow the reading, leave
\* alone.
LEMMA ReadingUntouched ==
    ASSUME FramingInv, UNCHANGED <<msg, have, request>>,
           server' = "reading" => server = "reading",
           closed => closed' /\ sent' = sent
    PROVE  ReadingInOrder'
  BY DEF FramingInv, ReadingInOrder, Enough, Parse, AtEof, BodyStart, ReadLength, HeadLengths,
         ParseLength, Malformed

LEMMA ReadKeeps == ASSUME FramingInv, Read PROVE FramingInv'
<1>0. /\ server = "reading" /\ have < Cap /\ msg \in Messages /\ have \in Nat /\ sent \in 0..msg.size
      /\ request = Pending
  BY DEF Read, MayRead, FramingInv, TypeOK, ReadingInOrder
<1>1. PICK n \in 1..Chunk :
          /\ have + n <= sent /\ have' = have + n
          /\ IF Enough(msg, have + n) THEN Returns(Parse(msg, have + n))
             ELSE UNCHANGED <<request, server>>
  BY DEF Read
<1>2. UNCHANGED <<msg, sent, closed, acted, status, wrote, client>>
  BY DEF Read, answer
<1>3. have' \in 0..sent /\ have' < Cap + Chunk /\ have' \in Nat
  BY <1>0, <1>1, SizesFit
<1>4. CASE ~Enough(msg, have + n)
  <2>1. UNCHANGED <<request, server>> /\ ~Enough(msg', have')
    BY <1>1, <1>2, <1>4
  <2>2. TypeOK'
    BY <1>2, <1>3, <2>1 DEF FramingInv, TypeOK
  <2>3. ReadingInOrder'
    BY <1>0, <1>3, <2>1 DEF ReadingInOrder, Pending
  <2>4. AnswerInOrder'
    BY <1>2, <2>1 DEF FramingInv, AnswerInOrder
  <2> QED
    BY <2>2, <2>3, <2>4 DEF FramingInv
<1>5. CASE Enough(msg, have + n)
  <2>1. /\ request' = Parse(msg', have') /\ Enough(msg', have')
        /\ server' = IF request'.kind = "request" THEN "routing" ELSE "closed"
    BY <1>1, <1>2, <1>5 DEF Returns
  <2>2. /\ request' \in Results(msg.size)
        /\ request'.kind \in {"request", "malformed", "panic"}
    <3>1. /\ Parse(msg, have') \in Results(have')
          /\ Parse(msg, have').kind \in {"request", "malformed", "panic"}
      BY <1>0, <1>3, ParseReturns
    <3>2. 0..have' \subseteq 0..msg.size
      BY <1>0, <1>3, SizesFit
    <3> QED
      BY <1>2, <2>1, <3>1, <3>2 DEF Results
  <2>3. TypeOK'
    BY <1>2, <1>3, <2>1, <2>2 DEF FramingInv, TypeOK, Results
  <2>4. ReadingInOrder'
    BY <1>3, <2>1, <2>2 DEF ReadingInOrder
  <2>5. AnswerInOrder'
    BY <1>0, <1>2 DEF FramingInv, AnswerInOrder
  <2> QED
    BY <2>3, <2>4, <2>5 DEF FramingInv
<1> QED
  BY <1>4, <1>5

LEMMA ReadEofKeeps == ASSUME FramingInv, ReadEof PROVE FramingInv'
<1>0. /\ server = "reading" /\ closed /\ have = sent /\ msg \in Messages
      /\ have \in 0..msg.size /\ have < Cap + Chunk /\ ~Enough(msg, have)
      /\ UNCHANGED <<msg, sent, closed, have, acted, status, wrote, client>>
  BY DEF ReadEof, FramingInv, TypeOK, ReadingInOrder, answer
<1>1. /\ request' = AtEof(msg', have') /\ ~Enough(msg', have')
      /\ server' = IF request'.kind = "request" THEN "routing" ELSE "closed"
  BY <1>0 DEF ReadEof, Returns
<1>2. /\ request' \in Results(msg.size)
      /\ request'.kind \in {"request", "malformed", "panic", "empty", "truncated"}
  <2>1. /\ AtEof(msg, have) \in Results(have)
        /\ AtEof(msg, have).kind \in {"request", "malformed", "panic", "empty", "truncated"}
    BY <1>0, SizesFit, ParseReturns
  <2>2. 0..have \subseteq 0..msg.size
    BY <1>0, SizesFit
  <2> QED
    BY <1>0, <1>1, <2>1, <2>2 DEF Results
<1>3. TypeOK'
  BY <1>0, <1>1, <1>2 DEF FramingInv, TypeOK, Results
<1>4. ReadingInOrder'
  BY <1>0, <1>1, <1>2 DEF ReadingInOrder
<1>5. AnswerInOrder'
  BY <1>0 DEF FramingInv, AnswerInOrder
<1> QED
  BY <1>3, <1>4, <1>5 DEF FramingInv

\* The loop gives up: at the cap, or when the socket fails.
LEMMA GivingUpKeeps == ASSUME FramingInv, TooLong \/ ReadFails PROVE FramingInv'
<1>0. /\ server = "reading" /\ ~Enough(msg, have) /\ have < Cap + Chunk
      /\ UNCHANGED <<msg, sent, closed, have, acted, status, wrote, client>>
      /\ msg \in Messages /\ have \in 0..sent /\ sent \in 0..msg.size
  BY DEF TooLong, ReadFails, answer, FramingInv, TypeOK, ReadingInOrder
<1>1. /\ \/ request' = Error("oversized") /\ have >= Cap
         \/ request' = Error("io")
      /\ server' = "closed"
  BY <1>0, SizesFit DEF TooLong, ReadFails, Returns, Error, MayRead
<1>2. ~Enough(msg', have')
  BY <1>0
<1>3. TypeOK'
  BY <1>0, <1>1, SizesFit DEF FramingInv, TypeOK, Error, Errors
<1>4. ReadingInOrder'
  BY <1>0, <1>1, <1>2 DEF ReadingInOrder, Error
<1>5. AnswerInOrder'
  BY <1>0 DEF FramingInv, AnswerInOrder
<1> QED
  BY <1>3, <1>4, <1>5 DEF FramingInv

\* A 200 is written for a request that was carried out.
LEMMA AnsweringKeeps == ASSUME FramingInv, Route \/ Write \/ Cut PROVE FramingInv'
<1>1. TypeOK'
  <2>1. CASE Route
    BY <2>1 DEF Route, FramingInv, TypeOK, Whole
  <2>2. CASE Write
    <3>1. wrote \in 0..AnswerSize /\ AnswerSize \in Nat
      BY FramingAssumption DEF FramingInv, TypeOK
    <3>2. wrote' \in 0..AnswerSize
      BY <2>2, <3>1 DEF Write
    <3> QED
      BY <2>2, <3>2 DEF Write, FramingInv, TypeOK
  <2>3. CASE Cut
    BY <2>3 DEF Cut, answer, FramingInv, TypeOK
  <2> QED
    BY <2>1, <2>2, <2>3
<1>2. ReadingInOrder'
  BY ReadingUntouched DEF Route, Write, Cut
<1>3. AnswerInOrder'
  BY DEF Route, Write, Cut, answer, FramingInv, AnswerInOrder
<1> QED
  BY <1>1, <1>2, <1>3 DEF FramingInv

LEMMA PeerKeeps ==
    ASSUME FramingInv, PeerSends \/ PeerCloses \/ ClientReads \/ ClientTimesOut
    PROVE  FramingInv'
<1>1. TypeOK'
  <2>1. CASE PeerSends
    <3>1. sent \in 0..msg.size /\ have \in 0..sent /\ msg.size \in Nat
      BY SizesFit DEF FramingInv, TypeOK
    <3>2. sent' \in 0..msg.size /\ have \in 0..sent'
      BY <2>1, <3>1 DEF PeerSends
    <3> QED
      BY <2>1, <3>2 DEF PeerSends, answer, FramingInv, TypeOK
  <2>2. CASE PeerCloses \/ ClientReads \/ ClientTimesOut
    <3>1. /\ UNCHANGED <<msg, sent, have, server, request, acted, status, wrote>>
          /\ closed' = TRUE /\ client' \in {"ok", "failed"}
      BY <2>2 DEF PeerCloses, ClientReads, ClientTimesOut, answer
    <3> QED
      BY <3>1 DEF FramingInv, TypeOK
  <2> QED
    BY <2>1, <2>2
<1>2. ReadingInOrder'
  BY ReadingUntouched DEF PeerSends, PeerCloses, ClientReads, ClientTimesOut, answer
<1>3. AnswerInOrder'
  BY DEF PeerSends, PeerCloses, ClientReads, ClientTimesOut, answer, FramingInv, AnswerInOrder, AnswerOk
<1> QED
  BY <1>1, <1>2, <1>3 DEF FramingInv

LEMMA StepPreserves == FramingInv /\ [Next]_vars => FramingInv'
<1> SUFFICES ASSUME FramingInv, [Next]_vars
             PROVE  FramingInv'
  OBVIOUS
<1>1. CASE UNCHANGED vars
  <2>1. ReadingInOrder'
    BY <1>1, ReadingUntouched DEF vars
  <2> QED
    BY <1>1, <2>1 DEF vars, FramingInv, TypeOK, AnswerInOrder
<1> QED
  BY <1>1, ReadKeeps, ReadEofKeeps, GivingUpKeeps, AnsweringKeeps, PeerKeeps
     DEF Next, ServerStep, Finished

-----------------------------------------------------------------------------
(* What holds in every state *)

\* The inductive invariant: whatever is sent, in whatever pieces, and wherever
\* the connection ends.
THEOREM Invariance == Spec => []FramingInv
  BY InitEstablishes, StepPreserves, PTL DEF Spec

\* The variables of HttpFraming keep their types.
THEOREM TypeCorrect == Spec => []TypeOK
<1>1. FramingInv => TypeOK
  BY DEF FramingInv
<1> QED
  BY Invariance, <1>1, PTL

\* bastion_client.rs:77-84: post_json returns Ok only for what was carried out.
THEOREM OkIsEarned == Spec => []OkMeansActed
<1>1. FramingInv => OkMeansActed
  BY DEF FramingInv, AnswerInOrder, OkMeansActed
<1> QED
  BY Invariance, <1>1, PTL

\* A message of one line ending and one length: where its body starts, once
\* that is there, and how long it is.
LEMMA PlainIsSimple ==
    ASSUME NEW m \in Messages, Plain(m), NEW n \in Nat
    PROVE  LET start == m.crlf + m.lf
               length == IF \E i \in DOMAIN m.lengths : m.lengths[i].at < start
                         THEN m.lengths[1].value ELSE 0
           IN  /\ start \in Nat /\ length \in 0..m.size
               /\ BodyStart(m, n) = IF start <= n THEN start ELSE 0
               /\ start \in 1..n => /\ ReadLength(m, n) = length
                                    /\ ParseLength(m, n) = length
                                    /\ ~Malformed(m, n)
<1> DEFINE start == m.crlf + m.lf
           length == IF \E i \in DOMAIN m.lengths : m.lengths[i].at < start
                     THEN m.lengths[1].value ELSE 0
<1>1. m.crlf \in Nat /\ m.lf \in Nat /\ m.size \in Nat
  BY SizesFit DEF Message
<1>2. m.utf8 /\ (m.crlf = 0 \/ m.lf = 0)
  BY DEF Plain
<1>3. start \in Nat /\ BodyStart(m, n) = IF start <= n THEN start ELSE 0
  BY <1>1, <1>2 DEF BodyStart
<1>4. /\ DOMAIN m.lengths \subseteq {1}
      /\ \A i \in DOMAIN m.lengths : m.lengths[i].value # Bad /\ m.lengths[i].value \in 0..m.size
  <2>1. m.lengths \in Seq([at : Nat, value : Nat \cup {Bad}])
    BY SizesFit DEF Message
  <2>2. ASSUME NEW R, NEW s \in Seq(R), Len(s) <= 1
        PROVE  DOMAIN s \subseteq {1} /\ \A i \in DOMAIN s : s[i] \in R
    BY <2>2
  <2>3. \A l \in [at : Nat, value : Nat \cup {Bad}] : l.value \in Nat \cup {Bad}
    OBVIOUS
  <2>4. /\ DOMAIN m.lengths \subseteq {1}
        /\ \A i \in DOMAIN m.lengths : m.lengths[i].value \in Nat \cup {Bad}
    <3>1. Len(m.lengths) <= 1
      BY DEF Plain
    <3>2. DOMAIN m.lengths \subseteq {1} /\ \A i \in DOMAIN m.lengths : m.lengths[i] \in [at : Nat, value : Nat \cup {Bad}]
      BY <2>1, <2>2, <3>1
    <3> QED
      BY <2>3, <3>2
  <2>5. \A i \in DOMAIN m.lengths : m.lengths[i].value # Bad /\ m.lengths[i].value <= m.size
    BY DEF Plain
  <2> QED
    BY <1>1, <2>4, <2>5
<1>5. length \in 0..m.size
  BY <1>1, <1>4
<1>6. ASSUME start \in 1..n
      PROVE  ReadLength(m, n) = length /\ ParseLength(m, n) = length /\ ~Malformed(m, n)
  <2>1. HeadLengths(m, n) = {i \in DOMAIN m.lengths : m.lengths[i].at < start}
    BY <1>3, <1>6 DEF HeadLengths
  <2>2. HeadLengths(m, n) = {} \/ HeadLengths(m, n) = {1}
    BY <1>4, <2>1
  <2>3. Min({1}) = 1 /\ Max({1}) = 1
    BY DEF Min, Max
  <2>4. {i \in HeadLengths(m, n) : m.lengths[i].value # Bad} = HeadLengths(m, n)
    BY <1>4, <2>1
  <2> QED
    BY <1>2, <1>4, <2>1, <2>2, <2>3, <2>4 DEF ReadLength, ParseLength, Malformed
<1> QED
  BY <1>3, <1>5, <1>6

\* read_request, http.rs:165: no request that fits the cap is refused, and the
\* buffer stays within one read of it.
THEOREM CapIsKept == Spec => []CapHolds
<1>1. FramingInv => CapHolds
  <2> SUFFICES ASSUME FramingInv
               PROVE  CapHolds
    OBVIOUS
  <2>1. have < Cap + Chunk /\ msg \in Messages /\ have \in 0..msg.size
    <3>1. msg \in Messages /\ sent \in 0..msg.size /\ have \in 0..sent /\ have < Cap + Chunk
      BY DEF FramingInv, TypeOK, ReadingInOrder
    <3> QED
      BY <3>1, SizesFit
  <2>2. ASSUME request.kind = "oversized", Plain(msg), Meaning(msg, msg.size).kind = "request"
        PROVE  BodyStart(msg, msg.size) + ReadLength(msg, msg.size) > Cap
    <3> DEFINE start == msg.crlf + msg.lf
               length == IF \E i \in DOMAIN msg.lengths : msg.lengths[i].at < start
                         THEN msg.lengths[1].value ELSE 0
    <3>0. msg.size \in Nat /\ Cap \in Nat /\ Modulus \in Nat \ {0} /\ have \in Nat
      BY <2>1, SizesFit
    <3>1. have >= Cap /\ ~Enough(msg, have)
      BY <2>2 DEF FramingInv, ReadingInOrder
    <3>2. start \in 1..msg.size
      <4>1. msg.crlf \in Nat /\ msg.lf \in Nat
        BY <2>1, SizesFit DEF Message
      <4> QED
        BY <2>2, <3>0, <4>1 DEF Meaning, Error
    <3>3. /\ length \in Nat
          /\ BodyStart(msg, msg.size) = start /\ ReadLength(msg, msg.size) = length
      BY <2>1, <2>2, <3>0, <3>2, PlainIsSimple
    <3>4. /\ BodyStart(msg, have) = IF start <= have THEN start ELSE 0
          /\ start \in 1..have => ReadLength(msg, have) = length
      BY <2>1, <2>2, <3>0, PlainIsSimple
    <3> HIDE DEF start, length
    <3>5. CASE start > have
      BY <3>0, <3>1, <3>2, <3>3, <3>5
    <3>6. CASE start <= have
      <4>1. have < (start + length) % Modulus
        <5>1. (start + length) % Modulus \in Nat
          BY <3>0, <3>2, <3>3, Wraps
        <5> QED
          BY <3>0, <3>1, <3>2, <3>4, <3>6, <5>1 DEF Enough
      <4>2. (start + length) % Modulus <= start + length /\ (start + length) % Modulus \in Nat
        BY <3>0, <3>2, <3>3, Wraps
      <4> QED
        BY <3>0, <3>1, <3>2, <3>3, <4>1, <4>2
    <3> QED
      BY <3>0, <3>2, <3>5, <3>6
  <2> QED
    BY <2>1, <2>2 DEF CapHolds
<1> QED
  BY Invariance, <1>1, PTL

\* What a plain message means is settled when its body is there.
LEMMA EnoughSettlesIt ==
    ASSUME NEW m \in Messages, Plain(m), NEW n \in 0..m.size, n < Cap + Chunk,
           NEW k \in n..m.size, Enough(m, n)
    PROVE  Parse(m, n) = Meaning(m, k)
<1> DEFINE start == m.crlf + m.lf
           length == IF \E i \in DOMAIN m.lengths : m.lengths[i].at < start
                     THEN m.lengths[1].value ELSE 0
<1>0. /\ m.size \in Nat /\ Cap \in Nat /\ Chunk \in Nat /\ Modulus \in Nat \ {0} /\ n \in Nat /\ k \in Nat
      /\ m.size + Cap + Chunk <= Modulus
  BY SizesFit
<1>1. start \in Nat /\ length \in 0..m.size /\ BodyStart(m, n) = IF start <= n THEN start ELSE 0
  BY <1>0, PlainIsSimple
<1>2. start \in 1..n
  BY <1>0, <1>1 DEF Enough
<1>3. BodyStart(m, n) = start /\ ReadLength(m, n) = length /\ ParseLength(m, n) = length /\ ~Malformed(m, n)
  BY <1>0, <1>1, <1>2, PlainIsSimple
<1>4. Meaning(m, k) = IF k = 0 THEN Error("empty")
                      ELSE IF start = 0 \/ start > k THEN Error("truncated")
                      ELSE Request(IF start + length <= k THEN length ELSE k - start)
  BY DEF Meaning
<1> HIDE DEF start, length
<1>5. (start + length) % Modulus = start + length
  <2>1. start + length \in Nat /\ start + length < Modulus
    BY <1>0, <1>1, <1>2
  <2> QED
    BY <1>0, <2>1, Wraps
<1>6. start + length <= n
  BY <1>3, <1>5 DEF Enough
<1>7. Parse(m, n) = Request(length)
  <2>1. Parse(m, n) = Request((start + length) - start)
    BY <1>0, <1>1, <1>3, <1>5, <1>6 DEF Parse
  <2> QED
    BY <1>1, <2>1
<1> QED
  BY <1>0, <1>1, <1>2, <1>4, <1>6, <1>7

\* And when nothing more will come, by what there is.
LEMMA EofSettlesIt ==
    ASSUME NEW m \in Messages, Plain(m), NEW n \in 0..m.size, n < Cap + Chunk
    PROVE  AtEof(m, n) = Meaning(m, n)
<1> DEFINE start == m.crlf + m.lf
           length == IF \E i \in DOMAIN m.lengths : m.lengths[i].at < start
                     THEN m.lengths[1].value ELSE 0
<1>0. /\ m.size \in Nat /\ Cap \in Nat /\ Chunk \in Nat /\ Modulus \in Nat \ {0} /\ n \in Nat
      /\ m.size + Cap + Chunk <= Modulus
  BY SizesFit
<1>1. start \in Nat /\ length \in 0..m.size /\ BodyStart(m, n) = IF start <= n THEN start ELSE 0
  BY <1>0, PlainIsSimple
<1>2. start \in 1..n => ParseLength(m, n) = length /\ ~Malformed(m, n)
  BY <1>0, <1>1, PlainIsSimple
<1>3. Meaning(m, n) = IF n = 0 THEN Error("empty")
                      ELSE IF start = 0 \/ start > n THEN Error("truncated")
                      ELSE Request(IF start + length <= n THEN length ELSE n - start)
  BY DEF Meaning
<1> HIDE DEF start, length
<1>4. CASE n = 0 \/ BodyStart(m, n) = 0
  BY <1>0, <1>1, <1>3, <1>4 DEF AtEof
<1>5. CASE n # 0 /\ BodyStart(m, n) # 0
  <2>1. start \in 1..n /\ BodyStart(m, n) = start
    BY <1>0, <1>1, <1>5
  <2>2. (start + length) % Modulus = start + length
    <3>1. start + length \in Nat /\ start + length < Modulus
      BY <1>0, <1>1, <2>1
    <3> QED
      BY <1>0, <3>1, Wraps
  <2>3. AtEof(m, n) = IF start + length > n THEN Request(n - start) ELSE Request(length)
    <3>1. AtEof(m, n) = Parse(m, n)
      BY <1>5 DEF AtEof
    <3>2. start + length >= start /\ (start + length) - start = length
      BY <1>1
    <3> QED
      BY <1>1, <1>2, <2>1, <2>2, <3>1, <3>2 DEF Parse
  <2> QED
    BY <1>0, <1>1, <1>3, <2>1, <2>3
<1> QED
  BY <1>4, <1>5

\* http.rs:154-156: a request is what its bytes say, however they were cut.
THEOREM CutsDoNotMatter == Spec => []SameHoweverCut
<1>1. FramingInv => SameHoweverCut
  <2> SUFFICES ASSUME FramingInv, request.kind \notin {"pending", "oversized", "io"}, Plain(msg)
               PROVE  request = Meaning(msg, sent)
    BY DEF SameHoweverCut
  <2>1. msg \in Messages /\ have \in 0..msg.size /\ have < Cap + Chunk /\ sent \in have..msg.size
    <3>1. msg \in Messages /\ sent \in 0..msg.size /\ have \in 0..sent /\ have < Cap + Chunk
      BY DEF FramingInv, TypeOK, ReadingInOrder
    <3> QED
      BY <3>1, SizesFit
  <2>2. CASE Enough(msg, have) /\ request = Parse(msg, have)
    BY <2>1, <2>2, EnoughSettlesIt
  <2>3. CASE request = AtEof(msg, have) /\ have = sent
    BY <2>1, <2>3, EofSettlesIt
  <2> QED
    BY <2>2, <2>3 DEF FramingInv, ReadingInOrder
<1> QED
  BY Invariance, <1>1, PTL
=============================================================================
