---------------------------- MODULE HttpFraming ----------------------------
(***************************************************************************)
(* One connection to the bastion's control plane: the bytes of a request   *)
(* as read_request takes them off the socket (bastion-server/src/http.rs), *)
(* the answer, and the client that posted it (src/bastion_client.rs).      *)
(*                                                                         *)
(* A message is where its parts end, counted in bytes: the first empty     *)
(* line in each style, the Content-Length lines with their values, and the *)
(* end of the text.  The peer sends it in pieces of any size; it is the    *)
(* laptop's client, or something else that may close at any time.          *)
(***************************************************************************)
EXTENDS Integers, Sequences, FiniteSetsExt

CONSTANTS Messages, \* the messages peers send: see Message
          Cap,      \* 64 KiB in the code: no more is read once this much is there
          Chunk,    \* 2048 in the code: what one read may return
          Modulus,  \* 2^64 in the code: a usize
          Bad,      \* a Content-Length that does not parse
          HeadSize, \* where the answer's header block ends
          AnswerSize

\* crlf, lf: where the first CRLFCRLF and LFLF end, 0 if there is none; lengths:
\* where each Content-Length line ends and its value; accepted: whether the
\* handler takes the request, once its JSON is whole.
Message == [crlf : Nat, lf : Nat, lengths : Seq([at : Nat, value : Nat \cup {Bad}]),
            size : Nat, utf8 : BOOLEAN, accepted : BOOLEAN, client : BOOLEAN]
ASSUME FramingAssumption ==
    /\ Chunk \in Nat \ {0} /\ Cap \in Nat \ {0}
    /\ AnswerSize \in Nat /\ HeadSize \in 1..AnswerSize
    /\ Modulus \in Nat
    /\ \A m \in Messages : m \in Message /\ m.size + Cap + Chunk <= Modulus

VARIABLES msg,     \* the message this peer sends
          sent,    \* bytes of it that have reached the server
          closed,  \* the peer has closed the connection
          have,    \* buf.len() of read_request
          server,  \* reading, routing, writing, closed
          request, \* what read_request returned
          acted,   \* the handler has carried the request out
          status,  \* 0, or the answer's status
          wrote,   \* bytes of the answer that have reached the peer
          client   \* post_json: posting, ok, failed

vars == <<msg, sent, closed, have, server, request, acted, status, wrote, client>>
answer == <<acted, status, wrote>>

Pending == [kind |-> "pending", body |-> 0]
Error(kind) == [kind |-> kind, body |-> 0]
Request(body) == [kind |-> "request", body |-> body]
Errors == {"empty", "truncated", "oversized", "malformed", "panic", "io"}

Init ==
    /\ msg \in Messages
    /\ sent = 0 /\ closed = FALSE /\ have = 0
    /\ server = "reading" /\ request = Pending
    /\ acted = FALSE /\ status = 0 /\ wrote = 0
    /\ client = "posting"

-----------------------------------------------------------------------------
\* The pure part, of message m of which n bytes are there.

\* Where the body starts, or 0.  A CRLFCRLF anywhere goes before an LFLF.
BodyStart(m, n) ==
    IF m.crlf \in 1..n THEN m.crlf ELSE IF m.lf \in 1..n THEN m.lf ELSE 0

\* The Content-Length lines of the head.
HeadLengths(m, n) == {i \in DOMAIN m.lengths : m.lengths[i].at < BodyStart(m, n)}

\* The length read_request goes by: the first that parses.
ReadLength(m, n) ==
    LET parsed == {i \in HeadLengths(m, n) : m.lengths[i].value # Bad}
    IN  IF ~m.utf8 \/ parsed = {} THEN 0 ELSE m.lengths[Min(parsed)].value

\* The length parse_request goes by: the last.
ParseLength(m, n) ==
    LET all == HeadLengths(m, n) IN IF all = {} THEN 0 ELSE m.lengths[Max(all)].value

\* parse_request gives up at the first line it cannot read.
Malformed(m, n) == ~m.utf8 \/ \E i \in HeadLengths(m, n) : m.lengths[i].value = Bad

\* Mutant: reading stops at the end of the head.
EnoughHead(m, n) == BodyStart(m, n) > 0

\* read_request breaks out of its loop; the sum wraps in a release build.
Enough(m, n) ==
    /\ BodyStart(m, n) > 0
    /\ n >= (BodyStart(m, n) + ReadLength(m, n)) % Modulus

\* Mutant: a wrapped end is taken as it is.
ParseWrapped(m, n) ==
    IF Malformed(m, n) THEN Error("malformed")
    ELSE LET start == BodyStart(m, n)
             end == (start + ParseLength(m, n)) % Modulus
         IN  IF end > n THEN Request(n - start) ELSE Request(end - start)

\* parse_request; a wrapped end before the start of the body panics the thread.
Parse(m, n) ==
    IF Malformed(m, n) THEN Error("malformed")
    ELSE LET start == BodyStart(m, n)
             end == (start + ParseLength(m, n)) % Modulus
         IN  IF end > n THEN Request(n - start)
             ELSE IF end < start THEN Error("panic") ELSE Request(end - start)

\* What read_request makes of n bytes when the peer has closed.
AtEof(m, n) ==
    IF n = 0 THEN Error("empty")
    ELSE IF BodyStart(m, n) = 0 THEN Error("truncated") ELSE Parse(m, n)

-----------------------------------------------------------------------------
\* The connection's thread at the bastion.

Returns(result) ==
    /\ request' = result
    /\ server' = IF result.kind = "request" THEN "routing" ELSE "closed"

\* Mutant: the cap is checked one byte late.
MayReadOn(n) == n <= Cap

MayRead(n) == n < Cap

\* read returns some of the bytes that are there.
Read ==
    /\ server = "reading" /\ MayRead(have)
    /\ \E n \in 1..Chunk :
          /\ have + n <= sent
          /\ have' = have + n
          /\ IF Enough(msg, have + n) THEN Returns(Parse(msg, have + n))
             ELSE UNCHANGED <<request, server>>
    /\ UNCHANGED <<msg, sent, closed, answer, client>>

\* Mutant: a read of nothing is tried again.
ReadEofAgain ==
    /\ server = "reading" /\ MayRead(have)
    /\ closed /\ have = sent
    /\ UNCHANGED vars

\* read returns 0.
ReadEof ==
    /\ server = "reading" /\ MayRead(have)
    /\ closed /\ have = sent
    /\ Returns(AtEof(msg, have))
    /\ UNCHANGED <<msg, sent, closed, have, answer, client>>

TooLong ==
    /\ server = "reading" /\ ~MayRead(have)
    /\ Returns(Error("oversized"))
    /\ UNCHANGED <<msg, sent, closed, have, answer, client>>

\* The connection is reset: by the network, or by a peer that has closed.
ReadFails ==
    /\ server = "reading" /\ MayRead(have)
    /\ Returns(Error("io"))
    /\ UNCHANGED <<msg, sent, closed, have, answer, client>>

\* The body is the whole document of the message.
Whole(m, body) == BodyStart(m, m.size) > 0 /\ body = m.size - BodyStart(m, m.size)

\* route: a body cut short is no JSON and gets a 400, as does a request the
\* handler does not accept.
Route ==
    /\ server = "routing"
    /\ acted' = (Whole(msg, request.body) /\ msg.accepted)
    /\ status' = IF acted' THEN 200 ELSE 400
    /\ server' = "writing"
    /\ UNCHANGED <<msg, sent, closed, have, request, wrote, client>>

\* write_response, and the connection is closed.
Write ==
    /\ server = "writing"
    /\ \E n \in wrote + 1..AnswerSize :
          /\ wrote' = n
          /\ server' = IF n = AnswerSize THEN "closed" ELSE "writing"
    /\ UNCHANGED <<msg, sent, closed, have, request, acted, status, client>>

\* The write fails, or the process dies.
Cut ==
    /\ server \in {"routing", "writing"}
    /\ server' = "closed"
    /\ UNCHANGED <<msg, sent, closed, have, request, answer, client>>

-----------------------------------------------------------------------------
\* The peer

\* build_request's head says exactly how long its body is.
Built(m) ==
    m.crlf > 0 /\ m.lf = 0 /\ m.utf8 /\ \E at \in 1..m.crlf - 1 :
        m.lengths = <<[at |-> at, value |-> m.size - m.crlf]>>
ASSUME ClientAssumption == \A m \in Messages : m.client => Built(m)

PeerSends ==
    /\ ~closed /\ client = "posting"
    /\ sent' \in sent + 1..msg.size
    /\ UNCHANGED <<msg, closed, have, server, request, answer, client>>

\* A peer that is not our client goes away, or our client's process does.
PeerCloses ==
    /\ client = "posting"
    /\ client' = "failed"
    /\ closed' = TRUE
    /\ UNCHANGED <<msg, sent, have, server, request, answer>>

\* Mutant: any answer will do.
AnswerHead == wrote >= HeadSize

\* parse_response finds the end of the head, and the status is a 2xx.
AnswerOk == wrote >= HeadSize /\ status = 200

\* read_to_end returns when the server has closed.
ClientReads ==
    /\ msg.client /\ client = "posting"
    /\ server = "closed"
    /\ client' = IF AnswerOk THEN "ok" ELSE "failed"
    /\ closed' = TRUE
    /\ UNCHANGED <<msg, sent, have, server, request, answer>>

\* Connecting, a write or a read takes longer than ten seconds.
ClientTimesOut ==
    /\ msg.client /\ client = "posting"
    /\ client' = "failed"
    /\ closed' = TRUE
    /\ UNCHANGED <<msg, sent, have, server, request, answer>>

Finished ==
    /\ server = "closed" /\ client # "posting"
    /\ UNCHANGED vars

ServerStep == Read \/ ReadEof \/ TooLong \/ ReadFails \/ Route \/ Write \/ Cut
Next == ServerStep \/ PeerSends \/ PeerCloses \/ ClientReads \/ ClientTimesOut \/ Finished
Spec == Init /\ [][Next]_vars

\* The server's thread and the client's process run; the network need not deliver.
Fairness ==
    /\ WF_vars(Read \/ ReadEof \/ TooLong) /\ WF_vars(Route) /\ WF_vars(Write)
    /\ WF_vars(ClientReads) /\ WF_vars(ClientTimesOut)
FairSpec == Spec /\ Fairness

-----------------------------------------------------------------------------
(* Properties *)

\* The values the variables range over (http.rs:11-16, 125-137).
TypeOK ==
    /\ msg \in Messages /\ sent \in 0..msg.size /\ have \in 0..sent
    /\ closed \in BOOLEAN /\ acted \in BOOLEAN
    /\ server \in {"reading", "routing", "writing", "closed"}
    /\ request \in [kind : Errors \cup {"pending", "request"}, body : 0..msg.size]
    /\ status \in {0, 200, 400} /\ wrote \in 0..AnswerSize
    /\ client \in {"posting", "ok", "failed"}

\* A message with one kind of line ending and at most one Content-Length.
Plain(m) ==
    /\ m.utf8 /\ (m.crlf = 0 \/ m.lf = 0)
    /\ Len(m.lengths) <= 1
    /\ \A i \in DOMAIN m.lengths : m.lengths[i].value # Bad /\ m.lengths[i].value <= m.size

\* What such a message says when n bytes of it were sent, taken as one text;
\* a line below the empty one is no header.
Meaning(m, n) ==
    LET start == m.crlf + m.lf
        length == IF \E i \in DOMAIN m.lengths : m.lengths[i].at < start
                  THEN m.lengths[1].value ELSE 0
    IN  IF n = 0 THEN Error("empty")
        ELSE IF start = 0 \/ start > n THEN Error("truncated")
        ELSE Request(IF start + length <= n THEN length ELSE n - start)

\* What read_request returns does not depend on how the bytes were cut into
\* reads, nor on when the peer closed behind them (http.rs:154-156).
SameHoweverCut ==
    request.kind \notin {"pending", "oversized", "io"} /\ Plain(msg)
        => request = Meaning(msg, sent)

\* A request that fits the cap is never refused for its length, however it
\* arrives, and the buffer never grows by more than one read past the cap.
CapHolds ==
    /\ have < Cap + Chunk
    /\ request.kind = "oversized" /\ Plain(msg) /\ Meaning(msg, msg.size).kind = "request"
          => BodyStart(msg, msg.size) + ReadLength(msg, msg.size) > Cap

\* When the client's call returns Ok the bastion has carried it out, wherever
\* the connection was cut (bastion_client.rs:77-84).
OkMeansActed == client = "ok" => acted

\* The client's call returns, and then the server's thread is done with it:
\* a peer that has gone is noticed, whatever it had sent.
CallEnds == msg.client ~> client # "posting" /\ server = "closed"

-----------------------------------------------------------------------------
(* The inductive invariant behind the invariants above. *)

\* Reading goes on as long as the bytes that are there are not enough, and what
\* was returned is what they say when it ended.
ReadingInOrder ==
    /\ have < Cap + Chunk
    /\ server = "reading" => request = Pending /\ ~Enough(msg, have)
    /\ request.kind = "oversized" => have >= Cap /\ ~Enough(msg, have)
    /\ request.kind \notin {"pending", "oversized", "io"} =>
           \/ Enough(msg, have) /\ request = Parse(msg, have)
           \/ ~Enough(msg, have) /\ request = AtEof(msg, have) /\ closed /\ have = sent

\* A 200 was earned, and a client that has its answer has a closed connection.
AnswerInOrder ==
    /\ status = 200 => acted
    /\ client = "ok" => status = 200 /\ server = "closed"

\* Why the way the bytes arrive makes no difference (read_request, post_json).
FramingInv == TypeOK /\ ReadingInOrder /\ AnswerInOrder
=============================================================================
