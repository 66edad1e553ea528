------------------------------- MODULE Bridge ------------------------------
(***************************************************************************)
(* bridge_bidirectional of src/tunnel.rs: one thread carries the bytes of  *)
(* one developer's request between an SSH channel, side a, and a TCP       *)
(* connection to the local service, side b.  Both are non-blocking.  The   *)
(* peers behind the two sides send, take and close as they please, and     *)
(* may do nothing for ever.  The sleeps are left out.                      *)
(***************************************************************************)
EXTENDS Naturals, Sequences

CONSTANTS BufferSize,  \* the bytes one read can return: 8192 in the code
          Capacity,    \* the bytes a side accepts before its peer takes some
          SpinLimit,   \* 1000 in the code
          MaxSent      \* bound: the bytes each peer sends

ASSUME BufferAssumption == BufferSize \in Nat \ {0}
ASSUME CapacityAssumption == Capacity \in Nat \ {0}
ASSUME SpinAssumption == SpinLimit \in Nat
ASSUME SentAssumption == MaxSent \in Nat

VARIABLES sent,     \* how many bytes each peer has sent; the k-th of them is k
          inbox,    \* those the bridge has not read
          outbox,   \* bytes written to a side that its peer has not taken
          got,      \* bytes each peer has taken
          peer,     \* open; half: it sends no more; closed
          done,     \* a_done, b_done
          pc,       \* top, read, write, returned
          side,     \* the side being read
          buf,      \* what was read and is not written yet
          spins,
          stop,
          err       \* it returned an error

vars == <<sent, inbox, outbox, got, peer, done, pc, side, buf, spins, stop, err>>
peers == <<sent, inbox, got, peer, stop>>

Sides == {"a", "b"}
Other(s) == IF s = "a" THEN "b" ELSE "a"
Written(s) == got[s] \o outbox[s]
Carried(s) == IF side = s THEN buf ELSE <<>>

Init ==
    /\ sent = [s \in Sides |-> 0]
    /\ inbox = [s \in Sides |-> <<>>]
    /\ outbox = [s \in Sides |-> <<>>]
    /\ got = [s \in Sides |-> <<>>]
    /\ peer = [s \in Sides |-> "open"]
    /\ done = [s \in Sides |-> FALSE]
    /\ pc = "top"
    /\ side = "a"
    /\ buf = <<>>
    /\ spins = 0
    /\ stop = FALSE
    /\ err = FALSE

-----------------------------------------------------------------------------
(* The bridge *)

\* Side a is read first, then side b, then the loop condition is evaluated.
NextSide == IF side = "a" THEN pc' = "read" /\ side' = "b" ELSE pc' = "top" /\ side' = "a"

\* Mutants: the loop ends when either side is done; it does not heed stop.
TopEither ==
    /\ pc = "top"
    /\ pc' = IF stop \/ \E s \in Sides : done[s] THEN "returned" ELSE "read"
    /\ UNCHANGED <<peers, outbox, done, side, buf, spins, err>>

TopDeaf ==
    /\ pc = "top"
    /\ pc' = IF \A s \in Sides : done[s] THEN "returned" ELSE "read"
    /\ UNCHANGED <<peers, outbox, done, side, buf, spins, err>>

Top ==
    /\ pc = "top"
    /\ pc' = IF stop \/ \A s \in Sides : done[s] THEN "returned" ELSE "read"
    /\ UNCHANGED <<peers, outbox, done, side, buf, spins, err>>

\* Nothing is read from a side that is done, or has nothing now.
ReadNothing ==
    /\ pc = "read"
    /\ done[side] \/ (inbox[side] = <<>> /\ peer[side] = "open")
    /\ NextSide
    /\ UNCHANGED <<peers, outbox, done, buf, spins, err>>

ReadEof ==
    /\ pc = "read" /\ ~done[side]
    /\ inbox[side] = <<>> /\ peer[side] # "open"
    /\ done' = [done EXCEPT ![side] = TRUE]
    /\ NextSide
    /\ UNCHANGED <<peers, outbox, buf, spins, err>>

ReadSome ==
    /\ pc = "read" /\ ~done[side]
    /\ \E n \in 1..BufferSize :
           /\ n <= Len(inbox[side])
           /\ buf' = SubSeq(inbox[side], 1, n)
           /\ inbox' = [inbox EXCEPT ![side] = SubSeq(@, n + 1, Len(@))]
    /\ pc' = "write"
    /\ spins' = 0
    /\ UNCHANGED <<sent, got, peer, stop, outbox, done, side, err>>

Fail == pc' = "returned" /\ err' = TRUE

\* A connection its peer closed may be reset.
ReadFails ==
    /\ pc = "read" /\ ~done[side]
    /\ peer[side] = "closed"
    /\ Fail
    /\ UNCHANGED <<peers, outbox, done, side, buf, spins>>

\* Mutant: a partial write is taken for a whole one.
WriteOnce ==
    /\ pc = "write"
    /\ \E n \in 1..Len(buf) :
           /\ n + Len(outbox[Other(side)]) <= Capacity
           /\ outbox' = [outbox EXCEPT ![Other(side)] = @ \o SubSeq(buf, 1, n)]
           /\ buf' = <<>>
    /\ NextSide
    /\ spins' = 0
    /\ UNCHANGED <<peers, done, err>>

WriteSome ==
    /\ pc = "write"
    /\ \E n \in 1..Len(buf) :
           /\ n + Len(outbox[Other(side)]) <= Capacity
           /\ outbox' = [outbox EXCEPT ![Other(side)] = @ \o SubSeq(buf, 1, n)]
           /\ buf' = SubSeq(buf, n + 1, Len(buf))
    /\ IF buf' = <<>> THEN NextSide ELSE UNCHANGED <<pc, side>>
    /\ spins' = 0
    /\ UNCHANGED <<peers, done, err>>

Full(s) == Len(outbox[s]) >= Capacity

\* Mutant: it waits as long as it takes.
WriteWaits ==
    /\ pc = "write"
    /\ Full(Other(side))
    /\ UNCHANGED vars

\* Mutant: the spin count is never compared with the limit.
WriteSpinsOn ==
    /\ pc = "write"
    /\ Full(Other(side))
    /\ spins' = spins + 1
    /\ UNCHANGED <<peers, outbox, done, pc, side, buf, err>>

WriteBlocked ==
    /\ pc = "write"
    /\ Full(Other(side))
    /\ spins' = spins + 1
    /\ IF spins' > SpinLimit THEN Fail ELSE UNCHANGED <<pc, err>>
    /\ UNCHANGED <<peers, outbox, done, side, buf>>

\* A connection its peer closed is reset, or a write takes nothing and says so
\* with Ok(0), which is an error whatever the peer did (WriteZero).
WriteFails ==
    /\ pc = "write"
    /\ Fail
    /\ UNCHANGED <<peers, outbox, done, side, buf, spins>>

Moves == Top \/ ReadNothing \/ ReadEof \/ ReadSome \/ WriteSome \/ WriteBlocked
Step == Moves \/ ReadFails \/ WriteFails

-----------------------------------------------------------------------------
(* The peers, and ReverseForward's drop *)

bridge == <<done, pc, side, buf, spins, err>>

Send(s) ==
    /\ peer[s] = "open" /\ sent[s] < MaxSent
    /\ sent' = [sent EXCEPT ![s] = @ + 1]
    /\ inbox' = [inbox EXCEPT ![s] = Append(@, sent[s] + 1)]
    /\ UNCHANGED <<bridge, outbox, got, peer, stop>>

Take(s) ==
    /\ peer[s] # "closed" /\ outbox[s] # <<>>
    /\ got' = [got EXCEPT ![s] = Append(@, Head(outbox[s]))]
    /\ outbox' = [outbox EXCEPT ![s] = Tail(@)]
    /\ UNCHANGED <<bridge, sent, inbox, peer, stop>>

Close(s) ==
    /\ \E to \in {"half", "closed"} :
           /\ peer[s] # to /\ peer[s] # "closed"
           /\ peer' = [peer EXCEPT ![s] = to]
    /\ UNCHANGED <<bridge, sent, inbox, outbox, got, stop>>

Stop ==
    /\ ~stop
    /\ stop' = TRUE
    /\ UNCHANGED <<bridge, sent, inbox, outbox, got, peer>>

Returned == pc = "returned" /\ UNCHANGED vars

Next == Step \/ Stop \/ Returned \/ \E s \in Sides : Send(s) \/ Take(s) \/ Close(s)

Spec == Init /\ [][Next]_vars

\* The thread runs; nothing is assumed of the peers, nor that a call ever fails.
FairSpec == Spec /\ WF_vars(Moves)

-----------------------------------------------------------------------------
(* Properties *)

Bytes == 1..MaxSent

\* The values the variables range over.
TypeOK ==
    /\ sent \in [Sides -> 0..MaxSent]
    /\ inbox \in [Sides -> Seq(Bytes)] /\ got \in [Sides -> Seq(Bytes)]
    /\ outbox \in [Sides -> Seq(Bytes)] /\ \A s \in Sides : Len(outbox[s]) <= Capacity
    /\ peer \in [Sides -> {"open", "half", "closed"}]
    /\ done \in [Sides -> BOOLEAN]
    /\ pc \in {"top", "read", "write", "returned"}
    /\ side \in Sides
    /\ buf \in Seq(Bytes) /\ Len(buf) <= BufferSize
    /\ spins \in 0..(SpinLimit + 1)
    /\ stop \in BOOLEAN /\ err \in BOOLEAN

\* At every instant what one peer has sent is what was written to the other,
\* then what the bridge holds, then what it has not read: no byte is lost,
\* repeated or overtaken, however reads and writes are cut up.
InOrder ==
    \A s \in Sides : Written(Other(s)) \o Carried(s) \o inbox[s] = [k \in 1..sent[s] |-> k]

\* A bridge that ends by itself and without error has carried everything: a
\* service that closes first still gets its whole response through.
DrainedAtEnd ==
    pc = "returned" /\ ~err /\ ~stop =>
        \A s \in Sides : Len(Written(Other(s))) = sent[s]

\* A side that is done was read to the end of what its peer sends.
DoneIsDrained == \A s \in Sides : done[s] => inbox[s] = <<>> /\ peer[s] # "open"

\* The bridge holds bytes only while it writes, or lost them in an error; it
\* writes for a side that is not done, and only while it has spins left.
HeldWhileWriting ==
    /\ pc # "write" /\ ~err => buf = <<>>
    /\ pc = "write" => ~done[side] /\ spins <= SpinLimit
    /\ err => pc = "returned"

\* But for an error or stop, the loop ends when both sides are done.
EndsWhenDone == pc = "returned" /\ ~err /\ ~stop => \A s \in Sides : done[s]

\* The inductive invariant: why the two properties above hold.
IndInv == TypeOK /\ InOrder /\ DoneIsDrained /\ HeldWhileWriting /\ EndsWhenDone

\* Every byte moves on or the bridge ends, although the peer it is written to
\* may take nothing: "a stuck remote doesn't deadlock the bridge loop"
\* (tunnel.rs:121).
EveryByteMovesOn ==
    \A s \in Sides : \A n \in Bytes :
        sent[s] >= n ~> (Len(Written(Other(s))) >= n \/ pc = "returned")

\* Dropping the ReverseForward ends the bridges, whatever they wait for, with
\* stop looked at only between rounds.
StopReturns == stop ~> pc = "returned"
=============================================================================
