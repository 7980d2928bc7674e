----------------------------- MODULE EchoReturn -----------------------------
(***************************************************************************)
(* The way back of an echo, in bytes: FrameStream::send_back of            *)
(* src/src/frame_stream.cpp, whose socket may take part of a reply only,   *)
(* and Egress::drain_replies of src/src/egress.cpp, which finds its        *)
(* replies in what arrives.  Egress and EgressSession have whole replies.  *)
(*                                                                         *)
(* The unit is eight bytes, the size of most fields: a reply is two units  *)
(* of header and five of record, the third unit of a reply its nonce and   *)
(* the sixth the one with the flags.  It arrives in any pieces.            *)
(***************************************************************************)
EXTENDS Integers, Sequences

CONSTANTS
    RecvUnits,     \* units one recv takes at most (64 in the code)
    MaxReplyBuf,   \* units the gateway buffers (8192 in the code)
    MaxProbes      \* bound: probes sent

ASSUME EchoAssumption ==
    /\ {RecvUnits, MaxReplyBuf} \subseteq Nat \ {0} /\ MaxProbes \in Nat

HeaderUnits == 2
ReplyUnits == 7

VARIABLES
    nonce, outstanding,      \* echo_nonce_, echo_outstanding_
    probes,                  \* on their way to the consumer
    wire_back,               \* what the sends took, on its way back
    reply_buf,               \* reply_buf_
    fresh, overran,          \* history: received by the drain_replies under way,
                             \* and whether it cleared a full buffer
    whole_sent,              \* history: nonces of replies sent in full
    settled,                 \* history: the nonce settled last, or 0
    last, healthy            \* history: the nonce of the newest reply drained,
                             \* and how many drains had whole replies only

echoVars == <<nonce, outstanding, probes, wire_back, reply_buf, fresh, overran,
              whole_sent, settled, last, healthy>>

EchoInit ==
    /\ nonce = 0 /\ outstanding = FALSE
    /\ probes = <<>> /\ wire_back = <<>> /\ reply_buf = <<>>
    /\ fresh = <<>> /\ overran = FALSE /\ whole_sent = {} /\ settled = 0
    /\ last = 0 /\ healthy = 0

\* The egress thread is not in drain_replies.
Elsewhere == fresh = <<>>

\* maybe_send_echo, when a probe is due.  One not answered is written off.
SendProbe ==
    /\ Elsewhere /\ nonce < MaxProbes
    /\ nonce' = nonce + 1 /\ outstanding' = TRUE
    /\ probes' = Append(probes, nonce + 1)
    /\ UNCHANGED <<wire_back, reply_buf, fresh, overran, whole_sent, settled, last,
                   healthy>>

Reply(n) == [i \in 1 .. ReplyUnits |-> [at |-> i, nonce |-> n]]

\* send_back: the socket takes the whole reply, or some of it and no more; what
\* it took stays taken.
SendBack(taken) ==
    /\ probes # <<>>
    /\ probes' = Tail(probes)
    /\ wire_back' = wire_back \o SubSeq(Reply(Head(probes)), 1, taken)
    /\ whole_sent' = IF taken = ReplyUnits
                     THEN whole_sent \cup {Head(probes)} ELSE whole_sent
    /\ UNCHANGED <<nonce, outstanding, reply_buf, fresh, overran, settled, last,
                   healthy>>

----------------------------------------------------------------------------
(* drain_replies                                                           *)

\* One turn of the recv loop, and what it does to a buffer that is too long.
Receive(n) ==
    /\ n \in 1 .. Len(wire_back) /\ n <= RecvUnits
    /\ LET arrived == SubSeq(wire_back, 1, n)
           grown == reply_buf \o arrived
           full == Len(grown) > MaxReplyBuf
       IN  /\ reply_buf' = IF full THEN <<>> ELSE grown
           /\ overran' = (overran \/ full)
           /\ fresh' = fresh \o arrived
    /\ wire_back' = SubSeq(wire_back, n + 1, Len(wire_back))
    /\ UNCHANGED <<nonce, outstanding, probes, whole_sent, settled, last, healthy>>

HeaderGood(buf) == buf[1].at = 1 /\ buf[2].at = 2

\* mutant: any echo settles the probe
AnyEcho(rec, n) == rec[4].at = 6

\* A record is an echo of the probe if the flags are where flags belong, and
\* the nonce where the sequence number does.  (Nothing else that can stand in
\* the place of the flags has their echo bit set.)
IsAnswer(rec, n) == rec[4].at = 6 /\ rec[1].at = 3 /\ rec[1].nonce = n

\* mutant: what does not start with a header is kept for the next time
KeepGarbage(buf) == buf

\* Out of sync: start over.
OutOfSync(buf) == <<>>

\* What is left of the buffer after i replies.
After(buf, i) == SubSeq(buf, i * ReplyUnits + 1, Len(buf))

StartsWithReply(buf) == Len(buf) >= ReplyUnits /\ HeaderGood(buf)

\* The replies at the start of the buffer.
Replies(buf) ==
    CHOOSE i \in 0 .. Len(buf) :
        /\ \A j \in 0 .. i - 1 : StartsWithReply(After(buf, j))
        /\ ~StartsWithReply(After(buf, i))

\* What is kept when they are read.
Remains(rest) ==
    IF Len(rest) >= HeaderUnits /\ ~HeaderGood(rest) THEN OutOfSync(rest) ELSE rest

\* One of the first replies answers the probe.
Answered(buf, n) ==
    \E j \in 0 .. Replies(buf) - 1 :
        IsAnswer(SubSeq(After(buf, j), HeaderUnits + 1, ReplyUnits), n)

\* Nothing but whole replies.
WholeReplies(units) ==
    /\ units[1].at = 1
    /\ \A i \in 1 .. Len(units) :
          units[i].at = ReplyUnits \/ (i < Len(units) /\ units[i + 1].at # 1)

\* There is nothing more to receive, and what there is is decoded.
DrainReplies ==
    /\ ~Elsewhere
    /\ LET answered == outstanding /\ Answered(reply_buf, nonce)
       IN  /\ outstanding' = (outstanding /\ ~answered)
           /\ settled' = IF answered THEN nonce ELSE settled
    /\ reply_buf' = Remains(After(reply_buf, Replies(reply_buf)))
    /\ healthy' = IF overran \/ ~WholeReplies(fresh) THEN 0
                  ELSE IF healthy < 2 THEN healthy + 1 ELSE 2
    /\ last' = fresh[Len(fresh)].nonce
    /\ fresh' = <<>> /\ overran' = FALSE
    /\ UNCHANGED <<nonce, probes, wire_back, whole_sent>>

\* drop_client, and the next connection.
NewConnection ==
    /\ Elsewhere
    /\ outstanding' = FALSE /\ reply_buf' = <<>>
    /\ probes' = <<>> /\ wire_back' = <<>>
    /\ whole_sent' = {} /\ settled' = 0 /\ last' = 0 /\ healthy' = 0
    /\ UNCHANGED <<nonce, fresh, overran>>

EchoNext ==
    \/ SendProbe
    \/ \E taken \in 0 .. ReplyUnits : SendBack(taken)
    \/ \E n \in 1 .. Len(wire_back) : Receive(n)
    \/ DrainReplies
    \/ NewConnection

EchoSpec == EchoInit /\ [][EchoNext]_echoVars

----------------------------------------------------------------------------
(* Properties                                                              *)

\* A round trip that enters the statistics was made: the reply to the very
\* probe that was outstanding was sent in full on this connection, though parts
\* of replies to other probes may have been put together to something that
\* looks like one.
RoundTripsReal == settled # 0 => settled \in whole_sent

\* A reply cut short, or a buffer that ran over, does not end the measuring.
\* Whatever was left in the buffer, the next drain of nothing but whole replies
\* brings drain_replies back in step, and from the one after it the newest
\* reply settles its probe, if that is still the one outstanding.
EchoHeals ==
    /\ Elsewhere /\ healthy >= 1 => reply_buf = <<>>
    /\ healthy >= 2 /\ last = nonce => ~outstanding

=============================================================================
