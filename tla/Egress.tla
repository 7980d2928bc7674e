------------------------------- MODULE Egress -------------------------------
(***************************************************************************)
(* One egress thread of src/src/egress.cpp: the loop that accepts a        *)
(* consumer, pops a batch from its feed, prepends a gap marker when the    *)
(* sequence numbers jump, and writes the batch to the socket; and what it  *)
(* shares with its surroundings (the feed, the connection, the stop flag). *)
(*                                                                         *)
(* The feed holds the last Capacity frames; a batch is gathered in pieces, *)
(* between which frames may be lost.  A batch from a QueueFeed without     *)
(* linger is one piece.  It is several when coalesce pops again, or when   *)
(* read_batch of the ring is lapped and goes on in the same batch.  The    *)
(* connection carries units: a batch header or a record.                   *)
(***************************************************************************)
EXTENDS Integers, Sequences, GapTracker

CONSTANTS
    Capacity,     \* frames the feed retains
    MaxFrames,    \* tuning_.max_frames
    Tunings,      \* the EgressTunings considered: pieces, how many a batch is
                  \* gathered in (one, or more with linger_us or on the
                  \* ring); echo, whether echo_ms # 0
    SockUnits,    \* units the socket buffers hold before send would block
    MaxSeq,       \* bound: frames produced in a behaviour
    MaxEchoes     \* bound: echo probes sent in a behaviour

ASSUME EgressAssumption ==
    /\ Capacity \in Nat \ {0} /\ MaxFrames \in Nat \ {0}
    /\ Tunings \subseteq [pieces : Nat \ {0}, echo : BOOLEAN]
    /\ SockUnits \in Nat \ {0}
    /\ MaxSeq \in Nat /\ MaxEchoes \in Nat

VARIABLES
    tuning,         \* tuning_, fixed when the egress is created
    tail, cursor,   \* the feed holds the frames cursor .. tail - 1
    feed_closed, ingesting, stop,
    lost_up,        \* history: overwritten while a live consumer was connected
    lost_down,      \* history: overwritten with no connection accepted
    backlog_dead,   \* connections closed again before they were accepted
    cconn,          \* the consumer's end: none, backlog, up or eof
    peer_gone,      \* the consumer has closed the accepted connection
    sock,           \* units written and not yet read by the consumer
    replies,        \* nonces sent back by the consumer
    pc,
    client,         \* client_fd_ >= 0
    batch, pieces, pending, pending_offset,
    next_seq, have_seq, reconnected, frames_lost,
    echo_nonce, echo_outstanding, echoes_lost, echoes_returned

feed == <<tail, cursor, lost_up, lost_down>>
shutdown == <<feed_closed, ingesting, stop, tuning>>
link == <<backlog_dead, cconn, peer_gone, sock, replies>>
writer == <<batch, pieces, pending, pending_offset>>
marks == <<next_seq, have_seq, frames_lost>>
echo == <<echo_nonce, echo_outstanding, echoes_lost, echoes_returned>>
egressVars ==
    <<feed, shutdown, link, pc, client, writer, marks, reconnected, echo>>

EgressInit ==
    /\ tuning \in Tunings
    /\ tail = 0 /\ cursor = 0 /\ lost_up = {} /\ lost_down = {}
    /\ feed_closed = FALSE /\ ingesting = TRUE /\ stop = FALSE
    /\ backlog_dead = 0 /\ cconn = "none" /\ peer_gone = FALSE
    /\ sock = <<>> /\ replies = <<>>
    /\ pc = "top" /\ client = FALSE
    /\ batch = <<>> /\ pieces = 0 /\ pending = <<>> /\ pending_offset = 0
    /\ next_seq = 0 /\ have_seq = FALSE /\ reconnected = FALSE
    /\ frames_lost = 0
    /\ echo_nonce = 0 /\ echo_outstanding = FALSE
    /\ echoes_lost = 0 /\ echoes_returned = 0

----------------------------------------------------------------------------
(* Surroundings: the ingest side of the feed, and the shutdown in main.    *)

\* One more frame is sequenced; a full feed overwrites its oldest.
Produce ==
    /\ ingesting /\ tail < MaxSeq
    /\ tail' = tail + 1
    /\ LET over == IF tail - cursor = Capacity THEN {cursor} ELSE {}
       IN  /\ cursor' = IF over = {} THEN cursor ELSE cursor + 1
           /\ lost_up' = IF client /\ ~peer_gone THEN lost_up \cup over
                                                 ELSE lost_up
           /\ lost_down' = IF client THEN lost_down ELSE lost_down \cup over
    /\ UNCHANGED <<shutdown, link, pc, client, writer, marks, reconnected,
                   echo>>

\* main joins the ingest threads before it stops an egress.
StopIngest ==
    /\ ingesting
    /\ ingesting' = FALSE
    /\ UNCHANGED <<feed, feed_closed, stop, tuning, link, pc, client, writer,
                   marks, reconnected, echo>>

\* Egress::stop signals the thread, then closes the feed, then joins.
StopSignal ==
    /\ ~ingesting /\ ~stop
    /\ stop' = TRUE
    /\ UNCHANGED <<feed, feed_closed, ingesting, tuning, link, pc, client,
                   writer, marks, reconnected, echo>>

StopClose ==
    /\ stop /\ ~feed_closed
    /\ feed_closed' = TRUE
    /\ UNCHANGED <<feed, ingesting, stop, tuning, link, pc, client, writer,
                   marks, reconnected, echo>>

----------------------------------------------------------------------------
(* The thread                                                              *)

DiscardPending == pending' = <<>> /\ pending_offset' = 0

\* mutant: the outage is forgotten
ForgetAbsence == reconnected' = reconnected

RememberAbsence == reconnected' = TRUE

\* drop_client, called with a client.
DropClient ==
    /\ client' = FALSE
    /\ cconn' = IF peer_gone THEN cconn ELSE "eof"
    /\ peer_gone' = FALSE
    /\ replies' = <<>>
    /\ DiscardPending
    /\ echo_outstanding' = FALSE
    /\ RememberAbsence
    /\ batch' = <<>> /\ pieces' = 0
    /\ UNCHANGED <<feed, shutdown, backlog_dead, sock, marks, echo_nonce,
                   echoes_lost, echoes_returned>>

\* wait_for_client honours the stop before it looks at the listening socket,
\* whose queue may hold connections that are already closed.
AcceptDead ==
    /\ pc = "top" /\ ~client /\ ~stop
    /\ backlog_dead > 0
    /\ backlog_dead' = backlog_dead - 1
    /\ client' = TRUE /\ peer_gone' = TRUE
    /\ UNCHANGED <<feed, shutdown, cconn, sock, replies, pc, writer, marks,
                   reconnected, echo>>

Accept ==
    /\ pc = "top" /\ ~client /\ ~stop
    /\ backlog_dead = 0 /\ cconn = "backlog"
    /\ client' = TRUE /\ cconn' = "up" /\ sock' = <<>>
    /\ UNCHANGED <<feed, shutdown, backlog_dead, peer_gone, replies, pc, writer,
                   marks, reconnected, echo>>

WaitStopped ==
    /\ pc = "top" /\ ~client /\ stop
    /\ pc' = "exited"
    /\ UNCHANGED <<feed, shutdown, link, client, writer, marks, reconnected,
                   echo>>

\* client_gone.  (run flushes a pending_ left over from an earlier round
\* first; there never is one: Framing.)
ClientGone ==
    /\ pc = "top" /\ client /\ peer_gone
    /\ DropClient
    /\ UNCHANGED pc

\* Among the replies, the one to the outstanding probe.
Answered ==
    echo_outstanding /\ \E i \in DOMAIN replies : replies[i] = echo_nonce

DrainReplies ==
    /\ pc = "top" /\ client /\ ~peer_gone
    /\ replies' = <<>>
    /\ echo_outstanding' = (echo_outstanding /\ ~Answered)
    /\ echoes_returned' = echoes_returned + (IF Answered THEN 1 ELSE 0)
    /\ pc' = "pop"
    /\ UNCHANGED <<feed, shutdown, backlog_dead, cconn, peer_gone, sock, client,
                   writer, marks, reconnected, echo_nonce, echoes_lost>>

Available == tail - cursor

\* mutant: wait for a whole batch
WholeBatch == Available >= MaxFrames

SomeFrame == Available > 0

\* mutant: the last frame taken stays in the feed
CursorShort(k) == cursor + k - 1

CursorAfter(k) == cursor + k

\* The feed hands over what it has, up to the room left in the batch: the
\* first pop of a batch, a pop by coalesce, or the ring going on after a lap.
Pop ==
    /\ pc \in {"pop", "more"}
    /\ pieces < tuning.pieces /\ Len(batch) < MaxFrames /\ SomeFrame
    /\ LET room == MaxFrames - Len(batch)
           k == IF Available < room THEN Available ELSE room
       IN  /\ batch' = batch \o [i \in 1 .. k |-> cursor + i - 1]
           /\ cursor' = CursorAfter(k)
    /\ pieces' = pieces + 1
    /\ pc' = "more"
    /\ UNCHANGED <<tail, lost_up, lost_down, shutdown, link, client, pending,
                   pending_offset, marks, reconnected, echo>>

\* pop_batch returned nothing; only then is the feed asked whether it is
\* closed.
PopNothing ==
    /\ pc = "pop" /\ Available = 0
    /\ pc' = "empty"
    /\ UNCHANGED <<feed, shutdown, link, client, writer, marks, reconnected,
                   echo>>

CheckClosed ==
    /\ pc = "empty"
    /\ pc' = IF feed_closed THEN "exited" ELSE "top"
    /\ UNCHANGED <<feed, shutdown, link, client, writer, marks, reconnected,
                   echo>>

Jumped == have_seq /\ batch[1] > next_seq

Marker ==
    GapRec(next_seq, batch[1] - next_seq,
           IF reconnected THEN "absent" ELSE "overrun")

Frames == [i \in DOMAIN batch |-> FrameRec(batch[i])]

\* note_gap, maybe_send_echo (due or not) and encode_batch.
NoteGap(due) ==
    /\ pc = "more"
    /\ due => tuning.echo /\ echo_nonce < MaxEchoes
    /\ LET gap == IF Jumped THEN <<Marker>> ELSE <<>>
           probe == IF due THEN <<EchoRec(echo_nonce + 1)>> ELSE <<>>
           outgoing == gap \o Frames \o probe
       IN  pending' = <<HeaderRec(Len(outgoing))>> \o outgoing
    /\ pending_offset' = 0
    /\ frames_lost' = frames_lost + (IF Jumped /\ IsFault(Marker.why)
                                     THEN Marker.n ELSE 0)
    /\ reconnected' = FALSE
    /\ next_seq' = batch[Len(batch)] + 1
    /\ have_seq' = TRUE
    /\ echo_nonce' = echo_nonce + (IF due THEN 1 ELSE 0)
    /\ echoes_lost' = echoes_lost + (IF due /\ echo_outstanding THEN 1 ELSE 0)
    /\ echo_outstanding' = (echo_outstanding \/ due)
    /\ pc' = "send"
    /\ UNCHANGED <<feed, shutdown, link, client, batch, pieces,
                   echoes_returned>>

\* mutant: a partial write is resumed from the start of the buffer
SendFromStart(k) == SubSeq(pending, 1, k)

\* The next k units, from the offset of the partial write before.
Sending(k) == SubSeq(pending, pending_offset + 1, pending_offset + k)

\* flush_pending: a send takes k units, into nothing when the peer is gone.
Send(k) ==
    /\ pc = "send"
    /\ k <= Len(pending) - pending_offset
    /\ peer_gone \/ Len(sock) + k <= SockUnits
    /\ sock' = IF peer_gone THEN sock ELSE sock \o Sending(k)
    /\ IF pending_offset + k = Len(pending)
       THEN /\ DiscardPending
            /\ batch' = <<>> /\ pieces' = 0
            /\ pc' = "top"
       ELSE /\ pending_offset' = pending_offset + k
            /\ UNCHANGED <<pending, batch, pieces, pc>>
    /\ UNCHANGED <<feed, shutdown, backlog_dead, cconn, peer_gone, replies,
                   client, marks, reconnected, echo>>

\* EAGAIN: the socket is full, and the thread parks on POLLOUT and the stop.
Park ==
    /\ pc = "send" /\ ~peer_gone /\ Len(sock) = SockUnits
    /\ pc' = "parked"
    /\ UNCHANGED <<feed, shutdown, link, client, writer, marks, reconnected,
                   echo>>

\* poll reports room or a hangup; the send is tried again.
Unpark ==
    /\ pc = "parked" /\ ~stop
    /\ peer_gone \/ Len(sock) < SockUnits
    /\ pc' = "send"
    /\ UNCHANGED <<feed, shutdown, link, client, writer, marks, reconnected,
                   echo>>

\* mutant: the stop is not among what poll waits for
DeafToStop == pc = "send" /\ peer_gone

\* flush_pending gives up: the peer is gone, or the stop arrives while the
\* thread is parked, room or not.
FlushFails == (pc = "send" /\ peer_gone) \/ (pc = "parked" /\ stop)

SendFails ==
    /\ FlushFails
    /\ DropClient
    /\ pc' = "top"

\* ~Egress, after the join: the client and the listening socket are closed.
Destroy ==
    /\ pc = "exited" /\ feed_closed
    /\ pc' = "gone"
    /\ IF client THEN DropClient
       ELSE UNCHANGED <<feed, shutdown, link, client, writer, marks,
                        reconnected, echo>>

----------------------------------------------------------------------------
Environment == Produce \/ StopIngest \/ StopSignal \/ StopClose

EgressStep ==
    \/ AcceptDead \/ Accept \/ WaitStopped \/ ClientGone \/ DrainReplies
    \/ Pop \/ PopNothing \/ CheckClosed
    \/ \E due \in BOOLEAN : NoteGap(due)
    \/ \E k \in 1 .. SockUnits : Send(k)
    \/ Park \/ Unpark \/ SendFails \/ Destroy

=============================================================================
