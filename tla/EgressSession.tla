---------------------------- MODULE EgressSession ----------------------------
(***************************************************************************)
(* An egress thread with the consumer at the other end of its connection:  *)
(* FrameStream::read_batch (src/src/frame_stream.cpp) reassembles batches  *)
(* from the byte stream, and the loop of the recorder                      *)
(* (src/src/record_main.cpp; the probe's is the same in this respect)      *)
(* returns the echoes, keeps a GapTracker that it resets on every connect, *)
(* and appends what it received to a file.                                 *)
(***************************************************************************)
EXTENDS Egress, Functions, Loops

CONSTANT MaxConns    \* bound: connections the consumer makes

ASSUME SessionAssumption == MaxConns \in Nat

VARIABLES
    conns,
    reading,     \* FrameStream::state_, or the error that ended the stream
    records,     \* records_ announced by the header
    got,         \* records of the batch received so far
    gaps,        \* the consumer's GapTracker
    file,        \* history: what one tracker over the whole file would show
    received     \* history: the frames the consumer was handed, in order

consumer == <<conns, reading, records, got, gaps, file, received>>
vars == <<egressVars, consumer>>

Init ==
    /\ EgressInit
    /\ conns = 0 /\ reading = "header" /\ records = 0 /\ got = <<>>
    /\ gaps = NewTracker /\ file = NewTracker /\ received = <<>>

----------------------------------------------------------------------------
(* The consumer                                                            *)

restOfEgress ==
    <<feed, shutdown, pc, client, writer, marks, reconnected, echo>>

OnReconnect(t) == Reset(t)

\* A new FrameStream; the kernel completes the handshake before the accept.
Connect ==
    /\ cconn = "none" /\ conns < MaxConns /\ pc # "gone"
    /\ cconn' = "backlog"
    /\ conns' = conns + 1
    /\ gaps' = OnReconnect(gaps)
    /\ reading' = "header" /\ got' = <<>> /\ records' = 0
    /\ UNCHANGED <<restOfEgress, backlog_dead, peer_gone, sock, replies, file,
                   received>>

\* fill and decode_header.
ReadHeader ==
    /\ cconn \in {"up", "eof"} /\ reading = "header" /\ sock # <<>>
    /\ sock' = Tail(sock)
    /\ IF Head(sock).kind = "header"
       THEN /\ reading' = "payload"
            /\ records' = Head(sock).n
       ELSE /\ reading' = "error"
            /\ UNCHANGED records
    /\ UNCHANGED <<restOfEgress, backlog_dead, cconn, peer_gone, replies, conns,
                   got, gaps, file, received>>

\* The loop over a batch: an echo is sent back, anything else is observed.
ObserveUnlessEcho(t, f) == IF f.kind = "echo" THEN t ELSE Observe(t, f)

HandOver(r, f) == IF f.kind = "frame" THEN Append(r, f.seq) ELSE r

Nonces(recs) ==
    LET echoes == SelectSeq(recs, LAMBDA f : f.kind = "echo")
    IN  [i \in DOMAIN echoes |-> echoes[i].seq]

\* send_back succeeds, or finds the buffer full (or the gateway gone) and
\* abandons the probe.
SendBack(nonces) ==
    \/ replies' = replies
    \/ /\ cconn = "up" /\ nonces # <<>>
       /\ replies' = replies \o nonces

\* The payload record by record; the last one completes the batch, whose
\* echoes are returned, whose other records are observed, and which is then
\* written to the file as it was received.
ReadRecord ==
    /\ cconn \in {"up", "eof"} /\ reading = "payload" /\ sock # <<>>
    /\ sock' = Tail(sock)
    /\ LET all == Append(got, Head(sock))
       IN  IF Len(all) < records
           THEN /\ got' = all
                /\ UNCHANGED <<reading, replies, gaps, file, received>>
           ELSE /\ got' = <<>>
                /\ IF \E i \in DOMAIN all : all[i].kind = "header"
                   THEN /\ reading' = "error"
                        /\ UNCHANGED <<replies, gaps, file, received>>
                   ELSE /\ reading' = "header"
                        /\ gaps' = ForEach(ObserveUnlessEcho, gaps, all)
                        /\ file' = ForEach(Observe, file, all)
                        /\ received' = ForEach(HandOver, received, all)
                        /\ SendBack(Nonces(all))
    /\ UNCHANGED <<restOfEgress, backlog_dead, cconn, peer_gone, conns,
                   records>>

\* The consumer leaves, is restarted or killed, or gives up on an error.
Leave ==
    /\ cconn \in {"backlog", "up"}
    /\ cconn' = "none"
    /\ peer_gone' = (peer_gone \/ cconn = "up")
    /\ backlog_dead' = backlog_dead + (IF cconn = "backlog" THEN 1 ELSE 0)
    /\ UNCHANGED <<restOfEgress, sock, replies, consumer>>

\* kClosed: the gateway closed the connection; a reset discards the rest.
SeeClosed ==
    /\ cconn = "eof"
    /\ cconn' = "none"
    /\ UNCHANGED <<restOfEgress, backlog_dead, peer_gone, sock, replies,
                   consumer>>

----------------------------------------------------------------------------
ConsumerReads == ReadHeader \/ ReadRecord

Finished == pc = "gone" /\ cconn # "eof" /\ UNCHANGED vars

Next ==
    \/ (Environment \/ EgressStep) /\ UNCHANGED consumer
    \/ Connect \/ ConsumerReads \/ Leave \/ SeeClosed
    \/ Finished

Spec == Init /\ [][Next]_vars

(***************************************************************************)
(* The operating system runs the egress thread; a consumer that stays      *)
(* connected keeps reading; Egress::stop runs to its join once called.     *)
(* Nothing obliges frames to arrive, a consumer to come, or main to stop.  *)
(***************************************************************************)
FairSpec ==
    /\ Spec
    /\ WF_vars(EgressStep /\ UNCHANGED consumer)
    /\ WF_vars(StopClose /\ UNCHANGED consumer)
    /\ WF_vars(ConsumerReads)

----------------------------------------------------------------------------
(* Properties                                                              *)

\* The byte stream is always decodable: through partial writes resumed at
\* pending_offset_, disconnects in the middle of a batch and reconnects, a
\* consumer's read_batch never meets a protocol error.  run tests pending_ at
\* the top of its loop, but nothing is ever left there: flush_pending empties it
\* or is followed by drop_client, so bytes of one connection never open the next.
Framing ==
    /\ reading # "error"
    /\ pc \in {"top", "pop", "more", "empty"} => pending = <<>>

\* At-most-once delivery (docs/wire-format.md): over all its connections a
\* consumer is handed strictly increasing sequence numbers, all of frames
\* that were really produced.
AtMostOnce ==
    /\ \A i \in 1 .. Len(received) - 1 : received[i] < received[i + 1]
    /\ \A i \in DOMAIN received : received[i] < tail

\* The consumer's books close: from the sequence number a connection opened
\* at to the next one expected, every frame is counted exactly once, as
\* received, reported lost, absent or silently lost.  In particular a marker
\* starts exactly where the consumer's own position is.  With batches popped in
\* one piece (a QueueFeed without linger) nothing is lost silently, whatever was
\* overwritten before, between and after the batches.
BooksClose ==
    /\ gaps.have => Booked(gaps) = gaps.next - gaps.base
    /\ tuning.pieces = 1 => gaps.silent_lost = 0

\* With any tuning, no frame is lost without a marker saying so.
NothingSilent == gaps.silent_lost = 0

Covers(m) == m.seq .. (m.seq + m.n - 1)

MarkersOut(reason) ==
    {m \in Range(pending) : m.kind = "gap" /\ m.why = reason}

\* note_gap blames the consumer (consumer_overrun, a fault) only for frames
\* that were overwritten while it was connected, never for frames that went
\* past during an outage.
OverrunsAreFaults ==
    \A m \in MarkersOut("overrun") : Covers(m) \cap lost_down = {}

\* A recorder's file has no unexplained jump: from its first frame on, every
\* sequence number is in the file or covered by a marker in it, also across
\* reconnects.
RecordExplained ==
    file.have => /\ file.silent_lost = 0
                 /\ Booked(file) = file.next - file.base

\* Egress::stop joins its thread: once signalled, the thread exits whether
\* it is waiting for a client, popping, or blocked on a consumer that has
\* stopped reading.
StopJoins == stop ~> pc = "gone"

\* A frame in the feed of a connected consumer reaches it, unless it is
\* overwritten first or the connection ends: batching and lingering only
\* ever delay it.  Stated of the last frame a behaviour produces, the one
\* that nothing follows to fill its batch or to push it out.
FeedReachesConsumer ==
    LET last == MaxSeq - 1
    IN  (cconn = "up" /\ last \in cursor .. tail - 1)
            ~> (last \in Range(received) \cup lost_up \/ cconn # "up")

=============================================================================
