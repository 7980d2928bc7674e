------------------------------- MODULE FanOut -------------------------------
(***************************************************************************)
(* The ingest thread of topology A (src/src/fanout.cpp): one thread polls  *)
(* every source and its stop event, drains each readable source into a     *)
(* batch, stamps the frames with the global sequence and copies the batch  *)
(* into every sink queue, one sink after the other.  Sinks are             *)
(* BoundedQueues, as DropOldestQueue describes them, emptied by consumers. *)
(***************************************************************************)
EXTENDS SourceBuffers

CONSTANTS
    NSinks,
    Capacity       \* of a sink

ASSUME FanOutAssumption == {NSinks, Capacity} \subseteq Nat \ {0}

Sinks == 1 .. NSinks

VARIABLES
    pc,
    revents,     \* sources the last poll found readable
    stop_seen,   \* and whether it found the stop event
    i,           \* the source the scan is at
    j,           \* the sink the copy is at
    batch,
    next_seq,
    sink,        \* contents of each sink
    log          \* history: every frame stamped, in order

fanOutVars == <<pc, revents, stop_seen, i, j, batch, next_seq, sink, log>>

FanOutInit ==
    /\ pc = "poll"
    /\ revents = {} /\ stop_seen = FALSE /\ i = 1 /\ j = 1
    /\ batch = <<>> /\ next_seq = 0
    /\ sink = [q \in Sinks |-> <<>>]
    /\ log = <<>>

\* A consumer takes what its queue holds.
PopSink(q) ==
    /\ sink[q] # <<>>
    /\ sink' = [sink EXCEPT ![q] = <<>>]
    /\ UNCHANGED <<surroundings, pc, revents, stop_seen, i, j, batch, next_seq,
                   log>>

----------------------------------------------------------------------------
(* The thread                                                              *)

\* mutant: each poll serves the first source that is ready
FirstReadable ==
    {s \in Sources : buf[s] # <<>> /\ \A t \in 1 .. s - 1 : buf[t] = <<>>}

Readable == {s \in Sources : buf[s] # <<>>}

\* poll returns what is ready; a timeout or an error only starts it over.
Poll ==
    /\ pc = "poll"
    /\ Readable # {} \/ event
    /\ revents' = Readable
    /\ stop_seen' = event
    /\ i' = 1
    /\ pc' = "scan"
    /\ UNCHANGED <<surroundings, j, batch, next_seq, sink, log>>

SkipSource ==
    /\ pc = "scan" /\ i \in Sources \ revents
    /\ i' = i + 1
    /\ UNCHANGED <<surroundings, pc, revents, stop_seen, j, batch, next_seq,
                   sink, log>>

\* mutant: the first frame of a batch repeats the last number of the one before
StampOffByOne(k) == IF next_seq = 0 THEN k - 1 ELSE next_seq + k - 2

\* The k-th frame of a batch.
Stamp(k) == next_seq + k - 1

DrainSource ==
    /\ pc = "scan" /\ i \in revents
    /\ LET frames == DrainedFrames(i)
           stamped == [k \in DOMAIN frames |->
                          [seq |-> Stamp(k), src |-> i, nth |-> frames[k]]]
       IN  /\ batch' = stamped
           /\ next_seq' = next_seq + Len(frames)
           /\ log' = log \o stamped
           /\ IF frames = <<>> THEN i' = i + 1 /\ UNCHANGED <<j, pc>>
              ELSE i' = i /\ j' = 1 /\ pc' = "push"
    /\ buf' = [buf EXCEPT ![i] = Undrained(i)]
    /\ UNCHANGED <<arrived, joining, event, owed, revents, stop_seen, sink>>

\* mutant: a full sink is skipped
Refused(q, items) ==
    IF Len(q) + Len(items) > Capacity THEN q ELSE q \o items

\* push_batch drops the oldest to make room.
Pushed(q, items) ==
    LET all == q \o items
    IN  IF Len(all) <= Capacity THEN all
        ELSE SubSeq(all, Len(all) - Capacity + 1, Len(all))

PushSink ==
    /\ pc = "push"
    /\ sink' = [sink EXCEPT ![j] = Pushed(@, batch)]
    /\ IF j < NSinks
       THEN /\ j' = j + 1
            /\ UNCHANGED <<pc, i, batch>>
       ELSE /\ i' = i + 1
            /\ batch' = <<>>
            /\ pc' = "scan"
            /\ UNCHANGED j
    /\ UNCHANGED <<surroundings, revents, stop_seen, next_seq, log>>

ScanDone == pc = "scan" /\ i > NSources

EndScan ==
    /\ ScanDone
    /\ pc' = IF stop_seen THEN "exited" ELSE "poll"
    /\ UNCHANGED <<surroundings, revents, stop_seen, i, j, batch, next_seq,
                   sink, log>>

FanOutRun == Poll \/ SkipSource \/ DrainSource \/ PushSink \/ EndScan

----------------------------------------------------------------------------
(* Properties                                                              *)

\* Every sink holds an unbroken run of the one stamped sequence, up to the
\* newest batch FanOut::run gave it: whatever one consumer loses, it loses at
\* the old end, and the other sinks are not touched by it.
SinksAgree ==
    \A q \in Sinks :
        LET given == IF pc = "push" /\ j <= q THEN Len(log) - Len(batch)
                                              ELSE Len(log)
        IN  sink[q] = SubSeq(log, given - Len(sink[q]) + 1, given)

\* The sequence FanOut::run stamps is dense (the n-th frame has sequence
\* n - 1, so a jump at a consumer is loss after ingest) and first-in
\* first-out for each source, although sources are drained in pieces and in
\* turn.
DenseAndFifo ==
    /\ \A n \in DOMAIN log : log[n].seq = n - 1
    /\ \A m, n \in DOMAIN log :
          m < n /\ log[m].src = log[n].src => log[m].nth < log[n].nth

=============================================================================
