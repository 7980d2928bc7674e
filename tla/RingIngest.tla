----------------------------- MODULE RingIngest -----------------------------
(***************************************************************************)
(* The ingest threads of topology B (src/src/ring_ingest.cpp): one thread  *)
(* per source polls its source and the shared stop event, drains a batch,  *)
(* claims a run of ring positions for it with one fetch_add and writes the *)
(* frames there.  A write of a frame (BroadcastRing's claim, word stores   *)
(* and publication) is one step here; positions are never reused.          *)
(***************************************************************************)
EXTENDS SourceBuffers

VARIABLES
    rpc,            \* per thread, as the next three
    rstop,          \* whether the last poll found the stop event
    run,            \* what is left of the batch
    ticket,         \* the position of its next frame
    write_pos,      \* the ring's ticket counter
    cell            \* position -> the frame published there

threads == <<rpc, rstop, run, ticket>>
ringIngestVars == <<threads, write_pos, cell>>

RingIngestInit ==
    /\ rpc = [s \in Sources |-> "poll"]
    /\ rstop = [s \in Sources |-> FALSE]
    /\ run = [s \in Sources |-> <<>>]
    /\ ticket = [s \in Sources |-> 0]
    /\ write_pos = 0 /\ cell = <<>>

\* mutant: the thread that sees the event reads it
ConsumeEvent == event' = FALSE

LeaveEvent == UNCHANGED event

\* poll finds the event and nothing else.
PollStop(s) ==
    /\ rpc[s] = "poll" /\ event /\ buf[s] = <<>>
    /\ LeaveEvent
    /\ rpc' = [rpc EXCEPT ![s] = "exited"]
    /\ UNCHANGED <<arrived, buf, joining, owed, rstop, run, ticket, write_pos,
                   cell>>

\* poll finds the source readable.
PollReadable(s) ==
    /\ rpc[s] = "poll" /\ buf[s] # <<>>
    /\ rstop' = [rstop EXCEPT ![s] = event]
    /\ rpc' = [rpc EXCEPT ![s] = "drain"]
    /\ UNCHANGED <<surroundings, run, ticket, write_pos, cell>>

Drain(s) ==
    /\ rpc[s] = "drain"
    /\ run' = [run EXCEPT ![s] = DrainedFrames(s)]
    /\ buf' = [buf EXCEPT ![s] = Undrained(s)]
    /\ rpc' = [rpc EXCEPT ![s] = IF DrainedFrames(s) = <<>> THEN "write"
                                                            ELSE "ticket"]
    /\ UNCHANGED <<arrived, joining, event, owed, rstop, ticket, write_pos,
                   cell>>

\* publish_batch: one fetch_add for the whole batch.
Ticket(s) ==
    /\ rpc[s] = "ticket"
    /\ ticket' = [ticket EXCEPT ![s] = write_pos]
    /\ write_pos' = write_pos + Len(run[s])
    /\ rpc' = [rpc EXCEPT ![s] = "write"]
    /\ UNCHANGED <<surroundings, rstop, run, cell>>

\* mutant: the thread leaves with frames of its batch unwritten
LeaveAtStop(s) == run[s] = <<>> \/ rstop[s]

BatchDone(s) == run[s] = <<>>

NextPos(s) == ticket[s]

WriteAt(s) ==
    /\ rpc[s] = "write" /\ ~BatchDone(s)
    /\ cell' = [p \in DOMAIN cell \cup {NextPos(s)} |->
                    IF p = NextPos(s) THEN [src |-> s, nth |-> Head(run[s])]
                                      ELSE cell[p]]
    /\ run' = [run EXCEPT ![s] = Tail(@)]
    /\ ticket' = [ticket EXCEPT ![s] = @ + 1]
    /\ UNCHANGED <<surroundings, rpc, rstop, write_pos>>

\* The stop found by the poll is honoured after the batch is published.
EndRound(s) ==
    /\ rpc[s] = "write" /\ BatchDone(s)
    /\ rpc' = [rpc EXCEPT ![s] = IF rstop[s] THEN "exited" ELSE "poll"]
    /\ UNCHANGED <<surroundings, rstop, run, ticket, write_pos, cell>>

RingIngestRun(s) ==
    \/ PollStop(s) \/ PollReadable(s) \/ Drain(s)
    \/ Ticket(s) \/ WriteAt(s) \/ EndRound(s)

AllExited == \A s \in Sources : rpc[s] = "exited"

----------------------------------------------------------------------------
(* Properties                                                              *)

\* Per-source first-in first-out (docs/wire-format.md): of two published
\* frames of one source, the one with the lower ring position arrived first,
\* although several threads claim runs of positions concurrently.
PerSourceFifo ==
    \A p, q \in DOMAIN cell :
        p < q /\ cell[p].src = cell[q].src => cell[p].nth < cell[q].nth

\* RingIngest::stop leaves no hole behind (part of StopKeepsFrames).
NoHoleAfterStop ==
    AllExited =>
        /\ DOMAIN cell = 0 .. write_pos - 1
        /\ \A p, q \in DOMAIN cell : cell[p] = cell[q] => p = q

=============================================================================
