------------------------------- MODULE Ingest -------------------------------
(***************************************************************************)
(* The gateway's ingest side as main (src/src/main.cpp) builds it: the     *)
(* option --topology decides at the start between the one thread of FanOut *)
(* and the thread per source of RingIngest, over the same sources and with *)
(* the same stop protocol.                                                 *)
(***************************************************************************)
EXTENDS FanOut, RingIngest

VARIABLE topology

vars == <<topology, surroundings, fanOutVars, ringIngestVars>>

Init ==
    /\ topology \in {"queue", "ring"}
    /\ SurroundingsInit /\ FanOutInit /\ RingIngestInit

\* Sources receive frames, and main stops the ingest, in either topology.
Outside ==
    /\ Stop \/ \E s \in Sources : ArriveFrame(s) \/ ArriveRunt(s)
    /\ UNCHANGED <<topology, fanOutVars, ringIngestVars>>

Consume ==
    /\ topology = "queue"
    /\ \E q \in Sinks : PopSink(q)
    /\ UNCHANGED <<topology, ringIngestVars>>

RunFanOut ==
    /\ topology = "queue"
    /\ FanOutRun
    /\ UNCHANGED <<topology, ringIngestVars>>

RunRingIngest(s) ==
    /\ topology = "ring"
    /\ RingIngestRun(s)
    /\ UNCHANGED <<topology, fanOutVars>>

\* The join of stop() returns.
Joined == IF topology = "queue" THEN pc = "exited" ELSE AllExited

Next ==
    \/ Outside \/ Consume \/ RunFanOut
    \/ \E s \in Sources : RunRingIngest(s)
    \/ Joined /\ UNCHANGED vars

Spec == Init /\ [][Next]_vars

\* The operating system runs the threads; consumers, buses and main are free.
FairSpec ==
    Spec /\ WF_vars(RunFanOut) /\ \A s \in Sources : WF_vars(RunRingIngest(s))

----------------------------------------------------------------------------
(* Properties                                                              *)

\* What consumers rely on to tell loss from disorder (docs/wire-format.md):
\* FanOut::run numbers frames densely and keeps the order of each source, and
\* so do the positions the threads of RingIngest claim concurrently.
OrderKept == DenseAndFifo /\ PerSourceFifo

\* FanOut::stop and RingIngest::stop return: one write of the stop event ends
\* every thread.  It is polled and never read, so the first thread to see it
\* does not take it from the others.
StopReturns == joining ~> Joined

\* A frame in the buffer of a source is drained, whatever the sinks do and even
\* if the other sources are readable for ever, unless the gateway is stopped:
\* FanOut::run serves all that its poll found before it polls again.
NoStarvation ==
    \A s \in Sources : \A a \in 1 .. MaxArrivals :
        a \in Range(buf[s]) ~> (a \notin Range(buf[s]) \/ Joined)

Ingested(s, a) ==
    IF topology = "queue"
    THEN \E f \in Range(log) : f.src = s /\ f.nth = a
    ELSE \E p \in DOMAIN cell : cell[p] = [src |-> s, nth |-> a]

\* Frames already in a socket buffer when stop() is called are not thrown
\* away by it, if the buffer holds no more than one drain takes.  And RingIngest
\* leaves no hole: when the join returns, every position that was ever claimed
\* has been published, so no reader waits at one for ever, and each drained frame
\* sits at exactly one position.
StopKeepsFrames ==
    /\ topology = "ring" => NoHoleAfterStop
    /\ Joined =>
        \A s \in Sources : Len(owed[s]) <= DrainBatch =>
            \A a \in Range(owed[s]) \ {Runt} : Ingested(s, a)

=============================================================================
