--------------------------- MODULE SourceBuffers ---------------------------
(***************************************************************************)
(* What both ingest topologies work on: the sources, whose kernel buffers  *)
(* discard what does not fit, and the stop event, an eventfd that stop()   *)
(* writes once before it joins.  A message is the arrival number of a      *)
(* frame, or a Runt that Source::drain consumes and yields no frame for.   *)
(* At a noisy source runts never run out: it may be readable for ever.     *)
(***************************************************************************)
EXTENDS Integers, Sequences, Functions, Loops

CONSTANTS
    NSources,
    DrainBatch,    \* kDrainBatch
    BufferSize,    \* messages a source's kernel buffer holds
    Noisy,         \* the sources that also receive runts
    MaxArrivals    \* bound: frames that arrive, at all sources

ASSUME SourcesAssumption ==
    /\ {NSources, DrainBatch, BufferSize} \subseteq Nat \ {0}
    /\ MaxArrivals \in Nat /\ Noisy \subseteq 1 .. NSources

Sources == 1 .. NSources
Runt == 0

VARIABLES
    arrived,     \* frames that arrived at each source
    buf,         \* kernel buffers
    joining,     \* stop() has been called
    event,       \* the stop event is readable
    owed         \* history: what the buffers held when stop was called

surroundings == <<arrived, buf, joining, event, owed>>

SurroundingsInit ==
    /\ arrived = [s \in Sources |-> 0]
    /\ buf = [s \in Sources |-> <<>>]
    /\ joining = FALSE /\ event = FALSE
    /\ owed = buf

Receive(s, m) ==
    buf' = IF Len(buf[s]) < BufferSize THEN [buf EXCEPT ![s] = Append(@, m)]
                                       ELSE buf

ArriveFrame(s) ==
    /\ FoldFunction(+, 0, arrived) < MaxArrivals
    /\ arrived' = [arrived EXCEPT ![s] = @ + 1]
    /\ Receive(s, arrived[s] + 1)
    /\ UNCHANGED <<joining, event, owed>>

\* bound: a buffer holds one runt at a time
ArriveRunt(s) ==
    /\ s \in Noisy /\ Runt \notin Range(buf[s])
    /\ Receive(s, Runt)
    /\ UNCHANGED <<arrived, joining, event, owed>>

Stop ==
    /\ ~joining
    /\ joining' = TRUE /\ event' = TRUE
    /\ owed' = buf
    /\ UNCHANGED <<arrived, buf>>

Drained(s) == IF Len(buf[s]) < DrainBatch THEN Len(buf[s]) ELSE DrainBatch

\* The loop over the messages received: a runt is skipped.
KeepFrame(out, a) == IF a = Runt THEN out ELSE Append(out, a)

\* The frames Source::drain hands over, and what it leaves in the buffer.
DrainedFrames(s) ==
    ForEach(KeepFrame, <<>>, SubSeq(buf[s], 1, Drained(s)))

Undrained(s) == SubSeq(buf[s], Drained(s) + 1, Len(buf[s]))

=============================================================================
