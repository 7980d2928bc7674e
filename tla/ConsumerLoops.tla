--------------------------- MODULE ConsumerLoops ---------------------------
(***************************************************************************)
(* The main loops of the consumer programs, src/src/probe_main.cpp,        *)
(* record_main.cpp and cadence_main.cpp: connect, read batches until the   *)
(* stream ends, connect again if told to, and say at the end how it went.  *)
(* What they read is anything a FrameStream may return, a faulty stream    *)
(* included; the time is up, or a signal comes, at any moment.             *)
(*                                                                         *)
(* A record of a batch is the next frame, a frame with an unannounced hole *)
(* before it, a marker of one lost or skipped frame, or an echo.           *)
(***************************************************************************)
EXTENDS GapTracker, Sequences, Loops

CONSTANTS
    Batches,          \* the batches read, sequences of kinds (empty: no effect)
    Starts,           \* the numbers a fresh stream may start at
    MaxConnections,   \* bounds: connections made,
    MaxRecords        \* and records read

Kinds == {"frame", "jump", "gap", "absent", "echo"}

ASSUME LoopsAssumption ==
    /\ Batches \subseteq Seq(Kinds) /\ Starts \subseteq Nat
    /\ MaxConnections \in Nat /\ MaxRecords \in Nat

VARIABLES
    program, reconnect,      \* which program, and its --reconnect
    cross, clock,            \* the probe's --cross; is its warmup over?
    lpc,                     \* "connect", "read", "returned" or "gave up"
    connections,
    gaps,                    \* the GapTracker
    counted,                 \* frames
    measured, warmup_discarded,           \* the probe's samples
    write_errors, protocol_errs,
    result,                  \* the exit status
    upcoming,                \* the sequence number after the newest read
    begun,                   \* history: this connection has brought a record
    holes,                   \* history: unannounced holes met
    records_read, bus_frames,    \* history: records read, bus frames among them
    early                    \* history: samples taken during the warmup

options == <<program, reconnect, cross>>
figures == <<gaps, counted, measured, warmup_discarded, write_errors>>
stream == <<upcoming, begun, holes, records_read, bus_frames, early>>
loopVars == <<options, clock, lpc, connections, figures, protocol_errs, result,
              stream>>

LoopsInit ==
    /\ program \in {"probe", "recorder", "cadence"}
    /\ reconnect \in BOOLEAN
    /\ cross \in BOOLEAN /\ (cross => program = "probe")
    /\ clock = "warmup"
    /\ lpc = "connect" /\ connections = 0
    /\ gaps = NewTracker /\ counted = 0
    /\ measured = 0 /\ warmup_discarded = 0
    /\ write_errors = 0 /\ protocol_errs = 0 /\ result = 0
    /\ upcoming = 0 /\ begun = FALSE /\ holes = 0 /\ records_read = 0 /\ bus_frames = 0
    /\ early = 0

WarmupOver ==
    /\ clock = "warmup" /\ lpc \in {"connect", "read"}
    /\ clock' = "measure"
    /\ UNCHANGED <<options, lpc, connections, figures, protocol_errs, result,
                   stream>>

----------------------------------------------------------------------------
(* Connecting                                                              *)

\* A fresh stream starts wherever the gateway is by now.
Connected(start) ==
    /\ lpc = "connect" /\ connections < MaxConnections
    /\ connections' = connections + 1
    /\ gaps' = Reset(gaps)
    /\ lpc' = "read"
    /\ upcoming' = start /\ begun' = FALSE
    /\ UNCHANGED <<options, clock, counted, measured, warmup_discarded,
                   write_errors, protocol_errs, result, holes, records_read, bus_frames,
                   early>>

\* With --reconnect the program tries again, and nothing has changed.
ConnectFails ==
    /\ lpc = "connect" /\ ~reconnect
    /\ lpc' = "gave up" /\ result' = 1
    /\ UNCHANGED <<options, clock, connections, figures, protocol_errs, stream>>

\* The recorder answers for its file, the others for the sequence (they test
\* silent_jumps, which counts the events silent_lost adds up).
Status(errs) ==
    IF errs > 0 \/ (IF program = "recorder" THEN write_errors > 0
                                            ELSE gaps.silent_lost > 0)
    THEN 1 ELSE 0

\* The deadline or a signal, tested by both loops.
TimeUp ==
    /\ lpc \in {"connect", "read"}
    /\ lpc' = "returned" /\ result' = Status(protocol_errs)
    /\ UNCHANGED <<options, clock, connections, figures, protocol_errs, stream>>

----------------------------------------------------------------------------
(* Reading                                                                 *)

\* The connection ended, orderly or (errs = 1) with a protocol error.
StreamEnds(errs) ==
    /\ lpc = "read"
    /\ protocol_errs' = protocol_errs + errs
    /\ IF reconnect THEN lpc' = "connect" /\ UNCHANGED result
                    ELSE lpc' = "returned" /\ result' = Status(protocol_errs + errs)
    /\ UNCHANGED <<options, clock, connections, figures, stream>>

\* The record of a kind when number q comes next, and what comes after it.
RecordOf(kind, q) ==
    CASE kind = "frame" -> FrameRec(q)
      [] kind = "jump" -> FrameRec(q + 1)
      [] kind = "gap" -> GapRec(q, 1, "overrun")
      [] kind = "absent" -> GapRec(q, 1, "absent")
      [] kind = "echo" -> EchoRec(0)

NumberAfter(kind, q) == IF kind = "jump" THEN q + 2 ELSE q + 1

\* observe returns true.
IsMeasured(f) == f.kind = "frame"

\* One record: an echo is returned, the rest observed.  A reader cannot see a
\* hole before the first record of a connection.
ReadRecord(s, kind) ==
    LET f == RecordOf(kind, s.next)
    IN  IF f.kind = "echo" THEN s
        ELSE [gaps |-> Observe(s.gaps, f), next |-> NumberAfter(kind, s.next),
              begun |-> TRUE,
              holes |-> s.holes + (IF s.begun /\ kind = "jump" THEN 1 ELSE 0),
              measured |-> s.measured + (IF IsMeasured(f) THEN 1 ELSE 0),
              bus |-> s.bus + (IF kind \in {"frame", "jump"} THEN 1 ELSE 0)]

\* The probe compares a monotonic instant with the clock it measures by.
InWarmup == clock = "warmup" /\ ~cross

\* A batch.  All programs return the echoes and observe the rest; the probe
\* counts and measures the frames, the recorder writes the batch as it came.
Batch(b, written) ==
    /\ lpc = "read" /\ records_read + Len(b) <= MaxRecords
    /\ written \/ program = "recorder"
    /\ LET s == ForEach(ReadRecord,
                        [gaps |-> gaps, next |-> upcoming, begun |-> begun,
                         holes |-> holes, measured |-> 0, bus |-> bus_frames], b)
           n == s.measured
       IN  /\ gaps' = s.gaps /\ upcoming' = s.next /\ begun' = s.begun
           /\ holes' = s.holes /\ bus_frames' = s.bus
           /\ IF program = "probe"
              THEN /\ counted' = counted + n
                   /\ measured' = IF InWarmup THEN measured ELSE measured + n
                   /\ warmup_discarded' = warmup_discarded
                                          + (IF InWarmup THEN n ELSE 0)
                   /\ early' = early + (IF clock = "warmup" /\ ~InWarmup
                                        THEN n ELSE 0)
                   /\ UNCHANGED write_errors
              ELSE /\ counted' = IF program = "recorder" /\ written
                                 THEN counted + Len(b) ELSE counted
                   /\ write_errors' = IF written THEN write_errors
                                                 ELSE write_errors + 1
                   /\ UNCHANGED <<measured, warmup_discarded, early>>
    /\ records_read' = records_read + Len(b)
    /\ UNCHANGED <<options, clock, lpc, connections, protocol_errs, result>>

LoopsNext ==
    \/ WarmupOver \/ ConnectFails \/ TimeUp
    \/ \E start \in Starts : Connected(start)
    \/ \E errs \in 0 .. 1 : StreamEnds(errs)
    \/ \E b \in Batches, written \in BOOLEAN : Batch(b, written)

LoopsSpec == LoopsInit /\ [][LoopsNext]_loopVars

----------------------------------------------------------------------------
(* Properties                                                              *)

\* The closing report tells the truth, over any number of connections.  The exit
\* status of a program that gets there is non-zero exactly if there was a protocol
\* error, or a fault the program answers for, on any of its connections: an
\* unannounced hole for the probe and the cadence monitor, a short write for the
\* recorder.  Announced loss, and what went past between two connections, is no
\* failure.  And the probe's latency samples are frames from the bus, each one
\* measured or discarded as warmup, never a marker or an echo.
ReportHonest ==
    /\ lpc = "returned" =>
          (result = 1 <=>
              \/ protocol_errs > 0
              \/ program = "recorder" /\ write_errors > 0
              \/ program # "recorder" /\ holes > 0)
    /\ program = "probe" =>
          /\ measured + warmup_discarded = counted
          /\ counted = bus_frames /\ gaps.frames = bus_frames

\* "--warmup N  discard the first N seconds of latency samples".
WarmupDiscarded == early = 0

=============================================================================
