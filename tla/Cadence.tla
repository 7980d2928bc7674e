------------------------------ MODULE Cadence ------------------------------
(***************************************************************************)
(* CadenceMonitor (src/src/cadence.hpp) watching a bus through a gateway   *)
(* that may lose frames.  Identifier id is sent every Period[id] units of  *)
(* time, or late when the bus itself is at fault.  The gateway loses any   *)
(* frames, reports a loss by a marker ahead of the next frame it delivers, *)
(* and the consumer may reconnect, having missed what went past meanwhile  *)
(* (cadence_main.cpp calls reset_all).  Timestamps are taken at ingest.    *)
(***************************************************************************)
EXTENDS Integers, Sequences

CONSTANTS
    Ids,
    Period,       \* id -> its period on the bus
    Calibrate,    \* calibrate_
    Factor,       \* factor_
    Late,         \* delays the bus may add to a period
    MaxTime       \* bound: the last timestamp

ASSUME CadenceAssumption ==
    /\ Period \in [Ids -> Nat \ {0}]
    /\ Calibrate \in Nat /\ Calibrate >= 2
    /\ Factor \in Nat \ {0}
    /\ Late \subseteq Nat /\ 0 \in Late
    /\ MaxTime \in Nat

VARIABLES
    punctual,     \* the bus keeps to the periods
    due,          \* id -> when the bus sends it next
    sent,         \* id -> when the bus sent it last, or -1
    lost,         \* frames were lost since the last one delivered
    away,         \* the consumer is disconnected
    ids,          \* ids_
    dirty,        \* history: ids with a loss or outage since their last frame
    seen          \* history: the last frame observed, and the truth about it

cadenceVars == <<punctual, due, sent, lost, away, ids, dirty, seen>>

\* ids_ holds a state for every identifier seen; have_last marks those.
NewState ==
    [last_ns |-> 0, have_last |-> FALSE, resync |-> FALSE, samples |-> <<>>,
     expected_ns |-> 0]

Nothing == [did |-> "nothing", id |-> CHOOSE x \in Ids : TRUE, truth |-> 0,
            clean |-> FALSE, expected |-> 0]

CadenceInit ==
    /\ punctual \in BOOLEAN
    /\ due \in {d \in [Ids -> 1 .. MaxTime] : \A x \in Ids : d[x] <= Period[x]}
    /\ sent = [x \in Ids |-> -1]
    /\ lost = FALSE /\ away = FALSE
    /\ ids = [x \in Ids |-> NewState]
    /\ dirty = {} /\ seen = Nothing

----------------------------------------------------------------------------
(* The monitor                                                             *)

\* mutant: only the identifier of the frame after the marker is resynchronised
ResyncOne(states, x) == [states EXCEPT ![x].resync = states[x].have_last]

\* A marker, or reset_all: the next interval of every known id is
\* unmeasurable.
ResyncAll(states, x) ==
    [y \in Ids |-> [states[y] EXCEPT !.resync = states[y].have_last \/ @]]

\* Element i of the sorted samples, the first being element 0, is the least of
\* them that has more than i at or below it.
HasBelow(samples, v, i) ==
    \E pick \in [0 .. i -> {k \in DOMAIN samples : samples[k] <= v}] :
        \A j, k \in 0 .. i : pick[j] = pick[k] => j = k

Sorted(samples, i) ==
    CHOOSE v \in {samples[k] : k \in DOMAIN samples} :
        /\ HasBelow(samples, v, i)
        /\ \A k \in DOMAIN samples : HasBelow(samples, samples[k], i) => v <= samples[k]

Median(samples) == Sorted(samples, Len(samples) \div 2)

Unmeasurable(s) == s.resync

Calibrating(s) == Len(s.samples) < Calibrate

Calibrated(s, dt) ==
    LET samples == Append(s.samples, dt)
    IN  [s EXCEPT !.samples = samples,
                  !.expected_ns = IF Len(samples) = Calibrate
                                  THEN Median(samples) ELSE @]

TooLate(s, dt) == dt > Factor * s.expected_ns

Measurable(s) == [s EXCEPT !.resync = FALSE]

\* observe, for a frame stamped now.
Observed(s, now) ==
    LET dt == IF now > s.last_ns THEN now - s.last_ns ELSE 0
        t == [s EXCEPT !.last_ns = now, !.have_last = TRUE]
    IN  IF ~s.have_last THEN [state |-> t, did |-> "first"]
        ELSE IF Unmeasurable(s) THEN [state |-> Measurable(t), did |-> "suppressed"]
        ELSE IF Calibrating(s) THEN [state |-> Calibrated(t, dt), did |-> "calibrated"]
        ELSE [state |-> t, did |-> IF TooLate(s, dt) THEN "anomaly" ELSE "fine"]

----------------------------------------------------------------------------
(* The bus, the gateway and the consumer's loop                            *)

\* The next frame on the bus, and when its successor is due.
Earliest(x) == \A y \in Ids : due[x] <= due[y]

SendNext(x, late) ==
    /\ Earliest(x) /\ due[x] <= MaxTime
    /\ punctual => late = 0
    /\ due' = [due EXCEPT ![x] = @ + Period[x] + late]
    /\ sent' = [sent EXCEPT ![x] = due[x]]

\* The gateway loses it, or the consumer is not there.
Lose(x, late) ==
    /\ SendNext(x, late)
    /\ lost' = TRUE
    /\ dirty' = Ids
    /\ seen' = Nothing
    /\ UNCHANGED <<punctual, away, ids>>

\* The gateway delivers it, behind a marker if frames were lost.
Deliver(x, late) ==
    /\ ~away
    /\ SendNext(x, late)
    /\ lost' = FALSE
    /\ LET known == IF lost THEN ResyncAll(ids, x) ELSE ids
           o == Observed(known[x], due[x])
       IN  /\ ids' = [known EXCEPT ![x] = o.state]
           /\ seen' = [did |-> o.did, id |-> x,
                       truth |-> IF sent[x] < 0 THEN 0 ELSE due[x] - sent[x],
                       clean |-> x \notin dirty,
                       expected |-> ids[x].expected_ns]
    /\ dirty' = dirty \ {x}
    /\ UNCHANGED <<punctual, away>>

Disconnect ==
    /\ ~away
    /\ away' = TRUE
    /\ seen' = Nothing
    /\ UNCHANGED <<punctual, due, sent, lost, ids, dirty>>

\* A fresh connection: what was lost is reported as an absence.
Reconnect ==
    /\ away
    /\ away' = FALSE
    /\ ids' = ResyncAll(ids, CHOOSE x \in Ids : TRUE)
    /\ dirty' = Ids
    /\ seen' = Nothing
    /\ UNCHANGED <<punctual, due, sent, lost>>

CadenceNext ==
    \/ \E x \in Ids, late \in Late : Lose(x, late) \/ Deliver(x, late)
    \/ Disconnect \/ Reconnect
    \/ (\A x \in Ids : due[x] > MaxTime) /\ UNCHANGED cadenceVars

CadenceSpec == CadenceInit /\ [][CadenceNext]_cadenceVars

----------------------------------------------------------------------------
(* Properties                                                              *)

\* Loss is never taken for lateness, in the gateway before, during or after
\* calibration, for any identifiers, and across reconnects: a frame is flagged
\* only if its identifier really was late on the bus, by more than factor
\* times its period, and on a punctual bus the expectation of a calibrated
\* identifier is its period.
LossIsNotLateness ==
    /\ seen.did = "anomaly" => seen.truth > Factor * Period[seen.id]
    /\ punctual =>
          \A x \in Ids : ~Calibrating(ids[x]) => ids[x].expected_ns = Period[x]

\* Suppression hides no more than it must: a calibrated identifier that is
\* too late is flagged if nothing was lost, and no connection made, since its
\* previous frame.
LateIsFlagged ==
    seen.clean /\ seen.expected > 0 /\ seen.truth > Factor * seen.expected
        => seen.did = "anomaly"

\* CadenceMonitor::observe flags the frames it should, and no others.
FlagsExact == LossIsNotLateness /\ LateIsFlagged

=============================================================================
