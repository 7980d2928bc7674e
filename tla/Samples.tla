------------------------------ MODULE Samples ------------------------------
(***************************************************************************)
(* The bounded sample buffer of src/src/samples.cpp, which halves itself   *)
(* when it is full and then keeps every stride-th sample.  A retained      *)
(* sample is kept with its number in the stream.                           *)
(***************************************************************************)
EXTENDS Integers, Sequences

CONSTANTS
    Requested,    \* the capacity asked for
    Values,       \* the values a sample may have
    MaxSamples    \* bound: samples added

ASSUME SamplesAssumption ==
    Requested \in Nat /\ Values \subseteq Int /\ MaxSamples \in Nat

capacity == IF Requested = 0 THEN 1 ELSE Requested

VARIABLES
    values, total, stride, seen,
    peak    \* history: the most samples the vector ever held

samplesVars == <<values, total, stride, seen, peak>>

SamplesInit == values = <<>> /\ total = 0 /\ stride = 1 /\ seen = 0 /\ peak = 0

----------------------------------------------------------------------------
\* mutant: the newer half is kept
SecondHalf(vs) == SubSeq(vs, (Len(vs) \div 2) + 1, Len(vs))

\* Every second sample, from the first on.
EverySecond(vs) == [k \in 1 .. (Len(vs) + 1) \div 2 |-> vs[2 * k - 1]]

Full(vs) == Len(vs) >= capacity

\* add, and decimate when the buffer is full.
Add(v) ==
    /\ total < MaxSamples
    /\ total' = total + 1
    /\ IF seen + 1 < stride
       THEN seen' = seen + 1 /\ UNCHANGED <<values, stride, peak>>
       ELSE LET grown == Append(values, [at |-> total + 1, v |-> v])
            IN  /\ seen' = 0
                /\ values' = IF Full(grown) THEN EverySecond(grown) ELSE grown
                /\ stride' = IF Full(grown) THEN 2 * stride ELSE stride
                /\ peak' = IF Len(grown) > peak THEN Len(grown) ELSE peak

SamplesNext == \E v \in Values : Add(v)

SamplesSpec == SamplesInit /\ [][SamplesNext]_samplesVars

----------------------------------------------------------------------------
(* Properties                                                              *)

\* The retained samples cover the whole run evenly, however often the buffer
\* was halved: neighbours are at least one and less than two strides apart,
\* and so are the ends of the run, so neither the warm-up nor the tail
\* dominates.
EvenlySpread ==
    /\ values # <<>> =>
          values[1].at = 1 /\ total - values[Len(values)].at < 2 * stride
    /\ \A k \in 1 .. Len(values) - 1 :
          values[k + 1].at - values[k].at \in stride .. 2 * stride - 1

\* add never allocates: the vector never outgrows what the constructor reserved,
\* not even between the push_back and the decimation.
NeverAllocates == peak <= capacity

=============================================================================
