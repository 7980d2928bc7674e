-------------------------- MODULE SyntheticSource --------------------------
(***************************************************************************)
(* The timer-driven source of src/src/synthetic_source.cpp, with the       *)
(* ingest loop that polls it.  The timer counts expirations until they are *)
(* read; drain turns them into frames owed and hands over as many as fit.  *)
(* The ingest thread normally serves every tick before the next one, but   *)
(* may be held up for some ticks (MaxStalls in all).  A behaviour goes on  *)
(* for ever, so frames are counted by their difference from the ticks.     *)
(***************************************************************************)
EXTENDS Integers

CONSTANTS
    PerTick,      \* cfg_.frames_per_tick
    DrainBatch,   \* frames the caller's buffer holds, kDrainBatch
    Ids,          \* number of CAN identifiers in the cycle
    MaxStalls     \* bound: ticks that find the one before not yet served

ASSUME SyntheticAssumption ==
    /\ {PerTick, DrainBatch, Ids} \subseteq Nat \ {0} /\ MaxStalls \in Nat

VARIABLES
    expirations,    \* timer expirations not yet read
    pending,        \* pending_
    counter,        \* counter_, modulo Ids
    stalls,
    missing         \* history: frames due for the ticks so far, less those made

synthVars == <<expirations, pending, counter, stalls, missing>>

SynthInit ==
    /\ expirations = 0 /\ pending = 0 /\ counter = 0
    /\ stalls = 0 /\ missing = 0

\* The timer expires; a tick the thread has not served in time is a stall.
Tick ==
    /\ expirations > 0 => stalls < MaxStalls
    /\ expirations' = expirations + 1
    /\ stalls' = IF expirations > 0 THEN stalls + 1 ELSE stalls
    /\ missing' = missing + PerTick
    /\ UNCHANGED <<pending, counter>>

Owed == expirations * PerTick

\* mutant: a drain hands over one tick's frames
OneTicksWorth(n) == IF PerTick < n THEN PerTick ELSE n

Fits(n) == IF DrainBatch < n THEN DrainBatch ELSE n

\* drain, called when poll finds the timer readable.
SynthDrain ==
    /\ expirations > 0
    /\ LET want == Fits(pending + Owed)
       IN  /\ pending' = pending + Owed - want
           /\ counter' = (counter + want) % Ids
           /\ missing' = missing - want
    /\ expirations' = 0
    /\ UNCHANGED stalls

----------------------------------------------------------------------------
(* Properties                                                              *)

\* A tick lost to scheduling is owed, not skipped, and the debt is repaid: once
\* the thread keeps up again, the frames made catch up with the ticks, although
\* the timer only ever calls for a drain once per tick.
DebtRepaid == missing > 0 ~> missing = 0

=============================================================================
