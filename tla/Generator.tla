----------------------------- MODULE Generator -----------------------------
(***************************************************************************)
(* The load generator, src/src/gen_main.cpp: a periodic timer armed at an  *)
(* absolute instant, and a loop that sends one frame for each expiration   *)
(* it reads until all frames are out, recording how far each was behind    *)
(* its instant of the schedule.  Time is counted from "start".             *)
(***************************************************************************)
EXTENDS Integers

CONSTANTS
    Period,       \* period_ns
    FramesDue,    \* total
    MaxTime       \* bound: the clock

ASSUME GeneratorAssumption ==
    {Period, FramesDue} \subseteq Nat \ {0} /\ MaxTime \in Nat

VARIABLES
    now,              \* CLOCK_MONOTONIC
    timer_read,       \* expirations the timer has handed out
    gpc,              \* "read", "send", "done"
    left,             \* expirations - e: frames to send before the next read
    k,                \* frames the schedule is past
    tx, enobufs, send_errors,
    jitter            \* the pacing error of the newest frame

genVars == <<now, timer_read, gpc, left, k, tx, enobufs, send_errors, jitter>>

\* The timer is armed with a lead: the first tick is in the future.
GenInit ==
    /\ now = -1 /\ timer_read = 0 /\ gpc = "read" /\ left = 0 /\ k = 0
    /\ tx = 0 /\ enobufs = 0 /\ send_errors = 0 /\ jitter = 0

Advance ==
    /\ now < MaxTime
    /\ now' = now + 1
    /\ UNCHANGED <<timer_read, gpc, left, k, tx, enobufs, send_errors, jitter>>

\* Expirations so far: at 0, Period, 2 * Period ...
Expired == IF now < 0 THEN 0 ELSE now \div Period + 1

\* mutant: a read is one expiration
OneExpiration == 1

Expirations == Expired - timer_read

\* read(timer_fd) blocks until there is an expiration.
ReadTimer ==
    /\ gpc = "read" /\ k < FramesDue /\ Expired > timer_read
    /\ left' = Expirations
    /\ timer_read' = Expired
    /\ gpc' = "send"
    /\ UNCHANGED <<now, k, tx, enobufs, send_errors, jitter>>

\* It is interrupted and tried again, or fails and the program stops there.
ReadFails ==
    /\ gpc = "read" /\ k < FramesDue
    /\ gpc' = "done"
    /\ UNCHANGED <<now, timer_read, left, k, tx, enobufs, send_errors, jitter>>

Ideal == k * Period

\* One turn of the loop over the expirations; a frame the kernel has no room
\* for is counted and not retried.
SendFrame(result) ==
    /\ gpc = "send" /\ left > 0 /\ k < FramesDue
    /\ jitter' = now - Ideal
    /\ tx' = IF result = "whole" THEN tx + 1 ELSE tx
    /\ enobufs' = IF result = "ENOBUFS" THEN enobufs + 1 ELSE enobufs
    /\ send_errors' = IF result = "error" THEN send_errors + 1 ELSE send_errors
    /\ left' = left - 1 /\ k' = k + 1
    /\ UNCHANGED <<now, timer_read, gpc>>

EndOfRound ==
    /\ gpc = "send" /\ (left = 0 \/ k = FramesDue)
    /\ gpc' = IF k < FramesDue THEN "read" ELSE "done"
    /\ UNCHANGED <<now, timer_read, left, k, tx, enobufs, send_errors, jitter>>

GenNext ==
    \/ Advance \/ ReadTimer \/ ReadFails \/ EndOfRound
    \/ \E result \in {"whole", "ENOBUFS", "error"} : SendFrame(result)

GenSpec == GenInit /\ [][GenNext]_genVars

----------------------------------------------------------------------------
(* Properties                                                              *)

\* The generator keeps to its schedule however late it is woken: no frame is
\* sent before its instant (a pacing error is never negative), a wakeup that
\* covers several expirations makes up for all of them before the timer is read
\* again, and the three outcomes account for every frame attempted.
Paced ==
    /\ jitter >= 0
    /\ tx + enobufs + send_errors = k /\ k <= FramesDue
    /\ gpc = "read" => k = timer_read

=============================================================================
