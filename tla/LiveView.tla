------------------------------ MODULE LiveView ------------------------------
(***************************************************************************)
(* The state behind the page of etg-view (src/src/view_main.cpp) and the   *)
(* two threads that share it under one mutex: the frame loop, which adds   *)
(* the frames of each batch to the totals, the latency window, the recent  *)
(* list and the per-second rate ring; and the page handler json_stats,     *)
(* which takes the lock twice, first for the latency samples and then for  *)
(* the rest.  Every critical section is one step.  Time is counted in      *)
(* units; the frame loop comes round at least once per unit while it is    *)
(* connected (read_batch waits 200 ms at most).  The table of identifiers  *)
(* and the loss counters (GapTracker) are left out.                        *)
(***************************************************************************)
EXTENDS Integers, Sequences

CONSTANTS
    Second,        \* units between two entries of the rate ring
    Window,        \* RollingLatency::kWindowNs
    MaxSamples,    \* RollingLatency::kMaxSamples
    RateWindow,    \* kRateWindow
    RecentFrames,  \* kRecentFrames
    MaxBatch,      \* bound: frames of a batch
    MaxFrames,     \* bound: frames received
    MaxUnits        \* bound

ASSUME LiveViewAssumption ==
    /\ {Second, Window, MaxSamples, RateWindow, RecentFrames} \subseteq Nat \ {0}
    /\ {MaxBatch, MaxFrames, MaxUnits} \subseteq Nat

VARIABLES
    now,
    came_round,     \* the frame loop has run in this unit
    connected,      \* state.connected
    frames,         \* state.frames; frame n is the n-th received
    off_domain,     \* state.off_domain
    samples,        \* state.latency: the times of the samples, oldest first
    recent,         \* state.recent
    rate, rate_pos, frames_at_tick, next_tick,
    copying,        \* json_stats is between its two locks
    copied,         \* what it copied under the first
    page,           \* the page last served
    ticks           \* history: time and frames at each entry of the rate ring

loop == <<came_round, connected, frames, off_domain, samples, recent, rate,
          rate_pos, frames_at_tick, next_tick, ticks>>
handler == <<copying, copied, page>>
viewVars == <<now, loop, handler>>

ViewInit ==
    /\ now = 0 /\ came_round = FALSE /\ connected = FALSE
    /\ frames = 0 /\ off_domain = 0 /\ samples = <<>> /\ recent = <<>>
    /\ rate = [k \in 0 .. RateWindow - 1 |-> 0] /\ rate_pos = 0
    /\ frames_at_tick = 0 /\ next_tick = Second
    /\ copying = FALSE /\ copied = <<>>
    /\ page = [time |-> 0, frames |-> 0, off_domain |-> 0, latency |-> <<>>,
               rate |-> [k \in 1 .. RateWindow |-> 0], upto |-> 1]
    /\ ticks = <<[time |-> 0, frames |-> 0]>>

\* A connected loop never lets a unit go by.
Advance ==
    /\ now < MaxUnits
    /\ connected => came_round
    /\ now' = now + 1
    /\ came_round' = FALSE
    /\ UNCHANGED <<connected, frames, off_domain, samples, recent, rate, rate_pos,
                   frames_at_tick, next_tick, ticks, handler>>

----------------------------------------------------------------------------
(* The frame loop                                                          *)

ViewConnect ==
    /\ ~connected
    /\ connected' = TRUE
    /\ came_round' = TRUE
    /\ UNCHANGED <<now, frames, off_domain, samples, recent, rate, rate_pos,
                   frames_at_tick, next_tick, ticks, handler>>

\* kClosed or a protocol error; the next attempt may take any time.
ViewDisconnect ==
    /\ connected
    /\ connected' = FALSE
    /\ UNCHANGED <<now, came_round, frames, off_domain, samples, recent, rate, rate_pos,
                   frames_at_tick, next_tick, ticks, handler>>

Newest(s, n) == IF Len(s) <= n THEN s ELSE SubSeq(s, Len(s) - n + 1, Len(s))

InWindow(t) == t >= now - Window

\* The front of s is dropped while it is before the cutoff.
FromWindow(s) ==
    LET first == CHOOSE k \in 1 .. Len(s) + 1 :
                     /\ k <= Len(s) => InWindow(s[k])
                     /\ \A j \in 1 .. k - 1 : ~InWindow(s[j])
    IN  SubSeq(s, first, Len(s))

\* n samples of the present instant are added: the front is dropped while it
\* is before the cutoff or there are too many.
Added(n) == Newest(FromWindow(samples \o [k \in 1 .. n |-> now]), MaxSamples)

Foreign(n, local) == off_domain + (IF local THEN 0 ELSE n)

TickDue == now >= next_tick

NextSlot == (rate_pos + 1) % RateWindow

\* One round of the loop: a batch of n frames (0 on a timeout), stamped with
\* this machine's clock or not, then the rate ring if a second is over.
Round(n, local) ==
    /\ connected
    /\ came_round' = TRUE
    /\ frames' = frames + n
    /\ off_domain' = Foreign(n, local)
    /\ samples' = IF local /\ n > 0 THEN Added(n) ELSE samples
    /\ recent' = Newest(recent \o [k \in 1 .. n |-> frames + k], RecentFrames)
    /\ IF TickDue
       THEN /\ next_tick' = now + Second
            /\ rate' = [rate EXCEPT ![rate_pos] = frames' - frames_at_tick]
            /\ frames_at_tick' = frames'
            /\ rate_pos' = NextSlot
            /\ ticks' = Append(ticks, [time |-> now, frames |-> frames'])
       ELSE UNCHANGED <<next_tick, rate, frames_at_tick, rate_pos, ticks>>
    /\ UNCHANGED <<now, connected, handler>>

----------------------------------------------------------------------------
(* The page                                                                *)

CopyLatency ==
    /\ ~copying
    /\ copying' = TRUE
    /\ copied' = samples
    /\ UNCHANGED <<now, loop, page>>

\* mutant: the ring is shown from its first slot
FromSlotZero(k) == (k - 1) % RateWindow

\* Oldest first, starting at the slot that is overwritten next.
SlotShown(k) == (rate_pos + k - 1) % RateWindow

Serve ==
    /\ copying
    /\ page' = [time |-> now, frames |-> frames, off_domain |-> off_domain,
                latency |-> copied,
                rate |-> [k \in 1 .. RateWindow |-> rate[SlotShown(k)]],
                upto |-> Len(ticks)]
    /\ copying' = FALSE /\ copied' = <<>>
    /\ UNCHANGED <<now, loop>>

ViewNext ==
    \/ Advance \/ ViewConnect \/ ViewDisconnect
    \/ \E n \in 0 .. MaxBatch, local \in BOOLEAN :
          frames + n <= MaxFrames /\ Round(n, local)
    \/ CopyLatency \/ Serve

ViewSpec == ViewInit /\ [][ViewNext]_viewVars

----------------------------------------------------------------------------
(* Properties                                                              *)

\* What the n-th entry of the ring's history counted; nothing before the start.
Entry(n) ==
    IF n < 2 THEN 0 ELSE ticks[n].frames - ticks[n - 1].frames

\* A page is consistent although json_stats takes its two halves at different
\* moments.  Its latency samples fit the window and kMaxSamples, across
\* outages and batches of any size; they are no more than the frames of this
\* clock; and the rate reads left to right, each entry counting exactly the
\* frames between two ticks, through every wrap of the ring.
PageConsistent ==
    /\ LET shown == page.latency
       IN  /\ Len(shown) <= MaxSamples
           /\ \A k \in DOMAIN shown : shown[Len(shown)] - shown[k] <= Window
    /\ Len(page.latency) + page.off_domain <= page.frames
    /\ \A k \in 1 .. RateWindow :
          page.rate[k] = Entry(page.upto - RateWindow + k)

=============================================================================
