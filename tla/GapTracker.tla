----------------------------- MODULE GapTracker -----------------------------
(***************************************************************************)
(* The consumer-side loss accounting of src/src/gap_tracker.hpp, as a      *)
(* function from a tracker and a record to the tracker that has observed   *)
(* it, and the records of src/src/wire.hpp it looks at.  A record has a    *)
(* kind; n is the count of a gap marker (or of a batch header) and why its *)
(* reason.  The counters of markers by reason are sums of those kept.      *)
(***************************************************************************)
EXTENDS Integers

FrameRec(q) == [kind |-> "frame", seq |-> q, n |-> 0, why |-> "none"]
GapRec(q, k, reason) == [kind |-> "gap", seq |-> q, n |-> k, why |-> reason]
EchoRec(nonce) == [kind |-> "echo", seq |-> nonce, n |-> 0, why |-> "none"]
HeaderRec(k) == [kind |-> "header", seq |-> 0, n |-> k, why |-> "none"]

\* is_fault: an absence is a discontinuity, not loss.
IsFault(reason) == reason # "absent"

\* base is a history field: the sequence number the books were opened at.
NewTracker ==
    [have |-> FALSE, next |-> 0, frames |-> 0, reported_lost |-> 0,
     absent_frames |-> 0, silent_lost |-> 0, echoes |-> 0, base |-> 0]

Booked(t) == t.frames + t.reported_lost + t.absent_frames + t.silent_lost

Opened(t, q) == IF t.have THEN t.base ELSE q - Booked(t)

\* mutant: the marker's own frames are expected again
ObserveGapStays(t, f) ==
    [t EXCEPT !.have = TRUE, !.next = f.seq, !.base = Opened(t, f.seq),
              !.absent_frames = @ + (IF IsFault(f.why) THEN 0 ELSE f.n),
              !.reported_lost = @ + (IF IsFault(f.why) THEN f.n ELSE 0)]

ObserveGap(t, f) ==
    [t EXCEPT !.have = TRUE, !.next = f.seq + f.n, !.base = Opened(t, f.seq),
              !.absent_frames = @ + (IF IsFault(f.why) THEN 0 ELSE f.n),
              !.reported_lost = @ + (IF IsFault(f.why) THEN f.n ELSE 0)]

ObserveFrame(t, f) ==
    [t EXCEPT !.have = TRUE, !.next = f.seq + 1, !.base = Opened(t, f.seq),
              !.frames = @ + 1,
              !.silent_lost = @ + (IF t.have /\ f.seq > t.next
                                   THEN f.seq - t.next ELSE 0)]

\* An echo's sequence field is a nonce and must not move the books.
ObserveEcho(t, f) == [t EXCEPT !.echoes = @ + 1]

\* observe
Observe(t, f) ==
    IF f.kind = "echo" THEN ObserveEcho(t, f)
    ELSE IF f.kind = "gap" THEN ObserveGap(t, f)
    ELSE ObserveFrame(t, f)

\* mutant: the counters start over, too
ResetAll(t) == NewTracker

\* reset, called on every reconnect.
Reset(t) == [t EXCEPT !.have = FALSE]

=============================================================================
