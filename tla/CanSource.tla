----------------------------- MODULE CanSource -----------------------------
(***************************************************************************)
(* CanSource::drain (src/src/can_source.cpp) and the socket it reads.  The *)
(* kernel discards frames when the receive queue is full and stamps every  *)
(* frame it queues with the socket's running count of discarded frames,    *)
(* an unsigned counter of OvflModulus values; recvmmsg hands the stamp out *)
(* as an SO_RXQ_OVFL control message, which it may leave out while the     *)
(* count is zero.  A message may be too short to be a frame.               *)
(***************************************************************************)
EXTENDS Integers, Sequences, Loops

CONSTANTS
    CanBatch,      \* kBatch, or the caller's span if that is smaller
    QueueSize,     \* frames the socket's receive queue holds
    OvflModulus,   \* 2^32 in the kernel
    MaxArrivals    \* bound: messages that arrive

ASSUME CanAssumption ==
    /\ {CanBatch, QueueSize, OvflModulus} \subseteq Nat \ {0}
    /\ MaxArrivals \in Nat

VARIABLES
    arrived, discarded,
    rcvq,               \* messages: short or not, true count at queueing
    frames, malformed, kernel_drops,    \* stats_
    last_ovfl, have_ovfl,
    handed,             \* history: messages taken from the queue
    first_known, last_known    \* history: true counts behind the stamps

canVars ==
    <<arrived, discarded, rcvq, frames, malformed, kernel_drops, last_ovfl,
      have_ovfl, handed, first_known, last_known>>

CanInit ==
    /\ arrived = 0 /\ discarded = 0 /\ rcvq = <<>>
    /\ frames = 0 /\ malformed = 0 /\ kernel_drops = 0
    /\ last_ovfl = 0 /\ have_ovfl = FALSE
    /\ handed = 0 /\ first_known = 0 /\ last_known = 0

\* The counts behind the stamps drain is going to see, and the last one it saw.
Stamps ==
    {last_known} \cup {rcvq[k].count : k \in {k \in DOMAIN rcvq : ~rcvq[k].short}}

\* Fewer than OvflModulus discards lie between two stamps.
Arrive(short) ==
    /\ arrived < MaxArrivals
    /\ arrived' = arrived + 1
    /\ IF Len(rcvq) < QueueSize
       THEN /\ rcvq' = Append(rcvq, [short |-> short, count |-> discarded])
            /\ UNCHANGED discarded
       ELSE /\ \E c \in Stamps : discarded - c < OvflModulus - 1
            /\ discarded' = discarded + 1
            /\ UNCHANGED rcvq
    /\ UNCHANGED <<frames, malformed, kernel_drops, last_ovfl, have_ovfl,
                   handed, first_known, last_known>>

----------------------------------------------------------------------------
\* mutant: the counter is taken to grow only
DeltaSaturating(ovfl, last) == IF ovfl > last THEN ovfl - last ELSE 0

\* ovfl - last_ovfl_ in uint32_t.
Delta(ovfl, last) == (ovfl - last) % OvflModulus

Stats ==
    [frames |-> frames, malformed |-> malformed, drops |-> kernel_drops,
     last |-> last_ovfl, have |-> have_ovfl, first |-> first_known,
     known |-> last_known]

CountMessage(t, m) ==
    IF m.short THEN [t EXCEPT !.malformed = @ + 1]
               ELSE [t EXCEPT !.frames = @ + 1]

\* One message of the batch; a short one is skipped before its control
\* messages are looked at.
Take(t, m) ==
    LET counted == CountMessage(t, m)
        ovfl == m.count % OvflModulus
    IN  IF m.short \/ (m.count = 0 /\ ~m.stamped) THEN counted
        ELSE [counted EXCEPT
                 !.drops = @ + (IF t.have THEN Delta(ovfl, t.last) ELSE 0),
                 !.last = ovfl, !.have = TRUE,
                 !.first = IF t.have THEN @ ELSE m.count,
                 !.known = m.count]

\* drain: up to CanBatch messages.
CanDrain(stamped) ==
    /\ rcvq # <<>>
    /\ LET n == IF Len(rcvq) < CanBatch THEN Len(rcvq) ELSE CanBatch
           msgs == [k \in 1 .. n |-> [short |-> rcvq[k].short,
                                      count |-> rcvq[k].count,
                                      stamped |-> stamped]]
           t == ForEach(Take, Stats, msgs)
       IN  /\ frames' = t.frames /\ malformed' = t.malformed
           /\ kernel_drops' = t.drops
           /\ last_ovfl' = t.last /\ have_ovfl' = t.have
           /\ first_known' = t.first /\ last_known' = t.known
           /\ rcvq' = SubSeq(rcvq, n + 1, Len(rcvq))
           /\ handed' = handed + n
    /\ UNCHANGED <<arrived, discarded>>

CanNext ==
    \/ \E short \in BOOLEAN : Arrive(short)
    \/ \E stamped \in BOOLEAN : CanDrain(stamped)
    \/ arrived = MaxArrivals /\ rcvq = <<>> /\ UNCHANGED canVars

CanSpec == CanInit /\ [][CanNext]_canVars

----------------------------------------------------------------------------
(* Properties                                                              *)

\* From the first stamp drain sees, kernel_drops counts every frame the kernel
\* discards, also when the 32-bit counter wraps around and whatever malformed
\* messages lie between: it is all that was discarded up to the newest stamp if
\* the first one came before any discard, and otherwise short by exactly what
\* the first one carried, which drain only takes as the base of later
\* differences.  And every message taken is counted once, as a frame or as
\* malformed.
DropsSinceFirstStamp ==
    /\ IF first_known = 0 THEN kernel_drops = last_known
                          ELSE kernel_drops + first_known = last_known
    /\ frames + malformed = handed

=============================================================================
