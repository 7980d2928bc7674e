---------------------------- MODULE BroadcastLog ----------------------------
(***************************************************************************)
(* What the broadcast ring promises its readers: an unbounded log of       *)
(* frames, of which each reader is handed an increasing selection.  A      *)
(* frame is handed out whole and at most once; a frame is skipped only     *)
(* after the Capacity frames that follow it have all been given a place    *)
(* in the log, and every skipped frame is counted.                         *)
(***************************************************************************)
EXTENDS Integers

CONSTANTS Readers, Capacity, FrameWords

VARIABLES
    tail,       \* frames appended so far
    attached,   \* which readers have joined
    cursor,     \* each reader's next position
    missed,     \* positions it was told it lost
    delivered,  \* positions it was handed
    out         \* the frame it was handed last

vars == <<tail, attached, cursor, missed, delivered, out>>

Frame(q) == [i \in 1 .. FrameWords |-> q]

Init ==
    /\ tail = 0
    /\ attached = [r \in Readers |-> FALSE]
    /\ cursor = [r \in Readers |-> 0]
    /\ missed = [r \in Readers |-> 0]
    /\ delivered = [r \in Readers |-> 0]
    /\ out = [r \in Readers |-> Frame(-1)]

Grow ==
    /\ tail' \in Nat /\ tail' > tail
    /\ UNCHANGED <<attached, cursor, missed, delivered, out>>

\* A reader joins at the beginning, or anywhere no newer than the oldest of
\* the last Capacity frames.
Join(r) ==
    /\ ~attached[r]
    /\ attached' = [attached EXCEPT ![r] = TRUE]
    /\ \E q \in 0 .. tail :
         /\ q = 0 \/ q + Capacity <= tail
         /\ cursor' = [cursor EXCEPT ![r] = q]
    /\ UNCHANGED <<tail, missed, delivered, out>>

Deliver(r) ==
    /\ attached[r]
    /\ cursor[r] < tail
    /\ out' = [out EXCEPT ![r] = Frame(cursor[r])]
    /\ cursor' = [cursor EXCEPT ![r] = @ + 1]
    /\ delivered' = [delivered EXCEPT ![r] = @ + 1]
    /\ UNCHANGED <<tail, attached, missed>>

Lose(r) ==
    /\ attached[r]
    /\ \E q \in cursor[r] + 1 .. tail - Capacity :
         /\ cursor' = [cursor EXCEPT ![r] = q]
         /\ missed' = [missed EXCEPT ![r] = @ + (q - cursor[r])]
    /\ UNCHANGED <<tail, attached, delivered, out>>

Next == Grow \/ \E r \in Readers : Join(r) \/ Deliver(r) \/ Lose(r)

Spec == Init /\ [][Next]_vars

=============================================================================
