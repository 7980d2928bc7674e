-------------------------- MODULE DropOldestQueue --------------------------
(***************************************************************************)
(* What a consumer's queue promises: a FIFO of at most Capacity items that *)
(* makes room for a new item by dropping its oldest one, and takes nothing *)
(* once it is closed.                                                      *)
(***************************************************************************)
EXTENDS Integers, Sequences

CONSTANT Capacity

VARIABLES
    q,       \* the items in the queue, oldest first
    made,    \* items the producer has offered so far; item k is the k-th
    got,     \* the items the last pop returned
    closed

vars == <<q, made, got, closed>>

Init == q = <<>> /\ made = 0 /\ got = <<>> /\ closed = FALSE

Push ==
    /\ ~closed
    /\ made' = made + 1
    /\ q' = Append(IF Len(q) = Capacity THEN Tail(q) ELSE q, made + 1)
    /\ UNCHANGED <<got, closed>>

\* A batch offered after the close is refused as a whole.
Refuse ==
    /\ closed
    /\ made' \in Nat /\ made' > made
    /\ UNCHANGED <<q, got, closed>>

\* A pop that returns nothing has found the queue closed and empty.
Pop ==
    \E n \in 0 .. Len(q) :
        /\ n = 0 => closed /\ q = <<>>
        /\ got' = SubSeq(q, 1, n)
        /\ q' = SubSeq(q, n + 1, Len(q))
        /\ UNCHANGED <<made, closed>>

Close == closed' = TRUE /\ UNCHANGED <<q, made, got>>

Next == Push \/ Refuse \/ Pop \/ Close

Spec == Init /\ [][Next]_vars

=============================================================================
