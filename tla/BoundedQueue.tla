---------------------------- MODULE BoundedQueue ----------------------------
(***************************************************************************)
(* The mutex-guarded drop-oldest queue of src/src/bounded_queue.hpp, with  *)
(* the three threads that use it: the fan-out thread pushes, the egress    *)
(* thread pops, and the main thread closes it.                             *)
(*                                                                         *)
(* The producer's critical section is one step per item, with the mutex    *)
(* held; the other critical sections are short enough to be one step each. *)
(* What happens outside the mutex (the counters, the notification) has     *)
(* steps of its own.  Item k is the k-th item ever offered.                *)
(***************************************************************************)
EXTENDS Integers, Sequences

CONSTANTS
    Requested,   \* the capacity asked for
    OutSizes,    \* sizes of the spans pop_batch is called with
    MaxBatch,    \* bound: the longest batch pushed
    MaxItems     \* bound: items offered in a behaviour

ASSUME RequestedAssumption == Requested \in Nat
ASSUME OutSizesAssumption == OutSizes \subseteq Nat \ {0}
ASSUME QueueBoundsAssumption == MaxBatch \in Nat /\ MaxItems \in Nat

VARIABLES
    locked,      \* mutex_ is held across steps (by the producer)
    buf, head, count, closed,
    pushed, popped, dropped,
    ppc,         \* where the producer is in push_batch
    made,        \* items offered so far
    todo,        \* items of the batch not yet stored
    items_size,  \* size of the batch, until it is added to pushed_
    drops,       \* drops of the batch, until they are added to dropped_
    cpc,         \* where the consumer is in pop_batch
    room,        \* out.size()
    out,         \* what the last pop_batch wrote
    n            \* how many items that was, until added to popped_

queue == <<buf, head, count, closed>>
counters == <<pushed, popped, dropped>>
producer == <<ppc, made, todo, items_size, drops>>
consumer == <<cpc, room, out, n>>
vars == <<locked, queue, counters, producer, consumer>>

Capacity == IF Requested = 0 THEN 1 ELSE Requested
Slots == 0 .. Capacity - 1

Init ==
    /\ locked = FALSE
    /\ buf = [i \in Slots |-> 0]
    /\ head = 0 /\ count = 0 /\ closed = FALSE
    /\ pushed = 0 /\ popped = 0 /\ dropped = 0
    /\ ppc = "idle" /\ made = 0 /\ todo = 0 /\ items_size = 0 /\ drops = 0
    /\ cpc = "idle" /\ room = 0 /\ out = <<>> /\ n = 0

----------------------------------------------------------------------------
(* push_batch                                                              *)

\* A closed queue refuses the batch without counting it.
PushRefused(k) ==
    /\ ppc = "idle" /\ ~locked /\ closed
    /\ made + k <= MaxItems
    /\ made' = made + k
    /\ UNCHANGED <<locked, queue, counters, ppc, todo, items_size, drops,
                   consumer>>

PushLock(k) ==
    /\ ppc = "idle" /\ ~locked /\ ~closed
    /\ made + k <= MaxItems
    /\ locked' = TRUE
    /\ ppc' = "store"
    /\ todo' = k
    /\ items_size' = k
    /\ drops' = 0
    /\ UNCHANGED <<queue, counters, made, consumer>>

\* mutant: the item overwritten on a full queue is not counted
DropUncounted == 0

\* How many items one more item pushes out.
DropForRoom == IF count = Capacity THEN 1 ELSE 0

\* mutant: the oldest item stays and the newest is overwritten
HeadStays == head

\* head_ after room has been made for one more item.
HeadAfterRoom == IF count = Capacity THEN (head + 1) % Capacity ELSE head

CountAfterItem == IF count = Capacity THEN count ELSE count + 1

StoreItem ==
    /\ drops' = drops + DropForRoom
    /\ head' = HeadAfterRoom
    /\ buf' = [buf EXCEPT ![(head + count) % Capacity] = made + 1]
    /\ count' = CountAfterItem
    /\ made' = made + 1
    /\ todo' = todo - 1
    /\ UNCHANGED <<locked, closed, counters, ppc, items_size, consumer>>

PushItem == ppc = "store" /\ todo > 0 /\ StoreItem

PushUnlock ==
    /\ ppc = "store" /\ todo = 0
    /\ locked' = FALSE
    /\ ppc' = "count_pushed"
    /\ UNCHANGED <<queue, counters, made, todo, items_size, drops, consumer>>

CountPushed ==
    /\ ppc = "count_pushed"
    /\ pushed' = pushed + items_size
    /\ items_size' = 0
    /\ ppc' = "count_dropped"
    /\ UNCHANGED <<locked, queue, popped, dropped, made, todo, drops, consumer>>

CountDropped ==
    /\ ppc = "count_dropped"
    /\ dropped' = dropped + drops
    /\ drops' = 0
    /\ ppc' = "notify"
    /\ UNCHANGED <<locked, queue, pushed, popped, made, todo, items_size,
                   consumer>>

\* mutant: nobody is notified
WokenNever == cpc

\* notify_one and notify_all: the one possible waiter leaves the wait set.
Woken == IF cpc = "waiting" THEN "checking" ELSE cpc

NotifyOne ==
    /\ ppc = "notify"
    /\ cpc' = Woken
    /\ ppc' = "idle"
    /\ UNCHANGED <<locked, queue, counters, made, todo, items_size, drops,
                   room, out, n>>

----------------------------------------------------------------------------
(* pop_batch                                                               *)

Ready == count > 0 \/ closed

PopCall(size) ==
    /\ cpc = "idle"
    /\ cpc' = "checking"
    /\ room' = size
    /\ UNCHANGED <<locked, queue, counters, producer, out, n>>

\* The predicate is false under the mutex: into the wait set, atomically.
PopWait ==
    /\ cpc = "checking" /\ ~locked
    /\ ~Ready
    /\ cpc' = "waiting"
    /\ UNCHANGED <<locked, queue, counters, producer, room, out, n>>

\* The timeout: wait_for leaves the wait set and looks at the predicate once
\* more, returning 0 if it is still false.
PopTimeout ==
    /\ cpc = "waiting" /\ ~locked
    /\ cpc' = IF Ready THEN "checking" ELSE "idle"
    /\ UNCHANGED <<locked, queue, counters, producer, room, out, n>>

PopSpurious ==
    /\ cpc = "waiting"
    /\ cpc' = "checking"
    /\ UNCHANGED <<locked, queue, counters, producer, room, out, n>>

Slot(i) == (head + i - 1) % Capacity

PopTake ==
    /\ cpc = "checking" /\ ~locked
    /\ Ready
    /\ LET k == IF count < room THEN count ELSE room
       IN  /\ n' = k
           /\ out' = [i \in 1 .. k |-> buf[Slot(i)]]
           /\ head' = (head + k) % Capacity
           /\ count' = count - k
    /\ cpc' = "count_popped"
    /\ UNCHANGED <<locked, buf, closed, counters, producer, room>>

CountPopped ==
    /\ cpc = "count_popped"
    /\ popped' = popped + n
    /\ n' = 0
    /\ cpc' = "idle"
    /\ UNCHANGED <<locked, queue, pushed, dropped, producer, room, out>>

----------------------------------------------------------------------------
\* The store under the mutex and the notify_all of close; nothing that the
\* other threads do can come between in a way that matters, because a thread
\* that looks at the predicate after the store does not wait.
Close ==
    /\ ~locked /\ ~closed
    /\ closed' = TRUE
    /\ cpc' = Woken
    /\ UNCHANGED <<locked, buf, head, count, counters, producer, room, out, n>>

ProducerStep ==
    PushItem \/ PushUnlock \/ CountPushed \/ CountDropped \/ NotifyOne

ConsumerStep == PopWait \/ PopTake \/ CountPopped

Next ==
    \/ \E k \in 1 .. MaxBatch : PushRefused(k) \/ PushLock(k)
    \/ ProducerStep
    \/ \E size \in OutSizes : PopCall(size)
    \/ ConsumerStep
    \/ PopTimeout
    \/ PopSpurious
    \/ Close

Spec == Init /\ [][Next]_vars

\* The kernel runs both threads.  Timeouts and spurious wakeups may never
\* come, and neither pushes, pops nor the close have to happen.
FairSpec == Spec /\ WF_vars(ProducerStep) /\ WF_vars(ConsumerStep)

----------------------------------------------------------------------------
(* Properties                                                              *)

\* The queue never holds more than its capacity, indices stay in the buffer,
\* and the mutex is held exactly while a batch is being stored.
TypeOK ==
    /\ locked \in BOOLEAN /\ (locked <=> ppc = "store")
    /\ buf \in [Slots -> Nat]
    /\ head \in Slots
    /\ count \in 0 .. Capacity
    /\ closed \in BOOLEAN
    /\ pushed \in Nat /\ popped \in Nat /\ dropped \in Nat
    /\ ppc \in {"idle", "store", "count_pushed", "count_dropped", "notify"}
    /\ made \in Nat /\ todo \in Nat /\ items_size \in Nat /\ drops \in Nat
    /\ cpc \in {"idle", "checking", "waiting", "count_popped"}
    /\ room \in Nat
    /\ n \in Nat

\* pushed == popped + dropped + size once no thread is between its critical
\* section and its counter updates, which is what the queue's tests assert.
Conservation ==
    ppc \in {"idle", "notify"} /\ cpc # "count_popped"
        => pushed = popped + dropped + count

Abs == INSTANCE DropOldestQueue WITH q <- [i \in 1 .. count |-> buf[Slot(i)]],
                                     got <- out

\* The circular buffer is a drop-oldest FIFO: pop_batch returns items in the
\* order offered, each at most once, and push_batch drops only the oldest.
ImplementsDropOldest == Abs!Spec

\* A consumer parked in pop_batch is woken by the push or the close that
\* makes its predicate true, without the help of the timeout.
NoLostWakeup == cpc = "waiting" /\ Ready ~> cpc # "waiting"

=============================================================================
