------------------------------ MODULE RingIdle ------------------------------
(***************************************************************************)
(* The idle path of the broadcast ring: RingFeed::pop_batch of             *)
(* src/src/feed.hpp over wait_for_data, wake_readers and close of          *)
(* src/src/broadcast_ring.hpp.                                             *)
(*                                                                         *)
(* How frames get in and out of cells is the business of BroadcastRing;    *)
(* here a position is complete or not, and fewer positions are handed out  *)
(* than the ring has cells, so no reader is lapped.  One step is one       *)
(* access to write_pos_, waiters_ or the mutex.  Entering the wait set     *)
(* releases the mutex atomically, but producers change write_pos_ and      *)
(* notify without holding it.                                              *)
(***************************************************************************)
EXTENDS Integers, FiniteSets

CONSTANTS
    Producers,
    Readers,
    OutSize,     \* the size of the span pop_batch is called with
    MaxPublish,  \* bound: the longest publish_batch
    MaxTickets   \* bound: positions handed out

Free == "free"

ASSUME IdleAssumption ==
    /\ IsFiniteSet(Readers) /\ Free \notin Readers
    /\ OutSize \in Nat \ {0} /\ {MaxPublish, MaxTickets} \subseteq Nat

VARIABLES
    write_pos,
    complete,    \* positions whose cell has been published
    waiters,     \* waiters_
    mutex,       \* idle_mutex_: who holds it across steps
    ring_closed, \* closed_
    publisher, pos, left,    \* each producer's publish_batch
    rpc,         \* where each reader is in pop_batch
    next,        \* its Cursor::next
    closer       \* where the closing thread is

publishing == <<publisher, pos, left>>
reader == <<rpc, next>>
idleVars == <<write_pos, complete, waiters, mutex, ring_closed, publishing,
              reader, closer>>

IdleInit ==
    /\ write_pos = 0
    /\ complete = {}
    /\ waiters = 0
    /\ mutex = Free
    /\ ring_closed = FALSE
    /\ publisher = [p \in Producers |-> "idle"]
    /\ pos = [p \in Producers |-> 0]
    /\ left = [p \in Producers |-> 0]
    /\ rpc = [r \in Readers |-> "idle"]
    /\ next = [r \in Readers |-> 0]
    /\ closer = "open"

----------------------------------------------------------------------------
(* Producers                                                               *)

Ticket(p, n) ==
    /\ publisher[p] = "idle"
    /\ write_pos + n <= MaxTickets
    /\ write_pos' = write_pos + n
    /\ pos' = [pos EXCEPT ![p] = write_pos]
    /\ left' = [left EXCEPT ![p] = n]
    /\ publisher' = [publisher EXCEPT ![p] = "write"]
    /\ UNCHANGED <<complete, waiters, mutex, ring_closed, reader, closer>>

WriteAt(p) ==
    /\ publisher[p] = "write"
    /\ complete' = complete \cup {pos[p]}
    /\ pos' = [pos EXCEPT ![p] = @ + 1]
    /\ left' = [left EXCEPT ![p] = @ - 1]
    /\ publisher' = [publisher EXCEPT
                        ![p] = IF left[p] = 1 THEN "wake" ELSE "write"]
    /\ UNCHANGED <<write_pos, waiters, mutex, ring_closed, reader, closer>>

\* wake_readers: one load of waiters_ when nobody is parked.
LoadWaiters(p) ==
    /\ publisher[p] = "wake"
    /\ publisher' = [publisher EXCEPT
                        ![p] = IF waiters = 0 THEN "idle" ELSE "notify"]
    /\ UNCHANGED <<write_pos, complete, waiters, mutex, ring_closed, pos, left,
                   reader, closer>>

\* notify_all: everyone in the wait set goes back for the mutex.
AllWoken == [r \in Readers |-> IF rpc[r] = "waiting" THEN "lock" ELSE rpc[r]]

NotifyAll(p) ==
    /\ publisher[p] = "notify"
    /\ rpc' = AllWoken
    /\ publisher' = [publisher EXCEPT ![p] = "idle"]
    /\ UNCHANGED <<write_pos, complete, waiters, mutex, ring_closed, pos, left,
                   next, closer>>

----------------------------------------------------------------------------
(* Readers                                                                 *)

\* mutant: the cell after the cursor's decides whether there is a frame
ReadableAhead(q) ==
    LET run == {k \in 0 .. OutSize : \A i \in 1 .. k : q + i \in complete}
    IN  CHOOSE k \in run : \A j \in run : j <= k

\* How many frames read_batch finds for a cursor at q.
Readable(q) ==
    LET run == {k \in 0 .. OutSize : \A i \in 0 .. k - 1 : q + i \in complete}
    IN  CHOOSE k \in run : \A j \in run : j <= k

Return(r, count) ==
    /\ next' = [next EXCEPT ![r] = @ + count]
    /\ rpc' = [rpc EXCEPT ![r] = "idle"]

PopBatch(r) ==
    /\ rpc[r] = "idle"
    /\ IF Readable(next[r]) > 0
       THEN Return(r, Readable(next[r]))
       ELSE rpc' = [rpc EXCEPT ![r] = "closed?"] /\ UNCHANGED next
    /\ UNCHANGED <<write_pos, complete, waiters, mutex, ring_closed,
                   publishing, closer>>

CheckClosed(r) ==
    /\ rpc[r] = "closed?"
    /\ mutex = Free
    /\ IF ring_closed
       THEN Return(r, 0)
       ELSE rpc' = [rpc EXCEPT ![r] = "load"] /\ UNCHANGED next
    /\ UNCHANGED <<write_pos, complete, waiters, mutex, ring_closed,
                   publishing, closer>>

\* wait_for_data(cursor_.next, timeout) from here on.
Moved(r) == write_pos > next[r]

LoadWritePos(r) ==
    /\ rpc[r] = "load"
    /\ rpc' = [rpc EXCEPT ![r] = IF Moved(r) THEN "read" ELSE "register"]
    /\ UNCHANGED <<write_pos, complete, waiters, mutex, ring_closed,
                   publishing, next, closer>>

Register(r) ==
    /\ rpc[r] = "register"
    /\ waiters' = waiters + 1
    /\ rpc' = [rpc EXCEPT ![r] = "recheck"]
    /\ UNCHANGED <<write_pos, complete, mutex, ring_closed, publishing, next,
                   closer>>

NotDeregistered == waiters    \* mutant: no fetch_sub on the early return

Deregistered == waiters - 1

Recheck(r) ==
    /\ rpc[r] = "recheck"
    /\ waiters' = IF Moved(r) THEN Deregistered ELSE waiters
    /\ rpc' = [rpc EXCEPT ![r] = IF Moved(r) THEN "read" ELSE "lock"]
    /\ UNCHANGED <<write_pos, complete, mutex, ring_closed, publishing, next,
                   closer>>

DataOnly(r) == Moved(r)    \* mutant: the predicate forgets closed_

\* The predicate of wait_for.
Wakeable(r) == Moved(r) \/ ring_closed

\* The mutex is taken and the predicate evaluated; if it is false the reader
\* is on its way into the wait set, still holding the mutex.
LockAndTest(r) ==
    /\ rpc[r] = "lock"
    /\ mutex = Free
    /\ IF Wakeable(r)
       THEN rpc' = [rpc EXCEPT ![r] = "leave"] /\ UNCHANGED mutex
       ELSE rpc' = [rpc EXCEPT ![r] = "park"] /\ mutex' = r
    /\ UNCHANGED <<write_pos, complete, waiters, ring_closed, publishing, next,
                   closer>>

Park(r) ==
    /\ rpc[r] = "park"
    /\ mutex' = Free
    /\ rpc' = [rpc EXCEPT ![r] = "waiting"]
    /\ UNCHANGED <<write_pos, complete, waiters, ring_closed, publishing, next,
                   closer>>

\* The wait gives up.  pop_batch ignores what wait_for_data returns.
Timeout(r) ==
    /\ rpc[r] = "waiting"
    /\ mutex = Free
    /\ rpc' = [rpc EXCEPT ![r] = "leave"]
    /\ UNCHANGED <<write_pos, complete, waiters, mutex, ring_closed,
                   publishing, next, closer>>

Spurious(r) ==
    /\ rpc[r] = "waiting"
    /\ rpc' = [rpc EXCEPT ![r] = "lock"]
    /\ UNCHANGED <<write_pos, complete, waiters, mutex, ring_closed,
                   publishing, next, closer>>

Leave(r) ==
    /\ rpc[r] = "leave"
    /\ waiters' = Deregistered
    /\ rpc' = [rpc EXCEPT ![r] = "read"]
    /\ UNCHANGED <<write_pos, complete, mutex, ring_closed, publishing, next,
                   closer>>

ReadAgain(r) ==
    /\ rpc[r] = "read"
    /\ Return(r, Readable(next[r]))
    /\ UNCHANGED <<write_pos, complete, waiters, mutex, ring_closed,
                   publishing, closer>>

----------------------------------------------------------------------------
(* close                                                                   *)

CloseStore ==
    /\ closer = "open"
    /\ mutex = Free
    /\ ring_closed' = TRUE
    /\ closer' = "notify"
    /\ UNCHANGED <<write_pos, complete, waiters, mutex, publishing, reader>>

CloseNotify ==
    /\ closer = "notify"
    /\ rpc' = AllWoken
    /\ closer' = "done"
    /\ UNCHANGED <<write_pos, complete, waiters, mutex, ring_closed,
                   publishing, next>>

----------------------------------------------------------------------------
PublisherStep(p) == WriteAt(p) \/ LoadWaiters(p) \/ NotifyAll(p)

ReaderStep(r) ==
    \/ CheckClosed(r) \/ LoadWritePos(r) \/ Register(r) \/ Recheck(r)
    \/ LockAndTest(r) \/ Park(r) \/ Leave(r) \/ ReadAgain(r)

IdleNext ==
    \/ \E p \in Producers : \E n \in 1 .. MaxPublish : Ticket(p, n)
    \/ \E p \in Producers : PublisherStep(p)
    \/ \E r \in Readers :
         PopBatch(r) \/ ReaderStep(r) \/ Timeout(r) \/ Spurious(r)
    \/ CloseStore
    \/ CloseNotify

IdleSpec == IdleInit /\ [][IdleNext]_idleVars

\* Threads that are inside an operation keep running, and a thread that wants
\* the mutex gets it although others take it in between.  Nothing has to be
\* published, popped or closed, and the timeout may be as long as one likes.
Fairness ==
    /\ \A p \in Producers : WF_idleVars(PublisherStep(p))
    /\ \A r \in Readers :
         /\ WF_idleVars(ReaderStep(r))
         /\ SF_idleVars(CheckClosed(r))
         /\ SF_idleVars(LockAndTest(r))
    /\ WF_idleVars(CloseNotify)

IdleFairSpec == IdleSpec /\ Fairness

----------------------------------------------------------------------------
(* Properties                                                              *)

Registered == {"recheck", "lock", "park", "waiting", "leave"}

\* waiters_ counts exactly the readers between Register and their fetch_sub,
\* on every path out of wait_for_data, so wake_readers never skips a notify
\* while someone is parked and never pays for one when nobody is.
WaitersExact == waiters = Cardinality({r \in Readers : rpc[r] \in Registered})

\* Close reaches every parked reader: it is woken by the notification, with
\* no help from its timeout.
CloseWakes ==
    \A r \in Readers : rpc[r] = "waiting" /\ ring_closed ~> rpc[r] # "waiting"

\* The consumer keeps calling pop_batch, with a timeout that expires.
Polls(r) == WF_idleVars(PopBatch(r)) /\ SF_idleVars(Timeout(r))

\* A frame published to a consumer that polls pop_batch is delivered, whatever
\* the races between parking and notifying.
PublishedIsDelivered ==
    \A r \in Readers : \A q \in 0 .. MaxTickets - 1 :
        Polls(r) => (q \in complete ~> next[r] > q \/ ring_closed)

\* A reader parked when the write position moves is woken by the publishing:
\* "the wake has to come from the notify, not from the timeout".
PublishWakes ==
    \A r \in Readers : rpc[r] = "waiting" /\ Moved(r) ~> rpc[r] # "waiting"

=============================================================================
