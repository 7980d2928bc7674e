------------------------------ MODULE Waiting ------------------------------
(***************************************************************************)
(* The two places where a consumer's thread waits for frames and is woken  *)
(* by another: pop_batch of a queue (BoundedQueue), and pop_batch of a     *)
(* ring's feed (RingIdle).  A behaviour is that of one of them.            *)
(***************************************************************************)
EXTENDS BoundedQueue, RingIdle

VARIABLE part    \* "queue" or "ring"

allVars == <<part, vars, idleVars>>

ringFrozen == UNCHANGED <<part, idleVars>>

queueFrozen == UNCHANGED <<part, vars>>

WaitingInit == part \in {"queue", "ring"} /\ Init /\ IdleInit

WaitingNext ==
    \/ part = "queue" /\ Next /\ ringFrozen
    \/ part = "ring" /\ IdleNext /\ queueFrozen

WaitingSpec == WaitingInit /\ [][WaitingNext]_allVars

\* As in BoundedQueue and in RingIdle.
WaitingFairSpec ==
    /\ WaitingSpec
    /\ WF_allVars(part = "queue" /\ ProducerStep /\ ringFrozen)
    /\ WF_allVars(part = "queue" /\ ConsumerStep /\ ringFrozen)
    /\ \A p \in Producers :
         WF_allVars(part = "ring" /\ PublisherStep(p) /\ queueFrozen)
    /\ \A r \in Readers :
         /\ WF_allVars(part = "ring" /\ ReaderStep(r) /\ queueFrozen)
         /\ SF_allVars(part = "ring" /\ CheckClosed(r) /\ queueFrozen)
         /\ SF_allVars(part = "ring" /\ LockAndTest(r) /\ queueFrozen)
    /\ WF_allVars(part = "ring" /\ CloseNotify /\ queueFrozen)

=============================================================================
