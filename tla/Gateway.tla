------------------------------ MODULE Gateway ------------------------------
(***************************************************************************)
(* The gateway process as main (src/src/main.cpp) puts it together: it     *)
(* builds its objects one after the other, any of which may fail, starts   *)
(* the egress threads and the ingest, waits for a signal or the deadline,  *)
(* stops the ingest, then one egress after the other, reports, and leaves, *)
(* destroying what it declared in reverse.                                 *)
(*                                                                         *)
(* What the threads do is modelled in full elsewhere (FanOut, RingIngest,  *)
(* BroadcastRing, BoundedQueue, Egress).  Here frames are numbers, a batch *)
(* is published to the ring, pushed to a queue, read or written to a       *)
(* socket in one step, and the steps in between are those at which the     *)
(* threads and main can meet.                                              *)
(***************************************************************************)
EXTENDS Integers, Sequences, FiniteSets

CONSTANTS
    NSources, NEgresses,
    Capacity,      \* of the ring, or of each queue
    MaxFrames,     \* frames an egress takes at a time
    Burst,         \* most frames one drain of a source yields
    MaxSeq         \* bound: frames ingested in a behaviour

ASSUME GatewayAssumption ==
    /\ {NSources, NEgresses, Capacity, MaxFrames, Burst} \subseteq Nat \ {0}
    /\ MaxSeq \in Nat

Egresses == 1 .. NEgresses
Feeds == Egresses

VARIABLES
    topology, tap,     \* the options
    live,              \* per declared variable of main, its live elements
    main, at, status,  \* where main is, in its loops over egresses; its result
    ingest,            \* "none", "run", "push" (FanOut only) or "exited"
    ingest_stop,       \* its stop event
    sink, batch,       \* FanOut: the next sink, and what it is given
    total,             \* frames ingested: write_pos_, or FanOut's next_seq_
    closed,            \* per feed, as the next six
    next, end,         \* frames next .. end - 1 are in it (ring: to total - 1)
    delivered, lost,   \* popped_ and dropped_; delivered_ and cursor_.missed
    missed, position,  \* ring: what publish_stats mirrored of the cursor
    pc, stop, hand,    \* per egress: its thread, stop_fd_, frames taken
    conn,              \* its consumer: none, up or gone
    behind             \* history: its last look left frames in the feed

options == <<topology, tap>>
mainVars == <<live, main, at, status>>
ingestVars == <<ingest, ingest_stop, sink, batch, total>>
feedVars == <<closed, next, end, delivered, lost, missed, position>>
threadVars == <<pc, stop, hand, conn, behind>>
vars == <<options, mainVars, ingestVars, feedVars, threadVars>>

\* mutant: the ring is declared after the feeds that refer to it
RingLast == <<"source", "feed", "tap", "egress", "ring", "ingest">>

\* main's owning variables, in the order of their declarations.
Declared == <<"source", "ring", "feed", "tap", "egress", "ingest">>

Elements(v) ==
    CASE v = "source" -> 1 .. NSources
      [] v = "ring" -> IF topology = "ring" THEN {1} ELSE {}
      [] v \in {"feed", "egress"} -> Egresses
      [] v = "tap" -> IF tap THEN {1} ELSE {}
      [] v = "ingest" -> {1}

Init ==
    /\ topology \in {"queue", "ring"} /\ tap \in BOOLEAN
    /\ live = [v \in {Declared[i] : i \in DOMAIN Declared} |-> {}]
    /\ main = "build" /\ at = 1 /\ status = 0
    /\ ingest = "none" /\ ingest_stop = FALSE
    /\ sink = 0 /\ batch = 0 /\ total = 0
    /\ closed = [f \in Feeds |-> FALSE]
    /\ next = [f \in Feeds |-> 0] /\ end = [f \in Feeds |-> 0]
    /\ delivered = [f \in Feeds |-> 0] /\ lost = [f \in Feeds |-> 0]
    /\ missed = [f \in Feeds |-> 0] /\ position = [f \in Feeds |-> 0]
    /\ pc = [e \in Egresses |-> "none"]
    /\ stop = [e \in Egresses |-> FALSE]
    /\ hand = [e \in Egresses |-> 0]
    /\ conn = [e \in Egresses |-> "none"]
    /\ behind = [e \in Egresses |-> FALSE]

----------------------------------------------------------------------------
(* The feeds                                                               *)

End(f) == IF topology = "ring" THEN total ELSE end[f]

Least(a, b) == IF a < b THEN a ELSE b

\* What a look at feed f finds: a ring's reader that has been lapped resumes
\* at the oldest frame, and counts what it skips.
Front(f) ==
    IF topology = "ring" /\ total - next[f] > Capacity THEN total - Capacity
                                                       ELSE next[f]

Found(f) == Least(End(f) - Front(f), MaxFrames)

\* The frames leave the feed.  A queue counts them with its lock held; the
\* ring's reader moves its own cursor, and publishes the figures later.
Take(f) ==
    /\ next' = [next EXCEPT ![f] = Front(f) + Found(f)]
    /\ lost' = [lost EXCEPT ![f] = @ + Front(f) - next[f]]
    /\ delivered' = IF topology = "ring" THEN delivered
                    ELSE [delivered EXCEPT ![f] = @ + Found(f)]
    /\ UNCHANGED <<closed, end, missed, position>>

\* mutant: the cursor's missed is not mirrored
PublishDelivered(f, n) ==
    /\ delivered' = [delivered EXCEPT ![f] = @ + n]
    /\ position' = [position EXCEPT ![f] = next[f]]
    /\ UNCHANGED <<closed, next, end, lost, missed>>

\* RingFeed::publish_stats, after n frames were read.
PublishStats(f, n) ==
    /\ delivered' = [delivered EXCEPT ![f] = @ + n]
    /\ missed' = [missed EXCEPT ![f] = lost[f]]
    /\ position' = [position EXCEPT ![f] = next[f]]
    /\ UNCHANGED <<closed, next, end, lost>>

\* RingFeed::close closes the ring, and with it every other feed.
CloseFeed(f) ==
    closed' = [g \in Feeds |-> closed[g] \/ g = f \/ topology = "ring"]

\* FeedStats, as the reporting thread computes it.
Stats(f) ==
    IF topology = "ring"
    THEN [delivered |-> delivered[f], dropped |-> missed[f],
          backlog |-> IF total > position[f] THEN total - position[f] ELSE 0]
    ELSE [delivered |-> delivered[f], dropped |-> lost[f],
          backlog |-> end[f] - next[f]]

----------------------------------------------------------------------------
(* The ingest                                                              *)

\* RingIngest publishes a batch; FanOut stamps it, for its sinks to be given.
Ingest(n) ==
    /\ ingest = "run" /\ total + n <= MaxSeq
    /\ total' = total + n
    /\ IF topology = "ring"
       THEN UNCHANGED <<ingest, sink, batch>>
       ELSE /\ ingest' = "push" /\ batch' = n
            /\ sink' = 1
    /\ UNCHANGED <<options, mainVars, ingest_stop, feedVars, threadVars>>

\* push_batch: a closed queue refuses the batch without counting it, a full
\* one drops its oldest.  (The tap's queue, the last sink, is never closed
\* and read by main alone; no property is about its frames.)
Push ==
    /\ ingest = "push"
    /\ LET over == (end[sink] + batch) - next[sink] - Capacity
           drops == IF over > 0 THEN over ELSE 0
       IN  IF closed[sink] THEN UNCHANGED <<end, next, lost>>
           ELSE /\ end' = [end EXCEPT ![sink] = @ + batch]
                /\ next' = [next EXCEPT ![sink] = @ + drops]
                /\ lost' = [lost EXCEPT ![sink] = @ + drops]
    /\ IF sink = NEgresses
       THEN ingest' = "run" /\ sink' = 0 /\ batch' = 0
       ELSE sink' = sink + 1 /\ UNCHANGED <<ingest, batch>>
    /\ UNCHANGED <<options, mainVars, ingest_stop, total, closed, delivered,
                   missed, position, threadVars>>

IngestExits ==
    /\ ingest = "run" /\ ingest_stop
    /\ ingest' = "exited"
    /\ UNCHANGED <<options, mainVars, ingest_stop, sink, batch, total, feedVars,
                   threadVars>>

----------------------------------------------------------------------------
(* An egress thread, as in Egress                                          *)

Goto(e, label) == pc' = [pc EXCEPT ![e] = label]

others == <<options, mainVars, ingestVars>>

\* wait_for_client, when it is the stop event that ends its poll.
WaitStopped(e) ==
    /\ pc[e] = "top" /\ conn[e] = "none" /\ stop[e]
    /\ Goto(e, "exited")
    /\ UNCHANGED <<others, feedVars, stop, hand, conn, behind>>

\* drop_client, with whatever was in hand.
DropClient(e) ==
    /\ conn' = [conn EXCEPT ![e] = "none"]
    /\ hand' = [hand EXCEPT ![e] = 0]
    /\ behind' = [behind EXCEPT ![e] = FALSE]
    /\ Goto(e, "top")
    /\ UNCHANGED <<others, feedVars, stop>>

ClientGone(e) == pc[e] = "top" /\ conn[e] = "gone" /\ DropClient(e)

\* pop_batch.  A queue's returns with what there is, or with nothing when it
\* is closed or the timeout expires; the ring's looks, tests closed, waits
\* (for data, the close or the timeout), and looks again.
Look(e) ==
    /\ \/ pc[e] = "top" /\ conn[e] = "up"
       \/ pc[e] = "again"
    /\ Take(e)
    /\ behind' = [behind EXCEPT ![e] = Front(e) + Found(e) < End(e)]
    /\ hand' = [hand EXCEPT ![e] = Found(e)]
    /\ Goto(e, IF topology = "queue"
               THEN IF Found(e) > 0 THEN "send" ELSE "empty"
               ELSE IF pc[e] = "top" /\ Found(e) = 0 THEN "closed?"
                                                     ELSE "publish")
    /\ UNCHANGED <<others, stop, conn>>

RingClosed(e) ==
    /\ pc[e] = "closed?"
    /\ Goto(e, IF closed[e] THEN "empty" ELSE "again")
    /\ UNCHANGED <<others, feedVars, stop, hand, conn, behind>>

Publish(e) ==
    /\ pc[e] = "publish"
    /\ PublishStats(e, hand[e])
    /\ Goto(e, IF hand[e] > 0 THEN "send" ELSE "empty")
    /\ UNCHANGED <<others, stop, hand, conn, behind>>

\* run asks whether the feed is closed after a pop that returned nothing.
CheckClosed(e) ==
    /\ pc[e] = "empty"
    /\ Goto(e, IF closed[e] THEN "exited" ELSE "top")
    /\ UNCHANGED <<others, feedVars, stop, hand, conn, behind>>

\* mutant: a batch sent to the end after the close is the last one
AfterSend(e) == IF closed[e] THEN "exited" ELSE "top"

NextRound(e) == "top"

\* flush_pending: the whole batch goes out, or the socket is full and the
\* thread parks.
Send(e) ==
    /\ pc[e] = "send" /\ conn[e] = "up"
    /\ hand' = [hand EXCEPT ![e] = 0]
    /\ Goto(e, NextRound(e))
    /\ UNCHANGED <<others, feedVars, stop, conn, behind>>

Park(e) ==
    /\ pc[e] = "send" /\ conn[e] = "up"
    /\ Goto(e, "parked")
    /\ UNCHANGED <<others, feedVars, stop, hand, conn, behind>>

\* mutant: poll waits for room in the socket alone
ParkedForGood(e) == FALSE

StoppedParked(e) == stop[e]

SendFails(e) ==
    /\ \/ pc[e] \in {"send", "parked"} /\ conn[e] = "gone"
       \/ pc[e] = "parked" /\ StoppedParked(e)
    /\ DropClient(e)

EgressThread(e) ==
    \/ WaitStopped(e) \/ ClientGone(e) \/ Look(e) \/ RingClosed(e)
    \/ Publish(e) \/ CheckClosed(e) \/ Send(e) \/ Park(e) \/ SendFails(e)

\* A consumer connects and wait_for_client accepts it; it leaves.
Connect(e) ==
    /\ pc[e] = "top" /\ conn[e] = "none" /\ ~stop[e]
    /\ conn' = [conn EXCEPT ![e] = "up"]
    /\ UNCHANGED <<others, feedVars, pc, stop, hand, behind>>

Leave(e) ==
    /\ conn[e] = "up"
    /\ conn' = [conn EXCEPT ![e] = "gone"]
    /\ UNCHANGED <<others, feedVars, pc, stop, hand, behind>>

\* It reads what had filled the socket, if it ever does.
Unpark(e) ==
    /\ pc[e] = "parked" /\ conn[e] = "up" /\ ~stop[e]
    /\ Goto(e, "send")
    /\ UNCHANGED <<others, feedVars, stop, hand, conn, behind>>

ConsumerStep(e) == Connect(e) \/ Leave(e) \/ Unpark(e)

----------------------------------------------------------------------------
(* main                                                                    *)

threads == <<ingestVars, feedVars, threadVars>>

Built(v) == live[v] = Elements(v)

\* The variable main is filling, and the one it destroys next.
Filling ==
    CHOOSE i \in DOMAIN Declared :
        ~Built(Declared[i]) /\ \A k \in 1 .. i - 1 : Built(Declared[k])

Newest ==
    CHOOSE i \in DOMAIN Declared :
        /\ live[Declared[i]] # {}
        /\ \A k \in i + 1 .. Len(Declared) : live[Declared[k]] = {}

Build ==
    /\ main = "build" /\ \E i \in DOMAIN Declared : ~Built(Declared[i])
    /\ LET v == Declared[Filling]
           x == CHOOSE x \in Elements(v) \ live[v] :
                    \A y \in Elements(v) \ live[v] : x <= y
       IN  live' = [live EXCEPT ![v] = @ \cup {x}]
    /\ UNCHANGED <<options, main, at, status, threads>>

\* open_source, Egress::create, FanOut::create or RingIngest::create fails.
BuildFails ==
    /\ main = "build" /\ \E i \in DOMAIN Declared : ~Built(Declared[i])
    /\ Declared[Filling] \in {"source", "egress", "ingest"}
    /\ main' = "unwind" /\ status' = 1
    /\ UNCHANGED <<options, live, at, threads>>

BuildDone ==
    /\ main = "build" /\ \A i \in DOMAIN Declared : Built(Declared[i])
    /\ main' = "start" /\ at' = 1
    /\ UNCHANGED <<options, live, status, threads>>

StartEgress ==
    /\ main = "start" /\ at \in Egresses
    /\ Goto(at, "top")
    /\ at' = at + 1
    /\ UNCHANGED <<options, live, main, status, ingestVars, feedVars, stop,
                   hand, conn, behind>>

StartIngest ==
    /\ main = "start" /\ at \notin Egresses
    /\ ingest' = "run"
    /\ main' = "loop"
    /\ UNCHANGED <<options, live, at, status, ingest_stop, sink, batch, total,
                   feedVars, threadVars>>

\* A signal, or the deadline.
Interrupted ==
    /\ main = "loop"
    /\ main' = "stop_ingest" /\ at' = 1
    /\ UNCHANGED <<options, live, status, threads>>

StopIngest ==
    /\ main = "stop_ingest"
    /\ ingest_stop' = TRUE
    /\ main' = "join_ingest"
    /\ UNCHANGED <<options, live, at, status, ingest, sink, batch, total,
                   feedVars, threadVars>>

JoinIngest ==
    /\ main = "join_ingest" /\ ingest = "exited"
    /\ main' = "signal"
    /\ UNCHANGED <<options, live, at, status, threads>>

\* Egress::stop of one egress after the other: signal, close, join.
Signal ==
    /\ main = "signal" /\ at \in Egresses
    /\ stop' = [stop EXCEPT ![at] = TRUE]
    /\ main' = "close"
    /\ UNCHANGED <<options, live, at, status, ingestVars, feedVars, pc, hand,
                   conn, behind>>

Close ==
    /\ main = "close"
    /\ CloseFeed(at)
    /\ main' = "join"
    /\ UNCHANGED <<options, live, at, status, ingestVars, next, end, delivered,
                   lost, missed, position, threadVars>>

Join ==
    /\ main = "join" /\ pc[at] = "exited"
    /\ at' = at + 1
    /\ main' = "signal"
    /\ UNCHANGED <<options, live, status, threads>>

Report ==
    /\ main = "signal" /\ at \notin Egresses
    /\ main' = "report"
    /\ UNCHANGED <<options, live, at, status, threads>>

\* return.  A vector destroys its elements in an order of its own; ~Egress
\* closes the connection if there is one.
Return ==
    /\ main = "report"
    /\ main' = "unwind"
    /\ UNCHANGED <<options, live, at, status, threads>>

Destroy ==
    /\ main = "unwind" /\ \E i \in DOMAIN Declared : live[Declared[i]] # {}
    /\ LET v == Declared[Newest]
       IN  \E x \in live[v] :
              /\ live' = [live EXCEPT ![v] = @ \ {x}]
              /\ conn' = IF v = "egress" THEN [conn EXCEPT ![x] = "none"]
                                         ELSE conn
    /\ UNCHANGED <<options, main, at, status, ingestVars, feedVars, pc, stop,
                   hand, behind>>

Exit ==
    /\ main = "unwind" /\ \A i \in DOMAIN Declared : live[Declared[i]] = {}
    /\ main' = "returned"
    /\ UNCHANGED <<options, live, at, status, threads>>

MainThread ==
    \/ Build \/ BuildFails \/ BuildDone \/ StartEgress \/ StartIngest
    \/ StopIngest \/ JoinIngest \/ Signal \/ Close \/ Join
    \/ Report \/ Return \/ Destroy \/ Exit

Done == main = "returned" /\ UNCHANGED vars

Next ==
    \/ MainThread \/ Interrupted
    \/ \E n \in 1 .. Burst : Ingest(n)
    \/ Push \/ IngestExits
    \/ \E e \in Egresses : EgressThread(e) \/ ConsumerStep(e)
    \/ Done

Spec == Init /\ [][Next]_vars

(***************************************************************************)
(* The operating system runs main and the threads.  Nothing obliges frames *)
(* to arrive, a consumer to come, to read or to leave, or the signal.      *)
(***************************************************************************)
FairSpec ==
    /\ Spec
    /\ WF_vars(MainThread)
    /\ WF_vars(Push \/ IngestExits)
    /\ \A e \in Egresses : WF_vars(EgressThread(e))

----------------------------------------------------------------------------
(* Properties                                                              *)

Stopping == {"stop_ingest", "join_ingest", "signal", "close", "join", "report"}

\* Shutdown finishes, in either topology and whatever the consumers do: from
\* the signal on, the joins of FanOut or RingIngest and of every Egress
\* return, though stopping one egress of a ring closes the feeds of all and
\* the consumers of those not yet stopped may have ceased to read.
ShutdownCompletes == main \in Stopping ~> main = "returned"

\* The closing report adds up: when main prints it, each consumer's feed has
\* delivered, dropped or still holds every frame that was ingested.  No batch
\* was offered to a queue already closed (push_batch would refuse it and count
\* nothing), and the figures a RingFeed mirrored are those of its cursor.
ReportBalances ==
    main = "report" =>
        \A e \in Egresses :
            LET s == Stats(e)
            IN  s.delivered + s.dropped + s.backlog = total

\* Closing a feed discards nothing.  An egress thread ends only after the
\* ingest has, also when its feed was closed on behalf of another egress; and
\* if it ends with its consumer connected, all it leaves behind are frames
\* that came after it last looked.
EndsDrained ==
    \A e \in Egresses :
        pc[e] = "exited" =>
            /\ ingest = "exited"
            /\ conn[e] = "up" => ~behind[e]

Refers(v, x) ==
    CASE v = "egress" -> {<<"feed", x>>}
      [] v \in {"feed", "tap"} ->
            IF topology = "ring" THEN {<<"ring", 1>>} ELSE {}
      [] v = "ingest" ->
            {<<"source", s>> : s \in 1 .. NSources} \cup
            (IF topology = "ring" THEN {<<"ring", 1>>}
             ELSE {<<"feed", f>> : f \in Feeds}
                  \cup {<<"tap", f>> : f \in Elements("tap")})
      [] OTHER -> {}

\* The comment on declaration order in main holds on every path, a start-up
\* that fails half-way included: what a live object refers to is alive, and a
\* thread that has started and not been joined has a live object.
NothingDangles ==
    /\ \A v \in DOMAIN live : \A x \in live[v] :
          \A r \in Refers(v, x) : r[2] \in live[r[1]]
    /\ ingest \in {"run", "push"} => live["ingest"] # {}
    /\ \A e \in Egresses :
          pc[e] \notin {"none", "exited"} => e \in live["egress"]

=============================================================================
