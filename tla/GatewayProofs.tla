--------------------------- MODULE GatewayProofs ----------------------------
(***************************************************************************)
(* That the shutdown order of main makes the closing report add up, and    *)
(* lets no egress thread end early, for every number of sources and of     *)
(* egresses, every capacity and every batch size, in both topologies.  And *)
(* that nothing main owns is used after it is destroyed, wherever the      *)
(* construction fails; nor does a function that opens one of its objects,  *)
(* wherever it fails, leave a descriptor open or close one twice.          *)
(***************************************************************************)
EXTENDS Gateway, Opening, WellFoundedInduction, TLAPS

Mains ==
    {"build", "start", "loop", "report", "unwind", "returned"} \cup Stopping

Places ==
    {"none", "top", "closed?", "again", "publish", "empty", "send", "parked",
     "exited"}

GTypeOK ==
    /\ topology \in {"queue", "ring"}
    /\ main \in Mains /\ at \in Nat \ {0}
    /\ ingest \in {"none", "run", "push", "exited"}
    /\ {sink, batch, total} \subseteq Nat
    /\ closed \in [Feeds -> BOOLEAN]
    /\ next \in [Feeds -> Nat] /\ end \in [Feeds -> Nat]
    /\ delivered \in [Feeds -> Nat] /\ lost \in [Feeds -> Nat]
    /\ missed \in [Feeds -> Nat] /\ position \in [Feeds -> Nat]
    /\ pc \in [Egresses -> Places]
    /\ stop \in [Egresses -> BOOLEAN] /\ behind \in [Egresses -> BOOLEAN]
    /\ hand \in [Egresses -> Nat]
    /\ conn \in [Egresses -> {"none", "up", "gone"}]

\* main starts the egresses in order, stops the ingest before it touches one,
\* and goes through them in order again.
Phases ==
    /\ main \in {"build", "start"} => ingest = "none"
    /\ main = "build" => \A e \in Egresses : pc[e] = "none"
    /\ main = "start" => \A e \in Egresses : e >= at => pc[e] = "none"
    /\ main \in {"stop_ingest", "join_ingest"} => at = 1
    /\ main \in {"signal", "close", "join", "report"} => ingest = "exited"
    /\ main \in {"close", "join"} => at \in Egresses
    /\ main \in {"signal", "close", "join"} =>
          \A e \in Egresses : e < at => pc[e] = "exited"
    /\ main = "report" => \A e \in Egresses : pc[e] = "exited"

\* Only a stopped ingest leaves room for a stop, a close or an exit.
IngestFirst(e) == stop[e] \/ closed[e] \/ pc[e] = "exited" => ingest = "exited"

\* A RingFeed's figures trail its cursor between the look and publish_stats.
RingBooks(f) ==
    /\ next[f] <= total
    /\ pc[f] = "publish" => delivered[f] + lost[f] + hand[f] = next[f]
    /\ pc[f] # "publish" => /\ delivered[f] + lost[f] = next[f]
                            /\ missed[f] = lost[f] /\ position[f] = next[f]

\* A sink that push_batch has still to be called for lacks the batch.
QueueBooks(f) ==
    /\ pc[f] # "publish"
    /\ delivered[f] + lost[f] = next[f] /\ next[f] <= end[f]
    /\ ingest = "push" /\ sink <= f => end[f] + batch = total
    /\ ingest = "push" => sink <= f \/ end[f] = total
    /\ ingest # "push" => end[f] = total

Books ==
    /\ ingest = "push" => topology = "queue" /\ sink \in Feeds
    /\ topology = "ring" => \A f \in Feeds : RingBooks(f)
    /\ topology = "queue" => \A f \in Feeds : QueueBooks(f)

\* A thread that has found nothing has left nothing.
LooksKept(e) ==
    /\ pc[e] \in {"closed?", "empty"} => ~behind[e]
    /\ pc[e] = "publish" /\ hand[e] = 0 => ~behind[e]
    /\ pc[e] = "exited" /\ conn[e] = "up" => ~behind[e]

GInv ==
    /\ GTypeOK /\ Phases /\ Books
    /\ \A e \in Egresses : IngestFirst(e) /\ LooksKept(e)

----------------------------------------------------------------------------
LEMMA GatewayInitial == Init => GInv
<1> SUFFICES ASSUME Init PROVE GInv
  BY Zenon
<1>1. GTypeOK
  BY DEF Init, GTypeOK, Mains, Places
<1>2. Phases
  BY Zenon DEF Init, Phases
<1>3. Books
  BY DEF Init, Books, RingBooks, QueueBooks, Feeds
<1>4. \A e \in Egresses : IngestFirst(e) /\ LooksKept(e)
  BY Zenon DEF Init, IngestFirst, LooksKept, Feeds
<1> QED BY <1>1, <1>2, <1>3, <1>4, Zenon DEF GInv

\* What a look finds: nothing only when the reader has caught up.
LEMMA LookFinds ==
    ASSUME GInv, NEW f \in Feeds
    PROVE  /\ Front(f) \in Nat /\ Found(f) \in Nat
           /\ next[f] <= Front(f) /\ Front(f) + Found(f) <= End(f)
           /\ Found(f) = 0 => Front(f) = next[f] /\ Front(f) = End(f)
           /\ topology = "queue" => Front(f) = next[f]
<1>1. /\ next[f] \in Nat /\ End(f) \in Nat /\ next[f] <= End(f)
      /\ topology = "ring" => End(f) = total /\ total \in Nat
  BY Zenon DEF GInv, GTypeOK, Books, RingBooks, QueueBooks, End
<1>2. Capacity \in Nat \ {0} /\ MaxFrames \in Nat \ {0}
  BY GatewayAssumption, Zenon
<1>3. /\ Front(f) \in Nat /\ next[f] <= Front(f) /\ Front(f) <= End(f)
      /\ Front(f) = End(f) => Front(f) = next[f]
      /\ topology = "queue" => Front(f) = next[f]
  BY <1>1, <1>2 DEF Front
<1> QED BY <1>1, <1>2, <1>3 DEF Found, Least

----------------------------------------------------------------------------
\* Steps of main that touch neither the ingest, nor a feed, nor a thread.
LEMMA MainAlone ==
    ASSUME GInv, UNCHANGED <<topology, threads>>,
           main' \in Mains, at' \in Nat \ {0}, Phases'
    PROVE  GInv'
<1> USE DEF threads, ingestVars, feedVars, threadVars
<1>1. GTypeOK'
  BY Zenon DEF GInv, GTypeOK
<1>2. Books'
  BY Zenon DEF GInv, Books, RingBooks, QueueBooks
<1>3. \A e \in Egresses : IngestFirst(e)' /\ LooksKept(e)'
  BY Zenon DEF GInv, IngestFirst, LooksKept
<1> QED BY <1>1, <1>2, <1>3, Zenon DEF GInv

LEMMA MainSteps ==
    ASSUME GInv,
           \/ Build \/ BuildFails \/ BuildDone \/ Interrupted \/ JoinIngest
           \/ Join \/ Report \/ Return \/ Exit \/ Done \/ UNCHANGED vars
    PROVE  GInv'
<1> USE DEF GInv, GTypeOK, Mains, Stopping
<1>1. CASE Build \/ Done \/ UNCHANGED vars
  <2>1. UNCHANGED <<main, at, options, threads>>
    BY <1>1, Zenon DEF Build, Done, vars, threads, mainVars, options
  <2>2. Phases'
    BY <2>1, Zenon DEF Phases, threads, ingestVars, threadVars
  <2> QED BY <2>1, <2>2, MainAlone, Zenon DEF options
<1>2. CASE BuildFails
  <2>1. Phases'
    BY <1>2, Zenon DEF BuildFails, Phases
  <2> QED BY <1>2, <2>1, MainAlone, Zenon DEF BuildFails, options
<1>3. CASE BuildDone
  <2>1. Phases'
    BY <1>3, Zenon DEF BuildDone, Phases, threads, ingestVars, threadVars
  <2> QED BY <1>3, <2>1, MainAlone, SMTT(30) DEF BuildDone, options
<1>4. CASE Interrupted
  <2>1. Phases'
    BY <1>4, Zenon DEF Interrupted, Phases
  <2> QED BY <1>4, <2>1, MainAlone, SMTT(30) DEF Interrupted, options
<1>5. CASE JoinIngest
  <2>1. Phases'
    BY <1>5, SMTT(30) DEF JoinIngest, Phases, Egresses, threads, ingestVars
  <2> QED BY <1>5, <2>1, MainAlone, Zenon DEF JoinIngest, options
<1>6. CASE Join
  <2>1. \A e \in Egresses : e < at' => pc'[e] = "exited"
    BY <1>6, SMTT(30) DEF Join, Phases, Egresses, threads, threadVars
  <2>2. Phases'
    BY <1>6, <2>1, Zenon DEF Join, Phases, threads, ingestVars
  <2> QED BY <1>6, <2>2, MainAlone, SMTT(30) DEF Join, options
<1>7. CASE Report
  <2>1. \A e \in Egresses : e < at
    BY <1>7, GatewayAssumption, SMTT(30) DEF Report, Egresses
  <2>2. Phases'
    BY <1>7, <2>1, Zenon DEF Report, Phases, threads, ingestVars, threadVars
  <2> QED BY <1>7, <2>2, MainAlone, Zenon DEF Report, options
<1>8. CASE Return
  <2>1. Phases'
    BY <1>8, Zenon DEF Return, Phases
  <2> QED BY <1>8, <2>1, MainAlone, Zenon DEF Return, options
<1>9. CASE Exit
  <2>1. Phases'
    BY <1>9, Zenon DEF Exit, Phases
  <2> QED BY <1>9, <2>1, MainAlone, Zenon DEF Exit, options
<1> QED BY <1>1, <1>2, <1>3, <1>4, <1>5, <1>6, <1>7, <1>8, <1>9, Zenon

\* Steps of main on the ingest, on a thread or on a feed.
LEMMA MainMeets ==
    ASSUME GInv,
           StartEgress \/ StartIngest \/ StopIngest \/ Signal \/ Close \/ Destroy
    PROVE  GInv'
<1> USE DEF GInv, GTypeOK, Mains, Stopping, options, ingestVars, feedVars,
            threadVars
<1>1. CASE StartEgress
  <2> USE <1>1 DEF StartEgress, Goto
  <2>1. GTypeOK'
    BY SMTT(30) DEF Places
  <2>2. Phases'
    BY SMTT(30) DEF Phases, Egresses
  <2>3. pc[at] = "none"
    BY SMTT(30) DEF Phases, Egresses
  <2>4. Books'
    BY <2>3, SMTT(30) DEF Books, RingBooks, QueueBooks, Feeds
  <2>5. \A e \in Egresses : IngestFirst(e)' /\ LooksKept(e)'
    BY SMTT(30) DEF IngestFirst, LooksKept
  <2> QED BY <2>1, <2>2, <2>4, <2>5, Zenon
<1>2. CASE StartIngest
  <2> USE <1>2 DEF StartIngest
  <2>1. GTypeOK' /\ Phases'
    BY Zenon DEF Phases
  <2>2. Books'
    BY SMTT(30) DEF Books, RingBooks, QueueBooks, Phases
  <2>3. \A e \in Egresses : IngestFirst(e)' /\ LooksKept(e)'
    BY Zenon DEF IngestFirst, LooksKept, Phases
  <2> QED BY <2>1, <2>2, <2>3, Zenon
<1>3. CASE StopIngest
  <2> USE <1>3 DEF StopIngest
  <2>1. GTypeOK' /\ Phases'
    BY Zenon DEF Phases
  <2>2. Books'
    BY Zenon DEF Books, RingBooks, QueueBooks
  <2>3. \A e \in Egresses : IngestFirst(e)' /\ LooksKept(e)'
    BY Zenon DEF IngestFirst, LooksKept
  <2> QED BY <2>1, <2>2, <2>3, Zenon
<1>4. CASE Signal
  <2> USE <1>4 DEF Signal
  <2>1. GTypeOK' /\ Phases'
    BY Zenon DEF Phases
  <2>2. Books'
    BY Zenon DEF Books, RingBooks, QueueBooks
  <2>3. \A e \in Egresses : IngestFirst(e)' /\ LooksKept(e)'
    BY Zenon DEF IngestFirst, LooksKept, Phases
  <2> QED BY <2>1, <2>2, <2>3, Zenon
<1>5. CASE Close
  <2> USE <1>5 DEF Close, CloseFeed
  <2>1. GTypeOK' /\ Phases'
    BY Zenon DEF Phases
  <2>2. Books'
    BY Zenon DEF Books, RingBooks, QueueBooks
  <2>3. \A e \in Egresses : IngestFirst(e)' /\ LooksKept(e)'
    BY Zenon DEF IngestFirst, LooksKept, Phases
  <2> QED BY <2>1, <2>2, <2>3, Zenon
<1>6. CASE Destroy
  <2> USE <1>6 DEF Destroy
  <2>1. \E x : conn' = conn \/ conn' = [conn EXCEPT ![x] = "none"]
    BY Zenon
  <2>2. UNCHANGED <<options, main, at, ingestVars, feedVars, pc, stop, hand, behind>>
    BY Zenon
  <2> HIDE <1>6 DEF Destroy
  <2>3. conn' \in [Egresses -> {"none", "up", "gone"}]
        /\ \A e \in Egresses : conn'[e] = "up" => conn[e] = "up"
    BY <2>1, Zenon
  <2>4. GTypeOK' /\ Phases'
    BY <2>2, <2>3, SMTT(30) DEF Phases
  <2>5. Books'
    BY <2>2, Zenon DEF Books, RingBooks, QueueBooks
  <2>6. \A e \in Egresses : IngestFirst(e)' /\ LooksKept(e)'
    BY <2>2, <2>3, Zenon DEF IngestFirst, LooksKept
  <2> QED BY <2>4, <2>5, <2>6, Zenon
<1> QED BY <1>1, <1>2, <1>3, <1>4, <1>5, <1>6, SMTT(30)

----------------------------------------------------------------------------
LEMMA Ingests ==
    ASSUME GInv, NEW n \in 1 .. Burst, Ingest(n)
    PROVE  GInv'
<1>1. n \in Nat /\ NEgresses \in Nat \ {0} /\ 1 \in Nat
  <2>1. Burst \in Nat /\ NEgresses \in Nat \ {0}
    BY GatewayAssumption, Zenon
  <2> QED BY <2>1
<1>2. /\ ingest = "run" /\ total' = total + n
      /\ topology = "ring" => UNCHANGED <<ingest, sink, batch>>
      /\ topology = "queue" => ingest' = "push" /\ batch' = n /\ sink' = 1
      /\ UNCHANGED <<topology, main, at, feedVars, threadVars>>
  BY Zenon DEF Ingest, options, mainVars
<1>3. /\ topology \in {"queue", "ring"} /\ total \in Nat
      /\ sink \in Nat /\ batch \in Nat
  BY Zenon DEF GInv, GTypeOK
<1>4. GTypeOK'
  <2>1. total' \in Nat /\ sink' \in Nat /\ batch' \in Nat
        /\ ingest' \in {"none", "run", "push", "exited"}
    BY <1>1, <1>2, <1>3, SMTT(30)
  <2> QED BY <1>2, <2>1, Zenon DEF GInv, GTypeOK, feedVars, threadVars
<1>5. Phases'
  BY <1>2, <1>3, Zenon DEF GInv, Phases, threadVars
<1>6. \A e \in Egresses : IngestFirst(e)' /\ LooksKept(e)'
  <2>1. \A e \in Egresses : ~(stop[e] \/ closed[e] \/ pc[e] = "exited")
    BY <1>2, Zenon DEF GInv, IngestFirst
  <2> QED BY <1>2, <2>1, Zenon DEF GInv, IngestFirst, LooksKept, feedVars, threadVars
<1>7. CASE topology = "ring"
  <2>1. \A f \in Feeds : next[f] \in Nat /\ RingBooks(f)
    BY <1>7, Zenon DEF GInv, GTypeOK, Books
  <2>2. \A f \in Feeds : next[f] <= total'
    <3>1. \A f \in Feeds : next[f] \in Nat /\ next[f] <= total
      BY <2>1, Zenon DEF RingBooks
    <3> QED BY <1>1, <1>2, <1>3, <3>1, SMTT(30)
  <2>3. \A f \in Feeds : RingBooks(f)'
    BY <1>2, <2>1, <2>2, Zenon DEF RingBooks, feedVars, threadVars
  <2>4. Books'
    BY <1>2, <1>7, <2>3, SMTT(30) DEF Books
  <2> QED BY <1>4, <1>5, <1>6, <2>4, Zenon DEF GInv
<1>8. CASE topology = "queue"
  <2>1. \A f \in Feeds : f \in Nat /\ 1 <= f
    BY <1>1, SMTT(30) DEF Feeds, Egresses
  <2>2. sink' \in Feeds /\ sink' = 1 /\ batch' = n /\ ingest' = "push"
    BY <1>1, <1>2, <1>8, SMTT(30) DEF Feeds, Egresses
  <2>3. \A f \in Feeds : end[f] = total
    <3>1. \A f \in Feeds : end[f] \in Nat /\ QueueBooks(f)
      BY <1>8, Zenon DEF GInv, GTypeOK, Books
    <3> QED BY <1>2, <3>1, Zenon DEF QueueBooks
  <2>4. \A f \in Feeds : QueueBooks(f)
    BY <1>8, Zenon DEF GInv, Books
  <2>5. \A f \in Feeds : QueueBooks(f)'
    BY <1>2, <2>1, <2>2, <2>3, <2>4, Zenon DEF QueueBooks, feedVars, threadVars
  <2>6. Books'
    BY <1>2, <1>8, <2>2, <2>5, Zenon DEF Books
  <2> QED BY <1>4, <1>5, <1>6, <2>6, Zenon DEF GInv
<1> QED BY <1>3, <1>7, <1>8, Zenon

LEMMA IngestSteps ==
    ASSUME GInv, (\E n \in 1 .. Burst : Ingest(n)) \/ Push \/ IngestExits
    PROVE  GInv'
<1>1. ASSUME NEW n \in 1 .. Burst, Ingest(n) PROVE GInv'
  BY <1>1, Ingests, Zenon
<1> USE DEF GInv, GTypeOK, options, mainVars, feedVars, threadVars
<1>2. CASE Push
  <2> DEFINE over == (end[sink] + batch) - next[sink] - Capacity
             drops == IF over > 0 THEN over ELSE 0
  \* The queues are closed only after the ingest: none refuses the batch.
  <2>1. /\ topology = "queue" /\ sink \in Feeds
        /\ ~closed[sink] /\ ingest = "push"
        /\ \A e \in Egresses : ~stop[e] /\ ~closed[e] /\ pc[e] # "exited"
    BY <1>2, Zenon DEF Push, Books, IngestFirst, Feeds
  <2>2. end' = [end EXCEPT ![sink] = @ + batch]
        /\ next' = [next EXCEPT ![sink] = @ + drops]
        /\ lost' = [lost EXCEPT ![sink] = @ + drops]
    BY <1>2, <2>1, Zenon DEF Push
  <2>3. Capacity \in Nat \ {0} /\ NEgresses \in Nat \ {0} /\ sink \in Nat
    BY GatewayAssumption, Zenon
  <2>4. drops \in Nat /\ next[sink] + drops <= end[sink] + batch
    <3>1. end[sink] \in Nat /\ next[sink] \in Nat /\ batch \in Nat
          /\ next[sink] <= end[sink]
      BY <2>1, Zenon DEF Books, QueueBooks
    <3> QED BY <2>3, <3>1, SMTT(30)
  <2> HIDE DEF drops
  <2>5. /\ ingest' \in {"run", "push"}
        /\ ingest' = "run" => sink = NEgresses /\ sink' = 0 /\ batch' = 0
        /\ ingest' = "push" => sink # NEgresses /\ sink' = sink + 1 /\ batch' = batch
        /\ UNCHANGED <<options, mainVars, total, closed, delivered, missed,
                       position, threadVars>>
    BY <1>2, <2>1, Zenon DEF Push
  <2>6. GTypeOK'
    BY <2>1, <2>2, <2>3, <2>4, <2>5, SMTT(30)
  <2>7. Phases'
    BY <2>1, <2>5, Zenon DEF Phases
  <2>8. ASSUME NEW f \in Feeds PROVE QueueBooks(f)'
    <3>1. QueueBooks(f) /\ f \in Nat /\ f <= NEgresses
      BY <2>1, <2>3, SMTT(30) DEF Books, Feeds, Egresses
    <3>2. CASE f = sink
      <4>1. end'[f] = end[f] + batch /\ next'[f] = next[f] + drops
            /\ lost'[f] = lost[f] + drops
        BY <2>1, <2>2, <3>2, Zenon
      <4>2. ~(ingest' = "push" /\ sink' <= f)
        BY <2>3, <2>5, <3>2, SMTT(30)
      <4> QED BY <2>1, <2>3, <2>4, <2>5, <3>1, <3>2, <4>1, <4>2, SMTT(30) DEF QueueBooks
    <3>3. CASE f # sink
      <4>1. end'[f] = end[f] /\ next'[f] = next[f] /\ lost'[f] = lost[f]
        BY <2>1, <2>2, <3>3, Zenon
      <4>2. (ingest' = "push" /\ sink' <= f) <=> sink <= f
        BY <2>3, <2>5, <3>1, <3>3, SMTT(30)
      <4>3. sink <= f => batch' = batch
        BY <2>3, <2>5, <3>1, <3>3, SMTT(30)
      <4> QED BY <2>1, <2>5, <3>1, <4>1, <4>2, <4>3, Zenon DEF QueueBooks
    <3> QED BY <3>2, <3>3, Zenon
  <2>9. ingest' = "push" => sink' \in Feeds
    BY <2>1, <2>3, <2>5, SMTT(30) DEF Feeds, Egresses
  <2>10. Books'
    BY <2>1, <2>5, <2>8, <2>9, Zenon DEF Books
  <2>11. \A e \in Egresses : IngestFirst(e)' /\ LooksKept(e)'
    BY <2>1, <2>5, Zenon DEF IngestFirst, LooksKept, Feeds
  <2> QED BY <2>6, <2>7, <2>10, <2>11, Zenon
<1>3. CASE IngestExits
  <2> USE <1>3 DEF IngestExits
  <2>1. GTypeOK' /\ Phases'
    BY Zenon DEF Phases
  <2>2. Books'
    BY Zenon DEF Books, RingBooks, QueueBooks
  <2>3. \A e \in Egresses : IngestFirst(e)' /\ LooksKept(e)'
    BY Zenon DEF IngestFirst, LooksKept
  <2> QED BY <2>1, <2>2, <2>3, Zenon
<1> QED BY <1>1, <1>2, <1>3, Zenon

----------------------------------------------------------------------------
\* A step of one egress thread, or of its consumer, that leaves the feeds alone
\* and neither publishes nor ends the thread.
LEMMA ThreadAlone ==
    ASSUME GInv, NEW e \in Egresses,
           NEW to \in Places \ {"none", "publish", "exited"},
           pc' = [pc EXCEPT ![e] = to], pc[e] \notin {"none", "publish", "exited"},
           UNCHANGED <<others, feedVars, stop>>,
           hand' \in [Egresses -> Nat], behind' \in [Egresses -> BOOLEAN],
           conn' \in [Egresses -> {"none", "up", "gone"}],
           \A x \in Egresses \ {e} :
               hand'[x] = hand[x] /\ behind'[x] = behind[x] /\ conn'[x] = conn[x],
           LooksKept(e)'
    PROVE  GInv'
<1> USE DEF GInv, GTypeOK, others, options, mainVars, ingestVars, feedVars
<1>1. GTypeOK'
  BY Zenon
<1>2. Phases'
  BY SMTT(30) DEF Phases
<1>3. Books'
  BY SMTT(30) DEF Books, RingBooks, QueueBooks, Feeds
<1>4. \A x \in Egresses : IngestFirst(x)'
  BY Zenon DEF IngestFirst, Feeds
<1>5. \A x \in Egresses \ {e} : LooksKept(x)'
  BY DEF LooksKept
<1> QED BY <1>1, <1>2, <1>3, <1>4, <1>5, Zenon

\* The thread ends: its feed is closed, or it has been told to stop.
LEMMA ThreadEnds ==
    ASSUME GInv, NEW e \in Egresses, stop[e] \/ closed[e],
           pc' = [pc EXCEPT ![e] = "exited"], pc[e] \notin {"none", "publish"},
           conn[e] = "up" => ~behind[e],
           UNCHANGED <<others, feedVars, stop, hand, conn, behind>>
    PROVE  GInv'
<1> USE DEF GInv, GTypeOK, others, options, mainVars, ingestVars, feedVars
<1>1. GTypeOK'
  BY Zenon DEF Places
<1>2. Phases'
  BY SMTT(30) DEF Phases
<1>3. Books'
  BY SMTT(30) DEF Books, RingBooks, QueueBooks, Feeds
<1>4. \A x \in Egresses : IngestFirst(x)' /\ LooksKept(x)'
  BY Zenon DEF IngestFirst, LooksKept
<1> QED BY <1>1, <1>2, <1>3, <1>4, Zenon

LEMMA DropsClient ==
    ASSUME GInv, NEW e \in Egresses, DropClient(e),
           pc[e] \notin {"none", "publish", "exited"}
    PROVE  GInv'
<1>1. LooksKept(e)'
  BY Zenon DEF DropClient, Goto, LooksKept, GInv, GTypeOK
<1> QED BY <1>1, ThreadAlone, Zenon DEF DropClient, Goto, Places, GInv, GTypeOK

LEMMA TakeAway == \A a, b \in Nat : a + b - b = a
BY SMTT(30)

\* The look moves the cursor; a ring's figures follow in Publish.
LEMMA Looks ==
    ASSUME GInv, NEW e \in Egresses, Look(e)
    PROVE  GInv'
<1> DEFINE to == pc'[e]
<1>1. /\ Front(e) \in Nat /\ Found(e) \in Nat
      /\ next[e] <= Front(e) /\ Front(e) + Found(e) <= End(e)
      /\ Found(e) = 0 => Front(e) = next[e] /\ Front(e) = End(e)
      /\ topology = "queue" => Front(e) = next[e]
  BY LookFinds, Zenon DEF Feeds
<1>2. /\ pc[e] \in {"top", "again"}
      /\ to \in {"send", "empty", "closed?", "publish"}
      /\ to = "publish" => topology = "ring"
      /\ to \in {"send", "empty"} => topology = "queue"
      /\ to \in {"empty", "closed?"} => Found(e) = 0
      /\ pc' = [pc EXCEPT ![e] = to]
  <2>1. topology \in {"queue", "ring"} /\ pc \in [Egresses -> Places]
    BY Zenon DEF GInv, GTypeOK
  <2>2. pc[e] \in {"top", "again"}
        /\ pc' = [pc EXCEPT ![e] =
               IF topology = "queue"
               THEN IF Found(e) > 0 THEN "send" ELSE "empty"
               ELSE IF pc[e] = "top" /\ Found(e) = 0 THEN "closed?"
                                                     ELSE "publish"]
    BY Zenon DEF Look, Goto
  <2>3. ~(Found(e) > 0) => Found(e) = 0
    BY <1>1, SMTT(30)
  <2> QED BY <2>1, <2>2, <2>3, Zenon
<1>3. /\ next' = [next EXCEPT ![e] = Front(e) + Found(e)]
      /\ lost' = [lost EXCEPT ![e] = @ + Front(e) - next[e]]
      /\ delivered' = IF topology = "ring" THEN delivered
                      ELSE [delivered EXCEPT ![e] = @ + Found(e)]
      /\ behind' = [behind EXCEPT ![e] = Front(e) + Found(e) < End(e)]
      /\ hand' = [hand EXCEPT ![e] = Found(e)]
      /\ UNCHANGED <<others, closed, end, missed, position, stop, conn>>
  BY Zenon DEF Look, Take
<1> HIDE DEF to
<1> USE DEF GInv, GTypeOK, others, options, mainVars, ingestVars
<1>4. next[e] \in Nat /\ lost[e] \in Nat /\ delivered[e] \in Nat /\ e \in Feeds
      /\ total \in Nat /\ end[e] \in Nat
  BY Zenon DEF Feeds
<1>5. GTypeOK'
  <2>1. lost[e] + Front(e) - next[e] \in Nat
    BY <1>1, <1>4, SMTT(30)
  <2>2. next' \in [Feeds -> Nat] /\ lost' \in [Feeds -> Nat]
        /\ delivered' \in [Feeds -> Nat]
    <3>1. next \in [Feeds -> Nat] /\ lost \in [Feeds -> Nat]
          /\ delivered \in [Feeds -> Nat]
      BY Zenon
    <3>2. Front(e) + Found(e) \in Nat /\ delivered[e] + Found(e) \in Nat
      BY <1>1, <1>4, SMTT(30)
    <3> HIDE DEF GInv, GTypeOK
    <3> QED BY <1>3, <1>4, <2>1, <3>1, <3>2, Zenon
  <2>3. behind' \in [Egresses -> BOOLEAN] /\ hand' \in [Egresses -> Nat]
    <3>1. behind \in [Egresses -> BOOLEAN] /\ hand \in [Egresses -> Nat]
      BY Zenon
    <3> HIDE DEF GInv, GTypeOK
    <3>2. behind' \in [Egresses -> BOOLEAN]
      BY <1>3, <3>1, SMTT(30)
    <3>3. hand' \in [Egresses -> Nat]
      BY <1>1, <1>3, <3>1, Zenon
    <3> QED BY <3>2, <3>3, Zenon
  <2>4. pc' \in [Egresses -> Places]
    BY <1>2, Zenon DEF Places
  <2> QED BY <1>3, <2>2, <2>3, <2>4, SMTT(30)
<1>6. Phases'
  BY <1>2, <1>3, Zenon DEF Phases
<1>7. ASSUME topology = "ring" PROVE \A f \in Feeds : RingBooks(f)'
  <2>1. RingBooks(e)'
    <3>1. RingBooks(e) /\ pc[e] # "publish" /\ End(e) = total
      BY <1>2, <1>4, <1>7, Zenon DEF Books, End
    <3>2. /\ next'[e] = Front(e) + Found(e) /\ delivered'[e] = delivered[e]
          /\ lost'[e] = lost[e] + Front(e) - next[e] /\ hand'[e] = Found(e)
          /\ missed'[e] = missed[e] /\ position'[e] = position[e]
          /\ total' = total /\ pc'[e] = to
      BY <1>2, <1>3, <1>4, <1>7, Zenon
    <3>3. hand'[e] \in Nat /\ missed[e] = lost[e] /\ position[e] = next[e]
          /\ next[e] <= total /\ delivered[e] + lost[e] = next[e]
      BY <1>1, <1>4, <3>1, <3>2, Zenon DEF RingBooks
    <3>4. to = "closed?" => Front(e) = next[e] /\ Found(e) = 0
      BY <1>1, <1>2, Zenon
    <3>5. to \in {"closed?", "publish"}
      BY <1>2, <1>7, Zenon
    <3> HIDE DEF GInv, GTypeOK
    <3>6. /\ next'[e] <= total
          /\ delivered'[e] + lost'[e] + hand'[e] = next'[e]
          /\ to = "closed?" => /\ delivered'[e] + lost'[e] = next'[e]
                               /\ missed'[e] = lost'[e] /\ position'[e] = next'[e]
      <4>1. next'[e] <= total
        BY <1>1, <3>1, <3>2, Zenon
      <4>2. delivered[e] + (lost[e] + Front(e) - next[e]) + Found(e)
            = Front(e) + Found(e)
        <5> DEFINE d == delivered[e]
                   l == lost[e]
                   n == next[e]
                   front == Front(e)
                   found == Found(e)
        <5>1. /\ d \in Nat /\ l \in Nat /\ n \in Nat
              /\ front \in Nat /\ found \in Nat
          BY <1>1, <1>4, Zenon
        <5>2. d + l = n
          BY <3>3, Zenon
        <5> HIDE DEF d, l, n, front, found
        <5>3. d + (l + front - n) + found = front + found
          BY <5>1, <5>2
        <5> QED BY <5>3, Zenon DEF d, l, n, front, found
      <4>3. delivered'[e] + lost'[e] + hand'[e] = next'[e]
        BY <3>2, <4>2, Zenon
      <4>4. to = "closed?" => lost'[e] = lost[e] /\ next'[e] = next[e]
        <5>1. \A x, y \in Nat : x + y - y = x /\ y + 0 = y
          BY SMTT(30)
        <5>2. lost[e] \in Nat /\ next[e] \in Nat
          BY <1>4, Zenon
        <5>3. to = "closed?" => lost'[e] = lost[e] + next[e] - next[e]
                                /\ next'[e] = next[e] + 0
          BY <3>2, <3>4, Zenon
        <5> QED BY <5>1, <5>2, <5>3, Zenon
      <4> QED BY <3>2, <3>3, <4>1, <4>3, <4>4, ZenonT(30)
    <3> QED BY <3>2, <3>5, <3>6, Zenon DEF RingBooks
  <2>2. \A f \in Feeds \ {e} : RingBooks(f)'
    BY <1>2, <1>3, <1>7, Zenon DEF Books, RingBooks, Feeds
  <2> QED BY <2>1, <2>2, Zenon
<1>8. ASSUME topology = "queue" PROVE \A f \in Feeds : QueueBooks(f)'
  <2>1. QueueBooks(e)'
    <3>1. QueueBooks(e) /\ End(e) = end[e]
      BY <1>4, <1>8, Zenon DEF Books, End
    <3>2. /\ next'[e] = next[e] + Found(e) /\ delivered'[e] = delivered[e] + Found(e)
          /\ lost'[e] = lost[e] /\ end'[e] = end[e] /\ pc'[e] = to
      <4>1. next \in [Feeds -> Nat] /\ lost \in [Feeds -> Nat]
            /\ delivered \in [Feeds -> Nat] /\ pc \in [Egresses -> Places]
        BY Zenon
      <4> HIDE DEF GInv, GTypeOK
      <4>2. next'[e] = Front(e) + Found(e) /\ end'[e] = end[e] /\ pc'[e] = to
            /\ lost'[e] = lost[e] + Front(e) - next[e]
            /\ delivered'[e] = delivered[e] + Found(e)
        <5>1. delivered' = [delivered EXCEPT ![e] = @ + Found(e)]
          BY <1>3, <1>8, Zenon
        <5>2. next'[e] = Front(e) + Found(e) /\ end'[e] = end[e]
          BY <1>3, <1>4, <4>1, Zenon
        <5>3. lost'[e] = lost[e] + Front(e) - next[e]
          BY <1>3, <1>4, <4>1, Zenon
        <5>4. delivered'[e] = delivered[e] + Found(e)
          BY <1>4, <4>1, <5>1, Zenon
        <5>5. pc'[e] = to
          BY <1>2, <4>1, Zenon
        <5> QED BY <5>2, <5>3, <5>4, <5>5, Zenon
      <4>3. Front(e) = next[e]
        BY <1>1, <1>8, Zenon
      <4>4. lost[e] + next[e] - next[e] = lost[e]
        BY <1>4, TakeAway, Zenon
      <4> QED BY <4>2, <4>3, <4>4, Zenon
    <3>3. UNCHANGED <<ingest, sink, batch, total>> /\ to # "publish"
      BY <1>2, <1>3, <1>8, Zenon
    <3>4. Found(e) \in Nat /\ next[e] + Found(e) <= end[e]
      BY <1>1, <1>8, <3>1, Zenon
    <3> HIDE DEF GInv, GTypeOK
    <3> QED BY <1>4, <3>1, <3>2, <3>3, <3>4, SMTT(30) DEF QueueBooks
  <2>2. \A f \in Feeds \ {e} : QueueBooks(f)'
    BY <1>2, <1>3, <1>8, ZenonT(30) DEF Books, QueueBooks, Feeds
  <2> QED BY <2>1, <2>2, Zenon
<1>9. Books'
  BY <1>3, <1>7, <1>8, Zenon DEF Books
<1>10. \A x \in Egresses : IngestFirst(x)'
  BY <1>2, <1>3, Zenon DEF IngestFirst, Feeds
<1>11. LooksKept(e)'
  <2>1. Found(e) = 0 => ~behind'[e]
    <3>1. Found(e) = 0 => ~(Front(e) + Found(e) < End(e))
      BY <1>1
    <3>2. behind'[e] = (Front(e) + Found(e) < End(e))
      BY <1>3, ZenonT(30)
    <3> QED BY <3>1, <3>2, Zenon
  <2>2. hand'[e] = Found(e) /\ pc'[e] = to
    BY <1>2, <1>3, Zenon
  <2> QED BY <1>2, <2>1, <2>2, Zenon DEF LooksKept
<1>12. \A x \in Egresses \ {e} : LooksKept(x)'
  BY <1>2, <1>3, Zenon DEF LooksKept
<1> QED BY <1>5, <1>6, <1>9, <1>10, <1>11, <1>12, Zenon

LEMMA Publishes ==
    ASSUME GInv, NEW e \in Egresses, Publish(e)
    PROVE  GInv'
<1>1. topology = "ring" /\ pc[e] = "publish" /\ e \in Feeds
  BY Zenon DEF Publish, GInv, GTypeOK, Books, QueueBooks, Feeds
<1>2. /\ delivered' = [delivered EXCEPT ![e] = @ + hand[e]]
      /\ missed' = [missed EXCEPT ![e] = lost[e]]
      /\ position' = [position EXCEPT ![e] = next[e]]
      /\ pc' = [pc EXCEPT ![e] = IF hand[e] > 0 THEN "send" ELSE "empty"]
      /\ UNCHANGED <<topology, main, at, ingest, sink, batch, total, closed,
                     next, end, lost, stop, hand, conn, behind>>
  BY Zenon DEF Publish, PublishStats, Goto, others, options, mainVars, ingestVars
<1>3. /\ delivered \in [Feeds -> Nat] /\ lost \in [Feeds -> Nat]
      /\ missed \in [Feeds -> Nat] /\ position \in [Feeds -> Nat]
      /\ next \in [Feeds -> Nat] /\ hand \in [Egresses -> Nat]
      /\ pc \in [Egresses -> Places]
  BY Zenon DEF GInv, GTypeOK
<1>4. GTypeOK'
  <2>1. delivered[e] + hand[e] \in Nat /\ lost[e] \in Nat /\ next[e] \in Nat
    BY <1>1, <1>3, SMTT(30)
  <2>2. delivered' \in [Feeds -> Nat] /\ missed' \in [Feeds -> Nat]
        /\ position' \in [Feeds -> Nat]
    BY <1>1, <1>2, <1>3, <2>1, Zenon
  <2>3. pc' \in [Egresses -> Places]
    BY <1>2, <1>3, Zenon DEF Places
  <2> QED BY <1>2, <2>2, <2>3, Zenon DEF GInv, GTypeOK
<1>5. Phases'
  BY <1>1, <1>2, <1>3, Zenon DEF GInv, Phases
<1>6. Books'
  <2>1. \A f \in Feeds : RingBooks(f)
    BY <1>1, Zenon DEF GInv, Books
  <2>2. RingBooks(e)'
    <3>1. delivered'[e] = delivered[e] + hand[e] /\ missed'[e] = lost[e]
          /\ position'[e] = next[e] /\ pc'[e] # "publish"
      BY <1>1, <1>2, <1>3, Zenon
    <3>2. delivered[e] \in Nat /\ hand[e] \in Nat /\ lost[e] \in Nat
      BY <1>1, <1>3, Zenon
    <3>3. delivered[e] + lost[e] + hand[e] = next[e] /\ next[e] <= total
      BY <1>1, <2>1, Zenon DEF RingBooks
    <3>4. delivered'[e] + lost[e] = next[e]
      <4>1. \A d, l, h \in Nat : d + h + l = d + l + h
        OBVIOUS
      <4>2. delivered'[e] + lost[e] = delivered[e] + hand[e] + lost[e]
        BY <3>1, Zenon
      <4>3. delivered[e] + hand[e] + lost[e] = delivered[e] + lost[e] + hand[e]
        BY <4>1, <3>2, Zenon
      <4> QED BY <4>2, <4>3, <3>3, Zenon
    <3> QED BY <1>2, <3>1, <3>3, <3>4, Zenon DEF RingBooks
  <2>3. ASSUME NEW f \in Feeds, f # e PROVE RingBooks(f)'
    <3>1. delivered'[f] = delivered[f] /\ missed'[f] = missed[f]
          /\ position'[f] = position[f] /\ pc'[f] = pc[f]
      BY <1>2, <1>3, <2>3, Zenon DEF Feeds
    <3> QED BY <1>2, <2>1, <3>1, Zenon DEF RingBooks
  <2> QED BY <1>1, <1>2, <2>2, <2>3, Zenon DEF GInv, Books
<1>7. \A x \in Egresses : IngestFirst(x)' /\ LooksKept(x)'
  <2>1. \A x \in Egresses : IngestFirst(x) /\ LooksKept(x) /\ hand[x] \in Nat
    BY <1>3, Zenon DEF GInv
  <2>2. LooksKept(e)' /\ IngestFirst(e)'
    <3>1. pc'[e] \in {"send", "empty"} /\ (pc'[e] = "empty" => hand[e] = 0)
      BY <1>2, <1>3, <2>1
    <3>2. LooksKept(e)'
      BY <1>1, <1>2, <2>1, <3>1, Zenon DEF LooksKept
    <3>3. IngestFirst(e)'
      BY <1>2, <2>1, <3>1, Zenon DEF IngestFirst
    <3> QED BY <3>2, <3>3, Zenon
  <2>3. \A x \in Egresses : x # e => LooksKept(x)' /\ IngestFirst(x)'
    BY <1>2, <1>3, <2>1, Zenon DEF IngestFirst, LooksKept
  <2> QED BY <2>2, <2>3, Zenon
<1> QED BY <1>4, <1>5, <1>6, <1>7, Zenon DEF GInv

LEMMA ThreadSteps ==
    ASSUME GInv, NEW e \in Egresses, EgressThread(e) \/ ConsumerStep(e)
    PROVE  GInv'
<1> USE DEF Goto
<1>t. /\ pc \in [Egresses -> Places] /\ hand \in [Egresses -> Nat]
      /\ behind \in [Egresses -> BOOLEAN]
      /\ conn \in [Egresses -> {"none", "up", "gone"}]
      /\ LooksKept(e)
  BY Zenon DEF GInv, GTypeOK
<1>1. CASE WaitStopped(e)
  BY <1>1, ThreadEnds, Zenon DEF WaitStopped
<1>2. CASE ClientGone(e)
  BY <1>2, DropsClient, Zenon DEF ClientGone
<1>3. CASE Look(e)
  BY <1>3, Looks, Zenon
<1>4. CASE RingClosed(e)
  <2>1. LooksKept(e)'
    BY <1>4, <1>t, Zenon DEF RingClosed, LooksKept
  <2> QED BY <1>4, <1>t, <2>1, ThreadAlone, Zenon DEF RingClosed, Places
<1>5. CASE Publish(e)
  BY <1>5, Publishes, Zenon
<1>6. CASE CheckClosed(e)
  <2>1. CASE closed[e]
    BY <1>6, <1>t, <2>1, ThreadEnds, Zenon DEF CheckClosed, LooksKept
  <2>2. CASE ~closed[e]
    <3>1. LooksKept(e)'
      BY <1>6, <1>t, <2>2, Zenon DEF CheckClosed, LooksKept
    <3> QED BY <1>6, <1>t, <2>2, <3>1, ThreadAlone, Zenon DEF CheckClosed, Places
  <2> QED BY <2>1, <2>2, Zenon
<1>7. CASE Send(e)
  <2>1. LooksKept(e)'
    BY <1>7, <1>t, Zenon DEF Send, NextRound, LooksKept
  <2> QED BY <1>7, <1>t, <2>1, ThreadAlone, Zenon DEF Send, NextRound, Places
<1>8. CASE Park(e)
  <2>1. LooksKept(e)'
    BY <1>8, <1>t, Zenon DEF Park, LooksKept
  <2> QED BY <1>8, <1>t, <2>1, ThreadAlone, Zenon DEF Park, Places
<1>9. CASE SendFails(e)
  BY <1>9, DropsClient, Zenon DEF SendFails
<1>10. CASE Connect(e)
  <2>1. LooksKept(e)' /\ pc' = [pc EXCEPT ![e] = "top"]
    BY <1>10, <1>t, Zenon DEF Connect, LooksKept
  <2> QED BY <1>10, <1>t, <2>1, ThreadAlone, Zenon DEF Connect, Places
\* A consumer can leave at any time, when its thread publishes or has ended too.
<1>11. CASE Leave(e)
  <2> USE <1>11 DEF Leave, GInv, GTypeOK, others, options, mainVars, ingestVars,
                    feedVars
  <2>1. GTypeOK' /\ Phases'
    BY DEF Phases
  <2>2. Books'
    BY ZenonT(30) DEF Books, RingBooks, QueueBooks
  <2>3. \A x \in Egresses : IngestFirst(x)' /\ LooksKept(x)'
    BY Zenon DEF IngestFirst, LooksKept
  <2> QED BY <2>1, <2>2, <2>3, SMTT(30)
<1>12. CASE Unpark(e)
  <2>1. LooksKept(e)'
    BY <1>12, <1>t, Zenon DEF Unpark, LooksKept
  <2> QED BY <1>12, <1>t, <2>1, ThreadAlone, Zenon DEF Unpark, Places
<1> QED BY <1>1, <1>2, <1>3, <1>4, <1>5, <1>6, <1>7, <1>8, <1>9, <1>10, <1>11,
           <1>12, SMTT(30) DEF EgressThread, ConsumerStep

----------------------------------------------------------------------------
LEMMA GatewayInductive == Spec => []GInv
<1>1. GInv /\ [Next]_vars => GInv'
  <2> SUFFICES ASSUME GInv, [Next]_vars PROVE GInv'
    BY Zenon
  <2> QED BY MainSteps, MainMeets, IngestSteps, ThreadSteps, Zenon DEF Next, MainThread
<1> QED BY <1>1, GatewayInitial, PTL DEF Spec

LEMMA RestAdds ==
    ASSUME NEW d \in Nat, NEW l \in Nat, NEW n \in Nat, NEW t \in Nat,
           d + l = n, n <= t
    PROVE  /\ d + l + (t - n) = t
           /\ d + l + (IF t > n THEN t - n ELSE 0) = t
OBVIOUS

\* When main prints its report, every frame ingested is delivered, dropped or
\* still in the feed of each consumer: the ingest was joined before a feed was
\* closed, and every thread had published its cursor's figures when it ended.
THEOREM ReportAddsUp == Spec => []ReportBalances
<1>1. GInv => ReportBalances
  <2> SUFFICES ASSUME GInv, main = "report", NEW e \in Egresses
               PROVE  Stats(e).delivered + Stats(e).dropped + Stats(e).backlog = total
    BY Zenon DEF ReportBalances
  <2>1. ingest = "exited" /\ pc[e] = "exited" /\ e \in Feeds
    BY Zenon DEF GInv, Phases, Feeds
  <2>t. /\ delivered[e] \in Nat /\ lost[e] \in Nat /\ missed[e] \in Nat
        /\ next[e] \in Nat /\ end[e] \in Nat /\ total \in Nat
    BY <2>1, Zenon DEF GInv, GTypeOK
  <2>2. CASE topology = "ring"
    <3>1. RingBooks(e)
      BY <2>1, <2>2, Zenon DEF GInv, Books
    <3>2. /\ Stats(e).delivered = delivered[e] /\ Stats(e).dropped = missed[e]
          /\ Stats(e).backlog =
                IF total > position[e] THEN total - position[e] ELSE 0
      BY <2>2, Zenon DEF Stats
    <3>3. /\ delivered[e] + lost[e] = next[e] /\ next[e] <= total
          /\ missed[e] = lost[e] /\ position[e] = next[e]
      BY <2>1, <3>1, Zenon DEF RingBooks
    <3>4. delivered[e] + lost[e] +
              (IF total > next[e] THEN total - next[e] ELSE 0) = total
      BY <2>t, <3>3, RestAdds, ZenonT(30)
    <3> QED BY <3>2, <3>3, <3>4, Zenon
  <2>3. CASE topology = "queue"
    <3>1. QueueBooks(e)
      BY <2>1, <2>3, Zenon DEF GInv, Books
    <3>2. /\ Stats(e).delivered = delivered[e] /\ Stats(e).dropped = lost[e]
          /\ Stats(e).backlog = end[e] - next[e]
      BY <2>3, Zenon DEF Stats
    <3>3. delivered[e] + lost[e] = next[e] /\ next[e] <= end[e]
          /\ end[e] = total
      BY <2>1, <3>1, Zenon DEF QueueBooks
    <3>4. delivered[e] + lost[e] + (total - next[e]) = total
      BY <2>t, <3>3, RestAdds, SMTT(30)
    <3> QED BY <3>2, <3>3, <3>4, Zenon
  <2> QED BY <2>2, <2>3, Zenon DEF GInv, GTypeOK
<1> QED BY <1>1, GatewayInductive, PTL

\* No egress thread ends before the ingest has, and one that ends with its
\* consumer connected had emptied its feed when it last looked.
THEOREM ThreadsEndDrained == Spec => []EndsDrained
<1>1. GInv => EndsDrained
  BY Zenon DEF GInv, EndsDrained, IngestFirst, LooksKept
<1> QED BY <1>1, GatewayInductive, PTL

----------------------------------------------------------------------------
(* What is alive is a stack: of all that was declared before something     *)
(* alive, nothing is missing.                                              *)

Order == 1 .. 6

Names == {"source", "ring", "feed", "tap", "egress", "ingest"}

\* The declarations of main, spelled out.
LEMMA DeclaredIs ==
    /\ DOMAIN Declared = Order /\ Len(Declared) = 6
    /\ Declared[1] = "source" /\ Declared[2] = "ring" /\ Declared[3] = "feed"
    /\ Declared[4] = "tap" /\ Declared[5] = "egress" /\ Declared[6] = "ingest"
BY SMTT(30) DEF Declared, Order

LEMMA DeclaredOnce ==
    /\ \A i \in Order : Declared[i] \in Names
    /\ \A v \in Names : \E i \in Order : Declared[i] = v
    /\ \A i, j \in Order : Declared[i] = Declared[j] => i = j
<1>1. \A i \in Order : i = 1 \/ i = 2 \/ i = 3 \/ i = 4 \/ i = 5 \/ i = 6
  BY DEF Order
<1>2. {1, 2, 3, 4, 5, 6} = Order
  BY SMTT(30) DEF Order
<1>3. \A i \in Order : Declared[i] \in Names
  BY <1>1, DeclaredIs, Zenon DEF Names
<1>4. \A v \in Names : \E i \in Order : Declared[i] = v
  BY <1>2, DeclaredIs, Zenon DEF Names
<1>5. \A i, j \in Order : Declared[i] = Declared[j] => i = j
  BY <1>1, DeclaredIs, SMTT(30)
<1> QED BY <1>3, <1>4, <1>5, Zenon

Quiet ==
    /\ ingest \in {"none", "exited"}
    /\ \A e \in Egresses : pc[e] \in {"none", "exited"}

Stacked ==
    \A i, j \in Order :
        i < j /\ live[Declared[j]] # {} => Built(Declared[i])

LInv ==
    /\ tap \in BOOLEAN
    /\ live \in [Names -> SUBSET Nat]
    /\ \A v \in Names : live[v] \subseteq Elements(v)
    /\ Stacked
    /\ main \notin {"build", "unwind", "returned"} =>
          \A v \in Names : Built(v)
    /\ main \in {"unwind", "returned"} => Quiet

----------------------------------------------------------------------------
LEMMA LivesInitial == Init => LInv
<1> SUFFICES ASSUME Init PROVE LInv
  BY Zenon
<1>1. {Declared[i] : i \in DOMAIN Declared} = Names
  BY DeclaredOnce, DeclaredIs, SMTT(30)
<1>2. live = [v \in Names |-> {}]
  BY <1>1, Zenon DEF Init
<1>3. Stacked
  BY <1>2, DeclaredOnce, Zenon DEF Stacked
<1> QED BY <1>2, <1>3, Zenon DEF Init, LInv

LEMMA ElementsNat == \A v \in Names : Elements(v) \in SUBSET Nat
BY GatewayAssumption, SMTT(30) DEF Elements, Names, Egresses

\* main fills the first variable that is not complete.
LEMMA FillingIs ==
    ASSUME NEW i \in Order, ~Built(Declared[i])
    PROVE  /\ Filling \in Order /\ ~Built(Declared[Filling])
           /\ \A k \in Order : k < Filling => Built(Declared[k])
<1>1. \E m \in Order : /\ ~Built(Declared[m])
                       /\ \A k \in 1 .. m - 1 : Built(Declared[k])
  <2> DEFINE T == {m \in Nat : m \in Order /\ ~Built(Declared[m])}
  <2>1. T \subseteq Nat /\ T # {}
    BY DEF Order
  <2>2. PICK m \in T : \A y \in T : ~(<<y, m>> \in OpToRel(<, Nat))
    BY <2>1, NatLessThanWellFounded, WFMin, Zenon
  <2>3. \A y \in T : ~(y < m)
    BY <2>2, Zenon DEF OpToRel
  <2>4. \A k \in 1 .. m - 1 : k \in Nat /\ k \in Order /\ k < m
    BY SMTT(30) DEF Order
  <2> QED BY <2>3, <2>4, Zenon
<1>2. /\ Filling \in Order /\ ~Built(Declared[Filling])
      /\ \A k \in 1 .. Filling - 1 : Built(Declared[k])
  BY <1>1, DeclaredIs, Zenon DEF Filling
<1> QED BY <1>2, SMTT(30) DEF Order

\* It destroys the last one that is not empty.
LEMMA NewestIs ==
    ASSUME NEW i \in Order, live[Declared[i]] # {}
    PROVE  /\ Newest \in Order /\ live[Declared[Newest]] # {}
           /\ \A k \in Order : k > Newest => live[Declared[k]] = {}
<1>1. \E m \in Order : /\ live[Declared[m]] # {}
                       /\ \A k \in m + 1 .. 6 : live[Declared[k]] = {}
  <2> DEFINE T == {m \in Nat : 6 - m \in Order /\ live[Declared[6 - m]] # {}}
  <2>1. T \subseteq Nat /\ 6 - i \in T
    BY DEF Order
  <2>2. PICK m \in T : \A y \in T : ~(<<y, m>> \in OpToRel(<, Nat))
    BY <2>1, NatLessThanWellFounded, WFMin, Zenon
  <2>3. \A y \in T : ~(y < m)
    BY <2>2, Zenon DEF OpToRel
  <2>4. \A k \in (6 - m) + 1 .. 6 :
            k \in Order /\ 6 - k \in Nat /\ 6 - k < m /\ 6 - (6 - k) = k
    BY SMTT(30) DEF Order
  <2>5. \A k \in (6 - m) + 1 .. 6 : live[Declared[k]] = {}
    BY <2>3, <2>4, SMTT(30)
  <2> QED BY <2>5, Zenon
<1>2. /\ Newest \in Order /\ live[Declared[Newest]] # {}
      /\ \A k \in Newest + 1 .. 6 : live[Declared[k]] = {}
  BY <1>1, DeclaredIs, ZenonT(30) DEF Newest
<1> QED BY <1>2, SMTT(30) DEF Order

----------------------------------------------------------------------------
LEMMA BuildKeeps == ASSUME LInv, Build PROVE LInv'
<1>1. PICK i \in Order : ~Built(Declared[i])
  BY DeclaredIs, Zenon DEF Build
<1>2. /\ Filling \in Order /\ ~Built(Declared[Filling])
      /\ \A k \in Order : k < Filling => Built(Declared[k])
  BY <1>1, FillingIs, Zenon
<1> DEFINE v == Declared[Filling]
           T == Elements(v) \ live[v]
           x == CHOOSE x \in T : \A y \in T : x <= y
<1>3. v \in Names
  BY <1>2, DeclaredOnce, Zenon
<1>4. live' = [live EXCEPT ![v] = @ \cup {x}]
      /\ UNCHANGED <<tap, topology, main>>
  BY Zenon DEF Build, options
<1>5. T \subseteq Nat /\ T # {}
  BY <1>2, <1>3, ElementsNat, Zenon DEF LInv, Built
<1> HIDE DEF T
<1>6. x \in T
  <2>1. PICK m \in T : \A y \in T : ~(<<y, m>> \in OpToRel(<, Nat))
    BY <1>5, NatLessThanWellFounded, WFMin, Zenon
  <2>2. \A y \in T : ~(y < m) /\ y \in Nat /\ m \in Nat
    BY <1>5, <2>1, Zenon DEF OpToRel
  <2>3. \A y \in T : m <= y
    BY <2>2, SMTT(30)
  <2> QED BY <2>3, Zenon
<1> HIDE DEF x, v
<1>7. x \in Nat /\ x \in Elements(v)
  BY <1>5, <1>6, Zenon DEF T
<1>8. \A w : Elements(w)' = Elements(w)
  BY <1>4, Zenon DEF Elements
<1>9. live' \in [Names -> SUBSET Nat]
      /\ live'[v] = live[v] \cup {x}
      /\ \A w \in Names : w # v => live'[w] = live[w]
  BY <1>3, <1>4, <1>7, Zenon DEF LInv
<1>10. \A w \in Names : live'[w] \subseteq Elements(w)'
  BY <1>3, <1>7, <1>8, <1>9, Zenon DEF LInv
<1>11. Stacked'
  <2> SUFFICES ASSUME NEW a \in Order, NEW b \in Order, a < b,
                      live'[Declared[b]] # {}
               PROVE  Built(Declared[a])'
    BY Zenon DEF Stacked
  <2>0. Declared[a] \in Names /\ Declared[b] \in Names
    BY DeclaredOnce, Zenon
  <2>1. Built(Declared[a]) /\ a # Filling
    <3>1. CASE b = Filling
      BY <1>2, <3>1, Zenon DEF Order
    <3>2. CASE b # Filling
      <4>1. live[Declared[b]] # {}
        BY <1>2, <1>9, <2>0, <3>2, DeclaredOnce, SMTT(30) DEF v
      <4> QED BY <1>2, <4>1, Zenon DEF LInv, Stacked
    <3> QED BY <3>1, <3>2, Zenon
  <2>2. Declared[a] # v
    BY <1>2, <2>1, DeclaredOnce, Zenon DEF v
  <2> QED BY <1>8, <1>9, <2>0, <2>1, <2>2, Zenon DEF Built
<1> QED BY <1>4, <1>9, <1>10, <1>11, Zenon DEF LInv, Build

LEMMA DestroyKeeps == ASSUME LInv, Destroy PROVE LInv'
<1>1. PICK i \in Order : live[Declared[i]] # {}
  BY DeclaredIs, Zenon DEF Destroy
<1>2. /\ Newest \in Order /\ live[Declared[Newest]] # {}
      /\ \A k \in Order : k > Newest => live[Declared[k]] = {}
  BY <1>1, NewestIs, Zenon
<1> DEFINE v == Declared[Newest]
<1>3. v \in Names
  BY <1>2, DeclaredOnce, Zenon
<1>4. PICK x \in live[v] : live' = [live EXCEPT ![v] = @ \ {x}]
  BY Zenon DEF Destroy
<1>5. UNCHANGED <<tap, topology, main, ingest, pc>>
  BY Zenon DEF Destroy, options, ingestVars
<1> HIDE DEF v
<1>6. live' \in [Names -> SUBSET Nat]
      /\ live'[v] \subseteq live[v]
      /\ \A w \in Names : w # v => live'[w] = live[w]
  BY <1>3, <1>4, Zenon DEF LInv
<1>7. \A w : Elements(w)' = Elements(w)
  BY <1>5, Zenon DEF Elements
<1>8. \A w \in Names : live'[w] \subseteq Elements(w)'
  BY <1>3, <1>6, <1>7, Zenon DEF LInv
<1>9. Stacked'
  <2> SUFFICES ASSUME NEW a \in Order, NEW b \in Order, a < b,
                      live'[Declared[b]] # {}
               PROVE  Built(Declared[a])'
    BY Zenon DEF Stacked
  <2>0. Declared[a] \in Names /\ Declared[b] \in Names
    BY DeclaredOnce, Zenon
  <2>1. live[Declared[b]] # {}
    BY <1>6, <2>0, Zenon
  <2>2. b <= Newest
    BY <1>2, <2>1, SMTT(30) DEF Order
  <2>3. Built(Declared[a]) /\ a # Newest
    <3>1. Newest \in Order /\ a < b
      BY <1>2, Zenon
    <3>2. a # Newest
      BY <2>2, <3>1, SMTT(30) DEF Order
    <3>3. Built(Declared[a])
      BY <2>1, <3>1, Zenon DEF LInv, Stacked
    <3> QED BY <3>2, <3>3, Zenon
  <2>4. Declared[a] # v
    BY <1>2, <2>3, DeclaredOnce, Zenon DEF v
  <2> QED BY <1>6, <1>7, <2>0, <2>3, <2>4, Zenon DEF Built
<1>10. main = "unwind" /\ Quiet'
  BY <1>5, Zenon DEF Destroy, LInv, Quiet
<1> QED BY <1>5, <1>6, <1>8, <1>9, <1>10, Zenon DEF LInv

\* main leaves one phase for the next, and nothing is built or destroyed.
LEMMA PhaseKeeps ==
    ASSUME GInv, LInv,
           \/ BuildFails \/ BuildDone \/ StartEgress \/ StartIngest
           \/ Interrupted \/ StopIngest \/ JoinIngest \/ Signal \/ Close
           \/ Join \/ Report \/ Return \/ Exit
    PROVE  LInv'
<1> USE DEF options, threads, ingestVars, threadVars
<1>1. UNCHANGED <<options, live>>
  BY Zenon DEF BuildFails, BuildDone, StartEgress, StartIngest, Interrupted,
         StopIngest, JoinIngest, Signal, Close, Join, Report, Return, Exit
<1>2. \A w : Elements(w)' = Elements(w) /\ Built(w)' = Built(w)
  BY <1>1, Zenon DEF Elements, Built
<1>3. Stacked' /\ \A w \in Names : live'[w] \subseteq Elements(w)'
  BY <1>1, <1>2, Zenon DEF LInv, Stacked
<1>4. main' \notin {"build", "unwind", "returned"} =>
          \A w \in Names : Built(w)'
  <2>1. CASE BuildDone
    BY <1>2, <2>1, DeclaredIs, DeclaredOnce, SMTT(30) DEF BuildDone
  <2>2. CASE ~BuildDone
    BY <1>2, <2>2, Zenon
    DEF LInv, BuildFails, StartEgress, StartIngest, Interrupted, StopIngest,
        JoinIngest, Signal, Close, Join, Report, Return, Exit
  <2> QED BY <2>1, <2>2, Zenon
<1>5. main' \in {"unwind", "returned"} => Quiet'
  <2>1. CASE BuildFails \/ Return
    BY <2>1, Zenon DEF BuildFails, Return, GInv, Phases, Quiet
  <2>2. CASE Exit
    BY <2>2, Zenon DEF Exit, LInv, Quiet
  <2>3. CASE ~(BuildFails \/ Return \/ Exit)
    BY <2>3, Zenon DEF BuildDone, StartEgress, StartIngest, Interrupted, StopIngest,
                JoinIngest, Signal, Close, Join, Report
  <2> QED BY <2>1, <2>2, <2>3, Zenon
<1> QED BY <1>1, <1>3, <1>4, <1>5, SMTT(30) DEF LInv

\* A thread that has not started, or has ended, takes no step.
LEMMA ThreadsKeep ==
    ASSUME GInv, LInv,
           \/ \E n \in 1 .. Burst : Ingest(n)
           \/ Push \/ IngestExits
           \/ \E e \in Egresses : EgressThread(e) \/ ConsumerStep(e)
           \/ Done \/ UNCHANGED vars
    PROVE  LInv'
<1>1. /\ UNCHANGED <<options, live, main>>
      /\ Quiet => Quiet'
  <2> USE DEF options, mainVars, ingestVars, threadVars, Quiet
  <2>1. CASE \E n \in 1 .. Burst : Ingest(n)
    BY <2>1, Zenon DEF Ingest
  <2>2. CASE Push \/ IngestExits
    BY <2>2, ZenonT(30) DEF Push, IngestExits
  <2>3. ASSUME NEW e \in Egresses, EgressThread(e)
        PROVE  UNCHANGED <<options, live, main>> /\ (Quiet => Quiet')
    <3>1. UNCHANGED others /\ pc[e] \notin {"none", "exited"}
      BY <2>3, Zenon DEF EgressThread, WaitStopped, ClientGone, DropClient, Look,
                  RingClosed, Publish, CheckClosed, Send, Park, SendFails
    <3> QED BY <3>1, Zenon DEF others
  <2>4. ASSUME NEW e \in Egresses, ConsumerStep(e)
        PROVE  UNCHANGED <<options, live, main>> /\ (Quiet => Quiet')
    <3>1. CASE Connect(e) \/ Leave(e)
      BY <3>1, Zenon DEF Connect, Leave, others
    <3>2. CASE Unpark(e)
      BY <3>2, ZenonT(30) DEF Unpark, others
    <3> QED BY <2>4, <3>1, <3>2, Zenon DEF ConsumerStep
  <2>5. CASE Done \/ UNCHANGED vars
    BY <2>5, Zenon DEF Done, vars
  <2> QED BY <2>1, <2>2, <2>3, <2>4, <2>5, ZenonT(30)
<1>2. \A w : Elements(w)' = Elements(w) /\ Built(w)' = Built(w)
  BY <1>1, Zenon DEF Elements, Built, options
<1>3. Stacked' /\ \A w \in Names : live'[w] \subseteq Elements(w)'
  BY <1>1, <1>2, Zenon DEF LInv, Stacked
<1> QED BY <1>1, <1>2, <1>3, Zenon DEF LInv, options

LEMMA LivesInductive == Spec => [](GInv /\ LInv)
<1>1. GInv /\ LInv /\ [Next]_vars => LInv'
  <2> SUFFICES ASSUME GInv, LInv, [Next]_vars PROVE LInv'
    BY Zenon
  <2> QED BY BuildKeeps, DestroyKeeps, PhaseKeeps, ThreadsKeep, Zenon
          DEF Next, MainThread
<1> QED BY <1>1, LivesInitial, GatewayInductive, PTL DEF Spec

----------------------------------------------------------------------------
\* What an object refers to was declared before it, and is complete.
LEMMA ReferredAlive ==
    ASSUME GInv, LInv, NEW v \in Names, NEW x \in live[v],
           NEW r \in Refers(v, x)
    PROVE  r[2] \in live[r[1]]
<1> USE DEF Refers
<1>0. {1, 2, 3, 4, 5, 6} \subseteq Order
  BY DEF Order
<1>1. /\ live["feed"] # {} \/ live["tap"] # {} => Built("ring")
      /\ live["egress"] # {} => Built("feed")
      /\ live["ingest"] # {} =>
            Built("source") /\ Built("ring") /\ Built("feed") /\ Built("tap")
  BY <1>0, DeclaredIs DEF LInv, Stacked
<1>2. /\ Elements("source") = 1 .. NSources
      /\ topology = "ring" => Elements("ring") = {1}
      /\ Elements("feed") = Egresses /\ Elements("egress") = Egresses
  BY Zenon DEF Elements
<1>3. x \in Elements(v)
  BY Zenon DEF LInv
<1>4. CASE v = "egress"
  BY <1>1, <1>2, <1>3, <1>4, SMTT(30) DEF Built
<1>5. CASE v \in {"feed", "tap"}
  BY <1>1, <1>2, <1>5, SMTT(30) DEF Built
<1>6. CASE v = "ingest"
  <2>1. \/ \E s \in 1 .. NSources : r = <<"source", s>>
        \/ topology = "ring" /\ r = <<"ring", 1>>
        \/ \E f \in Feeds : r = <<"feed", f>>
        \/ \E f \in Elements("tap") : r = <<"tap", f>>
    BY <1>6, Zenon
  <2>2. /\ live["source"] = 1 .. NSources /\ live["feed"] = Feeds
        /\ live["tap"] = Elements("tap")
        /\ topology = "ring" => live["ring"] = {1}
    BY <1>1, <1>2, <1>6, Zenon DEF Built, Feeds
  <2> HIDE DEF Refers
  <2>3. CASE \E s \in 1 .. NSources : r = <<"source", s>>
    <3>1. PICK s \in 1 .. NSources : r = <<"source", s>>
      BY <2>3, Zenon
    <3>2. r[1] = "source" /\ r[2] = s
      BY <3>1, Zenon
    <3> QED BY <2>2, <3>2, Zenon
  <2>4. CASE topology = "ring" /\ r = <<"ring", 1>>
    BY <2>2, <2>4, Zenon
  <2>5. CASE \E f \in Feeds : r = <<"feed", f>>
    BY <2>2, <2>5, SMTT(30)
  <2>6. CASE \E f \in Elements("tap") : r = <<"tap", f>>
    BY <2>2, <2>6, SMTT(30)
  <2> QED BY <2>1, <2>3, <2>4, <2>5, <2>6, Zenon
<1>7. CASE v \in {"source", "ring"}
  BY <1>7, Zenon
<1> QED BY <1>4, <1>5, <1>6, <1>7, Zenon DEF Names

\* Whatever fails in the construction, and in whatever order the elements of a
\* vector go, no object refers to a destroyed one and no thread outlives its
\* object: main's declarations are in the order their references need.
THEOREM DeclarationOrderSafe == Spec => []NothingDangles
<1>1. GInv /\ LInv => NothingDangles
  <2> SUFFICES ASSUME GInv, LInv PROVE NothingDangles
    BY Zenon
  <2>1. \A v \in DOMAIN live : \A x \in live[v] :
            \A r \in Refers(v, x) : r[2] \in live[r[1]]
    BY ReferredAlive, Zenon DEF LInv
  <2>2. \/ main = "build" /\ ingest = "none"
              /\ \A e \in Egresses : pc[e] = "none"
        \/ Quiet
        \/ Built("ingest") /\ Built("egress")
    BY Zenon DEF GInv, Phases, LInv, Names
  <2>3. Elements("ingest") = {1} /\ Elements("egress") = Egresses
    BY Zenon DEF Elements
  <2>4. /\ ingest \in {"run", "push"} => live["ingest"] # {}
        /\ \A e \in Egresses :
              pc[e] \notin {"none", "exited"} => e \in live["egress"]
    BY <2>2, <2>3, Zenon DEF Quiet, Built
  <2> QED BY <2>1, <2>4, Zenon DEF NothingDangles
<1> QED BY <1>1, LivesInductive, PTL

----------------------------------------------------------------------------
(* Opening and closing descriptors                                         *)

Ops == {"open", "call", "try", "need"}

Descriptors == {"", "listen", "client", "peer", "can", "timer", "stop"}

OpeningStep == [op : Ops, fd : Descriptors, closes : SUBSET Descriptors]

\* Step x, taken with h open, leaves g open and goes on.
Passes(x, h, g) ==
    \/ /\ x.op = "need" => x.fd \in h
       /\ x.op \in {"open", "try"} => g = h \cup {x.fd}
       /\ x.op \notin {"open", "try"} => g = h
    \/ x.op = "try" /\ x.fd \notin h /\ g = h

\* Where step x ends its function with h open, it closes h.
Cleans(x, h) == x.op # "try" /\ (x.op = "need" => x.fd \notin h) => x.closes = h

\* may[j] are the sets of descriptors that can be open before step j of st, when
\* it is started with one of pre and finished with one of post.
May(st, may, pre, post) ==
    /\ pre \subseteq may[1] /\ may[Len(st) + 1] \subseteq post
    /\ \A j \in 1 .. Len(st) : \A h \in may[j] :
          Cleans(st[j], h) /\ \A g : Passes(st[j], h, g) => g \in may[j + 1]

\* Started with one of pre open, st ends cleanly or leaves one of post open.
Leads(st, pre, post) == st \in Seq(OpeningStep) /\ \E may : May(st, may, pre, post)

LEMMA LeadsOne ==
    ASSUME NEW x \in OpeningStep, NEW pre, NEW post,
           \A h \in pre : Cleans(x, h) /\ \A g : Passes(x, h, g) => g \in post
    PROVE  Leads(<<x>>, pre, post)
<1> DEFINE may == [j \in 1 .. 2 |-> IF j = 1 THEN pre ELSE post]
           st == <<x>>
<1>1. st \in Seq(OpeningStep) /\ Len(st) = 1 /\ st[1] = x
  BY SMTT(30)
<1>2. may[1] = pre /\ may[2] = post
  BY SMTT(30)
<1>3. \A j \in 1 .. Len(st) : j = 1 /\ j + 1 = 2
  BY <1>1, SMTT(30)
<1>4. Len(st) + 1 = 2
  BY <1>1
<1> HIDE DEF st, may
<1>5. May(st, may, pre, post)
  <2>1. ASSUME NEW j \in 1 .. Len(st), NEW h \in may[j]
        PROVE  Cleans(st[j], h) /\ \A g : Passes(st[j], h, g) => g \in may[j + 1]
    BY <1>1, <1>2, <1>3, Zenon
  <2> QED
    BY <1>2, <1>4, <2>1, Zenon DEF May
<1>6. Leads(st, pre, post)
  BY <1>1, <1>5, Zenon DEF Leads
<1> QED
  BY <1>6, Zenon DEF st

\* One function calls the next.
LEMMA LeadsJoin ==
    ASSUME NEW s, NEW t, NEW pre, NEW mid, NEW post,
           Leads(s, pre, mid), Leads(t, mid, post)
    PROVE  Leads(s \o t, pre, post)
<1>1. s \in Seq(OpeningStep) /\ t \in Seq(OpeningStep)
  BY Zenon DEF Leads
<1>2. PICK a : May(s, a, pre, mid)
  BY Zenon DEF Leads
<1>3. PICK b : May(t, b, mid, post)
  BY Zenon DEF Leads
<1> DEFINE m == Len(s)
           n == Len(t)
           may == [j \in 1 .. m + n + 1 |-> IF j <= m THEN a[j] ELSE b[j - m]]
           st == s \o t
<1>4. m \in Nat /\ n \in Nat
  BY <1>1, SMTT(30)
<1>5. st \in Seq(OpeningStep) /\ Len(st) = m + n
      /\ (\A j \in 1 .. m : st[j] = s[j])
      /\ (\A j \in 1 .. n : st[m + j] = t[j])
  BY <1>1, SMTT(30)
<1>6. /\ \A j \in 1 .. m : may[j] = a[j]
      /\ \A j \in 1 .. n + 1 : may[m + j] = b[j]
  <2>1. ASSUME NEW j \in 1 .. m PROVE may[j] = a[j]
    BY <1>4 DEF may
  <2>2. ASSUME NEW j \in 1 .. n + 1 PROVE may[m + j] = b[j]
    <3>1. m + j \in 1 .. m + n + 1 /\ ~(m + j <= m) /\ (m + j) - m = j
      BY <1>4
    <3> QED
      BY <3>1, Zenon DEF may
  <2> QED
    BY <2>1, <2>2, Zenon
<1> HIDE DEF m, n, may, st
<1>7. mid \subseteq b[1] /\ a[m + 1] \subseteq mid /\ pre \subseteq a[1] /\ b[n + 1] \subseteq post
  BY <1>2, <1>3, Zenon DEF May, m, n
<1>8. may[m + 1] = b[1] /\ may[m + (n + 1)] = b[n + 1] /\ Len(st) + 1 = m + (n + 1)
  <2>1. 1 \in 1 .. n + 1 /\ n + 1 \in 1 .. n + 1 /\ Len(st) + 1 = m + (n + 1)
    BY <1>4, <1>5, SMTT(30)
  <2> QED
    BY <2>1, <1>6, Zenon
<1>9. pre \subseteq may[1]
  <2>1. CASE m = 0
    <3>1. m + 1 = 1
      BY <2>1
    <3> QED
      BY <3>1, <1>7, <1>8, Zenon
  <2>2. CASE m # 0
    <3>1. 1 \in 1 .. m
      BY <2>2, <1>4, SMTT(30)
    <3> QED
      BY <3>1, <1>6, <1>7, Zenon
  <2> QED
    BY <2>1, <2>2, Zenon
<1>10. ASSUME NEW j \in 1 .. Len(st), NEW h \in may[j]
       PROVE  Cleans(st[j], h) /\ \A g : Passes(st[j], h, g) => g \in may[j + 1]
  <2>1. CASE j \in 1 .. m
    <3>1. st[j] = s[j] /\ h \in a[j]
      BY <2>1, <1>5, <1>6, Zenon
    <3>2. Cleans(s[j], h) /\ \A g : Passes(s[j], h, g) => g \in a[j + 1]
      BY <2>1, <3>1, <1>2, ZenonT(30) DEF May, m
    <3>3. a[j + 1] \subseteq may[j + 1]
      <4>1. CASE j = m
        BY <4>1, <1>7, <1>8, Zenon
      <4>2. CASE j # m
        <5>1. j + 1 \in 1 .. m
          BY <2>1, <4>2, <1>4, SMTT(30)
        <5> QED
          BY <5>1, <1>6, Zenon
      <4> QED
        BY <4>1, <4>2, Zenon
    <3> QED
      BY <3>1, <3>2, <3>3, Zenon
  <2>2. CASE j \notin 1 .. m
    <3>1. PICK i \in 1 .. n : j = m + i /\ j + 1 = m + (i + 1) /\ i + 1 \in 1 .. n + 1 /\ i \in 1 .. n + 1
      <4>1. j - m \in 1 .. n /\ j = m + (j - m) /\ j + 1 = m + ((j - m) + 1)
            /\ (j - m) + 1 \in 1 .. n + 1 /\ j - m \in 1 .. n + 1
        BY <2>2, <1>4, <1>5, SMTT(30)
      <4> QED
        BY <4>1, ZenonT(30)
    <3>2. st[j] = t[i] /\ h \in b[i] /\ may[j + 1] = b[i + 1]
      BY <3>1, <1>5, <1>6, Zenon
    <3>3. Cleans(t[i], h) /\ \A g : Passes(t[i], h, g) => g \in b[i + 1]
      BY <3>2, <1>3, Zenon DEF May, n
    <3> QED
      BY <3>2, <3>3, Zenon
  <2> QED
    BY <2>1, <2>2, Zenon
<1>11. may[Len(st) + 1] \subseteq post
  BY <1>7, <1>8, Zenon
<1>12. May(st, may, pre, post)
  BY <1>9, <1>10, <1>11, Zenon DEF May
<1>13. Leads(st, pre, post)
  BY <1>5, <1>12, Zenon DEF Leads
<1> QED
  BY <1>13, Zenon DEF st

\* Steps each of which keeps to the sets in can.
LEMMA LeadsSteady ==
    ASSUME NEW st \in Seq(OpeningStep), NEW pre, NEW can, pre \subseteq can,
           \A j \in 1 .. Len(st) : \A h \in can :
              Cleans(st[j], h) /\ \A g : Passes(st[j], h, g) => g \in can
    PROVE  Leads(st, pre, can)
<1> DEFINE n == Len(st)
           may == [j \in 1 .. n + 1 |-> can]
<1>1. n \in Nat
  BY SMTT(30)
<1>2. 1 \in 1 .. n + 1 /\ n + 1 \in 1 .. n + 1
      /\ \A j \in 1 .. n : j \in 1 .. n + 1 /\ j + 1 \in 1 .. n + 1
  BY <1>1, SMTT(30)
<1>3. \A j \in 1 .. n + 1 : may[j] = can
  BY Zenon
<1> HIDE DEF may
<1>4. May(st, may, pre, can)
  BY <1>2, <1>3, ZenonT(30) DEF May
<1> QED
  BY <1>4, Zenon DEF Leads

\* Calls made while fds are open.
AllCalls(st) == st \in Seq(OpeningStep) /\ \A j \in 1 .. Len(st) : st[j] = Call

LEMMA StepRecord ==
    ASSUME NEW o \in Ops, NEW f \in Descriptors, NEW c \in SUBSET Descriptors
    PROVE  LET x == [op |-> o, fd |-> f, closes |-> c]
           IN  x \in OpeningStep /\ x.op = o /\ x.fd = f /\ x.closes = c
BY Zenon DEF OpeningStep

LEMMA IsStep ==
    /\ "call" \in Ops /\ "open" \in Ops /\ "try" \in Ops /\ "need" \in Ops
    /\ "" \in Descriptors /\ {} \in SUBSET Descriptors
BY Zenon DEF Ops, Descriptors

LEMMA CallIsStep ==
    /\ Call \in OpeningStep /\ Call.op = "call" /\ Call.fd = "" /\ Call.closes = {}
BY StepRecord, IsStep, Zenon DEF Call

LEMMA OpenIsStep ==
    ASSUME NEW fd \in Descriptors
    PROVE  Open(fd) \in OpeningStep /\ Open(fd).op = "open" /\ Open(fd).fd = fd /\ Open(fd).closes = {}
BY StepRecord, IsStep, Zenon DEF Open

LEMMA CallPasses ==
    ASSUME NEW x, x.op = "call", NEW h, x.closes = h
    PROVE  Cleans(x, h) /\ \A g : Passes(x, h, g) => g \in {h}
BY Zenon DEF Cleans, Passes

LEMMA OpenPasses ==
    ASSUME NEW x, x.op = "open", NEW h, x.closes = h
    PROVE  Cleans(x, h) /\ \A g : Passes(x, h, g) => g \in {h \cup {x.fd}}
BY Zenon DEF Cleans, Passes

LEMMA HoldingCalls ==
    ASSUME NEW st, AllCalls(st), NEW fds \in SUBSET Descriptors
    PROVE  Leads(Holding(fds, st), {fds}, {fds})
<1> DEFINE hs == Holding(fds, st)
           x == [op |-> "call", fd |-> "", closes |-> fds]
<1>1. st \in Seq(OpeningStep) /\ \A j \in 1 .. Len(st) : st[j] = Call
  BY Zenon DEF AllCalls
<1>2. Len(st) \in Nat /\ DOMAIN st = 1 .. Len(st)
  BY <1>1
<1>3. ASSUME NEW j \in 1 .. Len(st)
      PROVE  hs[j] = x
  <2>1. hs[j] = [st[j] EXCEPT !.closes = @ \cup fds] /\ st[j] = Call
    BY <1>1, <1>2, Zenon DEF Holding
  <2>2. hs[j] = [Call EXCEPT !.closes = @ \cup fds]
    BY <2>1, Zenon
  <2> HIDE DEF hs
  <2> QED
    BY <2>2, Zenon DEF Call, x
<1>4. hs = [j \in 1 .. Len(st) |-> hs[j]]
  BY <1>2, Zenon DEF Holding
<1>5. x \in OpeningStep /\ x.op = "call" /\ x.closes = fds
  BY StepRecord, IsStep, Zenon
<1> HIDE DEF hs, x
<1>6. hs \in Seq(OpeningStep) /\ Len(hs) = Len(st)
  <2>1. \A j \in 1 .. Len(st) : hs[j] \in OpeningStep
    BY <1>3, <1>5, Zenon
  <2> QED
    BY <1>2, <1>4, <2>1, SMTT(30)
<1>7. ASSUME NEW j \in 1 .. Len(hs)
      PROVE  hs[j].op = "call" /\ hs[j].closes = fds
  BY <1>3, <1>5, <1>6, Zenon
<1>8. \A j \in 1 .. Len(hs) : \A h \in {fds} :
          Cleans(hs[j], h) /\ \A g : Passes(hs[j], h, g) => g \in {fds}
  BY <1>7, CallPasses, Zenon
<1>9. Leads(hs, {fds}, {fds})
  BY <1>6, <1>8, LeadsSteady, Zenon
<1> QED
  BY <1>9, Zenon DEF hs

LEMMA HoldingOpen ==
    ASSUME NEW fd \in Descriptors, NEW fds \in SUBSET Descriptors
    PROVE  Leads(Holding(fds, <<Open(fd)>>), {fds}, {fds \cup {fd}})
<1> DEFINE x == [op |-> "open", fd |-> fd, closes |-> fds]
           hs == Holding(fds, <<Open(fd)>>)
<1>1. x \in OpeningStep /\ x.op = "open" /\ x.fd = fd /\ x.closes = fds
  BY StepRecord, IsStep, Zenon
<1>2. hs = <<x>>
  <2>1. [Open(fd) EXCEPT !.closes = @ \cup fds] = x
    BY DEF Open
  <2> HIDE DEF x
  <2> QED
    BY <2>1, SMTT(30) DEF Holding
<1> HIDE DEF x, hs
<1>3. \A h \in {fds} : Cleans(x, h) /\ \A g : Passes(x, h, g) => g \in {fds \cup {fd}}
  BY <1>1, OpenPasses, Zenon
<1>4. Leads(<<x>>, {fds}, {fds \cup {fd}})
  BY <1>1, <1>3, LeadsOne, Zenon
<1> QED
  BY <1>2, <1>4, Zenon DEF hs

LEMMA LeadsOpen ==
    ASSUME NEW fd \in Descriptors
    PROVE  Leads(<<Open(fd)>>, {{}}, {{fd}})
<1>1. \A h \in {{}} : Cleans(Open(fd), h) /\ \A g : Passes(Open(fd), h, g) => g \in {{fd}}
  <2>1. {} \cup {fd} = {fd}
    BY Zenon
  <2>2. Cleans(Open(fd), {}) /\ \A g : Passes(Open(fd), {}, g) => g \in {{} \cup {Open(fd).fd}}
    BY OpenIsStep, OpenPasses, Zenon
  <2>3. Open(fd).fd = fd
    BY OpenIsStep, Zenon
  <2> QED
    BY <2>1, <2>2, <2>3, Zenon
<1> QED
  BY <1>1, OpenIsStep, LeadsOne, Zenon

LEMMA LeadsCall == Leads(<<Call>>, {{}}, {{}})
<1>1. \A h \in {{}} : Cleans(Call, h) /\ \A g : Passes(Call, h, g) => g \in {{}}
  BY CallIsStep, CallPasses, Zenon
<1> QED
  BY <1>1, CallIsStep, LeadsOne, Zenon

LEMMA CallLists ==
    /\ AllCalls(<<Call>>)
    /\ AllCalls(<<Call, Call>>)
    /\ AllCalls(<<Call, Call, Call, Call>>)
    /\ AllCalls(<<Call, Call, Call, Call, Call, Call>>)
<1> DEFINE c == Call
<1>1. c \in OpeningStep
  BY CallIsStep, Zenon
<1> HIDE DEF c
<1>2. /\ <<c>> \in Seq(OpeningStep) /\ \A j \in 1 .. Len(<<c>>) : <<c>>[j] = c
      /\ <<c, c>> \in Seq(OpeningStep) /\ \A j \in 1 .. Len(<<c, c>>) : <<c, c>>[j] = c
  BY <1>1, SMTT(30)
<1>3. /\ <<c, c, c, c>> \in Seq(OpeningStep)
      /\ \A j \in 1 .. Len(<<c, c, c, c>>) : <<c, c, c, c>>[j] = c
  BY <1>1, SMTT(30)
<1>4. /\ <<c, c, c, c, c, c>> \in Seq(OpeningStep)
      /\ \A j \in 1 .. Len(<<c, c, c, c, c, c>>) : <<c, c, c, c, c, c>>[j] = c
  BY <1>1, SMTT(30)
<1> QED
  BY <1>2, <1>3, <1>4, Zenon DEF AllCalls, c

LEMMA Pair ==
    ASSUME NEW x, NEW y
    PROVE  <<x>> \o <<y>> = <<x, y>> /\ <<x, x, x>> \o <<x>> = <<x, x, x, x>>
<1>1. <<x>> \o <<y>> = <<x, y>>
  <2> DEFINE a == <<x>> \o <<y>>
             b == <<x, y>>
  <2>1. a \in Seq({x, y}) /\ Len(a) = 2 /\ a[1] = x /\ a[2] = y
    BY SMTT(30)
  <2>2. b \in Seq({x, y}) /\ Len(b) = 2 /\ b[1] = x /\ b[2] = y
    BY SMTT(30)
  <2> HIDE DEF a, b
  <2>3. a = b
    BY <2>1, <2>2, SMTT(30)
  <2> QED
    BY <2>3, Zenon DEF a, b
<1>2. <<x, x, x>> \o <<x>> = <<x, x, x, x>>
  <2> DEFINE a == <<x, x, x>> \o <<x>>
             b == <<x, x, x, x>>
  <2>1. a \in Seq({x}) /\ Len(a) = 4
    BY SMTT(30)
  <2>2. b \in Seq({x}) /\ Len(b) = 4
    BY SMTT(30)
  <2> HIDE DEF a, b
  <2>3. a = b
    BY <2>1, <2>2, SMTT(30)
  <2> QED
    BY <2>3, Zenon DEF a, b
<1> QED
  BY <1>1, <1>2, Zenon

LEMMA DescriptorNames ==
    /\ {"listen", "client", "peer", "can", "timer", "stop"} \subseteq Descriptors
    /\ \A f \in Descriptors : {f} \in SUBSET Descriptors
    /\ {"can", "timer"} \in SUBSET Descriptors
BY Zenon DEF Descriptors

\* A function that begins with a call, then opens fd.
LEMMA CallOpen ==
    ASSUME NEW fd \in Descriptors
    PROVE  Leads(<<Call, Open(fd)>>, {{}}, {{fd}})
<1>1. Leads(<<Call>> \o <<Open(fd)>>, {{}}, {{fd}})
  BY LeadsCall, LeadsOpen, LeadsJoin, Zenon
<1> QED
  BY <1>1, Pair, Zenon

LEMMA ListenLeads == Leads(listen_on, {{}}, {{"listen"}})
<1> DEFINE st == <<Call, Call, Call>> \o set_nonblocking
<1>1. AllCalls(st)
  <2>1. st = <<Call, Call, Call, Call>>
    BY Pair, Zenon DEF set_nonblocking
  <2> QED
    BY <2>1, CallLists, Zenon
<1> HIDE DEF st
<1>2. Leads(Holding({"listen"}, st), {{"listen"}}, {{"listen"}})
  BY <1>1, HoldingCalls, DescriptorNames, Zenon
<1>3. Leads(<<Open("listen")>>, {{}}, {{"listen"}})
  BY LeadsOpen, DescriptorNames, Zenon
<1> QED
  BY <1>2, <1>3, LeadsJoin, Zenon DEF listen_on, st

LEMMA ClientLeads == Leads(accept_nonblocking, {{}}, {{"client"}})
<1> DEFINE st == set_nonblocking \o set_nodelay
<1>1. AllCalls(st)
  <2>1. st = <<Call, Call>>
    BY Pair, Zenon DEF set_nonblocking, set_nodelay
  <2> QED
    BY <2>1, CallLists, Zenon
<1> HIDE DEF st
<1>2. Leads(Holding({"client"}, st), {{"client"}}, {{"client"}})
  BY <1>1, HoldingCalls, DescriptorNames, Zenon
<1>3. Leads(<<Open("client")>>, {{}}, {{"client"}})
  BY LeadsOpen, DescriptorNames, Zenon
<1> QED
  BY <1>2, <1>3, LeadsJoin, Zenon DEF accept_nonblocking, st

\* Every address may fail, and the first that does not is the one.
LEMMA ConnectLeads == Leads(connect_to, {{}}, {{"peer"}})
<1> DEFINE try == [op |-> "try", fd |-> "peer", closes |-> {}]
           need == [op |-> "need", fd |-> "peer", closes |-> {}]
           tries == [i \in 1 .. Addresses |-> try]
           can == {{}, {"peer"}}
<1>1. try \in OpeningStep /\ try.op = "try" /\ try.fd = "peer"
  BY StepRecord, IsStep, DescriptorNames, Zenon
<1>2. need \in OpeningStep /\ need.op = "need" /\ need.fd = "peer" /\ need.closes = {}
  BY StepRecord, IsStep, DescriptorNames, Zenon
<1> HIDE DEF try, need
<1>3. tries \in Seq(OpeningStep) /\ \A j \in 1 .. Len(tries) : tries[j] = try
  BY <1>1, OpeningAssumption, SMTT(30)
<1> HIDE DEF tries
<1>4. Leads(tries, {{}}, can)
  <2>1. ASSUME NEW h \in can
        PROVE  Cleans(try, h) /\ \A g : Passes(try, h, g) => g \in can
    BY <1>1, Zenon DEF Cleans, Passes
  <2>2. {{}} \subseteq can
    BY Zenon
  <2> QED
    BY <1>3, <2>1, <2>2, LeadsSteady, ZenonT(30)
<1>5. Leads(<<need>>, can, {{"peer"}})
  <2>1. ASSUME NEW h \in can
        PROVE  Cleans(need, h) /\ \A g : Passes(need, h, g) => g \in {{"peer"}}
    BY <1>2, Zenon DEF Cleans, Passes
  <2> QED
    BY <2>1, <1>2, LeadsOne, ZenonT(30)
<1>6. Leads(Holding({"peer"}, set_nodelay), {{"peer"}}, {{"peer"}})
  BY CallLists, HoldingCalls, DescriptorNames, Zenon DEF set_nodelay
<1> HIDE DEF can
<1>7. Leads(<<Call>> \o tries, {{}}, can)
  BY <1>4, LeadsCall, LeadsJoin, Zenon
<1>8. Leads((<<Call>> \o tries) \o <<need>>, {{}}, {{"peer"}})
  BY <1>5, <1>7, LeadsJoin, Zenon
<1>9. Leads(((<<Call>> \o tries) \o <<need>>) \o Holding({"peer"}, set_nodelay), {{}}, {{"peer"}})
  BY <1>6, <1>8, LeadsJoin, Zenon
<1> QED
  BY <1>9, Zenon DEF connect_to, tries, try, need

\* Every object: what its opening function leaves open is what its destructor
\* closes.
LEMMA ObjectsLead == \A o \in DOMAIN Steps : Leads(Steps[o], {{}}, {Closed[o]})
<1>1. Leads(CanSourceOpen, {{}}, {{"can"}})
  <2>1. Leads(<<Call, Open("can")>>, {{}}, {{"can"}})
    BY CallOpen, DescriptorNames, Zenon
  <2>2. Leads(Holding({"can"}, <<Call, Call, Call, Call, Call, Call>>), {{"can"}}, {{"can"}})
    BY CallLists, HoldingCalls, DescriptorNames, Zenon
  <2> QED
    BY <2>1, <2>2, LeadsJoin, Zenon DEF CanSourceOpen
<1>2. Leads(SyntheticSourceOpen, {{}}, {{"timer"}})
  <2>1. Leads(<<Call, Open("timer")>>, {{}}, {{"timer"}})
    BY CallOpen, DescriptorNames, Zenon
  <2>2. Leads(Holding({"timer"}, <<Call>>), {{"timer"}}, {{"timer"}})
    BY CallLists, HoldingCalls, DescriptorNames, Zenon
  <2> QED
    BY <2>1, <2>2, LeadsJoin, Zenon DEF SyntheticSourceOpen
<1>3. Leads(IngestCreate, {{}}, {{"stop"}})
  BY CallOpen, DescriptorNames, Zenon DEF IngestCreate
<1>4. Leads(Holding({"listen"}, <<Open("stop")>>), {{"listen"}}, {{"listen", "stop"}})
  <2>1. {"listen"} \cup {"stop"} = {"listen", "stop"}
    BY Zenon
  <2>2. Leads(Holding({"listen"}, <<Open("stop")>>), {{"listen"}}, {{"listen"} \cup {"stop"}})
    BY HoldingOpen, DescriptorNames, Zenon
  <2> QED
    BY <2>1, <2>2, Zenon
<1>5. Leads(ServerCreate, {{}}, {{"listen", "stop"}})
  BY <1>4, ListenLeads, LeadsJoin, Zenon DEF ServerCreate
<1>6. Leads(EgressCreate, {{}}, {{"listen", "stop"}})
  <2>1. Leads(<<Call>> \o listen_on, {{}}, {{"listen"}})
    BY LeadsCall, ListenLeads, LeadsJoin, Zenon
  <2> QED
    BY <2>1, <1>4, LeadsJoin, Zenon DEF EgressCreate
<1>7. Leads(FrameStreamConnect, {{}}, {{"peer"}})
  <2>1. Leads(Holding({"peer"}, set_nonblocking), {{"peer"}}, {{"peer"}})
    BY CallLists, HoldingCalls, DescriptorNames, Zenon DEF set_nonblocking
  <2> QED
    BY <2>1, ConnectLeads, LeadsJoin, Zenon DEF FrameStreamConnect
<1>8. Leads(GenOpen, {{}}, {{"can", "timer"}})
  <2>1. Leads(<<Call, Open("can")>>, {{}}, {{"can"}})
    BY CallOpen, DescriptorNames, Zenon
  <2>2. Leads(Holding({"can"}, <<Call, Call>>), {{"can"}}, {{"can"}})
    BY CallLists, HoldingCalls, DescriptorNames, Zenon
  <2>3. {"can"} \cup {"timer"} = {"can", "timer"}
    BY Zenon
  <2>4. Leads(Holding({"can"}, <<Open("timer")>>), {{"can"}}, {{"can"} \cup {"timer"}})
    BY HoldingOpen, DescriptorNames, Zenon
  <2>5. Leads(Holding({"can"}, <<Open("timer")>>), {{"can"}}, {{"can", "timer"}})
    BY <2>3, <2>4, Zenon
  <2>6. Leads(Holding({"can", "timer"}, <<Call>>), {{"can", "timer"}}, {{"can", "timer"}})
    BY CallLists, HoldingCalls, DescriptorNames, Zenon
  <2>7. Leads(<<Call, Open("can")>> \o Holding({"can"}, <<Call, Call>>), {{}}, {{"can"}})
    BY <2>1, <2>2, LeadsJoin, Zenon
  <2>8. Leads((<<Call, Open("can")>> \o Holding({"can"}, <<Call, Call>>))
                 \o Holding({"can"}, <<Open("timer")>>), {{}}, {{"can", "timer"}})
    BY <2>5, <2>7, LeadsJoin, ZenonT(30)
  <2> QED
    BY <2>6, <2>8, LeadsJoin, Zenon DEF GenOpen
<1>9. /\ Steps["CanSource"] = CanSourceOpen /\ Steps["SyntheticSource"] = SyntheticSourceOpen
      /\ Steps["Ingest"] = IngestCreate /\ Steps["Server"] = ServerCreate
      /\ Steps["Egress"] = EgressCreate /\ Steps["FrameStream"] = FrameStreamConnect
      /\ Steps["Gen"] = GenOpen /\ Steps["Client"] = accept_nonblocking
  BY Zenon DEF Steps
<1>10. /\ Closed["CanSource"] = {"can"} /\ Closed["SyntheticSource"] = {"timer"}
       /\ Closed["Ingest"] = {"stop"} /\ Closed["Server"] = {"listen", "stop"}
       /\ Closed["Egress"] = {"listen", "stop"} /\ Closed["FrameStream"] = {"peer"}
       /\ Closed["Gen"] = {"can", "timer"} /\ Closed["Client"] = {"client"}
  BY Zenon DEF Closed
<1>11. DOMAIN Steps = {"CanSource", "SyntheticSource", "Ingest", "Server", "Egress",
                       "FrameStream", "Gen", "Client"}
  BY Zenon DEF Steps
<1> QED
  BY <1>1, <1>2, <1>3, <1>5, <1>6, <1>7, <1>8, <1>9, <1>10, <1>11, ClientLeads, Zenon

MayBeOpen(o) == CHOOSE may : May(Steps[o], may, {{}}, {Closed[o]})

LEMMA MayBeOpenIs ==
    ASSUME NEW o \in DOMAIN Steps
    PROVE  May(Steps[o], MayBeOpen(o), {{}}, {Closed[o]})
           /\ Len(Steps[o]) \in Nat /\ DOMAIN Steps[o] = 1 .. Len(Steps[o])
<1>1. Leads(Steps[o], {{}}, {Closed[o]})
  BY ObjectsLead, Zenon
<1>2. Steps[o] \in Seq(OpeningStep)
  BY <1>1, Zenon DEF Leads
<1>3. Len(Steps[o]) \in Nat /\ DOMAIN Steps[o] = 1 .. Len(Steps[o])
  BY <1>2, SMTT(30)
<1> QED
  BY <1>1, <1>3, Zenon DEF Leads, MayBeOpen

\* NoLeak says nothing of a function that is still running: what is open before
\* each of its steps is what that step closes when it fails, and at the end what
\* the destructor closes.
OpeningInv ==
    /\ object \in DOMAIN Steps
    /\ opened \in {"not yet", "failed", "made", "destroyed"}
    /\ bad_close = FALSE
    /\ opened = "not yet" =>
          step \in 1 .. Len(Steps[object]) + 1 /\ held \in MayBeOpen(object)[step]
    /\ opened = "made" => held = Closed[object]
    /\ opened \in {"failed", "destroyed"} => held = {}

LEMMA Positions ==
    \A n \in Nat :
        /\ 1 \in 1 .. n + 1
        /\ \A j \in 1 .. n : j + 1 \in 1 .. n + 1
        /\ \A j \in 1 .. n + 1 : j \in 1 .. n \/ j = n + 1
OBVIOUS

LEMMA OpeningInitial == OpeningInit => OpeningInv
<1> SUFFICES ASSUME OpeningInit PROVE OpeningInv
  BY Zenon
<1>1. object \in DOMAIN Steps /\ step = 1 /\ held = {} /\ opened = "not yet" /\ bad_close = FALSE
  BY Zenon DEF OpeningInit
<1>2. 1 \in 1 .. Len(Steps[object]) + 1
  BY <1>1, Positions, MayBeOpenIs, Zenon
<1>3. {} \in MayBeOpen(object)[1]
  BY <1>1, MayBeOpenIs, Zenon DEF May
<1> QED
  BY <1>1, <1>2, <1>3, Zenon DEF OpeningInv

\* What one step does to what is open.
LEMMA ThisStep ==
    ASSUME OpeningInv, opened = "not yet", step \in DOMAIN Steps[object]
    PROVE  /\ Cleans(This, held)
           /\ \A g : Passes(This, held, g) => g \in MayBeOpen(object)[step + 1]
           /\ step + 1 \in 1 .. Len(Steps[object]) + 1
<1>1. object \in DOMAIN Steps /\ held \in MayBeOpen(object)[step]
  BY Zenon DEF OpeningInv
<1>2. Len(Steps[object]) \in Nat /\ step \in 1 .. Len(Steps[object])
  BY <1>1, MayBeOpenIs, Zenon
<1>3. step + 1 \in 1 .. Len(Steps[object]) + 1
  BY <1>2, Positions, Zenon
<1> QED
  BY <1>1, <1>2, <1>3, MayBeOpenIs, Zenon DEF May, This

LEMMA SucceedKeeps == ASSUME OpeningInv, Succeed PROVE OpeningInv'
<1>1. /\ opened = "not yet" /\ step \in DOMAIN Steps[object]
      /\ object' = object /\ opened' = opened /\ bad_close' = bad_close /\ step' = step + 1
  BY Zenon DEF Succeed
<1>2. Passes(This, held, held')
  BY Zenon DEF Succeed, Passes
<1>3. held' \in MayBeOpen(object)[step + 1] /\ step + 1 \in 1 .. Len(Steps[object]) + 1
  BY <1>1, <1>2, ThisStep, Zenon
<1> QED
  BY <1>1, <1>3, Zenon DEF OpeningInv

LEMMA FailKeeps == ASSUME OpeningInv, Fail PROVE OpeningInv'
<1>1. opened = "not yet" /\ step \in DOMAIN Steps[object] /\ object' = object
  BY Zenon DEF Fail
<1>2. CASE This.op = "try"
  <2>1. /\ step' = step + 1 /\ held' = held /\ opened' = opened /\ bad_close' = bad_close
        /\ This.fd \notin held
    BY <1>2, Zenon DEF Fail, Skips
  <2>2. Passes(This, held, held')
    BY <1>2, <2>1, Zenon DEF Passes
  <2>3. held' \in MayBeOpen(object)[step + 1] /\ step + 1 \in 1 .. Len(Steps[object]) + 1
    BY <1>1, <2>2, ThisStep, Zenon
  <2> QED
    BY <1>1, <2>1, <2>3, Zenon DEF OpeningInv
<1>3. CASE This.op # "try"
  <2>1. close(This.closes) /\ opened' = "failed" /\ (This.op = "need" => This.fd \notin held)
    BY <1>3, Zenon DEF Fail
  <2>2. This.closes = held
    BY <1>1, <1>3, <2>1, ThisStep, Zenon DEF Cleans
  <2>3. held' = {} /\ bad_close' = FALSE
    <3>1. held' = held \ held /\ bad_close' = (bad_close \/ ~(held \subseteq held)) /\ bad_close = FALSE
      BY <2>1, <2>2, Zenon DEF close, OpeningInv
    <3> QED
      BY <3>1, Zenon
  <2> QED
    BY <1>1, <2>1, <2>3, Zenon DEF OpeningInv
<1> QED
  BY <1>2, <1>3, Zenon

LEMMA MadeKeeps == ASSUME OpeningInv, Made PROVE OpeningInv'
<1>1. /\ opened = "not yet" /\ step \notin DOMAIN Steps[object] /\ opened' = "made"
      /\ object' = object /\ held' = held /\ bad_close' = bad_close
  BY Zenon DEF Made
<1>2. /\ object \in DOMAIN Steps /\ step \in 1 .. Len(Steps[object]) + 1
      /\ held \in MayBeOpen(object)[step] /\ bad_close = FALSE
  BY <1>1, Zenon DEF OpeningInv
<1>3. Len(Steps[object]) \in Nat /\ DOMAIN Steps[object] = 1 .. Len(Steps[object])
  BY <1>2, MayBeOpenIs, Zenon
<1>4. step = Len(Steps[object]) + 1
  BY <1>1, <1>2, <1>3, Positions, Zenon
<1>5. held = Closed[object]
  BY <1>2, <1>4, MayBeOpenIs, Zenon DEF May
<1> QED
  BY <1>1, <1>2, <1>5, Zenon DEF OpeningInv

LEMMA DestructKeeps == ASSUME OpeningInv, Destruct PROVE OpeningInv'
<1>1. opened' = "destroyed" /\ object' = object /\ close(held)
      /\ object \in DOMAIN Steps /\ bad_close = FALSE
  BY Zenon DEF Destruct, OpeningInv
<1>2. held' = held \ held /\ bad_close' = (bad_close \/ ~(held \subseteq held))
  BY <1>1, Zenon DEF close
<1>3. held' = {} /\ bad_close' = FALSE
  BY <1>1, <1>2, Zenon
<1> QED
  BY <1>1, <1>3, Zenon DEF OpeningInv

LEMMA OpeningSteps == OpeningInv /\ [OpeningNext]_openingVars => OpeningInv'
<1> SUFFICES ASSUME OpeningInv, [OpeningNext]_openingVars PROVE OpeningInv'
  BY Zenon
<1>1. CASE UNCHANGED openingVars
  BY <1>1, Zenon DEF openingVars, OpeningInv
<1> QED
  BY <1>1, SucceedKeeps, FailKeeps, MadeKeeps, DestructKeeps, Zenon DEF OpeningNext

\* For every number of addresses a host name may have: whichever system call of
\* whichever opening function fails, everything opened before it is closed, once;
\* and a destructor closes exactly what its object's opening function opened.
THEOREM NothingLeaks == OpeningSpec => []NoLeak
<1>1. OpeningInv => NoLeak
  BY Zenon DEF OpeningInv, NoLeak, OpeningDone
<1> QED
  BY <1>1, OpeningInitial, OpeningSteps, PTL DEF OpeningSpec

=============================================================================
