---------------------------- MODULE IngestProofs ----------------------------
(***************************************************************************)
(* Proofs about Ingest: in either topology frames keep the order of their  *)
(* source, the sinks of topology A hold runs of one stamped sequence, and  *)
(* what a socket buffer held when stop() was called is not thrown away.    *)
(***************************************************************************)
EXTENDS Ingest, StreamLemmas

----------------------------------------------------------------------------
(* The inductive invariant.                                                *)

\* The frames in a buffer are in the order of their arrival.
Sorted(b) ==
    \A m, n \in DOMAIN b : m < n /\ b[m] # Runt /\ b[n] # Runt => b[m] < b[n]

\* They arrived by hi, and after the a-th message.
UpTo(b, hi) == \A n \in DOMAIN b : b[n] <= hi
After(b, a) == \A n \in DOMAIN b : b[n] # Runt => a < b[n]

\* Message a is among those the next drain takes.
Held(b, a) == \E k \in DOMAIN b : k <= DrainBatch /\ b[k] = a

BuffersInv ==
    /\ arrived \in [Sources -> Nat] /\ buf \in [Sources -> Seq(Nat)]
    /\ joining \in BOOLEAN /\ event = joining /\ owed \in [Sources -> Seq(Nat)]
    /\ \A s \in Sources : Sorted(buf[s]) /\ UpTo(buf[s], arrived[s])

\* What a stop owes to source s.
Owing(s) ==
    IF joining /\ Len(owed[s]) <= DrainBatch THEN Range(owed[s]) \ {Runt} ELSE {}

Stamped == [seq : Nat, src : Sources, nth : Nat]

FanOutTypes ==
    /\ pc \in {"poll", "scan", "push", "exited"}
    /\ revents \in SUBSET Sources /\ stop_seen \in BOOLEAN
    /\ i \in Nat /\ i >= 1 /\ j \in Sinks
    /\ batch \in Seq(Stamped) /\ next_seq \in Nat
    /\ sink \in [Sinks -> Seq(Stamped)] /\ log \in Seq(Stamped)

LogInv ==
    /\ Len(log) = next_seq
    /\ DenseAndFifo
    /\ \A n \in DOMAIN log :
          /\ log[n].nth <= arrived[log[n].src]
          /\ After(buf[log[n].src], log[n].nth)

\* x is the run of l that ends with its g-th element.
Lies(x, l, c) ==
    c + Len(x) <= Len(l) /\ \A k \in 1 .. Len(x) : x[k] = l[c + k]
RunOf(x, l, g) == \E c \in Nat : g = c + Len(x) /\ Lies(x, l, c)

Given(q) == IF pc = "push" /\ j <= q THEN Len(log) - Len(batch) ELSE Len(log)

SinkInv ==
    /\ pc # "push" => batch = <<>>
    /\ pc = "push" => i \in Sources
    /\ RunOf(batch, log, Len(log))
    /\ \A q \in Sinks : RunOf(sink[q], log, Given(q))

Logged(s, a) == \E n \in DOMAIN log : log[n].src = s /\ log[n].nth = a

\* The scan has passed source s, or will not stop at it.
Passed(s) ==
    \/ pc = "exited"
    \/ pc \in {"scan", "push"} /\ (s < i \/ s \notin revents)
    \/ pc = "push" /\ s = i

FanOutStop ==
    /\ stop_seen => joining
    /\ pc = "exited" => stop_seen
    /\ \A s \in Sources : \A a \in Owing(s) :
          /\ Logged(s, a) \/ Held(buf[s], a)
          /\ stop_seen /\ Passed(s) => Logged(s, a)

FanOutInv == FanOutTypes /\ LogInv /\ SinkInv /\ FanOutStop

RingTypes ==
    /\ rpc \in [Sources -> {"poll", "drain", "ticket", "write", "exited"}]
    /\ rstop \in [Sources -> BOOLEAN] /\ run \in [Sources -> Seq(Nat)]
    /\ ticket \in [Sources -> Nat] /\ write_pos \in Nat
    /\ DOMAIN cell \in SUBSET Nat
    /\ \A p \in DOMAIN cell : cell[p] \in [src : Sources, nth : Nat]

\* A thread's batch: frames in order, later than what it has published.
RunInv ==
    \A s \in Sources :
        /\ rpc[s] \in {"poll", "drain", "exited"} => run[s] = <<>>
        /\ Sorted(run[s]) /\ UpTo(run[s], arrived[s])
        /\ \A n \in DOMAIN run[s] : run[s][n] # Runt /\ After(buf[s], run[s][n])

CellInv ==
    \A p \in DOMAIN cell :
        LET s == cell[p].src
            a == cell[p].nth
        IN  /\ a <= arrived[s] /\ After(buf[s], a) /\ After(run[s], a)
            /\ rpc[s] = "write" /\ run[s] # <<>> => p < ticket[s]

\* Position p is claimed by the thread of source s and not written yet.
Claimed(s, p) ==
    rpc[s] = "write" /\ ticket[s] <= p /\ p < ticket[s] + Len(run[s])

\* Every position handed out is published or claimed by one thread.
PlacesInv ==
    /\ PerSourceFifo
    /\ \A p \in Nat :
          p < write_pos <=> p \in DOMAIN cell \/ \E s \in Sources : Claimed(s, p)
    /\ \A s \in Sources, p \in Nat : Claimed(s, p) =>
          /\ p \notin DOMAIN cell
          /\ \A t \in Sources : Claimed(t, p) => t = s

Stored(s, a) == \E p \in DOMAIN cell : cell[p] = [src |-> s, nth |-> a]
InRun(s, a) == \E n \in DOMAIN run[s] : run[s][n] = a

RingStop ==
    \A s \in Sources :
        /\ rstop[s] => joining
        /\ rpc[s] = "exited" => joining
        /\ \A a \in Owing(s) :
              /\ Stored(s, a) \/ InRun(s, a) \/ Held(buf[s], a)
              /\ \/ rpc[s] = "exited"
                 \/ rpc[s] \in {"ticket", "write"} /\ rstop[s]
                 => Stored(s, a) \/ InRun(s, a)

RingInv == RingTypes /\ RunInv /\ CellInv /\ PlacesInv /\ RingStop

IngestInv ==
    /\ BuffersInv
    /\ topology \in {"queue", "ring"}
    /\ topology = "queue" => FanOutInv /\ RingIngestInit
    /\ topology = "ring" => RingInv /\ FanOutInit

----------------------------------------------------------------------------
(* What a drain takes.                                                     *)

LEMMA KeepType ==
    ASSUME NEW out \in Seq(Nat), NEW a \in Nat
    PROVE  KeepFrame(out, a) \in Seq(Nat)
BY DEF KeepFrame

\* The frames handed over after each message of a batch.
LEMMA KeepTrace ==
    ASSUME NEW msgs \in Seq(Nat)
    PROVE  \E g \in [0 .. Len(msgs) -> Seq(Nat)] :
              /\ g[0] = <<>> /\ g[Len(msgs)] = ForEach(KeepFrame, <<>>, msgs)
              /\ \A k \in 1 .. Len(msgs) : g[k] = KeepFrame(g[k - 1], msgs[k])
<1>0. PICK n \in Nat : Len(msgs) = n
  OBVIOUS
<1> DEFINE none == <<>>
           Fits(f) == f = [k \in 0 .. n |-> IF k = 0 THEN none
                                            ELSE KeepFrame(f[k - 1], msgs[k])]
           loop == CHOOSE f : Fits(f)
           G == [p \in Seq(Nat) \X (1 .. n) |-> KeepFrame(p[1], msgs[p[2]])]
           S == {k \in 0 .. n : loop[k] \in Seq(Nat)}
<1>1. /\ G \in [Seq(Nat) \X (1 .. n) -> Seq(Nat)]
      /\ \A u \in Seq(Nat), k \in 1 .. n : G[<<u, k>>] = KeepFrame(u, msgs[k])
  <2>1. \A p \in Seq(Nat) \X (1 .. n) : p[1] \in Seq(Nat) /\ msgs[p[2]] \in Nat
    BY <1>0
  <2> QED BY <1>0, <2>1, KeepType, Zenon
<1>e. none \in Seq(Nat)
  OBVIOUS
<1> HIDE DEF G, none
<1>2. PICK f \in [0 .. n -> Seq(Nat)] : Recursion(f, n, Seq(Nat), none, G)
  BY <1>e, <1>1, LoopSolution, Zenon
<1>3. Fits(f)
  BY <1>1, <1>2, SMTT(30) DEF Recursion
<1>4. Fits(loop)
  BY <1>3, Zenon
<1>5. ForEach(KeepFrame, <<>>, msgs) = loop[n]
  BY <1>0, Zenon DEF ForEach, none
<1> HIDE DEF loop
<1>6. loop[0] = none /\ \A k \in 1 .. n : loop[k] = KeepFrame(loop[k - 1], msgs[k])
  BY <1>4, SMTT(30)
<1>7. 0 \in S /\ \A k \in 1 .. n : k - 1 \in S => k \in S
  <2>1. 0 \in S
    BY <1>e, <1>6
  <2>2. ASSUME NEW k \in 1 .. n, k - 1 \in S PROVE k \in S
    <3>1. msgs[k] \in Nat /\ loop[k - 1] \in Seq(Nat) /\ k \in 0 .. n
      BY <1>0, <2>2, SMTT(30)
    <3> QED BY <1>6, <3>1, KeepType, Zenon
  <2> QED BY <2>1, <2>2, Zenon
<1>8. \A k \in 0 .. n : k \in S
  <2> HIDE DEF S
  <2> QED BY <1>7, Upto, Zenon
<1>9. loop \in [0 .. n -> Seq(Nat)]
  BY <1>4, <1>8, Zenon
<1> QED BY <1>0, <1>5, <1>6, <1>9, Zenon DEF none

\* out holds the frames among the first k messages of b, in order.
KeptOf(b, k, out) ==
    /\ \A m, n \in DOMAIN out : m < n => out[m] < out[n]
    /\ \A n \in DOMAIN out : \E x \in 1 .. k : b[x] = out[n] /\ out[n] # Runt
    /\ \A x \in 1 .. k : b[x] # Runt => \E n \in DOMAIN out : out[n] = b[x]

LEMMA OneMore == \A w \in Nat : \A n \in 1 .. w + 1 : n \in 1 .. w \/ n = w + 1
OBVIOUS

LEMMA KeptStep ==
    ASSUME NEW b \in Seq(Nat), Sorted(b), NEW k \in 1 .. Len(b),
           NEW out \in Seq(Nat), KeptOf(b, k - 1, out)
    PROVE  KeptOf(b, k, KeepFrame(out, b[k]))
<1>0. PICK w \in Nat : w = Len(out) /\ DOMAIN out = 1 .. w
  OBVIOUS
<1>1. /\ b[k] \in Nat /\ k \in Nat
      /\ \A x \in 1 .. k : x \in 1 .. k - 1 \/ x = k
      /\ \A x \in 1 .. k - 1 : x \in 1 .. k /\ x < k /\ x \in DOMAIN b
      /\ k \in 1 .. k /\ k \in DOMAIN b
  OBVIOUS
<1>2. CASE b[k] = Runt
  <2>1. KeepFrame(out, b[k]) = out
    BY <1>2, Zenon DEF KeepFrame
  <2> QED BY <1>1, <1>2, <2>1, Zenon DEF KeptOf
<1>3. CASE b[k] # Runt
  <2> DEFINE up == Append(out, b[k])
  <2>1. KeepFrame(out, b[k]) = up
    BY <1>3, Zenon DEF KeepFrame
  <2>2. /\ DOMAIN up = 1 .. w + 1 /\ up[w + 1] = b[k]
        /\ \A n \in 1 .. w : up[n] = out[n] /\ out[n] \in Nat
    BY <1>0, <1>1, SMTT(30)
  <2> HIDE DEF up
  <2>3. \A n \in 1 .. w : out[n] < b[k]
    <3> SUFFICES ASSUME NEW n \in 1 .. w PROVE out[n] < b[k]
      BY Zenon
    <3>1. PICK x \in 1 .. k - 1 : b[x] = out[n] /\ out[n] # Runt
      BY <1>0, Zenon DEF KeptOf
    <3> QED BY <1>1, <1>3, <3>1, Zenon DEF Sorted
  <2>4. \A m, n \in DOMAIN up : m < n => up[m] < up[n]
    <3> SUFFICES ASSUME NEW m \in DOMAIN up, NEW n \in DOMAIN up, m < n
                 PROVE  up[m] < up[n]
      BY Zenon
    <3>1. m \in 1 .. w /\ (n \in 1 .. w \/ n = w + 1)
      BY <2>2, SMTT(30)
    <3> QED BY <1>0, <2>2, <2>3, <3>1, Zenon DEF KeptOf
  <2>5. \A n \in DOMAIN up : \E x \in 1 .. k : b[x] = up[n] /\ up[n] # Runt
    <3> SUFFICES ASSUME NEW n \in DOMAIN up
                 PROVE  \E x \in 1 .. k : b[x] = up[n] /\ up[n] # Runt
      BY Zenon
    <3>0. n \in 1 .. w + 1
      BY <2>2, Zenon
    <3>1. n \in 1 .. w \/ n = w + 1
      BY <3>0, OneMore, Zenon
    <3>2. CASE n = w + 1
      BY <1>1, <1>3, <2>2, <3>2, Zenon
    <3>3. CASE n \in 1 .. w
      BY <1>0, <1>1, <2>2, <3>3, SMTT(30) DEF KeptOf
    <3> QED BY <3>1, <3>2, <3>3, Zenon
  <2>6. \A x \in 1 .. k : b[x] # Runt => \E n \in DOMAIN up : up[n] = b[x]
    <3> SUFFICES ASSUME NEW x \in 1 .. k, b[x] # Runt
                 PROVE  \E n \in DOMAIN up : up[n] = b[x]
      BY Zenon
    <3>0. w + 1 \in DOMAIN up /\ \A n \in 1 .. w : n \in DOMAIN up
      BY <2>2
    <3>1. CASE x = k
      BY <2>2, <3>0, <3>1, Zenon
    <3>2. CASE x \in 1 .. k - 1
      BY <1>0, <2>2, <3>0, <3>2, SMTT(30) DEF KeptOf
    <3> QED BY <1>1, <3>1, <3>2, Zenon
  <2> QED BY <2>1, <2>4, <2>5, <2>6, Zenon DEF KeptOf
<1> QED BY <1>2, <1>3, Zenon

\* The e elements after the first d.
LEMMA PieceElements ==
    ASSUME NEW T, NEW b \in Seq(T), NEW d \in Nat, NEW e \in Nat, d + e <= Len(b)
    PROVE  LET r == SubSeq(b, d + 1, d + e)
           IN  r \in Seq(T) /\ Len(r) = e /\ \A k \in 1 .. e : r[k] = b[d + k]
OBVIOUS

IsPiece(r, b, d, e) == r = SubSeq(b, d + 1, d + e) /\ d + e <= Len(b)
PieceOf(T, r, b, d, e) ==
    r \in Seq(T) /\ Len(r) = e /\ \A k \in 1 .. e : r[k] = b[d + k]

LEMMA NamedPiece ==
    ASSUME NEW r, NEW b, NEW d, NEW e, IsPiece(r, b, d, e),
           NEW T, b \in Seq(T), d \in Nat, e \in Nat
    PROVE  PieceOf(T, r, b, d, e)
BY PieceElements DEF IsPiece, PieceOf

\* f holds the frames that a drain of buffer b hands over, r is left in it.
Split(b, f, r) ==
    /\ f \in Seq(Nat) /\ r \in Seq(Nat) /\ Sorted(f) /\ Sorted(r)
    /\ \A n \in DOMAIN f : f[n] # Runt /\ After(r, f[n])
    /\ \A n \in DOMAIN f : \E x \in DOMAIN b : b[x] = f[n]
    /\ \A n \in DOMAIN r : \E x \in DOMAIN b : b[x] = r[n]
    /\ \A a : a # Runt /\ Held(b, a) => \E n \in DOMAIN f : f[n] = a

LEMMA DrainSplits ==
    ASSUME BuffersInv, NEW s \in Sources
    PROVE  Split(buf[s], DrainedFrames(s), Undrained(s))
<1>1. PICK b \in Seq(Nat) : b = buf[s] /\ Sorted(b)
  BY Zenon DEF BuffersInv
<1>2. PICK len \in Nat : len = Len(b) /\ DOMAIN b = 1 .. len
  OBVIOUS
<1>3. PICK d \in Nat : /\ d = Drained(s) /\ d <= len
                       /\ \A k \in 1 .. len : k <= DrainBatch => k <= d
  <2>1. DrainBatch \in Nat
    BY SourcesAssumption, Zenon
  <2>2. Drained(s) = IF len < DrainBatch THEN len ELSE DrainBatch
    BY <1>1, <1>2, Zenon DEF Drained
  <2>3. CASE len < DrainBatch
    BY <2>2, <2>3
  <2>4. CASE ~(len < DrainBatch)
    BY <2>1, <2>2, <2>4
  <2> QED BY <2>3, <2>4, Zenon
<1>e. PICK e \in Nat : len = d + e
  <2>1. len - d \in Nat /\ len = d + (len - d)
    BY <1>3
  <2> QED BY <2>1, Zenon
<1> DEFINE f == DrainedFrames(s)
           msgs == SubSeq(b, 1, d)
           r == SubSeq(b, d + 1, d + e)
<1>4. /\ msgs \in Seq(Nat) /\ Len(msgs) = d
      /\ \A k \in 1 .. d : msgs[k] = b[k]
  BY <1>2, <1>3, SMTT(30)
<1>5. f = ForEach(KeepFrame, <<>>, msgs) /\ Undrained(s) = r
  BY <1>1, <1>2, <1>3, <1>e, Zenon DEF DrainedFrames, Undrained
<1>6. /\ r \in Seq(Nat) /\ Len(r) = e /\ DOMAIN r = 1 .. e
      /\ \A k \in 1 .. e : r[k] = b[d + k]
  <2>1. d + e <= Len(b)
    BY <1>2, <1>e
  <2>2. r \in Seq(Nat) /\ Len(r) = e /\ \A k \in 1 .. e : r[k] = b[d + k]
    BY <2>1, PieceElements, ZenonT(30)
  <2> HIDE DEF r
  <2> QED BY <2>2
<1> HIDE DEF f, msgs, r
<1>7. PICK g \in [0 .. d -> Seq(Nat)] :
         /\ g[0] = <<>> /\ g[d] = f
         /\ \A k \in 1 .. d : g[k] = KeepFrame(g[k - 1], b[k])
  BY <1>4, <1>5, KeepTrace, ZenonT(30)
<1> DEFINE S == {k \in 0 .. d : KeptOf(b, k, g[k])}
<1>8. 0 \in S
  <2>1. KeptOf(b, 0, <<>>)
    BY DEF KeptOf
  <2> QED BY <1>7, <2>1
<1>9. ASSUME NEW k \in 1 .. d, k - 1 \in S PROVE k \in S
  <2>1. k \in 1 .. Len(b) /\ k - 1 \in 0 .. d /\ k \in 0 .. d
    BY <1>2, <1>3, SMTT(30)
  <2>2. g[k - 1] \in Seq(Nat) /\ KeptOf(b, k - 1, g[k - 1])
    BY <1>9, <2>1, Zenon
  <2>3. KeptOf(b, k, KeepFrame(g[k - 1], b[k]))
    BY <1>1, <2>1, <2>2, KeptStep, Zenon
  <2> QED BY <1>7, <2>1, <2>3, Zenon
<1>10. \A k \in 0 .. d : k \in S
  <2> HIDE DEF S
  <2> QED BY <1>8, <1>9, Upto, Zenon
<1>11. f \in Seq(Nat) /\ KeptOf(b, d, f)
  BY <1>7, <1>10
<1> HIDE DEF S
<1>12. Sorted(f)
  BY <1>11, Zenon DEF KeptOf, Sorted
<1>13. Sorted(r)
  <2> SUFFICES ASSUME NEW m \in DOMAIN r, NEW n \in DOMAIN r, m < n,
                      r[m] # Runt, r[n] # Runt
               PROVE  r[m] < r[n]
    BY Zenon DEF Sorted
  <2>0. m \in 1 .. e /\ n \in 1 .. e
    BY <1>6, Zenon
  <2>1. d + m < d + n /\ d + m \in 1 .. d + e /\ d + n \in 1 .. d + e
    BY <2>0, SMTT(30)
  <2>2. d + m \in DOMAIN b /\ d + n \in DOMAIN b
    BY <1>2, <1>e, <2>1, Zenon
  <2> QED BY <1>1, <1>6, <2>0, <2>1, <2>2, Zenon DEF Sorted
<1>14. ASSUME NEW n \in DOMAIN f
       PROVE  f[n] # Runt /\ After(r, f[n]) /\ \E x \in DOMAIN b : b[x] = f[n]
  <2>1. PICK x \in 1 .. d : b[x] = f[n] /\ f[n] # Runt
    BY <1>11, Zenon DEF KeptOf
  <2>2. x \in DOMAIN b
    BY <1>2, <1>3, SMTT(30)
  <2>3. ASSUME NEW m \in DOMAIN r, r[m] # Runt PROVE f[n] < r[m]
    <3>0. m \in 1 .. e
      BY <1>6, Zenon
    <3>1. x < d + m /\ d + m \in DOMAIN b
      <4>1. x \in Nat /\ x <= d /\ m \in Nat /\ 1 <= m /\ m <= e
        BY <3>0
      <4> QED BY <1>2, <1>e, <4>1, SMTT(30)
    <3> QED BY <1>1, <1>6, <2>1, <2>2, <2>3, <3>1, Zenon DEF Sorted
  <2> QED BY <2>1, <2>2, <2>3, Zenon DEF After
<1>15. ASSUME NEW n \in DOMAIN r PROVE \E x \in DOMAIN b : b[x] = r[n]
  <2>0. n \in 1 .. e
    BY <1>6, Zenon
  <2>1. d + n \in DOMAIN b
    BY <1>2, <1>e, <2>0, SMTT(30)
  <2> QED BY <1>6, <2>0, <2>1, Zenon
<1>16. ASSUME NEW a, a # Runt, Held(b, a) PROVE \E n \in DOMAIN f : f[n] = a
  <2>1. PICK k \in 1 .. len : k <= DrainBatch /\ b[k] = a
    BY <1>2, <1>16, Zenon DEF Held
  <2>2. k \in 1 .. d
    BY <1>3, <2>1, SMTT(30)
  <2> QED BY <1>11, <1>16, <2>1, <2>2, Zenon DEF KeptOf
<1>17. Split(b, f, r)
  BY <1>6, <1>11, <1>12, <1>13, <1>14, <1>15, <1>16, Zenon DEF Split
<1> QED BY <1>1, <1>5, <1>17, Zenon DEF f

----------------------------------------------------------------------------
(* Runs of the stamped sequence.                                           *)

LEMMA Joining ==
    ASSUME NEW T, NEW s \in Seq(T), NEW t \in Seq(T), NEW m \in Nat, NEW n \in Nat,
           m = Len(s), n = Len(t)
    PROVE  /\ s \o t \in Seq(T) /\ Len(s \o t) = m + n
           /\ \A k \in 1 .. m : (s \o t)[k] = s[k]
           /\ \A k \in 1 .. n : (s \o t)[m + k] = t[k]
OBVIOUS

LEMMA RunEnds ==
    ASSUME NEW T, NEW x \in Seq(T), NEW l, NEW g, RunOf(x, l, g)
    PROVE  g \in Nat
BY DEF RunOf

\* A run is the subsequence that SinksAgree speaks of.
LEMMA RunIsSubSeq ==
    ASSUME NEW T, NEW x \in Seq(T), NEW l \in Seq(T), NEW g \in Nat, RunOf(x, l, g)
    PROVE  x = SubSeq(l, g - Len(x) + 1, g)
<1>0. PICK n \in Nat : n = Len(x)
  OBVIOUS
<1>1. PICK c \in Nat : g = c + n /\ Lies(x, l, c)
  BY <1>0, Zenon DEF RunOf
<1> DEFINE y == SubSeq(l, c + 1, c + n)
<1>2. g - Len(x) + 1 = c + 1 /\ c + n <= Len(l)
  BY <1>0, <1>1 DEF Lies
<1>3. y \in Seq(T) /\ Len(y) = n /\ \A k \in 1 .. n : y[k] = l[c + k]
  BY <1>2, PieceElements, ZenonT(30)
<1> HIDE DEF y
<1>4. \A k \in 1 .. n : x[k] = y[k]
  BY <1>0, <1>1, <1>3, Zenon DEF Lies
<1>5. x = y
  BY <1>0, <1>3, <1>4
<1> QED BY <1>1, <1>2, <1>5, Zenon DEF y

\* It stays one when frames are stamped, and those are one.
LEMMA RunGrows ==
    ASSUME NEW T, NEW x \in Seq(T), NEW l \in Seq(T), NEW s \in Seq(T), NEW g \in Nat,
           RunOf(x, l, g)
    PROVE  RunOf(x, l \o s, g)
<1>0. PICK n \in Nat, m \in Nat, e \in Nat : n = Len(x) /\ m = Len(l) /\ e = Len(s)
  OBVIOUS
<1>1. PICK c \in Nat : g = c + n /\ Lies(x, l, c)
  BY <1>0, Zenon DEF RunOf
<1>2. Len(l \o s) = m + e /\ \A k \in 1 .. m : (l \o s)[k] = l[k]
  BY <1>0, Joining, SMTT(30)
<1>3. c + n <= m /\ \A k \in 1 .. n : x[k] = l[c + k] /\ c + k \in 1 .. m
  BY <1>0, <1>1, SMTT(30) DEF Lies
<1>4. Lies(x, l \o s, c)
  BY <1>0, <1>2, <1>3, SMTT(30) DEF Lies
<1> QED BY <1>0, <1>1, <1>4, Zenon DEF RunOf

LEMMA RunLast ==
    ASSUME NEW T, NEW l \in Seq(T), NEW s \in Seq(T)
    PROVE  RunOf(s, l \o s, Len(l \o s))
<1>0. PICK m \in Nat, e \in Nat : m = Len(l) /\ e = Len(s)
  OBVIOUS
<1>1. Len(l \o s) = m + e /\ \A k \in 1 .. e : (l \o s)[m + k] = s[k]
  BY <1>0, Joining
<1>2. Lies(s, l \o s, m)
  BY <1>0, <1>1, SMTT(30) DEF Lies
<1> QED BY <1>0, <1>1, <1>2, Zenon DEF RunOf

\* push_batch: a run and the next one make a run, also when its oldest frames
\* are dropped.
LEMMA RunPushed ==
    ASSUME NEW T, NEW x \in Seq(T), NEW b \in Seq(T), NEW l \in Seq(T),
           NEW g \in Nat, NEW h \in Nat, h = g + Len(b),
           RunOf(x, l, g), RunOf(b, l, h)
    PROVE  Pushed(x, b) \in Seq(T) /\ RunOf(Pushed(x, b), l, h)
<1>0. PICK n \in Nat, m \in Nat : n = Len(x) /\ m = Len(b)
  OBVIOUS
<1>1. PICK c \in Nat : g = c + n /\ Lies(x, l, c)
  BY <1>0, Zenon DEF RunOf
<1>2. Lies(b, l, g)
  <2>1. PICK d \in Nat : h = d + m /\ Lies(b, l, d)
    BY <1>0, Zenon DEF RunOf
  <2>2. d = g
    BY <1>0, <2>1
  <2> QED BY <2>1, <2>2, Zenon
<1> DEFINE all == x \o b
<1>3. /\ all \in Seq(T) /\ Len(all) = n + m
      /\ \A k \in 1 .. n : all[k] = x[k]
      /\ \A k \in 1 .. m : all[n + k] = b[k]
  BY <1>0, Joining, SMTT(30)
<1> HIDE DEF all
<1>4. c + (n + m) <= Len(l) /\ \A k \in 1 .. n + m : all[k] = l[c + k]
  <2>1. c + (n + m) <= Len(l)
    BY <1>0, <1>1, <1>2, SMTT(30) DEF Lies
  <2>2. ASSUME NEW k \in 1 .. n + m PROVE all[k] = l[c + k]
    <3>1. CASE k <= n
      <4>1. k \in 1 .. n
        BY <3>1
      <4> QED BY <1>0, <1>1, <1>3, <4>1, Zenon DEF Lies
    <3>2. CASE k > n
      <4>1. PICK e \in 1 .. m : k = n + e
        <5>1. k - n \in 1 .. m /\ k = n + (k - n)
          BY <3>2, SMTT(30)
        <5> QED BY <5>1, Zenon
      <4>2. all[k] = b[e] /\ b[e] = l[g + e]
        BY <1>0, <1>2, <1>3, <4>1, Zenon DEF Lies
      <4>3. g + e = c + k
        BY <1>1, <4>1, SMTT(30)
      <4> QED BY <4>2, <4>3, Zenon
    <3>3. k <= n \/ k > n
      OBVIOUS
    <3> QED BY <3>1, <3>2, <3>3, Zenon
  <2> QED BY <2>1, <2>2, Zenon
<1>5. h = c + (n + m)
  BY <1>0, <1>1
<1>6. CASE n + m <= Capacity
  <2>1. Pushed(x, b) = all
    BY <1>3, <1>6, Zenon DEF Pushed, all
  <2>2. Lies(all, l, c)
    BY <1>3, <1>4, Zenon DEF Lies
  <2> QED BY <1>3, <1>5, <2>1, <2>2, Zenon DEF RunOf
<1>7. CASE ~(n + m <= Capacity)
  <2>0. PICK d \in Nat, w \in Nat : w = Capacity /\ n + m = d + w
    <3>1. Capacity \in Nat
      BY FanOutAssumption, Zenon
    <3>2. (n + m) - Capacity \in Nat /\ n + m = ((n + m) - Capacity) + Capacity
      BY <1>7, <3>1
    <3> QED BY <3>1, <3>2, Zenon
  <2> DEFINE y == SubSeq(all, d + 1, d + w)
  <2>1. Pushed(x, b) = y
    <3>1. Len(all) - Capacity + 1 = d + 1 /\ Len(all) = d + w
      BY <1>3, <2>0
    <3> QED BY <1>3, <1>7, <3>1, Zenon DEF Pushed, all
  <2>2. y \in Seq(T) /\ Len(y) = w /\ \A k \in 1 .. w : y[k] = all[d + k]
    <3>1. d + w <= Len(all)
      BY <1>3, <2>0, SMTT(30)
    <3>2. all \in Seq(T)
      BY <1>3, Zenon
    <3>3. IsPiece(y, all, d, w)
      BY <3>1, Zenon DEF IsPiece
    <3> HIDE DEF y
    <3>4. PieceOf(T, y, all, d, w)
      BY <3>2, <3>3, NamedPiece, Zenon
    <3> QED BY <3>4, Zenon DEF PieceOf
  <2> HIDE DEF y
  <2>3. c + d \in Nat /\ h = (c + d) + w /\ (c + d) + w <= Len(l)
    <3>1. h = (c + d) + w /\ c + (n + m) = (c + d) + w
      BY <1>5, <2>0
    <3> QED BY <1>4, <3>1, SMTT(30)
  <2>4. ASSUME NEW k \in 1 .. w PROVE y[k] = l[(c + d) + k]
    <3>1. d + k \in 1 .. n + m /\ c + (d + k) = (c + d) + k
      BY <2>0, SMTT(30)
    <3> QED BY <1>4, <2>2, <3>1, Zenon
  <2>5. Lies(y, l, c + d)
    BY <2>2, <2>3, <2>4, Zenon DEF Lies
  <2> QED BY <2>1, <2>2, <2>3, <2>5, Zenon DEF RunOf
<1> QED BY <1>6, <1>7, Zenon

----------------------------------------------------------------------------
(* The buffers of the sources.                                             *)

\* c is b, or b with messages after it that arrived after the hi-th.
Extends(b, c, hi) ==
    /\ \A k \in DOMAIN b : k \in DOMAIN c /\ c[k] = b[k]
    /\ \A k \in DOMAIN c : k \in DOMAIN b \/ c[k] = Runt \/ hi < c[k]

\* What was held is still held, and what came before still does.
LEMMA ExtendsKeeps ==
    ASSUME NEW b, NEW c \in Seq(Nat), NEW hi \in Nat, Extends(b, c, hi),
           NEW a \in Nat
    PROVE  /\ Held(b, a) => Held(c, a)
           /\ a <= hi /\ After(b, a) => After(c, a)
<1>1. Held(b, a) => Held(c, a)
  BY Zenon DEF Extends, Held
<1>2. ASSUME a <= hi, After(b, a), NEW k \in DOMAIN c, c[k] # Runt
      PROVE  a < c[k]
  <2>1. CASE k \in DOMAIN b
    BY <1>2, <2>1, Zenon DEF Extends, After
  <2>2. CASE k \notin DOMAIN b
    <3>1. hi < c[k] /\ c[k] \in Nat
      BY <1>2, <2>2, SMTT(30) DEF Extends
    <3> QED BY <1>2, <3>1, SMTT(30)
  <2> QED BY <2>1, <2>2, Zenon
<1> QED BY <1>1, <1>2, Zenon DEF After

\* A message arrives.
LEMMA Arrival ==
    ASSUME BuffersInv, NEW s \in Sources, ArriveFrame(s) \/ ArriveRunt(s)
    PROVE  /\ BuffersInv'
           /\ \A t \in Sources : /\ Extends(buf[t], buf'[t], arrived[t])
                                 /\ arrived[t] \in Nat /\ arrived[t] <= arrived'[t]
<1>0. PICK a : /\ \/ a = Runt /\ arrived' = arrived
                  \/ a = arrived[s] + 1 /\ arrived' = [arrived EXCEPT ![s] = @ + 1]
               /\ buf' = buf \/ buf' = [buf EXCEPT ![s] = Append(@, a)]
               /\ UNCHANGED <<joining, event, owed>>
  <2>1. CASE ArriveRunt(s)
    BY <2>1, Zenon DEF ArriveRunt, Receive
  <2>2. CASE ArriveFrame(s)
    BY <2>2, Zenon DEF ArriveFrame, Receive
  <2> QED BY <2>1, <2>2, Zenon
<1>1. a \in Nat
  BY <1>0, SMTT(30) DEF BuffersInv, Runt
<1>2. /\ arrived \in [Sources -> Nat] /\ arrived' \in [Sources -> Nat]
      /\ a = Runt \/ (a = arrived[s] + 1 /\ arrived'[s] = a)
      /\ \A t \in Sources : arrived[t] <= arrived'[t]
      /\ \A t \in Sources : t # s => arrived'[t] = arrived[t]
  <2>0. arrived \in [Sources -> Nat]
    BY Zenon DEF BuffersInv
  <2>1. CASE a = Runt /\ arrived' = arrived
    BY <2>0, <2>1, SMTT(30)
  <2>2. CASE a = arrived[s] + 1 /\ arrived' = [arrived EXCEPT ![s] = @ + 1]
    BY <2>0, <2>2, SMTT(30)
  <2> QED BY <1>0, <2>1, <2>2, Zenon
<1>3. /\ buf \in [Sources -> Seq(Nat)]
      /\ \A t \in Sources : Sorted(buf[t]) /\ UpTo(buf[t], arrived[t])
  BY Zenon DEF BuffersInv
<1>4. /\ buf' \in [Sources -> Seq(Nat)]
      /\ buf'[s] = buf[s] \/ buf'[s] = Append(buf[s], a)
      /\ \A t \in Sources : t # s => buf'[t] = buf[t]
  <2>1. Append(buf[s], a) \in Seq(Nat)
    BY <1>1, <1>3, SMTT(30)
  <2> QED BY <1>0, <1>3, <2>1, Zenon
<1>5. ASSUME NEW t \in Sources
      PROVE  /\ Sorted(buf'[t]) /\ UpTo(buf'[t], arrived'[t])
             /\ Extends(buf[t], buf'[t], arrived[t])
  <2>1. CASE buf'[t] = buf[t]
    <3>1. \A k \in DOMAIN buf[t] : buf[t][k] \in Nat
      BY <1>3, SMTT(30)
    <3>2. UpTo(buf[t], arrived'[t])
      BY <1>2, <1>3, <3>1, SMTT(30) DEF UpTo
    <3> QED BY <1>3, <2>1, <3>2, Zenon DEF Extends
  <2>2. CASE buf'[t] # buf[t]
    <3> DEFINE b == buf[t]
               c == Append(buf[t], a)
    <3>1. t = s /\ buf'[t] = c
      BY <1>4, <2>2, Zenon
    <3>2. PICK n \in Nat : n = Len(b) /\ DOMAIN b = 1 .. n
      BY <1>3, SMTT(30)
    <3>3. /\ DOMAIN c = 1 .. n + 1 /\ c[n + 1] = a
          /\ \A k \in 1 .. n : c[k] = b[k] /\ b[k] \in Nat
      BY <1>1, <1>3, <3>2, SMTT(30)
    <3>4. /\ \A k \in 1 .. n : b[k] <= arrived[t]
          /\ arrived[t] \in Nat /\ arrived'[t] \in Nat /\ arrived[t] <= arrived'[t]
          /\ a = Runt \/ (a = arrived[t] + 1 /\ arrived'[t] = a)
      BY <1>1, <1>2, <1>3, <3>1, <3>2, Zenon DEF UpTo
    <3>5. \A k, m \in 1 .. n : k < m /\ b[k] # Runt /\ b[m] # Runt => b[k] < b[m]
      BY <1>3, <3>2, Zenon DEF Sorted
    <3> HIDE DEF c, b
    <3>6. \A k \in 1 .. n + 1 : k \in 1 .. n \/ k = n + 1
      BY SMTT(30)
    <3>7. UpTo(c, arrived'[t])
      BY <1>1, <3>3, <3>4, <3>6, SMTT(30) DEF UpTo, Runt
    <3>8. Extends(b, c, arrived[t])
      BY <1>1, <3>2, <3>3, <3>4, <3>6, SMTT(30) DEF Extends
    <3>9. Sorted(c)
      <4> SUFFICES ASSUME NEW k \in 1 .. n + 1, NEW m \in 1 .. n + 1, k < m,
                          c[k] # Runt, c[m] # Runt
                   PROVE  c[k] < c[m]
        BY <3>3, Zenon DEF Sorted
      <4>1. k \in 1 .. n
        BY SMTT(30)
      <4>2. CASE m \in 1 .. n
        BY <3>3, <3>5, <4>1, <4>2, Zenon
      <4>3. CASE m = n + 1
        BY <3>3, <3>4, <4>1, <4>3, SMTT(30)
      <4> QED BY <3>6, <4>2, <4>3, Zenon
    <3> QED BY <3>1, <3>7, <3>8, <3>9, Zenon DEF b
  <2> QED BY <2>1, <2>2, Zenon
<1>6. BuffersInv'
  BY <1>0, <1>2, <1>4, <1>5, Zenon DEF BuffersInv
<1> QED BY <1>2, <1>5, <1>6, Zenon

\* A source is drained.
Emptied(s) ==
    buf' = [buf EXCEPT ![s] = Undrained(s)] /\ UNCHANGED <<arrived, joining, event, owed>>

LEMMA Draining ==
    ASSUME BuffersInv, NEW s \in Sources, Emptied(s)
    PROVE  /\ BuffersInv'
           /\ \A t \in Sources : t # s => buf'[t] = buf[t]
           /\ \A t \in Sources, a \in Nat : After(buf[t], a) => After(buf'[t], a)
           /\ Split(buf[s], DrainedFrames(s), buf'[s])
           /\ UpTo(DrainedFrames(s), arrived[s])
<1> USE DEF Emptied
<1>1. Split(buf[s], DrainedFrames(s), Undrained(s))
  BY DrainSplits, Zenon
<1>2. buf'[s] = Undrained(s) /\ \A t \in Sources : t # s => buf'[t] = buf[t]
  BY Zenon DEF BuffersInv
<1>3. buf' \in [Sources -> Seq(Nat)]
  BY <1>1, Zenon DEF BuffersInv, Split
<1>4. ASSUME NEW t \in Sources PROVE Sorted(buf'[t]) /\ UpTo(buf'[t], arrived[t])
  <2>1. CASE t = s
    BY <1>1, <1>2, <2>1, SMTT(30) DEF BuffersInv, Split, UpTo
  <2>2. CASE t # s
    BY <1>2, <2>2, Zenon DEF BuffersInv
  <2> QED BY <2>1, <2>2, Zenon
<1>5. BuffersInv'
  BY <1>3, <1>4, Zenon DEF BuffersInv
<1>6. \A t \in Sources, a \in Nat : After(buf[t], a) => After(buf'[t], a)
  BY <1>1, <1>2, SMTT(30) DEF After, Split
<1>7. UpTo(DrainedFrames(s), arrived[s])
  BY <1>1, Zenon DEF BuffersInv, Split, UpTo
<1> QED BY <1>1, <1>2, <1>5, <1>6, <1>7, Zenon

\* What stop() owes is what the buffers hold.
LEMMA OwedIsHeld ==
    ASSUME BuffersInv, Stop
    PROVE  \A s \in Sources : \A a \in Owing(s)' : Held(buf'[s], a)
<1>0. UNCHANGED buf /\ joining' = TRUE /\ owed' = buf
  BY Zenon DEF Stop
<1>3. ASSUME NEW s \in Sources, NEW a \in Owing(s)' PROVE Held(buf[s], a)
  <2>1. /\ buf[s] \in Seq(Nat) /\ Len(buf[s]) <= DrainBatch
        /\ a \in Range(buf[s])
    BY <1>0, <1>3, Zenon DEF Owing, BuffersInv
  <2>2. PICK k \in DOMAIN buf[s] : buf[s][k] = a
    BY <2>1, Zenon DEF Range
  <2>3. k <= DrainBatch
    BY <2>1, SourcesAssumption, SMTT(30)
  <2> QED BY <2>2, <2>3, Zenon DEF Held
<1> QED BY <1>0, <1>3, Zenon

----------------------------------------------------------------------------
(* The thread of FanOut.                                                   *)

\* Where the runs of the sinks end.
LEMMA GivenBounds ==
    ASSUME FanOutInv
    PROVE  /\ Len(log) \in Nat /\ Len(batch) \in Nat /\ Len(batch) <= Len(log)
           /\ \A q \in Sinks : Given(q) \in Nat /\ Given(q) <= Len(log)
<1>1. Len(log) \in Nat /\ Len(batch) \in Nat
  BY DEF FanOutInv, FanOutTypes
<1>2. Len(batch) <= Len(log)
  <2>1. PICK c \in Nat : c + Len(batch) <= Len(log)
    BY Zenon DEF FanOutInv, SinkInv, RunOf, Lies
  <2> QED BY <1>1, <2>1, SMTT(30)
<1> QED BY <1>1, <1>2, SMTT(30) DEF Given

LEMMA EmptyRun ==
    ASSUME NEW T, NEW l \in Seq(T), NEW g \in Nat, g <= Len(l)
    PROVE  RunOf(<<>>, l, g)
<1>1. Lies(<<>>, l, g)
  BY DEF Lies
<1>2. g = g + Len(<<>>)
  BY SMTT(30)
<1> QED BY <1>1, <1>2, Zenon DEF RunOf

\* The log when only the buffers change, to later messages or to fewer.
LEMMA LogKept ==
    ASSUME FanOutInv, UNCHANGED <<log, next_seq>>,
           \A s \in Sources : \A a \in Nat : a <= arrived[s] /\ After(buf[s], a)
                                   => a <= arrived'[s] /\ After(buf'[s], a)
    PROVE  LogInv'
<1>1. \A n \in DOMAIN log : log[n].src \in Sources /\ log[n].nth \in Nat
  <2>1. \A n \in DOMAIN log : log[n] \in Stamped
    BY DEF FanOutInv, FanOutTypes
  <2> QED BY <2>1, Zenon DEF Stamped
<1> QED BY <1>1, Zenon DEF FanOutInv, LogInv, DenseAndFifo

\* A message arrives at a source.
LEMMA FanOutArrive ==
    ASSUME BuffersInv, FanOutInv, NEW s \in Sources,
           ArriveFrame(s) \/ ArriveRunt(s), UNCHANGED fanOutVars
    PROVE  FanOutInv'
<1>0. UNCHANGED <<pc, revents, stop_seen, i, j, batch, next_seq, sink, log, joining, owed>>
  BY Zenon DEF fanOutVars, ArriveFrame, ArriveRunt
<1>1. \A t \in Sources : /\ Extends(buf[t], buf'[t], arrived[t])
                         /\ arrived[t] \in Nat /\ arrived[t] <= arrived'[t]
                         /\ arrived'[t] \in Nat /\ buf'[t] \in Seq(Nat)
  BY Arrival, Zenon DEF BuffersInv
<1>2. ASSUME NEW t \in Sources, NEW a \in Nat
      PROVE  /\ Held(buf[t], a) => Held(buf'[t], a)
             /\ a <= arrived[t] /\ After(buf[t], a) => a <= arrived'[t] /\ After(buf'[t], a)
  <2>1. a <= arrived[t] => a <= arrived'[t]
    BY <1>1
  <2>2. /\ Held(buf[t], a) => Held(buf'[t], a)
        /\ a <= arrived[t] /\ After(buf[t], a) => After(buf'[t], a)
    BY <1>1, ExtendsKeeps, ZenonT(30)
  <2> QED BY <2>1, <2>2, Zenon
<1>3. FanOutTypes'
  BY <1>0, Zenon DEF FanOutInv, FanOutTypes
<1>4. LogInv'
  BY <1>0, <1>2, LogKept, Zenon
<1>5. SinkInv'
  BY <1>0, Zenon DEF FanOutInv, SinkInv, Given
<1>6. FanOutStop'
  <2>1. \A t \in Sources : Owing(t)' = Owing(t) /\ Owing(t) \subseteq Nat
    BY <1>0, SMTT(30) DEF Owing, BuffersInv, Range
  <2> QED BY <1>0, <1>2, <2>1, SMTT(30) DEF FanOutInv, FanOutStop, Logged, Passed
<1> QED BY <1>3, <1>4, <1>5, <1>6, Zenon DEF FanOutInv

\* stop() is called: what the buffers hold is owed.
LEMMA FanOutStopped ==
    ASSUME BuffersInv, FanOutInv, Stop, UNCHANGED fanOutVars
    PROVE  BuffersInv' /\ FanOutInv'
<1>0. /\ UNCHANGED <<pc, revents, stop_seen, i, j, batch, next_seq, sink, log,
                     arrived, buf>>
      /\ ~joining /\ joining' = TRUE /\ event' = TRUE /\ owed' = buf
  BY Zenon DEF fanOutVars, Stop
<1>1. BuffersInv'
  BY <1>0, Zenon DEF BuffersInv
<1>2. FanOutTypes' /\ LogInv' /\ SinkInv'
  BY <1>0, Zenon DEF FanOutInv, FanOutTypes, LogInv, DenseAndFifo, SinkInv, Given
<1>4. FanOutStop'
  BY <1>0, OwedIsHeld, Zenon DEF FanOutInv, FanOutStop
<1> QED BY <1>1, <1>2, <1>4, Zenon DEF FanOutInv

\* A consumer empties its queue.
LEMMA FanOutPop ==
    ASSUME FanOutInv, NEW q \in Sinks, PopSink(q)
    PROVE  FanOutInv'
<1>0. /\ UNCHANGED <<pc, revents, stop_seen, i, j, batch, next_seq, log,
                     arrived, buf, joining, event, owed>>
      /\ sink' = [sink EXCEPT ![q] = <<>>]
  BY Zenon DEF PopSink, surroundings
<1>1. FanOutTypes'
  <2>1. <<>> \in Seq(Stamped)
    BY SMTT(30)
  <2> QED BY <1>0, <2>1, Zenon DEF FanOutInv, FanOutTypes
<1>2. LogInv' /\ FanOutStop'
  BY <1>0, SMTT(30) DEF FanOutInv, LogInv, DenseAndFifo, FanOutStop, Owing, Logged, Passed
<1>3. SinkInv'
  <2>1. \A r \in Sinks : RunOf(sink'[r], log, Given(r))
    <3>1. RunOf(<<>>, log, Given(q))
      BY GivenBounds, EmptyRun, Zenon DEF FanOutInv, FanOutTypes
    <3> QED BY <1>0, <3>1, Zenon DEF FanOutInv, FanOutTypes, SinkInv
  <2>2. \A r \in Sinks : Given(r)' = Given(r)
    BY <1>0, Zenon DEF Given
  <2> QED BY <1>0, <2>1, <2>2, Zenon DEF FanOutInv, SinkInv
<1> QED BY <1>1, <1>2, <1>3, Zenon DEF FanOutInv

\* poll returns, a source is passed over, and the scan ends.
LEMMA FanOutScan ==
    ASSUME BuffersInv, FanOutInv, Poll \/ SkipSource \/ EndScan
    PROVE  FanOutInv'
<1>0. /\ UNCHANGED <<batch, next_seq, sink, log, arrived, buf, joining, event, owed, j>>
      /\ pc \in {"poll", "scan"} /\ pc' \in {"poll", "scan", "exited"}
  BY Zenon DEF Poll, SkipSource, EndScan, ScanDone, surroundings
<1>1. FanOutTypes'
  <2>1. revents' \in SUBSET Sources /\ stop_seen' \in BOOLEAN
    BY Zenon DEF Poll, SkipSource, EndScan, Readable, BuffersInv, FanOutInv, FanOutTypes
  <2>2. i' \in Nat /\ i' >= 1
    BY SMTT(30) DEF Poll, SkipSource, EndScan, FanOutInv, FanOutTypes
  <2> QED BY <1>0, <2>1, <2>2, Zenon DEF FanOutInv, FanOutTypes
<1>2. LogInv'
  BY <1>0, Zenon DEF FanOutInv, LogInv, DenseAndFifo
<1>3. SinkInv'
  BY <1>0, Zenon DEF FanOutInv, SinkInv, Given
<1>4. FanOutStop'
  <2>0. \A s \in Sources : Owing(s)' = Owing(s)
    BY <1>0, Zenon DEF Owing
  <2>1. \A s \in Sources : \A a : Logged(s, a)' = Logged(s, a)
    BY <1>0, Zenon DEF Logged
  <2>2. stop_seen' => joining
    BY Zenon DEF Poll, SkipSource, EndScan, BuffersInv, FanOutInv, FanOutStop
  <2>3. pc' = "exited" => stop_seen'
    BY <1>0, Zenon DEF Poll, SkipSource, EndScan, FanOutInv, FanOutStop
  <2>4. ASSUME NEW s \in Sources, NEW a \in Owing(s), stop_seen', Passed(s)'
        PROVE  Logged(s, a)
    <3>1. CASE Poll
      <4>1. s \notin Readable
        BY <2>4, <3>1, SourcesAssumption, SMTT(30) DEF Poll, Passed, Sources
      <4>2. ~Held(buf[s], a)
        BY <4>1, SMTT(30) DEF Readable, Held
      <4> QED BY <4>2, Zenon DEF FanOutInv, FanOutStop
    <3>2. CASE SkipSource
      <4>1. Passed(s) /\ stop_seen
        BY <2>4, <3>2, SMTT(30) DEF SkipSource, Passed, Sources, FanOutInv, FanOutTypes
      <4> QED BY <4>1, Zenon DEF FanOutInv, FanOutStop
    <3>3. CASE EndScan
      <4>1. Passed(s) /\ stop_seen
        BY <2>4, <3>3, SourcesAssumption, SMTT(30)
           DEF EndScan, ScanDone, Passed, Sources, FanOutInv, FanOutTypes
      <4> QED BY <4>1, Zenon DEF FanOutInv, FanOutStop
    <3> QED BY <3>1, <3>2, <3>3, Zenon
  <2> QED BY <1>0, <2>0, <2>1, <2>2, <2>3, <2>4, Zenon DEF FanOutInv, FanOutStop
<1> QED BY <1>1, <1>2, <1>3, <1>4, Zenon DEF FanOutInv

\* What a drain adds to the log: the frames in order, each with its number.
StampedOf(frames, s, stamped) ==
    /\ stamped \in Seq(Stamped) /\ Len(stamped) = Len(frames)
    /\ \A k \in 1 .. Len(frames) : /\ stamped[k].seq = next_seq + k - 1
                                   /\ stamped[k].src = s
                                   /\ stamped[k].nth = frames[k]

LEMMA DrainStamps ==
    ASSUME NEW frames \in Seq(Nat), NEW s \in Sources, next_seq \in Nat
    PROVE  StampedOf(frames, s,
               [k \in DOMAIN frames |-> [seq |-> Stamp(k), src |-> s, nth |-> frames[k]]])
<1> DEFINE F(k) == [seq |-> next_seq + k - 1, src |-> s, nth |-> frames[k]]
           st == [k \in DOMAIN frames |-> F(k)]
<1>0. PICK n \in Nat : n = Len(frames) /\ DOMAIN frames = 1 .. n
  BY SMTT(30)
<1>1. ASSUME NEW k \in 1 .. n
      PROVE  /\ F(k) \in Stamped /\ F(k).seq = next_seq + k - 1 /\ F(k).src = s
             /\ F(k).nth = frames[k]
  <2>1. next_seq + k - 1 \in Nat /\ frames[k] \in Nat
    BY <1>0, SMTT(30)
  <2> QED BY <2>1, Zenon DEF Stamped
<1> HIDE DEF F
<1>2. st \in Seq(Stamped) /\ Len(st) = n /\ \A k \in 1 .. n : st[k] = F(k)
  <2>1. st = [k \in 1 .. n |-> F(k)]
    BY <1>0, Zenon
  <2>2. st \in [1 .. n -> Stamped]
    BY <1>1, <2>1, Zenon
  <2> QED BY <2>1, <2>2, SMTT(30)
<1>3. [k \in DOMAIN frames |-> [seq |-> Stamp(k), src |-> s, nth |-> frames[k]]] = st
  BY Zenon DEF Stamp, F
<1> HIDE DEF st
<1>4. StampedOf(frames, s, st)
  BY <1>0, <1>1, <1>2, Zenon DEF StampedOf
<1> QED BY <1>3, <1>4, Zenon

\* The log with the frames of a drain.
Appends(frames, stamped) ==
    log' = log \o stamped /\ next_seq' = next_seq + Len(frames)

LEMMA LogGrows ==
    ASSUME BuffersInv, FanOutInv, NEW s \in Sources, Emptied(s),
           NEW frames, frames = DrainedFrames(s),
           NEW stamped, StampedOf(frames, s, stamped), Appends(frames, stamped)
    PROVE  LogInv'
<1>1. /\ frames \in Seq(Nat) /\ Sorted(frames) /\ UpTo(frames, arrived[s])
      /\ \A n \in DOMAIN frames : frames[n] # Runt /\ After(buf'[s], frames[n])
      /\ \A n \in DOMAIN frames : \E x \in DOMAIN buf[s] : buf[s][x] = frames[n]
  <2>1. Split(buf[s], frames, buf'[s]) /\ UpTo(frames, arrived[s])
    BY Draining, Zenon
  <2> QED BY <2>1, ZenonT(30) DEF Split
<1>2. \A t \in Sources, a \in Nat : After(buf[t], a) => After(buf'[t], a)
  BY Draining, Zenon
<1>3. log \in Seq(Stamped) /\ stamped \in Seq(Stamped)
  BY Zenon DEF StampedOf, FanOutInv, FanOutTypes
<1>m. PICK m \in Nat : m = Len(log) /\ DOMAIN log = 1 .. m
  BY <1>3, SMTT(30)
<1>w. PICK w \in Nat : w = Len(frames) /\ DOMAIN frames = 1 .. w
  <2>1. frames \in Seq(Nat)
    BY <1>1, Zenon
  <2> QED BY <2>1, SMTT(30)
<1>4. m = next_seq /\ w = Len(stamped)
  BY <1>m, <1>w, Zenon DEF StampedOf, FanOutInv, LogInv
<1>5. /\ Len(log') = m + w /\ log' \in Seq(Stamped)
      /\ \A k \in 1 .. m : log'[k] = log[k]
      /\ \A k \in 1 .. w : log'[m + k] = stamped[k]
  <2>1. m = Len(log) /\ w = Len(stamped)
    BY <1>m, <1>4, Zenon
  <2>2. PICK u : u = log'
    BY Zenon
  <2>3. PICK l \in Seq(Stamped) : l = log
    BY <1>3, Zenon
  <2>4. u = l \o stamped /\ m = Len(l) /\ w = Len(stamped) /\ stamped \in Seq(Stamped)
    BY <1>3, <2>1, <2>2, <2>3, Zenon DEF Appends
  <2>5. /\ u \in Seq(Stamped) /\ Len(u) = m + w
        /\ \A k \in 1 .. m : u[k] = l[k]
        /\ \A k \in 1 .. w : u[m + k] = stamped[k]
    BY <2>4, Joining, SMTT(30)
  <2> QED BY <2>2, <2>3, <2>5, Zenon
<1>6. \A k \in 1 .. m : /\ log[k].seq = k - 1 /\ log[k].src \in Sources
                        /\ log[k].nth \in Nat
                        /\ log[k].nth <= arrived[log[k].src]
                        /\ After(buf[log[k].src], log[k].nth)
  <2>1. \A k \in 1 .. m : log[k] \in Stamped
    BY <1>3, <1>m, SMTT(30)
  <2>2. \A k \in 1 .. m : log[k].src \in Sources /\ log[k].nth \in Nat
    BY <2>1, Zenon DEF Stamped
  <2> QED BY <1>m, <2>2, Zenon DEF FanOutInv, LogInv, DenseAndFifo
<1>7. \A k \in 1 .. w : /\ stamped[k].seq = m + k - 1 /\ stamped[k].src = s
                        /\ stamped[k].nth = frames[k] /\ frames[k] \in Nat
                        /\ k \in DOMAIN frames
  <2>1. \A k \in 1 .. w : frames[k] \in Nat
    BY <1>1, <1>w, SMTT(30)
  <2> QED BY <1>w, <1>4, <2>1, Zenon DEF StampedOf
<1>8. ASSUME NEW n \in 1 .. m + w
      PROVE  n \in 1 .. m \/ \E k \in 1 .. w : n = m + k
  <2>1. CASE n <= m
    BY <2>1, SMTT(30)
  <2>2. CASE n > m
    <3>1. n - m \in 1 .. w /\ n = m + (n - m)
      BY <2>2, SMTT(30)
    <3> QED BY <3>1, Zenon
  <2> QED BY <2>1, <2>2, SMTT(30)
<1>9. DOMAIN log' = 1 .. m + w /\ DOMAIN log = 1 .. m
  BY <1>m, <1>5, SMTT(30)
<1>10. ASSUME NEW n \in DOMAIN log' PROVE log'[n].seq = n - 1
  <2>1. CASE n \in 1 .. m
    BY <1>5, <1>6, <2>1, Zenon
  <2>2. ASSUME NEW k \in 1 .. w, n = m + k PROVE log'[n].seq = n - 1
    <3>1. log'[n] = stamped[k] /\ stamped[k].seq = m + k - 1
      BY <1>5, <1>7, <2>2, Zenon
    <3> QED BY <2>2, <3>1, SMTT(30)
  <2> QED BY <1>8, <1>9, <2>1, <2>2, Zenon
<1>11. ASSUME NEW n \in DOMAIN log'
       PROVE  log'[n].nth <= arrived[log'[n].src] /\ After(buf'[log'[n].src], log'[n].nth)
  <2>1. CASE n \in 1 .. m
    BY <1>2, <1>5, <1>6, <2>1, ZenonT(30)
  <2>2. ASSUME NEW k \in 1 .. w, n = m + k
        PROVE  log'[n].nth <= arrived[log'[n].src] /\ After(buf'[log'[n].src], log'[n].nth)
    <3>1. log'[n].nth = frames[k] /\ log'[n].src = s /\ k \in DOMAIN frames
      BY <1>5, <1>7, <2>2, Zenon
    <3>2. frames[k] <= arrived[s] /\ After(buf'[s], frames[k])
      BY <1>1, <3>1, Zenon DEF UpTo
    <3> QED BY <3>1, <3>2, Zenon
  <2> QED BY <1>8, <1>9, <2>1, <2>2, Zenon
<1>12. ASSUME NEW a \in DOMAIN log', NEW b \in DOMAIN log', a < b,
              log'[a].src = log'[b].src
       PROVE  log'[a].nth < log'[b].nth
  <2>1. CASE a \in 1 .. m /\ b \in 1 .. m
    BY <1>5, <1>9, <1>12, <2>1, Zenon DEF FanOutInv, LogInv, DenseAndFifo
  <2>2. ASSUME a \in 1 .. m, NEW k \in 1 .. w, b = m + k
        PROVE  log'[a].nth < log'[b].nth
    <3>1. log'[b].nth = frames[k] /\ log'[b].src = s /\ frames[k] # Runt
      BY <1>1, <1>5, <1>7, <2>2, ZenonT(30)
    <3>2. log'[a] = log[a] /\ After(buf[s], log[a].nth)
      BY <1>5, <1>6, <1>12, <2>2, <3>1, Zenon
    <3>3. PICK x \in DOMAIN buf[s] : buf[s][x] = frames[k]
      BY <1>1, <1>7, Zenon
    <3> QED BY <3>1, <3>2, <3>3, Zenon DEF After
  <2>3. ASSUME NEW h \in 1 .. w, NEW k \in 1 .. w, a = m + h, b = m + k
        PROVE  log'[a].nth < log'[b].nth
    <3>1. h < k
      BY <1>12, <2>3, SMTT(30)
    <3>2. frames[h] < frames[k]
      BY <1>1, <1>7, <3>1, SMTT(30) DEF Sorted
    <3> QED BY <1>5, <1>7, <2>3, <3>2, Zenon
  <2>4. ASSUME NEW h \in 1 .. w, a = m + h, b \in 1 .. m PROVE FALSE
    BY <1>12, <2>4, SMTT(30)
  <2> QED BY <1>8, <1>9, <2>1, <2>2, <2>3, <2>4, ZenonT(30)
<1>13. Len(log') = next_seq' /\ arrived' = arrived
  BY <1>w, <1>4, <1>5, ZenonT(30) DEF Appends, Emptied
<1> QED BY <1>10, <1>11, <1>12, <1>13, Zenon DEF LogInv, DenseAndFifo

\* A readable source is drained, and its frames are stamped.
LEMMA FanOutDrain ==
    ASSUME BuffersInv, FanOutInv, DrainSource
    PROVE  BuffersInv' /\ FanOutInv'
<1>0. /\ pc = "scan" /\ i \in revents /\ i \in Sources /\ batch = <<>>
      /\ next_seq \in Nat /\ log \in Seq(Stamped)
  BY Zenon DEF DrainSource, FanOutInv, FanOutTypes, SinkInv
<1>1. PICK frames : frames = DrainedFrames(i)
  BY Zenon
<1>2. PICK stamped : stamped = [k \in DOMAIN frames |->
                                  [seq |-> Stamp(k), src |-> i, nth |-> frames[k]]]
  BY Zenon
<1>3. /\ Emptied(i) /\ Appends(frames, stamped) /\ batch' = stamped
      /\ UNCHANGED <<revents, stop_seen, sink>>
      /\ \/ frames = <<>> /\ i' = i + 1 /\ j' = j /\ pc' = pc
         \/ frames # <<>> /\ i' = i /\ j' = 1 /\ pc' = "push"
  BY <1>1, <1>2, Zenon DEF DrainSource, Emptied, Appends
<1>4. /\ BuffersInv' /\ \A t \in Sources : t # i => buf'[t] = buf[t]
      /\ Split(buf[i], frames, buf'[i])
  BY <1>0, <1>1, <1>3, Draining, ZenonT(30)
<1>5. frames \in Seq(Nat) /\ \A a : a # Runt /\ Held(buf[i], a)
                                       => \E n \in DOMAIN frames : frames[n] = a
  BY <1>4, Zenon DEF Split
<1>6. StampedOf(frames, i, stamped)
  BY <1>0, <1>2, <1>5, DrainStamps, Zenon
<1>7. LogInv'
  BY <1>0, <1>1, <1>3, <1>6, LogGrows, Zenon
<1>8. stamped \in Seq(Stamped) /\ log' = log \o stamped
  BY <1>3, <1>6, Zenon DEF StampedOf, Appends
<1>9. FanOutTypes'
  <2>1. log' \in Seq(Stamped) /\ batch' \in Seq(Stamped)
    BY <1>0, <1>3, <1>8, SMTT(30)
  <2>2. next_seq' \in Nat
    BY <1>0, <1>3, <1>5, SMTT(30) DEF Appends
  <2>3. i' \in Nat /\ i' >= 1 /\ j' \in Sinks
    BY <1>3, FanOutAssumption, SMTT(30) DEF FanOutInv, FanOutTypes, Sinks
  <2>4. pc' \in {"poll", "scan", "push", "exited"}
    BY <1>3, Zenon DEF FanOutInv, FanOutTypes
  <2> QED BY <1>3, <2>1, <2>2, <2>3, <2>4, Zenon DEF FanOutInv, FanOutTypes
<1>10. frames = <<>> => stamped = <<>>
  BY <1>6, <1>8, SMTT(30) DEF StampedOf
<1>11. SinkInv'
  <2>1. RunOf(batch', log', Len(log'))
    BY <1>0, <1>3, <1>8, RunLast, Zenon
  <2>2. PICK m \in Nat, w \in Nat : m = Len(log) /\ w = Len(stamped)
    BY <1>0, <1>8, SMTT(30)
  <2>3. Len(log') = m + w
    BY <1>0, <1>8, <2>2, SMTT(30)
  <2>4. ASSUME NEW q \in Sinks PROVE RunOf(sink'[q], log', Given(q)')
    <3>1. Given(q) = m
      BY <1>0, <2>2, Zenon DEF Given
    <3>2. Given(q)' = m
      <4>1. CASE frames = <<>>
        <5>1. w = 0 /\ pc' = "scan"
          BY <1>0, <1>3, <1>10, <2>2, <4>1, Zenon
        <5> QED BY <2>3, <5>1, SMTT(30) DEF Given
      <4>2. CASE frames # <<>>
        <5>1. pc' = "push" /\ j' <= q
          BY <1>3, <4>2, SMTT(30) DEF Sinks
        <5>2. Given(q)' = Len(log') - Len(batch')
          BY <5>1, Zenon DEF Given
        <5> QED BY <1>3, <2>2, <2>3, <5>2, SMTT(30)
      <4> QED BY <4>1, <4>2, Zenon
    <3>3. sink[q] \in Seq(Stamped) /\ RunOf(sink[q], log, m)
      BY <3>1, Zenon DEF FanOutInv, FanOutTypes, SinkInv
    <3>4. RunOf(sink[q], log \o stamped, m)
      BY <1>0, <1>8, <3>3, RunGrows, Zenon
    <3> QED BY <1>3, <1>8, <3>2, <3>4, Zenon
  <2>5. (pc' # "push" => batch' = <<>>) /\ (pc' = "push" => i' \in Sources)
    BY <1>0, <1>3, <1>10, Zenon
  <2> QED BY <2>1, <2>4, <2>5, Zenon DEF SinkInv
<1>12. FanOutStop'
  <2>0. \A s \in Sources : Owing(s)' = Owing(s)
    BY <1>3, Zenon DEF Owing, Emptied
  <2>1. \A s \in Sources : \A a : Logged(s, a) => Logged(s, a)'
    <3>1. \A n \in DOMAIN log : n \in DOMAIN log' /\ log'[n] = log[n]
      BY <1>0, <1>8, SMTT(30)
    <3> QED BY <3>1, Zenon DEF Logged
  <2>i. PICK o \in Sources : o = i
    BY <1>0, Zenon
  <2>2. \A n \in DOMAIN frames : Logged(o, frames[n])'
    <3>1. PICK m \in Nat, w \in Nat : m = Len(log) /\ w = Len(stamped)
      BY <1>0, <1>8, SMTT(30)
    <3>2. Len(log') = m + w /\ log' \in Seq(Stamped)
          /\ \A k \in 1 .. w : log'[m + k] = stamped[k]
      BY <1>0, <1>8, <3>1, SMTT(30)
    <3>3. ASSUME NEW n \in DOMAIN frames PROVE Logged(o, frames[n])'
      <4>1. n \in 1 .. w /\ stamped[n].src = o /\ stamped[n].nth = frames[n]
        BY <1>5, <1>6, <2>i, <3>1, SMTT(30) DEF StampedOf
      <4>2. m + n \in DOMAIN log' /\ log'[m + n] = stamped[n]
        BY <3>2, <4>1, SMTT(30)
      <4> QED BY <4>1, <4>2, Zenon DEF Logged
    <3> QED BY <3>3, Zenon
  <2>3. \A a \in Owing(o) : Logged(o, a)'
    <3>1. \A a \in Owing(o) : a # Runt /\ (Logged(o, a) \/ Held(buf[o], a))
      BY <1>0, <2>i, Zenon DEF Owing, FanOutInv, FanOutStop
    <3> QED BY <1>0, <1>5, <2>1, <2>2, <2>i, <3>1, Zenon
  <2>4. ASSUME NEW s \in Sources, s # o, NEW a \in Owing(s)
        PROVE  /\ Logged(s, a)' \/ Held(buf'[s], a)
               /\ stop_seen' /\ Passed(s)' => Logged(s, a)'
    <3>1. Logged(s, a) \/ Held(buf[s], a)
      BY Zenon DEF FanOutInv, FanOutStop
    <3>2. Passed(s)' => Passed(s)
      BY <1>0, <1>3, <2>4, <2>i, SMTT(30) DEF Passed, Sources
    <3> QED BY <1>3, <1>4, <2>1, <2>4, <2>i, <3>1, <3>2, SMTT(30) DEF FanOutInv, FanOutStop
  <2>5. (stop_seen' => joining') /\ pc' # "exited"
    BY <1>0, <1>3, Zenon DEF FanOutInv, FanOutStop, Emptied
  <2>6. ASSUME NEW s \in Sources, NEW a \in Owing(s)'
        PROVE  /\ Logged(s, a)' \/ Held(buf'[s], a)
               /\ stop_seen' /\ Passed(s)' => Logged(s, a)'
    BY <2>0, <2>3, <2>4, <2>6, Zenon
  <2> QED BY <2>5, <2>6, Zenon DEF FanOutStop
<1> QED BY <1>4, <1>7, <1>9, <1>11, <1>12, Zenon DEF FanOutInv

\* The batch goes to one sink; after the last one the scan goes on.
LEMMA FanOutPush ==
    ASSUME BuffersInv, FanOutInv, PushSink
    PROVE  FanOutInv'
<1>0. /\ UNCHANGED <<revents, stop_seen, next_seq, log, arrived, buf, joining, event, owed>>
      /\ pc = "push" /\ i \in Sources
      /\ sink' = [sink EXCEPT ![j] = Pushed(sink[j], batch)]
      /\ \/ j < NSinks /\ j' = j + 1 /\ UNCHANGED <<pc, i, batch>>
         \/ ~(j < NSinks) /\ i' = i + 1 /\ batch' = <<>> /\ pc' = "scan" /\ j' = j
  BY Zenon DEF PushSink, surroundings, FanOutInv, SinkInv
<1>1. /\ j \in Sinks /\ batch \in Seq(Stamped) /\ log \in Seq(Stamped)
      /\ sink \in [Sinks -> Seq(Stamped)]
  BY Zenon DEF FanOutInv, FanOutTypes
<1>2. Len(log) \in Nat /\ Len(batch) \in Nat /\ Given(j) \in Nat
  BY <1>1, GivenBounds, Zenon
<1>3. /\ \A q \in Sinks : RunOf(sink[q], log, Given(q))
      /\ RunOf(batch, log, Len(log))
  BY Zenon DEF FanOutInv, SinkInv
<1>4. Given(j) = Len(log) - Len(batch)
  BY <1>0, <1>1, SMTT(30) DEF Given, Sinks
<1>5. Pushed(sink[j], batch) \in Seq(Stamped) /\ RunOf(Pushed(sink[j], batch), log, Len(log))
  <2>1. Len(log) = Given(j) + Len(batch) /\ sink[j] \in Seq(Stamped)
    BY <1>1, <1>2, <1>4, SMTT(30)
  <2> QED BY <1>1, <1>2, <1>3, <2>1, RunPushed, Zenon
<1>6. FanOutTypes'
  <2>1. i' \in Nat /\ i' >= 1
    BY <1>0, SMTT(30) DEF FanOutInv, FanOutTypes
  <2>2. j' \in Sinks
    BY <1>0, <1>1, FanOutAssumption, SMTT(30) DEF Sinks
  <2>3. batch' \in Seq(Stamped)
    <3>1. batch' = batch \/ batch' = <<>>
      BY <1>0, Zenon
    <3>2. <<>> \in Seq(Stamped)
      BY SMTT(30)
    <3> QED BY <1>1, <3>1, <3>2, Zenon
  <2>5. sink' \in [Sinks -> Seq(Stamped)]
    <3> DEFINE given == Pushed(sink[j], batch)
    <3>1. sink' = [sink EXCEPT ![j] = given] /\ given \in Seq(Stamped)
      BY <1>0, <1>5, Zenon
    <3> HIDE DEF given
    <3> QED BY <1>1, <3>1, Zenon
  <2>4. pc' \in {"push", "scan"}
    BY <1>0, Zenon
  <2> QED BY <1>0, <2>1, <2>2, <2>3, <2>4, <2>5, Zenon DEF FanOutInv, FanOutTypes
<1>7. LogInv'
  BY <1>0, Zenon DEF FanOutInv, LogInv, DenseAndFifo
<1>8. SinkInv'
  <2>1. ASSUME NEW q \in Sinks PROVE RunOf(sink'[q], log, Given(q)')
    <3>1. CASE q = j
      <4>1. Given(q)' = Len(log)
        BY <1>0, <1>1, <3>1, SMTT(30) DEF Given, Sinks
      <4>2. sink'[q] = Pushed(sink[j], batch)
        BY <1>0, <1>1, <3>1, Zenon
      <4> QED BY <1>5, <4>1, <4>2, Zenon
    <3>2. CASE q # j
      <4>1. Given(q)' = Given(q)
        <5>0. j \in Int /\ q \in Int /\ NSinks \in Int /\ q <= NSinks
          BY <1>1, FanOutAssumption, SMTT(30) DEF Sinks
        <5>1. CASE j < NSinks
          <6>1. pc' = "push" /\ j' = j + 1 /\ batch' = batch /\ log' = log
            BY <1>0, <5>1, Zenon
          <6>2. j + 1 <= q <=> j <= q
            BY <3>2, <5>0, SMTT(30)
          <6> QED BY <1>0, <6>1, <6>2, Zenon DEF Given
        <5>2. CASE ~(j < NSinks)
          <6>1. pc' # "push" /\ log' = log
            BY <1>0, <5>2, Zenon
          <6>2. ~(j <= q)
            BY <3>2, <5>0, <5>2, SMTT(30)
          <6> QED BY <6>1, <6>2, Zenon DEF Given
        <5> QED BY <5>1, <5>2, Zenon
      <4>2. sink'[q] = sink[q]
        BY <1>0, <1>1, <3>2, Zenon
      <4> QED BY <1>3, <4>1, <4>2, Zenon
    <3> QED BY <3>1, <3>2, Zenon
  <2>2. RunOf(batch', log, Len(log))
    <3>1. RunOf(<<>>, log, Len(log))
      BY <1>1, <1>2, EmptyRun, SMTT(30)
    <3> QED BY <1>0, <1>3, <3>1, Zenon
  <2> QED BY <1>0, <2>1, <2>2, Zenon DEF SinkInv
<1>9. FanOutStop'
  <2>0. \A s \in Sources : Owing(s)' = Owing(s)
    BY <1>0, Zenon DEF Owing
  <2>1. \A s \in Sources : \A a : Logged(s, a)' = Logged(s, a)
    BY <1>0, Zenon DEF Logged
  <2>2. \A s \in Sources : Passed(s)' => Passed(s)
    BY <1>0, SMTT(30) DEF Passed, Sources
  <2> QED BY <1>0, <2>0, <2>1, <2>2, SMTT(30) DEF FanOutInv, FanOutStop
<1> QED BY <1>6, <1>7, <1>8, <1>9, Zenon DEF FanOutInv

----------------------------------------------------------------------------
(* The threads of RingIngest.                                              *)

LEMMA RingArrive ==
    ASSUME BuffersInv, RingInv, NEW s \in Sources,
           ArriveFrame(s) \/ ArriveRunt(s), UNCHANGED ringIngestVars
    PROVE  RingInv'
<1>0. UNCHANGED <<rpc, rstop, run, ticket, write_pos, cell, joining, owed>>
  BY ZenonT(30) DEF ringIngestVars, threads, ArriveFrame, ArriveRunt
<1>1. \A t \in Sources : /\ Extends(buf[t], buf'[t], arrived[t])
                         /\ arrived[t] \in Nat /\ arrived[t] <= arrived'[t]
                         /\ arrived'[t] \in Nat /\ buf'[t] \in Seq(Nat)
  BY Arrival, Zenon DEF BuffersInv
<1>2. ASSUME NEW t \in Sources, NEW a \in Nat
      PROVE  /\ Held(buf[t], a) => Held(buf'[t], a)
             /\ a <= arrived[t] => a <= arrived'[t]
             /\ a <= arrived[t] /\ After(buf[t], a) => After(buf'[t], a)
  <2>1. a <= arrived[t] => a <= arrived'[t]
    BY <1>1
  <2>2. /\ Held(buf[t], a) => Held(buf'[t], a)
        /\ a <= arrived[t] /\ After(buf[t], a) => After(buf'[t], a)
    BY <1>1, ExtendsKeeps, Zenon
  <2> QED BY <2>1, <2>2, SMTT(30)
<1>3. RingTypes' /\ PlacesInv'
  BY <1>0, Zenon DEF RingInv, RingTypes, PlacesInv, PerSourceFifo, Claimed
<1>4. RunInv'
  <2>1. ASSUME NEW t \in Sources
        PROVE  /\ UpTo(run[t], arrived'[t])
               /\ \A n \in DOMAIN run[t] : After(buf'[t], run[t][n])
    <3>1. \A n \in DOMAIN run[t] : /\ run[t][n] \in Nat /\ run[t][n] <= arrived[t]
                                   /\ After(buf[t], run[t][n])
      <4>1. \A x \in Seq(Nat) : \A n \in DOMAIN x : x[n] \in Nat
        OBVIOUS
      <4> QED BY <4>1, Zenon DEF RingInv, RingTypes, RunInv, UpTo
    <3> QED BY <1>2, <3>1, Zenon DEF UpTo
  <2> QED BY <1>0, <2>1, Zenon DEF RingInv, RunInv
<1>5. CellInv'
  <2>1. ASSUME NEW p \in DOMAIN cell
        PROVE  /\ cell[p].nth <= arrived'[cell[p].src]
               /\ After(buf'[cell[p].src], cell[p].nth)
    <3>1. /\ cell[p].src \in Sources /\ cell[p].nth \in Nat
          /\ cell[p].nth <= arrived[cell[p].src]
          /\ After(buf[cell[p].src], cell[p].nth)
      BY Zenon DEF RingInv, RingTypes, CellInv
    <3> QED BY <1>2, <3>1, Zenon
  <2> QED BY <1>0, <2>1, Zenon DEF RingInv, CellInv
<1>6. RingStop'
  <2>1. \A t \in Sources : Owing(t)' = Owing(t) /\ Owing(t) \subseteq Nat
    <3>1. \A x \in Seq(Nat) : Range(x) \subseteq Nat
      BY DEF Range
    <3> QED BY <1>0, <3>1, Zenon DEF Owing, BuffersInv
  <2>2. \A t \in Sources : \A a : /\ Stored(t, a)' = Stored(t, a)
                                  /\ InRun(t, a)' = InRun(t, a)
    BY <1>0, Zenon DEF Stored, InRun
  <2> QED BY <1>0, <1>2, <2>1, <2>2, Zenon DEF RingInv, RingStop
<1> QED BY <1>3, <1>4, <1>5, <1>6, Zenon DEF RingInv

LEMMA RingStopped ==
    ASSUME BuffersInv, RingInv, Stop, UNCHANGED ringIngestVars
    PROVE  RingInv'
<1>0. /\ UNCHANGED <<rpc, rstop, run, ticket, write_pos, cell, arrived, buf>>
      /\ ~joining /\ joining'
  BY Zenon DEF ringIngestVars, threads, Stop
<1>1. RingTypes' /\ RunInv' /\ CellInv' /\ PlacesInv'
  BY <1>0, ZenonT(30) DEF RingInv, RingTypes, RunInv, CellInv, PlacesInv, PerSourceFifo, Claimed
<1>2. \A t \in Sources : ~rstop[t] /\ rpc[t] # "exited"
  BY <1>0, Zenon DEF RingInv, RingStop
<1>3. RingStop'
  BY <1>0, <1>2, OwedIsHeld, Zenon DEF RingStop
<1> QED BY <1>1, <1>3, Zenon DEF RingInv

\* A step of thread s that only moves its program counter, with no batch.
Turned(s, next) ==
    /\ rpc' = [rpc EXCEPT ![s] = next]
    /\ UNCHANGED <<arrived, buf, run, ticket, write_pos, cell, joining, owed>>

LEMMA Turning ==
    ASSUME RingInv, NEW s \in Sources, NEW next \in {"poll", "drain", "exited"},
           Turned(s, next), run[s] = <<>>
    PROVE  /\ RunInv' /\ CellInv' /\ PlacesInv'
           /\ rpc' \in [Sources -> {"poll", "drain", "ticket", "write", "exited"}]
           /\ rpc'[s] = next /\ \A t \in Sources : t # s => rpc'[t] = rpc[t]
           /\ \A t \in Sources : Owing(t)' = Owing(t)
           /\ \A t \in Sources : \A a : /\ Stored(t, a)' = Stored(t, a)
                                        /\ InRun(t, a)' = InRun(t, a)
           /\ UNCHANGED <<buf, run, ticket, write_pos, cell, joining>>
<1>0. /\ rpc' \in [Sources -> {"poll", "drain", "ticket", "write", "exited"}]
      /\ rpc'[s] = next /\ \A t \in Sources : t # s => rpc'[t] = rpc[t]
      /\ UNCHANGED <<arrived, buf, run, ticket, write_pos, cell, joining, owed>>
  BY Zenon DEF Turned, RingInv, RingTypes
<1>1. /\ \A t \in Sources : Owing(t)' = Owing(t)
      /\ \A t \in Sources : \A a : /\ Stored(t, a)' = Stored(t, a)
                                   /\ InRun(t, a)' = InRun(t, a)
  BY <1>0, Zenon DEF Owing, Stored, InRun
<1>2. RunInv'
  BY <1>0, Zenon DEF RingInv, RunInv
<1>3. CellInv'
  <2>1. ASSUME NEW p \in DOMAIN cell, rpc'[cell[p].src] = "write",
               run[cell[p].src] # <<>>
        PROVE  p < ticket[cell[p].src]
    <3>1. cell[p].src \in Sources /\ cell[p].src # s
      BY <2>1, Zenon DEF RingInv, RingTypes
    <3> QED BY <1>0, <2>1, <3>1, Zenon DEF RingInv, CellInv
  <2> QED BY <1>0, <2>1, ZenonT(30) DEF RingInv, CellInv
<1>4. ASSUME NEW t \in Sources, NEW p \in Nat PROVE Claimed(t, p)' = Claimed(t, p)
  <2>1. CASE t = s
    <3>1. ticket[s] \in Nat /\ Len(run[s]) = 0
      BY Zenon DEF RingInv, RingTypes
    <3>2. ~(ticket[s] <= p /\ p < ticket[s] + Len(run[s]))
      BY <3>1, SMTT(30)
    <3> QED BY <1>0, <2>1, <3>2, Zenon DEF Claimed
  <2>2. CASE t # s
    BY <1>0, <2>2, Zenon DEF Claimed
  <2> QED BY <2>1, <2>2, Zenon
<1>5. PlacesInv'
  BY <1>0, <1>4, SMTT(30) DEF RingInv, PlacesInv, PerSourceFifo
<1> QED BY <1>0, <1>1, <1>2, <1>3, <1>5, ZenonT(30)

LEMMA RingPollStop ==
    ASSUME BuffersInv, RingInv, NEW s \in Sources, PollStop(s)
    PROVE  RingInv'
<1>0. Turned(s, "exited") /\ event /\ rstop' = rstop /\ buf[s] = <<>>
  BY Zenon DEF PollStop, Turned, LeaveEvent
<1>1. run[s] = <<>> /\ joining
  BY <1>0, Zenon DEF PollStop, RingInv, RunInv, BuffersInv
<1>2. /\ RunInv' /\ CellInv' /\ PlacesInv'
      /\ rpc' \in [Sources -> {"poll", "drain", "ticket", "write", "exited"}]
      /\ rpc'[s] = "exited" /\ \A t \in Sources : t # s => rpc'[t] = rpc[t]
      /\ \A t \in Sources : Owing(t)' = Owing(t)
      /\ \A t \in Sources : \A a : /\ Stored(t, a)' = Stored(t, a)
                                   /\ InRun(t, a)' = InRun(t, a)
      /\ UNCHANGED <<buf, run, ticket, write_pos, cell, joining>>
  BY <1>0, <1>1, Turning, Zenon
<1>3. RingTypes'
  BY <1>0, <1>2, Zenon DEF RingInv, RingTypes
<1>4. RingStop'
  <2>1. \A a : ~Held(buf[s], a)
    BY <1>0 DEF Held
  <2> QED BY <1>0, <1>1, <1>2, <2>1, ZenonT(30) DEF RingInv, RingStop
<1> QED BY <1>2, <1>3, <1>4, Zenon DEF RingInv

LEMMA RingPollReadable ==
    ASSUME BuffersInv, RingInv, NEW s \in Sources, PollReadable(s)
    PROVE  RingInv'
<1>0. /\ Turned(s, "drain")
      /\ rstop' = [rstop EXCEPT ![s] = event] /\ event = joining /\ event \in BOOLEAN
  BY Zenon DEF PollReadable, Turned, surroundings, BuffersInv
<1>1. run[s] = <<>>
  BY Zenon DEF PollReadable, RingInv, RunInv
<1>2. /\ RunInv' /\ CellInv' /\ PlacesInv'
      /\ rpc' \in [Sources -> {"poll", "drain", "ticket", "write", "exited"}]
      /\ rpc'[s] = "drain" /\ \A t \in Sources : t # s => rpc'[t] = rpc[t]
      /\ \A t \in Sources : Owing(t)' = Owing(t)
      /\ \A t \in Sources : \A a : /\ Stored(t, a)' = Stored(t, a)
                                   /\ InRun(t, a)' = InRun(t, a)
      /\ UNCHANGED <<buf, run, ticket, write_pos, cell, joining>>
  BY <1>0, <1>1, Turning, Zenon
<1>3. /\ rstop' \in [Sources -> BOOLEAN]
      /\ rstop'[s] = joining /\ \A t \in Sources : t # s => rstop'[t] = rstop[t]
  BY <1>0, Zenon DEF RingInv, RingTypes
<1>4. RingTypes'
  BY <1>2, <1>3, Zenon DEF RingInv, RingTypes
<1>5. RingStop'
  BY <1>2, <1>3, Zenon DEF RingInv, RingStop
<1> QED BY <1>2, <1>4, <1>5, Zenon DEF RingInv

LEMMA RingEndRound ==
    ASSUME RingInv, NEW s \in Sources, EndRound(s)
    PROVE  RingInv'
<1>0. PICK next \in {"poll", "exited"} :
         Turned(s, next) /\ (next = "exited" => rstop[s]) /\ rstop' = rstop
  BY Zenon DEF EndRound, Turned, surroundings
<1>1. run[s] = <<>> /\ rpc[s] = "write"
  BY Zenon DEF EndRound, BatchDone
<1>2. /\ RunInv' /\ CellInv' /\ PlacesInv'
      /\ rpc' \in [Sources -> {"poll", "drain", "ticket", "write", "exited"}]
      /\ rpc'[s] = next /\ \A t \in Sources : t # s => rpc'[t] = rpc[t]
      /\ \A t \in Sources : Owing(t)' = Owing(t)
      /\ \A t \in Sources : \A a : /\ Stored(t, a)' = Stored(t, a)
                                   /\ InRun(t, a)' = InRun(t, a)
      /\ UNCHANGED <<buf, run, ticket, write_pos, cell, joining>>
  BY <1>0, <1>1, Turning, Zenon
<1>3. RingTypes'
  BY <1>0, <1>2, Zenon DEF RingInv, RingTypes
<1>4. RingStop'
  <2>1. next # "exited" => next \notin {"exited", "ticket", "write"}
    BY Zenon
  <2> QED BY <1>0, <1>1, <1>2, <2>1, ZenonT(30) DEF RingInv, RingStop
<1> QED BY <1>2, <1>3, <1>4, Zenon DEF RingInv

\* A thread has drained its source: the frames are its batch.
LEMMA RingDrain ==
    ASSUME BuffersInv, RingInv, NEW s \in Sources, Drain(s)
    PROVE  BuffersInv' /\ RingInv'
<1> DEFINE frames == DrainedFrames(s)
<1>0. /\ Emptied(s) /\ rpc[s] = "drain" /\ run[s] = <<>>
      /\ UNCHANGED <<arrived, joining, owed, rstop, ticket, write_pos, cell>>
  BY Zenon DEF Drain, Emptied, RingInv, RunInv
<1>1. /\ BuffersInv'
      /\ \A t \in Sources : t # s => buf'[t] = buf[t]
      /\ \A t \in Sources, a \in Nat : After(buf[t], a) => After(buf'[t], a)
      /\ Split(buf[s], frames, buf'[s]) /\ UpTo(frames, arrived[s])
  BY <1>0, Draining, Zenon
<1>2. frames \in Seq(Nat)
  BY <1>1, Zenon DEF Split
<1>3. PICK next \in {"write", "ticket"} :
         /\ next = "write" => frames = <<>>
         /\ run' = [run EXCEPT ![s] = frames] /\ rpc' = [rpc EXCEPT ![s] = next]
  BY Zenon DEF Drain
<1> HIDE DEF frames
<1>4. /\ run' \in [Sources -> Seq(Nat)]
      /\ run'[s] = frames /\ \A t \in Sources : t # s => run'[t] = run[t]
      /\ rpc' \in [Sources -> {"poll", "drain", "ticket", "write", "exited"}]
      /\ rpc'[s] = next /\ \A t \in Sources : t # s => rpc'[t] = rpc[t]
  BY <1>2, <1>3, Zenon DEF RingInv, RingTypes
<1>5. RingTypes'
  BY <1>0, <1>4, Zenon DEF RingInv, RingTypes
<1>6. RunInv'
  <2>1. ASSUME NEW t \in Sources
        PROVE  /\ rpc'[t] \in {"poll", "drain", "exited"} => run'[t] = <<>>
               /\ Sorted(run'[t]) /\ UpTo(run'[t], arrived[t])
               /\ \A n \in DOMAIN run'[t] : run'[t][n] # Runt /\ After(buf'[t], run'[t][n])
    <3>1. CASE t = s
      BY <1>1, <1>4, <3>1, Zenon DEF Split
    <3>2. CASE t # s
      BY <1>1, <1>4, <3>2, ZenonT(30) DEF RingInv, RunInv
    <3> QED BY <3>1, <3>2, Zenon
  <2> QED BY <1>0, <2>1, Zenon DEF RunInv
<1>7. CellInv'
  <2>1. ASSUME NEW p \in DOMAIN cell, NEW t, t = cell[p].src, NEW a, a = cell[p].nth
        PROVE  /\ a <= arrived[t] /\ After(buf'[t], a) /\ After(run'[t], a)
               /\ rpc'[t] = "write" /\ run'[t] # <<>> => p < ticket[t]
    <3>1. t \in Sources /\ a \in Nat
      BY <2>1, Zenon DEF RingInv, RingTypes
    <3>2. /\ a <= arrived[t] /\ After(buf[t], a) /\ After(run[t], a)
          /\ rpc[t] = "write" /\ run[t] # <<>> => p < ticket[t]
      BY <2>1, Zenon DEF RingInv, CellInv
    <3>3. After(buf'[t], a)
      BY <1>1, <3>1, <3>2, Zenon
    <3>4. CASE t = s
      <4>1. After(frames, a)
        BY <1>1, <3>2, <3>4, Zenon DEF After, Split
      <4> QED BY <1>3, <1>4, <3>2, <3>3, <3>4, <4>1, Zenon
    <3>5. CASE t # s
      BY <1>4, <3>1, <3>2, <3>3, <3>5, ZenonT(30)
    <3> QED BY <3>4, <3>5, Zenon
  <2> QED BY <1>0, <2>1, Zenon DEF CellInv
<1>8. PlacesInv'
  <2>1. ASSUME NEW t \in Sources, NEW p \in Nat PROVE Claimed(t, p)' = Claimed(t, p)
    <3>1. CASE t = s
      <4>1. ~Claimed(s, p)
        BY <1>0, Zenon DEF Claimed
      <4>2. ASSUME next = "write" PROVE ~(ticket[s] <= p /\ p < ticket[s] + Len(run'[s]))
        <5>1. Len(run'[s]) = 0 /\ ticket[s] \in Nat
          BY <1>3, <1>4, <4>2, Zenon DEF RingInv, RingTypes
        <5> QED BY <5>1, SMTT(30)
      <4>3. ~Claimed(s, p)'
        BY <1>0, <1>4, <4>2, Zenon DEF Claimed
      <4> QED BY <3>1, <4>1, <4>3, Zenon DEF Claimed
    <3>2. CASE t # s
      BY <1>0, <1>4, <3>2, Zenon DEF Claimed
    <3> QED BY <3>1, <3>2, Zenon
  <2> QED BY <1>0, <2>1, SMTT(30) DEF RingInv, PlacesInv, PerSourceFifo
<1>9. RingStop'
  <2>1. \A t \in Sources : \A a : Stored(t, a)' = Stored(t, a)
    BY <1>0, Zenon DEF Stored
  <2>2. ASSUME NEW t \in Sources, NEW a \in Owing(t)'
        PROVE  /\ Stored(t, a) \/ InRun(t, a)' \/ Held(buf'[t], a)
               /\ \/ rpc'[t] = "exited"
                  \/ rpc'[t] \in {"ticket", "write"} /\ rstop[t]
                  => Stored(t, a) \/ InRun(t, a)'
    <3>1. a \in Owing(t) /\ a # Runt
      BY <1>0, Zenon DEF Owing
    <3>2. /\ Stored(t, a) \/ InRun(t, a) \/ Held(buf[t], a)
          /\ \/ rpc[t] = "exited"
             \/ rpc[t] \in {"ticket", "write"} /\ rstop[t]
             => Stored(t, a) \/ InRun(t, a)
      BY <3>1, Zenon DEF RingInv, RingStop
    <3>3. CASE t = s
      <4>1. ~InRun(s, a)
        BY <1>0 DEF InRun
      <4>2. Held(buf[s], a) => InRun(s, a)'
        BY <1>1, <1>4, <3>1, ZenonT(30) DEF Split, InRun
      <4> QED BY <3>2, <3>3, <4>1, <4>2, Zenon
    <3>4. CASE t # s
      <4>1. InRun(t, a)' = InRun(t, a) /\ buf'[t] = buf[t] /\ rpc'[t] = rpc[t]
        BY <1>1, <1>4, <3>4, Zenon DEF InRun
      <4> QED BY <3>2, <4>1, Zenon
    <3> QED BY <3>3, <3>4, Zenon
  <2>3. \A t \in Sources : (rstop[t] => joining) /\ (rpc'[t] = "exited" => joining)
    BY <1>4, Zenon DEF RingInv, RingStop
  <2> QED BY <1>0, <2>1, <2>2, <2>3, Zenon DEF RingStop
<1> QED BY <1>1, <1>5, <1>6, <1>7, <1>8, <1>9, Zenon DEF RingInv

\* A thread claims a run of positions for its batch.
LEMMA RingTicket ==
    ASSUME RingInv, NEW s \in Sources, Ticket(s)
    PROVE  RingInv'
<1>0. /\ UNCHANGED <<arrived, buf, joining, owed, rstop, run, cell>>
      /\ rpc[s] = "ticket"
      /\ ticket' = [ticket EXCEPT ![s] = write_pos]
      /\ rpc' = [rpc EXCEPT ![s] = "write"]
  BY Zenon DEF Ticket, surroundings
<1>1. PICK len \in Nat : len = Len(run[s]) /\ write_pos' = write_pos + len
  <2>1. Len(run[s]) \in Nat
    BY SMTT(30) DEF RingInv, RingTypes
  <2> QED BY <2>1, Zenon DEF Ticket
<1>2. PICK w \in Nat : w = write_pos
  BY Zenon DEF RingInv, RingTypes
<1>3. /\ ticket' \in [Sources -> Nat] /\ write_pos' \in Nat
      /\ ticket'[s] = w /\ \A t \in Sources : t # s => ticket'[t] = ticket[t]
      /\ rpc'[s] = "write" /\ \A t \in Sources : t # s => rpc'[t] = rpc[t]
  BY <1>0, <1>1, <1>2, SMTT(30) DEF RingInv, RingTypes
<1>4. rpc' \in [Sources -> {"poll", "drain", "ticket", "write", "exited"}]
  BY <1>0, Zenon DEF RingInv, RingTypes
<1>5. RingTypes'
  BY <1>0, <1>3, <1>4, Zenon DEF RingInv, RingTypes
<1>6. RunInv'
  BY <1>0, <1>3, Zenon DEF RingInv, RunInv
<1>7. \A p \in DOMAIN cell : p \in Nat /\ p < w
  BY <1>2, Zenon DEF RingInv, RingTypes, PlacesInv
<1>8. CellInv'
  <2>1. ASSUME NEW p \in DOMAIN cell, NEW t, t = cell[p].src,
               rpc'[t] = "write", run[t] # <<>>
        PROVE  p < ticket'[t]
    <3>1. t \in Sources
      BY <2>1, Zenon DEF RingInv, RingTypes
    <3>2. CASE t = s
      BY <1>3, <1>7, <3>2, Zenon
    <3>3. CASE t # s
      BY <1>3, <2>1, <3>1, <3>3, Zenon DEF RingInv, CellInv
    <3> QED BY <3>2, <3>3, Zenon
  <2> QED BY <1>0, <2>1, Zenon DEF RingInv, CellInv
<1>9. PlacesInv'
  <2>1. \A t \in Sources, p \in Nat : t # s => Claimed(t, p)' = Claimed(t, p)
    BY <1>0, <1>3, Zenon DEF Claimed
  <2>2. \A p \in Nat : ~Claimed(s, p) /\ (Claimed(s, p)' <=> w <= p /\ p < w + len)
    BY <1>0, <1>1, <1>3, Zenon DEF Claimed
  <2>3. /\ \A p \in Nat : p < w <=> p \in DOMAIN cell \/ \E t \in Sources : Claimed(t, p)
        /\ \A t \in Sources, p \in Nat : Claimed(t, p) =>
              /\ p \notin DOMAIN cell
              /\ \A u \in Sources : Claimed(u, p) => u = t
    BY <1>2, Zenon DEF RingInv, PlacesInv
  <2>4. ASSUME NEW p \in Nat
        PROVE  p < w + len <=> p \in DOMAIN cell \/ \E t \in Sources : Claimed(t, p)'
    <3>1. p < w + len <=> p < w \/ (w <= p /\ p < w + len)
      BY SMTT(30)
    <3>2. (\E t \in Sources : Claimed(t, p)') <=>
             (\E t \in Sources : Claimed(t, p)) \/ (w <= p /\ p < w + len)
      BY <2>1, <2>2, Zenon
    <3> QED BY <2>3, <3>1, <3>2, Zenon
  <2>5. ASSUME NEW t \in Sources, NEW p \in Nat, Claimed(t, p)'
        PROVE  p \notin DOMAIN cell /\ \A u \in Sources : Claimed(u, p)' => u = t
    <3>1. CASE t = s
      <4>1. ~(p < w)
        BY <2>2, <2>5, <3>1, SMTT(30)
      <4> QED BY <2>1, <2>3, <3>1, <4>1, Zenon
    <3>2. CASE t # s
      <4>1. Claimed(t, p)
        BY <2>1, <2>5, <3>2, Zenon
      <4>2. p < w
        BY <2>3, <4>1, Zenon
      <4>3. ~Claimed(s, p)'
        BY <2>2, <4>2, SMTT(30)
      <4> QED BY <2>1, <2>3, <4>1, <4>3, Zenon
    <3> QED BY <3>1, <3>2, Zenon
  <2>6. PerSourceFifo'
    BY <1>0, Zenon DEF RingInv, PlacesInv, PerSourceFifo
  <2>7. write_pos' = w + len /\ cell' = cell
    BY <1>0, <1>1, <1>2, Zenon
  <2> QED BY <2>4, <2>5, <2>6, <2>7, Zenon DEF PlacesInv
<1>10. RingStop'
  <2>1. \A t \in Sources : Owing(t)' = Owing(t)
    BY <1>0, Zenon DEF Owing
  <2>2. \A t \in Sources : \A a : /\ Stored(t, a)' = Stored(t, a)
                                  /\ InRun(t, a)' = InRun(t, a)
    BY <1>0, Zenon DEF Stored, InRun
  <2>3. \A t \in Sources : rpc'[t] = rpc[t] \/ (rpc[t] = "ticket" /\ rpc'[t] = "write")
    BY <1>0, <1>3, Zenon
  <2> QED BY <1>0, <2>1, <2>2, <2>3, ZenonT(30) DEF RingInv, RingStop
<1> QED BY <1>5, <1>6, <1>8, <1>9, <1>10, Zenon DEF RingInv

\* A thread writes the first frame of its batch at the next of its positions.
Publishes(p, f) ==
    /\ DOMAIN cell' = DOMAIN cell \cup {p} /\ cell'[p] = f
    /\ \A q \in DOMAIN cell : q # p => cell'[q] = cell[q]

\* r has a first element and e others.
Popping(r, e) ==
    /\ Len(r) = e + 1 /\ DOMAIN r = 1 .. e + 1
    /\ r[1] \in Nat /\ Head(r) = r[1]
    /\ Tail(r) \in Seq(Nat) /\ Len(Tail(r)) = e /\ DOMAIN Tail(r) = 1 .. e
    /\ \A n \in 1 .. e : Tail(r)[n] = r[n + 1]

LEMMA Pops ==
    ASSUME NEW r \in Seq(Nat), r # <<>>
    PROVE  \E e \in Nat : Popping(r, e)
<1>1. PICK n \in Nat : Len(r) = n /\ DOMAIN r = 1 .. n
  BY SMTT(30)
<1>2. n # 0
  BY <1>1, SMTT(30)
<1>3. PICK e \in Nat : n = e + 1
  <2>1. n - 1 \in Nat /\ n = (n - 1) + 1
    BY <1>2, SMTT(30)
  <2> QED BY <2>1, Zenon
<1>4. Tail(r) \in Seq(Nat) /\ Len(Tail(r)) = e /\ \A k \in 1 .. e : Tail(r)[k] = r[k + 1]
  BY <1>1, <1>3, SMTT(30)
<1>5. 1 \in 1 .. n /\ Head(r) = r[1]
  BY <1>1, <1>2, SMTT(30)
<1> QED BY <1>1, <1>3, <1>4, <1>5, SMTT(30) DEF Popping

LEMMA RingWrite ==
    ASSUME RingInv, NEW s \in Sources, WriteAt(s)
    PROVE  RingInv'
<1>0. /\ UNCHANGED <<arrived, buf, joining, owed, rpc, rstop, write_pos>>
      /\ rpc[s] = "write" /\ run[s] # <<>>
      /\ run' = [run EXCEPT ![s] = Tail(run[s])]
      /\ ticket' = [ticket EXCEPT ![s] = ticket[s] + 1]
  BY Zenon DEF WriteAt, BatchDone, surroundings
<1>1. PICK w \in Nat, pos \in Nat : w = write_pos /\ pos = ticket[s]
  BY Zenon DEF RingInv, RingTypes
<1>2. PICK r \in Seq(Nat) : r = run[s] /\ r # <<>>
  BY <1>0, Zenon DEF RingInv, RingTypes
<1>3. PICK e \in Nat : Popping(r, e)
  BY <1>2, Pops, Zenon
<1>3a. Len(r) = e + 1 /\ DOMAIN r = 1 .. e + 1
  BY <1>3, Zenon DEF Popping
<1>4. PICK a \in Nat : a = r[1] /\ a = Head(r)
  BY <1>3, Zenon DEF Popping
<1>5. PICK y \in Seq(Nat) : /\ y = Tail(r) /\ Len(y) = e /\ DOMAIN y = 1 .. e
                            /\ \A n \in 1 .. e : y[n] = r[n + 1]
  BY <1>3, Zenon DEF Popping
<1> DEFINE f == [src |-> s, nth |-> a]
<1>6. f = [src |-> s, nth |-> a] /\ f.src = s /\ f.nth = a
  BY Zenon
<1>7. Publishes(pos, f)
  <2>1. cell' = [p \in DOMAIN cell \cup {pos} |-> IF p = pos THEN f ELSE cell[p]]
    BY <1>1, <1>2, <1>4, ZenonT(30) DEF WriteAt, NextPos
  <2> HIDE DEF f
  <2> QED BY <2>1, Zenon DEF Publishes
<1> HIDE DEF f
<1>8. /\ run' \in [Sources -> Seq(Nat)]
      /\ run'[s] = y /\ \A t \in Sources : t # s => run'[t] = run[t]
      /\ ticket' \in [Sources -> Nat]
      /\ ticket'[s] = pos + 1 /\ \A t \in Sources : t # s => ticket'[t] = ticket[t]
  <2>1. run \in [Sources -> Seq(Nat)] /\ ticket \in [Sources -> Nat]
    BY Zenon DEF RingInv, RingTypes
  <2>2. run' = [run EXCEPT ![s] = y] /\ ticket' = [ticket EXCEPT ![s] = pos + 1]
    BY <1>0, <1>1, <1>2, <1>5, Zenon
  <2>3. pos + 1 \in Nat
    OBVIOUS
  <2>4. /\ run' \in [Sources -> Seq(Nat)]
        /\ run'[s] = y /\ \A t \in Sources : t # s => run'[t] = run[t]
    BY <2>1, <2>2, Zenon
  <2>5. /\ ticket' \in [Sources -> Nat]
        /\ ticket'[s] = pos + 1 /\ \A t \in Sources : t # s => ticket'[t] = ticket[t]
    BY <2>1, <2>2, <2>3, Zenon
  <2> QED BY <2>4, <2>5, Zenon
<1>9. /\ \A n \in 1 .. e + 1 : n = 1 \/ (n - 1 \in 1 .. e /\ y[n - 1] = r[n])
      /\ \A n \in 1 .. e : n + 1 \in 1 .. e + 1 /\ y[n] = r[n + 1]
  BY <1>5, SMTT(30)
<1>10. /\ Sorted(r) /\ UpTo(r, arrived[s])
       /\ \A n \in 1 .. e + 1 : r[n] # Runt /\ After(buf[s], r[n])
  BY <1>2, <1>3a, Zenon DEF RingInv, RunInv
<1>11. /\ a # Runt /\ a <= arrived[s] /\ After(buf[s], a)
       /\ After(y, a)
  <2>1. 1 \in 1 .. e + 1
    OBVIOUS
  <2>2. ASSUME NEW n \in 1 .. e PROVE a < r[n + 1]
    <3>1. PICK m \in 1 .. e + 1 : m = n + 1 /\ 1 < m
      BY SMTT(30)
    <3>2. r[1] # Runt /\ r[m] # Runt
      BY <1>10, <2>1, Zenon
    <3> QED BY <1>3a, <1>4, <1>10, <2>1, <3>1, <3>2, Zenon DEF Sorted
  <2> QED BY <1>3a, <1>4, <1>5, <1>10, <2>1, <2>2, SMTT(30) DEF After, UpTo
<1>12. Claimed(s, pos)
  BY <1>0, <1>1, <1>2, <1>3a, SMTT(30) DEF Claimed
<1>13. /\ pos \notin DOMAIN cell /\ pos < w
       /\ \A t \in Sources : Claimed(t, pos) => t = s
  BY <1>1, <1>12, Zenon DEF RingInv, PlacesInv
<1>14. RingTypes'
  <2>1. DOMAIN cell' \in SUBSET Nat
    BY <1>7, Zenon DEF Publishes, RingInv, RingTypes
  <2>2. \A p \in DOMAIN cell' : cell'[p] \in [src : Sources, nth : Nat]
    BY <1>6, <1>7, SMTT(30) DEF Publishes, RingInv, RingTypes
  <2> QED BY <1>0, <1>8, <2>1, <2>2, Zenon DEF RingInv, RingTypes
<1>15. RunInv'
  <2>0. UpTo(y, arrived[s])
    <3>1. \A n \in 1 .. e + 1 : r[n] <= arrived[s]
      BY <1>3a, <1>10, Zenon DEF UpTo
    <3> QED BY <1>5, <1>9, <3>1, Zenon DEF UpTo
  <2>1. Sorted(y)
    <3>1. ASSUME NEW m \in 1 .. e, NEW n \in 1 .. e, m < n PROVE y[m] < y[n]
      <4>1. PICK x \in 1 .. e + 1, z \in 1 .. e + 1 : x = m + 1 /\ z = n + 1 /\ x < z
        BY <3>1, SMTT(30)
      <4>2. y[m] = r[x] /\ y[n] = r[z] /\ r[x] # Runt /\ r[z] # Runt
        BY <1>9, <1>10, <4>1, Zenon
      <4> QED BY <1>3a, <1>10, <4>1, <4>2, Zenon DEF Sorted
    <3> QED BY <1>5, <3>1, Zenon DEF Sorted
  <2>2. \A n \in 1 .. e : y[n] # Runt /\ After(buf[s], y[n])
    BY <1>9, <1>10, ZenonT(30)
  <2>3. ASSUME NEW t \in Sources
        PROVE  /\ rpc[t] \in {"poll", "drain", "exited"} => run'[t] = <<>>
               /\ Sorted(run'[t]) /\ UpTo(run'[t], arrived[t])
               /\ \A n \in DOMAIN run'[t] : run'[t][n] # Runt /\ After(buf[t], run'[t][n])
    <3>1. CASE t = s
      BY <1>0, <1>5, <1>8, <2>0, <2>1, <2>2, <3>1, Zenon
    <3>2. CASE t # s
      BY <1>8, <3>2, Zenon DEF RingInv, RunInv
    <3> QED BY <3>1, <3>2, Zenon
  <2> QED BY <1>0, <2>3, Zenon DEF RunInv
<1>16. CellInv'
  <2>1. ASSUME NEW p \in DOMAIN cell', NEW t, t = cell'[p].src, NEW b, b = cell'[p].nth
        PROVE  /\ b <= arrived[t] /\ After(buf[t], b) /\ After(run'[t], b)
               /\ rpc[t] = "write" /\ run'[t] # <<>> => p < ticket'[t]
    <3>1. CASE p = pos
      <4>1. t = s /\ b = a
        BY <1>6, <1>7, <2>1, <3>1, ZenonT(30) DEF Publishes
      <4>2. p < ticket'[t] /\ run'[t] = y
        BY <1>8, <3>1, <4>1, SMTT(30)
      <4> QED BY <1>11, <4>1, <4>2, ZenonT(30)
    <3>2. CASE p # pos
      <4>1. p \in DOMAIN cell /\ t = cell[p].src /\ b = cell[p].nth
        BY <1>7, <2>1, <3>2, Zenon DEF Publishes
      <4>2. /\ b <= arrived[t] /\ After(buf[t], b) /\ After(run[t], b)
            /\ rpc[t] = "write" /\ run[t] # <<>> => p < ticket[t]
            /\ t \in Sources /\ p \in Nat
        BY <4>1, Zenon DEF RingInv, CellInv, RingTypes
      <4>3. CASE t = s
        <5>1. p < pos + 1
          <6>1. p \in Nat /\ p < pos
            BY <1>0, <1>1, <4>2, <4>3, Zenon
          <6> QED BY <6>1, SMTT(30)
        <5>2. After(y, b)
          <6>1. After(r, b)
            BY <1>2, <4>2, <4>3, Zenon
          <6> QED BY <1>3a, <1>5, <1>9, <6>1, ZenonT(30) DEF After
        <5> QED BY <1>8, <4>2, <4>3, <5>1, <5>2, ZenonT(30)
      <4>4. CASE t # s
        BY <1>8, <4>2, <4>4, Zenon
      <4> QED BY <4>3, <4>4, Zenon
    <3> QED BY <3>1, <3>2, Zenon
  <2> QED BY <1>0, <2>1, Zenon DEF CellInv
<1>17. PlacesInv'
  <2>1. PerSourceFifo'
    <3>1. \A p \in DOMAIN cell : cell[p].src = s =>
              /\ p \in Nat /\ p < pos
              /\ cell[p].nth \in Nat /\ cell[p].nth < a
      <4>1. ASSUME NEW p \in DOMAIN cell, cell[p].src = s
            PROVE  p \in Nat /\ p < pos /\ After(r, cell[p].nth) /\ cell[p].nth \in Nat
        BY <1>0, <1>1, <1>2, <4>1, Zenon DEF RingInv, CellInv, RingTypes
      <4>2. 1 \in DOMAIN r
        BY <1>3a, SMTT(30)
      <4> QED BY <1>4, <1>11, <4>1, <4>2, Zenon DEF After
    <3>2. ASSUME NEW p \in DOMAIN cell', NEW q \in DOMAIN cell', p < q,
                 cell'[p].src = cell'[q].src
          PROVE  cell'[p].nth < cell'[q].nth
      <4>0. \A x \in DOMAIN cell' : x = pos \/ (x \in DOMAIN cell /\ cell'[x] = cell[x])
        BY <1>7, Zenon DEF Publishes
      <4>1. CASE p = pos
        <5>1. q \in DOMAIN cell /\ cell[q].src = s
          BY <1>1, <1>6, <1>7, <3>2, <4>0, <4>1, SMTT(30) DEF Publishes
        <5> QED BY <3>1, <3>2, <4>1, <5>1, SMTT(30)
      <4>2. CASE q = pos /\ p # pos
        <5>1. p \in DOMAIN cell /\ cell'[p] = cell[p] /\ cell'[q] = f
          BY <1>7, <4>0, <4>2, Zenon DEF Publishes
        <5> QED BY <1>6, <3>1, <3>2, <5>1, ZenonT(30)
      <4>3. CASE p # pos /\ q # pos
        <5>1. p \in DOMAIN cell /\ q \in DOMAIN cell
              /\ cell'[p] = cell[p] /\ cell'[q] = cell[q]
          BY <4>0, <4>3, Zenon
        <5> QED BY <3>2, <5>1, Zenon DEF RingInv, PlacesInv, PerSourceFifo
      <4> QED BY <4>1, <4>2, <4>3, Zenon
    <3> QED BY <3>2, Zenon DEF PerSourceFifo
  <2>2. \A t \in Sources, p \in Nat : t # s => Claimed(t, p)' = Claimed(t, p)
    BY <1>0, <1>8, Zenon DEF Claimed
  <2>3. \A p \in Nat : Claimed(s, p)' <=> Claimed(s, p) /\ p # pos
    <3>1. \A p \in Nat : Claimed(s, p) <=> pos <= p /\ p < pos + (e + 1)
      BY <1>0, <1>1, <1>2, <1>3a, Zenon DEF Claimed
    <3>2. \A p \in Nat : Claimed(s, p)' <=> pos + 1 <= p /\ p < pos + 1 + e
      BY <1>0, <1>5, <1>8, Zenon DEF Claimed
    <3>3. \A p \in Nat : pos + 1 <= p /\ p < pos + 1 + e <=>
                            pos <= p /\ p < pos + (e + 1) /\ p # pos
      BY SMTT(30)
    <3> QED BY <3>1, <3>2, <3>3, Zenon
  <2>4. /\ \A p \in Nat : p < w <=> p \in DOMAIN cell \/ \E t \in Sources : Claimed(t, p)
        /\ \A t \in Sources, p \in Nat : Claimed(t, p) =>
              /\ p \notin DOMAIN cell
              /\ \A u \in Sources : Claimed(u, p) => u = t
    BY <1>1, Zenon DEF RingInv, PlacesInv
  <2>5. \A p : p \in DOMAIN cell' <=> p \in DOMAIN cell \/ p = pos
    BY <1>7, Zenon DEF Publishes
  <2>6. ASSUME NEW p \in Nat
        PROVE  p < w <=> p \in DOMAIN cell' \/ \E t \in Sources : Claimed(t, p)'
    <3>1. CASE p = pos
      BY <1>13, <2>5, <3>1, Zenon
    <3>2. CASE p # pos
      <4>1. \A t \in Sources : Claimed(t, p)' <=> Claimed(t, p)
        BY <2>2, <2>3, <3>2, Zenon
      <4> QED BY <2>4, <2>5, <3>2, <4>1, Zenon
    <3> QED BY <3>1, <3>2, Zenon
  <2>7. ASSUME NEW t \in Sources, NEW p \in Nat, Claimed(t, p)'
        PROVE  p \notin DOMAIN cell' /\ \A u \in Sources : Claimed(u, p)' => u = t
    <3>1. \A u \in Sources : Claimed(u, p)' => Claimed(u, p)
      BY <2>2, <2>3, Zenon
    <3>2. p # pos
      BY <1>13, <2>3, <2>7, <3>1, Zenon
    <3> QED BY <2>4, <2>5, <2>7, <3>1, <3>2, Zenon
  <2>8. write_pos' = w
    BY <1>0, <1>1, Zenon
  <2> QED BY <2>1, <2>6, <2>7, <2>8, Zenon DEF PlacesInv
<1>18. RingStop'
  <2>1. \A t \in Sources : Owing(t)' = Owing(t)
    BY <1>0, ZenonT(30) DEF Owing
  <2>2. ASSUME NEW t \in Sources, NEW b, Stored(t, b) PROVE Stored(t, b)'
    <3>1. PICK p \in DOMAIN cell : cell[p] = [src |-> t, nth |-> b]
      BY <2>2, Zenon DEF Stored
    <3>2. p \in DOMAIN cell' /\ cell'[p] = cell[p]
      BY <1>7, <1>13, Zenon DEF Publishes
    <3> QED BY <3>1, <3>2, Zenon DEF Stored
  <2>3. Stored(s, a)'
    <3>1. pos \in DOMAIN cell' /\ cell'[pos] = [src |-> s, nth |-> a]
      BY <1>6, <1>7, Zenon DEF Publishes
    <3> QED BY <3>1, Zenon DEF Stored
  <2>4. ASSUME NEW t \in Sources, NEW b, InRun(t, b) PROVE Stored(t, b)' \/ InRun(t, b)'
    <3>1. CASE t = s
      <4>1. PICK n \in 1 .. e + 1 : r[n] = b
        BY <1>2, <1>3a, <2>4, <3>1, Zenon DEF InRun
      <4>2. CASE n = 1
        BY <1>4, <2>3, <3>1, <4>1, <4>2, Zenon
      <4>3. CASE n # 1
        <5>1. n - 1 \in DOMAIN y /\ y[n - 1] = b
          BY <1>5, <1>9, <4>1, <4>3, Zenon
        <5> QED BY <1>8, <3>1, <5>1, Zenon DEF InRun
      <4> QED BY <4>2, <4>3, Zenon
    <3>2. CASE t # s
      BY <1>8, <2>4, <3>2, Zenon DEF InRun
    <3> QED BY <3>1, <3>2, Zenon
  <2> QED BY <1>0, <2>1, <2>2, <2>4, Zenon DEF RingInv, RingStop
<1> QED BY <1>14, <1>15, <1>16, <1>17, <1>18, Zenon DEF RingInv

----------------------------------------------------------------------------
(* Both topologies.                                                        *)

LEMMA BuffersAtFirst ==
    ASSUME SurroundingsInit PROVE BuffersInv
<1>1. /\ arrived \in [Sources -> Nat] /\ buf \in [Sources -> Seq(Nat)]
      /\ owed \in [Sources -> Seq(Nat)]
      /\ \A s \in Sources : DOMAIN buf[s] = {}
  BY DEF SurroundingsInit
<1>2. joining \in BOOLEAN /\ event = joining
  BY Zenon DEF SurroundingsInit
<1>3. \A s \in Sources : Sorted(buf[s]) /\ UpTo(buf[s], arrived[s])
  BY <1>1, Zenon DEF Sorted, UpTo
<1> QED BY <1>1, <1>2, <1>3, Zenon DEF BuffersInv

\* The thread of the other topology never runs.
LEMMA FanOutAtFirst ==
    ASSUME FanOutInit
    PROVE  FanOutTypes /\ LogInv /\ SinkInv
<1>0. /\ pc = "poll" /\ revents = {} /\ stop_seen = FALSE /\ i = 1 /\ j = 1
      /\ batch = <<>> /\ next_seq = 0 /\ log = <<>>
      /\ sink = [q \in Sinks |-> <<>>]
  BY Zenon DEF FanOutInit
<1>1. FanOutTypes
  <2>1. <<>> \in Seq(Stamped)
    OBVIOUS
  <2>2. /\ batch \in Seq(Stamped) /\ log \in Seq(Stamped)
        /\ sink \in [Sinks -> Seq(Stamped)]
    BY <1>0, <2>1, Zenon
  <2>3. i \in Nat /\ i >= 1 /\ j \in Sinks /\ next_seq \in Nat
    BY <1>0, FanOutAssumption, SMTT(30) DEF Sinks
  <2>4. /\ pc \in {"poll", "scan", "push", "exited"}
        /\ revents \in SUBSET Sources /\ stop_seen \in BOOLEAN
    BY <1>0, Zenon
  <2> QED BY <2>2, <2>3, <2>4, Zenon DEF FanOutTypes
<1>2. Len(log) = 0 /\ DOMAIN log = {} /\ log \in Seq(Stamped) /\ next_seq = 0
  BY <1>1, SMTT(30) DEF FanOutInit, FanOutTypes
<1>3. LogInv
  BY <1>2, Zenon DEF LogInv, DenseAndFifo
<1>4. RunOf(<<>>, log, Len(log))
  <2>1. Len(log) \in Nat /\ Len(log) <= Len(log)
    BY <1>2, SMTT(30)
  <2> QED BY <1>2, <2>1, EmptyRun, Zenon
<1>5. SinkInv
  BY <1>2, <1>4, Zenon DEF FanOutInit, SinkInv, Given
<1> QED BY <1>1, <1>3, <1>5, Zenon

LEMMA RingAtFirst ==
    ASSUME SurroundingsInit, RingIngestInit
    PROVE  RingInv
<1>1. /\ rpc \in [Sources -> {"poll"}] /\ rstop \in [Sources -> {FALSE}]
      /\ run \in [Sources -> Seq(Nat)] /\ \A s \in Sources : run[s] = <<>>
      /\ ticket \in [Sources -> Nat] /\ write_pos = 0 /\ DOMAIN cell = {}
  BY SMTT(30) DEF RingIngestInit
<1>2. \A s \in Sources : DOMAIN run[s] = {} /\ rpc[s] = "poll" /\ ~rstop[s]
  <2>1. \A s \in Sources : rpc[s] = "poll" /\ ~rstop[s]
    BY Zenon DEF RingIngestInit
  <2>2. \A s \in Sources : DOMAIN run[s] = {}
    BY <1>1, SMTT(30)
  <2> QED BY <2>1, <2>2, Zenon
<1>3. RingTypes
  <2>1. rstop \in [Sources -> BOOLEAN]
    BY <1>1, ZenonT(30)
  <2> QED BY <1>1, <2>1, Zenon DEF RingTypes
<1>4. RunInv /\ CellInv
  BY <1>1, <1>2, Zenon DEF RunInv, CellInv, Sorted, UpTo
<1>5. PlacesInv
  BY <1>1, <1>2, SMTT(30) DEF PlacesInv, PerSourceFifo, Claimed
<1>6. \A s \in Sources : Owing(s) = {}
  BY Zenon DEF Owing, SurroundingsInit
<1>7. RingStop
  BY <1>2, <1>6, Zenon DEF RingStop
<1> QED BY <1>3, <1>4, <1>5, <1>7, Zenon DEF RingInv

LEMMA IngestInitial == Init => IngestInv
<1> SUFFICES ASSUME Init PROVE IngestInv
  BY Zenon
<1>1. topology \in {"queue", "ring"} /\ SurroundingsInit /\ FanOutInit /\ RingIngestInit
  BY Zenon DEF Init
<1>2. \A s \in Sources : Owing(s) = {}
  BY <1>1, Zenon DEF Owing, SurroundingsInit
<1>3. FanOutStop
  BY <1>1, <1>2, Zenon DEF FanOutStop, FanOutInit
<1> QED BY <1>1, <1>3, BuffersAtFirst, FanOutAtFirst, RingAtFirst, Zenon DEF IngestInv, FanOutInv

LEMMA OutsideKeeps ==
    ASSUME IngestInv, Outside
    PROVE  IngestInv'
<1>0. /\ UNCHANGED fanOutVars /\ UNCHANGED ringIngestVars /\ topology' = topology
      /\ BuffersInv
  BY Zenon DEF Outside, IngestInv
<1>1. (FanOutInit => FanOutInit') /\ (RingIngestInit => RingIngestInit')
  BY <1>0, Zenon DEF FanOutInit, fanOutVars, RingIngestInit, ringIngestVars, threads
<1>2. CASE Stop
  <2>1. BuffersInv'
    BY <1>0, <1>2, Zenon DEF Stop, BuffersInv
  <2>2. (FanOutInv => FanOutInv') /\ (RingInv => RingInv')
    BY <1>0, <1>2, FanOutStopped, RingStopped, Zenon
  <2> QED BY <1>0, <1>1, <2>1, <2>2, Zenon DEF IngestInv
<1>3. ASSUME NEW s \in Sources, ArriveFrame(s) \/ ArriveRunt(s) PROVE IngestInv'
  <2>1. BuffersInv'
    BY <1>0, <1>3, Arrival, Zenon
  <2>2. (FanOutInv => FanOutInv') /\ (RingInv => RingInv')
    BY <1>0, <1>3, FanOutArrive, RingArrive, Zenon
  <2> QED BY <1>0, <1>1, <2>1, <2>2, Zenon DEF IngestInv
<1> QED BY <1>2, <1>3, Zenon DEF Outside

\* Steps of the one thread, or of its consumers.
LEMMA QueueKeeps ==
    ASSUME IngestInv, Consume \/ RunFanOut
    PROVE  IngestInv'
<1>0. /\ topology = "queue" /\ topology' = topology /\ UNCHANGED ringIngestVars
      /\ BuffersInv /\ FanOutInv /\ RingIngestInit
  BY Zenon DEF Consume, RunFanOut, IngestInv
<1>1. RingIngestInit'
  BY <1>0, Zenon DEF RingIngestInit, ringIngestVars, threads
<1>2. UNCHANGED surroundings => BuffersInv'
  BY <1>0, Zenon DEF surroundings, BuffersInv
<1>3. BuffersInv' /\ FanOutInv'
  <2>1. ASSUME NEW q \in Sinks, PopSink(q) PROVE BuffersInv' /\ FanOutInv'
    BY <1>0, <1>2, <2>1, FanOutPop, Zenon DEF PopSink
  <2>2. CASE Poll \/ SkipSource \/ EndScan
    <3>1. UNCHANGED surroundings
      BY <2>2, Zenon DEF Poll, SkipSource, EndScan
    <3> QED BY <1>0, <1>2, <2>2, <3>1, FanOutScan, Zenon
  <2>3. CASE DrainSource
    BY <1>0, <2>3, FanOutDrain, Zenon
  <2>4. CASE PushSink
    <3>1. UNCHANGED surroundings
      BY <2>4, Zenon DEF PushSink
    <3> QED BY <1>0, <1>2, <2>4, <3>1, FanOutPush, Zenon
  <2> QED BY <2>1, <2>2, <2>3, <2>4, Zenon DEF Consume, RunFanOut, FanOutRun
<1> QED BY <1>0, <1>1, <1>3, Zenon DEF IngestInv

LEMMA RingKeeps ==
    ASSUME IngestInv, NEW s \in Sources, RunRingIngest(s)
    PROVE  IngestInv'
<1>0. /\ topology = "ring" /\ topology' = topology /\ UNCHANGED fanOutVars
      /\ BuffersInv /\ RingInv /\ FanOutInit
  BY Zenon DEF RunRingIngest, IngestInv
<1>1. FanOutInit'
  BY <1>0, Zenon DEF FanOutInit, fanOutVars
<1>2. UNCHANGED surroundings => BuffersInv'
  BY <1>0, Zenon DEF surroundings, BuffersInv
<1>3. BuffersInv' /\ RingInv'
  <2>1. CASE PollStop(s)
    <3>1. UNCHANGED surroundings
      BY <2>1, Zenon DEF PollStop, LeaveEvent, surroundings
    <3> QED BY <1>0, <1>2, <2>1, <3>1, RingPollStop, Zenon
  <2>2. CASE PollReadable(s)
    BY <1>0, <1>2, <2>2, RingPollReadable, Zenon DEF PollReadable
  <2>3. CASE Drain(s)
    BY <1>0, <2>3, RingDrain, Zenon
  <2>4. CASE Ticket(s)
    BY <1>0, <1>2, <2>4, RingTicket, Zenon DEF Ticket
  <2>5. CASE WriteAt(s)
    BY <1>0, <1>2, <2>5, RingWrite, Zenon DEF WriteAt
  <2>6. CASE EndRound(s)
    BY <1>0, <1>2, <2>6, RingEndRound, Zenon DEF EndRound
  <2> QED BY <2>1, <2>2, <2>3, <2>4, <2>5, <2>6, Zenon DEF RunRingIngest, RingIngestRun
<1> QED BY <1>0, <1>1, <1>3, Zenon DEF IngestInv

LEMMA IngestStep == IngestInv /\ [Next]_vars => IngestInv'
<1> SUFFICES ASSUME IngestInv, [Next]_vars PROVE IngestInv'
  BY Zenon
<1>1. CASE UNCHANGED vars
  <2>1. /\ UNCHANGED <<arrived, buf, joining, event, owed, topology>>
        /\ UNCHANGED <<pc, revents, stop_seen, i, j, batch, next_seq, sink, log>>
        /\ UNCHANGED <<rpc, rstop, run, ticket, write_pos, cell>>
    BY <1>1, Zenon DEF vars, surroundings, fanOutVars, ringIngestVars, threads
  <2>2. BuffersInv' = BuffersInv /\ FanOutInit' = FanOutInit
        /\ RingIngestInit' = RingIngestInit
    BY <2>1, Zenon DEF BuffersInv, FanOutInit, RingIngestInit
  <2>3. FanOutInv' = FanOutInv
    <3>1. FanOutTypes' = FanOutTypes
      BY <2>1, Zenon DEF FanOutTypes
    <3>2. LogInv' = LogInv
      BY <2>1, Zenon DEF LogInv, DenseAndFifo
    <3>3. SinkInv' = SinkInv
      BY <2>1, ZenonT(30) DEF SinkInv, Given
    <3>4. FanOutStop' = FanOutStop
      <4>1. \A s \in Sources : Owing(s)' = Owing(s)
        BY <2>1, Zenon DEF Owing
      <4>2. \A s \in Sources : \A a : Logged(s, a)' = Logged(s, a)
        BY <2>1, Zenon DEF Logged
      <4>3. \A s \in Sources : Passed(s)' = Passed(s)
        BY <2>1, Zenon DEF Passed
      <4> QED BY <2>1, <4>1, <4>2, <4>3, Zenon DEF FanOutStop
    <3> QED BY <3>1, <3>2, <3>3, <3>4, Zenon DEF FanOutInv
  <2>4. RingInv' = RingInv
    <3>1. RingTypes' = RingTypes
      BY <2>1, Zenon DEF RingTypes
    <3>2. RunInv' = RunInv /\ CellInv' = CellInv
      BY <2>1, Zenon DEF RunInv, CellInv
    <3>3. PlacesInv' = PlacesInv
      BY <2>1, Zenon DEF PlacesInv, PerSourceFifo, Claimed
    <3>4. RingStop' = RingStop
      BY <2>1, ZenonT(30) DEF RingStop, Owing, Stored, InRun
    <3> QED BY <3>1, <3>2, <3>3, <3>4, Zenon DEF RingInv
  <2> QED BY <2>1, <2>2, <2>3, <2>4, ZenonT(30) DEF IngestInv
<1>2. CASE Outside
  BY <1>2, OutsideKeeps, Zenon
<1>3. CASE Consume \/ RunFanOut
  BY <1>3, QueueKeeps, Zenon
<1>4. ASSUME NEW s \in Sources, RunRingIngest(s) PROVE IngestInv'
  BY <1>4, RingKeeps, Zenon
<1> QED BY <1>1, <1>2, <1>3, <1>4, Zenon DEF Next

----------------------------------------------------------------------------
(* The theorems.                                                           *)

\* Everything the ingest side relies on, in either topology: the batch of each
\* thread and what it published are in the order of the source, every claimed
\* position is written or about to be, and what a stop owes is still there.
THEOREM IngestInvariant == Spec => []IngestInv
<1>1. Init => IngestInv
  BY IngestInitial, Zenon
<1>2. IngestInv /\ [Next]_vars => IngestInv'
  BY IngestStep, Zenon
<1> QED BY <1>1, <1>2, PTL DEF Spec

\* Topology A: each sink holds an unbroken run of the one stamped sequence, for
\* any number of sources and sinks and any capacity (FanOut::run, push_batch).
THEOREM SinksHoldOneSequence == Spec => []SinksAgree
<1>1. IngestInv => SinksAgree
  <2> SUFFICES ASSUME IngestInv, NEW q \in Sinks
               PROVE  sink[q] = SubSeq(log, Given(q) - Len(sink[q]) + 1, Given(q))
    BY Zenon DEF SinksAgree, Given
  <2>1. FanOutTypes /\ SinkInv
    BY FanOutAtFirst, Zenon DEF IngestInv, FanOutInv
  <2>2. sink[q] \in Seq(Stamped) /\ log \in Seq(Stamped) /\ RunOf(sink[q], log, Given(q))
    BY <2>1, Zenon DEF FanOutTypes, SinkInv
  <2>3. Given(q) \in Nat
    BY <2>2, RunEnds, Zenon
  <2> QED BY <2>2, <2>3, RunIsSubSeq, Zenon
<1> QED BY <1>1, IngestInvariant, PTL

\* Sequence numbers are dense and every source keeps its order, however the
\* threads interleave (FanOut::run; RingIngest::run with publish_batch).
THEOREM IngestOrder == Spec => []OrderKept
<1>1. IngestInv => OrderKept
  <2> SUFFICES ASSUME IngestInv PROVE OrderKept
    BY Zenon
  <2>1. DenseAndFifo
    BY FanOutAtFirst, Zenon DEF IngestInv, FanOutInv, LogInv
  <2>2. CASE topology = "ring"
    BY <2>1, <2>2, Zenon DEF IngestInv, RingInv, PlacesInv, OrderKept
  <2>3. CASE topology = "queue"
    <3>1. DOMAIN cell = {}
      BY <2>3, SMTT(30) DEF IngestInv, RingIngestInit
    <3> QED BY <2>1, <3>1, Zenon DEF OrderKept, PerSourceFifo
  <2> QED BY <2>2, <2>3, Zenon DEF IngestInv
<1> QED BY <1>1, IngestInvariant, PTL

\* stop() throws no frame away that was in a socket buffer when it was called and
\* that one drain could take, and leaves no claimed position of the ring without
\* its frame (FanOut::stop, RingIngest::stop).
THEOREM StopLosesNothing == Spec => []StopKeepsFrames
<1>1. IngestInv => StopKeepsFrames
  <2> SUFFICES ASSUME IngestInv PROVE StopKeepsFrames
    BY Zenon
  <2>1. ASSUME Joined, NEW s \in Sources, Len(owed[s]) <= DrainBatch,
               NEW a \in Range(owed[s]) \ {Runt}
        PROVE  Ingested(s, a)
    <3>1. CASE topology = "queue"
      <4>1. pc = "exited" /\ FanOutInv
        BY <2>1, <3>1, Zenon DEF Joined, IngestInv
      <4>2. a \in Owing(s) /\ Passed(s) /\ stop_seen
        BY <2>1, <4>1, Zenon DEF Owing, Passed, FanOutInv, FanOutStop
      <4>3. PICK n \in DOMAIN log : log[n].src = s /\ log[n].nth = a
        BY <4>1, <4>2, ZenonT(30) DEF FanOutInv, FanOutStop, Logged
      <4> QED BY <3>1, <4>3, Zenon DEF Ingested, Range
    <3>2. CASE topology = "ring"
      <4>1. rpc[s] = "exited" /\ RingInv
        BY <2>1, <3>2, Zenon DEF Joined, AllExited, IngestInv
      <4>2. a \in Owing(s)
        <5>1. joining
          BY <4>1, Zenon DEF RingInv, RingStop
        <5> QED BY <2>1, <5>1, Zenon DEF Owing
      <4>3. run[s] = <<>>
        BY <4>1, ZenonT(30) DEF RingInv, RunInv
      <4>4. Stored(s, a)
        <5>1. Stored(s, a) \/ InRun(s, a)
          BY <4>1, <4>2, ZenonT(30) DEF RingInv, RingStop
        <5>2. ~InRun(s, a)
          BY <4>3, SMTT(30) DEF InRun
        <5> QED BY <5>1, <5>2, Zenon
      <4> QED BY <3>2, <4>4, Zenon DEF Ingested, Stored
    <3> QED BY <3>1, <3>2, Zenon DEF IngestInv
  <2>2. ASSUME topology = "ring", AllExited
        PROVE  /\ DOMAIN cell = 0 .. write_pos - 1
               /\ \A p, q \in DOMAIN cell : cell[p] = cell[q] => p = q
    <3>1. RingInv /\ write_pos \in Nat /\ DOMAIN cell \in SUBSET Nat
      BY <2>2, Zenon DEF IngestInv, RingInv, RingTypes
    <3>2. \A s \in Sources, p \in Nat : ~Claimed(s, p)
      BY <2>2, Zenon DEF AllExited, Claimed
    <3>3. \A p \in Nat : p \in DOMAIN cell <=> p < write_pos
      BY <3>1, <3>2, Zenon DEF RingInv, PlacesInv
    <3>4. DOMAIN cell = 0 .. write_pos - 1
      <4>1. \A p : p \in 0 .. write_pos - 1 <=> p \in Nat /\ p < write_pos
        BY <3>1, SMTT(30)
      <4>2. \A p : p \in DOMAIN cell <=> p \in 0 .. write_pos - 1
        BY <3>1, <3>3, <4>1, Zenon
      <4> QED BY <4>2, Zenon
    <3>5. ASSUME NEW p \in DOMAIN cell, NEW q \in DOMAIN cell, p < q
          PROVE  cell[p] # cell[q]
      <4>1. cell[p].nth \in Nat /\ cell[q].nth \in Nat
        BY <3>1, Zenon DEF RingInv, RingTypes
      <4> QED BY <3>1, <3>5, <4>1, SMTT(30) DEF RingInv, PlacesInv, PerSourceFifo
    <3>6. \A p, q \in DOMAIN cell : p < q \/ q < p \/ p = q
      BY <3>1
    <3> QED BY <3>4, <3>5, <3>6, Zenon
  <2> QED BY <2>1, <2>2, Zenon DEF StopKeepsFrames, NoHoleAfterStop
<1> QED BY <1>1, IngestInvariant, PTL

=============================================================================
