---------------------------- MODULE StreamLemmas ----------------------------
(***************************************************************************)
(* Facts about data that the proofs about the components share; nothing    *)
(* here is about states.  First, induction without operator parameters,    *)
(* and that the recursive function behind a loop exists: a loop with a     *)
(* given body then has a trace, which the modules that need one derive     *)
(* from LoopExists with the body written as a function.  Then, the types   *)
(* of the units of a stream and of a consumer's GapTracker, and what one   *)
(* record makes of a tracker.                                              *)
(***************************************************************************)
EXTENDS Sequences, GapTracker, Loops, WellFoundedInduction, TLAPS

\* A non-empty set of naturals has a least element.
LEMMA Least ==
    ASSUME NEW S \in SUBSET Nat, S # {}
    PROVE  \E m \in S : \A k \in S : m <= k
<1>1. PICK m \in S : \A y \in S : <<y, m>> \notin OpToRel(<, Nat)
  <2> \E x : x \in S
    OBVIOUS
  <2> QED BY NatLessThanWellFounded, WFMin, Zenon
<1>2. ASSUME NEW k \in S PROVE ~(k < m)
  <2>1. <<k, m>> \notin {ss \in Nat \X Nat : ss[1] < ss[2]}
    BY <1>1, Zenon DEF OpToRel
  <2>2. <<k, m>> \in Nat \X Nat
    BY Zenon
  <2>3. ~(<<k, m>>[1] < <<k, m>>[2])
    BY <2>1, <2>2, Zenon
  <2> QED BY <2>3
<1> QED BY <1>2

\* Induction along 0 .. n, with a set for the predicate.
LEMMA Upto ==
    ASSUME NEW n \in Nat, NEW S, 0 \in S,
           \A k \in 1 .. n : k - 1 \in S => k \in S
    PROVE  \A k \in 0 .. n : k \in S
<1> DEFINE Bad == {k \in 0 .. n : k \notin S}
<1> SUFFICES ASSUME Bad # {} PROVE FALSE
  OBVIOUS
<1>1. Bad \in SUBSET Nat
  OBVIOUS
<1>2. PICK m \in Bad : \A k \in Bad : m <= k
  <2> HIDE DEF Bad
  <2> QED BY <1>1, Least
<1>3. m \in 1 .. n /\ m - 1 \in 0 .. n /\ m \notin S
  BY <1>2
<1>4. m - 1 \notin Bad
  BY <1>2, <1>3
<1> QED BY <1>3, <1>4

----------------------------------------------------------------------------
\* g[k] is what the loop has computed after k turns; G is its body, applied to
\* the k-th element.
Turns(g, n, start, G) ==
    g[0] = start /\ \A k \in 1 .. n : g[k] = G[<<g[k - 1], k>>]

LEMMA LoopExists ==
    ASSUME NEW n \in Nat, NEW T, NEW start \in T, NEW G \in [T \X (1 .. n) -> T]
    PROVE  \E g \in [0 .. n -> T] : Turns(g, n, start, G)
<1> DEFINE Has(m) == \E g \in [0 .. m -> T] : Turns(g, m, start, G)
           Good == {m \in 0 .. n : Has(m)}
<1>1. Has(0)
  <2> DEFINE g == [k \in 0 .. 0 |-> start]
  <2>1. g \in [0 .. 0 -> T] /\ Turns(g, 0, start, G)
    BY DEF Turns
  <2> QED BY <2>1
<1>2. ASSUME NEW m \in 1 .. n, Has(m - 1) PROVE Has(m)
  <2>1. PICK g \in [0 .. m - 1 -> T] : Turns(g, m - 1, start, G)
    BY <1>2
  <2> DEFINE up == [k \in 0 .. m |-> IF k = m THEN G[<<g[m - 1], m>>] ELSE g[k]]
  <2>2. /\ m - 1 \in 0 .. m - 1 /\ m - 1 \in 0 .. m /\ m - 1 # m
        /\ \A k \in 0 .. m : k = m \/ k \in 0 .. m - 1
        /\ \A k \in 1 .. m : k = m \/ (k \in 1 .. m - 1 /\ k # m)
        /\ \A k \in 1 .. m : k \in 0 .. m /\ k - 1 \in 0 .. m /\ k - 1 # m
    OBVIOUS
  <2>3. g[m - 1] \in T /\ G[<<g[m - 1], m>>] \in T
    BY <2>2
  <2>4. up \in [0 .. m -> T]
    BY <2>2, <2>3
  <2>5. \A k \in 1 .. m : up[k] = G[<<up[k - 1], k>>]
    BY <2>1, <2>2, Zenon DEF Turns
  <2>6. up[0] = start
    BY <2>1 DEF Turns
  <2> HIDE DEF up
  <2>7. Turns(up, m, start, G)
    BY <2>5, <2>6 DEF Turns
  <2> QED BY <2>4, <2>7
<1> HIDE DEF Has
<1>3. 0 \in Good /\ \A m \in 1 .. n : m - 1 \in Good => m \in Good
  BY <1>1, <1>2
<1>4. \A m \in 0 .. n : m \in Good
  <2> HIDE DEF Good
  <2> QED BY <1>3, Upto
<1>5. Has(n)
  BY <1>4
<1> QED BY <1>5 DEF Has

\* The function as it is written.
Recursion(g, n, T, start, G) ==
    /\ g = [k \in 0 .. n |-> IF k = 0 THEN start ELSE G[<<g[k - 1], k>>]]
    /\ \A k \in 1 .. n : g[k - 1] \in T

LEMMA LoopSolution ==
    ASSUME NEW n \in Nat, NEW T, NEW start \in T, NEW G \in [T \X (1 .. n) -> T]
    PROVE  \E g \in [0 .. n -> T] : Recursion(g, n, T, start, G)
<1>1. PICK g \in [0 .. n -> T] : Turns(g, n, start, G)
  BY LoopExists, Zenon
<1>2. g = [k \in 0 .. n |-> IF k = 0 THEN start ELSE G[<<g[k - 1], k>>]]
  <2>1. \A k \in 0 .. n : k = 0 \/ k \in 1 .. n
    OBVIOUS
  <2> QED BY <1>1, <2>1 DEF Turns
<1>3. \A k \in 1 .. n : g[k - 1] \in T
  <2>1. \A k \in 1 .. n : k - 1 \in 0 .. n
    OBVIOUS
  <2> QED BY <2>1
<1> QED BY <1>2, <1>3, Zenon DEF Recursion

----------------------------------------------------------------------------
\* A remainder is the only number below the divisor that is a multiple away.
LEMMA Remainder ==
    ASSUME NEW M \in Nat, M > 0, NEW q \in Int, NEW x \in Nat, x < M
    PROVE  (M * q + x) % M = x
<1> DEFINE a == M * q + x
           d == a \div M
           r == a % M
<1>1. a \in Int
  BY Z3
<1>2. d \in Int /\ r \in Nat /\ r < M /\ a = M * d + r
  BY <1>1, Z3
<1>3. PICK u \in Int : u = q - d
  BY <1>2
<1>4. M * u = r - x
  <2> HIDE DEF d, r
  <2>1. M * u = M * q - M * d
    BY <1>2, <1>3, Z3
  <2> QED BY <1>2, <2>1, Z3
<1> HIDE DEF r, d, a
<1>5. u = 0
  <2>1. CASE u >= 1
    <3>1. M * u >= M
      BY <2>1, Z3
    <3> QED BY <1>2, <1>4, <3>1
  <2>2. CASE u <= 0 - 1
    <3>1. M * u <= 0 - M
      BY <2>2, Z3
    <3> QED BY <1>2, <1>4, <3>1
  <2> QED BY <2>1, <2>2
<1>6. r = x
  BY <1>2, <1>4, <1>5
<1> QED BY <1>6 DEF r, a

----------------------------------------------------------------------------
(* Units of the stream                                                     *)

Records ==
    [kind : {"frame", "gap", "echo", "header"}, seq : Nat, n : Nat,
     why : {"none", "absent", "overrun"}]

Trackers ==
    [have : BOOLEAN, next : Nat, frames : Nat, reported_lost : Nat,
     absent_frames : Nat, silent_lost : Nat, echoes : Nat, base : Int]

\* A record's fields.
LEMMA RecordFields ==
    ASSUME NEW r \in Records
    PROVE  /\ r.kind \in {"frame", "gap", "echo", "header"}
           /\ r.seq \in Nat /\ r.n \in Nat
BY DEF Records

----------------------------------------------------------------------------
(* What one record does to the consumer's books.                           *)

\* A tracker's fields.
LEMMA TrackerFields ==
    ASSUME NEW t \in Trackers
    PROVE  /\ t.have \in BOOLEAN /\ t.next \in Nat /\ t.frames \in Nat
           /\ t.reported_lost \in Nat /\ t.absent_frames \in Nat
           /\ t.silent_lost \in Nat /\ t.echoes \in Nat /\ t.base \in Int
           /\ Booked(t) \in Nat
BY DEF Trackers, Booked

\* A marker: the books close over what it covers.
LEMMA ObserveGapEffect ==
    ASSUME NEW t \in Trackers, NEW r \in Records
    PROVE  LET g == ObserveGap(t, r)
           IN  /\ g \in Trackers /\ g.have = TRUE /\ g.next = r.seq + r.n
               /\ g.base = Opened(t, r.seq)
               /\ Booked(g) = Booked(t) + r.n
               /\ g.silent_lost = t.silent_lost
<1> DEFINE u == t.absent_frames + (IF IsFault(r.why) THEN 0 ELSE r.n)
           v == t.reported_lost + (IF IsFault(r.why) THEN r.n ELSE 0)
           q == r.seq + r.n
           b == Opened(t, r.seq)
<1>1. /\ u \in Nat /\ v \in Nat /\ q \in Nat /\ b \in Int
      /\ u + v = t.absent_frames + t.reported_lost + r.n
  BY TrackerFields, RecordFields DEF Opened
<1>2. ObserveGap(t, r) = [t EXCEPT !.have = TRUE, !.next = q, !.base = b,
                                   !.absent_frames = u, !.reported_lost = v]
  BY DEF ObserveGap
<1> HIDE DEF u, v, q, b
<1> DEFINE g == ObserveGap(t, r)
<1>3. /\ g \in Trackers /\ g.have = TRUE /\ g.next = q /\ g.base = b
      /\ g.frames = t.frames /\ g.absent_frames = u
      /\ g.reported_lost = v /\ g.silent_lost = t.silent_lost
  <2> HIDE DEF g
  <2>1. g = [t EXCEPT !.have = TRUE, !.next = q, !.base = b,
                      !.absent_frames = u, !.reported_lost = v]
    BY <1>2 DEF g
  <2> QED BY <1>1, <2>1, Zenon DEF Trackers
<1> HIDE DEF g
<1>4. Booked(g) = Booked(t) + r.n
  BY <1>1, <1>3, TrackerFields, RecordFields DEF Booked
<1> QED BY <1>3, <1>4 DEF g, q, b

\* A frame: so do they, with the jump to it.
LEMMA ObserveFrameEffect ==
    ASSUME NEW t \in Trackers, NEW r \in Records
    PROVE  LET g == ObserveFrame(t, r)
               jump == IF t.have /\ r.seq > t.next THEN r.seq - t.next ELSE 0
           IN  /\ g \in Trackers /\ g.have = TRUE /\ g.next = r.seq + 1
               /\ g.base = Opened(t, r.seq)
               /\ Booked(g) = Booked(t) + jump + 1
               /\ g.silent_lost = t.silent_lost + jump
<1> DEFINE jump == IF t.have /\ r.seq > t.next THEN r.seq - t.next ELSE 0
           u == t.frames + 1
           v == t.silent_lost + jump
           q == r.seq + 1
           b == Opened(t, r.seq)
<1>1. /\ u \in Nat /\ v \in Nat /\ q \in Nat /\ b \in Int /\ jump \in Nat
  BY TrackerFields, RecordFields DEF Opened
<1>2. ObserveFrame(t, r) = [t EXCEPT !.have = TRUE, !.next = q, !.base = b,
                                     !.frames = u, !.silent_lost = v]
  BY DEF ObserveFrame
<1> DEFINE g == ObserveFrame(t, r)
<1>3. /\ g \in Trackers /\ g.have = TRUE /\ g.next = q /\ g.base = b
      /\ g.frames = u /\ g.absent_frames = t.absent_frames
      /\ g.reported_lost = t.reported_lost /\ g.silent_lost = v
  <2> HIDE DEF u, v, q, b, g
  <2>1. g = [t EXCEPT !.have = TRUE, !.next = q, !.base = b,
                      !.frames = u, !.silent_lost = v]
    BY <1>2 DEF g
  <2> QED BY <1>1, <2>1, Zenon DEF Trackers
<1> HIDE DEF g, jump, b
<1>4. Booked(g) = Booked(t) + jump + 1
  BY <1>1, <1>3, TrackerFields, RecordFields DEF Booked
<1> QED BY <1>3, <1>4 DEF g, jump, b

=============================================================================
