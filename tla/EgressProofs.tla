---------------------------- MODULE EgressProofs ----------------------------
(***************************************************************************)
(* That a consumer of an egress thread can trust its stream, for every     *)
(* feed, batch and socket size, any number of frames, connections and      *)
(* echoes, and any way of gathering batches: the stream is decodable       *)
(* (Framing), frames arrive at most once and in order (AtMostOnce), the    *)
(* loss accounts close (BooksClose), and a marker never blames the         *)
(* consumer for what went past while it was away (OverrunsAreFaults).      *)
(*                                                                         *)
(* First, what a stretch of the stream says: which records it announces    *)
(* and which sequence numbers it accounts for (Flows).  Stretches can be   *)
(* joined and cut, a batch made by note_gap is one, and a tracker that     *)
(* observes one moves along it.  The inductive invariant says that what    *)
(* has been read, what is on its way and what is being made are stretches  *)
(* that meet.                                                              *)
(***************************************************************************)
EXTENDS EgressSession, StreamLemmas

----------------------------------------------------------------------------
(* What a stretch of the stream says: before it, o records of the current  *)
(* batch are owed and the sequence is at a; after it, p and b.             *)

\* One unit.  With batches gathered in one piece (x = 1), frames are contiguous
\* unless there is a marker.
Follows(x, o, a, r, p, b) ==
    /\ r.kind = "header" => o = 0 /\ r.n > 0 /\ p = r.n /\ b = a
    /\ r.kind # "header" => o > 0 /\ p = o - 1
    /\ r.kind = "echo" => b = a
    /\ r.kind = "gap" => r.seq = a /\ b = a + r.n
    /\ r.kind = "frame" => r.seq >= a /\ (x = 1 => r.seq = a) /\ b = r.seq + 1

Traced(x, recs, owed, at) ==
    \A k \in 1 .. Len(recs) :
        Follows(x, owed[k - 1], at[k - 1], recs[k], owed[k], at[k])

Flows(x, recs, o, a, p, b) ==
    \E owed, at \in [0 .. Len(recs) -> Nat] :
        /\ owed[0] = o /\ at[0] = a
        /\ owed[Len(recs)] = p /\ at[Len(recs)] = b
        /\ Traced(x, recs, owed, at)

\* Nothing said.
LEMMA FlowsEmpty ==
    ASSUME NEW x, NEW o \in Nat, NEW a \in Nat
    PROVE  Flows(x, <<>>, o, a, o, a)
<1> DEFINE owed == [k \in 0 .. 0 |-> o]
           at == [k \in 0 .. 0 |-> a]
<1>1. owed \in [0 .. 0 -> Nat] /\ at \in [0 .. 0 -> Nat] /\ owed[0] = o /\ at[0] = a
  OBVIOUS
<1>2. Len(<<>>) = 0 /\ Traced(x, <<>>, owed, at)
  BY DEF Traced
<1> QED BY <1>1, <1>2, Zenon DEF Flows

\* One unit.
LEMMA FlowsOne ==
    ASSUME NEW x, NEW r, NEW o \in Nat, NEW a \in Nat, NEW p \in Nat, NEW b \in Nat
    PROVE  Flows(x, <<r>>, o, a, p, b) <=> Follows(x, o, a, r, p, b)
<1>0. Len(<<r>>) = 1 /\ <<r>>[1] = r
  BY Zenon
<1>1. ASSUME Flows(x, <<r>>, o, a, p, b) PROVE Follows(x, o, a, r, p, b)
  <2>1. PICK owed \in [0 .. 1 -> Nat], at \in [0 .. 1 -> Nat] :
           /\ owed[0] = o /\ at[0] = a /\ owed[1] = p /\ at[1] = b
           /\ Traced(x, <<r>>, owed, at)
    BY <1>0, <1>1, Zenon DEF Flows
  <2>2. 1 \in 1 .. Len(<<r>>) /\ 1 - 1 = 0
    BY <1>0
  <2>3. Follows(x, owed[1 - 1], at[1 - 1], <<r>>[1], owed[1], at[1])
    BY <2>1, <2>2, Zenon DEF Traced
  <2> QED BY <1>0, <2>1, <2>2, <2>3, Zenon
<1>2. ASSUME Follows(x, o, a, r, p, b) PROVE Flows(x, <<r>>, o, a, p, b)
  <2> DEFINE owed == [k \in 0 .. 1 |-> IF k = 0 THEN o ELSE p]
             at == [k \in 0 .. 1 |-> IF k = 0 THEN a ELSE b]
  <2>1. /\ owed \in [0 .. 1 -> Nat] /\ at \in [0 .. 1 -> Nat]
        /\ owed[0] = o /\ at[0] = a /\ owed[1] = p /\ at[1] = b
    OBVIOUS
  <2> HIDE DEF owed, at
  <2>2. Traced(x, <<r>>, owed, at)
    <3> SUFFICES ASSUME NEW k \in 1 .. 1
                 PROVE  Follows(x, owed[k - 1], at[k - 1], <<r>>[k], owed[k], at[k])
      BY <1>0, Zenon DEF Traced
    <3>1. k = 1 /\ k - 1 = 0
      OBVIOUS
    <3> QED BY <1>0, <1>2, <2>1, <3>1, Zenon
  <2> QED BY <1>0, <2>1, <2>2, Zenon DEF Flows
<1> QED BY <1>1, <1>2, Zenon

\* The lengths and the elements of a concatenation.
LEMMA Concatenated ==
    ASSUME NEW s \in Seq(Records), NEW t \in Seq(Records)
    PROVE  \E m, n \in Nat :
              /\ Len(s) = m /\ Len(t) = n /\ Len(s \o t) = m + n
              /\ \A k \in 1 .. m : (s \o t)[k] = s[k]
              /\ \A k \in 1 .. n : (s \o t)[m + k] = t[k]
<1>1. Len(s) \in Nat /\ Len(t) \in Nat /\ Len(s \o t) = Len(s) + Len(t)
  OBVIOUS
<1>2. \A k \in 1 .. Len(s) : (s \o t)[k] = s[k]
  OBVIOUS
<1>3. \A k \in 1 .. Len(t) : (s \o t)[Len(s) + k] = t[k]
  OBVIOUS
<1> QED BY <1>1, <1>2, <1>3, Zenon

\* Its type and length.
LEMMA ConcatenatedType ==
    ASSUME NEW s \in Seq(Records), NEW t \in Seq(Records)
    PROVE  s \o t \in Seq(Records) /\ Len(s \o t) = Len(s) + Len(t)
OBVIOUS

\* Every element comes from one of the parts.
LEMMA ConcatenatedOf ==
    ASSUME NEW s \in Seq(Records), NEW t \in Seq(Records), NEW i \in 1 .. Len(s \o t)
    PROVE  \/ \E j \in 1 .. Len(s) : (s \o t)[i] = s[j]
           \/ \E j \in 1 .. Len(t) : (s \o t)[i] = t[j]
<1>1. PICK m \in Nat, n \in Nat :
         /\ Len(s) = m /\ Len(t) = n /\ Len(s \o t) = m + n
         /\ \A k \in 1 .. m : (s \o t)[k] = s[k]
         /\ \A k \in 1 .. n : (s \o t)[m + k] = t[k]
  BY Concatenated, Zenon
<1>2. i \in 1 .. m + n
  BY <1>1, Zenon
<1>3. CASE i <= m
  BY <1>1, <1>2, <1>3
<1>4. CASE i > m
  <2>1. i - m \in 1 .. n /\ m + (i - m) = i
    BY <1>2, <1>4
  <2>2. (s \o t)[i] = t[i - m]
    BY <1>1, <2>1, Zenon
  <2> QED BY <1>1, <2>1, <2>2, Zenon
<1> QED BY <1>2, <1>3, <1>4, SMTT(30)

\* The same of frame numbers.
LEMMA ConcatenatedNumbers ==
    ASSUME NEW s \in Seq(Nat), NEW t \in Seq(Nat)
    PROVE  \E m, n \in Nat :
              /\ Len(s) = m /\ Len(t) = n /\ Len(s \o t) = m + n
              /\ \A k \in 1 .. m : (s \o t)[k] = s[k]
              /\ \A k \in 1 .. n : (s \o t)[m + k] = t[k]
<1>1. Len(s) \in Nat /\ Len(t) \in Nat /\ Len(s \o t) = Len(s) + Len(t)
  OBVIOUS
<1>2. \A k \in 1 .. Len(s) : (s \o t)[k] = s[k]
  OBVIOUS
<1>3. \A k \in 1 .. Len(t) : (s \o t)[Len(s) + k] = t[k]
  OBVIOUS
<1> QED BY <1>1, <1>2, <1>3, Zenon

\* Stretches that fit together make one.
LEMMA FlowsJoin ==
    ASSUME NEW x, NEW s \in Seq(Records), NEW t \in Seq(Records),
           NEW o \in Nat, NEW a \in Nat, NEW p \in Nat, NEW b \in Nat,
           NEW q \in Nat, NEW c \in Nat,
           Flows(x, s, o, a, p, b), Flows(x, t, p, b, q, c)
    PROVE  Flows(x, s \o t, o, a, q, c)
<1>0. PICK m \in Nat, n \in Nat :
         /\ Len(s) = m /\ Len(t) = n /\ Len(s \o t) = m + n
         /\ \A k \in 1 .. m : (s \o t)[k] = s[k]
         /\ \A k \in 1 .. n : (s \o t)[m + k] = t[k]
  BY Concatenated, Zenon
<1>1. PICK o1 \in [0 .. m -> Nat], a1 \in [0 .. m -> Nat] :
         /\ o1[0] = o /\ a1[0] = a /\ o1[m] = p /\ a1[m] = b
         /\ Traced(x, s, o1, a1)
  BY <1>0, Zenon DEF Flows
<1>2. PICK o2 \in [0 .. n -> Nat], a2 \in [0 .. n -> Nat] :
         /\ o2[0] = p /\ a2[0] = b /\ o2[n] = q /\ a2[n] = c
         /\ Traced(x, t, o2, a2)
  BY <1>0, Zenon DEF Flows
<1> DEFINE ow == [k \in 0 .. m + n |-> IF k <= m THEN o1[k] ELSE o2[k - m]]
           at == [k \in 0 .. m + n |-> IF k <= m THEN a1[k] ELSE a2[k - m]]
<1>3. ow \in [0 .. m + n -> Nat] /\ at \in [0 .. m + n -> Nat]
  <2>1. ASSUME NEW k \in 0 .. m + n
        PROVE  /\ (IF k <= m THEN o1[k] ELSE o2[k - m]) \in Nat
               /\ (IF k <= m THEN a1[k] ELSE a2[k - m]) \in Nat
    <3>1. CASE k <= m
      <4>1. k \in 0 .. m
        BY <3>1
      <4> QED BY <3>1, <4>1, Zenon
    <3>2. CASE ~(k <= m)
      <4>1. k - m \in 0 .. n
        BY <3>2
      <4> QED BY <3>2, <4>1, Zenon
    <3> QED BY <3>1, <3>2, Zenon
  <2> QED BY <2>1, Zenon
<1>4. /\ \A k \in 0 .. m : ow[k] = o1[k] /\ at[k] = a1[k]
      /\ \A k \in 0 .. n : ow[m + k] = o2[k] /\ at[m + k] = a2[k]
  <2>1. ASSUME NEW k \in 0 .. m PROVE ow[k] = o1[k] /\ at[k] = a1[k]
    BY <1>0, SMTT(30)
  <2>2. ASSUME NEW k \in 1 .. n PROVE ow[m + k] = o2[k] /\ at[m + k] = a2[k]
    <3>1. m + k \in 0 .. m + n /\ ~(m + k <= m) /\ (m + k) - m = k
      BY <1>0, SMTT(30)
    <3> QED BY <3>1, Zenon
  <2>3. ow[m + 0] = o2[0] /\ at[m + 0] = a2[0]
    BY <1>0, <1>1, <1>2, <2>1
  <2>4. \A k \in 0 .. n : k = 0 \/ k \in 1 .. n
    BY <1>0, SMTT(30)
  <2> QED BY <2>1, <2>2, <2>3, <2>4, Zenon
<1> HIDE DEF ow, at
<1>5. Traced(x, s \o t, ow, at)
  <2> SUFFICES ASSUME NEW k \in 1 .. m + n
               PROVE  Follows(x, ow[k - 1], at[k - 1], (s \o t)[k], ow[k], at[k])
    BY <1>0, Zenon DEF Traced
  <2>1. CASE k <= m
    <3>1. k \in 1 .. m /\ k \in 0 .. m /\ k - 1 \in 0 .. m /\ (s \o t)[k] = s[k]
      BY <1>0, <2>1, SMTT(30)
    <3>2. Follows(x, o1[k - 1], a1[k - 1], s[k], o1[k], a1[k])
      BY <1>0, <1>1, <3>1, Zenon DEF Traced
    <3> QED BY <1>4, <3>1, <3>2, Zenon
  <2>2. CASE k > m
    <3>0. k - m \in 1 .. n /\ m + (k - m) = k
      BY <2>2
    <3>1. PICK j \in 1 .. n : m + j = k
      BY <3>0, Zenon
    <3>2. j \in 0 .. n /\ j - 1 \in 0 .. n /\ m + (j - 1) = k - 1
      BY <3>1, SMTT(30)
    <3>3. Follows(x, o2[j - 1], a2[j - 1], t[j], o2[j], a2[j])
      BY <1>0, <1>2, Zenon DEF Traced
    <3>4. ow[k] = o2[j] /\ at[k] = a2[j] /\ ow[k - 1] = o2[j - 1] /\ at[k - 1] = a2[j - 1]
      BY <1>4, <3>1, <3>2, Zenon
    <3>5. (s \o t)[k] = t[j]
      BY <1>0, <3>1, Zenon
    <3> QED BY <3>3, <3>4, <3>5, Zenon
  <2>3. k <= m \/ k > m
    BY SMTT(30)
  <2> QED BY <2>1, <2>2, <2>3, Zenon
<1>6. ow[0] = o /\ at[0] = a /\ ow[m + n] = q /\ at[m + n] = c
  BY <1>0, <1>1, <1>2, <1>4, SMTT(30)
<1> QED BY <1>0, <1>3, <1>5, <1>6, Zenon DEF Flows

\* A stretch can be cut anywhere.
LEMMA FlowsSplit ==
    ASSUME NEW x, NEW s \in Seq(Records), NEW t \in Seq(Records),
           NEW o \in Nat, NEW a \in Nat, NEW q \in Nat, NEW c \in Nat,
           Flows(x, s \o t, o, a, q, c)
    PROVE  \E p, b \in Nat : Flows(x, s, o, a, p, b) /\ Flows(x, t, p, b, q, c)
<1>0. PICK m \in Nat, n \in Nat :
         /\ Len(s) = m /\ Len(t) = n /\ Len(s \o t) = m + n
         /\ \A k \in 1 .. m : (s \o t)[k] = s[k]
         /\ \A k \in 1 .. n : (s \o t)[m + k] = t[k]
  BY Concatenated, Zenon
<1>1. PICK ow \in [0 .. m + n -> Nat], at \in [0 .. m + n -> Nat] :
         /\ ow[0] = o /\ at[0] = a /\ ow[m + n] = q /\ at[m + n] = c
         /\ Traced(x, s \o t, ow, at)
  BY <1>0, Zenon DEF Flows
<1> DEFINE o1 == [k \in 0 .. m |-> ow[k]]
           a1 == [k \in 0 .. m |-> at[k]]
           o2 == [k \in 0 .. n |-> ow[m + k]]
           a2 == [k \in 0 .. n |-> at[m + k]]
<1>2. /\ o1 \in [0 .. m -> Nat] /\ a1 \in [0 .. m -> Nat]
      /\ o2 \in [0 .. n -> Nat] /\ a2 \in [0 .. n -> Nat]
  BY <1>0, <1>1, SMTT(30)
<1>3. /\ \A k \in 0 .. m : ow[k] = o1[k] /\ at[k] = a1[k]
      /\ \A k \in 0 .. n : ow[m + k] = o2[k] /\ at[m + k] = a2[k]
  BY <1>0, <1>1, Zenon
<1>4. o1[0] = o /\ a1[0] = a /\ o2[n] = q /\ a2[n] = c
      /\ o1[m] = o2[0] /\ a1[m] = a2[0]
  BY <1>0, <1>1
<1> HIDE DEF o1, a1, o2, a2
<1>5. Traced(x, s, o1, a1)
  <2> SUFFICES ASSUME NEW k \in 1 .. m
               PROVE  Follows(x, o1[k - 1], a1[k - 1], s[k], o1[k], a1[k])
    BY <1>0, Zenon DEF Traced
  <2>1. k \in 1 .. m + n /\ k \in 0 .. m /\ k - 1 \in 0 .. m /\ (s \o t)[k] = s[k]
    BY <1>0, SMTT(30)
  <2>2. Follows(x, ow[k - 1], at[k - 1], (s \o t)[k], ow[k], at[k])
    BY <1>0, <1>1, <2>1, Zenon DEF Traced
  <2> QED BY <1>3, <2>1, <2>2, Zenon
<1>6. Traced(x, t, o2, a2)
  <2> SUFFICES ASSUME NEW j \in 1 .. n
               PROVE  Follows(x, o2[j - 1], a2[j - 1], t[j], o2[j], a2[j])
    BY <1>0, Zenon DEF Traced
  <2>0. PICK k \in 1 .. m + n : k = m + j
    OBVIOUS
  <2>1. /\ k \in 1 .. m + n /\ j \in 0 .. n /\ j - 1 \in 0 .. n
        /\ m + (j - 1) = k - 1
    BY <2>0
  <2>4. (s \o t)[k] = t[j]
    BY <1>0, <2>0, Zenon
  <2>2. Follows(x, ow[k - 1], at[k - 1], (s \o t)[k], ow[k], at[k])
    BY <1>0, <1>1, <2>1, Zenon DEF Traced
  <2>3. ow[k] = o2[j] /\ at[k] = a2[j] /\ ow[k - 1] = o2[j - 1] /\ at[k - 1] = a2[j - 1]
    BY <1>3, <2>0, <2>1, Zenon
  <2> QED BY <2>2, <2>3, <2>4, Zenon
<1>7. o1[m] \in Nat /\ a1[m] \in Nat
  BY <1>0, <1>2, SMTT(30)
<1>8. Flows(x, s, o, a, o1[m], a1[m]) /\ Flows(x, t, o1[m], a1[m], q, c)
  BY <1>0, <1>2, <1>4, <1>5, <1>6, Zenon DEF Flows
<1> QED BY <1>7, <1>8, Zenon

\* The sequence never goes back.
LEMMA FollowsGrows ==
    ASSUME NEW x, NEW r \in Records, NEW o, NEW a \in Nat, NEW p, NEW b \in Nat,
           Follows(x, o, a, r, p, b)
    PROVE  a <= b
BY RecordFields DEF Follows

\* Nor over a stretch.
LEMMA FlowsGrows ==
    ASSUME NEW x, NEW s \in Seq(Records),
           NEW o \in Nat, NEW a \in Nat, NEW p \in Nat, NEW b \in Nat,
           Flows(x, s, o, a, p, b)
    PROVE  a <= b
<1>0. PICK n \in Nat : n = Len(s)
  OBVIOUS
<1>1. PICK ow \in [0 .. n -> Nat], at \in [0 .. n -> Nat] :
         /\ ow[0] = o /\ at[0] = a /\ ow[n] = p /\ at[n] = b
         /\ Traced(x, s, ow, at)
  BY <1>0, Zenon DEF Flows
<1> DEFINE S == {k \in 0 .. n : a <= at[k]}
<1>2. n \in Nat /\ 0 \in S
  BY <1>1
<1>3. ASSUME NEW k \in 1 .. n, k - 1 \in S PROVE k \in S
  <2>1. Follows(x, ow[k - 1], at[k - 1], s[k], ow[k], at[k])
    BY <1>0, <1>1, Zenon DEF Traced
  <2>2. at[k] \in Nat /\ at[k - 1] \in Nat /\ a <= at[k - 1]
    BY <1>3, SMTT(30)
  <2>4. s[k] \in Records
    BY <1>0
  <2>3. at[k - 1] <= at[k]
    BY <2>1, <2>2, <2>4, FollowsGrows, Zenon
  <2> QED BY <2>2, <2>3, SMTT(30)
<1>4. \A k \in 0 .. n : k \in S
  <2> HIDE DEF S
  <2> QED BY <1>2, <1>3, Upto, Zenon
<1>5. n \in S
  BY <1>2, <1>4
<1> QED BY <1>1, <1>5, Zenon

\* Within a batch there is no header, and its records are counted down.
LEMMA FlowsInBatch ==
    ASSUME NEW x, NEW s \in Seq(Records),
           NEW o \in Nat, NEW a \in Nat, NEW p \in Nat, NEW b \in Nat,
           Flows(x, s, o, a, p, b), Len(s) <= o
    PROVE  p = o - Len(s) /\ \A k \in 1 .. Len(s) : s[k].kind # "header"
<1>0. PICK n \in Nat : n = Len(s)
  OBVIOUS
<1>1. PICK ow \in [0 .. n -> Nat], at \in [0 .. n -> Nat] :
         /\ ow[0] = o /\ at[0] = a /\ ow[n] = p /\ at[n] = b
         /\ Traced(x, s, ow, at)
  BY <1>0, Zenon DEF Flows
<1> DEFINE S == {k \in 0 .. n : ow[k] = o - k}
<1>2. n \in Nat /\ 0 \in S
  BY <1>1
<1>3. ASSUME NEW k \in 1 .. n, k - 1 \in S PROVE k \in S /\ s[k].kind # "header"
  <2>1. Follows(x, ow[k - 1], at[k - 1], s[k], ow[k], at[k])
    BY <1>0, <1>1, Zenon DEF Traced
  <2>2. s[k] \in Records /\ ow[k] \in Nat /\ ow[k - 1] = o - (k - 1)
    BY <1>0, <1>1, <1>3, SMTT(30)
  <2>3. n <= o
    BY <1>0, Zenon
  <2>4. ow[k - 1] > 0 /\ ow[k - 1] \in Nat
    BY <2>2, <2>3, SMTT(30)
  <2>5. s[k].kind # "header" /\ ow[k] = ow[k - 1] - 1
    BY <2>1, <2>4, SMTT(30) DEF Follows
  <2> QED BY <2>2, <2>5
<1>4. \A k \in 0 .. n : k \in S
  <2> HIDE DEF S
  <2> QED BY <1>2, <1>3, Upto, Zenon
<1>5. p = o - n
  BY <1>1, <1>2, <1>4
<1>6. ASSUME NEW k \in 1 .. n PROVE s[k].kind # "header"
  <2>1. k - 1 \in 0 .. n
    BY <1>2
  <2> QED BY <1>3, <1>4, <2>1, Zenon
<1> QED BY <1>0, <1>5, <1>6, Zenon

----------------------------------------------------------------------------
(* The batch in the making, and what NoteGap makes of it.                  *)

\* Frame numbers in order; in one piece, without a jump.
Rising(x, s) ==
    \A i \in 1 .. Len(s) - 1 : s[i] < s[i + 1] /\ (x = 1 => s[i + 1] = s[i] + 1)

Within(s, q, c) == \A i \in 1 .. Len(s) : s[i] < c /\ s[i] >= q

StartsAt(w, s, c) == (s = <<>> => w[1] = c) /\ (s # <<>> => w[1] = s[1])

Piece(c, k) == [i \in 1 .. k |-> c + i - 1]

\* A piece popped from the feed goes on where the batch ends, or after a loss.
LEMMA PieceAdded ==
    ASSUME NEW x, NEW s \in Seq(Nat), NEW c \in Nat, NEW k \in Nat,
           NEW q \in Nat, k > 0, Rising(x, s), x = 1 => s = <<>>, q <= c,
           Within(s, q, c),
           NEW w, w = s \o Piece(c, k), NEW d, d = c + k
    PROVE  /\ w \in Seq(Nat) /\ w # <<>> /\ Rising(x, w)
           /\ Within(w, q, d) /\ StartsAt(w, s, c)
<1> USE DEF Within, StartsAt
<1> DEFINE t == [i \in 1 .. k |-> c + i - 1]
           u == s \o t
<1>w. w = u
  BY Zenon DEF Piece
<1>1. t \in Seq(Nat) /\ Len(t) = k /\ \A i \in 1 .. k : t[i] = c + i - 1
  <2>1. \A i \in 1 .. k : c + i - 1 \in Nat
    OBVIOUS
  <2> QED BY <2>1
<1> HIDE DEF t
<1>0. PICK m \in Nat, n \in Nat :
         /\ Len(s) = m /\ Len(t) = n /\ Len(u) = m + n
         /\ \A i \in 1 .. m : u[i] = s[i]
         /\ \A i \in 1 .. n : u[m + i] = t[i]
  BY <1>1, ConcatenatedNumbers, Zenon
<1>2. Len(s) = m /\ n = k
  BY <1>0, <1>1, Zenon
<1>3. u \in Seq(Nat) /\ Len(u) = m + k
  BY <1>0, <1>1, SMTT(30)
<1>4. \A i \in 1 .. m : u[i] = s[i] /\ s[i] \in Nat
  BY <1>0, SMTT(30)
<1>5. \A i \in 1 .. k : u[m + i] = c + i - 1
  BY <1>0, <1>1, Zenon
<1>6. s = <<>> <=> m = 0
  BY <1>2
<1>7. m + k > 0 /\ u # <<>>
  BY <1>3, SMTT(30)
<1> HIDE DEF u
<1>8. ASSUME NEW i \in 1 .. m + k, i > m PROVE u[i] = c + (i - m) - 1
  <2>1. PICK j \in 1 .. k : i = m + j
    <3>1. i - m \in 1 .. k /\ m + (i - m) = i
      BY <1>8
    <3> QED BY <3>1, Zenon
  <2>2. u[i] = c + j - 1
    BY <1>5, <2>1, Zenon
  <2>3. j = i - m
    BY <2>1, SMTT(30)
  <2> QED BY <2>2, <2>3, Zenon
<1>9. Rising(x, u)
  <2> SUFFICES ASSUME NEW i \in 1 .. m + k - 1
               PROVE  u[i] < u[i + 1] /\ (x = 1 => u[i + 1] = u[i] + 1)
    BY <1>3, SMTT(30) DEF Rising
  <2>1. CASE i < m
    <3>1. i \in 1 .. m /\ i + 1 \in 1 .. m /\ i \in 1 .. m - 1
      BY <2>1, SMTT(30)
    <3>2. s[i] < s[i + 1] /\ x # 1
      BY <1>2, <1>6, <3>1, SMTT(30) DEF Rising
    <3> QED BY <1>4, <3>1, <3>2, Zenon
  <2>2. CASE i = m
    <3>1. i \in 1 .. m /\ i + 1 \in 1 .. m + k /\ i + 1 > m /\ (i + 1) - m = 1
      BY <2>2, SMTT(30)
    <3>2. u[i + 1] = c /\ u[i] = s[i] /\ s[i] < c /\ x # 1
      BY <1>2, <1>4, <1>6, <1>8, <3>1, SMTT(30)
    <3> QED BY <3>2, Zenon
  <2>3. CASE i > m
    <3>1. i \in 1 .. m + k /\ i + 1 \in 1 .. m + k /\ i + 1 > m
      BY <2>3, SMTT(30)
    <3>2. u[i] = c + (i - m) - 1 /\ u[i + 1] = c + ((i + 1) - m) - 1
      BY <1>8, <2>3, <3>1, Zenon
    <3> QED BY <3>2
  <2> QED BY <2>1, <2>2, <2>3, SMTT(30)
<1>10. ASSUME NEW i \in 1 .. m + k PROVE u[i] < c + k /\ u[i] >= q
  <2>1. CASE i <= m
    <3>1. u[i] = s[i] /\ s[i] \in Nat /\ s[i] < c /\ s[i] >= q
      BY <1>2, <1>4, <2>1, SMTT(30)
    <3> QED BY <3>1, SMTT(30)
  <2>2. CASE i > m
    BY <1>8, <2>2, SMTT(30)
  <2> QED BY <2>1, <2>2, SMTT(30)
<1>11. (s = <<>> => u[1] = c) /\ (s # <<>> => u[1] = s[1])
  <2>1. CASE m = 0
    <3>1. 1 \in 1 .. m + k /\ 1 > m /\ 1 - m = 1
      BY <2>1, SMTT(30)
    <3> QED BY <1>6, <1>8, <2>1, <3>1, SMTT(30)
  <2>2. CASE m > 0
    BY <1>4, <1>6, <2>2, SMTT(30)
  <2> QED BY <2>1, <2>2
<1>12. /\ u \in Seq(Nat) /\ u # <<>> /\ Rising(x, u)
       /\ \A i \in 1 .. Len(u) : u[i] < c + k /\ u[i] >= q
  BY <1>3, <1>7, <1>9, <1>10, Zenon
<1> QED BY <1>w, <1>11, <1>12, Zenon

\* Its elements lie between its ends.
LEMMA RisingEnds ==
    ASSUME NEW x, NEW s \in Seq(Nat), s # <<>>, Rising(x, s)
    PROVE  s[1] \in Nat /\ s[Len(s)] \in Nat /\ s[1] <= s[Len(s)]
<1>1. PICK n \in Nat : Len(s) = n /\ n > 0 /\ \A i \in 1 .. n : s[i] \in Nat
  OBVIOUS
<1> DEFINE S == {k \in 0 .. n - 1 : s[1] <= s[k + 1]}
<1>2. 0 \in S
  BY <1>1, SMTT(30)
<1>3. ASSUME NEW k \in 1 .. n - 1, k - 1 \in S PROVE k \in S
  <2>1. s[1] <= s[k]
    <3>1. (k - 1) + 1 = k
      OBVIOUS
    <3> QED BY <1>3, <3>1, Zenon
  <2>2. s[k] < s[k + 1]
    BY <1>1, Zenon DEF Rising
  <2>3. s[k] \in Nat /\ s[k + 1] \in Nat /\ s[1] \in Nat
    BY <1>1
  <2> QED BY <2>1, <2>2, <2>3, SMTT(30)
<1>4. \A k \in 0 .. n - 1 : k \in S
  <2> HIDE DEF S
  <2>1. n - 1 \in Nat
    BY <1>1
  <2> QED BY <1>2, <1>3, <2>1, Upto, Zenon
<1>5. n - 1 \in S /\ (n - 1) + 1 = n
  BY <1>1, <1>4, SMTT(30)
<1> QED BY <1>1, <1>5

FramesOf(s) == [i \in 1 .. Len(s) |-> FrameRec(s[i])]

\* The frames of a batch, from its first number to the one after its last.
LEMMA FramesFlow ==
    ASSUME NEW x, NEW s \in Seq(Nat), s # <<>>, Rising(x, s),
           NEW p \in Nat
    PROVE  /\ FramesOf(s) \in Seq(Records) /\ Len(FramesOf(s)) = Len(s)
           /\ Flows(x, FramesOf(s), p + Len(s), s[1], p, s[Len(s)] + 1)
<1>1. PICK n \in Nat : Len(s) = n /\ n > 0 /\ \A i \in 1 .. n : s[i] \in Nat
  BY SMTT(30)
<1> DEFINE u == FramesOf(s)
           ow == [k \in 0 .. n |-> p + n - k]
           at == [k \in 0 .. n |-> IF k = 0 THEN s[1] ELSE s[k] + 1]
<1>2. \A i \in 1 .. n : FrameRec(s[i]) \in Records
  BY <1>1, Zenon DEF FrameRec, Records
<1>3. u \in Seq(Records) /\ Len(u) = n /\ \A i \in 1 .. n : u[i] = FrameRec(s[i])
  BY <1>1, <1>2 DEF FramesOf
<1>4. \A k \in 0 .. n : p + n - k \in Nat
  OBVIOUS
<1>5. \A k \in 0 .. n : (IF k = 0 THEN s[1] ELSE s[k] + 1) \in Nat
  BY <1>1
<1>6. ow \in [0 .. n -> Nat] /\ at \in [0 .. n -> Nat]
  BY <1>4, <1>5, Zenon
<1>7. ow[0] = p + n /\ ow[n] = p /\ at[0] = s[1] /\ at[n] = s[n] + 1
  BY <1>1, SMTT(30)
<1>8. ASSUME NEW k \in 1 .. n
      PROVE  Follows(x, ow[k - 1], at[k - 1], u[k], ow[k], at[k])
  <2>1. ow[k - 1] = p + n - (k - 1) /\ ow[k] = p + n - k /\ at[k] = s[k] + 1
    BY SMTT(30)
  <2>2. ow[k - 1] > 0 /\ ow[k] = ow[k - 1] - 1
    BY <2>1
  <2>3. u[k].kind = "frame" /\ u[k].seq = s[k] /\ s[k] \in Nat
    BY <1>1, <1>3 DEF FrameRec
  <2>4. s[k] >= at[k - 1] /\ (x = 1 => s[k] = at[k - 1])
    <3>1. CASE k = 1
      <4>1. at[k - 1] = s[1]
        BY <3>1
      <4> QED BY <2>3, <3>1, <4>1
    <3>2. CASE k # 1
      <4>1. k - 1 \in 1 .. n - 1 /\ (k - 1) + 1 = k /\ k - 1 \in 0 .. n
        BY <3>2
      <4>2. s[k - 1] < s[k] /\ (x = 1 => s[k] = s[k - 1] + 1) /\ s[k - 1] \in Nat
        BY <1>1, <4>1 DEF Rising
      <4>3. at[k - 1] = s[k - 1] + 1
        BY <3>2, <4>1
      <4> QED BY <2>3, <4>2, <4>3, SMTT(30)
    <3> QED BY <3>1, <3>2, Zenon
  <2> HIDE DEF ow, at, u
  <2> QED BY <2>1, <2>2, <2>3, <2>4, Zenon DEF Follows
<1> HIDE DEF u, ow, at
<1>9. Flows(x, u, p + n, s[1], p, s[n] + 1)
  BY <1>3, <1>6, <1>7, <1>8, Zenon DEF Flows, Traced
<1> QED BY <1>1, <1>3, <1>9, Zenon DEF u

Units(gap, s, probe) ==
    LET out == gap \o FramesOf(s) \o probe IN <<HeaderRec(Len(out))>> \o out

OnlyMarker(u, gap, mark) ==
    \A i \in 1 .. Len(u) : u[i].kind = "gap" => gap = <<mark>> /\ u[i] = mark

\* A whole batch as NoteGap makes it: a header that counts its records, a marker
\* where the numbers jumped, the frames, perhaps a probe.  It can be read from q
\* on, and only the marker is a marker.
LEMMA BatchFlows ==
    ASSUME NEW x, NEW s \in Seq(Nat), s # <<>>, Rising(x, s),
           NEW q \in Nat, NEW gap \in Seq(Records), NEW probe \in Seq(Records),
           NEW mark \in Records, NEW ping \in Records,
           \/ gap = <<>> /\ q = s[1]
           \/ gap = <<mark>> /\ mark.kind = "gap" /\ mark.seq = q
              /\ mark.n = s[1] - q,
           \/ probe = <<>>
           \/ probe = <<ping>> /\ ping.kind = "echo",
           NEW w, w = Units(gap, s, probe), NEW z, z = s[Len(s)] + 1
    PROVE  /\ w \in Seq(Records) /\ Len(w) > 0
           /\ Flows(x, w, 0, q, 0, z) /\ OnlyMarker(w, gap, mark)
<1> DEFINE frames == FramesOf(s)
           out == gap \o frames \o probe
           head == HeaderRec(Len(out))
           g == Len(gap)
           e == Len(probe)
           n == Len(s)
           last == s[n] + 1
<1>1. n \in Nat /\ n > 0 /\ s[1] \in Nat /\ s[n] \in Nat /\ last \in Nat
  <2>1. n \in Nat /\ n > 0
    BY SMTT(30)
  <2>2. s[1] \in Nat /\ s[n] \in Nat
    BY RisingEnds, Zenon
  <2> HIDE DEF n
  <2> QED BY <2>1, <2>2, SMTT(30)
<1>2. g \in Nat /\ e \in Nat /\ (g = 0 \/ g = 1) /\ (e = 0 \/ e = 1)
  BY Zenon
<1>3. frames \in Seq(Records) /\ Len(frames) = n
      /\ Flows(x, frames, e + n, s[1], e, last)
  BY <1>2, FramesFlow, Zenon
<1>4. Flows(x, gap, g + (e + n), q, e + n, s[1])
  <2>1. CASE gap = <<>>
    <3>1. g = 0 /\ q = s[1] /\ g + (e + n) = e + n /\ e + n \in Nat
      BY <1>1, <1>2, <2>1, SMTT(30)
    <3> HIDE DEF g, e, n
    <3> QED BY <1>1, <2>1, <3>1, FlowsEmpty, Zenon
  <2>2. CASE gap = <<mark>>
    <3>1. g = 1 /\ e + n \in Nat /\ g + (e + n) \in Nat /\ g + (e + n) > 0
          /\ e + n = (g + (e + n)) - 1
      BY <1>1, <1>2, <2>2, SMTT(30)
    <3>2. mark.kind = "gap" /\ mark.seq = q /\ mark.n = s[1] - q
          /\ s[1] = q + mark.n
      BY <1>1, <2>2, SMTT(30)
    <3> HIDE DEF g, e, n
    <3>3. Follows(x, g + (e + n), q, mark, e + n, s[1])
      BY <3>1, <3>2, Zenon DEF Follows
    <3> QED BY <1>1, <2>2, <3>1, <3>3, FlowsOne, Zenon
  <2> QED BY <2>1, <2>2, Zenon
<1>5. Flows(x, probe, e, last, 0, last)
  <2>1. CASE probe = <<>>
    <3>1. e = 0
      BY <2>1, Zenon
    <3> HIDE DEF e, last
    <3> QED BY <1>1, <2>1, <3>1, FlowsEmpty, Zenon
  <2>2. CASE probe = <<ping>>
    <3>1. e = 1 /\ ping.kind = "echo"
      BY <2>2, Zenon
    <3> HIDE DEF e, last
    <3>2. Follows(x, 1, last, ping, 0, last)
      BY <3>1, SMTT(30) DEF Follows
    <3> QED BY <1>1, <2>2, <3>1, <3>2, FlowsOne, Zenon
  <2> QED BY <2>1, <2>2, Zenon
<1>6. /\ gap \o frames \in Seq(Records) /\ out \in Seq(Records)
      /\ Len(out) = g + (e + n) /\ Len(out) \in Nat /\ Len(out) > 0
  <2> HIDE DEF frames
  <2>2. gap \o frames \in Seq(Records) /\ Len(gap \o frames) = g + Len(frames)
    BY <1>3, ConcatenatedType, Zenon
  <2>3. out \in Seq(Records) /\ Len(out) = Len(gap \o frames) + e
    BY <2>2, ConcatenatedType, Zenon
  <2>1. /\ gap \o frames \in Seq(Records) /\ out \in Seq(Records)
        /\ Len(out) = (g + n) + e
    <3> HIDE DEF g, n, e, out
    <3> QED BY <1>3, <2>2, <2>3, Zenon
  <2> HIDE DEF g, n, e, out
  <2> QED BY <1>1, <1>2, <2>1
<1>7. Flows(x, out, g + (e + n), q, 0, last)
  <2> HIDE DEF g, e, n, last, frames
  <2>1. e + n \in Nat /\ g + (e + n) \in Nat
    BY <1>1, <1>2, SMTT(30)
  <2>2. Flows(x, gap \o frames, g + (e + n), q, e, last)
    BY <1>1, <1>2, <1>3, <1>4, <2>1, FlowsJoin, Zenon
  <2> QED BY <1>1, <1>2, <1>5, <1>6, <2>1, <2>2, FlowsJoin, Zenon
<1>8. head \in Records /\ head.kind = "header" /\ head.n = Len(out)
  BY <1>6, Zenon DEF HeaderRec, Records
<1>9. Flows(x, <<head>>, 0, q, Len(out), q)
  <2> HIDE DEF out, head
  <2>1. Follows(x, 0, q, head, Len(out), q)
    BY <1>6, <1>8, Zenon DEF Follows
  <2> QED BY <1>6, <1>8, <2>1, FlowsOne, Zenon
<1>10. Flows(x, <<head>> \o out, 0, q, 0, last)
  <2> HIDE DEF out, head, last, g, e, n
  <2>1. <<head>> \in Seq(Records)
    BY <1>8, SMTT(30)
  <2> QED BY <1>1, <1>6, <1>7, <1>9, <2>1, FlowsJoin, Zenon
<1> DEFINE u == <<head>> \o out
<1>11. u \in Seq(Records) /\ Len(u) = 1 + Len(out) /\ Len(u) > 0
  BY <1>6, <1>8, SMTT(30)
<1>12. ASSUME NEW i \in 1 .. Len(u), u[i].kind = "gap"
       PROVE  gap = <<mark>> /\ u[i] = mark
  <2>1. \/ u[i] = head
        \/ \E j \in 1 .. g : u[i] = gap[j]
        \/ \E j \in 1 .. n : u[i] = frames[j]
        \/ \E j \in 1 .. e : u[i] = probe[j]
    <3> HIDE DEF frames, head, out
    <3>1. <<head>> \in Seq(Records) /\ Len(<<head>>) = 1 /\ <<head>>[1] = head
      BY <1>8
    <3>2. u[i] = head \/ \E j \in 1 .. Len(out) : u[i] = out[j]
      <4>1. \/ \E j \in 1 .. Len(<<head>>) : u[i] = <<head>>[j]
            \/ \E j \in 1 .. Len(out) : u[i] = out[j]
        BY <1>6, <3>1, ConcatenatedOf, Zenon
      <4>2. \A j \in 1 .. Len(<<head>>) : <<head>>[j] = head
        BY <3>1
      <4> HIDE DEF u
      <4> QED BY <4>1, <4>2, Zenon
    <3>3. ASSUME NEW j \in 1 .. Len(out)
          PROVE  \/ \E l \in 1 .. Len(gap \o frames) : out[j] = (gap \o frames)[l]
                 \/ \E l \in 1 .. e : out[j] = probe[l]
      BY <1>6, ConcatenatedOf, Zenon DEF out
    <3>4. ASSUME NEW j \in 1 .. Len(gap \o frames)
          PROVE  \/ \E l \in 1 .. g : (gap \o frames)[j] = gap[l]
                 \/ \E l \in 1 .. n : (gap \o frames)[j] = frames[l]
      <4>1. \/ \E l \in 1 .. Len(gap) : (gap \o frames)[j] = gap[l]
            \/ \E l \in 1 .. Len(frames) : (gap \o frames)[j] = frames[l]
        BY <1>3, ConcatenatedOf, Zenon
      <4> QED BY <1>3, <4>1, Zenon
    <3> HIDE DEF u, e, n, g
    <3> QED BY <3>2, <3>3, <3>4, Zenon
  <2>2. u[i] # head
    BY <1>8, <1>12, Zenon
  <2>3. \A j \in 1 .. n : frames[j].kind = "frame"
    BY Zenon DEF FramesOf, FrameRec
  <2>4. \A j \in 1 .. e : probe[j].kind = "echo"
    BY SMTT(30)
  <2>5. PICK j \in 1 .. g : u[i] = gap[j]
    BY <1>12, <2>1, <2>2, <2>3, <2>4, Zenon
  <2>6. g = 1 /\ gap = <<mark>> /\ gap[j] = mark
    BY <1>2, <2>5, SMTT(30)
  <2> HIDE DEF u
  <2> QED BY <2>5, <2>6, Zenon
<1>13. w = u /\ z = last
  BY Zenon DEF Units
<1> HIDE DEF u, last
<1>14. OnlyMarker(u, gap, mark)
  BY <1>12, Zenon DEF OnlyMarker
<1> QED BY <1>10, <1>11, <1>13, <1>14, Zenon DEF u

----------------------------------------------------------------------------
(* The stream between the writer and the reader.                           *)

\* Concatenation is associative.
LEMMA Reassociate ==
    ASSUME NEW s \in Seq(Records), NEW t \in Seq(Records), NEW u \in Seq(Records)
    PROVE  (s \o t) \o u = s \o (t \o u)
BY SMTT(30)

\* Nothing adds nothing.
LEMMA EmptyPart ==
    ASSUME NEW s \in Seq(Records)
    PROVE  <<>> \o s = s /\ s \o <<>> = s
OBVIOUS

\* What the reader takes.
LEMMA Taken ==
    ASSUME NEW s \in Seq(Records), s # <<>>
    PROVE  /\ Head(s) \in Records /\ Tail(s) \in Seq(Records)
           /\ <<Head(s)>> \in Seq(Records)
           /\ s = <<Head(s)>> \o Tail(s)
OBVIOUS

\* What the reader keeps.
LEMMA Kept ==
    ASSUME NEW s \in Seq(Records), NEW r \in Records
    PROVE  /\ Append(s, r) \in Seq(Records) /\ Len(Append(s, r)) = Len(s) + 1
           /\ Append(s, r) = s \o <<r>>
OBVIOUS

\* Sequences that agree are equal.
LEMMA SameSequence ==
    ASSUME NEW s \in Seq(Records), NEW t \in Seq(Records), NEW n \in Nat,
           Len(s) = n, Len(t) = n, \A i \in 1 .. n : s[i] = t[i]
    PROVE  s = t
OBVIOUS

\* A buffer of which nothing was written yet.
LEMMA Unwritten ==
    ASSUME NEW s \in Seq(Records)
    PROVE  SubSeq(s, 0 + 1, Len(s)) = s
BY SMTT(30)

\* A partial write and what is left of the buffer after it.
LEMMA Written ==
    ASSUME NEW s \in Seq(Records), NEW f \in Nat, NEW k \in Nat, f + k <= Len(s)
    PROVE  /\ SubSeq(s, f + 1, f + k) \in Seq(Records)
           /\ SubSeq(s, f + k + 1, Len(s)) \in Seq(Records)
           /\ SubSeq(s, f + 1, Len(s)) \in Seq(Records)
           /\ SubSeq(s, f + 1, f + k) \o SubSeq(s, f + k + 1, Len(s))
                = SubSeq(s, f + 1, Len(s))
           /\ f + k = Len(s) => SubSeq(s, f + k + 1, Len(s)) = <<>>
<1>0. PICK d \in Nat : Len(s) = f + k + d
  <2>1. Len(s) - (f + k) \in Nat /\ Len(s) = f + k + (Len(s) - (f + k))
    OBVIOUS
  <2> QED BY <2>1, Zenon
<1> DEFINE a == SubSeq(s, f + 1, f + k)
           b == SubSeq(s, f + k + 1, f + k + d)
           c == SubSeq(s, f + 1, f + k + d)
<1>1. a \in Seq(Records) /\ Len(a) = k /\ \A i \in 1 .. k : a[i] = s[f + i]
  BY <1>0
<1>2. b \in Seq(Records) /\ Len(b) = d /\ \A i \in 1 .. d : b[i] = s[f + k + i]
  BY <1>0
<1>3. c \in Seq(Records) /\ Len(c) = k + d /\ \A i \in 1 .. k + d : c[i] = s[f + i]
  BY <1>0
<1> HIDE DEF a, b, c
<1>4. PICK m \in Nat, n \in Nat :
         /\ Len(a) = m /\ Len(b) = n /\ Len(a \o b) = m + n
         /\ \A i \in 1 .. m : (a \o b)[i] = a[i]
         /\ \A i \in 1 .. n : (a \o b)[m + i] = b[i]
  BY <1>1, <1>2, Concatenated, Zenon
<1>5. a \o b \in Seq(Records) /\ Len(a \o b) = k + d /\ m = k /\ n = d
  BY <1>1, <1>2, <1>4, ConcatenatedType, Zenon
<1>6. ASSUME NEW i \in 1 .. k + d PROVE (a \o b)[i] = c[i]
  <2>1. CASE i <= k
    <3>1. i \in 1 .. k
      BY <2>1, SMTT(30)
    <3>2. (a \o b)[i] = a[i]
      BY <1>4, <1>5, <3>1, Zenon
    <3> QED BY <1>1, <1>3, <3>1, <3>2, Zenon
  <2>2. CASE i > k
    <3>1. PICK j \in 1 .. d : i = k + j
      <4>1. i - k \in 1 .. d /\ i = k + (i - k)
        BY <2>2, SMTT(30)
      <4> QED BY <4>1, Zenon
    <3>2. (a \o b)[i] = b[j]
      BY <1>4, <1>5, <3>1, Zenon
    <3>3. f + k + j = f + i
      BY <3>1
    <3>4. b[j] = s[f + i] /\ c[i] = s[f + i]
      BY <1>2, <1>3, <3>3, Zenon
    <3> QED BY <3>2, <3>4, Zenon
  <2>3. i <= k \/ i > k
    OBVIOUS
  <2> QED BY <2>1, <2>2, <2>3, Zenon
<1>7. a \o b = c
  <2>1. k + d \in Nat
    OBVIOUS
  <2> QED BY <1>3, <1>5, <1>6, <2>1, SameSequence, Zenon
<1>8. f + k = f + k + d => b = <<>>
  BY <1>2
<1> QED BY <1>0, <1>1, <1>2, <1>3, <1>7, <1>8, Zenon DEF a, b, c

----------------------------------------------------------------------------
(* The loops of ReadRecord, record by record.                              *)

\* The tracker stays one.
LEMMA ObserveType ==
    ASSUME NEW t \in Trackers, NEW r \in Records
    PROVE  ObserveUnlessEcho(t, r) \in Trackers
BY ObserveGapEffect, ObserveFrameEffect, Zenon DEF ObserveUnlessEcho, Observe

\* g[k] is the tracker after the k-th record.
Observing(g, n, t, recs) ==
    /\ g[0] = t /\ g[n] = ForEach(ObserveUnlessEcho, t, recs)
    /\ \A k \in 1 .. n : g[k] = ObserveUnlessEcho(g[k - 1], recs[k])

\* The consumer's books after each record of a batch.
LEMMA ObserveTrace ==
    ASSUME NEW t \in Trackers, NEW recs \in Seq(Records), NEW n \in Nat, n = Len(recs)
    PROVE  \E g \in [0 .. n -> Trackers] : Observing(g, n, t, recs)
<1>0. Len(recs) = n
  OBVIOUS
<1> DEFINE Fits(f) == f = [k \in 0 .. n |-> IF k = 0 THEN t
                                            ELSE ObserveUnlessEcho(f[k - 1], recs[k])]
           loop == CHOOSE f : Fits(f)
           G == [p \in Trackers \X (1 .. n) |-> ObserveUnlessEcho(p[1], recs[p[2]])]
           S == {k \in 0 .. n : loop[k] \in Trackers}
<1>1. /\ G \in [Trackers \X (1 .. n) -> Trackers]
      /\ \A u \in Trackers, k \in 1 .. n : G[<<u, k>>] = ObserveUnlessEcho(u, recs[k])
  <2>1. \A p \in Trackers \X (1 .. n) : p[1] \in Trackers /\ recs[p[2]] \in Records
    BY <1>0
  <2> QED BY <1>0, <2>1, ObserveType, Zenon
<1> HIDE DEF G
<1>2. PICK f \in [0 .. n -> Trackers] : Recursion(f, n, Trackers, t, G)
  BY <1>1, LoopSolution, Zenon
<1>3. Fits(f)
  BY <1>1, <1>2 DEF Recursion
<1>4. Fits(loop)
  BY <1>3, Zenon
<1>5. ForEach(ObserveUnlessEcho, t, recs) = loop[n]
  BY <1>0, Zenon DEF ForEach
<1> HIDE DEF loop
<1>6. loop[0] = t /\ \A k \in 1 .. n : loop[k] = ObserveUnlessEcho(loop[k - 1], recs[k])
  BY <1>4, SMTT(30)
<1>7. 0 \in S /\ \A k \in 1 .. n : k - 1 \in S => k \in S
  <2>1. 0 \in S
    BY <1>6, SMTT(30)
  <2>2. ASSUME NEW k \in 1 .. n, k - 1 \in S PROVE k \in S
    <3>1. recs[k] \in Records /\ loop[k - 1] \in Trackers /\ k \in 0 .. n
      BY <1>0, <2>2, SMTT(30)
    <3> QED BY <1>6, <3>1, ObserveType, Zenon
  <2> QED BY <2>1, <2>2, Zenon
<1>8. \A k \in 0 .. n : k \in S
  <2> HIDE DEF S
  <2> QED BY <1>7, Upto, Zenon
<1>9. loop \in [0 .. n -> Trackers]
  BY <1>4, <1>8, Zenon
<1> QED BY <1>5, <1>6, <1>9, Zenon DEF Observing

\* What is handed over is a sequence of numbers.
LEMMA HandOverType ==
    ASSUME NEW t \in Seq(Nat), NEW r \in Records
    PROVE  HandOver(t, r) \in Seq(Nat)
BY RecordFields DEF HandOver

\* What it has received after each record of a batch.
LEMMA HandOverTrace ==
    ASSUME NEW t \in Seq(Nat), NEW recs \in Seq(Records)
    PROVE  \E g \in [0 .. Len(recs) -> Seq(Nat)] :
              /\ g[0] = t /\ g[Len(recs)] = ForEach(HandOver, t, recs)
              /\ \A k \in 1 .. Len(recs) :
                    g[k] = HandOver(g[k - 1], recs[k])
<1>0. PICK n \in Nat : Len(recs) = n
  OBVIOUS
<1> DEFINE Fits(f) == f = [k \in 0 .. n |-> IF k = 0 THEN t
                                            ELSE HandOver(f[k - 1], recs[k])]
           loop == CHOOSE f : Fits(f)
           G == [p \in Seq(Nat) \X (1 .. n) |-> HandOver(p[1], recs[p[2]])]
           S == {k \in 0 .. n : loop[k] \in Seq(Nat)}
<1>1. /\ G \in [Seq(Nat) \X (1 .. n) -> Seq(Nat)]
      /\ \A u \in Seq(Nat), k \in 1 .. n : G[<<u, k>>] = HandOver(u, recs[k])
  <2>1. \A p \in Seq(Nat) \X (1 .. n) : p[1] \in Seq(Nat) /\ recs[p[2]] \in Records
    BY <1>0
  <2> QED BY <1>0, <2>1, HandOverType, Zenon
<1> HIDE DEF G
<1>2. PICK f \in [0 .. n -> Seq(Nat)] : Recursion(f, n, Seq(Nat), t, G)
  BY <1>1, LoopSolution, Zenon
<1>3. Fits(f)
  BY <1>1, <1>2, SMTT(30) DEF Recursion
<1>4. Fits(loop)
  BY <1>3, Zenon
<1>5. ForEach(HandOver, t, recs) = loop[n]
  BY <1>0, Zenon DEF ForEach
<1> HIDE DEF loop
<1>6. loop[0] = t /\ \A k \in 1 .. n : loop[k] = HandOver(loop[k - 1], recs[k])
  BY <1>4, SMTT(30)
<1>7. 0 \in S /\ \A k \in 1 .. n : k - 1 \in S => k \in S
  <2>1. 0 \in S
    BY <1>6
  <2>2. ASSUME NEW k \in 1 .. n, k - 1 \in S PROVE k \in S
    <3>1. recs[k] \in Records /\ loop[k - 1] \in Seq(Nat) /\ k \in 0 .. n
      BY <1>0, <2>2
    <3> QED BY <1>6, <3>1, HandOverType, Zenon
  <2> QED BY <2>1, <2>2, Zenon
<1>8. \A k \in 0 .. n : k \in S
  <2> HIDE DEF S
  <2> QED BY <1>7, Upto, Zenon
<1>9. loop \in [0 .. n -> Seq(Nat)]
  BY <1>4, <1>8, Zenon
<1> QED BY <1>0, <1>5, <1>6, <1>9, Zenon

\* The books follow the stream: what they expect next is where it is, and they
\* close.
Follow(t, a) == t.have => t.next = a /\ Booked(t) = a - t.base

LEMMA ObserveFollows ==
    ASSUME NEW x, NEW t \in Trackers, NEW r \in Records, NEW o \in Nat,
           NEW a \in Nat, NEW p \in Nat, NEW b \in Nat,
           Follows(x, o, a, r, p, b), r.kind # "header", Follow(t, a)
    PROVE  /\ Follow(ObserveUnlessEcho(t, r), b)
           /\ x = 1 => ObserveUnlessEcho(t, r).silent_lost = t.silent_lost
<1>1. CASE r.kind = "echo"
  BY <1>1, Zenon DEF Follows, ObserveUnlessEcho
<1>2. CASE r.kind = "gap"
  <2>1. ObserveUnlessEcho(t, r) = ObserveGap(t, r)
    BY <1>2, Zenon DEF ObserveUnlessEcho, Observe
  <2>2. PICK g \in Trackers :
           /\ g = ObserveGap(t, r) /\ g.next = r.seq + r.n
           /\ g.base = Opened(t, r.seq)
           /\ Booked(g) = Booked(t) + r.n /\ g.silent_lost = t.silent_lost
    BY ObserveGapEffect, Zenon
  <2>3. r.seq = a /\ b = a + r.n
    BY <1>2, Zenon DEF Follows
  <2>4. Booked(g) = b - g.base
    BY <2>2, <2>3, TrackerFields, RecordFields, SMTT(30) DEF Opened, Follow
  <2> QED BY <2>1, <2>2, <2>3, <2>4, Zenon DEF Follow
<1>3. CASE r.kind = "frame"
  <2>1. ObserveUnlessEcho(t, r) = ObserveFrame(t, r)
    BY <1>3, Zenon DEF ObserveUnlessEcho, Observe
  <2> DEFINE jump == IF t.have /\ r.seq > t.next THEN r.seq - t.next ELSE 0
  <2>2. PICK g \in Trackers :
           /\ g = ObserveFrame(t, r) /\ g.next = r.seq + 1
           /\ g.base = Opened(t, r.seq)
           /\ Booked(g) = Booked(t) + jump + 1
           /\ g.silent_lost = t.silent_lost + jump
    BY ObserveFrameEffect, Zenon
  <2>3. r.seq >= a /\ (x = 1 => r.seq = a) /\ b = r.seq + 1
    BY <1>3, Zenon DEF Follows
  <2>4. jump = IF t.have THEN r.seq - a ELSE 0
    BY <2>3, TrackerFields, RecordFields, SMTT(30) DEF Follow
  <2> HIDE DEF jump
  <2>5. Booked(g) = b - g.base
    BY <2>2, <2>3, <2>4, TrackerFields, RecordFields, SMTT(30) DEF Opened, Follow
  <2>6. x = 1 => jump = 0
    BY <2>3, <2>4, RecordFields, SMTT(30)
  <2> QED BY <2>1, <2>2, <2>3, <2>5, <2>6, TrackerFields, SMTT(30) DEF Follow
<1> QED BY <1>1, <1>2, <1>3, RecordFields, Zenon

\* Over a whole batch.
LEMMA BatchObserved ==
    ASSUME NEW x, NEW t \in Trackers, NEW s \in Seq(Records),
           NEW o \in Nat, NEW a \in Nat, NEW p \in Nat, NEW b \in Nat,
           Flows(x, s, o, a, p, b), Follow(t, a),
           \A k \in 1 .. Len(s) : s[k].kind # "header"
    PROVE  LET g == ForEach(ObserveUnlessEcho, t, s)
           IN  /\ g \in Trackers /\ Follow(g, b)
               /\ x = 1 => g.silent_lost = t.silent_lost
<1>0. PICK n \in Nat : n = Len(s)
  BY SMTT(30)
<1>1. PICK ow \in [0 .. n -> Nat], at \in [0 .. n -> Nat] :
         /\ ow[0] = o /\ at[0] = a /\ ow[n] = p /\ at[n] = b
         /\ Traced(x, s, ow, at)
  BY <1>0, Zenon DEF Flows
<1>2. PICK g \in [0 .. n -> Trackers] : Observing(g, n, t, s)
  BY <1>0, ObserveTrace, Zenon
<1> DEFINE S == {k \in 0 .. n : /\ Follow(g[k], at[k])
                                /\ x = 1 => g[k].silent_lost = t.silent_lost}
<1>3. 0 \in S
  <2>1. g[0] = t /\ at[0] = a
    BY <1>1, <1>2, Zenon DEF Observing
  <2>2. 0 \in 0 .. n
    BY SMTT(30)
  <2> QED BY <2>1, <2>2, Zenon
<1>4. ASSUME NEW k \in 1 .. n, k - 1 \in S PROVE k \in S
  <2>1. Follows(x, ow[k - 1], at[k - 1], s[k], ow[k], at[k])
    BY <1>0, <1>1, Zenon DEF Traced
  <2>2. s[k] \in Records /\ s[k].kind # "header"
    BY <1>0, SMTT(30)
  <2>3. /\ k - 1 \in 0 .. n /\ k \in 0 .. n
        /\ at[k] \in Nat /\ at[k - 1] \in Nat /\ ow[k] \in Nat /\ ow[k - 1] \in Nat
        /\ g[k - 1] \in Trackers
    BY SMTT(30)
  <2>4. g[k] = ObserveUnlessEcho(g[k - 1], s[k])
    BY <1>2, Zenon DEF Observing
  <2>5. /\ Follow(g[k - 1], at[k - 1])
        /\ x = 1 => g[k - 1].silent_lost = t.silent_lost
    BY <1>4, Zenon
  <2>6. /\ Follow(ObserveUnlessEcho(g[k - 1], s[k]), at[k])
        /\ x = 1 => ObserveUnlessEcho(g[k - 1], s[k]).silent_lost
                  = g[k - 1].silent_lost
    BY <2>1, <2>2, <2>3, <2>5, ObserveFollows, SMTT(30)
  <2> QED BY <2>3, <2>4, <2>5, <2>6, Zenon
<1>5. \A k \in 0 .. n : k \in S
  <2> HIDE DEF S
  <2> QED BY <1>3, <1>4, Upto, Zenon
<1>6. n \in S /\ g[n] \in Trackers
  BY <1>5
<1> QED BY <1>1, <1>2, <1>6, Zenon DEF Observing

\* What was received is increasing and before a.
Ascends(t, a) ==
    /\ \A i \in 1 .. Len(t) - 1 : t[i] < t[i + 1]
    /\ \A i \in DOMAIN t : t[i] < a

LEMMA HandOverAscends ==
    ASSUME NEW x, NEW t \in Seq(Nat), NEW r \in Records, NEW o \in Nat,
           NEW a \in Nat, NEW p \in Nat, NEW b \in Nat,
           Follows(x, o, a, r, p, b), r.kind # "header", Ascends(t, a)
    PROVE  Ascends(HandOver(t, r), b)
<1>0. a <= b
  BY FollowsGrows, Zenon
<1>1. CASE r.kind # "frame"
  <2>1. HandOver(t, r) = t
    BY <1>1, Zenon DEF HandOver
  <2>2. \A i \in DOMAIN t : t[i] \in Nat
    BY SMTT(30)
  <2> QED BY <1>0, <2>1, <2>2 DEF Ascends
<1>2. CASE r.kind = "frame"
  <2>1. r.seq \in Nat /\ r.seq >= a /\ b = r.seq + 1
    BY <1>2, RecordFields, Zenon DEF Follows
  <2>2. PICK n \in Nat : Len(t) = n /\ DOMAIN t = 1 .. n
    OBVIOUS
  <2> DEFINE u == Append(t, r.seq)
  <2>6. HandOver(t, r) = u
    BY <1>2, Zenon DEF HandOver
  <2>3. /\ Len(u) = n + 1 /\ DOMAIN u = 1 .. n + 1 /\ u[n + 1] = r.seq
        /\ \A i \in 1 .. n : u[i] = t[i] /\ t[i] \in Nat
    BY <2>1, <2>2, SMTT(30)
  <2> HIDE DEF u
  <2>4. ASSUME NEW i \in 1 .. n PROVE u[i] < u[i + 1]
    <3>1. CASE i = n
      <4>1. u[i] = t[n] /\ u[i + 1] = r.seq /\ t[n] \in Nat
        BY <2>3, <3>1, Zenon
      <4>2. t[n] < a
        BY <2>2, <3>1, Zenon DEF Ascends
      <4> QED BY <2>1, <4>1, <4>2, SMTT(30)
    <3>2. CASE i # n
      <4>1. i \in 1 .. n - 1 /\ i + 1 \in 1 .. n
        BY <3>2, SMTT(30)
      <4> QED BY <2>2, <2>3, <4>1, Zenon DEF Ascends
    <3> QED BY <3>1, <3>2, Zenon
  <2>5. ASSUME NEW i \in 1 .. n + 1 PROVE u[i] < b
    <3>1. CASE i = n + 1
      BY <2>1, <2>3, <3>1, SMTT(30)
    <3>2. CASE i # n + 1
      <4>1. i \in 1 .. n
        BY <3>2
      <4>2. u[i] < a /\ u[i] \in Nat
        BY <2>2, <2>3, <4>1, Zenon DEF Ascends
      <4> QED BY <1>0, <4>2, SMTT(30)
    <3> QED BY <3>1, <3>2, Zenon
  <2> QED BY <2>3, <2>4, <2>5, <2>6, SMTT(30) DEF Ascends
<1> QED BY <1>1, <1>2, Zenon

\* Over a whole batch.
LEMMA BatchHandedOver ==
    ASSUME NEW x, NEW t \in Seq(Nat), NEW s \in Seq(Records),
           NEW o \in Nat, NEW a \in Nat, NEW p \in Nat, NEW b \in Nat,
           Flows(x, s, o, a, p, b), Ascends(t, a),
           \A k \in 1 .. Len(s) : s[k].kind # "header"
    PROVE  LET g == ForEach(HandOver, t, s)
           IN  g \in Seq(Nat) /\ Ascends(g, b)
<1>0. PICK n \in Nat : n = Len(s)
  OBVIOUS
<1>1. PICK ow \in [0 .. n -> Nat], at \in [0 .. n -> Nat] :
         /\ ow[0] = o /\ at[0] = a /\ ow[n] = p /\ at[n] = b
         /\ Traced(x, s, ow, at)
  BY <1>0, Zenon DEF Flows
<1>2. PICK g \in [0 .. n -> Seq(Nat)] :
         /\ g[0] = t /\ g[n] = ForEach(HandOver, t, s)
         /\ \A k \in 1 .. n : g[k] = HandOver(g[k - 1], s[k])
  BY <1>0, HandOverTrace, ZenonT(30)
<1> DEFINE S == {k \in 0 .. n : Ascends(g[k], at[k])}
<1>3. 0 \in S
  BY <1>1, <1>2
<1>4. ASSUME NEW k \in 1 .. n, k - 1 \in S PROVE k \in S
  <2>1. Follows(x, ow[k - 1], at[k - 1], s[k], ow[k], at[k])
    BY <1>0, <1>1, Zenon DEF Traced
  <2>2. s[k] \in Records /\ s[k].kind # "header"
    BY <1>0, SMTT(30)
  <2>3. /\ k - 1 \in 0 .. n /\ k \in 0 .. n
        /\ at[k] \in Nat /\ at[k - 1] \in Nat /\ ow[k] \in Nat /\ ow[k - 1] \in Nat
        /\ g[k - 1] \in Seq(Nat)
    BY SMTT(30)
  <2>4. g[k] = HandOver(g[k - 1], s[k])
    BY <1>2, Zenon
  <2>5. Ascends(g[k - 1], at[k - 1])
    BY <1>4, Zenon
  <2>6. Ascends(HandOver(g[k - 1], s[k]), at[k])
    BY <2>1, <2>2, <2>3, <2>5, HandOverAscends, Zenon
  <2> QED BY <2>3, <2>4, <2>6, Zenon
<1>5. \A k \in 0 .. n : k \in S
  <2> HIDE DEF S
  <2> QED BY <1>3, <1>4, Upto, Zenon
<1>6. n \in S /\ g[n] \in Seq(Nat)
  BY <1>5, SMTT(30)
<1> QED BY <1>1, <1>2, <1>6, Zenon

----------------------------------------------------------------------------
(* The inductive invariant.                                                *)

EgressTypes ==
    /\ tuning \in Tunings /\ tail \in Nat /\ cursor \in Nat
    /\ lost_down \in SUBSET Nat
    /\ cconn \in {"none", "backlog", "up", "eof"}
    /\ peer_gone \in BOOLEAN /\ client \in BOOLEAN
    /\ sock \in Seq(Records)
    /\ pc \in {"top", "pop", "more", "empty", "send", "parked", "exited", "gone"}
    /\ batch \in Seq(Nat) /\ pieces \in Nat
    /\ pending \in Seq(Records) /\ pending_offset \in Nat
    /\ next_seq \in Nat /\ have_seq \in BOOLEAN /\ reconnected \in BOOLEAN
    /\ echo_nonce \in Nat

ConsumerTypes ==
    /\ reading \in {"header", "payload", "error"} /\ records \in Nat
    /\ got \in Seq(Records) /\ gaps \in Trackers /\ received \in Seq(Nat)

\* The two ends of the connection, and the buffer that is being written.
LinkInv ==
    /\ cconn = "up" <=> client /\ ~peer_gone
    /\ peer_gone => client
    /\ pc \in {"pop", "more", "empty", "send", "parked"} => client
    /\ pc \notin {"send", "parked"} => pending = <<>> /\ pending_offset = 0
    /\ pc \in {"send", "parked"} => pending_offset < Len(pending) /\ have_seq

\* The batch lies between what was announced last and what the feed holds.
BatchInv ==
    /\ next_seq <= cursor /\ cursor <= tail
    /\ pieces = 0 <=> batch = <<>>
    /\ pc \in {"top", "pop", "empty", "exited", "gone"} => batch = <<>>
    /\ pc = "more" => batch # <<>>
    /\ \A i \in 1 .. Len(batch) : batch[i] < cursor
    /\ pc = "more" => \A i \in 1 .. Len(batch) : batch[i] >= next_seq
    /\ Rising(tuning.pieces, batch)

\* What was lost with nobody there is before the batch, and an absence that has
\* not been announced is remembered.
LossInv ==
    /\ \A f \in lost_down : f < cursor
    /\ pc = "more" => \A f \in lost_down : f < batch[1]
    /\ have_seq /\ ~reconnected => \A f \in lost_down : f < next_seq
    /\ ~client /\ have_seq => reconnected
    /\ OverrunsAreFaults

\* The reader is where its state says, and its books close.
ReaderInv ==
    /\ reading # "error"
    /\ reading = "header" => got = <<>>
    /\ reading = "payload" => Len(got) < records
    /\ Ascends(received, next_seq)
    /\ gaps.have => Booked(gaps) = gaps.next - gaps.base
    /\ tuning.pieces = 1 => gaps.silent_lost = 0
    /\ cconn = "backlog" => ~gaps.have /\ reading = "header"
    /\ ~have_seq => /\ next_seq = 0 /\ ~gaps.have /\ got = <<>> /\ sock = <<>>
                    /\ received = <<>> /\ reading = "header"

\* What the reader will be given if nothing more is put into a batch, from the
\* first record of the batch it is reading: on a connection the gateway has
\* closed, only what is in the socket.
Rest == SubSeq(pending, pending_offset + 1, Len(pending))
InFlight == IF cconn = "up" THEN Rest ELSE <<>>
Stream == got \o (sock \o InFlight)
Owed == IF reading = "payload" THEN records ELSE 0

\* All of it is in order, from where the consumer's books are, and on an open
\* connection up to the number note_gap compares with next.
StreamInv ==
    cconn \in {"up", "eof"} =>
        \E from, to, o \in Nat :
            /\ Follow(gaps, from) /\ Ascends(received, from)
            /\ Flows(tuning.pieces, Stream, Owed, from, o, to)
            /\ to <= next_seq
            /\ cconn = "up" => o = 0 /\ to = next_seq

EgressInv ==
    /\ EgressTypes /\ ConsumerTypes /\ LinkInv /\ BatchInv /\ LossInv
    /\ ReaderInv /\ StreamInv

\* It holds when the thread starts, before the first connection.
LEMMA EgressInitially == Init => EgressInv
<1> SUFFICES ASSUME Init PROVE EgressInv
  BY Zenon
<1> USE DEF Init, EgressInit
<1>1. EgressTypes
  <2>1. /\ tuning \in Tunings /\ tail \in Nat /\ cursor \in Nat
        /\ lost_down \in SUBSET Nat /\ sock \in Seq(Records)
        /\ batch \in Seq(Nat) /\ pieces \in Nat
        /\ pending \in Seq(Records) /\ pending_offset \in Nat
        /\ next_seq \in Nat /\ echo_nonce \in Nat
    OBVIOUS
  <2>2. /\ cconn \in {"none", "backlog", "up", "eof"}
        /\ pc \in {"top", "pop", "more", "empty", "send", "parked", "exited", "gone"}
        /\ peer_gone \in BOOLEAN /\ client \in BOOLEAN
        /\ have_seq \in BOOLEAN /\ reconnected \in BOOLEAN
    BY Zenon
  <2> QED BY <2>1, <2>2, Zenon DEF EgressTypes
<1>2. NewTracker \in Trackers /\ NewTracker.have = FALSE /\ NewTracker.silent_lost = 0
  BY SMTT(30) DEF NewTracker, Trackers
<1>3. ConsumerTypes
  BY <1>2, SMTT(30) DEF ConsumerTypes
<1>4. LinkInv /\ StreamInv
  BY Zenon DEF LinkInv, StreamInv
<1>5. BatchInv
  BY SMTT(30) DEF BatchInv, Rising
<1>6. OverrunsAreFaults
  BY Zenon DEF OverrunsAreFaults, MarkersOut, Range
<1>7. LossInv
  BY <1>6, Zenon DEF LossInv
<1>8. ReaderInv
  BY <1>2, SMTT(30) DEF ReaderInv, Ascends
<1> QED BY <1>1, <1>3, <1>4, <1>5, <1>7, <1>8, Zenon DEF EgressInv

\* What the invariant looks at, but for pc.
looked ==
    <<tuning, tail, cursor, lost_down, cconn, peer_gone, client, sock, batch,
      pieces, pending, pending_offset, next_seq, have_seq, reconnected,
      echo_nonce, reading, records, got, gaps, received>>

Idle == {"top", "pop", "empty", "exited", "gone"}
Writing == {"send", "parked"}

\* Steps that only move the thread, and not into or out of a batch.
LEMMA Elsewhere ==
    ASSUME EgressInv, UNCHANGED looked,
           \/ pc' = pc
           \/ pc \in Idle /\ pc' \in Idle /\ (pc' \in {"pop", "empty"} => client)
           \/ pc \in Writing /\ pc' \in Writing
    PROVE  EgressInv'
<1> USE DEF EgressInv, looked, Idle, Writing
<1>1. EgressTypes' /\ ConsumerTypes'
  BY SMTT(30) DEF EgressTypes, ConsumerTypes
<1>2. LinkInv'
  BY Zenon DEF LinkInv
<1>3. BatchInv'
  BY Zenon DEF BatchInv
<1>4. LossInv'
  <2>1. OverrunsAreFaults'
    BY SMTT(30) DEF LossInv, OverrunsAreFaults, MarkersOut, Range, Covers
  <2> QED BY <2>1, Zenon DEF LossInv
<1>5. ReaderInv'
  BY Zenon DEF ReaderInv
<1>6. StreamInv'
  <2>1. Stream' = Stream /\ Owed' = Owed
    BY Zenon DEF Stream, InFlight, Rest, Owed
  <2> QED BY <2>1, Zenon DEF StreamInv
<1> QED BY <1>1, <1>2, <1>3, <1>4, <1>5, <1>6, Zenon

\* Steps that leave the stream alone, or close the reader's end of it.
LEMMA StreamKept ==
    ASSUME EgressInv,
           UNCHANGED <<tuning, sock, next_seq, reading, records, got, gaps, received>>,
           cconn' = cconn \/ cconn' \in {"none", "backlog"},
           cconn = "up" => UNCHANGED <<pending, pending_offset>>
    PROVE  StreamInv'
<1>1. CASE cconn' # cconn
  BY <1>1, Zenon DEF StreamInv
<1>2. CASE cconn' = cconn
  <2>1. Stream' = Stream /\ Owed' = Owed
    BY <1>2, Zenon DEF Stream, InFlight, Rest, Owed
  <2> QED BY <1>2, <2>1, Zenon DEF StreamInv, EgressInv
<1> QED BY <1>1, <1>2, Zenon

\* Steps that leave the books alone.
LEMMA ReaderKept ==
    ASSUME EgressInv,
           UNCHANGED <<tuning, sock, next_seq, have_seq, reading, records, got,
                       gaps, received>>,
           cconn' = cconn \/ cconn' # "backlog"
    PROVE  ReaderInv'
BY Zenon DEF EgressInv, ReaderInv

\* The markers in the buffer, when neither they nor the losses change.
LEMMA MarkersKept ==
    ASSUME EgressInv, pending' = pending \/ pending' = <<>>,
           lost_down' = lost_down \/ pending = <<>>
    PROVE  OverrunsAreFaults'
BY SMTT(30) DEF EgressInv, LossInv, OverrunsAreFaults, MarkersOut, Range, Covers

\* Produce: a frame is sequenced, and may push one out.
LEMMA ProduceKeeps ==
    ASSUME EgressInv, Produce, UNCHANGED consumer
    PROVE  EgressInv'
<1> USE DEF EgressInv
<1>0. /\ UNCHANGED <<tuning, cconn, peer_gone, sock, pc, client, batch, pieces,
                     pending, pending_offset, next_seq, have_seq, reconnected,
                     echo_nonce, reading, records, got, gaps, received>>
  BY Zenon DEF Produce, shutdown, link, writer, marks, echo, consumer
<1>1. /\ tail \in Nat /\ cursor \in Nat /\ cursor <= tail /\ tail' = tail + 1
      /\ lost_down \in SUBSET Nat
  BY Zenon DEF Produce, EgressTypes, BatchInv
<1>2. /\ cursor' \in {cursor, cursor + 1} /\ cursor' <= tail'
      /\ lost_down' \in {lost_down, lost_down \cup {cursor}}
      /\ lost_down' # lost_down => ~client /\ cursor' = cursor + 1
  BY <1>1, EgressAssumption, SMTT(30) DEF Produce
<1>3. EgressTypes' /\ ConsumerTypes'
  <2>1. tail' \in Nat /\ cursor' \in Nat /\ lost_down' \in SUBSET Nat
    BY <1>1, <1>2, SMTT(30)
  <2> QED BY <1>0, <2>1, SMTT(30) DEF EgressTypes, ConsumerTypes
<1>4. LinkInv'
  BY <1>0, Zenon DEF LinkInv
<1>5. BatchInv'
  <2>1. next_seq' <= cursor'
    BY <1>0, <1>1, <1>2, SMTT(30) DEF BatchInv, EgressTypes
  <2>2. \A i \in 1 .. Len(batch) : batch[i] < cursor'
    BY <1>1, <1>2, SMTT(30) DEF BatchInv, EgressTypes
  <2> QED BY <1>0, <1>2, <2>1, <2>2, Zenon DEF BatchInv
<1>6. LossInv'
  <2>1. lost_down' = lost_down \/ pending = <<>>
    BY <1>2, Zenon DEF LinkInv, EgressTypes
  <2>2. OverrunsAreFaults'
    BY <1>0, <2>1, MarkersKept, Zenon
  <2>3. \A f \in lost_down' : f < cursor'
    BY <1>1, <1>2, SMTT(30) DEF LossInv
  <2>4. pc' = "more" => \A f \in lost_down' : f < batch'[1]
    BY <1>0, <1>2, Zenon DEF LossInv, LinkInv
  <2>5. have_seq' /\ ~reconnected' => \A f \in lost_down' : f < next_seq'
    BY <1>0, <1>2, Zenon DEF LossInv
  <2> QED BY <1>0, <2>2, <2>3, <2>4, <2>5, Zenon DEF LossInv
<1>7. ReaderInv'
  BY <1>0, ReaderKept, Zenon
<1>8. StreamInv'
  BY <1>0, StreamKept, Zenon
<1> QED BY <1>3, <1>4, <1>5, <1>6, <1>7, <1>8, Zenon

\* Pop: a piece is added to the batch.
LEMMA PopKeeps ==
    ASSUME EgressInv, Pop, UNCHANGED consumer
    PROVE  EgressInv'
<1> USE DEF EgressInv
<1>0. /\ UNCHANGED <<tail, lost_down, tuning, cconn, peer_gone, sock, client,
                     pending, pending_offset, next_seq, have_seq, reconnected,
                     echo_nonce, reading, records, got, gaps, received>>
      /\ pc \in {"pop", "more"} /\ pc' = "more" /\ pieces' = pieces + 1
      /\ pieces < tuning.pieces
  BY Zenon DEF Pop, shutdown, link, marks, echo, consumer
<1>1. PICK k \in Nat : /\ k > 0 /\ cursor + k <= tail
                       /\ batch' = batch \o [i \in 1 .. k |-> cursor + i - 1]
                       /\ cursor' = cursor + k
  <2> DEFINE room == MaxFrames - Len(batch)
             k == IF Available < room THEN Available ELSE room
  <2>1. /\ batch' = batch \o [i \in 1 .. k |-> cursor + i - 1]
        /\ cursor' = cursor + k
    BY Zenon DEF Pop, CursorAfter
  <2>2. Available \in Nat /\ Available > 0 /\ Available = tail - cursor
    BY SMTT(30) DEF Pop, SomeFrame, Available, EgressTypes, BatchInv
  <2>3. room \in Nat /\ room > 0
    BY EgressAssumption, SMTT(30) DEF Pop, EgressTypes
  <2>4. k \in Nat /\ k > 0 /\ cursor + k <= tail
    <3> HIDE DEF room, Available
    <3> QED BY <2>2, <2>3, SMTT(30) DEF EgressTypes
  <2> HIDE DEF k
  <2> QED BY <2>1, <2>4, Zenon
<1>2. /\ batch \in Seq(Nat) /\ cursor \in Nat /\ next_seq \in Nat
      /\ tail \in Nat /\ pieces \in Nat
      /\ next_seq <= cursor /\ Rising(tuning.pieces, batch)
  BY Zenon DEF EgressTypes, BatchInv
<1>3. tuning.pieces = 1 => batch = <<>>
  BY <1>0, <1>2, SMTT(30) DEF BatchInv
<1>4. Within(batch, next_seq, cursor)
  BY <1>0 DEF BatchInv, Within
<1>5. /\ batch' \in Seq(Nat) /\ batch' # <<>> /\ Rising(tuning.pieces, batch')
      /\ Within(batch', next_seq, cursor') /\ StartsAt(batch', batch, cursor)
  <2> HIDE DEF Rising
  <2>1. batch' = batch \o Piece(cursor, k)
    BY <1>1, Zenon DEF Piece
  <2>2. k > 0 /\ cursor' = cursor + k
    BY <1>1, Zenon
  <2>3. /\ next_seq <= cursor /\ Rising(tuning.pieces, batch)
        /\ batch \in Seq(Nat) /\ cursor \in Nat /\ next_seq \in Nat
    BY <1>2, Zenon
  <2> QED BY <2>1, <2>2, <2>3, <1>3, <1>4, PieceAdded, Zenon
<1>6. EgressTypes' /\ ConsumerTypes'
  <2>1. cursor' \in Nat /\ pieces' \in Nat
    BY <1>0, <1>1, <1>2, SMTT(30)
  <2> QED BY <1>0, <1>5, <2>1, SMTT(30) DEF EgressTypes, ConsumerTypes
<1>7. LinkInv'
  BY <1>0, Zenon DEF LinkInv
<1>8. BatchInv'
  <2>1. /\ next_seq' <= cursor' /\ cursor' <= tail' /\ pieces' # 0
    BY <1>0, <1>1, <1>2, SMTT(30)
  <2> QED BY <1>0, <1>1, <1>5, <2>1, Zenon DEF BatchInv, Within
<1>9. LossInv'
  <2>1. OverrunsAreFaults'
    BY <1>0, MarkersKept, Zenon
  <2>2. \A f \in lost_down : f < cursor /\ f < cursor' /\ f < batch'[1]
    <3>1. \A f \in lost_down : f \in Nat /\ f < cursor
      BY Zenon DEF LossInv, EgressTypes
    <3>2. batch # <<>> => pc = "more"
      BY <1>0, Zenon DEF BatchInv
    <3>3. \A f \in lost_down : f < batch'[1]
      BY <1>5, <3>1, <3>2, Zenon DEF LossInv, StartsAt
    <3> QED BY <1>1, <1>2, <3>1, <3>3, SMTT(30)
  <2> QED BY <1>0, <2>1, <2>2, Zenon DEF LossInv
<1>10. ReaderInv' /\ StreamInv'
  BY <1>0, ReaderKept, StreamKept, Zenon
<1> QED BY <1>6, <1>7, <1>8, <1>9, <1>10, Zenon

\* Types of the stream's parts.
LEMMA StreamTypes ==
    ASSUME EgressInv
    PROVE  /\ Rest \in Seq(Records) /\ InFlight \in Seq(Records)
           /\ sock \in Seq(Records) /\ got \in Seq(Records) /\ Owed \in Nat
           /\ pc \notin Writing => Rest = <<>>
<1>1. pending \in Seq(Records) /\ pending_offset \in Nat /\ pending_offset <= Len(pending)
  BY DEF EgressInv, EgressTypes, LinkInv
<1>2. pending_offset + 0 <= Len(pending) /\ 0 \in Nat
  BY <1>1, SMTT(30)
<1>3. Rest \in Seq(Records)
  BY <1>1, <1>2, Written, SMTT(30) DEF Rest
<1>4. pc \notin Writing => pending = <<>> /\ pending_offset = 0
  BY Zenon DEF EgressInv, LinkInv, Writing
<1>5. pc \notin Writing => Rest = <<>>
  BY <1>4, Unwritten, SMTT(30) DEF Rest
<1> QED BY <1>3, <1>5, SMTT(30) DEF EgressInv, EgressTypes, ConsumerTypes, InFlight, Owed

\* NoteGap: the batch is encoded.
LEMMA NoteGapKeeps ==
    ASSUME EgressInv, NEW due \in BOOLEAN, NoteGap(due), UNCHANGED consumer
    PROVE  EgressInv'
<1> USE DEF EgressInv
<1>0. /\ UNCHANGED <<tail, cursor, lost_down, tuning, cconn, peer_gone, sock,
                     client, batch, pieces, reading, records, got, gaps, received>>
      /\ pc = "more" /\ pc' = "send" /\ pending_offset' = 0
      /\ have_seq' = TRUE /\ reconnected' = FALSE
      /\ next_seq' = batch[Len(batch)] + 1
      /\ echo_nonce' = echo_nonce + (IF due THEN 1 ELSE 0)
  BY Zenon DEF NoteGap, feed, shutdown, link, consumer
<1> DEFINE gap == IF Jumped THEN <<Marker>> ELSE <<>>
           probe == IF due THEN <<EchoRec(echo_nonce + 1)>> ELSE <<>>
           mark == IF Jumped THEN Marker ELSE EchoRec(0)
           q == IF have_seq THEN next_seq ELSE batch[1]
<1>1. /\ batch \in Seq(Nat) /\ batch # <<>> /\ Rising(tuning.pieces, batch)
      /\ next_seq \in Nat /\ cursor \in Nat /\ echo_nonce \in Nat
      /\ have_seq \in BOOLEAN
  BY <1>0, Zenon DEF EgressTypes, BatchInv
<1>2. PICK n \in Nat : /\ n = Len(batch) /\ n > 0
                       /\ batch[1] \in Nat /\ batch[n] \in Nat /\ batch[1] <= batch[n]
                       /\ batch[1] >= next_seq /\ batch[n] < cursor
  <2>1. /\ batch[1] \in Nat /\ batch[Len(batch)] \in Nat
        /\ batch[1] <= batch[Len(batch)]
    BY <1>1, RisingEnds, Zenon
  <2>2. Len(batch) \in Nat /\ Len(batch) > 0
    BY <1>1, SMTT(30)
  <2>3. batch[1] >= next_seq /\ batch[Len(batch)] < cursor
    BY <1>0, <2>2, SMTT(30) DEF BatchInv
  <2> QED BY <2>1, <2>2, <2>3, Zenon
<1>3. /\ next_seq' \in Nat /\ next_seq' > batch[1] /\ next_seq' > next_seq
      /\ next_seq' <= cursor /\ next_seq' = batch[n] + 1
  BY <1>0, <1>1, <1>2, SMTT(30)
<1>4. Jumped => /\ have_seq /\ next_seq < batch[1] /\ Marker \in Records
                /\ Marker.kind = "gap" /\ Marker.seq = next_seq
                /\ Marker.n = batch[1] - next_seq
                /\ (Marker.why = "overrun" => ~reconnected)
  <2> SUFFICES ASSUME Jumped
               PROVE  /\ have_seq /\ next_seq < batch[1] /\ Marker \in Records
                      /\ Marker.kind = "gap" /\ Marker.seq = next_seq
                      /\ Marker.n = batch[1] - next_seq
                      /\ (Marker.why = "overrun" => ~reconnected)
    BY Zenon
  <2>1. have_seq /\ next_seq < batch[1] /\ batch[1] - next_seq \in Nat
    BY <1>1, <1>2, SMTT(30) DEF Jumped
  <2> QED BY <1>1, <2>1, Zenon DEF Marker, GapRec, Records
<1>5. ~Jumped /\ have_seq => batch[1] = next_seq
  BY <1>1, <1>2, SMTT(30) DEF Jumped
<1>6. /\ mark \in Records /\ EchoRec(echo_nonce + 1) \in Records
      /\ EchoRec(echo_nonce + 1).kind = "echo" /\ q \in Nat
  BY <1>1, <1>2, <1>4, SMTT(30) DEF EchoRec, Records
<1>7. /\ gap \in Seq(Records) /\ probe \in Seq(Records)
      /\ \/ gap = <<>> /\ q = batch[1]
         \/ gap = <<mark>> /\ mark.kind = "gap" /\ mark.seq = q
            /\ mark.n = batch[1] - q
      /\ \/ probe = <<>>
         \/ probe = <<EchoRec(echo_nonce + 1)>>
  BY <1>4, <1>5, <1>6, SMTT(30)
<1>8. pending' = Units(gap, batch, probe)
  <2>1. Frames = FramesOf(batch)
    BY <1>1, SMTT(30) DEF Frames, FramesOf
  <2>2. LET out == gap \o Frames \o probe
        IN  pending' = <<HeaderRec(Len(out))>> \o out
    BY Zenon DEF NoteGap
  <2> QED BY <2>1, <2>2, Zenon DEF Units
<1>9. /\ pending' \in Seq(Records) /\ Len(pending') > 0
      /\ Flows(tuning.pieces, pending', 0, q, 0, next_seq')
      /\ OnlyMarker(pending', gap, mark)
  <2> HIDE DEF gap, probe, mark, q
  <2>1. next_seq' = batch[Len(batch)] + 1
    BY <1>0, Zenon
  <2> QED BY <1>1, <1>6, <1>7, <1>8, <2>1, BatchFlows, ZenonT(30)
<1>10. EgressTypes' /\ ConsumerTypes'
  <2>1. echo_nonce' \in Nat /\ pc' \in {"send"} /\ pending_offset' \in Nat
    BY <1>0, <1>1
  <2> QED BY <1>0, <1>3, <1>9, <2>1, Zenon DEF EgressTypes, ConsumerTypes
<1>11. LinkInv'
  BY <1>0, <1>9, Zenon DEF LinkInv
<1>12. BatchInv'
  BY <1>0, <1>3, Zenon DEF BatchInv
<1>13. LossInv'
  <2>1. \A f \in lost_down : f \in Nat /\ f < batch[1] /\ f < cursor
    BY <1>0, Zenon DEF LossInv, EgressTypes
  <2>2. \A f \in lost_down : f < next_seq'
    BY <1>2, <1>3, <2>1, SMTT(30)
  <2>3. ASSUME NEW m \in MarkersOut("overrun")' PROVE Covers(m) \cap lost_down = {}
    <3>1. PICK i \in 1 .. Len(pending') : m = pending'[i]
      BY <1>9, SMTT(30) DEF MarkersOut, Range
    <3>2. m.kind = "gap" /\ m.why = "overrun"
      BY Zenon DEF MarkersOut
    <3>3. gap = <<mark>> /\ m = mark
      BY <1>9, <3>1, <3>2, Zenon DEF OnlyMarker
    <3>4. Jumped /\ m = Marker
      BY <3>3, Zenon
    <3>5. /\ m.seq = next_seq /\ have_seq /\ ~reconnected
      BY <1>4, <3>2, <3>4, Zenon
    <3>6. \A f \in lost_down : f < next_seq
      BY <3>5, Zenon DEF LossInv
    <3> QED BY <1>1, <2>1, <3>5, <3>6, SMTT(30) DEF Covers
  <2>4. OverrunsAreFaults'
    BY <1>0, <2>3, Zenon DEF OverrunsAreFaults, Covers
  <2> QED BY <1>0, <2>1, <2>2, <2>4, Zenon DEF LossInv, LinkInv
<1>14. ReaderInv'
  <2>1. Ascends(received, next_seq')
    BY <1>1, <1>3, SMTT(30) DEF ReaderInv, Ascends, ConsumerTypes
  <2> QED BY <1>0, <2>1, Zenon DEF ReaderInv
<1>15. StreamInv'
  <2>1. CASE cconn = "eof"
    <3>1. Stream' = Stream /\ Owed' = Owed
      BY <1>0, <2>1, Zenon DEF Stream, InFlight, Owed
    <3>2. PICK from \in Nat, to \in Nat, o \in Nat :
             /\ Follow(gaps, from) /\ Ascends(received, from)
             /\ Flows(tuning.pieces, Stream, Owed, from, o, to)
             /\ to <= next_seq
      BY <2>1, Zenon DEF StreamInv
    <3>3. to <= next_seq'
      BY <1>1, <1>3, <3>2, SMTT(30)
    <3> QED BY <1>0, <2>1, <3>1, <3>2, <3>3, Zenon DEF StreamInv
  <2>2. CASE cconn = "up"
    <3>1. Rest' = pending'
      BY <1>0, <1>9, Unwritten, Zenon DEF Rest
    <3>2. Stream' = got \o (sock \o pending') /\ Owed' = Owed
      BY <1>0, <2>2, <3>1, Zenon DEF Stream, InFlight, Owed
    <3>3. CASE have_seq
      <4>1. Stream = got \o sock
        BY <1>0, <2>2, StreamTypes, EmptyPart, Zenon DEF Stream, InFlight, Writing
      <4>2. Stream' = (got \o sock) \o pending' /\ got \o sock \in Seq(Records)
        <5>1. /\ got \in Seq(Records) /\ sock \in Seq(Records)
              /\ pending' \in Seq(Records)
          BY <1>9, StreamTypes, Zenon
        <5>2. (got \o sock) \o pending' = got \o (sock \o pending')
          BY <5>1, Reassociate, SMTT(30)
        <5>3. got \o sock \in Seq(Records)
          BY <5>1, ConcatenatedType, Zenon
        <5> QED BY <3>2, <5>2, <5>3, Zenon
      <4>3. PICK from \in Nat :
               /\ Follow(gaps, from) /\ Ascends(received, from)
               /\ Flows(tuning.pieces, Stream, Owed, from, 0, next_seq)
        BY <2>2, Zenon DEF StreamInv
      <4>4. q = next_seq /\ Owed \in Nat
        BY <3>3, StreamTypes, Zenon
      <4> HIDE DEF q
      <4>5. Flows(tuning.pieces, Stream', Owed, from, 0, next_seq')
        BY <1>1, <1>3, <1>9, <4>1, <4>2, <4>3, <4>4, FlowsJoin, Zenon
      <4> QED BY <1>0, <1>3, <2>2, <3>2, <4>3, <4>5, SMTT(30) DEF StreamInv
    <3>4. CASE ~have_seq
      <4>1. /\ got = <<>> /\ sock = <<>> /\ received = <<>> /\ ~gaps.have
            /\ Owed = 0 /\ q = batch[1]
        BY <3>4, Zenon DEF ReaderInv, Owed
      <4>2. Stream' = pending'
        BY <1>9, <3>2, <4>1, EmptyPart, Zenon
      <4>3. Follow(gaps, batch[1]) /\ Ascends(received, batch[1])
        BY <4>1, SMTT(30) DEF Follow, Ascends
      <4> HIDE DEF q
      <4> QED BY <1>0, <1>2, <1>3, <1>9, <2>2, <3>2, <4>1, <4>2, <4>3, SMTT(30) DEF StreamInv
    <3> QED BY <3>3, <3>4, Zenon
  <2>3. CASE cconn \notin {"up", "eof"}
    BY <1>0, <2>3, Zenon DEF StreamInv
  <2> QED BY <2>1, <2>2, <2>3, Zenon
<1> QED BY <1>10, <1>11, <1>12, <1>13, <1>14, <1>15, SMTT(30)

\* Send: a write takes k units, and the last one ends the batch.
LEMMA SendKeeps ==
    ASSUME EgressInv, NEW k \in 1 .. SockUnits, Send(k), UNCHANGED consumer
    PROVE  EgressInv'
<1> USE DEF EgressInv
<1>0. /\ UNCHANGED <<tail, cursor, lost_down, tuning, cconn, peer_gone, client,
                     next_seq, have_seq, reconnected, echo_nonce, reading,
                     records, got, gaps, received>>
      /\ pc = "send" /\ have_seq /\ client
  BY Zenon DEF Send, feed, shutdown, marks, echo, consumer, LinkInv
<1>1. /\ pending \in Seq(Records) /\ pending_offset \in Nat /\ k \in Nat
      /\ Len(pending) \in Nat /\ pending_offset + k <= Len(pending)
  BY EgressAssumption, SMTT(30) DEF Send, EgressTypes
<1>2. /\ Sending(k) \in Seq(Records)
      /\ SubSeq(pending, pending_offset + k + 1, Len(pending)) \in Seq(Records)
      /\ Sending(k) \o SubSeq(pending, pending_offset + k + 1, Len(pending)) = Rest
      /\ pending_offset + k = Len(pending)
            => SubSeq(pending, pending_offset + k + 1, Len(pending)) = <<>>
  BY <1>1, Written, Zenon DEF Sending, Rest
<1>3. \/ /\ pending_offset + k = Len(pending)
         /\ pending' = <<>> /\ pending_offset' = 0
         /\ batch' = <<>> /\ pieces' = 0 /\ pc' = "top"
      \/ /\ pending_offset + k # Len(pending)
         /\ pending_offset' = pending_offset + k
         /\ UNCHANGED <<pending, batch, pieces, pc>>
  BY Zenon DEF Send, DiscardPending
<1>4. Rest' = SubSeq(pending, pending_offset + k + 1, Len(pending))
  <2>1. CASE pending_offset + k = Len(pending)
    <3>1. Rest' = SubSeq(<<>>, 0 + 1, Len(<<>>))
      BY <1>3, <2>1, Zenon DEF Rest
    <3>2. Rest' = <<>>
      BY <3>1, Unwritten
    <3> QED BY <1>2, <2>1, <3>2, Zenon
  <2>2. CASE pending_offset + k # Len(pending)
    BY <1>3, <2>2, Zenon DEF Rest
  <2> QED BY <2>1, <2>2, Zenon
<1>5. sock' = (IF peer_gone THEN sock ELSE sock \o Sending(k)) /\ sock' \in Seq(Records)
  <2>1. sock \in Seq(Records)
    BY Zenon DEF EgressTypes
  <2> QED BY <1>2, <2>1, ConcatenatedType, Zenon DEF Send
<1>6. EgressTypes' /\ ConsumerTypes'
  <2>1. /\ pending' \in Seq(Records) /\ pending_offset' \in Nat
        /\ batch' \in Seq(Nat) /\ pieces' \in Nat /\ pc' \in {"top", "send"}
    <3>1. CASE pending_offset + k = Len(pending)
      <4>1. /\ pending' = <<>> /\ pending_offset' = 0
            /\ batch' = <<>> /\ pieces' = 0 /\ pc' = "top"
        BY <1>3, <3>1, Zenon
      <4> QED BY <4>1, SMTT(30)
    <3>2. CASE pending_offset + k # Len(pending)
      <4>1. /\ pending_offset' = pending_offset + k
            /\ UNCHANGED <<pending, batch, pieces, pc>>
        BY <1>3, <3>2, Zenon
      <4>2. pending_offset + k \in Nat
        BY <1>1, SMTT(30)
      <4> QED BY <1>0, <4>1, <4>2, Zenon DEF EgressTypes
    <3> QED BY <3>1, <3>2, Zenon
  <2> QED BY <1>0, <1>5, <2>1, Zenon DEF EgressTypes, ConsumerTypes
<1>7. LinkInv'
  <2>1. pending_offset + k # Len(pending) => pending_offset + k < Len(pending)
    BY <1>1, SMTT(30)
  <2> QED BY <1>0, <1>3, <2>1, Zenon DEF LinkInv
<1>8. BatchInv'
  BY <1>0, <1>3, SMTT(30) DEF BatchInv, Rising
<1>9. LossInv'
  <2>1. OverrunsAreFaults'
    BY <1>0, <1>3, MarkersKept, Zenon
  <2> QED BY <1>0, <1>3, <2>1, Zenon DEF LossInv
<1>10. ReaderInv'
  BY <1>0, Zenon DEF ReaderInv
<1>11. StreamInv'
  <2>1. Stream' = Stream
    <3>1. CASE cconn = "up"
      <4>1. sock' = sock \o Sending(k)
        BY <1>5, <3>1, Zenon DEF LinkInv
      <4>2. Stream = got \o (sock \o Rest) /\ Stream' = got \o (sock' \o Rest')
        BY <1>0, <3>1, Zenon DEF Stream, InFlight
      <4>3. (sock \o Sending(k)) \o Rest' = sock \o (Sending(k) \o Rest')
        <5>1. /\ sock \in Seq(Records) /\ Sending(k) \in Seq(Records)
              /\ Rest' \in Seq(Records)
          BY <1>2, <1>4, StreamTypes, Zenon
        <5> QED BY <5>1, Reassociate, SMTT(30)
      <4> QED BY <1>2, <1>4, <4>1, <4>2, <4>3, Zenon
    <3>2. CASE cconn # "up"
      <4>1. sock' = sock
        BY <1>0, <1>5, <3>2, Zenon DEF LinkInv
      <4> QED BY <1>0, <3>2, <4>1, Zenon DEF Stream, InFlight
    <3> QED BY <3>1, <3>2, Zenon
  <2>2. Owed' = Owed
    BY <1>0, Zenon DEF Owed
  <2> QED BY <1>0, <2>1, <2>2, Zenon DEF StreamInv
<1> QED BY <1>6, <1>7, <1>8, <1>9, <1>10, <1>11, Zenon

\* drop_client: the rest of the batch is discarded; a consumer that is still
\* there reads what is in the socket.
LEMMA DropClientKeeps ==
    ASSUME EgressInv, client, DropClient, pc' \in {"top", "gone"}, UNCHANGED consumer
    PROVE  EgressInv'
<1> USE DEF EgressInv
<1>0. /\ UNCHANGED <<tail, cursor, lost_down, tuning, sock, next_seq, have_seq,
                     echo_nonce, reading, records, got, gaps, received>>
      /\ client' = FALSE /\ peer_gone' = FALSE /\ reconnected' = TRUE
      /\ cconn' = (IF peer_gone THEN cconn ELSE "eof")
      /\ pending' = <<>> /\ pending_offset' = 0 /\ batch' = <<>> /\ pieces' = 0
  BY Zenon DEF DropClient, RememberAbsence, DiscardPending, feed, shutdown, marks, consumer
<1>1. peer_gone \/ cconn = "up"
  BY Zenon DEF LinkInv
<1>2. EgressTypes' /\ ConsumerTypes'
  <2>1. /\ pending' \in Seq(Records) /\ pending_offset' \in Nat
        /\ batch' \in Seq(Nat) /\ pieces' \in Nat
    BY <1>0, SMTT(30)
  <2>2. cconn' \in {"none", "backlog", "up", "eof"}
    BY <1>0, Zenon DEF EgressTypes
  <2> QED BY <1>0, <2>1, <2>2, Zenon DEF EgressTypes, ConsumerTypes
<1>3. LinkInv'
  BY <1>0, <1>1, Zenon DEF LinkInv
<1>4. BatchInv'
  BY <1>0, SMTT(30) DEF BatchInv, Rising
<1>5. LossInv'
  <2>1. OverrunsAreFaults'
    BY <1>0, MarkersKept, Zenon
  <2> QED BY <1>0, <2>1, Zenon DEF LossInv
<1>6. ReaderInv'
  BY <1>0, ReaderKept, Zenon
<1>7. StreamInv'
  <2>1. CASE peer_gone
    <3>1. cconn # "up" /\ cconn' = cconn
      BY <1>0, <2>1, Zenon DEF LinkInv
    <3> QED BY <1>0, <3>1, StreamKept, Zenon
  <2>2. CASE ~peer_gone
    <3>1. cconn = "up" /\ cconn' = "eof"
      BY <1>0, <1>1, <2>2, Zenon
    <3>2. got \o sock \in Seq(Records) /\ Owed \in Nat /\ Rest \in Seq(Records)
      BY StreamTypes, ConcatenatedType, Zenon
    <3>3. Stream = (got \o sock) \o Rest
      BY <3>1, StreamTypes, Reassociate, Zenon DEF Stream, InFlight
    <3>4. Stream' = got \o sock /\ Owed' = Owed
      BY <1>0, <3>1, StreamTypes, EmptyPart, Zenon DEF Stream, InFlight, Owed
    <3>5. PICK from \in Nat :
             /\ Follow(gaps, from) /\ Ascends(received, from)
             /\ Flows(tuning.pieces, Stream, Owed, from, 0, next_seq)
      BY <3>1, Zenon DEF StreamInv
    <3>6. next_seq \in Nat
      BY Zenon DEF EgressTypes
    <3>7. PICK o \in Nat, to \in Nat :
             /\ Flows(tuning.pieces, got \o sock, Owed, from, o, to)
             /\ Flows(tuning.pieces, Rest, o, to, 0, next_seq)
      BY <3>2, <3>3, <3>5, <3>6, FlowsSplit, Zenon
    <3>8. to <= next_seq
      BY <3>2, <3>6, <3>7, FlowsGrows, Zenon
    <3> QED BY <1>0, <3>1, <3>4, <3>5, <3>7, <3>8, SMTT(30) DEF StreamInv
  <2> QED BY <2>1, <2>2, Zenon
<1> QED BY <1>2, <1>3, <1>4, <1>5, <1>6, <1>7, Zenon

\* wait_for_client accepts a connection that is already closed.
LEMMA AcceptDeadKeeps ==
    ASSUME EgressInv, AcceptDead, UNCHANGED consumer
    PROVE  EgressInv'
<1> USE DEF EgressInv
<1>0. /\ UNCHANGED <<tail, cursor, lost_down, tuning, cconn, sock, pc, batch,
                     pieces, pending, pending_offset, next_seq, have_seq,
                     reconnected, echo_nonce, reading, records, got, gaps, received>>
      /\ pc = "top" /\ ~client /\ client' = TRUE /\ peer_gone' = TRUE
  BY Zenon DEF AcceptDead, feed, shutdown, writer, marks, echo, consumer
<1>1. EgressTypes' /\ ConsumerTypes'
  BY <1>0, Zenon DEF EgressTypes, ConsumerTypes
<1>2. LinkInv' /\ BatchInv'
  BY <1>0, Zenon DEF LinkInv, BatchInv
<1>3. OverrunsAreFaults'
  BY <1>0, MarkersKept, Zenon
<1>4. LossInv'
  BY <1>0, <1>3, Zenon DEF LossInv
<1>5. ReaderInv' /\ StreamInv'
  BY <1>0, ReaderKept, StreamKept, Zenon
<1> QED BY <1>1, <1>2, <1>4, <1>5, Zenon

\* It accepts a consumer: the stream starts over, where note_gap will go on.
LEMMA AcceptKeeps ==
    ASSUME EgressInv, Accept, UNCHANGED consumer
    PROVE  EgressInv'
<1> USE DEF EgressInv
<1>0. /\ UNCHANGED <<tail, cursor, lost_down, tuning, peer_gone, pc, batch,
                     pieces, pending, pending_offset, next_seq, have_seq,
                     reconnected, echo_nonce, reading, records, got, gaps, received>>
      /\ pc = "top" /\ ~client /\ client' = TRUE /\ sock' = <<>>
      /\ cconn = "backlog" /\ cconn' = "up"
  BY Zenon DEF Accept, feed, shutdown, writer, marks, echo, consumer
<1>1. EgressTypes' /\ ConsumerTypes'
  <2>1. sock' \in Seq(Records)
    BY <1>0, SMTT(30)
  <2> QED BY <1>0, <2>1, Zenon DEF EgressTypes, ConsumerTypes
<1>2. LinkInv' /\ BatchInv'
  BY <1>0, Zenon DEF LinkInv, BatchInv
<1>3. OverrunsAreFaults'
  BY <1>0, MarkersKept, Zenon
<1>4. LossInv'
  BY <1>0, <1>3, Zenon DEF LossInv
<1>5. ReaderInv'
  BY <1>0, Zenon DEF ReaderInv
<1>6. StreamInv'
  <2>1. got = <<>> /\ reading = "header" /\ ~gaps.have /\ Ascends(received, next_seq)
    BY <1>0, Zenon DEF ReaderInv
  <2>2. Rest = <<>> /\ Rest' = Rest
    BY <1>0, StreamTypes, Zenon DEF Rest, Writing
  <2>3. Stream' = <<>> /\ Owed' = 0
    BY <1>0, <2>1, <2>2, SMTT(30) DEF Stream, InFlight, Owed
  <2>4. next_seq \in Nat /\ Follow(gaps, next_seq)
    BY <2>1, Zenon DEF EgressTypes, Follow
  <2>5. Flows(tuning.pieces, <<>>, 0, next_seq, 0, next_seq)
    BY <2>4, FlowsEmpty, Zenon
  <2> QED BY <1>0, <2>1, <2>3, <2>4, <2>5, SMTT(30) DEF StreamInv
<1> QED BY <1>1, <1>2, <1>4, <1>5, <1>6, Zenon

\* A consumer connects: its tracker is reset.
LEMMA ConnectKeeps ==
    ASSUME EgressInv, Connect
    PROVE  EgressInv'
<1> USE DEF EgressInv
<1>0. /\ UNCHANGED <<tail, cursor, lost_down, tuning, peer_gone, client, sock, pc,
                     batch, pieces, pending, pending_offset, next_seq, have_seq,
                     reconnected, echo_nonce, received>>
      /\ cconn = "none" /\ cconn' = "backlog"
      /\ gaps' = [gaps EXCEPT !.have = FALSE]
      /\ reading' = "header" /\ got' = <<>> /\ records' = 0
  BY Zenon DEF Connect, OnReconnect, Reset, restOfEgress, feed, shutdown, writer, marks, echo
<1>1. /\ gaps' \in Trackers /\ gaps'.have = FALSE
      /\ gaps'.silent_lost = gaps.silent_lost
  <2>1. gaps \in Trackers
    BY Zenon DEF ConsumerTypes
  <2> QED BY <1>0, <2>1, Zenon DEF Trackers
<1>2. EgressTypes' /\ ConsumerTypes'
  BY <1>0, <1>1, SMTT(30) DEF EgressTypes, ConsumerTypes
<1>3. LinkInv' /\ BatchInv'
  BY <1>0, Zenon DEF LinkInv, BatchInv
<1>4. OverrunsAreFaults'
  BY <1>0, MarkersKept, Zenon
<1>5. LossInv'
  BY <1>0, <1>4, Zenon DEF LossInv
<1>6. ReaderInv' /\ StreamInv'
  BY <1>0, <1>1, Zenon DEF ReaderInv, StreamInv
<1> QED BY <1>2, <1>3, <1>5, <1>6, Zenon

\* A consumer leaves, or sees that the gateway closed the connection.
LEMMA LeaveKeeps ==
    ASSUME EgressInv, Leave \/ SeeClosed
    PROVE  EgressInv'
<1> USE DEF EgressInv
<1>0. /\ UNCHANGED <<tail, cursor, lost_down, tuning, client, sock, pc, batch,
                     pieces, pending, pending_offset, next_seq, have_seq,
                     reconnected, echo_nonce, reading, records, got, gaps, received>>
      /\ cconn' = "none" /\ peer_gone' = (peer_gone \/ cconn = "up")
  <2>1. CASE Leave
    BY <2>1, Zenon DEF Leave, restOfEgress, feed, shutdown, writer, marks, echo, consumer
  <2>2. CASE SeeClosed
    BY <2>2, Zenon DEF SeeClosed, restOfEgress, feed, shutdown, writer, marks, echo,
                consumer, EgressTypes
  <2> QED BY <2>1, <2>2, Zenon
<1>1. EgressTypes' /\ ConsumerTypes'
  BY <1>0, SMTT(30) DEF EgressTypes, ConsumerTypes
<1>2. LinkInv' /\ BatchInv'
  BY <1>0, Zenon DEF LinkInv, BatchInv, EgressTypes
<1>3. OverrunsAreFaults'
  BY <1>0, MarkersKept, Zenon
<1>4. LossInv'
  BY <1>0, <1>3, Zenon DEF LossInv
<1>5. ReaderInv' /\ StreamInv'
  BY <1>0, ReaderKept, StreamKept, Zenon
<1> QED BY <1>1, <1>2, <1>4, <1>5, Zenon

\* The reader takes the first record of the socket: what it has and what is
\* still to come are as before.
LEMMA StreamTaken ==
    ASSUME EgressInv, sock # <<>>
    PROVE  /\ Head(sock) \in Records /\ Tail(sock) \in Seq(Records)
           /\ <<Head(sock)>> \in Seq(Records)
           /\ Tail(sock) \o InFlight \in Seq(Records)
           /\ Append(got, Head(sock)) \in Seq(Records)
           /\ Len(Append(got, Head(sock))) = Len(got) + 1
           /\ Stream = Append(got, Head(sock)) \o (Tail(sock) \o InFlight)
           /\ got = <<>> => Stream = <<Head(sock)>> \o (Tail(sock) \o InFlight)
<1>1. /\ sock \in Seq(Records) /\ got \in Seq(Records) /\ InFlight \in Seq(Records)
  BY StreamTypes, Zenon
<1> DEFINE h == Head(sock)
           t == Tail(sock)
<1>2. h \in Records /\ t \in Seq(Records) /\ <<h>> \in Seq(Records) /\ sock = <<h>> \o t
  BY <1>1, Taken, Zenon
<1>3. /\ Append(got, h) \in Seq(Records) /\ Len(Append(got, h)) = Len(got) + 1
      /\ Append(got, h) = got \o <<h>>
  BY <1>1, <1>2, Kept, Zenon
<1> HIDE DEF h, t
<1>4. t \o InFlight \in Seq(Records)
  BY <1>1, <1>2, ConcatenatedType, Zenon
<1>5. sock \o InFlight = <<h>> \o (t \o InFlight)
  BY <1>1, <1>2, Reassociate, SMTT(30)
<1>6. Stream = got \o (<<h>> \o (t \o InFlight))
  BY <1>5, Zenon DEF Stream
<1>7. Stream = Append(got, h) \o (t \o InFlight)
  <2>1. (got \o <<h>>) \o (t \o InFlight) = got \o (<<h>> \o (t \o InFlight))
    BY <1>1, <1>2, <1>4, Reassociate, SMTT(30)
  <2> QED BY <1>3, <1>6, <2>1, Zenon
<1>8. <<h>> \o (t \o InFlight) \in Seq(Records)
  BY <1>2, <1>4, ConcatenatedType, Zenon
<1>9. got = <<>> => Stream = <<h>> \o (t \o InFlight)
  BY <1>6, <1>8, EmptyPart, Zenon
<1> QED BY <1>2, <1>3, <1>4, <1>7, <1>9, Zenon DEF h, t

\* fill and decode_header: what comes first is a header, of at least one record.
LEMMA ReadHeaderKeeps ==
    ASSUME EgressInv, ReadHeader
    PROVE  EgressInv'
<1> USE DEF EgressInv
<1>0. /\ UNCHANGED <<tail, cursor, lost_down, tuning, cconn, peer_gone, client, pc,
                     batch, pieces, pending, pending_offset, next_seq, have_seq,
                     reconnected, echo_nonce, got, gaps, received>>
      /\ cconn \in {"up", "eof"} /\ reading = "header" /\ sock # <<>>
      /\ sock' = Tail(sock)
      /\ Head(sock).kind = "header" => reading' = "payload" /\ records' = Head(sock).n
  BY Zenon DEF ReadHeader, restOfEgress, feed, shutdown, writer, marks, echo
<1> DEFINE h == Head(sock)
           later == Tail(sock) \o InFlight
<1>1. got = <<>> /\ Owed = 0
  BY <1>0, Zenon DEF ReaderInv, Owed
<1>2. /\ h \in Records /\ <<h>> \in Seq(Records) /\ later \in Seq(Records)
      /\ Tail(sock) \in Seq(Records) /\ Stream = <<h>> \o later
  BY <1>0, <1>1, StreamTaken, Zenon
<1> HIDE DEF h
<1>3. PICK from \in Nat, to \in Nat, o \in Nat :
         /\ Follow(gaps, from) /\ Ascends(received, from)
         /\ Flows(tuning.pieces, Stream, 0, from, o, to)
         /\ to <= next_seq
         /\ cconn = "up" => o = 0 /\ to = next_seq
  BY <1>0, <1>1, Zenon DEF StreamInv
<1>4. PICK p \in Nat, b \in Nat :
         /\ Flows(tuning.pieces, <<h>>, 0, from, p, b)
         /\ Flows(tuning.pieces, later, p, b, o, to)
  <2> HIDE DEF later
  <2>1. 0 \in Nat /\ Flows(tuning.pieces, <<h>> \o later, 0, from, o, to)
    BY <1>2, <1>3, Zenon
  <2> QED BY <1>2, <2>1, FlowsSplit, Zenon
<1>5. Follows(tuning.pieces, 0, from, h, p, b)
  <2>1. 0 \in Nat
    BY Zenon
  <2> QED BY <1>4, <2>1, FlowsOne, Zenon
<1>6. h.kind = "header" /\ h.n > 0 /\ p = h.n /\ b = from /\ h.n \in Nat
  BY <1>2, <1>5, RecordFields, SMTT(30) DEF Follows
<1>7. reading' = "payload" /\ records' = h.n
  BY <1>0, <1>6, Zenon DEF h
<1>8. Stream' = later /\ Owed' = p
  <2>1. InFlight' = InFlight
    BY <1>0, Zenon DEF InFlight, Rest
  <2>2. Stream' = <<>> \o later
    BY <1>0, <1>1, <2>1, Zenon DEF Stream
  <2> HIDE DEF later
  <2> QED BY <1>2, <1>6, <1>7, <2>2, EmptyPart, Zenon DEF Owed
<1> HIDE DEF later
<1>9. EgressTypes' /\ ConsumerTypes'
  BY <1>0, <1>2, <1>6, <1>7, SMTT(30) DEF EgressTypes, ConsumerTypes
<1>10. LinkInv' /\ BatchInv'
  BY <1>0, Zenon DEF LinkInv, BatchInv
<1>11. OverrunsAreFaults'
  BY <1>0, MarkersKept, Zenon
<1>12. LossInv'
  BY <1>0, <1>11, Zenon DEF LossInv
<1>13. ReaderInv'
  <2>1. Len(got) < records'
    BY <1>1, <1>6, <1>7, Zenon
  <2> QED BY <1>0, <1>7, <2>1, Zenon DEF ReaderInv
<1>14. StreamInv'
  BY <1>0, <1>3, <1>4, <1>6, <1>8, Zenon DEF StreamInv
<1> QED BY <1>9, <1>10, <1>12, <1>13, <1>14, Zenon

\* A record of a batch that is not complete yet: only its place changes.
LEMMA ReadOneKeeps ==
    ASSUME EgressInv, ReadRecord, Len(Append(got, Head(sock))) < records
    PROVE  EgressInv'
<1> USE DEF EgressInv
<1>0. /\ UNCHANGED <<tail, cursor, lost_down, tuning, cconn, peer_gone, client, pc,
                     batch, pieces, pending, pending_offset, next_seq, have_seq,
                     reconnected, echo_nonce, reading, records, gaps, received>>
      /\ cconn \in {"up", "eof"} /\ reading = "payload" /\ sock # <<>>
      /\ sock' = Tail(sock) /\ got' = Append(got, Head(sock))
  BY Zenon DEF ReadRecord, restOfEgress, feed, shutdown, writer, marks, echo
<1>1. /\ got' \in Seq(Records) /\ sock' \in Seq(Records)
      /\ Stream = got' \o (sock' \o InFlight)
  BY <1>0, StreamTaken, Zenon
<1>2. EgressTypes' /\ ConsumerTypes'
  BY <1>0, <1>1, SMTT(30) DEF EgressTypes, ConsumerTypes
<1>3. LinkInv' /\ BatchInv'
  BY <1>0, Zenon DEF LinkInv, BatchInv
<1>4. OverrunsAreFaults'
  BY <1>0, MarkersKept, Zenon
<1>5. LossInv'
  BY <1>0, <1>4, Zenon DEF LossInv
<1>6. ReaderInv'
  BY <1>0, Zenon DEF ReaderInv
<1>7. StreamInv'
  <2>1. InFlight' = InFlight /\ Owed' = Owed
    BY <1>0, Zenon DEF InFlight, Rest, Owed
  <2>2. Stream' = Stream
    BY <1>1, <2>1, Zenon DEF Stream
  <2> QED BY <1>0, <2>1, <2>2, Zenon DEF StreamInv
<1> QED BY <1>2, <1>3, <1>5, <1>6, <1>7, Zenon

\* The last record of a batch: there is no header among its records, and the
\* books and the frames handed over are where the batch ends.
LEMMA ReadLastKeeps ==
    ASSUME EgressInv, ReadRecord, ~(Len(Append(got, Head(sock))) < records)
    PROVE  EgressInv'
<1> USE DEF EgressInv
<1> DEFINE all == Append(got, Head(sock))
           later == Tail(sock) \o InFlight
<1>0. /\ UNCHANGED <<tail, cursor, lost_down, tuning, cconn, peer_gone, client, pc,
                     batch, pieces, pending, pending_offset, next_seq, have_seq,
                     reconnected, echo_nonce, records>>
      /\ cconn \in {"up", "eof"} /\ reading = "payload" /\ sock # <<>>
      /\ sock' = Tail(sock) /\ got' = <<>>
      /\ (~ \E i \in DOMAIN all : all[i].kind = "header")
            => /\ reading' = "header"
               /\ gaps' = ForEach(ObserveUnlessEcho, gaps, all)
               /\ received' = ForEach(HandOver, received, all)
  BY Zenon DEF ReadRecord, restOfEgress, feed, shutdown, writer, marks, echo
<1>1. /\ all \in Seq(Records) /\ later \in Seq(Records) /\ Tail(sock) \in Seq(Records)
      /\ Len(all) = Len(got) + 1 /\ Stream = all \o later
  BY <1>0, StreamTaken, Zenon
<1>2. /\ Owed = records /\ records \in Nat /\ Len(got) \in Nat /\ Len(got) < records
      /\ have_seq
  <2>1. Owed = records
    BY <1>0, Zenon DEF Owed
  <2>2. records \in Nat /\ Len(got) \in Nat
    BY DEF ConsumerTypes
  <2>3. Len(got) < records /\ have_seq
    BY <1>0, Zenon DEF ReaderInv
  <2> QED BY <2>1, <2>2, <2>3, Zenon
<1>3. Len(all) = records
  BY <1>1, <1>2, SMTT(30)
<1> HIDE DEF all, later
<1>4. PICK from \in Nat, to \in Nat, o \in Nat :
         /\ Follow(gaps, from) /\ Ascends(received, from)
         /\ Flows(tuning.pieces, Stream, records, from, o, to)
         /\ to <= next_seq
         /\ cconn = "up" => o = 0 /\ to = next_seq
  BY <1>0, <1>2, Zenon DEF StreamInv
<1>5. PICK p \in Nat, b \in Nat :
         /\ Flows(tuning.pieces, all, records, from, p, b)
         /\ Flows(tuning.pieces, later, p, b, o, to)
  <2>1. Flows(tuning.pieces, all \o later, records, from, o, to)
    BY <1>1, <1>4, Zenon
  <2> QED BY <1>1, <1>2, <2>1, FlowsSplit, Zenon
<1>6. p = 0 /\ \A k \in 1 .. Len(all) : all[k].kind # "header"
  <2>1. Len(all) <= records
    BY <1>2, <1>3, SMTT(30)
  <2>2. p = records - Len(all) /\ \A k \in 1 .. Len(all) : all[k].kind # "header"
    BY <1>1, <1>2, <1>5, <2>1, FlowsInBatch, Zenon
  <2> QED BY <1>2, <1>3, <2>2, SMTT(30)
<1>7. /\ reading' = "header"
      /\ gaps' = ForEach(ObserveUnlessEcho, gaps, all)
      /\ received' = ForEach(HandOver, received, all)
  <2>1. DOMAIN all = 1 .. Len(all)
    BY <1>1, SMTT(30)
  <2> QED BY <1>0, <1>6, <2>1, Zenon
<1>8. /\ gaps' \in Trackers /\ Follow(gaps', b)
      /\ tuning.pieces = 1 => gaps'.silent_lost = gaps.silent_lost
  <2>1. gaps \in Trackers
    BY Zenon DEF ConsumerTypes
  <2> QED BY <1>1, <1>2, <1>4, <1>5, <1>6, <1>7, <2>1, BatchObserved, Zenon
<1>9. received' \in Seq(Nat) /\ Ascends(received', b)
  <2>1. received \in Seq(Nat)
    BY Zenon DEF ConsumerTypes
  <2> QED BY <1>1, <1>2, <1>4, <1>5, <1>6, <1>7, <2>1, BatchHandedOver, Zenon
<1>10. b <= next_seq /\ next_seq \in Nat
  <2>1. b <= to
    BY <1>1, <1>5, <1>4, FlowsGrows, SMTT(30)
  <2> QED BY <1>4, <2>1, SMTT(30) DEF EgressTypes
<1>11. EgressTypes' /\ ConsumerTypes'
  <2>e. <<>> \in Seq(Records)
    OBVIOUS
  <2>1. got' \in Seq(Records) /\ sock' \in Seq(Records)
    BY <1>0, <1>1, <2>e, Zenon
  <2> QED BY <1>0, <1>7, <1>8, <1>9, <2>1, Zenon DEF EgressTypes, ConsumerTypes
<1>12. LinkInv' /\ BatchInv'
  BY <1>0, Zenon DEF LinkInv, BatchInv
<1>13. OverrunsAreFaults'
  BY <1>0, MarkersKept, Zenon
<1>14. LossInv'
  BY <1>0, <1>13, Zenon DEF LossInv
<1>15. ReaderInv'
  <2>1. Ascends(received', next_seq)
    <3>1. \A i \in DOMAIN received' : received'[i] \in Nat
      BY <1>9, SMTT(30)
    <3> QED BY <1>9, <1>10, <3>1, SMTT(30) DEF Ascends
  <2>2. gaps'.have => Booked(gaps') = gaps'.next - gaps'.base
    BY <1>8, Zenon DEF Follow
  <2> QED BY <1>0, <1>2, <1>7, <1>8, <2>1, <2>2, Zenon DEF ReaderInv
<1>16. StreamInv'
  <2>1. InFlight' = InFlight /\ Owed' = 0
    BY <1>0, <1>7, Zenon DEF InFlight, Rest, Owed
  <2>2. Stream' = later
    <3>1. Stream' = <<>> \o later
      BY <1>0, <2>1, Zenon DEF Stream, later
    <3> QED BY <1>1, <3>1, EmptyPart, Zenon
  <2> QED BY <1>0, <1>4, <1>5, <1>6, <1>8, <1>9, <2>1, <2>2, Zenon DEF StreamInv
<1> QED BY <1>11, <1>12, <1>14, <1>15, <1>16, Zenon

\* A step of the egress thread.
LEMMA ThreadKeeps ==
    ASSUME EgressInv, EgressStep, UNCHANGED consumer
    PROVE  EgressInv'
<1> USE DEF feed, shutdown, link, writer, marks, echo, consumer
<1>1. CASE AcceptDead
  BY <1>1, AcceptDeadKeeps, Zenon
<1>2. CASE Accept
  BY <1>2, AcceptKeeps, Zenon
<1>3. CASE WaitStopped
  BY <1>3, Elsewhere, Zenon DEF WaitStopped, looked, Idle
<1>4. CASE ClientGone
  BY <1>4, DropClientKeeps, Zenon DEF ClientGone
<1>5. CASE DrainReplies
  BY <1>5, Elsewhere, Zenon DEF DrainReplies, looked, Idle
<1>6. CASE Pop
  BY <1>6, PopKeeps, Zenon
<1>7. CASE PopNothing
  BY <1>7, Elsewhere, Zenon DEF PopNothing, looked, Idle, EgressInv, LinkInv
<1>8. CASE CheckClosed
  BY <1>8, Elsewhere, Zenon DEF CheckClosed, looked, Idle
<1>9. CASE \E due \in BOOLEAN : NoteGap(due)
  BY <1>9, NoteGapKeeps, Zenon
<1>10. CASE \E k \in 1 .. SockUnits : Send(k)
  BY <1>10, SendKeeps, Zenon
<1>11. CASE Park
  BY <1>11, Elsewhere, Zenon DEF Park, looked, Writing
<1>12. CASE Unpark
  BY <1>12, Elsewhere, Zenon DEF Unpark, looked, Writing
<1>13. CASE SendFails
  BY <1>13, DropClientKeeps, Zenon DEF SendFails, FlushFails, EgressInv, LinkInv
<1>14. CASE Destroy
  <2>1. CASE client
    BY <1>14, <2>1, DropClientKeeps, Zenon DEF Destroy
  <2>2. CASE ~client
    BY <1>14, <2>2, Elsewhere, Zenon DEF Destroy, looked, Idle
  <2> QED BY <2>1, <2>2, Zenon
<1> QED BY <1>1, <1>2, <1>3, <1>4, <1>5, <1>6, <1>7, <1>8, <1>9, <1>10, <1>11,
           <1>12, <1>13, <1>14, SMTT(30) DEF EgressStep

\* Any step of the session.
LEMMA SessionKeeps ==
    ASSUME EgressInv, [Next]_vars
    PROVE  EgressInv'
<1>1. CASE Environment /\ UNCHANGED consumer
  <2> USE DEF feed, shutdown, link, writer, marks, echo, consumer
  <2>1. CASE Produce
    BY <1>1, <2>1, ProduceKeeps, Zenon
  <2>2. CASE StopIngest \/ StopSignal \/ StopClose
    BY <1>1, <2>2, Elsewhere, Zenon DEF StopIngest, StopSignal, StopClose, looked
  <2> QED BY <1>1, <2>1, <2>2, Zenon DEF Environment
<1>2. CASE EgressStep /\ UNCHANGED consumer
  BY <1>2, ThreadKeeps, Zenon
<1>3. CASE Connect
  BY <1>3, ConnectKeeps, Zenon
<1>4. CASE ConsumerReads
  BY <1>4, ReadHeaderKeeps, ReadOneKeeps, ReadLastKeeps, Zenon DEF ConsumerReads
<1>5. CASE Leave \/ SeeClosed
  BY <1>5, LeaveKeeps, Zenon
<1>6. CASE UNCHANGED vars
  BY <1>6, Elsewhere, Zenon DEF vars, egressVars, feed, shutdown, link, writer, marks,
                         echo, consumer, looked
<1> QED BY <1>1, <1>2, <1>3, <1>4, <1>5, <1>6, Zenon DEF Next, Finished

\* The invariant holds in every reachable state of a session.
THEOREM SessionInvariant == Spec => []EgressInv
BY EgressInitially, SessionKeeps, PTL DEF Spec

\* Whatever is written, dropped and reconnected, read_batch never meets a
\* protocol error and no bytes of one connection open the next.
THEOREM StreamDecodable == Spec => []Framing
<1>1. EgressInv => Framing
  BY Zenon DEF EgressInv, ReaderInv, LinkInv, Framing
<1> QED BY <1>1, SessionInvariant, PTL

\* Over all its connections a consumer is handed ever later frames, all of
\* which were produced.
THEOREM DeliveredAtMostOnce == Spec => []AtMostOnce
<1>1. ASSUME EgressInv PROVE AtMostOnce
  <2>1. /\ received \in Seq(Nat) /\ Ascends(received, next_seq)
        /\ next_seq <= cursor /\ cursor <= tail
        /\ next_seq \in Nat /\ cursor \in Nat /\ tail \in Nat
    BY <1>1, Zenon DEF EgressInv, EgressTypes, ConsumerTypes, ReaderInv, BatchInv
  <2>2. \A i \in DOMAIN received : received[i] \in Nat
    BY <2>1, SMTT(30)
  <2> QED BY <2>1, <2>2, SMTT(30) DEF AtMostOnce, Ascends
<1> QED BY <1>1, SessionInvariant, PTL

\* The books of a GapTracker close over every connection, and nothing is lost
\* silently when batches are popped in one piece.
THEOREM ConsumerBooksClose == Spec => []BooksClose
<1>1. EgressInv => BooksClose
  BY Zenon DEF EgressInv, ReaderInv, BooksClose
<1> QED BY <1>1, SessionInvariant, PTL

\* note_gap never blames the consumer for what went past while it was away.
THEOREM OverrunsBlamed == Spec => []OverrunsAreFaults
<1>1. EgressInv => OverrunsAreFaults
  BY Zenon DEF EgressInv, LossInv
<1> QED BY <1>1, SessionInvariant, PTL

=============================================================================
