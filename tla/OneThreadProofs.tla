-------------------------- MODULE OneThreadProofs --------------------------
(***************************************************************************)
(* Four parts that involve a single thread, for every value of the         *)
(* constants.                                                              *)
(* The load generator keeps to its schedule, for every period, every       *)
(* number of frames and every way of being scheduled late.  A CAN source   *)
(* counts exactly what the kernel discarded, whatever the width of the     *)
(* kernel's counter, the size of the queue and that of a batch.  The       *)
(* samples that a buffer retains are spread evenly over the run, however   *)
(* long it is.  And the codec accepts what it encoded, all of it and       *)
(* nothing else, whatever the radix and the layout constants.              *)
(***************************************************************************)
EXTENDS Generator, CanSource, Samples, Wire, StreamLemmas

GenTypeOK ==
    /\ now \in Int /\ timer_read \in Nat /\ left \in Nat /\ k \in Nat
    /\ gpc \in {"read", "send", "done"}
    /\ {tx, enobufs, send_errors} \subseteq Nat
    /\ jitter \in Int

\* Paced says nothing of the middle of a round, nor of what the timer may hand
\* out: the frames sent and those still to send are the expirations read, and no
\* expiration is read before it is due.
GenInv ==
    /\ GenTypeOK /\ Paced
    /\ gpc = "send" => k + left = timer_read
    /\ timer_read <= Expired

----------------------------------------------------------------------------
\* Expired counts no instant of the schedule that is still to come.
LEMMA ExpiredIsDue ==
    ASSUME NEW t \in Nat, NEW q \in Nat, q <= t \div Period
    PROVE  q * Period <= t
<1>1. Period \in Nat /\ Period > 0
  BY GeneratorAssumption
<1> DEFINE d == t \div Period
<1>2. d \in Nat /\ d * Period <= t
  BY <1>1, Z3
<1>3. q * Period <= d * Period
  <2>1. PICK e \in Nat : d = q + e
    <3>1. d - q \in Nat /\ d = q + (d - q)
      BY <1>2, SMT
    <3> QED BY <3>1, Zenon
  <2> HIDE DEF d
  <2>2. d * Period = q * Period + e * Period
    BY <1>1, <2>1, Z3
  <2>3. e * Period \in Nat /\ q * Period \in Nat
    BY <1>1, Z3
  <2> QED BY <2>2, <2>3, SMT
<1>4. q * Period \in Nat /\ d * Period \in Nat
  BY <1>1, <1>2, Z3
<1> QED BY <1>2, <1>3, <1>4, SMT

\* The number of expirations is a number, and does not go down with time.
LEMMA ExpiredGrows ==
    ASSUME NEW a \in Int, a >= 0
    PROVE  /\ a \div Period \in Nat
           /\ (a + 1) \div Period >= a \div Period
<1>1. Period \in Nat /\ Period > 0
  BY GeneratorAssumption
<1> QED BY <1>1, Z3

----------------------------------------------------------------------------
LEMMA GenInitial == GenInit => GenInv
<1> SUFFICES ASSUME GenInit PROVE GenInv
  BY Zenon
<1> QED BY GeneratorAssumption
        DEF GenInit, GenInv, GenTypeOK, Paced, Expired

LEMMA GenStep == GenInv /\ [GenNext]_genVars => GenInv'
<1> SUFFICES ASSUME GenInv, [GenNext]_genVars PROVE GenInv'
  BY Zenon
<1> USE GeneratorAssumption
<1>1. CASE Advance
  <2>1. Expired' >= Expired /\ Expired' \in Nat /\ Expired \in Nat
    <3>1. CASE now >= 0
      <4>1. now + 1 >= 0 /\ now + 1 \in Int
        BY <3>1 DEF GenInv, GenTypeOK
      <4>2. (now + 1) \div Period \in Nat
        BY <4>1, ExpiredGrows, Zenon
      <4>3. now \div Period \in Nat /\ (now + 1) \div Period >= now \div Period
        BY <3>1, ExpiredGrows, Zenon DEF GenInv, GenTypeOK
      <4> QED BY <1>1, <3>1, <4>2, <4>3 DEF Advance, Expired, GenInv, GenTypeOK
    <3>2. CASE now < 0
      <4>1. now + 1 >= 0 => (now + 1) \div Period \in Nat
        BY ExpiredGrows, SMTT(30) DEF GenInv, GenTypeOK
      <4> QED BY <1>1, <3>2, <4>1 DEF Advance, Expired, GenInv, GenTypeOK
    <3> QED BY <3>1, <3>2 DEF GenInv, GenTypeOK
  <2> HIDE DEF Expired
  <2> QED BY <1>1, <2>1 DEF Advance, GenInv, GenTypeOK, Paced
<1>2. CASE ReadTimer
  <2>1. Expired \in Nat
    BY ExpiredGrows, SMTT(30) DEF Expired, GenInv, GenTypeOK
  <2>2. Expired' = Expired
    BY <1>2, Zenon DEF ReadTimer, Expired
  <2> QED BY <1>2, <2>1, <2>2 DEF ReadTimer, Expirations, GenInv, GenTypeOK, Paced
<1>3. CASE ReadFails
  <2>1. Expired' = Expired
    BY <1>3, Zenon DEF ReadFails, Expired
  <2> QED BY <1>3, <2>1, Zenon DEF ReadFails, GenInv, GenTypeOK, Paced
<1>4. CASE EndOfRound
  <2>1. Expired' = Expired
    BY <1>4, Zenon DEF EndOfRound, Expired
  <2> QED BY <1>4, <2>1 DEF EndOfRound, GenInv, GenTypeOK, Paced
<1>5. ASSUME NEW result \in {"whole", "ENOBUFS", "error"}, SendFrame(result)
      PROVE  GenInv'
  <2>1. Expired' = Expired
    BY <1>5, Zenon DEF SendFrame, Expired
  \* The frame is one of the expirations read, all of which were due.
  <2>2. k < Expired
    BY <1>5, ExpiredGrows, SMTT(30) DEF SendFrame, Expired, GenInv, GenTypeOK
  <2>3. now \in Nat /\ k <= now \div Period
    BY <2>2, ExpiredGrows DEF Expired, GenInv, GenTypeOK
  <2>4. k * Period <= now
    BY <2>3, ExpiredIsDue, Zenon DEF GenInv, GenTypeOK
  <2>5. jitter' \in Int /\ jitter' >= 0
    <3>1. k * Period \in Nat
      BY Z3 DEF GenInv, GenTypeOK
    <3> QED BY <1>5, <2>3, <2>4, <3>1 DEF SendFrame, Ideal
  <2>6. (tx + enobufs + send_errors)' = k'
    BY <1>5, SMTT(30) DEF SendFrame, GenInv, GenTypeOK, Paced
  <2>7. GenTypeOK'
    BY <1>5, <2>5, SMTT(30) DEF SendFrame, GenInv, GenTypeOK
  <2> QED BY <1>5, <2>1, <2>5, <2>6, <2>7, SMTT(30) DEF SendFrame, GenInv, GenTypeOK, Paced
<1>6. CASE UNCHANGED genVars
  BY <1>6, Zenon DEF genVars, GenInv, GenTypeOK, Paced, Expired
<1> QED BY <1>1, <1>2, <1>3, <1>4, <1>5, <1>6, Zenon DEF GenNext

\* The generator of gen_main.cpp keeps to its schedule: no frame goes out before
\* its instant, and every expiration the timer hands out is worth one frame.
THEOREM GeneratorPaced == GenSpec => []Paced
<1>1. GenInv => Paced
  BY Zenon DEF GenInv
<1> QED BY <1>1, GenInitial, GenStep, PTL DEF GenSpec

----------------------------------------------------------------------------
(* The kernel's counter of discarded frames.                               *)

\* ovfl - last_ovfl_ is the number of frames discarded in between, also when the
\* counter has wrapped, as long as it has not come round.
LEMMA DeltaExact ==
    ASSUME NEW a \in Nat, NEW b \in Nat, a <= b, b - a < OvflModulus
    PROVE  Delta(b % OvflModulus, a % OvflModulus) = b - a
<1>1. PICK M \in Nat : M = OvflModulus /\ M > 0
  BY CanAssumption
<1>2. PICK q \in Nat, r \in Nat : a = M * q + r /\ r < M
  <2>1. a \div M \in Nat /\ a % M \in Nat /\ a % M < M /\ a = M * (a \div M) + (a % M)
    BY <1>1, Z3
  <2> QED BY <2>1, Zenon
<1>3. PICK e \in Nat : e = b - a /\ e < M /\ b = M * q + (r + e)
  <2>1. b - a \in Nat /\ b - a < M
    BY <1>1
  <2>2. PICK c \in Nat : c = M * q
    BY Z3
  <2> QED BY <1>2, <2>1, <2>2
<1>4. a % M = r
  BY <1>1, <1>2, Remainder, SMTT(30)
<1>5. CASE r + e < M
  <2>1. PICK c \in Nat : c = r + e /\ c < M /\ b = M * q + c
    BY <1>3, <1>5
  <2>3. b % M = r + e
    BY <1>1, <2>1, Remainder, SMTT(30)
  <2>2. (M * 0 + e) % M = e /\ M * 0 + e = e
    BY <1>1, <1>3, Remainder, SMTT(30)
  <2> QED BY <1>1, <1>3, <1>4, <2>2, <2>3, SMTT(30) DEF Delta
<1>6. CASE r + e >= M
  <2>1. PICK c \in Nat : r + e = M + c /\ c < M
    <3>1. r + e - M \in Nat /\ r + e = M + (r + e - M) /\ r + e - M < M
      BY <1>2, <1>3, <1>6, SMTT(30)
    <3> QED BY <3>1, Zenon
  <2>2. b = M * (q + 1) + c
    <3>1. M * (q + 1) = M * q + M
      BY Z3
    <3>2. PICK g \in Nat : g = M * q
      BY Z3
    <3> QED BY <1>3, <2>1, <3>1, <3>2
  <2>3. b % M = c
    BY <1>1, <2>1, <2>2, Remainder, SMTT(30)
  <2>4. (M * (0 - 1) + e) % M = e /\ M * (0 - 1) + e = c - r
    BY <1>1, <1>3, <2>1, Remainder
  <2> QED BY <1>1, <1>3, <1>4, <2>3, <2>4, Zenon DEF Delta
<1> QED BY <1>2, <1>3, <1>5, <1>6

----------------------------------------------------------------------------
(* One drain, message by message.                                          *)

Messages == [short : BOOLEAN, count : Nat]
Handed == [short : BOOLEAN, count : Nat, stamped : BOOLEAN]
Figures ==
    [frames : Nat, malformed : Nat, drops : Nat, last : Nat, have : BOOLEAN,
     first : Nat, known : Nat]

\* What the figures say of the stamps seen so far.
Settled(t) ==
    /\ t.first + t.drops = t.known
    /\ t.have => t.last = t.known % OvflModulus
    /\ ~t.have => t.known = 0 /\ t.first = 0

\* The n messages of a queue have the counts cnt, and those in whole a stamp;
\* the first h of them have been taken, and the newest stamp seen then was of
\* count known.  Less than a turn of the counter lies between y and a stamp that
\* comes before the j-th message.
Near(known, h, j, cnt, whole, y) ==
    \/ y - known < OvflModulus
    \/ \E i \in whole : h < i /\ i < j /\ y - cnt[i] < OvflModulus

\* Counts go up to the x frames discarded by now, never by a turn of the counter.
Chained(known, h, n, cnt, whole, x) ==
    /\ known <= x
    /\ \A j \in 1 .. n : h < j => known <= cnt[j] /\ cnt[j] <= x
    /\ \A i, j \in 1 .. n : i < j => cnt[i] <= cnt[j]
    /\ \A j \in whole : h < j => Near(known, h, j, cnt, whole, cnt[j])
    /\ Near(known, h, n + 1, cnt, whole, x)

Silent(m) == m.short \/ (m.count = 0 /\ ~m.stamped)

LEMMA DeltaType ==
    ASSUME NEW a \in Nat, NEW b \in Nat
    PROVE  Delta(a, b) \in Nat /\ a % OvflModulus \in Nat
<1>1. OvflModulus \in Nat /\ OvflModulus > 0
  BY CanAssumption, SMTT(30)
<1> QED BY <1>1, Z3 DEF Delta

\* The message is counted, and nothing else.
LEMMA CountEffect ==
    ASSUME NEW t \in Figures, NEW m \in Handed
    PROVE  LET c == CountMessage(t, m)
           IN  /\ c \in Figures
               /\ c.frames + c.malformed = t.frames + t.malformed + 1
               /\ c.drops = t.drops /\ c.last = t.last /\ c.have = t.have
               /\ c.first = t.first /\ c.known = t.known
<1>1. CASE m.short
  BY <1>1 DEF CountMessage, Figures, Handed
<1>2. CASE ~m.short
  BY <1>2 DEF CountMessage, Figures, Handed
<1> QED BY <1>1, <1>2, Zenon

\* Without a stamp, that is all.
LEMMA TakeSilent ==
    ASSUME NEW t \in Figures, NEW m \in Handed, Silent(m), NEW u, u = Take(t, m)
    PROVE  /\ u \in Figures
           /\ u.frames + u.malformed = t.frames + t.malformed + 1
           /\ u.drops = t.drops /\ u.last = t.last /\ u.have = t.have
           /\ u.first = t.first /\ u.known = t.known
BY CountEffect, Zenon DEF Silent, Take

\* A stamp adds its distance from the one before.
Stamped(t, m, u) ==
    /\ u \in Figures
    /\ u.frames + u.malformed = t.frames + t.malformed + 1
    /\ u.have /\ u.last = m.count % OvflModulus /\ u.known = m.count
    /\ t.have => /\ u.first = t.first
                 /\ u.drops = t.drops + Delta(m.count % OvflModulus, t.last)
    /\ ~t.have => u.first = m.count /\ u.drops = t.drops

LEMMA TakeStamp ==
    ASSUME NEW t \in Figures, NEW m \in Handed, ~Silent(m), NEW u, u = Take(t, m)
    PROVE  Stamped(t, m, u)
<1>1. PICK c \in Figures :
         /\ c = CountMessage(t, m)
         /\ c.frames + c.malformed = t.frames + t.malformed + 1
         /\ c.drops = t.drops /\ c.last = t.last /\ c.have = t.have
         /\ c.first = t.first /\ c.known = t.known
  BY CountEffect, Zenon
<1>2. PICK o \in Nat, y \in Nat : o = m.count % OvflModulus /\ y = m.count
  BY DeltaType, Zenon DEF Handed
<1>3. PICK g \in Nat : g = IF t.have THEN Delta(o, t.last) ELSE 0
  BY DeltaType, Zenon DEF Figures
<1>4. PICK w \in Nat : w = IF t.have THEN c.first ELSE y
  BY Zenon DEF Figures
<1>5. u = [c EXCEPT !.drops = c.drops + g, !.last = o, !.have = TRUE,
                    !.first = w, !.known = y]
  BY <1>1, <1>2, <1>3, <1>4, Zenon DEF Silent, Take
<1>6. PICK a \in Nat : a = c.drops + g
  BY DEF Figures
<1>7. u = [c EXCEPT !.drops = a, !.last = o, !.have = TRUE, !.first = w, !.known = y]
  BY <1>5, <1>6, Zenon
<1>8. u \in Figures
  BY <1>7, Zenon DEF Figures
<1>9. /\ u.frames = c.frames /\ u.malformed = c.malformed /\ u.drops = a
      /\ u.last = o /\ u.have /\ u.first = w /\ u.known = y
  BY <1>7, Zenon DEF Figures
<1>10. t.drops + 0 = t.drops
  BY DEF Figures
<1> QED BY <1>1, <1>2, <1>3, <1>4, <1>6, <1>8, <1>9, <1>10, SMTT(30) DEF Stamped

----------------------------------------------------------------------------
(* What stays near.  These are facts about numbers.                        *)

\* A message without a stamp is of no use to those behind it.
LEMMA NearSilent ==
    ASSUME NEW n \in Nat, NEW cnt \in [1 .. n -> Nat], NEW whole \in SUBSET (1 .. n),
           NEW known \in Nat, NEW h \in Nat, NEW j \in Nat, NEW y \in Nat,
           Near(known, h, j, cnt, whole, y),
           h + 1 \notin whole \/ cnt[h + 1] = known
    PROVE  Near(known, h + 1, j, cnt, whole, y)
<1>1. CASE y - known < OvflModulus
  BY <1>1, Zenon DEF Near
<1>2. CASE \E i \in whole : h < i /\ i < j /\ y - cnt[i] < OvflModulus
  <2>1. PICK i \in whole : h < i /\ i < j /\ y - cnt[i] < OvflModulus
    BY <1>2, Zenon
  <2>2. i \in Nat
    OBVIOUS
  <2>3. CASE i = h + 1
    BY <2>1, <2>3, Zenon DEF Near
  <2>4. CASE i # h + 1
    <3>1. h + 1 < i
      BY <2>1, <2>2, <2>4, SMTT(30)
    <3> QED BY <2>1, <3>1, Zenon DEF Near
  <2> QED BY <2>3, <2>4, Zenon
<1> QED BY <1>1, <1>2, Zenon DEF Near

\* A stamp replaces the one before.
LEMMA NearStamp ==
    ASSUME NEW n \in Nat, NEW cnt \in [1 .. n -> Nat], NEW whole \in SUBSET (1 .. n),
           NEW known \in Nat, NEW h \in Nat, NEW j \in Nat, NEW y \in Nat,
           Near(known, h, j, cnt, whole, y), NEW c \in Nat, c = cnt[h + 1], known <= c
    PROVE  Near(c, h + 1, j, cnt, whole, y)
<1>0. OvflModulus \in Nat
  BY CanAssumption, Zenon
<1>1. CASE y - known < OvflModulus
  <2>1. y - c < OvflModulus
    BY <1>0, <1>1, SMTT(30)
  <2> QED BY <2>1, Zenon DEF Near
<1>2. CASE \E i \in whole : h < i /\ i < j /\ y - cnt[i] < OvflModulus
  <2>1. PICK i \in whole : h < i /\ i < j /\ y - cnt[i] < OvflModulus
    BY <1>2, Zenon
  <2>2. i \in Nat
    BY SMTT(30)
  <2>3. CASE i = h + 1
    BY <2>1, <2>3, Zenon DEF Near
  <2>4. CASE i # h + 1
    <3>1. h + 1 < i
      BY <2>1, <2>2, <2>4, SMTT(30)
    <3> QED BY <2>1, <3>1, Zenon DEF Near
  <2> QED BY <2>3, <2>4, Zenon
<1> QED BY <1>1, <1>2, Zenon DEF Near

\* Nothing lies between the newest stamp and the next.
LEMMA NearNext ==
    ASSUME NEW n \in Nat, NEW cnt, NEW whole \in SUBSET (1 .. n),
           NEW known \in Nat, NEW h \in Nat, NEW y \in Nat,
           Near(known, h, h + 1, cnt, whole, y)
    PROVE  y - known < OvflModulus
<1>1. \A i \in whole : ~(h < i /\ i < h + 1)
  BY SMTT(30)
<1> QED BY <1>1, Zenon DEF Near

LEMMA ChainSilent ==
    ASSUME NEW n \in Nat, NEW cnt \in [1 .. n -> Nat], NEW whole \in SUBSET (1 .. n),
           NEW known \in Nat, NEW h \in Nat, NEW x \in Nat,
           Chained(known, h, n, cnt, whole, x),
           h + 1 \notin whole \/ cnt[h + 1] = known
    PROVE  Chained(known, h + 1, n, cnt, whole, x)
<1>1. \A j \in 1 .. n : h + 1 < j => known <= cnt[j] /\ cnt[j] <= x
  BY SMTT(30) DEF Chained
<1>2. ASSUME NEW j \in whole, h + 1 < j PROVE Near(known, h + 1, j, cnt, whole, cnt[j])
  <2>1. j \in Nat /\ cnt[j] \in Nat /\ h < j
    BY <1>2
  <2>2. Near(known, h, j, cnt, whole, cnt[j])
    BY <2>1, Zenon DEF Chained
  <2> QED BY <2>1, <2>2, NearSilent, Zenon
<1>3. Near(known, h + 1, n + 1, cnt, whole, x)
  <2>1. Near(known, h, n + 1, cnt, whole, x) /\ n + 1 \in Nat
    BY DEF Chained
  <2> QED BY <2>1, NearSilent, Zenon
<1> QED BY <1>1, <1>2, <1>3, Zenon DEF Chained

LEMMA ChainStamp ==
    ASSUME NEW n \in Nat, NEW cnt \in [1 .. n -> Nat], NEW whole \in SUBSET (1 .. n),
           NEW known \in Nat, NEW h \in Nat, NEW x \in Nat,
           Chained(known, h, n, cnt, whole, x), h + 1 \in whole,
           NEW c \in Nat, c = cnt[h + 1]
    PROVE  known <= c /\ c - known < OvflModulus /\ Chained(c, h + 1, n, cnt, whole, x)
<1>1. h + 1 \in 1 .. n /\ h < h + 1
  BY SMTT(30)
<1>2. known <= c /\ c <= x
  BY <1>1, Zenon DEF Chained
<1>3. c - known < OvflModulus
  <2>1. Near(known, h, h + 1, cnt, whole, c)
    BY <1>1, Zenon DEF Chained
  <2> QED BY <2>1, NearNext, Zenon
<1>4. ASSUME NEW j \in 1 .. n, h + 1 < j PROVE c <= cnt[j] /\ cnt[j] <= x
  BY <1>1, <1>4, SMTT(30) DEF Chained
<1>5. ASSUME NEW j \in whole, h + 1 < j PROVE Near(c, h + 1, j, cnt, whole, cnt[j])
  <2>1. j \in Nat /\ cnt[j] \in Nat /\ h < j
    BY <1>5
  <2>2. Near(known, h, j, cnt, whole, cnt[j])
    BY <2>1, Zenon DEF Chained
  <2> QED BY <1>2, <2>1, <2>2, NearStamp, Zenon
<1>6. Near(c, h + 1, n + 1, cnt, whole, x)
  <2>1. Near(known, h, n + 1, cnt, whole, x) /\ n + 1 \in Nat
    BY DEF Chained
  <2> QED BY <1>2, <2>1, NearStamp, Zenon
<1> QED BY <1>2, <1>3, <1>4, <1>5, <1>6, Zenon DEF Chained

\* The taken messages leave the queue.
LEMMA ChainShift ==
    ASSUME NEW n \in Nat, NEW cnt \in [1 .. n -> Nat], NEW whole \in SUBSET (1 .. n),
           NEW known \in Nat, NEW h \in 0 .. n, NEW x \in Nat,
           Chained(known, h, n, cnt, whole, x),
           NEW r \in Nat, r = n - h, NEW rest \in [1 .. r -> Nat],
           \A j \in 1 .. r : rest[j] = cnt[h + j],
           NEW left_whole \in SUBSET (1 .. r),
           \A j \in 1 .. r : j \in left_whole <=> h + j \in whole
    PROVE  Chained(known, 0, r, rest, left_whole, x)
<1>0. \A j \in 1 .. r : h + j \in 1 .. n /\ h < h + j /\ rest[j] = cnt[h + j]
  OBVIOUS
<1>1. known <= x /\ \A j \in 1 .. r : known <= rest[j] /\ rest[j] <= x
  BY <1>0, Zenon DEF Chained
<1>2. ASSUME NEW i \in 1 .. r, NEW j \in 1 .. r, i < j PROVE rest[i] <= rest[j]
  <2>1. h + i < h + j
    BY <1>2, SMTT(30)
  <2> QED BY <1>0, <2>1, Zenon DEF Chained
<1>3. ASSUME NEW j \in Nat, NEW y \in Nat, Near(known, h, h + j, cnt, whole, y)
      PROVE  Near(known, 0, j, rest, left_whole, y)
  <2>1. CASE y - known < OvflModulus
    BY <2>1, Zenon DEF Near
  <2>2. CASE \E i \in whole : h < i /\ i < h + j /\ y - cnt[i] < OvflModulus
    <3>1. PICK i \in whole : h < i /\ i < h + j /\ y - cnt[i] < OvflModulus
      BY <2>2, Zenon
    <3>2. i - h \in 1 .. r /\ h + (i - h) = i /\ 0 < i - h /\ i - h < j
      BY <3>1, SMTT(30)
    <3>3. i - h \in left_whole /\ rest[i - h] = cnt[i]
      BY <1>0, <3>2, Zenon
    <3> QED BY <3>1, <3>2, <3>3, Zenon DEF Near
  <2> QED BY <1>3, <2>1, <2>2, Zenon DEF Near
<1>4. ASSUME NEW j \in left_whole PROVE Near(known, 0, j, rest, left_whole, rest[j])
  <2>1. j \in 1 .. r /\ h + j \in whole /\ j \in Nat
    BY SMTT(30)
  <2>2. Near(known, h, h + j, cnt, whole, rest[j]) /\ rest[j] \in Nat
    BY <1>0, <2>1, Zenon DEF Chained
  <2> QED BY <1>3, <2>1, <2>2, Zenon
<1>5. Near(known, 0, r + 1, rest, left_whole, x)
  <2>1. n + 1 = h + (r + 1) /\ r + 1 \in Nat
    BY SMTT(30)
  <2>2. Near(known, h, h + (r + 1), cnt, whole, x)
    BY <2>1, Zenon DEF Chained
  <2> QED BY <1>3, <2>1, <2>2, Zenon
<1> QED BY <1>1, <1>2, <1>4, <1>5, Zenon DEF Chained

\* A message is queued, with the count of now.
LEMMA ChainAppend ==
    ASSUME NEW n \in Nat, NEW cnt \in [1 .. n -> Nat], NEW whole \in SUBSET (1 .. n),
           NEW known \in Nat, NEW x \in Nat, Chained(known, 0, n, cnt, whole, x),
           NEW longer \in [1 .. n + 1 -> Nat], longer[n + 1] = x,
           \A j \in 1 .. n : longer[j] = cnt[j],
           NEW more \in SUBSET (1 .. n + 1), whole \subseteq more,
           more \subseteq whole \cup {n + 1}
    PROVE  Chained(known, 0, n + 1, longer, more, x)
<1>0. \A j \in 1 .. n + 1 : j \in 1 .. n \/ j = n + 1
  BY SMTT(30)
<1>1. \A j \in 1 .. n + 1 : known <= longer[j] /\ longer[j] <= x
  BY <1>0, SMTT(30) DEF Chained
<1>2. ASSUME NEW i \in 1 .. n + 1, NEW j \in 1 .. n + 1, i < j
      PROVE  longer[i] <= longer[j]
  <2>1. i \in 1 .. n
    BY <1>2, SMTT(30)
  <2>2. CASE j \in 1 .. n
    BY <1>2, <2>1, <2>2, Zenon DEF Chained
  <2>3. CASE j = n + 1
    BY <1>1, <2>3, Zenon
  <2> QED BY <1>0, <2>2, <2>3, Zenon
<1>3. ASSUME NEW j \in Nat, NEW y \in Nat, Near(known, 0, j, cnt, whole, y),
             NEW l \in Nat, j <= l
      PROVE  Near(known, 0, l, longer, more, y)
  <2>1. CASE y - known < OvflModulus
    BY <2>1, Zenon DEF Near
  <2>2. CASE \E i \in whole : 0 < i /\ i < j /\ y - cnt[i] < OvflModulus
    <3>1. PICK i \in whole : 0 < i /\ i < j /\ y - cnt[i] < OvflModulus
      BY <2>2, Zenon
    <3>2. i \in more /\ i < l /\ longer[i] = cnt[i]
      BY <1>3, <3>1, SMTT(30)
    <3> QED BY <3>1, <3>2, Zenon DEF Near
  <2> QED BY <1>3, <2>1, <2>2, Zenon DEF Near
<1>4. Near(known, 0, n + 1, cnt, whole, x) /\ n + 1 \in Nat /\ n + 2 \in Nat
  BY SMTT(30) DEF Chained
<1>5. ASSUME NEW j \in more PROVE Near(known, 0, j, longer, more, longer[j])
  <2>1. CASE j \in whole
    <3>1. j \in Nat /\ 0 < j /\ j <= j /\ longer[j] = cnt[j] /\ cnt[j] \in Nat
      BY <2>1, SMTT(30)
    <3>2. Near(known, 0, j, cnt, whole, cnt[j])
      BY <2>1, <3>1, Zenon DEF Chained
    <3> QED BY <1>3, <3>1, <3>2, Zenon
  <2>2. CASE j = n + 1
    BY <1>3, <1>4, <2>2, SMTT(30)
  <2> QED BY <2>1, <2>2, Zenon
<1>6. Near(known, 0, (n + 1) + 1, longer, more, x)
  <2>1. (n + 1) + 1 \in Nat /\ n + 1 <= (n + 1) + 1
    BY SMTT(30)
  <2> QED BY <1>3, <1>4, <2>1, Zenon
<1>7. known <= x
  BY Zenon DEF Chained
<1> QED BY <1>1, <1>2, <1>5, <1>6, <1>7, Zenon DEF Chained

\* A frame is discarded.
LEMMA ChainDiscard ==
    ASSUME NEW n \in Nat, NEW cnt \in [1 .. n -> Nat], NEW whole \in SUBSET (1 .. n),
           NEW known \in Nat, NEW x \in Nat, Chained(known, 0, n, cnt, whole, x),
           NEW c \in Nat, x - c < OvflModulus - 1,
           c = known \/ \E i \in whole : c = cnt[i]
    PROVE  Chained(known, 0, n, cnt, whole, x + 1)
<1>0. PICK M \in Nat : M = OvflModulus
  BY CanAssumption, Zenon
<1>1. known <= x + 1 /\ \A j \in 1 .. n : known <= cnt[j] /\ cnt[j] <= x + 1
  <2>1. known <= x /\ \A j \in 1 .. n : known <= cnt[j] /\ cnt[j] <= x /\ cnt[j] \in Nat
    BY SMTT(30) DEF Chained
  <2> QED BY <2>1, SMTT(30)
<1>2. (x + 1) - c < OvflModulus
  BY <1>0, SMTT(30)
<1>3. Near(known, 0, n + 1, cnt, whole, x + 1)
  <2>1. CASE c = known
    BY <1>2, <2>1, Zenon DEF Near
  <2>2. CASE \E i \in whole : c = cnt[i]
    <3>1. PICK i \in whole : c = cnt[i]
      BY <2>2, Zenon
    <3>2. 0 < i /\ i < n + 1
      BY SMTT(30)
    <3> QED BY <1>2, <3>1, <3>2, Zenon DEF Near
  <2> QED BY <2>1, <2>2, Zenon
<1> QED BY <1>1, <1>3, Zenon DEF Chained

----------------------------------------------------------------------------
(* The drain                                                               *)

\* From the figures t to u by g messages, the last one the h-th of the queue.
Advances(t, u, g, h, n, cnt, whole, x) ==
    /\ u \in Figures /\ Settled(u) /\ Chained(u.known, h, n, cnt, whole, x)
    /\ u.frames + u.malformed = t.frames + t.malformed + g

\* The message m is the h-th of the queue.
Is(m, h, cnt, whole) == (m.short <=> h \notin whole) /\ m.count = cnt[h]

\* One turn of the loop.
LEMMA TakeKeeps ==
    ASSUME NEW n \in Nat, NEW cnt \in [1 .. n -> Nat], NEW whole \in SUBSET (1 .. n),
           NEW h \in Nat, h + 1 \in 1 .. n, NEW x \in Nat,
           NEW t \in Figures, NEW m \in Handed,
           Is(m, h + 1, cnt, whole), Settled(t), Chained(t.known, h, n, cnt, whole, x)
    PROVE  Advances(t, Take(t, m), 1, h + 1, n, cnt, whole, x)
<1> DEFINE u == Take(t, m)
<1> SUFFICES Advances(t, u, 1, h + 1, n, cnt, whole, x)
  BY Zenon
<1> HIDE DEF u
<1>0. u = Take(t, m) /\ (m.short <=> h + 1 \notin whole) /\ m.count = cnt[h + 1]
  BY Zenon DEF u, Is
<1>1. PICK old \in Nat, c \in Nat : old = t.known /\ c = m.count
  BY Zenon DEF Figures, Handed
<1>2. CASE Silent(m)
  <2>1. /\ u \in Figures /\ u.frames + u.malformed = t.frames + t.malformed + 1
        /\ u.drops = t.drops /\ u.last = t.last /\ u.have = t.have
        /\ u.first = t.first /\ u.known = t.known
    BY <1>0, <1>2, TakeSilent, ZenonT(30)
  <2>2. Settled(u)
    BY <2>1, Zenon DEF Settled
  <2>3. h + 1 \notin whole \/ cnt[h + 1] = old
    <3>1. old <= cnt[h + 1]
      BY <1>1, SMTT(30) DEF Chained
    <3> QED BY <1>0, <1>1, <1>2, <3>1 DEF Silent
  <2>4. Chained(old, h + 1, n, cnt, whole, x)
    BY <1>1, <2>3, ChainSilent, Zenon
  <2> QED BY <1>1, <2>1, <2>2, <2>4, Zenon DEF Advances
<1>3. CASE ~Silent(m)
  <2>1. /\ u \in Figures /\ u.frames + u.malformed = t.frames + t.malformed + 1
        /\ u.have /\ u.last = m.count % OvflModulus /\ u.known = m.count
        /\ t.have => /\ u.first = t.first
                     /\ u.drops = t.drops + Delta(m.count % OvflModulus, t.last)
        /\ ~t.have => u.first = m.count /\ u.drops = t.drops
    <3>1. Stamped(t, m, u)
      BY <1>0, <1>3, TakeStamp, Zenon
    <3> QED BY <3>1, Zenon DEF Stamped
  <2>2. h + 1 \in whole
    BY <1>0, <1>3, Zenon DEF Silent
  <2>3. old <= c /\ c - old < OvflModulus /\ Chained(c, h + 1, n, cnt, whole, x)
    BY <1>0, <1>1, <2>2, ChainStamp, Zenon
  <2>4. Settled(u)
    <3>1. CASE t.have
      <4>1. t.last = old % OvflModulus /\ t.first + t.drops = old
        BY <1>1, <3>1, Zenon DEF Settled
      <4>2. Delta(c % OvflModulus, old % OvflModulus) = c - old
        BY <2>3, DeltaExact, Zenon
      <4>3. u.first = t.first /\ u.drops = t.drops + (c - old)
        BY <1>1, <2>1, <3>1, <4>1, <4>2, Zenon
      <4>4. u.first + u.drops = c
        <5>1. PICK f \in Nat, d \in Nat : f = t.first /\ d = t.drops
          BY Zenon DEF Figures
        <5>2. f + d = old /\ u.first = f /\ u.drops = d + (c - old)
          BY <4>1, <4>3, <5>1, Zenon
        <5>3. f + (d + (c - old)) = c
          BY <5>2, SMTT(30)
        <5> QED BY <5>2, <5>3, Zenon
      <4> QED BY <1>1, <2>1, <4>4, Zenon DEF Settled
    <3>2. CASE ~t.have
      <4>1. t.known = 0 /\ t.first = 0 /\ t.drops = 0
        BY <3>2, SMTT(30) DEF Settled, Figures
      <4>2. u.first + u.drops = c
        BY <1>1, <2>1, <3>2, <4>1, SMTT(30)
      <4> QED BY <1>1, <2>1, <4>2, Zenon DEF Settled
    <3> QED BY <3>1, <3>2, Zenon
  <2> QED BY <1>1, <2>1, <2>3, <2>4, Zenon DEF Advances
<1> QED BY <1>2, <1>3, Zenon

\* The figures stay figures.
LEMMA TakeType ==
    ASSUME NEW t \in Figures, NEW m \in Handed
    PROVE  Take(t, m) \in Figures
BY TakeSilent, TakeStamp, Zenon DEF Stamped

\* The figures after each message of a batch.
LEMMA TakeTrace ==
    ASSUME NEW t \in Figures, NEW msgs \in Seq(Handed)
    PROVE  \E g \in [0 .. Len(msgs) -> Figures] :
              /\ g[0] = t /\ g[Len(msgs)] = ForEach(Take, t, msgs)
              /\ \A i \in 1 .. Len(msgs) : g[i] = Take(g[i - 1], msgs[i])
<1>0. PICK n \in Nat : Len(msgs) = n
  BY SMTT(30)
<1> DEFINE Fits(f) == f = [i \in 0 .. n |-> IF i = 0 THEN t
                                            ELSE Take(f[i - 1], msgs[i])]
           run == CHOOSE f : Fits(f)
           G == [p \in Figures \X (1 .. n) |-> Take(p[1], msgs[p[2]])]
           S == {i \in 0 .. n : run[i] \in Figures}
<1>1. /\ G \in [Figures \X (1 .. n) -> Figures]
      /\ \A u \in Figures, i \in 1 .. n : G[<<u, i>>] = Take(u, msgs[i])
  <2>1. \A p \in Figures \X (1 .. n) : p[1] \in Figures /\ msgs[p[2]] \in Handed
    BY <1>0
  <2> QED BY <1>0, <2>1, TakeType, Zenon
<1> HIDE DEF G
<1>2. PICK f \in [0 .. n -> Figures] : Recursion(f, n, Figures, t, G)
  BY <1>1, LoopSolution, Zenon
<1>3. Fits(f)
  BY <1>1, <1>2 DEF Recursion
<1>4. Fits(run)
  BY <1>3, Zenon
<1>5. ForEach(Take, t, msgs) = run[n]
  BY <1>0, Zenon DEF ForEach
<1> HIDE DEF run
<1>6. run[0] = t /\ \A i \in 1 .. n : run[i] = Take(run[i - 1], msgs[i])
  BY <1>4, SMTT(30)
<1>7. 0 \in S /\ \A i \in 1 .. n : i - 1 \in S => i \in S
  <2>1. 0 \in S
    BY <1>6, SMTT(30)
  <2>2. ASSUME NEW i \in 1 .. n, i - 1 \in S PROVE i \in S
    <3>1. msgs[i] \in Handed /\ run[i - 1] \in Figures /\ i \in 0 .. n
      BY <1>0, <2>2, SMTT(30)
    <3> QED BY <1>6, <3>1, TakeType, Zenon
  <2> QED BY <2>1, <2>2, Zenon
<1>8. \A i \in 0 .. n : i \in S
  <2> HIDE DEF S
  <2> QED BY <1>7, Upto, Zenon
<1>9. run \in [0 .. n -> Figures]
  BY <1>4, <1>8, Zenon
<1> QED BY <1>0, <1>5, <1>6, <1>9, Zenon

\* The whole batch: b messages from the front of the queue.
LEMMA BatchKeeps ==
    ASSUME NEW n \in Nat, NEW cnt \in [1 .. n -> Nat], NEW whole \in SUBSET (1 .. n),
           NEW x \in Nat, NEW t \in Figures, Settled(t),
           Chained(t.known, 0, n, cnt, whole, x),
           NEW b \in 0 .. n, NEW msgs \in Seq(Handed), Len(msgs) = b,
           \A i \in 1 .. b : Is(msgs[i], i, cnt, whole),
           NEW u, u = ForEach(Take, t, msgs)
    PROVE  Advances(t, u, b, b, n, cnt, whole, x)
<1>1. PICK g \in [0 .. b -> Figures] :
         /\ g[0] = t /\ g[b] = u
         /\ \A i \in 1 .. b : g[i] = Take(g[i - 1], msgs[i])
  <2>1. \E g \in [0 .. Len(msgs) -> Figures] :
           /\ g[0] = t /\ g[Len(msgs)] = ForEach(Take, t, msgs)
           /\ \A i \in 1 .. Len(msgs) : g[i] = Take(g[i - 1], msgs[i])
    BY TakeTrace, Zenon
  <2> QED BY <2>1, Zenon
<1> DEFINE S == {i \in 0 .. b : Advances(t, g[i], i, i, n, cnt, whole, x)}
<1>2. 0 \in S
  <2>1. t.frames + t.malformed + 0 = t.frames + t.malformed
    BY SMTT(30) DEF Figures
  <2>2. 0 \in 0 .. b
    OBVIOUS
  <2> QED BY <1>1, <2>1, <2>2, Zenon DEF Advances
<1>3. ASSUME NEW i \in 1 .. b, i - 1 \in S PROVE i \in S
  <2>1. PICK h \in Nat : h = i - 1 /\ h + 1 = i /\ h \in 0 .. b /\ h + 1 \in 1 .. n
    BY SMTT(30)
  <2>2. PICK v \in Figures, w \in Figures : v = g[h] /\ w = g[i] /\ w = Take(v, msgs[i])
    BY <1>1, <2>1, SMTT(30)
  <2>3. msgs[i] \in Handed /\ Is(msgs[i], h + 1, cnt, whole)
    BY <2>1, SMTT(30)
  <2>4. Advances(t, v, h, h, n, cnt, whole, x)
    BY <1>3, <2>1, <2>2, Zenon
  <2> HIDE DEF S
  <2>5. Advances(v, w, 1, h + 1, n, cnt, whole, x)
    <3>1. Settled(v) /\ Chained(v.known, h, n, cnt, whole, x)
      BY <2>4, Zenon DEF Advances
    <3> QED BY <2>1, <2>2, <2>3, <3>1, TakeKeeps, ZenonT(30)
  <2>6. w.frames + w.malformed = t.frames + t.malformed + i
    <3>1. t.frames \in Nat /\ t.malformed \in Nat
      BY Zenon DEF Figures
    <3>2. /\ w.frames + w.malformed = v.frames + v.malformed + 1
          /\ v.frames + v.malformed = t.frames + t.malformed + h
      BY <2>4, <2>5, Zenon DEF Advances
    <3> QED BY <2>1, <3>1, <3>2, SMTT(30)
  <2>7. Advances(t, w, i, i, n, cnt, whole, x)
    BY <2>1, <2>5, <2>6, Zenon DEF Advances
  <2>8. i \in 0 .. b
    BY SMTT(30)
  <2> QED BY <2>2, <2>7, <2>8, Zenon DEF S
<1>4. \A i \in 0 .. b : i \in S
  <2>1. b \in Nat /\ \A i \in 1 .. b : i - 1 \in S => i \in S
    BY <1>3, SMTT(30)
  <2> HIDE DEF S
  <2> QED BY <1>2, <2>1, Upto, Zenon
<1>5. b \in 0 .. b
  BY SMTT(30)
<1> QED BY <1>1, <1>4, <1>5, Zenon

----------------------------------------------------------------------------
(* The source                                                              *)

CanTypeOK ==
    /\ {arrived, discarded, frames, malformed, kernel_drops, last_ovfl, handed,
        first_known, last_known} \subseteq Nat
    /\ have_ovfl \in BOOLEAN
    /\ rcvq \in Seq(Messages)

Counts(q) == [j \in 1 .. Len(q) |-> q[j].count]
Whole(q) == {j \in 1 .. Len(q) : ~q[j].short}

\* DropsSinceFirstStamp says nothing of the stamps still in the queue: they go up,
\* and the counter does not come round between one and the next.
CanInv ==
    /\ CanTypeOK
    /\ frames + malformed = handed
    /\ Settled(Stats)
    /\ Chained(last_known, 0, Len(rcvq), Counts(rcvq), Whole(rcvq), discarded)

\* What the invariant says of each variable.
LEMMA CanFields ==
    ASSUME CanInv
    PROVE  /\ CanTypeOK /\ rcvq \in Seq(Messages) /\ have_ovfl \in BOOLEAN
           /\ arrived \in Nat /\ discarded \in Nat /\ handed \in Nat
           /\ frames \in Nat /\ malformed \in Nat /\ kernel_drops \in Nat
           /\ last_ovfl \in Nat /\ first_known \in Nat /\ last_known \in Nat
           /\ frames + malformed = handed /\ Settled(Stats)
           /\ Chained(last_known, 0, Len(rcvq), Counts(rcvq), Whole(rcvq), discarded)
BY Zenon DEF CanInv, CanTypeOK

LEMMA QueueFunctions ==
    ASSUME NEW q \in Seq(Messages)
    PROVE  /\ Len(q) \in Nat /\ Counts(q) \in [1 .. Len(q) -> Nat]
           /\ Whole(q) \in SUBSET (1 .. Len(q))
           /\ \A j \in 1 .. Len(q) : Counts(q)[j] = q[j].count
<1>1. ASSUME NEW j \in 1 .. Len(q) PROVE q[j].count \in Nat
  <2>1. q[j] \in Messages
    OBVIOUS
  <2> QED BY <2>1, Zenon DEF Messages
<1>2. Counts(q) \in [1 .. Len(q) -> Nat]
  BY <1>1, Zenon DEF Counts
<1>3. \A j \in 1 .. Len(q) : Counts(q)[j] = q[j].count
  BY Zenon DEF Counts
<1>4. Whole(q) \in SUBSET (1 .. Len(q))
  BY Zenon DEF Whole
<1>5. Len(q) \in Nat
  BY SMTT(30)
<1> QED BY <1>2, <1>3, <1>4, <1>5, Zenon

LEMMA CanInitial == CanInit => CanInv
<1> SUFFICES ASSUME CanInit PROVE CanInv
  BY Zenon
<1>1. CanTypeOK /\ frames + malformed = handed
  <2>1. rcvq \in Seq(Messages)
    BY DEF CanInit
  <2>2. CanTypeOK
    <3>1. {arrived, discarded, frames, malformed, kernel_drops, last_ovfl, handed,
           first_known, last_known} \subseteq Nat
      BY DEF CanInit
    <3>2. have_ovfl \in BOOLEAN
      BY ZenonT(30) DEF CanInit
    <3> QED BY <2>1, <3>1, <3>2, Zenon DEF CanTypeOK
  <2> QED BY <2>2, SMTT(30) DEF CanInit
<1>2. Settled(Stats)
  BY SMTT(30) DEF CanInit, Settled, Stats
<1>3. OvflModulus > 0 /\ OvflModulus \in Nat
  BY CanAssumption, SMTT(30)
<1>4. Len(rcvq) = 0 /\ Whole(rcvq) = {} /\ last_known = 0 /\ discarded = 0
  BY SMTT(30) DEF CanInit, Whole
<1>5. Chained(0, 0, 0, Counts(rcvq), {}, 0)
  BY <1>3, SMTT(30) DEF Chained, Near
<1> QED BY <1>1, <1>2, <1>4, <1>5, Zenon DEF CanInv

LEMMA CanArrive == ASSUME CanInv, NEW short \in BOOLEAN, Arrive(short) PROVE CanInv'
<1> DEFINE n == Len(rcvq)
<1>0. /\ rcvq \in Seq(Messages) /\ n \in Nat /\ discarded \in Nat /\ last_known \in Nat
      /\ Counts(rcvq) \in [1 .. n -> Nat] /\ Whole(rcvq) \in SUBSET (1 .. n)
      /\ Chained(last_known, 0, n, Counts(rcvq), Whole(rcvq), discarded)
  BY CanFields, QueueFunctions, Zenon
<1>1. /\ frames' = frames /\ malformed' = malformed /\ handed' = handed
      /\ kernel_drops' = kernel_drops /\ last_ovfl' = last_ovfl
      /\ have_ovfl' = have_ovfl /\ first_known' = first_known
      /\ last_known' = last_known /\ arrived' = arrived + 1
  BY Zenon DEF Arrive
<1>2. (frames + malformed = handed)' /\ Settled(Stats)'
  BY <1>1, CanFields, Zenon DEF Settled, Stats
<1>3. CASE n < QueueSize
  <2>1. PICK m \in Messages : /\ m = [short |-> short, count |-> discarded]
                              /\ m.count = discarded
    <3>1. [short |-> short, count |-> discarded] \in Messages
      BY <1>0, Zenon DEF Messages
    <3> QED BY <3>1, Zenon
  <2>2. rcvq' = Append(rcvq, m) /\ discarded' = discarded
    BY <1>3, <2>1, Zenon DEF Arrive
  <2>3. /\ rcvq' \in Seq(Messages) /\ Len(rcvq') = n + 1 /\ rcvq'[n + 1] = m
        /\ \A j \in 1 .. n : rcvq'[j] = rcvq[j]
    BY <1>0, <2>2, SMTT(30)
  <2>4. CanTypeOK'
    <3>1. CanTypeOK
      BY CanFields, Zenon
    <3>2. Len(rcvq') <= QueueSize
      BY <1>0, <1>3, <2>3, CanAssumption, SMTT(30)
    <3>3. arrived' \in Nat
      BY <3>1, <1>1, SMTT(30) DEF CanTypeOK
    <3>4. rcvq' \in Seq(Messages)
      BY <2>3, Zenon
    <3> QED BY <3>1, <3>2, <3>3, <3>4, <1>1, <2>2, ZenonT(30) DEF CanTypeOK
  <2>5. /\ Counts(rcvq') \in [1 .. n + 1 -> Nat]
        /\ Whole(rcvq') \in SUBSET (1 .. n + 1)
        /\ \A j \in 1 .. n + 1 : Counts(rcvq')[j] = rcvq'[j].count
    BY <2>3, QueueFunctions, Zenon
  <2>6. /\ Counts(rcvq')[n + 1] = discarded
        /\ \A j \in 1 .. n : Counts(rcvq')[j] = Counts(rcvq)[j]
    <3>1. \A j \in 1 .. n : j \in 1 .. n + 1 /\ Counts(rcvq)[j] = rcvq[j].count
      BY <1>0, QueueFunctions, SMTT(30)
    <3>2. n + 1 \in 1 .. n + 1
      BY <1>0
    <3> HIDE DEF n
    <3> QED BY <2>1, <2>3, <2>5, <3>1, <3>2, ZenonT(30)
  <2>7. /\ Whole(rcvq) \subseteq Whole(rcvq')
        /\ Whole(rcvq') \subseteq Whole(rcvq) \cup {n + 1}
    <3>1. \A j \in 1 .. n + 1 : j \in 1 .. n \/ j = n + 1
      BY <1>0, SMTT(30)
    <3>2. \A j \in 1 .. n : j \in 1 .. n + 1
      BY <1>0
    <3> QED BY <2>3, <3>1, <3>2, Zenon DEF Whole
  <2> HIDE DEF n
  <2>8. Chained(last_known, 0, n + 1, Counts(rcvq'), Whole(rcvq'), discarded)
    BY <1>0, <2>5, <2>6, <2>7, ChainAppend, ZenonT(30)
  <2> QED BY <1>1, <1>2, <2>2, <2>3, <2>4, <2>8, Zenon DEF CanInv
<1>4. CASE ~(n < QueueSize)
  <2>1. PICK c \in Stamps : discarded - c < OvflModulus - 1
    BY <1>4, Zenon DEF Arrive
  <2>2. rcvq' = rcvq /\ discarded' = discarded + 1
    BY <1>4, Zenon DEF Arrive
  <2>3. CanTypeOK'
    <3>1. arrived + 1 \in Nat /\ discarded + 1 \in Nat
      BY CanFields, SMTT(30)
    <3> QED BY <1>1, <2>2, <3>1, CanFields, Zenon DEF CanTypeOK
  <2>4. c \in Nat /\ (c = last_known \/ \E i \in Whole(rcvq) : c = Counts(rcvq)[i])
    <3>1. CASE c = last_known
      BY <1>0, <3>1, Zenon
    <3>2. CASE c # last_known
      <4>1. PICK i \in DOMAIN rcvq : ~rcvq[i].short /\ c = rcvq[i].count
        BY <3>2, Zenon DEF Stamps
      <4>2. i \in 1 .. n
        BY <1>0
      <4>3. i \in Whole(rcvq) /\ Counts(rcvq)[i] = c
        BY <4>1, <4>2, Zenon DEF Whole, Counts
      <4>4. c \in Nat
        BY <1>0, <4>2, <4>3, Zenon
      <4> QED BY <4>3, <4>4, Zenon
    <3> QED BY <3>1, <3>2, Zenon
  <2> HIDE DEF n
  <2>5. Chained(last_known, 0, n, Counts(rcvq), Whole(rcvq), discarded + 1)
    BY <1>0, <2>1, <2>4, ChainDiscard, ZenonT(30)
  <2> QED BY <1>1, <1>2, <2>2, <2>3, <2>5, Zenon DEF CanInv, n
<1> QED BY <1>3, <1>4, Zenon

LEMMA CanDrained == ASSUME CanInv, NEW stamped \in BOOLEAN, CanDrain(stamped) PROVE CanInv'
<1>0. PICK n \in Nat : n = Len(rcvq)
  BY CanFields, QueueFunctions, Zenon
<1>1. /\ rcvq \in Seq(Messages) /\ discarded \in Nat /\ last_known \in Nat
      /\ Counts(rcvq) \in [1 .. n -> Nat] /\ Whole(rcvq) \in SUBSET (1 .. n)
      /\ \A j \in 1 .. n : Counts(rcvq)[j] = rcvq[j].count
      /\ Chained(last_known, 0, n, Counts(rcvq), Whole(rcvq), discarded)
  BY <1>0, CanFields, QueueFunctions, Zenon
<1>2. PICK b \in 0 .. n : b = IF Len(rcvq) < CanBatch THEN Len(rcvq) ELSE CanBatch
  <2>1. CanBatch \in Nat
    BY CanAssumption, Zenon
  <2> QED BY <1>0, <2>1
<1>3. PICK msgs : msgs = [i \in 1 .. b |-> [short |-> rcvq[i].short,
                                            count |-> rcvq[i].count,
                                            stamped |-> stamped]]
  BY Zenon
<1>4. PICK u : u = ForEach(Take, Stats, msgs)
  BY Zenon
<1>5. /\ frames' = u.frames /\ malformed' = u.malformed /\ kernel_drops' = u.drops
      /\ last_ovfl' = u.last /\ have_ovfl' = u.have
      /\ first_known' = u.first /\ last_known' = u.known
      /\ rcvq' = SubSeq(rcvq, b + 1, n) /\ handed' = handed + b
      /\ arrived' = arrived /\ discarded' = discarded
  BY <1>0, <1>2, <1>3, <1>4, ZenonT(30) DEF CanDrain
<1>6. Stats \in Figures /\ Settled(Stats) /\ Stats.known = last_known
      /\ Stats.frames = frames /\ Stats.malformed = malformed
  BY Zenon DEF CanInv, CanTypeOK, Stats, Figures
<1>7. /\ msgs \in Seq(Handed) /\ Len(msgs) = b
      /\ \A i \in 1 .. b : Is(msgs[i], i, Counts(rcvq), Whole(rcvq))
  <2>0. rcvq \in Seq(Messages) /\ Len(rcvq) = n
    BY <1>0, <1>1, Zenon
  <2>1. \A i \in 1 .. b : i \in 1 .. n /\ rcvq[i] \in Messages
    BY <2>0, SMTT(30)
  <2>2. \A i \in 1 .. b : msgs[i] \in Handed
    BY <1>3, <2>1, Zenon DEF Messages, Handed
  <2>3. msgs \in [1 .. b -> Handed]
    BY <1>3, <2>2, Zenon
  <2>4. msgs \in Seq(Handed) /\ Len(msgs) = b
    BY <2>3, SMTT(30)
  <2>5. \A i \in 1 .. b : msgs[i].short = rcvq[i].short /\ msgs[i].count = rcvq[i].count
    BY <1>3, Zenon
  <2>6. \A i \in 1 .. b : i \in Whole(rcvq) <=> ~rcvq[i].short
    BY <1>0, <2>1, Zenon DEF Whole
  <2> QED BY <1>1, <2>1, <2>4, <2>5, <2>6, Zenon DEF Is
<1>8. /\ u \in Figures /\ Settled(u)
      /\ Chained(u.known, b, n, Counts(rcvq), Whole(rcvq), discarded)
      /\ u.frames + u.malformed = frames + malformed + b
  <2>1. Chained(Stats.known, 0, n, Counts(rcvq), Whole(rcvq), discarded)
    BY <1>1, <1>6, Zenon
  <2> HIDE DEF Stats
  <2>2. Advances(Stats, u, b, b, n, Counts(rcvq), Whole(rcvq), discarded)
    BY <1>1, <1>4, <1>6, <1>7, <2>1, BatchKeeps, Zenon
  <2> QED BY <1>6, <2>2, Zenon DEF Advances
<1>9. PICK r \in Nat : r = n - b
  BY SMTT(30)
<1>10. /\ rcvq' \in Seq(Messages) /\ Len(rcvq') = r
       /\ \A j \in 1 .. r : rcvq'[j] = rcvq[b + j]
  BY <1>0, <1>1, <1>5, <1>9, SMTT(30)
<1>11. CanTypeOK'
  <2>1. /\ u.frames \in Nat /\ u.malformed \in Nat /\ u.drops \in Nat /\ u.last \in Nat
        /\ u.first \in Nat /\ u.known \in Nat /\ u.have \in BOOLEAN
    BY <1>8, Zenon DEF Figures
  <2>2. arrived \in Nat /\ handed + b \in Nat
    BY CanFields, SMTT(30)
  <2> QED BY <1>1, <1>5, <1>10, <2>1, <2>2, Zenon DEF CanTypeOK
<1>12. (frames + malformed = handed)'
  <2>1. handed \in Nat /\ frames + malformed = handed
    BY CanFields, Zenon
  <2> QED BY <1>5, <1>8, <2>1, Zenon
<1>13. Settled(Stats)'
  <2>1. /\ Stats'.first = u.first /\ Stats'.drops = u.drops /\ Stats'.known = u.known
        /\ Stats'.have = u.have /\ Stats'.last = u.last
    BY <1>5, Zenon DEF Stats
  <2> QED BY <1>8, <2>1, ZenonT(30) DEF Settled
<1>14. Chained(u.known, 0, r, Counts(rcvq'), Whole(rcvq'), discarded)
  <2>1. /\ Counts(rcvq') \in [1 .. r -> Nat]
        /\ \A j \in 1 .. r : Counts(rcvq')[j] = rcvq'[j].count
    BY <1>10, QueueFunctions, Zenon
  <2>2. \A j \in 1 .. r : b + j \in 1 .. n
    BY <1>9
  <2>3. \A j \in 1 .. r : Counts(rcvq')[j] = Counts(rcvq)[b + j]
    BY <1>1, <1>10, <2>1, <2>2, Zenon
  <2>4. /\ Whole(rcvq') \in SUBSET (1 .. r)
        /\ \A j \in 1 .. r : j \in Whole(rcvq') <=> b + j \in Whole(rcvq)
    BY <1>0, <1>10, <2>2, Zenon DEF Whole
  <2>5. u.known \in Nat
    BY <1>8, Zenon DEF Figures
  <2>6. Whole(rcvq) \in SUBSET (1 .. n) /\ b \in 0 .. n /\ r \in Nat /\ r = n - b
    BY <1>1, <1>9, Zenon
  <2> QED BY <1>1, <1>8, <2>1, <2>3, <2>4, <2>5, <2>6, ChainShift, ZenonT(30)
<1> QED BY <1>5, <1>10, <1>11, <1>12, <1>13, <1>14, Zenon DEF CanInv

LEMMA CanStep == CanInv /\ [CanNext]_canVars => CanInv'
<1> SUFFICES ASSUME CanInv, [CanNext]_canVars PROVE CanInv'
  BY Zenon
<1>1. CASE \E short \in BOOLEAN : Arrive(short)
  BY <1>1, CanArrive, Zenon
<1>2. CASE \E stamped \in BOOLEAN : CanDrain(stamped)
  BY <1>2, CanDrained, Zenon
<1>3. CASE UNCHANGED canVars
  BY <1>3, ZenonT(30) DEF canVars, CanInv, CanTypeOK, Settled, Stats, Chained, Near, Counts, Whole
<1> QED BY <1>1, <1>2, <1>3, Zenon DEF CanNext

\* From its first stamp on, drain counts in kernel_drops what the kernel discards,
\* short only by what that first stamp carried, and every message it took is counted once, for
\* every width of the kernel's counter, every size of the receive queue and of
\* the batch, and whichever messages are short or come without a stamp.
THEOREM CanCountsDrops == CanSpec => []DropsSinceFirstStamp
<1>1. CanInv => DropsSinceFirstStamp
  <2> SUFFICES ASSUME CanInv PROVE DropsSinceFirstStamp
    BY Zenon
  <2>1. first_known + kernel_drops = last_known
    BY CanFields, Zenon DEF Settled, Stats
  <2> QED BY <2>1, CanFields, SMTT(30) DEF DropsSinceFirstStamp
<1> QED BY <1>1, CanInitial, CanStep, PTL DEF CanSpec

----------------------------------------------------------------------------
(* The sample buffer                                                       *)

Sample == [at : Nat, v : Values]

Gap(vs, j) == vs[j + 1].at - vs[j].at

\* The retained samples vs of the first t samples, at stride s.
Covers(vs, t, s) ==
    /\ vs # <<>>
    /\ vs[1].at = 1
    /\ t - vs[Len(vs)].at \in 0 .. s - 1
    /\ \A j \in 1 .. Len(vs) - 1 : Gap(vs, j) \in s .. 2 * s - 1

\* A buffer of one sample holds two for a moment.
Room == IF capacity = 1 THEN 2 ELSE capacity

\* EvenlySpread says nothing of the samples being skipped: those since the last
\* one was kept are seen and up to a stride more, which an earlier decimation
\* dropped; and the buffer is below its capacity between two calls.
SamplesInv ==
    /\ values \in Seq(Sample)
    /\ {total, peak} \subseteq Nat /\ stride \in Nat \ {0} /\ seen \in 0 .. stride - 1
    /\ values = <<>> => total = 0 /\ seen = 0 /\ stride = 1
    /\ values # <<>> => Covers(values, total - seen, stride)
    /\ Len(values) < Room /\ peak <= Room

LEMMA RoomIs == capacity \in Nat \ {0} /\ Room \in Nat /\ Room >= 2
                /\ capacity <= Room /\ (capacity > 1 => Room = capacity)
BY SamplesAssumption, SMTT(30) DEF capacity, Room

LEMMA SampleAt ==
    ASSUME NEW vs \in Seq(Sample)
    PROVE  Len(vs) \in Nat /\ \A j \in 1 .. Len(vs) : vs[j] \in Sample /\ vs[j].at \in Nat
<1>1. Len(vs) \in Nat /\ \A j \in 1 .. Len(vs) : vs[j] \in Sample
  OBVIOUS
<1>2. \A x \in Sample : x.at \in Nat
  BY Zenon DEF Sample
<1> QED
  BY <1>1, <1>2, Zenon

\* A sample that is kept is at least a stride, and less than two, after the last.
LEMMA GrownCovers ==
    ASSUME NEW vs \in Seq(Sample), NEW t \in Nat, NEW s \in Nat \ {0}, NEW v \in Values,
           vs = <<>> => t = 0 /\ s = 1,
           vs # <<>> => Covers(vs, (t + 1) - s, s)
    PROVE  /\ Append(vs, [at |-> t + 1, v |-> v]) \in Seq(Sample)
           /\ Len(Append(vs, [at |-> t + 1, v |-> v])) = Len(vs) + 1
           /\ Covers(Append(vs, [at |-> t + 1, v |-> v]), t + 1, s)
<1> DEFINE e == [at |-> t + 1, v |-> v]
           gs == Append(vs, e)
<1>1. e \in Sample /\ e.at = t + 1
  BY SMTT(30) DEF Sample
<1>2. gs \in Seq(Sample) /\ Len(gs) = Len(vs) + 1 /\ gs[Len(vs) + 1] = e
      /\ \A j \in 1 .. Len(vs) : gs[j] = vs[j]
  BY <1>1, SMTT(30)
<1>3. Len(vs) \in Nat /\ \A j \in 1 .. Len(vs) : vs[j].at \in Nat
  BY SampleAt, Zenon
<1>4. gs # <<>>
  BY <1>2, <1>3, SMTT(30)
<1> HIDE DEF e, gs
<1>5. CASE vs = <<>>
  <2>1. Len(vs) = 0 /\ t = 0
    BY <1>5, Zenon
  <2>2. gs[1].at = 1 /\ gs[Len(gs)].at = t + 1
    BY <2>1, <1>1, <1>2, SMTT(30)
  <2> QED
    BY <2>1, <2>2, <1>2, <1>4 DEF Covers, e, gs
<1>6. CASE vs # <<>>
  <2>1. Len(vs) > 0 /\ Covers(vs, (t + 1) - s, s)
    BY <1>6, <1>3
  <2>2. gs[1].at = 1 /\ gs[Len(gs)].at = t + 1
    <3>1. 1 \in 1 .. Len(vs) /\ Len(gs) = Len(vs) + 1
      BY <2>1, <1>2, <1>3, SMTT(30)
    <3>2. gs[1] = vs[1] /\ gs[Len(gs)] = e
      BY <3>1, <1>2, Zenon
    <3> QED
      BY <3>2, <1>1, <2>1, Zenon DEF Covers
  <2>3. ASSUME NEW j \in 1 .. Len(gs) - 1
        PROVE  Gap(gs, j) \in s .. 2 * s - 1
    <3>1. CASE j = Len(vs)
      <4>1. Gap(gs, j) = (t + 1) - vs[Len(vs)].at
        <5>1. Len(vs) \in 1 .. Len(vs)
          BY <2>1, <1>3, SMTT(30)
        <5>2. gs[j] = vs[Len(vs)] /\ gs[j + 1] = e
          BY <3>1, <5>1, <1>2, Zenon
        <5>3. Gap(gs, j) = e.at - vs[Len(vs)].at
          BY <5>2, Zenon DEF Gap
        <5> QED
          BY <5>3, <1>1, Zenon
      <4>2. (t + 1) - s - vs[Len(vs)].at \in 0 .. s - 1 /\ vs[Len(vs)].at \in Nat
        BY <2>1, <1>3, SMTT(30) DEF Covers
      <4>3. ASSUME NEW a \in Nat, (t + 1) - s - a \in 0 .. s - 1
            PROVE  (t + 1) - a \in s .. 2 * s - 1
        BY <4>3, SMTT(30)
      <4> QED
        BY <4>1, <4>2, <4>3, Zenon
    <3>2. CASE j # Len(vs)
      <4>1. j \in 1 .. Len(vs) - 1
        BY <3>2, <1>2, <1>3, SMTT(30)
      <4>2. Gap(gs, j) = Gap(vs, j)
        BY <4>1, <1>2, <1>3, SMTT(30) DEF Gap
      <4> QED
        BY <4>1, <4>2, <2>1, Zenon DEF Covers
    <3> QED
      BY <3>1, <3>2, Zenon
  <2> QED
    BY <2>2, <2>3, <1>2, <1>4, SMTT(30) DEF Covers, e, gs
<1> QED
  BY <1>5, <1>6, Zenon

LEMMA HalfOf ==
    ASSUME NEW n \in Nat \ {0}, NEW h, h = (n + 1) \div 2
    PROVE  h \in Nat \ {0} /\ (n = 2 * h \/ n = 2 * h - 1)
BY SMTT(30)

\* Halving keeps the first sample, doubles the distances, and loses at most the
\* last sample, which is less than a new stride from the one before it.
LEMMA HalvedCovers ==
    ASSUME NEW vs \in Seq(Sample), NEW t \in Nat, NEW s \in Nat \ {0}, Covers(vs, t, s),
           t = vs[Len(vs)].at
    PROVE  /\ EverySecond(vs) \in Seq(Sample)
           /\ Len(EverySecond(vs)) = (Len(vs) + 1) \div 2
           /\ Covers(EverySecond(vs), t, 2 * s)
<1> DEFINE n == Len(vs)
           h == (n + 1) \div 2
           hs == EverySecond(vs)
<1>1. n \in Nat \ {0} /\ \A j \in 1 .. n : vs[j] \in Sample /\ vs[j].at \in Nat
  BY SampleAt, SMTT(30) DEF Covers
<1>2. h \in Nat \ {0} /\ (n = 2 * h \/ n = 2 * h - 1)
  BY <1>1, HalfOf, Zenon
<1>3. hs = [j \in 1 .. h |-> vs[2 * j - 1]]
  BY Zenon DEF EverySecond
<1> HIDE DEF n, h, hs
<1>4. \A j \in 1 .. h : 2 * j - 1 \in 1 .. n /\ hs[j] = vs[2 * j - 1] /\ hs[j] \in Sample
  BY <1>1, <1>2, <1>3, SMTT(30)
<1>5. hs \in Seq(Sample) /\ Len(hs) = h
  BY <1>2, <1>3, <1>4, SMTT(30)
<1>6. hs # <<>> /\ hs[1].at = 1
  BY <1>2, <1>4, <1>5, SMTT(30) DEF Covers
<1>7. ASSUME NEW j \in 1 .. h - 1
      PROVE  Gap(hs, j) \in 2 * s .. 2 * (2 * s) - 1
  <2>1. 2 * j - 1 \in 1 .. n - 1 /\ 2 * j \in 1 .. n - 1 /\ 2 * j + 1 \in 1 .. n
    BY <1>2, SMTT(30)
  <2>2. Gap(vs, 2 * j - 1) \in s .. 2 * s - 1 /\ Gap(vs, 2 * j) \in s .. 2 * s - 1
    BY <2>1, Zenon DEF Covers, n
  <2>3. hs[j] = vs[2 * j - 1] /\ hs[j + 1] = vs[2 * j + 1]
    <3>1. j \in 1 .. h /\ j + 1 \in 1 .. h /\ 2 * (j + 1) - 1 = 2 * j + 1
      BY <1>2
    <3> QED
      BY <3>1, <1>4, SMTT(30)
  <2>4. Gap(hs, j) = Gap(vs, 2 * j - 1) + Gap(vs, 2 * j)
    <3>1. (2 * j - 1) + 1 = 2 * j
      BY SMTT(30)
    <3>2. vs[2 * j - 1].at \in Nat /\ vs[2 * j].at \in Nat /\ vs[2 * j + 1].at \in Nat
      <4>1. 2 * j - 1 \in 1 .. n /\ 2 * j \in 1 .. n
        <5>1. n \in Nat
          BY <1>1, Zenon
        <5> QED BY <5>1, <2>1, SMTT(30)
      <4> QED BY <4>1, <2>1, <1>1, Zenon
    <3>3. Gap(hs, j) = vs[2 * j + 1].at - vs[2 * j - 1].at
      BY <2>3, Zenon DEF Gap
    <3>4. Gap(vs, 2 * j - 1) = vs[2 * j].at - vs[2 * j - 1].at
          /\ Gap(vs, 2 * j) = vs[2 * j + 1].at - vs[2 * j].at
      BY <3>1, Zenon DEF Gap
    <3>5. \A a, b, c \in Nat : c - a = (b - a) + (c - b)
      OBVIOUS
    <3>6. vs[2 * j + 1].at - vs[2 * j - 1].at
            = (vs[2 * j].at - vs[2 * j - 1].at) + (vs[2 * j + 1].at - vs[2 * j].at)
      BY <3>2, <3>5, Zenon
    <3> QED
      BY <3>3, <3>4, <3>6, Zenon
  <2> QED
    BY <2>2, <2>4, SMTT(30)
<1>8. t - hs[h].at \in 0 .. 2 * s - 1
  <2>1. hs[h] = vs[2 * h - 1]
    BY <1>2, <1>4, SMTT(30)
  <2>2. CASE n = 2 * h - 1
    BY <2>1, <2>2, <1>1, SMTT(30) DEF n
  <2>3. CASE n = 2 * h
    <3>1. n - 1 \in 1 .. n - 1 /\ (n - 1) + 1 = n /\ n - 1 = 2 * h - 1
      BY <2>3, <1>2, SMTT(30)
    <3>2. Gap(vs, n - 1) \in s .. 2 * s - 1
      BY <3>1, Zenon DEF Covers, n
    <3>3. t - hs[h].at = Gap(vs, n - 1)
      BY <2>1, <3>1, Zenon DEF Gap, n
    <3> QED
      BY <3>2, <3>3, SMTT(30)
  <2> QED
    BY <2>2, <2>3, <1>2, Zenon
<1> QED
  BY <1>5, <1>6, <1>7, <1>8, Zenon DEF Covers, n, h, hs

LEMMA SamplesInitial == SamplesInit => SamplesInv
BY RoomIs, SMTT(30) DEF SamplesInit, SamplesInv

\* A sample that add skips.
LEMMA SkippedKeeps ==
    ASSUME SamplesInv, seen + 1 < stride, total' = total + 1, seen' = seen + 1,
           UNCHANGED <<values, stride, peak>>
    PROVE  SamplesInv'
<1>1. values' = values /\ stride' = stride /\ peak' = peak
      /\ total \in Nat /\ seen \in Nat /\ stride \in Nat
  BY SMTT(30) DEF SamplesInv
<1>2. total' - seen' = total - seen /\ stride > 1
  BY <1>1, SMTT(30)
<1>3. values # <<>> /\ Covers(values, total - seen, stride)
  BY <1>1, <1>2 DEF SamplesInv
<1>4. Covers(values', total' - seen', stride') /\ values' # <<>>
  BY <1>1, <1>2, <1>3, Zenon
<1>5. total' \in Nat /\ seen' \in 0 .. stride' - 1
  BY <1>1, SMTT(30)
<1> QED
  BY <1>1, <1>3, <1>4, <1>5, Zenon DEF SamplesInv, Room, capacity

\* A sample that is kept, with the decimation when the buffer is full.
LEMMA KeptKeeps ==
    ASSUME SamplesInv, NEW v \in Values, ~(seen + 1 < stride), Add(v)
    PROVE  SamplesInv'
<1> DEFINE grown == Append(values, [at |-> total + 1, v |-> v])
<1>1. /\ total' = total + 1 /\ seen' = 0
      /\ values' = IF Full(grown) THEN EverySecond(grown) ELSE grown
      /\ stride' = IF Full(grown) THEN 2 * stride ELSE stride
      /\ peak' = IF Len(grown) > peak THEN Len(grown) ELSE peak
  BY Zenon DEF Add
<1>2. /\ values \in Seq(Sample) /\ total \in Nat /\ peak \in Nat /\ stride \in Nat \ {0}
      /\ seen \in 0 .. stride - 1 /\ Len(values) \in Nat
      /\ Len(values) < Room /\ peak <= Room
  BY SMTT(30) DEF SamplesInv
<1>3. total - seen = (total + 1) - stride
  BY <1>2
<1>4. (values = <<>> => total = 0 /\ stride = 1)
      /\ (values # <<>> => Covers(values, (total + 1) - stride, stride))
  BY <1>3, Zenon DEF SamplesInv
<1>5. /\ grown \in Seq(Sample) /\ Len(grown) = Len(values) + 1
      /\ Covers(grown, total + 1, stride)
  BY <1>2, <1>4, GrownCovers, ZenonT(30)
<1>6. grown[Len(grown)] = [at |-> total + 1, v |-> v]
  BY <1>2, <1>5, SMTT(30)
<1>7. grown[Len(grown)].at = total + 1 /\ total + 1 \in Nat
  BY <1>6, <1>2, SMTT(30)
<1> HIDE DEF grown
<1>8. /\ values' \in Seq(Sample) /\ stride' \in Nat \ {0}
      /\ Covers(values', total + 1, stride') /\ Len(values') < Room
  <2>1. CASE Full(grown)
    <3>1. /\ EverySecond(grown) \in Seq(Sample)
          /\ Len(EverySecond(grown)) = (Len(grown) + 1) \div 2
          /\ Covers(EverySecond(grown), total + 1, 2 * stride)
      BY <1>2, <1>5, <1>7, HalvedCovers, Zenon
    <3>2. values' = EverySecond(grown) /\ stride' = 2 * stride
      BY <1>1, <2>1, Zenon
    <3>3. (Len(grown) + 1) \div 2 < Room
      BY <1>2, <1>5, RoomIs, SMTT(30)
    <3>4. stride' \in Nat \ {0}
      BY <3>2, <1>2
    <3> QED
      BY <3>1, <3>2, <3>3, <3>4, Zenon
  <2>2. CASE ~Full(grown)
    <3>1. values' = grown /\ stride' = stride
      BY <1>1, <2>2, Zenon
    <3>2. Len(grown) < Room
      BY <2>2, <1>2, <1>5, RoomIs, SMTT(30) DEF Full
    <3> QED
      BY <3>1, <3>2, <1>2, <1>5, Zenon
  <2> QED
    BY <2>1, <2>2, Zenon
<1>9. values' # <<>>
  BY <1>8, Zenon DEF Covers
<1>10. Covers(values', total' - seen', stride')
  <2>1. total' - seen' = total + 1
    BY <1>1, <1>2, SMTT(30)
  <2> QED
    BY <1>8, <2>1, Zenon
<1>11. total' \in Nat /\ seen' \in 0 .. stride' - 1
  BY <1>1, <1>2, <1>8, SMTT(30)
<1>12. peak' \in Nat /\ peak' <= Room
  BY <1>1, <1>2, <1>5, RoomIs, SMTT(30)
<1> QED
  BY <1>8, <1>9, <1>10, <1>11, <1>12, ZenonT(30) DEF SamplesInv, Room, capacity

LEMMA SamplesStep == SamplesInv /\ [SamplesNext]_samplesVars => SamplesInv'
<1> SUFFICES ASSUME SamplesInv, [SamplesNext]_samplesVars PROVE SamplesInv'
  BY Zenon
<1>1. ASSUME NEW v \in Values, Add(v), seen + 1 < stride PROVE SamplesInv'
  BY <1>1, SkippedKeeps, Zenon DEF Add
<1>2. ASSUME NEW v \in Values, Add(v), ~(seen + 1 < stride) PROVE SamplesInv'
  BY <1>2, KeptKeeps, Zenon
<1>3. CASE UNCHANGED samplesVars
  BY <1>3, Zenon DEF samplesVars, SamplesInv
<1> QED
  BY <1>1, <1>2, <1>3, Zenon DEF SamplesNext

LEMMA SpreadFromInv ==
    SamplesInv => EvenlySpread /\ (capacity > 1 => NeverAllocates)
<1> SUFFICES ASSUME SamplesInv PROVE EvenlySpread /\ (capacity > 1 => NeverAllocates)
  BY Zenon
<1>1. capacity > 1 => NeverAllocates
  BY RoomIs, Zenon DEF SamplesInv, NeverAllocates
<1>2. CASE values = <<>>
  <2>1. Len(values) = 0 /\ \A j \in 1 .. Len(values) - 1 : FALSE
    BY <1>2
  <2> QED
    BY <1>1, <1>2, <2>1, Zenon DEF EvenlySpread
<1>3. CASE values # <<>>
  <2>1. Covers(values, total - seen, stride) /\ values \in Seq(Sample)
    BY <1>3, Zenon DEF SamplesInv
  <2>2. total \in Nat /\ seen \in 0 .. stride - 1 /\ stride \in Nat
        /\ values[Len(values)].at \in Nat
    <3>1. Len(values) \in 1 .. Len(values)
      BY <1>3, <2>1
    <3> QED
      BY <2>1, <3>1, SampleAt, Zenon DEF SamplesInv
  <2>3. values[1].at = 1 /\ (total - seen) - values[Len(values)].at \in 0 .. stride - 1
    BY <2>1, Zenon DEF Covers
  <2>4. total - values[Len(values)].at < 2 * stride
    BY <2>2, <2>3, SMTT(30)
  <2>5. \A j \in 1 .. Len(values) - 1 :
            values[j + 1].at - values[j].at \in stride .. 2 * stride - 1
    BY <2>1, Zenon DEF Covers, Gap
  <2> QED
    BY <1>1, <2>3, <2>4, <2>5, Zenon DEF EvenlySpread
<1> QED
  BY <1>1, <1>2, <1>3, Zenon

\* However many samples are added and however often the buffer is halved, what
\* add and decimate retain is spread evenly over the whole run; and for every
\* capacity but one, no sample makes the vector grow.
THEOREM SamplesSpread ==
    SamplesSpec => [](EvenlySpread /\ (capacity > 1 => NeverAllocates))
BY SamplesInitial, SamplesStep, SpreadFromInv, PTL DEF SamplesSpec

----------------------------------------------------------------------------
(* Numbers in little-endian order                                          *)

LEMMA RadixIs == Radix \in Nat /\ Radix >= 2
BY WireAssumption, SMT

Positive == Nat \ {0}

LEMMA PowerIs ==
    /\ Power \in [0 .. 8 -> Positive] /\ Power[0] = 1
    /\ \A i \in 1 .. 8 : Power[i] = Radix * Power[i - 1]
<1> DEFINE Fits(f) == f = [i \in 0 .. 8 |-> IF i = 0 THEN 1 ELSE Radix * f[i - 1]]
           G == [p \in Positive \X (1 .. 8) |-> Radix * p[1]]
           S == {i \in 0 .. 8 : Power[i] \in Positive}
<1>1. \A x \in Positive : Radix * x \in Positive
  BY RadixIs, SMT DEF Positive
<1>2. /\ G \in [Positive \X (1 .. 8) -> Positive]
      /\ \A x \in Positive, i \in 1 .. 8 : G[<<x, i>>] = Radix * x
  <2>1. \A p \in Positive \X (1 .. 8) : p[1] \in Positive
    BY Zenon
  <2> QED BY <1>1, <2>1, Zenon
<1> HIDE DEF G
<1>3. 1 \in Positive /\ 8 \in Nat
  BY DEF Positive
<1>4. PICK f \in [0 .. 8 -> Positive] : Recursion(f, 8, Positive, 1, G)
  BY <1>2, <1>3, LoopSolution, Zenon
<1>5. Fits(f)
  <2>1. \A i \in 1 .. 8 : G[<<f[i - 1], i>>] = Radix * f[i - 1]
    BY <1>2, <1>4, Zenon DEF Recursion
  <2>2. f = [i \in 0 .. 8 |-> IF i = 0 THEN 1 ELSE G[<<f[i - 1], i>>]]
    BY <1>4, Zenon DEF Recursion
  <2>3. \A i \in 0 .. 8 : i = 0 \/ i \in 1 .. 8
    OBVIOUS
  <2> QED BY <2>1, <2>2, <2>3, Zenon
<1>6. Fits(Power)
  BY <1>5, Zenon DEF Power
<1>7. Power[0] = 1 /\ \A i \in 1 .. 8 : Power[i] = Radix * Power[i - 1]
  BY <1>6, SMTT(30)
<1>8. 0 \in S /\ \A i \in 1 .. 8 : i - 1 \in S => i \in S
  BY <1>1, <1>3, <1>7, SMTT(30)
<1>9. \A i \in 0 .. 8 : i \in S
  <2> HIDE DEF S
  <2> QED BY <1>3, <1>8, Upto, Zenon
<1>10. Power \in [0 .. 8 -> Positive]
  BY <1>6, <1>9, Zenon
<1> QED BY <1>7, <1>10, Zenon

LEMMA Divided ==
    ASSUME NEW M \in Positive, NEW a \in Nat
    PROVE  /\ a \div M \in Nat /\ a % M \in Nat /\ a % M < M
           /\ a = M * (a \div M) + (a % M)
<1>1. a \div M \in Int /\ a % M \in Nat /\ a % M < M /\ a = M * (a \div M) + (a % M)
  BY Z3 DEF Positive
<1>2. PICK d \in Int : d = a \div M
  BY <1>1, Zenon
<1>3. d >= 0
  <2> SUFFICES ASSUME d <= 0 - 1 PROVE FALSE
    BY <1>2, SMTT(30)
  <2>1. M * d <= 0 - M
    BY Z3 DEF Positive
  <2>2. PICK r \in Nat : r = a % M
    BY <1>1, Zenon
  <2> QED BY <1>1, <1>2, <2>1, <2>2, Z3 DEF Positive
<1> QED BY <1>1, <1>2, <1>3, SMTT(30)

\* Quotient and remainder are unique.
Divides(M, e, q, x) == q \in Nat /\ x \in Nat /\ x < M /\ e = M * q + x

LEMMA SameDivision ==
    ASSUME NEW M \in Positive, NEW e, NEW q, NEW d, NEW x, NEW y,
           Divides(M, e, q, x), Divides(M, e, d, y)
    PROVE  q = d /\ x = y
<1>1. M \in Nat /\ M > 0 /\ q \in Nat /\ d \in Nat /\ x \in Nat /\ y \in Nat /\ x < M /\ y < M
      /\ q \in Int /\ d \in Int /\ M * q + x = M * d + y
  BY DEF Divides, Positive
<1>2. x = y
  <2>1. (M * q + x) % M = x /\ (M * d + y) % M = y
    BY <1>1, Remainder, Zenon
  <2> QED BY <1>1, <2>1, Zenon
<1>3. M * q = M * d
  BY <1>1, <1>2, Z3
<1>4. q = d
  BY <1>1, <1>3, Z3
<1> QED BY <1>2, <1>4, Zenon

\* One more digit.
LEMMA NextDigit ==
    ASSUME NEW M \in Positive, NEW R \in Positive, NEW v \in Nat
    PROVE  v % (R * M) = (v % M) + ((v \div M) % R) * M
<1>1. PICK q \in Nat, x \in Nat : q = v \div M /\ x = v % M /\ x < M /\ v = M * q + x
  BY Divided, Zenon
<1>2. PICK d \in Nat, y \in Nat : d = q \div R /\ y = q % R /\ y < R /\ q = R * d + y
  BY Divided, ZenonT(30)
<1>3. v = (R * M) * d + (x + y * M)
  <2>1. M * q = M * (R * d) + M * y
    BY <1>2, Z3 DEF Positive
  <2>2. M * (R * d) = (R * M) * d
    BY Z3 DEF Positive
  <2>3. M * y = y * M
    BY Z3 DEF Positive
  <2>4. R * d \in Nat /\ M * (R * d) \in Nat /\ M * y \in Nat
    BY Z3 DEF Positive
  <2> QED BY <1>1, <2>1, <2>2, <2>3, <2>4, Z3
<1>4. x + y * M \in Nat /\ x + y * M < R * M /\ R * M \in Nat /\ R * M > 0
  <2>1. y * M <= (R - 1) * M
    BY <1>2, Z3 DEF Positive
  <2>2. (R - 1) * M = R * M - M
    BY Z3 DEF Positive
  <2>3. y * M \in Nat /\ R * M \in Nat /\ R * M > 0
    BY Z3 DEF Positive
  <2> QED BY <1>1, <2>1, <2>2, <2>3, Z3 DEF Positive
<1>5. ((R * M) * d + (x + y * M)) % (R * M) = x + y * M
  <2>1. PICK N \in Nat, z \in Nat : N = R * M /\ z = x + y * M /\ N > 0 /\ z < N
    BY <1>4, Zenon
  <2>2. (N * d + z) % N = z
    BY <2>1, Remainder, SMTT(30)
  <2> QED BY <2>1, <2>2, Zenon
<1> QED BY <1>1, <1>2, <1>3, <1>5, Zenon

\* What the loop of load_le has put together after each byte.
Loads(g, s, o, w) ==
    /\ g \in [0 .. w -> Nat] /\ g[0] = 0 /\ g[w] = load_le(s, o, w)
    /\ \A i \in 1 .. w : g[i] = g[i - 1] + s[o + i] * Power[i - 1]

LEMMA LoadTrace ==
    ASSUME NEW w \in 1 .. 8, NEW o \in Nat, NEW s, \A i \in 1 .. w : s[o + i] \in Nat
    PROVE  \E g : Loads(g, s, o, w)
<1> DEFINE Fits(f) == f = [i \in 0 .. w |-> IF i = 0 THEN 0
                                            ELSE f[i - 1] + s[o + i] * Power[i - 1]]
           run == CHOOSE f : Fits(f)
           G == [p \in Nat \X (1 .. w) |-> p[1] + s[o + p[2]] * Power[p[2] - 1]]
           S == {i \in 0 .. w : run[i] \in Nat}
<1>0. w \in Nat /\ w \in 0 .. w /\ \A i \in 0 .. w : i = 0 \/ i \in 1 .. w
  OBVIOUS
<1>1. \A x \in Nat, i \in 1 .. w : x + s[o + i] * Power[i - 1] \in Nat
  <2>1. \A i \in 1 .. w : s[o + i] \in Nat /\ Power[i - 1] \in Nat
    BY PowerIs, SMTT(30) DEF Positive
  <2>2. \A x, y, z \in Nat : x + y * z \in Nat
    BY Z3
  <2> QED BY <2>1, <2>2, Zenon
<1>2. /\ G \in [Nat \X (1 .. w) -> Nat]
      /\ \A x \in Nat, i \in 1 .. w : G[<<x, i>>] = x + s[o + i] * Power[i - 1]
  <2>1. \A p \in Nat \X (1 .. w) : p[1] \in Nat /\ p[2] \in 1 .. w
    BY Zenon
  <2>2. \A p \in Nat \X (1 .. w) : p[1] + s[o + p[2]] * Power[p[2] - 1] \in Nat
    BY <1>1, <2>1, Zenon
  <2>3. \A x \in Nat, i \in 1 .. w :
           <<x, i>> \in Nat \X (1 .. w) /\ <<x, i>>[1] = x /\ <<x, i>>[2] = i
    BY Zenon
  <2> QED BY <2>2, <2>3, Zenon
<1> HIDE DEF G
<1>3. PICK f \in [0 .. w -> Nat] : Recursion(f, w, Nat, 0, G)
  <2>1. 0 \in Nat
    BY Zenon
  <2> QED BY <1>0, <1>2, <2>1, LoopSolution, Zenon
<1>4. Fits(f)
  <2>1. \A i \in 1 .. w : G[<<f[i - 1], i>>] = f[i - 1] + s[o + i] * Power[i - 1]
    BY <1>2, <1>3, Zenon DEF Recursion
  <2>2. f = [i \in 0 .. w |-> IF i = 0 THEN 0 ELSE G[<<f[i - 1], i>>]]
    BY <1>3, Zenon DEF Recursion
  <2> QED BY <1>0, <2>1, <2>2, Zenon
<1>5. Fits(run)
  BY <1>4, Zenon
<1>6. load_le(s, o, w) = run[w]
  BY ZenonT(30) DEF load_le
<1> HIDE DEF run
<1>7. run[0] = 0 /\ \A i \in 1 .. w : run[i] = run[i - 1] + s[o + i] * Power[i - 1]
  BY <1>0, <1>5, SMTT(30)
<1>8. 0 \in S /\ \A i \in 1 .. w : i - 1 \in S => i \in S
  <2>1. \A i \in 1 .. w : i \in 0 .. w
    BY SMTT(30)
  <2>2. 0 \in S
    BY <1>7, SMTT(30)
  <2> QED BY <1>1, <1>7, <2>1, <2>2, Zenon
<1>9. \A i \in 0 .. w : i \in S
  <2> HIDE DEF S
  <2> QED BY <1>0, <1>8, Upto, Zenon
<1>10. run \in [0 .. w -> Nat]
  BY <1>5, <1>9, Zenon
<1> QED BY <1>6, <1>7, <1>10, Zenon DEF Loads

\* load_le reads what store_le wrote.
LEMMA LoadStored ==
    ASSUME NEW w \in 1 .. 8, NEW v \in U(w), NEW o \in Nat, NEW s,
           \A i \in 1 .. w : s[o + i] = store_le(v, w)[i]
    PROVE  load_le(s, o, w) = v
<1>1. v \in Nat /\ v < Power[w]
  BY PowerIs, SMTT(30) DEF U, Positive
<1>2. \A i \in 1 .. w : i \in 1 .. 8 /\ i - 1 \in 0 .. 8 /\ i - 1 \in 0 .. w
  BY SMTT(30)
<1>3. \A i \in 1 .. w : s[o + i] = (v \div Power[i - 1]) % Radix
  BY <1>2, Zenon DEF store_le
<1>4. \A i \in 0 .. 8 : Power[i] \in Positive
  BY PowerIs, ZenonT(30)
<1>5. Radix \in Positive
  BY RadixIs, SMTT(30) DEF Positive
<1>6. \A i \in 1 .. w : s[o + i] \in Nat
  BY <1>1, <1>2, <1>3, <1>4, <1>5, Divided, Zenon
<1>7. PICK g : Loads(g, s, o, w)
  BY <1>6, LoadTrace, ZenonT(30)
<1> DEFINE S == {i \in 0 .. w : g[i] = v % Power[i]}
<1>8. 0 \in S
  <2>1. v % 1 = 0
    BY <1>1, SMTT(30)
  <2> QED BY <1>7, <2>1, PowerIs, SMTT(30) DEF Loads
<1>9. ASSUME NEW i \in 1 .. w, i - 1 \in S PROVE i \in S
  <2>1. g[i] = (v % Power[i - 1]) + ((v \div Power[i - 1]) % Radix) * Power[i - 1]
    BY <1>3, <1>7, <1>9, Zenon DEF Loads
  <2>2. v % (Radix * Power[i - 1]) = g[i]
    BY <1>1, <1>2, <1>4, <1>5, <2>1, NextDigit, ZenonT(30)
  <2>3. i \in 0 .. w /\ Power[i] = Radix * Power[i - 1]
    BY <1>2, PowerIs, SMTT(30)
  <2> QED BY <2>2, <2>3, ZenonT(30)
<1>10. \A i \in 0 .. w : i \in S
  <2>1. w \in Nat /\ \A i \in 1 .. w : i - 1 \in S => i \in S
    BY <1>9, SMTT(30)
  <2> HIDE DEF S
  <2> QED BY <1>8, <2>1, Upto, ZenonT(30)
<1>11. load_le(s, o, w) = v % Power[w]
  <2>1. w \in 0 .. w
    BY SMTT(30)
  <2> QED BY <1>7, <1>10, <2>1, ZenonT(30) DEF Loads
<1>12. v % Power[w] = v
  <2>1. PICK M \in Nat : M = Power[w] /\ M > 0
    BY <1>2, <1>4, SMTT(30) DEF Positive
  <2>2. (M * 0 + v) % M = v
    BY <1>1, <2>1, Remainder, SMTT(30)
  <2>3. M * 0 + v = v
    BY <1>1, <2>1, SMTT(30)
  <2> QED BY <2>1, <2>2, <2>3, Zenon
<1> QED BY <1>11, <1>12, Zenon

\* Bytes are the digits of what is loaded from them.
Bytes(s, o, w) == \A i \in 1 .. w : s[o + i] \in Byte

LEMMA LoadBelow ==
    ASSUME NEW w \in 1 .. 8, NEW o \in Nat, NEW s, Bytes(s, o, w),
           NEW g, Loads(g, s, o, w)
    PROVE  \A i \in 0 .. w : g[i] \in Nat /\ g[i] < Power[i]
<1> DEFINE S == {i \in 0 .. w : g[i] \in Nat /\ g[i] < Power[i]}
<1>1. 0 \in S
  BY PowerIs, SMTT(30) DEF Loads
<1>2. ASSUME NEW i \in 1 .. w, i - 1 \in S PROVE i \in S
  <2>1. i \in 0 .. w /\ i \in 1 .. 8 /\ i - 1 \in 0 .. 8
    OBVIOUS
  <2>2. PICK M \in Nat, x \in Nat, b \in Nat :
           /\ M = Power[i - 1] /\ x = g[i - 1] /\ b = s[o + i]
           /\ x < M /\ b <= Radix - 1
    <3>1. Power[i - 1] \in Nat
      BY <2>1, PowerIs, Zenon DEF Positive
    <3>2. s[o + i] \in Nat /\ s[o + i] <= Radix - 1
      BY RadixIs, SMTT(30) DEF Bytes, Byte
    <3>3. g[i - 1] \in Nat /\ g[i - 1] < Power[i - 1]
      BY <1>2, Zenon
    <3> QED BY <3>1, <3>2, <3>3, Zenon
  <2>3. g[i] = x + b * M /\ Power[i] = Radix * M
    BY <2>1, <2>2, PowerIs, Zenon DEF Loads
  <2>4. b * M <= (Radix - 1) * M
    BY <2>2, RadixIs, Z3
  <2>5. (Radix - 1) * M = Radix * M - M /\ b * M \in Nat /\ Radix * M \in Nat
    BY RadixIs, Z3
  <2>6. x + b * M \in Nat /\ x + b * M < Radix * M
    BY <2>2, <2>4, <2>5, RadixIs, Z3
  <2> QED BY <2>1, <2>3, <2>6, Zenon
<1>3. \A i \in 0 .. w : i \in S
  <2>1. w \in Nat /\ \A i \in 1 .. w : i - 1 \in S => i \in S
    BY <1>2, SMTT(30)
  <2> HIDE DEF S
  <2> QED BY <1>1, <2>1, Upto, ZenonT(30)
<1> QED BY <1>3, Zenon

SameBytes(s, o, t, q, w) == \A i \in 1 .. w : s[o + i] = t[q + i]

LEMMA LoadDetermines ==
    ASSUME NEW w \in 1 .. 8, NEW o \in Nat, NEW q \in Nat, NEW s, NEW t,
           Bytes(s, o, w), Bytes(t, q, w),
           load_le(s, o, w) = load_le(t, q, w)
    PROVE  SameBytes(s, o, t, q, w)
<1>1. \A i \in 1 .. w : s[o + i] \in Nat /\ t[q + i] \in Nat
  BY RadixIs DEF Bytes, Byte
<1>2. PICK g : Loads(g, s, o, w)
  BY <1>1, LoadTrace, Zenon
<1>3. PICK h : Loads(h, t, q, w)
  BY <1>1, LoadTrace, Zenon
<1>4. /\ \A i \in 0 .. w : g[i] \in Nat /\ g[i] < Power[i]
      /\ \A i \in 0 .. w : h[i] \in Nat /\ h[i] < Power[i]
  BY <1>2, <1>3, LoadBelow, ZenonT(30)
\* A step from the top down.
<1>5. ASSUME NEW i \in 1 .. w, g[i] = h[i]
      PROVE  g[i - 1] = h[i - 1] /\ s[o + i] = t[q + i]
  <2>1. i - 1 \in 0 .. 8 /\ i - 1 \in 0 .. w
    OBVIOUS
  <2>2. PICK M \in Positive, x \in Nat, y \in Nat, b \in Nat, c \in Nat :
           /\ M = Power[i - 1] /\ x = g[i - 1] /\ y = h[i - 1]
           /\ b = s[o + i] /\ c = t[q + i] /\ x < M /\ y < M
    BY <1>1, <1>4, <2>1, PowerIs, ZenonT(30)
  <2>3. x + b * M = y + c * M
    BY <1>2, <1>3, <1>5, <2>2, Zenon DEF Loads
  <2>4. M * b + x = M * c + y
    <3>1. M * b = b * M /\ M * c = c * M /\ M * b \in Nat /\ M * c \in Nat
      BY Z3 DEF Positive
    <3> QED BY <2>3, <3>1, SMTT(30)
  <2>5. b = c /\ x = y
    <3>1. Divides(M, M * b + x, b, x) /\ Divides(M, M * b + x, c, y)
      BY <2>2, <2>4, ZenonT(30) DEF Divides
    <3> QED BY <3>1, SameDivision, Zenon
  <2> QED BY <2>2, <2>5, Zenon
<1> DEFINE S == {y \in 0 .. w : g[w - y] = h[w - y]}
<1>6. 0 \in S
  <2>1. w - 0 = w /\ 0 \in 0 .. w
    BY SMTT(30)
  <2> QED BY <1>2, <1>3, <2>1, Zenon DEF Loads
<1>7. ASSUME NEW y \in 1 .. w, y - 1 \in S PROVE y \in S
  <2>1. PICK i \in 1 .. w : i = w - (y - 1) /\ i - 1 = w - y
    OBVIOUS
  <2> QED BY <1>5, <1>7, <2>1, SMTT(30)
<1>8. \A y \in 0 .. w : y \in S
  <2>1. w \in Nat /\ \A y \in 1 .. w : y - 1 \in S => y \in S
    BY <1>7, SMTT(30)
  <2> HIDE DEF S
  <2> QED BY <1>6, <2>1, Upto, ZenonT(30)
<1>9. ASSUME NEW i \in 1 .. w PROVE g[i] = h[i]
  <2>1. w - i \in 0 .. w /\ w - (w - i) = i
    BY SMTT(30)
  <2> QED BY <1>8, <2>1, Zenon
<1> QED BY <1>5, <1>9, Zenon DEF SameBytes

LEMMA StoredType ==
    ASSUME NEW w \in 1 .. 8, NEW v \in Nat
    PROVE  /\ store_le(v, w) \in Seq(Byte) /\ Len(store_le(v, w)) = w
           /\ \A i \in 1 .. w : store_le(v, w)[i] \in Byte
<1>1. \A i \in 1 .. w : (v \div Power[i - 1]) % Radix \in Byte
  <2>1. \A i \in 1 .. w : Power[i - 1] \in Positive
    BY PowerIs, SMTT(30)
  <2>2. Radix \in Positive
    BY RadixIs, SMTT(30) DEF Positive
  <2>3. \A i \in 1 .. w : LET b == (v \div Power[i - 1]) % Radix IN b \in Nat /\ b < Radix
    BY <2>1, <2>2, Divided, Zenon
  <2> QED BY <2>3, RadixIs, SMTT(30) DEF Byte
<1>2. store_le(v, w) \in [1 .. w -> Byte]
  BY <1>1, Zenon DEF store_le
<1> QED BY <1>2, SMTT(30)

\* store_le writes what load_le read.
LEMMA StoredLoad ==
    ASSUME NEW w \in 1 .. 8, NEW o \in Nat, NEW s, Bytes(s, o, w)
    PROVE  /\ load_le(s, o, w) \in U(w)
           /\ \A i \in 1 .. w : s[o + i] = store_le(load_le(s, o, w), w)[i]
<1> DEFINE v == load_le(s, o, w)
<1>1. v \in Nat /\ v < Power[w] /\ v \in U(w)
  <2>1. \A i \in 1 .. w : s[o + i] \in Nat
    BY RadixIs, SMTT(30) DEF Bytes, Byte
  <2>2. PICK g : Loads(g, s, o, w)
    BY <2>1, LoadTrace, Zenon
  <2>3. w \in 0 .. w
    OBVIOUS
  <2>4. g[w] \in Nat /\ g[w] < Power[w] /\ g[w] = v
    BY <2>2, <2>3, LoadBelow, ZenonT(30) DEF Loads
  <2> QED BY <2>4, PowerIs, SMTT(30) DEF U, Positive
<1> HIDE DEF v
<1> DEFINE t == store_le(v, w)
<1>2. PICK z \in Nat : \A i \in 1 .. w : t[z + i] = t[i]
  <2>1. 0 \in Nat /\ \A i \in 1 .. w : t[0 + i] = t[i]
    OBVIOUS
  <2> QED BY <2>1, Zenon
<1>3. load_le(t, z, w) = v
  BY <1>1, <1>2, LoadStored, Zenon
<1>4. Bytes(t, z, w)
  BY <1>1, <1>2, StoredType, Zenon DEF Bytes
<1>5. load_le(s, o, w) = load_le(t, z, w)
  BY <1>3, Zenon DEF v
<1> HIDE DEF t
<1>6. SameBytes(s, o, t, z, w)
  BY <1>4, <1>5, LoadDetermines, Zenon
<1> QED BY <1>1, <1>2, <1>6, ZenonT(30) DEF SameBytes, v, t

----------------------------------------------------------------------------
(* Fields                                                                  *)

\* The n bytes t stand behind the first o bytes of p.
Stands(p, o, t, n) ==
    /\ p \in Seq(Byte) /\ t \in Seq(Byte) /\ Len(t) = n
    /\ o \in Nat /\ o + n <= Len(p)
    /\ \A i \in 1 .. n : p[o + i] = t[i]

\* What stands in s still does in p.
Extends(p, s) == \A o, t, n : Stands(s, o, t, n) => Stands(p, o, t, n)

Record(s, n) == s \in Seq(Byte) /\ Len(s) = n

\* p is s, of m bytes, and t behind it.
Appended(p, s, m, t, n) == Stands(p, m, t, n) /\ Extends(p, s)

LEMMA FieldAppended ==
    ASSUME NEW s, NEW t, NEW m, NEW n, NEW l, Record(s, m), Record(t, n), l = m + n
    PROVE  Record(s \o t, l) /\ Appended(s \o t, s, m, t, n)
<1>1. s \in Seq(Byte) /\ t \in Seq(Byte) /\ Len(s) = m /\ Len(t) = n /\ m \in Nat /\ n \in Nat
  BY SMTT(30) DEF Record
<1>0. /\ s \o t \in Seq(Byte) /\ Len(s \o t) = l
      /\ \A i \in 1 .. m : (s \o t)[i] = s[i]
      /\ \A i \in 1 .. n : (s \o t)[m + i] = t[i]
  BY <1>1, SMTT(30)
<1>2. Stands(s \o t, m, t, n)
  BY <1>0, <1>1, SMTT(30) DEF Stands
<1>3. ASSUME NEW o, NEW u, NEW y, Stands(s, o, u, y) PROVE Stands(s \o t, o, u, y)
  <2>1. y \in Nat /\ o \in Nat /\ o + y <= m
    BY <1>1, <1>3, SMTT(30) DEF Stands
  <2>2. \A i \in 1 .. y : o + i \in 1 .. m
    BY <1>1, <2>1, SMTT(30)
  <2>3. \A i \in 1 .. y : (s \o t)[o + i] = u[i]
    BY <1>0, <1>3, <2>2, Zenon DEF Stands
  <2>4. o + y <= l
    BY <1>1, <2>1, SMTT(30)
  <2> QED BY <1>0, <1>3, <2>3, <2>4, Zenon DEF Stands
<1> QED BY <1>0, <1>2, <1>3, Zenon DEF Extends, Appended, Record

LEMMA WholeStands ==
    ASSUME NEW s \in Seq(Byte), NEW n, Len(s) = n
    PROVE  Stands(s, 0, s, n)
BY DEF Stands

LEMMA FieldRead ==
    ASSUME NEW w \in 1 .. 8, NEW v \in U(w), NEW o, NEW p, Stands(p, o, store_le(v, w), w)
    PROVE  load_le(p, o, w) = v
BY LoadStored, Zenon DEF Stands

\* A field that holds a value.
LEMMA FieldHolds ==
    ASSUME NEW w \in 1 .. 8, NEW p \in Seq(Byte), NEW o \in Nat, o + w <= Len(p)
    PROVE  /\ load_le(p, o, w) \in U(w)
           /\ Stands(p, o, store_le(load_le(p, o, w), w), w)
<1>1. Bytes(p, o, w)
  BY DEF Bytes
<1>2. /\ load_le(p, o, w) \in U(w)
      /\ \A i \in 1 .. w : p[o + i] = store_le(load_le(p, o, w), w)[i]
  BY <1>1, StoredLoad, ZenonT(30)
<1>3. load_le(p, o, w) \in Nat
  BY <1>2, SMTT(30) DEF U
<1>4. /\ store_le(load_le(p, o, w), w) \in Seq(Byte)
      /\ Len(store_le(load_le(p, o, w), w)) = w
  BY <1>3, StoredType, ZenonT(30)
<1> QED BY <1>2, <1>4, Zenon DEF Stands

\* From a to b is the n bytes from offset o on.
Spans(a, b, o, n) == a = o + 1 /\ b = o + n

LEMMA ByteList ==
    ASSUME NEW s \in Seq(Byte), NEW n, Len(s) = n
    PROVE  s \in [1 .. n -> Byte]
OBVIOUS

LEMMA SameLists ==
    ASSUME NEW n, NEW s \in [1 .. n -> Byte], NEW t \in [1 .. n -> Byte],
           \A y \in 1 .. n : s[y] = t[y]
    PROVE  s = t
<1>1. s = [y \in 1 .. n |-> s[y]] /\ t = [y \in 1 .. n |-> t[y]]
  BY Zenon
<1>2. [y \in 1 .. n |-> s[y]] = [y \in 1 .. n |-> t[y]]
  BY Zenon
<1> QED BY <1>1, <1>2, Zenon

LEMMA FieldCut ==
    ASSUME NEW p, NEW o, NEW t, NEW n, NEW a, NEW b, Stands(p, o, t, n), Spans(a, b, o, n)
    PROVE  SubSeq(p, a, b) = t
<1>1. /\ p \in Seq(Byte) /\ t \in Seq(Byte) /\ Len(t) = n /\ o \in Nat /\ n \in Nat
      /\ Len(p) \in Nat /\ o + n <= Len(p) /\ \A i \in 1 .. n : p[o + i] = t[i]
  BY SMTT(30) DEF Stands
<1>2. a \in Nat /\ b \in Nat /\ (b - a) + 1 = n /\ \A i \in 1 .. n : (a + i) - 1 = o + i
  BY <1>1, SMTT(30) DEF Spans
<1>3. /\ SubSeq(p, a, b) \in Seq(Byte) /\ Len(SubSeq(p, a, b)) = n
      /\ \A i \in 1 .. n : SubSeq(p, a, b)[i] = p[(a + i) - 1]
  <2>1. Len(SubSeq(p, a, b)) = n
    BY <1>1, <1>2, SMTT(30)
  <2>2. \A i \in 1 .. n : SubSeq(p, a, b)[i] = p[(a + i) - 1]
    BY <1>1, <1>2, SMTT(30)
  <2>3. SubSeq(p, a, b) \in Seq(Byte)
    BY <1>1, <1>2, SMTT(30) DEF Spans
  <2> QED BY <2>1, <2>2, <2>3, ZenonT(30)
<1>4. SubSeq(p, a, b) \in [1 .. n -> Byte] /\ t \in [1 .. n -> Byte]
  BY <1>1, <1>3, ByteList, Zenon
<1>5. \A i \in 1 .. n : SubSeq(p, a, b)[i] = t[i]
  BY <1>1, <1>2, <1>3, Zenon
<1> QED BY <1>4, <1>5, SameLists, Zenon

LEMMA ListRecord ==
    ASSUME NEW n \in Nat, NEW f \in [1 .. n -> Byte]
    PROVE  Record(f, n)
BY SMTT(30) DEF Record

Agree(p, q, o, n) == \A j \in o + 1 .. o + n : p[j] = q[j]

LEMMA FieldsAgree ==
    ASSUME NEW p, NEW q, NEW t, NEW o, NEW n, Stands(p, o, t, n), Stands(q, o, t, n)
    PROVE  Agree(p, q, o, n)
<1>0. o \in Nat /\ n \in Nat
  BY SMTT(30) DEF Stands
<1>1. ASSUME NEW j \in o + 1 .. o + n PROVE p[j] = q[j]
  <2>1. PICK i \in 1 .. n : j = o + i
    <3>1. j - o \in 1 .. n /\ j = o + (j - o)
      BY <1>0, SMTT(30)
    <3> QED BY <3>1, Zenon
  <2> QED BY <2>1, Zenon DEF Stands
<1> QED BY <1>1, Zenon DEF Agree

LEMMA ValueTypes ==
    /\ \A w \in 1 .. 8 : U(w) \subseteq Nat
    /\ U(1) = Byte
    /\ Version \in U(1) /\ HeaderSize \in U(1) /\ RecordSize \in U(2)
    /\ MaxCount \in U(4) /\ \A c : PayloadLen(c) = (c * RecordSize) % Power[4]
<1>1. \A w \in 1 .. 8 : U(w) \subseteq Nat
  BY SMTT(30) DEF U
<1>2. Power[1] = Radix
  <2>1. Power[1] = Radix * Power[0] /\ Power[0] = 1
    BY PowerIs, SMTT(30)
  <2> QED BY <2>1, RadixIs, SMTT(30)
<1>3. U(1) = Byte
  BY <1>2, Zenon DEF U, Byte
<1> QED BY <1>1, <1>3, WireAssumption, Zenon DEF PayloadLen

LEMMA PayloadType == \A c \in Nat : PayloadLen(c) \in U(4) /\ PayloadLen(c) \in Nat
<1>1. ASSUME NEW c \in Nat PROVE PayloadLen(c) \in U(4) /\ PayloadLen(c) \in Nat
  <2>1. RecordSize \in Nat
    BY ValueTypes, SMTT(30)
  <2>2. c * RecordSize \in Nat
    BY <2>1, Z3
  <2>3. Power[4] \in Positive
    BY PowerIs, SMTT(30)
  <2>4. PayloadLen(c) \in Nat /\ PayloadLen(c) < Power[4]
    BY <2>2, <2>3, Divided, Zenon DEF PayloadLen
  <2> QED BY <2>3, <2>4, SMTT(30) DEF U, Positive
<1> QED BY <1>1, Zenon

\* A batch that may be sent has a length that fits.
LEMMA PayloadExact == \A c \in 0 .. MaxCount : PayloadLen(c) = c * RecordSize
<1>1. RecordSize \in Nat /\ MaxCount \in Nat /\ MaxCount * RecordSize < Power[4]
      /\ Power[4] \in Nat /\ Power[4] > 0
  <2>1. Power[4] \in Positive
    BY PowerIs, SMTT(30)
  <2>2. MaxCount * RecordSize \in U(4)
    BY WireAssumption, Zenon
  <2>3. RecordSize \in Nat /\ MaxCount \in Nat
    BY ValueTypes, SMTT(30)
  <2>4. MaxCount * RecordSize \in Nat
    BY <2>3, Z3
  <2> QED BY <2>1, <2>2, <2>3, <2>4, SMTT(30) DEF U, Positive
<1>2. ASSUME NEW c \in 0 .. MaxCount PROVE PayloadLen(c) = c * RecordSize
  <2>1. c * RecordSize <= MaxCount * RecordSize /\ c * RecordSize \in Nat
        /\ MaxCount * RecordSize \in Nat
    BY <1>1, Z3
  <2>2. PICK M \in Nat, x \in Nat : M = Power[4] /\ x = c * RecordSize /\ M > 0 /\ x < M
    BY <1>1, <2>1, SMTT(30)
  <2>3. (M * 0 + x) % M = x
    BY <2>2, Remainder, SMTT(30)
  <2>4. M * 0 + x = x
    OBVIOUS
  <2> QED BY <2>2, <2>3, <2>4, Zenon DEF PayloadLen
<1> QED BY <1>2, Zenon

----------------------------------------------------------------------------
(* The header                                                              *)

\* The fields of a header that announces c records.
IsHeader(p, c) ==
    /\ Record(p, 16)
    /\ Stands(p, 0, Magic, 4)
    /\ Stands(p, 4, store_le(Version, 1), 1) /\ Stands(p, 5, store_le(HeaderSize, 1), 1)
    /\ Stands(p, 6, store_le(RecordSize, 2), 2) /\ Stands(p, 8, store_le(c, 4), 4)
    /\ Stands(p, 12, store_le(PayloadLen(c), 4), 4)

LEMMA HeaderEncoded == ASSUME NEW c \in Nat PROVE IsHeader(encode_header(c), c)
<1> DEFINE f1 == store_le(Version, 1)
           f2 == store_le(HeaderSize, 1)
           f3 == store_le(RecordSize, 2)
           f4 == store_le(c, 4)
           f5 == store_le(PayloadLen(c), 4)
           p1 == Magic \o f1
           p2 == p1 \o f2
           p3 == p2 \o f3
           p4 == p3 \o f4
           p5 == p4 \o f5
<1>1. encode_header(c) = p5
  BY Zenon DEF encode_header
<1>2. Record(Magic, 4)
  <2>1. Magic \in [1 .. 4 -> Byte]
    BY WireAssumption, Zenon
  <2>2. 4 \in Nat
    BY Zenon
  <2> QED BY <2>1, <2>2, ListRecord, Zenon
<1>3. Record(f1, 1) /\ Record(f2, 1) /\ Record(f3, 2) /\ Record(f4, 4) /\ Record(f5, 4)
  <2>1. 1 \in 1 .. 8 /\ 2 \in 1 .. 8 /\ 4 \in 1 .. 8
    BY SMTT(30)
  <2>2. Version \in Nat /\ HeaderSize \in Nat /\ RecordSize \in Nat /\ PayloadLen(c) \in Nat
    BY <2>1, ValueTypes, PayloadType, Zenon
  <2> QED BY <2>1, <2>2, StoredType, Zenon DEF Record
<1> HIDE DEF f1, f2, f3, f4, f5
<1>4. 5 = 4 + 1 /\ 6 = 5 + 1 /\ 8 = 6 + 2 /\ 12 = 8 + 4 /\ 16 = 12 + 4
  OBVIOUS
<1>5. Record(p1, 5) /\ Appended(p1, Magic, 4, f1, 1)
  BY <1>2, <1>3, <1>4, FieldAppended, Zenon
<1> HIDE DEF p1
<1>6. Record(p2, 6) /\ Appended(p2, p1, 5, f2, 1)
  BY <1>3, <1>4, <1>5, FieldAppended, Zenon
<1> HIDE DEF p2
<1>7. Record(p3, 8) /\ Appended(p3, p2, 6, f3, 2)
  BY <1>3, <1>4, <1>6, FieldAppended, Zenon
<1> HIDE DEF p3
<1>8. Record(p4, 12) /\ Appended(p4, p3, 8, f4, 4)
  BY <1>3, <1>4, <1>7, FieldAppended, Zenon
<1> HIDE DEF p4
<1>9. Record(p5, 16) /\ Appended(p5, p4, 12, f5, 4)
  BY <1>3, <1>4, <1>8, FieldAppended, Zenon
<1> HIDE DEF p5
<1>10. Stands(p5, 8, f4, 4) /\ Stands(p5, 12, f5, 4)
  BY <1>8, <1>9, Zenon DEF Appended, Extends
<1>11. Stands(p5, 6, f3, 2)
  BY <1>7, <1>8, <1>9, Zenon DEF Appended, Extends
<1>12. Stands(p5, 5, f2, 1)
  BY <1>6, <1>7, <1>8, <1>9, Zenon DEF Appended, Extends
<1>13. Stands(p5, 4, f1, 1)
  BY <1>5, <1>6, <1>7, <1>8, <1>9, Zenon DEF Appended, Extends
<1>14. Stands(p5, 0, Magic, 4)
  <2>1. Stands(Magic, 0, Magic, 4)
    BY <1>2, WholeStands, Zenon DEF Record
  <2> QED BY <2>1, <1>5, <1>6, <1>7, <1>8, <1>9, ZenonT(30) DEF Appended, Extends
<1> QED BY <1>1, <1>9, <1>10, <1>11, <1>12, <1>13, <1>14, Zenon
        DEF IsHeader, f1, f2, f3, f4, f5

\* There is one header for a count.
LEMMA HeaderUnique ==
    ASSUME NEW c, NEW p, NEW q, IsHeader(p, c), IsHeader(q, c)
    PROVE  p = q
<1>1. /\ Agree(p, q, 0, 4) /\ Agree(p, q, 4, 1) /\ Agree(p, q, 5, 1)
      /\ Agree(p, q, 6, 2) /\ Agree(p, q, 8, 4) /\ Agree(p, q, 12, 4)
  BY FieldsAgree, Zenon DEF IsHeader
<1>2. \A j \in 1 .. 16 : p[j] = q[j]
  BY <1>1, SMTT(30) DEF Agree
<1>3. p \in Seq(Byte) /\ q \in Seq(Byte) /\ Len(p) = 16 /\ Len(q) = 16
  BY Zenon DEF IsHeader, Record
<1> QED BY <1>2, <1>3, SMTT(30)

\* What load_le finds in a header.
LEMMA HeaderRead ==
    ASSUME NEW c \in U(4), NEW p, IsHeader(p, c)
    PROVE  /\ SubSeq(p, 1, 4) = Magic /\ load_le(p, 4, 1) = Version
           /\ load_le(p, 5, 1) = HeaderSize /\ load_le(p, 6, 2) = RecordSize
           /\ load_le(p, 8, 4) = c /\ load_le(p, 12, 4) = PayloadLen(c)
<1>1. 1 \in 1 .. 8 /\ 2 \in 1 .. 8 /\ 4 \in 1 .. 8
  OBVIOUS
<1>2. SubSeq(p, 1, 4) = Magic
  <2>1. Spans(1, 4, 0, 4)
    BY SMTT(30) DEF Spans
  <2> QED BY <2>1, FieldCut, Zenon DEF IsHeader
<1>3. PayloadLen(c) \in U(4)
  BY <1>1, ValueTypes, PayloadType, Zenon
<1>4. load_le(p, 4, 1) = Version /\ load_le(p, 5, 1) = HeaderSize
  BY <1>1, ValueTypes, FieldRead, Zenon DEF IsHeader
<1>5. load_le(p, 6, 2) = RecordSize
  BY <1>1, ValueTypes, FieldRead, Zenon DEF IsHeader
<1>6. load_le(p, 8, 4) = c
  BY <1>1, FieldRead, Zenon DEF IsHeader
<1>7. load_le(p, 12, 4) = PayloadLen(c)
  <2>1. Stands(p, 12, store_le(PayloadLen(c), 4), 4)
    BY Zenon DEF IsHeader
  <2> QED BY <1>1, <1>3, <2>1, FieldRead, Zenon
<1> QED BY <1>2, <1>4, <1>5, <1>6, <1>7, Zenon

----------------------------------------------------------------------------
(* The decoder's tests                                                     *)

Rejects(tests, n) == \E i \in 1 .. n : tests[i][1]

LEMMA VerdictIs ==
    ASSUME NEW n \in Nat, NEW tests, DOMAIN tests = 1 .. n,
           \A i \in 1 .. n : tests[i][2] # "ok"
    PROVE  Verdict(tests) = "ok" <=> ~Rejects(tests, n)
<1> DEFINE bad == {i \in DOMAIN tests : tests[i][1]}
           first == CHOOSE i \in bad : \A j \in bad : i <= j
<1>1. Verdict(tests) = IF bad = {} THEN "ok" ELSE tests[first][2]
  BY Zenon DEF Verdict
<1>2. bad = {} <=> ~Rejects(tests, n)
  BY Zenon DEF Rejects
<1>3. ASSUME bad # {} PROVE tests[first][2] # "ok"
  <2>1. bad \in SUBSET Nat /\ bad \subseteq 1 .. n
    <3>1. 1 .. n \subseteq Nat
      BY SMTT(30)
    <3> QED BY <3>1, Zenon
  <2> HIDE DEF bad
  <2>2. \E i \in bad : \A j \in bad : i <= j
    BY <1>3, <2>1, Least, Zenon
  <2>3. first \in bad
    BY <2>2, Zenon
  <2> QED BY <2>1, <2>3, Zenon
<1> HIDE DEF bad, first
<1> QED BY <1>1, <1>2, <1>3, Zenon


\* A header that passes the decoder's tests.
Legal(p) ==
    /\ SubSeq(p, 1, 4) = Magic /\ load_le(p, 4, 1) = Version
    /\ load_le(p, 5, 1) = HeaderSize /\ load_le(p, 6, 2) = RecordSize
    /\ ~CountTooLarge(load_le(p, 8, 4))
    /\ load_le(p, 12, 4) = PayloadLen(load_le(p, 8, 4))

LEMMA HeaderVerdict ==
    ASSUME NEW p
    PROVE  /\ decode_header(p).error = "ok" <=> Legal(p)
           /\ decode_header(p).error = "ok" =>
                 /\ decode_header(p).count = load_le(p, 8, 4)
                 /\ decode_header(p).payload_len = load_le(p, 12, 4)
<1> DEFINE count == load_le(p, 8, 4)
           a1 == SubSeq(p, 1, 4) # Magic
           a2 == load_le(p, 4, 1) # Version
           a3 == load_le(p, 5, 1) # HeaderSize
           a4 == load_le(p, 6, 2) # RecordSize
           a5 == CountTooLarge(count)
           a6 == load_le(p, 12, 4) # PayloadLen(count)
           v == Verdict(HeaderTests(p))
<1>1. HeaderTests(p) = << <<a1, "bad_magic">>, <<a2, "unsupported_version">>,
                          <<a3, "bad_header_len">>, <<a4, "bad_record_len">>,
                          <<a5, "count_too_large">>, <<a6, "inconsistent_length">> >>
  BY Zenon DEF HeaderTests
<1>2. ~a1 /\ ~a2 /\ ~a3 /\ ~a4 /\ ~a5 /\ ~a6 <=> Legal(p)
  BY ZenonT(30) DEF Legal
<1> DEFINE ts == << <<a1, "bad_magic">>, <<a2, "unsupported_version">>,
                    <<a3, "bad_header_len">>, <<a4, "bad_record_len">>,
                    <<a5, "count_too_large">>, <<a6, "inconsistent_length">> >>
<1> HIDE DEF a1, a2, a3, a4, a5, a6
<1>3. /\ 6 \in Nat /\ DOMAIN ts = 1 .. 6
      /\ ts[1][1] = a1 /\ ts[2][1] = a2 /\ ts[3][1] = a3
      /\ ts[4][1] = a4 /\ ts[5][1] = a5 /\ ts[6][1] = a6
  BY SMTT(30)
<1>4. /\ ts[1][2] # "ok" /\ ts[2][2] # "ok" /\ ts[3][2] # "ok"
      /\ ts[4][2] # "ok" /\ ts[5][2] # "ok" /\ ts[6][2] # "ok"
  BY Zenon
<1> HIDE DEF ts
<1>5. v = "ok" <=> ~a1 /\ ~a2 /\ ~a3 /\ ~a4 /\ ~a5 /\ ~a6
  <2>1. /\ 1 \in 1 .. 6 /\ 2 \in 1 .. 6 /\ 3 \in 1 .. 6
        /\ 4 \in 1 .. 6 /\ 5 \in 1 .. 6 /\ 6 \in 1 .. 6
        /\ \A i \in 1 .. 6 : i = 1 \/ i = 2 \/ i = 3 \/ i = 4 \/ i = 5 \/ i = 6
    OBVIOUS
  <2>2. \A i \in 1 .. 6 : ts[i][2] # "ok"
    BY <1>4, <2>1, Zenon
  <2>3. Verdict(ts) = "ok" <=> ~Rejects(ts, 6)
    BY <1>3, <2>2, VerdictIs, Zenon
  <2>4. Rejects(ts, 6) <=> a1 \/ a2 \/ a3 \/ a4 \/ a5 \/ a6
    BY <1>3, <2>1, Zenon DEF Rejects
  <2> QED BY <1>1, <2>3, <2>4, Zenon DEF ts
<1>6. decode_header(p) = [error |-> v, count |-> IF v = "ok" THEN count ELSE 0,
                          payload_len |-> IF v = "ok" THEN load_le(p, 12, 4) ELSE 0]
  BY Zenon DEF decode_header
<1> HIDE DEF v, count
<1>7. /\ decode_header(p).error = v
      /\ v = "ok" => /\ decode_header(p).count = count
                     /\ decode_header(p).payload_len = load_le(p, 12, 4)
  BY <1>6, SMTT(30)
<1> QED BY <1>2, <1>5, <1>7, Zenon DEF count

\* A legal header is the header of the count it announces.
LEMMA LegalHeader ==
    ASSUME NEW p, Record(p, 16), Legal(p)
    PROVE  load_le(p, 8, 4) \in 0 .. MaxCount /\ IsHeader(p, load_le(p, 8, 4))
<1> DEFINE c == load_le(p, 8, 4)
<1>1. 1 \in 1 .. 8 /\ 2 \in 1 .. 8 /\ 4 \in 1 .. 8
  BY SMTT(30)
<1>2. /\ p \in Seq(Byte) /\ 4 \in Nat /\ 5 \in Nat /\ 6 \in Nat /\ 8 \in Nat /\ 12 \in Nat
      /\ 4 + 1 <= Len(p) /\ 5 + 1 <= Len(p) /\ 6 + 2 <= Len(p) /\ 8 + 4 <= Len(p)
      /\ 12 + 4 <= Len(p)
  BY DEF Record
<1>3. /\ Stands(p, 4, store_le(Version, 1), 1) /\ Stands(p, 5, store_le(HeaderSize, 1), 1)
      /\ Stands(p, 6, store_le(RecordSize, 2), 2)
  <2>1. Stands(p, 4, store_le(load_le(p, 4, 1), 1), 1)
    BY <1>1, <1>2, FieldHolds, Zenon
  <2>2. Stands(p, 5, store_le(load_le(p, 5, 1), 1), 1)
    BY <1>1, <1>2, FieldHolds, Zenon
  <2>3. Stands(p, 6, store_le(load_le(p, 6, 2), 2), 2)
    BY <1>1, <1>2, FieldHolds, Zenon
  <2> QED BY <2>1, <2>2, <2>3, Zenon DEF Legal
<1>4. c \in U(4) /\ Stands(p, 8, store_le(c, 4), 4)
  BY <1>1, <1>2, FieldHolds, Zenon
<1>5. Stands(p, 12, store_le(PayloadLen(c), 4), 4)
  <2>1. Stands(p, 12, store_le(load_le(p, 12, 4), 4), 4)
    BY <1>1, <1>2, FieldHolds, ZenonT(30)
  <2> QED BY <2>1, Zenon DEF Legal
<1>6. Stands(p, 0, Magic, 4)
  <2>1. Magic \in [1 .. 4 -> Byte]
    BY WireAssumption, Zenon
  <2>2. Record(Magic, 4)
    BY <2>1, ListRecord, Zenon
  <2>3. SubSeq(p, 1, 4) = Magic /\ p \in Seq(Byte) /\ Len(p) = 16
    BY ZenonT(30) DEF Legal, Record
  <2>4. \A i \in 1 .. 4 : p[i] = Magic[i]
    BY <2>3, SMTT(30)
  <2> QED BY <2>2, <2>3, <2>4, SMTT(30) DEF Stands, Record
<1>7. c \in 0 .. MaxCount
  <2>1. c \in Nat /\ MaxCount \in Nat
    BY <1>1, <1>4, ValueTypes, Zenon
  <2>2. ~CountTooLarge(c)
    BY Zenon DEF Legal
  <2> HIDE DEF c
  <2> QED BY <2>1, <2>2, SMTT(30) DEF CountTooLarge
<1> QED BY <1>3, <1>4, <1>5, <1>6, <1>7, Zenon DEF IsHeader

\* The header of a count up to kMaxCount is legal.
LEMMA HeaderLegal ==
    ASSUME NEW c \in 0 .. MaxCount
    PROVE  Legal(encode_header(c)) /\ load_le(encode_header(c), 8, 4) = c
<1>1. MaxCount \in Nat /\ MaxCount < Power[4] /\ Power[4] \in Nat
  BY WireAssumption, PowerIs, SMTT(30) DEF U, Positive
<1>2. c \in Nat /\ c \in U(4) /\ ~CountTooLarge(c)
  BY <1>1, SMTT(30) DEF CountTooLarge, U
<1>3. IsHeader(encode_header(c), c)
  BY <1>2, HeaderEncoded, Zenon
<1> DEFINE p == encode_header(c)
<1> HIDE DEF p
<1>4. /\ SubSeq(p, 1, 4) = Magic /\ load_le(p, 4, 1) = Version
      /\ load_le(p, 5, 1) = HeaderSize /\ load_le(p, 6, 2) = RecordSize
      /\ load_le(p, 8, 4) = c /\ load_le(p, 12, 4) = PayloadLen(c)
  <2>1. IsHeader(p, c)
    BY <1>3, Zenon DEF p
  <2> QED BY <2>1, <1>2, HeaderRead, Zenon
<1>5. Legal(p) /\ load_le(p, 8, 4) = c
  BY <1>2, <1>4, Zenon DEF Legal
<1> QED BY <1>5, Zenon DEF p

\* The counts a header may have been encoded for.
From(p) == {c \in 0 .. MaxCount : encode_header(c) = p}

\* Of any sixteen bytes, decode_header accepts exactly those encode_header writes
\* for a count up to kMaxCount, and returns that count and the length of the
\* records without the 32-bit product having wrapped.
THEOREM HeaderExact ==
    ASSUME NEW p, Record(p, 16)
    PROVE  IF decode_header(p).error = "ok"
           THEN /\ From(p) = {decode_header(p).count}
                /\ decode_header(p).payload_len = decode_header(p).count * RecordSize
           ELSE From(p) = {}
<1>1. ASSUME NEW c \in From(p) PROVE Legal(p) /\ load_le(p, 8, 4) = c
  BY <1>1, HeaderLegal, Zenon DEF From
<1>2. CASE decode_header(p).error = "ok"
  <2> DEFINE c == load_le(p, 8, 4)
  <2>1. Legal(p) /\ decode_header(p).count = c /\ decode_header(p).payload_len = load_le(p, 12, 4)
    BY <1>2, HeaderVerdict, Zenon
  <2>2. c \in 0 .. MaxCount /\ IsHeader(p, c)
    BY <2>1, LegalHeader, Zenon
  <2>3. load_le(p, 12, 4) = c * RecordSize
    BY <2>1, <2>2, PayloadExact, Zenon DEF Legal
  <2>4. encode_header(c) = p
    <3>1. c \in Nat
      <4>1. 0 .. MaxCount \subseteq Nat
        OBVIOUS
      <4> QED BY <4>1, <2>2, Zenon
    <3>2. IsHeader(encode_header(c), c)
      BY <3>1, HeaderEncoded, Zenon
    <3> QED BY <3>2, <2>2, HeaderUnique, Zenon
  <2>5. c \in From(p)
    BY <2>2, <2>4, Zenon DEF From
  <2>6. From(p) = {c}
    BY <1>1, <2>5, Zenon
  <2> QED BY <1>2, <2>1, <2>3, <2>6, Zenon
<1>3. CASE decode_header(p).error # "ok"
  <2>1. ~Legal(p)
    BY <1>3, HeaderVerdict, Zenon
  <2>2. From(p) = {}
    BY <1>1, <2>1, Zenon
  <2> QED BY <1>3, <2>2, Zenon
<1> QED BY <1>2, <1>3, Zenon
----------------------------------------------------------------------------
(* The record of a frame                                                   *)

\* A frame whose fields fit their widths.
IsFrame(f) ==
    /\ f = [seq |-> f.seq, t_kernel_ns |-> f.t_kernel_ns, t_ingest_ns |-> f.t_ingest_ns,
            can_id |-> f.can_id, src_id |-> f.src_id, len |-> f.len, flags |-> f.flags,
            reserved |-> f.reserved, data |-> f.data]
    /\ f.seq \in U(8) /\ f.t_kernel_ns \in U(8) /\ f.t_ingest_ns \in U(8)
    /\ f.can_id \in U(4) /\ f.src_id \in U(1) /\ f.len \in U(1)
    /\ f.flags \in U(1) /\ f.reserved \in U(1) /\ Record(f.data, 8)

\* The fields of the record of a frame.
IsRecord(p, f) ==
    /\ Record(p, 40)
    /\ Stands(p, 0, store_le(f.seq, 8), 8) /\ Stands(p, 8, store_le(f.t_kernel_ns, 8), 8)
    /\ Stands(p, 16, store_le(f.t_ingest_ns, 8), 8) /\ Stands(p, 24, store_le(f.can_id, 4), 4)
    /\ Stands(p, 28, store_le(f.src_id, 1), 1) /\ Stands(p, 29, store_le(f.len, 1), 1)
    /\ Stands(p, 30, store_le(f.flags, 1), 1) /\ Stands(p, 31, store_le(f.reserved, 1), 1)
    /\ Stands(p, 32, f.data, 8)

LEMMA FrameEncoded == ASSUME NEW f, IsFrame(f) PROVE IsRecord(encode_frame(f), f)
<1> DEFINE f1 == store_le(f.seq, 8)
           f2 == store_le(f.t_kernel_ns, 8)
           f3 == store_le(f.t_ingest_ns, 8)
           f4 == store_le(f.can_id, 4)
           f5 == store_le(f.src_id, 1)
           f6 == store_le(f.len, 1)
           f7 == store_le(f.flags, 1)
           f8 == store_le(f.reserved, 1)
           f9 == f.data
           p2 == f1 \o f2
           p3 == p2 \o f3
           p4 == p3 \o f4
           p5 == p4 \o f5
           p6 == p5 \o f6
           p7 == p6 \o f7
           p8 == p7 \o f8
           p9 == p8 \o f9
<1>1. encode_frame(f) = p9
  BY Zenon DEF encode_frame
<1>2. /\ Record(f1, 8) /\ Record(f2, 8) /\ Record(f3, 8) /\ Record(f4, 4) /\ Record(f5, 1)
      /\ Record(f6, 1) /\ Record(f7, 1) /\ Record(f8, 1) /\ Record(f9, 8)
  <2>1. 1 \in 1 .. 8 /\ 4 \in 1 .. 8 /\ 8 \in 1 .. 8
    OBVIOUS
  <2>2. /\ f.seq \in Nat /\ f.t_kernel_ns \in Nat /\ f.t_ingest_ns \in Nat /\ f.can_id \in Nat
        /\ f.src_id \in Nat /\ f.len \in Nat /\ f.flags \in Nat /\ f.reserved \in Nat
    BY <2>1, ValueTypes, Zenon DEF IsFrame
  <2>3. Record(f1, 8)
    BY <2>1, <2>2, StoredType, Zenon DEF Record
  <2>4. Record(f2, 8)
    BY <2>1, <2>2, StoredType, Zenon DEF Record
  <2>5. Record(f3, 8)
    BY <2>1, <2>2, StoredType, Zenon DEF Record
  <2>6. Record(f4, 4)
    BY <2>1, <2>2, StoredType, Zenon DEF Record
  <2>7. Record(f5, 1)
    BY <2>1, <2>2, StoredType, Zenon DEF Record
  <2>8. Record(f6, 1)
    BY <2>1, <2>2, StoredType, Zenon DEF Record
  <2>9. Record(f7, 1)
    BY <2>1, <2>2, StoredType, Zenon DEF Record
  <2>10. Record(f8, 1)
    BY <2>1, <2>2, StoredType, Zenon DEF Record
  <2> QED BY <2>3, <2>4, <2>5, <2>6, <2>7, <2>8, <2>9, <2>10, ZenonT(30) DEF IsFrame
<1> HIDE DEF f1, f2, f3, f4, f5, f6, f7, f8, f9
<1>3. /\ 16 = 8 + 8 /\ 24 = 16 + 8 /\ 28 = 24 + 4 /\ 29 = 28 + 1 /\ 30 = 29 + 1
      /\ 31 = 30 + 1 /\ 32 = 31 + 1 /\ 40 = 32 + 8
  OBVIOUS
<1>4. Record(p2, 16) /\ Appended(p2, f1, 8, f2, 8)
  BY <1>2, <1>3, FieldAppended, Zenon
<1> HIDE DEF p2
<1>5. Record(p3, 24) /\ Appended(p3, p2, 16, f3, 8)
  BY <1>2, <1>3, <1>4, FieldAppended, Zenon
<1> HIDE DEF p3
<1>6. Record(p4, 28) /\ Appended(p4, p3, 24, f4, 4)
  BY <1>2, <1>3, <1>5, FieldAppended, Zenon
<1> HIDE DEF p4
<1>7. Record(p5, 29) /\ Appended(p5, p4, 28, f5, 1)
  BY <1>2, <1>3, <1>6, FieldAppended, Zenon
<1> HIDE DEF p5
<1>8. Record(p6, 30) /\ Appended(p6, p5, 29, f6, 1)
  BY <1>2, <1>3, <1>7, FieldAppended, Zenon
<1> HIDE DEF p6
<1>9. Record(p7, 31) /\ Appended(p7, p6, 30, f7, 1)
  BY <1>2, <1>3, <1>8, FieldAppended, Zenon
<1> HIDE DEF p7
<1>10. Record(p8, 32) /\ Appended(p8, p7, 31, f8, 1)
  BY <1>2, <1>3, <1>9, FieldAppended, Zenon
<1> HIDE DEF p8
<1>11. Record(p9, 40) /\ Appended(p9, p8, 32, f9, 8)
  BY <1>2, <1>3, <1>10, FieldAppended, Zenon
<1> HIDE DEF p9
<1>12. /\ Extends(p9, p8) /\ Extends(p9, p7) /\ Extends(p9, p6) /\ Extends(p9, p5)
       /\ Extends(p9, p4) /\ Extends(p9, p3) /\ Extends(p9, p2) /\ Extends(p9, f1)
  <2>1. Extends(p9, p8)
    BY <1>11, Zenon DEF Appended
  <2>2. Extends(p9, p7)
    BY <2>1, <1>10, Zenon DEF Appended, Extends
  <2>3. Extends(p9, p6)
    BY <2>2, <1>9, Zenon DEF Appended, Extends
  <2>4. Extends(p9, p5)
    BY <2>3, <1>8, Zenon DEF Appended, Extends
  <2>5. Extends(p9, p4)
    BY <2>4, <1>7, Zenon DEF Appended, Extends
  <2>6. Extends(p9, p3)
    BY <2>5, <1>6, Zenon DEF Appended, Extends
  <2>7. Extends(p9, p2)
    BY <2>6, <1>5, Zenon DEF Appended, Extends
  <2>8. Extends(p9, f1)
    BY <2>7, <1>4, Zenon DEF Appended, Extends
  <2> QED BY <2>1, <2>2, <2>3, <2>4, <2>5, <2>6, <2>7, <2>8, ZenonT(30)
<1>13. Stands(p9, 0, f1, 8)
  <2>1. Stands(f1, 0, f1, 8)
    BY <1>2, WholeStands, Zenon DEF Record
  <2> QED BY <2>1, <1>12, Zenon DEF Extends
<1>14. Stands(p9, 8, f2, 8)
  BY <1>12, <1>4, Zenon DEF Appended, Extends
<1>15. Stands(p9, 16, f3, 8)
  BY <1>12, <1>5, Zenon DEF Appended, Extends
<1>16. Stands(p9, 24, f4, 4)
  BY <1>12, <1>6, Zenon DEF Appended, Extends
<1>17. Stands(p9, 28, f5, 1)
  BY <1>12, <1>7, Zenon DEF Appended, Extends
<1>18. Stands(p9, 29, f6, 1)
  BY <1>12, <1>8, Zenon DEF Appended, Extends
<1>19. Stands(p9, 30, f7, 1)
  BY <1>12, <1>9, Zenon DEF Appended, Extends
<1>20. Stands(p9, 31, f8, 1)
  BY <1>12, <1>10, Zenon DEF Appended, Extends
<1>21. Stands(p9, 32, f9, 8)
  BY <1>11, Zenon DEF Appended
<1> QED BY <1>1, <1>11, <1>13, <1>14, <1>15, <1>16, <1>17, <1>18, <1>19, <1>20, <1>21, ZenonT(30)
        DEF IsRecord, f1, f2, f3, f4, f5, f6, f7, f8, f9

\* What the decoder reads in the record of a frame is the frame.
LEMMA FrameRead ==
    ASSUME NEW f, IsFrame(f), NEW p, IsRecord(p, f)
    PROVE  Fields(p) = f
<1>1. 1 \in 1 .. 8 /\ 4 \in 1 .. 8 /\ 8 \in 1 .. 8
  BY SMTT(30)
<1>2. load_le(p, 0, 8) = f.seq
  <2>1. f.seq \in U(8) /\ Stands(p, 0, store_le(f.seq, 8), 8)
    BY Zenon DEF IsFrame, IsRecord
  <2> QED BY <1>1, <2>1, FieldRead, Zenon
<1>3. load_le(p, 8, 8) = f.t_kernel_ns
  <2>1. f.t_kernel_ns \in U(8) /\ Stands(p, 8, store_le(f.t_kernel_ns, 8), 8)
    BY Zenon DEF IsFrame, IsRecord
  <2> QED BY <1>1, <2>1, FieldRead, Zenon
<1>4. load_le(p, 16, 8) = f.t_ingest_ns
  <2>1. f.t_ingest_ns \in U(8) /\ Stands(p, 16, store_le(f.t_ingest_ns, 8), 8)
    BY Zenon DEF IsFrame, IsRecord
  <2> QED BY <1>1, <2>1, FieldRead, Zenon
<1>5. load_le(p, 24, 4) = f.can_id
  <2>1. f.can_id \in U(4) /\ Stands(p, 24, store_le(f.can_id, 4), 4)
    BY Zenon DEF IsFrame, IsRecord
  <2> QED BY <1>1, <2>1, FieldRead, Zenon
<1>6. load_le(p, 28, 1) = f.src_id
  <2>1. f.src_id \in U(1) /\ Stands(p, 28, store_le(f.src_id, 1), 1)
    BY Zenon DEF IsFrame, IsRecord
  <2> QED BY <1>1, <2>1, FieldRead, Zenon
<1>7. load_le(p, 29, 1) = f.len
  <2>1. f.len \in U(1) /\ Stands(p, 29, store_le(f.len, 1), 1)
    BY Zenon DEF IsFrame, IsRecord
  <2> QED BY <1>1, <2>1, FieldRead, Zenon
<1>8. load_le(p, 30, 1) = f.flags
  <2>1. f.flags \in U(1) /\ Stands(p, 30, store_le(f.flags, 1), 1)
    BY Zenon DEF IsFrame, IsRecord
  <2> QED BY <1>1, <2>1, FieldRead, Zenon
<1>9. load_le(p, 31, 1) = f.reserved
  <2>1. f.reserved \in U(1) /\ Stands(p, 31, store_le(f.reserved, 1), 1)
    BY Zenon DEF IsFrame, IsRecord
  <2> QED BY <1>1, <2>1, FieldRead, Zenon
<1>10. SubSeq(p, 33, 40) = f.data
  <2>1. Spans(33, 40, 32, 8)
    BY SMTT(30) DEF Spans
  <2>2. Stands(p, 32, f.data, 8)
    BY Zenon DEF IsRecord
  <2>3. PICK a, b, o : a = 33 /\ b = 40 /\ o = 32
    BY Zenon
  <2>4. Spans(a, b, o, 8) /\ Stands(p, o, f.data, 8)
    BY <2>1, <2>2, <2>3, SMT
  <2>5. SubSeq(p, a, b) = f.data
    BY <2>4, FieldCut, Zenon
  <2> QED BY <2>3, <2>5, SMT
<1> QED BY <1>2, <1>3, <1>4, <1>5, <1>6, <1>7, <1>8, <1>9, <1>10, ZenonT(30) DEF Fields, IsFrame

LEMMA FrameVerdict ==
    ASSUME NEW p
    PROVE  decode_frame(p).error = "ok"
              <=> ~HasBit(load_le(p, 30, 1), ReservedBit) /\ ~(load_le(p, 29, 1) > MaxPayload)
<1> DEFINE a1 == HasBit(load_le(p, 30, 1), ReservedBit)
           a2 == load_le(p, 29, 1) > MaxPayload
           ts == << <<a1, "reserved_flag_set">>, <<a2, "length_out_of_range">> >>
<1>1. FrameTests(p) = ts
  BY Zenon DEF FrameTests
<1> HIDE DEF a1, a2
<1>2. 2 \in Nat /\ DOMAIN ts = 1 .. 2 /\ ts[1][1] = a1 /\ ts[2][1] = a2
  BY SMTT(30)
<1>3. ts[1][2] # "ok" /\ ts[2][2] # "ok"
  BY Zenon
<1> HIDE DEF ts
<1>4. Verdict(ts) = "ok" <=> ~a1 /\ ~a2
  <2>1. 1 \in 1 .. 2 /\ 2 \in 1 .. 2 /\ \A i \in 1 .. 2 : i = 1 \/ i = 2
    BY SMTT(30)
  <2>2. \A i \in 1 .. 2 : ts[i][2] # "ok"
    BY <1>3, <2>1, Zenon
  <2>3. Verdict(ts) = "ok" <=> ~Rejects(ts, 2)
    BY <1>2, <2>2, VerdictIs, Zenon
  <2>4. Rejects(ts, 2) <=> a1 \/ a2
    BY <1>2, <2>1, Zenon DEF Rejects
  <2> QED BY <2>3, <2>4, Zenon
<1>5. decode_frame(p).error = Verdict(ts)
  BY <1>1, Zenon DEF decode_frame
<1> QED BY <1>4, <1>5, Zenon DEF a1, a2

\* A flag is set in itself.
LEMMA OwnBit == /\ HasBit(GapBit, GapBit) /\ HasBit(EchoBit, EchoBit)
<1>1. GapBit \in Nat \ {0} /\ EchoBit \in Nat \ {0}
  BY WireAssumption, RadixIs, SMTT(30) DEF Byte
<1>2. GapBit \div GapBit = 1 /\ EchoBit \div EchoBit = 1
  BY <1>1, Z3
<1> QED BY <1>2, SMTT(30) DEF HasBit

\* Of the record of any frame whose fields fit their widths, decode_frame returns
\* every field as it was encoded, and accepts it exactly when the length and the
\* flags are legal, whatever the reserved byte holds (the wire format has it be 0).
THEOREM FrameExact ==
    ASSUME NEW f, IsFrame(f)
    PROVE  LET o == decode_frame(encode_frame(f))
           IN  /\ IF f.len <= MaxPayload /\ ~HasBit(f.flags, ReservedBit)
                  THEN o = [error |-> "ok", frame |-> f]
                  ELSE o.error # "ok"
               /\ o.frame = f
<1> DEFINE p == encode_frame(f)
<1>1. IsRecord(p, f)
  BY FrameEncoded, Zenon
<1> HIDE DEF p
<1>2. Fields(p) = f
  BY <1>1, FrameRead, Zenon
<1>3. load_le(p, 30, 1) = f.flags /\ load_le(p, 29, 1) = f.len
  <2>1. 1 \in 1 .. 8
    OBVIOUS
  <2>2. f.flags \in U(1) /\ f.len \in U(1)
    BY Zenon DEF IsFrame
  <2>3. Stands(p, 30, store_le(f.flags, 1), 1) /\ Stands(p, 29, store_le(f.len, 1), 1)
    BY <1>1, Zenon DEF IsRecord
  <2> QED BY <2>1, <2>2, <2>3, FieldRead, Zenon
<1>4. ~(f.len > MaxPayload) <=> f.len <= MaxPayload
  <2>1. f.len \in Byte
    BY ValueTypes, ZenonT(30) DEF IsFrame
  <2>2. f.len \in Int /\ MaxPayload \in Int
    BY <2>1, WireAssumption, RadixIs, SMTT(30) DEF Byte
  <2> QED BY <2>2, SMTT(30)
<1>5. decode_frame(p).error = "ok" <=> f.len <= MaxPayload /\ ~HasBit(f.flags, ReservedBit)
  BY <1>3, <1>4, FrameVerdict, Zenon
<1>6. decode_frame(p) = [error |-> decode_frame(p).error, frame |-> f]
  BY <1>2, Zenon DEF decode_frame
<1>7. decode_frame(p).frame = f
  BY <1>2, Zenon DEF decode_frame
<1> QED BY <1>5, <1>6, <1>7, Zenon DEF p

\* The count a gap marker carries comes back, and the two markers are told apart.
LEMMA MarkersKept ==
    ASSUME NEW q \in Numbers, NEW n \in Numbers, NEW t \in Numbers
    PROVE  /\ gap_count(make_gap(q, n, 0, t)) = n
           /\ is_gap(make_gap(q, n, 0, t)) /\ ~is_echo(make_gap(q, n, 0, t))
           /\ is_echo(make_echo(q, t)) /\ ~is_gap(make_echo(q, t))
<1>1. /\ make_gap(q, n, 0, t).flags = GapBit /\ make_gap(q, n, 0, t).data = store_le(n, 8)
      /\ make_echo(q, t).flags = EchoBit
  BY Zenon DEF make_gap, make_echo, GapPayload
<1>2. ~HasBit(GapBit, EchoBit) /\ ~HasBit(EchoBit, GapBit)
  BY WireAssumption, Zenon
<1>3. load_le(store_le(n, 8), 0, 8) = n
  <2>1. 8 \in 1 .. 8 /\ n \in U(8) /\ n \in Nat
    <3>1. 8 \in 1 .. 8
      BY SMTT(30)
    <3>2. n \in U(8)
      BY WireAssumption, Zenon
    <3> QED BY <3>1, <3>2, ValueTypes, Zenon
  <2>2. store_le(n, 8) \in Seq(Byte) /\ Len(store_le(n, 8)) = 8
    BY <2>1, StoredType, Zenon
  <2>3. Stands(store_le(n, 8), 0, store_le(n, 8), 8)
    BY <2>2, WholeStands, Zenon
  <2> QED BY <2>1, <2>3, FieldRead, Zenon
<1> QED BY <1>1, <1>2, <1>3, OwnBit, Zenon DEF is_gap, is_echo, gap_count

LEMMA RecordList ==
    ASSUME NEW n \in Nat, NEW s, Record(s, n)
    PROVE  s \in [1 .. n -> Byte]
<1>1. s \in Seq(Byte) /\ Len(s) = n
  BY Zenon DEF Record
<1>2. s \in [1 .. Len(s) -> Byte]
  BY <1>1, SMTT(30)
<1> QED BY <1>1, <1>2, Zenon

LEMMA RecordChanged ==
    ASSUME NEW n \in Nat, NEW s, Record(s, n), NEW y \in 1 .. n, NEW b \in Byte
    PROVE  Record([s EXCEPT ![y] = b], n)
<1>1. s \in [1 .. n -> Byte]
  BY RecordList, Zenon
<1>2. [s EXCEPT ![y] = b] \in [1 .. n -> Byte]
  BY <1>1, Zenon
<1> QED BY <1>2, ListRecord, Zenon

LEMMA RecordPrefix ==
    ASSUME NEW s, Record(s, 16)
    PROVE  Record(SubSeq(s, 1, 8), 8)
<1> DEFINE h == [i \in 1 .. 8 |-> s[i]]
<1>1. s \in [1 .. 16 -> Byte] /\ s \in Seq(Byte) /\ Len(s) = 16
  BY RecordList, Zenon DEF Record
<1>2. h \in [1 .. 8 -> Byte] /\ \A i \in 1 .. 8 : h[i] = s[0 + i]
  BY <1>1, SMTT(30)
<1> HIDE DEF h
<1>3. Record(h, 8)
  BY <1>2, ListRecord, Zenon
<1>4. Stands(s, 0, h, 8)
  BY <1>1, <1>2, <1>3, SMTT(30) DEF Stands, Record
<1>5. Spans(1, 8, 0, 8)
  BY SMTT(30) DEF Spans
<1> QED BY <1>3, <1>4, <1>5, FieldCut, Zenon

----------------------------------------------------------------------------
(* What is decoded                                                         *)

\* The fields of the frames tried fit their widths.
LEMMA FrameTypes == \A f \in TestFrames : IsFrame(f)
<1>1. /\ 0 \in U(1) /\ 0 \in U(8) /\ 0 \in U(4) /\ 0 \in Nat /\ 1 \in U(1) /\ Radix - 1 \in U(1)
      /\ Radix \in U(4) /\ Power[4] - 1 \in U(4)
  <2>1. /\ Power[1] \in Nat /\ Power[2] \in Nat /\ Power[3] \in Nat /\ Power[4] \in Nat
        /\ Power[1] >= 1 /\ Power[2] >= 1 /\ Power[3] >= 1
        /\ Power[8] \in Nat /\ Power[8] >= 1
    BY PowerIs, SMTT(30) DEF Positive
  <2>2. Power[4] = Radix * Power[3] /\ Power[3] = Radix * Power[2]
    BY PowerIs, SMTT(30)
  <2>3. Power[3] >= 2
    <3> DEFINE a == Power[2]
               b == Power[3]
    <3>1. a \in Nat /\ a >= 1 /\ b = Radix * a
      BY <2>1, <2>2, Zenon
    <3> HIDE DEF a, b
    <3>2. b >= 2
      BY <3>1, RadixIs, Z3
    <3> QED BY <3>2, Zenon DEF b
  <2>4. Power[4] > Radix
    <3> DEFINE a == Power[3]
               b == Power[4]
    <3>1. a \in Nat /\ a >= 2 /\ b = Radix * a
      BY <2>1, <2>2, <2>3, Zenon
    <3> HIDE DEF a, b
    <3>2. b > Radix
      BY <3>1, RadixIs, Z3
    <3> QED BY <3>2, Zenon DEF b
  <2>5. U(1) = Byte
    BY ValueTypes, Zenon
  <2>6. U(4) = 0 .. Power[4] - 1 /\ U(8) = 0 .. Power[8] - 1
    BY Zenon DEF U
  <2>7. 0 \in Byte /\ 1 \in Byte /\ Radix - 1 \in Byte
    BY RadixIs, SMTT(30) DEF Byte
  <2>8. 0 \in U(4) /\ 0 \in U(8) /\ Radix \in U(4) /\ Power[4] - 1 \in U(4) /\ 0 \in Nat
    BY <2>1, <2>4, <2>6, RadixIs, SMTT(30)
  <2> QED BY <2>5, <2>7, <2>8, Zenon
<1>2. /\ Numbers \subseteq U(8) /\ GapBit \in U(1) /\ EchoBit \in U(1) /\ MaxPayload \in U(1)
      /\ Byte = U(1)
  BY WireAssumption, ValueTypes, Zenon
<1>3. ASSUME NEW v \in Nat PROVE Record(store_le(v, 8), 8)
  <2>1. 8 \in 1 .. 8
    BY SMTT(30)
  <2> QED BY <1>3, <2>1, StoredType, Zenon DEF Record
<1>4. ASSUME NEW f \in Bus PROVE IsFrame(f)
  <2>1. /\ f = [seq |-> f.seq, t_kernel_ns |-> f.t_kernel_ns, t_ingest_ns |-> f.t_ingest_ns,
               can_id |-> f.can_id, src_id |-> f.src_id, len |-> f.len, flags |-> f.flags,
               reserved |-> f.reserved, data |-> f.data]
        /\ f.seq \in Numbers /\ f.t_kernel_ns \in Numbers /\ f.t_ingest_ns \in Numbers
        /\ f.can_id \in {Radix, Power[4] - 1} /\ f.src_id \in {0, Radix - 1} /\ f.len \in Byte
        /\ f.flags \in Byte /\ f.reserved \in {0, 1} /\ f.data = store_le(Power[7] + 2, 8)
    BY <1>4, Zenon DEF Bus
  <2>2. Power[7] + 2 \in Nat
    BY PowerIs, SMTT(30) DEF Positive
  <2>3. Record(f.data, 8)
    BY <1>3, <2>1, <2>2, Zenon
  <2> QED BY <1>1, <1>2, <2>1, <2>3, Zenon DEF IsFrame
<1>5. ASSUME NEW q \in Numbers, NEW n \in Numbers, NEW t \in Numbers
      PROVE  IsFrame(make_gap(q, n, 0, t))
  <2> DEFINE f == make_gap(q, n, 0, t)
  <2>1. /\ f = [seq |-> f.seq, t_kernel_ns |-> f.t_kernel_ns, t_ingest_ns |-> f.t_ingest_ns,
               can_id |-> f.can_id, src_id |-> f.src_id, len |-> f.len, flags |-> f.flags,
               reserved |-> f.reserved, data |-> f.data]
        /\ f.seq = q /\ f.t_kernel_ns = 0 /\ f.t_ingest_ns = t /\ f.can_id = 0 /\ f.src_id = 0
        /\ f.len = MaxPayload /\ f.flags = GapBit /\ f.reserved = 0 /\ f.data = store_le(n, 8)
    BY Zenon DEF make_gap, GapPayload
  <2>2. n \in Nat
    <3>1. U(8) \subseteq Nat
      BY ValueTypes, SMTT(30)
    <3> QED BY <1>2, <3>1, Zenon
  <2> HIDE DEF f
  <2>3. Record(f.data, 8)
    BY <1>3, <2>1, <2>2, Zenon
  <2>4. IsFrame(f)
    BY <1>1, <1>2, <2>1, <2>3, Zenon DEF IsFrame
  <2> QED BY <2>4, Zenon DEF f
<1>6. ASSUME NEW q \in Numbers, NEW t \in Numbers
      PROVE  IsFrame(make_echo(q, t))
  <2> DEFINE f == make_echo(q, t)
  <2>1. /\ f = [seq |-> f.seq, t_kernel_ns |-> f.t_kernel_ns, t_ingest_ns |-> f.t_ingest_ns,
               can_id |-> f.can_id, src_id |-> f.src_id, len |-> f.len, flags |-> f.flags,
               reserved |-> f.reserved, data |-> f.data]
        /\ f.seq = q /\ f.t_kernel_ns = 0 /\ f.t_ingest_ns = t /\ f.can_id = 0 /\ f.src_id = 0
        /\ f.len = 0 /\ f.flags = EchoBit /\ f.reserved = 0 /\ f.data = store_le(0, 8)
    BY Zenon DEF make_echo
  <2> HIDE DEF f
  <2>2. Record(f.data, 8)
    BY <1>1, <1>3, <2>1, Zenon
  <2>3. IsFrame(f)
    BY <1>1, <1>2, <2>1, <2>2, Zenon DEF IsFrame
  <2> QED BY <2>3, Zenon DEF f
<1>7. SUFFICES ASSUME NEW f \in TestFrames PROVE IsFrame(f)
  BY Zenon
<1> DEFINE A == {make_gap(q, n, 0, t) : q, n, t \in Numbers}
           B == {make_echo(q, t) : q, t \in Numbers}
<1>8. CASE f \in A
  <2>1. PICK q \in Numbers, n \in Numbers, t \in Numbers : f = make_gap(q, n, 0, t)
    BY <1>8, SMTT(30)
  <2> QED BY <1>5, <2>1, Zenon
<1>9. CASE f \in B
  <2>1. PICK q \in Numbers, t \in Numbers : f = make_echo(q, t)
    BY <1>9, SMTT(30)
  <2> QED BY <1>6, <2>1, Zenon
<1>10. TestFrames = (Bus \cup A) \cup B
  BY SMTT(30) DEF TestFrames
<1> HIDE DEF A, B
<1> QED BY <1>4, <1>7, <1>8, <1>9, <1>10, Zenon

\* A header is sixteen bytes.
LEMMA HeaderTypes == \A p \in TestHeaders : Record(p, 16)
<1>1. ASSUME NEW c \in Nat PROVE Record(encode_header(c), 16)
  BY <1>1, HeaderEncoded, Zenon DEF IsHeader
<1>2. ASSUME NEW r \in [1 .. 8 -> Digits] PROVE Record(Prefix \o r, 16)
  <2>1. Record(Prefix, 8)
    <3>1. Record(encode_header(0), 16)
      BY <1>1, Zenon
    <3> QED BY <3>1, RecordPrefix, Zenon DEF Prefix
  <2>2. Record(r, 8)
    <3>1. r \in [1 .. 8 -> Byte]
      BY <1>2, WireAssumption, Zenon
    <3> QED BY <3>1, ListRecord, ZenonT(30)
  <2>3. 16 = 8 + 8
    BY SMTT(30)
  <2> QED BY <2>1, <2>2, <2>3, FieldAppended, Zenon
<1>3. ASSUME NEW c \in {0, 1, MaxCount}, NEW y \in 1 .. 8, NEW b \in Byte
      PROVE  Record([encode_header(c) EXCEPT ![y] = b], 16)
  <2>1. c \in Nat
    BY <1>3, WireAssumption, PowerIs, SMTT(30) DEF U, Positive
  <2>2. Record(encode_header(c), 16) /\ 16 \in Nat /\ y \in 1 .. 16
    BY <1>1, <2>1, SMTT(30)
  <2> QED BY <1>3, <2>2, RecordChanged, ZenonT(30)
<1>4. SUFFICES ASSUME NEW p \in TestHeaders PROVE Record(p, 16)
  BY Zenon
<1>5. \/ \E r \in [1 .. 8 -> Digits] : p = Prefix \o r
      \/ \E c \in {0, 1, MaxCount}, y \in 1 .. 8, b \in Byte :
            p = [encode_header(c) EXCEPT ![y] = b]
  BY <1>4, SMTT(30) DEF TestHeaders
<1> QED BY <1>2, <1>3, <1>5, Zenon

\* The bytes are those of a header, or of the frame that was encoded; what the
\* decoder returned is what it makes of them.
WireInv ==
    \/ input = "header" /\ Record(bytes, 16) /\ out \in {NotYet, decode_header(bytes)}
    \/ /\ input = "frame" /\ IsFrame(sent) /\ bytes = encode_frame(sent)
       /\ out \in {NotYet, decode_frame(bytes)}

LEMMA WireStarts == HeaderInit \/ FrameInit => WireInv
BY HeaderTypes, FrameTypes, Zenon DEF HeaderInit, FrameInit, WireInv

LEMMA WireSteps == WireInv /\ [Decode]_wireVars => WireInv'
<1> SUFFICES ASSUME WireInv, [Decode]_wireVars PROVE WireInv'
  BY Zenon
<1>1. CASE Decode
  <2>1. input' = input /\ sent' = sent /\ bytes' = bytes
    BY <1>1, Zenon DEF Decode
  <2>2. CASE input = "header"
    <3>1. out' = decode_header(bytes) /\ Record(bytes, 16)
      <4>1. input # "frame"
        BY <2>2, Zenon
      <4> QED BY <1>1, <2>2, <4>1, Zenon DEF Decode, WireInv
    <3> QED BY <2>1, <2>2, <3>1, Zenon DEF WireInv
  <2>3. CASE input = "frame"
    <3>1. out' = decode_frame(bytes) /\ IsFrame(sent) /\ bytes = encode_frame(sent)
      <4>1. input # "header"
        BY <2>3, Zenon
      <4> QED BY <1>1, <2>3, <4>1, Zenon DEF Decode, WireInv
    <3> QED BY <2>1, <2>3, <3>1, Zenon DEF WireInv
  <2> QED BY <2>2, <2>3, Zenon DEF WireInv
<1>2. CASE UNCHANGED wireVars
  <2>1. input' = input /\ sent' = sent /\ bytes' = bytes /\ out' = out
    BY <1>2, Zenon DEF wireVars
  <2> QED BY <2>1, Zenon DEF WireInv
<1> QED BY <1>1, <1>2, Zenon

LegalFrame(f) == f.len <= MaxPayload /\ ~HasBit(f.flags, ReservedBit)

LEMMA WireTells == WireInv => CodecExact
<1> SUFFICES ASSUME WireInv PROVE HeadersHonest /\ RecordsSurvive
  BY Zenon DEF CodecExact
<1>1. HeadersHonest
  <2> SUFFICES ASSUME input = "header", out # NotYet
               PROVE  IF out.error = "ok"
                      THEN From(bytes) = {out.count} /\ out.payload_len = out.count * RecordSize
                      ELSE From(bytes) = {}
    BY Zenon DEF HeadersHonest, From
  <2>1. input # "frame"
    BY Zenon
  <2>2. Record(bytes, 16) /\ out = decode_header(bytes)
    BY <2>1, Zenon DEF WireInv
  <2> QED BY <2>2, HeaderExact, Zenon
<1>2. RecordsSurvive
  <2> SUFFICES ASSUME input = "frame", out # NotYet
               PROVE  /\ /\ LegalFrame(sent) /\ sent.reserved = 0 =>
                                out = [error |-> "ok", frame |-> sent]
                         /\ ~LegalFrame(sent) => out.error # "ok"
                      /\ \A q, n, t \in Numbers :
                            /\ sent = make_gap(q, n, 0, t) =>
                                  /\ gap_count(out.frame) = n
                                  /\ is_gap(out.frame) /\ ~is_echo(out.frame)
                            /\ sent = make_echo(q, t) =>
                                  is_echo(out.frame) /\ ~is_gap(out.frame)
    BY Zenon DEF RecordsSurvive, LegalFrame
  <2>1. input # "header"
    BY Zenon
  <2>2. IsFrame(sent) /\ out = decode_frame(encode_frame(sent))
    BY <2>1, Zenon DEF WireInv
  <2>3. /\ LegalFrame(sent) => out = [error |-> "ok", frame |-> sent]
        /\ ~LegalFrame(sent) => out.error # "ok"
        /\ out.frame = sent
    BY <2>2, FrameExact, Zenon DEF LegalFrame
  <2>4. ASSUME NEW q \in Numbers, NEW n \in Numbers, NEW t \in Numbers,
               sent = make_gap(q, n, 0, t)
        PROVE  gap_count(out.frame) = n /\ is_gap(out.frame) /\ ~is_echo(out.frame)
    <3>1. out.frame = make_gap(q, n, 0, t)
      BY <2>3, <2>4, Zenon
    <3>2. /\ gap_count(make_gap(q, n, 0, t)) = n
          /\ is_gap(make_gap(q, n, 0, t)) /\ ~is_echo(make_gap(q, n, 0, t))
      BY MarkersKept, Zenon
    <3> QED BY <3>1, <3>2, Zenon
  <2>5. ASSUME NEW q \in Numbers, NEW t \in Numbers, sent = make_echo(q, t)
        PROVE  is_echo(out.frame) /\ ~is_gap(out.frame)
    <3>1. out.frame = make_echo(q, t)
      BY <2>3, <2>5, Zenon
    <3>2. is_echo(make_echo(q, t)) /\ ~is_gap(make_echo(q, t))
      BY MarkersKept, Zenon
    <3> QED BY <3>1, <3>2, Zenon
  <2> QED BY <2>3, <2>4, <2>5, Zenon
<1> QED BY <1>1, <1>2, Zenon

\* decode_header accepts exactly the headers encode_header writes for a count up
\* to kMaxCount and reads that count back; a record with legal flags and length
\* and a zero reserved byte decodes to the very frame encode_frame was given, and
\* one with illegal flags or length is rejected;
\* the count of a gap marker survives, and gap and echo are told apart: for every
\* radix and every value of the layout constants.
THEOREM CodecIsExact == WireSpec => []CodecExact
<1>1. WireSpec => []WireInv
  BY WireStarts, WireSteps, PTL DEF WireSpec
<1> QED BY <1>1, WireTells, PTL

=============================================================================
