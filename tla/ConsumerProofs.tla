--------------------------- MODULE ConsumerProofs ---------------------------
(***************************************************************************)
(* The consumer programs, for every value of the constants.  The cadence   *)
(* monitor takes no loss for lateness and misses no lateness it can see,   *)
(* for every set of identifiers, every period, every delay of the bus and  *)
(* every way of losing frames.  The page of the live view is consistent,   *)
(* for every size of its windows.  And the closing reports are honest, for *)
(* every stream of batches and any number of connections.                  *)
(***************************************************************************)
EXTENDS Cadence, LiveView, ConsumerLoops, StreamLemmas

----------------------------------------------------------------------------
(* A record of a batch                                                     *)

Readings ==
    [gaps : Trackers, next : Nat, begun : BOOLEAN, holes : Nat, measured : Nat, bus : Nat]

\* The tracker against what was read: it is where the stream is, its count of
\* silent loss is the holes met, and it and the probe count the bus frames, of
\* which there had been m before the batch.
Told(s, m) ==
    /\ s.gaps.have <=> s.begun
    /\ s.begun => s.gaps.next = s.next
    /\ s.gaps.silent_lost = s.holes
    /\ s.gaps.frames = s.bus
    /\ s.bus = m + s.measured

LEMMA ReadingFields ==
    ASSUME NEW s \in Readings
    PROVE  /\ s.gaps \in Trackers /\ s.next \in Nat /\ s.holes \in Nat
           /\ s.measured \in Nat /\ s.bus \in Nat
           /\ s.begun \in BOOLEAN
BY Zenon DEF Readings

\* What a tracker makes of the number of frames.
LEMMA FramesObserved ==
    ASSUME NEW t \in Trackers, NEW r \in Records
    PROVE  ObserveGap(t, r).frames = t.frames /\ ObserveFrame(t, r).frames = t.frames + 1
BY Zenon DEF ObserveGap, ObserveFrame, Trackers

\* A frame, or one with a hole of one number before it.
LEMMA ReadFrame ==
    ASSUME NEW s \in Readings, NEW m \in Nat, Told(s, m), NEW kind \in {"frame", "jump"},
           NEW u, u = ReadRecord(s, kind)
    PROVE  u \in Readings /\ Told(u, m)
<1> DEFINE q == IF kind = "jump" THEN s.next + 1 ELSE s.next
           f == FrameRec(q)
           g == ObserveFrame(s.gaps, f)
           h == s.holes + (IF s.begun /\ kind = "jump" THEN 1 ELSE 0)
           jump == IF s.gaps.have /\ f.seq > s.gaps.next THEN f.seq - s.gaps.next ELSE 0
<1>0. /\ s.gaps \in Trackers /\ s.next \in Nat /\ s.holes \in Nat
      /\ s.measured \in Nat /\ s.bus \in Nat /\ s.begun \in BOOLEAN
  BY ReadingFields, Zenon
<1>t. /\ s.gaps.have \in BOOLEAN /\ s.gaps.next \in Nat /\ s.gaps.frames \in Nat
      /\ s.gaps.silent_lost \in Nat
  BY <1>0, TrackerFields, Zenon
<1>1. RecordOf(kind, s.next) = f /\ NumberAfter(kind, s.next) = q + 1
  BY <1>0, SMTT(30) DEF RecordOf, NumberAfter
<1>2. f \in Records /\ f.kind = "frame" /\ f.seq = q /\ q \in Nat
  BY <1>0, SMTT(30) DEF FrameRec, Records
<1>3. u = [gaps |-> g, next |-> q + 1, begun |-> TRUE, holes |-> h,
           measured |-> s.measured + 1, bus |-> s.bus + 1]
  <2>1. Observe(s.gaps, f) = g
    BY <1>2, Zenon DEF Observe
  <2>2. f.kind # "echo" /\ IsMeasured(f)
    BY <1>2, Zenon DEF IsMeasured
  <2>3. kind \in {"frame", "jump"}
    BY Zenon
  <2> HIDE DEF f, g, h
  <2> QED BY <1>1, <2>1, <2>2, <2>3, Zenon DEF ReadRecord, h
<1>4. /\ g \in Trackers /\ g.have = TRUE /\ g.next = q + 1
      /\ g.silent_lost = s.gaps.silent_lost + jump
      /\ g.frames = s.gaps.frames + 1
  <2>1. /\ g \in Trackers /\ g.have = TRUE /\ g.next = f.seq + 1
        /\ g.silent_lost = s.gaps.silent_lost + jump
    BY <1>0, <1>2, ObserveFrameEffect, Zenon
  <2>2. g.frames = s.gaps.frames + 1
    BY <1>0, <1>2, FramesObserved, Zenon
  <2> QED BY <1>2, <2>1, <2>2, Zenon
<1>5. jump = (IF s.begun /\ kind = "jump" THEN 1 ELSE 0)
  <2>1. CASE s.begun
    <3>1. s.gaps.have /\ s.gaps.next = s.next
      BY <2>1, Zenon DEF Told
    <3>2. f.seq = (IF kind = "jump" THEN s.next + 1 ELSE s.next)
      BY <1>2, Zenon
    <3> HIDE DEF f
    <3> QED BY <2>1, <3>1, <3>2, <1>0, SMTT(30)
  <2>2. CASE ~s.begun
    <3>1. ~s.gaps.have
      BY <2>2, Zenon DEF Told
    <3> QED BY <2>2, <3>1, Zenon
  <2> QED BY <2>1, <2>2, Zenon
<1>6. g.silent_lost = h /\ h \in Nat
  <2>1. s.gaps.silent_lost = s.holes
    BY Zenon DEF Told
  <2>2. g.silent_lost = s.holes + (IF s.begun /\ kind = "jump" THEN 1 ELSE 0)
    BY <2>1, <1>4, <1>5, Zenon
  <2>3. h \in Nat
    BY <1>0, SMTT(30)
  <2> QED BY <2>2, <2>3, Zenon DEF h
<1> HIDE DEF g, h
<1>7. u \in Readings
  <2>1. q + 1 \in Nat /\ s.measured + 1 \in Nat /\ s.bus + 1 \in Nat
    BY <1>0, <1>2, SMTT(30)
  <2> HIDE DEF q
  <2> QED BY <1>3, <1>4, <1>6, <2>1, SMTT(30) DEF Readings
<1>8. /\ u.gaps = g /\ u.next = q + 1 /\ u.begun = TRUE /\ u.holes = h
      /\ u.measured = s.measured + 1 /\ u.bus = s.bus + 1
  <2> HIDE DEF q
  <2> QED BY <1>3, SMTT(30)
<1>9. s.gaps.frames + 1 = s.bus + 1 /\ s.bus + 1 = m + (s.measured + 1)
  BY <1>0, <1>t, SMTT(30) DEF Told
<1>10. Told(u, m)
  <2> HIDE DEF q
  <2> QED BY <1>4, <1>6, <1>8, <1>9, Zenon DEF Told
<1> QED BY <1>7, <1>10, Zenon

\* A marker of one frame, where the stream is.
LEMMA ReadGap ==
    ASSUME NEW s \in Readings, NEW m \in Nat, Told(s, m), NEW kind \in {"gap", "absent"},
           NEW u, u = ReadRecord(s, kind)
    PROVE  u \in Readings /\ Told(u, m)
<1> DEFINE f == GapRec(s.next, 1, IF kind = "gap" THEN "overrun" ELSE "absent")
           g == ObserveGap(s.gaps, f)
<1>0. /\ s.gaps \in Trackers /\ s.next \in Nat /\ s.holes \in Nat
      /\ s.measured \in Nat /\ s.bus \in Nat /\ s.begun \in BOOLEAN
  BY ReadingFields, Zenon
<1>1. RecordOf(kind, s.next) = f /\ NumberAfter(kind, s.next) = s.next + 1
  BY <1>0, Zenon DEF RecordOf, NumberAfter
<1>2. f \in Records /\ f.kind = "gap" /\ f.seq = s.next /\ f.n = 1
  BY <1>0, Zenon DEF GapRec, Records
<1> HIDE DEF f
<1>3. u = [gaps |-> g, next |-> s.next + 1, begun |-> TRUE, holes |-> s.holes,
           measured |-> s.measured, bus |-> s.bus]
  <2>1. Observe(s.gaps, f) = g
    BY <1>2, Zenon DEF Observe
  <2>2. f.kind # "echo" /\ ~IsMeasured(f) /\ kind # "jump" /\ kind \notin {"frame", "jump"}
    BY <1>2, Zenon DEF IsMeasured
  <2>3. s.holes + 0 = s.holes /\ s.measured + 0 = s.measured /\ s.bus + 0 = s.bus
    BY <1>0, SMTT(30)
  <2> HIDE DEF g
  <2> QED BY <1>1, <2>1, <2>2, <2>3, Zenon DEF ReadRecord
<1>4. /\ g \in Trackers /\ g.have = TRUE /\ g.next = f.seq + f.n
      /\ g.silent_lost = s.gaps.silent_lost /\ g.frames = s.gaps.frames
  BY <1>0, <1>2, ObserveGapEffect, FramesObserved, Zenon
<1> HIDE DEF g
<1>5. s.next + 1 \in Nat /\ g.next = s.next + 1
  BY <1>0, <1>2, <1>4, SMTT(30)
<1>6. u \in Readings
  BY <1>0, <1>3, <1>4, <1>5, SMTT(30) DEF Readings
<1>7. /\ u.gaps = g /\ u.next = s.next + 1 /\ u.begun = TRUE /\ u.holes = s.holes
      /\ u.measured = s.measured /\ u.bus = s.bus
  BY <1>3, SMTT(30)
<1>8. Told(u, m)
  BY <1>4, <1>5, <1>7, Zenon DEF Told
<1> QED BY <1>6, <1>8, Zenon

\* And an echo, which is returned.
LEMMA ReadKeeps ==
    ASSUME NEW s \in Readings, NEW m \in Nat, Told(s, m), NEW kind \in Kinds
    PROVE  ReadRecord(s, kind) \in Readings /\ Told(ReadRecord(s, kind), m)
<1>1. CASE kind = "echo"
  <2>1. RecordOf(kind, s.next) = EchoRec(0)
    BY <1>1, Zenon DEF RecordOf
  <2>2. EchoRec(0).kind = "echo"
    BY Zenon DEF EchoRec
  <2>3. ReadRecord(s, kind) = s
    BY <2>1, <2>2, Zenon DEF ReadRecord
  <2> QED BY <2>3, Zenon
<1>2. CASE kind \in {"frame", "jump"}
  BY <1>2, ReadFrame, Zenon
<1>3. CASE kind \in {"gap", "absent"}
  BY <1>3, ReadGap, Zenon
<1> QED BY <1>1, <1>2, <1>3, Zenon DEF Kinds

\* The whole batch.
LEMMA BatchTold ==
    ASSUME NEW t \in Readings, NEW m \in Nat, Told(t, m), NEW b \in Seq(Kinds),
           NEW u, u = ForEach(ReadRecord, t, b)
    PROVE  u \in Readings /\ Told(u, m)
<1>0. PICK n \in Nat : Len(b) = n
  OBVIOUS
<1> DEFINE T == {s \in Readings : Told(s, m)}
           Run(f) == f = [i \in 0 .. n |-> IF i = 0 THEN t ELSE ReadRecord(f[i - 1], b[i])]
           run == CHOOSE f : Run(f)
           G == [p \in T \X (1 .. n) |-> ReadRecord(p[1], b[p[2]])]
           S == {i \in 0 .. n : run[i] \in T}
<1>1. \A s \in T, kind \in Kinds : ReadRecord(s, kind) \in T
  BY ReadKeeps, Zenon
<1>t. t \in T
  BY Zenon
<1> HIDE DEF T
<1>2. /\ G \in [T \X (1 .. n) -> T]
      /\ \A s \in T, i \in 1 .. n : G[<<s, i>>] = ReadRecord(s, b[i])
  <2>1. \A p \in T \X (1 .. n) : p[1] \in T /\ b[p[2]] \in Kinds
    BY <1>0, SMTT(30)
  <2> QED BY <1>0, <1>1, <2>1, Zenon
<1> HIDE DEF G
<1>3. PICK f \in [0 .. n -> T] : Recursion(f, n, T, t, G)
  BY <1>t, <1>2, LoopSolution, Zenon
<1>4. Run(f)
  BY <1>2, <1>3, SMTT(30) DEF Recursion
<1>5. Run(run)
  BY <1>4, Zenon
<1>6. ForEach(ReadRecord, t, b) = run[n]
  BY <1>0, Zenon DEF ForEach
<1> HIDE DEF run
<1>7. run[0] = t /\ \A i \in 1 .. n : run[i] = ReadRecord(run[i - 1], b[i])
  BY <1>5, SMTT(30)
<1>8. 0 \in S /\ \A i \in 1 .. n : i - 1 \in S => i \in S
  <2>1. 0 \in S
    BY <1>t, <1>7, SMTT(30)
  <2>2. ASSUME NEW i \in 1 .. n, i - 1 \in S PROVE i \in S
    <3>1. b[i] \in Kinds /\ run[i - 1] \in T /\ i \in 0 .. n
      BY <1>0, <2>2, SMTT(30)
    <3> QED BY <1>1, <1>7, <3>1, Zenon
  <2> QED BY <2>1, <2>2, Zenon
<1>9. \A i \in 0 .. n : i \in S
  <2> HIDE DEF S
  <2> QED BY <1>8, Upto, Zenon
<1>10. n \in 0 .. n
  OBVIOUS
<1>11. u \in T
  BY <1>6, <1>9, <1>10, Zenon
<1> QED BY <1>11, Zenon DEF T

----------------------------------------------------------------------------
(* The main loops                                                          *)

LoopTypeOK ==
    /\ gaps \in Trackers /\ begun \in BOOLEAN
    /\ {upcoming, counted, measured, warmup_discarded, write_errors, protocol_errs,
        holes, bus_frames} \subseteq Nat

\* What the next batch starts from.
Reading ==
    [gaps |-> gaps, next |-> upcoming, begun |-> begun, holes |-> holes, measured |-> 0,
     bus |-> bus_frames]

Samples == measured + warmup_discarded = counted /\ counted = bus_frames

LoopsInv ==
    /\ LoopTypeOK
    /\ Told(Reading, bus_frames)
    /\ program = "probe" => Samples
    /\ lpc = "returned" => result = Status(protocol_errs)

LEMMA ReadingIs ==
    ASSUME LoopTypeOK
    PROVE  /\ Reading \in Readings
           /\ Reading.gaps = gaps /\ Reading.next = upcoming /\ Reading.begun = begun
           /\ Reading.holes = holes /\ Reading.measured = 0 /\ Reading.bus = bus_frames
BY Zenon DEF LoopTypeOK, Reading, Readings

\* Told, spelled out for the state.
ToldNow ==
    /\ gaps.have <=> begun
    /\ begun => gaps.next = upcoming
    /\ gaps.silent_lost = holes
    /\ gaps.frames = bus_frames

LEMMA ToldIs == ASSUME LoopTypeOK PROVE Told(Reading, bus_frames) <=> ToldNow
<1>1. bus_frames \in Nat
  BY Zenon DEF LoopTypeOK
<1>2. bus_frames = bus_frames + 0
  BY <1>1, SMTT(30)
<1> QED BY <1>2, ReadingIs, Zenon DEF Told, ToldNow

LEMMA LoopsInitial == LoopsInit => LoopsInv
<1> SUFFICES ASSUME LoopsInit PROVE LoopsInv
  BY Zenon
<1>1. /\ NewTracker \in Trackers /\ NewTracker.have = FALSE
      /\ NewTracker.silent_lost = 0 /\ NewTracker.frames = 0
  BY SMTT(30) DEF NewTracker, Trackers
<1>2. LoopTypeOK
  <2>1. gaps \in Trackers /\ begun \in BOOLEAN
    BY <1>1, Zenon DEF LoopsInit
  <2>2. {upcoming, counted, measured, warmup_discarded, write_errors, protocol_errs,
         holes, bus_frames} \subseteq Nat
    BY SMTT(30) DEF LoopsInit
  <2> QED BY <2>1, <2>2, Zenon DEF LoopTypeOK
<1>3. ToldNow
  BY <1>1, Zenon DEF LoopsInit, ToldNow
<1>4. Samples /\ lpc # "returned"
  BY SMTT(30) DEF LoopsInit, Samples
<1> QED BY <1>2, <1>3, <1>4, ToldIs, Zenon DEF LoopsInv

\* A step that leaves the figures alone.
LEMMA FiguresKept ==
    ASSUME LoopsInv, UNCHANGED <<program, figures, upcoming, begun, holes, bus_frames>>,
           protocol_errs' \in Nat
    PROVE  LoopTypeOK' /\ Told(Reading, bus_frames)' /\ (program = "probe" => Samples)'
<1>1. UNCHANGED <<program, gaps, counted, measured, warmup_discarded, write_errors, upcoming,
                  begun, holes, bus_frames>>
  BY Zenon DEF figures
<1>2. LoopTypeOK'
  BY <1>1, Zenon DEF LoopsInv, LoopTypeOK
<1>3. Told(Reading, bus_frames)'
  BY <1>1, Zenon DEF LoopsInv, Told, Reading
<1>4. (program = "probe" => Samples)'
  BY <1>1, Zenon DEF LoopsInv, Samples
<1> QED BY <1>2, <1>3, <1>4, Zenon

LEMMA LoopsConnected == ASSUME LoopsInv, NEW start \in Starts, Connected(start) PROVE LoopsInv'
<1>1. /\ gaps' = [gaps EXCEPT !.have = FALSE] /\ lpc' = "read"
      /\ upcoming' = start /\ begun' = FALSE /\ start \in Nat
      /\ UNCHANGED <<program, counted, measured, warmup_discarded, write_errors,
                     protocol_errs, holes, bus_frames>>
  BY LoopsAssumption, Zenon DEF Connected, Reset, options
<1>2. LoopTypeOK /\ gaps \in Trackers
  BY Zenon DEF LoopsInv, LoopTypeOK
<1>3. /\ gaps' \in Trackers /\ gaps'.have = FALSE
      /\ gaps'.silent_lost = gaps.silent_lost /\ gaps'.frames = gaps.frames
  BY <1>1, <1>2, Zenon DEF Trackers
<1>4. LoopTypeOK'
  BY <1>1, <1>2, <1>3, Zenon DEF LoopTypeOK
<1>5. ToldNow
  BY <1>2, ToldIs, Zenon DEF LoopsInv
<1>6. ToldNow'
  BY <1>1, <1>3, <1>5, Zenon DEF ToldNow
<1>7. Told(Reading, bus_frames)'
  <2>1. (Told(Reading, bus_frames) <=> ToldNow)'
    BY <1>4, ToldIs, PTL
  <2> QED BY <1>6, <2>1, Zenon
<1>8. (program = "probe" => Samples)'
  BY <1>1, Zenon DEF LoopsInv, Samples
<1> QED BY <1>1, <1>4, <1>7, <1>8, Zenon DEF LoopsInv

LEMMA LoopsBatch ==
    ASSUME LoopsInv, NEW b \in Batches, NEW written \in BOOLEAN, Batch(b, written)
    PROVE  LoopsInv'
<1> DEFINE s == ForEach(ReadRecord, Reading, b)
<1>0. b \in Seq(Kinds) /\ Len(b) \in Nat
  BY LoopsAssumption, SMTT(30)
<1>1. /\ gaps' = s.gaps /\ upcoming' = s.next /\ begun' = s.begun
      /\ holes' = s.holes /\ bus_frames' = s.bus
      /\ lpc = "read" /\ UNCHANGED <<program, lpc, protocol_errs>>
      /\ program = "probe" =>
            /\ counted' = counted + s.measured
            /\ measured' = IF InWarmup THEN measured ELSE measured + s.measured
            /\ warmup_discarded' = warmup_discarded + (IF InWarmup THEN s.measured ELSE 0)
            /\ write_errors' = write_errors
      /\ program # "probe" =>
            /\ counted' = IF program = "recorder" /\ written THEN counted + Len(b) ELSE counted
            /\ write_errors' = IF written THEN write_errors ELSE write_errors + 1
            /\ UNCHANGED <<measured, warmup_discarded>>
  BY Zenon DEF Batch, Reading, options
<1>2. LoopTypeOK /\ bus_frames \in Nat
  BY Zenon DEF LoopsInv, LoopTypeOK
<1>3. s \in Readings /\ Told(s, bus_frames)
  <2>1. Reading \in Readings /\ Told(Reading, bus_frames)
    BY <1>2, ReadingIs, Zenon DEF LoopsInv
  <2> QED BY <1>0, <1>2, <2>1, BatchTold, Zenon
<1> HIDE DEF s
<1>4. /\ s.gaps \in Trackers /\ s.next \in Nat /\ s.holes \in Nat
      /\ s.measured \in Nat /\ s.bus \in Nat /\ s.begun \in BOOLEAN
  BY <1>3, ReadingFields, Zenon
<1>5. counted' \in Nat /\ measured' \in Nat /\ warmup_discarded' \in Nat /\ write_errors' \in Nat
  <2>1. /\ counted \in Nat /\ measured \in Nat /\ warmup_discarded \in Nat
        /\ write_errors \in Nat
    BY <1>2, Zenon DEF LoopTypeOK
  <2>2. CASE program = "probe"
    <3>1. /\ counted' = counted + s.measured /\ write_errors' = write_errors
          /\ measured' = measured \/ measured' = measured + s.measured
          /\ \/ warmup_discarded' = warmup_discarded + s.measured
             \/ warmup_discarded' = warmup_discarded + 0
      BY <1>1, <2>2, Zenon
    <3> QED BY <1>4, <2>1, <3>1, SMTT(30)
  <2>3. CASE program # "probe"
    <3>1. /\ counted' = counted \/ counted' = counted + Len(b)
          /\ write_errors' = write_errors \/ write_errors' = write_errors + 1
          /\ measured' = measured /\ warmup_discarded' = warmup_discarded
      BY <1>1, <2>3, Zenon
    <3> QED BY <1>0, <2>1, <3>1, SMTT(30)
  <2> QED BY <2>2, <2>3, Zenon
<1>6. LoopTypeOK'
  BY <1>1, <1>2, <1>4, <1>5, Zenon DEF LoopTypeOK
<1>7. ToldNow'
  BY <1>1, <1>3, Zenon DEF Told, ToldNow
<1>8. Told(Reading, bus_frames)'
  <2>1. (Told(Reading, bus_frames) <=> ToldNow)'
    BY <1>6, ToldIs, PTL
  <2> QED BY <1>7, <2>1, Zenon
<1>9. (program = "probe" => Samples)'
  <2> SUFFICES ASSUME program = "probe" PROVE Samples'
    BY <1>1, Zenon
  <2>1. s.bus = bus_frames + s.measured
    BY <1>3, Zenon DEF Told
  <2>2. /\ measured + warmup_discarded = counted /\ counted = bus_frames
        /\ measured \in Nat /\ warmup_discarded \in Nat
    BY <1>2, Zenon DEF LoopsInv, Samples, LoopTypeOK
  <2>3. CASE InWarmup
    BY <1>1, <1>2, <1>4, <2>1, <2>2, <2>3, SMTT(30) DEF Samples
  <2>4. CASE ~InWarmup
    BY <1>1, <1>2, <1>4, <2>1, <2>2, <2>4, SMTT(30) DEF Samples
  <2> QED BY <2>3, <2>4, Zenon
<1> QED BY <1>1, <1>6, <1>8, <1>9, Zenon DEF LoopsInv

LEMMA LoopsStep == LoopsInv /\ [LoopsNext]_loopVars => LoopsInv'
<1> SUFFICES ASSUME LoopsInv, [LoopsNext]_loopVars PROVE LoopsInv'
  BY Zenon
<1>0. protocol_errs \in Nat
  BY Zenon DEF LoopsInv, LoopTypeOK
<1>1. CASE WarmupOver
  <2>1. /\ UNCHANGED <<program, figures, upcoming, begun, holes, bus_frames, protocol_errs>>
        /\ lpc' # "returned"
    BY <1>1, Zenon DEF WarmupOver, options, stream
  <2> QED BY <1>0, <2>1, FiguresKept, Zenon DEF LoopsInv
<1>2. CASE ConnectFails
  <2>1. /\ UNCHANGED <<program, figures, upcoming, begun, holes, bus_frames, protocol_errs>>
        /\ lpc' # "returned"
    BY <1>2, Zenon DEF ConnectFails, options, stream
  <2> QED BY <1>0, <2>1, FiguresKept, Zenon DEF LoopsInv
<1>3. CASE TimeUp
  <2>1. /\ UNCHANGED <<program, figures, upcoming, begun, holes, bus_frames, protocol_errs>>
        /\ result' = Status(protocol_errs)
    BY <1>3, Zenon DEF TimeUp, options, stream
  <2>2. result' = Status(protocol_errs)'
    BY <2>1, Zenon DEF Status, figures
  <2> QED BY <1>0, <2>1, <2>2, FiguresKept, Zenon DEF LoopsInv
<1>4. ASSUME NEW errs \in 0 .. 1, StreamEnds(errs) PROVE LoopsInv'
  <2>1. /\ UNCHANGED <<program, figures, upcoming, begun, holes, bus_frames>>
        /\ protocol_errs' = protocol_errs + errs
        /\ lpc' = "returned" => result' = Status(protocol_errs + errs)
    BY <1>4, Zenon DEF StreamEnds, options, stream
  <2>2. lpc' = "returned" => result' = Status(protocol_errs)'
    BY <2>1, Zenon DEF Status, figures
  <2>3. protocol_errs' \in Nat
    BY <1>0, <2>1, SMTT(30)
  <2> QED BY <2>1, <2>2, <2>3, FiguresKept, Zenon DEF LoopsInv
<1>5. CASE UNCHANGED loopVars
  <2>1. UNCHANGED <<program, figures, upcoming, begun, holes, bus_frames, protocol_errs, lpc,
                    result>>
    BY <1>5, Zenon DEF loopVars, options, stream
  <2>2. (lpc = "returned" => result = Status(protocol_errs))'
    BY <2>1, Zenon DEF LoopsInv, Status, figures
  <2> QED BY <1>0, <2>1, <2>2, FiguresKept, Zenon DEF LoopsInv
<1> QED BY <1>1, <1>2, <1>3, <1>4, <1>5, LoopsConnected, LoopsBatch, Zenon DEF LoopsNext

\* The closing reports of etg-probe, etg-record and etg-cadence tell the truth,
\* over any number of connections to any gateway and for any batches: the exit
\* status, and the probe's count of samples.
THEOREM ReportIsHonest == LoopsSpec => []ReportHonest
<1>1. LoopsInv => ReportHonest
  <2> SUFFICES ASSUME LoopsInv PROVE ReportHonest
    BY Zenon
  <2>1. ToldNow
    BY ToldIs, Zenon DEF LoopsInv
  <2>2. gaps.silent_lost = holes /\ gaps.frames = bus_frames
    BY <2>1, Zenon DEF ToldNow
  <2>3. lpc = "returned" =>
           (result = 1 <=>
               \/ protocol_errs > 0
               \/ program = "recorder" /\ write_errors > 0
               \/ program # "recorder" /\ holes > 0)
    BY <2>2, SMTT(30) DEF LoopsInv, Status
  <2>4. program = "probe" =>
           /\ measured + warmup_discarded = counted
           /\ counted = bus_frames /\ gaps.frames = bus_frames
    BY <2>2, Zenon DEF LoopsInv, Samples
  <2> QED BY <2>3, <2>4, Zenon DEF ReportHonest
<1> QED BY <1>1, LoopsInitial, LoopsStep, PTL DEF LoopsSpec

----------------------------------------------------------------------------
(* The latency window of the live view                                     *)

\* In order, and nothing later than t.
Chrono(q, t) ==
    /\ \A i \in 1 .. Len(q) : q[i] <= t
    /\ \A i, j \in 1 .. Len(q) : i <= j => q[i] <= q[j]

\* What a page may show: not too many samples, and none too old beside another.
Fits(q) ==
    /\ q \in Seq(Nat) /\ Len(q) <= MaxSamples
    /\ \A i, j \in 1 .. Len(q) : q[j] - q[i] <= Window

\* Samples of the present instant keep the order.
LEMMA ChronoAdded ==
    ASSUME NEW q \in Seq(Nat), NEW t \in Nat, Chrono(q, t), NEW n \in Nat,
           NEW r, r = q \o [i \in 1 .. n |-> t]
    PROVE  r \in Seq(Nat) /\ Len(r) = Len(q) + n /\ Chrono(r, t)
<1> DEFINE e == [i \in 1 .. n |-> t]
<1>1. e \in Seq(Nat) /\ Len(e) = n /\ \A i \in 1 .. n : e[i] = t
  <2>1. e \in [1 .. n -> Nat]
    BY Zenon
  <2>2. e \in Seq(Nat)
    BY <2>1
  <2> QED BY <2>2
<1> HIDE DEF e
<1>2. r = q \o e
  BY Zenon DEF e
<1>3. /\ r \in Seq(Nat) /\ Len(r) = Len(q) + n /\ Len(q) \in Nat
      /\ \A i \in 1 .. Len(q) : r[i] = q[i] /\ r[i] \in Nat
      /\ \A i \in 1 .. Len(r) : i \in 1 .. Len(q) \/ (r[i] = t /\ ~(i \in 1 .. Len(q)))
  <2>1. /\ r \in Seq(Nat) /\ Len(r) = Len(q) + n /\ Len(q) \in Nat
        /\ \A i \in 1 .. Len(q) : r[i] = q[i] /\ r[i] \in Nat
    BY <1>1, <1>2, SMTT(30)
  <2>2. ASSUME NEW i \in 1 .. Len(r), ~(i \in 1 .. Len(q)) PROVE r[i] = t
    <3>1. i > Len(q) /\ i - Len(q) \in 1 .. n
      BY <2>1, <2>2, SMTT(30)
    <3>2. r[i] = e[i - Len(q)]
      BY <1>1, <1>2, <2>1, <3>1, SMTT(30)
    <3> QED BY <1>1, <3>1, <3>2, Zenon
  <2> QED BY <2>1, <2>2, Zenon
<1>4. \A i \in 1 .. Len(r) : r[i] <= t
  BY <1>3, SMTT(30) DEF Chrono
<1>5. ASSUME NEW i \in 1 .. Len(r), NEW j \in 1 .. Len(r), i <= j PROVE r[i] <= r[j]
  <2>1. CASE j \in 1 .. Len(q)
    <3>1. i \in 1 .. Len(q)
      BY <1>3, <1>5, <2>1, SMTT(30)
    <3> QED BY <1>3, <1>5, <2>1, <3>1, Zenon DEF Chrono
  <2>2. CASE ~(j \in 1 .. Len(q))
    BY <1>3, <1>4, <2>2, Zenon
  <2> QED BY <2>1, <2>2, Zenon
<1> QED BY <1>3, <1>4, <1>5, Zenon DEF Chrono

\* So does dropping the front.
LEMMA ChronoSuffix ==
    ASSUME NEW q \in Seq(Nat), NEW t \in Nat, Chrono(q, t), NEW a \in 1 .. Len(q) + 1,
           NEW r, r = SubSeq(q, a, Len(q))
    PROVE  /\ r \in Seq(Nat) /\ Len(r) = Len(q) - a + 1 /\ Chrono(r, t)
           /\ \A i \in 1 .. Len(r) : r[i] = q[a + i - 1] /\ a + i - 1 \in a .. Len(q)
<1>1. /\ r \in Seq(Nat) /\ Len(r) = Len(q) - a + 1 /\ Len(q) \in Nat
      /\ \A i \in 1 .. Len(r) : r[i] = q[a + i - 1]
  BY SMTT(30)
<1>2. \A i \in 1 .. Len(r) : a + i - 1 \in a .. Len(q) /\ a + i - 1 \in 1 .. Len(q)
  BY <1>1
<1>3. \A i \in 1 .. Len(r) : r[i] <= t
  BY <1>1, <1>2, Zenon DEF Chrono
<1>4. ASSUME NEW i \in 1 .. Len(r), NEW j \in 1 .. Len(r), i <= j PROVE r[i] <= r[j]
  <2>1. a + i - 1 <= a + j - 1
    BY <1>1, <1>4, SMTT(30)
  <2> QED BY <1>1, <1>2, <2>1, Zenon DEF Chrono
<1> QED BY <1>1, <1>2, <1>3, <1>4, Zenon DEF Chrono

\* The eviction of RollingLatency: what is left is within the window.
LEMMA FromWindowEffect ==
    ASSUME NEW q \in Seq(Nat), now \in Nat, Chrono(q, now), NEW r, r = FromWindow(q)
    PROVE  /\ r \in Seq(Nat) /\ Len(r) <= Len(q) /\ Chrono(r, now)
           /\ \A i \in 1 .. Len(r) : r[i] >= now - Window
<1> DEFINE P(h) == /\ h <= Len(q) => InWindow(q[h])
                   /\ \A j \in 1 .. h - 1 : ~InWindow(q[j])
           S == {h \in 1 .. Len(q) + 1 : h <= Len(q) => InWindow(q[h])}
           first == CHOOSE h \in 1 .. Len(q) + 1 : P(h)
<1>0. Len(q) \in Nat /\ Window \in Nat
  BY LiveViewAssumption
<1>1. S \in SUBSET Nat /\ S # {}
  <2>1. Len(q) + 1 \in S
    BY <1>0
  <2> QED BY <1>0, <2>1
<1>2. PICK m \in S : \A h \in S : m <= h
  <2> HIDE DEF S
  <2> QED BY <1>1, Least, Zenon
<1>3. m \in 1 .. Len(q) + 1 /\ (m <= Len(q) => InWindow(q[m]))
  BY <1>2, Zenon
<1>4. ASSUME NEW j \in 1 .. m - 1 PROVE ~InWindow(q[j])
  <2>1. j \in 1 .. Len(q) + 1 /\ j <= Len(q) /\ ~(m <= j)
    BY <1>0, <1>3, SMTT(30)
  <2>2. j \notin S
    BY <1>2, <2>1, Zenon
  <2> QED BY <2>1, <2>2, Zenon
<1>5. P(m)
  BY <1>3, <1>4, Zenon
<1> HIDE DEF P
<1>6. first \in 1 .. Len(q) + 1 /\ P(first)
  BY <1>3, <1>5, Zenon
<1>7. r = SubSeq(q, first, Len(q))
  BY Zenon DEF FromWindow, P
<1> HIDE DEF first
<1>8. /\ r \in Seq(Nat) /\ Len(r) = Len(q) - first + 1 /\ Chrono(r, now)
      /\ \A i \in 1 .. Len(r) : r[i] = q[first + i - 1] /\ first + i - 1 \in first .. Len(q)
  BY <1>6, <1>7, ChronoSuffix, Zenon
<1>9. ASSUME NEW i \in 1 .. Len(r) PROVE r[i] >= now - Window
  <2>1. first \in 1 .. Len(q) /\ first + i - 1 \in 1 .. Len(q) /\ first <= first + i - 1
    BY <1>0, <1>6, <1>8
  <2>2. InWindow(q[first])
    BY <1>6, <2>1, SMTT(30) DEF P
  <2>3. q[first] <= q[first + i - 1] /\ q[first] \in Nat /\ q[first + i - 1] \in Nat
    BY <2>1, SMTT(30) DEF Chrono
  <2>4. r[i] = q[first + i - 1]
    BY <1>8, Zenon
  <2>5. q[first] >= now - Window
    BY <2>2, Zenon DEF InWindow
  <2> QED BY <1>0, <2>3, <2>4, <2>5, SMTT(30)
<1>10. Len(r) <= Len(q)
  BY <1>0, <1>6, <1>8
<1> QED BY <1>8, <1>9, <1>10, Zenon

\* RollingLatency::add, for a batch.
LEMMA AddedEffect ==
    ASSUME samples \in Seq(Nat), now \in Nat, Chrono(samples, now), NEW n \in Nat,
           NEW r, r = Added(n)
    PROVE  Fits(r) /\ Chrono(r, now) /\ Len(r) <= Len(samples) + n
<1> DEFINE q == samples \o [i \in 1 .. n |-> now]
           w == FromWindow(q)
<1>0. Window \in Nat /\ MaxSamples \in Nat /\ Len(samples) \in Nat
  BY LiveViewAssumption
<1>1. q \in Seq(Nat) /\ Len(q) = Len(samples) + n /\ Chrono(q, now)
  BY ChronoAdded, Zenon
<1>2. r = Newest(w, MaxSamples)
  BY Zenon DEF Added
<1> HIDE DEF q
<1>3. /\ w \in Seq(Nat) /\ Len(w) <= Len(q) /\ Chrono(w, now)
      /\ \A i \in 1 .. Len(w) : w[i] >= now - Window
  BY <1>1, FromWindowEffect, Zenon
<1> HIDE DEF w
<1>4. CASE Len(w) <= MaxSamples
  <2>1. r = w
    BY <1>2, <1>4, Zenon DEF Newest
  <2>2. \A i, j \in 1 .. Len(w) : w[j] - w[i] <= Window
    BY <1>0, <1>3, SMTT(30) DEF Chrono
  <2> QED BY <1>0, <1>1, <1>3, <1>4, <2>1, <2>2, Zenon DEF Fits
<1>5. CASE ~(Len(w) <= MaxSamples)
  <2> DEFINE a == Len(w) - MaxSamples + 1
  <2>0. Len(w) \in Nat /\ a \in 1 .. Len(w) + 1 /\ Len(w) - a + 1 = MaxSamples
    BY <1>0, <1>3, <1>5, SMTT(30)
  <2>1. r = SubSeq(w, a, Len(w))
    BY <1>2, <1>5, Zenon DEF Newest
  <2> HIDE DEF a
  <2>2. /\ r \in Seq(Nat) /\ Len(r) = Len(w) - a + 1 /\ Chrono(r, now)
        /\ \A i \in 1 .. Len(r) : r[i] = w[a + i - 1] /\ a + i - 1 \in a .. Len(w)
    BY <1>3, <2>0, <2>1, ChronoSuffix, Zenon
  <2>3. \A i \in 1 .. Len(r) : r[i] \in Nat /\ r[i] <= now /\ r[i] >= now - Window
    <3> TAKE i \in 1 .. Len(r)
    <3>1. a + i - 1 \in 1 .. Len(w) /\ r[i] = w[a + i - 1]
      BY <2>0, <2>2
    <3> QED BY <1>3, <2>2, <3>1, SMTT(30) DEF Chrono
  <2>4. \A i, j \in 1 .. Len(r) : r[j] - r[i] <= Window
    BY <1>0, <2>3, SMTT(30)
  <2> QED BY <1>0, <1>1, <1>3, <2>0, <2>2, <2>4, SMTT(30) DEF Fits
<1> QED BY <1>4, <1>5, Zenon

----------------------------------------------------------------------------
(* The rate ring                                                           *)

\* Less than two rounds of a ring: the remainder is what is left of one.
IsWrapped(r, a, M) == (a < M => r = a) /\ (~(a < M) => r = a - M)

LEMMA Wrapped ==
    ASSUME NEW M \in Nat, M > 0, NEW a \in Nat, a < M + M
    PROVE  IsWrapped(a % M, a, M)
<1>1. CASE a < M
  <2>1. (M * 0 + a) % M = a
    BY <1>1, Remainder, SMTT(30)
  <2>2. M * 0 + a = a
    BY SMTT(30)
  <2> QED BY <1>1, <2>1, <2>2, Zenon DEF IsWrapped
<1>2. CASE ~(a < M)
  <2>1. a - M \in Nat /\ a - M < M
    BY <1>2, SMTT(30)
  <2>2. (M * 1 + (a - M)) % M = a - M
    BY <2>1, Remainder, SMTT(30)
  <2>3. M * 1 + (a - M) = a
    BY SMTT(30)
  <2> QED BY <1>2, <2>2, <2>3, Zenon DEF IsWrapped
<1> QED BY <1>1, <1>2, Zenon

Ticks == [time : Nat, frames : Nat]

\* Entry, of a given history.
EntryOf(h, n) == IF n < 2 THEN 0 ELSE h[n].frames - h[n - 1].frames

\* What has been counted does not change.
LEMMA EntryKept ==
    ASSUME NEW h \in Seq(Ticks), NEW c \in Ticks, NEW n \in Int, n <= Len(h)
    PROVE  EntryOf(Append(h, c), n) = EntryOf(h, n)
<1>1. CASE n < 2
  BY <1>1, Zenon DEF EntryOf
<1>2. CASE ~(n < 2)
  <2>1. n \in 1 .. Len(h) /\ n - 1 \in 1 .. Len(h)
    BY <1>2, SMTT(30)
  <2>2. \A i \in 1 .. Len(h) : Append(h, c)[i] = h[i]
    BY SMTT(30)
  <2>3. Append(h, c)[n] = h[n] /\ Append(h, c)[n - 1] = h[n - 1]
    BY <2>1, <2>2, Zenon
  <2> QED BY <1>2, <2>3, Zenon DEF EntryOf
<1> QED BY <1>1, <1>2, Zenon

\* A ring g with the next slot p holds the last entries of the history h.
Rings(g, p, h) ==
    \A i \in 1 .. RateWindow :
        g[(p + i - 1) % RateWindow] = EntryOf(h, Len(h) - RateWindow + i)

LEMMA RingAdvances ==
    ASSUME NEW g \in [0 .. RateWindow - 1 -> Int], NEW p \in 0 .. RateWindow - 1,
           NEW h \in Seq(Ticks), Len(h) >= 1, Rings(g, p, h),
           NEW c \in Ticks, NEW d \in Int, d = c.frames - h[Len(h)].frames
    PROVE  Rings([g EXCEPT ![p] = d], (p + 1) % RateWindow, Append(h, c))
<1> DEFINE W == RateWindow
           H == Append(h, c)
           G == [g EXCEPT ![p] = d]
           P == (p + 1) % W
<1>0. W \in Nat /\ W > 0 /\ p \in Nat /\ p < W
  BY LiveViewAssumption, SMTT(30)
<1>1. Len(H) = Len(h) + 1 /\ H[Len(h) + 1] = c /\ H[Len(h)] = h[Len(h)] /\ Len(h) \in Nat
  OBVIOUS
<1>2. IsWrapped(P, p + 1, W)
  <2>1. p + 1 \in Nat /\ p + 1 < W + W
    BY <1>0, SMTT(30)
  <2> QED BY <1>0, <2>1, Wrapped, Zenon
<1>3. P \in Nat /\ P < W /\ (P = p + 1 \/ (p + 1 = W /\ P = 0))
  <2> HIDE DEF P
  <2> QED BY <1>0, <1>2, SMTT(30) DEF IsWrapped
<1> HIDE DEF P
<1>4. ASSUME NEW i \in 1 .. W
      PROVE  G[(P + i - 1) % W] = EntryOf(H, Len(H) - W + i)
  <2>1. IsWrapped((P + i - 1) % W, P + i - 1, W)
    <3>1. P + i - 1 \in Nat /\ P + i - 1 < W + W
      BY <1>0, <1>3, SMTT(30)
    <3> QED BY <1>0, <3>1, Wrapped, Zenon
  <2>2. CASE i = W
    <3>1. (P + i - 1) % W = p
      BY <1>0, <1>3, <2>1, <2>2, SMTT(30) DEF IsWrapped
    <3>2. G[p] = d
      BY <1>0, Zenon
    <3>3. Len(H) - W + i = Len(h) + 1 /\ ~(Len(h) + 1 < 2) /\ Len(h) + 1 - 1 = Len(h)
      BY <1>0, <1>1, <2>2, SMTT(30)
    <3>4. EntryOf(H, Len(h) + 1) = H[Len(h) + 1].frames - H[Len(h)].frames
      BY <3>3, SMTT(30) DEF EntryOf
    <3> QED BY <1>1, <3>1, <3>2, <3>3, <3>4, Zenon
  <2>3. CASE i # W
    <3>1. i + 1 \in 1 .. W /\ i \in 1 .. W - 1
      BY <1>0, <2>3, SMTT(30)
    <3>2. IsWrapped((p + (i + 1) - 1) % W, p + (i + 1) - 1, W)
      <4>1. p + (i + 1) - 1 \in Nat /\ p + (i + 1) - 1 < W + W
        BY <1>0, <3>1, SMTT(30)
      <4> QED BY <1>0, <4>1, Wrapped, Zenon
    <3>3. (P + i - 1) % W = (p + (i + 1) - 1) % W
      BY <1>0, <1>3, <2>1, <3>1, <3>2, SMTT(30) DEF IsWrapped
    <3>4. (p + (i + 1) - 1) % W # p /\ (p + (i + 1) - 1) % W \in 0 .. W - 1
      BY <1>0, <3>1, <3>2, SMTT(30) DEF IsWrapped
    <3>5. G[(P + i - 1) % W] = g[(p + (i + 1) - 1) % W]
      BY <3>3, <3>4, Zenon
    <3>6. g[(p + (i + 1) - 1) % W] = EntryOf(h, Len(h) - W + (i + 1))
      BY <3>1, Zenon DEF Rings
    <3>7. /\ Len(h) - W + (i + 1) \in Int /\ Len(h) - W + (i + 1) <= Len(h)
          /\ Len(H) - W + i = Len(h) - W + (i + 1)
      BY <1>0, <1>1, <3>1, SMTT(30)
    <3>8. EntryOf(H, Len(h) - W + (i + 1)) = EntryOf(h, Len(h) - W + (i + 1))
      BY <3>7, EntryKept, Zenon
    <3> QED BY <3>5, <3>6, <3>7, <3>8, Zenon
  <2> QED BY <2>2, <2>3, Zenon
<1> QED BY <1>4, Zenon DEF Rings, P

----------------------------------------------------------------------------
(* The live view                                                           *)

ViewTypeOK ==
    /\ now \in Nat /\ frames \in Nat /\ off_domain \in Nat
    /\ frames_at_tick \in Nat
    /\ rate \in [0 .. RateWindow - 1 -> Int] /\ rate_pos \in 0 .. RateWindow - 1
    /\ ticks \in Seq(Ticks) /\ Len(ticks) >= 1

\* Both what the handler has copied and what it will copy next leaves room for
\* the frames of other clocks.
Latency ==
    /\ Fits(samples) /\ Chrono(samples, now)
    /\ Len(samples) + off_domain <= frames
    /\ Fits(copied) /\ Len(copied) + off_domain <= frames

Ring ==
    /\ frames_at_tick = ticks[Len(ticks)].frames
    /\ Rings(rate, rate_pos, ticks)

PageRight ==
    /\ Fits(page.latency) /\ Len(page.latency) + page.off_domain <= page.frames
    /\ page.upto \in 1 .. Len(ticks)
    /\ \A i \in 1 .. RateWindow : page.rate[i] = EntryOf(ticks, page.upto - RateWindow + i)

ViewInv == ViewTypeOK /\ Latency /\ Ring /\ PageRight

\* No samples fit.
LEMMA NoSamples == ASSUME NEW t PROVE Fits(<<>>) /\ Chrono(<<>>, t) /\ Len(<<>>) = 0
<1>1. <<>> \in Seq(Nat) /\ Len(<<>>) = 0 /\ MaxSamples \in Nat /\ \A i \in 1 .. 0 : FALSE
  BY LiveViewAssumption, SMTT(30)
<1> QED BY <1>1, SMTT(30) DEF Fits, Chrono

\* Before the first tick every entry is 0.
LEMMA NothingCounted ==
    ASSUME NEW h, NEW n \in Int, n < 2
    PROVE  EntryOf(h, n) = 0
BY Zenon DEF EntryOf

LEMMA ViewInitial == ViewInit => ViewInv
<1> SUFFICES ASSUME ViewInit PROVE ViewInv
  BY Zenon
<1> DEFINE tick == [time |-> 0, frames |-> 0]
<1>0. RateWindow \in Nat /\ RateWindow > 0
  BY LiveViewAssumption, SMTT(30)
<1>1. /\ tick \in Ticks /\ tick.frames = 0 /\ ticks = <<tick>>
      /\ now = 0 /\ frames = 0 /\ off_domain = 0 /\ samples = <<>> /\ copied = <<>>
      /\ rate = [i \in 0 .. RateWindow - 1 |-> 0] /\ rate_pos = 0 /\ frames_at_tick = 0
      /\ page = [time |-> 0, frames |-> 0, off_domain |-> 0, latency |-> <<>>,
                 rate |-> [i \in 1 .. RateWindow |-> 0], upto |-> 1]
  BY Zenon DEF ViewInit, Ticks
<1> HIDE DEF tick
<1>2. ticks \in Seq(Ticks) /\ Len(ticks) = 1 /\ ticks[1] = tick
  BY <1>1, SMTT(30)
<1>3. ViewTypeOK
  BY <1>0, <1>1, <1>2, SMTT(30) DEF ViewTypeOK
<1>4. Latency
  BY <1>1, NoSamples, SMTT(30) DEF Latency
<1>5. \A i \in 1 .. RateWindow : EntryOf(ticks, 1 - RateWindow + i) = 0
  <2> TAKE i \in 1 .. RateWindow
  <2>1. 1 - RateWindow + i \in Int /\ 1 - RateWindow + i < 2
    BY <1>0, SMTT(30)
  <2> QED BY <2>1, NothingCounted, Zenon
<1>6. Ring
  <2>1. ASSUME NEW i \in 1 .. RateWindow PROVE rate[(rate_pos + i - 1) % RateWindow] = 0
    <3>1. rate_pos + i - 1 \in Nat /\ rate_pos + i - 1 < RateWindow + RateWindow
          /\ rate_pos + i - 1 < RateWindow
      BY <1>0, <1>1
    <3>2. IsWrapped((rate_pos + i - 1) % RateWindow, rate_pos + i - 1, RateWindow)
      BY <1>0, <3>1, Wrapped, Zenon
    <3>3. (rate_pos + i - 1) % RateWindow \in 0 .. RateWindow - 1
      BY <1>0, <3>1, <3>2, SMTT(30) DEF IsWrapped
    <3> QED BY <1>1, <3>3, Zenon
  <2> QED BY <1>1, <1>2, <1>5, <2>1, Zenon DEF Ring, Rings
<1>7. PageRight
  <2>1. /\ page.latency = <<>> /\ page.off_domain = 0 /\ page.frames = 0 /\ page.upto = 1
        /\ page.rate = [i \in 1 .. RateWindow |-> 0]
    BY <1>1, Zenon
  <2>2. \A i \in 1 .. RateWindow : page.rate[i] = EntryOf(ticks, page.upto - RateWindow + i)
    BY <1>5, <2>1, Zenon
  <2> QED BY <1>2, <2>1, <2>2, NoSamples, SMTT(30) DEF PageRight
<1> QED BY <1>3, <1>4, <1>6, <1>7, Zenon DEF ViewInv

\* Later, the samples are still no later than now.
LEMMA ChronoLater ==
    ASSUME NEW q \in Seq(Nat), NEW t \in Nat, Chrono(q, t)
    PROVE  Chrono(q, t + 1)
<1>1. \A i \in 1 .. Len(q) : q[i] \in Nat /\ q[i] <= t
  BY SMTT(30) DEF Chrono
<1>2. \A i \in 1 .. Len(q) : q[i] <= t + 1
  BY <1>1, SMTT(30)
<1> QED BY <1>2, Zenon DEF Chrono

LEMMA ViewAdvance == ASSUME ViewInv, Advance PROVE ViewInv'
<1>1. /\ now' = now + 1 /\ now \in Nat
      /\ UNCHANGED <<connected, frames, off_domain, samples, recent, rate, rate_pos,
                     frames_at_tick, next_tick, ticks, copying, copied, page>>
  BY Zenon DEF Advance, handler, ViewInv, ViewTypeOK
<1>2. ViewTypeOK'
  BY <1>1, SMTT(30) DEF ViewInv, ViewTypeOK
<1>3. Latency'
  <2>1. samples \in Seq(Nat) /\ Chrono(samples, now)
    BY Zenon DEF ViewInv, Latency, Fits
  <2>2. Chrono(samples, now + 1)
    BY <1>1, <2>1, ChronoLater, Zenon
  <2>3. Chrono(samples, now)'
    BY <1>1, <2>2, Zenon
  <2> QED BY <1>1, <2>3, Zenon DEF ViewInv, Latency, Fits
<1>4. Ring' /\ PageRight'
  BY <1>1, Zenon DEF ViewInv, Ring, Rings, PageRight, EntryOf, Fits
<1> QED BY <1>2, <1>3, <1>4, Zenon DEF ViewInv

\* The lock taken first.
LEMMA ViewCopy == ASSUME ViewInv, CopyLatency PROVE ViewInv'
<1>1. /\ copied' = samples
      /\ UNCHANGED <<now, came_round, connected, frames, off_domain, samples, recent, rate,
                     rate_pos, frames_at_tick, next_tick, ticks, page>>
  BY Zenon DEF CopyLatency, loop
<1>2. ViewTypeOK'
  BY <1>1, Zenon DEF ViewInv, ViewTypeOK
<1>3. Latency'
  BY <1>1, Zenon DEF ViewInv, Latency, Fits, Chrono
<1>4. Ring' /\ PageRight'
  BY <1>1, Zenon DEF ViewInv, Ring, Rings, PageRight, EntryOf, Fits
<1> QED BY <1>2, <1>3, <1>4, Zenon DEF ViewInv

\* And the second.
LEMMA ViewServe == ASSUME ViewInv, Serve PROVE ViewInv'
<1> DEFINE shown == [i \in 1 .. RateWindow |-> rate[SlotShown(i)]]
<1>1. /\ copied' = <<>>
      /\ UNCHANGED <<now, came_round, connected, frames, off_domain, samples, recent, rate,
                     rate_pos, frames_at_tick, next_tick, ticks>>
      /\ page' = [time |-> now, frames |-> frames, off_domain |-> off_domain,
                  latency |-> copied, rate |-> shown, upto |-> Len(ticks)]
  BY Zenon DEF Serve, loop
<1>2. ViewTypeOK'
  BY <1>1, Zenon DEF ViewInv, ViewTypeOK
<1>3. Latency'
  <2>1. off_domain \in Nat /\ frames \in Nat /\ Len(samples) \in Nat
        /\ Len(samples) + off_domain <= frames
    BY SMTT(30) DEF ViewInv, ViewTypeOK, Latency, Fits
  <2>2. Len(copied') = 0 /\ Fits(copied') /\ Fits(samples)
    BY <1>1, NoSamples, Zenon DEF ViewInv, Latency
  <2> QED BY <1>1, <2>1, <2>2, SMTT(30) DEF ViewInv, Latency, Fits, Chrono
<1>4. Ring'
  BY <1>1, Zenon DEF ViewInv, Ring, Rings, EntryOf
<1>5. /\ page'.latency = copied /\ page'.off_domain = off_domain /\ page'.frames = frames
      /\ page'.upto = Len(ticks) /\ page'.rate = shown
  <2> HIDE DEF shown
  <2> QED BY <1>1, Zenon
<1>6. \A i \in 1 .. RateWindow : shown[i] = EntryOf(ticks, Len(ticks) - RateWindow + i)
  <2>1. \A i \in 1 .. RateWindow : shown[i] = rate[(rate_pos + i - 1) % RateWindow]
    BY Zenon DEF SlotShown
  <2> HIDE DEF shown
  <2>2. Rings(rate, rate_pos, ticks)
    BY Zenon DEF ViewInv, Ring
  <2> QED BY <2>1, <2>2, Zenon DEF Rings
<1> HIDE DEF shown
<1>7. PageRight'
  <2>1. Fits(copied) /\ Len(copied) + off_domain <= frames /\ Len(ticks) \in 1 .. Len(ticks)
    BY DEF ViewInv, ViewTypeOK, Latency
  <2>2. Fits(page'.latency) /\ Len(page'.latency) + page'.off_domain <= page'.frames
    BY <1>5, <2>1, Zenon
  <2>3. page'.upto \in 1 .. Len(ticks')
    BY <1>1, <1>5, <2>1, Zenon
  <2>4. \A i \in 1 .. RateWindow :
            page'.rate[i] = EntryOf(ticks', page'.upto - RateWindow + i)
    BY <1>1, <1>5, <1>6, Zenon
  <2> QED BY <2>2, <2>3, <2>4, Zenon DEF PageRight, Fits, EntryOf
<1> QED BY <1>2, <1>3, <1>4, <1>7, Zenon DEF ViewInv

LEMMA ViewRound ==
    ASSUME ViewInv, NEW n \in 0 .. MaxBatch, NEW local \in BOOLEAN, Round(n, local)
    PROVE  ViewInv'
<1>0. n \in Nat
  BY LiveViewAssumption, SMTT(30)
<1>1. /\ now \in Nat /\ frames \in Nat /\ off_domain \in Nat /\ frames_at_tick \in Nat
      /\ rate \in [0 .. RateWindow - 1 -> Int] /\ rate_pos \in 0 .. RateWindow - 1
      /\ ticks \in Seq(Ticks) /\ Len(ticks) >= 1
  BY Zenon DEF ViewInv, ViewTypeOK
<1>2. /\ frames' = frames + n
      /\ off_domain' = off_domain + (IF local THEN 0 ELSE n)
      /\ samples' = IF local /\ n > 0 THEN Added(n) ELSE samples
      /\ UNCHANGED <<now, connected, copying, copied, page>>
  BY Zenon DEF Round, Foreign, handler
<1>3. /\ samples \in Seq(Nat) /\ Fits(samples) /\ Chrono(samples, now)
      /\ Len(samples) + off_domain <= frames /\ Len(samples) \in Nat
      /\ copied \in Seq(Nat) /\ Fits(copied) /\ Len(copied) + off_domain <= frames
      /\ Len(copied) \in Nat
  BY SMTT(30) DEF ViewInv, Latency, Fits
<1>n. /\ frames \in Nat /\ off_domain \in Nat /\ Len(samples) \in Nat /\ n \in Nat
      /\ Len(samples) + off_domain <= frames
      /\ frames' = frames + n
      /\ off_domain' = off_domain \/ off_domain' = off_domain + n
      /\ local => off_domain' = off_domain
  BY <1>0, <1>1, <1>2, <1>3, SMTT(30)
<1>4. Fits(samples') /\ Chrono(samples', now) /\ Len(samples') + off_domain' <= frames'
  <2>1. CASE local /\ n > 0
    <3>1. samples' = Added(n) /\ off_domain' = off_domain
      BY <1>1, <1>2, <2>1, SMTT(30)
    <3>2. Fits(samples') /\ Chrono(samples', now) /\ Len(samples') <= Len(samples) + n
      BY <1>0, <1>1, <1>3, <3>1, AddedEffect, Zenon
    <3>3. Len(samples') \in Nat
      BY <3>2, SMTT(30) DEF Fits
    <3>4. Len(samples') + off_domain' <= frames'
      BY <1>n, <2>1, <3>2, <3>3, SMTT(30)
    <3> QED BY <3>2, <3>4, Zenon
  <2>2. CASE ~(local /\ n > 0)
    <3>1. samples' = samples
      BY <1>2, <2>2, Zenon
    <3>2. Len(samples') + off_domain' <= frames'
      BY <1>n, <3>1, SMTT(30)
    <3> QED BY <1>3, <3>1, <3>2, Zenon
  <2> QED BY <2>1, <2>2, Zenon
<1>5. Len(copied) + off_domain' <= frames' /\ off_domain' \in Nat /\ frames' \in Nat
  BY <1>0, <1>1, <1>2, <1>3, SMTT(30)
<1>6. Latency'
  <2>1. Fits(copied') /\ Len(copied') + off_domain' <= frames'
    BY <1>2, <1>3, <1>5, Zenon
  <2> QED BY <1>2, <1>4, <2>1, Zenon DEF Latency, Fits, Chrono
<1>7. /\ page \in {page'} /\ Fits(page.latency)
      /\ Len(page.latency) + page.off_domain <= page.frames
      /\ page.upto \in 1 .. Len(ticks)
      /\ \A i \in 1 .. RateWindow : page.rate[i] = EntryOf(ticks, page.upto - RateWindow + i)
  BY <1>2, Zenon DEF ViewInv, PageRight
<1>8. CASE TickDue
  <2> DEFINE c == [time |-> now, frames |-> frames']
             d == frames' - frames_at_tick
  <2>1. /\ rate' = [rate EXCEPT ![rate_pos] = d] /\ frames_at_tick' = frames'
        /\ rate_pos' = (rate_pos + 1) % RateWindow /\ ticks' = Append(ticks, c)
    BY <1>8, Zenon DEF Round, NextSlot
  <2>2. c \in Ticks /\ c.frames = frames' /\ d \in Int
    BY <1>1, <1>5, SMTT(30) DEF Ticks
  <2>3. frames_at_tick = ticks[Len(ticks)].frames /\ Rings(rate, rate_pos, ticks)
    BY Zenon DEF ViewInv, Ring
  <2>4. d = c.frames - ticks[Len(ticks)].frames
    BY <2>2, <2>3, Zenon
  <2> HIDE DEF c, d
  <2>5. Rings(rate', rate_pos', ticks')
    <3>1. Rings([rate EXCEPT ![rate_pos] = d], (rate_pos + 1) % RateWindow, Append(ticks, c))
      BY <1>1, <2>2, <2>3, <2>4, RingAdvances, Zenon
    <3> QED BY <2>1, <3>1, Zenon
  <2>6. /\ ticks' \in Seq(Ticks) /\ Len(ticks') = Len(ticks) + 1
        /\ ticks'[Len(ticks')] = c
    BY <1>1, <2>1, <2>2, SMTT(30)
  <2>7. Ring'
    BY <2>1, <2>2, <2>5, <2>6, Zenon DEF Ring, Rings, EntryOf
  <2>8. rate_pos' \in 0 .. RateWindow - 1
    <3>1. RateWindow \in Nat /\ RateWindow > 0
      BY LiveViewAssumption
    <3>2. rate_pos + 1 \in Nat /\ rate_pos + 1 < RateWindow + RateWindow
      BY <1>1, <3>1
    <3>3. IsWrapped(rate_pos', rate_pos + 1, RateWindow)
      BY <2>1, <3>1, <3>2, Wrapped, Zenon
    <3> QED BY <1>1, <3>1, <3>3, SMTT(30) DEF IsWrapped
  <2>9. ViewTypeOK'
    <3>1. rate' \in [0 .. RateWindow - 1 -> Int]
      BY <1>1, <2>1, <2>2, Zenon
    <3> QED BY <1>1, <1>2, <1>5, <2>1, <2>6, <2>8, <3>1, SMTT(30) DEF ViewTypeOK
  <2>10. PageRight'
    <3>1. ASSUME NEW i \in 1 .. RateWindow
          PROVE  page.rate[i] = EntryOf(ticks', page.upto - RateWindow + i)
      <4>1. page.upto - RateWindow + i \in Int /\ page.upto - RateWindow + i <= Len(ticks)
        BY <1>1, <1>7, LiveViewAssumption, SMTT(30)
      <4>2. EntryOf(ticks', page.upto - RateWindow + i)
            = EntryOf(ticks, page.upto - RateWindow + i)
        BY <1>1, <2>1, <2>2, <4>1, EntryKept, Zenon
      <4> QED BY <1>7, <4>2, Zenon
    <3>2. page.upto \in 1 .. Len(ticks')
      BY <1>1, <1>7, <2>6
    <3> QED BY <1>2, <1>7, <3>1, <3>2, Zenon DEF PageRight, Fits, EntryOf
  <2> QED BY <1>6, <2>7, <2>9, <2>10, Zenon DEF ViewInv
<1>9. CASE ~TickDue
  <2>1. UNCHANGED <<next_tick, rate, frames_at_tick, rate_pos, ticks>>
    BY <1>9, Zenon DEF Round
  <2>2. ViewTypeOK'
    BY <1>1, <1>2, <1>5, <2>1, Zenon DEF ViewTypeOK
  <2>3. Ring'
    BY <2>1, Zenon DEF ViewInv, Ring, Rings, EntryOf
  <2>4. PageRight'
    BY <1>2, <1>7, <2>1, Zenon DEF PageRight, Fits, EntryOf
  <2> QED BY <1>6, <2>2, <2>3, <2>4, Zenon DEF ViewInv
<1> QED BY <1>8, <1>9, Zenon

LEMMA ViewStep == ViewInv /\ [ViewNext]_viewVars => ViewInv'
<1> SUFFICES ASSUME ViewInv, [ViewNext]_viewVars PROVE ViewInv'
  BY Zenon
<1>1. CASE ViewConnect \/ ViewDisconnect \/ UNCHANGED viewVars
  <2>1. UNCHANGED <<now, frames, off_domain, samples, rate, rate_pos, frames_at_tick, ticks,
                    copied, page>>
    BY <1>1, Zenon DEF ViewConnect, ViewDisconnect, viewVars, loop, handler
  <2>2. ViewTypeOK'
    BY <2>1, Zenon DEF ViewInv, ViewTypeOK
  <2>3. Latency'
    BY <2>1, Zenon DEF ViewInv, Latency, Fits, Chrono
  <2>4. Ring' /\ PageRight'
    BY <2>1, Zenon DEF ViewInv, Ring, Rings, PageRight, EntryOf, Fits
  <2> QED BY <2>2, <2>3, <2>4, Zenon DEF ViewInv
<1> QED BY <1>1, ViewAdvance, ViewCopy, ViewServe, ViewRound, Zenon DEF ViewNext

\* The page of etg-view is consistent although json_stats takes the lock twice:
\* for every window, every limit on the samples, every length of the ring and
\* any batches and outages.
THEOREM PageIsConsistent == ViewSpec => []PageConsistent
<1>1. ViewInv => PageConsistent
  <2> SUFFICES ASSUME ViewInv PROVE PageConsistent
    BY Zenon
  <2>1. Fits(page.latency) /\ Len(page.latency) + page.off_domain <= page.frames
    BY Zenon DEF ViewInv, PageRight
  <2>2. \A i \in 1 .. RateWindow : page.rate[i] = Entry(page.upto - RateWindow + i)
    BY Zenon DEF ViewInv, PageRight, Entry, EntryOf
  <2>3. /\ page.latency \in Seq(Nat) /\ Len(page.latency) <= MaxSamples
        /\ \A i, j \in 1 .. Len(page.latency) : page.latency[j] - page.latency[i] <= Window
    BY <2>1, Zenon DEF Fits
  <2>4. \A i \in DOMAIN page.latency :
            page.latency[Len(page.latency)] - page.latency[i] <= Window
    <3> TAKE i \in DOMAIN page.latency
    <3>1. i \in 1 .. Len(page.latency) /\ Len(page.latency) \in 1 .. Len(page.latency)
      BY <2>3, SMTT(30)
    <3> QED BY <2>3, <3>1, Zenon
  <2> QED BY <2>1, <2>2, <2>3, <2>4, Zenon DEF PageConsistent
<1> QED BY <1>1, ViewInitial, ViewStep, PTL DEF ViewSpec

----------------------------------------------------------------------------
(* The median                                                              *)

\* One of finitely many numbers is the greatest.
LEMMA Greatest ==
    ASSUME NEW n \in Nat, n > 0, NEW f \in [1 .. n -> Nat]
    PROVE  \E i \in 1 .. n : \A j \in 1 .. n : f[j] <= f[i]
<1> DEFINE Top(m) == \E i \in 1 .. m : \A j \in 1 .. m : f[j] <= f[i]
           S == {m \in 0 .. n : m = 0 \/ Top(m)}
<1>1. 0 \in S
  OBVIOUS
<1>2. ASSUME NEW m \in 1 .. n, m - 1 \in S PROVE m \in S
  <2>1. CASE m - 1 = 0
    <3>1. m = 1 /\ 1 \in 1 .. m /\ f[1] \in Nat /\ \A j \in 1 .. m : j = 1
      BY <2>1
    <3>2. Top(m)
      BY <3>1
    <3> QED BY <3>2, SMTT(30)
  <2>2. CASE m - 1 # 0
    <3>1. PICK i \in 1 .. m - 1 : \A j \in 1 .. m - 1 : f[j] <= f[i]
      BY <1>2, <2>2, Zenon
    <3>2. /\ i \in 1 .. m /\ m \in 1 .. m /\ f[i] \in Nat /\ f[m] \in Nat
          /\ \A j \in 1 .. m : f[j] \in Nat /\ (j = m \/ j \in 1 .. m - 1)
      OBVIOUS
    <3>3. CASE f[m] <= f[i]
      <4>1. Top(m)
        BY <3>1, <3>2, <3>3, Zenon
      <4> QED BY <4>1, SMTT(30)
    <3>4. CASE f[i] <= f[m]
      <4>1. \A j \in 1 .. m : f[j] <= f[m]
        BY <3>1, <3>2, <3>4, SMTT(30)
      <4>2. Top(m)
        BY <3>2, <4>1, Zenon
      <4> QED BY <4>2
    <3>5. f[m] <= f[i] \/ f[i] <= f[m]
      BY <3>2, SMTT(30)
    <3> QED BY <3>3, <3>4, <3>5, Zenon
  <2> QED BY <2>1, <2>2, Zenon
<1>3. \A m \in 0 .. n : m \in S
  <2>1. \A m \in 1 .. n : m - 1 \in S => m \in S
    BY <1>2, Zenon
  <2> HIDE DEF S
  <2> QED BY <1>1, <2>1, Upto, Zenon
<1>4. n \in 0 .. n
  OBVIOUS
<1>5. n \in S
  BY <1>3, <1>4, Zenon
<1> QED BY <1>5

\* The median of some samples is one of them.
LEMMA MedianIsSample ==
    ASSUME NEW q \in Seq(Nat), Len(q) > 0
    PROVE  \E i \in 1 .. Len(q) : Median(q) = q[i]
<1>0. PICK n \in Nat : n = Len(q) /\ n > 0 /\ DOMAIN q = 1 .. n /\ q \in [1 .. n -> Nat]
  OBVIOUS
<1> DEFINE h == Len(q) \div 2
           Set == {q[i] : i \in DOMAIN q}
           E == {v \in Set : HasBelow(q, v, h)}
<1>1. PICK top \in 1 .. n : \A j \in 1 .. n : q[j] <= q[top]
  BY <1>0, Greatest, Zenon
<1>2. HasBelow(q, q[top], h)
  <2> DEFINE pick == [j \in 0 .. h |-> j + 1]
  <2>1. {j \in DOMAIN q : q[j] <= q[top]} = 1 .. n
    BY <1>0, <1>1, Zenon
  <2>2. \A j \in 0 .. h : j \in Nat /\ j + 1 \in 1 .. n
    BY <1>0, SMTT(30)
  <2>3. pick \in [0 .. h -> 1 .. n]
    BY <2>2, Zenon
  <2>4. \A j, k \in 0 .. h : j + 1 = k + 1 => j = k
    BY <2>2
  <2>5. \A j, k \in 0 .. h : pick[j] = pick[k] => j = k
    BY <2>4, Zenon
  <2> HIDE DEF pick, h
  <2> QED BY <2>1, <2>3, <2>5, Zenon DEF HasBelow
<1>3. E \in SUBSET Nat /\ E # {}
  <2>1. q[top] \in E
    BY <1>0, <1>2, Zenon
  <2>2. Set \subseteq Nat
    BY <1>0, Zenon
  <2> QED BY <2>1, <2>2, Zenon
<1>4. PICK m \in E : \A v \in E : m <= v
  <2> HIDE DEF E
  <2> QED BY <1>3, Least, Zenon
<1>5. /\ m \in Set /\ HasBelow(q, m, h)
      /\ \A i \in DOMAIN q : HasBelow(q, q[i], h) => m <= q[i]
  BY <1>4, Zenon
<1> HIDE DEF E
<1>6. Median(q) \in Set
  BY <1>5, Zenon DEF Median, Sorted
<1> QED BY <1>0, <1>6, Zenon

----------------------------------------------------------------------------
(* What the monitor knows of an identifier.                                *)

States ==
    [last_ns : Nat, have_last : BOOLEAN, resync : BOOLEAN, samples : Seq(Nat),
     expected_ns : Nat]

\* A sample is a true interval, and so no shorter than the period (p: the bus is
\* punctual); so is the expectation, which is one of the samples.
Interval(v, x, p) == Period[x] <= v /\ (p => v = Period[x])

Sound(s, x, p) ==
    /\ s.resync => s.have_last
    /\ ~s.have_last => Len(s.samples) = 0
    /\ Len(s.samples) <= Calibrate
    /\ \A i \in 1 .. Len(s.samples) : Interval(s.samples[i], x, p)
    /\ Len(s.samples) < Calibrate => s.expected_ns = 0
    /\ ~(Len(s.samples) < Calibrate) => Interval(s.expected_ns, x, p)

\* The next interval of an identifier that is known becomes unmeasurable.
Resynced(s, r) ==
    /\ r \in States
    /\ r.last_ns = s.last_ns /\ r.have_last = s.have_last /\ r.samples = s.samples
    /\ r.expected_ns = s.expected_ns
    /\ r.have_last => r.resync
    /\ ~r.have_last => r.resync = s.resync

LEMMA ResyncEffect ==
    ASSUME NEW s \in States
    PROVE  Resynced(s, [s EXCEPT !.resync = s.have_last \/ s.resync])
<1> DEFINE r == [s EXCEPT !.resync = s.have_last \/ s.resync]
<1>1. s.have_last \in BOOLEAN /\ s.resync \in BOOLEAN
  BY Zenon DEF States
<1>2. s.have_last \/ s.resync \in BOOLEAN
  BY <1>1, Zenon
<1>3. r \in States
  BY <1>2, Zenon DEF States
<1>4. /\ r.last_ns = s.last_ns /\ r.have_last = s.have_last /\ r.samples = s.samples
      /\ r.expected_ns = s.expected_ns /\ r.resync = (s.have_last \/ s.resync)
  BY Zenon DEF States
<1> QED BY <1>1, <1>3, <1>4, Zenon DEF Resynced

LEMMA ResyncSound ==
    ASSUME NEW s, NEW r, Resynced(s, r), NEW x, NEW p, Sound(s, x, p)
    PROVE  Sound(r, x, p)
BY Zenon DEF Resynced, Sound

----------------------------------------------------------------------------
(* observe                                                                 *)

\* The frame stamped t comes a true interval after the last, when that one can
\* be measured.
Spaced(s, x, p, t) == s.have_last /\ ~s.resync => Interval(t - s.last_ns, x, p)

\* What observe leaves, and when it flags.
Noted(s, t, o) ==
    /\ o.state \in States
    /\ o.state.last_ns = t /\ o.state.have_last /\ ~o.state.resync
    /\ o.did = "anomaly" =>
          /\ s.have_last /\ ~s.resync /\ ~(Len(s.samples) < Calibrate)
          /\ t - s.last_ns > Factor * s.expected_ns
    /\ /\ s.have_last /\ ~s.resync /\ ~(Len(s.samples) < Calibrate)
       /\ t - s.last_ns > Factor * s.expected_ns
       => o.did = "anomaly"

LEMMA StateFields ==
    ASSUME NEW s \in States
    PROVE  /\ s.last_ns \in Nat /\ s.samples \in Seq(Nat) /\ s.expected_ns \in Nat
           /\ s.have_last \in BOOLEAN /\ s.resync \in BOOLEAN
BY Zenon DEF States

LEMMA StateWith ==
    ASSUME NEW s \in States, NEW t \in Nat
    PROVE  LET u == [s EXCEPT !.last_ns = t, !.have_last = TRUE] IN
           /\ u \in States
           /\ u.last_ns = t /\ u.have_last /\ u.resync = s.resync
           /\ u.samples = s.samples /\ u.expected_ns = s.expected_ns
BY Zenon DEF States

LEMMA Increased ==
    ASSUME NEW f \in Nat, NEW a \in Nat, NEW b \in Nat, a <= b
    PROVE  f * a <= f * b /\ f * a \in Nat /\ f * b \in Nat
<1>1. PICK d \in Nat : b = a + d
  <2>1. b - a \in Nat /\ b = a + (b - a)
    OBVIOUS
  <2> QED BY <2>1, Zenon
<1>2. f * b = f * a + f * d /\ f * a \in Nat /\ f * d \in Nat
  BY <1>1
<1> QED BY <1>2

\* Calibration: the samples grow, and the last one yields the expectation.
LEMMA CalibratedEffect ==
    ASSUME NEW s \in States, NEW x, NEW p, Sound(s, x, p),
           Len(s.samples) < Calibrate, s.have_last, NEW d \in Nat, Interval(d, x, p),
           NEW u, u = Calibrated(s, d)
    PROVE  /\ u \in States /\ Sound(u, x, p)
           /\ u.last_ns = s.last_ns /\ u.have_last = s.have_last /\ u.resync = s.resync
<1> DEFINE q == Append(s.samples, d)
           e == IF Len(q) = Calibrate THEN Median(q) ELSE s.expected_ns
<1>0. s.samples \in Seq(Nat) /\ s.expected_ns \in Nat /\ Calibrate \in Nat
  BY StateFields, CadenceAssumption, Zenon
<1>1. /\ q \in Seq(Nat) /\ Len(q) = Len(s.samples) + 1 /\ Len(q) > 0
      /\ Len(s.samples) \in Nat
      /\ \A i \in 1 .. Len(q) : q[i] = d \/ (i \in 1 .. Len(s.samples) /\ q[i] = s.samples[i])
  BY <1>0, SMTT(30)
<1>2. \A i \in 1 .. Len(q) : Interval(q[i], x, p) /\ q[i] \in Nat
  <2> TAKE i \in 1 .. Len(q)
  <2>1. q[i] \in Nat
    BY <1>1, SMTT(30)
  <2>2. q[i] = d \/ (i \in 1 .. Len(s.samples) /\ q[i] = s.samples[i])
    BY <1>1, Zenon
  <2>3. \A k \in 1 .. Len(s.samples) : Interval(s.samples[k], x, p)
    BY Zenon DEF Sound
  <2> QED BY <2>1, <2>2, <2>3, Zenon
<1>3. Median(q) \in Nat /\ Interval(Median(q), x, p)
  <2>1. PICK i \in 1 .. Len(q) : Median(q) = q[i]
    BY <1>1, MedianIsSample, Zenon
  <2> QED BY <1>2, <2>1, Zenon
<1>4. e \in Nat
  BY <1>0, <1>3, Zenon
<1>5. u = [s EXCEPT !.samples = q, !.expected_ns = e]
  BY Zenon DEF Calibrated
<1> HIDE DEF e, q
<1>6. /\ u \in States
      /\ u.last_ns = s.last_ns /\ u.have_last = s.have_last /\ u.resync = s.resync
      /\ u.samples = q /\ u.expected_ns = e
  BY <1>1, <1>4, <1>5, Zenon DEF States
<1>7. Len(q) <= Calibrate
  BY <1>0, <1>1, SMTT(30)
<1>8. Len(q) < Calibrate => e = 0
  BY <1>0, <1>1, SMTT(30) DEF e, Sound
<1>9. ~(Len(q) < Calibrate) => Interval(e, x, p)
  BY <1>0, <1>1, <1>3, SMTT(30) DEF e
<1>10. Sound(u, x, p)
  BY <1>2, <1>6, <1>7, <1>8, <1>9, Zenon DEF Sound
<1> QED BY <1>6, <1>10, Zenon

\* observe keeps what the monitor knows sound, and flags lateness only.
LEMMA ObservedEffect ==
    ASSUME NEW s \in States, NEW x \in Ids, NEW p, Sound(s, x, p), NEW t \in Nat,
           Spaced(s, x, p, t), NEW o, o = Observed(s, t)
    PROVE  Noted(s, t, o) /\ Sound(o.state, x, p)
<1> DEFINE dt == IF t > s.last_ns THEN t - s.last_ns ELSE 0
           v == [s EXCEPT !.last_ns = t, !.have_last = TRUE]
<1>0. /\ s.last_ns \in Nat /\ s.samples \in Seq(Nat) /\ s.expected_ns \in Nat
      /\ s.have_last \in BOOLEAN /\ s.resync \in BOOLEAN
      /\ Period[x] \in Nat /\ Period[x] > 0 /\ Factor \in Nat /\ Calibrate \in Nat
  BY StateFields, CadenceAssumption, SMTT(30)
<1>1. /\ v \in States
      /\ v.last_ns = t /\ v.have_last /\ v.resync = s.resync
      /\ v.samples = s.samples /\ v.expected_ns = s.expected_ns
  BY StateWith, Zenon
<1>2. /\ ~s.have_last => o = [state |-> v, did |-> "first"]
      /\ s.have_last /\ s.resync => o = [state |-> Measurable(v), did |-> "suppressed"]
      /\ s.have_last /\ ~s.resync /\ Len(s.samples) < Calibrate
         => o = [state |-> Calibrated(v, dt), did |-> "calibrated"]
      /\ s.have_last /\ ~s.resync /\ ~(Len(s.samples) < Calibrate)
         => o = [state |-> v, did |-> IF dt > Factor * s.expected_ns THEN "anomaly" ELSE "fine"]
  BY Zenon DEF Observed, Unmeasurable, Calibrating, TooLate
<1> HIDE DEF v
<1>3. CASE ~s.have_last
  <2>0. o = [state |-> v, did |-> "first"]
    BY <1>2, <1>3, Zenon
  <2>1. o.state = v /\ o.did = "first"
    BY <2>0, SMTT(30)
  <2>2. ~s.resync
    BY <1>3, Zenon DEF Sound
  <2>3. Sound(v, x, p)
    BY <1>1, <2>2, Zenon DEF Sound
  <2> QED BY <1>1, <1>3, <2>1, <2>2, <2>3, Zenon DEF Noted
<1>4. CASE s.have_last /\ s.resync
  <2> DEFINE w == [v EXCEPT !.resync = FALSE]
  <2>0. o = [state |-> w, did |-> "suppressed"]
    BY <1>2, <1>4, Zenon DEF Measurable
  <2>2. /\ w \in States
        /\ w.last_ns = t /\ w.have_last /\ ~w.resync
        /\ w.samples = s.samples /\ w.expected_ns = s.expected_ns
    BY <1>1, Zenon DEF States
  <2> HIDE DEF w
  <2>1. o.state = w /\ o.did = "suppressed"
    BY <2>0
  <2>3. Sound(w, x, p)
    BY <2>2, Zenon DEF Sound
  <2> QED BY <1>4, <2>1, <2>2, <2>3, Zenon DEF Noted
<1>5. CASE s.have_last /\ ~s.resync
  <2>1. Interval(t - s.last_ns, x, p)
    BY <1>5, Zenon DEF Spaced
  <2>2. dt = t - s.last_ns /\ dt \in Nat
    BY <1>0, <2>1, SMTT(30) DEF Interval
  <2>3. Sound(v, x, p)
    BY <1>1, <1>5, Zenon DEF Sound
  <2>4. CASE Len(s.samples) < Calibrate
    <3> DEFINE u == Calibrated(v, dt)
    <3>0. o = [state |-> u, did |-> "calibrated"]
      BY <1>2, <1>5, <2>4, Zenon
    <3>2. Interval(dt, x, p)
      BY <2>1, <2>2, Zenon DEF Interval
    <3>3. /\ u \in States /\ Sound(u, x, p)
          /\ u.last_ns = v.last_ns /\ u.have_last = v.have_last /\ u.resync = v.resync
      <4> HIDE DEF dt
      <4> QED BY <1>1, <2>2, <2>3, <2>4, <3>2, CalibratedEffect, Zenon
    <3> HIDE DEF u
    <3>1. o.state = u /\ o.did = "calibrated"
      BY <3>0
    <3> QED BY <1>1, <1>5, <2>4, <3>1, <3>3, Zenon DEF Noted
  <2>5. CASE ~(Len(s.samples) < Calibrate)
    <3> DEFINE r == IF dt > Factor * s.expected_ns THEN "anomaly" ELSE "fine"
    <3>0. o = [state |-> v, did |-> r]
      BY <1>2, <1>5, <2>5, Zenon
    <3>1. o.state = v /\ o.did = r
      <4> HIDE DEF r
      <4> QED BY <3>0
    <3> HIDE DEF dt
    <3> QED BY <1>1, <1>5, <2>2, <2>3, <2>5, <3>1, Zenon DEF Noted
  <2> QED BY <2>4, <2>5, Zenon
<1> QED BY <1>0, <1>3, <1>4, <1>5, Zenon

----------------------------------------------------------------------------
(* The cadence monitor                                                     *)

CadTypeOK ==
    /\ punctual \in BOOLEAN /\ lost \in BOOLEAN /\ away \in BOOLEAN
    /\ due \in [Ids -> Nat] /\ sent \in [Ids -> Int]
    /\ ids \in [Ids -> States] /\ dirty \in SUBSET Ids

\* What is known of x, against the bus: its last timestamp, when it counts, is
\* that of the last frame sent, and an identifier that no loss and no outage
\* has touched can be measured.
Tracks(x) ==
    /\ sent[x] = -1 \/ (sent[x] \in Nat /\ Interval(due[x] - sent[x], x, punctual))
    /\ ids[x].have_last /\ ~ids[x].resync /\ ~lost => ids[x].last_ns = sent[x]
    /\ x \notin dirty => ~lost /\ ~ids[x].resync

FlaggedIsLate == seen.did = "anomaly" => seen.truth > Factor * Period[seen.id]

CadInv ==
    /\ CadTypeOK
    /\ \A x \in Ids : Sound(ids[x], x, punctual)
    /\ \A x \in Ids : Tracks(x)
    /\ FlaggedIsLate /\ LateIsFlagged

LEMMA CadInitial == CadenceInit => CadInv
<1> SUFFICES ASSUME CadenceInit PROVE CadInv
  BY Zenon
<1>0. Calibrate \in Nat /\ Calibrate >= 2 /\ Factor \in Nat /\ MaxTime \in Nat
  BY CadenceAssumption, Zenon
<1>1. NewState \in States
  BY DEF NewState, States
<1>2. /\ NewState.have_last = FALSE /\ NewState.resync = FALSE
      /\ NewState.samples = <<>> /\ NewState.expected_ns = 0
  BY Zenon DEF NewState
<1>3. CadTypeOK
  <2>1. due \in [Ids -> Nat]
    BY <1>0 DEF CadenceInit
  <2>2. sent \in [Ids -> Int]
    BY DEF CadenceInit
  <2>3. ids \in [Ids -> States]
    BY <1>1, Zenon DEF CadenceInit
  <2>4. punctual \in BOOLEAN /\ lost \in BOOLEAN /\ away \in BOOLEAN /\ dirty \in SUBSET Ids
    BY Zenon DEF CadenceInit
  <2> QED BY <2>1, <2>2, <2>3, <2>4, Zenon DEF CadTypeOK
<1>4. ASSUME NEW x \in Ids PROVE Sound(ids[x], x, punctual) /\ Tracks(x)
  <2>1. ids[x] = NewState /\ sent[x] = -1 /\ lost = FALSE
    BY Zenon DEF CadenceInit
  <2>2. Len(<<>>) = 0 /\ 0 < Calibrate /\ 0 <= Calibrate /\ \A i \in 1 .. 0 : FALSE
    BY <1>0
  <2>3. Sound(ids[x], x, punctual)
    BY <1>2, <2>1, <2>2, Zenon DEF Sound
  <2>4. Tracks(x)
    BY <1>2, <2>1, Zenon DEF Tracks
  <2> QED BY <2>3, <2>4, Zenon
<1>5. seen.did = "nothing" /\ seen.clean = FALSE
  BY Zenon DEF CadenceInit, Nothing
<1>6. FlaggedIsLate /\ LateIsFlagged
  BY <1>5, Zenon DEF FlaggedIsLate, LateIsFlagged
<1> QED BY <1>3, <1>4, <1>6, Zenon DEF CadInv

\* Nothing observed, nothing to get wrong.
LEMMA NothingSeen == ASSUME seen' = Nothing PROVE FlaggedIsLate' /\ LateIsFlagged'
<1>1. seen'.did = "nothing" /\ seen'.clean = FALSE
  BY Zenon DEF Nothing
<1>2. FlaggedIsLate'
  BY <1>1, Zenon DEF FlaggedIsLate
<1>3. LateIsFlagged'
  BY <1>1, Zenon DEF LateIsFlagged
<1> QED BY <1>2, <1>3, Zenon

\* ResyncAll, identifier by identifier.
LEMMA ResyncAllEffect ==
    ASSUME NEW f \in [Ids -> States], NEW x
    PROVE  /\ ResyncAll(f, x) \in [Ids -> States]
           /\ \A y \in Ids : Resynced(f[y], ResyncAll(f, x)[y])
<1>1. \A y \in Ids : f[y] \in States
  BY Zenon
<1>2. ASSUME NEW y \in Ids
      PROVE  Resynced(f[y], [f[y] EXCEPT !.resync = f[y].have_last \/ f[y].resync])
  BY <1>1, ResyncEffect, Zenon
<1>3. \A y \in Ids : [f[y] EXCEPT !.resync = f[y].have_last \/ f[y].resync] \in States
  BY <1>2, Zenon DEF Resynced
<1>4. \A y \in Ids : ResyncAll(f, x)[y] = [f[y] EXCEPT !.resync = f[y].have_last \/ f[y].resync]
  BY Zenon DEF ResyncAll
<1>5. ResyncAll(f, x) \in [Ids -> States]
  BY <1>3, Zenon DEF ResyncAll
<1>6. \A y \in Ids : Resynced(f[y], ResyncAll(f, x)[y])
  BY <1>2, <1>4, Zenon
<1> QED BY <1>5, <1>6, Zenon

\* The bus: the frame of x is sent now, its successor a true interval later.
LEMMA SendEffect ==
    ASSUME CadTypeOK, NEW x \in Ids, NEW late \in Late, SendNext(x, late)
    PROVE  /\ due' \in [Ids -> Nat] /\ sent' \in [Ids -> Int]
           /\ sent'[x] = due[x] /\ due[x] \in Nat
           /\ Interval(due'[x] - sent'[x], x, punctual)
           /\ \A y \in Ids \ {x} : sent'[y] = sent[y] /\ due'[y] = due[y]
<1>1. due \in [Ids -> Nat] /\ sent \in [Ids -> Int] /\ late \in Nat /\ Period[x] \in Nat
  BY CadenceAssumption, Zenon DEF CadTypeOK
<1>2. /\ due' = [due EXCEPT ![x] = due[x] + Period[x] + late]
      /\ sent' = [sent EXCEPT ![x] = due[x]]
      /\ punctual => late = 0
  BY Zenon DEF SendNext
<1>3. /\ due'[x] = due[x] + Period[x] + late /\ sent'[x] = due[x] /\ due[x] \in Nat
      /\ due' \in [Ids -> Nat] /\ sent' \in [Ids -> Int]
      /\ \A y \in Ids \ {x} : sent'[y] = sent[y] /\ due'[y] = due[y]
  BY <1>1, <1>2, SMTT(30)
<1>4. due'[x] - sent'[x] = Period[x] + late
  BY <1>1, <1>3, SMTT(30)
<1>5. Interval(due'[x] - sent'[x], x, punctual)
  BY <1>1, <1>2, <1>4, SMTT(30) DEF Interval
<1> QED BY <1>3, <1>5, Zenon

LEMMA CadLose ==
    ASSUME CadInv, NEW x \in Ids, NEW late \in Late, Lose(x, late)
    PROVE  CadInv'
<1>1. CadTypeOK /\ SendNext(x, late)
  BY Zenon DEF CadInv, Lose
<1>2. lost' = TRUE /\ dirty' = Ids /\ punctual' = punctual /\ away' = away /\ ids' = ids
  BY Zenon DEF Lose
<1>3. FlaggedIsLate' /\ LateIsFlagged'
  BY NothingSeen, Zenon DEF Lose
<1>4. /\ due' \in [Ids -> Nat] /\ sent' \in [Ids -> Int]
      /\ sent'[x] = due[x] /\ due[x] \in Nat
      /\ Interval(due'[x] - sent'[x], x, punctual)
      /\ \A y \in Ids \ {x} : sent'[y] = sent[y] /\ due'[y] = due[y]
  BY <1>1, SendEffect, Zenon
<1>5. CadTypeOK'
  BY <1>1, <1>2, <1>4, Zenon DEF CadTypeOK
<1>6. ASSUME NEW y \in Ids PROVE Sound(ids[y], y, punctual)' /\ Tracks(y)'
  <2>1. Sound(ids[y], y, punctual)'
    BY <1>2, Zenon DEF CadInv, Sound, Interval
  <2>2. sent'[y] = -1 \/ (sent'[y] \in Nat /\ Interval(due'[y] - sent'[y], y, punctual))
    BY <1>4, Zenon DEF CadInv, Tracks
  <2>3. Tracks(y)'
    BY <1>2, <2>2, Zenon DEF Tracks, Interval
  <2> QED BY <2>1, <2>3, Zenon
<1> QED BY <1>3, <1>5, <1>6, Zenon DEF CadInv

LEMMA CadReconnect == ASSUME CadInv, Reconnect PROVE CadInv'
<1> DEFINE z == CHOOSE x \in Ids : TRUE
<1>1. /\ ids \in [Ids -> States] /\ lost \in BOOLEAN /\ CadTypeOK
  BY Zenon DEF CadInv, CadTypeOK
<1>2. /\ ids' = ResyncAll(ids, z) /\ dirty' = Ids /\ away' = FALSE
      /\ punctual' = punctual /\ due' = due /\ sent' = sent /\ lost' = lost
  BY Zenon DEF Reconnect
<1> HIDE DEF z
<1>3. ids' \in [Ids -> States] /\ \A y \in Ids : Resynced(ids[y], ids'[y])
  BY <1>1, <1>2, ResyncAllEffect, Zenon
<1>4. FlaggedIsLate' /\ LateIsFlagged'
  BY NothingSeen, Zenon DEF Reconnect
<1>5. CadTypeOK'
  BY <1>1, <1>2, <1>3, Zenon DEF CadTypeOK
<1>6. ASSUME NEW y \in Ids PROVE Sound(ids[y], y, punctual)' /\ Tracks(y)'
  <2>1. Sound(ids[y], y, punctual)
    BY Zenon DEF CadInv
  <2>2. Sound(ids'[y], y, punctual)
    BY <1>3, <2>1, ResyncSound, Zenon
  <2>3. Sound(ids[y], y, punctual)'
    BY <1>2, <2>2, Zenon DEF Sound, Interval
  <2>4. ids'[y].have_last => ids'[y].resync
    BY <1>3, Zenon DEF Resynced
  <2>5. sent[y] = -1 \/ (sent[y] \in Nat /\ Interval(due[y] - sent[y], y, punctual))
    BY Zenon DEF CadInv, Tracks
  <2>6. Tracks(y)'
    BY <1>2, <2>4, <2>5, Zenon DEF Tracks, Interval
  <2> QED BY <2>3, <2>6, Zenon
<1> QED BY <1>4, <1>5, <1>6, Zenon DEF CadInv

LEMMA CadDeliver ==
    ASSUME CadInv, NEW x \in Ids, NEW late \in Late, Deliver(x, late)
    PROVE  CadInv'
<1> DEFINE known == IF lost THEN ResyncAll(ids, x) ELSE ids
           o == Observed(known[x], due[x])
<1>1. /\ CadTypeOK /\ SendNext(x, late)
      /\ ids \in [Ids -> States] /\ lost \in BOOLEAN /\ dirty \in SUBSET Ids
  BY Zenon DEF CadInv, CadTypeOK, Deliver
<1>2. /\ lost' = FALSE /\ dirty' = dirty \ {x} /\ punctual' = punctual /\ away' = away
      /\ ids' = [known EXCEPT ![x] = o.state]
      /\ seen' = [did |-> o.did, id |-> x,
                  truth |-> IF sent[x] < 0 THEN 0 ELSE due[x] - sent[x],
                  clean |-> x \notin dirty, expected |-> ids[x].expected_ns]
  BY Zenon DEF Deliver
<1>3. /\ due' \in [Ids -> Nat] /\ sent' \in [Ids -> Int]
      /\ sent'[x] = due[x] /\ due[x] \in Nat
      /\ Interval(due'[x] - sent'[x], x, punctual)
      /\ \A y \in Ids \ {x} : sent'[y] = sent[y] /\ due'[y] = due[y]
  BY <1>1, SendEffect, Zenon
<1>4. /\ known \in [Ids -> States]
      /\ lost => \A y \in Ids : Resynced(ids[y], known[y])
      /\ ~lost => known = ids
  BY <1>1, ResyncAllEffect, Zenon
<1> HIDE DEF known
<1>5. \A y \in Ids : Sound(ids[y], y, punctual)
  BY Zenon DEF CadInv
<1>6. ASSUME NEW y \in Ids PROVE Sound(known[y], y, punctual)
  <2>1. CASE lost
    BY <1>4, <1>5, <2>1, ResyncSound, Zenon
  <2>2. CASE ~lost
    BY <1>4, <1>5, <2>2, Zenon
  <2> QED BY <2>1, <2>2, Zenon
<1>7. \A y \in Ids : known[y].have_last /\ ~known[y].resync => ~lost
  BY <1>4, Zenon DEF Resynced
<1>8. Tracks(x)
  BY Zenon DEF CadInv
<1>9. known[x].have_last /\ ~known[x].resync
      => ~lost /\ known[x].last_ns = sent[x] /\ Interval(due[x] - known[x].last_ns, x, punctual)
         /\ sent[x] \in Nat
  <2> SUFFICES ASSUME known[x].have_last /\ ~known[x].resync
               PROVE  ~lost /\ known[x].last_ns = sent[x] /\ sent[x] \in Nat
                      /\ Interval(due[x] - known[x].last_ns, x, punctual)
    BY Zenon
  <2>1. ~lost /\ known[x] = ids[x]
    BY <1>4, <1>7, Zenon
  <2>2. ids[x].last_ns = sent[x]
    BY <1>8, <2>1, Zenon DEF Tracks
  <2>3. ids[x].last_ns \in Nat
    BY <1>1, StateFields, Zenon
  <2>4. sent[x] # -1
    BY <2>2, <2>3, SMTT(30)
  <2>5. sent[x] \in Nat /\ Interval(due[x] - sent[x], x, punctual)
    BY <1>8, <2>4, Zenon DEF Tracks
  <2> QED BY <2>1, <2>2, <2>5, Zenon
<1>10. known[x] \in States /\ Sound(known[x], x, punctual) /\ Spaced(known[x], x, punctual, due[x])
  BY <1>4, <1>6, <1>9, Zenon DEF Spaced
<1>11. Noted(known[x], due[x], o) /\ Sound(o.state, x, punctual)
  BY <1>3, <1>10, ObservedEffect, Zenon
<1> HIDE DEF o
<1>12. o.state \in States /\ o.state.last_ns = due[x] /\ o.state.have_last /\ ~o.state.resync
  BY <1>11, Zenon DEF Noted
<1>13. /\ ids' \in [Ids -> States] /\ ids'[x] = o.state
       /\ \A y \in Ids \ {x} : ids'[y] = known[y]
  BY <1>2, <1>4, <1>12, Zenon
<1>14. CadTypeOK'
  BY <1>1, <1>2, <1>3, <1>13, ZenonT(30) DEF CadTypeOK
<1>15. ASSUME NEW y \in Ids PROVE Sound(ids[y], y, punctual)' /\ Tracks(y)'
  <2>1. CASE y = x
    <3>1. Sound(ids'[y], y, punctual)
      BY <1>11, <1>13, <2>1, Zenon
    <3>2. Sound(ids[y], y, punctual)'
      BY <1>2, <3>1, Zenon DEF Sound, Interval
    <3>3. Tracks(y)'
      BY <1>2, <1>3, <1>12, <1>13, <2>1, ZenonT(30) DEF Tracks, Interval
    <3> QED BY <3>2, <3>3, Zenon
  <2>2. CASE y # x
    <3>1. ids'[y] = known[y] /\ sent'[y] = sent[y] /\ due'[y] = due[y]
      BY <1>3, <1>13, <2>2, Zenon
    <3>2. Sound(ids'[y], y, punctual)
      BY <1>6, <3>1, Zenon
    <3>3. Sound(ids[y], y, punctual)'
      BY <1>2, <3>2, Zenon DEF Sound, Interval
    <3>4. Tracks(y)
      BY Zenon DEF CadInv
    <3>5. ids'[y].have_last /\ ~ids'[y].resync => ids'[y].last_ns = sent'[y]
      <4>1. ids'[y].have_last /\ ~ids'[y].resync => ~lost /\ known[y] = ids[y]
        BY <1>4, <1>7, <3>1, Zenon
      <4> QED BY <3>1, <3>4, <4>1, Zenon DEF Tracks
    <3>6. y \notin dirty' => ~ids'[y].resync
      <4>1. y \notin dirty' => y \notin dirty
        BY <1>2, <2>2, ZenonT(30)
      <4>2. y \notin dirty => ~lost /\ ~ids[y].resync
        BY <3>4, Zenon DEF Tracks
      <4> QED BY <1>4, <3>1, <4>1, <4>2, Zenon
    <3>7. sent'[y] = -1 \/ (sent'[y] \in Nat /\ Interval(due'[y] - sent'[y], y, punctual))
      BY <3>1, <3>4, ZenonT(30) DEF Tracks
    <3>8. Tracks(y)'
      BY <1>2, <3>5, <3>6, <3>7, Zenon DEF Tracks, Interval
    <3> QED BY <3>3, <3>8, Zenon
  <2> QED BY <2>1, <2>2, Zenon
<1> DEFINE truth == IF sent[x] < 0 THEN 0 ELSE due[x] - sent[x]
<1>16. /\ seen'.did = o.did /\ seen'.id = x /\ seen'.truth = truth
       /\ seen'.clean = (x \notin dirty) /\ seen'.expected = ids[x].expected_ns
  <2> HIDE DEF truth
  <2>1. seen' = [did |-> o.did, id |-> x, truth |-> truth,
                 clean |-> x \notin dirty, expected |-> ids[x].expected_ns]
    BY <1>2, Zenon DEF truth
  <2> QED BY <2>1, Zenon
<1>17. /\ Factor \in Nat /\ Period[x] \in Nat /\ Calibrate \in Nat /\ Calibrate >= 2
       /\ ids[x].expected_ns \in Nat /\ known[x].expected_ns \in Nat
       /\ Len(ids[x].samples) \in Nat
  BY <1>1, <1>4, StateFields, CadenceAssumption, SMTT(30)
<1>18. FlaggedIsLate'
  <2> SUFFICES ASSUME o.did = "anomaly" PROVE truth > Factor * Period[x]
    BY <1>16, ZenonT(30) DEF FlaggedIsLate
  <2>1. /\ known[x].have_last /\ ~known[x].resync /\ ~(Len(known[x].samples) < Calibrate)
        /\ due[x] - known[x].last_ns > Factor * known[x].expected_ns
    BY <1>11, Zenon DEF Noted
  <2>2. known[x].last_ns = sent[x] /\ sent[x] \in Nat
    BY <1>9, <2>1, Zenon
  <2>3. truth = due[x] - known[x].last_ns
    BY <2>2, SMTT(30)
  <2>4. Period[x] <= known[x].expected_ns
    BY <1>10, <2>1, Zenon DEF Sound, Interval
  <2>5. /\ Factor * Period[x] <= Factor * known[x].expected_ns
        /\ Factor * Period[x] \in Nat /\ Factor * known[x].expected_ns \in Nat
    BY <1>17, <2>4, Increased, Zenon
  <2> QED BY <1>3, <2>1, <2>2, <2>3, <2>5, SMTT(30)
<1>19. LateIsFlagged'
  <2> SUFFICES ASSUME x \notin dirty, ids[x].expected_ns > 0,
                      truth > Factor * ids[x].expected_ns
               PROVE  o.did = "anomaly"
    BY <1>16, Zenon DEF LateIsFlagged
  <2>1. ~lost /\ ~ids[x].resync /\ known[x] = ids[x]
    BY <1>4, <1>8, Zenon DEF Tracks
  <2>2. ~(Len(ids[x].samples) < Calibrate) /\ ids[x].have_last
    BY <1>5, <1>17, SMTT(30) DEF Sound
  <2>3. ids[x].last_ns = sent[x] /\ sent[x] \in Nat
    BY <1>9, <2>1, <2>2, Zenon
  <2>4. due[x] - known[x].last_ns > Factor * known[x].expected_ns
    BY <2>1, <2>3, SMTT(30)
  <2> QED BY <1>11, <2>1, <2>2, <2>4, Zenon DEF Noted
<1> QED BY <1>14, <1>15, <1>18, <1>19, Zenon DEF CadInv

LEMMA CadStep == CadInv /\ [CadenceNext]_cadenceVars => CadInv'
<1> SUFFICES ASSUME CadInv, [CadenceNext]_cadenceVars PROVE CadInv'
  BY Zenon
<1>1. CASE Disconnect
  <2>1. FlaggedIsLate' /\ LateIsFlagged'
    BY <1>1, NothingSeen, Zenon DEF Disconnect
  <2>2. CadTypeOK'
    BY <1>1, Zenon DEF Disconnect, CadInv, CadTypeOK
  <2>3. \A y \in Ids : Sound(ids[y], y, punctual)' /\ Tracks(y)'
    BY <1>1, SMTT(30) DEF Disconnect, CadInv, Sound, Tracks, Interval
  <2> QED BY <2>1, <2>2, <2>3, Zenon DEF CadInv
<1>2. CASE UNCHANGED cadenceVars
  <2>1. CadTypeOK' /\ FlaggedIsLate' /\ LateIsFlagged'
    BY <1>2, Zenon DEF cadenceVars, CadInv, CadTypeOK, FlaggedIsLate, LateIsFlagged
  <2>2. \A y \in Ids : Sound(ids[y], y, punctual)' /\ Tracks(y)'
    BY <1>2 DEF cadenceVars, CadInv, Sound, Tracks, Interval
  <2> QED BY <2>1, <2>2, Zenon DEF CadInv
<1> QED BY <1>1, <1>2, CadLose, CadDeliver, CadReconnect, Zenon DEF CadenceNext

\* CadenceMonitor::observe never takes loss for lateness, and flags every
\* lateness it can see: for any identifiers, periods, delays, calibration
\* length and factor, however the gateway loses frames and the consumer
\* reconnects.
THEOREM CadenceFlagsExact == CadenceSpec => []FlagsExact
<1>1. CadInv => FlagsExact
  <2> SUFFICES ASSUME CadInv, punctual, NEW x \in Ids, ~Calibrating(ids[x])
               PROVE  ids[x].expected_ns = Period[x]
    BY Zenon DEF CadInv, FlagsExact, LossIsNotLateness, FlaggedIsLate
  <2> QED BY Zenon DEF CadInv, Sound, Interval, Calibrating
<1> QED BY <1>1, CadInitial, CadStep, PTL DEF CadenceSpec

=============================================================================
