--------------------------- MODULE RingEchoProofs ---------------------------
(***************************************************************************)
(* Proofs about the broadcast ring, for every number of producers and      *)
(* readers, every capacity, frame size and batch size; and about the       *)
(* return of echoes, for every size of a receive and of the buffer, any    *)
(* number of probes, and wherever replies are cut.                         *)
(*                                                                         *)
(* What the ring promises is not inductive by itself.  IInv adds why it    *)
(* holds: tickets do not overlap, a sequence word names a position of its  *)
(* cell, a writer's cell is marked with its own position, and a copy is    *)
(* sound as long as the sequence word has not moved.  Exclusion of writers *)
(* and the accounting follow whatever the memory order of the claim; whole *)
(* frames, and the refinement of BroadcastLog, need it to be ordered       *)
(* before the word stores (ClaimOrdered).                                  *)
(*                                                                         *)
(* That round trips are real, and that a listener finds the replies again  *)
(* after one was cut short, rests on EchoInv: the buffer and then the      *)
(* stream hold replies in the order of their nonces, each from its start   *)
(* and as far as the socket took it.                                       *)
(***************************************************************************)
EXTENDS BroadcastRing, EchoReturn, StreamLemmas

\* A position has a cell (cells_[pos & mask_]).
LEMMA CellType ==
    ASSUME NEW q \in Nat
    PROVE  Cell(q) \in Cells
BY CapacityAssumption DEF Cell, Cells

\* Two positions of one cell are whole laps apart.
LEMMA SameCell ==
    ASSUME NEW a \in Nat, NEW b \in Nat, Cell(a) = Cell(b), a < b
    PROVE  a + Capacity <= b
<1> DEFINE ka == a \div Capacity
           kb == b \div Capacity
<1>1. /\ ka \in Nat /\ kb \in Nat
      /\ a = (Capacity * ka) + (a % Capacity)
      /\ b = (Capacity * kb) + (b % Capacity)
  BY CapacityAssumption
<1>2. Capacity * (kb - ka) = b - a
  BY <1>1, CapacityAssumption DEF Cell
<1>3. kb >= ka + 1
  BY <1>1, <1>2, CapacityAssumption
<1> QED  BY <1>1, <1>2, <1>3, CapacityAssumption

\* A position and the one a lap before it share a cell, which is what the
\* expected value of the claim in write_at rests on.
LEMMA LapBack ==
    ASSUME NEW q \in Nat, q >= Capacity
    PROVE  q - Capacity \in Nat /\ Cell(q - Capacity) = Cell(q)
<1> DEFINE k == q \div Capacity
           m == q % Capacity
<1>1. k \in Nat /\ m \in Cells /\ q = (Capacity * k) + m
  BY CapacityAssumption DEF Cells
<1>2. q - Capacity = (Capacity * (k - 1)) + m
  BY <1>1, CapacityAssumption DEF Cells
<1>3. k - 1 \in Nat
  BY <1>1, CapacityAssumption DEF Cells
<1> DEFINE k2 == (q - Capacity) \div Capacity
           m2 == (q - Capacity) % Capacity
<1>4. k2 \in Nat /\ m2 \in Cells /\ q - Capacity = (Capacity * k2) + m2
  BY CapacityAssumption DEF Cells
<1>5. Capacity * (k - 1 - k2) = m2 - m
  BY <1>1, <1>2, <1>3, <1>4, CapacityAssumption DEF Cells
<1>6. ~(k - 1 - k2 >= 1)
  BY <1>1, <1>4, <1>5, CapacityAssumption DEF Cells
<1>7. ~(k - 1 - k2 <= -1)
  BY <1>1, <1>4, <1>5, CapacityAssumption, SMTT(30) DEF Cells
<1>8. m2 = m
  BY <1>1, <1>4, <1>5, <1>6, <1>7, CapacityAssumption DEF Cells
<1> QED  BY <1>8, CapacityAssumption DEF Cell

----------------------------------------------------------------------------
(* The inductive invariant.                                                *)

\* The positions two producers have been given do not overlap.
TicketsDisjoint ==
    \A p1, p2 \in Producers :
        /\ p1 # p2
        /\ pc[p1] # "idle" /\ pc[p2] # "idle"
        => pos[p1] + left[p1] <= pos[p2] \/ pos[p2] + left[p2] <= pos[p1]

\* A sequence word names a position of its own cell that was handed out.
SeqNamesPosition ==
    \A c \in Cells :
        \/ seq[c] = 0
        \/ \E q \in 0 .. write_pos - 1 :
             Cell(q) = c /\ (seq[c] = Writing(q) \/ seq[c] = Complete(q))

\* A producer between its claim and its publish owns its cell.
WriterHolds ==
    \A p \in Producers :
        pc[p] = "store" => seq[Cell(pos[p])] = Writing(pos[p])

\* A complete cell holds one frame; one being written holds what was stored.
CellContents ==
    /\ \A c \in Cells : \A q \in 0 .. MaxTickets :
         seq[c] = Complete(q) => \A i \in WordIdx : words[c][i] = q
    /\ \A p \in Producers :
         pc[p] = "store" =>
           \A i \in WordIdx \ unstored[p] : words[Cell(pos[p])][i] = pos[p]

\* A reader copies from a cell that was complete at its position; while the
\* sequence word is still the one it loaded, the copy is of that frame.
CopySound ==
    \A r \in Readers : rpc[r] = "copy" =>
        /\ s1[r] = Complete(next[r])
        /\ seq[Cell(next[r])] >= s1[r]
        /\ seq[Cell(next[r])] = s1[r] =>
             \A i \in WordIdx \ uncopied[r] : buf[r][i] = next[r]

\* A reader about to lap has been overrun.
LapOverrun ==
    \A r \in Readers : rpc[r] = "lap" => next[r] + Capacity < write_pos

DetachedFresh ==
    \A r \in Readers :
        rpc[r] = "detached" =>
            delivered[r] = 0 /\ missed[r] = 0 /\ start[r] = 0

IInv ==
    /\ TypeOK
    /\ TicketsDisjoint
    /\ SeqNamesPosition
    /\ WriterHolds
    /\ CellContents
    /\ CopySound
    /\ LapOverrun
    /\ DetachedFresh
    /\ Accounting

----------------------------------------------------------------------------
(* Facts used for several actions.                                         *)

\* The encoding of a sequence word can be read back.
LEMMA SeqEncoding ==
    ASSUME NEW q \in Int
    PROVE  /\ CellPos(Writing(q)) = q /\ ~IsComplete(Writing(q))
           /\ CellPos(Complete(q)) = q /\ IsComplete(Complete(q))
BY DEF CellPos, Writing, Complete, IsComplete

\* Whatever a reader's load of a sequence word returns, even a stale value,
\* is no newer than the word and names a position of the same cell.
LEMMA SeqLoadNames ==
    ASSUME IInv, NEW c \in Cells, NEW s \in SeqLoads(c)
    PROVE  /\ s \in Nat /\ s <= seq[c]
           /\ ClaimOrdered => s = seq[c]
           /\ s # 0 => \E q \in 0 .. write_pos - 1 :
                          /\ Cell(q) = c
                          /\ CellPos(s) = q
                          /\ s = Writing(q) \/ s = Complete(q)
<1>1. /\ seq[c] \in Nat
      /\ write_pos \in Nat
  BY BoundsAssumption DEF IInv, TypeOK
<1>2. CASE s = seq[c]
  BY <1>1, <1>2, SeqEncoding DEF IInv, SeqNamesPosition
<1>3. CASE s # seq[c]
  <2>1. s = Expected(CellPos(seq[c])) /\ ~ClaimOrdered /\ ~IsComplete(seq[c])
    BY <1>3, Zenon DEF SeqLoads
  <2>2. seq[c] # 0
    BY <2>1 DEF IsComplete
  <2>3. PICK q \in 0 .. write_pos - 1 :
          Cell(q) = c /\ (seq[c] = Writing(q) \/ seq[c] = Complete(q))
    BY <2>2, Zenon DEF IInv, SeqNamesPosition
  <2>4. seq[c] = Writing(q) /\ s = Expected(q)
    BY <2>1, <2>3, SeqEncoding
  <2>5. CASE q < Capacity
    BY <2>1, <2>4, <2>5, <1>1, SMTT(30) DEF Expected
  <2>6. CASE q >= Capacity
    <3>1. q - Capacity \in 0 .. write_pos - 1 /\ Cell(q - Capacity) = c
      BY <2>3, <2>6, <1>1, LapBack, CapacityAssumption, SMTT(30)
    <3>2. s = Complete(q - Capacity) /\ CellPos(s) = q - Capacity
      BY <2>4, <2>6, <3>1, SeqEncoding, CapacityAssumption, SMTT(30) DEF Expected
    <3>3. s \in Nat /\ s <= seq[c]
      BY <3>1, <3>2, <2>3, <2>4, <1>1, CapacityAssumption, SMTT(30) DEF Complete, Writing
    <3> QED  BY <2>1, <3>1, <3>2, <3>3, Zenon
  <2> QED  BY <2>3, <2>5, <2>6, CapacityAssumption
<1> QED  BY <1>2, <1>3, Zenon

\* A producer that owns its cell is the only one writing there.
LEMMA InvSingleWriter == IInv => SingleWriter
<1> SUFFICES ASSUME IInv, NEW p1 \in Producers, NEW p2 \in Producers,
                    pc[p1] = "store", pc[p2] = "store",
                    Cell(pos[p1]) = Cell(pos[p2]),
                    p1 # p2
             PROVE  FALSE
  BY Zenon DEF SingleWriter
<1>1. Writing(pos[p1]) = Writing(pos[p2])
  BY Zenon DEF IInv, WriterHolds
<1>2. pos[p1] \in Nat /\ pos[p2] \in Nat
  BY Zenon DEF IInv, TypeOK
<1>3. pos[p1] = pos[p2]
  BY <1>1, <1>2, SeqEncoding, SMTT(30)
<1>4. left[p1] \in Nat /\ left[p1] > 0 /\ left[p2] \in Nat /\ left[p2] > 0
  BY Zenon DEF IInv, TypeOK
<1>5. pos[p1] + left[p1] <= pos[p2] \/ pos[p2] + left[p2] <= pos[p1]
  BY Zenon DEF IInv, TicketsDisjoint
<1> QED  BY <1>2, <1>3, <1>4, <1>5, SMTT(30)

\* A sequence word past the one of position n in its cell means that n's cell
\* has been promised to a later lap.
LEMMA PastMeansOverrun ==
    ASSUME IInv, NEW n \in Nat, NEW q \in 0 .. write_pos - 1,
           Cell(q) = Cell(n), q > n
    PROVE  n + Capacity < write_pos
BY SameCell, BoundsAssumption, CapacityAssumption, SMTT(30) DEF IInv, TypeOK

----------------------------------------------------------------------------
(* Each action preserves the invariant.                                    *)

\* publish_batch takes a run of tickets: new positions, above all others.
LEMMA TicketStep ==
    ASSUME IInv, NEW p \in Producers, NEW n \in 1 .. MaxBatch, Ticket(p, n)
    PROVE  IInv'
<1> USE DEF Ticket, reader
<1>1. TypeOK'
  BY BoundsAssumption, SMTT(30) DEF IInv, TypeOK
<1>2. TicketsDisjoint'
  BY BoundsAssumption, Zenon DEF IInv, TypeOK, TicketsDisjoint
<1>3. SeqNamesPosition'
  BY BoundsAssumption, SMTT(30) DEF IInv, TypeOK, SeqNamesPosition
<1>4. WriterHolds'
  BY Zenon DEF IInv, TypeOK, WriterHolds
<1>5. CellContents'
  BY SMTT(30) DEF IInv, TypeOK, CellContents
<1>6. CopySound'
  BY Zenon DEF IInv, CopySound
<1>7. LapOverrun'
  BY BoundsAssumption, CapacityAssumption, SMTT(30) DEF IInv, TypeOK, LapOverrun
<1>8. DetachedFresh' /\ Accounting'
  BY Zenon DEF IInv, DetachedFresh, Accounting
<1> QED  BY <1>1, <1>2, <1>3, <1>4, <1>5, <1>6, <1>7, <1>8, Zenon DEF IInv

\* write_at claims a cell: the previous occupant is complete, so no other
\* producer is inside it.
LEMMA ClaimStep ==
    ASSUME IInv, NEW p \in Producers, Claim(p)
    PROVE  IInv'
<1> DEFINE q == pos[p]
           c == Cell(pos[p])
<1>a. /\ pc[p] = "claim" /\ left[p] \in Nat /\ left[p] > 0
      /\ q \in Nat /\ write_pos \in Nat /\ q + left[p] <= write_pos
  BY BoundsAssumption DEF IInv, TypeOK, Claim
<1>0. /\ q \in 0 .. write_pos - 1 /\ q \in Nat /\ c \in Cells
      /\ write_pos \in Nat
  BY <1>a, CellType, SMTT(30)
<1>1. /\ seq[c] \in Nat /\ IsComplete(seq[c]) /\ seq[c] < Writing(q)
      /\ Writing(q) \in Nat
  <2>1. CASE q < Capacity
    BY <2>1, <1>0, SMTT(30) DEF Claim, CanClaim, Expected, IsComplete, Writing
  <2>2. CASE q >= Capacity
    <3>1. seq[c] = Complete(q - Capacity)
      BY <2>2, <1>0, CapacityAssumption, SMTT(30) DEF Claim, CanClaim, Expected
    <3>2. q - Capacity \in Nat /\ q \in Nat /\ q - Capacity < q
      BY <2>2, <1>0, CapacityAssumption, SMTT(30)
    <3>3. /\ Complete(q - Capacity) \in Nat /\ Writing(q) \in Nat
          /\ Complete(q - Capacity) < Writing(q)
      BY <3>2 DEF Complete, Writing
    <3>4. IsComplete(Complete(q - Capacity))
      BY <3>2, SeqEncoding, SMTT(30)
    <3> QED  BY <3>1, <3>3, <3>4, Zenon
  <2> QED  BY <2>1, <2>2, <1>0, CapacityAssumption, SMTT(30)
<1>2. /\ seq' = [seq EXCEPT ![c] = Writing(q)]
      /\ pc' = [pc EXCEPT ![p] = "store"]
      /\ unstored' = [unstored EXCEPT ![p] = WordIdx]
      /\ UNCHANGED <<write_pos, words, pos, left, rpc, next, missed, s1, buf,
                     uncopied, out, delivered, start, inconsistent_reads>>
  BY Zenon DEF Claim, reader
<1> HIDE DEF q, c
<1>3. TypeOK'
  BY <1>a, <1>0, <1>1, <1>2, Zenon DEF IInv, TypeOK
<1>4. TicketsDisjoint'
  BY <1>2, SMTT(30) DEF IInv, TypeOK, TicketsDisjoint, Claim
<1>5. SeqNamesPosition'
  BY <1>0, <1>2, Zenon DEF IInv, TypeOK, SeqNamesPosition, c, q
<1>6. WriterHolds'
  <2> SUFFICES ASSUME NEW p2 \in Producers, pc'[p2] = "store"
               PROVE  seq'[Cell(pos[p2])] = Writing(pos[p2])
    BY <1>2, Zenon DEF WriterHolds
  <2>1. CASE p2 = p
    BY <2>1, <1>0, <1>2, Zenon DEF IInv, TypeOK, c, q
  <2>2. CASE p2 # p
    <3>1. seq[Cell(pos[p2])] = Writing(pos[p2]) /\ pos[p2] \in Nat
      BY <2>2, <1>2, Zenon DEF IInv, TypeOK, WriterHolds
    <3>2. Cell(pos[p2]) # c
      BY <3>1, <1>1, SeqEncoding, SMTT(30)
    <3> QED  BY <3>1, <3>2, <1>2, CellType, Zenon DEF IInv, TypeOK
  <2> QED  BY <2>1, <2>2, Zenon
<1>7. CellContents'
  <2>1. \A k \in 0 .. MaxTickets : Writing(q) # Complete(k)
    BY <1>0, SeqEncoding, BoundsAssumption, SMTT(30)
  <2> QED  BY <2>1, <1>0, <1>2, SMTT(30) DEF IInv, TypeOK, CellContents
<1>8. CopySound'
  BY <1>0, <1>1, <1>2, CellType, SMTT(30) DEF IInv, TypeOK, CopySound
<1>9. LapOverrun' /\ DetachedFresh' /\ Accounting'
  BY <1>2, Zenon DEF IInv, LapOverrun, DetachedFresh, Accounting
<1> QED  BY <1>3, <1>4, <1>5, <1>6, <1>7, <1>8, <1>9, Zenon DEF IInv

\* write_at stores one word into the cell it holds.
LEMMA StoreWordStep ==
    ASSUME IInv, NEW p \in Producers, StoreWord(p)
    PROVE  IInv'
<1> DEFINE q == pos[p]
           c == Cell(pos[p])
<1>1. PICK i \in unstored[p] :
        /\ words' = [words EXCEPT ![c][i] = q]
        /\ unstored' = [unstored EXCEPT ![p] = @ \ {i}]
  BY Zenon DEF StoreWord
<1>2. /\ q \in Nat /\ c \in Cells /\ i \in WordIdx
      /\ pc[p] = "store" /\ seq[c] = Writing(q)
  BY CellType, Zenon DEF IInv, TypeOK, StoreWord, WriterHolds
<1>3. UNCHANGED <<write_pos, seq, pc, pos, left, rpc, next, missed, s1, buf,
                  uncopied, out, delivered, start, inconsistent_reads>>
  BY Zenon DEF StoreWord, reader
<1> HIDE DEF q, c
<1>4. TypeOK'
  BY <1>1, <1>2, <1>3, SMTT(30) DEF IInv, TypeOK
<1>5. /\ TicketsDisjoint' /\ SeqNamesPosition' /\ WriterHolds'
      /\ LapOverrun' /\ DetachedFresh' /\ Accounting' /\ CopySound'
  BY <1>3, Zenon DEF IInv, TicketsDisjoint, SeqNamesPosition, WriterHolds, LapOverrun,
              DetachedFresh, Accounting, CopySound
<1>6. CellContents'
  <2>1. ASSUME NEW d \in Cells, NEW k \in 0 .. MaxTickets,
               seq[d] = Complete(k), NEW j \in WordIdx
        PROVE  words'[d][j] = k
    <3>1. d # c
      BY <2>1, <1>2, SeqEncoding, BoundsAssumption, SMTT(30)
    <3> QED  BY <2>1, <3>1, <1>1, <1>2, SMTT(30) DEF IInv, TypeOK, CellContents
  <2>2. ASSUME NEW p2 \in Producers, pc[p2] = "store",
               NEW j \in WordIdx \ unstored'[p2]
        PROVE  words'[Cell(pos[p2])][j] = pos[p2]
    <3>1. CASE p2 = p
      BY <2>2, <3>1, <1>1, <1>2, Zenon DEF IInv, TypeOK, CellContents, c, q
    <3>2. CASE p2 # p
      <4>1. Cell(pos[p2]) # c /\ Cell(pos[p2]) \in Cells
        BY <2>2, <3>2, <1>2, InvSingleWriter, CellType, Zenon
           DEF SingleWriter, c, IInv, TypeOK
      <4>2. j \in WordIdx \ unstored[p2]
        BY <2>2, <3>2, <1>1, Zenon DEF IInv, TypeOK
      <4>3. words[Cell(pos[p2])][j] = pos[p2]
        BY <2>2, <4>2, Zenon DEF IInv, CellContents
      <4> QED  BY <4>1, <4>3, <1>1, <1>2, Zenon DEF IInv, TypeOK
    <3> QED  BY <3>1, <3>2, Zenon
  <2> QED  BY <2>1, <2>2, <1>3, Zenon DEF CellContents
<1> QED  BY <1>4, <1>5, <1>6, Zenon DEF IInv

\* write_at publishes the cell, all words stored, and turns to its next ticket.
LEMMA PublishStep ==
    ASSUME IInv, NEW p \in Producers, Publish(p)
    PROVE  IInv'
<1> DEFINE q == pos[p]
           c == Cell(pos[p])
<1>1. /\ pc[p] = "store" /\ seq[c] = Writing(q) /\ unstored[p] = {}
      /\ q \in Nat /\ left[p] \in Nat /\ left[p] > 0 /\ write_pos \in Nat
      /\ q + left[p] <= write_pos
  BY BoundsAssumption, SMTT(30) DEF IInv, TypeOK, Publish, AllStored, WriterHolds
<1>2. /\ c \in Cells /\ q \in 0 .. write_pos - 1
      /\ Complete(q) \in Nat /\ Complete(q) > seq[c]
  BY <1>1, CellType, SMTT(30) DEF Complete, Writing
<1>3. /\ seq' = [seq EXCEPT ![c] = Complete(q)]
      /\ left' = [left EXCEPT ![p] = @ - 1]
      /\ \/ /\ left[p] = 1
            /\ pc' = [pc EXCEPT ![p] = "idle"]
            /\ pos' = [pos EXCEPT ![p] = 0]
         \/ /\ left[p] # 1
            /\ pc' = [pc EXCEPT ![p] = "claim"]
            /\ pos' = [pos EXCEPT ![p] = @ + 1]
      /\ UNCHANGED <<write_pos, words, unstored, rpc, next, missed, s1, buf,
                     uncopied, out, delivered, start, inconsistent_reads>>
  BY Zenon DEF Publish, reader
<1>4. \A p2 \in Producers \ {p} :
        pc[p2] = "store" => Cell(pos[p2]) # c /\ Cell(pos[p2]) \in Cells
  BY <1>1, InvSingleWriter, CellType, Zenon DEF SingleWriter, IInv, TypeOK
<1> HIDE DEF q, c
<1>5. TypeOK'
  <2>1. /\ seq' \in [Cells -> Nat]
        /\ pc' \in [Producers -> {"idle", "claim", "store"}]
    BY <1>2, <1>3, Zenon DEF IInv, TypeOK
  <2>2. pos' \in [Producers -> Nat]
    BY <1>3, SMTT(30) DEF IInv, TypeOK
  <2>3. left' \in [Producers -> Nat]
    <3>1. left[p] - 1 \in Nat
      BY <1>1, SMTT(30)
    <3> QED  BY <3>1, <1>3, Zenon DEF IInv, TypeOK
  <2>4. ASSUME NEW p2 \in Producers
        PROVE  /\ pc'[p2] # "idle" => left'[p2] > 0
               /\ pos'[p2] + left'[p2] <= write_pos'
    <3>1. CASE p2 = p
      BY <3>1, <1>1, <1>3, SMTT(30) DEF IInv, TypeOK, q
    <3>2. CASE p2 # p
      BY <3>2, <1>3, Zenon DEF IInv, TypeOK
    <3> QED  BY <3>1, <3>2, Zenon
  <2> QED  BY <2>1, <2>2, <2>3, <2>4, <1>3, Zenon DEF IInv, TypeOK
<1>6. TicketsDisjoint'
  BY <1>1, <1>3, SMTT(30) DEF IInv, TypeOK, TicketsDisjoint, q
<1>7. SeqNamesPosition'
  BY <1>2, <1>3, Zenon DEF IInv, TypeOK, SeqNamesPosition, c, q
<1>8. WriterHolds'
  <2> SUFFICES ASSUME NEW p2 \in Producers, pc'[p2] = "store"
               PROVE  seq'[Cell(pos'[p2])] = Writing(pos'[p2])
    BY Zenon DEF WriterHolds
  <2>1. p2 # p
    BY <1>3, Zenon DEF IInv, TypeOK
  <2>2. pc[p2] = "store" /\ pos'[p2] = pos[p2]
    BY <2>1, <1>3, Zenon DEF IInv, TypeOK
  <2>3. seq'[Cell(pos[p2])] = seq[Cell(pos[p2])]
    BY <2>1, <2>2, <1>3, <1>4, Zenon DEF IInv, TypeOK
  <2> QED  BY <2>2, <2>3, Zenon DEF IInv, WriterHolds
<1>9. CellContents'
  <2>1. ASSUME NEW d \in Cells, NEW k \in 0 .. MaxTickets,
               seq'[d] = Complete(k), NEW j \in WordIdx
        PROVE  words[d][j] = k
    <3>1. CASE d = c
      <4>1. k = q
        BY <2>1, <3>1, <1>1, <1>2, <1>3, SeqEncoding, BoundsAssumption, SMTT(30)
           DEF IInv, TypeOK
      <4> QED  BY <4>1, <3>1, <1>1, Zenon DEF IInv, CellContents, c, q
    <3>2. CASE d # c
      BY <2>1, <3>2, <1>3, SMTT(30) DEF IInv, TypeOK, CellContents
    <3> QED  BY <3>1, <3>2, Zenon
  <2>2. ASSUME NEW p2 \in Producers, pc'[p2] = "store",
               NEW j \in WordIdx \ unstored[p2]
        PROVE  words[Cell(pos'[p2])][j] = pos'[p2]
    <3>1. p2 # p
      BY <2>2, <1>3, Zenon DEF IInv, TypeOK
    <3>2. pc[p2] = "store" /\ pos'[p2] = pos[p2]
      BY <2>2, <3>1, <1>3, Zenon DEF IInv, TypeOK
    <3> QED  BY <2>2, <3>2, Zenon DEF IInv, CellContents
  <2> QED  BY <2>1, <2>2, <1>3, SMTT(30) DEF CellContents
<1>10. CopySound'
  BY <1>1, <1>2, <1>3, CellType, SMTT(30) DEF IInv, TypeOK, CopySound
<1>11. LapOverrun' /\ DetachedFresh' /\ Accounting'
  <2>1. LapOverrun'
    BY <1>3, Zenon DEF IInv, LapOverrun
  <2>2. DetachedFresh'
    BY <1>3, Zenon DEF IInv, DetachedFresh
  <2>3. Accounting'
    BY <1>3, Zenon DEF IInv, Accounting
  <2> QED BY <2>1, <2>2, <2>3, Zenon
<1> QED  BY <1>5, <1>6, <1>7, <1>8, <1>9, <1>10, <1>11, Zenon DEF IInv

\* The part of the invariant that is about producers and cells alone.
RingInv ==
    TicketsDisjoint /\ SeqNamesPosition /\ WriterHolds /\ CellContents

\* No reader step touches it.
LEMMA ReaderKeepsRing ==
    ASSUME IInv, UNCHANGED <<shared, producer>>
    PROVE  RingInv'
BY SMTT(30) DEF IInv, RingInv, shared, producer, TicketsDisjoint, SeqNamesPosition,
       WriterHolds, CellContents

\* attach starts a reader at some position up to the newest.
LEMMA AttachStep ==
    ASSUME IInv, NEW r \in Readers, Attach(r)
    PROVE  IInv'
<1> USE DEF Attach, shared, producer
<1>1. PICK w \in 0 .. write_pos :
        /\ next' = [next EXCEPT ![r] = Oldest(w)]
        /\ start' = [start EXCEPT ![r] = Oldest(w)]
  BY Zenon
<1>2. Oldest(w) \in Nat /\ Oldest(w) <= write_pos
  BY CapacityAssumption, BoundsAssumption, SMTT(30) DEF Oldest, IInv, TypeOK
<1>3. TypeOK'
  BY <1>1, <1>2, Zenon DEF IInv, TypeOK
<1>4. CopySound'
  BY <1>1, SMTT(30) DEF IInv, TypeOK, CopySound
<1>5. LapOverrun' /\ DetachedFresh'
  BY <1>1, Zenon DEF IInv, TypeOK, LapOverrun, DetachedFresh
<1>6. Accounting'
  BY <1>1, <1>2, SMTT(30) DEF IInv, TypeOK, Accounting, DetachedFresh
<1> QED  BY <1>3, <1>4, <1>5, <1>6, ReaderKeepsRing, Zenon DEF IInv, RingInv

\* try_read finds a later lap in the cell and goes on to lap.
LEMMA ReadAheadStep ==
    ASSUME IInv, NEW r \in Readers, ReadAhead(r)
    PROVE  IInv'
<1> USE DEF ReadAhead, shared, producer
<1>1. PICK s \in SeqLoads(Cell(next[r])) :
        IsAhead(s, next[r]) /\ s1' = [s1 EXCEPT ![r] = s]
  BY Zenon
<1>2. next[r] \in Nat /\ Cell(next[r]) \in Cells
  BY CellType, Zenon DEF IInv, TypeOK
<1>3. s \in Nat
  BY <1>2, SeqLoadNames, Zenon
<1>4. next[r] + Capacity < write_pos
  <2>1. PICK q \in 0 .. write_pos - 1 :
          Cell(q) = Cell(next[r]) /\ CellPos(s) = q
    BY <1>1, <1>2, SeqLoadNames, Zenon DEF IsAhead
  <2> QED  BY <2>1, <1>1, <1>2, PastMeansOverrun, Zenon DEF IsAhead
<1>5. TypeOK'
  BY <1>1, <1>3, Zenon DEF IInv, TypeOK
<1>6. CopySound'
  BY <1>1, Zenon DEF IInv, TypeOK, CopySound
<1>7. LapOverrun'
  BY <1>4, Zenon DEF IInv, TypeOK, LapOverrun
<1>8. DetachedFresh' /\ Accounting'
  BY Zenon DEF IInv, TypeOK, DetachedFresh, Accounting
<1> QED  BY <1>5, <1>6, <1>7, <1>8, ReaderKeepsRing, Zenon DEF IInv, RingInv

\* try_read finds its frame complete and starts to copy.
LEMMA ReadReadyStep ==
    ASSUME IInv, NEW r \in Readers, ReadReady(r)
    PROVE  IInv'
<1> USE DEF ReadReady, shared, producer
<1>1. PICK s \in SeqLoads(Cell(next[r])) :
        IsReady(s, next[r]) /\ s1' = [s1 EXCEPT ![r] = s]
  BY ZenonT(30)
<1>2. next[r] \in Nat /\ Cell(next[r]) \in Cells
  BY CellType, Zenon DEF IInv, TypeOK
<1>3. s \in Nat /\ s <= seq[Cell(next[r])]
  BY <1>2, SeqLoadNames, Zenon
<1>4. s = Complete(next[r])
  <2>1. PICK q \in 0 .. write_pos - 1 :
          CellPos(s) = q /\ (s = Writing(q) \/ s = Complete(q))
    BY <1>1, <1>2, SeqLoadNames, Zenon DEF IsReady
  <2> QED  BY <2>1, <1>1, SeqEncoding, SMTT(30) DEF IsReady
<1>5. TypeOK'
  BY <1>1, <1>3, SMTT(30) DEF IInv, TypeOK, BlankWords, Blank
<1>6. CopySound'
  <2>1. s1'[r] = s /\ uncopied'[r] = WordIdx
    BY <1>1, Zenon DEF IInv, TypeOK
  <2>2. ASSUME NEW r2 \in Readers, r2 # r
        PROVE  /\ rpc'[r2] = rpc[r2] /\ s1'[r2] = s1[r2]
               /\ uncopied'[r2] = uncopied[r2] /\ buf'[r2] = buf[r2]
    BY <2>2, <1>1, Zenon DEF IInv, TypeOK
  <2> SUFFICES ASSUME NEW r2 \in Readers, rpc'[r2] = "copy"
               PROVE  /\ s1'[r2] = Complete(next[r2])
                      /\ seq[Cell(next[r2])] >= s1'[r2]
                      /\ seq[Cell(next[r2])] = s1'[r2] =>
                           \A i \in WordIdx \ uncopied'[r2] :
                               buf'[r2][i] = next[r2]
    BY Zenon DEF CopySound
  <2> HIDE DEF ReadReady
  <2>3. CASE r2 = r
    <3>1. seq[Cell(next[r])] \in Nat
      BY <1>2, Zenon DEF IInv, TypeOK
    <3>2. seq[Cell(next[r])] >= s
      BY <3>1, <1>3, Zenon
    <3> QED  BY <2>1, <2>3, <3>2, <1>4, Zenon
  <2>4. CASE r2 # r
    <3>1. rpc[r2] = "copy"
      BY <2>2, <2>4, Zenon
    <3> QED  BY <2>2, <2>4, <3>1, Zenon DEF IInv, CopySound
  <2> QED  BY <2>3, <2>4, Zenon
<1>7. LapOverrun' /\ DetachedFresh' /\ Accounting'
  BY Zenon DEF IInv, TypeOK, LapOverrun, DetachedFresh, Accounting
<1> QED  BY <1>5, <1>6, <1>7, ReaderKeepsRing, Zenon DEF IInv, RingInv

\* try_read copies a word.
LEMMA CopyWordStep ==
    ASSUME IInv, NEW r \in Readers, CopyWord(r)
    PROVE  IInv'
<1> USE DEF CopyWord, shared, producer
<1> DEFINE c == Cell(next[r])
<1>1. PICK i \in uncopied[r] :
        /\ buf' = [buf EXCEPT ![r][i] = words[c][i]]
        /\ uncopied' = [uncopied EXCEPT ![r] = @ \ {i}]
  BY Zenon
<1>2. next[r] \in Nat /\ c \in Cells /\ i \in WordIdx
  BY CellType, Zenon DEF IInv, TypeOK
<1>3. seq[c] = s1[r] => words[c][i] = next[r]
  <2>1. next[r] \in 0 .. MaxTickets
    BY <1>2, BoundsAssumption, SMTT(30) DEF IInv, TypeOK
  <2> QED  BY <2>1, <1>2, SMTT(30) DEF IInv, CopySound, CellContents
<1> HIDE DEF c
<1>4. TypeOK'
  <2>1. words[c][i] \in Int
    BY <1>2, SMTT(30) DEF IInv, TypeOK
  <2>2. buf' \in [Readers -> [WordIdx -> Int]]
    BY <2>1, <1>1, <1>2, Zenon DEF IInv, TypeOK
  <2>3. uncopied' \in [Readers -> SUBSET WordIdx]
    BY <1>1, Zenon DEF IInv, TypeOK
  <2> QED  BY <2>2, <2>3, Zenon DEF IInv, TypeOK
<1>5. CopySound'
  <2> SUFFICES ASSUME NEW r2 \in Readers, rpc[r2] = "copy"
               PROVE  /\ s1[r2] = Complete(next[r2])
                      /\ seq[Cell(next[r2])] >= s1[r2]
                      /\ seq[Cell(next[r2])] = s1[r2] =>
                           \A j \in WordIdx \ uncopied'[r2] :
                              buf'[r2][j] = next[r2]
    BY Zenon DEF CopySound
  <2>1. CASE r2 = r
    BY <2>1, <1>1, <1>2, <1>3, SMTT(30) DEF IInv, TypeOK, CopySound, c
  <2>2. CASE r2 # r
    BY <2>2, <1>1, Zenon DEF IInv, TypeOK, CopySound
  <2> QED  BY <2>1, <2>2, Zenon
<1>6. LapOverrun' /\ DetachedFresh' /\ Accounting'
  BY Zenon DEF IInv, LapOverrun, DetachedFresh, Accounting
<1> QED  BY <1>4, <1>5, <1>6, ReaderKeepsRing, Zenon DEF IInv, RingInv

\* A sequence word past the one of a complete position is larger, and not zero.
LEMMA PastComplete ==
    ASSUME NEW s \in Nat, NEW n \in Nat, s >= Complete(n), s # Complete(n)
    PROVE  s > Complete(n) /\ s # 0
BY SMTT(30) DEF Complete

\* A reader whose cell is no longer the one it started to copy is overrun.
LEMMA MovedMeansOverrun ==
    ASSUME IInv, NEW r \in Readers, rpc[r] = "copy",
           seq[Cell(next[r])] # s1[r]
    PROVE  next[r] + Capacity < write_pos
<1> DEFINE c == Cell(next[r])
<1>1. /\ next[r] \in Nat /\ c \in Cells /\ seq[c] \in Nat
      /\ s1[r] = Complete(next[r]) /\ seq[c] >= s1[r] /\ seq[c] # s1[r]
  BY CellType, Zenon DEF IInv, TypeOK, CopySound
<1> HIDE DEF c
<1>2. seq[c] > Complete(next[r]) /\ seq[c] # 0
  BY <1>1, PastComplete, Zenon
<1>3. PICK q \in 0 .. write_pos - 1 :
        Cell(q) = c /\ (seq[c] = Writing(q) \/ seq[c] = Complete(q))
  BY <1>1, <1>2, ZenonT(30) DEF IInv, SeqNamesPosition
<1>4. q > next[r]
  BY <1>1, <1>2, <1>3, SMTT(30) DEF Complete, Writing
<1> QED  BY <1>1, <1>3, <1>4, PastMeansOverrun, Zenon DEF c

\* A copy finished while the cell stayed as it was holds the frame at next.
LEMMA UntouchedMeansWhole ==
    ASSUME IInv, NEW r \in Readers, rpc[r] = "copy", AllCopied(r),
           seq[Cell(next[r])] = s1[r]
    PROVE  buf[r] = [i \in WordIdx |-> next[r]]
<1>1. \A i \in WordIdx : buf[r][i] = next[r]
  BY Zenon DEF IInv, CopySound, AllCopied
<1> QED  BY <1>1, Zenon DEF IInv, TypeOK

\* The second sequence load differs: try_read goes on to lap.
LEMMA CheckMovedStep ==
    ASSUME IInv, NEW r \in Readers, CheckMoved(r)
    PROVE  IInv'
<1> USE DEF CheckMoved, CellMoved, shared, producer
<1>1. TypeOK'
  BY Zenon DEF IInv, TypeOK
<1>2. CopySound'
  BY Zenon DEF IInv, TypeOK, CopySound
<1>3. LapOverrun'
  BY MovedMeansOverrun, Zenon DEF IInv, TypeOK, LapOverrun
<1>4. DetachedFresh' /\ Accounting'
  BY Zenon DEF IInv, TypeOK, DetachedFresh, Accounting
<1> QED  BY <1>1, <1>2, <1>3, <1>4, ReaderKeepsRing, ZenonT(30) DEF IInv, RingInv

\* The position inside the copy is wrong: only after the cell has moved on.
LEMMA CheckInconsistentStep ==
    ASSUME IInv, NEW r \in Readers, CheckInconsistent(r), buf[r][1] # next[r]
    PROVE  IInv' /\ seq[Cell(next[r])] # s1[r]
<1> USE DEF CheckInconsistent, shared, producer
<1>1. seq[Cell(next[r])] # s1[r]
  <2> SUFFICES ASSUME seq[Cell(next[r])] = s1[r]
               PROVE  FALSE
    BY Zenon
  <2>1. 1 \in WordIdx
    BY FrameWordsAssumption, SMTT(30) DEF WordIdx
  <2>2. buf[r] = [i \in WordIdx |-> next[r]]
    BY UntouchedMeansWhole, Zenon
  <2> QED  BY <2>1, <2>2, Zenon
<1>2. TypeOK'
  BY SMTT(30) DEF IInv, TypeOK
<1>3. CopySound'
  BY Zenon DEF IInv, TypeOK, CopySound
<1>4. LapOverrun'
  BY <1>1, MovedMeansOverrun, Zenon DEF IInv, TypeOK, LapOverrun
<1>5. DetachedFresh' /\ Accounting'
  BY Zenon DEF IInv, TypeOK, DetachedFresh, Accounting
<1> QED  BY <1>1, <1>2, <1>3, <1>4, <1>5, ReaderKeepsRing, Zenon DEF IInv, RingInv

\* try_read delivers the frame and moves to the next position.
LEMMA CheckOkStep ==
    ASSUME IInv, NEW r \in Readers, CheckOk(r)
    PROVE  IInv' /\ next[r] < write_pos
<1> USE DEF CheckOk, shared, producer
<1>1. next[r] < write_pos
  <2> DEFINE c == Cell(next[r])
  <2>1. /\ next[r] \in Nat /\ c \in Cells /\ seq[c] \in Nat
        /\ seq[c] >= Complete(next[r])
    BY CellType, Zenon DEF IInv, TypeOK, CopySound
  <2>2. PICK q \in 0 .. write_pos - 1 :
          seq[c] = Writing(q) \/ seq[c] = Complete(q)
    BY <2>1, SMTT(30) DEF IInv, SeqNamesPosition, Complete
  <2> QED  BY <2>1, <2>2, BoundsAssumption, SMTT(30)
           DEF Complete, Writing, IInv, TypeOK
<1>2. TypeOK'
  BY <1>1, BoundsAssumption, SMTT(30) DEF IInv, TypeOK
<1>3. CopySound'
  BY Zenon DEF IInv, TypeOK, CopySound
<1>4. LapOverrun'
  BY Zenon DEF IInv, TypeOK, LapOverrun
<1>5. DetachedFresh'
  BY Zenon DEF IInv, TypeOK, DetachedFresh
<1>6. Accounting'
  BY DEF IInv, TypeOK, Accounting
<1> QED  BY <1>1, <1>2, <1>3, <1>4, <1>5, <1>6, ReaderKeepsRing, Zenon
         DEF IInv, RingInv

\* Where lap may put a cursor: forward, and over overrun positions only.
LEMMA LapStep ==
    ASSUME IInv, NEW r \in Readers, Lap(r)
    PROVE  /\ IInv'
           /\ \E t \in next[r] + 1 .. write_pos - Capacity :
                /\ next' = [next EXCEPT ![r] = t]
                /\ missed' = [missed EXCEPT ![r] = @ + (t - next[r])]
<1> USE DEF Lap, shared, producer
<1>1. PICK w \in SyncedPos(s1[r]) .. write_pos :
        /\ next' = [next EXCEPT ![r] = LapTarget(@, w)]
        /\ missed' = [missed EXCEPT ![r] = @ + LapMissed(next[r], w)]
  BY Zenon
<1> DEFINE t == LapTarget(next[r], w)
<1>2. /\ next[r] \in Nat /\ write_pos \in Nat /\ w \in Int /\ w <= write_pos
      /\ next[r] + Capacity < write_pos
  BY BoundsAssumption, SMTT(30) DEF IInv, TypeOK, LapOverrun
<1>3. t \in next[r] + 1 .. write_pos - Capacity
  BY <1>2, CapacityAssumption, SMTT(30) DEF LapTarget, Oldest
<1>4. /\ next' = [next EXCEPT ![r] = t]
      /\ missed' = [missed EXCEPT ![r] = @ + (t - next[r])]
  BY <1>1, Zenon DEF LapMissed, IInv, TypeOK
<1> HIDE DEF t
<1>5. TypeOK'
  <2>1. t \in Nat /\ missed[r] + (t - next[r]) \in Nat /\ t <= write_pos
    BY <1>2, <1>3, CapacityAssumption, SMTT(30) DEF IInv, TypeOK
  <2> QED  BY <2>1, <1>4, Zenon DEF IInv, TypeOK
<1>6. CopySound'
  <2>1. rpc'[r] # "copy"
    BY Zenon DEF IInv, TypeOK
  <2>2. ASSUME NEW r2 \in Readers, r2 # r
        PROVE  rpc'[r2] = rpc[r2] /\ next'[r2] = next[r2]
    BY <2>2, <1>4, Zenon DEF IInv, TypeOK
  <2> QED  BY <2>1, <2>2, ZenonT(30) DEF IInv, CopySound
<1>7. LapOverrun'
  BY <1>4, Zenon DEF IInv, TypeOK, LapOverrun
<1>8. DetachedFresh'
  BY <1>4, Zenon DEF IInv, TypeOK, DetachedFresh
<1>9. Accounting'
  <2>1. next'[r] = t /\ missed'[r] = missed[r] + (t - next[r])
    BY <1>4, Zenon DEF IInv, TypeOK
  <2>2. /\ t \in Int /\ next[r] \in Nat
        /\ start[r] \in Nat /\ delivered[r] \in Nat /\ missed[r] \in Nat
        /\ start[r] + delivered[r] + missed[r] = next[r]
    <3>1. t \in Int
      BY <1>2, <1>3, CapacityAssumption, SMTT(30)
    <3>2. start[r] + delivered[r] + missed[r] = next[r]
      BY Zenon DEF IInv, Accounting
    <3> QED  BY <3>1, <3>2, Zenon DEF IInv, TypeOK
  <2>3. start[r] + delivered[r] + missed'[r] = next'[r]
    BY <2>1, <2>2, SMTT(30)
  <2>4. ASSUME NEW r2 \in Readers, r2 # r
        PROVE  next'[r2] = next[r2] /\ missed'[r2] = missed[r2]
    BY <2>4, <1>4, Zenon DEF IInv, TypeOK
  <2> QED  BY <2>3, <2>4, ZenonT(30) DEF IInv, Accounting
<1> QED  BY <1>3, <1>4, <1>5, <1>6, <1>7, <1>8, <1>9, ReaderKeepsRing, Zenon
         DEF IInv, RingInv

----------------------------------------------------------------------------
(* Theorems                                                                *)

\* The initial state satisfies the inductive invariant.
LEMMA InitInv == Init => IInv
<1> SUFFICES ASSUME Init PROVE IInv
  BY Zenon
<1> USE DEF Init
<1>1. TypeOK
  BY BoundsAssumption, SMTT(30) DEF TypeOK, BlankWords, Blank
<1>2. RingInv
  BY CapacityAssumption, BoundsAssumption, SMTT(30)
     DEF RingInv, TicketsDisjoint, SeqNamesPosition, WriterHolds, CellContents,
         Complete
<1>3. CopySound /\ LapOverrun /\ DetachedFresh /\ Accounting
  BY SMTT(30) DEF CopySound, LapOverrun, DetachedFresh, Accounting
<1> QED  BY <1>1, <1>2, <1>3, Zenon DEF IInv, RingInv

\* Nothing changes.
LEMMA StutterStep == IInv /\ UNCHANGED vars => IInv'
<1> SUFFICES ASSUME IInv, UNCHANGED vars PROVE IInv'
  BY Zenon
<1> USE DEF vars, shared, producer, reader
<1>1. TypeOK'
  BY Zenon DEF IInv, TypeOK
<1>2. CopySound' /\ LapOverrun' /\ DetachedFresh' /\ Accounting'
  BY Zenon DEF IInv, CopySound, LapOverrun, DetachedFresh, Accounting
<1> QED  BY <1>1, <1>2, ReaderKeepsRing, Zenon DEF IInv, RingInv

\* Every step of the specification preserves the inductive invariant.
LEMMA StepInv == IInv /\ [Next]_vars => IInv'
<1> SUFFICES ASSUME IInv, [Next]_vars PROVE IInv'
  BY Zenon
<1>1. CASE UNCHANGED vars
  BY <1>1, StutterStep, Zenon
<1>2. ASSUME NEW p \in Producers, NEW n \in 1 .. MaxBatch, Ticket(p, n)
      PROVE  IInv'
  BY <1>2, TicketStep, Zenon
<1>3. ASSUME NEW p \in Producers, WriteStep(p)
      PROVE  IInv'
  BY <1>3, ClaimStep, StoreWordStep, PublishStep, Zenon DEF WriteStep
<1>4. ASSUME NEW r \in Readers, Attach(r)
      PROVE  IInv'
  BY <1>4, AttachStep, Zenon
<1>5. ASSUME NEW r \in Readers, ReadStep(r)
      PROVE  IInv'
  BY <1>5, StutterStep, ReadAheadStep, ReadReadyStep, CopyWordStep,
     CheckMovedStep, CheckInconsistentStep, CheckOkStep, LapStep, Zenon
     DEF ReadStep, ReadEmpty, CheckUntouched
<1> QED  BY <1>1, <1>2, <1>3, <1>4, <1>5, Zenon DEF Next

\* The strengthened invariant holds of every behaviour of the ring.
THEOREM Inductive == Spec => []IInv
BY InitInv, StepInv, PTL DEF Spec

\* Sequence words, batches and cursors stay in range, for any number of
\* producers and readers, any capacity and any memory ordering of the claim.
THEOREM TypeCorrect == Spec => []TypeOK
<1>1. IInv => TypeOK
  BY Zenon DEF IInv
<1> QED  BY <1>1, Inductive, PTL

\* No two producers are ever writing the same cell (the CAS of write_at).
THEOREM ProducerExclusion == Spec => []SingleWriter
BY InvSingleWriter, Inductive, PTL

\* Every position between attach and the cursor is delivered or counted
\* missed (try_read and lap).
THEOREM NothingVanishes == Spec => []Accounting
<1>1. IInv => Accounting
  BY Zenon DEF IInv
<1> QED  BY <1>1, Inductive, PTL

\* The producers' and most of the readers' steps leave every cursor alone.
LEMMA CursorsStay ==
    ASSUME \/ UNCHANGED vars
           \/ \E p \in Producers : \E n \in 1 .. MaxBatch : Ticket(p, n)
           \/ \E p \in Producers : WriteStep(p)
           \/ \E r \in Readers :
                \/ ReadEmpty(r) \/ ReadAhead(r) \/ ReadReady(r) \/ CopyWord(r)
                \/ CheckMoved(r) \/ CheckInconsistent(r)
    PROVE  UNCHANGED <<next, missed, delivered, out>>
BY ZenonT(30) DEF vars, reader, Ticket, WriteStep, Claim, StoreWord, Publish, ReadEmpty,
       ReadAhead, ReadReady, CopyWord, CheckMoved, CheckInconsistent

\* A cursor moves only by delivering or over positions that were overrun: a
\* reader within Capacity frames of the write position loses nothing.
THEOREM KeepingUpLosesNothing == Spec => LossOnlyByOverrun
<1>1. ASSUME IInv, [Next]_vars, NEW q \in Readers
      PROVE  DeliversOrOverrun(q)
  <2>0. next \in [Readers -> Nat] /\ delivered \in [Readers -> Nat]
    BY <1>1, Zenon DEF IInv, TypeOK
  <2>1. ASSUME UNCHANGED next
        PROVE  DeliversOrOverrun(q)
    BY <2>1, Zenon DEF DeliversOrOverrun
  <2>2. ASSUME NEW r \in Readers, Attach(r)
        PROVE  DeliversOrOverrun(q)
    BY <2>0, <2>2, Zenon DEF Attach, DeliversOrOverrun
  <2>3. ASSUME NEW r \in Readers, CheckOk(r)
        PROVE  DeliversOrOverrun(q)
    BY <2>0, <2>3, Zenon DEF CheckOk, DeliversOrOverrun
  <2>4. ASSUME NEW r \in Readers, Lap(r)
        PROVE  DeliversOrOverrun(q)
    <3>1. PICK t \in next[r] + 1 .. write_pos - Capacity :
            next' = [next EXCEPT ![r] = t]
      BY <1>1, <2>4, LapStep, Zenon
    <3>2. write_pos \in Nat
      BY <1>1, BoundsAssumption, SMTT(30) DEF IInv, TypeOK
    <3> QED  BY <2>0, <3>1, <3>2, CapacityAssumption, SMTT(30) DEF DeliversOrOverrun
  <2> QED  BY <1>1, <2>1, <2>2, <2>3, <2>4, CursorsStay, Zenon
       DEF Next, ReadStep, CheckUntouched
<1>2. IInv /\ [Next]_vars => [\A r \in Readers : DeliversOrOverrun(r)]_vars
  BY <1>1, Zenon
<1> QED  BY <1>2, Inductive, PTL DEF Spec, LossOnlyByOverrun

----------------------------------------------------------------------------
(* Whole reads, where the claim is visible before the words it covers.     *)

\* With an ordered claim the second sequence load vouches for the copy.
LEMMA OrderedCheck ==
    ASSUME ClaimOrdered, IInv, NEW r \in Readers, rpc[r] = "copy",
           AllCopied(r), CellUntouched(r)
    PROVE  buf[r] = [i \in WordIdx |-> next[r]]
<1>1. seq[Cell(next[r])] = s1[r]
  BY SeqLoadNames, CellType, Zenon DEF CellUntouched, IInv, TypeOK
<1> QED  BY <1>1, UntouchedMeansWhole, ZenonT(30)

WholeInv == IInv /\ WholeReads /\ NeverInconsistent

\* A step of the ring delivers nothing torn and meets nothing inconsistent
\* when the claim is ordered before the word stores.
LEMMA WholeStep ==
    ASSUME ClaimOrdered, WholeInv, [Next]_vars
    PROVE  WholeReads' /\ NeverInconsistent'
<1>0. IInv /\ next \in [Readers -> Nat]
  BY Zenon DEF WholeInv, IInv, TypeOK
<1>1. ASSUME NEW r \in Readers, CheckInconsistent(r), buf[r][1] # next[r]
      PROVE  FALSE
  BY <1>0, <1>1, SeqLoadNames, CellType, CheckInconsistentStep, ZenonT(30)
     DEF CheckInconsistent, CellUntouched, IInv, TypeOK
<1>2. NeverInconsistent'
  BY <1>1, Zenon DEF WholeInv, NeverInconsistent, Next, vars, Ticket, WriteStep, Claim,
     StoreWord, Publish, ReadStep, Attach, ReadEmpty, ReadAhead, ReadReady,
     CopyWord, CheckMoved, CheckUntouched, CheckOk, Lap
<1>3. ASSUME UNCHANGED <<next, out>>
      PROVE  WholeReads'
  BY <1>3, Zenon DEF WholeInv, WholeReads
<1>4. ASSUME NEW r \in Readers, Attach(r)
      PROVE  WholeReads'
  <2>1. PICK w \in 0 .. write_pos : next' = [next EXCEPT ![r] = Oldest(w)]
    BY <1>4, Zenon DEF Attach
  <2>2. next[r] = 0
    <3>1. delivered[r] = 0 /\ missed[r] = 0 /\ start[r] = 0
      BY <1>0, <1>4, Zenon DEF Attach, IInv, DetachedFresh
    <3>2. start[r] + delivered[r] + missed[r] = next[r]
      BY <1>0, Zenon DEF IInv, Accounting
    <3>3. 0 + 0 + 0 = 0
      OBVIOUS
    <3> QED  BY <3>1, <3>2, <3>3, Zenon
  <2>3. out[r] = BlankWords
    <3>1. 0 .. next[r] - 1 = {}
      BY <2>2, SMTT(30)
    <3> QED  BY <3>1, Zenon DEF WholeInv, WholeReads
  <2> QED  BY <1>0, <1>4, <2>1, <2>3, Zenon DEF Attach, WholeInv, WholeReads
<1>5. ASSUME NEW r \in Readers, CheckOk(r)
      PROVE  WholeReads'
  <2>1. buf[r] = [i \in WordIdx |-> next[r]]
    BY <1>0, <1>5, OrderedCheck, ZenonT(30) DEF CheckOk
  <2>2. /\ out' = [out EXCEPT ![r] = buf[r]]
        /\ next' = [next EXCEPT ![r] = @ + 1]
        /\ out \in [Readers -> [WordIdx -> Int]]
    BY <1>0, <1>5, Zenon DEF CheckOk, IInv, TypeOK
  <2>3. ASSUME NEW r2 \in Readers
        PROVE  \/ out'[r2] = BlankWords
               \/ \E q \in 0 .. next'[r2] - 1 : out'[r2] = [i \in WordIdx |-> q]
    <3>1. CASE r2 = r
      <4>1. next[r] \in 0 .. next'[r] - 1 /\ out'[r] = buf[r]
        BY <1>0, <2>2, SMTT(30)
      <4> QED  BY <3>1, <4>1, <2>1, Zenon
    <3>2. CASE r2 # r
      BY <3>2, <1>0, <2>2, Zenon DEF WholeInv, WholeReads
    <3> QED  BY <3>1, <3>2, Zenon
  <2> QED  BY <2>3, Zenon DEF WholeReads
<1>6. ASSUME NEW r \in Readers, Lap(r)
      PROVE  WholeReads'
  <2>1. PICK t \in next[r] + 1 .. write_pos - Capacity :
          next' = [next EXCEPT ![r] = t]
    BY <1>0, <1>6, LapStep, Zenon
  <2>2. out' = out
    BY <1>6, Zenon DEF Lap
  <2>3. ASSUME NEW r2 \in Readers, NEW q \in 0 .. next[r2] - 1
        PROVE  q \in 0 .. next'[r2] - 1
    BY <1>0, <2>1, SMTT(30)
  <2> QED  BY <2>2, <2>3, Zenon DEF WholeInv, WholeReads
<1>7. WholeReads'
  BY <1>3, <1>4, <1>5, <1>6, CursorsStay, Zenon
       DEF Next, ReadStep, CheckUntouched
<1> QED  BY <1>2, <1>7, Zenon

\* What was delivered is whole, along with the inductive invariant.
LEMMA WholeInductive == ASSUME ClaimOrdered PROVE Spec => []WholeInv
<1>1. Init => WholeInv
  BY InitInv, Zenon DEF Init, WholeInv, WholeReads, NeverInconsistent
<1>2. WholeInv /\ [Next]_vars => WholeInv'
  BY StepInv, WholeStep, Zenon DEF WholeInv
<1> QED  BY <1>1, <1>2, PTL DEF Spec

\* No torn frame is ever handed out, where readers see a claim before the
\* words stored under it.
THEOREM NoTornFrames == ASSUME ClaimOrdered PROVE Spec => []WholeReads
<1>1. WholeInv => WholeReads
  BY Zenon DEF WholeInv
<1> QED  BY <1>1, WholeInductive, PTL

\* Under the same ordering the branch that counts inconsistent_reads_ is
\* unreachable, as its comment says.
THEOREM InconsistentUnreachable ==
    ASSUME ClaimOrdered PROVE Spec => []NeverInconsistent
<1>1. WholeInv => NeverInconsistent
  BY Zenon DEF WholeInv
<1> QED  BY <1>1, WholeInductive, PTL

----------------------------------------------------------------------------
(* The ring implements the broadcast log.                                  *)

\* An empty ring is an empty log.
LEMMA LogInit == Init => Log!Init
BY ZenonT(30) DEF Init, Log!Init, Log!Frame, BlankWords, Blank, WordIdx

\* Every step of the ring is a step of the log or leaves it unchanged.
LEMMA LogStep ==
    ASSUME ClaimOrdered, IInv, [Next]_vars
    PROVE  [Log!Next]_(Log!vars)
<1>0. /\ next \in [Readers -> Nat] /\ DOMAIN rpc = Readers
      /\ rpc = [r \in Readers |-> rpc[r]]
      /\ write_pos \in Nat
  BY BoundsAssumption, SMTT(30) DEF IInv, TypeOK
<1>1. ASSUME NEW p \in Producers, NEW n \in 1 .. MaxBatch, Ticket(p, n)
      PROVE  Log!Grow
  BY <1>0, <1>1, SMTT(30) DEF Ticket, reader, Log!Grow
<1>2. ASSUME UNCHANGED <<write_pos, rpc, next, missed, delivered, out>>
      PROVE  UNCHANGED Log!vars
  BY <1>2, Zenon DEF Log!vars
<1>3. ASSUME NEW p \in Producers, WriteStep(p)
      PROVE  UNCHANGED Log!vars
  BY <1>2, <1>3, Zenon DEF WriteStep, Claim, StoreWord, Publish, reader
<1>4. ASSUME NEW r \in Readers, Attach(r)
      PROVE  Log!Join(r)
  <2>1. PICK w \in 0 .. write_pos : next' = [next EXCEPT ![r] = Oldest(w)]
    BY <1>4, Zenon DEF Attach
  <2>2. /\ Oldest(w) \in 0 .. write_pos
        /\ Oldest(w) = 0 \/ Oldest(w) + Capacity <= write_pos
    BY <1>0, CapacityAssumption, SMTT(30) DEF Oldest
  <2> QED  BY <1>0, <1>4, <2>1, <2>2, Zenon DEF Attach, shared, Log!Join
<1>5. ASSUME NEW r \in Readers,
             \/ ReadAhead(r) \/ ReadReady(r) \/ CopyWord(r)
             \/ CheckMoved(r) \/ CheckInconsistent(r)
      PROVE  UNCHANGED Log!vars
  BY <1>0, <1>5, Zenon DEF ReadAhead, ReadReady, CopyWord, CheckMoved,
     CheckInconsistent, shared, Log!vars
<1>6. ASSUME NEW r \in Readers, CheckOk(r)
      PROVE  Log!Deliver(r)
  <2>1. buf[r] = [i \in WordIdx |-> next[r]] /\ next[r] < write_pos
    BY <1>6, OrderedCheck, CheckOkStep, Zenon DEF CheckOk
  <2> QED  BY <1>0, <1>6, <2>1, Zenon
           DEF CheckOk, shared, WordIdx, Log!Deliver, Log!Frame
<1>7. ASSUME NEW r \in Readers, Lap(r)
      PROVE  Log!Lose(r)
  <2>1. PICK t \in next[r] + 1 .. write_pos - Capacity :
          /\ next' = [next EXCEPT ![r] = t]
          /\ missed' = [missed EXCEPT ![r] = @ + (t - next[r])]
    BY <1>7, LapStep, Zenon
  <2> QED  BY <1>0, <1>7, <2>1, Zenon DEF Lap, shared, Log!Lose
<1>8. ASSUME UNCHANGED vars
      PROVE  UNCHANGED Log!vars
  BY <1>2, <1>8, Zenon DEF vars, shared, reader
<1> QED  BY <1>1, <1>3, <1>4, <1>5, <1>6, <1>7, <1>8, Zenon
         DEF Next, ReadStep, ReadEmpty, CheckUntouched, Log!Next

\* The seqlock ring implements the log for every number of producers and
\* readers and every capacity: whole frames, in order, at most once, and
\* skipped only when overrun.
THEOREM RingImplementsLog == ASSUME ClaimOrdered PROVE Spec => ImplementsLog
BY LogInit, LogStep, Inductive, PTL DEF Spec, Log!Spec, ImplementsLog

----------------------------------------------------------------------------
(* The way back of an echo                                                 *)

Unit == [at : 1 .. ReplyUnits, nonce : Nat]

\* v comes next after u on the way back: the next unit of the reply, or the first
\* of a later one.
ComesNext(u, v) ==
    \/ v.at = u.at + 1 /\ v.nonce = u.nonce
    \/ v.at = 1 /\ v.nonce > u.nonce

InStep(s) == \A i \in 1 .. Len(s) - 1 : ComesNext(s[i], s[i + 1])

\* t continues s.
Meets(s, t) == s # <<>> /\ t # <<>> => ComesNext(s[Len(s)], t[1])

\* The lengths and the elements of a concatenation, and of a part.
LEMMA Joined ==
    ASSUME NEW S, NEW s \in Seq(S), NEW t \in Seq(S)
    PROVE  /\ s \o t \in Seq(S) /\ Len(s) \in Nat /\ Len(t) \in Nat
           /\ Len(s \o t) = Len(s) + Len(t)
           /\ \A i \in 1 .. Len(s) : (s \o t)[i] = s[i]
           /\ \A i \in 1 .. Len(t) : (s \o t)[Len(s) + i] = t[i]
<1>1. s \o t \in Seq(S) /\ Len(s) \in Nat /\ Len(t) \in Nat /\ Len(s \o t) = Len(s) + Len(t)
  BY SMTT(30)
<1>2. \A i \in 1 .. Len(s) : (s \o t)[i] = s[i]
  BY SMTT(30)
<1>3. \A i \in 1 .. Len(t) : (s \o t)[Len(s) + i] = t[i]
  BY SMTT(30)
<1> QED
  BY <1>1, <1>2, <1>3, SMTT(30)

LEMMA FirstPart ==
    ASSUME NEW S, NEW s \in Seq(S), NEW n \in Nat, n <= Len(s)
    PROVE  /\ SubSeq(s, 1, n) \in Seq(S) /\ Len(SubSeq(s, 1, n)) = n
           /\ \A i \in 1 .. n : SubSeq(s, 1, n)[i] = s[i]
BY SMTT(30)

LEMMA LastPart ==
    ASSUME NEW S, NEW s \in Seq(S), NEW n \in Nat, n <= Len(s)
    PROVE  /\ SubSeq(s, n + 1, Len(s)) \in Seq(S)
           /\ Len(SubSeq(s, n + 1, Len(s))) = Len(s) - n
           /\ \A i \in 1 .. Len(s) - n : SubSeq(s, n + 1, Len(s))[i] = s[n + i]
<1> DEFINE m == Len(s) - n
           t == SubSeq(s, n + 1, n + m)
<1>1. m \in Nat /\ n + m = Len(s)
  BY SMTT(30)
<1> HIDE DEF m
<1>2. t \in Seq(S) /\ Len(t) = m /\ \A i \in 1 .. m : t[i] = s[n + i]
  BY <1>1, SMTT(30)
<1> QED
  BY <1>1, <1>2, Zenon DEF m

LEMMA StepsJoin ==
    ASSUME NEW S, NEW s \in Seq(S), NEW t \in Seq(S), InStep(s), InStep(t), Meets(s, t)
    PROVE  InStep(s \o t)
<1> DEFINE m == Len(s)
           n == Len(t)
           u == s \o t
<1>1. /\ m \in Nat /\ n \in Nat /\ Len(u) = m + n
      /\ \A i \in 1 .. m : u[i] = s[i]
      /\ \A i \in 1 .. n : u[m + i] = t[i]
  BY Joined, SMTT(30)
<1> HIDE DEF m, n, u
<1>2. ASSUME NEW i \in 1 .. Len(u) - 1 PROVE ComesNext(u[i], u[i + 1])
  <2>1. CASE i < m
    <3>1. i \in 1 .. m /\ i + 1 \in 1 .. m /\ i \in 1 .. m - 1
      BY <1>1, <2>1
    <3> QED
      BY <3>1, <1>1, ZenonT(30) DEF InStep, m
  <2>2. CASE i = m
    <3>1. m \in 1 .. m /\ 1 \in 1 .. n
      BY <1>1, <2>2, SMTT(30)
    <3>2. s # <<>> /\ t # <<>>
      BY <3>1 DEF m, n
    <3>3. u[i] = s[m] /\ u[i + 1] = t[1]
      BY <2>2, <3>1, <1>1, Zenon
    <3> QED
      BY <3>2, <3>3, ZenonT(30) DEF Meets, m
  <2>3. CASE i > m
    <3>1. PICK j \in 1 .. n : j \in 1 .. n - 1 /\ j + 1 \in 1 .. n /\ i = m + j /\ i + 1 = m + (j + 1)
      <4>1. i - m \in 1 .. n /\ i - m \in 1 .. n - 1 /\ (i - m) + 1 \in 1 .. n
            /\ i = m + (i - m) /\ i + 1 = m + ((i - m) + 1)
        BY <1>1, <2>3, SMTT(30)
      <4> QED
        BY <4>1, ZenonT(30)
    <3>2. u[i] = t[j] /\ u[i + 1] = t[j + 1]
      BY <3>1, <1>1, Zenon
    <3> QED
      BY <3>1, <3>2, Zenon DEF InStep, n
  <2> QED
    BY <1>1, <2>1, <2>2, <2>3, SMTT(30)
<1> QED
  BY <1>2, ZenonT(30) DEF InStep, u

\* Both parts of a sequence in step are, and the second continues the first.
LEMMA StepsSplit ==
    ASSUME NEW S, NEW s \in Seq(S), NEW n \in Nat, n <= Len(s), InStep(s)
    PROVE  /\ InStep(SubSeq(s, 1, n)) /\ InStep(SubSeq(s, n + 1, Len(s)))
           /\ Meets(SubSeq(s, 1, n), SubSeq(s, n + 1, Len(s)))
<1> DEFINE a == SubSeq(s, 1, n)
           b == SubSeq(s, n + 1, Len(s))
           m == Len(s)
<1>1. a \in Seq(S) /\ Len(a) = n /\ \A i \in 1 .. n : a[i] = s[i]
  BY FirstPart, Zenon
<1>2. b \in Seq(S) /\ Len(b) = m - n /\ \A i \in 1 .. m - n : b[i] = s[n + i]
  BY LastPart, Zenon
<1>3. m \in Nat /\ n <= m
  BY SMTT(30)
<1>4. \A i \in 1 .. m - 1 : ComesNext(s[i], s[i + 1])
  BY Zenon DEF InStep
<1> HIDE DEF a, b, m
<1>5. InStep(a)
  <2>1. ASSUME NEW i \in 1 .. Len(a) - 1 PROVE ComesNext(a[i], a[i + 1])
    <3>1. i \in 1 .. n /\ i + 1 \in 1 .. n /\ i \in 1 .. m - 1
      BY <1>1, <1>3, SMTT(30)
    <3> QED
      BY <3>1, <1>1, <1>4, ZenonT(30)
  <2> QED
    BY <2>1, Zenon DEF InStep
<1>6. InStep(b)
  <2>1. ASSUME NEW i \in 1 .. Len(b) - 1 PROVE ComesNext(b[i], b[i + 1])
    <3>1. i \in 1 .. m - n /\ i + 1 \in 1 .. m - n /\ n + i \in 1 .. m - 1 /\ n + (i + 1) = (n + i) + 1
      BY <1>2, <1>3, SMTT(30)
    <3>2. b[i] = s[n + i] /\ b[i + 1] = s[n + (i + 1)]
      BY <3>1, <1>2, Zenon
    <3>3. b[i + 1] = s[(n + i) + 1]
      BY <3>1, <3>2, Zenon
    <3> QED
      BY <3>1, <3>2, <3>3, <1>4, Zenon
  <2> QED
    BY <2>1, Zenon DEF InStep
<1>7. Meets(a, b)
  <2> SUFFICES ASSUME a # <<>>, b # <<>> PROVE ComesNext(a[Len(a)], b[1])
    BY Zenon DEF Meets
  <2>1. n > 0 /\ m - n > 0
    BY <1>1, <1>2, <1>3, SMTT(30)
  <2>2. n \in 1 .. n /\ n \in 1 .. m - 1 /\ 1 \in 1 .. m - n
    BY <2>1, <1>3, SMTT(30)
  <2>3. a[Len(a)] = s[n] /\ b[1] = s[n + 1]
    BY <2>2, <1>1, <1>2, Zenon
  <2> QED
    BY <2>2, <2>3, <1>4, Zenon
<1> QED
  BY <1>5, <1>6, <1>7, Zenon DEF a, b, m

\* What is left after j replies.
LEMMA AfterIs ==
    ASSUME NEW S, NEW b \in Seq(S), NEW j \in Nat
    PROVE  /\ After(b, j) \in Seq(S) /\ Len(b) \in Nat
           /\ j * 7 <= Len(b) =>
                 /\ Len(After(b, j)) = Len(b) - j * 7
                 /\ \A i \in 1 .. Len(b) - j * 7 : After(b, j)[i] = b[j * 7 + i]
           /\ j * 7 > Len(b) => After(b, j) = <<>>
<1> DEFINE n == j * 7
<1>1. n \in Nat /\ After(b, j) = SubSeq(b, n + 1, Len(b)) /\ Len(b) \in Nat
  BY DEF After, ReplyUnits
<1> DEFINE t == SubSeq(b, n + 1, Len(b))
<1> HIDE DEF n, t
<1>2. n <= Len(b) =>
        /\ t \in Seq(S) /\ Len(t) = Len(b) - n
        /\ \A i \in 1 .. Len(b) - n : t[i] = b[n + i]
  BY <1>1, LastPart, Zenon DEF t
<1>3. n > Len(b) => t = <<>> /\ <<>> \in Seq(S)
  BY <1>1, SMTT(30) DEF t
<1>4. n <= Len(b) \/ n > Len(b)
  BY <1>1, SMTT(30)
<1>5. After(b, j) = t
  BY <1>1, Zenon DEF t
<1>6. t \in Seq(S)
  BY <1>2, <1>3, <1>4, Zenon
<1> QED
  BY <1>1, <1>2, <1>3, <1>5, <1>6, Zenon DEF n

LEMMA AfterAll ==
    ASSUME NEW S, NEW b \in Seq(S)
    PROVE  \A j \in Nat : j * 7 <= Len(b) =>
              /\ After(b, j) \in Seq(S) /\ Len(After(b, j)) = Len(b) - j * 7
              /\ \A i \in 1 .. Len(b) - j * 7 : After(b, j)[i] = b[j * 7 + i]
BY AfterIs, Zenon

\* The replies at the start of a buffer are well defined, and all there.
LEMMA RepliesIs ==
    ASSUME NEW S, NEW b \in Seq(S)
    PROVE  /\ Replies(b) \in Nat /\ Replies(b) * 7 <= Len(b)
           /\ \A j \in 0 .. Replies(b) - 1 : StartsWithReply(After(b, j))
           /\ ~StartsWithReply(After(b, Replies(b)))
<1> DEFINE N == Len(b)
           Ends == {i \in 0 .. N : ~StartsWithReply(After(b, i))}
           Is(i) == /\ \A j \in 0 .. i - 1 : StartsWithReply(After(b, j))
                    /\ ~StartsWithReply(After(b, i))
           r == Replies(b)
<1>1. N \in Nat
  OBVIOUS
<1>2. N \in Ends
  <2>1. ~(Len(After(b, N)) >= 7)
    <3>1. CASE N * 7 <= Len(b)
      <4>1. Len(After(b, N)) = Len(b) - N * 7
        BY <3>1, <1>1, AfterIs, SMTT(30)
      <4> QED
        BY <4>1, <1>1, SMTT(30)
    <3>2. CASE N * 7 > Len(b)
      <4>1. After(b, N) = <<>>
        BY <3>2, <1>1, AfterIs, Zenon
      <4> QED
        BY <4>1, SMTT(30)
    <3> QED
      BY <1>1, <3>1, <3>2, SMTT(30)
  <2>2. N \in 0 .. N
    BY <1>1
  <2> QED
    BY <2>1, <2>2, Zenon DEF StartsWithReply, ReplyUnits
<1>3. PICK m \in Ends : \A i \in Ends : m <= i
  <2>1. Ends \in SUBSET Nat
    BY <1>1
  <2> HIDE DEF Ends
  <2> QED
    BY <1>2, <2>1, Least, Zenon
<1>4. m \in 0 .. N /\ Is(m)
  <2>1. m \in 0 .. N /\ ~StartsWithReply(After(b, m))
    BY <1>3, Zenon
  <2>2. ASSUME NEW j \in 0 .. m - 1 PROVE StartsWithReply(After(b, j))
    <3>1. j \in 0 .. N /\ ~(m <= j)
      BY <1>1, <2>1, SMTT(30)
    <3>2. j \notin Ends
      BY <3>1, <1>3, Zenon
    <3> QED
      BY <3>1, <3>2, Zenon
  <2> QED
    BY <2>1, <2>2, Zenon
<1>5. r \in 0 .. N /\ Is(r)
  <2>1. r = CHOOSE i \in 0 .. N : Is(i)
    BY Zenon DEF Replies
  <2> HIDE DEF r, Is, N
  <2> QED
    BY <1>4, <2>1, Zenon
<1> HIDE DEF r
<1>6. r * 7 <= Len(b)
  <2>1. CASE r = 0
    BY <2>1, SMTT(30)
  <2>2. CASE r # 0
    <3>1. r - 1 \in Nat /\ r - 1 \in 0 .. r - 1 /\ r * 7 = (r - 1) * 7 + 7
      BY <1>5, <2>2, <1>1, SMTT(30)
    <3>2. Len(After(b, r - 1)) >= 7
      BY <3>1, <1>5, Zenon DEF StartsWithReply, ReplyUnits
    <3>3. (r - 1) * 7 <= Len(b)
      <4>1. CASE (r - 1) * 7 > Len(b)
        <5>1. After(b, r - 1) = <<>>
          BY <4>1, <3>1, AfterIs, Zenon
        <5> QED
          BY <5>1, <3>2, SMTT(30)
      <4> QED
        BY <4>1, <3>1, <1>1, SMTT(30)
    <3>4. Len(After(b, r - 1)) = Len(b) - (r - 1) * 7
      BY <3>1, <3>3, AfterIs, Zenon
    <3> QED
      BY <3>1, <3>2, <3>4, <1>1, SMTT(30)
  <2> QED
    BY <2>1, <2>2, Zenon
<1>7. r \in Nat
  BY <1>5, <1>1
<1> QED
  BY <1>5, <1>6, <1>7, Zenon DEF r

\* What drain_replies keeps is less than a reply.
LEMMA RemainsIs ==
    ASSUME NEW S, NEW b \in Seq(S), ~StartsWithReply(b)
    PROVE  Remains(b) \in Seq(S) /\ Len(Remains(b)) < 7 /\ (Remains(b) = b \/ Remains(b) = <<>>)
<1>1. Len(b) \in Nat /\ <<>> \in Seq(S) /\ Len(<<>>) = 0
  OBVIOUS
<1>3. CASE Len(b) >= 2 /\ ~HeaderGood(b)
  <2>1. Remains(b) = <<>>
    BY <1>3, Zenon DEF Remains, OutOfSync, HeaderUnits
  <2> QED
    BY <1>1, <2>1
<1>4. CASE ~(Len(b) >= 2 /\ ~HeaderGood(b))
  <2>1. Remains(b) = b
    BY <1>4, Zenon DEF Remains, HeaderUnits
  <2>2. Len(b) < 7
    BY <1>1, <1>4, SMTT(30) DEF StartsWithReply, ReplyUnits
  <2> QED
    BY <2>1, <2>2, Zenon
<1> QED
  BY <1>3, <1>4, Zenon

\* What is kept is a part at the end of what was there.
LEMMA DecodedIs ==
    ASSUME NEW S, NEW b \in Seq(S), NEW t \in Seq(S), InStep(b), Meets(b, t)
    PROVE  LET c == Remains(After(b, Replies(b)))
           IN  c \in Seq(S) /\ Len(c) < 7 /\ InStep(c) /\ Meets(c, t)
<1> DEFINE r == Replies(b)
           a == After(b, r)
           c == Remains(a)
           n == r * 7
           L == Len(b)
<1>1. r \in Nat /\ n <= L /\ ~StartsWithReply(a)
  BY RepliesIs, Zenon
<1>2. a \in Seq(S) /\ L \in Nat /\ Len(a) = L - n /\ \A i \in 1 .. L - n : a[i] = b[n + i]
  BY <1>1, AfterIs, Zenon
<1>3. a = SubSeq(b, n + 1, L) /\ n \in Nat
  BY <1>1 DEF After, ReplyUnits
<1> HIDE DEF r, a, n, L, c
<1>4. InStep(a)
  BY <1>1, <1>3, StepsSplit, Zenon DEF L
<1>5. Meets(a, t)
  <2> SUFFICES ASSUME a # <<>>, t # <<>> PROVE ComesNext(a[Len(a)], t[1])
    BY Zenon DEF Meets
  <2>1. L - n \in 1 .. L - n /\ n + (L - n) = L /\ L > 0
    BY <1>1, <1>2, <1>3
  <2>2. a[Len(a)] = b[L]
    <3>1. a[Len(a)] = b[n + (L - n)]
      BY <2>1, <1>2, Zenon
    <3> QED
      BY <2>1, <3>1, Zenon
  <2>3. b # <<>>
    BY <2>1, SMTT(30) DEF L
  <2> QED
    BY <2>2, <2>3, Zenon DEF Meets, L
<1>6. InStep(<<>>) /\ Meets(<<>>, t)
  BY DEF InStep, Meets
<1>7. c \in Seq(S) /\ Len(c) < 7 /\ (c = a \/ c = <<>>)
  BY <1>1, <1>2, RemainsIs, Zenon DEF c
<1>8. InStep(c) /\ Meets(c, t)
  BY <1>4, <1>5, <1>6, <1>7, Zenon
<1> QED
  BY <1>7, <1>8, Zenon DEF c, a, r

----------------------------------------------------------------------------
\* A unit that can be on its way: its nonce was sent, before those the consumer
\* still has to answer, and the end of a reply is that of a whole one.
FineUnits ==
    {u \in Unit : /\ u.nonce <= nonce
                  /\ \A i \in 1 .. Len(probes) : u.nonce < probes[i]
                  /\ u.at = 7 => u.nonce \in whole_sent}

LEMMA FineIs ==
    \A u \in FineUnits : /\ u \in Unit /\ u.at \in 1 .. 7 /\ u.nonce \in Nat
                         /\ u.nonce <= nonce
                         /\ u.at = 7 => u.nonce \in whole_sent
<1>1. \A u \in Unit : u.at \in 1 .. 7 /\ u.nonce \in Nat
  BY Zenon DEF Unit, ReplyUnits
<1> QED
  BY <1>1, Zenon DEF FineUnits

\* Nothing comes after the newest nonce but the rest of its reply.
LEMMA NextOfNewest ==
    ASSUME NEW u \in FineUnits, NEW v \in FineUnits, ComesNext(u, v), u.nonce = nonce,
           nonce \in Nat
    PROVE  v.at = u.at + 1 /\ v.nonce = nonce
<1>1. v.nonce \in Nat /\ v.nonce <= nonce
  BY FineIs, Zenon
<1>2. ~(v.nonce > u.nonce)
  BY <1>1
<1> QED
  BY <1>2, Zenon DEF ComesNext

\* An answer to the newest probe is followed to its end by what belongs to it.
LEMMA AnswerIsWhole ==
    ASSUME NEW b \in Seq(FineUnits), InStep(b), Answered(b, nonce), nonce \in Nat
    PROVE  nonce \in whole_sent
<1>1. PICK j \in 0 .. Replies(b) - 1 :
          IsAnswer(SubSeq(After(b, j), HeaderUnits + 1, ReplyUnits), nonce)
  BY Zenon DEF Answered
<1> DEFINE a == After(b, j)
           r == Replies(b)
           n == j * 7
<1>2. r \in Nat /\ r * 7 <= Len(b) /\ StartsWithReply(a)
  BY RepliesIs, Zenon
<1>3. j \in Nat /\ n \in Nat /\ n <= Len(b) /\ Len(b) \in Nat
  <2> HIDE DEF r, a
  <2>1. j \in 0 .. r - 1
    BY Zenon DEF r
  <2> QED
    BY <1>2, <2>1, SMTT(30)
<1>4. a = SubSeq(b, n + 1, Len(b))
  BY Zenon DEF After, ReplyUnits
<1>5. a \in Seq(FineUnits)
  BY <1>3, AfterIs, Zenon
<1> HIDE DEF a, r, n
<1>6. InStep(a)
  BY <1>3, <1>4, StepsSplit, Zenon
<1>7. Len(a) \in Nat /\ Len(a) >= 7
  BY <1>2, <1>5, SMTT(30) DEF StartsWithReply, ReplyUnits
<1>8. 1 \in 1 .. 5 /\ SubSeq(a, 2 + 1, 7)[1] = a[3]
  BY <1>5, <1>7, SMTT(30)
<1>9. a[3].at = 3 /\ a[3].nonce = nonce
  <2>1. SubSeq(a, 2 + 1, 7)[1].at = 3 /\ SubSeq(a, 2 + 1, 7)[1].nonce = nonce
    BY <1>1, Zenon DEF IsAnswer, a, HeaderUnits, ReplyUnits
  <2> QED
    BY <1>8, <2>1, Zenon
<1>10. /\ {3, 4, 5, 6} \subseteq 1 .. Len(a) - 1
       /\ \A i \in 1 .. Len(a) : a[i] \in FineUnits
       /\ {3, 4, 5, 6, 7} \subseteq 1 .. Len(a)
       /\ 3 + 1 = 4 /\ 4 + 1 = 5 /\ 5 + 1 = 6 /\ 6 + 1 = 7
  BY <1>5, <1>7, SMTT(30)
<1>11. /\ ComesNext(a[3], a[4]) /\ ComesNext(a[4], a[5])
       /\ ComesNext(a[5], a[6]) /\ ComesNext(a[6], a[7])
  BY <1>6, <1>10, Zenon DEF InStep
<1>12. /\ a[3] \in FineUnits /\ a[4] \in FineUnits /\ a[5] \in FineUnits
       /\ a[6] \in FineUnits /\ a[7] \in FineUnits
  BY <1>10, Zenon
<1>13. a[4].at = a[3].at + 1 /\ a[4].nonce = nonce
  BY <1>9, <1>11, <1>12, NextOfNewest, Zenon
<1>14. a[5].at = a[4].at + 1 /\ a[5].nonce = nonce
  BY <1>13, <1>11, <1>12, NextOfNewest, Zenon
<1>15. a[6].at = a[5].at + 1 /\ a[6].nonce = nonce
  BY <1>14, <1>11, <1>12, NextOfNewest, Zenon
<1>16. a[7].at = a[6].at + 1 /\ a[7].nonce = nonce
  BY <1>15, <1>11, <1>12, NextOfNewest, ZenonT(30)
<1>17. a[7].at = 7
  BY <1>9, <1>13, <1>14, <1>15, <1>16, SMTT(30)
<1> QED
  BY <1>12, <1>16, <1>17, FineIs, Zenon

----------------------------------------------------------------------------
\* Whole replies, one after the other: the place of every unit.
LEMMA WholeAt ==
    ASSUME NEW f \in Seq(Unit), f # <<>>, InStep(f), WholeReplies(f)
    PROVE  /\ \A p \in 1 .. Len(f) : f[p].at = ((p - 1) % 7) + 1
           /\ Len(f) % 7 = 0 /\ Len(f) \in Nat /\ Len(f) >= 7
<1> DEFINE n == Len(f)
           S == {p \in 0 .. n - 1 : f[p + 1].at = (p % 7) + 1}
<1>1. n \in Nat /\ n >= 1
  OBVIOUS
<1>2. /\ f[1].at = 1
      /\ \A i \in 1 .. n : f[i].at = 7 \/ (i < n /\ f[i + 1].at # 1)
  BY Zenon DEF WholeReplies, ReplyUnits
<1>3. \A i \in 1 .. n : f[i] \in Unit /\ f[i].at \in 1 .. 7
  <2>1. \A u \in Unit : u.at \in 1 .. 7
    BY Zenon DEF Unit, ReplyUnits
  <2>2. \A i \in 1 .. n : f[i] \in Unit
    OBVIOUS
  <2> QED
    BY <2>1, <2>2, Zenon
<1>4. \A i \in 1 .. n - 1 : ComesNext(f[i], f[i + 1])
  BY Zenon DEF InStep
<1> HIDE DEF n
<1>5. 0 \in S
  <2>1. 0 \in 0 .. n - 1 /\ 0 + 1 = 1 /\ (0 % 7) + 1 = 1
    BY <1>1
  <2> QED
    BY <2>1, <1>2, Zenon
<1>6. ASSUME NEW p \in 1 .. n - 1, p - 1 \in S PROVE p \in S
  <2>1. p \in 1 .. n /\ p + 1 \in 1 .. n /\ (p - 1) + 1 = p /\ p \in 0 .. n - 1
    BY <1>1
  <2>2. f[p].at = ((p - 1) % 7) + 1
    BY <1>6, <2>1, Zenon
  <2>3. ComesNext(f[p], f[p + 1]) /\ f[p].at \in 1 .. 7 /\ f[p + 1].at \in 1 .. 7
    BY <2>1, <1>3, <1>4, Zenon
  <2>4. f[p + 1].at = f[p].at + 1 \/ f[p + 1].at = 1
    BY <2>3, Zenon DEF ComesNext
  <2>5. f[p].at = 7 \/ f[p + 1].at # 1
    BY <2>1, <1>2, Zenon
  <2>6. f[p + 1].at = (p % 7) + 1
    <3>1. ASSUME NEW x \in 1 .. 7, NEW y \in 1 .. 7, x = ((p - 1) % 7) + 1,
                 y = x + 1 \/ y = 1, x = 7 \/ y # 1
          PROVE  y = (p % 7) + 1
      BY <3>1
    <3> QED
      BY <2>2, <2>3, <2>4, <2>5, <3>1, Zenon
  <2> QED
    BY <2>1, <2>6, Zenon
<1>7. \A p \in 0 .. n - 1 : p \in S
  <2>1. n - 1 \in Nat
    BY <1>1
  <2> HIDE DEF S
  <2> QED
    BY <1>5, <1>6, <2>1, Upto, Zenon
<1>8. ASSUME NEW p \in 1 .. n PROVE f[p].at = ((p - 1) % 7) + 1
  <2>1. p - 1 \in 0 .. n - 1 /\ (p - 1) + 1 = p
    BY <1>1, SMTT(30)
  <2>2. p - 1 \in S
    BY <2>1, <1>7, Zenon
  <2>3. f[(p - 1) + 1].at = ((p - 1) % 7) + 1
    BY <2>2, Zenon
  <2> QED
    BY <2>1, <2>3, Zenon
<1>9. n % 7 = 0 /\ n >= 7
  <2>1. n \in 1 .. n /\ ~(n < n)
    BY <1>1, SMTT(30)
  <2>2. f[n].at = 7
    BY <2>1, <1>2, Zenon
  <2>3. ((n - 1) % 7) + 1 = 7
    BY <2>1, <2>2, <1>8, Zenon
  <2> QED
    BY <2>3, <1>1, SMTT(30)
<1> QED
  BY <1>1, <1>8, <1>9, Zenon DEF n

\* The buffer is f, after d units that were there before.
EndsWith(b, f, d) == Len(b) = d + Len(f) /\ \A i \in 1 .. Len(f) : b[d + i] = f[i]

\* Less than a reply was left, and whole replies came: unless nothing was left,
\* no reply but the first can be found where a header is expected.
LEMMA HealedAfterResidue ==
    ASSUME NEW b \in Seq(Unit), NEW f \in Seq(Unit), f # <<>>, InStep(f), WholeReplies(f),
           NEW d \in 1 .. 6, EndsWith(b, f, d)
    PROVE  Remains(After(b, Replies(b))) = <<>>
<1> DEFINE m == Len(f)
           r == Replies(b)
           a(j) == After(b, j)
<1>1. /\ \A p \in 1 .. m : f[p].at = ((p - 1) % 7) + 1
      /\ m % 7 = 0 /\ m \in Nat /\ m >= 7
  BY WholeAt, Zenon
<1>2. r \in Nat /\ r * 7 <= d + m
      /\ (\A j \in 0 .. r - 1 : StartsWithReply(a(j))) /\ ~StartsWithReply(a(r))
  BY RepliesIs, Zenon DEF EndsWith
<1>3. /\ \A i \in 1 .. m : b[d + i] = f[i]
      /\ Len(b) = d + m
  BY Zenon DEF EndsWith
<1>4. \A j \in Nat : j * 7 <= d + m =>
          /\ a(j) \in Seq(Unit) /\ Len(a(j)) = (d + m) - j * 7
          /\ \A i \in 1 .. (d + m) - j * 7 : a(j)[i] = b[j * 7 + i]
  <2>1. \A j \in Nat : j * 7 <= Len(b) =>
            /\ a(j) \in Seq(Unit) /\ Len(a(j)) = Len(b) - j * 7
            /\ \A i \in 1 .. Len(b) - j * 7 : a(j)[i] = b[j * 7 + i]
    BY AfterAll, Zenon
  <2> HIDE DEF m, a
  <2> QED
    BY <1>3, <2>1, Zenon
<1> HIDE DEF m, r, a
<1>5. Len(a(1)) = (d + m) - 7 /\ a(1)[1].at # 1
  <2>1. 1 * 7 <= d + m /\ 1 \in 1 .. (d + m) - 1 * 7 /\ 1 \in Nat /\ 1 * 7 = 7
    BY <1>1
  <2>2. Len(a(1)) = (d + m) - 1 * 7 /\ a(1)[1] = b[1 * 7 + 1]
    BY <2>1, <1>4, Zenon
  <2>3. 8 - d \in 1 .. m /\ d + (8 - d) = 1 * 7 + 1
    BY <1>1
  <2>4. b[1 * 7 + 1] = f[8 - d]
    BY <2>3, <1>3, Zenon
  <2>5. f[8 - d].at = (((8 - d) - 1) % 7) + 1
    BY <2>3, <1>1, Zenon
  <2>6. (((8 - d) - 1) % 7) + 1 # 1
    OBVIOUS
  <2> QED
    BY <2>1, <2>2, <2>4, <2>5, <2>6, ZenonT(30)
<1>6. ~HeaderGood(a(1))
  BY <1>5, Zenon DEF HeaderGood
<1>7. r = 0 \/ r = 1
  <2>1. CASE r >= 2
    <3>1. 1 \in 0 .. r - 1
      BY <2>1, <1>2, SMTT(30)
    <3> QED
      BY <3>1, <1>2, <1>6, Zenon DEF StartsWithReply
  <2> QED
    BY <2>1, <1>2, SMTT(30)
<1>8. Len(a(0)) = d + m /\ \A i \in 1 .. d + m : a(0)[i] = b[i]
  <2>1. 0 * 7 <= d + m /\ 0 \in Nat /\ (d + m) - 0 * 7 = d + m /\ \A i \in 1 .. d + m : 0 * 7 + i = i
    BY <1>1, SMTT(30)
  <2>2. Len(a(0)) = (d + m) - 0 * 7 /\ \A i \in 1 .. (d + m) - 0 * 7 : a(0)[i] = b[0 * 7 + i]
    BY <2>1, <1>4, Zenon
  <2> QED
    BY <2>1, <2>2, ZenonT(30)
<1>9. CASE r = 0
  <2>1. Len(a(r)) >= 7 /\ Len(a(r)) >= 2
    BY <1>8, <1>9, <1>1, SMTT(30)
  <2>2. ~HeaderGood(a(r))
    BY <2>1, <1>2, Zenon DEF StartsWithReply, ReplyUnits
  <2> QED
    BY <2>1, <2>2, ZenonT(30) DEF Remains, OutOfSync, HeaderUnits, a, r
<1>10. CASE r = 1
  <2>1. Len(a(r)) >= 2
    <3>1. CASE (d + m) - 7 < 2
      <4>1. d = 1 /\ 1 \in 1 .. m /\ 2 \in 1 .. d + m /\ d + 1 = 2 /\ ((1 - 1) % 7) + 1 = 1
            /\ 0 \in 0 .. r - 1
        BY <3>1, <1>1, <1>10, SMTT(30)
      <4>2. a(0)[2] = f[1] /\ f[1].at = 1
        <5>1. a(0)[2] = b[2] /\ b[d + 1] = f[1] /\ f[1].at = ((1 - 1) % 7) + 1
          BY <4>1, <1>1, <1>3, <1>8, Zenon
        <5> QED
          BY <4>1, <5>1, Zenon
      <4>3. a(0)[2].at = 2
        BY <4>1, <1>2, Zenon DEF StartsWithReply, HeaderGood
      <4>4. a(0)[2].at = 1
        BY <4>2, ZenonT(30)
      <4> QED
        BY <4>3, <4>4, SMTT(30)
    <3>2. CASE ~((d + m) - 7 < 2)
      BY <3>2, <1>1, <1>5, <1>10, SMTT(30)
    <3> QED
      BY <3>1, <3>2, Zenon
  <2>2. ~HeaderGood(a(r))
    BY <1>6, <1>10, Zenon
  <2> QED
    BY <2>1, <2>2, Zenon DEF Remains, OutOfSync, HeaderUnits, a, r
<1> QED
  BY <1>7, <1>9, <1>10, Zenon

\* Nothing was left: every reply is found, to the last.
LEMMA HealthyDrain ==
    ASSUME NEW b \in Seq(Unit), b # <<>>, InStep(b), WholeReplies(b)
    PROVE  Remains(After(b, Replies(b))) = <<>> /\ Answered(b, b[Len(b)].nonce)
<1> DEFINE m == Len(b)
           r == Replies(b)
           a(j) == After(b, j)
<1>1. /\ \A p \in 1 .. m : b[p].at = ((p - 1) % 7) + 1
      /\ m % 7 = 0 /\ m \in Nat /\ m >= 7
  BY WholeAt, Zenon
<1>2. r \in Nat /\ r * 7 <= m /\ ~StartsWithReply(a(r))
  BY RepliesIs, Zenon
<1>3. \A j \in Nat : j * 7 <= m =>
          /\ a(j) \in Seq(Unit) /\ Len(a(j)) = m - j * 7
          /\ \A i \in 1 .. m - j * 7 : a(j)[i] = b[j * 7 + i]
  BY AfterAll, Zenon
<1>4. \A i \in 1 .. m - 1 : ComesNext(b[i], b[i + 1])
  BY Zenon DEF InStep
<1> HIDE DEF m, r, a
<1>5. \A j \in Nat : \A i \in 1 .. 7 : j * 7 + i <= m => a(j)[i] = b[j * 7 + i] /\ a(j)[i].at = i
  <2> SUFFICES ASSUME NEW j \in Nat, NEW i \in 1 .. 7, j * 7 + i <= m
               PROVE  a(j)[i] = b[j * 7 + i] /\ a(j)[i].at = i
    BY Zenon
  <2>1. j * 7 <= m /\ i \in 1 .. m - j * 7 /\ j * 7 + i \in 1 .. m
    BY <1>1, SMTT(30)
  <2>2. a(j)[i] = b[j * 7 + i]
    BY <2>1, <1>3, Zenon
  <2>3. b[j * 7 + i].at = (((j * 7 + i) - 1) % 7) + 1
    BY <2>1, <1>1, Zenon
  <2>4. (((j * 7 + i) - 1) % 7) + 1 = i
    <3>1. ASSUME NEW x \in Nat, x = j * 7 PROVE (((x + i) - 1) % 7) + 1 = i
      BY <3>1, SMTT(30)
    <3> QED
      BY <3>1, SMTT(30)
  <2> QED
    BY <2>2, <2>3, <2>4, Zenon
<1>6. r * 7 = m
  <2>1. CASE r * 7 < m
    <3>1. m - r * 7 >= 7
      <4>1. m = (m \div 7) * 7 /\ m \div 7 \in Nat
        BY <1>1, SMTT(30)
      <4>2. \A x, y \in Nat : x * 7 < y * 7 => y * 7 - x * 7 >= 7
        BY SMTT(30)
      <4> QED
        BY <4>1, <4>2, <1>2, <2>1, ZenonT(30)
    <3>2. /\ r * 7 + 1 <= m /\ r * 7 + 2 <= m /\ 1 \in 1 .. 7 /\ 2 \in 1 .. 7
      BY <3>1, <1>1, <1>2, SMTT(30)
    <3>3. a(r)[1].at = 1 /\ a(r)[2].at = 2
      BY <3>2, <1>2, <1>5, Zenon
    <3>4. Len(a(r)) >= 7
      BY <3>1, <1>2, <1>3, Zenon
    <3> QED
      BY <3>3, <3>4, <1>2, Zenon DEF StartsWithReply, HeaderGood, ReplyUnits
  <2> QED
    BY <2>1, <1>1, <1>2, SMTT(30)
<1>7. Remains(a(r)) = <<>>
  <2>1. a(r) \in Seq(Unit) /\ Len(a(r)) = m - r * 7
    BY <1>2, <1>3, Zenon
  <2>2. a(r) = <<>> /\ ~(Len(a(r)) >= 2)
    BY <2>1, <1>1, <1>6, SMTT(30)
  <2> QED
    BY <2>2, Zenon DEF Remains, HeaderUnits
<1>8. Answered(b, b[m].nonce)
  <2> DEFINE j == r - 1
             c == j * 7
  <2>1. j \in Nat /\ j \in 0 .. r - 1 /\ c \in Nat /\ c + 7 = m
    BY <1>1, <1>2, <1>6, SMTT(30)
  <2> HIDE DEF j
  <2>2. \A i \in 1 .. 7 : c + i <= m /\ c + i \in 1 .. m
    BY <2>1
  <2>3. \A i \in 1 .. 7 : a(j)[i] = b[c + i] /\ a(j)[i].at = i
    BY <2>1, <2>2, <1>5, Zenon
  <2>4. a(j) \in Seq(Unit) /\ Len(a(j)) = 7
    <3>1. j * 7 <= m /\ m - j * 7 = 7
      BY <2>1, <1>1, SMTT(30)
    <3> QED
      BY <3>1, <2>1, <1>3, Zenon
  <2> HIDE DEF c
  <2>5. ASSUME NEW i \in 1 .. 6 PROVE a(j)[i + 1].nonce = a(j)[i].nonce
    <3>1. i \in 1 .. 7 /\ i + 1 \in 1 .. 7 /\ c + i \in 1 .. m - 1 /\ c + (i + 1) = (c + i) + 1
      BY <2>1, SMTT(30)
    <3>2. ComesNext(b[c + i], b[(c + i) + 1])
      BY <3>1, <1>4, Zenon
    <3>3. ComesNext(a(j)[i], a(j)[i + 1])
      <4>1. a(j)[i + 1] = b[c + (i + 1)] /\ a(j)[i] = b[c + i]
        BY <3>1, <2>3, Zenon
      <4>2. b[c + (i + 1)] = b[(c + i) + 1]
        BY <3>1, Zenon
      <4> QED
        BY <4>1, <4>2, <3>2, Zenon
    <3>4. a(j)[i + 1].at # 1
      <4>1. a(j)[i + 1].at = i + 1 /\ i + 1 # 1
        <5>1. a(j)[i + 1].at = i + 1
          BY <3>1, <2>3, Zenon
        <5>2. i + 1 # 1
          OBVIOUS
        <5> QED
          BY <5>1, <5>2, Zenon
      <4> QED
        BY <4>1, Zenon
    <3> QED
      BY <3>3, <3>4, Zenon DEF ComesNext
  <2>6. a(j)[3].nonce = a(j)[7].nonce
    <3>1. 3 \in 1 .. 6 /\ 4 \in 1 .. 6 /\ 5 \in 1 .. 6 /\ 6 \in 1 .. 6
          /\ 3 + 1 = 4 /\ 4 + 1 = 5 /\ 5 + 1 = 6 /\ 6 + 1 = 7
      BY SMTT(30)
    <3>2. /\ a(j)[4].nonce = a(j)[3].nonce /\ a(j)[5].nonce = a(j)[4].nonce
          /\ a(j)[6].nonce = a(j)[5].nonce /\ a(j)[7].nonce = a(j)[6].nonce
      BY <3>1, <2>5, Zenon
    <3> QED
      BY <3>2, Zenon
  <2>7. a(j)[7] = b[m] /\ a(j)[3].at = 3 /\ a(j)[6].at = 6
    <3>1. 7 \in 1 .. 7 /\ 3 \in 1 .. 7 /\ 6 \in 1 .. 7
      OBVIOUS
    <3>2. a(j)[7] = b[c + 7]
      BY <3>1, <2>3, Zenon
    <3> QED
      BY <3>1, <3>2, <2>1, <2>3, Zenon DEF c
  <2> DEFINE rec == SubSeq(a(j), 2 + 1, 7)
  <2>8. rec[4] = a(j)[6] /\ rec[1] = a(j)[3]
    BY <2>4, SMTT(30)
  <2>9. rec[4].at = 6 /\ rec[1].at = 3 /\ rec[1].nonce = b[m].nonce
    BY <2>6, <2>7, <2>8, Zenon
  <2>10. IsAnswer(rec, b[m].nonce)
    BY <2>9, Zenon DEF IsAnswer
  <2> QED
    BY <2>1, <2>10, Zenon DEF Answered, HeaderUnits, ReplyUnits, a, r
<1> QED
  BY <1>7, <1>8, Zenon DEF m, r, a

----------------------------------------------------------------------------
EchoTypes ==
    /\ nonce \in Nat /\ outstanding \in BOOLEAN /\ overran \in BOOLEAN
    /\ healthy \in 0 .. 2 /\ last \in Nat /\ last <= nonce

ProbesOrdered ==
    /\ probes \in Seq(Nat)
    /\ \A i \in 1 .. Len(probes) : probes[i] <= nonce
    /\ \A i, j \in 1 .. Len(probes) : i < j => probes[i] < probes[j]

BackInStep ==
    /\ wire_back \in Seq(FineUnits) /\ reply_buf \in Seq(FineUnits) /\ fresh \in Seq(FineUnits)
    /\ InStep(wire_back) /\ InStep(reply_buf) /\ InStep(fresh)
    /\ Meets(reply_buf, wire_back) /\ Meets(fresh, wire_back)

Aligned ==
    ~overran => \E d \in 0 .. 6 : EndsWith(reply_buf, fresh, d) /\ (healthy >= 1 => d = 0)

\* Neither property says what is on its way.  Everything that is has its place:
\* the buffer, and then the wire, hold the replies in the order of their nonces,
\* each from its start and as far as the socket took it; and before the bytes of
\* the drain under way, the buffer holds less than a reply.
EchoInv ==
    /\ EchoTypes /\ ProbesOrdered /\ BackInStep /\ Aligned
    /\ RoundTripsReal
    /\ Elsewhere => overran = FALSE
    /\ healthy >= 2 /\ last = nonce => outstanding = FALSE

LEMMA SeqGrows ==
    ASSUME NEW S, NEW T, S \subseteq T, NEW s \in Seq(S)
    PROVE  s \in Seq(T)
BY SMTT(30)

LEMMA MeetsJoin ==
    ASSUME NEW S, NEW s \in Seq(S), NEW t \in Seq(S), NEW u \in Seq(S),
           Meets(s, t), Meets(s, u)
    PROVE  Meets(s, t \o u)
<1> SUFFICES ASSUME s # <<>>, t \o u # <<>> PROVE ComesNext(s[Len(s)], (t \o u)[1])
  BY Zenon DEF Meets
<1>1. CASE t = <<>>
  <2>1. t \o u = u
    BY <1>1
  <2> QED
    BY <2>1, Zenon DEF Meets
<1>2. CASE t # <<>>
  <2>1. (t \o u)[1] = t[1]
    BY <1>2
  <2> QED
    BY <1>2, <2>1, Zenon DEF Meets
<1> QED
  BY <1>1, <1>2, SMTT(30)

LEMMA MeetsLonger ==
    ASSUME NEW S, NEW s \in Seq(S), NEW t \in Seq(S), t # <<>>, NEW u, Meets(t, u)
    PROVE  Meets(s \o t, u)
<1>1. Len(t) \in 1 .. Len(t) /\ Len(s \o t) = Len(s) + Len(t)
  OBVIOUS
<1>2. (s \o t)[Len(s \o t)] = t[Len(t)]
  <2>1. (s \o t)[Len(s) + Len(t)] = t[Len(t)]
    BY <1>1, Joined, Zenon
  <2> QED
    BY <1>1, <2>1, Zenon
<1> QED
  BY <1>2, Zenon DEF Meets

LEMMA Empties ==
    /\ \A S : <<>> \in Seq(S)
    /\ InStep(<<>>) /\ \A s : Meets(<<>>, s) /\ Meets(s, <<>>)
    /\ EndsWith(<<>>, <<>>, 0)
<1>1. \A S : <<>> \in Seq(S)
  BY SMTT(30)
<1>2. InStep(<<>>)
  BY DEF InStep
<1>3. \A s : Meets(<<>>, s) /\ Meets(s, <<>>)
  BY Zenon DEF Meets
<1>4. EndsWith(<<>>, <<>>, 0)
  BY SMTT(30) DEF EndsWith
<1> QED
  BY <1>1, <1>2, <1>3, <1>4, Zenon

LEMMA EndsEmpty ==
    ASSUME NEW S, NEW b \in Seq(S)
    PROVE  /\ EndsWith(b, <<>>, Len(b))
           /\ \A d : EndsWith(b, <<>>, d) /\ d = 0 => b = <<>>
BY SMTT(30) DEF EndsWith

LEMMA EndsSame ==
    ASSUME NEW S, NEW b \in Seq(S), NEW f \in Seq(S), EndsWith(b, f, 0)
    PROVE  b = f
<1>1. Len(b) = Len(f) /\ \A i \in 1 .. Len(f) : b[i] = f[i]
  BY DEF EndsWith
<1> QED
  BY <1>1, SMTT(30)

LEMMA EndsLonger ==
    ASSUME NEW S, NEW b \in Seq(S), NEW f \in Seq(S), NEW t \in Seq(S), NEW d \in Nat,
           EndsWith(b, f, d)
    PROVE  EndsWith(b \o t, f \o t, d)
<1> DEFINE m == Len(f)
           n == Len(t)
           x == b \o t
           y == f \o t
<1>1. Len(b) = d + m /\ \A i \in 1 .. m : b[d + i] = f[i]
  BY ZenonT(30) DEF EndsWith
<1>2. /\ m \in Nat /\ n \in Nat /\ Len(x) = Len(b) + n /\ Len(y) = m + n
      /\ \A i \in 1 .. Len(b) : x[i] = b[i]
      /\ \A i \in 1 .. n : x[Len(b) + i] = t[i]
  <2>1. m \in Nat /\ n \in Nat /\ Len(x) = Len(b) + n /\ Len(y) = m + n
    BY SMTT(30)
  <2>2. \A i \in 1 .. Len(b) : x[i] = b[i]
    BY SMTT(30)
  <2>3. \A i \in 1 .. n : x[Len(b) + i] = t[i]
    BY SMTT(30)
  <2> QED BY <2>1, <2>2, <2>3, Zenon
<1>3. /\ \A i \in 1 .. m : y[i] = f[i]
      /\ \A i \in 1 .. n : y[m + i] = t[i]
  <2>1. \A i \in 1 .. m : y[i] = f[i]
    BY SMTT(30)
  <2>2. \A i \in 1 .. n : y[m + i] = t[i]
    BY SMTT(30)
  <2> QED BY <2>1, <2>2, Zenon
<1> HIDE DEF m, n, x, y
<1>4. ASSUME NEW i \in 1 .. m + n PROVE x[d + i] = y[i]
  <2>1. CASE i <= m
    <3>1. i \in 1 .. m /\ d + i \in 1 .. Len(b)
      BY <2>1, <1>1, <1>2, SMTT(30)
    <3> QED
      BY <3>1, <1>1, <1>2, <1>3, Zenon
  <2>2. CASE i > m
    <3>1. PICK j \in 1 .. n : m + j = i /\ Len(b) + j = d + i
      <4>1. i - m \in 1 .. n /\ m + (i - m) = i /\ Len(b) + (i - m) = d + i
        BY <2>2, <1>1, <1>2, SMTT(30)
      <4> QED
        BY <4>1, ZenonT(30)
    <3>2. x[Len(b) + j] = t[j] /\ y[m + j] = t[j]
      BY <1>2, <1>3, ZenonT(30)
    <3> QED
      BY <3>1, <3>2, Zenon
  <2> QED
    BY <1>2, <2>1, <2>2
<1>5. Len(x) = d + (m + n)
  BY <1>1, <1>2, SMTT(30)
<1> QED
  BY <1>2, <1>4, <1>5, Zenon DEF EndsWith, x, y

LEMMA EchoInitial == EchoInit => EchoInv
<1> SUFFICES ASSUME EchoInit PROVE EchoInv
  BY Zenon
<1>1. EchoTypes /\ (healthy >= 2 /\ last = nonce => outstanding = FALSE) /\ overran = FALSE
  <2>1. /\ nonce = 0 /\ healthy = 0 /\ last = 0 /\ outstanding = FALSE /\ overran = FALSE
    BY Zenon DEF EchoInit
  <2>2. nonce \in Nat /\ healthy \in 0 .. 2 /\ last \in Nat /\ last <= nonce
    BY <2>1, SMTT(30)
  <2> QED
    BY <2>1, <2>2, Zenon DEF EchoTypes
<1>2. ProbesOrdered
  BY DEF EchoInit, ProbesOrdered
<1>3. BackInStep
  BY Empties, Zenon DEF EchoInit, BackInStep
<1>4. Aligned
  <2>1. 0 \in 0 .. 6
    OBVIOUS
  <2> QED
    BY <2>1, Empties, Zenon DEF EchoInit, Aligned
<1>5. RoundTripsReal
  BY Zenon DEF EchoInit, RoundTripsReal
<1> QED
  BY <1>1, <1>2, <1>3, <1>4, <1>5, Zenon DEF EchoInv

\* Units stay fine.
LEMMA FineStay ==
    ASSUME FineUnits \subseteq FineUnits', BackInStep,
           UNCHANGED <<wire_back, reply_buf, fresh>>
    PROVE  BackInStep'
<1>1. wire_back' \in Seq(FineUnits') /\ reply_buf' \in Seq(FineUnits') /\ fresh' \in Seq(FineUnits')
  BY SeqGrows, Zenon DEF BackInStep
<1> QED
  BY <1>1, Zenon DEF BackInStep

LEMMA ProbeKeeps == ASSUME EchoInv, SendProbe PROVE EchoInv'
<1>1. /\ nonce' = nonce + 1 /\ outstanding' = TRUE /\ probes' = Append(probes, nonce + 1)
      /\ wire_back' = wire_back /\ reply_buf' = reply_buf /\ fresh' = fresh
      /\ overran' = overran /\ whole_sent' = whole_sent /\ settled' = settled
      /\ last' = last /\ healthy' = healthy
  BY Zenon DEF SendProbe
<1>2. EchoTypes /\ ProbesOrdered /\ BackInStep
  BY Zenon DEF EchoInv
<1>3. EchoTypes' /\ last' # nonce'
  BY <1>1, <1>2, SMTT(30) DEF EchoTypes
<1>4. nonce \in Nat /\ probes \in Seq(Nat) /\ Len(probes') = Len(probes) + 1 /\ probes' \in Seq(Nat)
      /\ Len(probes) \in Nat
      /\ (\A i \in 1 .. Len(probes) : probes'[i] = probes[i] /\ probes[i] \in Nat)
      /\ probes'[Len(probes) + 1] = nonce + 1
  BY <1>1, <1>2, SMTT(30) DEF EchoTypes, ProbesOrdered
<1>5. \A i \in 1 .. Len(probes') : i \in 1 .. Len(probes) \/ i = Len(probes) + 1
  BY <1>4
<1>6. ProbesOrdered'
  <2>1. \A i \in 1 .. Len(probes') : probes'[i] <= nonce'
    BY <1>1, <1>2, <1>4, <1>5, SMTT(30) DEF ProbesOrdered
  <2>2. ASSUME NEW i \in 1 .. Len(probes'), NEW j \in 1 .. Len(probes'), i < j
        PROVE  probes'[i] < probes'[j]
    <3>1. i \in 1 .. Len(probes)
      BY <1>4, <2>2, SMTT(30)
    <3>2. CASE j \in 1 .. Len(probes)
      BY <1>2, <1>4, <2>2, <3>1, <3>2, SMTT(30) DEF ProbesOrdered
    <3>3. CASE j = Len(probes) + 1
      BY <1>2, <1>4, <3>1, <3>3, SMTT(30) DEF ProbesOrdered
    <3> QED
      BY <1>5, <3>2, <3>3, Zenon
  <2> QED
    BY <1>4, <2>1, <2>2, ZenonT(30) DEF ProbesOrdered
<1>7. FineUnits \subseteq FineUnits'
  <2> SUFFICES ASSUME NEW u \in FineUnits PROVE u \in FineUnits'
    BY Zenon
  <2>1. u \in Unit /\ u.nonce \in Nat /\ u.nonce <= nonce /\ (u.at = 7 => u.nonce \in whole_sent)
    BY FineIs, Zenon
  <2>2. u.nonce <= nonce' /\ u.nonce < nonce + 1
    BY <1>1, <1>4, <2>1, SMTT(30)
  <2>3. \A i \in 1 .. Len(probes') : u.nonce < probes'[i]
    <3>1. \A i \in 1 .. Len(probes) : u.nonce < probes[i]
      BY Zenon DEF FineUnits
    <3> QED
      BY <1>4, <1>5, <2>2, <3>1, Zenon
  <2> QED
    BY <1>1, <2>1, <2>2, <2>3, Zenon DEF FineUnits
<1>8. BackInStep'
  BY <1>1, <1>2, <1>7, FineStay, Zenon
<1>9. Aligned' /\ RoundTripsReal' /\ (Elsewhere' => overran' = FALSE)
  BY <1>1, Zenon DEF EchoInv, Aligned, RoundTripsReal, Elsewhere
<1> QED
  BY <1>3, <1>6, <1>8, <1>9, Zenon DEF EchoInv

\* What the socket takes of a reply.
LEMMA PieceOfReply ==
    ASSUME EchoInv, probes # <<>>, NEW taken \in 0 .. ReplyUnits,
           probes' = Tail(probes), nonce' = nonce,
           whole_sent \subseteq whole_sent',
           taken = 7 => Head(probes) \in whole_sent'
    PROVE  LET piece == SubSeq(Reply(Head(probes)), 1, taken)
           IN  /\ piece \in Seq(FineUnits') /\ InStep(piece)
               /\ \A s \in Seq(FineUnits) : Meets(s, piece)
               /\ FineUnits \subseteq FineUnits' /\ ProbesOrdered'
<1> DEFINE h == Head(probes)
           piece == SubSeq(Reply(h), 1, taken)
           L == Len(probes)
<1>1. ProbesOrdered /\ nonce \in Nat
  BY Zenon DEF EchoInv, EchoTypes
<1>2. /\ h = probes[1] /\ h \in Nat /\ L \in Nat /\ L >= 1 /\ probes' \in Seq(Nat)
      /\ Len(probes') = L - 1
      /\ \A i \in 1 .. L - 1 : probes'[i] = probes[i + 1] /\ i + 1 \in 1 .. L /\ 1 < i + 1
      /\ 1 \in 1 .. L /\ \A i \in 1 .. L : probes[i] \in Nat
  BY <1>1, SMTT(30) DEF ProbesOrdered
<1>3. h <= nonce /\ (\A i \in 1 .. L - 1 : h < probes'[i] /\ probes'[i] <= nonce)
  <2>1. (\A i \in 1 .. L : probes[i] <= nonce) /\ \A i, j \in 1 .. L : i < j => probes[i] < probes[j]
    BY <1>1, Zenon DEF ProbesOrdered
  <2> HIDE DEF h, L
  <2> QED
    BY <1>2, <2>1, Zenon
<1>4. ProbesOrdered'
  <2>1. ASSUME NEW i \in 1 .. L - 1, NEW j \in 1 .. L - 1, i < j PROVE probes'[i] < probes'[j]
    <3>1. i + 1 \in 1 .. L /\ j + 1 \in 1 .. L /\ i + 1 < j + 1
      BY <1>2, <2>1, SMTT(30)
    <3>2. probes[i + 1] < probes[j + 1]
      BY <1>1, <3>1, Zenon DEF ProbesOrdered
    <3> QED
      BY <1>2, <3>2, Zenon
  <2> HIDE DEF h, L
  <2> QED
    BY <1>2, <1>3, <2>1, Zenon DEF ProbesOrdered
<1>5. Reply(h) = [i \in 1 .. 7 |-> [at |-> i, nonce |-> h]] /\ taken \in 0 .. 7
  BY ZenonT(30) DEF Reply, ReplyUnits
<1> HIDE DEF h
<1>6. /\ Len(piece) = taken /\ taken \in Nat
      /\ \A i \in 1 .. taken : i \in 1 .. 7 /\ piece[i] = [at |-> i, nonce |-> h]
  <2> DEFINE e(i) == [at |-> i, nonce |-> h]
             R == [i \in 1 .. 7 |-> e(i)]
  <2> HIDE DEF e
  <2>1. R \in Seq({e(i) : i \in 1 .. 7}) /\ Len(R) = 7 /\ \A i \in 1 .. 7 : R[i] = e(i)
    OBVIOUS
  <2>2. Reply(h) = R
    BY <1>5, ZenonT(30) DEF e
  <2> HIDE DEF R
  <2>3. Len(SubSeq(R, 1, taken)) = taken /\ \A i \in 1 .. taken : i \in 1 .. 7 /\ SubSeq(R, 1, taken)[i] = R[i]
    BY <2>1, <1>5, SMTT(30)
  <2> QED
    BY <2>1, <2>2, <2>3, <1>5, SMTT(30) DEF e
<1> HIDE DEF piece, L
<1>7. \A i \in 1 .. taken : piece[i].at = i /\ piece[i].nonce = h /\ piece[i] \in Unit
  <2>1. ASSUME NEW i \in 1 .. 7
        PROVE  [at |-> i, nonce |-> h].at = i /\ [at |-> i, nonce |-> h].nonce = h
               /\ [at |-> i, nonce |-> h] \in Unit
    BY <1>2, Zenon DEF Unit, ReplyUnits
  <2> QED
    BY <1>6, <2>1, ZenonT(30)
<1>8. piece \in Seq(FineUnits')
  <2>1. ASSUME NEW i \in 1 .. taken PROVE piece[i] \in FineUnits'
    <3>1. piece[i].nonce <= nonce' /\ \A j \in 1 .. Len(probes') : piece[i].nonce < probes'[j]
      BY <1>2, <1>3, <1>7, Zenon
    <3>2. piece[i].at = 7 => piece[i].nonce \in whole_sent'
      <4>1. i = 7 => taken = 7
        BY <1>5, SMTT(30)
      <4> QED
        BY <4>1, <1>7, Zenon DEF h
    <3> QED
      BY <3>1, <3>2, <1>7, Zenon DEF FineUnits
  <2>2. piece = [i \in 1 .. taken |-> piece[i]]
    <3>1. Reply(h) \in Seq(Unit)
      BY <1>2, <1>5, SMTT(30) DEF Unit, ReplyUnits
    <3>2. piece \in Seq(Unit)
      BY <3>1, <1>5, SMTT(30) DEF piece
    <3> QED
      BY <3>2, <1>6, SMTT(30)
  <2> QED
    BY <1>6, <2>1, <2>2, SMTT(30)
<1>9. InStep(piece)
  <2>1. ASSUME NEW i \in 1 .. Len(piece) - 1 PROVE ComesNext(piece[i], piece[i + 1])
    <3>1. i \in 1 .. taken /\ i + 1 \in 1 .. taken
      BY <1>6, SMTT(30)
    <3> QED
      BY <3>1, <1>7, ZenonT(30) DEF ComesNext
  <2> QED
    BY <2>1, Zenon DEF InStep
<1>10. \A s \in Seq(FineUnits) : Meets(s, piece)
  <2> SUFFICES ASSUME NEW s \in Seq(FineUnits), s # <<>>, piece # <<>>
               PROVE  ComesNext(s[Len(s)], piece[1])
    BY Zenon DEF Meets
  <2>1. s[Len(s)] \in FineUnits
    BY SMTT(30)
  <2>2. 1 \in 1 .. taken
    BY <1>6, <1>8, SMTT(30)
  <2>3. s[Len(s)].nonce < h /\ s[Len(s)].nonce \in Nat
    BY <2>1, <1>2, FineIs, ZenonT(30) DEF FineUnits, L
  <2>4. h > s[Len(s)].nonce
    BY <2>3, <1>2, Zenon
  <2> QED
    BY <2>2, <2>4, <1>7, Zenon DEF ComesNext
<1>11. FineUnits \subseteq FineUnits'
  <2> SUFFICES ASSUME NEW u \in FineUnits PROVE u \in FineUnits'
    BY Zenon
  <2>1. /\ u \in Unit /\ u.nonce <= nonce /\ (u.at = 7 => u.nonce \in whole_sent)
        /\ \A i \in 1 .. L : u.nonce < probes[i]
    BY Zenon DEF FineUnits, L
  <2>2. \A i \in 1 .. Len(probes') : u.nonce < probes'[i]
    BY <1>2, <2>1, Zenon
  <2> QED
    BY <2>1, <2>2, Zenon DEF FineUnits
<1> QED
  BY <1>4, <1>8, <1>9, <1>10, <1>11, Zenon DEF piece, h

LEMMA BackKeeps ==
    ASSUME EchoInv, NEW taken \in 0 .. ReplyUnits, SendBack(taken) PROVE EchoInv'
<1> DEFINE piece == SubSeq(Reply(Head(probes)), 1, taken)
<1>1. /\ probes # <<>> /\ probes' = Tail(probes) /\ wire_back' = wire_back \o piece
      /\ nonce' = nonce /\ outstanding' = outstanding /\ reply_buf' = reply_buf
      /\ fresh' = fresh /\ overran' = overran /\ settled' = settled /\ last' = last
      /\ healthy' = healthy
  BY Zenon DEF SendBack
<1>2. whole_sent \subseteq whole_sent' /\ (taken = 7 => Head(probes) \in whole_sent')
  BY Zenon DEF SendBack, ReplyUnits
<1>3. /\ piece \in Seq(FineUnits') /\ InStep(piece)
      /\ \A s \in Seq(FineUnits) : Meets(s, piece)
      /\ FineUnits \subseteq FineUnits' /\ ProbesOrdered'
  BY <1>1, <1>2, PieceOfReply, Zenon
<1> HIDE DEF piece
<1>4. EchoTypes /\ BackInStep
  BY Zenon DEF EchoInv
<1>5. /\ wire_back \in Seq(FineUnits') /\ reply_buf \in Seq(FineUnits') /\ fresh \in Seq(FineUnits')
      /\ wire_back \in Seq(FineUnits) /\ reply_buf \in Seq(FineUnits) /\ fresh \in Seq(FineUnits)
  BY <1>3, <1>4, SeqGrows, Zenon DEF BackInStep
<1>6. wire_back' \in Seq(FineUnits') /\ InStep(wire_back')
  BY <1>1, <1>3, <1>4, <1>5, Joined, StepsJoin, Zenon DEF BackInStep
<1>7. Meets(reply_buf, wire_back \o piece) /\ Meets(fresh, wire_back \o piece)
  BY <1>3, <1>4, <1>5, MeetsJoin, Zenon DEF BackInStep
<1>8. BackInStep'
  BY <1>1, <1>4, <1>5, <1>6, <1>7, Zenon DEF BackInStep
<1>9. EchoTypes' /\ Aligned' /\ (Elsewhere' => overran' = FALSE)
      /\ (healthy' >= 2 /\ last' = nonce' => outstanding' = FALSE)
  BY <1>1, Zenon DEF EchoInv, EchoTypes, Aligned, Elsewhere
<1>10. RoundTripsReal'
  BY <1>1, <1>2, Zenon DEF EchoInv, RoundTripsReal
<1> QED
  BY <1>3, <1>8, <1>9, <1>10, Zenon DEF EchoInv

LEMMA ReceiveKeeps ==
    ASSUME EchoInv, NEW n \in 1 .. Len(wire_back), Receive(n) PROVE EchoInv'
<1> DEFINE w == wire_back
           arrived == SubSeq(w, 1, n)
           rest == SubSeq(w, n + 1, Len(w))
           grown == reply_buf \o arrived
           full == Len(grown) > MaxReplyBuf
<1>1. /\ reply_buf' = (IF full THEN <<>> ELSE grown) /\ overran' = (overran \/ full)
      /\ fresh' = fresh \o arrived /\ wire_back' = rest
      /\ nonce' = nonce /\ outstanding' = outstanding /\ probes' = probes
      /\ whole_sent' = whole_sent /\ settled' = settled /\ last' = last /\ healthy' = healthy
  BY Zenon DEF Receive
<1>2. EchoTypes /\ ProbesOrdered /\ BackInStep /\ Aligned
  BY Zenon DEF EchoInv
<1>3. /\ w \in Seq(FineUnits) /\ reply_buf \in Seq(FineUnits) /\ fresh \in Seq(FineUnits)
      /\ InStep(w) /\ InStep(reply_buf) /\ InStep(fresh)
      /\ Meets(reply_buf, w) /\ Meets(fresh, w)
  BY <1>2, Zenon DEF BackInStep
<1>4. n \in Nat /\ n <= Len(w) /\ 1 \in 1 .. n /\ w # <<>>
  BY <1>3, SMTT(30)
<1>5. /\ arrived \in Seq(FineUnits) /\ Len(arrived) = n /\ arrived[1] = w[1]
  BY <1>3, <1>4, FirstPart, Zenon
<1>6. rest \in Seq(FineUnits) /\ InStep(arrived) /\ InStep(rest) /\ Meets(arrived, rest)
  BY <1>3, <1>4, LastPart, StepsSplit, Zenon
<1> HIDE DEF arrived, rest, grown, full
<1>7. arrived # <<>>
  BY <1>4, <1>5, SMTT(30)
<1>8. Meets(reply_buf, arrived) /\ Meets(fresh, arrived)
  BY <1>3, <1>4, <1>5, Zenon DEF Meets
<1>9. /\ grown \in Seq(FineUnits) /\ InStep(grown) /\ Meets(grown, rest)
  BY <1>3, <1>5, <1>6, <1>7, <1>8, Joined, StepsJoin, MeetsLonger, Zenon DEF grown
<1>10. /\ fresh' \in Seq(FineUnits) /\ InStep(fresh') /\ Meets(fresh', rest)
  BY <1>1, <1>3, <1>5, <1>6, <1>7, <1>8, Joined, StepsJoin, MeetsLonger, ZenonT(30)
<1>11. FineUnits' = FineUnits
  BY <1>1, Zenon DEF FineUnits
<1>12. BackInStep'
  <2>1. reply_buf' \in Seq(FineUnits) /\ InStep(reply_buf') /\ Meets(reply_buf', rest)
    <3>1. CASE full
      BY <3>1, <1>1, Empties, Zenon
    <3>2. CASE ~full
      BY <3>2, <1>1, <1>9, Zenon
    <3> QED
      BY <3>1, <3>2, Zenon
  <2> QED
    BY <1>1, <1>6, <1>10, <1>11, <2>1, ZenonT(30) DEF BackInStep
<1>13. fresh' # <<>>
  <2>1. Len(fresh') = Len(fresh) + n /\ Len(fresh) \in Nat
    BY <1>1, <1>3, <1>5, Joined, Zenon
  <2> QED
    BY <1>4, <2>1, SMTT(30)
<1>14. Aligned'
  <2> SUFFICES ASSUME ~overran'
               PROVE  \E d \in 0 .. 6 : EndsWith(reply_buf', fresh', d) /\ (healthy' >= 1 => d = 0)
    BY Zenon DEF Aligned
  <2>1. ~overran /\ ~full
    BY <1>1, Zenon
  <2>2. PICK d \in 0 .. 6 : EndsWith(reply_buf, fresh, d) /\ (healthy >= 1 => d = 0)
    BY <1>2, <2>1, Zenon DEF Aligned
  <2>3. d \in Nat
    OBVIOUS
  <2>4. EndsWith(grown, fresh', d)
    BY <1>1, <1>3, <1>5, <2>2, <2>3, EndsLonger, Zenon DEF grown
  <2> QED
    BY <1>1, <2>1, <2>2, <2>4, Zenon
<1>15. EchoTypes' /\ ProbesOrdered' /\ RoundTripsReal'
       /\ (healthy' >= 2 /\ last' = nonce' => outstanding' = FALSE)
  BY <1>1, <1>2, Zenon DEF EchoInv, EchoTypes, ProbesOrdered, RoundTripsReal
<1> QED
  BY <1>12, <1>13, <1>14, <1>15, Zenon DEF EchoInv, Elsewhere

LEMMA FineAreUnits == ASSUME NEW s \in Seq(FineUnits) PROVE s \in Seq(Unit)
<1>1. FineUnits \subseteq Unit
  BY Zenon DEF FineUnits
<1> QED
  BY <1>1, SeqGrows, Zenon

LEMMA DrainKeeps == ASSUME EchoInv, DrainReplies PROVE EchoInv'
<1> DEFINE b == reply_buf
           c == Remains(After(b, Replies(b)))
           answered == outstanding /\ Answered(b, nonce)
<1>1. /\ fresh # <<>> /\ outstanding' = (outstanding /\ ~answered)
      /\ settled' = (IF answered THEN nonce ELSE settled)
      /\ reply_buf' = c
      /\ last' = fresh[Len(fresh)].nonce /\ fresh' = <<>> /\ overran' = FALSE
      /\ nonce' = nonce /\ probes' = probes /\ wire_back' = wire_back /\ whole_sent' = whole_sent
  BY Zenon DEF DrainReplies, Elsewhere
<1>2. healthy' = IF overran \/ ~WholeReplies(fresh) THEN 0
                 ELSE IF healthy < 2 THEN healthy + 1 ELSE 2
  BY Zenon DEF DrainReplies
<1>3. EchoTypes /\ ProbesOrdered /\ BackInStep /\ Aligned
  BY Zenon DEF EchoInv
<1>4. /\ b \in Seq(FineUnits) /\ fresh \in Seq(FineUnits) /\ wire_back \in Seq(FineUnits)
      /\ InStep(b) /\ InStep(fresh) /\ InStep(wire_back) /\ Meets(b, wire_back)
  BY <1>3, Zenon DEF BackInStep
<1>5. c \in Seq(FineUnits) /\ Len(c) < 7 /\ InStep(c) /\ Meets(c, wire_back)
  BY <1>4, DecodedIs, Zenon
<1>6. nonce \in Nat /\ healthy \in 0 .. 2
  BY <1>3, Zenon DEF EchoTypes
<1> HIDE DEF c
<1>7. BackInStep'
  <2>1. FineUnits' = FineUnits
    BY <1>1, Zenon DEF FineUnits
  <2> QED
    BY <1>1, <1>4, <1>5, <2>1, Empties, Zenon DEF BackInStep
<1>8. RoundTripsReal'
  <2>1. CASE answered
    <3>1. nonce \in whole_sent
      BY <2>1, <1>4, <1>6, AnswerIsWhole, Zenon
    <3> QED
      BY <2>1, <3>1, <1>1, Zenon DEF RoundTripsReal
  <2>2. CASE ~answered
    BY <2>2, <1>1, Zenon DEF EchoInv, RoundTripsReal
  <2> QED
    BY <2>1, <2>2, Zenon
<1>9. healthy' \in 0 .. 2 /\ (healthy' >= 1 => ~overran /\ WholeReplies(fresh))
      /\ (healthy' >= 2 => healthy >= 1)
  BY <1>2, <1>6, SMTT(30)
<1>10. last' \in Nat /\ last' <= nonce
  <2>1. fresh[Len(fresh)] \in FineUnits
    BY <1>1, <1>4, SMTT(30)
  <2> QED
    BY <2>1, <1>1, FineIs, Zenon
<1>11. EchoTypes'
  <2>1. outstanding' \in BOOLEAN /\ overran' \in BOOLEAN
    BY <1>1, Zenon
  <2> QED
    BY <1>1, <1>6, <1>9, <1>10, <2>1, Zenon DEF EchoTypes
<1>12. b \in Seq(Unit) /\ fresh \in Seq(Unit)
  BY <1>4, FineAreUnits, Zenon
<1>13. ASSUME healthy' >= 1
       PROVE  c = <<>> /\ (healthy >= 1 => b = fresh)
  <2>1. ~overran /\ WholeReplies(fresh)
    BY <1>9, <1>13, Zenon
  <2>2. PICK d \in 0 .. 6 : EndsWith(b, fresh, d) /\ (healthy >= 1 => d = 0)
    BY <1>3, <2>1, Zenon DEF Aligned
  <2>3. CASE d = 0
    <3>1. b = fresh
      BY <1>12, <2>2, <2>3, EndsSame, Zenon
    <3>2. c = <<>>
      BY <1>1, <1>4, <1>12, <2>1, <3>1, HealthyDrain, Zenon DEF c
    <3> QED
      BY <3>1, <3>2, Zenon
  <2>4. CASE d # 0
    <3>1. d \in 1 .. 6
      BY <2>4, SMTT(30)
    <3>2. c = <<>>
      BY <1>1, <1>4, <1>12, <2>1, <2>2, <3>1, HealedAfterResidue, Zenon DEF c
    <3> QED
      BY <2>2, <2>4, <3>2, Zenon
  <2> QED
    BY <2>3, <2>4, Zenon
<1>14. Aligned'
  <2>1. Len(c) \in 0 .. 6 /\ (c = <<>> => Len(c) = 0)
    <3>1. \A s \in Seq(FineUnits) : Len(s) \in Nat
      OBVIOUS
    <3>2. Len(c) \in Nat
      BY <1>5, <3>1, Zenon
    <3>3. c = <<>> => Len(c) = 0
      BY SMTT(30)
    <3>4. \A x \in Nat : x < 7 => x \in 0 .. 6
      OBVIOUS
    <3> QED
      BY <1>5, <3>2, <3>3, <3>4, Zenon
  <2>2. EndsWith(c, <<>>, Len(c))
    BY <1>5, EndsEmpty, Zenon
  <2> QED
    BY <1>1, <1>13, <2>1, <2>2, Zenon DEF Aligned
<1>15. ASSUME healthy' >= 2, last' = nonce' PROVE outstanding' = FALSE
  <2>1. healthy' >= 1
    BY <1>9, <1>15, SMTT(30)
  <2>2. b = fresh /\ WholeReplies(fresh)
    BY <2>1, <1>9, <1>13, <1>15, Zenon
  <2>3. Answered(b, b[Len(b)].nonce)
    BY <2>2, <1>1, <1>4, <1>12, HealthyDrain, Zenon
  <2>4. b[Len(b)].nonce = nonce
    BY <2>2, <1>1, <1>15, Zenon
  <2> QED
    BY <2>3, <2>4, <1>1, Zenon
<1>16. ProbesOrdered'
  BY <1>1, <1>3, Zenon DEF ProbesOrdered
<1> QED
  BY <1>1, <1>7, <1>8, <1>11, <1>14, <1>15, <1>16, Zenon DEF EchoInv

LEMMA ConnectionKeeps == ASSUME EchoInv, NewConnection PROVE EchoInv'
<1>1. /\ outstanding' = FALSE /\ reply_buf' = <<>> /\ probes' = <<>> /\ wire_back' = <<>>
      /\ settled' = 0 /\ last' = 0 /\ healthy' = 0 /\ nonce' = nonce
      /\ fresh' = <<>> /\ overran' = FALSE
  BY Zenon DEF NewConnection, EchoInv, Elsewhere
<1>2. EchoTypes'
  <2>1. nonce \in Nat
    BY Zenon DEF EchoInv, EchoTypes
  <2>2. nonce' \in Nat /\ healthy' \in 0 .. 2 /\ last' \in Nat /\ last' <= nonce'
    BY <1>1, <2>1, SMTT(30)
  <2> QED
    BY <1>1, <2>2, Zenon DEF EchoTypes
<1>3. ProbesOrdered'
  BY <1>1, SMTT(30) DEF ProbesOrdered
<1>4. BackInStep'
  BY <1>1, Empties, Zenon DEF BackInStep
<1>5. Aligned'
  <2>1. 0 \in 0 .. 6
    OBVIOUS
  <2> QED
    BY <1>1, <2>1, Empties, Zenon DEF Aligned
<1> QED
  BY <1>1, <1>2, <1>3, <1>4, <1>5, Zenon DEF EchoInv, RoundTripsReal

LEMMA EchoStep == EchoInv /\ [EchoNext]_echoVars => EchoInv'
<1> SUFFICES ASSUME EchoInv, [EchoNext]_echoVars PROVE EchoInv'
  BY Zenon
<1>1. CASE UNCHANGED echoVars
  <2>1. FineUnits' = FineUnits
    BY <1>1, Zenon DEF echoVars, FineUnits
  <2> QED
    BY <1>1, <2>1, Zenon DEF echoVars, EchoInv, EchoTypes, ProbesOrdered, BackInStep, Aligned,
                             RoundTripsReal, Elsewhere
<1> QED
  BY <1>1, ProbeKeeps, BackKeeps, ReceiveKeeps, DrainKeeps, ConnectionKeeps, Zenon DEF EchoNext

LEMMA HealsFromInv == EchoInv => EchoHeals
<1> SUFFICES ASSUME EchoInv PROVE EchoHeals
  BY Zenon
<1>1. ASSUME Elsewhere, healthy >= 1 PROVE reply_buf = <<>>
  <2>1. ~overran /\ fresh = <<>> /\ reply_buf \in Seq(FineUnits)
    BY <1>1, Zenon DEF EchoInv, Elsewhere, BackInStep
  <2>2. PICK d \in 0 .. 6 : EndsWith(reply_buf, fresh, d) /\ d = 0
    BY <1>1, <2>1, Zenon DEF EchoInv, Aligned
  <2> QED
    BY <2>1, <2>2, EndsEmpty, Zenon
<1>2. healthy >= 2 /\ last = nonce => ~outstanding
  BY Zenon DEF EchoInv
<1> QED
  BY <1>1, <1>2, Zenon DEF EchoHeals

\* Whatever sizes recv takes and the buffer has, however the replies are cut by
\* the consumer's socket and the bytes split by the network: drain_replies
\* settles a probe only when the whole reply to that very probe was sent.
THEOREM EchoesAreReal == EchoSpec => []RoundTripsReal
<1>1. EchoInv => RoundTripsReal
  BY Zenon DEF EchoInv
<1> QED
  BY <1>1, EchoInitial, EchoStep, PTL DEF EchoSpec

\* And after damage of any kind, one drain of nothing but whole replies brings it
\* back in step, and the next one settles the newest probe.
THEOREM EchoesHeal == EchoSpec => []EchoHeals
BY EchoInitial, EchoStep, HealsFromInv, PTL DEF EchoSpec

=============================================================================
