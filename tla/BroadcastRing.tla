--------------------------- MODULE BroadcastRing ---------------------------
(***************************************************************************)
(* The multi-producer broadcast ring of src/src/broadcast_ring.hpp: cells  *)
(* guarded by a seqlock, producers that claim a cell by compare-and-swap,  *)
(* and readers that each own a cursor and are never waited for.            *)
(*                                                                         *)
(* One step is one access to shared memory.  A frame is identified by the  *)
(* ring position (ticket) it was given, and so is each of its words: word  *)
(* i of the frame at position q is the value q.  A copy is torn when its   *)
(* words name different positions.  Word 1 is words[0] of the code, where  *)
(* the ring stores the position itself.                                    *)
(*                                                                         *)
(* Memory ordering.  Relaxed stores and loads of the words of one frame    *)
(* happen in any order.  The release store of the sequence word comes      *)
(* after the words, the acquire load before them and the second load after *)
(* them.  A relaxed load of write_pos_ may be stale.  ClaimOrdered says    *)
(* whether readers see the claim before the word stores that follow it:    *)
(* they do where the compare-and-swap is a full barrier (x86-64); an       *)
(* acquire compare-and-swap only orders its load, so elsewhere the store   *)
(* of the claim may become visible as late as the release store.           *)
(***************************************************************************)
EXTENDS Integers

CONSTANTS
    Producers,    \* ingest threads
    Readers,      \* cursors, one per consumer
    Capacity,     \* cells in the ring, after round_up_pow2
    FrameWords,   \* kFrameWords: words per cell
    ClaimOrdered, \* is a claim visible before the words stored under it?
    MaxBatch,     \* bound: the longest publish_batch
    MaxTickets    \* bound: positions handed out in a behaviour

ASSUME CapacityAssumption == Capacity \in Nat /\ Capacity >= 2
ASSUME FrameWordsAssumption == FrameWords \in Nat /\ FrameWords >= 1
ASSUME ClaimOrderedAssumption == ClaimOrdered \in BOOLEAN
ASSUME BoundsAssumption == MaxBatch \in Nat /\ MaxTickets \in Nat

VARIABLES
    write_pos,    \* write_pos_: the next ticket
    seq,          \* Cell::seq of every cell
    words,        \* Cell::words of every cell
    pc,           \* where each producer is in publish_batch / write_at
    pos,          \* the position a producer is writing
    left,         \* positions of its batch not yet published, pos included
    unstored,     \* words of that position it has not stored yet
    rpc,          \* where each reader is in try_read
    next,         \* Cursor::next
    missed,       \* Cursor::missed
    s1,           \* the first sequence load of the try_read in progress
    buf,          \* the words it has copied so far
    uncopied,     \* words it has not copied yet
    out,          \* the words of the last frame handed to the caller
    delivered,    \* frames handed to the caller (RingFeed::delivered_)
    start,        \* history: where attach put the cursor
    inconsistent_reads

shared == <<write_pos, seq, words>>
producer == <<pc, pos, left, unstored>>
reader == <<rpc, next, missed, s1, buf, uncopied, out, delivered, start>>
vars == <<shared, producer, reader, inconsistent_reads>>

Cells == 0 .. Capacity - 1
WordIdx == 1 .. FrameWords
Blank == -1
BlankWords == [i \in WordIdx |-> Blank]

----------------------------------------------------------------------------
(* Sequence words: 0 never written, 2q+1 being written, 2q+2 complete.     *)

Cell(q) == q % Capacity
Writing(q) == 2 * q + 1
Complete(q) == 2 * q + 2
CellPos(s) == (s - 1) \div 2
IsComplete(s) == s % 2 = 0

ExpectedLapBefore(q) == Complete(q - Capacity)    \* mutant: no first lap

\* What the previous occupant of the cell of position q left behind.
Expected(q) == IF q < Capacity THEN 0 ELSE Complete(q - Capacity)

\* mutant: one frame of the ring is given up for no reason
OldestOffByOne(w) == IF w >= Capacity THEN w - Capacity + 1 ELSE 0

\* The oldest position a ring with write position w still holds.
Oldest(w) == IF w > Capacity THEN w - Capacity ELSE 0

\* The least value a relaxed load of write_pos_ may return to a reader whose
\* acquire load returned s: a complete word synchronises with the producer of
\* that position, a word being written only with the one a lap earlier.
SyncedPos(s) ==
    LET q == IF IsComplete(s) THEN CellPos(s) ELSE CellPos(s) - Capacity
    IN  IF q >= 0 THEN q + 1 ELSE 0

----------------------------------------------------------------------------
Init ==
    /\ write_pos = 0
    /\ seq = [c \in Cells |-> 0]
    /\ words = [c \in Cells |-> BlankWords]
    /\ pc = [p \in Producers |-> "idle"]
    /\ pos = [p \in Producers |-> 0]
    /\ left = [p \in Producers |-> 0]
    /\ unstored = [p \in Producers |-> {}]
    /\ rpc = [r \in Readers |-> "detached"]
    /\ next = [r \in Readers |-> 0]
    /\ missed = [r \in Readers |-> 0]
    /\ s1 = [r \in Readers |-> 0]
    /\ buf = [r \in Readers |-> BlankWords]
    /\ uncopied = [r \in Readers |-> {}]
    /\ out = [r \in Readers |-> BlankWords]
    /\ delivered = [r \in Readers |-> 0]
    /\ start = [r \in Readers |-> 0]
    /\ inconsistent_reads = 0

----------------------------------------------------------------------------
(* Producers: publish (n = 1) and publish_batch.  wake_readers, which ends *)
(* both, changes nothing here; RingIdle models it with the parked readers. *)

\* One fetch_add takes n contiguous positions.
Ticket(p, n) ==
    /\ pc[p] = "idle"
    /\ write_pos + n <= MaxTickets
    /\ write_pos' = write_pos + n
    /\ pc' = [pc EXCEPT ![p] = "claim"]
    /\ pos' = [pos EXCEPT ![p] = write_pos]
    /\ left' = [left EXCEPT ![p] = n]
    /\ UNCHANGED <<seq, words, unstored, reader, inconsistent_reads>>

ClaimBlindly(q) == TRUE    \* mutant: a plain store instead of the CAS

\* The compare-and-swap succeeds.  A failed one changes only claim_retries_,
\* a diagnostic counter, and is a stuttering step.
CanClaim(q) == seq[Cell(q)] = Expected(q)

Claim(p) ==
    /\ pc[p] = "claim"
    /\ CanClaim(pos[p])
    /\ seq' = [seq EXCEPT ![Cell(pos[p])] = Writing(pos[p])]
    /\ pc' = [pc EXCEPT ![p] = "store"]
    /\ unstored' = [unstored EXCEPT ![p] = WordIdx]
    /\ UNCHANGED <<write_pos, words, pos, left, reader, inconsistent_reads>>

StoreWord(p) ==
    /\ pc[p] = "store"
    /\ \E i \in unstored[p] :
         /\ words' = [words EXCEPT ![Cell(pos[p])][i] = pos[p]]
         /\ unstored' = [unstored EXCEPT ![p] = @ \ {i}]
    /\ UNCHANGED <<write_pos, seq, pc, pos, left, reader, inconsistent_reads>>

AllStored(p) == unstored[p] = {}

\* The release store, then the next position of the batch or the return.
Publish(p) ==
    /\ pc[p] = "store"
    /\ AllStored(p)
    /\ seq' = [seq EXCEPT ![Cell(pos[p])] = Complete(pos[p])]
    /\ left' = [left EXCEPT ![p] = @ - 1]
    /\ IF left[p] = 1
       THEN /\ pc' = [pc EXCEPT ![p] = "idle"]
            /\ pos' = [pos EXCEPT ![p] = 0]
       ELSE /\ pc' = [pc EXCEPT ![p] = "claim"]
            /\ pos' = [pos EXCEPT ![p] = @ + 1]
    /\ UNCHANGED <<write_pos, words, unstored, reader, inconsistent_reads>>

----------------------------------------------------------------------------
(* Readers: read_batch calls try_read until the batch is full or the cell  *)
(* is empty, so a reader is a loop of try_read.                            *)

\* What a reader's load of the sequence word of cell c may return.  (A reader
\* that has seen a claim never looks for an older position in that cell again,
\* so the stale value cannot be observed after the new one.)
SeqLoads(c) ==
    {seq[c]} \cup
    {s \in {Expected(CellPos(seq[c]))} : ~ClaimOrdered /\ ~IsComplete(seq[c])}

Attach(r) ==
    /\ rpc[r] = "detached"
    /\ \E w \in 0 .. write_pos :
         /\ next' = [next EXCEPT ![r] = Oldest(w)]
         /\ start' = [start EXCEPT ![r] = Oldest(w)]
    /\ rpc' = [rpc EXCEPT ![r] = "s1"]
    /\ UNCHANGED <<shared, producer, missed, s1, buf, uncopied, out, delivered,
                   inconsistent_reads>>

LapUnnoticed(s, n) == FALSE    \* mutant: only the exact position is looked for

\* The position at n was overwritten by a later lap; it is there to be read.
IsAhead(s, n) == s # 0 /\ CellPos(s) > n
IsReady(s, n) == s # 0 /\ CellPos(s) = n /\ IsComplete(s)

\* kEmpty: never written, an older lap, or being written right now.
ReadEmpty(r) ==
    /\ rpc[r] = "s1"
    /\ \E s \in SeqLoads(Cell(next[r])) :
         ~IsAhead(s, next[r]) /\ ~IsReady(s, next[r])
    /\ UNCHANGED vars

\* The first sequence load finds the position overwritten.
ReadAhead(r) ==
    /\ rpc[r] = "s1"
    /\ \E s \in SeqLoads(Cell(next[r])) :
         /\ IsAhead(s, next[r])
         /\ s1' = [s1 EXCEPT ![r] = s]
    /\ rpc' = [rpc EXCEPT ![r] = "lap"]
    /\ UNCHANGED <<shared, producer, next, missed, buf, uncopied, out,
                   delivered, start, inconsistent_reads>>

\* The first sequence load finds the position complete.
ReadReady(r) ==
    /\ rpc[r] = "s1"
    /\ \E s \in SeqLoads(Cell(next[r])) :
         /\ IsReady(s, next[r])
         /\ s1' = [s1 EXCEPT ![r] = s]
    /\ rpc' = [rpc EXCEPT ![r] = "copy"]
    /\ buf' = [buf EXCEPT ![r] = BlankWords]
    /\ uncopied' = [uncopied EXCEPT ![r] = WordIdx]
    /\ UNCHANGED <<shared, producer, next, missed, out, delivered, start,
                   inconsistent_reads>>

CopyWord(r) ==
    /\ rpc[r] = "copy"
    /\ \E i \in uncopied[r] :
         /\ buf' = [buf EXCEPT ![r][i] = words[Cell(next[r])][i]]
         /\ uncopied' = [uncopied EXCEPT ![r] = @ \ {i}]
    /\ UNCHANGED <<shared, producer, rpc, next, missed, s1, out, delivered,
                   start, inconsistent_reads>>

AllCopied(r) == uncopied[r] = {}

CopyUnchecked(r) == TRUE    \* mutant: no second sequence load

\* The second sequence load returns s1 again, or something else.
CellUntouched(r) == s1[r] \in SeqLoads(Cell(next[r]))
CellMoved(r) == seq[Cell(next[r])] # s1[r]

\* s2 # s1: the copy is discarded.
CheckMoved(r) ==
    /\ rpc[r] = "copy"
    /\ AllCopied(r)
    /\ CellMoved(r)
    /\ rpc' = [rpc EXCEPT ![r] = "lap"]
    /\ UNCHANGED <<shared, producer, next, missed, s1, buf, uncopied, out,
                   delivered, start, inconsistent_reads>>

\* words[0] is not the position asked for.
CheckInconsistent(r) ==
    /\ rpc[r] = "copy"
    /\ AllCopied(r)
    /\ CellUntouched(r)
    /\ inconsistent_reads' = inconsistent_reads + 1
    /\ rpc' = [rpc EXCEPT ![r] = "lap"]
    /\ UNCHANGED <<shared, producer, next, missed, s1, buf, uncopied, out,
                   delivered, start>>

\* kOk: the frame is handed out and the cursor moves to the next position.
CheckOk(r) ==
    /\ rpc[r] = "copy"
    /\ AllCopied(r)
    /\ CellUntouched(r)
    /\ out' = [out EXCEPT ![r] = buf[r]]
    /\ delivered' = [delivered EXCEPT ![r] = @ + 1]
    /\ next' = [next EXCEPT ![r] = @ + 1]
    /\ rpc' = [rpc EXCEPT ![r] = "s1"]
    /\ UNCHANGED <<shared, producer, missed, s1, buf, uncopied, start,
                   inconsistent_reads>>

\* s2 = s1: the copy is taken for whole, unless its own sequence number
\* disagrees.
CheckUntouched(r) ==
    IF buf[r][1] = next[r] THEN CheckOk(r) ELSE CheckInconsistent(r)

\* How far lap moves a cursor at n when it reads write position w.
LapTarget(n, w) == IF Oldest(w) > n THEN Oldest(w) ELSE n + 1

\* mutant: the position that caused the lap is not counted
LapMissedOffByOne(n, w) == LapTarget(n, w) - n - 1

LapMissed(n, w) == LapTarget(n, w) - n

Lap(r) ==
    /\ rpc[r] = "lap"
    /\ \E w \in SyncedPos(s1[r]) .. write_pos :
         /\ next' = [next EXCEPT ![r] = LapTarget(@, w)]
         /\ missed' = [missed EXCEPT ![r] = @ + LapMissed(next[r], w)]
    /\ rpc' = [rpc EXCEPT ![r] = "s1"]
    /\ UNCHANGED <<shared, producer, s1, buf, uncopied, out, delivered, start,
                   inconsistent_reads>>

----------------------------------------------------------------------------
WriteStep(p) == Claim(p) \/ StoreWord(p) \/ Publish(p)

ReadStep(r) ==
    \/ ReadEmpty(r)
    \/ ReadAhead(r)
    \/ ReadReady(r)
    \/ CopyWord(r)
    \/ CheckMoved(r)
    \/ CheckUntouched(r)
    \/ Lap(r)

Next ==
    \/ \E p \in Producers : \E n \in 1 .. MaxBatch : Ticket(p, n)
    \/ \E p \in Producers : WriteStep(p)
    \/ \E r \in Readers : Attach(r) \/ ReadStep(r)

Spec == Init /\ [][Next]_vars

\* The kernel eventually runs every thread.  Nothing promises that frames
\* keep arriving or that a consumer ever attaches.
Fairness ==
    /\ \A p \in Producers : WF_vars(WriteStep(p))
    /\ \A r \in Readers : WF_vars(ReadStep(r))

FairSpec == Spec /\ Fairness

----------------------------------------------------------------------------
(* Properties                                                              *)

\* Every variable keeps its type: sequence words stay natural numbers, a
\* batch in progress has positions left, and cursors never run past the
\* write position.
TypeOK ==
    /\ write_pos \in 0 .. MaxTickets
    /\ seq \in [Cells -> Nat]
    /\ words \in [Cells -> [WordIdx -> Int]]
    /\ pc \in [Producers -> {"idle", "claim", "store"}]
    /\ pos \in [Producers -> Nat]
    /\ left \in [Producers -> Nat]
    /\ unstored \in [Producers -> SUBSET WordIdx]
    /\ rpc \in [Readers -> {"detached", "s1", "copy", "lap"}]
    /\ next \in [Readers -> Nat]
    /\ missed \in [Readers -> Nat]
    /\ s1 \in [Readers -> Nat]
    /\ buf \in [Readers -> [WordIdx -> Int]]
    /\ uncopied \in [Readers -> SUBSET WordIdx]
    /\ out \in [Readers -> [WordIdx -> Int]]
    /\ delivered \in [Readers -> Nat]
    /\ start \in [Readers -> Nat]
    /\ inconsistent_reads \in Nat
    /\ \A p \in Producers :
         /\ pc[p] # "idle" => left[p] > 0
         /\ pos[p] + left[p] <= write_pos
    /\ \A r \in Readers : next[r] <= write_pos

\* The producer collision: two producers whose tickets fall on the same cell
\* are never both between their claim and their publish (write_at).
SingleWriter ==
    \A p1, p2 \in Producers :
        /\ pc[p1] = "store" /\ pc[p2] = "store"
        /\ Cell(pos[p1]) = Cell(pos[p2])
        => p1 = p2

\* No torn frame: what try_read hands out is one frame, all of it, from a
\* position the cursor has passed.
WholeReads ==
    \A r \in Readers :
        \/ out[r] = BlankWords
        \/ \E q \in 0 .. next[r] - 1 : out[r] = [i \in WordIdx |-> q]

\* "In a correct build this is unreachable": a copy that survives the second
\* sequence load carries the position that was asked for.
NeverInconsistent == inconsistent_reads = 0

\* Nothing vanishes unaccounted for: every position between attach and the
\* cursor was either delivered or counted missed.
Accounting ==
    \A r \in Readers : start[r] + delivered[r] + missed[r] = next[r]

DeliversOrOverrun(r) ==
    rpc[r] # "detached" /\ next'[r] # next[r] =>
        \/ next'[r] = next[r] + 1 /\ delivered'[r] = delivered[r] + 1
        \/ next'[r] > next[r] /\ next'[r] + Capacity <= write_pos

\* A cursor moves only by delivering its frame or by giving up positions whose
\* cells have been promised to a later lap (lap and oldest): a reader that
\* keeps up loses nothing, however stale the write position it reads.
LossOnlyByOverrun == [][\A r \in Readers : DeliversOrOverrun(r)]_vars

Log == INSTANCE BroadcastLog WITH
    tail <- write_pos,
    attached <- [r \in Readers |-> rpc[r] # "detached"],
    cursor <- next

\* The ring implements the broadcast log: delivery is whole, in order and at
\* most once, and lap gives up a position only when its cell has been
\* promised to a later lap.
ImplementsLog == Log!Spec

\* A publish returns: the claim loop of one producer waits only for producers
\* that are themselves able to finish, never for a reader or in a cycle.
PublishReturns == \A p \in Producers : pc[p] # "idle" ~> pc[p] = "idle"

\* Every frame given a position is eventually delivered to, or counted missed
\* by, every attached reader: no cursor waits forever on one cell.
EveryFrameSettled ==
    \A r \in Readers : \A q \in 0 .. MaxTickets - 1 :
        rpc[r] # "detached" /\ q < write_pos ~> next[r] > q

=============================================================================
