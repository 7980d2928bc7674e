--------------------------- MODULE WaitingProofs ----------------------------
(***************************************************************************)
(* The two places where a consumer's thread waits, for every value of the  *)
(* constants.  The queue: its type correctness, its conservation law, and  *)
(* that it implements DropOldestQueue.  The idle path of the ring, for any *)
(* finite set of readers and whatever the producers do: waiters_ counts    *)
(* the readers in wait_for_data (wake_readers rests on it when it skips    *)
(* the notification), and close leaves nobody in the wait set.             *)
(***************************************************************************)
EXTENDS BoundedQueue, RingIdle, SequenceTheorems, FiniteSetTheorems, TLAPS

\* The constructor raises a capacity of zero to one.
LEMMA CapacityType == Capacity \in Nat /\ Capacity >= 1
BY RequestedAssumption DEF Capacity

\* Indices into buf_ wrap at the capacity.
LEMMA SlotType == ASSUME NEW a \in Nat PROVE a % Capacity \in Slots
BY CapacityType DEF Slots

\* The conservation law at every step: items stored but not yet counted, and
\* items taken or dropped but not yet counted, are added on their side.
Balance ==
    /\ pushed + (items_size - todo) = popped + n + dropped + drops + count
    /\ ppc # "store" => todo = 0
    /\ ppc \notin {"store", "count_pushed"} => items_size = 0
    /\ ppc \notin {"store", "count_pushed", "count_dropped"} => drops = 0
    /\ cpc # "count_popped" => n = 0

\* The queue is not closed while a batch is stored, since that takes the mutex,
\* and pop_batch is called with room for at least one item.
Orderly ==
    /\ ppc = "store" => ~closed
    /\ cpc \in {"checking", "waiting"} => room > 0

IInv == TypeOK /\ Balance /\ Orderly

\* The initial state satisfies the inductive invariant.
LEMMA InitInv == Init => IInv
<1> SUFFICES ASSUME Init PROVE IInv
  BY Zenon
<1>1. head \in Slots /\ count \in 0 .. Capacity
  BY CapacityType DEF Init, Slots
<1>2. TypeOK
  BY <1>1, Zenon DEF Init, TypeOK
<1> QED  BY <1>2 DEF Init, IInv, Balance, Orderly

\* Every step of the specification preserves the inductive invariant.
LEMMA StepInv == IInv /\ [Next]_vars => IInv'
<1> SUFFICES ASSUME IInv, [Next]_vars PROVE IInv'
  BY Zenon
<1> USE CapacityType
<1> USE DEF IInv, TypeOK, Balance, Orderly, vars, queue, counters, producer, consumer
<1>1. CASE UNCHANGED vars
  BY <1>1, Zenon
<1>2. ASSUME NEW k \in 1 .. MaxBatch, PushRefused(k)
      PROVE  IInv'
  BY <1>2, QueueBoundsAssumption, SMTT(30) DEF PushRefused
<1>3. ASSUME NEW k \in 1 .. MaxBatch, PushLock(k)
      PROVE  IInv'
  BY <1>3, QueueBoundsAssumption, SMTT(30) DEF PushLock
<1>4. CASE PushItem
  <2>0. head + 1 \in Nat /\ head + count \in Nat
    BY DEF Slots
  <2>1. (head + 1) % Capacity \in Slots /\ (head + count) % Capacity \in Slots
    BY <2>0, SlotType, Zenon
  <2>2. HeadAfterRoom \in Slots
    BY <2>1, Zenon DEF HeadAfterRoom
  <2>3. buf' \in [Slots -> Nat]
    BY <1>4, <2>1, SMTT(30) DEF PushItem, StoreItem
  <2> QED  BY <1>4, <2>2, <2>3, SMTT(30)
           DEF PushItem, StoreItem, CountAfterItem, DropForRoom
<1>5. CASE PushUnlock
  BY <1>5, Zenon DEF PushUnlock
<1>6. CASE CountPushed
  BY <1>6, SMTT(30) DEF CountPushed
<1>7. CASE CountDropped
  BY <1>7, SMTT(30) DEF CountDropped
<1>8. CASE NotifyOne
  BY <1>8, Zenon DEF NotifyOne, Woken
<1>9. ASSUME NEW size \in OutSizes, PopCall(size)
      PROVE  IInv'
  BY <1>9, OutSizesAssumption, SMTT(30) DEF PopCall
<1>10. CASE PopWait
  BY <1>10, Zenon DEF PopWait
<1>11. CASE PopTake
  <2> DEFINE k == IF count < room THEN count ELSE room
  <2>1. k \in 0 .. count
    BY SMTT(30)
  <2>2. (head + k) % Capacity \in Slots
    <3>1. head + k \in Nat
      BY <2>1, SMTT(30) DEF Slots
    <3> QED  BY <3>1, SlotType, Zenon
  <2>3. /\ n' = k /\ count' = count - k /\ head' = (head + k) % Capacity
        /\ cpc = "checking" /\ cpc' = "count_popped"
        /\ UNCHANGED <<locked, buf, closed, pushed, popped, dropped, ppc, made,
                       todo, items_size, drops, room>>
    BY <1>11, Zenon DEF PopTake
  <2> HIDE DEF k
  <2> QED  BY <2>1, <2>2, <2>3, SMTT(30)
<1>12. CASE CountPopped
  BY <1>12, SMTT(30) DEF CountPopped
<1>13. CASE PopTimeout
  BY <1>13, Zenon DEF PopTimeout
<1>14. CASE PopSpurious
  BY <1>14, Zenon DEF PopSpurious
<1>15. CASE Close
  BY <1>15, Zenon DEF Close, Woken
<1> QED
  BY <1>1, <1>2, <1>3, <1>4, <1>5, <1>6, <1>7, <1>8, <1>9, <1>10, <1>11,
     <1>12, <1>13, <1>14, <1>15, ZenonT(30) DEF Next, ProducerStep, ConsumerStep

\* The balance of items, counted and not yet counted, holds throughout
\* push_batch and pop_batch.
THEOREM QueueInductive == Spec => []IInv
BY InitInv, StepInv, PTL DEF Spec

\* The circular indices stay inside the buffer and the queue inside its
\* capacity, for every capacity, zero included.
THEOREM QueueTypeCorrect == Spec => []TypeOK
<1>1. IInv => TypeOK
  BY Zenon DEF IInv
<1> QED  BY <1>1, QueueInductive, PTL

\* pushed == popped + dropped + size whenever the counters are settled.
THEOREM QueueConserves == Spec => []Conservation
<1>1. IInv => Conservation
  BY DEF IInv, TypeOK, Balance, Conservation
<1> QED  BY <1>1, QueueInductive, PTL

----------------------------------------------------------------------------
(* The refinement.  An index into the buffer never exceeds two capacities, *)
(* so the remainder is a subtraction or nothing.                           *)

LEMMA WrapOnce ==
    ASSUME NEW a \in Nat, a < 2 * Capacity
    PROVE  a % Capacity = IF a < Capacity THEN a ELSE a - Capacity
<1> DEFINE k == a \div Capacity
           m == a % Capacity
<1>1. k \in Nat /\ m \in 0 .. Capacity - 1 /\ a = (Capacity * k) + m
  BY CapacityType, SMTT(30)
<1>2. k = 0 \/ k = 1
  <2>1. Capacity * k < 2 * Capacity
    BY <1>1, CapacityType, SMTT(30)
  <2> HIDE DEF k
  <2>2. k < 2
    BY <1>1, <2>1, CapacityType, SMTT(30)
  <2> QED  BY <1>1, <2>2, SMTT(30)
<1> HIDE DEF k, m
<1>3. CASE k = 0
  BY <1>1, <1>3, CapacityType, SMTT(30) DEF m
<1>4. CASE k = 1
  BY <1>1, <1>4, CapacityType, SMTT(30) DEF m
<1> QED  BY <1>2, <1>3, <1>4, Zenon

\* Where the i-th item of a queue with its head at h is, without the remainder.
At(h, i) == IF h + i - 1 < Capacity THEN h + i - 1 ELSE h + i - 1 - Capacity

LEMMA AtSlot ==
    ASSUME NEW h \in Slots, NEW i \in 1 .. Capacity
    PROVE  (h + i - 1) % Capacity = At(h, i) /\ At(h, i) \in Slots
<1> DEFINE a == h + i - 1
<1>1. a \in Nat /\ a < 2 * Capacity
  BY CapacityType, SMTT(30) DEF Slots
<1>2. At(h, i) \in Slots
  BY CapacityType, SMTT(30) DEF Slots, At
<1>3. At(h, i) = IF a < Capacity THEN a ELSE a - Capacity
  BY CapacityType, SMTT(30) DEF At, Slots
<1> HIDE DEF a
<1>4. a % Capacity = At(h, i)
  BY <1>1, <1>3, WrapOnce, Zenon
<1> QED  BY <1>2, <1>4, Zenon DEF a

\* The items in a buffer b from h on, oldest first.
Items(b, h, c) == [i \in 1 .. c |-> b[(h + i - 1) % Capacity]]

LEMMA ItemsSeq ==
    ASSUME NEW b \in [Slots -> Nat], NEW h \in Slots, NEW c \in 0 .. Capacity
    PROVE  /\ Items(b, h, c) \in Seq(Nat)
           /\ Len(Items(b, h, c)) = c
           /\ \A i \in 1 .. c : Items(b, h, c)[i] = b[At(h, i)]
<1>1. \A i \in 1 .. c : /\ (h + i - 1) % Capacity = At(h, i)
                        /\ At(h, i) \in Slots
  BY AtSlot, CapacityType, SMTT(30)
<1>2. Items(b, h, c) \in [1 .. c -> Nat] /\ c \in Nat
  BY <1>1, CapacityType, SMTT(30) DEF Items
<1>3. \A i \in 1 .. c : Items(b, h, c)[i] = b[At(h, i)]
  BY <1>1, Zenon DEF Items
<1> QED  BY <1>2, <1>3, SMTT(30)

\* pop_batch takes the first k items and leaves the others.
LEMMA ItemsTaken ==
    ASSUME NEW b \in [Slots -> Nat], NEW h \in Slots, NEW c \in 0 .. Capacity,
           NEW k \in 0 .. c
    PROVE  /\ (h + k) % Capacity \in Slots
           /\ Items(b, h, k) = SubSeq(Items(b, h, c), 1, k)
           /\ Items(b, (h + k) % Capacity, c - k)
                 = SubSeq(Items(b, h, c), k + 1, c)
<1> DEFINE s == Items(b, h, c)
           first == Items(b, h, k)
           onward == (h + k) % Capacity
           rest == Items(b, onward, c - k)
<1>1. /\ s \in Seq(Nat) /\ Len(s) = c
      /\ \A i \in 1 .. c : s[i] = b[At(h, i)]
  BY ItemsSeq, Zenon
<1>2. k \in 0 .. Capacity /\ c - k \in 0 .. Capacity
  BY CapacityType, SMTT(30)
<1>3. /\ first \in Seq(Nat) /\ Len(first) = k
      /\ \A i \in 1 .. k : first[i] = b[At(h, i)]
  BY <1>2, ItemsSeq, Zenon
<1>4. onward = (IF h + k < Capacity THEN h + k ELSE h + k - Capacity)
      /\ onward \in Slots
  <2> DEFINE a == h + k
  <2>1. a \in Nat /\ a < 2 * Capacity
    BY CapacityType DEF Slots
  <2> HIDE DEF a
  <2>2. a % Capacity = (IF a < Capacity THEN a ELSE a - Capacity)
        /\ a % Capacity \in Slots
    BY <2>1, WrapOnce, SlotType, Zenon
  <2> QED  BY <2>2, CapacityType DEF a, Slots
<1> HIDE DEF onward
<1>5. /\ rest \in Seq(Nat) /\ Len(rest) = c - k
      /\ \A i \in 1 .. c - k : rest[i] = b[At(onward, i)]
  BY <1>2, <1>4, ItemsSeq, Zenon
<1>6. \A i \in 1 .. c - k : At(onward, i) = At(h, k + i)
  BY <1>4, CapacityType, SMTT(30) DEF At, Slots
<1> HIDE DEF s, first, rest
<1>7. \A i \in 1 .. c : s[i] \in Nat
  BY <1>1, ElementOfSeq, Zenon
<1>8. first = SubSeq(s, 1, k)
  <2> DEFINE t == SubSeq(s, 1, k)
  <2>1. /\ t \in Seq(Nat) /\ Len(t) = k
        /\ \A i \in 1 .. k : t[i] = s[i]
    <3>1. \A i \in 1 .. k : s[i] \in Nat
      BY <1>7, SMTT(30)
    <3>2. /\ t \in Seq(Nat) /\ Len(t) = IF 1 <= k THEN k - 1 + 1 ELSE 0
          /\ \A i \in 1 .. k - 1 + 1 : t[i] = s[1 + i - 1]
      BY <3>1, SubSeqProperties, SMTT(30)
    <3> QED  BY <3>2, SMTT(30)
  <2> HIDE DEF t
  <2>2. \A i \in 1 .. Len(first) : first[i] = t[i]
    BY <1>1, <1>3, <2>1, CapacityType, SMTT(30)
  <2>3. first = t
    BY <1>3, <2>1, <2>2, SeqEqual, Zenon
  <2> QED  BY <2>3, Zenon DEF t
<1>9. rest = SubSeq(s, k + 1, c)
  <2> DEFINE t == SubSeq(s, k + 1, c)
  <2>1. /\ t \in Seq(Nat) /\ Len(t) = c - k
        /\ \A i \in 1 .. c - k : t[i] = s[k + i]
    <3>1. \A i \in k + 1 .. c : s[i] \in Nat
      BY <1>7, SMTT(30)
    <3>2. /\ t \in Seq(Nat)
          /\ Len(t) = IF k + 1 <= c THEN c - (k + 1) + 1 ELSE 0
          /\ \A i \in 1 .. c - (k + 1) + 1 : t[i] = s[k + 1 + i - 1]
      BY <3>1, SubSeqProperties, SMTT(30)
    <3>3. c - (k + 1) + 1 = c - k /\ \A i \in Int : k + 1 + i - 1 = k + i
      BY SMTT(30)
    <3> QED  BY <3>2, <3>3, SMTT(30)
  <2> HIDE DEF t
  <2>2. ASSUME NEW i \in 1 .. Len(rest) PROVE rest[i] = t[i]
    <3>1. i \in 1 .. c - k /\ k + i \in 1 .. c
      BY <1>5, CapacityType, SMTT(30)
    <3>2. rest[i] = b[At(h, k + i)] /\ t[i] = s[k + i]
      BY <1>5, <1>6, <2>1, <3>1, SMTT(30)
    <3> QED  BY <1>1, <3>1, <3>2, Zenon
  <2>3. rest = t
    BY <1>5, <2>1, <2>2, SeqEqual, Zenon
  <2> QED  BY <2>3, Zenon DEF t
<1> QED  BY <1>4, <1>8, <1>9, Zenon DEF s, first, rest, onward

\* push_batch writes behind the last item, over the oldest if there is no room.
LEMMA ItemsPushed ==
    ASSUME NEW b \in [Slots -> Nat], NEW h \in Slots, NEW c \in 0 .. Capacity,
           NEW x \in Nat
    PROVE  LET new == [b EXCEPT ![(h + c) % Capacity] = x]
           IN  /\ c < Capacity =>
                     Items(new, h, c + 1) = Append(Items(b, h, c), x)
               /\ c = Capacity =>
                     Items(new, (h + 1) % Capacity, c)
                        = Append(Tail(Items(b, h, c)), x)
<1> DEFINE s == Items(b, h, c)
           slot == (h + c) % Capacity
           new == [b EXCEPT ![slot] = x]
<1>1. /\ s \in Seq(Nat) /\ Len(s) = c
      /\ \A i \in 1 .. c : s[i] = b[At(h, i)]
  BY ItemsSeq, Zenon
<1>2. slot = (IF h + c < Capacity THEN h + c ELSE h + c - Capacity)
      /\ slot \in Slots
  <2> DEFINE a == h + c
  <2>1. a \in Nat /\ a < 2 * Capacity
    BY CapacityType, SMTT(30) DEF Slots
  <2> HIDE DEF a
  <2>2. a % Capacity = (IF a < Capacity THEN a ELSE a - Capacity)
        /\ a % Capacity \in Slots
    BY <2>1, WrapOnce, SlotType, Zenon
  <2> QED  BY <2>2, CapacityType, SMTT(30) DEF a, Slots
<1> HIDE DEF slot
<1>3. new \in [Slots -> Nat] /\ new[slot] = x
      /\ \A j \in Slots : j # slot => new[j] = b[j]
  BY <1>2, Zenon
<1> HIDE DEF new, s
<1>4. ASSUME c < Capacity PROVE Items(new, h, c + 1) = Append(s, x)
  <2> DEFINE t == Items(new, h, c + 1)
             u == Append(s, x)
  <2>1. c + 1 \in 0 .. Capacity
    BY <1>4, CapacityType, SMTT(30)
  <2>2. /\ t \in Seq(Nat) /\ Len(t) = c + 1
        /\ \A i \in 1 .. c + 1 : t[i] = new[At(h, i)]
    BY <1>3, <2>1, ItemsSeq, Zenon
  <2>3. /\ u \in Seq(Nat) /\ Len(u) = c + 1
        /\ \A i \in 1 .. c : u[i] = s[i]
        /\ u[c + 1] = x
    BY <1>1, AppendProperties
  <2> HIDE DEF t, u
  <2>4. At(h, c + 1) = slot
    BY <1>2, <1>4, CapacityType, SMTT(30) DEF At, Slots
  <2>5. ASSUME NEW i \in 1 .. c PROVE t[i] = u[i]
    <3>1. At(h, i) # slot /\ At(h, i) \in Slots
      BY <1>2, <1>4, CapacityType, SMTT(30) DEF At, Slots
    <3>2. i \in 1 .. c + 1
      BY CapacityType, SMTT(30)
    <3> QED  BY <1>1, <1>3, <2>2, <2>3, <3>1, <3>2, Zenon
  <2>6. t[c + 1] = u[c + 1]
    <3>1. c + 1 \in 1 .. c + 1
      BY CapacityType, SMTT(30)
    <3> QED  BY <1>3, <2>2, <2>3, <2>4, <3>1, Zenon
  <2>7. \A i \in 1 .. c + 1 : t[i] = u[i]
    BY <2>5, <2>6, CapacityType, SMTT(30)
  <2>8. t = u
    BY <2>2, <2>3, <2>7, SeqEqual, Zenon
  <2> QED  BY <1>4, <2>8, CapacityType, Zenon DEF t, u
<1>5. ASSUME c = Capacity
      PROVE  Items(new, (h + 1) % Capacity, c) = Append(Tail(s), x)
  <2> DEFINE g == (h + 1) % Capacity
             t == Items(new, g, c)
             u == Append(Tail(s), x)
  <2>1. g = (IF h + 1 < Capacity THEN h + 1 ELSE h + 1 - Capacity)
        /\ g \in Slots
    <3> DEFINE a == h + 1
    <3>1. a \in Nat /\ a < 2 * Capacity
      BY CapacityType, SMTT(30) DEF Slots
    <3> HIDE DEF a
    <3>2. a % Capacity = (IF a < Capacity THEN a ELSE a - Capacity)
          /\ a % Capacity \in Slots
      BY <3>1, WrapOnce, SlotType, Zenon
    <3> QED  BY <3>2, CapacityType, SMTT(30) DEF a, Slots
  <2> HIDE DEF g
  <2>2. /\ t \in Seq(Nat) /\ Len(t) = c
        /\ \A i \in 1 .. c : t[i] = new[At(g, i)]
    BY <1>3, <2>1, ItemsSeq, Zenon
  <2>3. s # <<>>
    BY <1>1, <1>5, CapacityType, SMTT(30)
  <2>4. /\ Tail(s) \in Seq(Nat) /\ Len(Tail(s)) = c - 1
        /\ \A i \in 1 .. c - 1 : Tail(s)[i] = s[i + 1]
    BY <1>1, <2>3, HeadTailProperties, SMTT(30)
  <2>5. /\ u \in Seq(Nat) /\ Len(u) = c
        /\ \A i \in 1 .. c - 1 : u[i] = Tail(s)[i]
        /\ u[c] = x
    <3> DEFINE w == Tail(s)
    <3>1. w \in Seq(Nat) /\ Len(w) = c - 1
      BY <2>4, Zenon
    <3> HIDE DEF w
    <3>2. /\ Append(w, x) \in Seq(Nat) /\ Len(Append(w, x)) = Len(w) + 1
          /\ \A i \in 1 .. Len(w) : Append(w, x)[i] = w[i]
          /\ Append(w, x)[Len(w) + 1] = x
      BY <3>1, AppendProperties, SMTT(30)
    <3>3. Len(w) + 1 = c
      BY <3>1, CapacityType, SMTT(30)
    <3> QED  BY <3>1, <3>2, <3>3, Zenon DEF w
  <2> HIDE DEF t, u
  <2>6. slot = h
    BY <1>2, <1>5, CapacityType, SMTT(30) DEF Slots
  <2>7. At(g, c) = slot
    BY <1>5, <2>1, <2>6, CapacityType, SMTT(30) DEF At, Slots
  <2>8. ASSUME NEW i \in 1 .. c - 1 PROVE t[i] = u[i]
    <3>1. i \in 1 .. c /\ i + 1 \in 1 .. c
      BY CapacityType, SMTT(30)
    <3>2. /\ At(g, i) = At(h, i + 1)
          /\ At(g, i) # slot /\ At(g, i) \in Slots
      BY <1>5, <2>1, <2>6, CapacityType, SMTT(30) DEF At, Slots
    <3>3. u[i] = b[At(h, i + 1)]
      BY <1>1, <2>4, <2>5, <3>1, Zenon
    <3> QED  BY <1>3, <2>2, <3>1, <3>2, <3>3, SMTT(30)
  <2>9. t[c] = u[c]
    <3>1. c \in 1 .. c
      BY <1>5, CapacityType, SMTT(30)
    <3> QED  BY <1>3, <2>2, <2>5, <2>7, <3>1, Zenon
  <2>10. \A i \in 1 .. c : t[i] = u[i]
    BY <2>8, <2>9, CapacityType, SMTT(30)
  <2>11. t = u
    BY <2>2, <2>5, <2>10, SeqEqual, Zenon
  <2> QED  BY <1>5, <2>11, Zenon DEF t, u, g
<1> QED  BY <1>4, <1>5, CapacityType, Zenon DEF s, new, slot

----------------------------------------------------------------------------
\* The empty buffer is the empty queue.
LEMMA AbsInitial == Init => Abs!Init
<1> SUFFICES ASSUME Init PROVE Abs!Init
  BY Zenon
<1>1. count = 0 /\ made = 0 /\ out = <<>> /\ closed = FALSE
  BY Zenon DEF Init
<1>2. [i \in 1 .. count |-> buf[Slot(i)]] = <<>>
  BY <1>1, SMTT(30)
<1> QED  BY <1>1, <1>2, Zenon DEF Abs!Init

\* Every step of the threads is a step of the abstract queue, or none.
LEMMA AbsStep == IInv /\ [Next]_vars => [Abs!Next]_(Abs!vars)
<1> SUFFICES ASSUME IInv, [Next]_vars PROVE [Abs!Next]_(Abs!vars)
  BY Zenon
<1> DEFINE q == [i \in 1 .. count |-> buf[Slot(i)]]
<1>t. /\ buf \in [Slots -> Nat] /\ head \in Slots /\ count \in 0 .. Capacity
      /\ made \in Nat /\ room \in Nat
  BY Zenon DEF IInv, TypeOK
<1>q. q = Items(buf, head, count) /\ q' = Items(buf', head', count')
  BY Zenon DEF Items, Slot
<1>l. q \in Seq(Nat) /\ Len(q) = count
  <2>1. /\ Items(buf, head, count) \in Seq(Nat)
        /\ Len(Items(buf, head, count)) = count
    BY <1>t, ItemsSeq, Zenon
  <2> HIDE DEF q
  <2> QED  BY <1>q, <2>1, Zenon
<1>1. ASSUME UNCHANGED <<buf, head, count, made, out, closed>>
      PROVE  [Abs!Next]_(Abs!vars)
  <2>1. q' = q
    BY <1>1, <1>q, Zenon
  <2> QED  BY <1>1, <2>1, Zenon DEF Abs!vars
<1>2. ASSUME NEW k \in 1 .. MaxBatch, PushRefused(k)
      PROVE  [Abs!Next]_(Abs!vars)
  <2>1. q' = q
    BY <1>2, <1>q, Zenon DEF PushRefused, queue
  <2>2. /\ closed /\ made' \in Nat /\ made' > made
        /\ UNCHANGED <<out, closed>>
    BY <1>2, <1>t, QueueBoundsAssumption, SMTT(30) DEF PushRefused, queue, consumer
  <2>3. Abs!Refuse
    BY <2>1, <2>2, Zenon DEF Abs!Refuse
  <2> QED  BY <2>3, Zenon DEF Abs!Next
<1>3. CASE PushItem
  <2>1. /\ buf' = [buf EXCEPT ![(head + count) % Capacity] = made + 1]
        /\ head' = HeadAfterRoom /\ count' = CountAfterItem
        /\ made' = made + 1 /\ UNCHANGED <<out, closed>>
    BY <1>3, Zenon DEF PushItem, StoreItem, consumer
  <2>2. ~closed
    BY <1>3, Zenon DEF PushItem, IInv, Orderly
  <2>3. q' = Append(IF Len(q) = Capacity THEN Tail(q) ELSE q, made + 1)
    <3>1. made + 1 \in Nat
      BY <1>t, SMTT(30)
    <3>2. CASE count = Capacity
      <4>1. head' = (head + 1) % Capacity /\ count' = count
        BY <2>1, <3>2, Zenon DEF HeadAfterRoom, CountAfterItem
      <4>2. Items([buf EXCEPT ![(head + count) % Capacity] = made + 1],
                  (head + 1) % Capacity, count)
               = Append(Tail(Items(buf, head, count)), made + 1)
        BY <1>t, <3>1, <3>2, ItemsPushed, Zenon
      <4> HIDE DEF q
      <4>3. q' = Append(Tail(q), made + 1)
        BY <1>q, <2>1, <4>1, <4>2, Zenon
      <4> QED  BY <1>l, <3>2, <4>3, Zenon
    <3>3. CASE count < Capacity
      <4>1. head' = head /\ count' = count + 1
        BY <2>1, <3>3, <1>t, CapacityType, SMTT(30) DEF HeadAfterRoom, CountAfterItem
      <4>2. Items([buf EXCEPT ![(head + count) % Capacity] = made + 1],
                  head, count + 1)
               = Append(Items(buf, head, count), made + 1)
        BY <1>t, <3>1, <3>3, ItemsPushed, Zenon
      <4> HIDE DEF q
      <4>3. q' = Append(q, made + 1)
        BY <1>q, <2>1, <4>1, <4>2, Zenon
      <4>4. Len(q) # Capacity
        BY <1>l, <1>t, <3>3, CapacityType, SMTT(30)
      <4> QED  BY <4>3, <4>4, Zenon
    <3>4. count = Capacity \/ count < Capacity
      BY <1>t, CapacityType, SMTT(30)
    <3> HIDE DEF q
    <3> QED  BY <3>2, <3>3, <3>4, Zenon
  <2>4. Abs!Push
    BY <2>1, <2>2, <2>3, Zenon DEF Abs!Push
  <2> QED  BY <2>4, Zenon DEF Abs!Next
<1>4. CASE PopTake
  <2> DEFINE k == IF count < room THEN count ELSE room
  <2>1. /\ out' = [i \in 1 .. k |-> buf[Slot(i)]]
        /\ head' = (head + k) % Capacity /\ count' = count - k
        /\ UNCHANGED <<buf, made, closed>>
        /\ Ready /\ cpc = "checking"
    BY <1>4, Zenon DEF PopTake, producer
  <2>2. k \in 0 .. count
    BY <1>t, SMTT(30)
  <2>3. k = 0 => closed /\ count = 0
    BY <1>t, <2>1, SMTT(30) DEF IInv, Orderly, Ready
  <2>4. out' = Items(buf, head, k)
    BY <2>1, Zenon DEF Items, Slot
  <2> HIDE DEF k
  <2>5. out' = SubSeq(q, 1, k) /\ q' = SubSeq(q, k + 1, Len(q))
    <3>1. /\ Items(buf, head, k) = SubSeq(Items(buf, head, count), 1, k)
          /\ Items(buf, (head + k) % Capacity, count - k)
                = SubSeq(Items(buf, head, count), k + 1, count)
      BY <1>t, <2>2, ItemsTaken, Zenon
    <3> HIDE DEF q
    <3> QED  BY <1>q, <1>l, <2>1, <2>4, <3>1, SMTT(30)
  <2>6. k = 0 => closed /\ q = <<>>
    BY <2>3
  <2>7. k \in 0 .. Len(q)
    BY <1>l, <2>2, Zenon
  <2>8. Abs!Pop
    BY <2>1, <2>5, <2>6, <2>7, Zenon DEF Abs!Pop
  <2> QED  BY <2>8, Zenon DEF Abs!Next
<1>5. CASE Close
  <2>1. q' = q
    BY <1>5, <1>q, Zenon DEF Close
  <2>2. Abs!Close
    BY <1>5, <2>1, Zenon DEF Close, producer, Abs!Close
  <2> QED  BY <2>2, Zenon DEF Abs!Next
\* The other steps change nothing that the abstract queue has.
<1>6. ASSUME NEW k \in 1 .. MaxBatch, PushLock(k)
      PROVE  [Abs!Next]_(Abs!vars)
  BY <1>1, <1>6, Zenon DEF PushLock, queue, consumer
<1>7. CASE PushUnlock \/ CountPushed \/ CountDropped \/ NotifyOne
  BY <1>1, <1>7, Zenon
     DEF PushUnlock, CountPushed, CountDropped, NotifyOne, queue, consumer
<1>8. ASSUME NEW size \in OutSizes, PopCall(size)
      PROVE  [Abs!Next]_(Abs!vars)
  BY <1>1, <1>8, Zenon DEF PopCall, queue, producer
<1>9. CASE PopWait \/ CountPopped \/ PopTimeout \/ PopSpurious
  BY <1>1, <1>9, Zenon
     DEF PopWait, CountPopped, PopTimeout, PopSpurious, queue, producer
<1>10. CASE UNCHANGED vars
  BY <1>1, <1>10, Zenon DEF vars, queue, producer, consumer
<1> QED
  BY <1>2, <1>3, <1>4, <1>5, <1>6, <1>7, <1>8, <1>9, <1>10, SMTT(30)
     DEF Next, ProducerStep, ConsumerStep

\* push_batch and pop_batch on the circular buffer are a drop-oldest FIFO, for
\* every capacity, batch size and output size, and however push_batch, pop_batch
\* and close interleave.
THEOREM QueueImplementsFifo == Spec => ImplementsDropOldest
BY AbsInitial, AbsStep, QueueInductive, PTL
   DEF Spec, Abs!Spec, ImplementsDropOldest

----------------------------------------------------------------------------
(* The idle path of the ring.                                              *)

Places ==
    {"idle", "closed?", "load", "register", "recheck", "lock", "park",
     "waiting", "leave", "read"}

Parked == {r \in Readers : rpc[r] \in Registered}

\* Once close has notified, no reader sleeps in wait_for_data or is about to:
\* whoever evaluates the predicate from then on finds closed_ set.
NobodyAsleep ==
    closer = "done" => \A r \in Readers : rpc[r] \notin {"park", "waiting"}

\* A reader on its way into the wait set holds the mutex, so close cannot set
\* closed_ between its predicate and its wait.
IdleInv ==
    /\ rpc \in [Readers -> Places]
    /\ WaitersExact
    /\ \A r \in Readers : rpc[r] = "park" => mutex = r
    /\ closer \in {"open", "notify", "done"} /\ (closer # "open" => ring_closed)
    /\ closer = "notify" => \A r \in Readers : rpc[r] # "park"
    /\ NobodyAsleep

----------------------------------------------------------------------------
\* One reader goes into wait_for_data, or out of it: the number goes with it.
LEMMA OneMore ==
    ASSUME NEW S \in SUBSET Readers, NEW r \in Readers, r \notin S
    PROVE  Cardinality(S \cup {r}) = Cardinality(S) + 1
<1>1. IsFiniteSet(S)
  BY FS_Subset, IdleAssumption, Zenon
<1> QED BY <1>1, FS_AddElement, Zenon

LEMMA OneLess ==
    ASSUME NEW S \in SUBSET Readers, NEW r \in S
    PROVE  Cardinality(S \ {r}) = Cardinality(S) - 1
<1>1. IsFiniteSet(S)
  BY FS_Subset, IdleAssumption, Zenon
<1> QED BY <1>1, FS_RemoveElement, Zenon

LEMMA IdleInitial == IdleInit => IdleInv
<1> SUFFICES ASSUME IdleInit PROVE IdleInv
  BY Zenon
<1>1. {r \in Readers : rpc[r] \in Registered} = {}
  BY Zenon DEF IdleInit, Registered
<1>2. waiters = Cardinality({})
  BY FS_EmptySet, Zenon DEF IdleInit
<1> QED BY <1>1, <1>2, Zenon DEF IdleInit, IdleInv, WaitersExact, NobodyAsleep, Places

\* A reader that moves between two places on the same side of wait_for_data.
LEMMA SameSide ==
    ASSUME IdleInv, NEW r \in Readers, NEW to \in Places,
           rpc' = [rpc EXCEPT ![r] = to], waiters' = waiters,
           (rpc[r] \in Registered) <=> (to \in Registered)
    PROVE  rpc' \in [Readers -> Places] /\ WaitersExact'
<1>1. rpc' \in [Readers -> Places]
  BY Zenon DEF IdleInv
<1>2. \A s \in Readers : (rpc'[s] \in Registered) <=> (rpc[s] \in Registered)
  BY Zenon DEF IdleInv
<1>3. {s \in Readers : rpc'[s] \in Registered}
        = {s \in Readers : rpc[s] \in Registered}
  BY <1>2, Zenon
<1> QED BY <1>1, <1>3, Zenon DEF IdleInv, WaitersExact

LEMMA Leaves ==
    ASSUME IdleInv, NEW r \in Readers,
           rpc[r] \in Registered,
           rpc' = [rpc EXCEPT ![r] = "read"], waiters' = waiters - 1
    PROVE  rpc' \in [Readers -> Places] /\ WaitersExact'
<1>1. rpc' \in [Readers -> Places]
  BY Zenon DEF IdleInv, Places
<1>2. {s \in Readers : rpc'[s] \in Registered} = Parked \ {r}
  BY Zenon DEF IdleInv, Registered, Parked
<1>3. r \in Parked /\ Parked \in SUBSET Readers
  BY Zenon DEF Parked
<1>4. Cardinality(Parked \ {r}) = Cardinality(Parked) - 1
  BY <1>3, OneLess, Zenon
<1> QED BY <1>1, <1>2, <1>4, Zenon DEF IdleInv, WaitersExact, Parked

LEMMA Enters ==
    ASSUME IdleInv, NEW r \in Readers,
           rpc[r] \notin Registered,
           rpc' = [rpc EXCEPT ![r] = "recheck"], waiters' = waiters + 1
    PROVE  rpc' \in [Readers -> Places] /\ WaitersExact'
<1>1. rpc' \in [Readers -> Places]
  BY Zenon DEF IdleInv, Places
<1>2. {s \in Readers : rpc'[s] \in Registered} = Parked \cup {r}
  BY Zenon DEF IdleInv, Registered, Parked
<1>3. r \notin Parked /\ Parked \in SUBSET Readers
  BY Zenon DEF Parked
<1>4. Cardinality(Parked \cup {r}) = Cardinality(Parked) + 1
  BY <1>3, OneMore, Zenon
<1> QED BY <1>1, <1>2, <1>4, Zenon DEF IdleInv, WaitersExact, Parked

\* notify_all moves readers, but none out of wait_for_data, and none into it.
LEMMA Notified ==
    ASSUME IdleInv, rpc' = AllWoken, waiters' = waiters
    PROVE  /\ rpc' \in [Readers -> Places]
           /\ WaitersExact'
           /\ \A s \in Readers : rpc'[s] # "waiting"
           /\ \A s \in Readers : rpc'[s] = "park" => rpc[s] = "park"
<1>1. rpc' \in [Readers -> Places]
  BY Zenon DEF IdleInv, AllWoken, Places
<1>2. \A s \in Readers : (rpc'[s] \in Registered) <=> (rpc[s] \in Registered)
  BY Zenon DEF IdleInv, AllWoken, Registered
<1>3. {s \in Readers : rpc'[s] \in Registered}
        = {s \in Readers : rpc[s] \in Registered}
  BY <1>2, Zenon
<1>4. \A s \in Readers : rpc'[s] # "waiting" /\ (rpc'[s] = "park" => rpc[s] = "park")
  BY Zenon DEF AllWoken
<1> QED BY <1>1, <1>3, <1>4, Zenon DEF IdleInv, WaitersExact

----------------------------------------------------------------------------
LEMMA IdleStep ==
    ASSUME IdleInv, [IdleNext]_idleVars
    PROVE  IdleInv'
<1>0. Free \notin Readers
  BY IdleAssumption, Zenon
\* Steps that move no reader.
<1>1. ASSUME UNCHANGED <<rpc, waiters, mutex, ring_closed, closer>>
      PROVE  IdleInv'
  BY <1>1, Zenon DEF IdleInv, WaitersExact, NobodyAsleep
\* Steps of one reader that leave the mutex alone, and do not go to sleep.
<1>2. ASSUME NEW r \in Readers, NEW to \in Places \ {"park", "waiting"},
             rpc' = [rpc EXCEPT ![r] = to],
             UNCHANGED <<mutex, ring_closed, closer>>,
             rpc' \in [Readers -> Places], WaitersExact'
      PROVE  IdleInv'
  BY <1>2, Zenon DEF IdleInv, NobodyAsleep
<1>3. ASSUME NEW r \in Readers, NEW to \in Places \ {"park", "waiting"},
             rpc' = [rpc EXCEPT ![r] = to],
             UNCHANGED <<waiters, mutex, ring_closed, closer>>,
             (rpc[r] \in Registered) <=> (to \in Registered)
      PROVE  IdleInv'
  <2>1. rpc' \in [Readers -> Places] /\ WaitersExact'
    BY <1>3, SameSide, Zenon
  <2> QED BY <1>2, <1>3, <2>1, Zenon
<1>4. ASSUME NEW p \in Producers, PublisherStep(p) PROVE IdleInv'
  <2>1. CASE WriteAt(p) \/ LoadWaiters(p)
    BY <1>1, <2>1, Zenon DEF WriteAt, LoadWaiters, reader
  <2>2. CASE NotifyAll(p)
    BY <2>2, Notified, Zenon DEF NotifyAll, IdleInv, NobodyAsleep
  <2> QED BY <1>4, <2>1, <2>2, Zenon DEF PublisherStep
<1>5. ASSUME NEW p \in Producers, NEW k \in 1 .. MaxPublish, Ticket(p, k)
      PROVE  IdleInv'
  BY <1>1, <1>5, Zenon DEF Ticket, reader
<1>6. ASSUME NEW r \in Readers,
             PopBatch(r) \/ ReaderStep(r) \/ Timeout(r) \/ Spurious(r)
      PROVE  IdleInv'
  <2>1. CASE PopBatch(r)
    BY <2>1, <1>3, <1>6, Zenon DEF PopBatch, Return, Places, Registered
  <2>2. CASE CheckClosed(r)
    BY <2>2, <1>3, <1>6, Zenon DEF CheckClosed, Return, Places, Registered
  <2>3. CASE LoadWritePos(r)
    BY <2>3, <1>3, <1>6, Zenon DEF LoadWritePos, Places, Registered
  <2>4. CASE Register(r)
    <3>1. rpc' \in [Readers -> Places] /\ WaitersExact'
      BY <2>4, <1>6, Enters, Zenon DEF Register, Registered
    <3> QED BY <2>4, <3>1, <1>2, <1>6, Zenon DEF Register, Places
  <2>5. CASE Recheck(r)
    <3>1. CASE Moved(r)
      <4>1. rpc' \in [Readers -> Places] /\ WaitersExact'
        BY <2>5, <3>1, <1>6, Leaves, Zenon DEF Recheck, Deregistered, Registered
      <4> QED BY <2>5, <3>1, <4>1, <1>2, <1>6, ZenonT(30) DEF Recheck, Places
    <3>2. CASE ~Moved(r)
      BY <2>5, <3>2, <1>3, <1>6, ZenonT(30) DEF Recheck, Places, Registered
    <3> QED BY <3>1, <3>2, Zenon
  <2>6. CASE LockAndTest(r)
    <3>1. CASE Wakeable(r)
      BY <2>6, <3>1, <1>3, <1>6, SMTT(30) DEF LockAndTest, Places, Registered
    \* The predicate is false, so nobody has closed the ring.
    <3>2. CASE ~Wakeable(r)
      <4>1. closer = "open" /\ closer' = closer
        BY <2>6, <3>2, Zenon DEF LockAndTest, Wakeable, IdleInv
      <4>2. rpc' = [rpc EXCEPT ![r] = "park"] /\ waiters' = waiters
        BY <2>6, <3>2, Zenon DEF LockAndTest
      <4>3. rpc' \in [Readers -> Places] /\ WaitersExact'
        BY <2>6, <4>2, <1>6, SameSide, ZenonT(30) DEF LockAndTest, Places, Registered
      <4>4. \A s \in Readers : rpc[s] # "park"
        BY <1>0, <2>6, Zenon DEF LockAndTest, IdleInv
      <4>5. \A s \in Readers : rpc'[s] = "park" => mutex' = s
        BY <2>6, <3>2, <4>2, <4>4, SMTT(30) DEF LockAndTest, IdleInv
      <4> QED BY <4>1, <4>3, <4>5, Zenon DEF IdleInv, NobodyAsleep
    <3> QED BY <3>1, <3>2, Zenon
  <2>7. CASE Park(r)
    <3>1. rpc' = [rpc EXCEPT ![r] = "waiting"] /\ waiters' = waiters
      BY <2>7, Zenon DEF Park
    <3>2. rpc' \in [Readers -> Places] /\ WaitersExact'
      BY <2>7, <3>1, <1>6, SameSide, ZenonT(30) DEF Park, Places, Registered
    \* It held the mutex: no other reader is at the same place.
    <3>3. \A s \in Readers : rpc'[s] # "park"
      BY <2>7, <3>1, <1>6, Zenon DEF Park, IdleInv
    <3>4. closer = "open" /\ closer' = closer
      BY <2>7, <1>6, Zenon DEF Park, IdleInv, NobodyAsleep
    <3> QED BY <3>2, <3>3, <3>4, Zenon DEF IdleInv, NobodyAsleep
  <2>8. CASE Leave(r)
    <3>1. rpc' \in [Readers -> Places] /\ WaitersExact'
      BY <2>8, <1>6, Leaves, Zenon DEF Leave, Deregistered, Registered
    <3> QED BY <2>8, <3>1, <1>2, <1>6, Zenon DEF Leave, Places
  <2>9. CASE ReadAgain(r)
    BY <2>9, <1>3, <1>6, Zenon DEF ReadAgain, Return, Places, Registered
  <2>10. CASE Timeout(r)
    BY <2>10, <1>3, <1>6, Zenon DEF Timeout, Places, Registered
  <2>11. CASE Spurious(r)
    BY <2>11, <1>3, <1>6, Zenon DEF Spurious, Places, Registered
  <2> QED BY <1>6, <2>1, <2>2, <2>3, <2>4, <2>5, <2>6, <2>7, <2>8, <2>9, <2>10,
             <2>11, SMTT(30) DEF ReaderStep
\* close takes the mutex, so it finds no reader on its way into the wait set.
<1>7. CASE CloseStore
  <2>1. \A r \in Readers : rpc[r] # "park"
    BY <1>0, <1>7, Zenon DEF CloseStore, IdleInv
  <2> QED BY <1>7, <2>1, Zenon DEF CloseStore, reader, IdleInv, WaitersExact, NobodyAsleep
<1>8. CASE CloseNotify
  <2>1. \A r \in Readers : rpc[r] # "park"
    BY <1>8, Zenon DEF CloseNotify, IdleInv
  <2> QED BY <1>8, <2>1, Notified, Zenon DEF CloseNotify, IdleInv, NobodyAsleep
<1>9. CASE UNCHANGED idleVars
  BY <1>1, <1>9, Zenon DEF idleVars, reader
<1> QED BY <1>4, <1>5, <1>6, <1>7, <1>8, <1>9, SMTT(30) DEF IdleNext

----------------------------------------------------------------------------
\* waiters_ is the number of readers between their fetch_add and their
\* fetch_sub in wait_for_data, for every finite set of readers.
THEOREM WaitersCounted == IdleSpec => []WaitersExact
<1>1. IdleInv /\ [IdleNext]_idleVars => IdleInv'
  BY IdleStep, Zenon
<1>2. IdleInv => WaitersExact
  BY SMTT(30) DEF IdleInv
<1> QED BY <1>1, <1>2, IdleInitial, PTL DEF IdleSpec

\* When close returns, no reader is in the wait set and none can go there: it
\* wakes everyone there is, however many readers share the ring.
THEOREM CloseLeavesNobodyAsleep == IdleSpec => []NobodyAsleep
<1>1. IdleInv /\ [IdleNext]_idleVars => IdleInv'
  BY IdleStep, Zenon
<1>2. IdleInv => NobodyAsleep
  BY Zenon DEF IdleInv
<1> QED BY <1>1, <1>2, IdleInitial, PTL DEF IdleSpec

=============================================================================
