---------------------------- MODULE ChannelProofs ----------------------------
(***************************************************************************)
(* Proofs, for every set of contexts, initial size, memory limit and       *)
(* number of writes, of the safety properties of Channel, and then of the  *)
(* composition ChannelOwnership: that a value waiting in a channel has not *)
(* been destroyed.  Whatever channel_write destroys before it fills a      *)
(* slot, and whatever a reader destroys, has already left the ring.        *)
(***************************************************************************)
EXTENDS ChannelOwnership, FiniteSetTheorems, SequenceTheorems, TLAPS

(* Index arithmetic on a ring: an offset up to the size wraps at most once *)
(* (m_start + m_count and m_start + 1, modulo m_allocated_count).          *)
LEMMA RingIndex ==
  ASSUME NEW n \in Nat \ {0}, NEW a \in 0 .. n - 1, NEW i \in 0 .. n
  PROVE  /\ (a + i) % n \in 0 .. n - 1
         /\ (a + i) % n = IF a + i < n THEN a + i ELSE a + i - n
  <1>1. CASE a + i < n
    BY <1>1
  <1>2. CASE a + i >= n
    BY <1>2
  <1>3. QED
    BY <1>1, <1>2

(* Different offsets below the size are different slots.                   *)
LEMMA RingDistinct ==
  ASSUME NEW n \in Nat \ {0}, NEW a \in 0 .. n - 1,
         NEW i \in 0 .. n - 1, NEW j \in 0 .. n - 1, i # j
  PROVE  (a + i) % n # (a + j) % n
  <1>1. i \in 0 .. n /\ j \in 0 .. n
    OBVIOUS
  <1>2. (a + i) % n = IF a + i < n THEN a + i ELSE a + i - n
    BY <1>1, RingIndex
  <1>3. (a + j) % n = IF a + j < n THEN a + j ELSE a + j - n
    BY <1>1, RingIndex
  <1>4. QED
    BY <1>2, <1>3

(* The slot of the i-th queued value, or of the next one to be written.    *)
LEMMA SlotIndex ==
  ASSUME TypeOK, NEW i \in 0 .. allocated
  PROVE  /\ Slot(i) \in 0 .. allocated - 1
         /\ Slot(i) = IF start + i < allocated THEN start + i ELSE start + i - allocated
  BY RingIndex DEF TypeOK, Slot

(* Growing keeps the ring a ring of scalars.                               *)
LEMMA CompactedType ==
  ASSUME TypeOK, NEW size \in Nat
  PROVE  Compacted(size) \in [0 .. size - 1 -> Nat]
  <1>1. ASSUME NEW i \in 0 .. size - 1
        PROVE  Compacted(size)[i] \in Nat
    BY DEF Compacted, Straight, TypeOK, Undef
  <1>2. QED
    BY <1>1 DEF Compacted

(* channel_write stores inside the ring it was given.                      *)
LEMMA EnqueueType ==
  ASSUME TypeOK, NEW t \in Threads,
         NEW size \in Nat \ {0}, NEW slots \in [0 .. size - 1 -> Nat],
         NEW first \in 0 .. size - 1, count < size,
         Enqueue(t, slots, size, first)
  PROVE  TypeOK'
  <1>1. (first + count) % size \in 0 .. size - 1
    BY RingIndex DEF TypeOK
  <1>2. items' \in [0 .. size - 1 -> Nat]
    BY <1>1 DEF Enqueue, TypeOK
  <1>3. QED
    BY <1>2 DEF Enqueue, TypeOK, Goto, Locations

(* A read moves m_start inside the ring.                                   *)
LEMMA TakeItemType ==
  ASSUME TypeOK, NEW t \in Threads, count > 0, TakeItem(t)
  PROVE  /\ start' \in 0 .. allocated - 1
         /\ start' = IF start + 1 < allocated THEN start + 1 ELSE start + 1 - allocated
         /\ count' \in 0 .. allocated
         /\ result' \in [Threads -> Nat]
  <1>1. 1 \in 0 .. allocated
    BY DEF TypeOK
  <1>2. /\ start' \in 0 .. allocated - 1
        /\ start' = IF start + 1 < allocated THEN start + 1 ELSE start + 1 - allocated
    BY <1>1, RingIndex DEF TakeItem, TypeOK
  <1>3. QED
    BY <1>2, SMTT(30) DEF TakeItem, TypeOK

(* Every step of a context leaves the variables well-typed and the ring    *)
(* indices inside the ring.                                                *)
LEMMA TypeStep == TypeOK /\ [Next]_vars => TypeOK'
  <1> SUFFICES ASSUME TypeOK, [Next]_vars PROVE TypeOK'
    OBVIOUS
  <1>1. CASE UNCHANGED vars
    BY <1>1 DEF vars, TypeOK
  <1>2. ASSUME NEW t \in Threads,
               \/ ReadBegin(t) \/ TryReadBegin(t) \/ WriteBegin(t)
               \/ ReadWait(t) \/ TryReadWouldBlock(t) \/ WriteWait(t)
               \/ WriteExpire(t) \/ SpuriousWakeup(t)
        PROVE  TypeOK'
    BY <1>2 DEF ReadBegin, TryReadBegin, WriteBegin, ReadWait, TryReadWouldBlock,
       WriteWait, WriteExpire, SpuriousWakeup, Goto, Locations, ring, TypeOK
  <1>3. ASSUME NEW t \in Threads, ReadTake(t) \/ TryReadTake(t)
        PROVE  TypeOK'
    <2>1. count > 0 /\ TakeItem(t)
      BY <1>3 DEF ReadTake, TryReadTake
    <2>2. pc' \in [Threads -> Locations]
      BY <1>3 DEF ReadTake, TryReadTake, Goto, Locations, TypeOK
    <2>3. QED
      BY <2>1, <2>2, TakeItemType DEF TakeItem, TypeOK
  <1>4. ASSUME NEW t \in Threads, ReadSignal(t) \/ WriteSignal(t)
        PROVE  TypeOK'
    BY <1>4 DEF ReadSignal, WriteSignal, SignalAndGoto, At, Goto, Locations, ring, TypeOK
  <1>5. ASSUME NEW t \in Threads, PushResult(t)
        PROVE  TypeOK'
    BY <1>5 DEF PushResult, Goto, Locations, Undef, ring, TypeOK
  <1>6. ASSUME NEW t \in Threads, WriteEnqueue(t)
        PROVE  TypeOK'
    BY <1>6, EnqueueType DEF WriteEnqueue, TypeOK
  <1>7. ASSUME NEW t \in Threads, WriteGrow(t)
        PROVE  TypeOK'
    <2>1. 2 * allocated \in Nat \ {0} /\ count < 2 * allocated
      BY DEF TypeOK
    <2>2. Compacted(2 * allocated) \in [0 .. 2 * allocated - 1 -> Nat]
      BY <2>1, CompactedType
    <2>3. 0 \in 0 .. 2 * allocated - 1
      BY <2>1
    <2>4. QED
      BY <1>7, <2>1, <2>2, <2>3, EnqueueType DEF WriteGrow
  <1>8. ASSUME NEW t \in Threads, WriteGrowFails(t)
        PROVE  TypeOK'
    <2>1. CASE count < allocated /\ Enqueue(t, items, allocated, start)
      BY <2>1, EnqueueType DEF TypeOK
    <2>2. CASE Goto(t, "writewait") /\ UNCHANGED <<ring, result>>
      BY <2>2 DEF Goto, Locations, ring, TypeOK
    <2>3. QED
      BY <1>8, <2>1, <2>2 DEF WriteGrowFails
  <1>9. QED
    BY <1>1, <1>2, <1>3, <1>4, <1>5, <1>6, <1>7, <1>8 DEF Next, Begin, Proceed

(* The variables keep their types and the ring indices stay in the ring.   *)
THEOREM TypeCorrect == Spec => []TypeOK
  <1>1. Init => TypeOK
    BY ChannelAssumption DEF Init, TypeOK, Locations, Undef
  <1>2. QED
    BY <1>1, TypeStep, PTL DEF Spec

-----------------------------------------------------------------------------
(* First in, first out, on the ring.                                       *)

(* A ring "slots" of the given size, oldest value at "first", holds the    *)
(* last "count" values in the order of writing.                            *)
InOrder(slots, size, first) ==
  \A i \in 0 .. count - 1 : slots[(first + i) % size] = written - count + 1 + i

(* _channel_reserve_unlocked loses and reorders nothing.                   *)
LEMMA CompactedInOrder ==
  ASSUME TypeOK, QueueInOrder, NEW size \in Nat, size > allocated
  PROVE  InOrder(Compacted(size), size, 0)
  <1> SUFFICES ASSUME NEW i \in 0 .. count - 1
               PROVE  Compacted(size)[(0 + i) % size] = items[Slot(i)]
    BY DEF InOrder, QueueInOrder
  <1>1. i \in 0 .. allocated /\ i \in 0 .. size - 1
    BY DEF TypeOK
  <1>2. Slot(i) = IF start + i < allocated THEN start + i ELSE start + i - allocated
    BY <1>1, SlotIndex
  <1>3. (0 + i) % size = i
    BY <1>1
  <1>4. Compacted(size)[i] = items[Slot(i)]
    BY <1>1, <1>2 DEF Compacted, Straight, TypeOK
  <1>5. QED
    BY <1>3, <1>4

(* channel_write stores behind the queued values and overwrites none.      *)
LEMMA EnqueueInOrder ==
  ASSUME TypeOK, count <= written, NEW t \in Threads,
         NEW size \in Nat \ {0}, NEW slots \in [0 .. size - 1 -> Nat],
         NEW first \in 0 .. size - 1, count < size,
         InOrder(slots, size, first), Enqueue(t, slots, size, first)
  PROVE  QueueInOrder'
  <1> DEFINE last == (first + count) % size
  <1>1. /\ items' = [slots EXCEPT ![last] = written + 1]
        /\ allocated' = size /\ start' = first
        /\ count' = count + 1 /\ written' = written + 1
    BY DEF Enqueue
  <1>2. /\ last \in 0 .. size - 1
        /\ last = IF first + count < size THEN first + count ELSE first + count - size
    BY RingIndex DEF TypeOK
  <1>3. ASSUME NEW i \in 0 .. count
        PROVE  items'[(first + i) % size] = written - count + 1 + i
    <2>0. i \in 0 .. size
      BY DEF TypeOK
    <2>1. /\ (first + i) % size \in 0 .. size - 1
          /\ (first + i) % size = IF first + i < size THEN first + i ELSE first + i - size
      BY <2>0, RingIndex
    <2>2. CASE i = count
      BY <1>1, <1>2, <2>2 DEF TypeOK
    <2>3. CASE i # count
      <3>0. i \in 0 .. count - 1 /\ i \in 0 .. size - 1 /\ count \in 0 .. size - 1
        BY <2>3 DEF TypeOK
      <3>1. (first + i) % size # last
        BY <2>3, <3>0, RingDistinct
      <3>2. items'[(first + i) % size] = slots[(first + i) % size]
        BY <1>1, <2>1, <3>1
      <3>3. QED
        BY <3>0, <3>2 DEF InOrder
    <2>4. QED
      BY <2>2, <2>3
  <1>4. QED
    BY <1>1, <1>3 DEF QueueInOrder, Slot, TypeOK

(* A read removes the oldest value and leaves the others where they are.   *)
LEMMA TakeInOrder ==
  ASSUME TypeOK, QueueInOrder, NEW t \in Threads, count > 0, TakeItem(t)
  PROVE  /\ QueueInOrder'
         /\ \A i \in 0 .. count - 2 : Slot(i)' = Slot(i + 1)
  <1>1. /\ start' \in 0 .. allocated - 1
        /\ start' = IF start + 1 < allocated THEN start + 1 ELSE start + 1 - allocated
    BY TakeItemType
  <1>2. UNCHANGED <<items, allocated, written>> /\ count' = count - 1
    BY DEF TakeItem
  <1>3. ASSUME NEW i \in 0 .. count - 2
        PROVE  Slot(i)' = Slot(i + 1)
    <2>1. i \in 0 .. allocated /\ i + 1 \in 0 .. allocated
      BY DEF TypeOK
    <2>2. (start' + i) % allocated =
            IF start' + i < allocated THEN start' + i ELSE start' + i - allocated
      BY <1>1, <2>1, RingIndex DEF TypeOK
    <2>3. Slot(i + 1) = IF start + (i + 1) < allocated THEN start + (i + 1)
                        ELSE start + (i + 1) - allocated
      BY <2>1, SlotIndex
    <2>4. Slot(i)' = (start' + i) % allocated
      BY <1>2 DEF Slot
    <2>5. QED
      BY <1>1, <2>1, <2>2, <2>3, <2>4 DEF TypeOK
  <1>4. QED
    BY <1>2, <1>3, SMTT(30) DEF QueueInOrder, TypeOK

(* Every step keeps the ring in order.                                     *)
LEMMA OrderStep == TypeOK /\ QueueInOrder /\ [Next]_vars => QueueInOrder'
  <1> SUFFICES ASSUME TypeOK, QueueInOrder, [Next]_vars PROVE QueueInOrder'
    OBVIOUS
  <1>1. CASE UNCHANGED ring
    BY <1>1 DEF ring, QueueInOrder, Slot
  <1>2. ASSUME NEW t \in Threads, count > 0, TakeItem(t)
        PROVE  QueueInOrder'
    BY <1>2, TakeInOrder
  <1>3. InOrder(items, allocated, start) /\ count <= written
    BY DEF InOrder, QueueInOrder, Slot
  <1>4. ASSUME NEW t \in Threads, count < allocated, Enqueue(t, items, allocated, start)
        PROVE  QueueInOrder'
    BY <1>3, <1>4, EnqueueInOrder DEF TypeOK
  <1>5. ASSUME NEW t \in Threads, WriteGrow(t)
        PROVE  QueueInOrder'
    <2>1. /\ 2 * allocated \in Nat \ {0} /\ count < 2 * allocated
          /\ 2 * allocated > allocated /\ 0 \in 0 .. 2 * allocated - 1
      BY DEF TypeOK
    <2>2. Compacted(2 * allocated) \in [0 .. 2 * allocated - 1 -> Nat]
      BY <2>1, CompactedType
    <2>3. InOrder(Compacted(2 * allocated), 2 * allocated, 0)
      BY <2>1, CompactedInOrder
    <2>4. QED
      BY <1>3, <1>5, <2>1, <2>2, <2>3, EnqueueInOrder DEF WriteGrow
  <1>6. QED
    BY <1>1, <1>2, <1>4, <1>5
    DEF vars, ring, Next, Begin, Proceed, ReadBegin, TryReadBegin, WriteBegin,
        ReadWait, ReadTake, ReadSignal, TryReadTake, TryReadWouldBlock, PushResult,
        WriteEnqueue, WriteWait, WriteExpire, WriteGrowFails, WriteSignal, SpuriousWakeup

(* The ring always holds the last values written, in order.                *)
THEOREM OrderCorrect == Spec => []QueueInOrder
  <1>1. Init => QueueInOrder
    BY DEF Init, QueueInOrder
  <1>2. QED
    BY <1>1, OrderStep, TypeCorrect, PTL DEF Spec

-----------------------------------------------------------------------------
(* Wake-ups of readers.                                                    *)

(* The contexts that will still take a value or announce one.              *)
Helpers == At({"read", "signalitems"})

Sleepers == At({"readwait"})

(* Sets of contexts are finite, and count as expected.                     *)
LEMMA HelpersFinite ==
  ASSUME TypeOK
  PROVE  /\ IsFiniteSet(Helpers) /\ Cardinality(Helpers) \in Nat
         /\ IsFiniteSet(Helpers') /\ Cardinality(Helpers') \in Nat
  <1>1. Helpers \subseteq Threads /\ Helpers' \subseteq Threads
    BY DEF Helpers, At
  <1>2. QED
    BY <1>1, ChannelAssumption, FS_Subset, FS_CardinalityType

LEMMA OneMore ==
  ASSUME NEW S, NEW T, NEW x, IsFiniteSet(S), x \notin S, T = S \cup {x}
  PROVE  Cardinality(T) = Cardinality(S) + 1
  BY FS_AddElement

(* Every step keeps a wake-up, or an awake reader, for each queued value   *)
(* as long as a reader sleeps.                                             *)
LEMMA WakeupStep == TypeOK /\ NoLostWakeup /\ [Next]_vars => NoLostWakeup'
  <1> SUFFICES ASSUME TypeOK, NoLostWakeup, [Next]_vars, Sleepers' # {}
               PROVE  count' <= Cardinality(Helpers')
    BY DEF NoLostWakeup, Sleepers, Helpers
  <1> USE HelpersFinite
  <1>0. Sleepers # {} => count <= Cardinality(Helpers)
    BY DEF NoLostWakeup, Sleepers, Helpers
  <1>1. CASE UNCHANGED vars
    BY <1>0, <1>1 DEF vars, Sleepers, Helpers, At
  <1>2. ASSUME Cardinality(Helpers') = Cardinality(Helpers) + 1,
               Sleepers # {}, count' <= count + 1, count' \in Nat
        PROVE  count' <= Cardinality(Helpers')
    BY <1>0, <1>2 DEF TypeOK
  <1>3. ASSUME Helpers' = Helpers, Sleepers # {}, count' <= count, count' \in Nat
        PROVE  count' <= Cardinality(Helpers')
    BY <1>0, <1>3 DEF TypeOK
  <1>4. ASSUME NEW t \in Threads, ReadBegin(t)
        PROVE  count' <= Cardinality(Helpers')
    <2>1. Helpers' = Helpers \cup {t} /\ t \notin Helpers /\ Sleepers' = Sleepers
      BY <1>4 DEF ReadBegin, Goto, Helpers, Sleepers, At, TypeOK
    <2>2. Cardinality(Helpers') = Cardinality(Helpers) + 1
      BY <2>1, OneMore
    <2>3. QED
      BY <1>2, <1>4, <2>1, <2>2 DEF ReadBegin, ring, TypeOK
  <1>5. ASSUME NEW t \in Threads,
               \/ TryReadBegin(t) \/ WriteBegin(t) \/ TryReadWouldBlock(t)
               \/ PushResult(t) \/ WriteWait(t) \/ WriteExpire(t)
               \/ pc[t] = "expired" /\ Goto(t, "writewait") /\ UNCHANGED <<ring, result>>
        PROVE  count' <= Cardinality(Helpers')
    <2>1. Helpers' = Helpers /\ Sleepers' = Sleepers /\ UNCHANGED ring
      BY <1>5 DEF TryReadBegin, WriteBegin, TryReadWouldBlock, PushResult, WriteWait,
         WriteExpire, Goto, Helpers, Sleepers, At, TypeOK
    <2>2. QED
      BY <1>3, <2>1 DEF ring, TypeOK
  <1>6. ASSUME NEW t \in Threads, ReadWait(t)
        PROVE  count' <= Cardinality(Helpers')
    BY <1>6 DEF ReadWait, ring
  <1>7. ASSUME NEW t \in Threads, ReadTake(t)
        PROVE  count' <= Cardinality(Helpers')
    <2>1. Helpers' = Helpers \ {t} /\ t \in Helpers /\ Sleepers' = Sleepers
      BY <1>7 DEF ReadTake, Goto, Helpers, Sleepers, At, TypeOK
    <2>2. Cardinality(Helpers') = Cardinality(Helpers) - 1
      BY <2>1, FS_RemoveElement
    <2>3. QED
      BY <1>0, <1>7, <2>1, <2>2 DEF ReadTake, TakeItem, TypeOK
  <1>8. ASSUME NEW t \in Threads, TryReadTake(t)
        PROVE  count' <= Cardinality(Helpers')
    <2>1. Helpers' = Helpers /\ Sleepers' = Sleepers
      BY <1>8 DEF TryReadTake, Goto, Helpers, Sleepers, At, TypeOK
    <2>2. QED
      BY <1>3, <1>8, <2>1 DEF TryReadTake, TakeItem, TypeOK
  <1>9. ASSUME NEW t \in Threads, ReadSignal(t)
        PROVE  count' <= Cardinality(Helpers')
    <2>1. Helpers' = Helpers /\ Sleepers' = Sleepers
      <3>1. CASE Goto(t, "push")
        BY <1>9, <3>1 DEF ReadSignal, Goto, Helpers, Sleepers, At, TypeOK
      <3>2. ASSUME NEW u \in At({"writewait"}),
                   pc' = [pc EXCEPT ![t] = "push", ![u] = "write"]
            PROVE  Helpers' = Helpers /\ Sleepers' = Sleepers
        BY <1>9, <3>2 DEF ReadSignal, Helpers, Sleepers, At, TypeOK
      <3>3. QED
        BY <1>9, <3>1, <3>2 DEF ReadSignal, SignalAndGoto
    <2>2. QED
      BY <1>3, <1>9, <2>1 DEF ReadSignal, ring, TypeOK
  <1>10. ASSUME NEW t \in Threads, pc[t] \in {"write", "expired"},
                NEW slots, NEW size, NEW first, Enqueue(t, slots, size, first)
         PROVE  count' <= Cardinality(Helpers')
    <2>1. Helpers' = Helpers \cup {t} /\ t \notin Helpers /\ Sleepers' = Sleepers
      BY <1>10 DEF Enqueue, Goto, Helpers, Sleepers, At, TypeOK
    <2>2. Cardinality(Helpers') = Cardinality(Helpers) + 1
      BY <2>1, OneMore
    <2>3. QED
      BY <1>2, <1>10, <2>1, <2>2 DEF Enqueue, TypeOK
  <1>11. ASSUME NEW t \in Threads, WriteSignal(t)
         PROVE  count' <= Cardinality(Helpers')
    <2>1. CASE At({"readwait"}) = {} /\ Goto(t, "idle")
      BY <1>11, <2>1 DEF WriteSignal, Goto, Sleepers, At, TypeOK
    <2>2. ASSUME NEW u \in At({"readwait"}),
                 pc' = [pc EXCEPT ![t] = "idle", ![u] = "read"]
          PROVE  count' <= Cardinality(Helpers')
      <3>1. t \in Helpers /\ u \notin Helpers /\ u \in Sleepers /\ u # t
        BY <1>11, <2>2 DEF WriteSignal, Helpers, Sleepers, At
      <3>2. Helpers' = (Helpers \ {t}) \cup {u}
        BY <1>11, <2>2 DEF WriteSignal, Helpers, At, TypeOK
      <3>3. /\ IsFiniteSet(Helpers \ {t})
            /\ Cardinality(Helpers \ {t}) = Cardinality(Helpers) - 1
        BY <3>1, FS_RemoveElement
      <3>4. Cardinality(Helpers') = Cardinality(Helpers)
        BY <3>1, <3>2, <3>3, OneMore
      <3>5. QED
        BY <1>0, <1>11, <3>1, <3>4 DEF WriteSignal, ring
    <2>3. QED
      BY <1>11, <2>1, <2>2 DEF WriteSignal, SignalAndGoto
  <1>12. ASSUME NEW t \in Threads, SpuriousWakeup(t)
         PROVE  count' <= Cardinality(Helpers')
    <2>1. CASE pc[t] = "readwait" /\ Goto(t, "read")
      <3>1. Helpers' = Helpers \cup {t} /\ t \notin Helpers /\ t \in Sleepers
        BY <2>1 DEF Goto, Helpers, Sleepers, At, TypeOK
      <3>2. Cardinality(Helpers') = Cardinality(Helpers) + 1
        BY <3>1, OneMore
      <3>3. QED
        BY <1>2, <1>12, <3>1, <3>2 DEF SpuriousWakeup, ring, TypeOK
    <2>2. CASE pc[t] = "writewait" /\ Goto(t, "write")
      <3>1. Helpers' = Helpers /\ Sleepers' = Sleepers
        BY <2>2 DEF Goto, Helpers, Sleepers, At, TypeOK
      <3>2. QED
        BY <1>3, <1>12, <3>1 DEF SpuriousWakeup, ring, TypeOK
    <2>3. QED
      BY <1>12, <2>1, <2>2 DEF SpuriousWakeup
  <1>13. QED
    BY <1>1, <1>4, <1>5, <1>6, <1>7, <1>8, <1>9, <1>10, <1>11, <1>12
    DEF Next, Begin, Proceed, WriteEnqueue, WriteGrow, WriteGrowFails

(* channel_read's sleepers never miss a value for want of a signal.        *)
THEOREM WakeupCorrect == Spec => []NoLostWakeup
  <1>1. Init => NoLostWakeup
    BY DEF Init, NoLostWakeup, At
  <1>2. QED
    BY <1>1, WakeupStep, TypeCorrect, PTL DEF Spec

-----------------------------------------------------------------------------
(* The channel implements a first-in first-out queue.                      *)

(* A context's scalar is undef except between its read and its push.       *)
ResultUndef ==
  \A t \in Threads : pc[t] \notin {"signalspace", "push"} => result[t] = Undef

LEMMA ResultStep == TypeOK /\ ResultUndef /\ [Next]_vars => ResultUndef'
  <1> SUFFICES ASSUME TypeOK, ResultUndef, [Next]_vars PROVE ResultUndef'
    OBVIOUS
  <1> USE DEF ResultUndef, TypeOK, Goto
  <1>1. CASE UNCHANGED vars
    BY <1>1 DEF vars
  <1>2. ASSUME NEW t \in Threads,
               \/ ReadBegin(t) \/ TryReadBegin(t) \/ WriteBegin(t)
               \/ ReadWait(t) \/ TryReadWouldBlock(t) \/ WriteWait(t)
               \/ WriteExpire(t) \/ SpuriousWakeup(t) \/ PushResult(t)
        PROVE  ResultUndef'
    BY <1>2 DEF ReadBegin, TryReadBegin, WriteBegin, ReadWait, TryReadWouldBlock,
       WriteWait, WriteExpire, SpuriousWakeup, PushResult, ring
  <1>3. ASSUME NEW t \in Threads, ReadTake(t) \/ TryReadTake(t)
        PROVE  ResultUndef'
    BY <1>3 DEF ReadTake, TryReadTake, TakeItem
  <1>4. ASSUME NEW t \in Threads, ReadSignal(t) \/ WriteSignal(t)
        PROVE  ResultUndef'
    BY <1>4 DEF ReadSignal, WriteSignal, SignalAndGoto, At
  <1>5. ASSUME NEW t \in Threads, WriteEnqueue(t) \/ WriteGrow(t) \/ WriteGrowFails(t)
        PROVE  ResultUndef'
    BY <1>5 DEF WriteEnqueue, WriteGrow, WriteGrowFails, Enqueue
  <1>6. QED
    BY <1>1, <1>2, <1>3, <1>4, <1>5 DEF Next, Begin, Proceed

LEMMA ResultCorrect == Spec => []ResultUndef
  <1>1. Init => ResultUndef
    BY DEF Init, ResultUndef
  <1>2. QED
    BY <1>1, ResultStep, TypeCorrect, PTL DEF Spec

(* What the ring's order says of the abstract queue.                       *)
LEMMA QueueValues ==
  ASSUME TypeOK, QueueInOrder
  PROVE  Queue = [i \in 1 .. count |-> written - count + i]
  <1>1. ASSUME NEW i \in 1 .. count
        PROVE  items[Slot(i - 1)] = written - count + i
    BY <1>1 DEF QueueInOrder, TypeOK
  <1>2. QED
    BY <1>1 DEF Queue

LEMMA Predecessor ==
  ASSUME NEW n \in Nat, NEW i \in 1 .. n
  PROVE  i - 1 \in 0 .. n - 1
  OBVIOUS

(* The same after a step.                                                  *)
LEMMA NextQueueValues ==
  ASSUME TypeOK', QueueInOrder'
  PROVE  Queue' = [i \in 1 .. count' |-> written' - count' + i]
  <1>1. count' \in Nat /\ written' \in Nat
    BY DEF TypeOK
  <1>2. \A i \in 0 .. count' - 1 :
           items'[(start' + i) % allocated'] = written' - count' + 1 + i
    BY DEF QueueInOrder, Slot
  <1>3. \A i \in 1 .. count' :
           items'[(start' + (i - 1)) % allocated'] = written' - count' + i
    <2>1. SUFFICES ASSUME NEW i \in 1 .. count'
                   PROVE  items'[(start' + (i - 1)) % allocated'] = written' - count' + i
      OBVIOUS
    <2>2. i - 1 \in 0 .. count' - 1
      BY <1>1, Predecessor
    <2>3. items'[(start' + (i - 1)) % allocated'] = written' - count' + 1 + (i - 1)
      BY <1>2, <2>2
    <2>4. QED
      BY <1>1, <2>1, <2>3
  <1>4. QED
    BY <1>3 DEF Queue, Slot

(* A read takes the head of the abstract queue.                            *)
LEMMA TakeIsReceive ==
  ASSUME TypeOK, QueueInOrder, ResultUndef, TypeOK', QueueInOrder',
         NEW t \in Threads, pc[t] \in {"read", "tryread"}, count > 0, TakeItem(t)
  PROVE  Fifo!Receive(t)
  <1>1. Queue = [i \in 1 .. count |-> written - count + i]
    BY QueueValues
  <1>2. Queue' = [i \in 1 .. count - 1 |-> written - count + 1 + i]
    <2>1. Queue' = [i \in 1 .. count' |-> written' - count' + i]
      BY NextQueueValues
    <2>2. count' = count - 1 /\ written' = written
      BY DEF TakeItem
    <2>3. QED
      BY <2>1, <2>2 DEF TypeOK
  <1>3. /\ Queue # <<>>
        /\ Head(Queue) = written - count + 1
        /\ Tail(Queue) = Queue'
    <2>1. Queue \in Seq(Nat) /\ Len(Queue) = count
      BY <1>1 DEF TypeOK, QueueInOrder
    <2>2. Queue # <<>>
      BY <2>1, EmptySeq DEF TypeOK
    <2>3. Head(Queue) = written - count + 1
      BY <1>1, <2>1, <2>2 DEF TypeOK
    <2>4. /\ Tail(Queue) \in Seq(Nat) /\ Len(Tail(Queue)) = count - 1
          /\ \A i \in 1 .. count - 1 : Tail(Queue)[i] = Queue[i + 1]
      BY <2>1, <2>2, HeadTailProperties
    <2>5. ASSUME NEW i \in 1 .. count - 1
          PROVE  Tail(Queue)[i] = Queue'[i]
      BY <1>1, <1>2, <2>4 DEF TypeOK
    <2>6. Queue' \in Seq(Nat) /\ Len(Queue') = count - 1
      BY <1>2 DEF TypeOK, QueueInOrder
    <2>7. Tail(Queue) = Queue'
      BY <2>4, <2>5, <2>6, SeqEqual
    <2>8. QED
      BY <2>2, <2>3, <2>7
  <1>4. items[start] = written - count + 1
    <2>1. Slot(0) = start /\ 0 \in 0 .. count - 1
      BY SlotIndex, SMTT(30) DEF TypeOK
    <2>2. items[Slot(0)] = written - count + 1 + 0
      BY <2>1 DEF QueueInOrder
    <2>3. QED
      BY <2>1, <2>2, SMTT(30) DEF TypeOK
  <1>5. result[t] = 0
    BY DEF ResultUndef, Undef
  <1>6. QED
    BY <1>3, <1>4, <1>5 DEF Fifo!Receive, TakeItem

(* A write appends to the abstract queue.                                  *)
LEMMA EnqueueIsSend ==
  ASSUME TypeOK, QueueInOrder, TypeOK', QueueInOrder',
         NEW t \in Threads, NEW slots, NEW size, NEW first,
         Enqueue(t, slots, size, first)
  PROVE  Fifo!Send
  <1>1. Queue = [i \in 1 .. count |-> written - count + i]
    BY QueueValues
  <1>2. Queue' = [i \in 1 .. count + 1 |-> written - count + i]
    <2>1. Queue' = [i \in 1 .. count' |-> written' - count' + i]
      BY NextQueueValues
    <2>2. count' = count + 1 /\ written' = written + 1
      BY DEF Enqueue
    <2>3. QED
      BY <2>1, <2>2 DEF TypeOK
  <1>3. Queue' = Append(Queue, written + 1)
    <2>1. Queue \in Seq(Nat) /\ Len(Queue) = count
      BY <1>1 DEF TypeOK, QueueInOrder
    <2>2. QED
      BY <1>1, <1>2, <2>1, SMTT(30) DEF TypeOK
  <1>4. QED
    BY <1>3 DEF Fifo!Send, Enqueue

(* Everything else leaves the abstract queue alone.                        *)
LEMMA QueueUnchanged ==
  ASSUME UNCHANGED ring
  PROVE  Queue' = Queue /\ written' = written
  BY DEF ring, Queue, Slot

(* Every step of the channel is a step of the queue, or none.              *)
LEMMA FifoStep ==
  ASSUME TypeOK, QueueInOrder, ResultUndef, TypeOK', QueueInOrder', [Next]_vars
  PROVE  [Fifo!Next]_(Fifo!vars)
  <1>1. CASE UNCHANGED <<ring, result>>
    BY <1>1, QueueUnchanged DEF Fifo!vars
  <1>2. ASSUME NEW t \in Threads, ReadTake(t) \/ TryReadTake(t)
        PROVE  Fifo!Next
    BY <1>2, TakeIsReceive DEF ReadTake, TryReadTake, Fifo!Next
  <1>3. ASSUME NEW t \in Threads, NEW slots, NEW size, NEW first,
               Enqueue(t, slots, size, first)
        PROVE  Fifo!Next
    BY <1>3, EnqueueIsSend DEF Fifo!Next
  <1>4. ASSUME NEW t \in Threads, PushResult(t)
        PROVE  [Fifo!Next]_(Fifo!vars)
    <2>1. UNCHANGED ring /\ result' = [result EXCEPT ![t] = 0]
      BY <1>4 DEF PushResult, Undef
    <2>2. CASE result[t] = 0
      <3>1. result' = result
        BY <2>1, <2>2 DEF TypeOK
      <3>2. QED
        BY <2>1, <3>1, QueueUnchanged DEF Fifo!vars
    <2>3. CASE result[t] # 0
      BY <2>1, <2>3, QueueUnchanged DEF Fifo!Next, Fifo!Finish
    <2>4. QED
      BY <2>2, <2>3
  <1>5. QED
    BY <1>1, <1>2, <1>3, <1>4
    DEF vars, ring, Next, Begin, Proceed, ReadBegin, TryReadBegin, WriteBegin,
        ReadWait, ReadSignal, TryReadWouldBlock, WriteEnqueue, WriteWait,
        WriteExpire, WriteGrow, WriteGrowFails, WriteSignal, SpuriousWakeup

(* channel.c's ring buffer implements a first-in first-out queue, whatever *)
(* the number of contexts, the sizes and the interleaving.                 *)
THEOREM ChannelIsFifo == Spec => IsFifo
  <1>1. Init => Fifo!Init
    BY DEF Init, Fifo!Init, Queue, Undef
  <1>2. QED
    BY <1>1, FifoStep, TypeCorrect, OrderCorrect, ResultCorrect, PTL
    DEF Spec, IsFifo, Fifo!Spec

-----------------------------------------------------------------------------
(* Ownership of the queued values                                          *)

(* The newest value that has left the ring: older ones have left as well.  *)
LastTaken == written - count

(* The contexts whose write has begun and not yet stored its value.        *)
Writers == At({"write", "writewait", "expired"})

(* The bound on writes is kept by the writes under way, so that every      *)
(* value stored has its counter.                                           *)
BoundKept == WritesBegun <= MaxWrites

(* A ring "slots" of the given size, oldest value at "first", has only     *)
(* values that were taken, or none, in the slots behind the queued ones.   *)
FreeAreTaken(slots, size, first) ==
  \A i \in count .. size - 1 : slots[(first + i) % size] <= LastTaken

(* What can still be destroyed has left the ring.                          *)
OnlyTakenReachable ==
  /\ FreeAreTaken(items, allocated, start)
  /\ \A t \in Threads : result[t] <= LastTaken

(* Nothing that has not left the ring was ever destroyed.                  *)
OnlyTakenDestroyed ==
  ~released =>
    /\ destroys \in [1 .. MaxWrites -> Nat]
    /\ \A n \in 1 .. MaxWrites : n > LastTaken => destroys[n] = 0

-----------------------------------------------------------------------------
(* The bound on writes.                                                    *)

LEMMA WritersFinite ==
  ASSUME TypeOK
  PROVE  /\ IsFiniteSet(Writers) /\ Cardinality(Writers) \in Nat
         /\ IsFiniteSet(Writers') /\ Cardinality(Writers') \in Nat
  <1>1. Writers \subseteq Threads /\ Writers' \subseteq Threads
    BY DEF Writers, At
  <1>2. QED
    BY <1>1, ChannelAssumption, FS_Subset, FS_CardinalityType

(* A write is counted from its beginning, and once.                        *)
LEMMA BoundStep == TypeOK /\ BoundKept /\ [Next]_vars => BoundKept'
  <1> SUFFICES ASSUME TypeOK, BoundKept, [Next]_vars
               PROVE  written' + Cardinality(Writers') <= MaxWrites
    BY DEF BoundKept, WritesBegun, Writers
  <1> USE WritersFinite
  <1>0. /\ written + Cardinality(Writers) <= MaxWrites
        /\ written \in Nat /\ MaxWrites \in Nat
    BY ChannelAssumption DEF BoundKept, WritesBegun, Writers, TypeOK
  <1>1. CASE Writers' = Writers /\ written' = written
    BY <1>0, <1>1
  <1>2. CASE UNCHANGED vars
    BY <1>1, <1>2 DEF vars, Writers, At
  <1>3. ASSUME NEW t \in Threads,
               \/ ReadBegin(t) \/ TryReadBegin(t) \/ ReadWait(t) \/ TryReadWouldBlock(t)
               \/ ReadTake(t) \/ TryReadTake(t) \/ PushResult(t)
               \/ WriteWait(t) \/ WriteExpire(t) \/ SpuriousWakeup(t)
        PROVE  Writers' = Writers /\ written' = written
    <2>1. written' = written
      BY <1>3 DEF ReadBegin, TryReadBegin, ReadWait, TryReadWouldBlock, ReadTake,
         TryReadTake, TakeItem, PushResult, WriteWait, WriteExpire, SpuriousWakeup, ring
    <2>2. Writers' = Writers
      BY <1>3 DEF ReadBegin, TryReadBegin, ReadWait, TryReadWouldBlock, ReadTake,
         TryReadTake, PushResult, WriteWait, WriteExpire, SpuriousWakeup,
         Goto, Writers, At, TypeOK
    <2>3. QED
      BY <2>1, <2>2
  <1>4. ASSUME NEW t \in Threads, ReadSignal(t) \/ WriteSignal(t)
        PROVE  Writers' = Writers /\ written' = written
    <2>1. written' = written
      BY <1>4 DEF ReadSignal, WriteSignal, ring
    <2>2. Writers' = Writers
      BY <1>4 DEF ReadSignal, WriteSignal, SignalAndGoto, Goto, Writers, At, TypeOK
    <2>3. QED
      BY <2>1, <2>2
  <1>5. ASSUME NEW t \in Threads, WriteBegin(t)
        PROVE  written' + Cardinality(Writers') <= MaxWrites
    <2>1. Writers' = Writers \cup {t} /\ t \notin Writers
      BY <1>5 DEF WriteBegin, Goto, Writers, At, TypeOK
    <2>2. Cardinality(Writers') = Cardinality(Writers) + 1
      BY <2>1, OneMore
    <2>3. written' = written /\ written + Cardinality(Writers) < MaxWrites
      BY <1>5 DEF WriteBegin, ring, WritesBegun, Writers
    <2>4. QED
      BY <1>0, <2>2, <2>3
  <1>6. ASSUME NEW t \in Threads, pc[t] \in {"write", "expired"},
               NEW slots, NEW size, NEW first, Enqueue(t, slots, size, first)
        PROVE  written' + Cardinality(Writers') <= MaxWrites
    <2>1. Writers' = Writers \ {t} /\ t \in Writers
      BY <1>6 DEF Enqueue, Goto, Writers, At, TypeOK
    <2>2. Cardinality(Writers') = Cardinality(Writers) - 1
      BY <2>1, FS_RemoveElement
    <2>3. written' = written + 1
      BY <1>6 DEF Enqueue
    <2>4. QED
      BY <1>0, <2>2, <2>3
  <1>7. ASSUME NEW t \in Threads,
               pc[t] = "expired" /\ Goto(t, "writewait") /\ UNCHANGED <<ring, result>>
        PROVE  Writers' = Writers /\ written' = written
    BY <1>7 DEF Goto, Writers, At, ring, TypeOK
  <1>8. QED
    BY <1>1, <1>2, <1>3, <1>4, <1>5, <1>6, <1>7
    DEF Next, Begin, Proceed, WriteEnqueue, WriteGrow, WriteGrowFails

-----------------------------------------------------------------------------
(* What a slot or a reader still holds.                                    *)

(* Filling the next slot leaves the free ones as they were.                *)
LEMMA EnqueueReachable ==
  ASSUME TypeOK, count <= written, OnlyTakenReachable, NEW t \in Threads,
         NEW size \in Nat \ {0}, NEW slots \in [0 .. size - 1 -> Nat],
         NEW first \in 0 .. size - 1, count < size,
         FreeAreTaken(slots, size, first), Enqueue(t, slots, size, first)
  PROVE  OnlyTakenReachable'
  <1> DEFINE last == (first + count) % size
  <1>1. /\ items' = [slots EXCEPT ![last] = written + 1]
        /\ allocated' = size /\ start' = first
        /\ count' = count + 1 /\ written' = written + 1 /\ result' = result
    BY DEF Enqueue
  <1>2. LastTaken' = LastTaken
    BY <1>1 DEF LastTaken, TypeOK
  <1>3. ASSUME NEW i \in count + 1 .. size - 1
        PROVE  items'[(first + i) % size] <= LastTaken
    <2>1. /\ i \in 0 .. size - 1 /\ i \in 0 .. size /\ i \in count .. size - 1
          /\ count \in 0 .. size - 1 /\ i # count
      BY DEF TypeOK
    <2>2. (first + i) % size \in 0 .. size - 1
      BY <2>1, RingIndex
    <2>3. (first + i) % size # last
      BY <2>1, RingDistinct
    <2>4. items'[(first + i) % size] = slots[(first + i) % size]
      BY <1>1, <2>2, <2>3
    <2>5. QED
      BY <2>1, <2>4 DEF FreeAreTaken
  <1>4. FreeAreTaken(items, allocated, start)'
    BY <1>1, <1>2, <1>3 DEF FreeAreTaken
  <1>5. QED
    BY <1>1, <1>2, <1>4 DEF OnlyTakenReachable

(* A read frees one slot, which keeps what was read.                       *)
LEMMA TakeReachable ==
  ASSUME TypeOK, QueueInOrder, OnlyTakenReachable, NEW t \in Threads,
         count > 0, TakeItem(t)
  PROVE  OnlyTakenReachable'
  <1>1. /\ start' \in 0 .. allocated - 1
        /\ start' = IF start + 1 < allocated THEN start + 1 ELSE start + 1 - allocated
    BY TakeItemType
  <1>2. UNCHANGED <<items, allocated, written>> /\ count' = count - 1
    BY DEF TakeItem
  <1>3. LastTaken' = LastTaken + 1 /\ LastTaken \in Nat
    BY <1>2 DEF LastTaken, TypeOK, QueueInOrder
  <1>4. Slot(0) = start /\ items[start] = LastTaken + 1
    <2>1. 0 \in 0 .. allocated /\ 0 \in 0 .. count - 1
      BY DEF TypeOK
    <2>2. Slot(0) = start
      BY <2>1, SlotIndex DEF TypeOK
    <2>3. QED
      BY <2>1, <2>2 DEF QueueInOrder, LastTaken, TypeOK
  <1>5. ASSUME NEW i \in count - 1 .. allocated - 1
        PROVE  items[(start' + i) % allocated] <= LastTaken + 1
    <2>1. i \in 0 .. allocated /\ i + 1 \in 0 .. allocated
      BY DEF TypeOK
    <2>2. (start' + i) % allocated =
            IF start' + i < allocated THEN start' + i ELSE start' + i - allocated
      BY <1>1, <2>1, RingIndex DEF TypeOK
    <2>3. CASE i = allocated - 1
      <3>1. (start' + i) % allocated = start
        BY <1>1, <2>2, <2>3 DEF TypeOK
      <3>2. QED
        BY <1>3, <1>4, <3>1
    <2>4. CASE i # allocated - 1
      <3>1. i + 1 \in count .. allocated - 1
        BY <2>4 DEF TypeOK
      <3>2. /\ Slot(i + 1) \in 0 .. allocated - 1
            /\ Slot(i + 1) = IF start + (i + 1) < allocated THEN start + (i + 1)
                             ELSE start + (i + 1) - allocated
        BY <2>1, SlotIndex
      <3>3. (start' + i) % allocated = Slot(i + 1)
        BY <1>1, <2>1, <2>2, <3>2 DEF TypeOK
      <3>4. items[Slot(i + 1)] <= LastTaken
        BY <3>1 DEF OnlyTakenReachable, FreeAreTaken, Slot
      <3>5. items[Slot(i + 1)] \in Nat
        BY <3>2 DEF TypeOK
      <3>6. QED
        BY <1>3, <3>3, <3>4, <3>5
    <2>5. QED
      BY <2>3, <2>4
  <1>6. ASSUME NEW u \in Threads
        PROVE  result'[u] <= LastTaken + 1
    <2>1. result[u] <= LastTaken /\ result[u] \in Nat
      BY DEF OnlyTakenReachable, TypeOK
    <2>2. result'[u] = IF u = t THEN LastTaken + 1 ELSE result[u]
      BY <1>4 DEF TakeItem, TypeOK
    <2>3. QED
      BY <1>3, <2>1, <2>2
  <1>7. QED
    BY <1>2, <1>3, <1>5, <1>6 DEF OnlyTakenReachable, FreeAreTaken

(* Every step keeps the queued values out of reach.                        *)
LEMMA ReachableStep ==
  TypeOK /\ QueueInOrder /\ OnlyTakenReachable /\ [Next]_vars => OnlyTakenReachable'
  <1> SUFFICES ASSUME TypeOK, QueueInOrder, OnlyTakenReachable, [Next]_vars
               PROVE  OnlyTakenReachable'
    OBVIOUS
  <1>0. count <= written /\ LastTaken \in Nat
    BY DEF QueueInOrder, LastTaken, TypeOK
  <1>1. CASE UNCHANGED <<ring, result>>
    BY <1>1 DEF ring, OnlyTakenReachable, FreeAreTaken, LastTaken
  <1>2. ASSUME NEW t \in Threads, count > 0, TakeItem(t)
        PROVE  OnlyTakenReachable'
    BY <1>2, TakeReachable
  <1>3. ASSUME NEW t \in Threads, PushResult(t)
        PROVE  OnlyTakenReachable'
    BY <1>0, <1>3 DEF PushResult, ring, OnlyTakenReachable, FreeAreTaken, LastTaken,
       TypeOK, Undef
  <1>4. ASSUME NEW t \in Threads, count < allocated, Enqueue(t, items, allocated, start)
        PROVE  OnlyTakenReachable'
    BY <1>0, <1>4, EnqueueReachable DEF OnlyTakenReachable, TypeOK
  <1>5. ASSUME NEW t \in Threads, WriteGrow(t)
        PROVE  OnlyTakenReachable'
    <2>1. /\ 2 * allocated \in Nat \ {0} /\ count < 2 * allocated
          /\ 0 \in 0 .. 2 * allocated - 1
      BY DEF TypeOK
    <2>2. Compacted(2 * allocated) \in [0 .. 2 * allocated - 1 -> Nat]
      BY <2>1, CompactedType
    <2>3. ASSUME NEW i \in count .. 2 * allocated - 1
          PROVE  Compacted(2 * allocated)[(0 + i) % (2 * allocated)] <= LastTaken
      <3>1. i \in 0 .. 2 * allocated - 1 /\ ~(i < count) /\ ~(i < Straight)
        BY DEF Straight, TypeOK
      <3>2. (0 + i) % (2 * allocated) = i
        <4> DEFINE size == 2 * allocated
        <4>1. size \in Nat \ {0} /\ i \in 0 .. size /\ i < size
          BY <2>1, <3>1
        <4>2. 0 \in 0 .. size - 1
          BY <2>1
        <4>3. (0 + i) % size = IF 0 + i < size THEN 0 + i ELSE 0 + i - size
          <5> HIDE DEF size
          <5>1. QED
            BY <4>1, <4>2, RingIndex
        <4> HIDE DEF size
        <4>4. i \in Nat /\ 0 + i = i
          BY <3>1
        <4>5. QED
          BY <4>1, <4>3, <4>4 DEF size
      <3>3. Compacted(2 * allocated)[i] = 0
        BY <3>1 DEF Compacted, Undef
      <3>4. QED
        BY <1>0, <3>2, <3>3
    <2>4. FreeAreTaken(Compacted(2 * allocated), 2 * allocated, 0)
      BY <2>3 DEF FreeAreTaken
    <2>5. QED
      BY <1>0, <1>5, <2>1, <2>2, <2>4, EnqueueReachable DEF WriteGrow
  <1>6. CASE Next
    <2>1. PICK t \in Threads :
            Begin(t) \/ Proceed(t) \/ WriteExpire(t) \/ SpuriousWakeup(t)
      BY <1>6 DEF Next
    <2>2. CASE UNCHANGED <<ring, result>> \/ PushResult(t) \/ WriteGrow(t)
      BY <1>1, <1>3, <1>5, <2>2
    <2>3. CASE ReadTake(t) \/ TryReadTake(t)
      BY <1>2, <2>3 DEF ReadTake, TryReadTake
    <2>4. CASE WriteEnqueue(t) \/ WriteGrowFails(t)
      BY <1>1, <1>4, <2>4 DEF WriteEnqueue, WriteGrowFails
    <2>5. QED
      BY <2>1, <2>2, <2>3, <2>4
      DEF Begin, Proceed, ReadBegin, TryReadBegin, WriteBegin, ReadWait, ReadSignal,
          TryReadWouldBlock, WriteWait, WriteExpire, WriteSignal, SpuriousWakeup
  <1>7. QED
    BY <1>1, <1>6 DEF vars, ring

-----------------------------------------------------------------------------
(* Destruction.                                                            *)

(* A scalar that has left the ring may be destroyed.                       *)
LEMMA DestroyTaken ==
  ASSUME OnlyTakenDestroyed, ~released, released' = released,
         LastTaken' = LastTaken, NEW v \in Nat, v <= LastTaken, LastTaken \in Int,
         Destroy(v)
  PROVE  OnlyTakenDestroyed'
  <1>1. CASE v = Undef
    BY <1>1 DEF OnlyTakenDestroyed, Destroy
  <1>2. CASE v # Undef
    <2>1. destroys' = [destroys EXCEPT ![v] = @ + 1]
      BY <1>2 DEF Destroy
    <2>2. destroys' \in [1 .. MaxWrites -> Nat]
      <3>1. destroys \in [1 .. MaxWrites -> Nat]
        BY DEF OnlyTakenDestroyed
      <3>2. \A n \in 1 .. MaxWrites : destroys'[n] \in Nat
        BY <2>1, <3>1
      <3>3. QED
        BY <2>1, <3>1, <3>2
    <2>3. ASSUME NEW n \in 1 .. MaxWrites, n > LastTaken
          PROVE  destroys'[n] = 0
      BY <2>1, <2>3 DEF OnlyTakenDestroyed
    <2>4. QED
      BY <2>2, <2>3 DEF OnlyTakenDestroyed
  <1>3. QED
    BY <1>1, <1>2

(* Without a destruction, values only ever leave the ring.                 *)
LEMMA NothingDestroyed ==
  ASSUME TypeOK, OnlyTakenDestroyed, [Next]_vars, UNCHANGED <<destroys, released>>
  PROVE  OnlyTakenDestroyed'
  <1>1. LastTaken' >= LastTaken /\ LastTaken \in Int /\ LastTaken' \in Int
    <2>1. CASE UNCHANGED ring
      BY <2>1 DEF ring, LastTaken, TypeOK
    <2>2. ASSUME NEW t \in Threads, TakeItem(t)
          PROVE  LastTaken' >= LastTaken /\ LastTaken \in Int /\ LastTaken' \in Int
      BY <2>2 DEF TakeItem, LastTaken, TypeOK
    <2>3. ASSUME NEW t \in Threads, NEW slots, NEW size, NEW first,
                 Enqueue(t, slots, size, first)
          PROVE  LastTaken' >= LastTaken /\ LastTaken \in Int /\ LastTaken' \in Int
      BY <2>3 DEF Enqueue, LastTaken, TypeOK
    <2>4. QED
      BY <2>1, <2>2, <2>3
      DEF vars, ring, Next, Begin, Proceed, ReadBegin, TryReadBegin, WriteBegin,
          ReadWait, ReadTake, ReadSignal, TryReadTake, TryReadWouldBlock, PushResult,
          WriteEnqueue, WriteWait, WriteExpire, WriteGrow, WriteGrowFails, WriteSignal,
          SpuriousWakeup
  <1>2. QED
    BY <1>1 DEF OnlyTakenDestroyed

(* Every step of the composition is a step of the channel.                 *)
LEMMA OwnershipIsChannel == [ONext]_ovars => [Next]_vars
  BY DEF ONext, ovars, vars, CloneIntoSlot, DestroyResult, NoDestruction, Release,
     Next, Proceed

(* Every step destroys only what has left the ring.                        *)
LEMMA DestroyedStep ==
  TypeOK /\ QueueInOrder /\ OnlyTakenReachable /\ OnlyTakenDestroyed /\ [ONext]_ovars
    => OnlyTakenDestroyed'
  <1> SUFFICES ASSUME TypeOK, QueueInOrder, OnlyTakenReachable, OnlyTakenDestroyed,
                      [ONext]_ovars
               PROVE  OnlyTakenDestroyed'
    OBVIOUS
  <1>0. LastTaken \in Int
    BY DEF LastTaken, TypeOK
  <1>1. CASE UNCHANGED ovars
    BY <1>1, OwnershipIsChannel, NothingDestroyed DEF ovars
  <1>2. ASSUME NEW t \in Threads, ~released, released' = released, CloneIntoSlot(t)
        PROVE  OnlyTakenDestroyed'
    <2>1. Slot(count) \in 0 .. allocated - 1 /\ count \in count .. allocated - 1
      BY <1>2, SlotIndex, SMTT(30) DEF CloneIntoSlot, TypeOK
    <2>2. items[Slot(count)] \in Nat /\ items[Slot(count)] <= LastTaken
      BY <2>1 DEF OnlyTakenReachable, FreeAreTaken, Slot, TypeOK
    <2>3. LastTaken' = LastTaken
      BY <1>2 DEF CloneIntoSlot, WriteEnqueue, WriteGrowFails, Enqueue, ring,
         LastTaken, TypeOK
    <2>4. QED
      BY <1>0, <1>2, <2>2, <2>3, DestroyTaken DEF CloneIntoSlot
  <1>3. ASSUME NEW t \in Threads, ~released, released' = released, DestroyResult(t)
        PROVE  OnlyTakenDestroyed'
    <2>1. result[t] \in Nat /\ result[t] <= LastTaken
      BY DEF OnlyTakenReachable, TypeOK
    <2>2. LastTaken' = LastTaken
      BY <1>3 DEF DestroyResult, PushResult, ring, LastTaken
    <2>3. QED
      BY <1>0, <1>3, <2>1, <2>2, DestroyTaken DEF DestroyResult
  <1>4. ASSUME NEW t \in Threads, released' = released, NoDestruction(t), [ONext]_ovars
        PROVE  OnlyTakenDestroyed'
    BY <1>4, OwnershipIsChannel, NothingDestroyed DEF NoDestruction
  <1>5. CASE Release
    BY <1>5 DEF Release, OnlyTakenDestroyed
  <1>6. QED
    BY <1>1, <1>2, <1>3, <1>4, <1>5 DEF ONext

(* What is queued has not left the ring.                                   *)
LEMMA QueuedNotDestroyed ==
  ASSUME TypeOK, QueueInOrder, BoundKept, OnlyTakenDestroyed
  PROVE  QueuedIntact
  <1> SUFFICES ASSUME ~released, NEW i \in 0 .. count - 1
               PROVE  destroys[items[Slot(i)]] = 0
    BY DEF QueuedIntact
  <1>1. written <= MaxWrites
    BY WritersFinite, ChannelAssumption DEF BoundKept, WritesBegun, Writers, TypeOK
  <1>2. items[Slot(i)] = written - count + 1 + i
    BY DEF QueueInOrder
  <1>3. items[Slot(i)] \in 1 .. MaxWrites /\ items[Slot(i)] > LastTaken
    BY <1>1, <1>2, ChannelAssumption DEF QueueInOrder, LastTaken, TypeOK
  <1>4. QED
    BY <1>3 DEF OnlyTakenDestroyed

(* A value waiting in a channel has not been destroyed, by the writer that *)
(* reuses or grows the ring or by the reader of another value: what        *)
(* anon_scalar_clone and the reading instructions destroy has left the     *)
(* ring.                                                                   *)
THEOREM OwnershipCorrect == OSpec => []QueuedIntact
  <1>1. OInit => Init
    BY DEF OInit
  <1>2. Init => BoundKept /\ OnlyTakenReachable
    <2>1. SUFFICES ASSUME Init PROVE BoundKept /\ OnlyTakenReachable
      OBVIOUS
    <2>2. At({"write", "writewait", "expired"}) = {}
      BY <2>1 DEF Init, At
    <2>3. BoundKept
      BY <2>1, <2>2, FS_EmptySet, ChannelAssumption DEF BoundKept, WritesBegun, Init
    <2>4. ASSUME NEW i \in 0 .. InitialSize - 1
          PROVE  i % InitialSize = i
      BY ChannelAssumption
    <2>5. OnlyTakenReachable
      BY <2>1, <2>4, ChannelAssumption
     , SMTT(30) DEF OnlyTakenReachable, FreeAreTaken, LastTaken, Init, Undef
    <2>6. QED
      BY <2>3, <2>5
  <1>3. OInit => OnlyTakenDestroyed
    BY DEF OInit, OnlyTakenDestroyed
  <1>4. OSpec => Spec
    BY <1>1, OwnershipIsChannel, PTL DEF OSpec, Spec
  <1>5. Spec => [](BoundKept /\ OnlyTakenReachable)
    BY <1>2, BoundStep, ReachableStep, TypeCorrect, OrderCorrect, PTL DEF Spec
  <1>6. OSpec => []OnlyTakenDestroyed
    BY <1>3, <1>4, <1>5, DestroyedStep, TypeCorrect, OrderCorrect, PTL DEF OSpec
  <1>7. QED
    BY <1>4, <1>5, <1>6, QueuedNotDestroyed, TypeCorrect, OrderCorrect, PTL
=============================================================================
