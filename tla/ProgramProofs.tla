----------------------------- MODULE ProgramProofs -----------------------------
(***************************************************************************)
(* Proofs about what a program is made of (Assembler) and about the arrays *)
(* that it works on (Array).  Neither is shared by contexts here.          *)
(*                                                                         *)
(* Array: the contents lie inside the block, the array holds each of its   *)
(* scalars once and no others, and it implements Deque, for blocks, pools, *)
(* arguments and indices of any size.                                      *)
(*                                                                         *)
(* Assembler: whatever the text, the fetch loop takes only instructions    *)
(* for instructions and finds the operands aligned, and what it does is    *)
(* what the lines of the text say (AssemblyLanguage), for programs, words  *)
(* and calls of any length, size and depth.                                *)
(***************************************************************************)
EXTENDS Array, Assembler, SequenceTheorems, WellFoundedInduction, TLAPS


-----------------------------------------------------------------------------
(* nextupow2                                                               *)

(* nextupow2 returns a number greater than its argument, as long as that   *)
(* is no larger than what fits into memory.                                *)
LEMMA NextIsGreater ==
  ASSUME NEW n \in 0 .. MaxAllocated + MaxMany
  PROVE  nextupow2(n) \in Nat /\ nextupow2(n) > n
  <1> DEFINE Above == {p \in Powers : p > n}
  <1> DEFINE Less == OpToRel(<, Nat)
  <1>1. n \in Nat /\ n <= MaxAllocated + MaxMany /\ MaxAllocated + MaxMany \in Nat
    BY ArrayAssumption
  <1>2. Above \subseteq Nat
    BY PowersAssumption
  <1>3. PICK p \in Powers : p > MaxAllocated + MaxMany
    BY PowersAssumption
  <1>4. p \in Nat /\ p \in Above
    BY <1>1, <1>3, PowersAssumption
  <1>5. \A x, y \in Nat : x < y => <<x, y>> \in Less
    BY DEF OpToRel
  <1>6. IsWellFoundedOn(Less, Nat)
    BY NatLessThanWellFounded
  <1>7. \A x \in Above : x \in Powers /\ x > n
    OBVIOUS
  <1>8. \A x \in Powers : x > n => x \in Above
    OBVIOUS
  <1> HIDE DEF Above, Less
  <1>9. PICK m \in Above : \A q \in Above : ~(<<q, m>> \in Less)
    BY <1>2, <1>4, <1>6, WFMin
  <1>10. ASSUME NEW q \in Above
         PROVE  m <= q
    <2>1. q \in Nat /\ m \in Nat /\ ~(<<q, m>> \in Less)
      BY <1>2, <1>9
    <2>2. ~(q < m)
      BY <2>1, <1>5
    <2> QED
      BY <2>1, <2>2
  <1>11. \E r \in Powers : r > n /\ \A q \in Powers : q > n => r <= q
    BY <1>7, <1>8, <1>10
  <1>12. nextupow2(n) \in Powers /\ nextupow2(n) > n
    BY <1>11, Zenon DEF nextupow2
  <1> QED
    BY <1>12, PowersAssumption
-----------------------------------------------------------------------------
(* Blocks                                                                  *)

(* A reservation never shrinks the block, and makes the room asked for.    *)
LEMMA ReservedIsEnough ==
  ASSUME TypeOK, NEW start \in 0 .. allocated, NEW target \in Nat,
         start + target <= MaxAllocated + MaxMany
  PROVE  /\ ReservedSize(start, target) \in Nat
         /\ ReservedSize(start, target) >= allocated
         /\ ReservedSize(start, target) >= start + target
  <1>1. start \in Nat /\ allocated \in Nat
    BY ArrayAssumption DEF TypeOK
  <1>2. CASE allocated - start >= target
    BY <1>1, <1>2 DEF ReservedSize
  <1>3. CASE ~(allocated - start >= target)
    <2>1. start + target \in 0 .. MaxAllocated + MaxMany
      BY <1>1, ArrayAssumption
    <2> DEFINE size == nextupow2(start + target)
    <2>2. size \in Nat /\ size > start + target
      BY <2>1, NextIsGreater
    <2>3. ReservedSize(start, target) = size
      BY <1>3 DEF ReservedSize
    <2> HIDE DEF size
    <2> QED
      BY <1>1, <1>3, <2>2, <2>3
  <1> QED
    BY <1>2, <1>3

(* Growth at the back leaves every slot where it is.                       *)
LEMMA GrownBackKeeps ==
  ASSUME TypeOK, NEW size \in Nat, size >= allocated
  PROVE  /\ GrownBack(size) \in [0 .. size - 1 -> 0 .. made]
         /\ \A i \in 0 .. allocated - 1 : GrownBack(size)[i] = items[i]
  BY DEF TypeOK, GrownBack, NoScalar

(* Growth at the front moves every slot up by n.                           *)
LEMMA GrownFrontMoves ==
  ASSUME TypeOK, NEW n \in Nat
  PROVE  /\ GrownFront(n) \in [0 .. (allocated + n) - 1 -> 0 .. made]
         /\ \A i \in 0 .. allocated - 1 : GrownFront(n)[i + n] = items[i]
  BY DEF TypeOK, GrownFront, NoScalar

-----------------------------------------------------------------------------
(* What the operations do to the contents, and to the references held      *)

Same ==
  /\ made' = made /\ live' = live /\ count' = count
  /\ \A i \in 1 .. count : Contents'[i] = Contents[i]

New(n) == made + 1 .. made + n

Appends(n) ==
  /\ made' = made + n /\ live' = live \cup New(n) /\ count' = count + n
  /\ \A i \in 1 .. count + n :
       Contents'[i] = IF i <= count THEN Contents[i] ELSE made + i - count

Prepends(n) ==
  /\ made' = made + n /\ live' = live \cup New(n) /\ count' = count + n
  /\ \A i \in 1 .. count + n :
       Contents'[i] = IF i <= n THEN made + i ELSE Contents[i - n]

Replaces(n) ==
  /\ made' = made + n /\ live' = (live \ Held) \cup New(n) /\ count' = n
  /\ \A i \in 1 .. n : Contents'[i] = made + i

DropsLast ==
  /\ count > 0
  /\ made' = made /\ live' = live \ {Contents[count]} /\ count' = count - 1
  /\ \A i \in 1 .. count - 1 : Contents'[i] = Contents[i]

DropsFirst ==
  /\ count > 0
  /\ made' = made /\ live' = live \ {Contents[1]} /\ count' = count - 1
  /\ \A i \in 1 .. count - 1 : Contents'[i] = Contents[i + 1]

Empties == made' = made /\ live' = live \ Held /\ count' = 0

(* A scalar in the array, by its slot and by its place.                    *)
LEMMA ContentsAt ==
  ASSUME TypeOK
  PROVE  /\ Contents \in [1 .. count -> 0 .. made]
         /\ \A i \in 1 .. count : Contents[i] = items[first + i - 1]
         /\ Held = {Contents[i] : i \in 1 .. count}
  <1>1. Contents \in [1 .. count -> 0 .. made]
    BY DEF TypeOK, Contents
  <1>2. \A i \in 1 .. count : Contents[i] = items[first + i - 1]
    BY DEF Contents
  <1>3. \A i \in 1 .. count : first + i - 1 \in Stretch
    BY DEF TypeOK, Stretch
  <1>4. \A j \in Stretch : j - first + 1 \in 1 .. count /\ first + (j - first + 1) - 1 = j
    BY DEF TypeOK, Stretch
  <1>5. \A i \in 1 .. count : Contents[i] \in Held
    BY <1>2, <1>3 DEF Held
  <1>6. \A j \in Stretch : items[j] = Contents[j - first + 1]
    BY <1>2, <1>4
  <1>7. Held \subseteq {Contents[i] : i \in 1 .. count}
    BY <1>4, <1>6 DEF Held
  <1> QED
    BY <1>1, <1>2, <1>5, <1>7

(* The contents after n new scalars have been put behind them, in a block  *)
(* where they have not moved.                                              *)
LEMMA PutBehind ==
  ASSUME TypeOK, NEW n \in Nat, NEW size \in Nat,
         NEW slots \in [0 .. size - 1 -> 0 .. made],
         size <= MaxAllocated, first + count + n <= size,
         \A i \in Stretch : slots[i] = items[i],
         items' = Filled(slots, first + count, n),
         allocated' = size, first' = first, count' = count + n,
         Allocated(n, live), status' = status, live \subseteq 1 .. made
  PROVE  TypeOK' /\ Appends(n)
  <1>1. /\ items' \in [0 .. size - 1 -> 0 .. made + n]
        /\ \A i \in 0 .. size - 1 :
             items'[i] = IF i \in first + count .. first + count + n - 1
                           THEN made + 1 + i - (first + count) ELSE slots[i]
    <2>1. made \in Nat /\ first \in Nat /\ count \in Nat
      BY DEF TypeOK
    <2> QED
      BY <2>1 DEF Filled
  <1>2. TypeOK'
    BY <1>1, SMTT(30) DEF TypeOK, Allocated
  <1>3. \A i \in 1 .. count + n : Contents'[i] = items'[first + i - 1]
    BY DEF Contents
  <1>4. ASSUME NEW i \in 1 .. count
        PROVE  Contents'[i] = Contents[i]
    <2>1. first + i - 1 \in Stretch /\ first + i - 1 \in 0 .. size - 1
          /\ first + i - 1 \notin first + count .. first + count + n - 1
      BY DEF TypeOK, Stretch
    <2>2. items'[first + i - 1] = items[first + i - 1]
      BY <1>1, <2>1
    <2>3. i \in 1 .. count + n
      BY DEF TypeOK
    <2> QED
      BY <1>3, <2>2, <2>3, ContentsAt
  <1>5. ASSUME NEW i \in 1 .. count + n, i > count
        PROVE  Contents'[i] = made + i - count
    <2>1. first + i - 1 \in 0 .. size - 1
          /\ first + i - 1 \in first + count .. first + count + n - 1
      BY <1>5 DEF TypeOK
    <2>2. items'[first + i - 1] = made + 1 + (first + i - 1) - (first + count)
      BY <1>1, <2>1
    <2> QED
      BY <1>3, <1>5, <2>2 DEF TypeOK
  <1>6. \A i \in 1 .. count + n :
          Contents'[i] = IF i <= count THEN Contents[i] ELSE made + i - count
    BY <1>4, <1>5 DEF TypeOK
  <1> QED
    BY <1>2, <1>6 DEF Appends, Allocated, New

(* The contents after n new scalars have been put before them, in a block  *)
(* where they begin at "base".                                             *)
LEMMA PutBefore ==
  ASSUME TypeOK, NEW n \in Nat, NEW size \in Nat,
         NEW slots \in [0 .. size - 1 -> 0 .. made],
         NEW base \in Nat, NEW start \in Nat,
         size <= MaxAllocated, base + count <= size,
         count = 0 \/ start + n = base,
         start + n + count <= size,
         \A k \in 0 .. count - 1 : slots[base + k] = items[first + k],
         items' = Filled(slots, start, n),
         allocated' = size, first' = start, count' = count + n,
         Allocated(n, live), status' = status, live \subseteq 1 .. made
  PROVE  TypeOK' /\ Prepends(n)
  <1>1. /\ items' \in [0 .. size - 1 -> 0 .. made + n]
        /\ \A i \in 0 .. size - 1 :
             items'[i] = IF i \in start .. start + n - 1
                           THEN made + 1 + i - start ELSE slots[i]
    <2>1. made \in Nat
      BY DEF TypeOK
    <2> QED
      BY <2>1 DEF Filled
  <1>2. TypeOK'
    BY <1>1, SMTT(30) DEF TypeOK, Allocated
  <1>3. \A i \in 1 .. count + n : Contents'[i] = items'[start + i - 1]
    BY DEF Contents
  <1>4. ASSUME NEW i \in 1 .. count + n, i <= n
        PROVE  Contents'[i] = made + i
    <2>1. start + i - 1 \in 0 .. size - 1 /\ start + i - 1 \in start .. start + n - 1
      BY <1>4 DEF TypeOK
    <2>2. items'[start + i - 1] = made + 1 + (start + i - 1) - start
      BY <1>1, <2>1
    <2> QED
      BY <1>3, <1>4, <2>2 DEF TypeOK
  <1>5. ASSUME NEW i \in 1 .. count + n, i > n
        PROVE  Contents'[i] = Contents[i - n]
    <2>1. count > 0 /\ i - n \in 1 .. count /\ i - n - 1 \in 0 .. count - 1
      BY <1>5 DEF TypeOK
    <2>2. /\ start + i - 1 \in 0 .. size - 1
          /\ start + i - 1 \notin start .. start + n - 1
          /\ start + i - 1 = base + (i - n - 1)
      BY <1>5, <2>1 DEF TypeOK
    <2>3. items'[start + i - 1] = items[first + (i - n - 1)]
      BY <1>1, <2>1, <2>2
    <2>4. first + (i - n - 1) = first + (i - n) - 1
      BY <2>1 DEF TypeOK
    <2> QED
      BY <1>3, <2>1, <2>3, <2>4, ContentsAt
  <1>6. \A i \in 1 .. count + n :
          Contents'[i] = IF i <= n THEN made + i ELSE Contents[i - n]
    BY <1>4, <1>5 DEF TypeOK
  <1> QED
    BY <1>2, <1>6 DEF Prepends, Allocated, New

(* The same contents in a block that is no smaller.                        *)
LEMMA Moved ==
  ASSUME TypeOK, NEW size \in Nat, NEW slots \in [0 .. size - 1 -> 0 .. made],
         NEW base \in Nat, size <= MaxAllocated, base + count <= size,
         \A k \in 0 .. count - 1 : slots[base + k] = items[first + k],
         items' = slots, allocated' = size, first' = base, count' = count,
         made' = made, live' = live, status' = status
  PROVE  TypeOK' /\ Same
  <1>1. TypeOK'
    BY DEF TypeOK
  <1>2. ASSUME NEW i \in 1 .. count
        PROVE  Contents'[i] = Contents[i]
    <2>1. Contents'[i] = slots[base + i - 1] /\ i - 1 \in 0 .. count - 1
      BY DEF Contents, TypeOK
    <2>2. base + i - 1 = base + (i - 1) /\ first + i - 1 = first + (i - 1)
      BY DEF TypeOK
    <2> QED
      BY <2>1, <2>2, ContentsAt
  <1> QED
    BY <1>1, <1>2 DEF Same

-----------------------------------------------------------------------------
(* The instructions                                                        *)

(* Nothing of the layout changes.                                          *)
LEMMA Untouched ==
  ASSUME TypeOK, UNCHANGED <<layout, made, live>>,
         status' \in {"ok", "wild", "destroyed"}
  PROVE  TypeOK' /\ Same
  BY DEF TypeOK, Same, layout, Contents

(* ARPUSH appends, or memory is short and the contents stay.               *)
LEMMA PushStep ==
  ASSUME TypeOK, NEW n \in 1 .. MaxMany, ARPUSH(n)
  PROVE  TypeOK' /\ (Appends(n) \/ Same) /\ result' = <<>>
  <1> DEFINE size == ReservedSize(first, count + n)
  <1>1. /\ n \in Nat /\ first \in 0 .. allocated /\ count + n \in Nat
        /\ first + (count + n) <= MaxAllocated + MaxMany
        /\ live \subseteq 1 .. made
        /\ allocated \in Nat /\ first \in Nat /\ count \in Nat
        /\ first + count <= allocated
    BY ArrayAssumption DEF TypeOK
  <1>2. size \in Nat /\ size >= allocated /\ size >= first + (count + n)
    BY <1>1, ReservedIsEnough
  <1>3. GrownBack(size) \in [0 .. size - 1 -> 0 .. made]
        /\ \A i \in 0 .. allocated - 1 : GrownBack(size)[i] = items[i]
    BY <1>2, GrownBackKeeps
  <1>4. \A i \in Stretch : GrownBack(size)[i] = items[i]
    BY <1>1, <1>3 DEF Stretch
  <1>5. \A k \in 0 .. count - 1 : GrownBack(size)[first + k] = items[first + k]
    BY <1>1, <1>3
  <1>6. array_push(n) /\ result' = <<>>
    BY DEF ARPUSH
  <1> HIDE DEF size
  <1>7. CASE UNCHANGED <<layout, made, live, status>>
    BY <1>6, <1>7, Untouched DEF TypeOK
  <1>8. CASE size <= MaxAllocated /\ allocated' = size /\ Available(n)
             /\ items' = Filled(GrownBack(size), first + count, n)
             /\ count' = count + n /\ Allocated(n, live) /\ UNCHANGED <<first, status>>
    <2>1. first + count + n <= size
      BY <1>1, <1>2
    <2> QED
      BY <1>1, <1>2, <1>3, <1>4, <1>6, <1>8, <2>1, PutBehind
  <1>9. CASE size <= MaxAllocated /\ allocated' = size
             /\ items' = GrownBack(size) /\ UNCHANGED <<count, made, live, first, status>>
    <2>1. first + count <= size
      BY <1>1, <1>2
    <2> QED
      BY <1>1, <1>2, <1>3, <1>5, <1>6, <1>9, <2>1, Moved
  <1> QED
    BY <1>6, <1>7, <1>8, <1>9 DEF array_push, size

(* ARUNSHFT once there is room, or failed to be: "slots" holds the         *)
(* contents from "base" on.                                                *)
LEMMA UnshiftIntoStep ==
  ASSUME TypeOK, NEW n \in 1 .. MaxMany, NEW size \in Nat, size <= MaxAllocated,
         NEW slots \in [0 .. size - 1 -> 0 .. made],
         NEW base \in Nat, base + count <= size,
         \A k \in 0 .. count - 1 : slots[base + k] = items[first + k],
         UnshiftInto(slots, size, base, n), status = "ok"
  PROVE  /\ TypeOK' /\ (Prepends(n) \/ Same) /\ (status' = "wild" => Same)
         /\ Available(n) /\ Inside(slots, IF count = 0 THEN 0 ELSE base - n, n) =>
              Prepends(n) /\ status' = "ok"
  <1> DEFINE start == IF count = 0 THEN 0 ELSE base - n
  <1>1. n \in Nat /\ count \in Nat /\ live \subseteq 1 .. made
    BY ArrayAssumption DEF TypeOK
  <1>2. CASE /\ ~Available(n)
             /\ items' = slots /\ allocated' = size /\ first' = base
             /\ UNCHANGED <<count, made, live, status>>
    BY <1>1, <1>2, Moved
  <1>3. CASE /\ Inside(slots, start, n)
             /\ items' = Filled(slots, start, n)
             /\ allocated' = size /\ first' = start /\ count' = count + n
             /\ Allocated(n, live) /\ UNCHANGED status
    <2>1. start \in Nat /\ start + n <= size
      <3>1. DOMAIN slots = 0 .. size - 1
        OBVIOUS
      <3>2. start \in Int /\ start >= 0 /\ start .. start + n - 1 \subseteq 0 .. size - 1
        BY <1>1, <1>3, <3>1 DEF Inside
      <3> HIDE DEF start
      <3>3. n >= 1 /\ start + n - 1 \in start .. start + n - 1
        BY <1>1, <3>2
      <3>4. start + n - 1 \in 0 .. size - 1
        BY <3>2, <3>3
      <3> QED
        BY <1>1, <3>2, <3>4
    <2>2. count = 0 \/ start + n = base
      BY <1>1
    <2>3. start + n + count <= size
      BY <1>1, <2>1, <2>2
    <2> HIDE DEF start
    <2> QED
      BY <1>1, <1>3, <2>1, <2>2, <2>3, PutBefore
  <1>4. CASE ~Inside(slots, start, n) /\ GoesWild
    BY <1>4, Untouched DEF GoesWild
  <1> QED
    BY <1>2, <1>3, <1>4 DEF UnshiftInto

(* ARUNSHFT prepends, or memory is short and the contents stay.            *)
LEMMA UnshiftStep ==
  ASSUME TypeOK, NEW n \in 1 .. MaxMany, ARUNSHFT(n)
  PROVE  /\ TypeOK'
         /\ \/ Prepends(n) /\ result' = <<>>
            \/ Same /\ (result' = <<>> \/ result' = result)
  <1>1. /\ n \in Nat /\ first \in 0 .. allocated
        /\ first + n <= MaxAllocated + MaxMany /\ n \in 0 .. MaxAllocated + MaxMany
        /\ allocated \in Nat /\ first \in Nat /\ count \in Nat
        /\ first + count <= allocated /\ allocated <= MaxAllocated
        /\ items \in [0 .. allocated - 1 -> 0 .. made]
        /\ MaxAllocated \in Nat
    BY ArrayAssumption DEF TypeOK
  <1>2. array_unshift(n) /\ status = "ok"
        /\ result' = IF status' = "wild" THEN result ELSE <<>>
    BY DEF ARUNSHFT
  <1>3. \A k \in 0 .. count - 1 : items[first + k] = items[first + k]
    OBVIOUS
  <1>4. ASSUME UnshiftInto(items, allocated, first, n)
        PROVE  TypeOK' /\ (Prepends(n) \/ Same) /\ (status' = "wild" => Same)
    BY <1>1, <1>2, <1>4, UnshiftIntoStep
  <1>5. ASSUME NEW size, size = ReservedSize(first, n), size <= MaxAllocated,
               UnshiftInto(GrownBack(size), size, first, n)
        PROVE  TypeOK' /\ (Prepends(n) \/ Same) /\ (status' = "wild" => Same)
    <2>1. size \in Nat /\ size >= allocated
      BY <1>1, <1>5, ReservedIsEnough
    <2>2. GrownBack(size) \in [0 .. size - 1 -> 0 .. made]
          /\ \A i \in 0 .. allocated - 1 : GrownBack(size)[i] = items[i]
      BY <2>1, GrownBackKeeps
    <2>3. \A k \in 0 .. count - 1 : GrownBack(size)[first + k] = items[first + k]
      BY <1>1, <2>2
    <2>4. first + count <= size
      BY <1>1, <2>1
    <2> QED
      BY <1>1, <1>2, <1>5, <2>1, <2>2, <2>3, <2>4, UnshiftIntoStep
  <1>6. ASSUME NEW more, more = nextupow2(n), allocated + more <= MaxAllocated,
               UnshiftInto(GrownFront(more), allocated + more, first + more, n)
        PROVE  TypeOK' /\ (Prepends(n) \/ Same) /\ (status' = "wild" => Same)
    <2> DEFINE grown == GrownFront(more)
               size == allocated + more
               base == first + more
    <2>1. more \in Nat
      BY <1>1, <1>6, NextIsGreater
    <2>2. GrownFront(more) \in [0 .. (allocated + more) - 1 -> 0 .. made]
          /\ \A i \in 0 .. allocated - 1 : GrownFront(more)[i + more] = items[i]
      BY <2>1, GrownFrontMoves
    <2>3. \A k \in 0 .. count - 1 :
            first + k \in 0 .. allocated - 1 /\ (first + k) + more = (first + more) + k
      BY <1>1, <2>1
    <2>4. \A k \in 0 .. count - 1 : GrownFront(more)[(first + more) + k] = items[first + k]
      BY <2>2, <2>3
    <2>5. size \in Nat /\ base \in Nat /\ base + count <= size
      BY <1>1, <2>1
    <2>6. grown \in [0 .. size - 1 -> 0 .. made]
      BY <2>2, Zenon
    <2>7. size <= MaxAllocated
      BY <1>6
    <2>8. \A k \in 0 .. count - 1 : grown[base + k] = items[first + k]
      BY <2>4
    <2>9. UnshiftInto(grown, size, base, n)
      BY <1>6, Zenon
    <2> HIDE DEF grown, size, base
    <2> QED
      BY <1>2, <2>5, <2>6, <2>7, <2>8, <2>9, UnshiftIntoStep
  <1>7. TypeOK' /\ (Prepends(n) \/ Same) /\ (status' = "wild" => Same)
    BY <1>2, <1>4, <1>5, <1>6
       DEF array_unshift, UnshiftEmpty, UnshiftGrows, UnshiftFits
  <1> QED
    BY <1>2, <1>7

(* Slots that a block has                                                  *)
LEMMA IsInside ==
  ASSUME NEW size \in Nat, NEW X, NEW slots \in [0 .. size - 1 -> X],
         NEW start \in Nat, NEW n \in Nat, start + n <= size
  PROVE  Inside(slots, start, n)
  BY DEF Inside

(* ARUNSHFT prepends if memory is not short.                               *)
LEMMA UnshiftServed ==
  ASSUME TypeOK, NEW n \in 1 .. MaxMany, ARUNSHFT(n), FrontFits(n)
  PROVE  Prepends(n) /\ result' = <<>>
  <1>1. /\ n \in Nat /\ first \in 0 .. allocated
        /\ first + n <= MaxAllocated + MaxMany /\ n \in 0 .. MaxAllocated + MaxMany
        /\ allocated \in Nat /\ first \in Nat /\ count \in Nat
        /\ first + count <= allocated /\ allocated <= MaxAllocated
        /\ items \in [0 .. allocated - 1 -> 0 .. made]
        /\ MaxAllocated \in Nat
    BY ArrayAssumption DEF TypeOK
  <1>2. array_unshift(n) /\ status = "ok"
        /\ result' = IF status' = "wild" THEN result ELSE <<>>
    BY DEF ARUNSHFT
  <1>3. Available(n)
    BY DEF FrontFits
  <1>4. CASE UnshiftEmpty(n)
    <2> DEFINE size == ReservedSize(first, n)
    <2>1. /\ size \in Nat /\ size >= allocated /\ size >= first + n
          /\ size <= MaxAllocated /\ count = 0
      BY <1>1, <1>4, ReservedIsEnough DEF FrontFits, UnshiftEmpty
    <2>2. GrownBack(size) \in [0 .. size - 1 -> 0 .. made]
      BY <2>1, GrownBackKeeps
    <2>3. UnshiftInto(GrownBack(size), size, first, n)
      BY <1>4, <2>1 DEF UnshiftEmpty
    <2> HIDE DEF size
    <2>4. Inside(GrownBack(size), 0, n)
      <3>1. 0 \in Nat /\ 0 + n <= size
        BY <1>1, <2>1
      <3> QED
        BY <1>1, <2>1, <2>2, <3>1, IsInside
    <2>5. first + count <= size /\ \A k \in 0 .. count - 1 : GrownBack(size)[first + k] = items[first + k]
      BY <1>1, <2>1
    <2> QED
      BY <1>1, <1>2, <1>3, <2>1, <2>2, <2>3, <2>4, <2>5, UnshiftIntoStep
  <1>5. CASE UnshiftGrows(n)
    <2>1. PICK more : more = nextupow2(n)
      OBVIOUS
    <2>2. PICK slots, size, base :
            slots = GrownFront(more) /\ size = allocated + more /\ base = first + more
      OBVIOUS
    <2>3. more \in Nat /\ more > n
      BY <1>1, <2>1, NextIsGreater
    <2>9. count > 0 /\ first <= n
      BY <1>5 DEF UnshiftGrows
    <2>10. allocated + more <= MaxAllocated
      BY <2>1, <2>9 DEF FrontFits
    <2>4. size \in Nat /\ base \in Nat /\ base + count <= size /\ size <= MaxAllocated /\ count > 0
      BY <1>1, <2>2, <2>3, <2>9, <2>10
    <2>5. /\ slots \in [0 .. size - 1 -> 0 .. made]
          /\ \A i \in 0 .. allocated - 1 : slots[i + more] = items[i]
      BY <2>2, <2>3, GrownFrontMoves
    <2>6. \A k \in 0 .. count - 1 : slots[base + k] = items[first + k]
      <3>1. \A k \in 0 .. count - 1 : first + k \in 0 .. allocated - 1 /\ (first + k) + more = base + k
        BY <1>1, <2>2, <2>3
      <3> QED
        BY <2>5, <3>1
    <2>7. UnshiftInto(slots, size, base, n)
      BY <1>5, <2>1, <2>2, <2>10, Zenon DEF UnshiftGrows
    <2>8. Inside(slots, IF count = 0 THEN 0 ELSE base - n, n)
      <3>1. base - n \in Nat /\ (base - n) + n <= size
        BY <1>1, <2>2, <2>3, <2>4
      <3>2. Inside(slots, base - n, n)
        BY <1>1, <2>4, <2>5, <3>1, IsInside
      <3> QED
        BY <1>1, <2>9, <3>2
    <2>11. status = "ok"
      BY <1>2
    <2>12. Prepends(n) /\ status' = "ok"
      BY <1>3, <2>4, <2>5, <2>6, <2>7, <2>8, <2>11, UnshiftIntoStep
    <2> QED
      BY <1>2, <2>12
  <1>6. CASE UnshiftFits(n)
    <2>1. count > 0 /\ first > n /\ UnshiftInto(items, allocated, first, n)
      BY <1>6 DEF UnshiftFits
    <2>2. Inside(items, IF count = 0 THEN 0 ELSE first - n, n)
      <3>1. first - n \in Nat /\ (first - n) + n <= allocated
        BY <1>1, <2>1
      <3>2. Inside(items, first - n, n)
        BY <1>1, <3>1, IsInside
      <3> QED
        BY <1>1, <2>1, <3>2
    <2>3. \A k \in 0 .. count - 1 : items[first + k] = items[first + k]
      OBVIOUS
    <2>4. status = "ok"
      BY <1>2
    <2>5. Prepends(n) /\ status' = "ok"
      BY <1>1, <1>3, <2>1, <2>2, <2>3, <2>4, UnshiftIntoStep
    <2> QED
      BY <1>2, <2>5
  <1> QED
    BY <1>2, <1>4, <1>5, <1>6 DEF array_unshift

(* ARPUSH appends if memory is not short.                                  *)
LEMMA PushServed ==
  ASSUME TypeOK, NEW n \in 1 .. MaxMany, ARPUSH(n), BackFits(n)
  PROVE  Appends(n) /\ result' = <<>>
  <1>1. (Appends(n) \/ Same) /\ result' = <<>>
    BY PushStep
  <1>5. /\ n \in Nat /\ first \in 0 .. allocated /\ count + n \in Nat
        /\ first + (count + n) <= MaxAllocated + MaxMany /\ MaxAllocated \in Nat
    BY ArrayAssumption DEF TypeOK
  <1>6. ReservedSize(first, count + n) \in Nat
    BY <1>5, ReservedIsEnough
  <1>7. ReservedSize(first, count + n) <= MaxAllocated /\ Available(n) /\ array_push(n)
    BY DEF ARPUSH, BackFits
  <1>8. ~(ReservedSize(first, count + n) > MaxAllocated)
    BY <1>5, <1>6, <1>7
  <1>2. made' = made + n
    BY <1>7, <1>8, Zenon DEF array_push, Allocated
  <1>3. n \in Nat /\ n > 0 /\ made \in Nat
    BY ArrayAssumption DEF TypeOK
  <1>4. Same => made' = made
    BY DEF Same
  <1> QED
    BY <1>1, <1>2, <1>3, <1>4

(* ARFILL replaces the contents, or an assertion fails.                    *)
LEMMA FillStep ==
  ASSUME TypeOK, NEW n \in 0 .. MaxMany, ARFILL(n)
  PROVE  /\ TypeOK'
         /\ \/ n > 0 /\ Replaces(n) /\ result' = <<>>
            \/ Same /\ result' = result
         /\ n > 0 /\ BlockFits(n) => Replaces(n) /\ result' = <<>>
  <1> DEFINE size == ReservedSize(0, n)
             room == IF size <= MaxAllocated THEN size ELSE allocated
             clear == [i \in 0 .. room - 1 |-> NoScalar]
  <1>1. /\ n \in Nat /\ allocated \in Nat /\ made \in Nat /\ MaxAllocated \in Nat
        /\ allocated <= MaxAllocated /\ 0 \in 0 .. allocated
        /\ 0 + n <= MaxAllocated + MaxMany /\ live \subseteq 1 .. made
    BY ArrayAssumption DEF TypeOK
  <1>2. size \in Nat
    BY <1>1, ReservedIsEnough
  <1>3. room \in Nat /\ room <= MaxAllocated
    BY <1>1, <1>2
  <1>4. array_fill(n) /\ status = "ok"
        /\ result' = IF status' = "wild" THEN result ELSE <<>>
    BY DEF ARFILL
  <1>5. CASE GoesWild /\ (n = 0 \/ ~Available(n) \/ ~Inside(clear, 0, n))
    <2>1. TypeOK' /\ Same /\ result' = result
      BY <1>4, <1>5, Untouched DEF GoesWild
    <2>2. n > 0 /\ BlockFits(n) => FALSE
      <3> SUFFICES ASSUME n > 0, BlockFits(n)
                   PROVE  FALSE
        OBVIOUS
      <3>1. size \in Nat /\ size >= n /\ size <= MaxAllocated
        BY <1>1, <1>2, ReservedIsEnough DEF BlockFits
      <3>2. room = size
        BY <3>1
      <3> HIDE DEF room
      <3>3. clear \in [0 .. room - 1 -> {NoScalar}] /\ 0 \in Nat /\ 0 + n <= room
        BY <1>1, <3>1, <3>2
      <3> HIDE DEF clear
      <3>4. Inside(clear, 0, n)
        BY <1>1, <1>3, <3>3, IsInside
      <3> QED
        BY <1>5, <3>4 DEF BlockFits
    <2> QED
      BY <2>1, <2>2
  <1>6. CASE /\ n > 0 /\ Inside(clear, 0, n) /\ items' = Filled(clear, 0, n)
             /\ allocated' = room /\ first' = 0 /\ count' = n
             /\ Allocated(n, live \ Held) /\ UNCHANGED status
    <2> HIDE DEF room
    <2>1. clear \in [0 .. room - 1 -> 0 .. made] /\ DOMAIN clear = 0 .. room - 1
      BY <1>1 DEF NoScalar
    <2> HIDE DEF clear
    <2>2. 0 .. n - 1 \subseteq 0 .. room - 1
      BY <1>1, <1>6, <2>1 DEF Inside
    <2>3. n - 1 \in 0 .. n - 1
      BY <1>1, <1>6
    <2>4. n <= room
      BY <1>1, <1>3, <2>2, <2>3
    <2>5. /\ items' \in [0 .. room - 1 -> 0 .. made + n]
          /\ \A i \in 0 .. n - 1 : items'[i] = made + 1 + i
      BY <1>1, <1>3, <1>6, <2>1, <2>4, SMTT(30) DEF Filled
    <2>6. TypeOK'
      <3>1. made' = made + n /\ live' = (live \ Held) \cup (made + 1 .. made + n)
        BY <1>6 DEF Allocated
      <3>2. ASSUME NEW x \in live'
            PROVE  x \in 1 .. made + n
        <4>1. x \in 1 .. made \/ x \in made + 1 .. made + n
          BY <1>1, <3>1
        <4> QED
          BY <1>1, <4>1
      <3>3. allocated' \in 0 .. MaxAllocated /\ first' + count' <= allocated'
        BY <1>1, <1>3, <1>6, <2>4
      <3>4. items' \in [0 .. allocated' - 1 -> 0 .. made']
        BY <1>6, <2>5, <3>1
      <3>5. first' \in Nat /\ count' \in Nat /\ made' \in Nat /\ status' = "ok"
        BY <1>1, <1>4, <1>6, <3>1
      <3>6. live' \subseteq 1 .. made'
        BY <3>1, <3>2
      <3> QED
        BY <3>3, <3>4, <3>5, <3>6 DEF TypeOK
    <2>7. ASSUME NEW i \in 1 .. n
          PROVE  Contents'[i] = made + i
      <3>1. Contents'[i] = items'[0 + i - 1] /\ i - 1 \in 0 .. n - 1
        BY <1>1, <1>6 DEF Contents
      <3> QED
        BY <1>1, <2>5, <3>1
    <2>8. result' = <<>>
      BY <1>4, <1>6
    <2> QED
      BY <1>6, <2>6, <2>7, <2>8 DEF Replaces, Allocated, New
  <1> QED
    BY <1>4, <1>5, <1>6 DEF array_fill

(* ARPOP takes the last scalar, or there is none.                          *)
LEMMA PopStep ==
  ASSUME TypeOK, ARPOP
  PROVE  /\ TypeOK'
         /\ \/ DropsLast /\ result' = <<Contents[count]>>
            \/ Same /\ count = 0 /\ result' = <<0>>
  <1>1. count \in Nat /\ first \in Nat /\ allocated \in Nat /\ MaxAllocated \in Nat
    BY ArrayAssumption DEF TypeOK
  <1>2. CASE TakeNothing
    BY <1>2, Untouched DEF TakeNothing, TypeOK, NoScalar
  <1>3. CASE array_pop
    <2>1. /\ count > 0 /\ count' = count - 1 /\ items' = items /\ first' = first
          /\ allocated' = allocated /\ made' = made /\ status' = status
          /\ live' = live \ {items[first + count - 1]}
          /\ result' = <<items[first + count - 1]>>
      BY <1>3 DEF array_pop
    <2>2. TypeOK'
      <3>1. first' \in Nat /\ count' \in Nat /\ first' + count' <= allocated'
        BY <1>1, <2>1 DEF TypeOK
      <3>2. live' \subseteq 1 .. made' /\ made' \in Nat
        BY <2>1 DEF TypeOK
      <3>3. items' \in [0 .. allocated' - 1 -> 0 .. made']
        BY <2>1 DEF TypeOK
      <3>4. allocated' \in 0 .. MaxAllocated /\ status' \in {"ok", "wild", "destroyed"}
        BY <2>1 DEF TypeOK
      <3> QED
        BY <3>1, <3>2, <3>3, <3>4 DEF TypeOK
    <2>3. Contents[count] = items[first + count - 1]
      BY <1>1, <2>1, ContentsAt
    <2>4. ASSUME NEW i \in 1 .. count - 1
          PROVE  Contents'[i] = Contents[i]
      BY <1>1, <2>1 DEF Contents
    <2> QED
      BY <2>1, <2>2, <2>3, <2>4 DEF DropsLast
  <1> QED
    BY <1>2, <1>3 DEF ARPOP

(* ARSHFT takes the first scalar, or there is none.                        *)
LEMMA ShiftStep ==
  ASSUME TypeOK, ARSHFT
  PROVE  /\ TypeOK'
         /\ \/ DropsFirst /\ result' = <<Contents[1]>>
            \/ Same /\ count = 0 /\ result' = <<0>>
  <1>1. count \in Nat /\ first \in Nat /\ allocated \in Nat /\ MaxAllocated \in Nat
    BY ArrayAssumption DEF TypeOK
  <1>2. CASE TakeNothing
    BY <1>2, Untouched DEF TakeNothing, TypeOK, NoScalar
  <1>3. CASE array_shift
    <2>1. /\ count > 0 /\ count' = count - 1 /\ items' = items /\ first' = first + 1
          /\ allocated' = allocated /\ made' = made /\ status' = status
          /\ live' = live \ {items[first]}
          /\ result' = <<items[first]>>
      BY <1>3 DEF array_shift
    <2>2. TypeOK'
      <3>1. first' \in Nat /\ count' \in Nat /\ first' + count' <= allocated'
        BY <1>1, <2>1 DEF TypeOK
      <3>2. live' \subseteq 1 .. made' /\ made' \in Nat
        BY <2>1 DEF TypeOK
      <3>3. items' \in [0 .. allocated' - 1 -> 0 .. made']
        BY <2>1 DEF TypeOK
      <3>4. allocated' \in 0 .. MaxAllocated /\ status' \in {"ok", "wild", "destroyed"}
        BY <2>1 DEF TypeOK
      <3> QED
        BY <3>1, <3>2, <3>3, <3>4 DEF TypeOK
    <2>3. Contents[1] = items[first]
      <3>1. 1 \in 1 .. count /\ first + 1 - 1 = first
        BY <1>1, <2>1
      <3> QED
        BY <3>1, ContentsAt
    <2>4. ASSUME NEW i \in 1 .. count - 1
          PROVE  Contents'[i] = Contents[i + 1]
      <3>1. i + 1 \in 1 .. count /\ first + 1 + i - 1 = first + (i + 1) - 1
        BY <1>1, <2>1
      <3>2. Contents'[i] = items[first + 1 + i - 1]
        BY <2>1 DEF Contents
      <3> QED
        BY <3>1, <3>2, ContentsAt
    <2> QED
      BY <2>1, <2>2, <2>3, <2>4 DEF DropsFirst
  <1> QED
    BY <1>2, <1>3 DEF ARSHFT

(* ARLEN, ARLIST, ARINDEX and ARSLICE change nothing in the array.         *)
LEMMA LookStep ==
  ASSUME TypeOK,
         \/ ARLEN \/ ARLIST
         \/ \E i \in Int : ARINDEX(i)
         \/ \E indices \in Seq(Int) : ARSLICE(indices)
  PROVE  TypeOK' /\ Same
  <1>1. UNCHANGED <<layout, made, live>> /\ status' \in {"ok", "wild"}
    BY Zenon DEF ARLEN, ARLIST, ARINDEX, array_item_at, ARSLICE, array_slice, GoesWild
  <1> QED
    BY <1>1, Untouched

(* The end of the array releases what it holds.                            *)
LEMMA DestroyStep ==
  ASSUME TypeOK, Destroy
  PROVE  TypeOK' /\ Empties /\ result' = result
  <1>1. /\ live' = live \ Held /\ items' = <<>> /\ allocated' = 0 /\ first' = 0
        /\ count' = 0 /\ made' = made /\ result' = result /\ status' = "destroyed"
    BY DEF Destroy
  <1>2. items' \in [0 .. 0 - 1 -> 0 .. made]
    BY <1>1
  <1>3. live' \subseteq 1 .. made /\ made \in Nat /\ MaxAllocated \in Nat
    BY <1>1, ArrayAssumption DEF TypeOK
  <1>4. TypeOK'
    BY <1>1, <1>2, <1>3 DEF TypeOK
  <1> QED
    BY <1>1, <1>4 DEF Empties

-----------------------------------------------------------------------------
(* Types and references                                                    *)

(* What an instruction may do to the array.                                *)
Effect ==
  \/ Same \/ DropsLast \/ DropsFirst \/ Empties
  \/ \E n \in 1 .. MaxMany : Appends(n) \/ Prepends(n) \/ Replaces(n)

(* Every step keeps the types and has one of these effects.                *)
LEMMA StepEffect ==
  ASSUME TypeOK, [Next]_vars
  PROVE  TypeOK' /\ Effect
  <1>1. CASE \E n \in 1 .. MaxMany : ARPUSH(n)
    BY <1>1, PushStep DEF Effect
  <1>2. CASE \E n \in 1 .. MaxMany : ARUNSHFT(n)
    BY <1>2, UnshiftStep DEF Effect
  <1>3. CASE \E n \in 0 .. MaxMany : ARFILL(n)
    <2>1. PICK n \in 0 .. MaxMany : ARFILL(n)
      BY <1>3
    <2>2. TypeOK' /\ ((n > 0 /\ Replaces(n)) \/ Same)
      BY <2>1, FillStep
    <2>3. n > 0 => n \in 1 .. MaxMany
      BY ArrayAssumption
    <2> QED
      BY <2>2, <2>3 DEF Effect
  <1>4. CASE ARPOP
    BY <1>4, PopStep DEF Effect
  <1>5. CASE ARSHFT
    BY <1>5, ShiftStep DEF Effect
  <1>6. CASE \/ ARLEN \/ ARLIST
             \/ \E i \in Int : ARINDEX(i)
             \/ \E indices \in Seq(Int) : ARSLICE(indices)
    BY <1>6, LookStep DEF Effect
  <1>7. CASE Destroy
    BY <1>7, DestroyStep DEF Effect
  <1>8. CASE UNCHANGED vars
    BY <1>8, Untouched DEF vars, layout, TypeOK, Effect
  <1>9. \A indices \in IndexLists :
          indices \in Seq(Int) /\ (Len(indices) = 1 => indices[1] \in Int)
    BY ArrayAssumption
  <1> QED
    BY <1>1, <1>2, <1>3, <1>4, <1>5, <1>6, <1>7, <1>8, <1>9 DEF Next

(* The array starts empty, with its slots inside the block.                *)
LEMMA InitTypeOK ==
  ASSUME Init
  PROVE  TypeOK
  BY ArrayAssumption DEF Init, TypeOK, NoScalar

(* The contents lie inside the block, whatever is put in or taken out.     *)
THEOREM ArrayTypeCorrect == Spec => []TypeOK
  BY InitTypeOK, StepEffect, PTL DEF Spec

(* HoldsItsScalars, by places instead of slots.                            *)
HoldsByPlace ==
  /\ live = {Contents[i] : i \in 1 .. count}
  /\ \A i, j \in 1 .. count : Contents[i] = Contents[j] => i = j

(* Both ways to say it agree.                                              *)
LEMMA HoldsEither ==
  ASSUME TypeOK, HoldsByPlace
  PROVE  HoldsItsScalars
  <1>1. live = Held
    BY ContentsAt DEF HoldsByPlace
  <1>2. ASSUME NEW i \in Stretch, NEW j \in Stretch, items[i] = items[j]
        PROVE  i = j
    <2>1. /\ first \in Nat /\ count \in Nat /\ i \in Int /\ j \in Int
          /\ i - first + 1 \in 1 .. count /\ j - first + 1 \in 1 .. count
          /\ first + (i - first + 1) - 1 = i /\ first + (j - first + 1) - 1 = j
      BY DEF TypeOK, Stretch
    <2>2. Contents[i - first + 1] = items[i] /\ Contents[j - first + 1] = items[j]
      BY <2>1, ContentsAt
    <2>3. i - first + 1 = j - first + 1
      BY <1>2, <2>1, <2>2 DEF HoldsByPlace
    <2> QED
      BY <2>1, <2>3
  <1> QED
    BY <1>1, <1>2 DEF HoldsItsScalars

(* Every effect keeps the references and the contents together.            *)
LEMMA EffectHolds ==
  ASSUME TypeOK, HoldsByPlace, Effect
  PROVE  HoldsByPlace'
  <1> DEFINE Old == {Contents[i] : i \in 1 .. count}
             Now == {Contents'[i] : i \in 1 .. count'}
  <1>1. /\ count \in Nat /\ made \in Nat /\ live \subseteq 1 .. made
        /\ live = Old /\ Held = Old
        /\ \A i, j \in 1 .. count : Contents[i] = Contents[j] => i = j
    BY ContentsAt DEF TypeOK, HoldsByPlace
  <1>2. \A i \in 1 .. count : Contents[i] \in 1 .. made /\ Contents[i] \in live
    BY <1>1
  <1> SUFFICES /\ live' = Now
               /\ \A i, j \in 1 .. count' : Contents'[i] = Contents'[j] => i = j
    BY DEF HoldsByPlace
  <1>3. CASE Same
    BY <1>1, <1>3 DEF Same
  <1>4. CASE DropsLast
    <2>1. /\ count > 0 /\ count' = count - 1 /\ live' = live \ {Contents[count]}
          /\ \A i \in 1 .. count - 1 : Contents'[i] = Contents[i]
      BY <1>4 DEF DropsLast
    <2>2. \A i \in 1 .. count - 1 : i \in 1 .. count /\ i # count
      BY <1>1
    <2>3. \A i \in 1 .. count : i = count \/ i \in 1 .. count - 1
      BY <1>1
    <2>4. count \in 1 .. count
      BY <1>1, <2>1
    <2> QED
      BY <1>1, <2>1, <2>2, <2>3, <2>4
  <1>5. CASE DropsFirst
    <2>1. /\ count > 0 /\ count' = count - 1 /\ live' = live \ {Contents[1]}
          /\ \A i \in 1 .. count - 1 : Contents'[i] = Contents[i + 1]
      BY <1>5 DEF DropsFirst
    <2>2. \A i \in 1 .. count - 1 : i + 1 \in 1 .. count /\ i + 1 # 1
      BY <1>1
    <2>3. \A i \in 1 .. count : i = 1 \/ (i - 1 \in 1 .. count - 1 /\ (i - 1) + 1 = i)
      BY <1>1
    <2>4. 1 \in 1 .. count
      BY <1>1, <2>1
    <2>5. live' = Now
      BY <1>1, <2>1, <2>2, <2>3, <2>4
    <2>6. ASSUME NEW i \in 1 .. count - 1, NEW j \in 1 .. count - 1,
                 Contents'[i] = Contents'[j]
          PROVE  i = j
      <3>1. i + 1 = j + 1
        BY <1>1, <2>1, <2>2, <2>6
      <3> QED
        BY <1>1, <3>1
    <2> QED
      BY <2>1, <2>5, <2>6
  <1>6. CASE Empties
    BY <1>1, <1>6 DEF Empties
  <1>7. ASSUME NEW n \in 1 .. MaxMany, Appends(n)
        PROVE  /\ live' = Now
               /\ \A i, j \in 1 .. count' : Contents'[i] = Contents'[j] => i = j
    <2>1. /\ n \in Nat /\ live' = live \cup (made + 1 .. made + n) /\ count' = count + n
          /\ \A i \in 1 .. count + n :
               Contents'[i] = IF i <= count THEN Contents[i] ELSE made + i - count
      BY <1>7, ArrayAssumption DEF Appends, New
    <2>2. \A i \in 1 .. count : i \in 1 .. count + n /\ Contents'[i] = Contents[i]
      BY <1>1, <2>1
    <2>3. \A i \in 1 .. count + n :
            \/ i \in 1 .. count
            \/ i > count /\ Contents'[i] = made + i - count
                /\ made + i - count \in made + 1 .. made + n
      BY <1>1, <2>1
    <2>4. ASSUME NEW x \in made + 1 .. made + n
          PROVE  x \in Now
      <3>1. x - made + count \in 1 .. count + n /\ x - made + count > count
            /\ made + (x - made + count) - count = x
        BY <1>1, <2>1
      <3>2. Contents'[x - made + count] = x
        BY <1>1, <2>1, <3>1
      <3> QED
        BY <2>1, <3>1, <3>2
    <2>5. live \subseteq Now
      BY <1>1, <2>1, <2>2
    <2>6. Now \subseteq live'
      BY <1>2, <2>1, <2>2, <2>3
    <2>7. ASSUME NEW i \in 1 .. count + n, NEW j \in 1 .. count + n,
                 Contents'[i] = Contents'[j]
          PROVE  i = j
      <3>1. CASE i \in 1 .. count /\ j \in 1 .. count
        BY <1>1, <2>2, <2>7, <3>1
      <3>2. CASE ~(i \in 1 .. count) /\ ~(j \in 1 .. count)
        BY <1>1, <2>1, <2>3, <2>7, <3>2
      <3>3. CASE i \in 1 .. count /\ ~(j \in 1 .. count)
        BY <1>1, <1>2, <2>1, <2>2, <2>3, <2>7, <3>3
      <3>4. CASE ~(i \in 1 .. count) /\ j \in 1 .. count
        BY <1>1, <1>2, <2>1, <2>2, <2>3, <2>7, <3>4
      <3> QED
        BY <3>1, <3>2, <3>3, <3>4
    <2> QED
      BY <2>1, <2>4, <2>5, <2>6, <2>7
  <1>8. ASSUME NEW n \in 1 .. MaxMany, Prepends(n)
        PROVE  /\ live' = Now
               /\ \A i, j \in 1 .. count' : Contents'[i] = Contents'[j] => i = j
    <2>1. /\ n \in Nat /\ live' = live \cup (made + 1 .. made + n) /\ count' = count + n
          /\ \A i \in 1 .. count + n :
               Contents'[i] = IF i <= n THEN made + i ELSE Contents[i - n]
      BY <1>8, ArrayAssumption DEF Prepends, New
    <2>2. \A i \in 1 .. count + n :
            \/ i <= n /\ Contents'[i] = made + i /\ made + i \in made + 1 .. made + n
            \/ i > n /\ i - n \in 1 .. count /\ Contents'[i] = Contents[i - n]
      BY <1>1, <2>1
    <2>3. ASSUME NEW x \in made + 1 .. made + n
          PROVE  x \in Now
      <3>1. x - made \in 1 .. count + n /\ x - made <= n /\ made + (x - made) = x
        BY <1>1, <2>1
      <3>2. Contents'[x - made] = x
        BY <1>1, <2>1, <3>1
      <3> QED
        BY <2>1, <3>1, <3>2
    <2>4. ASSUME NEW i \in 1 .. count
          PROVE  Contents[i] \in Now
      <3>1. i + n \in 1 .. count + n /\ ~(i + n <= n) /\ (i + n) - n = i
        BY <1>1, <2>1
      <3>2. Contents'[i + n] = Contents[i]
        BY <1>1, <2>1, <3>1
      <3> QED
        BY <2>1, <3>1, <3>2
    <2>5. live \subseteq Now
      BY <1>1, <2>4
    <2>6. Now \subseteq live'
      BY <1>2, <2>1, <2>2
    <2>7. ASSUME NEW i \in 1 .. count + n, NEW j \in 1 .. count + n,
                 Contents'[i] = Contents'[j]
          PROVE  i = j
      <3>1. CASE i > n /\ j > n
        <4>1. i - n = j - n
          BY <1>1, <2>2, <2>7, <3>1
        <4> QED
          BY <1>1, <2>1, <4>1
      <3>2. CASE ~(i > n) /\ ~(j > n)
        BY <1>1, <2>1, <2>2, <2>7, <3>2
      <3>3. CASE i > n /\ ~(j > n)
        BY <1>1, <1>2, <2>1, <2>2, <2>7, <3>3
      <3>4. CASE ~(i > n) /\ j > n
        BY <1>1, <1>2, <2>1, <2>2, <2>7, <3>4
      <3> QED
        BY <3>1, <3>2, <3>3, <3>4
    <2> QED
      BY <2>1, <2>3, <2>5, <2>6, <2>7
  <1>9. ASSUME NEW n \in 1 .. MaxMany, Replaces(n)
        PROVE  /\ live' = Now
               /\ \A i, j \in 1 .. count' : Contents'[i] = Contents'[j] => i = j
    <2>1. /\ n \in Nat /\ live' = made + 1 .. made + n /\ count' = n
          /\ \A i \in 1 .. n : Contents'[i] = made + i
      BY <1>1, <1>9, ArrayAssumption DEF Replaces, New
    <2>2. ASSUME NEW x \in made + 1 .. made + n
          PROVE  x \in Now
      <3>1. x - made \in 1 .. n /\ made + (x - made) = x
        BY <1>1, <2>1
      <3> QED
        BY <2>1, <3>1
    <2>3. \A i \in 1 .. n : made + i \in made + 1 .. made + n
      BY <1>1, <2>1
    <2>4. Now \subseteq live'
      BY <2>1, <2>3
    <2>5. \A i, j \in 1 .. n : Contents'[i] = Contents'[j] => i = j
      BY <1>1, <2>1
    <2> QED
      BY <2>1, <2>2, <2>4, <2>5
  <1> QED
    BY <1>3, <1>4, <1>5, <1>6, <1>7, <1>8, <1>9 DEF Effect

(* Every scalar made for the array and not released is in it once, and     *)
(* nothing else is: growth, ARFILL, ARPOP, ARSHFT and destruction neither  *)
(* leak a reference nor release one twice.                                 *)
THEOREM ArrayHoldsItsScalars == Spec => []HoldsItsScalars
  <1>1. Init => TypeOK /\ HoldsByPlace
    BY InitTypeOK DEF Init, HoldsByPlace
  <1>2. TypeOK /\ HoldsByPlace /\ [Next]_vars => (TypeOK /\ HoldsByPlace)'
    BY StepEffect, EffectHolds
  <1>3. TypeOK /\ HoldsByPlace => HoldsItsScalars
    BY HoldsEither
  <1> QED
    BY <1>1, <1>2, <1>3, PTL DEF Spec

-----------------------------------------------------------------------------
(* Implementation                                                          *)

(* A function on 1 .. n is a sequence.                                     *)
LEMMA FunctionIsSeq ==
  ASSUME NEW S, NEW n \in Nat, NEW f \in [1 .. n -> S]
  PROVE  f \in Seq(S) /\ Len(f) = n
  <1>1. f \in Seq(S)
    BY SeqDef
  <1>2. Len(f) \in Nat /\ DOMAIN f = 1 .. Len(f) /\ DOMAIN f = 1 .. n
    BY <1>1, LenProperties
  <1> QED
    BY <1>1, <1>2

(* The contents are a sequence, before and after a step.                   *)
LEMMA ContentsIsSeq ==
  ASSUME TypeOK, TypeOK'
  PROVE  /\ Contents \in Seq(Nat) /\ Len(Contents) = count /\ count \in Nat
         /\ Contents' \in Seq(Nat) /\ Len(Contents') = count' /\ count' \in Nat
  <1>1. count \in Nat /\ count' \in Nat
    BY DEF TypeOK
  <1>2. Contents \in [1 .. count -> Nat]
    BY ContentsAt, SMTT(30) DEF TypeOK
  <1>3. Contents' \in [1 .. count' -> Nat]
    <2>1. ASSUME NEW i \in 1 .. count'
          PROVE  items'[first' + i - 1] \in Nat
      <3>1. first' + i - 1 \in 0 .. allocated' - 1
        <4>1. /\ first' \in Nat /\ count' \in Nat
              /\ first' + count' <= allocated'
          BY Zenon DEF TypeOK
        <4>2. allocated' \in Nat
          BY ArrayAssumption DEF TypeOK
        <4>3. PICK a \in Nat, b \in Nat, c \in Nat :
                a = first' /\ b = allocated' /\ c = count'
          BY <4>1, <4>2
        <4>4. i \in 1 .. c /\ a + c <= b
          BY <4>1, <4>3
        <4>5. a + i - 1 \in 0 .. b - 1
          BY <4>4
        <4> QED
          BY <4>3, <4>5
      <3>2. items' \in [0 .. allocated' - 1 -> 0 .. made'] /\ made' \in Nat
        BY DEF TypeOK
      <3> QED
        BY <3>1, <3>2
    <2> QED
      BY <2>1 DEF Contents
  <1> QED
    BY <1>1, <1>2, <1>3, FunctionIsSeq

(* What each effect makes of the sequence.                                 *)
LEMMA EffectOnSeq ==
  ASSUME TypeOK, TypeOK'
  PROVE  /\ Same => Contents' = Contents
         /\ \A n \in Nat : Appends(n) => Contents' = Contents \o Deque!New(n)
         /\ \A n \in Nat : Prepends(n) => Contents' = Deque!New(n) \o Contents
         /\ \A n \in Nat : Replaces(n) => Contents' = Deque!New(n)
         /\ DropsLast => Contents' = SubSeq(Contents, 1, Len(Contents) - 1)
         /\ DropsFirst => Contents' = Tail(Contents)
         /\ Empties => Contents' = <<>>
  <1> DEFINE Was == Contents
             Is == Contents'
             Fresh(n) == Deque!New(n)
  <1>1. /\ Was \in Seq(Nat) /\ Len(Was) = count /\ count \in Nat
        /\ Is \in Seq(Nat) /\ Len(Is) = count' /\ count' \in Nat
    BY ContentsIsSeq
  <1>2. made \in Nat
    BY DEF TypeOK
  <1>3. ASSUME NEW n \in Nat
        PROVE  /\ Fresh(n) \in Seq(Nat) /\ Len(Fresh(n)) = n
               /\ \A i \in 1 .. n : Fresh(n)[i] = made + i
    <2>1. Fresh(n) = [i \in 1 .. n |-> made + i]
      BY DEF Deque!New
    <2>2. Fresh(n) \in [1 .. n -> Nat]
      BY <1>2, <2>1
    <2> QED
      BY <2>1, <2>2, FunctionIsSeq
  <1>4. /\ Same => count' = count /\ \A i \in 1 .. count : Is[i] = Was[i]
        /\ \A n \in Nat : Appends(n) =>
             /\ count' = count + n
             /\ \A i \in 1 .. count + n :
                  Is[i] = IF i <= count THEN Was[i] ELSE made + i - count
        /\ \A n \in Nat : Prepends(n) =>
             /\ count' = count + n
             /\ \A i \in 1 .. count + n :
                  Is[i] = IF i <= n THEN made + i ELSE Was[i - n]
        /\ \A n \in Nat : Replaces(n) =>
             count' = n /\ \A i \in 1 .. n : Is[i] = made + i
        /\ DropsLast => /\ count > 0 /\ count' = count - 1
                        /\ \A i \in 1 .. count - 1 : Is[i] = Was[i]
        /\ DropsFirst => /\ count > 0 /\ count' = count - 1
                         /\ \A i \in 1 .. count - 1 : Is[i] = Was[i + 1]
        /\ Empties => count' = 0
    BY Zenon DEF Same, Appends, Prepends, Replaces, DropsLast, DropsFirst, Empties
  <1> HIDE DEF Was, Is, Fresh
  <1>5. ASSUME Same PROVE Is = Was
    BY <1>1, <1>4, <1>5, SeqEqual
  <1>6. ASSUME NEW n \in Nat, Appends(n)
        PROVE  Is = Was \o Fresh(n)
    <2> DEFINE new == Fresh(n)
               both == Was \o new
    <2>1. new \in Seq(Nat) /\ Len(new) = n /\ \A i \in 1 .. n : new[i] = made + i
      BY <1>3
    <2> HIDE DEF new
    <2>2. /\ both \in Seq(Nat) /\ Len(both) = count + n
          /\ \A i \in 1 .. count + n :
               both[i] = IF i <= count THEN Was[i] ELSE new[i - count]
      BY <1>1, <2>1, ConcatProperties, ZenonT(60)
    <2> HIDE DEF both
    <2>3. \A i \in 1 .. count + n :
            ~(i <= count) => i - count \in 1 .. n /\ made + (i - count) = made + i - count
      BY <1>1, <1>2
    <2>4. \A i \in 1 .. count + n : ~(i <= count) => new[i - count] = made + i - count
      BY <2>1, <2>3
    <2>5. \A i \in 1 .. count + n : Is[i] = both[i]
      BY <1>4, <1>6, <2>2, <2>4
    <2>6. Is = both
      BY <1>1, <1>4, <1>6, <2>2, <2>5, SeqEqual
    <2> QED
      BY <2>6 DEF both, new
  <1>7. ASSUME NEW n \in Nat, Prepends(n)
        PROVE  Is = Fresh(n) \o Was
    <2> DEFINE new == Fresh(n)
               both == new \o Was
    <2>1. new \in Seq(Nat) /\ Len(new) = n /\ \A i \in 1 .. n : new[i] = made + i
      BY <1>3
    <2> HIDE DEF new
    <2>2. n + count = count + n
      BY <1>1
    <2>3. /\ both \in Seq(Nat) /\ Len(both) = Len(new) + Len(Was)
          /\ \A i \in 1 .. Len(new) + Len(Was) :
               both[i] = IF i <= Len(new) THEN new[i] ELSE Was[i - Len(new)]
      BY <1>1, <2>1, ConcatProperties
    <2> HIDE DEF both
    <2>4. Len(both) = count + n
      BY <1>1, <2>1, <2>2, <2>3
    <2>5. ASSUME NEW i \in 1 .. count + n
          PROVE  Is[i] = both[i]
      <3>1. i \in 1 .. Len(new) + Len(Was)
        BY <1>1, <2>1, <2>2
      <3>2. both[i] = IF i <= n THEN new[i] ELSE Was[i - n]
        BY <2>1, <2>3, <3>1
      <3>3. i <= n => new[i] = made + i
        BY <1>1, <2>1
      <3>4. Is[i] = IF i <= n THEN made + i ELSE Was[i - n]
        BY <1>4, <1>7
      <3> QED
        BY <3>2, <3>3, <3>4
    <2>6. Is = both
      BY <1>1, <1>4, <1>7, <2>3, <2>4, <2>5, SeqEqual, ZenonT(60)
    <2> QED
      BY <2>6 DEF both, new
  <1>8. ASSUME NEW n \in Nat, Replaces(n)
        PROVE  Is = Fresh(n)
    BY <1>1, <1>3, <1>4, <1>8, SeqEqual
  <1>9. ASSUME DropsLast
        PROVE  Is = SubSeq(Was, 1, Len(Was) - 1)
    <2>1. Len(Was) - 1 = count - 1 /\ count - 1 \in Nat
      BY <1>1, <1>4, <1>9
    <2>2. \A i \in 1 .. count - 1 : Was[i] \in Nat
      <3>1. \A i \in 1 .. count - 1 : i \in 1 .. Len(Was)
        BY <1>1
      <3> QED
        BY <1>1, <3>1, ElementOfSeq
    <2>3. /\ SubSeq(Was, 1, count - 1) \in Seq(Nat)
          /\ Len(SubSeq(Was, 1, count - 1)) = count - 1
          /\ \A i \in 1 .. count - 1 : SubSeq(Was, 1, count - 1)[i] = Was[i]
      <3>1. 1 \in Int /\ count - 1 \in Int
        BY <1>1
      <3>2. /\ SubSeq(Was, 1, count - 1) \in Seq(Nat)
            /\ Len(SubSeq(Was, 1, count - 1)) =
                 IF 1 <= count - 1 THEN (count - 1) - 1 + 1 ELSE 0
            /\ \A i \in 1 .. (count - 1) - 1 + 1 :
                 SubSeq(Was, 1, count - 1)[i] = Was[1 + i - 1]
        BY <2>2, <3>1, SubSeqProperties
      <3>3. (count - 1) - 1 + 1 = count - 1 /\ \A i \in 1 .. count - 1 : 1 + i - 1 = i
        BY <1>1
      <3> QED
        BY <1>1, <2>1, <3>2, <3>3
    <2> QED
      BY <1>1, <1>4, <1>9, <2>1, <2>3, SeqEqual
  <1>10. ASSUME DropsFirst
         PROVE  Is = Tail(Was)
    <2>1. Was # <<>>
      BY <1>1, <1>4, <1>10, EmptySeq
    <2>2. /\ Tail(Was) \in Seq(Nat) /\ Len(Tail(Was)) = count - 1
          /\ \A i \in 1 .. count - 1 : Tail(Was)[i] = Was[i + 1]
      BY <1>1, <2>1, HeadTailProperties
    <2> QED
      BY <1>1, <1>4, <1>10, <2>2, SeqEqual, SMTT(30)
  <1>11. ASSUME Empties PROVE Is = <<>>
    BY <1>1, <1>4, <1>11, EmptySeq
  <1> USE DEF Was, Is, Fresh
  <1> QED
    BY <1>5, <1>6, <1>7, <1>8, <1>9, <1>10, <1>11, Zenon

(* The array is a deque, for every size of its block and of its arguments. *)
THEOREM ArrayIsDeque == Spec => IsDeque
  <1>1. ASSUME Init
        PROVE  Deque!Init
    <2>1. count = 0 /\ made = 0 /\ result = <<>>
      BY <1>1 DEF Init
    <2>2. Contents = <<>>
      BY <2>1 DEF Contents
    <2> QED
      BY <2>1, <2>2 DEF Deque!Init
  <1>2. ASSUME TypeOK, [Next]_vars
        PROVE  [Deque!Next]_(Deque!vars) /\ Serves
    <2>1. TypeOK' /\ TypeOK
      BY <1>2, StepEffect
    <2>2. Same => Contents' = Contents /\ made' = made
      BY <2>1, EffectOnSeq DEF Same
    <2>3. \A n \in Nat : /\ Appends(n) /\ result' = <<>> => Deque!Push(n)
                         /\ Prepends(n) /\ result' = <<>> => Deque!Unshift(n)
                         /\ Replaces(n) /\ result' = <<>> => Deque!Fill(n)
      <3>1. \A n \in Nat : /\ Appends(n) => Contents' = Contents \o Deque!New(n)
                           /\ Prepends(n) => Contents' = Deque!New(n) \o Contents
                           /\ Replaces(n) => Contents' = Deque!New(n)
        BY <2>1, EffectOnSeq
      <3>2. \A n \in Nat : Appends(n) \/ Prepends(n) \/ Replaces(n) => made' = made + n
        BY Zenon DEF Appends, Prepends, Replaces
      <3> QED
        BY <3>1, <3>2, Zenon DEF Deque!Push, Deque!Unshift, Deque!Fill
    <2>4. Same /\ result' = <<>> => Deque!Refuse
      BY <2>2 DEF Deque!Refuse
    <2>5. Same /\ result' = result => UNCHANGED Deque!vars
      BY <2>2 DEF Deque!vars
    <2>6. count \in Nat /\ Len(Contents) = count /\ DOMAIN Contents = 1 .. count
      BY <2>1, ContentsIsSeq DEF Contents
    <2>7. count > 0 => Contents # <<>> /\ Head(Contents) = Contents[1]
      BY <2>6
    <2>8. count = 0 => Contents = <<>>
      BY <2>1, <2>6, ContentsIsSeq, EmptySeq
    <2>9. \A n \in 1 .. MaxMany : n \in Nat
      BY ArrayAssumption
    <2>10. ASSUME \E n \in 1 .. MaxMany : ARPUSH(n)
           PROVE  [Deque!Next]_(Deque!vars)
      <3>1. PICK n \in 1 .. MaxMany : ARPUSH(n)
        BY <2>10
      <3>2. (Appends(n) \/ Same) /\ result' = <<>>
        BY <2>1, <3>1, PushStep
      <3>3. Deque!Push(n) \/ Deque!Refuse
        BY <2>3, <2>4, <2>9, <3>2, Zenon
      <3> QED
        BY <3>3, Zenon DEF Deque!Next
    <2>11. ASSUME \E n \in 1 .. MaxMany : ARUNSHFT(n)
           PROVE  [Deque!Next]_(Deque!vars)
      <3>1. PICK n \in 1 .. MaxMany : ARUNSHFT(n)
        BY <2>11
      <3>2. \/ Prepends(n) /\ result' = <<>>
            \/ Same /\ (result' = <<>> \/ result' = result)
        BY <2>1, <3>1, UnshiftStep
      <3>3. Deque!Unshift(n) \/ Deque!Refuse \/ UNCHANGED Deque!vars
        BY <2>3, <2>4, <2>5, <2>9, <3>2, Zenon
      <3> QED
        BY <3>3, Zenon DEF Deque!Next
    <2>12. ASSUME \E n \in 0 .. MaxMany : ARFILL(n)
           PROVE  [Deque!Next]_(Deque!vars)
      <3>1. PICK n \in 0 .. MaxMany : ARFILL(n)
        BY <2>12
      <3>2. \/ n > 0 /\ Replaces(n) /\ result' = <<>>
            \/ Same /\ result' = result
        BY <2>1, <3>1, FillStep
      <3>3. n > 0 => n \in 1 .. MaxMany
        BY ArrayAssumption
      <3>4. (n \in 1 .. MaxMany /\ Deque!Fill(n)) \/ UNCHANGED Deque!vars
        BY <2>3, <2>5, <2>9, <3>2, <3>3, Zenon
      <3> QED
        BY <3>4, Zenon DEF Deque!Next
    <2>13. ASSUME ARPOP
           PROVE  Deque!Pop \/ Deque!Nothing
      <3>1. \/ DropsLast /\ result' = <<Contents[count]>>
            \/ Same /\ count = 0 /\ result' = <<0>>
        BY <2>1, <2>13, PopStep
      <3>2. DropsLast => /\ count > 0 /\ made' = made
                         /\ Contents' = SubSeq(Contents, 1, Len(Contents) - 1)
        BY <2>1, EffectOnSeq DEF DropsLast
      <3>3. DropsLast /\ result' = <<Contents[count]>> => Deque!Pop
        BY <2>6, <2>7, <3>2 DEF Deque!Pop
      <3>4. Same /\ count = 0 /\ result' = <<0>> => Deque!Nothing
        BY <2>2, <2>8 DEF Deque!Nothing
      <3> QED
        BY <3>1, <3>3, <3>4
    <2>14. ASSUME ARSHFT
           PROVE  Deque!Shift \/ Deque!Nothing
      <3>1. \/ DropsFirst /\ result' = <<Contents[1]>>
            \/ Same /\ count = 0 /\ result' = <<0>>
        BY <2>1, <2>14, ShiftStep
      <3>2. DropsFirst => count > 0 /\ made' = made /\ Contents' = Tail(Contents)
        BY <2>1, EffectOnSeq DEF DropsFirst
      <3>3. DropsFirst /\ result' = <<Contents[1]>> => Deque!Shift
        BY <2>7, <3>2 DEF Deque!Shift
      <3>4. Same /\ count = 0 /\ result' = <<0>> => Deque!Nothing
        BY <2>2, <2>8 DEF Deque!Nothing
      <3> QED
        BY <3>1, <3>3, <3>4
    <2>15. ASSUME ARLEN
           PROVE  Deque!Length
      <3>1. Same /\ result' = <<count>>
        BY <2>1, <2>15, LookStep DEF ARLEN
      <3>2. Deque!Length
        BY <2>2, <2>6, <3>1 DEF Deque!Length
      <3> QED
        BY <3>2
    <2>16. ASSUME ARLIST
           PROVE  Deque!List
      <3>1. Same /\ result' = Contents
        BY <2>1, <2>16, LookStep DEF ARLIST
      <3>2. Deque!List
        BY <2>2, <3>1 DEF Deque!List
      <3> QED
        BY <3>2
    <2>17. ASSUME NEW i \in Int
           PROVE  /\ Found(i) => i + 1 \in DOMAIN Contents
                               /\ Deque!Place(i) = i + 1
                               /\ Contents[i + 1] = items[first + i]
                  /\ i < 0 /\ Found(i + count) =>
                       /\ i + count + 1 \in DOMAIN Contents
                       /\ Deque!Place(i) = i + count + 1
                       /\ Contents[i + count + 1] = items[first + (i + count)]
      <3>1. \A j \in Int : Found(j) =>
              j \in 0 .. count - 1 /\ j + 1 \in 1 .. count /\ first + (j + 1) - 1 = first + j
        BY <2>1, <2>6 DEF Found, Beyond, TypeOK
      <3>2. \A j \in Int : Found(j) =>
              j + 1 \in DOMAIN Contents /\ Contents[j + 1] = items[first + j]
        BY <2>1, <2>6, <3>1, ContentsAt
      <3>3. Found(i) => Deque!Place(i) = i + 1
        BY <3>1 DEF Deque!Place
      <3>4. i < 0 => Deque!Place(i) = i + count + 1 /\ i + count \in Int
        BY <2>6 DEF Deque!Place
      <3> QED
        BY <3>2, <3>3, <3>4
    <2>18. ASSUME NEW indices \in IndexLists, ARSLICE(indices)
           PROVE  /\ UNCHANGED Deque!vars \/ Deque!Slice(indices)
                  /\ (\A k \in DOMAIN indices : indices[k] \in 0 .. count - 1) => Deque!Slice(indices)
      <3>2. \A k \in DOMAIN indices : indices[k] \in Int
        BY ArrayAssumption
      <3>3. Same
        BY <2>1, <2>18, LookStep, ArrayAssumption
      <3>4. CASE GoesWild /\ ~ \A k \in DOMAIN indices : Found(indices[k])
        <4>1. \A j \in 0 .. count - 1 : Found(j)
          BY <2>1, <2>6 DEF Found, Beyond, TypeOK
        <4>2. ~ \A k \in DOMAIN indices : indices[k] \in 0 .. count - 1
          BY <3>4, <4>1
        <4>3. UNCHANGED Deque!vars
          BY <2>5, <3>3, <3>4 DEF GoesWild
        <4> QED
          BY <4>2, <4>3
      <3>5. CASE /\ \A k \in DOMAIN indices : Found(indices[k])
                 /\ result' = [k \in DOMAIN indices |-> items[first + indices[k]]]
        <4>1. \A k \in DOMAIN indices : Deque!Place(indices[k]) \in DOMAIN Contents
              /\ Contents[Deque!Place(indices[k])] = items[first + indices[k]]
          BY <2>17, <3>2, <3>5
        <4>2. result' = [k \in DOMAIN indices |-> Contents[Deque!Place(indices[k])]]
          BY <3>5, <4>1
        <4>3. Deque!Slice(indices)
          BY <2>2, <3>3, <4>1, <4>2, Zenon DEF Deque!Slice
        <4> QED
          BY <4>3
      <3> QED
        BY <2>18, <3>4, <3>5, Zenon DEF ARSLICE, array_slice
    <2>19. ASSUME NEW indices \in IndexLists, Len(indices) = 1, ARINDEX(indices[1])
           PROVE  /\ UNCHANGED Deque!vars \/ Deque!Slice(indices)
                  /\ indices[1] \in -count .. count - 1 => Deque!Slice(indices)
      <3> DEFINE i == indices[1]
                 index == IF i < 0 THEN i + count ELSE i
      <3>2. i \in Int /\ DOMAIN indices = {1}
        BY <2>19, ArrayAssumption
      <3>3. Same
        BY <2>1, <2>19, <3>2, LookStep
      <3>4. CASE ~Found(index) /\ GoesWild
        <4>1. \A j \in 0 .. count - 1 : Found(j)
          BY <2>1, <2>6 DEF Found, Beyond, TypeOK
        <4>3. i \notin -count .. count - 1
          <5>1. index \notin 0 .. count - 1
            BY <3>4, <4>1
          <5> QED
            BY <2>6, <3>2, <5>1
        <4>2. UNCHANGED Deque!vars
          BY <2>5, <3>3, <3>4 DEF GoesWild
        <4> QED
          BY <4>2, <4>3
      <3>5. CASE Found(index) /\ result' = <<items[first + index]>>
        <4>1. /\ Deque!Place(i) \in DOMAIN Contents
              /\ Contents[Deque!Place(i)] = items[first + index]
          BY <2>17, <3>2, <3>5
        <4>2. result' = [k \in DOMAIN indices |-> Contents[Deque!Place(indices[k])]]
          BY <3>2, <3>5, <4>1
        <4>3. Deque!Slice(indices)
          BY <2>2, <3>2, <3>3, <4>1, <4>2, Zenon DEF Deque!Slice
        <4> QED
          BY <4>3
      <3> QED
        BY <2>19, <3>4, <3>5, Zenon DEF ARINDEX, array_item_at
    <2>20. ASSUME Destroy
           PROVE  Deque!Destroy
      <3>1. Empties /\ result' = result
        BY <2>1, <2>20, DestroyStep
      <3>2. Contents' = <<>> /\ made' = made
        BY <2>1, <3>1, EffectOnSeq DEF Empties
      <3>3. Deque!Destroy
        BY <3>1, <3>2 DEF Deque!Destroy
      <3> QED
        BY <3>3
    <2>21. ASSUME UNCHANGED vars
           PROVE  [Deque!Next]_(Deque!vars)
      BY <2>21 DEF vars, Contents, Deque!vars
    <2>22. [Deque!Next]_(Deque!vars)
      <3>1. CASE ARPOP \/ ARSHFT \/ ARLEN \/ ARLIST \/ Destroy
        BY <2>13, <2>14, <2>15, <2>16, <2>20, <3>1 DEF Deque!Next
      <3>2. CASE \E indices \in IndexLists : ARSLICE(indices)
        BY <2>18, <3>2 DEF Deque!Next
      <3>3. CASE \E indices \in IndexLists : Len(indices) = 1 /\ ARINDEX(indices[1])
        BY <2>19, <3>3 DEF Deque!Next
      <3> QED
        BY <1>2, <2>10, <2>11, <2>12, <2>21, <3>1, <3>2, <3>3 DEF Next
    <2>23. ASSUME NEW n \in 1 .. MaxMany
           PROVE  /\ ARPUSH(n) /\ BackFits(n) => Deque!Push(n)
                  /\ ARUNSHFT(n) /\ FrontFits(n) => Deque!Unshift(n)
                  /\ ARFILL(n) /\ BlockFits(n) => Deque!Fill(n)
      <3>1. n \in Nat /\ n > 0 /\ n \in 0 .. MaxMany
        BY <2>23, ArrayAssumption
      <3>2. ARPUSH(n) /\ BackFits(n) => Appends(n) /\ result' = <<>>
        BY <2>1, PushServed
      <3>3. ARUNSHFT(n) /\ FrontFits(n) => Prepends(n) /\ result' = <<>>
        BY <2>1, UnshiftServed
      <3>4. ARFILL(n) /\ BlockFits(n) => Replaces(n) /\ result' = <<>>
        BY <2>1, <3>1, FillStep
      <3> QED
        BY <2>3, <3>1, <3>2, <3>3, <3>4
    <2>24. Serves
      BY <2>13, <2>14, <2>15, <2>16, <2>18, <2>19, <2>23, Zenon DEF Serves
    <2> QED
      BY <2>22, <2>24
  <1>3. TypeOK /\ [Next]_vars => [Serves]_vars
    BY <1>2
  <1> QED
    BY <1>1, <1>2, <1>3, ArrayTypeCorrect, PTL DEF Spec, IsDeque, Deque!Spec

-----------------------------------------------------------------------------
(* Assembler: numbers and loops                                            *)

(* Every set of numbers has a least one.                                   *)
LEMMA LeastNumber ==
  ASSUME NEW T, T \subseteq Nat, T # {}
  PROVE  \E m \in T : \A i \in T : m <= i
  <1> DEFINE Less == OpToRel(<, Nat)
  <1>1. IsWellFoundedOn(Less, Nat)
    BY NatLessThanWellFounded
  <1>2. \A m, n \in Nat : m < n => <<m, n>> \in Less
    BY DEF OpToRel
  <1> HIDE DEF Less
  <1>3. PICK m \in T : \A i \in T : <<i, m>> \notin Less
    BY <1>1, WFMin
  <1>4. \A i \in T : ~ (i < m)
    BY <1>2, <1>3
  <1> QED
    BY <1>4

(* The n first states of a loop whose turns are the functions F[1], F[2]   *)
(* and so on exist, whatever these do.                                     *)
Runs(S, F, s0, n) ==
  {f \in [0 .. n -> S] : f[0] = s0 /\ \A i \in 1 .. n : f[i] = F[i][f[i - 1]]}

(* A loop has such states.                                                 *)
LEMMA LoopRuns ==
  ASSUME NEW S, NEW F, F \in [Nat -> [S -> S]], NEW s0, s0 \in S, NEW n, n \in Nat
  PROVE  Runs(S, F, s0, n) # {}
  <1> DEFINE Good(m) == Runs(S, F, s0, m) # {}
             T == {m \in Nat : ~ Good(m)}
  <1>1. ASSUME NEW m \in T, \A i \in T : m <= i
        PROVE  FALSE
    <2>1. CASE m = 0
      <3> DEFINE f == [i \in 0 .. 0 |-> s0]
      <3>1. f \in [0 .. 0 -> S] /\ f[0] = s0 /\ \A i \in 1 .. 0 : f[i] = F[i][f[i - 1]]
        OBVIOUS
      <3> HIDE DEF f
      <3>2. f \in Runs(S, F, s0, 0)
        BY <3>1 DEF Runs
      <3> QED
        BY <1>1, <2>1, <3>2
    <2>2. CASE m > 0
      <3>1. m - 1 \in Nat /\ m - 1 \notin T
        <4>1. m \in Nat
          OBVIOUS
        <4>2. m - 1 \in Nat /\ ~ (m <= m - 1)
          BY <2>2, <4>1
        <4> QED
          BY <1>1, <4>2, Zenon
      <3>2. PICK f \in Runs(S, F, s0, m - 1) : TRUE
        BY <3>1
      <3>3. /\ f \in [0 .. m - 1 -> S] /\ f[0] = s0
            /\ \A i \in 1 .. m - 1 : f[i] = F[i][f[i - 1]]
        BY DEF Runs
      <3> DEFINE next == F[m][f[m - 1]]
                 g == [i \in 0 .. m |-> IF i = m THEN next ELSE f[i]]
      <3>4. m \in Nat /\ next \in S
        <4>1. m \in Nat /\ m - 1 \in 0 .. m - 1
          BY <2>2
        <4>2. F[m] \in [S -> S] /\ f[m - 1] \in S
          BY <3>3, <4>1
        <4> QED
          BY <4>1, <4>2
      <3> HIDE DEF next
      <3>5. g \in [0 .. m -> S] /\ g[0] = s0
        BY <2>2, <3>3, <3>4
      <3>6. \A i \in 1 .. m : g[i] = F[i][g[i - 1]]
        <4> TAKE i \in 1 .. m
        <4>1. i - 1 \in 0 .. m /\ i - 1 # m /\ g[i - 1] = f[i - 1]
          BY <3>4
        <4>2. CASE i = m
          BY <3>4, <4>1, <4>2 DEF next
        <4>3. CASE i # m
          BY <3>3, <3>4, <4>1, <4>3
        <4> QED
          BY <4>2, <4>3
      <3> HIDE DEF g
      <3>7. g \in Runs(S, F, s0, m)
        BY <3>5, <3>6 DEF Runs
      <3> QED
        BY <1>1, <3>7
    <2> QED
      BY <2>1, <2>2
  <1>2. T \subseteq Nat
    OBVIOUS
  <1> HIDE DEF T
  <1>3. T = {}
    BY <1>1, <1>2, LeastNumber
  <1> QED
    BY <1>3 DEF T


-----------------------------------------------------------------------------
(* Lengths and positions                                                   *)

(* What labels are looked up with: a section, and a label in it or none.   *)
Keys == (Names \cup {None}) \X (Names \cup {None})

(* What is in g_lines.                                                     *)
LineTypes ==
  [label : Keys \cup {None},
   instruction : {line.instruction : line \in Lines},
   operand : {<<"none">>} \cup ({"integer"} \X Int) \cup ({"string"} \X Nat)
               \cup ({"location", "offset"} \X Keys)]

(* The kinds of operand, and what comes with them.                         *)
LEMMA OperandTypes ==
  ASSUME NEW line \in LineTypes
  PROVE  /\ line.operand[1] \in Kinds
         /\ line.operand[1] = "integer" => line.operand[2] \in Int
         /\ line.operand[1] = "integer" => line.operand = <<"integer", line.operand[2]>>
         /\ line.operand[1] = "string" => line.operand[2] \in Nat
         /\ line.operand[1] = "string" => line.operand = <<"string", line.operand[2]>>
         /\ line.operand[1] \in {"location", "offset"} => line.operand[2] \in Keys
         /\ line.instruction \in {l.instruction : l \in Lines}
         /\ line.label \in Keys \cup {None}
  <1> USE DEF LineTypes
  <1>1. line.operand \in {<<"none">>} \cup ({"integer"} \X Int) \cup ({"string"} \X Nat)
                           \cup ({"location", "offset"} \X Keys)
    OBVIOUS
  <1>2. CASE line.operand = <<"none">>
    BY <1>2 DEF Kinds
  <1>3. CASE line.operand \in {"integer"} \X Int
    BY <1>3 DEF Kinds
  <1>4. CASE line.operand \in {"string"} \X Nat
    BY <1>4 DEF Kinds
  <1>5. CASE line.operand \in {"location", "offset"} \X Keys
    BY <1>5 DEF Kinds
  <1> QED
    BY <1>1, <1>2, <1>3, <1>4, <1>5

(* A line with an instruction has bytes.                                   *)
LEMMA LengthIs ==
  ASSUME NEW line \in LineTypes
  PROVE  /\ Length(line) \in Nat
         /\ line.instruction = None <=> Length(line) = 0
  <1>1. \A i : instruction_sizes(i) \in Nat \ {0}
    BY AssemblerAssumption DEF instruction_sizes
  <1>2. line.operand[1] = "string" => line.operand[2] \in Nat
    BY OperandTypes
  <1>3. instruction_sizes(line.instruction) \in Nat \ {0}
    BY <1>1
  <1> QED
    BY <1>2, <1>3 DEF Length

(* A complex instruction's operand begins at a multiple of four.           *)
LEMMA AlignedIs ==
  ASSUME NEW line \in LineTypes, NEW p \in Nat
  PROVE  /\ Aligned(line, p) \in Nat
         /\ Aligned(line, p) >= p
         /\ Length(line) > 2 /\ line.instruction # "str" => (Aligned(line, p) + 1) % 4 = 0
  <1>1. /\ p + ((3 - p) % 4) \in Nat
        /\ p + ((3 - p) % 4) >= p
        /\ ((p + ((3 - p) % 4)) + 1) % 4 = 0
    OBVIOUS
  <1> QED
    BY <1>1 DEF Aligned

(* Where the lines are put: at[i] is the position of the i-th, and end[i]  *)
(* what follows it.                                                        *)
Laid(ls, n, at, end) ==
  /\ end \in [0 .. n -> Nat] /\ end[0] = 1
  /\ Len(at) = n + 1 /\ DOMAIN at = 1 .. n + 1 /\ at[n + 1] = end[n]
  /\ \A i \in 1 .. n : at[i] = Aligned(ls[i], end[i - 1])
  /\ \A i \in 1 .. n : end[i] = at[i] + Length(ls[i])

(* Positions are what the loop in assemble() adds up.                      *)
LEMMA PositionsLaid ==
  ASSUME NEW ls \in Seq(LineTypes), NEW n \in Nat, Len(ls) = n
  PROVE  \E end : Laid(ls, n, Positions(ls), end)
  <1> DEFINE Step(i, p) == Aligned(ls[i], p) + Length(ls[i])
             F == [i \in Nat |-> [p \in Nat |-> IF i \in 1 .. n THEN Step(i, p) ELSE p]]
             Equation(g) == g = [i \in 0 .. Len(ls) |-> IF i = 0 THEN 1 ELSE Step(i, g[i - 1])]
             f == CHOOSE g : Equation(g)
             at == [i \in 1 .. Len(ls) + 1 |->
                      IF i > Len(ls) THEN f[Len(ls)] ELSE Aligned(ls[i], f[i - 1])]
  <1>1. Positions(ls) = at
    BY Zenon DEF Positions
  <1>2. \A i \in 1 .. n : ls[i] \in LineTypes
    OBVIOUS
  <1>3. \A i \in 1 .. n : \A p \in Nat : Step(i, p) \in Nat
    <2> TAKE i \in 1 .. n
    <2> TAKE p \in Nat
    <2>1. Aligned(ls[i], p) \in Nat /\ Length(ls[i]) \in Nat
      BY <1>2, AlignedIs, LengthIs
    <2> QED
      BY <2>1
  <1> HIDE DEF Step
  <1>4. F \in [Nat -> [Nat -> Nat]]
    BY <1>3
  <1>5. PICK g \in Runs(Nat, F, 1, n) : TRUE
    <2> HIDE DEF F
    <2>1. 1 \in Nat /\ Runs(Nat, F, 1, n) # {}
      BY <1>4, LoopRuns
    <2> QED
      BY <2>1
  <1>6. g \in [0 .. n -> Nat] /\ g[0] = 1 /\ \A i \in 1 .. n : g[i] = F[i][g[i - 1]]
    <2> HIDE DEF F
    <2> QED
      BY <1>5 DEF Runs
  <1>7. \A i \in 1 .. n : g[i] = Step(i, g[i - 1])
    <2> TAKE i \in 1 .. n
    <2>1. i - 1 \in 0 .. n /\ i \in Nat
      OBVIOUS
    <2>2. g[i - 1] \in Nat /\ g[i] = F[i][g[i - 1]]
      BY <1>6, <2>1
    <2> QED
      BY <2>1, <2>2
  <1> HIDE DEF F
  <1>8. Equation(g)
    <2>1. g = [i \in 0 .. n |-> g[i]]
      BY <1>6
    <2>2. \A i \in 0 .. n : g[i] = IF i = 0 THEN 1 ELSE Step(i, g[i - 1])
      BY <1>6, <1>7
    <2> QED
      BY <2>1, <2>2
  <1>9. Equation(f)
    BY <1>8, Zenon
  <1> HIDE DEF f
  <1>10. f = [i \in 0 .. n |-> IF i = 0 THEN 1 ELSE Step(i, f[i - 1])]
    BY <1>9, Zenon
  <1> HIDE DEF Equation
  <1>11. f[0] = 1 /\ \A i \in 1 .. n : f[i] = Step(i, f[i - 1])
    <2>1. \A i \in 0 .. n : f[i] = IF i = 0 THEN 1 ELSE Step(i, f[i - 1])
      BY <1>10
    <2> QED
      BY <2>1
  <1>12. f = g
    <2> DEFINE T == {i \in 0 .. n : f[i] # g[i]}
    <2>1. ASSUME NEW m \in T, \A i \in T : m <= i
          PROVE  FALSE
      <3>1. m \in 1 .. n /\ m - 1 \in 0 .. n /\ ~ (m <= m - 1)
        BY <1>6, <1>11
      <3>2. f[m - 1] = g[m - 1]
        BY <2>1, <3>1
      <3> QED
        BY <1>7, <1>11, <3>1, <3>2
    <2>2. T \subseteq Nat
      OBVIOUS
    <2> HIDE DEF T
    <2>3. T = {}
      BY <2>1, <2>2, LeastNumber
    <2>4. \A i \in 0 .. n : f[i] = g[i]
      BY <2>3 DEF T
    <2>5. DOMAIN f = 0 .. n /\ f = [i \in DOMAIN f |-> f[i]]
      BY <1>10
    <2> QED
      BY <1>6, <2>4, <2>5
  <1>13. f \in [0 .. n -> Nat]
    BY <1>6, <1>12
  <1>14. /\ Len(at) = n + 1 /\ DOMAIN at = 1 .. n + 1 /\ at[n + 1] = f[n]
         /\ \A i \in 1 .. n : at[i] = Aligned(ls[i], f[i - 1])
    OBVIOUS
  <1>15. \A i \in 1 .. n : f[i] = at[i] + Length(ls[i])
    BY <1>11, <1>14 DEF Step
  <1> HIDE DEF at
  <1> QED
    BY <1>1, <1>11, <1>13, <1>14, <1>15 DEF Laid

(* The lines come one after the other, with the operands aligned.          *)
Ordered(ls, n, at) ==
  /\ Len(at) = n + 1 /\ DOMAIN at = 1 .. n + 1
  /\ at \in [1 .. n + 1 -> Nat]
  /\ \A i \in 1 .. n + 1 : at[i] >= 1
  /\ \A i \in 1 .. n : \A j \in i + 1 .. n + 1 : at[i] + Length(ls[i]) <= at[j]
  /\ \A i \in 1 .. n :
       Length(ls[i]) > 2 /\ ls[i].instruction # "str" => (at[i] + 1) % 4 = 0

(* Positions are in order.                                                 *)
LEMMA PositionsOrdered ==
  ASSUME NEW ls \in Seq(LineTypes), NEW n \in Nat, Len(ls) = n
  PROVE  Ordered(ls, n, Positions(ls))
  <1>1. PICK at : at = Positions(ls)
    OBVIOUS
  <1>2. PICK end : Laid(ls, n, at, end)
    BY <1>1, PositionsLaid
  <1>3. \A i \in 1 .. n : ls[i] \in LineTypes
    OBVIOUS
  <1>4. ASSUME NEW i \in 1 .. n
        PROVE  /\ end[i - 1] \in Nat /\ end[i] \in Nat
               /\ at[i] \in Nat /\ at[i] >= end[i - 1] /\ at[i] <= end[i]
               /\ Length(ls[i]) \in Nat /\ end[i] = at[i] + Length(ls[i])
               /\ Length(ls[i]) > 2 /\ ls[i].instruction # "str" => (at[i] + 1) % 4 = 0
    <2>1. i - 1 \in 0 .. n /\ i \in 0 .. n
      OBVIOUS
    <2>2. end[i - 1] \in Nat /\ end[i] \in Nat
      BY <1>2, <2>1 DEF Laid
    <2>3. at[i] = Aligned(ls[i], end[i - 1]) /\ end[i] = at[i] + Length(ls[i])
      BY <1>2 DEF Laid
    <2>4. Length(ls[i]) \in Nat
      BY <1>3, LengthIs
    <2>5. /\ Aligned(ls[i], end[i - 1]) \in Nat
          /\ Aligned(ls[i], end[i - 1]) >= end[i - 1]
          /\ Length(ls[i]) > 2 /\ ls[i].instruction # "str"
               => (Aligned(ls[i], end[i - 1]) + 1) % 4 = 0
      BY <1>3, <2>2, AlignedIs
    <2> QED
      BY <2>2, <2>3, <2>4, <2>5
  <1>5. ASSUME NEW i \in 0 .. n
        PROVE  \A j \in i .. n : end[i] <= end[j]
    <2> DEFINE T == {j \in i .. n : ~ (end[i] <= end[j])}
    <2>1. ASSUME NEW m \in T, \A j \in T : m <= j
          PROVE  FALSE
      <3>1. end[i] \in Nat
        BY <1>2 DEF Laid
      <3>2. m # i
        BY <3>1
      <3>3. m \in 1 .. n /\ m - 1 \in i .. n /\ ~ (m <= m - 1)
        BY <3>2
      <3>4. end[i] <= end[m - 1]
        BY <2>1, <3>3
      <3>5. end[m - 1] <= end[m] /\ end[m - 1] \in Nat /\ end[m] \in Nat
        BY <1>4, <3>3, SMTT(30)
      <3> QED
        BY <3>1, <3>4, <3>5
    <2>2. T \subseteq Nat
      OBVIOUS
    <2> HIDE DEF T
    <2>3. T = {}
      BY <2>1, <2>2, LeastNumber
    <2> QED
      BY <2>3 DEF T
  <1>6. /\ Len(at) = n + 1 /\ DOMAIN at = 1 .. n + 1
        /\ at[n + 1] = end[n] /\ end[n] \in Nat /\ end[0] = 1
    BY <1>2 DEF Laid
  <1>7. at = [i \in 1 .. n + 1 |-> at[i]]
    <2>1. at = [i \in 1 .. Len(ls) + 1 |-> at[i]]
      BY <1>1 DEF Positions
    <2> QED
      BY <2>1
  <1>8. \A i \in 1 .. n + 1 : at[i] \in Nat
    BY <1>4, <1>6
  <1>9. ASSUME NEW i \in 1 .. n + 1
        PROVE  at[i] >= 1
    <2>1. CASE i \in 1 .. n
      <3>1. 0 \in 0 .. n /\ i - 1 \in 0 .. n
        OBVIOUS
      <3>2. end[0] <= end[i - 1]
        BY <1>5, <3>1
      <3> QED
        BY <1>4, <1>6, <2>1, <3>2, SMTT(30)
    <2>2. CASE i = n + 1
      <3>1. end[0] <= end[n]
        BY <1>5
      <3> QED
        BY <1>6, <2>2, <3>1
    <2> QED
      BY <2>1, <2>2
  <1>10. ASSUME NEW i \in 1 .. n, NEW j \in i + 1 .. n + 1
         PROVE  at[i] + Length(ls[i]) <= at[j]
    <2>1. end[i] = at[i] + Length(ls[i]) /\ end[i] \in Nat
      BY <1>4
    <2>2. CASE j \in 1 .. n
      <3>1. j - 1 \in i .. n /\ i \in 0 .. n
        OBVIOUS
      <3>2. end[i] <= end[j - 1]
        BY <1>5, <3>1
      <3>3. at[j] >= end[j - 1] /\ at[j] \in Nat /\ end[j - 1] \in Nat
        BY <1>4, <2>2
      <3> QED
        BY <2>1, <3>2, <3>3
    <2>3. CASE j = n + 1
      <3>1. i \in 0 .. n /\ n \in i .. n
        OBVIOUS
      <3>2. end[i] <= end[n]
        BY <1>5, <3>1
      <3> QED
        BY <1>6, <2>1, <2>3, <3>2
    <2> QED
      BY <2>2, <2>3
  <1>11. \A i \in 1 .. n :
           Length(ls[i]) > 2 /\ ls[i].instruction # "str" => (at[i] + 1) % 4 = 0
    BY <1>4
  <1>12. at \in [1 .. n + 1 -> Nat]
    BY <1>7, <1>8
  <1> QED
    BY <1>1, <1>6, <1>9, <1>10, <1>11, <1>12 DEF Ordered

-----------------------------------------------------------------------------
(* The bytecode                                                            *)

(* The bytes, and where its lines have been put, of a program that has     *)
(* been assembled.                                                         *)
Built(at, bytes) ==
  /\ lines \in Seq(LineTypes) /\ lines # <<>>
  /\ LabelsResolved /\ OperandsRight
  /\ at = Positions(lines)
  /\ bytes = Bytecode(at)

(* The positions where the byte is an instruction.                         *)
Entries(bytes) == {p \in DOMAIN bytes : bytes[p][1] = "instruction"}

(* The lines of the program.                                               *)
Program == 1 .. Len(lines)

(* The position of the guard value at the end.                             *)
Last(at) == at[Len(lines) + 1]

(* What is known of the lines and their positions.                         *)
LEMMA BuiltFacts ==
  ASSUME NEW at, NEW bytes, Built(at, bytes)
  PROVE  /\ Len(lines) \in Nat /\ Len(lines) >= 1
         /\ DOMAIN lines = Program
         /\ \A i \in Program : lines[i] \in LineTypes
         /\ Ordered(lines, Len(lines), at)
         /\ Len(at) = Len(lines) + 1
         /\ Last(at) \in Nat /\ Last(at) >= 1
  <1>1. /\ Len(lines) \in Nat /\ DOMAIN lines = Program
        /\ \A i \in Program : lines[i] \in LineTypes
    BY DEF Built, Program
  <1>2. Len(lines) >= 1
    <2>1. Len(lines) # 0
      BY Zenon, EmptySeq DEF Built
    <2> QED
      BY <1>1, <2>1
  <1>3. Ordered(lines, Len(lines), at)
    BY <1>1, PositionsOrdered DEF Built
  <1> QED
    BY <1>1, <1>2, <1>3 DEF Ordered, Last

(* A line is behind the first guard, before what follows it, and aligned.  *)
LEMMA InOrder ==
  ASSUME NEW at, NEW bytes, Built(at, bytes), NEW i \in Program
  PROVE  /\ at[i] \in Nat /\ at[i] >= 1
         /\ Length(lines[i]) \in Nat
         /\ lines[i].instruction = None <=> Length(lines[i]) = 0
         /\ at[i] + Length(lines[i]) <= Last(at)
         /\ \A j \in Program : i < j => at[i] + Length(lines[i]) <= at[j]
         /\ \A j \in Program : j < i => at[j] + Length(lines[j]) <= at[i]
         /\ Length(lines[i]) > 2 /\ lines[i].instruction # "str" => (at[i] + 1) % 4 = 0
  <1>1. PICK n : n = Len(lines)
    OBVIOUS
  <1>2. n \in Nat /\ n >= 1 /\ Ordered(lines, n, at) /\ lines[i] \in LineTypes /\ i \in 1 .. n
    BY <1>1, BuiltFacts DEF Program
  <1>3. /\ at \in [1 .. n + 1 -> Nat]
        /\ \A k \in 1 .. n + 1 : at[k] >= 1
        /\ \A k \in 1 .. n : \A j \in k + 1 .. n + 1 : at[k] + Length(lines[k]) <= at[j]
        /\ \A k \in 1 .. n :
             Length(lines[k]) > 2 /\ lines[k].instruction # "str" => (at[k] + 1) % 4 = 0
    BY <1>2 DEF Ordered
  <1>4. /\ Length(lines[i]) \in Nat
        /\ lines[i].instruction = None <=> Length(lines[i]) = 0
    BY <1>2, LengthIs
  <1>5. i \in 1 .. n + 1 /\ n + 1 \in i + 1 .. n + 1
    BY <1>2
  <1>6. /\ at[i] \in Nat /\ at[i] >= 1 /\ at[i] + Length(lines[i]) <= at[n + 1]
        /\ Length(lines[i]) > 2 /\ lines[i].instruction # "str" => (at[i] + 1) % 4 = 0
    BY <1>2, <1>3, <1>5
  <1>7. ASSUME NEW j \in Program, i < j
        PROVE  at[i] + Length(lines[i]) <= at[j]
    <2>1. j \in i + 1 .. n + 1
      BY <1>1, <1>2, <1>7 DEF Program
    <2> QED
      BY <1>2, <1>3, <2>1
  <1>8. ASSUME NEW j \in Program, j < i
        PROVE  at[j] + Length(lines[j]) <= at[i]
    <2>1. j \in 1 .. n /\ i \in j + 1 .. n + 1
      BY <1>1, <1>2, <1>8 DEF Program
    <2> QED
      BY <1>3, <2>1
  <1> QED
    BY <1>1, <1>4, <1>6, <1>7, <1>8 DEF Last

(* The bytes that are written of a line are its own.                       *)
LEMMA WrittenIs ==
  ASSUME NEW at, NEW bytes, Built(at, bytes), NEW i \in Program
  PROVE  /\ Written(i) \in Nat
         /\ Written(i) <= Length(lines[i])
         /\ lines[i].instruction = None <=> Written(i) = 0
         /\ lines[i].instruction = "symclone" => Written(i) = 1
         /\ Length(lines[i]) >= 2 /\ lines[i].instruction # "symclone" => Written(i) >= 2
  <1>1. /\ lines[i] \in LineTypes /\ i \in DOMAIN lines
        /\ Length(lines[i]) \in Nat
        /\ lines[i].instruction = None <=> Length(lines[i]) = 0
    BY BuiltFacts, InOrder
  <1>2. None # "symclone" /\ None # "str" /\ None # "string"
    BY NoneAssumption DEF Instructions
  <1>3. CASE lines[i].instruction = "symclone"
    <2>1. Length(lines[i]) = 1 + Word
      <3>1. instruction_sizes(lines[i].instruction) = 1 + Word
        BY <1>3 DEF instruction_sizes, Branches
      <3>2. /\ lines[i].instruction # None
            /\ lines[i].instruction \notin {"str", "string"}
        BY <1>2, <1>3
      <3>3. 1 + Word + 0 = 1 + Word
        BY AssemblerAssumption
      <3> QED
        BY <3>1, <3>2, <3>3, Zenon DEF Length
    <2>2. Written(i) = 1
      BY <1>3 DEF Written
    <2> QED
      BY <1>2, <1>3, <2>1, <2>2, AssemblerAssumption
  <1>4. CASE lines[i].instruction = "str"
    <2>1. lines[i].operand[1] = "string"
      <3>1. Requires(lines[i].instruction) = "string"
        BY <1>4 DEF Requires, Branches
      <3>2. Requires(lines[i].instruction) \in {None, lines[i].operand[1]}
        <4>1. OperandsRight
          BY DEF Built
        <4> QED
          BY <1>1, <4>1, Zenon DEF OperandsRight
      <3> QED
        BY <1>2, <3>1, <3>2
    <2>2. lines[i].operand[2] \in Nat
      BY <1>1, <2>1, OperandTypes
    <2>3. Length(lines[i]) = 2 + lines[i].operand[2]
      <3>1. instruction_sizes(lines[i].instruction) = 2
        BY <1>4 DEF instruction_sizes, Branches
      <3>2. /\ lines[i].instruction # None
            /\ lines[i].instruction \in {"str", "string"}
        BY <1>2, <1>4
      <3> QED
        BY <2>1, <3>1, <3>2, Zenon DEF Length
    <2>4. Written(i) = 2 + (lines[i].operand[2] % ByteRange)
      BY <1>4 DEF Written
    <2>5. /\ lines[i].operand[2] % ByteRange \in Nat
          /\ lines[i].operand[2] % ByteRange <= lines[i].operand[2]
      BY <2>2, AssemblerAssumption
    <2> QED
      BY <1>2, <1>4, <2>2, <2>3, <2>4, <2>5
  <1>5. CASE lines[i].instruction \notin {"symclone", "str"}
    <2>1. Written(i) = Length(lines[i])
      BY <1>5 DEF Written
    <2> QED
      BY <1>1, <1>5, <2>1
  <1> QED
    BY <1>3, <1>4, <1>5

(* Byte p is one that is written of line i.                                *)
Covers(i, at, p) == at[i] <= p /\ p < at[i] + Written(i)

(* No two lines have a byte in common.                                     *)
LEMMA CoversOnce ==
  ASSUME NEW at, NEW bytes, Built(at, bytes), NEW i \in Program, NEW j \in Program, NEW p \in Nat,
         Covers(i, at, p), Covers(j, at, p)
  PROVE  i = j
  <1>1. i \in Nat /\ j \in Nat
    BY DEF Program
  <1>2. /\ at[i] \in Nat /\ Written(i) \in Nat /\ Length(lines[i]) \in Nat
        /\ Written(i) <= Length(lines[i])
        /\ i < j => at[i] + Length(lines[i]) <= at[j]
        /\ j < i => at[j] + Length(lines[j]) <= at[i]
    BY InOrder, WrittenIs
  <1>3. /\ at[j] \in Nat /\ Written(j) \in Nat /\ Length(lines[j]) \in Nat
        /\ Written(j) <= Length(lines[j])
    BY InOrder, WrittenIs
  <1> QED
    BY <1>1, <1>2, <1>3 DEF Covers

(* The bytes are those of the lines, and NOOPs and guards between them.    *)
LEMMA CodeIs ==
  ASSUME NEW at, NEW bytes, Built(at, bytes)
  PROVE  /\ DOMAIN bytes = 0 .. Last(at)
         /\ bytes = [p \in 0 .. Last(at) |-> bytes[p]]
         /\ \A p \in 0 .. Last(at) : \A i \in Program :
              Covers(i, at, p) => bytes[p] = Byte(i, p - at[i], at)
         /\ \A p \in 0 .. Last(at) : (\A i \in Program : ~ Covers(i, at, p)) =>
              bytes[p] = <<"instruction", IF p \in {0, Last(at)} THEN "end" ELSE "noop">>
  <1>1. PICK last : last = Last(at)
    OBVIOUS
  <1>2. last \in Nat /\ at[Len(at)] = last /\ DOMAIN lines = Program
    BY <1>1, BuiltFacts DEF Last
  <1>3. /\ DOMAIN bytes = 0 .. last /\ bytes = [p \in 0 .. last |-> bytes[p]]
        /\ \A p \in 0 .. last : bytes[p] = ByteAt(p, at)
    BY <1>2 DEF Built, Bytecode
  <1>4. ASSUME NEW p \in 0 .. last
        PROVE  \A i : i \in Writers(p, at) <=> i \in Program /\ Covers(i, at, p)
    <2>1. \A i \in Program : at[i] \in Nat /\ Written(i) \in Nat
      BY InOrder, WrittenIs
    <2>2. p \in Nat
      BY <1>2
    <2>3. \A i \in Program : p - at[i] \in 0 .. Written(i) - 1 <=> Covers(i, at, p)
      BY <2>1, <2>2 DEF Covers
    <2> QED
      BY <1>2, <2>3 DEF Writers
  <1>5. ASSUME NEW p \in 0 .. last, NEW i \in Program, Covers(i, at, p)
        PROVE  bytes[p] = Byte(i, p - at[i], at)
    <2>1. PICK S : S = Writers(p, at)
      OBVIOUS
    <2>2. \A k : k \in S <=> k \in Program /\ Covers(k, at, p)
      BY <1>4, <2>1
    <2>3. p \in Nat
      BY <1>2
    <2>4. \A k \in S : k = i
      BY <1>5, <2>2, <2>3, CoversOnce
    <2>5. i \in S
      BY <1>5, <2>2
    <2>6. (CHOOSE k \in S : TRUE) = i
      BY <2>4, <2>5
    <2>7. ByteAt(p, at) = Byte(i, p - at[i], at)
      BY <2>1, <2>5, <2>6 DEF ByteAt
    <2> QED
      BY <1>3, <2>7
  <1>6. ASSUME NEW p \in 0 .. last, \A i \in Program : ~ Covers(i, at, p)
        PROVE  bytes[p] = <<"instruction", IF p \in {0, last} THEN "end" ELSE "noop">>
    <2>1. Writers(p, at) = {}
      BY <1>4, <1>6
    <2> QED
      BY <1>2, <1>3, <2>1 DEF ByteAt
  <1> QED
    BY <1>1, <1>3, <1>5, <1>6, Zenon

(* A position that is in the middle of no line has an instruction.         *)
LEMMA Boundary ==
  ASSUME NEW at, NEW bytes, Built(at, bytes), NEW p \in 0 .. Last(at),
         \A i \in Program : ~ (at[i] < p /\ p < at[i] + Written(i))
  PROVE  p \in Entries(bytes)
  <1>1. p \in DOMAIN bytes
    BY CodeIs
  <1>2. CASE \E i \in Program : Covers(i, at, p)
    <2>1. PICK i \in Program : Covers(i, at, p)
      BY <1>2
    <2>2. at[i] \in Nat /\ p \in Nat /\ p - at[i] = 0
      <3>1. at[i] \in Nat /\ Last(at) \in Nat
        BY InOrder, BuiltFacts
      <3>2. p \in Nat
        BY <3>1
      <3> QED
        BY <2>1, <3>1, <3>2 DEF Covers
    <2>3. bytes[p] = Byte(i, p - at[i], at)
      BY <2>1, CodeIs
    <2>4. bytes[p][1] = "instruction"
      BY <2>2, <2>3 DEF Byte
    <2> QED
      BY <1>1, <2>4 DEF Entries
  <1>3. CASE \A i \in Program : ~ Covers(i, at, p)
    <2>1. bytes[p] = <<"instruction", IF p \in {0, Last(at)} THEN "end" ELSE "noop">>
      BY <1>3, CodeIs
    <2> QED
      BY <1>1, <2>1 DEF Entries
  <1> QED
    BY <1>2, <1>3

(* So has every line's position, and the end.                              *)
LEMMA LineStarts ==
  ASSUME NEW at, NEW bytes, Built(at, bytes), NEW i \in Program
  PROVE  at[i] \in Entries(bytes)
  <1>1. /\ at[i] \in Nat /\ Last(at) \in Nat /\ Length(lines[i]) \in Nat
        /\ at[i] + Length(lines[i]) <= Last(at)
    BY InOrder, BuiltFacts
  <1>2. at[i] \in 0 .. Last(at)
    BY <1>1
  <1>3. ASSUME NEW j \in Program, at[j] < at[i], at[i] < at[j] + Written(j)
        PROVE  FALSE
    <2>1. /\ at[j] \in Nat /\ Written(j) \in Nat /\ Length(lines[j]) \in Nat
          /\ Written(j) <= Length(lines[j])
          /\ j < i => at[j] + Length(lines[j]) <= at[i]
          /\ i < j => at[i] + Length(lines[i]) <= at[j]
      BY InOrder, WrittenIs
    <2>2. i \in Nat /\ j \in Nat
      BY DEF Program
    <2> QED
      BY <1>1, <1>3, <2>1, <2>2
  <1> QED
    BY <1>2, <1>3, Boundary

(* And what follows the bytes of a line.                                   *)
LEMMA LineEnds ==
  ASSUME NEW at, NEW bytes, Built(at, bytes), NEW i \in Program, NEW q \in Nat,
         at[i] + Written(i) <= q, q <= at[i] + Length(lines[i])
  PROVE  q \in Entries(bytes)
  <1>1. /\ at[i] \in Nat /\ Last(at) \in Nat /\ Length(lines[i]) \in Nat
        /\ at[i] + Length(lines[i]) <= Last(at) /\ Written(i) \in Nat
    BY InOrder, BuiltFacts, WrittenIs
  <1>2. q \in 0 .. Last(at)
    BY <1>1
  <1>3. ASSUME NEW j \in Program, at[j] < q, q < at[j] + Written(j)
        PROVE  FALSE
    <2>1. /\ at[j] \in Nat /\ Written(j) \in Nat /\ Length(lines[j]) \in Nat
          /\ Written(j) <= Length(lines[j])
          /\ j < i => at[j] + Length(lines[j]) <= at[i]
          /\ i < j => at[i] + Length(lines[i]) <= at[j]
      BY InOrder, WrittenIs
    <2>2. i \in Nat /\ j \in Nat
      BY DEF Program
    <2> QED
      BY <1>1, <1>3, <2>1, <2>2
  <1> QED
    BY <1>2, <1>3, Boundary

(* The guards.                                                             *)
LEMMA Guards ==
  ASSUME NEW at, NEW bytes, Built(at, bytes)
  PROVE  /\ 0 \in Entries(bytes) /\ bytes[0] = <<"instruction", "end">>
         /\ 1 \in Entries(bytes)
         /\ Last(at) \in Entries(bytes) /\ bytes[Last(at)] = <<"instruction", "end">>
  <1>1. Last(at) \in Nat /\ Last(at) >= 1
    BY BuiltFacts
  <1>2. ASSUME NEW i \in Program
        PROVE  /\ at[i] \in Nat /\ at[i] >= 1 /\ Written(i) \in Nat
               /\ at[i] + Written(i) <= Last(at)
    <2>1. /\ at[i] \in Nat /\ at[i] >= 1 /\ Length(lines[i]) \in Nat
          /\ at[i] + Length(lines[i]) <= Last(at)
          /\ Written(i) \in Nat /\ Written(i) <= Length(lines[i])
      BY InOrder, WrittenIs
    <2> QED
      BY <1>1, <2>1
  <1>3. 0 \in 0 .. Last(at) /\ 1 \in 0 .. Last(at) /\ Last(at) \in 0 .. Last(at)
    BY <1>1
  <1>4. /\ \A i \in Program : ~ Covers(i, at, 0)
        /\ \A i \in Program : ~ Covers(i, at, Last(at))
    BY <1>1, <1>2 DEF Covers
  <1>5. bytes[0] = <<"instruction", "end">> /\ bytes[Last(at)] = <<"instruction", "end">>
    BY <1>3, <1>4, CodeIs
  <1>6. 0 \in Entries(bytes) /\ Last(at) \in Entries(bytes)
    BY <1>3, <1>5, CodeIs DEF Entries
  <1>7. \A i \in Program : ~ (at[i] < 1 /\ 1 < at[i] + Written(i))
    BY <1>2
  <1>8. 1 \in Entries(bytes)
    BY <1>3, <1>7, Boundary
  <1> QED
    BY <1>5, <1>6, <1>8

(* The instructions with an operand are those with more than a byte.       *)
WithOperand(i) == Length(lines[i]) >= 2 /\ lines[i].instruction # "symclone"

(* A label stands for the position of the one line that it is on.          *)
LEMMA LabelAt ==
  ASSUME NEW at, NEW bytes, Built(at, bytes), NEW key, key \in Keys, LinesOf(key) # {}
  PROVE  \E t \in Program : LinesOf(key) = {t} /\ LinePosition(key, at) = at[t]
  <1>1. PICK t : t \in LinesOf(key)
    OBVIOUS
  <1>2. t \in DOMAIN lines /\ lines[t].label = key
    BY <1>1 DEF LinesOf
  <1>3. t \in Program
    BY <1>2, BuiltFacts
  <1>4. lines[t].label # None
    BY <1>2, NoneAssumption DEF Keys
  <1>5. LinesOf(lines[t].label) = {t}
    <2>1. LabelsResolved
      BY DEF Built
    <2> QED
      BY <1>2, <1>4, <2>1, Zenon DEF LabelsResolved
  <1>6. LinesOf(key) = {t}
    BY <1>2, <1>5
  <1>7. LinePosition(key, at) = at[t]
    BY <1>6 DEF LinePosition
  <1> QED
    BY <1>3, <1>6, <1>7

(* What an instruction requires of its operand is so.                      *)
LEMMA OperandKind ==
  ASSUME NEW at, NEW bytes, Built(at, bytes), NEW i \in Program, WithOperand(i)
  PROVE  /\ lines[i].operand[1] = Requires(lines[i].instruction)
         /\ lines[i].operand[1] \in {"integer", "string", "location", "offset"}
         /\ lines[i].instruction # None
         /\ lines[i].operand[1] \in {"location", "offset"} =>
              /\ lines[i].operand[2] \in Keys
              /\ LinesOf(lines[i].operand[2]) # {}
         /\ lines[i].operand[1] \in {"integer", "string"} => lines[i].operand[2] \in Int
         /\ lines[i].operand[1] = "string" => lines[i].operand[2] \in Nat
  <1>1. /\ lines[i] \in LineTypes /\ i \in DOMAIN lines
        /\ lines[i].instruction = None <=> Length(lines[i]) = 0
    BY BuiltFacts, InOrder
  <1>2. PICK name : name = lines[i].instruction
    OBVIOUS
  <1>3. name # None /\ name # "symclone" /\ Length(lines[i]) >= 2
    BY <1>1, <1>2 DEF WithOperand
  <1>4. name \in {"byte", "open", "str", "string", "symdef", "call", "coro", "funlit", "int",
                  "symfind", "symundef"} \cup Branches
    <2>1. SUFFICES ASSUME name \notin {"byte", "open", "str", "string", "symdef", "call", "coro",
                                       "funlit", "int", "symfind", "symundef"} \cup Branches
                   PROVE  FALSE
      OBVIOUS
    <2>2. instruction_sizes(name) = 1
      BY <1>3, <2>1 DEF instruction_sizes
    <2>3. name \notin {"str", "string"}
      BY <2>1
    <2>4. Length(lines[i]) = 1 + 0
      BY <1>2, <1>3, <2>2, <2>3, Zenon DEF Length
    <2> QED
      BY <1>3, <2>4
  <1>5. Requires(name) \in {"integer", "string", "location", "offset"}
    BY <1>4 DEF Requires, Branches
  <1>6. Requires(name) # None
    <2>1. None \notin Kinds
      BY NoneAssumption
    <2> QED
      BY <1>5, <2>1 DEF Kinds
  <1>7. lines[i].operand[1] = Requires(name)
    <2>1. OperandsRight
      BY DEF Built
    <2>2. Requires(lines[i].instruction) \in {None, lines[i].operand[1]}
      BY <1>1, <2>1, Zenon DEF OperandsRight
    <2> QED
      BY <1>2, <1>6, <2>2
  <1>8. lines[i].operand[1] \in {"location", "offset"} =>
          lines[i].operand[2] \in Keys /\ LinesOf(lines[i].operand[2]) # {}
    <2>1. LabelsResolved
      BY DEF Built
    <2>2. IsReference(lines[i].operand) => LinesOf(lines[i].operand[2]) # {}
      BY <1>1, <2>1, Zenon DEF LabelsResolved
    <2>3. lines[i].operand[1] \in {"location", "offset"} => lines[i].operand[2] \in Keys
      BY <1>1, OperandTypes
    <2> QED
      BY <2>2, <2>3 DEF IsReference
  <1>9. /\ lines[i].operand[1] \in {"integer", "string"} => lines[i].operand[2] \in Int
        /\ lines[i].operand[1] = "string" => lines[i].operand[2] \in Nat
    BY <1>1, OperandTypes
  <1> QED
    BY <1>2, <1>3, <1>5, <1>7, <1>8, <1>9

(* The operand's first byte is one, whatever is in it.                     *)
LEMMA OperandTyped ==
  ASSUME NEW at, NEW bytes, Built(at, bytes), NEW i \in Program, WithOperand(i)
  PROVE  OperandByte(i, at) \in {"operand"} \X Int
  <1>1. /\ lines[i].operand[1] = Requires(lines[i].instruction)
        /\ lines[i].operand[1] \in {"integer", "string", "location", "offset"}
        /\ lines[i].operand[1] \in {"integer", "string"} => lines[i].operand[2] \in Int
    BY OperandKind
  <1>2. PICK name, kind, value : /\ name = lines[i].instruction
                                 /\ kind = lines[i].operand[1]
                                 /\ value = lines[i].operand[2]
    OBVIOUS
  <1>3. name # "symclone"
    BY <1>2 DEF WithOperand
  <1>4. ByteRange \in Nat \ {0}
    BY AssemblerAssumption
  <1>5. CASE kind \in {"location", "offset"}
    <2>1. PICK t \in Program : LinePosition(value, at) = at[t]
      <3>1. value \in Keys /\ LinesOf(value) # {}
        BY <1>2, <1>5, OperandKind
      <3> QED
        BY <3>1, LabelAt
    <2>2. LinePosition(value, at) \in Int /\ LinePosition(value, at) - at[i] \in Int
      BY <2>1, InOrder
    <2>3. name \notin {"byte", "open", "str"}
      BY <1>1, <1>2, <1>5 DEF Requires, Branches
    <2>4. OperandByte(i, at) \in {<<"operand", LinePosition(value, at)>>,
                                  <<"operand", LinePosition(value, at) - at[i]>>}
      BY <1>2, <1>3, <1>5, <2>3 DEF OperandByte
    <2> QED
      BY <2>2, <2>4
  <1>6. CASE kind \in {"integer", "string"}
    <2>1. value \in Int /\ value % ByteRange \in Int
      BY <1>1, <1>2, <1>4, <1>6
    <2>2. OperandByte(i, at) \in {<<"operand", value>>, <<"operand", value % ByteRange>>}
      BY <1>2, <1>3, <1>6 DEF OperandByte
    <2> QED
      BY <2>1, <2>2
  <1> QED
    BY <1>1, <1>2, <1>5, <1>6

(* The byte after an instruction with an operand is the operand's first.   *)
LEMMA OperandAt ==
  ASSUME NEW at, NEW bytes, Built(at, bytes), NEW i \in Program, WithOperand(i)
  PROVE  /\ at[i] + 1 \in DOMAIN bytes
         /\ bytes[at[i] + 1] = OperandByte(i, at)
  <1>1. /\ at[i] \in Nat /\ Last(at) \in Nat /\ Length(lines[i]) \in Nat
        /\ at[i] + Length(lines[i]) <= Last(at)
        /\ Written(i) \in Nat /\ Written(i) >= 2
    BY InOrder, BuiltFacts, WrittenIs DEF WithOperand
  <1>2. /\ at[i] + 1 \in 0 .. Last(at) /\ Covers(i, at, at[i] + 1)
        /\ (at[i] + 1) - at[i] = 1
    BY <1>1 DEF WithOperand, Covers
  <1>3. bytes[at[i] + 1] = Byte(i, (at[i] + 1) - at[i], at)
    BY <1>2, CodeIs
  <1>4. Byte(i, 1, at) = OperandByte(i, at)
    BY DEF Byte
  <1> QED
    BY <1>2, <1>3, <1>4, CodeIs

(* An instruction between lines is a NOOP or a guard; any other is the     *)
(* first byte of its line.                                                 *)
LEMMA EntryIs ==
  ASSUME NEW at, NEW bytes, Built(at, bytes), NEW p \in Entries(bytes)
  PROVE  /\ p \in 0 .. Last(at) /\ p \in Nat
         /\ \/ /\ \A i \in Program : ~ Covers(i, at, p)
               /\ bytes[p] = <<"instruction", IF p \in {0, Last(at)} THEN "end" ELSE "noop">>
            \/ \E i \in Program :
                 /\ p = at[i] /\ lines[i].instruction # None
                 /\ bytes[p] = <<"instruction", lines[i].instruction>>
  <1>1. p \in 0 .. Last(at) /\ bytes[p][1] = "instruction"
    BY CodeIs DEF Entries
  <1>2. p \in Nat /\ Last(at) \in Nat
    BY <1>1, BuiltFacts
  <1>3. CASE \A i \in Program : ~ Covers(i, at, p)
    BY <1>1, <1>2, <1>3, CodeIs
  <1>4. CASE \E i \in Program : Covers(i, at, p)
    <2>1. PICK i \in Program : Covers(i, at, p)
      BY <1>4
    <2>2. /\ at[i] \in Nat /\ Written(i) \in Nat /\ Length(lines[i]) \in Nat
          /\ Written(i) <= Length(lines[i])
          /\ lines[i].instruction = None <=> Written(i) = 0
          /\ lines[i].instruction = "symclone" => Written(i) = 1
      BY InOrder, WrittenIs
    <2>3. bytes[p] = Byte(i, p - at[i], at)
      BY <1>1, <2>1, CodeIs
    <2>4. lines[i].instruction # None
      BY <1>2, <2>1, <2>2 DEF Covers
    <2>5. CASE p = at[i]
      <3>1. p - at[i] = 0
        BY <1>2, <2>5
      <3>2. bytes[p] = <<"instruction", lines[i].instruction>>
        BY <2>3, <3>1 DEF Byte
      <3> QED
        BY <1>1, <1>2, <2>4, <2>5, <3>2
    <2>6. CASE p # at[i]
      <3>1. p - at[i] # 0 /\ Written(i) >= 2
        BY <1>2, <2>1, <2>2, <2>6 DEF Covers
      <3>2. CASE p - at[i] = 1
        <4>1. WithOperand(i)
          BY <2>2, <3>1 DEF WithOperand
        <4>2. OperandByte(i, at)[1] = "operand"
          BY <4>1, OperandTyped
        <4>3. bytes[p] = OperandByte(i, at)
          BY <2>3, <3>2 DEF Byte
        <4> QED
          BY <1>1, <4>2, <4>3
      <3>3. CASE p - at[i] # 1
        <4>1. bytes[p] = <<"rest">>
          BY <2>3, <3>1, <3>3 DEF Byte
        <4> QED
          BY <1>1, <4>1
      <3> QED
        BY <3>2, <3>3
    <2> QED
      BY <2>5, <2>6
  <1> QED
    BY <1>3, <1>4

(* An instruction that is fetched, but for NOOP and END, is a line's.      *)
LEMMA FetchedLine ==
  ASSUME NEW at, NEW bytes, Built(at, bytes), NEW p \in Entries(bytes),
         bytes[p][2] \notin {"noop", "end"}
  PROVE  \E i \in Program : p = at[i] /\ lines[i].instruction = bytes[p][2]
  <1>1. \/ bytes[p] = <<"instruction", IF p \in {0, Last(at)} THEN "end" ELSE "noop">>
        \/ \E i \in Program :
             p = at[i] /\ bytes[p] = <<"instruction", lines[i].instruction>>
    BY EntryIs
  <1> QED
    BY <1>1

(* Every byte is one.                                                      *)
LEMMA CodeTypes ==
  ASSUME NEW at, NEW bytes, Built(at, bytes)
  PROVE  bytes \in [0 .. Last(at) -> Bytes]
  <1>1. ASSUME NEW p \in 0 .. Last(at)
        PROVE  bytes[p] \in Bytes
    <2>1. CASE \A i \in Program : ~ Covers(i, at, p)
      <3>1. bytes[p] = <<"instruction", IF p \in {0, Last(at)} THEN "end" ELSE "noop">>
        BY <2>1, CodeIs
      <3> QED
        BY <3>1 DEF Bytes
    <2>2. CASE \E i \in Program : Covers(i, at, p)
      <3>1. PICK i \in Program : Covers(i, at, p)
        BY <2>2
      <3>2. /\ at[i] \in Nat /\ Written(i) \in Nat /\ Length(lines[i]) \in Nat
            /\ Written(i) <= Length(lines[i])
            /\ lines[i].instruction = "symclone" => Written(i) = 1
        BY InOrder, WrittenIs
      <3>3. p \in Nat
        BY BuiltFacts
      <3>4. bytes[p] = Byte(i, p - at[i], at)
        BY <3>1, CodeIs
      <3>5. CASE p - at[i] = 0
        <4>1. lines[i].instruction \in {line.instruction : line \in Lines}
          BY BuiltFacts, OperandTypes
        <4>2. bytes[p] = <<"instruction", lines[i].instruction>>
          BY <3>4, <3>5 DEF Byte
        <4> QED
          BY <4>1, <4>2 DEF Bytes
      <3>6. CASE p - at[i] = 1
        <4>1. WithOperand(i)
          BY <3>1, <3>2, <3>3, <3>6 DEF WithOperand, Covers
        <4>2. OperandByte(i, at) \in {"operand"} \X Int
          BY <4>1, OperandTyped
        <4>3. bytes[p] = OperandByte(i, at)
          BY <3>4, <3>6 DEF Byte
        <4> QED
          BY <4>2, <4>3 DEF Bytes
      <3>7. CASE p - at[i] \notin {0, 1}
        <4>1. bytes[p] = <<"rest">>
          BY <3>4, <3>7 DEF Byte
        <4> QED
          BY <4>1 DEF Bytes
      <3> QED
        BY <3>5, <3>6, <3>7
    <2> QED
      BY <2>1, <2>2
  <1>2. bytes = [p \in 0 .. Last(at) |-> bytes[p]]
    BY CodeIs
  <1> QED
    BY <1>1, <1>2

-----------------------------------------------------------------------------
(* What the parser makes of the text                                       *)

(* The lines of the text s, up to the i-th, that open a section.           *)
Globals(s, i) == {j \in 1 .. i : s[j].label # None /\ s[j].label[1] = "global"}

(* The last of the lines T.                                                *)
LastOf(T) == CHOOSE j \in T : \A k \in T : k <= j

(* The section that line i of the text s is in.                            *)
SectionOf(s, i) ==
  IF Globals(s, i) = {} THEN None ELSE s[LastOf(Globals(s, i))].label[2]

(* How line i of the text s is kept.                                       *)
ReadAs(s, i, line) ==
  /\ line.label = IF s[i].label = None THEN None ELSE KeyOf(s[i].label, SectionOf(s, i))
  /\ line.instruction = s[i].instruction
  /\ line.operand = IF IsReference(s[i].operand)
                      THEN <<s[i].operand[1], KeyOf(s[i].operand[2], SectionOf(s, i))>>
                      ELSE s[i].operand

(* g_lines is the text that has been read, with its labels resolved.       *)
TextRead ==
  /\ source \in Seq(Lines)
  /\ lines \in Seq(LineTypes)
  /\ Len(lines) = Len(source)
  /\ lastDefined = SectionOf(source, Len(source))
  /\ \A i \in 1 .. Len(source) : ReadAs(source, i, lines[i])

(* A set of lines that is not empty has a last one.                        *)
LEMMA LastLine ==
  ASSUME NEW n \in Nat, NEW T, T \subseteq 1 .. n, T # {}
  PROVE  LastOf(T) \in T /\ \A k \in T : k <= LastOf(T)
  <1> DEFINE U == {n - j : j \in T}
  <1>1. U \subseteq Nat /\ U # {}
    <2>1. \A j \in T : n - j \in Nat
      OBVIOUS
    <2>2. PICK j : j \in T
      OBVIOUS
    <2>3. n - j \in U
      BY <2>2
    <2> QED
      BY <2>1, <2>3
  <1>2. PICK m \in U : \A i \in U : m <= i
    <2> HIDE DEF U
    <2> QED
      BY <1>1, LeastNumber
  <1>3. PICK j \in T : m = n - j
    BY <1>2
  <1>4. ASSUME NEW k \in T
        PROVE  k <= j
    <2>1. n - k \in U /\ n - j <= n - k
      BY <1>2, <1>3
    <2> HIDE DEF U
    <2>2. j \in Nat /\ k \in Nat
      OBVIOUS
    <2> QED
      BY <2>1, <2>2
  <1>5. \A k \in T : k <= j
    BY <1>4
  <1> HIDE DEF U
  <1> QED
    BY <1>5 DEF LastOf

(* Labels, as the parser sees them.                                        *)
LEMMA LabelTypes ==
  ASSUME NEW line \in Lines
  PROVE  /\ line.label # None => line.label[1] \in {"global", "local"} /\ line.label[2] \in Names
         /\ line.label # None => line.label \in References
         /\ IsReference(line.operand) => line.operand[2] \in References
         /\ IsReference(line.operand) => line.operand[1] \in {"location", "offset"}
  <1>1. /\ line.label \in Labels \cup {None}
        /\ line.operand \in {<<"none">>} \cup ({"integer"} \X Int) \cup ({"string"} \X Nat)
                             \cup ({"location", "offset"} \X References)
    BY LinesAssumption
  <1>2. line.label # None => /\ line.label[1] \in {"global", "local"} /\ line.label[2] \in Names
                             /\ line.label \in References
    BY <1>1 DEF Labels, References
  <1>3. IsReference(line.operand) =>
          line.operand[2] \in References /\ line.operand[1] \in {"location", "offset"}
    BY <1>1 DEF IsReference
  <1> QED
    BY <1>2, <1>3

(* get_label returns a key.                                                *)
LEMMA KeysAre ==
  ASSUME NEW label \in References, NEW prim \in Names \cup {None}
  PROVE  KeyOf(label, prim) \in Keys
  <1>1. CASE label \in {"global"} \X Names
    BY <1>1 DEF KeyOf, Keys
  <1>2. CASE label \in {"local"} \X Names
    BY <1>2 DEF KeyOf, Keys
  <1>3. CASE label \in {"full"} \X Names \X Names
    BY <1>3 DEF KeyOf, Keys
  <1> QED
    BY <1>1, <1>2, <1>3 DEF References, Labels

(* A section is a name, or none.                                           *)
LEMMA SectionTypes ==
  ASSUME NEW s \in Seq(Lines), NEW i \in 0 .. Len(s)
  PROVE  SectionOf(s, i) \in Names \cup {None}
  <1>1. CASE Globals(s, i) = {}
    BY <1>1 DEF SectionOf
  <1>2. CASE Globals(s, i) # {}
    <2>1. PICK j : j = LastOf(Globals(s, i))
      OBVIOUS
    <2>2. j \in Globals(s, i)
      <3>1. Globals(s, i) \subseteq 1 .. i /\ i \in Nat
        BY DEF Globals
      <3> QED
        BY <1>2, <2>1, <3>1, LastLine
    <2>3. s[j] \in Lines /\ s[j].label # None
      BY <2>2 DEF Globals
    <2> QED
      BY <1>2, <2>1, <2>3, LabelTypes DEF SectionOf
  <1> QED
    BY <1>1, <1>2

(* Another line leaves the sections before it alone.                       *)
LEMMA SectionKept ==
  ASSUME NEW s \in Seq(Lines), NEW line \in Lines, NEW i \in 0 .. Len(s)
  PROVE  SectionOf(Append(s, line), i) = SectionOf(s, i)
  <1>1. PICK t : t = Append(s, line)
    OBVIOUS
  <1>2. \A j \in 1 .. Len(s) : t[j] = s[j]
    BY <1>1
  <1>3. Globals(t, i) = Globals(s, i)
    BY <1>2 DEF Globals
  <1>4. CASE Globals(s, i) = {}
    BY <1>1, <1>3, <1>4 DEF SectionOf
  <1>5. CASE Globals(s, i) # {}
    <2>1. PICK j : j = LastOf(Globals(s, i))
      OBVIOUS
    <2>2. j \in Globals(s, i)
      <3>1. Globals(s, i) \subseteq 1 .. i /\ i \in Nat
        BY DEF Globals
      <3> QED
        BY <1>5, <2>1, <3>1, LastLine
    <2>3. t[j] = s[j]
      BY <1>2, <2>2 DEF Globals
    <2> QED
      BY <1>1, <1>3, <2>1, <2>3 DEF SectionOf
  <1> QED
    BY <1>4, <1>5

(* A global label opens a section, and nothing else does.                  *)
LEMMA SectionOpened ==
  ASSUME NEW s \in Seq(Lines), NEW line \in Lines
  PROVE  SectionOf(Append(s, line), Len(s) + 1) =
           IF line.label # None /\ line.label[1] = "global" THEN line.label[2]
           ELSE SectionOf(s, Len(s))
  <1>1. PICK t, n : t = Append(s, line) /\ n = Len(s)
    OBVIOUS
  <1>2. n \in Nat /\ t[n + 1] = line /\ \A j \in 1 .. n : t[j] = s[j]
    BY <1>1
  <1>3. CASE line.label # None /\ line.label[1] = "global"
    <2>1. n + 1 \in Globals(t, n + 1)
      BY <1>2, <1>3 DEF Globals
    <2>2. PICK j : j = LastOf(Globals(t, n + 1))
      OBVIOUS
    <2>3. Globals(t, n + 1) \subseteq 1 .. n + 1
      BY DEF Globals
    <2>4. j \in 1 .. n + 1 /\ n + 1 <= j
      <3>1. n + 1 \in Nat
        BY <1>2
      <3>2. j \in Globals(t, n + 1) /\ \A k \in Globals(t, n + 1) : k <= j
        BY <2>1, <2>2, <2>3, <3>1, LastLine
      <3> QED
        BY <2>1, <2>3, <3>2
    <2>5. j = n + 1
      BY <1>2, <2>4
    <2>6. SectionOf(t, n + 1) = t[j].label[2]
      BY <2>1, <2>2 DEF SectionOf
    <2> QED
      BY <1>1, <1>2, <1>3, <2>5, <2>6
  <1>4. CASE ~ (line.label # None /\ line.label[1] = "global")
    <2>1. Globals(t, n + 1) = Globals(t, n)
      BY <1>2, <1>4 DEF Globals
    <2>2. SectionOf(t, n + 1) = SectionOf(t, n)
      BY <2>1 DEF SectionOf
    <2>3. SectionOf(t, n) = SectionOf(s, n)
      <3>1. n \in 0 .. Len(s)
        BY <1>1, <1>2
      <3> QED
        BY <1>1, <3>1, SectionKept
    <2> QED
      BY <1>1, <1>4, <2>2, <2>3, Zenon
  <1> QED
    BY <1>3, <1>4

(* ReadLine keeps the text and the lines in step.                          *)
LEMMA TextReadLine ==
  ASSUME TextRead, NEW line \in Lines, ReadLine(line)
  PROVE  TextRead'
  <1> DEFINE defined == IF line.label # None /\ line.label[1] = "global"
                          THEN line.label[2] ELSE lastDefined
             kept == [label |-> IF line.label = None THEN None
                                ELSE KeyOf(line.label, lastDefined),
                      instruction |-> line.instruction,
                      operand |-> IF IsReference(line.operand)
                                    THEN <<line.operand[1], KeyOf(line.operand[2], defined)>>
                                    ELSE line.operand]
  <1>1. PICK n : n = Len(source)
    OBVIOUS
  <1>2. /\ source \in Seq(Lines) /\ lines \in Seq(LineTypes) /\ n \in Nat
        /\ Len(lines) = n /\ lastDefined = SectionOf(source, n)
        /\ \A i \in 1 .. n : ReadAs(source, i, lines[i])
    BY <1>1 DEF TextRead
  <1>3. PICK new : new = kept
    OBVIOUS
  <1>4. PICK section : section = defined
    OBVIOUS
  <1>5. /\ source' = Append(source, line) /\ lines' = Append(lines, new)
        /\ lastDefined' = section
    BY <1>3, <1>4 DEF ReadLine
  <1>6. /\ new.label = IF line.label = None THEN None ELSE KeyOf(line.label, lastDefined)
        /\ new.instruction = line.instruction
        /\ new.operand = IF IsReference(line.operand)
                           THEN <<line.operand[1], KeyOf(line.operand[2], section)>>
                           ELSE line.operand
        /\ new = [label |-> new.label, instruction |-> new.instruction, operand |-> new.operand]
    BY <1>3, <1>4
  <1>7. /\ section = IF line.label # None /\ line.label[1] = "global"
                       THEN line.label[2] ELSE lastDefined
    BY <1>4
  <1> HIDE DEF kept, defined
  <1>8. lastDefined \in Names \cup {None}
    BY <1>1, <1>2, SectionTypes
  <1>9. section \in Names \cup {None}
    BY <1>7, <1>8, LabelTypes
  <1>10. section = SectionOf(source', n + 1)
    BY <1>1, <1>2, <1>5, <1>7, SectionOpened
  <1>11. new \in LineTypes
    <2>1. new.label \in Keys \cup {None}
      BY <1>6, <1>8, LabelTypes, KeysAre
    <2>2. new.instruction \in {l.instruction : l \in Lines}
      BY <1>6
    <2>3. new.operand \in {<<"none">>} \cup ({"integer"} \X Int) \cup ({"string"} \X Nat)
                           \cup ({"location", "offset"} \X Keys)
      <3>1. CASE IsReference(line.operand)
        <4>1. KeyOf(line.operand[2], section) \in Keys
          BY <1>9, <3>1, LabelTypes, KeysAre
        <4>2. line.operand[1] \in {"location", "offset"}
          BY <3>1, LabelTypes
        <4> QED
          BY <1>6, <3>1, <4>1, <4>2
      <3>2. CASE ~ IsReference(line.operand)
        <4>1. line.operand \in {<<"none">>} \cup ({"integer"} \X Int) \cup ({"string"} \X Nat)
                                \cup ({"location", "offset"} \X References)
          BY LinesAssumption
        <4>2. line.operand \notin {"location", "offset"} \X References
          BY <3>2 DEF IsReference
        <4> QED
          BY <1>6, <3>2, <4>1, <4>2
      <3> QED
        BY <3>1, <3>2
    <2> QED
      BY <1>6, <2>1, <2>2, <2>3 DEF LineTypes
  <1>12. /\ source' \in Seq(Lines) /\ lines' \in Seq(LineTypes)
         /\ Len(source') = n + 1 /\ Len(lines') = n + 1
         /\ source'[n + 1] = line /\ lines'[n + 1] = new
         /\ \A i \in 1 .. n : source'[i] = source[i] /\ lines'[i] = lines[i]
    BY <1>1, <1>2, <1>5, <1>11
  <1>13. ASSUME NEW i \in 1 .. n + 1
         PROVE  ReadAs(source', i, lines'[i])
    <2>1. CASE i \in 1 .. n
      <3>1. SectionOf(source', i) = SectionOf(source, i)
        BY <1>1, <1>2, <1>5, <2>1, SectionKept
      <3>2. ReadAs(source, i, lines[i]) /\ source'[i] = source[i] /\ lines'[i] = lines[i]
        BY <1>2, <1>12, <2>1
      <3> QED
        BY <3>1, <3>2, Zenon DEF ReadAs
    <2>2. CASE i = n + 1
      <3>1. line.label # None => KeyOf(line.label, lastDefined) = KeyOf(line.label, section)
        <4>1. CASE line.label # None /\ line.label[1] = "global"
          BY <4>1 DEF KeyOf
        <4>2. CASE ~ (line.label # None /\ line.label[1] = "global")
          BY <1>7, <4>2
        <4> QED
          BY <4>1, <4>2
      <3>2. /\ new.label = IF line.label = None THEN None ELSE KeyOf(line.label, section)
            /\ new.instruction = line.instruction
            /\ new.operand = IF IsReference(line.operand)
                               THEN <<line.operand[1], KeyOf(line.operand[2], section)>>
                               ELSE line.operand
        BY <1>6, <3>1
      <3>3. source'[i] = line /\ lines'[i] = new /\ SectionOf(source', i) = section
        BY <1>10, <1>12, <2>2
      <3> QED
        BY <3>2, <3>3, Zenon DEF ReadAs
    <2> QED
      BY <1>2, <2>1, <2>2
  <1>14. lastDefined' = SectionOf(source', Len(source'))
    BY <1>5, <1>10, <1>12
  <1> QED
    BY <1>12, <1>13, <1>14 DEF TextRead

-----------------------------------------------------------------------------
(* What the instructions find, and where they go on                        *)

(* Position q is past the bytes of line i, and before those of the next.   *)
Follows(i, q, at, bytes) ==
  /\ q \in Entries(bytes) /\ q \in Nat
  /\ at[i] < q /\ q <= at[i] + Length(lines[i])

(* A position that a line's bytes end before follows the line.             *)
LEMMA FollowsIs ==
  ASSUME NEW at, NEW bytes, Built(at, bytes), NEW i \in Program, NEW q \in Nat,
         lines[i].instruction # None,
         at[i] + Written(i) <= q, q <= at[i] + Length(lines[i])
  PROVE  Follows(i, q, at, bytes)
  <1>1. q \in Entries(bytes)
    BY LineEnds
  <1>2. at[i] \in Nat /\ Written(i) \in Nat /\ Written(i) # 0
    BY InOrder, WrittenIs
  <1>3. at[i] < q
    BY <1>2
  <1> QED
    BY <1>1, <1>3 DEF Follows

(* No instruction is NULL.                                                 *)
LEMMA InstructionNames ==
  None \notin {"byte", "open", "int", "str", "string", "symfind", "symclone", "call", "coro",
               "funlit", "end"} \cup Branches
  BY NoneAssumption DEF Instructions, Branches

(* A literal is followed by the next line, whatever is left of a string.   *)
LEMMA LiteralLine ==
  ASSUME NEW at, NEW bytes, Built(at, bytes), NEW p \in Entries(bytes),
         NEW name, name = bytes[p][2], name \in {"byte", "int", "str", "string", "symfind"},
         NEW incr, incr = instruction_sizes(name)
                          + (IF name \in {"str", "string"} THEN bytes[p + 1][2] ELSE 0)
  PROVE  \E i \in Program :
           /\ p = at[i] /\ lines[i].instruction = name /\ WithOperand(i)
           /\ bytes[p + 1] = OperandByte(i, at)
           /\ incr \in Nat /\ incr # 0 /\ Follows(i, p + incr, at, bytes)
  <1>1. PICK i \in Program : p = at[i] /\ lines[i].instruction = name
    <2>1. bytes[p][2] \notin {"noop", "end"}
      OBVIOUS
    <2> QED
      BY <2>1, FetchedLine
  <1>2. name # None
    BY InstructionNames
  <1>3. PICK m : m = IF name \in {"str", "string"} /\ lines[i].operand[1] = "string"
                       THEN lines[i].operand[2] ELSE 0
    OBVIOUS
  <1>4. PICK size : size = instruction_sizes(name)
    OBVIOUS
  <1>5. Length(lines[i]) = size + m
    BY <1>1, <1>2, <1>3, <1>4, Zenon DEF Length
  <1>6. size \in Nat /\ size >= 2 /\ (name = "str" => size = 2)
    BY <1>4, AssemblerAssumption DEF instruction_sizes, Branches
  <1>7. /\ Length(lines[i]) \in Nat /\ p \in Nat
        /\ Written(i) \in Nat /\ Written(i) <= Length(lines[i])
    BY <1>1, InOrder, WrittenIs
  <1>8. m \in Nat
    <2>1. lines[i].operand[1] = "string" => lines[i].operand[2] \in Nat
      BY BuiltFacts, OperandTypes
    <2> QED
      BY <1>3, <2>1
  <1>9. WithOperand(i)
    <2>1. Length(lines[i]) >= 2
      BY <1>5, <1>6, <1>8
    <2>2. lines[i].instruction # "symclone"
      BY <1>1
    <2> QED
      BY <2>1, <2>2 DEF WithOperand
  <1>10. bytes[p + 1] = OperandByte(i, at)
    BY <1>1, <1>9, OperandAt
  <1>11. lines[i].operand[1] = Requires(name)
    BY <1>1, <1>9, OperandKind
  <1>12. CASE name = "str"
    <2>1. lines[i].operand[1] = "string"
      BY <1>11, <1>12 DEF Requires, Branches
    <2>2. OperandByte(i, at) = <<"operand", lines[i].operand[2] % ByteRange>>
      <3>1. lines[i].operand[2] \in Nat
        BY <1>9, <2>1, OperandKind
      <3>2. /\ lines[i].instruction # "symclone" /\ lines[i].instruction = "str"
            /\ lines[i].instruction \notin {"byte", "open"}
        BY <1>1, <1>12
      <3> QED
        BY <2>1, <3>1, <3>2, AssemblerAssumption DEF OperandByte
    <2>3. PICK u : u = lines[i].operand[2] % ByteRange
      OBVIOUS
    <2>4. incr = size + u
      BY <1>4, <1>10, <1>12, <2>2, <2>3
    <2>5. u \in Nat
      <3>1. m = lines[i].operand[2]
        BY <1>3, <1>12, <2>1
      <3> QED
        BY <1>8, <2>3, <3>1, AssemblerAssumption
    <2>6. Written(i) = 2 + u
      BY <1>1, <1>12, <2>3 DEF Written
    <2>7. size = 2
      BY <1>6, <1>12
    <2>8. /\ incr \in Nat /\ incr # 0 /\ p + incr \in Nat
          /\ at[i] + Written(i) <= p + incr
          /\ p + incr <= at[i] + Length(lines[i])
      BY <1>1, <1>7, <2>4, <2>5, <2>6, <2>7
    <2>9. Follows(i, p + incr, at, bytes)
      BY <1>1, <1>2, <2>8, FollowsIs
    <2> QED
      BY <1>1, <1>9, <1>10, <2>8, <2>9
  <1>13. CASE name # "str"
    <2>1. incr = size + m
      <3>1. CASE name = "string"
        <4>1. lines[i].operand[1] = "string"
          BY <1>11, <3>1 DEF Requires, Branches
        <4>2. OperandByte(i, at) = <<"operand", lines[i].operand[2]>>
          BY <1>1, <3>1, <4>1 DEF OperandByte
        <4>3. m = bytes[p + 1][2]
          BY <1>3, <1>10, <3>1, <4>1, <4>2
        <4> QED
          BY <1>4, <3>1, <4>3
      <3>2. CASE name # "string"
        <4>1. m = 0 /\ name \notin {"str", "string"}
          BY <1>3, <1>13, <3>2
        <4> QED
          BY <1>4, <4>1
      <3> QED
        BY <3>1, <3>2
    <2>2. /\ incr \in Nat /\ incr # 0 /\ p + incr \in Nat
          /\ at[i] + Written(i) <= p + incr
          /\ p + incr <= at[i] + Length(lines[i])
      BY <1>1, <1>5, <1>6, <1>7, <1>8, <2>1
    <2>3. Follows(i, p + incr, at, bytes)
      BY <1>1, <1>2, <2>2, FollowsIs
    <2> QED
      BY <1>1, <1>9, <1>10, <2>2, <2>3
  <1> QED
    BY <1>12, <1>13

(* A branch, a call or a function literal finds the line that its label is *)
(* on, and is followed by the next line.                                   *)
LEMMA LabelLine ==
  ASSUME NEW at, NEW bytes, Built(at, bytes), NEW p \in Entries(bytes),
         NEW name, name = bytes[p][2], name \in Branches \cup {"call", "coro", "funlit"}
  PROVE  \E i \in Program : \E t \in Program :
           /\ p = at[i] /\ lines[i].instruction = name /\ WithOperand(i)
           /\ Follows(i, p + 1 + Word, at, bytes)
           /\ lines[i].operand[1] \in {"location", "offset"} /\ lines[i].operand[2] \in Keys
           /\ LinesOf(lines[i].operand[2]) = {t}
           /\ bytes[p + 1][2] = IF name \in Branches THEN at[t] - at[i] ELSE at[t]
  <1>1. PICK i \in Program : p = at[i] /\ lines[i].instruction = name
    <2>1. bytes[p][2] \notin {"noop", "end"}
      BY DEF Branches
    <2> QED
      BY <2>1, FetchedLine
  <1>2. name # None
    BY InstructionNames
  <1>3. name \notin {"str", "string", "symclone", "byte", "open"}
    BY DEF Branches
  <1>4. instruction_sizes(name) = 1 + Word
    BY DEF instruction_sizes, Branches
  <1>5. Length(lines[i]) = 1 + Word
    <2>1. 1 + Word + 0 = 1 + Word
      BY AssemblerAssumption
    <2> QED
      BY <1>1, <1>2, <1>3, <1>4, <2>1, Zenon DEF Length
  <1>6. WithOperand(i)
    BY <1>1, <1>3, <1>5, AssemblerAssumption DEF WithOperand
  <1>7. Follows(i, p + 1 + Word, at, bytes)
    <2>1. p \in Nat /\ Written(i) \in Nat /\ Written(i) <= Length(lines[i])
      BY <1>1, InOrder, WrittenIs
    <2>2. /\ p + 1 + Word \in Nat
          /\ at[i] + Written(i) <= p + 1 + Word
          /\ p + 1 + Word <= at[i] + Length(lines[i])
      BY <1>1, <1>5, <2>1, AssemblerAssumption
    <2> QED
      BY <1>1, <1>2, <2>2, FollowsIs
  <1>8. lines[i].operand[1] = IF name \in Branches THEN "offset" ELSE "location"
    <2>1. Requires(name) = IF name \in Branches THEN "offset" ELSE "location"
      BY DEF Requires, Branches
    <2> QED
      BY <1>1, <1>6, <2>1, OperandKind
  <1>9. lines[i].operand[2] \in Keys /\ LinesOf(lines[i].operand[2]) # {}
    BY <1>6, <1>8, OperandKind
  <1>10. PICK t \in Program : /\ LinesOf(lines[i].operand[2]) = {t}
                              /\ LinePosition(lines[i].operand[2], at) = at[t]
    BY <1>9, LabelAt
  <1>11. OperandByte(i, at) = <<"operand", IF name \in Branches THEN at[t] - at[i] ELSE at[t]>>
    BY <1>1, <1>3, <1>8, <1>10 DEF OperandByte
  <1>12. bytes[p + 1] = OperandByte(i, at)
    BY <1>1, <1>6, OperandAt
  <1>13. bytes[p + 1][2] = IF name \in Branches THEN at[t] - at[i] ELSE at[t]
    BY <1>11, <1>12
  <1> QED
    BY <1>1, <1>6, <1>7, <1>8, <1>9, <1>10, <1>13

(* An instruction of one byte is followed by the next line.                *)
LEMMA ShortLine ==
  ASSUME NEW at, NEW bytes, Built(at, bytes), NEW p \in Entries(bytes),
         bytes[p][2] \in {"frcall", "return"}
  PROVE  \E i \in Program :
           /\ p = at[i] /\ lines[i].instruction = bytes[p][2] /\ lines[i].instruction # None
           /\ Follows(i, p + 1, at, bytes)
  <1>1. PICK i \in Program : /\ p = at[i] /\ lines[i].instruction = bytes[p][2]
                             /\ lines[i].instruction # None
    BY EntryIs
  <1>2. PICK name : name = lines[i].instruction
    OBVIOUS
  <1>3. instruction_sizes(name) = 1 /\ name \notin {"str", "string"}
    BY <1>1, <1>2 DEF instruction_sizes, Branches
  <1>4. Length(lines[i]) = 1 + 0
    BY <1>1, <1>2, <1>3, Zenon DEF Length
  <1>5. Follows(i, p + 1, at, bytes)
    <2>1. p \in Nat /\ Written(i) \in Nat /\ Written(i) <= Length(lines[i])
      BY <1>1, InOrder, WrittenIs
    <2>2. /\ p + 1 \in Nat /\ at[i] + Written(i) <= p + 1
          /\ p + 1 <= at[i] + Length(lines[i])
      BY <1>1, <1>4, <2>1
    <2> QED
      BY <1>1, <2>2, FollowsIs
  <1> QED
    BY <1>1, <1>5

(* A NOOP is one of the text or one between two lines.                     *)
LEMMA PlainLine ==
  ASSUME NEW at, NEW bytes, Built(at, bytes), NEW p \in Entries(bytes),
         NEW name, name = bytes[p][2], name \in {"noop", "symclone"}
  PROVE  /\ instruction_sizes(name) \in Nat \ {0}
         /\ \/ /\ name = "noop" /\ p >= 1
               /\ \A i \in Program : ~ Covers(i, at, p)
               /\ p + 1 \in Entries(bytes)
            \/ \E i \in Program :
                 /\ p = at[i] /\ lines[i].instruction = name /\ lines[i].instruction # None
                 /\ Follows(i, p + instruction_sizes(name), at, bytes)
  <1>1. PICK size : size = instruction_sizes(name)
    OBVIOUS
  <1>2. size \in Nat \ {0} /\ (name = "noop" => size = 1)
    BY <1>1, AssemblerAssumption DEF instruction_sizes, Branches
  <1>3. p \in 0 .. Last(at) /\ p \in Nat /\ Last(at) \in Nat
    BY EntryIs, BuiltFacts
  <1>4. CASE /\ \A i \in Program : ~ Covers(i, at, p)
             /\ bytes[p] = <<"instruction", IF p \in {0, Last(at)} THEN "end" ELSE "noop">>
    <2>1. p \notin {0, Last(at)} /\ name = "noop"
      BY <1>4
    <2>2. p + 1 \in 0 .. Last(at) /\ p >= 1
      BY <1>3, <2>1
    <2>3. \A i \in Program : ~ (at[i] < p + 1 /\ p + 1 < at[i] + Written(i))
      <3> TAKE i \in Program
      <3>1. at[i] \in Nat /\ Written(i) \in Nat /\ ~ Covers(i, at, p)
        BY <1>4, InOrder, WrittenIs
      <3> QED
        BY <1>3, <3>1 DEF Covers
    <2>4. p + 1 \in Entries(bytes)
      BY <2>2, <2>3, Boundary
    <2> QED
      BY <1>1, <1>2, <1>4, <2>1, <2>2, <2>4
  <1>5. CASE \E i \in Program : /\ p = at[i] /\ lines[i].instruction # None
                                /\ bytes[p] = <<"instruction", lines[i].instruction>>
    <2>1. PICK i \in Program : /\ p = at[i] /\ lines[i].instruction # None
                               /\ bytes[p] = <<"instruction", lines[i].instruction>>
      BY <1>5
    <2>2. lines[i].instruction = name /\ name \notin {"str", "string"}
      BY <2>1
    <2>3. Length(lines[i]) = size + 0
      BY <1>1, <2>1, <2>2, Zenon DEF Length
    <2>4. Follows(i, p + size, at, bytes)
      <3>1. Written(i) \in Nat /\ Written(i) <= Length(lines[i])
        BY InOrder, WrittenIs
      <3>2. /\ p + size \in Nat /\ at[i] + Written(i) <= p + size
            /\ p + size <= at[i] + Length(lines[i])
        BY <1>2, <1>3, <2>1, <2>3, <3>1
      <3> QED
        BY <2>1, <3>2, FollowsIs
    <2> QED
      BY <1>1, <1>2, <2>1, <2>2, <2>4
  <1> QED
    BY <1>1, <1>2, <1>4, <1>5, EntryIs

-----------------------------------------------------------------------------
(* The invariant                                                           *)

(* A program that runs was assembled, and the counter, what is on the      *)
(* return stack and the function reference are positions of instructions.  *)
Running ==
  /\ Built(position, code)
  /\ counter \in Entries(code)
  /\ returns \in Seq(Entries(code))
  /\ Len(returns) = 0 => counter = 0
  /\ Len(returns) >= 1 => returns[1] = 0
  /\ function \in Entries(code) \cup {None}

(* The invariant: nothing runs while the text is read.                     *)
AssemblerIInv ==
  /\ TextRead
  /\ phase \in {"reading", "running", "rejected", "ended", "aborted"}
  /\ phase = "reading" =>
       position = <<>> /\ counter = 0 /\ returns = <<>> /\ function = None
  /\ phase = "running" => Running

(* Steps that leave the lines alone leave what has been built of them.     *)
LEMMA BuiltStays ==
  ASSUME NEW at, NEW bytes, Built(at, bytes), UNCHANGED lines
  PROVE  Built(at, bytes)'
  <1>1. /\ lines' = lines
        /\ lines \in Seq(LineTypes) /\ lines # <<>>
        /\ LabelsResolved /\ OperandsRight
        /\ at = Positions(lines) /\ bytes = Bytecode(at)
    BY DEF Built
  <1>2. LabelsResolved'
    BY <1>1 DEF LabelsResolved, LinesOf
  <1>3. OperandsRight'
    BY <1>1 DEF OperandsRight
  <1>4. Bytecode(at)' = Bytecode(at)
    <2>1. \A key : LinesOf(key)' = LinesOf(key)
      BY <1>1 DEF LinesOf
    <2>2. \A key, a : LinePosition(key, a)' = LinePosition(key, a)
      BY <2>1 DEF LinePosition
    <2>3. \A i, a : OperandByte(i, a)' = OperandByte(i, a)
      BY <1>1, <2>2 DEF OperandByte
    <2>4. \A i : Written(i)' = Written(i)
      BY <1>1 DEF Written
    <2>5. \A i, k, a : Byte(i, k, a)' = Byte(i, k, a)
      BY <1>1, <2>3 DEF Byte
    <2>6. \A p, a : Writers(p, a)' = Writers(p, a)
      BY <1>1, <2>4 DEF Writers
    <2>7. \A p : ByteAt(p, at)' = ByteAt(p, at)
      <3> TAKE p
      <3>1. PICK S, i : S = Writers(p, at) /\ i = CHOOSE j \in S : TRUE
        OBVIOUS
      <3>2. Writers(p, at)' = S
        BY <2>6, <3>1
      <3>3. ByteAt(p, at) = IF S = {}
                              THEN <<"instruction", IF p \in {0, at[Len(at)]} THEN "end" ELSE "noop">>
                              ELSE Byte(i, p - at[i], at)
        BY <3>1 DEF ByteAt
      <3>4. ByteAt(p, at)' = IF S = {}
                              THEN <<"instruction", IF p \in {0, at[Len(at)]} THEN "end" ELSE "noop">>
                              ELSE Byte(i, p - at[i], at)'
        BY <3>1, <3>2 DEF ByteAt
      <3>5. Byte(i, p - at[i], at)' = Byte(i, p - at[i], at)
        BY <2>5
      <3> QED
        BY <3>3, <3>4, <3>5
    <2> QED
      BY <1>1, <2>7 DEF Bytecode
  <1> QED
    BY <1>1, <1>2, <1>3, <1>4 DEF Built

(* So do they in the next state.                                           *)
LEMMA BuiltKept ==
  ASSUME Built(position, code), UNCHANGED assembled
  PROVE  Built(position, code)'
  <1>1. PICK at, bytes : at = position /\ bytes = code
    OBVIOUS
  <1>2. /\ lines' = lines /\ position' = at /\ code' = bytes
        /\ Built(at, bytes)
    BY <1>1 DEF assembled
  <1>3. Built(at, bytes)'
    BY <1>2, BuiltStays
  <1>4. /\ lines' \in Seq(LineTypes) /\ lines' # <<>>
        /\ LabelsResolved' /\ OperandsRight'
        /\ at = Positions(lines') /\ bytes = Bytecode(at)'
    BY <1>3 DEF Built
  <1> QED
    BY <1>2, <1>4 DEF Built

(* And the text that has been read.                                        *)
LEMMA TextKept ==
  ASSUME TextRead, UNCHANGED <<source, lines, lastDefined>>
  PROVE  TextRead'
  BY DEF TextRead

(* An instruction has to keep the counter and what is on the stacks.       *)
LEMMA RunningKept ==
  ASSUME Running, UNCHANGED assembled,
         counter' \in Entries(code), returns' \in Seq(Entries(code)),
         Len(returns') = 0 => counter' = 0,
         Len(returns') >= 1 => returns'[1] = 0,
         function' \in Entries(code) \cup {None}
  PROVE  Running'
  <1>1. Built(position, code)'
    BY BuiltKept DEF Running
  <1>2. code' = code
    BY DEF assembled
  <1>3. Entries(code)' = Entries(code)
    BY <1>2 DEF Entries
  <1> QED
    BY <1>1, <1>3 DEF Running

(* Only at the first guard value is the return stack empty.                *)
LEMMA NotReturned ==
  ASSUME Running, Fetched # <<"instruction", "end">>
  PROVE  counter # 0 /\ Len(returns) \in Nat /\ Len(returns) >= 1
  <1>1. counter # 0
    BY Guards DEF Running, Fetched
  <1>2. Len(returns) \in Nat /\ Len(returns) # 0
    BY <1>1 DEF Running
  <1> QED
    BY <1>1, <1>2

(* What follows a line is an instruction's position.                       *)
LEMMA AdvanceRuns ==
  ASSUME NEW bytes, NEW p \in Nat, counter = p, phase = "running",
         NEW incr \in Int, p + incr \in Entries(bytes), Advance(incr)
  PROVE  phase' \in {"running", "aborted"} /\ counter' = p + incr
  <1>1. CASE incr = 0
    BY <1>1 DEF Advance
  <1>2. CASE incr # 0
    BY <1>2 DEF Advance
  <1> QED
    BY <1>1, <1>2

(* BYTE, INT, STR, STRING and SYMFIND go on at an instruction.             *)
LEMMA LiteralInv ==
  ASSUME Running, PushLiteral
  PROVE  Running'
  <1> DEFINE name == Fetched[2]
             incr == instruction_sizes(name) + (IF name \in {"str", "string"} THEN Operand ELSE 0)
  <1>1. /\ phase = "running" /\ name \in {"byte", "int", "str", "string", "symfind"}
        /\ UNCHANGED assembled /\ UNCHANGED <<returns, function>> /\ Advance(incr)
    BY Zenon DEF PushLiteral, Fetch
  <1>2. PICK n, u : n = name /\ u = incr
    OBVIOUS
  <1>3. PICK i \in Program : u \in Nat /\ Follows(i, counter + u, position, code)
    <2>1. Built(position, code) /\ counter \in Entries(code)
      BY DEF Running
    <2>2. u = instruction_sizes(n) + (IF n \in {"str", "string"} THEN code[counter + 1][2] ELSE 0)
      BY <1>2 DEF Operand
    <2>3. n = code[counter][2] /\ n \in {"byte", "int", "str", "string", "symfind"}
      BY <1>1, <1>2 DEF Fetched
    <2> QED
      BY <2>1, <2>2, <2>3, LiteralLine
  <1>4. Advance(u)
    BY <1>1, <1>2
  <1> HIDE DEF name, incr
  <1>5. counter \in Nat
    BY EntryIs DEF Running
  <1>6. counter + u \in Entries(code)
    BY <1>3 DEF Follows
  <1>7. counter' = counter + u
    BY <1>1, <1>3, <1>4, <1>5, <1>6, AdvanceRuns
  <1>8. Fetched # <<"instruction", "end">>
    BY <1>1 DEF name
  <1>9. Len(returns) \in Nat /\ Len(returns) >= 1
    BY <1>8, NotReturned
  <1>10. /\ returns' = returns /\ function' = function
         /\ returns \in Seq(Entries(code)) /\ function \in Entries(code) \cup {None}
         /\ Len(returns) >= 1 => returns[1] = 0
    BY <1>1 DEF Running
  <1> QED
    BY <1>1, <1>6, <1>7, <1>9, <1>10, RunningKept

(* FUNLIT pushes the position of one.                                      *)
LEMMA FunlitInv ==
  ASSUME Running, FUNLIT
  PROVE  Running'
  <1>1. /\ phase = "running" /\ Fetched[2] = "funlit"
        /\ UNCHANGED assembled /\ returns' = returns /\ function' = Operand
        /\ Advance(1 + Word)
    BY DEF FUNLIT, Fetch
  <1>2. Built(position, code) /\ counter \in Entries(code)
    BY DEF Running
  <1>3. PICK i \in Program : \E t \in Program :
          /\ Follows(i, counter + 1 + Word, position, code)
          /\ Operand = position[t]
    <2>1. Fetched[2] = code[counter][2] /\ Operand = code[counter + 1][2]
      BY DEF Fetched, Operand
    <2>2. "funlit" \notin Branches
      BY DEF Branches
    <2> QED
      BY <1>1, <1>2, <2>1, <2>2, LabelLine
  <1>4. Operand \in Entries(code)
    BY <1>2, <1>3, LineStarts
  <1>5. counter \in Nat /\ counter + (1 + Word) = counter + 1 + Word /\ 1 + Word \in Int
    BY <1>2, EntryIs, AssemblerAssumption
  <1>6. counter + (1 + Word) \in Entries(code)
    BY <1>3, <1>5 DEF Follows
  <1>7. counter' = counter + (1 + Word)
    BY <1>1, <1>5, <1>6, AdvanceRuns
  <1>8. Len(returns) \in Nat /\ Len(returns) >= 1
    <2>1. Fetched # <<"instruction", "end">>
      BY <1>1
    <2> QED
      BY <2>1, NotReturned
  <1>9. returns \in Seq(Entries(code)) /\ (Len(returns) >= 1 => returns[1] = 0)
    BY DEF Running
  <1> QED
    BY <1>1, <1>4, <1>6, <1>7, <1>8, <1>9, RunningKept

(* A branch goes to one, whether it is taken or not.                       *)
LEMMA JumpInv ==
  ASSUME Running, JMP
  PROVE  Running'
  <1>1. /\ phase = "running" /\ Fetched[2] \in Branches
        /\ UNCHANGED assembled /\ returns' = returns /\ function' = function
        /\ Advance(Operand) \/ Advance(1 + Word)
    BY DEF JMP, Fetch
  <1>2. Built(position, code) /\ counter \in Entries(code)
    BY DEF Running
  <1>3. PICK i \in Program, t \in Program :
          /\ Follows(i, counter + 1 + Word, position, code)
          /\ counter = position[i] /\ Operand = position[t] - position[i]
    <2>1. Fetched[2] = code[counter][2] /\ Operand = code[counter + 1][2]
      BY DEF Fetched, Operand
    <2> QED
      BY <1>1, <1>2, <2>1, LabelLine
  <1>4. position[t] \in Entries(code) /\ position[t] \in Nat
    BY <1>2, LineStarts, InOrder
  <1>5. /\ counter \in Nat /\ counter + (1 + Word) = counter + 1 + Word /\ 1 + Word \in Int
        /\ Operand \in Int /\ counter + Operand = position[t]
    BY <1>2, <1>3, <1>4, EntryIs, AssemblerAssumption
  <1>6. counter + (1 + Word) \in Entries(code) /\ counter + Operand \in Entries(code)
    BY <1>3, <1>4, <1>5 DEF Follows
  <1>7. counter' \in Entries(code)
    <2>1. CASE Advance(Operand)
      BY <1>1, <1>5, <1>6, <2>1, AdvanceRuns
    <2>2. CASE Advance(1 + Word)
      BY <1>1, <1>5, <1>6, <2>2, AdvanceRuns
    <2> QED
      BY <1>1, <2>1, <2>2
  <1>8. Len(returns) \in Nat /\ Len(returns) >= 1
    <2>1. Fetched # <<"instruction", "end">>
      BY <1>1 DEF Branches
    <2> QED
      BY <2>1, NotReturned
  <1>9. /\ returns \in Seq(Entries(code)) /\ (Len(returns) >= 1 => returns[1] = 0)
        /\ function \in Entries(code) \cup {None}
    BY DEF Running
  <1> QED
    BY <1>1, <1>7, <1>8, <1>9, RunningKept

(* What a call pushes leaves the bottom of the return stack as it is.      *)
LEMMA CallReturns ==
  ASSUME NEW S, NEW s \in Seq(S), Len(s) >= 1, s[1] = 0, NEW e \in S
  PROVE  /\ Append(s, e) \in Seq(S) /\ Len(Append(s, e)) # 0 /\ Append(s, e)[1] = 0
         /\ Len(Append(s, e)) = Len(s) + 1
  OBVIOUS

(* CALL goes to one and returns to one.                                    *)
LEMMA CallInv ==
  ASSUME Running, CALL
  PROVE  Running'
  <1>1. /\ phase = "running" /\ Fetched[2] = "call"
        /\ UNCHANGED assembled /\ function' = function
        /\ returns' = Append(returns, counter + 1 + Word)
        /\ Advance(Operand - counter)
    BY DEF CALL, Fetch
  <1>2. Built(position, code) /\ counter \in Entries(code)
    BY DEF Running
  <1>3. PICK i \in Program, t \in Program :
          /\ Follows(i, counter + 1 + Word, position, code)
          /\ Operand = position[t]
    <2>1. Fetched[2] = code[counter][2] /\ Operand = code[counter + 1][2]
      BY DEF Fetched, Operand
    <2>2. "call" \notin Branches
      BY DEF Branches
    <2> QED
      BY <1>1, <1>2, <2>1, <2>2, LabelLine
  <1>4. position[t] \in Entries(code) /\ position[t] \in Nat
    BY <1>2, LineStarts, InOrder
  <1>5. /\ counter \in Nat
        /\ Operand - counter \in Int /\ counter + (Operand - counter) = position[t]
    BY <1>2, <1>3, <1>4, EntryIs
  <1>6. counter' \in Entries(code)
    BY <1>1, <1>4, <1>5, AdvanceRuns
  <1>7. Len(returns) \in Nat /\ Len(returns) >= 1
    <2>1. Fetched # <<"instruction", "end">>
      BY <1>1
    <2> QED
      BY <2>1, NotReturned
  <1>8. /\ returns \in Seq(Entries(code)) /\ returns[1] = 0
        /\ function \in Entries(code) \cup {None}
    BY <1>7 DEF Running
  <1>9. counter + 1 + Word \in Entries(code)
    BY <1>3 DEF Follows
  <1>10. returns' \in Seq(Entries(code)) /\ Len(returns') # 0 /\ returns'[1] = 0
    BY <1>1, <1>7, <1>8, <1>9, CallReturns
  <1> QED
    BY <1>1, <1>6, <1>8, <1>10, RunningKept

(* So does FRCALL.                                                         *)
LEMMA FrcallInv ==
  ASSUME Running, FRCALL
  PROVE  Running'
  <1>1. /\ phase = "running" /\ Fetched[2] = "frcall"
        /\ UNCHANGED assembled /\ function # None /\ function' = None
        /\ returns' = Append(returns, counter + 1)
        /\ Advance(function - counter)
    BY DEF FRCALL, Fetch
  <1>2. Built(position, code) /\ counter \in Entries(code)
    BY DEF Running
  <1>3. PICK i \in Program : Follows(i, counter + 1, position, code)
    BY <1>1, <1>2, ShortLine DEF Fetched
  <1>4. function \in Entries(code)
    BY <1>1 DEF Running
  <1>5. /\ counter \in Nat /\ function \in Nat
        /\ function - counter \in Int /\ counter + (function - counter) = function
    BY <1>2, <1>4, EntryIs
  <1>6. counter' \in Entries(code)
    BY <1>1, <1>4, <1>5, AdvanceRuns
  <1>7. Len(returns) \in Nat /\ Len(returns) >= 1
    <2>1. Fetched # <<"instruction", "end">>
      BY <1>1
    <2> QED
      BY <2>1, NotReturned
  <1>8. returns \in Seq(Entries(code)) /\ returns[1] = 0
    BY <1>7 DEF Running
  <1>9. counter + 1 \in Entries(code)
    BY <1>3 DEF Follows
  <1>10. returns' \in Seq(Entries(code)) /\ Len(returns') # 0 /\ returns'[1] = 0
    BY <1>1, <1>7, <1>8, <1>9, CallReturns
  <1> QED
    BY <1>1, <1>6, <1>10, RunningKept

(* CORO goes on at one, in the context that calls it and in the new one.   *)
LEMMA CoroInv ==
  ASSUME Running, CORO
  PROVE  Running'
  <1>1. /\ phase = "running" /\ Fetched[2] = "coro" /\ UNCHANGED assembled
        /\ \/ Advance(1 + Word) /\ returns' = returns /\ function' = function
           \/ counter' = Operand /\ returns' = <<0>> /\ function' = None
    BY DEF CORO, Fetch
  <1>2. Built(position, code) /\ counter \in Entries(code)
    BY DEF Running
  <1>3. PICK i \in Program, t \in Program :
          /\ Follows(i, counter + 1 + Word, position, code)
          /\ Operand = position[t]
    <2>1. Fetched[2] = code[counter][2] /\ Operand = code[counter + 1][2]
      BY DEF Fetched, Operand
    <2>2. "coro" \notin Branches
      BY DEF Branches
    <2> QED
      BY <1>1, <1>2, <2>1, <2>2, LabelLine
  <1>4. position[t] \in Entries(code)
    BY <1>2, LineStarts
  <1>5. CASE Advance(1 + Word) /\ returns' = returns /\ function' = function
    <2>1. counter \in Nat /\ counter + (1 + Word) = counter + 1 + Word /\ 1 + Word \in Int
      BY <1>2, EntryIs, AssemblerAssumption
    <2>2. counter + (1 + Word) \in Entries(code)
      BY <1>3, <2>1 DEF Follows
    <2>3. counter' \in Entries(code)
      BY <1>1, <1>5, <2>1, <2>2, AdvanceRuns
    <2>4. Len(returns) \in Nat /\ Len(returns) >= 1
      <3>1. Fetched # <<"instruction", "end">>
        BY <1>1
      <3> QED
        BY <3>1, NotReturned
    <2>5. /\ returns \in Seq(Entries(code)) /\ (Len(returns) >= 1 => returns[1] = 0)
          /\ function \in Entries(code) \cup {None}
      BY DEF Running
    <2> QED
      BY <1>1, <1>5, <2>3, <2>4, <2>5, RunningKept
  <1>6. CASE counter' = Operand /\ returns' = <<0>> /\ function' = None
    <2>1. 0 \in Entries(code)
      BY <1>2, Guards
    <2>2. returns' \in Seq(Entries(code)) /\ Len(returns') = 1 /\ returns'[1] = 0
      BY <1>6, <2>1
    <2>3. counter' \in Entries(code)
      BY <1>3, <1>4, <1>6
    <2> QED
      BY <1>1, <1>6, <2>2, <2>3, RunningKept
  <1> QED
    BY <1>1, <1>5, <1>6

(* What a return leaves of the return stack.                               *)
LEMMA ReturnPops ==
  ASSUME NEW S, NEW s \in Seq(S), Len(s) >= 1, s[1] = 0
  PROVE  /\ s[Len(s)] \in S
         /\ SubSeq(s, 1, Len(s) - 1) \in Seq(S)
         /\ Len(SubSeq(s, 1, Len(s) - 1)) = Len(s) - 1
         /\ Len(s) - 1 \in Nat /\ Len(s) \in Nat
         /\ \A i \in 1 .. Len(s) - 1 : SubSeq(s, 1, Len(s) - 1)[i] = s[i]
         /\ Len(s) = 1 => s[Len(s)] = 0
  <1>1. Len(s) \in Nat /\ s[Len(s)] \in S /\ (Len(s) = 1 => s[Len(s)] = 0)
    OBVIOUS
  <1> DEFINE t == SubSeq(s, 1, Len(s) - 1)
  <1>2. \A i \in 1 .. Len(s) - 1 : s[i] \in S
    OBVIOUS
  <1>3. t = [i \in 1 .. Len(s) - 1 |-> s[i]]
    OBVIOUS
  <1>4. Len(t) = Len(s) - 1 /\ \A i \in 1 .. Len(s) - 1 : t[i] = s[i]
    <2>1. Len(s) - 1 \in Nat
      BY <1>1
    <2> HIDE DEF t
    <2> QED
      BY <1>3, <2>1
  <1>5. t \in Seq(S)
    <2>1. Len(s) - 1 \in Nat
      BY <1>1
    <2> HIDE DEF t
    <2> QED
      BY <1>2, <1>3, <2>1
  <1> HIDE DEF t
  <1> QED
    BY <1>1, <1>4, <1>5 DEF t

(* RETURN goes to one.                                                     *)
LEMMA ReturnInv ==
  ASSUME Running, RETURN
  PROVE  Running'
  <1>1. /\ phase = "running" /\ Fetched[2] = "return"
        /\ UNCHANGED assembled /\ function' = function
        /\ Advance(returns[Len(returns)] - counter)
        /\ returns' = SubSeq(returns, 1, Len(returns) - 1)
    BY DEF RETURN, Fetch
  <1>2. Built(position, code) /\ counter \in Entries(code)
    BY DEF Running
  <1>3. Len(returns) \in Nat /\ Len(returns) >= 1
    <2>1. Fetched # <<"instruction", "end">>
      BY <1>1
    <2> QED
      BY <2>1, NotReturned
  <1>4. returns \in Seq(Entries(code)) /\ returns[1] = 0
    BY <1>3 DEF Running
  <1>5. PICK r, n : r = returns[Len(returns)] /\ n = Len(returns)
    OBVIOUS
  <1>6. /\ r \in Entries(code) /\ returns' \in Seq(Entries(code))
        /\ Len(returns') = n - 1 /\ n - 1 \in Nat
        /\ \A i \in 1 .. n - 1 : returns'[i] = returns[i]
        /\ n = 1 => r = 0
    BY <1>1, <1>3, <1>4, <1>5, ReturnPops
  <1>7. counter \in Nat /\ r \in Nat /\ r - counter \in Int /\ counter + (r - counter) = r
    BY <1>2, <1>6, EntryIs
  <1>8. counter' = r
    <2>1. r - counter \in Int /\ counter + (r - counter) \in Entries(code)
      BY <1>6, <1>7
    <2>2. Advance(r - counter)
      BY <1>1, <1>5
    <2>3. counter' = counter + (r - counter)
      BY <1>1, <1>7, <2>1, <2>2, AdvanceRuns
    <2> QED
      BY <1>7, <2>3
  <1>9. Len(returns') = 0 => counter' = 0
    <2>1. n \in Nat /\ Len(returns') = n - 1 /\ (n = 1 => r = 0)
      BY <1>3, <1>5, <1>6, Zenon
    <2>2. Len(returns') = 0 => r = 0
      BY <2>1
    <2> QED
      BY <1>8, <2>2
  <1>10. Len(returns') >= 1 => returns'[1] = 0
    BY <1>4, <1>6
  <1>11. function \in Entries(code) \cup {None}
    BY DEF Running
  <1> QED
    BY <1>1, <1>6, <1>8, <1>9, <1>10, <1>11, RunningKept

(* An instruction of one byte goes on at one.                              *)
LEMMA PlainInv ==
  ASSUME Running, Plain
  PROVE  Running'
  <1>1. /\ phase = "running" /\ Fetched[2] \in {"noop", "symclone"}
        /\ UNCHANGED assembled /\ function' = function /\ returns' = returns
        /\ Advance(instruction_sizes(Fetched[2]))
    BY DEF Plain, Fetch
  <1>2. Built(position, code) /\ counter \in Entries(code)
    BY DEF Running
  <1>3. PICK n : n = instruction_sizes(Fetched[2])
    OBVIOUS
  <1>4. n \in Nat /\ counter + n \in Entries(code)
    <2>1. PICK name : name = Fetched[2]
      OBVIOUS
    <2>2. name = code[counter][2] /\ name \in {"noop", "symclone"}
      BY <1>1, <2>1 DEF Fetched
    <2>3. n = instruction_sizes(name)
      BY <1>3, <2>1
    <2>4. name = "noop" => n = 1
      BY <2>3 DEF instruction_sizes, Branches
    <2> QED
      BY <1>2, <2>2, <2>3, <2>4, PlainLine DEF Follows
  <1>5. counter \in Nat
    BY <1>2, EntryIs
  <1>6. counter' \in Entries(code)
    BY <1>1, <1>3, <1>4, <1>5, AdvanceRuns
  <1>7. Len(returns) \in Nat /\ Len(returns) >= 1
    <2>1. Fetched # <<"instruction", "end">>
      BY <1>1
    <2> QED
      BY <2>1, NotReturned
  <1>8. /\ returns \in Seq(Entries(code)) /\ (Len(returns) >= 1 => returns[1] = 0)
        /\ function \in Entries(code) \cup {None}
    BY DEF Running
  <1> QED
    BY <1>1, <1>6, <1>7, <1>8, RunningKept

(* A program that assemble() accepts starts at an instruction.             *)
LEMMA AssembleInv ==
  ASSUME TextRead, function = None, Assemble
  PROVE  Running' /\ TextRead' /\ phase' = "running"
  <1>1. PICK at, bytes, start :
          /\ at = Positions(lines) /\ bytes = Bytecode(at)
          /\ start = IF LinesOf(<<MainName, None>>) = {} THEN 1
                     ELSE LinePosition(<<MainName, None>>, at)
    OBVIOUS
  <1>2. /\ LabelsResolved /\ OperandsRight /\ lines # <<>>
        /\ position' = at /\ code' = bytes /\ counter' = start
        /\ returns' = <<0>> /\ phase' = "running"
        /\ UNCHANGED <<source, lines, lastDefined, function>>
    BY <1>1 DEF Assemble
  <1>3. Built(at, bytes)
    BY <1>1, <1>2 DEF Built, TextRead
  <1>4. Built(position, code)'
    <2>1. Built(at, bytes)'
      BY <1>2, <1>3, BuiltStays
    <2>2. /\ lines' \in Seq(LineTypes) /\ lines' # <<>>
          /\ LabelsResolved' /\ OperandsRight'
          /\ at = Positions(lines') /\ bytes = Bytecode(at)'
      BY <2>1 DEF Built
    <2> QED
      BY <1>2, <2>2 DEF Built
  <1>5. start \in Entries(bytes)
    <2>1. CASE LinesOf(<<MainName, None>>) = {}
      BY <1>1, <1>3, <2>1, Guards
    <2>2. CASE LinesOf(<<MainName, None>>) # {}
      <3>1. <<MainName, None>> \in Keys
        BY AssemblerAssumption DEF Keys
      <3>2. PICK t \in Program : LinePosition(<<MainName, None>>, at) = at[t]
        BY <1>3, <2>2, <3>1, LabelAt
      <3> QED
        BY <1>1, <1>3, <2>2, <3>2, LineStarts
    <2> QED
      BY <2>1, <2>2
  <1>6. Entries(code)' = Entries(bytes)
    BY <1>2 DEF Entries
  <1>7. 0 \in Entries(bytes)
    BY <1>3, Guards
  <1>8. TextRead'
    BY <1>2, TextKept
  <1> QED
    <2>1. /\ counter' \in Entries(code)' /\ 0 \in Entries(code)'
          /\ function' \in Entries(code)' \cup {None}
      BY <1>2, <1>5, <1>6, <1>7
    <2>2. returns' \in Seq(Entries(code)') /\ Len(returns') = 1 /\ returns'[1] = 0
      BY <1>2, <2>1
    <2> QED
      BY <1>2, <1>4, <1>8, <2>1, <2>2 DEF Running

(* The invariant holds at first.                                           *)
LEMMA AssemblerInitInv ==
  ASSUME AssemblerInit
  PROVE  AssemblerIInv
  <1>1. /\ source = <<>> /\ lines = <<>> /\ lastDefined = None
        /\ phase = "reading" /\ position = <<>> /\ counter = 0
        /\ returns = <<>> /\ function = None
    BY DEF AssemblerInit
  <1>2. /\ source \in Seq(Lines) /\ lines \in Seq(LineTypes)
        /\ Len(source) = 0 /\ Len(lines) = 0
    BY <1>1, EmptySeq
  <1>3. Globals(source, Len(source)) = {}
    BY <1>2 DEF Globals
  <1>4. TextRead
    BY <1>1, <1>2, <1>3 DEF TextRead, SectionOf
  <1> QED
    BY <1>1, <1>4 DEF AssemblerIInv

(* Every step keeps the invariant.                                         *)
LEMMA AssemblerStep ==
  ASSUME AssemblerIInv, [AssemblerNext]_assemblerVars
  PROVE  AssemblerIInv'
  <1>1. /\ TextRead
        /\ phase \in {"reading", "running", "rejected", "ended", "aborted"}
        /\ phase = "reading" => position = <<>> /\ counter = 0 /\ returns = <<>> /\ function = None
        /\ phase = "running" => Running
    BY DEF AssemblerIInv
  <1>2. ASSUME UNCHANGED assemblerVars
        PROVE  AssemblerIInv'
    <2>1. /\ UNCHANGED assembled /\ counter' = counter /\ returns' = returns
          /\ function' = function /\ phase' = phase /\ position' = position
          /\ UNCHANGED <<source, lines, lastDefined>>
      BY <1>2 DEF assemblerVars, assembled
    <2>2. TextRead'
      BY <1>1, <2>1, TextKept
    <2>3. ASSUME Running
          PROVE  Running'
      <3>1. /\ counter' \in Entries(code) /\ returns' \in Seq(Entries(code))
            /\ Len(returns') = 0 => counter' = 0
            /\ Len(returns') >= 1 => returns'[1] = 0
            /\ function' \in Entries(code) \cup {None}
        BY <2>1, <2>3 DEF Running
      <3> QED
        BY <2>1, <2>3, <3>1, RunningKept
    <2> QED
      BY <1>1, <2>1, <2>2, <2>3 DEF AssemblerIInv
  <1>3. ASSUME NEW line \in Lines, ReadLine(line)
        PROVE  AssemblerIInv'
    <2>1. TextRead'
      BY <1>1, <1>3, TextReadLine
    <2>2. /\ phase = "reading" /\ phase' = phase /\ position' = position /\ counter' = counter
          /\ returns' = returns /\ function' = function
      BY <1>3 DEF ReadLine
    <2> QED
      BY <1>1, <2>1, <2>2 DEF AssemblerIInv
  <1>4. ASSUME Assemble
        PROVE  AssemblerIInv'
    <2>1. function = None
      BY <1>1, <1>4 DEF Assemble
    <2> QED
      BY <1>1, <1>4, <2>1, AssembleInv DEF AssemblerIInv
  <1>5. ASSUME AssembleFails
        PROVE  AssemblerIInv'
    <2>1. phase' \in {"aborted", "rejected"} /\ UNCHANGED <<source, lines, lastDefined>>
      BY <1>5 DEF AssembleFails
    <2>2. TextRead'
      BY <1>1, <2>1, TextKept
    <2> QED
      BY <2>1, <2>2 DEF AssemblerIInv
  <1>6. ASSUME UNCHANGED assembled, phase = "running", phase' \in {"running", "aborted"}, Running'
        PROVE  AssemblerIInv'
    <2>1. TextRead'
      <3>1. UNCHANGED <<source, lines, lastDefined>>
        BY <1>6 DEF assembled
      <3> QED
        BY <1>1, <3>1, TextKept
    <2> QED
      BY <1>6, <2>1 DEF AssemblerIInv
  <1>7. ASSUME PushLiteral
        PROVE  AssemblerIInv'
    <2>1. UNCHANGED assembled /\ phase = "running" /\ phase' \in {"running", "aborted"}
      BY <1>7 DEF PushLiteral, Fetch, Advance
    <2> QED
      BY <1>1, <1>6, <1>7, <2>1, LiteralInv
  <1>8. ASSUME FUNLIT
        PROVE  AssemblerIInv'
    <2>1. UNCHANGED assembled /\ phase = "running" /\ phase' \in {"running", "aborted"}
      BY <1>8 DEF FUNLIT, Fetch, Advance
    <2> QED
      BY <1>1, <1>6, <1>8, <2>1, FunlitInv
  <1>9. ASSUME JMP
        PROVE  AssemblerIInv'
    <2>1. UNCHANGED assembled /\ phase = "running" /\ phase' \in {"running", "aborted"}
      BY <1>9 DEF JMP, Fetch, Advance
    <2> QED
      BY <1>1, <1>6, <1>9, <2>1, JumpInv
  <1>10. ASSUME CALL
         PROVE  AssemblerIInv'
    <2>1. UNCHANGED assembled /\ phase = "running" /\ phase' \in {"running", "aborted"}
      BY <1>10 DEF CALL, Fetch, Advance
    <2> QED
      BY <1>1, <1>6, <1>10, <2>1, CallInv
  <1>11. ASSUME FRCALL
         PROVE  AssemblerIInv'
    <2>1. UNCHANGED assembled /\ phase = "running" /\ phase' \in {"running", "aborted"}
      BY <1>11 DEF FRCALL, Fetch, Advance
    <2> QED
      BY <1>1, <1>6, <1>11, <2>1, FrcallInv
  <1>12. ASSUME CORO
         PROVE  AssemblerIInv'
    <2>1. UNCHANGED assembled /\ phase = "running" /\ phase' \in {"running", "aborted"}
      BY <1>12 DEF CORO, Fetch, Advance
    <2> QED
      BY <1>1, <1>6, <1>12, <2>1, CoroInv
  <1>13. ASSUME RETURN
         PROVE  AssemblerIInv'
    <2>1. UNCHANGED assembled /\ phase = "running" /\ phase' \in {"running", "aborted"}
      BY <1>13 DEF RETURN, Fetch, Advance
    <2> QED
      BY <1>1, <1>6, <1>13, <2>1, ReturnInv
  <1>14. ASSUME Plain
         PROVE  AssemblerIInv'
    <2>1. UNCHANGED assembled /\ phase = "running" /\ phase' \in {"running", "aborted"}
      BY <1>14 DEF Plain, Fetch, Advance
    <2> QED
      BY <1>1, <1>6, <1>14, <2>1, PlainInv
  <1>15. ASSUME END
         PROVE  AssemblerIInv'
    <2>1. phase' = "ended" /\ UNCHANGED <<source, lines, lastDefined>>
      BY <1>15 DEF END, assembled
    <2>2. TextRead'
      BY <1>1, <2>1, TextKept
    <2> QED
      BY <2>1, <2>2 DEF AssemblerIInv
  <1> QED
    BY <1>2, <1>3, <1>4, <1>5, <1>7, <1>8, <1>9, <1>10, <1>11, <1>12, <1>13, <1>14, <1>15
    DEF AssemblerNext

(* An operand of more than a byte that is fetched is aligned.              *)
LEMMA RunningAligned ==
  ASSUME Running
  PROVE  OperandsAligned
  <1>1. SUFFICES ASSUME Fetched[2] \in {"string", "int", "call", "coro", "funlit"} \cup Branches
                 PROVE  (counter + 1) % 4 = 0
    BY DEF OperandsAligned
  <1>2. Built(position, code) /\ counter \in Entries(code)
    BY DEF Running
  <1>3. Fetched[2] = code[counter][2] /\ Fetched[2] \notin {"noop", "end"}
    BY <1>1 DEF Fetched, Branches
  <1>4. PICK i \in Program : counter = position[i] /\ lines[i].instruction = Fetched[2]
    BY <1>2, <1>3, FetchedLine
  <1>5. PICK name : name = Fetched[2]
    OBVIOUS
  <1>6. name # None /\ name # "str"
    BY <1>1, <1>5, InstructionNames DEF Branches
  <1>7. instruction_sizes(name) \in Nat /\ instruction_sizes(name) > 2
    <2>1. instruction_sizes(name) \in {5, 1 + Word}
      BY <1>1, <1>5 DEF instruction_sizes, Branches
    <2> QED
      BY <2>1, AssemblerAssumption
  <1>8. Length(lines[i]) > 2
    <2>1. PICK m : m = IF name \in {"str", "string"} /\ lines[i].operand[1] = "string"
                         THEN lines[i].operand[2] ELSE 0
      OBVIOUS
    <2>2. Length(lines[i]) = instruction_sizes(name) + m
      BY <1>4, <1>5, <1>6, <2>1, Zenon DEF Length
    <2>3. m \in Nat
      <3>1. lines[i].operand[1] = "string" => lines[i].operand[2] \in Nat
        BY <1>2, BuiltFacts, OperandTypes
      <3> QED
        BY <2>1, <3>1
    <2> QED
      BY <1>7, <2>2, <2>3
  <1> QED
    BY <1>2, <1>4, <1>5, <1>6, <1>8, InOrder

(* The invariant says what the fetch loop relies on.                       *)
LEMMA IInvFetches ==
  ASSUME AssemblerIInv
  PROVE  FetchesInstructions
  <1>1. /\ TextRead
        /\ phase \in {"reading", "running", "rejected", "ended", "aborted"}
        /\ phase = "running" => Running
    BY DEF AssemblerIInv
  <1>2. source \in Seq(Lines) /\ Len(lines) = Len(source)
    BY <1>1 DEF TextRead
  <1>3. ASSUME phase = "running"
        PROVE  /\ Len(position) = Len(lines) + 1
               /\ code \in [0 .. position[Len(position)] -> Bytes]
               /\ \A i \in DOMAIN returns : returns[i] \in DOMAIN code
               /\ function \in DOMAIN code \cup {None}
               /\ counter \in DOMAIN code /\ Fetched[1] = "instruction"
               /\ OperandsAligned
    <2>1. Running
      BY <1>1, <1>3
    <2>2. /\ Built(position, code) /\ counter \in Entries(code)
          /\ returns \in Seq(Entries(code)) /\ function \in Entries(code) \cup {None}
      BY <2>1 DEF Running
    <2>3. Len(position) = Len(lines) + 1
      BY <2>2, BuiltFacts
    <2>4. code \in [0 .. position[Len(position)] -> Bytes]
      BY <2>2, <2>3, CodeTypes DEF Last
    <2>5. \A i \in DOMAIN returns : returns[i] \in Entries(code)
      BY <2>2
    <2>6. Entries(code) \subseteq DOMAIN code
      BY DEF Entries
    <2>7. Fetched[1] = "instruction"
      BY <2>2 DEF Entries, Fetched
    <2> QED
      BY <2>1, <2>2, <2>3, <2>4, <2>5, <2>6, <2>7, RunningAligned
  <1>4. OperandsAligned
    BY <1>3 DEF OperandsAligned
  <1>5. AssemblerTypeOK
    BY <1>1, <1>2, <1>3 DEF AssemblerTypeOK
  <1> QED
    BY <1>3, <1>4, <1>5 DEF FetchesInstructions

(* Whatever a program jumps to, calls or returns to, the fetch loop of      *)
(* vm_execute takes nothing but instructions for instructions, and finds    *)
(* their operands aligned.                                                 *)
THEOREM ProgramsFetchInstructions == AssemblerSpec => []FetchesInstructions
  <1>1. AssemblerInit => AssemblerIInv
    BY AssemblerInitInv
  <1>2. AssemblerIInv /\ [AssemblerNext]_assemblerVars => AssemblerIInv'
    BY AssemblerStep
  <1>3. AssemblerIInv => FetchesInstructions
    BY IInvFetches
  <1> QED
    BY <1>1, <1>2, <1>3, PTL DEF AssemblerSpec

-----------------------------------------------------------------------------
(* The program is that of its lines: positions as lines                    *)

(* The lines with an instruction that are not before position q.           *)
From(q) == {i \in DOMAIN lines : lines[i].instruction # None /\ position[i] >= q}

(* The first of the lines T, or the end.                                   *)
FirstOf(T) == IF T = {} THEN Len(lines) + 1 ELSE CHOOSE i \in T : \A j \in T : i <= j

(* The lines from line i on that have an instruction.                      *)
LinesFrom(i) == {j \in i .. Len(lines) : lines[j].instruction # None}

(* The line that a position stands for is the first of those.              *)
LEMMA LineAtIs ==
  ASSUME NEW q
  PROVE  LineAt(q) = IF q = 0 THEN Len(lines) + 1 ELSE FirstOf(From(q))
  BY DEF LineAt, FirstOf, From

(* Where the language lands is the first of the lines from there on.       *)
LEMMA LandingIs ==
  ASSUME TextRead, NEW i \in Nat, i >= 1
  PROVE  Language!Landing(i) = FirstOf(LinesFrom(i))
  <1>1. PICK n : n = Len(lines)
    OBVIOUS
  <1>2. /\ n \in Nat /\ n = Len(source)
        /\ \A j \in 1 .. n : lines[j].instruction = source[j].instruction
    <2>1. /\ source \in Seq(Lines) /\ Len(lines) = Len(source)
          /\ \A j \in 1 .. Len(source) : ReadAs(source, j, lines[j])
      BY DEF TextRead
    <2>2. n \in Nat /\ n = Len(source)
      BY <1>1, <2>1
    <2>3. \A j \in 1 .. n : ReadAs(source, j, lines[j])
      BY <2>1, <2>2
    <2>4. \A j \in 1 .. n : lines[j].instruction = source[j].instruction
      BY <2>3, Zenon DEF ReadAs
    <2> QED
      BY <2>2, <2>4
  <1>3. {j \in i .. n : source[j].instruction # None}
          = {j \in i .. n : lines[j].instruction # None}
    BY <1>2
  <1> QED
    <2>1. PICK T : T = {j \in i .. n : lines[j].instruction # None}
      OBVIOUS
    <2>2. FirstOf(LinesFrom(i)) = IF T = {} THEN n + 1 ELSE CHOOSE j \in T : \A k \in T : j <= k
      BY <1>1, <2>1 DEF FirstOf, LinesFrom
    <2>3. PICK S : S = {j \in i .. Len(source) : source[j].instruction # None}
      OBVIOUS
    <2>4. Language!Landing(i) = IF S = {} THEN Len(source) + 1
                                ELSE CHOOSE j \in S : \A k \in S : j <= k
      BY <2>3 DEF Language!Landing, Language!End
    <2>5. S = T
      BY <1>2, <1>3, <2>1, <2>3
    <2> QED
      BY <1>2, <2>2, <2>4, <2>5

(* The first of some lines is one of them.                                 *)
LEMMA FirstIs ==
  ASSUME NEW T, T \subseteq Nat
  PROVE  /\ T # {} => FirstOf(T) \in T /\ \A j \in T : FirstOf(T) <= j
         /\ T = {} => FirstOf(T) = Len(lines) + 1
  <1>1. CASE T = {}
    BY <1>1 DEF FirstOf
  <1>2. CASE T # {}
    <2>1. \E m \in T : \A j \in T : m <= j
      BY <1>2, LeastNumber
    <2> QED
      BY <1>2, <2>1 DEF FirstOf
  <1> QED
    BY <1>1, <1>2

(* Which lines a position is before.                                       *)
LEMMA FromLine ==
  ASSUME Built(position, code), NEW i \in Program
  PROVE  From(position[i]) = LinesFrom(i)
  <1>1. PICK n : n = Len(lines)
    OBVIOUS
  <1>2. n \in Nat /\ DOMAIN lines = 1 .. n /\ Program = 1 .. n
    BY <1>1, BuiltFacts DEF Program
  <1>3. ASSUME NEW j \in 1 .. n, lines[j].instruction # None
        PROVE  position[j] >= position[i] <=> j \in i .. n
    <2>1. /\ position[i] \in Nat /\ Length(lines[i]) \in Nat
          /\ i < j => position[i] + Length(lines[i]) <= position[j]
      BY <1>2, InOrder
    <2>2. /\ position[j] \in Nat /\ Length(lines[j]) \in Nat /\ Length(lines[j]) # 0
          /\ j < i => position[j] + Length(lines[j]) <= position[i]
      BY <1>2, <1>3, InOrder
    <2> QED
      BY <1>2, <2>1, <2>2
  <1>4. i \in 1 .. n
    BY <1>2
  <1> QED
    BY <1>1, <1>2, <1>3, <1>4 DEF From, LinesFrom

(* What follows a line is before the lines that come after it.             *)
LEMMA FromNext ==
  ASSUME Built(position, code), NEW i \in Program, NEW q, Follows(i, q, position, code)
  PROVE  From(q) = LinesFrom(i + 1)
  <1>1. PICK n : n = Len(lines)
    OBVIOUS
  <1>2. n \in Nat /\ DOMAIN lines = 1 .. n /\ Program = 1 .. n
    BY <1>1, BuiltFacts DEF Program
  <1>3. q \in Nat /\ position[i] < q /\ q <= position[i] + Length(lines[i])
    BY DEF Follows
  <1>4. ASSUME NEW j \in 1 .. n, lines[j].instruction # None
        PROVE  position[j] >= q <=> j \in i + 1 .. n
    <2>1. /\ position[i] \in Nat /\ Length(lines[i]) \in Nat
          /\ i < j => position[i] + Length(lines[i]) <= position[j]
      BY <1>2, InOrder
    <2>2. /\ position[j] \in Nat /\ Length(lines[j]) \in Nat
          /\ j < i => position[j] + Length(lines[j]) <= position[i]
      BY <1>2, InOrder
    <2> QED
      BY <1>2, <1>3, <2>1, <2>2, SMTT(30)
  <1>5. i \in 1 .. n
    BY <1>2
  <1> QED
    BY <1>1, <1>2, <1>4, <1>5 DEF From, LinesFrom

(* A label's position is where its line begins, and what follows a line is *)
(* where the next one does.                                                *)
LEMMA LineAtLabel ==
  ASSUME TextRead, Built(position, code), NEW i \in Program
  PROVE  LineAt(position[i]) = Language!Landing(i)
  <1>1. position[i] # 0 /\ i \in Nat /\ i >= 1
    BY InOrder DEF Program
  <1> QED
    BY <1>1, FromLine, LineAtIs, LandingIs

(* So control goes on at the next line.                                    *)
LEMMA LineAtNext ==
  ASSUME TextRead, Built(position, code), NEW i \in Program, NEW q, Follows(i, q, position, code)
  PROVE  LineAt(q) = Language!Landing(i + 1)
  <1>1. position[i] \in Nat /\ i + 1 \in Nat /\ i + 1 >= 1
    BY InOrder DEF Program
  <1>2. q # 0
    BY <1>1 DEF Follows
  <1> QED
    BY <1>1, <1>2, FromNext, LineAtIs, LandingIs

(* A line with an instruction is where control lands.                      *)
LEMMA LandsThere ==
  ASSUME TextRead, Built(position, code), NEW i \in Program, lines[i].instruction # None
  PROVE  Language!Landing(i) = i
  <1>1. PICK n : n = Len(lines)
    OBVIOUS
  <1>2. n \in Nat /\ i \in 1 .. n
    BY <1>1, BuiltFacts DEF Program
  <1>3. i \in LinesFrom(i) /\ LinesFrom(i) \subseteq Nat /\ \A j \in LinesFrom(i) : i <= j
    BY <1>1, <1>2 DEF LinesFrom
  <1>4. PICK m : m = FirstOf(LinesFrom(i))
    OBVIOUS
  <1>5. m \in LinesFrom(i) /\ m <= i
    BY <1>3, <1>4, FirstIs
  <1>6. m = i
    BY <1>2, <1>3, <1>5
  <1>7. i \in Nat /\ i >= 1
    BY <1>2
  <1>8. Language!Landing(i) = FirstOf(LinesFrom(i))
    BY <1>7, LandingIs
  <1> QED
    BY <1>4, <1>6, <1>8

(* Control goes on where it has landed.                                    *)
LEMMA LandsOnce ==
  ASSUME TextRead, Built(position, code), NEW q \in Nat
  PROVE  /\ LineAt(q) \in Nat /\ Language!Landing(LineAt(q)) = LineAt(q)
         /\ LineAt(q) # None
  <1>1. PICK n : n = Len(lines)
    OBVIOUS
  <1>2. n \in Nat /\ n = Len(source) /\ DOMAIN lines = 1 .. n /\ Program = 1 .. n
    BY <1>1, BuiltFacts DEF Program, TextRead
  <1>3. PICK m : m = LineAt(q)
    OBVIOUS
  <1>4. (m \in Program /\ lines[m].instruction # None) \/ m = n + 1
    <2>1. CASE q = 0
      BY <1>1, <1>3, <2>1, LineAtIs
    <2>2. CASE q # 0
      <3>1. m = FirstOf(From(q))
        BY <1>3, <2>2, LineAtIs
      <3>2. From(q) \subseteq Nat /\ \A j \in From(q) : j \in Program /\ lines[j].instruction # None
        BY <1>2 DEF From
      <3> QED
        BY <1>1, <3>1, <3>2, FirstIs
    <2> QED
      BY <2>1, <2>2
  <1>5. CASE m \in Program /\ lines[m].instruction # None
    <2>1. Language!Landing(m) = m /\ m \in Nat
      BY <1>2, <1>5, LandsThere
    <2> QED
      BY <1>3, <2>1, NoneAssumption
  <1>6. CASE m = n + 1
    <2>1. m \in Nat /\ m >= 1
      BY <1>2, <1>6
    <2>2. LinesFrom(m) = {}
      BY <1>1, <1>2, <1>6 DEF LinesFrom
    <2>3. FirstOf(LinesFrom(m)) = m
      BY <1>1, <1>6, <2>2 DEF FirstOf
    <2>4. Language!Landing(m) = m
      BY <2>1, <2>3, LandingIs
    <2> QED
      BY <1>3, <2>1, <2>4, NoneAssumption
  <1> QED
    BY <1>4, <1>5, <1>6

(* The guards stand for the end, and what is not of a line for the next.   *)
LEMMA LineAtGuards ==
  ASSUME TextRead, Built(position, code)
  PROVE  /\ LineAt(0) = Language!End /\ LineAt(Last(position)) = Language!End
         /\ LineAt(1) = Language!Landing(1)
         /\ Language!End = Len(lines) + 1
  <1>1. PICK n : n = Len(lines)
    OBVIOUS
  <1>2. n \in Nat /\ n = Len(source) /\ DOMAIN lines = 1 .. n /\ Program = 1 .. n
    BY <1>1, BuiltFacts DEF Program, TextRead
  <1>3. Language!End = n + 1
    BY <1>2 DEF Language!End
  <1>4. \A i \in 1 .. n : /\ position[i] \in Nat /\ position[i] >= 1
                          /\ lines[i].instruction # None => position[i] < Last(position)
    <2> TAKE i \in 1 .. n
    <2>1. /\ position[i] \in Nat /\ position[i] >= 1 /\ Length(lines[i]) \in Nat
          /\ lines[i].instruction # None => Length(lines[i]) # 0
          /\ position[i] + Length(lines[i]) <= Last(position)
          /\ Last(position) \in Nat
      BY <1>2, InOrder, BuiltFacts
    <2> QED
      BY <2>1
  <1>5. Last(position) \in Nat /\ Last(position) # 0
    BY BuiltFacts
  <1>6. From(Last(position)) = {}
    BY <1>2, <1>4, <1>5 DEF From
  <1>7. From(1) = LinesFrom(1)
    BY <1>1, <1>2, <1>4 DEF From, LinesFrom
  <1>8. LineAt(0) = n + 1
    BY <1>1, LineAtIs
  <1>9. LineAt(Last(position)) = n + 1
    BY <1>1, <1>5, <1>6, LineAtIs DEF FirstOf
  <1>10. LineAt(1) = Language!Landing(1)
    BY <1>7, LineAtIs, LandingIs
  <1> QED
    BY <1>1, <1>3, <1>8, <1>9, <1>10

(* A byte between two lines stands for the next line, as the one after it. *)
LEMMA LineAtPadding ==
  ASSUME Built(position, code), NEW p \in Nat, p >= 1, \A i \in Program : ~ Covers(i, position, p)
  PROVE  LineAt(p + 1) = LineAt(p)
  <1>1. DOMAIN lines = Program
    BY BuiltFacts
  <1>2. ASSUME NEW i \in Program, lines[i].instruction # None
        PROVE  position[i] >= p <=> position[i] >= p + 1
    <2>1. /\ position[i] \in Nat /\ Written(i) \in Nat /\ Written(i) # 0
          /\ ~ Covers(i, position, p)
      BY <1>2, InOrder, WrittenIs
    <2> QED
      BY <2>1 DEF Covers
  <1>3. From(p + 1) = From(p)
    BY <1>1, <1>2 DEF From
  <1> QED
    BY <1>3, LineAtIs

-----------------------------------------------------------------------------
(* Labels and operands, as the language and as the assembler see them      *)

(* The language's sections are those of the parser.                        *)
LEMMA SectionIs ==
  ASSUME NEW i
  PROVE  Language!Section(i) = SectionOf(source, i)
  <1>1. PICK T : T = Globals(source, i)
    OBVIOUS
  <1>2. PICK S : S = {j \in 1 .. i : source[j].label # None /\ source[j].label[1] = "global"}
    OBVIOUS
  <1>3. S = T
    BY <1>1, <1>2 DEF Globals
  <1>4. Language!Section(i) = IF S = {} THEN None
                              ELSE source[CHOOSE j \in S : \A k \in S : k <= j].label[2]
    BY <1>2 DEF Language!Section
  <1>5. SectionOf(source, i) = IF T = {} THEN None
                               ELSE source[CHOOSE j \in T : \A k \in T : k <= j].label[2]
    BY <1>1 DEF SectionOf, LastOf
  <1> QED
    BY <1>3, <1>4, <1>5

(* The language's full names are the assembler's keys.                     *)
LEMMA FullNameIs ==
  ASSUME NEW i, NEW label \in References
  PROVE  Language!FullName(i, label) = KeyOf(label, SectionOf(source, i))
  <1>1. PICK section : section = SectionOf(source, i)
    OBVIOUS
  <1>2. Language!Section(i) = section
    BY <1>1, SectionIs
  <1>3. label[1] \in {"global", "local", "full"}
    BY DEF References, Labels
  <1>4. CASE label[1] = "global"
    BY <1>1, <1>4 DEF Language!FullName, KeyOf
  <1>5. CASE label[1] = "local"
    BY <1>1, <1>2, <1>5 DEF Language!FullName, KeyOf
  <1>6. CASE label[1] = "full"
    BY <1>1, <1>6 DEF Language!FullName, KeyOf
  <1> QED
    BY <1>3, <1>4, <1>5, <1>6

(* A line is kept as the language has it.                                  *)
LEMMA LineKept ==
  ASSUME TextRead, NEW i \in DOMAIN source
  PROVE  /\ i \in DOMAIN lines /\ i \in Nat /\ i >= 1
         /\ source[i] \in Lines /\ lines[i] \in LineTypes
         /\ lines[i].instruction = source[i].instruction
         /\ lines[i].operand[1] = source[i].operand[1]
         /\ source[i].label # None => lines[i].label = Language!FullName(i, source[i].label)
         /\ lines[i].label = None <=> source[i].label = None
         /\ IsReference(source[i].operand) <=> IsReference(lines[i].operand)
         /\ IsReference(source[i].operand) =>
              lines[i].operand[2] = Language!FullName(i, source[i].operand[2])
         /\ ~ IsReference(source[i].operand) => lines[i].operand = source[i].operand
  <1>1. /\ source \in Seq(Lines) /\ lines \in Seq(LineTypes) /\ Len(lines) = Len(source)
        /\ \A k \in 1 .. Len(source) : ReadAs(source, k, lines[k])
    BY DEF TextRead
  <1>2. /\ i \in DOMAIN lines /\ i \in Nat /\ i >= 1 /\ i \in 1 .. Len(source)
        /\ source[i] \in Lines /\ lines[i] \in LineTypes
    BY <1>1
  <1>3. PICK section : section = SectionOf(source, i)
    OBVIOUS
  <1>4. section \in Names \cup {None}
    <2>1. i \in 0 .. Len(source)
      BY <1>2
    <2> QED
      BY <1>1, <1>3, <2>1, SectionTypes
  <1>5. /\ lines[i].label = IF source[i].label = None THEN None
                            ELSE KeyOf(source[i].label, section)
        /\ lines[i].instruction = source[i].instruction
        /\ lines[i].operand = IF IsReference(source[i].operand)
                                THEN <<source[i].operand[1], KeyOf(source[i].operand[2], section)>>
                                ELSE source[i].operand
    BY <1>1, <1>2, <1>3, Zenon DEF ReadAs
  <1>6. source[i].label # None =>
          /\ lines[i].label = Language!FullName(i, source[i].label)
          /\ lines[i].label # None
    <2>1. SUFFICES ASSUME source[i].label # None
                   PROVE  /\ lines[i].label = Language!FullName(i, source[i].label)
                          /\ lines[i].label # None
      OBVIOUS
    <2>2. source[i].label \in References
      BY <1>2, <2>1, LabelTypes
    <2>3. lines[i].label = KeyOf(source[i].label, section)
      BY <1>5, <2>1
    <2>4. KeyOf(source[i].label, section) \in Keys
      BY <1>4, <2>2, KeysAre
    <2>5. None \notin Keys
      BY NoneAssumption DEF Keys
    <2> QED
      BY <1>3, <2>2, <2>3, <2>4, <2>5, FullNameIs
  <1>7. ASSUME IsReference(source[i].operand)
        PROVE  /\ lines[i].operand[1] = source[i].operand[1]
               /\ lines[i].operand[2] = Language!FullName(i, source[i].operand[2])
               /\ IsReference(lines[i].operand)
    <2>1. source[i].operand[2] \in References
      BY <1>2, <1>7, LabelTypes
    <2>2. /\ lines[i].operand[1] = source[i].operand[1]
          /\ lines[i].operand[2] = KeyOf(source[i].operand[2], section)
      BY <1>5, <1>7
    <2> QED
      BY <1>3, <1>7, <2>1, <2>2, FullNameIs DEF IsReference
  <1>8. ASSUME ~ IsReference(source[i].operand)
        PROVE  lines[i].operand = source[i].operand
    BY <1>5, <1>8
  <1>9. source[i].label = None => lines[i].label = None
    BY <1>5
  <1> QED
    BY <1>2, <1>5, <1>6, <1>7, <1>8, <1>9

(* There are as many lines as the text has.                                *)
LEMMA SameLines ==
  ASSUME TextRead
  PROVE  DOMAIN lines = DOMAIN source /\ (lines = <<>> <=> source = <<>>)
  <1>1. source \in Seq(Lines) /\ lines \in Seq(LineTypes) /\ Len(lines) = Len(source)
    BY DEF TextRead
  <1>2. DOMAIN lines = DOMAIN source
    BY <1>1
  <1> QED
    BY <1>1, <1>2, EmptySeq

(* The lines that a label is on.                                           *)
LEMMA DefinitionsIs ==
  ASSUME TextRead, NEW key, key \in Keys
  PROVE  Language!Definitions(key) = LinesOf(key)
  <1>1. DOMAIN lines = DOMAIN source
    BY SameLines
  <1>2. key # None
    BY NoneAssumption DEF Keys
  <1>3. ASSUME NEW i \in DOMAIN source
        PROVE  Language!Defines(i, key) <=> lines[i].label = key
    <2>1. /\ source[i].label # None => lines[i].label = Language!FullName(i, source[i].label)
          /\ lines[i].label = None <=> source[i].label = None
      BY LineKept
    <2> QED
      BY <1>2, <2>1 DEF Language!Defines
  <1> QED
    BY <1>1, <1>3 DEF Language!Definitions, LinesOf

(* A reference's target is the line that assemble() finds.                 *)
LEMMA TargetIs ==
  ASSUME TextRead, NEW i \in DOMAIN source, NEW t,
         lines[i].operand[1] \in {"location", "offset"}, lines[i].operand[2] \in Keys,
         LinesOf(lines[i].operand[2]) = {t}
  PROVE  Language!Target(i) = t
  <1>1. PICK key : key = lines[i].operand[2]
    OBVIOUS
  <1>2. Language!FullName(i, source[i].operand[2]) = key
    BY <1>1, LineKept DEF IsReference
  <1>3. Language!Definitions(key) = {t}
    BY <1>1, DefinitionsIs
  <1> QED
    BY <1>2, <1>3 DEF Language!Target

(* The two agree on what a program is.                                     *)
LEMMA TakesIs ==
  ASSUME NEW instruction, NEW kind \in Kinds
  PROVE  kind \in Language!Takes(instruction) <=> Requires(instruction) \in {None, kind}
  <1>1. None \notin Kinds
    BY NoneAssumption
  <1>2. CASE instruction \in {"byte", "open", "int", "symdef", "symfind", "symundef"}
    BY <1>1, <1>2 DEF Language!Takes, Requires, Kinds, Language!Jumps, Branches
  <1>3. CASE instruction \in {"str", "string"}
    BY <1>1, <1>3 DEF Language!Takes, Requires, Kinds, Language!Jumps, Branches
  <1>4. CASE instruction \in {"call", "coro", "funlit"}
    BY <1>1, <1>4 DEF Language!Takes, Requires, Kinds, Language!Jumps, Branches
  <1>5. CASE instruction \in Branches
    BY <1>1, <1>5 DEF Language!Takes, Requires, Kinds, Language!Jumps, Branches
  <1>6. CASE instruction \notin {"byte", "open", "int", "symdef", "symfind", "symundef", "str",
                                 "string", "call", "coro", "funlit"} \cup Branches
    BY <1>1, <1>6 DEF Language!Takes, Requires, Kinds, Language!Jumps, Branches
  <1> QED
    BY <1>2, <1>3, <1>4, <1>5, <1>6

(* assemble() accepts what the language does.                              *)
LEMMA WellFormedIs ==
  ASSUME TextRead
  PROVE  Language!WellFormed <=> lines # <<>> /\ LabelsResolved /\ OperandsRight
  <1>1. DOMAIN lines = DOMAIN source /\ (lines = <<>> <=> source = <<>>)
    BY SameLines
  <1> DEFINE Unique(i) == \A j \in DOMAIN source :
                source[i].label # None /\ Language!Defines(j, Language!FullName(i, source[i].label))
                  => i = j
  <1>2. ASSUME NEW i \in DOMAIN source
        PROVE  Unique(i) <=> (lines[i].label # None => LinesOf(lines[i].label) = {i})
    <2>1. CASE source[i].label = None
      BY <2>1, LineKept
    <2>2. CASE source[i].label # None
      <3>1. PICK key : key = lines[i].label
        OBVIOUS
      <3>2. Language!FullName(i, source[i].label) = key /\ key # None
        BY <2>2, <3>1, LineKept
      <3>3. key \in Keys
        <4>1. key \in Keys \cup {None}
          BY <3>1, LineKept, OperandTypes
        <4> QED
          BY <3>2, <4>1
      <3>4. Language!Definitions(key) = LinesOf(key)
        BY <3>3, DefinitionsIs
      <3>5. i \in LinesOf(key)
        BY <1>1, <3>1 DEF LinesOf
      <3>6. Unique(i) <=> \A j \in DOMAIN source : Language!Defines(j, key) => i = j
        BY <2>2, <3>2
      <3>7. (\A j \in DOMAIN source : Language!Defines(j, key) => i = j) <=> LinesOf(key) = {i}
        BY <3>4, <3>5 DEF Language!Definitions
      <3> QED
        BY <3>1, <3>2, <3>6, <3>7
    <2> QED
      BY <2>1, <2>2
  <1>3. ASSUME NEW i \in DOMAIN source
        PROVE  (Language!RefersToLabel(i) =>
                  Language!Definitions(Language!FullName(i, source[i].operand[2])) # {})
                 <=> (IsReference(lines[i].operand) => LinesOf(lines[i].operand[2]) # {})
    <2>1. Language!RefersToLabel(i) <=> IsReference(lines[i].operand)
      <3>1. IsReference(source[i].operand) <=> IsReference(lines[i].operand)
        BY LineKept
      <3> QED
        BY <3>1 DEF Language!RefersToLabel, IsReference
    <2>2. ASSUME IsReference(lines[i].operand)
          PROVE  Language!Definitions(Language!FullName(i, source[i].operand[2]))
                   = LinesOf(lines[i].operand[2])
      <3>1. PICK key : key = lines[i].operand[2]
        OBVIOUS
      <3>2. Language!FullName(i, source[i].operand[2]) = key
        BY <2>2, <3>1, LineKept
      <3>3. key \in Keys
        BY <2>2, <3>1, LineKept, OperandTypes DEF IsReference
      <3> QED
        BY <3>1, <3>2, <3>3, DefinitionsIs
    <2> QED
      BY <2>1, <2>2
  <1>4. ASSUME NEW i \in DOMAIN source
        PROVE  source[i].operand[1] \in Language!Takes(source[i].instruction)
                 <=> Requires(lines[i].instruction) \in {None, lines[i].operand[1]}
    <2>1. /\ lines[i].operand[1] = source[i].operand[1]
          /\ lines[i].instruction = source[i].instruction
          /\ lines[i] \in LineTypes
      BY LineKept
    <2>2. lines[i].operand[1] \in Kinds
      BY <2>1, OperandTypes
    <2> QED
      BY <2>1, <2>2, TakesIs
  <1>5. Language!WellFormed <=>
          /\ source # <<>>
          /\ \A i \in DOMAIN source : Unique(i)
          /\ \A i \in DOMAIN source :
               Language!RefersToLabel(i) =>
                 Language!Definitions(Language!FullName(i, source[i].operand[2])) # {}
          /\ \A i \in DOMAIN source :
               source[i].operand[1] \in Language!Takes(source[i].instruction)
    BY Zenon DEF Language!WellFormed
  <1> HIDE DEF Unique
  <1>6. LabelsResolved <=>
          /\ \A i \in DOMAIN source : lines[i].label # None => LinesOf(lines[i].label) = {i}
          /\ \A i \in DOMAIN source :
               IsReference(lines[i].operand) => LinesOf(lines[i].operand[2]) # {}
    BY <1>1 DEF LabelsResolved
  <1>7. OperandsRight <=>
          \A i \in DOMAIN source : Requires(lines[i].instruction) \in {None, lines[i].operand[1]}
    BY <1>1 DEF OperandsRight
  <1>8. (\A i \in DOMAIN source : Unique(i))
          <=> \A i \in DOMAIN source : lines[i].label # None => LinesOf(lines[i].label) = {i}
    BY <1>2
  <1>9. (\A i \in DOMAIN source :
           Language!RefersToLabel(i) =>
             Language!Definitions(Language!FullName(i, source[i].operand[2])) # {})
          <=> \A i \in DOMAIN source :
                IsReference(lines[i].operand) => LinesOf(lines[i].operand[2]) # {}
    BY <1>3
  <1>10. (\A i \in DOMAIN source :
            source[i].operand[1] \in Language!Takes(source[i].instruction))
          <=> \A i \in DOMAIN source :
                Requires(lines[i].instruction) \in {None, lines[i].operand[1]}
    BY <1>4
  <1> QED
    BY <1>1, <1>5, <1>6, <1>7, <1>8, <1>9, <1>10

-----------------------------------------------------------------------------
(* Every step is one of the language                                       *)

(* The lines stay where they are.                                          *)
LEMMA LinesStay ==
  ASSUME UNCHANGED assembled
  PROVE  \A q : LineAt(q)' = LineAt(q)
  <1>1. lines' = lines /\ position' = position
    BY DEF assembled
  <1>2. \A q : From(q)' = From(q)
    BY <1>1 DEF From
  <1> TAKE q
  <1>3. PICK T : T = From(q)
    OBVIOUS
  <1>4. From(q)' = T
    BY <1>2, <1>3
  <1>5. LineAt(q) = IF q = 0 THEN Len(lines) + 1
                    ELSE IF T = {} THEN Len(lines) + 1 ELSE CHOOSE i \in T : \A j \in T : i <= j
    BY <1>3, LineAtIs DEF FirstOf
  <1>6. PICK S : S = {i \in DOMAIN lines : lines[i].instruction # None /\ position[i] >= q}
    OBVIOUS
  <1>7. S = T
    BY <1>3, <1>6 DEF From
  <1>8. LineAt(q)' = IF q = 0 \/ S = {} THEN Len(lines) + 1 ELSE CHOOSE i \in S : \A j \in S : i <= j
    BY <1>1, <1>6 DEF LineAt
  <1> QED
    BY <1>5, <1>7, <1>8

(* A program that runs has positions.                                      *)
LEMMA Positioned ==
  ASSUME Running
  PROVE  position # <<>> /\ AtLine = LineAt(counter)
  <1>1. Built(position, code)
    BY DEF Running
  <1>2. Len(position) = Len(lines) + 1 /\ Len(lines) \in Nat
    BY <1>1, BuiltFacts
  <1>3. Len(position) # 0
    BY <1>2
  <1>4. position # <<>>
    BY <1>3, EmptySeq
  <1> QED
    BY <1>4 DEF AtLine

(* The line whose instruction is fetched is the one that is executed.      *)
LEMMA FetchesLine ==
  ASSUME TextRead, Running, NEW i \in Program, counter = position[i],
         lines[i].instruction # None, UNCHANGED assembled, phase = "running",
         NEW names, lines[i].instruction \in names
  PROVE  /\ AtLine = i /\ i \in DOMAIN source /\ source' = source
         /\ Language!Executing(names) /\ Language!Now = lines[i].instruction
  <1>1. Built(position, code)
    BY DEF Running
  <1>2. AtLine = i
    BY <1>1, Positioned, LineAtLabel, LandsThere
  <1>3. i \in DOMAIN source
    BY <1>1, BuiltFacts, SameLines
  <1>4. source[i].instruction = lines[i].instruction
    BY <1>3, LineKept
  <1>5. i # Language!End
    BY <1>3 DEF Language!End, TextRead
  <1>6. source' = source
    BY DEF assembled
  <1>7. Language!Now = lines[i].instruction
    BY <1>2, <1>4 DEF Language!Now
  <1> QED
    BY <1>2, <1>3, <1>5, <1>6, <1>7 DEF Language!Executing

(* Going on at a position is going on at its line.                         *)
LEMMA GoesOn ==
  ASSUME Running, phase = "running", UNCHANGED assembled, NEW incr \in Int, Advance(incr),
         NEW j, LineAt(counter + incr) = Language!Landing(j)
  PROVE  Language!GoTo(j) /\ AtLine' = Language!Landing(j)
  <1>1. counter \in Nat
    BY EntryIs DEF Running
  <1>2. AtLine = LineAt(counter) /\ position # <<>>
    BY Positioned
  <1>3. AtLine' = LineAt(counter)'
    BY <1>2 DEF AtLine, assembled
  <1>4. CASE incr = 0
    <2>1. phase' = "aborted" /\ counter' = counter
      BY <1>4 DEF Advance
    <2>2. counter + incr = counter
      BY <1>1, <1>4
    <2>3. AtLine' = LineAt(counter)
      <3>1. PICK q : q = counter
        OBVIOUS
      <3>2. LineAt(counter)' = LineAt(q)'
        BY <2>1, <3>1 DEF LineAt
      <3> QED
        BY <1>3, <3>1, <3>2, LinesStay
    <2> QED
      BY <1>2, <2>1, <2>2, <2>3 DEF Language!GoTo
  <1>5. CASE incr # 0
    <2>1. phase' = "running" /\ counter' = counter + incr
      BY <1>5 DEF Advance
    <2>2. AtLine' = LineAt(counter + incr)
      <3>1. PICK q : q = counter + incr
        OBVIOUS
      <3>2. LineAt(counter)' = LineAt(q)'
        BY <2>1, <3>1 DEF LineAt
      <3> QED
        BY <1>3, <3>1, <3>2, LinesStay
    <2> QED
      BY <2>1, <2>2 DEF Language!GoTo
  <1> QED
    BY <1>4, <1>5

(* The calls and the function reference that a step leaves alone.          *)
LEMMA CallsStay ==
  ASSUME UNCHANGED assembled, UNCHANGED returns
  PROVE  UNCHANGED CallLines
  <1>1. \A q : LineAt(q)' = LineAt(q)
    BY LinesStay
  <1>2. PICK s : s = returns
    OBVIOUS
  <1>3. returns' = s
    BY <1>2
  <1>4. \A i : LineAt(returns[i + 1])' = LineAt(s[i + 1])
    <2> TAKE i
    <2>1. PICK q : q = s[i + 1]
      OBVIOUS
    <2>2. LineAt(returns[i + 1])' = LineAt(q)'
      BY <1>3, <2>1 DEF LineAt
    <2> QED
      BY <1>1, <2>1, <2>2
  <1> QED
    BY <1>2, <1>3, <1>4 DEF CallLines

(* The same of the function reference.                                     *)
LEMMA FunctionStays ==
  ASSUME UNCHANGED assembled, UNCHANGED function
  PROVE  UNCHANGED FunctionLine
  <1>1. PICK q : q = function
    OBVIOUS
  <1>2. function' = q /\ LineAt(function)' = LineAt(q)'
    BY <1>1 DEF LineAt
  <1>3. LineAt(q)' = LineAt(q)
    BY LinesStay
  <1> QED
    BY <1>1, <1>2, <1>3 DEF FunctionLine

(* A literal shows what its line says, cut to its length.                  *)
LEMMA LiteralStep ==
  ASSUME TextRead, Running, PushLiteral
  PROVE  Language!Literal
  <1> DEFINE incr == instruction_sizes(Fetched[2])
                     + (IF Fetched[2] \in {"str", "string"} THEN Operand ELSE 0)
  <1>1. /\ phase = "running" /\ Fetched[2] \in {"byte", "int", "str", "string", "symfind"}
        /\ UNCHANGED assembled /\ UNCHANGED returns /\ UNCHANGED function
        /\ shown' = <<IF Fetched[2] \in {"str", "string"} THEN "string" ELSE "integer", Operand>>
        /\ Advance(incr)
    BY Zenon DEF PushLiteral, Fetch
  <1>2. Built(position, code) /\ counter \in Entries(code)
    BY DEF Running
  <1>3. PICK name, u : name = Fetched[2] /\ u = incr
    OBVIOUS
  <1>4. name \in {"byte", "int", "str", "string", "symfind"} /\ Advance(u)
    BY <1>1, <1>3
  <1>5. PICK i \in Program :
          /\ counter = position[i] /\ lines[i].instruction = name /\ WithOperand(i)
          /\ code[counter + 1] = OperandByte(i, position)
          /\ u \in Nat /\ Follows(i, counter + u, position, code)
    <2>1. u = instruction_sizes(name)
              + (IF name \in {"str", "string"} THEN code[counter + 1][2] ELSE 0)
      BY <1>3 DEF Operand
    <2>2. name = code[counter][2]
      BY <1>3 DEF Fetched
    <2> HIDE DEF incr
    <2> QED
      BY <1>2, <1>4, <2>1, <2>2, LiteralLine
  <1>6. shown' = <<IF name \in {"str", "string"} THEN "string" ELSE "integer",
                   OperandByte(i, position)[2]>>
    BY <1>1, <1>3, <1>5 DEF Operand
  <1> HIDE DEF incr
  <1>7. name # None
    BY <1>4, InstructionNames
  <1>8. /\ AtLine = i /\ i \in DOMAIN source
        /\ Language!Executing({"byte", "int", "str", "string", "symfind"})
        /\ Language!Now = name
    BY <1>1, <1>4, <1>5, <1>7, FetchesLine
  <1>9. Language!GoTo(AtLine + 1)
    <2>1. LineAt(counter + u) = Language!Landing(i + 1)
      BY <1>2, <1>5, LineAtNext
    <2> QED
      BY <1>1, <1>4, <1>5, <1>8, <2>1, GoesOn
  <1>10. UNCHANGED <<CallLines, FunctionLine>>
    BY <1>1, CallsStay, FunctionStays
  <1>11. shown' \in Language!Shows(source[AtLine].operand)
    <2>1. /\ lines[i].operand[1] = Requires(name)
          /\ lines[i].operand[1] \in {"integer", "string"} => lines[i].operand[2] \in Int
          /\ lines[i].operand[1] = "string" => lines[i].operand[2] \in Nat
      BY <1>2, <1>5, OperandKind
    <2>2. lines[i].operand[1] = IF name \in {"str", "string"} THEN "string" ELSE "integer"
      <3>1. Requires(name) = IF name \in {"str", "string"} THEN "string" ELSE "integer"
        BY <1>4 DEF Requires, Branches
      <3> QED
        BY <2>1, <3>1
    <2>3. lines[i].operand = source[i].operand
      <3>1. ~ IsReference(lines[i].operand)
        BY <2>2 DEF IsReference
      <3> QED
        BY <1>8, <3>1, LineKept
    <2>4. PICK v : v = lines[i].operand[2]
      OBVIOUS
    <2>5. /\ v \in Int /\ (name \in {"str", "string"} => v \in Nat)
          /\ ByteRange \in Nat \ {0}
      BY <2>1, <2>2, <2>4, AssemblerAssumption
    <2>6. lines[i].operand = <<lines[i].operand[1], v>>
      <3>1. lines[i] \in LineTypes
        BY <1>2, BuiltFacts
      <3> QED
        BY <2>2, <2>4, <3>1, OperandTypes
    <2>7. v = source[AtLine].operand[2] /\ source[AtLine].operand = lines[i].operand
      BY <1>8, <2>3, <2>4
    <2>8. CASE name = "byte"
      <3>1. OperandByte(i, position) = <<"operand", v % ByteRange>>
        BY <1>5, <2>2, <2>4, <2>5, <2>8 DEF OperandByte
      <3>2. shown' = <<"integer", v % ByteRange>>
        BY <1>6, <2>8, <3>1
      <3>3. Language!Shows(source[AtLine].operand) = {<<"integer", v % ByteRange>>}
        BY <1>8, <2>5, <2>7, <2>8 DEF Language!Shows
      <3> QED
        BY <3>2, <3>3
    <2>9. CASE name = "str"
      <3>1. OperandByte(i, position) = <<"operand", v % ByteRange>>
        BY <1>5, <2>2, <2>4, <2>5, <2>9 DEF OperandByte
      <3>2. shown' = <<"string", v % ByteRange>>
        BY <1>6, <2>9, <3>1
      <3>3. CASE v >= ByteRange
        <4>1. Language!Shows(source[AtLine].operand) = {"string"} \X (0 .. v)
          BY <1>8, <2>5, <2>7, <2>9, <3>3 DEF Language!Shows
        <4>2. v % ByteRange \in 0 .. v
          BY <2>5, <2>9
        <4> QED
          BY <3>2, <4>1, <4>2
      <3>4. CASE ~ (v >= ByteRange)
        <4>1. Language!Shows(source[AtLine].operand) = {lines[i].operand}
          BY <1>8, <2>5, <2>7, <2>9, <3>4 DEF Language!Shows
        <4>2. v % ByteRange = v
          BY <2>5, <2>9, <3>4
        <4>3. lines[i].operand = <<"string", v>>
          BY <2>2, <2>6, <2>9
        <4> QED
          BY <3>2, <4>1, <4>2, <4>3
      <3> QED
        BY <3>3, <3>4
    <2>10. CASE name \notin {"byte", "str"}
      <3>1. OperandByte(i, position) = <<"operand", v>>
        BY <1>4, <1>5, <2>2, <2>4, <2>10 DEF OperandByte
      <3>2. Language!Shows(source[AtLine].operand) = {lines[i].operand}
        BY <1>8, <2>7, <2>10 DEF Language!Shows
      <3>3. shown' = <<lines[i].operand[1], v>>
        BY <1>6, <2>2, <3>1
      <3> QED
        BY <2>6, <3>2, <3>3
    <2> QED
      BY <2>8, <2>9, <2>10
  <1> QED
    BY <1>8, <1>9, <1>10, <1>11 DEF Language!Literal

(* What a label's operand is, in the language                              *)
LEMMA LabelStep ==
  ASSUME TextRead, Running, phase = "running", UNCHANGED assembled,
         NEW name, name = Fetched[2], name \in Branches \cup {"call", "coro", "funlit"},
         NEW names, name \in names
  PROVE  /\ Language!Executing(names) /\ Language!Now = name
         /\ Follows(AtLine, counter + 1 + Word, position, code)
         /\ LineAt(counter + 1 + Word) = Language!Landing(AtLine + 1)
         /\ \E t \in Program :
              /\ Language!Target(AtLine) = t
              /\ LineAt(position[t]) = Language!Landing(t)
              /\ position[t] \in Nat /\ position[t] # 0
              /\ name \in Branches => Operand \in Int /\ counter + Operand = position[t]
              /\ name \notin Branches => Operand = position[t]
  <1>1. Built(position, code) /\ counter \in Entries(code)
    BY DEF Running
  <1>2. name = code[counter][2] /\ Operand = code[counter + 1][2]
    BY DEF Fetched, Operand
  <1>3. PICK i \in Program, t \in Program :
          /\ counter = position[i] /\ lines[i].instruction = name
          /\ Follows(i, counter + 1 + Word, position, code)
          /\ lines[i].operand[1] \in {"location", "offset"} /\ lines[i].operand[2] \in Keys
          /\ LinesOf(lines[i].operand[2]) = {t}
          /\ Operand = IF name \in Branches THEN position[t] - position[i] ELSE position[t]
    BY <1>1, <1>2, LabelLine
  <1>4. name # None
    BY InstructionNames
  <1>5. AtLine = i /\ i \in DOMAIN source /\ Language!Executing(names) /\ Language!Now = name
    BY <1>3, <1>4, FetchesLine
  <1>6. Language!Target(AtLine) = t
    BY <1>3, <1>5, TargetIs
  <1>7. /\ LineAt(position[t]) = Language!Landing(t)
        /\ LineAt(counter + 1 + Word) = Language!Landing(AtLine + 1)
    BY <1>1, <1>3, <1>5, LineAtLabel, LineAtNext
  <1>8. /\ position[i] \in Nat /\ position[t] \in Nat /\ position[t] >= 1
    BY <1>1, InOrder
  <1>9. /\ name \in Branches => Operand \in Int /\ counter + Operand = position[t]
        /\ name \notin Branches => Operand = position[t]
        /\ position[t] # 0
    BY <1>3, <1>8
  <1> QED
    BY <1>3, <1>5, <1>6, <1>7, <1>8, <1>9

(* FUNLIT                                                                  *)
LEMMA FunlitStep ==
  ASSUME TextRead, Running, FUNLIT
  PROVE  Language!Funlit
  <1>1. /\ phase = "running" /\ Fetched[2] = "funlit"
        /\ UNCHANGED assembled /\ UNCHANGED returns /\ function' = Operand
        /\ Advance(1 + Word) /\ UNCHANGED shown
    BY DEF FUNLIT, Fetch
  <1>2. PICK t \in Program :
          /\ Language!Executing({"funlit"})
          /\ LineAt(counter + 1 + Word) = Language!Landing(AtLine + 1)
          /\ Language!Target(AtLine) = t
          /\ LineAt(position[t]) = Language!Landing(t)
          /\ position[t] \in Nat /\ Operand = position[t]
    <2>1. "funlit" \notin Branches
      BY DEF Branches
    <2>2. PICK name : name = Fetched[2]
      OBVIOUS
    <2>3. name = "funlit" /\ name \in {"funlit"}
      BY <1>1, <2>2
    <2> QED
      BY <1>1, <2>1, <2>2, <2>3, LabelStep
  <1>3. counter \in Nat /\ 1 + Word \in Int /\ counter + (1 + Word) = counter + 1 + Word
    BY EntryIs, AssemblerAssumption DEF Running
  <1>4. Language!GoTo(AtLine + 1)
    BY <1>1, <1>2, <1>3, GoesOn
  <1>5. FunctionLine' = Language!Landing(t)
    <2>1. PICK q : q = position[t]
      OBVIOUS
    <2>2. function' = q /\ q # None
      BY <1>1, <1>2, <2>1, NoneAssumption
    <2>3. LineAt(function)' = LineAt(q)'
      BY <2>2 DEF LineAt
    <2>4. LineAt(q)' = LineAt(q)
      BY <1>1, LinesStay
    <2> QED
      BY <1>2, <2>1, <2>2, <2>3, <2>4 DEF FunctionLine
  <1>6. UNCHANGED CallLines
    BY <1>1, CallsStay
  <1> QED
    BY <1>1, <1>2, <1>4, <1>5, <1>6 DEF Language!Funlit

(* JMP, JMP0 and JMPU                                                      *)
LEMMA JumpStep ==
  ASSUME TextRead, Running, JMP
  PROVE  Language!Jump
  <1>1. /\ phase = "running" /\ Fetched[2] \in Branches
        /\ UNCHANGED assembled /\ UNCHANGED returns /\ UNCHANGED function /\ UNCHANGED shown
        /\ Advance(Operand) \/ (Fetched[2] # "jmp" /\ Advance(1 + Word))
    BY DEF JMP, Fetch
  <1>2. PICK t \in Program :
          /\ Language!Executing(Branches) /\ Language!Now = Fetched[2]
          /\ LineAt(counter + 1 + Word) = Language!Landing(AtLine + 1)
          /\ Language!Target(AtLine) = t
          /\ LineAt(position[t]) = Language!Landing(t)
          /\ Operand \in Int /\ counter + Operand = position[t]
    <2>1. PICK name : name = Fetched[2]
      OBVIOUS
    <2>2. name \in Branches
      BY <1>1, <2>1
    <2> QED
      BY <1>1, <2>1, <2>2, LabelStep
  <1>3. counter \in Nat /\ 1 + Word \in Int /\ counter + (1 + Word) = counter + 1 + Word
    BY EntryIs, AssemblerAssumption DEF Running
  <1>4. UNCHANGED <<CallLines, FunctionLine>>
    BY <1>1, CallsStay, FunctionStays
  <1>5. Language!Executing(Language!Jumps)
    BY <1>2 DEF Language!Jumps, Branches
  <1>6. Language!GoTo(Language!Target(AtLine)) \/ (Language!Now # "jmp" /\ Language!GoTo(AtLine + 1))
    <2>1. CASE Advance(Operand)
      BY <1>1, <1>2, <2>1, GoesOn
    <2>2. CASE Fetched[2] # "jmp" /\ Advance(1 + Word)
      BY <1>1, <1>2, <1>3, <2>2, GoesOn
    <2> QED
      BY <1>1, <2>1, <2>2
  <1> QED
    BY <1>1, <1>4, <1>5, <1>6 DEF Language!Jump

(* Sequences with another last element, and without their last one.        *)
Longer(f, g, m, x) ==
  /\ m \in Nat /\ x \in Nat
  /\ f \in [1 .. m -> Nat] /\ g \in [1 .. m + 1 -> Nat]
  /\ \A i \in 1 .. m : g[i] = f[i]
  /\ g[m + 1] = x

(* g is f without its last element.                                        *)
Shorter(f, g, m) ==
  /\ m \in Nat /\ m >= 1
  /\ f \in [1 .. m -> Nat] /\ g \in [1 .. m - 1 -> Nat]
  /\ \A i \in 1 .. m - 1 : g[i] = f[i]

(* The first is Append.                                                    *)
LEMMA LongerSeq ==
  ASSUME NEW m, NEW f, NEW g, NEW x, Longer(f, g, m, x)
  PROVE  g = Append(f, x) /\ Len(f) = m
  <1>1. f \in Seq(Nat) /\ Len(f) = m
    BY DEF Longer
  <1>2. PICK h : h = Append(f, x)
    OBVIOUS
  <1>3. h \in Seq(Nat) /\ Len(h) = m + 1 /\ (\A i \in 1 .. m : h[i] = f[i]) /\ h[m + 1] = x
    BY <1>1, <1>2 DEF Longer
  <1>4. h \in [1 .. m + 1 -> Nat] /\ g \in [1 .. m + 1 -> Nat]
    BY <1>3 DEF Longer
  <1>5. \A i \in 1 .. m + 1 : i \in 1 .. m \/ i = m + 1
    BY DEF Longer
  <1>6. \A i \in 1 .. m + 1 : g[i] = h[i]
    BY <1>3, <1>5, Zenon DEF Longer
  <1> QED
    BY <1>1, <1>2, <1>4, <1>6

(* The second is SubSeq.                                                   *)
LEMMA ShorterSeq ==
  ASSUME NEW m, NEW f, NEW g, Shorter(f, g, m)
  PROVE  g = SubSeq(f, 1, m - 1) /\ Len(f) = m /\ f # <<>>
  <1>1. f \in Seq(Nat) /\ Len(f) = m /\ m - 1 \in Nat
    BY DEF Shorter
  <1>2. SubSeq(f, 1, m - 1) = [i \in 1 .. m - 1 |-> f[i]]
    BY <1>1
  <1>3. g = [i \in 1 .. m - 1 |-> f[i]]
    BY DEF Shorter
  <1>4. Len(f) # 0
    BY <1>1 DEF Shorter
  <1>5. f # <<>>
    BY <1>4, EmptySeq
  <1> QED
    BY <1>1, <1>2, <1>3, <1>5

(* t is s with q after it.                                                 *)
Appended(t, s, q, S) ==
  /\ t \in Seq(S) /\ Len(t) = Len(s) + 1 /\ Len(s) \in Nat
  /\ \A i \in 1 .. Len(s) : t[i] = s[i] /\ s[i] \in S
  /\ t[Len(s) + 1] = q

(* That is what Append returns.                                            *)
LEMMA AppendFacts ==
  ASSUME NEW S, NEW s \in Seq(S), NEW q \in S
  PROVE  Appended(Append(s, q), s, q, S)
  BY DEF Appended

(* The calls, after a step that leaves the code alone                      *)
LEMMA CallsNext ==
  ASSUME UNCHANGED assembled, NEW t, returns' = t
  PROVE  CallLines' = [i \in 1 .. Len(t) - 1 |-> LineAt(t[i + 1])]
  <1>1. \A q : LineAt(q)' = LineAt(q)
    BY LinesStay
  <1>2. \A i : LineAt(returns[i + 1])' = LineAt(t[i + 1])
    <2> TAKE i
    <2>1. PICK q : q = t[i + 1]
      OBVIOUS
    <2>2. LineAt(returns[i + 1])' = LineAt(q)'
      BY <2>1 DEF LineAt
    <2> QED
      BY <1>1, <2>1, <2>2
  <1> QED
    BY <1>2 DEF CallLines

(* What a call does to the lines that calls return to.                     *)
LEMMA CallsPush ==
  ASSUME UNCHANGED assembled, NEW q \in Nat, returns \in Seq(Nat), Len(returns) >= 1,
         returns' = Append(returns, q), \A p \in Nat : LineAt(p) \in Nat
  PROVE  /\ CallLines' = Append(CallLines, LineAt(q))
         /\ Len(CallLines) = Len(returns) - 1
  <1>1. PICK s, t, m : s = returns /\ t = Append(s, q) /\ m = Len(s) - 1
    OBVIOUS
  <1>2. /\ t \in Seq(Nat) /\ Len(t) = Len(s) + 1 /\ Len(s) \in Nat /\ Len(s) >= 1
        /\ \A i \in 1 .. Len(s) : t[i] = s[i] /\ s[i] \in Nat
        /\ t[Len(s) + 1] = q
    <2>1. s \in Seq(Nat) /\ Len(s) >= 1
      BY <1>1
    <2>2. Appended(Append(s, q), s, q, Nat)
      BY <2>1, AppendFacts
    <2>3. t = Append(s, q)
      BY <1>1
    <2> QED
      BY <2>1, <2>2, <2>3, Zenon DEF Appended
  <1>3. m \in Nat /\ m + 1 = Len(s) /\ Len(t) - 1 = m + 1 /\ (m + 1) + 1 = Len(s) + 1
    BY <1>1, <1>2
  <1>4. \A i \in 1 .. m : i + 1 \in 1 .. Len(s) /\ i \in 1 .. m + 1
    BY <1>3
  <1>5. \A i \in 1 .. m : t[i + 1] = s[i + 1] /\ s[i + 1] \in Nat
    BY <1>2, <1>4
  <1>6. PICK f : f = [i \in 1 .. m |-> LineAt(s[i + 1])]
    OBVIOUS
  <1>7. PICK g : g = [i \in 1 .. m + 1 |-> LineAt(t[i + 1])]
    OBVIOUS
  <1>8. CallLines = f
    BY <1>1, <1>6, Zenon DEF CallLines
  <1>9. CallLines' = g
    <2>1. returns' = t
      BY <1>1
    <2>2. CallLines' = [i \in 1 .. Len(t) - 1 |-> LineAt(t[i + 1])]
      BY <2>1, CallsNext
    <2> QED
      BY <1>3, <1>7, <2>2, Zenon
  <1>10. f \in [1 .. m -> Nat] /\ \A i \in 1 .. m : f[i] = LineAt(s[i + 1])
    <2>1. \A i \in 1 .. m : LineAt(s[i + 1]) \in Nat
      BY <1>5
    <2> QED
      BY <1>6, <2>1, Zenon
  <1>11. m + 1 \in 1 .. m + 1 /\ t[(m + 1) + 1] = q
    BY <1>2, <1>3
  <1>12. /\ g \in [1 .. m + 1 -> Nat]
         /\ \A i \in 1 .. m : g[i] = f[i]
         /\ g[m + 1] = LineAt(q)
    <2>1. \A i \in 1 .. m + 1 : i \in 1 .. m \/ i = m + 1
      BY <1>3
    <2>2. \A i \in 1 .. m + 1 : LineAt(t[i + 1]) \in Nat
      BY <1>5, <1>11, <2>1
    <2>3. g \in [1 .. m + 1 -> Nat] /\ \A i \in 1 .. m + 1 : g[i] = LineAt(t[i + 1])
      BY <1>7, <2>2, Zenon
    <2> QED
      BY <1>4, <1>5, <1>10, <1>11, <2>3, Zenon
  <1>13. g = Append(f, LineAt(q)) /\ Len(f) = m
    <2>1. LineAt(q) \in Nat
      OBVIOUS
    <2> QED
      BY <1>3, <1>10, <1>12, <2>1, LongerSeq, Zenon DEF Longer
  <1> QED
    BY <1>1, <1>8, <1>9, <1>13, Zenon

(* A start without calls                                                   *)
LEMMA NoCalls ==
  ASSUME Len(returns) <= 1, Len(returns) \in Nat
  PROVE  CallLines = <<>>
  <1>1. 1 .. Len(returns) - 1 = {}
    OBVIOUS
  <1> QED
    BY <1>1 DEF CallLines

(* The same in the next state.                                             *)
LEMMA NoCallsNext ==
  ASSUME Len(returns') <= 1, Len(returns') \in Nat
  PROVE  CallLines' = <<>>
  <1>1. 1 .. Len(returns') - 1 = {}
    OBVIOUS
  <1> QED
    BY <1>1 DEF CallLines

(* What a return does to them.                                             *)
LEMMA CallsPop ==
  ASSUME UNCHANGED assembled, NEW s \in Seq(Nat), s = returns, NEW n \in Nat, n = Len(s), n >= 1,
         NEW t \in Seq(Nat), t = returns', Len(t) = n - 1, \A i \in 1 .. n - 1 : t[i] = s[i],
         \A p \in Nat : LineAt(p) \in Nat
  PROVE  /\ n = 1 => CallLines = <<>> /\ CallLines' = <<>>
         /\ n > 1 =>
              /\ CallLines # <<>>
              /\ CallLines[Len(CallLines)] = LineAt(s[n])
              /\ CallLines' = SubSeq(CallLines, 1, Len(CallLines) - 1)
  <1>1. PICK m : m = n - 1
    OBVIOUS
  <1>2. /\ m \in Nat /\ m + 1 = n /\ Len(t) = m
        /\ \A i \in 1 .. m : s[i + 1] \in Nat
        /\ \A i \in 1 .. m : t[i] = s[i]
    <2>1. m \in Nat /\ m + 1 = n /\ Len(t) = m /\ \A i \in 1 .. m : i + 1 \in 1 .. n
      BY <1>1
    <2>2. \A k \in 1 .. n : s[k] \in Nat
      BY ElementOfSeq, Zenon
    <2> QED
      BY <1>1, <2>1, <2>2, Zenon
  <1>3. PICK f : f = [i \in 1 .. m |-> LineAt(s[i + 1])]
    OBVIOUS
  <1>4. PICK g : g = [i \in 1 .. m - 1 |-> LineAt(t[i + 1])]
    OBVIOUS
  <1>5. CallLines = f
    BY <1>1, <1>3, Zenon DEF CallLines
  <1>6. CallLines' = g
    <2>1. CallLines' = [i \in 1 .. Len(t) - 1 |-> LineAt(t[i + 1])]
      BY CallsNext, ZenonT(60)
    <2> QED
      BY <1>2, <1>4, <2>1, Zenon
  <1>7. f \in [1 .. m -> Nat] /\ \A i \in 1 .. m : f[i] = LineAt(s[i + 1])
    <2>1. \A i \in 1 .. m : LineAt(s[i + 1]) \in Nat
      BY <1>2
    <2> QED
      BY <1>3, <2>1, Zenon
  <1>8. \A i \in 1 .. m - 1 : i \in 1 .. m /\ i + 1 \in 1 .. m
    BY <1>2
  <1>9. /\ g \in [1 .. m - 1 -> Nat]
        /\ \A i \in 1 .. m - 1 : g[i] = f[i]
    <2>1. \A i \in 1 .. m - 1 : t[i + 1] = s[i + 1] /\ s[i + 1] \in Nat
      BY <1>2, <1>8
    <2>2. \A i \in 1 .. m - 1 : LineAt(t[i + 1]) \in Nat
      BY <2>1
    <2>3. g \in [1 .. m - 1 -> Nat] /\ \A i \in 1 .. m - 1 : g[i] = LineAt(t[i + 1])
      BY <1>4, <2>2, Zenon
    <2> QED
      <3>1. ASSUME NEW i \in 1 .. m - 1
            PROVE  g[i] = f[i]
        <4>1. t[i + 1] = s[i + 1] /\ i \in 1 .. m
          BY <1>8, <2>1, Zenon
        <4>2. g[i] = LineAt(t[i + 1]) /\ f[i] = LineAt(s[i + 1])
          BY <1>7, <2>3, <4>1, Zenon
        <4> QED
          BY <4>1, <4>2, Zenon
      <3> QED
        BY <2>3, <3>1, Zenon
  <1>10. ASSUME n = 1
         PROVE  CallLines = <<>> /\ CallLines' = <<>>
    <2>1. Len(s) <= 1 /\ Len(s) \in Nat /\ Len(t) <= 1 /\ Len(t) \in Nat
      BY <1>10
    <2> QED
      BY <2>1, NoCalls, NoCallsNext, Zenon
  <1>11. ASSUME n > 1
         PROVE  /\ CallLines # <<>>
                /\ CallLines[Len(CallLines)] = LineAt(s[n])
                /\ CallLines' = SubSeq(CallLines, 1, Len(CallLines) - 1)
    <2>1. m >= 1 /\ m \in 1 .. m
      BY <1>1, <1>2, <1>11
    <2>2. g = SubSeq(f, 1, m - 1) /\ Len(f) = m /\ f # <<>>
      <3>1. Shorter(f, g, m)
        BY <1>2, <1>7, <1>9, <2>1, Zenon DEF Shorter
      <3> QED
        BY <3>1, ShorterSeq, Zenon
    <2>3. f[m] = LineAt(s[n])
      BY <1>2, <1>7, <2>1, ZenonT(60)
    <2> QED
      BY <1>5, <1>6, <2>2, <2>3, Zenon
  <1> QED
    BY <1>10, <1>11

(* What positions are is numbers, and lines are too.                       *)
LEMMA RunningTyped ==
  ASSUME TextRead, Running
  PROVE  /\ Built(position, code) /\ counter \in Entries(code) /\ counter \in Nat
         /\ returns \in Seq(Nat)
         /\ \A q \in Nat : LineAt(q) \in Nat
  <1>1. /\ Built(position, code) /\ counter \in Entries(code)
        /\ returns \in Seq(Entries(code))
    BY DEF Running
  <1>2. Entries(code) \subseteq Nat
    BY <1>1, EntryIs
  <1>3. returns \in Seq(Nat)
    BY <1>1, <1>2
  <1> QED
    BY <1>1, <1>2, <1>3, LandsOnce

(* CALL                                                                    *)
LEMMA CallStep ==
  ASSUME TextRead, Running, CALL
  PROVE  Language!Call
  <1>1. /\ phase = "running" /\ Fetched[2] = "call"
        /\ UNCHANGED assembled /\ UNCHANGED function /\ UNCHANGED shown
        /\ Len(returns) <= MaxReturns
        /\ returns' = Append(returns, counter + 1 + Word)
        /\ Advance(Operand - counter)
    BY DEF CALL, Fetch
  <1>2. /\ counter \in Nat /\ returns \in Seq(Nat) /\ \A q \in Nat : LineAt(q) \in Nat
    BY RunningTyped
  <1>3. PICK t \in Program :
          /\ Language!Executing({"call", "frcall"}) /\ Language!Now = "call"
          /\ LineAt(counter + 1 + Word) = Language!Landing(AtLine + 1)
          /\ Language!Target(AtLine) = t
          /\ LineAt(position[t]) = Language!Landing(t)
          /\ position[t] \in Nat /\ Operand = position[t]
    <2>1. "call" \notin Branches
      BY DEF Branches
    <2>2. PICK name : name = Fetched[2]
      OBVIOUS
    <2>3. name = "call" /\ name \in {"call", "frcall"}
      BY <1>1, <2>2
    <2> QED
      BY <1>1, <2>1, <2>2, <2>3, LabelStep
  <1>4. Operand - counter \in Int /\ counter + (Operand - counter) = position[t]
    <2>1. counter \in Nat /\ position[t] \in Nat /\ Operand = position[t]
      BY <1>2, <1>3, Zenon
    <2> QED
      BY <2>1
  <1>5. Language!GoTo(Language!Target(AtLine))
    BY <1>1, <1>3, <1>4, GoesOn
  <1>6. Len(returns) \in Nat /\ Len(returns) >= 1
    <2>1. Fetched # <<"instruction", "end">>
      BY <1>1
    <2> QED
      BY <2>1, NotReturned
  <1>7. counter + 1 + Word \in Nat
    BY <1>2, AssemblerAssumption
  <1>8. /\ CallLines' = Append(CallLines, LineAt(counter + 1 + Word))
        /\ Len(CallLines) = Len(returns) - 1
    BY <1>1, <1>2, <1>6, <1>7, CallsPush
  <1>9. Len(CallLines) < MaxReturns
    BY <1>1, <1>6, <1>8, AssemblerAssumption
  <1>10. UNCHANGED FunctionLine
    BY <1>1, FunctionStays
  <1> QED
    BY <1>1, <1>3, <1>5, <1>8, <1>9, <1>10 DEF Language!Call

(* FRCALL and RETURN are lines of the text: they are never padding.        *)
LEMMA ShortStep ==
  ASSUME TextRead, Running, phase = "running", UNCHANGED assembled,
         NEW name, name = Fetched[2], name \in {"frcall", "return"}, NEW names, name \in names
  PROVE  /\ Language!Executing(names) /\ Language!Now = name
         /\ LineAt(counter + 1) = Language!Landing(AtLine + 1)
  <1>1. Built(position, code) /\ counter \in Entries(code)
    BY DEF Running
  <1>2. PICK i \in Program :
          /\ counter = position[i] /\ lines[i].instruction = name /\ lines[i].instruction # None
          /\ Follows(i, counter + 1, position, code)
    BY <1>1, ShortLine DEF Fetched
  <1>3. AtLine = i /\ Language!Executing(names) /\ Language!Now = name
    BY <1>2, FetchesLine
  <1>4. LineAt(counter + 1) = Language!Landing(AtLine + 1)
    BY <1>1, <1>2, <1>3, LineAtNext
  <1> QED
    BY <1>3, <1>4

(* FRCALL                                                                  *)
LEMMA FrcallStep ==
  ASSUME TextRead, Running, FRCALL
  PROVE  Language!Call
  <1>1. /\ phase = "running" /\ Fetched[2] = "frcall"
        /\ UNCHANGED assembled /\ function # None /\ function' = None /\ UNCHANGED shown
        /\ Len(returns) <= MaxReturns
        /\ returns' = Append(returns, counter + 1)
        /\ Advance(function - counter)
    BY DEF FRCALL, Fetch
  <1>2. /\ counter \in Nat /\ returns \in Seq(Nat) /\ \A q \in Nat : LineAt(q) \in Nat
        /\ Built(position, code)
    BY RunningTyped
  <1>3. /\ Language!Executing({"call", "frcall"}) /\ Language!Now = "frcall"
        /\ LineAt(counter + 1) = Language!Landing(AtLine + 1)
    <2>1. PICK name : name = Fetched[2]
      OBVIOUS
    <2>2. name = "frcall" /\ name \in {"call", "frcall"} /\ name \in {"frcall", "return"}
      BY <1>1, <2>1
    <2> QED
      BY <1>1, <2>1, <2>2, ShortStep
  <1>4. function \in Nat
    BY <1>1, EntryIs DEF Running
  <1>5. function - counter \in Int /\ counter + (function - counter) = function
    BY <1>2, <1>4
  <1>6. /\ FunctionLine = LineAt(function) /\ FunctionLine # None
        /\ Language!Landing(FunctionLine) = LineAt(function)
    BY <1>1, <1>2, <1>4, LandsOnce DEF FunctionLine
  <1>7. Language!GoTo(FunctionLine)
    BY <1>1, <1>5, <1>6, GoesOn
  <1>8. FunctionLine' = None
    BY <1>1 DEF FunctionLine
  <1>9. Len(returns) \in Nat /\ Len(returns) >= 1
    <2>1. Fetched # <<"instruction", "end">>
      BY <1>1
    <2> QED
      BY <2>1, NotReturned
  <1>10. /\ CallLines' = Append(CallLines, LineAt(counter + 1))
         /\ Len(CallLines) = Len(returns) - 1
    <2>1. counter + 1 \in Nat
      BY <1>2
    <2> QED
      BY <1>1, <1>2, <1>9, <2>1, CallsPush
  <1>11. Len(CallLines) < MaxReturns
    BY <1>1, <1>9, <1>10, AssemblerAssumption
  <1> QED
    BY <1>1, <1>3, <1>6, <1>7, <1>8, <1>10, <1>11 DEF Language!Call

(* CORO                                                                    *)
LEMMA CoroStep ==
  ASSUME TextRead, Running, CORO
  PROVE  Language!Coro
  <1>1. /\ phase = "running" /\ Fetched[2] = "coro" /\ UNCHANGED assembled /\ UNCHANGED shown
        /\ \/ Advance(1 + Word) /\ UNCHANGED returns /\ UNCHANGED function
           \/ counter' = Operand /\ returns' = <<0>> /\ function' = None /\ phase' = phase
    BY DEF CORO, Fetch
  <1>2. PICK t \in Program :
          /\ Language!Executing({"coro"})
          /\ LineAt(counter + 1 + Word) = Language!Landing(AtLine + 1)
          /\ Language!Target(AtLine) = t
          /\ LineAt(position[t]) = Language!Landing(t)
          /\ position[t] \in Nat /\ Operand = position[t]
    <2>1. "coro" \notin Branches
      BY DEF Branches
    <2>2. PICK name : name = Fetched[2]
      OBVIOUS
    <2>3. name = "coro" /\ name \in {"coro"}
      BY <1>1, <2>2
    <2> QED
      BY <1>1, <2>1, <2>2, <2>3, LabelStep
  <1>3. CASE Advance(1 + Word) /\ UNCHANGED returns /\ UNCHANGED function
    <2>1. counter \in Nat /\ 1 + Word \in Int /\ counter + (1 + Word) = counter + 1 + Word
      BY RunningTyped, AssemblerAssumption
    <2>2. Language!GoTo(AtLine + 1)
      BY <1>1, <1>2, <1>3, <2>1, GoesOn
    <2>3. UNCHANGED <<CallLines, FunctionLine>>
      BY <1>1, <1>3, CallsStay, FunctionStays
    <2> QED
      BY <1>1, <1>2, <2>2, <2>3 DEF Language!Coro
  <1>4. CASE counter' = Operand /\ returns' = <<0>> /\ function' = None /\ phase' = phase
    <2>1. AtLine' = Language!Landing(Language!Target(AtLine))
      <3>1. PICK q : q = position[t]
        OBVIOUS
      <3>2. position # <<>> /\ position' = position
        BY <1>1, Positioned DEF assembled
      <3>3. AtLine' = LineAt(counter)'
        BY <3>2 DEF AtLine
      <3>4. counter' = q
        BY <1>2, <1>4, <3>1
      <3>5. LineAt(counter)' = LineAt(q)'
        BY <3>4 DEF LineAt
      <3>6. LineAt(q)' = LineAt(q)
        BY <1>1, LinesStay
      <3> QED
        BY <1>2, <3>1, <3>3, <3>5, <3>6
    <2>2. CallLines' = <<>>
      <3>1. Len(returns') = 1
        BY <1>4
      <3> QED
        BY <3>1, NoCallsNext
    <2>3. FunctionLine' = None
      BY <1>4 DEF FunctionLine
    <2> QED
      BY <1>1, <1>2, <1>4, <2>1, <2>2, <2>3 DEF Language!Coro
  <1> QED
    BY <1>1, <1>3, <1>4

(* RETURN, from a function or from the program                             *)
LEMMA ReturnStep ==
  ASSUME TextRead, Running, RETURN
  PROVE  Language!Return
  <1>1. /\ phase = "running" /\ Fetched[2] = "return"
        /\ UNCHANGED assembled /\ UNCHANGED function /\ UNCHANGED shown
        /\ Advance(returns[Len(returns)] - counter)
        /\ returns' = SubSeq(returns, 1, Len(returns) - 1)
    BY DEF RETURN, Fetch
  <1>2. /\ counter \in Nat /\ \A q \in Nat : LineAt(q) \in Nat
        /\ Built(position, code)
    BY RunningTyped
  <1>3. PICK s, n, t, r : s = returns /\ n = Len(s) /\ t = returns' /\ r = s[n]
    OBVIOUS
  <1>4. n \in Nat /\ n >= 1
    <2>1. Fetched # <<"instruction", "end">>
      BY <1>1
    <2> QED
      BY <1>3, <2>1, NotReturned
  <1>5. s \in Seq(Nat) /\ s[1] = 0
    <2>1. returns \in Seq(Nat)
      BY RunningTyped
    <2>2. Len(returns) >= 1 => returns[1] = 0
      BY DEF Running
    <2> QED
      BY <1>3, <1>4, <2>1, <2>2, Zenon
  <1>6. t = SubSeq(s, 1, n - 1) /\ Advance(r - counter)
    BY <1>1, <1>3, Zenon
  <1>7. /\ r \in Nat /\ t \in Seq(Nat) /\ Len(t) = n - 1
        /\ \A i \in 1 .. n - 1 : t[i] = s[i]
        /\ n = 1 => r = 0
    <2>1. Len(s) >= 1
      BY <1>3, <1>4, Zenon
    <2>2. /\ s[Len(s)] \in Nat
          /\ SubSeq(s, 1, Len(s) - 1) \in Seq(Nat)
          /\ Len(SubSeq(s, 1, Len(s) - 1)) = Len(s) - 1
          /\ \A i \in 1 .. Len(s) - 1 : SubSeq(s, 1, Len(s) - 1)[i] = s[i]
          /\ Len(s) = 1 => s[Len(s)] = 0
      BY <1>5, <2>1, ReturnPops, Zenon
    <2>3. Len(s) = n /\ SubSeq(s, 1, Len(s) - 1) = t /\ s[Len(s)] = r
      BY <1>3, <1>6, Zenon
    <2> QED
      BY <2>2, <2>3, Zenon
  <1>8. /\ n = 1 => CallLines = <<>> /\ CallLines' = <<>>
        /\ n > 1 =>
             /\ CallLines # <<>>
             /\ CallLines[Len(CallLines)] = LineAt(r)
             /\ CallLines' = SubSeq(CallLines, 1, Len(CallLines) - 1)
    BY <1>1, <1>2, <1>3, <1>4, <1>5, <1>7, CallsPop, ZenonT(60)
  <1>9. r - counter \in Int /\ counter + (r - counter) = r
    <2>1. r \in Nat /\ counter \in Nat
      BY <1>2, <1>7, Zenon
    <2> QED
      BY <2>1
  <1>10. Language!Executing({"return"})
    <2>1. PICK name : name = Fetched[2]
      OBVIOUS
    <2>2. name = "return" /\ name \in {"return"} /\ name \in {"frcall", "return"}
      BY <1>1, <2>1
    <2> QED
      BY <1>1, <2>1, <2>2, ShortStep
  <1>11. Language!Landing(LineAt(r)) = LineAt(r)
    BY <1>2, <1>7, LandsOnce, Zenon
  <1>12. Language!GoTo(LineAt(r))
    <2>1. PICK incr, j : incr = r - counter /\ j = LineAt(r)
      OBVIOUS
    <2>2. incr \in Int /\ Advance(incr) /\ LineAt(counter + incr) = Language!Landing(j)
      BY <1>6, <1>9, <1>11, <2>1, Zenon
    <2>3. Language!GoTo(j)
      BY <1>1, <2>2, GoesOn, Zenon
    <2> QED
      BY <2>1, <2>3, Zenon
  <1>13. UNCHANGED FunctionLine
    BY <1>1, FunctionStays
  <1>14. CASE n = 1
    <2>1. r = 0
      BY <1>7, <1>14, Zenon
    <2>2. LineAt(r) = Language!End
      BY <1>2, <2>1, LineAtGuards
    <2>3. CallLines = <<>> /\ CallLines' = CallLines
      BY <1>8, <1>14, Zenon
    <2> QED
      BY <1>1, <1>10, <1>12, <1>13, <2>2, <2>3, Zenon DEF Language!Return
  <1>15. CASE n > 1
    <2>1. /\ CallLines # <<>>
          /\ CallLines[Len(CallLines)] = LineAt(r)
          /\ CallLines' = SubSeq(CallLines, 1, Len(CallLines) - 1)
      BY <1>8, <1>15, Zenon
    <2> QED
      BY <1>1, <1>10, <1>12, <1>13, <2>1, Zenon DEF Language!Return
  <1>16. n = 1 \/ n > 1
    <2>1. n \in Nat /\ n >= 1
      BY <1>4
    <2> QED
      BY <2>1
  <1> QED
    BY <1>14, <1>15, <1>16

(* A NOOP that is between two lines is not seen in the language.           *)
LEMMA PlainStep ==
  ASSUME TextRead, Running, Plain
  PROVE  Language!Plain \/ UNCHANGED Language!vars
  <1>1. /\ phase = "running" /\ Fetched[2] \in {"noop", "symclone"}
        /\ UNCHANGED assembled /\ UNCHANGED returns /\ UNCHANGED function /\ UNCHANGED shown
        /\ Advance(instruction_sizes(Fetched[2]))
    BY DEF Plain, Fetch
  <1>2. PICK name, size : name = Fetched[2] /\ size = instruction_sizes(name)
    OBVIOUS
  <1>3. /\ Built(position, code) /\ counter \in Entries(code) /\ counter \in Nat
    BY RunningTyped
  <1>4. name \in {"noop", "symclone"} /\ Advance(size) /\ name = code[counter][2]
    BY <1>1, <1>2 DEF Fetched
  <1>5. /\ size \in Nat \ {0}
        /\ \/ /\ name = "noop" /\ counter >= 1
              /\ \A i \in Program : ~ Covers(i, position, counter)
              /\ counter + 1 \in Entries(code)
           \/ \E i \in Program :
                /\ counter = position[i] /\ lines[i].instruction = name
                /\ lines[i].instruction # None
                /\ Follows(i, counter + size, position, code)
    <2>1. PICK p : p = counter
      OBVIOUS
    <2>2. p \in Entries(code) /\ name = code[p][2] /\ name \in {"noop", "symclone"}
      BY <1>3, <1>4, <2>1, Zenon
    <2>3. /\ instruction_sizes(name) \in Nat \ {0}
          /\ \/ /\ name = "noop" /\ p >= 1
                /\ \A i \in Program : ~ Covers(i, position, p)
                /\ p + 1 \in Entries(code)
             \/ \E i \in Program :
                  /\ p = position[i] /\ lines[i].instruction = name
                  /\ lines[i].instruction # None
                  /\ Follows(i, p + instruction_sizes(name), position, code)
      BY <1>3, <2>2, PlainLine, ZenonT(60)
    <2> QED
      BY <1>2, <2>1, <2>3, Zenon
  <1>6. UNCHANGED CallLines /\ UNCHANGED FunctionLine
    BY <1>1, CallsStay, FunctionStays
  <1>7. CASE /\ name = "noop" /\ counter >= 1
             /\ \A i \in Program : ~ Covers(i, position, counter)
    <2>1. size = 1
      BY <1>2, <1>7 DEF instruction_sizes, Branches
    <2>2. phase' = phase /\ counter' = counter + 1
      BY <1>4, <2>1 DEF Advance
    <2>3. LineAt(counter + 1) = LineAt(counter)
      BY <1>3, <1>7, LineAtPadding
    <2>4. position # <<>> /\ position' = position /\ AtLine = LineAt(counter)
      BY <1>1, Positioned DEF assembled
    <2>5. AtLine' = LineAt(counter + 1)
      <3>1. PICK q : q = counter + 1
        OBVIOUS
      <3>2. AtLine' = LineAt(counter)'
        BY <2>4 DEF AtLine
      <3>3. LineAt(counter)' = LineAt(q)'
        BY <2>2, <3>1 DEF LineAt
      <3> QED
        BY <1>1, <3>1, <3>2, <3>3, LinesStay
    <2>6. source' = source
      BY <1>1 DEF assembled
    <2> QED
      BY <1>1, <1>6, <2>2, <2>3, <2>4, <2>5, <2>6 DEF Language!vars
  <1>8. CASE \E i \in Program :
                /\ counter = position[i] /\ lines[i].instruction = name
                /\ lines[i].instruction # None
                /\ Follows(i, counter + size, position, code)
    <2>1. PICK i \in Program :
                /\ counter = position[i] /\ lines[i].instruction = name
                /\ lines[i].instruction # None
                /\ Follows(i, counter + size, position, code)
      BY <1>8
    <2>2. AtLine = i /\ Language!Executing({"noop", "symclone"})
      BY <1>1, <1>4, <2>1, FetchesLine
    <2>3. LineAt(counter + size) = Language!Landing(AtLine + 1)
      BY <1>3, <2>1, <2>2, LineAtNext
    <2>4. Language!GoTo(AtLine + 1)
      <3>1. size \in Int
        BY <1>5
      <3> QED
        BY <1>1, <1>4, <2>3, <3>1, GoesOn
    <2> QED
      BY <1>1, <1>6, <2>2, <2>4 DEF Language!Plain
  <1> QED
    BY <1>5, <1>7, <1>8

(* END, and a guard value                                                  *)
LEMMA EndStep ==
  ASSUME TextRead, Running, END
  PROVE  Language!Ends
  <1>1. /\ phase = "running" /\ phase' = "ended"
        /\ counter \notin DOMAIN code \/ Fetched = <<"instruction", "end">>
        /\ UNCHANGED assembled /\ UNCHANGED counter /\ UNCHANGED returns
        /\ UNCHANGED function /\ UNCHANGED shown
    BY DEF END
  <1>2. /\ Built(position, code) /\ counter \in Entries(code) /\ counter \in Nat
    BY RunningTyped
  <1>3. code[counter] = <<"instruction", "end">>
    BY <1>1, <1>2 DEF Entries, Fetched
  <1>4. AtLine = Language!End \/ Language!Now = "end"
    <2>1. CASE code[counter]
                 = <<"instruction", IF counter \in {0, Last(position)} THEN "end" ELSE "noop">>
      <3>1. counter \in {0, Last(position)}
        BY <1>3, <2>1
      <3> QED
        BY <1>2, <3>1, Positioned, LineAtGuards
    <2>2. CASE \E i \in Program :
                 /\ counter = position[i] /\ lines[i].instruction # None
                 /\ code[counter] = <<"instruction", lines[i].instruction>>
      <3>1. PICK i \in Program :
                 /\ counter = position[i] /\ lines[i].instruction # None
                 /\ code[counter] = <<"instruction", lines[i].instruction>>
        BY <2>2
      <3>2. lines[i].instruction = "end"
        BY <1>3, <3>1
      <3>3. Language!Now = "end"
        BY <1>1, <3>1, <3>2, FetchesLine
      <3> QED
        BY <3>3
    <2> QED
      BY <1>2, <2>1, <2>2, EntryIs
  <1>5. AtLine' = AtLine
    <2>1. position' = position
      BY <1>1 DEF assembled
    <2>2. LineAt(counter)' = LineAt(counter)
      <3>1. PICK q : q = counter
        OBVIOUS
      <3>2. LineAt(counter)' = LineAt(q)'
        BY <1>1, <3>1 DEF LineAt
      <3> QED
        BY <1>1, <3>1, <3>2, LinesStay
    <2> QED
      BY <2>1, <2>2 DEF AtLine
  <1>6. UNCHANGED CallLines /\ UNCHANGED FunctionLine /\ source' = source
    BY <1>1, CallsStay, FunctionStays DEF assembled
  <1> QED
    BY <1>1, <1>4, <1>5, <1>6 DEF Language!Ends

-----------------------------------------------------------------------------
(* The steps of the parser and of assemble()                               *)

(* Nothing is executed yet.                                                *)
LEMMA NothingExecuted ==
  ASSUME position = <<>>, returns = <<>>, function = None
  PROVE  AtLine = 0 /\ CallLines = <<>> /\ FunctionLine = None
  <1>1. Len(returns) = 0
    BY EmptySeq
  <1>2. CallLines = <<>>
    BY <1>1, NoCalls
  <1> QED
    BY <1>2 DEF AtLine, FunctionLine

(* The same in the next state.                                             *)
LEMMA NothingExecutedNext ==
  ASSUME position' = <<>>, returns' = <<>>, function' = None
  PROVE  AtLine' = 0 /\ CallLines' = <<>> /\ FunctionLine' = None
  <1>1. Len(returns') = 0
    BY EmptySeq
  <1>2. CallLines' = <<>>
    BY <1>1, NoCallsNext
  <1> QED
    BY <1>2 DEF AtLine, FunctionLine

(* The parser reads a line.                                                *)
LEMMA ReadStep ==
  ASSUME AssemblerIInv, NEW line \in Lines, ReadLine(line)
  PROVE  Language!ReadLine(line)
  <1>1. /\ phase = "reading" /\ Len(source) < MaxLines /\ source' = Append(source, line)
        /\ UNCHANGED <<phase, position, code, counter, returns, function, shown>>
    BY DEF ReadLine
  <1>2. position = <<>> /\ returns = <<>> /\ function = None
    BY <1>1 DEF AssemblerIInv
  <1>3. /\ AtLine = 0 /\ CallLines = <<>> /\ FunctionLine = None
        /\ AtLine' = 0 /\ CallLines' = <<>> /\ FunctionLine' = None
    BY <1>1, <1>2, NothingExecuted, NothingExecutedNext
  <1> QED
    BY <1>1, <1>3 DEF Language!ReadLine

(* assemble() refuses what the language refuses.                           *)
LEMMA RejectStep ==
  ASSUME AssemblerIInv, AssembleFails
  PROVE  Language!Reject
  <1>1. /\ phase = "reading"
        /\ lines = <<>> \/ ~LabelsResolved \/ ~OperandsRight
        /\ phase' = IF lines = <<>> THEN "aborted" ELSE "rejected"
        /\ UNCHANGED <<source, position, code, counter, returns, function, shown>>
    BY DEF AssembleFails
  <1>2. TextRead /\ position = <<>> /\ returns = <<>> /\ function = None
    BY <1>1 DEF AssemblerIInv
  <1>3. /\ AtLine = 0 /\ CallLines = <<>> /\ FunctionLine = None
        /\ AtLine' = 0 /\ CallLines' = <<>> /\ FunctionLine' = None
    BY <1>1, <1>2, NothingExecuted, NothingExecutedNext
  <1>4. ~ Language!WellFormed
    BY <1>1, <1>2, WellFormedIs
  <1>5. lines = <<>> <=> source = <<>>
    BY <1>2, SameLines
  <1> QED
    BY <1>1, <1>3, <1>4, <1>5 DEF Language!Reject

(* Where control lands depends on the text only.                           *)
LEMMA LandingStays ==
  ASSUME source' = source
  PROVE  \A i : Language!Landing(i)' = Language!Landing(i)
  <1> TAKE i
  <1>1. PICK S : S = {j \in i .. Len(source) : source[j].instruction # None}
    OBVIOUS
  <1>2. Language!Landing(i) = IF S = {} THEN Len(source) + 1
                              ELSE CHOOSE j \in S : \A k \in S : j <= k
    BY <1>1 DEF Language!Landing, Language!End
  <1>3. Language!Landing(i)' = IF S = {} THEN Len(source) + 1
                               ELSE CHOOSE j \in S : \A k \in S : j <= k
    BY <1>1 DEF Language!Landing, Language!End
  <1> QED
    BY <1>2, <1>3

(* The language's lines are where assemble() put them.                     *)
Located ==
  /\ position # <<>>
  /\ LineAt(1) = Language!Landing(1)
  /\ \A i \in Program : LineAt(position[i]) = Language!Landing(i)

(* A program that runs has them there.                                     *)
LEMMA RunningLocated == (TextRead /\ Running) => Located
  <1> SUFFICES ASSUME TextRead, Running
               PROVE  Located
    OBVIOUS
  <1>1. Built(position, code)
    BY DEF Running
  <1> QED
    BY <1>1, Positioned, LineAtGuards, LineAtLabel DEF Located

(* assemble() starts the program at main, or at its first line.            *)
LEMMA StartStep ==
  ASSUME AssemblerIInv, Assemble
  PROVE  Language!Start
  <1>1. PICK at, start :
          /\ at = Positions(lines)
          /\ start = IF LinesOf(<<MainName, None>>) = {} THEN 1
                     ELSE LinePosition(<<MainName, None>>, at)
    OBVIOUS
  <1>2. /\ phase = "reading" /\ LabelsResolved /\ OperandsRight /\ lines # <<>>
        /\ position' = at /\ counter' = start
        /\ returns' = <<0>> /\ phase' = "running"
        /\ UNCHANGED <<source, lines, lastDefined, function, shown>>
    BY <1>1 DEF Assemble
  <1>3. TextRead /\ position = <<>> /\ returns = <<>> /\ function = None
    BY <1>2 DEF AssemblerIInv
  <1>4. AtLine = 0 /\ CallLines = <<>> /\ FunctionLine = None
    BY <1>3, NothingExecuted
  <1>5. CallLines' = <<>> /\ FunctionLine' = None
    <2>1. Len(returns') = 1
      BY <1>2
    <2>2. CallLines' = <<>>
      BY <2>1, NoCallsNext
    <2> QED
      BY <1>2, <1>3, <2>2 DEF FunctionLine
  <1>6. Language!WellFormed
    BY <1>2, <1>3, WellFormedIs
  <1>7. Located'
    <2>1. (TextRead /\ Running)'
      BY <1>3, AssembleInv
    <2> QED
      BY <2>1, RunningLocated, PTL
  <1>8. /\ position' # <<>>
        /\ LineAt(1)' = Language!Landing(1)'
        /\ \A i \in Program : LineAt(at[i])' = Language!Landing(i)'
    BY <1>2, <1>7 DEF Located, Program
  <1>9. \A i : Language!Landing(i)' = Language!Landing(i)
    BY <1>2, LandingStays
  <1>10. AtLine' = LineAt(start)'
    BY <1>2, <1>8 DEF AtLine, LineAt
  <1>11. PICK key : key = <<MainName, None>>
    OBVIOUS
  <1>12. key \in Keys
    BY <1>11, AssemblerAssumption DEF Keys
  <1>13. Language!Definitions(key) = LinesOf(key)
    BY <1>3, <1>12, DefinitionsIs
  <1>14. AtLine' = Language!Landing(IF Language!Definitions(key) = {} THEN 1
                                    ELSE CHOOSE i \in Language!Definitions(key) : TRUE)
    <2>1. CASE LinesOf(key) = {}
      <3>1. start = 1
        BY <1>1, <1>11, <2>1
      <3>2. AtLine' = Language!Landing(1)
        <4>1. LineAt(start)' = LineAt(1)'
          BY <3>1 DEF LineAt
        <4> QED
          BY <1>8, <1>9, <1>10, <4>1, Zenon
      <3> QED
        BY <1>13, <2>1, <3>2
    <2>2. CASE LinesOf(key) # {}
      <3>1. PICK t \in Program : LinesOf(key) = {t} /\ LinePosition(key, at) = at[t]
        <4>1. PICK bytes : bytes = Bytecode(at)
          OBVIOUS
        <4>2. Built(at, bytes)
          BY <1>1, <1>2, <1>3, <4>1 DEF Built, TextRead
        <4> QED
          BY <1>12, <2>2, <4>2, LabelAt
      <3>2. start = at[t]
        BY <1>1, <1>11, <2>2, <3>1
      <3>3. AtLine' = Language!Landing(t)
        <4>1. PICK q : q = at[t]
          OBVIOUS
        <4>2. LineAt(start)' = LineAt(q)' /\ LineAt(at[t])' = LineAt(q)'
          BY <3>2, <4>1 DEF LineAt
        <4>3. LineAt(at[t])' = Language!Landing(t)'
          BY <1>8, <3>1, Zenon
        <4> QED
          BY <1>9, <1>10, <4>2, <4>3, Zenon
      <3>4. (CHOOSE i \in Language!Definitions(key) : TRUE) = t
        BY <1>13, <3>1
      <3>5. Language!Definitions(key) # {}
        BY <1>13, <2>2, Zenon
      <3>6. (IF Language!Definitions(key) = {} THEN 1
             ELSE CHOOSE i \in Language!Definitions(key) : TRUE) = t
        BY <3>4, <3>5, Zenon
      <3> QED
        BY <3>3, <3>6, Zenon
    <2> QED
      BY <2>1, <2>2
  <1> QED
    BY <1>2, <1>3, <1>4, <1>5, <1>6, <1>11, <1>14 DEF Language!Start

(* At first there is no program in either.                                 *)
LEMMA LanguageInit ==
  ASSUME AssemblerInit
  PROVE  Language!Init
  <1>1. /\ source = <<>> /\ phase = "reading" /\ shown = None
        /\ position = <<>> /\ returns = <<>> /\ function = None
    BY DEF AssemblerInit
  <1>2. AtLine = 0 /\ CallLines = <<>> /\ FunctionLine = None
    BY <1>1, NothingExecuted
  <1> QED
    BY <1>1, <1>2 DEF Language!Init

(* What changes nothing here changes nothing there.                        *)
LEMMA LanguageStutters ==
  ASSUME AssemblerIInv, UNCHANGED assemblerVars
  PROVE  UNCHANGED Language!vars
  <1>1. /\ source' = source /\ phase' = phase /\ shown' = shown
        /\ UNCHANGED assembled /\ UNCHANGED returns /\ UNCHANGED function
        /\ lines' = lines /\ position' = position /\ counter' = counter
    BY DEF assemblerVars, assembled
  <1>2. UNCHANGED CallLines /\ UNCHANGED FunctionLine
    BY <1>1, CallsStay, FunctionStays
  <1>3. AtLine' = AtLine
    BY <1>1 DEF AtLine, LineAt
  <1> QED
    BY <1>1, <1>2, <1>3 DEF Language!vars

(* Every step is one of the language, or none.                             *)
LEMMA LanguageStep ==
  AssemblerIInv /\ [AssemblerNext]_assemblerVars => [Language!Next]_(Language!vars)
  <1>1. SUFFICES ASSUME AssemblerIInv, [AssemblerNext]_assemblerVars
                 PROVE  [Language!Next]_(Language!vars)
    OBVIOUS
  <1>2. TextRead /\ (phase = "running" => Running)
    BY <1>1 DEF AssemblerIInv
  <1>3. CASE UNCHANGED assemblerVars
    BY <1>1, <1>3, LanguageStutters
  <1>4. CASE \E line \in Lines : ReadLine(line)
    BY <1>1, <1>4, ReadStep DEF Language!Next
  <1>5. CASE Assemble
    BY <1>1, <1>5, StartStep DEF Language!Next
  <1>6. CASE AssembleFails
    BY <1>1, <1>6, RejectStep DEF Language!Next
  <1>7. CASE PushLiteral
    <2>1. Running
      BY <1>2, <1>7 DEF PushLiteral, Fetch
    <2> QED
      BY <1>2, <1>7, <2>1, LiteralStep DEF Language!Next
  <1>8. CASE FUNLIT
    <2>1. Running
      BY <1>2, <1>8 DEF FUNLIT, Fetch
    <2> QED
      BY <1>2, <1>8, <2>1, FunlitStep DEF Language!Next
  <1>9. CASE JMP
    <2>1. Running
      BY <1>2, <1>9 DEF JMP, Fetch
    <2> QED
      BY <1>2, <1>9, <2>1, JumpStep DEF Language!Next
  <1>10. CASE CALL
    <2>1. Running
      BY <1>2, <1>10 DEF CALL, Fetch
    <2> QED
      BY <1>2, <1>10, <2>1, CallStep DEF Language!Next
  <1>11. CASE FRCALL
    <2>1. Running
      BY <1>2, <1>11 DEF FRCALL, Fetch
    <2> QED
      BY <1>2, <1>11, <2>1, FrcallStep DEF Language!Next
  <1>12. CASE CORO
    <2>1. Running
      BY <1>2, <1>12 DEF CORO, Fetch
    <2> QED
      BY <1>2, <1>12, <2>1, CoroStep DEF Language!Next
  <1>13. CASE RETURN
    <2>1. Running
      BY <1>2, <1>13 DEF RETURN, Fetch
    <2> QED
      BY <1>2, <1>13, <2>1, ReturnStep DEF Language!Next
  <1>14. CASE Plain
    <2>1. Running
      BY <1>2, <1>14 DEF Plain, Fetch
    <2> QED
      BY <1>2, <1>14, <2>1, PlainStep DEF Language!Next
  <1>15. CASE END
    <2>1. Running
      BY <1>2, <1>15 DEF END
    <2> QED
      BY <1>2, <1>15, <2>1, EndStep DEF Language!Next
  <1> QED
    BY <1>1, <1>3, <1>4, <1>5, <1>6, <1>7, <1>8, <1>9, <1>10, <1>11, <1>12, <1>13, <1>14, <1>15
    DEF AssemblerNext

(* The bytecode that assemble() writes, run by vm_execute, does what the   *)
(* lines of the program say.                                               *)
THEOREM AssemblerIsLanguage == AssemblerSpec => IsProgram
  <1>1. AssemblerInit => AssemblerIInv
    BY AssemblerInitInv
  <1>2. AssemblerIInv /\ [AssemblerNext]_assemblerVars => AssemblerIInv'
    BY AssemblerStep
  <1>3. AssemblerInit => Language!Init
    BY LanguageInit
  <1>4. AssemblerIInv /\ [AssemblerNext]_assemblerVars => [Language!Next]_(Language!vars)
    BY LanguageStep
  <1> QED
    BY <1>1, <1>2, <1>3, <1>4, PTL DEF AssemblerSpec, IsProgram, Language!Spec

=============================================================================
