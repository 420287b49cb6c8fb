-------------------------------- MODULE Array ---------------------------------
(***************************************************************************)
(* One array_t (array.c) and the AR... instructions that use it            *)
(* (bytecode.c): a stretch of m_count scalar handles that begins at        *)
(* m_first in a block of m_allocated_count slots, with room to grow at     *)
(* both ends.                                                              *)
(*                                                                         *)
(* Atomicity.  Arrays are allocated without a mutex and are used by one    *)
(* context here (PoolObject shows what happens to unshared objects that    *)
(* several contexts reach), so an instruction is one action.               *)
(*                                                                         *)
(* Data.  The n-th scalar allocated for the array is the handle n, and     *)
(* stands for its value.  An instruction's arguments are on the data stack;*)
(* what it pushes there is "result".  Memory that an operation cannot get  *)
(* is memory beyond MaxAllocated slots, or beyond MaxScalars scalars.      *)
(***************************************************************************)
EXTENDS Integers, Sequences

CONSTANTS
  InitialReserve,  \* _array_initial_reserve_size (16 in the code)
  MaxAllocated,    \* the largest block calloc can provide
  MaxScalars,      \* the number of scalars the pool can provide
  MaxMany,         \* bound: the number of values given to one instruction
  IndexLists,      \* the sequences of indices given to ARINDEX and ARSLICE
  WordBits         \* the width of uintptr_t

ASSUME ArrayAssumption ==
  /\ InitialReserve \in Nat
  /\ MaxAllocated \in Nat
  /\ InitialReserve <= MaxAllocated
  /\ MaxScalars \in Nat
  /\ MaxMany \in Nat
  /\ \A indices \in IndexLists : indices \in Seq(Int)

Powers == {2 ^ k : k \in 0 .. WordBits}

(* The provers know nothing of exponents: all that matters of the powers   *)
(* of two is that one exceeds any number of slots that fits into memory.   *)
ASSUME PowersAssumption ==
  /\ Powers \subseteq Nat
  /\ \E p \in Powers : p > MaxAllocated + MaxMany

NoScalar == 0

VARIABLES
  items,         \* m_items, indexed from 0
  allocated,     \* m_allocated_count
  first,         \* m_first
  count,         \* m_count
  made,          \* the number of scalars allocated for the array so far
  live,          \* those of them whose reference the array has not released
  result,        \* what the last instruction pushed on the data stack
  status         \* "ok", "destroyed", or "wild": an assertion has failed or
                 \* the behaviour is undefined

layout == <<items, allocated, first, count>>
vars == <<items, allocated, first, count, made, live, result, status>>

Init ==
  /\ items = [i \in 0 .. InitialReserve - 1 |-> NoScalar]
  /\ allocated = InitialReserve
  /\ first = 0
  /\ count = 0
  /\ made = 0
  /\ live = {}
  /\ result = <<>>
  /\ status = "ok"

(* The slots in use, the scalars in them, and these in order.              *)
Stretch == first .. first + count - 1

Held == {items[i] : i \in Stretch}

Contents == [i \in 1 .. count |-> items[first + i - 1]]

GoesWild == status' = "wild" /\ UNCHANGED <<layout, made, live, result>>

-----------------------------------------------------------------------------
(* Growth                                                                  *)

(* The smallest power of two that is greater than n.                       *)
nextupow2(n) ==
  CHOOSE p \in Powers : p > n /\ \A q \in Powers : q > n => p <= q

(* Mutant of ReservedSize: the slots before m_first are counted as room.   *)
MutantReservedSize(start, target) ==
  IF allocated >= target THEN allocated ELSE nextupow2(target)

(* _array_reserve_unlocked, then _array_grow_back_unlocked: the size of    *)
(* the block that has "target" slots from "start" to its end.              *)
ReservedSize(start, target) ==
  IF allocated - start >= target THEN allocated
  ELSE nextupow2(start + target)

GrownBack(size) ==
  [i \in 0 .. size - 1 |-> IF i < allocated THEN items[i] ELSE NoScalar]

(* _array_grow_front_unlocked: n more slots, before the others.            *)
GrownFront(n) ==
  [i \in 0 .. (allocated + n) - 1 |-> IF i < n THEN NoScalar ELSE items[i - n]]

-----------------------------------------------------------------------------
(* New scalars                                                             *)

(* scalar_allocate_many: n scalars with consecutive handles.               *)
Available(n) == made + n <= MaxScalars

Allocated(n, kept) ==
  /\ made' = made + n
  /\ live' = kept \cup (made + 1 .. made + n)

(* The slots with the n new scalars put in from "start".                   *)
Filled(slots, start, n) ==
  [i \in DOMAIN slots |->
     IF i \in start .. start + n - 1 THEN made + 1 + i - start ELSE slots[i]]

Inside(slots, start, n) == start >= 0 /\ start .. start + n - 1 \subseteq DOMAIN slots

-----------------------------------------------------------------------------
(* ARPUSH                                                                  *)

array_push(n) ==
  LET size == ReservedSize(first, count + n)
  IN \/ /\ size > MaxAllocated
        /\ UNCHANGED <<layout, made, live, status>>
     \/ /\ size <= MaxAllocated
        /\ allocated' = size
        /\ IF Available(n)
             THEN /\ items' = Filled(GrownBack(size), first + count, n)
                  /\ count' = count + n
                  /\ Allocated(n, live)
             ELSE /\ items' = GrownBack(size)
                  /\ UNCHANGED <<count, made, live>>
        /\ UNCHANGED <<first, status>>

ARPUSH(n) == status = "ok" /\ array_push(n) /\ result' = <<>>

-----------------------------------------------------------------------------
(* ARUNSHFT                                                                *)

(* What array_unshift does once it has made room, or failed to, with the   *)
(* block "slots" and its contents from "base" on.                          *)
UnshiftInto(slots, size, base, n) ==
  LET start == IF count = 0 THEN 0 ELSE base - n
  IN \/ /\ ~Available(n)
        /\ items' = slots
        /\ allocated' = size
        /\ first' = base
        /\ UNCHANGED <<count, made, live, status>>
     \/ /\ Available(n)
        /\ Inside(slots, start, n)
        /\ items' = Filled(slots, start, n)
        /\ allocated' = size
        /\ first' = start
        /\ count' = count + n
        /\ Allocated(n, live)
        /\ UNCHANGED status
     \/ /\ Available(n)
        /\ ~Inside(slots, start, n)
        /\ GoesWild

(* Into an empty array: the reservation counts from m_first, and its       *)
(* failure is ignored.                                                     *)
UnshiftEmpty(n) ==
  LET size == ReservedSize(first, n)
  IN /\ count = 0
     /\ IF size <= MaxAllocated
          THEN UnshiftInto(GrownBack(size), size, first, n)
          ELSE UnshiftInto(items, allocated, first, n)

(* Mutant of UnshiftGrows: m_first does not move along with the contents.  *)
MutantUnshiftGrows(n) ==
  LET more == nextupow2(n)
  IN /\ count > 0
     /\ first <= n
     /\ IF allocated + more <= MaxAllocated
          THEN UnshiftInto(GrownFront(more), allocated + more, first, n)
          ELSE UnshiftInto(items, allocated, first, n)

(* Without enough room at the front; a failure to grow is ignored.         *)
UnshiftGrows(n) ==
  LET more == nextupow2(n)
  IN /\ count > 0
     /\ first <= n
     /\ IF allocated + more <= MaxAllocated
          THEN UnshiftInto(GrownFront(more), allocated + more, first + more, n)
          ELSE UnshiftInto(items, allocated, first, n)

UnshiftFits(n) ==
  /\ count > 0
  /\ first > n
  /\ UnshiftInto(items, allocated, first, n)

array_unshift(n) == UnshiftEmpty(n) \/ UnshiftGrows(n) \/ UnshiftFits(n)

ARUNSHFT(n) ==
  /\ status = "ok"
  /\ array_unshift(n)
  /\ result' = IF status' = "wild" THEN result ELSE <<>>

-----------------------------------------------------------------------------
(* ARFILL                                                                  *)

(* Mutant of array_fill: the block is cleared, its scalars not released.   *)
MutantArrayFill(n) ==
  LET size == ReservedSize(0, n)
  IN /\ n > 0 /\ Available(n) /\ size <= MaxAllocated
     /\ items' = Filled([i \in 0 .. size - 1 |-> NoScalar], 0, n)
     /\ allocated' = size
     /\ first' = 0
     /\ count' = n
     /\ Allocated(n, live)
     /\ UNCHANGED status

(* The old contents are released and the block cleared before anything is  *)
(* allocated; whether the block could be grown is ignored; and asking for  *)
(* no scalars at all, or being given none, fails an assertion.             *)
array_fill(n) ==
  LET size == ReservedSize(0, n)
      room == IF size <= MaxAllocated THEN size ELSE allocated
      clear == [i \in 0 .. room - 1 |-> NoScalar]
  IN \/ /\ n > 0
        /\ Available(n)
        /\ Inside(clear, 0, n)
        /\ items' = Filled(clear, 0, n)
        /\ allocated' = room
        /\ first' = 0
        /\ count' = n
        /\ Allocated(n, live \ Held)
        /\ UNCHANGED status
     \/ /\ n = 0 \/ ~Available(n) \/ ~Inside(clear, 0, n)
        /\ GoesWild

ARFILL(n) ==
  /\ status = "ok"
  /\ array_fill(n)
  /\ result' = IF status' = "wild" THEN result ELSE <<>>

-----------------------------------------------------------------------------
(* ARPOP, ARSHFT                                                           *)

(* Of an empty array both return an error, and the undefined value the     *)
(* instruction began with is pushed.                                       *)
TakeNothing ==
  /\ count = 0
  /\ result' = <<NoScalar>>
  /\ UNCHANGED <<layout, made, live, status>>

(* The slot keeps the handle it had.                                       *)
array_pop ==
  LET s == items[first + count - 1]
  IN /\ count > 0
     /\ count' = count - 1
     /\ result' = <<s>>
     /\ live' = live \ {s}
     /\ UNCHANGED <<items, allocated, first, made, status>>

array_shift ==
  LET s == items[first]
  IN /\ count > 0
     /\ count' = count - 1
     /\ first' = first + 1
     /\ result' = <<s>>
     /\ live' = live \ {s}
     /\ UNCHANGED <<items, allocated, made, status>>

ARPOP == status = "ok" /\ (array_pop \/ TakeNothing)

ARSHFT == status = "ok" /\ (array_shift \/ TakeNothing)

-----------------------------------------------------------------------------
(* ARLEN, ARLIST, ARINDEX, ARSLICE                                         *)

ARLEN ==
  /\ status = "ok"
  /\ result' = <<count>>
  /\ UNCHANGED <<layout, made, live, status>>

ARLIST ==
  /\ status = "ok"
  /\ result' = Contents
  /\ UNCHANGED <<layout, made, live, status>>

(* What both do with an index whose sign has been dealt with.  A negative  *)
(* index is compared as an unsigned number, and is beyond any bound.       *)
Beyond(i) == i < 0 \/ i >= first + count

(* The array is to grow.  If the block can be had, the new scalars' handle *)
(* shadows the array's and some other array, or none, is written to.  An   *)
(* index not beyond m_first + m_count, but not below m_count either, finds *)
(* whatever is in the slot, or no slot.                                    *)
Found(i) == ~Beyond(i) /\ i < count

array_item_at(i) ==
  LET index == IF i < 0 THEN i + count ELSE i
  IN IF Found(index)
       THEN /\ result' = <<items[first + index]>>
            /\ UNCHANGED <<layout, made, live, status>>
       ELSE GoesWild

ARINDEX(i) == status = "ok" /\ array_item_at(i)

(* Each index in turn is replaced by a reference.  Here a negative index   *)
(* is looked at before m_count is added to it.                             *)
array_slice(indices) ==
  IF \A k \in DOMAIN indices : Found(indices[k])
    THEN /\ result' = [k \in DOMAIN indices |-> items[first + indices[k]]]
         /\ UNCHANGED <<layout, made, live, status>>
    ELSE GoesWild

ARSLICE(indices) == status = "ok" /\ array_slice(indices)

-----------------------------------------------------------------------------

(* _array_destroy, when the last reference to the array goes.              *)
Destroy ==
  /\ status = "ok"
  /\ status' = "destroyed"
  /\ live' = live \ Held
  /\ items' = <<>>
  /\ allocated' = 0
  /\ first' = 0
  /\ count' = 0
  /\ UNCHANGED <<made, result>>

Next ==
  \/ \E n \in 1 .. MaxMany : ARPUSH(n) \/ ARUNSHFT(n)
  \/ \E n \in 0 .. MaxMany : ARFILL(n)
  \/ ARPOP \/ ARSHFT \/ ARLEN \/ ARLIST
  \/ \E indices \in IndexLists :
       \/ ARSLICE(indices)
       \/ Len(indices) = 1 /\ ARINDEX(indices[1])
  \/ Destroy

Spec == Init /\ [][Next]_vars

-----------------------------------------------------------------------------
(* Properties                                                              *)

(* Types of the variables; the contents lie inside the block.              *)
TypeOK ==
  /\ allocated \in 0 .. MaxAllocated
  /\ items \in [0 .. allocated - 1 -> 0 .. made]
  /\ first \in Nat
  /\ count \in Nat
  /\ first + count <= allocated
  /\ made \in Nat
  /\ live \subseteq 1 .. made
  /\ status \in {"ok", "wild", "destroyed"}

(* Every scalar made for the array and not yet released is in it, once,    *)
(* and nothing else is: no reference leaks and none is released twice,     *)
(* through growth at either end, ARFILL, ARPOP, ARSHFT and destruction.    *)
HoldsItsScalars ==
  /\ live = Held
  /\ \A i, j \in Stretch : items[i] = items[j] => i = j

Deque == INSTANCE Deque WITH seq <- Contents

(* Memory is at hand for n more scalars at the back, at the front, or in   *)
(* place of what there is.                                                 *)
BackFits(n) == Available(n) /\ ReservedSize(first, count + n) <= MaxAllocated

FrontFits(n) ==
  /\ Available(n)
  /\ count = 0 => ReservedSize(first, n) <= MaxAllocated
  /\ count > 0 /\ first <= n => allocated + nextupow2(n) <= MaxAllocated

BlockFits(n) == Available(n) /\ ReservedSize(0, n) <= MaxAllocated

(* Each instruction does what it should to the sequence, if memory is not  *)
(* short, ARFILL is given something and no index is beyond the end, nor    *)
(* given from the end to ARSLICE.                                          *)
Serves ==
  /\ \A n \in 1 .. MaxMany :
       /\ ARPUSH(n) /\ BackFits(n) => Deque!Push(n)
       /\ ARUNSHFT(n) /\ FrontFits(n) => Deque!Unshift(n)
       /\ ARFILL(n) /\ BlockFits(n) => Deque!Fill(n)
  /\ ARPOP => Deque!Pop \/ Deque!Nothing
  /\ ARSHFT => Deque!Shift \/ Deque!Nothing
  /\ ARLEN => Deque!Length
  /\ ARLIST => Deque!List
  /\ \A indices \in IndexLists :
       /\ ARSLICE(indices) /\ (\A k \in DOMAIN indices : indices[k] \in 0 .. count - 1) =>
            Deque!Slice(indices)
       /\ Len(indices) = 1 /\ ARINDEX(indices[1]) /\ indices[1] \in -count .. count - 1 =>
            Deque!Slice(indices)

(* The array is a sequence that grows and shrinks at both ends: each       *)
(* instruction that the code serves does to it what it should, and the     *)
(* others do nothing else to it before the process goes wild.  These are   *)
(* the three that follow, and those that find memory short (array.c).      *)
IsDeque == Deque!Spec /\ [][Serves]_vars

(* "To empty an array, provide a count of zero." (ARFILL, bytecode.c:999): *)
(* the code asks for no scalars then, which fails an assertion.            *)
FillEmpties == [][ARFILL(0) => Deque!Fill(0)]_vars

(* "Negative indices are treated as relative to the end of the array."     *)
(* (ARSLICE, bytecode.c:911)                                               *)
SliceFromEnd ==
  [][\A indices \in IndexLists :
       ARSLICE(indices) /\ (\A k \in DOMAIN indices : indices[k] \in -count .. count - 1) =>
         Deque!Slice(indices)]_vars

(* "If the index is beyond the current bounds of the array, the array is   *)
(* grown to accommodate the index, with new items being set to undefined." *)
(* (array_item_at).                                                        *)
IndexGrows == [][\A indices \in IndexLists :
                   Len(indices) = 1 /\ ARINDEX(indices[1]) /\ indices[1] >= count =>
                     status' # "wild"]_vars
=============================================================================
