-------------------------------- MODULE Pool ---------------------------------
(***************************************************************************)
(* The free list of an object pool (pool.h): how handles are given out,    *)
(* one at a time (POOL_ALLOCATE) or as a run (POOL_ALLOCATE_MANY), shared  *)
(* by counting references and given back.                                  *)
(*                                                                         *)
(* Atomicity.  Each stretch under m_free_list_mutex is one action, but for *)
(* a growth, which is two: memcpy begins, and the new array is published.  *)
(* The stores made without that mutex, by the initialisation of new items  *)
(* (after the unlock) and by REFERENCE and RELEASE, are actions that may    *)
(* come in between.  The counting of one object's references by several    *)
(* threads at once is the subject of PoolObject; here a count is loaded    *)
(* and stored in one step.                                                 *)
(*                                                                         *)
(* Handles are numbers, 0 is no handle.  m_count is written by the code    *)
(* but never read, and is left out.                                        *)
(***************************************************************************)
EXTENDS Integers, FiniteSets, SequencesExt


CONSTANTS
  Threads,       \* the execution contexts that use the pool
  NoThread,      \* the grower of a pool that is not growing
  InitialSize,   \* POOL_INITIAL_SIZE
  Loads,         \* what programs ask of a pool, see "load"
  WordSize       \* 2 ^ the width of size_t and of a handle

ASSUME PoolAssumption ==
  /\ InitialSize \in Nat \ {0}
  /\ NoThread \notin Threads
  /\ WordSize \in Nat /\ WordSize > InitialSize + 2
  /\ \A l \in Loads : /\ l.runs \subseteq Nat \ {0}
                      /\ l.most \in Nat /\ WordSize > l.most + 2

InUse == WordSize - 1    \* POOL_OBJECT_STATE_INUSE, UINTPTR_MAX

(* A load: the lengths asked of ALLOCATE_MANY, the largest pool that calloc *)
(* can provide, and two bounds: the references held to one object (0: none *)
(* is released), and the m_free_count at which no object is freed, those   *)
(* that have yet to be listed counted.                                     *)
Load(runs, most, references, free) ==
  [runs |-> runs, most |-> most, refs |-> references, free |-> free]

VARIABLES
  load,          \* what the program asks of the pool
  allocated,     \* m_allocated_count
  head,          \* m_free_list_head
  freeCount,     \* m_free_count
  next,          \* m_next_free of each item
  refs,          \* m_references of each item
  holds,         \* history: per item, the references that callers hold
  claim,         \* per thread, the handles it has taken off the free list
                 \* and not yet initialised
  leaving,       \* per thread, the handle of which it has released the last
                 \* reference and which it has yet to list as free, or 0
  grower,        \* the thread that is copying the array, or NoThread
  wanted,        \* the items the grower wants, 0 in POOL_ALLOCATE
  copyNext,      \* m_next_free of each item as memcpy will take it, or has
  copyRefs,      \* m_references of each item as memcpy will take it, or has
  raced,         \* history: the items written while the array was copied, or
                 \* initialised while another thread had yet to list them
  status         \* "ok", or how the process came to grief

vars == <<load, allocated, head, freeCount, next, refs, holds, claim, leaving,
          grower, wanted, copyNext, copyRefs, raced, status>>
list == <<allocated, head, freeCount>>
items == <<next, refs, copyNext, copyRefs>>
growth == <<grower, wanted>>

Handles == 1 .. allocated     \* POOL_HANDLE_VALID

Init ==
  /\ load \in Loads
  /\ allocated = InitialSize
  /\ head = 1
  /\ freeCount = InitialSize
  /\ next = [h \in 1 .. InitialSize |-> IF h < InitialSize THEN h + 1 ELSE 0]
  /\ refs = [h \in 1 .. InitialSize |-> 0]
  /\ holds = refs
  /\ claim = [t \in Threads |-> {}]
  /\ leaving = [t \in Threads |-> 0]
  /\ grower = NoThread /\ wanted = 0
  /\ copyNext = next /\ copyRefs = refs
  /\ raced = {}
  /\ status = "ok"

-----------------------------------------------------------------------------
(* Growth                                                                  *)

(* calloc and memcpy: the items up to "size", the new ones zeroed, with    *)
(* the leftovers from "first" chained up to the end and 0 put in the last. *)
Chained(old, size, first) ==
  [h \in 1 .. size |->
     IF h = size THEN 0
     ELSE IF h >= first THEN h + 1
     ELSE IF h \in DOMAIN old THEN old[h] ELSE 0]

Zeroed(old, size) ==
  [h \in 1 .. size |-> IF h \in DOMAIN old THEN old[h] ELSE 0]

(* The process is ended by a failed assert, leaves the array, or is caught *)
(* in an endless loop while it holds m_free_list_mutex.                    *)
ComesToGrief(how) ==
  /\ status' = how
  /\ UNCHANGED <<list, items, holds, claim, leaving, growth, raced, load>>

(* Outside the pool's functions; and, with m_free_list_mutex to be had.    *)
Idle(t) == status = "ok" /\ claim[t] = {} /\ leaving[t] = 0 /\ grower # t

Ready(t) == Idle(t) /\ grower = NoThread

(* A thread begins to copy the array, and keeps m_free_list_mutex.         *)
Copies(t, many) ==
  /\ grower' = t
  /\ wanted' = many
  /\ UNCHANGED <<list, items, holds, claim, leaving, raced, status, load>>

(* The grower replaces the array by "links", and what memcpy has of the    *)
(* counts, and unlocks with the items of the run taken.                    *)
Publishes(t, size, links, taken) ==
  /\ allocated' = size
  /\ next' = links /\ copyNext' = links
  /\ refs' = Zeroed(copyRefs, size) /\ copyRefs' = Zeroed(copyRefs, size)
  /\ holds' = Zeroed(holds, size)
  /\ claim' = [claim EXCEPT ![t] = taken]
  /\ grower' = NoThread /\ wanted' = 0
  /\ UNCHANGED <<leaving, raced, status, load>>

(* Writes of a count or of a mark without m_free_list_mutex: of an array   *)
(* that is being copied, before or after memcpy has passed the item.       *)
WriteCount(h, count) ==
  /\ refs' = [refs EXCEPT ![h] = count]
  /\ \/ copyRefs' = [copyRefs EXCEPT ![h] = count]
     \/ grower # NoThread /\ UNCHANGED copyRefs

WriteMark(h) ==
  /\ next' = [next EXCEPT ![h] = InUse]
  /\ \/ copyNext' = [copyNext EXCEPT ![h] = InUse]
     \/ grower # NoThread /\ UNCHANGED copyNext

Races(h) == raced' = IF grower # NoThread THEN raced \cup {h} ELSE raced

-----------------------------------------------------------------------------
(* POOL_ALLOCATE                                                           *)

(* Mutant of AllocatePops: the head is not moved on.                       *)
MutantAllocatePops(t) ==
  /\ Ready(t)
  /\ freeCount > 0
  /\ head \in Handles
  /\ freeCount' = freeCount - 1
  /\ claim' = [claim EXCEPT ![t] = {head}]
  /\ UNCHANGED <<allocated, head, items, holds, leaving, growth, raced, status, load>>

AllocatePops(t) ==
  /\ Ready(t)
  /\ freeCount > 0
  /\ head \in Handles
  /\ head' = next[head]
  /\ freeCount' = freeCount - 1
  /\ claim' = [claim EXCEPT ![t] = {head}]
  /\ UNCHANGED <<allocated, items, holds, leaving, growth, raced, status, load>>

(* assert(m_free_list_head != 0), or a head that points past the array.    *)
AllocateFails(t) ==
  /\ Ready(t)
  /\ freeCount > 0
  /\ head \notin Handles
  /\ ComesToGrief(IF head = 0 THEN "aborted" ELSE "wild")

(* m_free_count is 0: the array is to be doubled ...                       *)
AllocateCopies(t) ==
  /\ Ready(t)
  /\ freeCount = 0
  /\ 2 * allocated <= load.most
  /\ Copies(t, 0)

(* ... and the new free list starts after the handle given out, whatever   *)
(* the old head was.                                                       *)
AllocateGrows(t) ==
  /\ status = "ok"
  /\ grower = t /\ wanted = 0
  /\ head' = allocated + 2
  /\ freeCount' = allocated - 1
  /\ Publishes(t, 2 * allocated, Chained(copyNext, 2 * allocated, allocated + 2),
               {allocated + 1})

(* After the unlock: assert(m_references == 0), then the item is marked,   *)
(* one item after the other.                                               *)
Initialise(t, h) ==
  /\ status = "ok"
  /\ h \in claim[t] /\ \A i \in claim[t] : h <= i
  /\ IF refs[h] # 0
       THEN ComesToGrief("aborted")
       ELSE /\ WriteCount(h, 1) /\ WriteMark(h)
            /\ holds' = [holds EXCEPT ![h] = holds[h] + 1]
            /\ claim' = [claim EXCEPT ![t] = claim[t] \ {h}]
            /\ IF \E u \in Threads : leaving[u] = h
                 THEN raced' = raced \cup {h}
                 ELSE Races(h)
            /\ UNCHANGED <<list, leaving, growth, status, load>>

-----------------------------------------------------------------------------
(* POOL_ALLOCATE_MANY                                                      *)

(* One turn of the loop of FIND_FREE_SEQUENCE: items are visited one after *)
(* the other in the array; on one in use the search starts again from the  *)
(* item linked to by the last one that was free.                           *)
ScanStep(many, s) ==
  IF s.end # "on" THEN s
  ELSE IF s.iter \notin Handles THEN [s EXCEPT !.end = "none"]
  ELSE IF next[s.iter] = InUse
       THEN IF s.prev = 0
              THEN [s EXCEPT !.end = "wild"]
              ELSE [iter |-> next[s.prev], prev |-> 0, start |-> next[s.prev],
                    found |-> 0, end |-> "on"]
  ELSE IF s.found + 1 = many THEN [s EXCEPT !.end = "found"]
  ELSE [s EXCEPT !.found = s.found + 1, !.prev = s.iter, !.iter = s.iter + 1]

(* A search starts over at most once from each item unless it is endless,  *)
(* and between two starts visits each item at most once.                   *)
ScanTurns == (allocated + 1) * (allocated + 1) + 1

FindFreeSequence(many) ==
  LET turn[i \in 0 .. ScanTurns] ==
        IF i = 0
          THEN [iter |-> head, prev |-> 0, start |-> head, found |-> 0, end |-> "on"]
          ELSE ScanStep(many, turn[i - 1])
  IN IF freeCount <= many
       THEN [iter |-> 0, prev |-> 0, start |-> 0, found |-> 0, end |-> "none"]
       ELSE turn[ScanTurns]

(* Mutant of ManyFound: the item before the run is taken for its           *)
(* predecessor in the list, whether it is in use or not.                   *)
MutantManyFound(t, many) ==
  LET scan == FindFreeSequence(many)
      last == next[scan.start + many - 1]
      prev == scan.start - 1
  IN /\ Ready(t)
     /\ scan.end = "found"
     /\ claim' = [claim EXCEPT ![t] = scan.start .. scan.start + many - 1]
     /\ IF prev = 0
          THEN head' = last /\ UNCHANGED next
          ELSE next' = [next EXCEPT ![prev] = last] /\ UNCHANGED head
     /\ copyNext' = next'
     /\ UNCHANGED <<allocated, freeCount, refs, copyRefs, holds, leaving, growth,
                    raced, status, load>>

(* A run was found: it is cut out of the list, m_free_count is left alone. *)
ManyFound(t, many) ==
  LET scan == FindFreeSequence(many)
      last == next[scan.start + many - 1]
      prev == Max({0} \cup {h \in 1 .. scan.start - 1 : next[h] # InUse})
  IN /\ Ready(t)
     /\ scan.end = "found"
     /\ claim' = [claim EXCEPT ![t] = scan.start .. scan.start + many - 1]
     /\ IF prev = 0
          THEN head' = last /\ UNCHANGED next
          ELSE next' = [next EXCEPT ![prev] = last] /\ UNCHANGED head
     /\ copyNext' = next'
     /\ UNCHANGED <<allocated, freeCount, refs, copyRefs, holds, leaving, growth,
                    raced, status, load>>

ManyFails(t, many) ==
  /\ Ready(t)
  /\ FindFreeSequence(many).end \in {"on", "wild"}
  /\ ComesToGrief(IF FindFreeSequence(many).end = "on" THEN "hung" ELSE "wild")

(* The array grows by whole multiples of its size until it is big enough.  *)
GrownFor(many) == allocated * (1 + (many + allocated - 1) \div allocated)

(* The last item of the list that starts at h, or where it leaves the      *)
(* array, or a place on its way round.                                     *)
EndOfList(links, h) ==
  FoldLeft(LAMBDA i, turn : IF i \in DOMAIN links /\ links[i] # 0 THEN links[i] ELSE i,
           h, [i \in DOMAIN links |-> i])

(* No run was found: the array is to grow.                                 *)
ManyCopies(t, many) ==
  /\ Ready(t)
  /\ FindFreeSequence(many).end = "none"
  /\ GrownFor(many) <= load.most
  /\ Copies(t, many)

(* The run is taken from the new part of the grown array, and the          *)
(* leftovers are attached to the end of the free list: in the new array,   *)
(* where a link past the old one may lead to a zeroed item.                *)
ManyGrows(t) ==
  LET size == GrownFor(wanted)
      first == allocated + 1 + wanted
      links == Zeroed(copyNext, size)
      end == EndOfList(links, head)
  IN /\ status = "ok"
     /\ grower = t /\ wanted > 0
     /\ head = 0 \/ (end \in 1 .. size /\ links[end] = 0)
     /\ head' = IF head = 0 THEN first ELSE head
     /\ freeCount' = (size - first) % WordSize
     /\ Publishes(t, size,
                  Chained(IF head = 0 THEN links ELSE [links EXCEPT ![end] = first],
                          size, first),
                  allocated + 1 .. allocated + wanted)

(* The walk to the end of the list leaves the array or goes round.         *)
ManyGrowsFails(t) ==
  LET links == Zeroed(copyNext, GrownFor(wanted))
      end == EndOfList(links, head)
  IN /\ status = "ok"
     /\ grower = t /\ wanted > 0
     /\ head # 0
     /\ end \in DOMAIN links => links[end] # 0
     /\ ComesToGrief(IF end \in DOMAIN links THEN "hung" ELSE "wild")

-----------------------------------------------------------------------------
(* POOL_REFERENCE and POOL_RELEASE, by callers that hold a reference       *)

Held == {h \in Handles : holds[h] > 0}

(* POOL_HANDLE_IN_USE and m_references > 0, as REFERENCE and RELEASE assert *)
Counted(h) == next[h] = InUse /\ refs[h] > 0

Reference(t, h) ==
  /\ Idle(t)
  /\ h \in Held
  /\ holds[h] < load.refs
  /\ IF ~Counted(h)
       THEN ComesToGrief("aborted")
       ELSE /\ WriteCount(h, refs[h] + 1)
            /\ holds' = [holds EXCEPT ![h] = holds[h] + 1]
            /\ Races(h)
            /\ UNCHANGED <<list, next, copyNext, claim, leaving, growth, status, load>>

(* What m_free_count comes to with the objects that have yet to be listed. *)
Freed == freeCount + Cardinality({t \in Threads : leaving[t] # 0})

(* A reference is given back; the object of the last one has yet to be     *)
(* listed.                                                                 *)
Release(t, h) ==
  /\ Idle(t)
  /\ h \in Held
  /\ load.refs > 0
  /\ refs[h] = 1 => Freed # load.free
  /\ IF ~Counted(h)
       THEN ComesToGrief("aborted")
       ELSE /\ WriteCount(h, refs[h] - 1)
            /\ holds' = [holds EXCEPT ![h] = holds[h] - 1]
            /\ leaving' = IF refs[h] = 1 THEN [leaving EXCEPT ![t] = h] ELSE leaving
            /\ Races(h)
            /\ UNCHANGED <<list, next, copyNext, claim, growth, status, load>>

(* ADD_TO_FREE_LIST looks downwards from the handle itself for an item in  *)
(* use to insert behind.  The handle has not been unmarked: unless a       *)
(* growth has lost its mark it is found, and linked to itself.             *)
AddToFreeList(t) ==
  LET h == leaving[t]
      prev == Max({0} \cup {i \in 1 .. h : next[i] = InUse})
  IN /\ status = "ok"
     /\ h # 0 /\ grower = NoThread
     /\ IF prev > 0
          THEN next' = [next EXCEPT ![h] = next[prev], ![prev] = h]
               /\ UNCHANGED head
          ELSE next' = [next EXCEPT ![h] = head] /\ head' = h
     /\ copyNext' = next'
     /\ freeCount' = (freeCount + 1) % WordSize
     /\ leaving' = [leaving EXCEPT ![t] = 0]
     /\ UNCHANGED <<allocated, refs, copyRefs, holds, claim, growth, raced, status, load>>

-----------------------------------------------------------------------------

Next ==
  \E t \in Threads :
    \/ AllocatePops(t) \/ AllocateFails(t) \/ AllocateCopies(t) \/ AllocateGrows(t)
    \/ \E many \in load.runs :
         ManyFound(t, many) \/ ManyFails(t, many) \/ ManyCopies(t, many)
    \/ ManyGrows(t) \/ ManyGrowsFails(t)
    \/ \E h \in claim[t] : Initialise(t, h)
    \/ \E h \in Held : Reference(t, h) \/ Release(t, h)
    \/ AddToFreeList(t)

Spec == Init /\ [][Next]_vars

-----------------------------------------------------------------------------
(* Properties                                                              *)

(* Types of the variables.                                                 *)
TypeOK ==
  /\ allocated \in Nat \ {0}
  /\ head \in 0 .. WordSize - 1
  /\ freeCount \in 0 .. WordSize - 1
  /\ next \in [Handles -> 0 .. WordSize - 1] /\ copyNext \in [Handles -> 0 .. WordSize - 1]
  /\ refs \in [Handles -> Nat] /\ copyRefs \in [Handles -> Nat]
  /\ holds \in [Handles -> Nat]
  /\ claim \in [Threads -> SUBSET Handles]
  /\ leaving \in [Threads -> 0 .. allocated]
  /\ grower \in Threads \cup {NoThread}
  /\ wanted \in {0} \cup load.runs
  /\ raced \subseteq Handles
  /\ status \in {"ok", "aborted", "wild", "hung"}

(* The handles reachable from m_free_list_head.                            *)
FreeList ==
  FoldLeft(LAMBDA S, turn :
             S \cup {next[h] : h \in S \cap Handles} \cup {head},
           {}, [i \in 1 .. allocated + 1 |-> i])

(* What has been given out: taken by a thread and not yet marked, or held. *)
GivenOut == (UNION {claim[t] : t \in Threads}) \cup Held

(* The free list stays among items of which none has been given out.       *)
ListApart ==
  \E S \in SUBSET (Handles \ GivenOut) :
    ({head} \cup {next[h] : h \in S}) \cap Handles \subseteq S

(* What a thread has taken and not yet initialised is neither counted, nor *)
(* held, nor taken by another thread; nor is any of it, or of what is      *)
(* held, still to be had from the free list.                               *)
GivenOutOnce ==
  status = "ok" =>
    /\ \A t, u \in Threads : t # u => claim[t] \cap claim[u] = {}
    /\ \A t \in Threads : \A h \in claim[t] : refs[h] = 0 /\ holds[h] = 0
    /\ ListApart

(* No object is ever given to two callers, at whatever point between its   *)
(* being taken and its being marked another thread allocates, releases or  *)
(* makes the pool grow, as long as runs of objects are not asked for and   *)
(* no item is written to while it is being copied (POOL_ALLOCATE,          *)
(* POOL_RELEASE); whatever happens, the counters and links keep to the     *)
(* width of their word.                                                    *)
NoDoubleAllocation ==
  /\ TypeOK
  /\ load.runs = {} /\ raced = {} => GivenOutOnce

(* The objects that no race can have damaged: a mark lost by one makes the *)
(* release of it write to one below it, never to one above.                *)
Unraced == {h \in Handles : \A i \in raced : i < h}

(* An object somebody holds is marked as in use and counts exactly the     *)
(* references held, whatever has been allocated, searched for, released or *)
(* grown, in runs or singly, since it was given out, as long as neither it *)
(* nor an object above it was written to while the pool was being copied   *)
(* (POOL_ALLOCATE_MANY and ADD_TO_FREE_LIST, which write to the neighbours *)
(* of their items; the growths, which carry marks and counts over).        *)
HeldStaysHeld ==
  status = "ok" => \A h \in Held \cap Unraced : next[h] = InUse /\ refs[h] = holds[h]

(* "doesn't matter if they access the new copy of the array or the old     *)
(* copy of the array" (NOTES, on growing the pool while others use it).    *)
GrowthKeepsHeld ==
  status = "ok" => \A h \in Held : next[h] = InUse /\ refs[h] = holds[h]

(* "need to prevent multiple threads simultaneously grabbing an item from  *)
(* the free list - solved by locking the free list. don't need to lock the *)
(* whole pool" (NOTES): single objects are given out once.                 *)
GrowthGivesOnce == load.runs = {} => GivenOutOnce

(* "assert(m_free_list_head != 0)" (pool.h, POOL_ALLOCATE).                *)
NeverAborts == status # "aborted"

(* "add the leftover new items to the end of the free list" (pool.h): the  *)
(* free list never leads out of the array.                                 *)
LeftoversInside == status = "ok" => FreeList \subseteq Handles \cup {0}

(* "found a sufficiently long sequence of free items - remove them from    *)
(* free list" (pool.h): nothing that has been given out is on the list.    *)
FoundAreRemoved == GivenOutOnce
=============================================================================
