----------------------------- MODULE PoolObject ------------------------------
(***************************************************************************)
(* The life of one pooled object (pool.h) that several execution contexts  *)
(* hold references to: POOL_REFERENCE and POOL_RELEASE, with the mutex of  *)
(* the wrapper if the object was allocated with POOL_OBJECT_FLAG_SHARED,   *)
(* while POOL_ALLOCATE may move the whole pool to a bigger array.          *)
(*                                                                         *)
(* A reference somebody holds is a token with an owner; m_references is    *)
(* supposed to count the tokens.  A context references an object only      *)
(* through a reference it holds, and a reference changes hands when the    *)
(* scalar that has it is written to a channel or passed to CORO.           *)
(*                                                                         *)
(* Atomicity.  ++ and -- on m_references are a load and a store.  Taking   *)
(* the mutex goes with the first access after it, releasing it with the    *)
(* last access before it; without a mutex every access is a step.          *)
(***************************************************************************)
EXTENDS Integers, FiniteSets

CONSTANTS
  Contexts,     \* the execution contexts
  Tokens,       \* bound: the references that can exist at one time
  Nobody,       \* the owner of a token that is not in use
  Shared,       \* POOL_OBJECT_FLAG_SHARED was given to POOL_ALLOCATE
  MaxGrowths    \* bound: the number of times the pool grows

ASSUME PoolObjectAssumption ==
  /\ IsFiniteSet(Tokens)
  /\ Nobody \notin Contexts
  /\ Shared \in BOOLEAN
  /\ MaxGrowths \in Nat

VARIABLES
  references,   \* m_references
  alive,        \* the object exists; FALSE once "destroy" has run on it
  inUse,        \* m_next_free = POOL_OBJECT_STATE_INUSE
  mutex,        \* the holder of *m_mutex, or Nobody
  owner,        \* per token, the context that holds the reference
  pc,           \* where each context is
  reg,          \* the value each context has loaded from m_references
  base,         \* how often the pool has moved to a bigger array
  seen,         \* per context, the array its store will go to
  copied        \* m_references as memcpy copied it, while the pool grows

objectVars == <<references, alive, inUse, mutex, owner, pc, reg, base, seen, copied>>
object == <<references, alive, inUse>>

(***************************************************************************)
(*   idle       outside the pool's functions                               *)
(*   refstore   in REFERENCE, m_references loaded, about to store it       *)
(*   reldec     in RELEASE, not the last reference, about to load          *)
(*   relstore   ... loaded, about to store                                 *)
(*   destroy    in RELEASE, the last reference, about to destroy           *)
(*   zero       ... destroyed, about to store 0                            *)
(*   freelist   ... stored, about to call ADD_TO_FREE_LIST                 *)
(*   grow       in ALLOCATE, memcpy done, about to publish the new array   *)
(***************************************************************************)
Locations == {"idle", "refstore", "reldec", "relstore", "destroy", "zero",
              "freelist", "grow"}

Live == {k \in Tokens : owner[k] # Nobody}

OwnedBy(t) == {k \in Tokens : owner[k] = t}

Goto(t, place) == pc' = [pc EXCEPT ![t] = place]

(* The object has just been allocated, by any one context.                 *)
ObjectInit ==
  /\ references = 1
  /\ alive = TRUE
  /\ inUse = TRUE
  /\ mutex = Nobody
  /\ \E t \in Contexts, k \in Tokens :
       owner = [j \in Tokens |-> IF j = k THEN t ELSE Nobody]
  /\ pc = [t \in Contexts |-> "idle"]
  /\ reg = [t \in Contexts |-> 0]
  /\ base = 0
  /\ seen = [t \in Contexts |-> 0]
  /\ copied = 0

-----------------------------------------------------------------------------
(* The wrapper's mutex                                                     *)

(* Mutant of Lock: POOL_LOCK does not lock.                                *)
MutantLock(t) == UNCHANGED mutex

(* POOL_LOCK: nothing happens if m_mutex is NULL.                          *)
Lock(t) ==
  IF Shared
    THEN mutex = Nobody /\ mutex' = t
    ELSE UNCHANGED mutex

Unlock == mutex' = Nobody

(* Loads m_references on the way to changing it.                           *)
LoadCount(t) ==
  /\ reg' = [reg EXCEPT ![t] = references]
  /\ seen' = [seen EXCEPT ![t] = base]

(* Stores to the array whose address was computed with the load; a store   *)
(* to an array that has been freed since does not reach the new one.       *)
StoreCount(t, value) == references' = IF seen[t] = base THEN value ELSE references

-----------------------------------------------------------------------------
(* POOL_REFERENCE                                                          *)

ReferenceLoad(t) ==
  /\ pc[t] = "idle"
  /\ OwnedBy(t) # {}
  /\ Live # Tokens
  /\ Lock(t)
  /\ LoadCount(t)
  /\ Goto(t, "refstore")
  /\ UNCHANGED <<object, owner, base, copied>>

(* The new reference is the caller's.                                      *)
ReferenceStore(t) ==
  /\ pc[t] = "refstore"
  /\ StoreCount(t, reg[t] + 1)
  /\ \E k \in Tokens \ Live : owner' = [owner EXCEPT ![k] = t]
  /\ Unlock
  /\ Goto(t, "idle")
  /\ UNCHANGED <<alive, inUse, reg, base, seen, copied>>

-----------------------------------------------------------------------------
(* POOL_RELEASE                                                            *)

(* The caller gives up one of its references.                              *)
ReleaseBegin(t) ==
  /\ pc[t] = "idle"
  /\ \E k \in OwnedBy(t) : owner' = [owner EXCEPT ![k] = Nobody]
  /\ Lock(t)
  /\ Goto(t, IF references = 1 THEN "destroy" ELSE "reldec")
  /\ UNCHANGED <<object, reg, base, seen, copied>>

ReleaseLoad(t) ==
  /\ pc[t] = "reldec"
  /\ LoadCount(t)
  /\ Goto(t, "relstore")
  /\ UNCHANGED <<object, mutex, owner, base, copied>>

(* Mutant of ReleaseStore: the mutex is released without the store.        *)
MutantReleaseStore(t) ==
  /\ pc[t] = "relstore"
  /\ Unlock
  /\ Goto(t, "idle")
  /\ UNCHANGED <<object, owner, reg, base, seen, copied>>

ReleaseStore(t) ==
  /\ pc[t] = "relstore"
  /\ StoreCount(t, reg[t] - 1)
  /\ Unlock
  /\ Goto(t, "idle")
  /\ UNCHANGED <<alive, inUse, owner, reg, base, seen, copied>>

(* The mutex is unlocked, destroyed and freed before the count is zeroed.  *)
Destroy(t) ==
  /\ pc[t] = "destroy"
  /\ alive' = FALSE
  /\ Unlock
  /\ Goto(t, "zero")
  /\ UNCHANGED <<references, inUse, owner, reg, base, seen, copied>>

Zero(t) ==
  /\ pc[t] = "zero"
  /\ references' = 0
  /\ Goto(t, "freelist")
  /\ UNCHANGED <<alive, inUse, mutex, owner, reg, base, seen, copied>>

(* ADD_TO_FREE_LIST needs the free list's mutex, which growth holds.       *)
JoinFreeList(t) ==
  /\ pc[t] = "freelist"
  /\ \A u \in Contexts : pc[u] # "grow"
  /\ inUse' = FALSE
  /\ Goto(t, "idle")
  /\ UNCHANGED <<references, alive, mutex, owner, reg, base, seen, copied>>

-----------------------------------------------------------------------------
(* Growth of the pool by an allocation of some other object                *)

GrowCopy(t) ==
  /\ pc[t] = "idle"
  /\ base < MaxGrowths
  /\ \A u \in Contexts : pc[u] # "grow"
  /\ copied' = references
  /\ Goto(t, "grow")
  /\ UNCHANGED <<object, mutex, owner, reg, base, seen>>

(* m_items = tmp: from now on the array is the copy.                       *)
GrowPublish(t) ==
  /\ pc[t] = "grow"
  /\ references' = copied
  /\ base' = base + 1
  /\ Goto(t, "idle")
  /\ UNCHANGED <<alive, inUse, mutex, owner, reg, seen, copied>>

-----------------------------------------------------------------------------
(* The callers                                                             *)

(* A reference reaches another context in a channel or as a parameter.     *)
Give(t, u) ==
  /\ pc[t] = "idle"
  /\ \E k \in OwnedBy(t) : owner' = [owner EXCEPT ![k] = u]
  /\ UNCHANGED <<object, mutex, pc, reg, base, seen, copied>>

Proceed(t) ==
  \/ ReferenceLoad(t) \/ ReferenceStore(t)
  \/ ReleaseBegin(t) \/ ReleaseLoad(t) \/ ReleaseStore(t)
  \/ Destroy(t) \/ Zero(t) \/ JoinFreeList(t)

ObjectNext ==
  \/ \E t \in Contexts : Proceed(t)
  \/ \E t, u \in Contexts : t # u /\ Give(t, u)

(* The object among others that never fill the pool.                       *)
ObjectSpec == ObjectInit /\ [][ObjectNext]_objectVars

(* The same while other allocations make the pool grow.                    *)
GrowingSpec ==
  ObjectInit /\ [][ObjectNext \/ \E t \in Contexts : GrowCopy(t) \/ GrowPublish(t)]_objectVars

-----------------------------------------------------------------------------
(* Properties                                                              *)

(* Types of the variables; m_references, a size_t, never wraps below 0.     *)
ObjectTypeOK ==
  /\ references \in Nat
  /\ alive \in BOOLEAN
  /\ inUse \in BOOLEAN
  /\ mutex \in Contexts \cup {Nobody}
  /\ owner \in [Tokens -> Contexts \cup {Nobody}]
  /\ pc \in [Contexts -> Locations]
  /\ reg \in [Contexts -> Nat]
  /\ base \in Nat
  /\ seen \in [Contexts -> Nat]
  /\ copied \in Nat

Quiet == \A t \in Contexts : pc[t] = "idle"

(* No increment or decrement of m_references is lost, the object is not    *)
(* destroyed twice and not left behind: whenever no context is inside the  *)
(* pool's functions, the count is the number of references held, and the   *)
(* object exists and is marked in use as long as there is one.             *)
RefsExact ==
  Quiet => /\ references = Cardinality(Live)
           /\ alive = (Live # {})
           /\ inUse = (Live # {})

(* A context that holds a reference may use the object at any moment,      *)
(* whatever the others are doing to their references: it exists, and the   *)
(* asserts of POOL_LOCK, REFERENCE and RELEASE hold for it.                *)
HolderSafe == Live # {} => alive /\ inUse /\ references > 0

(* "doesn't matter if they access the new copy of the array or the old     *)
(* copy of the array" (NOTES, on growing the pool while others use it).    *)
GrowthHarmless == HolderSafe

(* "once scalars are allocated they're either shared and individually      *)
(* locked (see below) or they're not shared and won't be accessed          *)
(* concurrently" (NOTES): an object allocated without a mutex needs none.  *)
UnsharedNeedsNoMutex == ~Shared => HolderSafe
=============================================================================
