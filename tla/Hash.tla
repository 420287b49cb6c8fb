--------------------------------- MODULE Hash ---------------------------------
(***************************************************************************)
(* One hash_t (hash.c) and the HR... instructions that use it              *)
(* (bytecode.c): buckets, each a list of items in the order of their keys  *)
(* and a count of them.                                                    *)
(*                                                                         *)
(* Atomicity.  Hashes are allocated without a mutex (hash_allocate) and    *)
(* are used by one context here, so an instruction is one action, except   *)
(* that HRSLICE and HRFILL look up one key after the other, one an action. *)
(*                                                                         *)
(* Data.  Keys are numbers, in the order of string_cmp.  The n-th scalar   *)
(* allocated for the hash is the value n.  What an instruction pushes is   *)
(* "result", without the count of it that some push in addition.  The      *)
(* arrays that carry keys and results between hash and stack are provided. *)
(***************************************************************************)
EXTENDS Integers, Sequences, FiniteSets

CONSTANTS
  Keys,          \* the keys used, as numbers above 0
  HASH_BUCKETS,  \* the number of buckets
  HashOf,        \* _hash_key of each key
  KeyLists,      \* the sequences of keys given to HRSLICE and HRFILL
  MaxItems,      \* the number of items calloc can provide
  MaxScalars     \* the number of scalars the pool can provide

ASSUME HashAssumption ==
  /\ Keys \subseteq Nat \ {0}
  /\ HASH_BUCKETS \in Nat \ {0}
  /\ HashOf \in [Keys -> Nat]
  /\ \A keys \in KeyLists : keys \in Seq(Keys)
  /\ MaxItems \in Nat
  /\ MaxScalars \in Nat

Undef == 0
Buckets == 0 .. HASH_BUCKETS - 1
BucketOf(key) == HashOf[key] % HASH_BUCKETS

VARIABLES
  items,         \* the list in each bucket: sequences of [key, value]
  count,         \* m_count of each bucket
  nodes,         \* the number of items that calloc has provided
  made,          \* the number of scalars allocated for the hash so far
  live,          \* those of them whose reference the hash has not released
  todo,          \* the keys HRSLICE or HRFILL has still to look up
  pushing,       \* it is HRSLICE, and pushes what it finds
  result,        \* what the last instruction pushed on the data stack
  status         \* "ok", "destroyed", or "wild": an assertion has failed or
                 \* the behaviour is undefined

table == <<items, count, nodes, made, live>>
vars == <<items, count, nodes, made, live, todo, pushing, result, status>>

Init ==
  /\ items = [b \in Buckets |-> <<>>]
  /\ count = [b \in Buckets |-> 0]
  /\ nodes = 0
  /\ made = 0
  /\ live = {}
  /\ todo = <<>>
  /\ pushing = FALSE
  /\ result = <<>>
  /\ status = "ok"

(* Between two instructions.                                               *)
Ready == status = "ok" /\ todo = <<>>

GoesWild == status' = "wild" /\ UNCHANGED <<table, todo, pushing, result>>

-----------------------------------------------------------------------------
(* Lists                                                                   *)

(* The number of items that a search for a key passes: it stops at the     *)
(* first whose key is not less.                                            *)
Passed(list, key) ==
  CHOOSE p \in 0 .. Len(list) :
    /\ \A i \in 1 .. p : list[i].key < key
    /\ p < Len(list) => list[p + 1].key >= key

(* The search ends at the key's own item.                                  *)
Hit(list, key) ==
  /\ Passed(list, key) < Len(list)
  /\ list[Passed(list, key) + 1].key = key

(* Mutant of Inserted: an item is put at the end of its bucket.            *)
MutantInserted(list, item) == Append(list, item)

Inserted(list, item) ==
  LET p == Passed(list, item.key)
  IN SubSeq(list, 1, p) \o <<item>> \o SubSeq(list, p + 1, Len(list))

Unlinked(list, key) ==
  LET p == Passed(list, key)
  IN SubSeq(list, 1, p) \o SubSeq(list, p + 2, Len(list))

ValuesIn(b) == {items[b][i].value : i \in DOMAIN items[b]}

-----------------------------------------------------------------------------
(* HRINDEX, HRSLICE, HRFILL                                                *)

(* _hash_key_item_unlocked: the value of a key, which is made if there is  *)
(* none.  Without memory for it, handle 0 is dereferenced.                 *)
FindItem(key) ==
  LET list == items[BucketOf(key)]
  IN /\ Hit(list, key)
     /\ UNCHANGED table

MakeItem(key) ==
  LET b == BucketOf(key)
  IN /\ ~Hit(items[b], key)
     /\ nodes < MaxItems
     /\ made < MaxScalars
     /\ items' = [items EXCEPT ![b] = Inserted(@, [key |-> key, value |-> made + 1])]
     /\ count' = [count EXCEPT ![b] = IF items[b] = <<>> THEN 1 ELSE @ + 1]
     /\ nodes' = nodes + 1
     /\ made' = made + 1
     /\ live' = live \cup {made + 1}

NoMemory(key) ==
  /\ ~Hit(items[BucketOf(key)], key)
  /\ nodes >= MaxItems \/ made >= MaxScalars

ValueOf(key) ==
  LET list == items[BucketOf(key)]
  IN IF Hit(list, key) THEN list[Passed(list, key) + 1].value ELSE made + 1

HRINDEX(key) ==
  /\ Ready
  /\ \/ /\ FindItem(key) \/ MakeItem(key)
        /\ result' = <<ValueOf(key)>>
        /\ UNCHANGED <<todo, pushing, status>>
     \/ NoMemory(key) /\ GoesWild

HRSLICE(keys) ==
  /\ Ready
  /\ todo' = keys
  /\ pushing' = TRUE
  /\ result' = <<>>
  /\ UNCHANGED <<table, status>>

(* Mutant of DestroyBuckets: the items are forgotten, not destroyed.       *)
MutantDestroyBuckets ==
  /\ items' = [b \in Buckets |-> <<>>]
  /\ count' = [b \in Buckets |-> 0]
  /\ UNCHANGED <<nodes, made, live>>

(* _hash_destroy: a bucket that counts no items is not looked into.        *)
DestroyBuckets ==
  LET full == {b \in Buckets : count[b] > 0}
  IN /\ items' = [b \in Buckets |-> <<>>]
     /\ count' = [b \in Buckets |-> 0]
     /\ nodes' = nodes - Cardinality(UNION {{b} \X DOMAIN items[b] : b \in full})
     /\ live' = live \ UNION {ValuesIn(b) : b \in full}
     /\ UNCHANGED made

HRFILL(keys) ==
  /\ Ready
  /\ DestroyBuckets
  /\ todo' = keys
  /\ pushing' = FALSE
  /\ result' = <<>>
  /\ UNCHANGED status

(* A count of one is rounded down, and popping no items fails an assertion.*)
HRFILLOne == Ready /\ GoesWild

(* The next key of hash_slice or hash_fill.                                *)
NextKey ==
  /\ status = "ok"
  /\ todo # <<>>
  /\ \/ /\ FindItem(Head(todo)) \/ MakeItem(Head(todo))
        /\ todo' = Tail(todo)
        /\ result' = IF pushing THEN Append(result, ValueOf(Head(todo))) ELSE result
        /\ UNCHANGED <<pushing, status>>
     \/ NoMemory(Head(todo)) /\ GoesWild

-----------------------------------------------------------------------------
(* HRKEYEX, HRKEYDEL, HRLEN                                                *)

(* Mutant of Exists: only the first item of a bucket is looked at.         *)
MutantExists(key) ==
  LET b == BucketOf(key)
  IN count[b] > 0 /\ items[b][1].key = key

Exists(key) ==
  LET b == BucketOf(key)
  IN count[b] > 0 /\ Hit(items[b], key)

HRKEYEX(key) ==
  /\ Ready
  /\ result' = IF Exists(key) THEN <<1>> ELSE <<0>>
  /\ UNCHANGED <<table, todo, pushing, status>>

(* The item gives up its value, but is not freed itself.                   *)
DeleteItem(key) ==
  LET b == BucketOf(key)
  IN /\ Exists(key)
     /\ live' = live \ {ValueOf(key)}
     /\ items' = [items EXCEPT ![b] = Unlinked(@, key)]
     /\ count' = [count EXCEPT ![b] = @ - 1]
     /\ UNCHANGED <<nodes, made>>

HRKEYDEL(key) ==
  /\ Ready
  /\ DeleteItem(key) \/ (~Exists(key) /\ UNCHANGED table)
  /\ result' = <<>>
  /\ UNCHANGED <<todo, pushing, status>>

(* The sum of the counts.                                                  *)
hash_size == Cardinality(UNION {{b} \X (1 .. count[b]) : b \in Buckets})

HRLEN ==
  /\ Ready
  /\ UNCHANGED <<table, todo, pushing, status>>
  /\ result' = <<hash_size>>

-----------------------------------------------------------------------------
(* HRLISTK, HRLISTV, HRLISTP                                               *)

(* The first n of a list, or all of it.                                    *)
UpTo(list, n) == SubSeq(list, 1, IF Len(list) < n THEN Len(list) ELSE n)

(* One turn of the loop over the buckets: bucket b adds its items to those *)
(* found so far, up to the size of the hash.                               *)
OneTurn(found, b) ==
  IF Len(found) >= hash_size \/ b \notin Buckets \/ count[b] = 0
    THEN found
    ELSE found \o UpTo(items[b], hash_size - Len(found))

(* What the loop has collected in the end.  hash_list_pairs looks into the *)
(* bucket of the turn, hash_list_keys and hash_list_values into the one    *)
(* numbered like the items collected so far, which may be beyond the last. *)
Collected(byItems) ==
  LET after[turn \in 0 .. HASH_BUCKETS] ==
        IF turn = 0 THEN <<>>
        ELSE OneTurn(after[turn - 1], IF byItems THEN Len(after[turn - 1]) ELSE turn - 1)
  IN after[HASH_BUCKETS]

InTurn == Collected(FALSE)

ByItems == Collected(TRUE)

(* The loop that goes by the items has turns left for a bucket that the    *)
(* hash does not have.                                                     *)
Overrun ==
  /\ Len(ByItems) < hash_size
  /\ Len(ByItems) \notin Buckets

Lists(list) ==
  /\ UNCHANGED <<table, todo, pushing, status>>
  /\ result' = list

(* Slots of the results array that the loop does not reach stay undef.     *)
HRLISTK ==
  /\ Ready
  /\ \/ GoesWild /\ Overrun
     \/ /\ LET found == ByItems
           IN Lists([i \in 1 .. hash_size |->
                       IF i <= Len(found) THEN found[i].key ELSE Undef])
        /\ ~Overrun

HRLISTV ==
  /\ Ready
  /\ \/ GoesWild /\ Overrun
     \/ /\ LET found == ByItems
           IN Lists([i \in 1 .. hash_size |->
                       IF i <= Len(found) THEN found[i].value ELSE Undef])
        /\ ~Overrun

HRLISTP ==
  /\ Ready
  /\ LET found == InTurn
     IN Lists([i \in 1 .. 2 * hash_size |->
                 LET item == found[(i + 1) \div 2]
                 IN IF i % 2 = 1 THEN item.key ELSE item.value])

-----------------------------------------------------------------------------

(* The last reference to the hash goes.                                    *)
Destroy ==
  /\ Ready
  /\ DestroyBuckets
  /\ status' = "destroyed"
  /\ UNCHANGED <<todo, pushing, result>>

Next ==
  \/ \E key \in Keys : HRINDEX(key) \/ HRKEYEX(key) \/ HRKEYDEL(key)
  \/ \E keys \in KeyLists : HRSLICE(keys) \/ HRFILL(keys)
  \/ NextKey
  \/ HRFILLOne
  \/ HRLEN \/ HRLISTK \/ HRLISTV \/ HRLISTP
  \/ Destroy

Spec == Init /\ [][Next]_vars

-----------------------------------------------------------------------------
(* Properties                                                              *)

(* Types of the variables.                                                 *)
TypeOK ==
  /\ items \in [Buckets -> Seq([key : Keys, value : 1 .. made])]
  /\ count \in [Buckets -> Nat]
  /\ nodes \in Int
  /\ made \in Nat
  /\ live \subseteq 1 .. made
  /\ todo \in Seq(Keys)
  /\ pushing \in BOOLEAN
  /\ status \in {"ok", "wild", "destroyed"}

(* Every list holds keys of its own bucket only, in ascending order and    *)
(* none twice, and is counted right: what lets every search stop early,    *)
(* every listing rely on m_count and _hash_destroy skip empty buckets,     *)
(* through insertion before, between and after other items and deletion    *)
(* (_hash_key_item_unlocked, _hash_key_delete_unlocked).                   *)
BucketsSound ==
  /\ TypeOK
  /\ \A b \in Buckets :
       /\ count[b] = Len(items[b])
       /\ \A i \in DOMAIN items[b] : BucketOf(items[b][i].key) = b
       /\ \A i, j \in DOMAIN items[b] : i < j => items[b][i].key < items[b][j].key

(* The hash has one reference to each value that it holds and to no other: *)
(* none leaks when a key is deleted or the hash filled anew or destroyed,  *)
(* and no two keys share a value (_hash_item_init, _hash_item_destroy).    *)
HoldsItsValues ==
  /\ live = UNION {ValuesIn(b) : b \in Buckets}
  /\ \A b, c \in Buckets : \A i \in DOMAIN items[b], j \in DOMAIN items[c] :
       items[b][i].value = items[c][j].value => b = c /\ i = j

(* The map that the buckets stand for.                                     *)
KeysIn == UNION {{items[b][i].key : i \in DOMAIN items[b]} : b \in Buckets}

ValueAt(key) ==
  LET list == items[BucketOf(key)]
      i == CHOOSE n \in DOMAIN list : list[n].key = key
  IN list[i].value

Map == INSTANCE Dictionary WITH map <- [key \in KeysIn |-> ValueAt(key)]

(* What each instruction promises of its key, as long as memory lasts: the *)
(* value pushed is the one of that very key.                               *)
Serves(key) ==
  /\ HRINDEX(key) => IF NoMemory(key) THEN status' = "wild" ELSE Map!Index(key)
  /\ NextKey /\ key = Head(todo) =>
       IF NoMemory(key) THEN status' = "wild"
       ELSE IF pushing THEN Map!Collect(key) ELSE Map!Fill(key)
  /\ HRKEYEX(key) => Map!Exists(key)
  /\ HRKEYDEL(key) => Map!Delete(key)

(* The loop that goes by the items has come by as many as there are.       *)
Complete == Len(ByItems) = hash_size

ListsMap ==
  /\ HRLEN => Map!Size
  /\ HRLISTP => Map!ListPairs
  /\ HRLISTK /\ Complete => Map!ListKeys
  /\ HRLISTV /\ Complete => Map!ListValues

(* To each instruction the buckets are a map, whatever keys collide: each  *)
(* key is found with the value it was given, until it is deleted, and no   *)
(* other key's (hash.c).  The listings of keys and of values are those of  *)
(* the map if they count as many items as they come by; they need not.     *)
IsDictionary ==
  /\ Map!Init
  /\ [][/\ \A key \in Keys : Serves(key)
        /\ \A keys \in KeyLists :
             /\ HRSLICE(keys) => Map!Begin
             /\ HRFILL(keys) => Map!Clear /\ result' = <<>>
        /\ Destroy => Map!Clear
        /\ ListsMap]_vars

(* "Allocates an array of scalars and populates it with the keys defined   *)
(* in the hash." (hash_list_keys): the code lists some of them only.       *)
ListsItsKeys == [][HRLISTK => Map!ListKeys]_vars

(* The memory of an item that has been deleted is free again (_hash_key_   *)
(* delete_unlocked does without the free of _hash_bucket_destroy).         *)
DeletedIsFreed == nodes = Cardinality(UNION {{b} \X DOMAIN items[b] : b \in Buckets})
=============================================================================
