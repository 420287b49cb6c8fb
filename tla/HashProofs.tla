------------------------------ MODULE HashProofs ------------------------------
(***************************************************************************)
(* Proofs about Hash: its buckets stay sorted and counted, it owns the     *)
(* values that it holds and no others, and it implements Dictionary, for   *)
(* keys, buckets, hash functions and memory of any size.                   *)
(***************************************************************************)
EXTENDS Hash, FiniteSetTheorems, SequenceTheorems, WellFoundedInduction, TLAPS

-----------------------------------------------------------------------------
(* Numbers and lists                                                       *)

(* Numbers have a least one among them.                                    *)
LEMMA LeastNumber ==
  ASSUME NEW T, T \subseteq Nat, T # {}
  PROVE  \E m \in T : \A i \in T : m <= i
  <1> DEFINE Less == OpToRel(<, Nat)
  <1>1. IsWellFoundedOn(Less, Nat)
    BY NatLessThanWellFounded
  <1>2. \A m, n \in Nat : m < n => <<m, n>> \in Less
    BY DEF OpToRel
  <1> HIDE DEF Less
  <1>3. PICK m \in T : \A i \in T : <<i, m>> \notin Less
    BY <1>1, WFMin
  <1>4. \A i \in T : ~ (i < m)
    BY <1>2, <1>3
  <1> QED
    BY <1>4

(* What a list is made of, when its values are in V.                       *)
Entries(V) == [key : Keys, value : V]

LEMMA KeysAreNumbers == Keys \subseteq Nat /\ \A key \in Keys : key > 0
  BY HashAssumption

LEMMA EntryFields ==
  ASSUME NEW V, NEW e \in Entries(V)
  PROVE  e.key \in Keys /\ e.value \in V
  BY DEF Entries

LEMMA ListAt ==
  ASSUME NEW V, NEW list \in Seq(Entries(V))
  PROVE  /\ Len(list) \in Nat /\ DOMAIN list = 1 .. Len(list)
         /\ \A i \in 1 .. Len(list) :
              list[i] \in Entries(V) /\ list[i].key \in Nat /\ list[i].key \in Keys /\ list[i].value \in V
  <1>1. Len(list) \in Nat /\ DOMAIN list = 1 .. Len(list)
    BY LenProperties
  <1>2. \A i \in 1 .. Len(list) : list[i] \in Entries(V)
    BY ElementOfSeq
  <1> QED
    BY <1>1, <1>2, EntryFields, KeysAreNumbers

(* What a part of a sequence is made of.                                   *)
LEMMA PartOfList ==
  ASSUME NEW S, NEW list \in Seq(S), NEW m \in Nat \ {0}, NEW n \in Nat, n <= Len(list), m <= n + 1
  PROVE  /\ SubSeq(list, m, n) \in Seq(S)
         /\ Len(SubSeq(list, m, n)) = n + 1 - m
         /\ \A i \in 1 .. n + 1 - m : SubSeq(list, m, n)[i] = list[m + i - 1]
  <1>1. Len(list) \in Nat /\ \A i \in 1 .. Len(list) : list[i] \in S
    BY LenProperties, ElementOfSeq
  <1>2. m \in Int /\ n \in Int /\ \A i \in m .. n : list[i] \in S
    BY <1>1
  <1>3. /\ SubSeq(list, m, n) \in Seq(S)
        /\ Len(SubSeq(list, m, n)) = IF m <= n THEN n - m + 1 ELSE 0
        /\ \A i \in 1 .. n - m + 1 : SubSeq(list, m, n)[i] = list[m + i - 1]
    BY <1>2, SubSeqProperties
  <1> QED
    BY <1>3

(* The search passes the items with lesser keys, whatever their order.     *)
LEMMA SearchStops ==
  ASSUME NEW V, NEW list \in Seq(Entries(V)), NEW key \in Keys
  PROVE  /\ Passed(list, key) \in 0 .. Len(list)
         /\ \A i \in 1 .. Passed(list, key) : list[i].key < key
         /\ Passed(list, key) < Len(list) => list[Passed(list, key) + 1].key >= key
  <1> DEFINE T == {i \in 1 .. Len(list) + 1 : i <= Len(list) => list[i].key >= key}
  <1>1. Len(list) \in Nat /\ \A i \in 1 .. Len(list) : list[i].key \in Nat
    BY ListAt
  <1>2. T \subseteq Nat
    BY <1>1
  <1>3. Len(list) + 1 \in T
    BY <1>1
  <1>4. PICK m \in T : \A i \in T : m <= i
    BY <1>2, <1>3, LeastNumber
  <1>5. m - 1 \in 0 .. Len(list)
    BY <1>1
  <1>6. ASSUME NEW i \in 1 .. m - 1
        PROVE  list[i].key < key
    <2>1. i \in 1 .. Len(list) /\ ~ (m <= i)
      BY <1>1, <1>5
    <2>2. i \notin T
      BY <1>4, <2>1
    <2>3. ~ (list[i].key >= key)
      BY <1>1, <2>1, <2>2
    <2> QED
      BY <1>1, <2>1, <2>3, KeysAreNumbers
  <1>7. m - 1 < Len(list) => list[(m - 1) + 1].key >= key
    <2>1. (m - 1) + 1 = m /\ (m - 1 < Len(list) => m <= Len(list))
      BY <1>1, <1>5
    <2>2. m <= Len(list) => list[m].key >= key
      BY <1>4
    <2> QED
      BY <2>1, <2>2
  <1>8. \E p \in 0 .. Len(list) :
          /\ \A i \in 1 .. p : list[i].key < key
          /\ p < Len(list) => list[p + 1].key >= key
    <2> HIDE DEF T
    <2> QED
      BY <1>5, <1>6, <1>7
  <1> QED
    BY <1>8, Zenon DEF Passed

(* Keys ascend along a list.                                               *)
Ascends(list) == \A i, j \in DOMAIN list : i < j => list[i].key < list[j].key

(* Of an ordered list, the search hits the place of the key, and misses    *)
(* only a key that has none.                                               *)
LEMMA SearchFinds ==
  ASSUME NEW V, NEW list \in Seq(Entries(V)), NEW key \in Keys, Ascends(list)
  PROVE  /\ \A i \in 1 .. Len(list) :
              list[i].key = key => Hit(list, key) /\ i = Passed(list, key) + 1
         /\ \A i \in 1 .. Len(list) : i > Passed(list, key) => list[i].key >= key
         /\ ~ Hit(list, key) =>
              \A i \in 1 .. Len(list) : i > Passed(list, key) => list[i].key > key
         /\ Hit(list, key) => /\ Passed(list, key) + 1 \in 1 .. Len(list)
                              /\ list[Passed(list, key) + 1].key = key
  <1> DEFINE p == Passed(list, key)
             n == Len(list)
             k(i) == list[i].key
  <1>1. n \in Nat /\ key \in Nat /\ \A i \in 1 .. n : k(i) \in Nat
    BY ListAt, KeysAreNumbers
  <1>2. /\ p \in 0 .. n
        /\ \A i \in 1 .. p : k(i) < key
        /\ p < n => k(p + 1) >= key
    BY SearchStops
  <1>3. \A i, j \in 1 .. n : i < j => k(i) < k(j)
    BY ListAt DEF Ascends
  <1>4. Hit(list, key) <=> p < n /\ k(p + 1) = key
    BY DEF Hit
  <1> HIDE DEF p, n, k
  <1>5. \A i \in 1 .. n : i > p => k(i) >= key
    <2> TAKE i \in 1 .. n
    <2> HAVE i > p
    <2>1. p + 1 \in 1 .. n /\ k(p + 1) \in Nat /\ k(i) \in Nat /\ k(p + 1) >= key
      BY <1>1, <1>2
    <2>2. CASE i = p + 1
      BY <2>1, <2>2
    <2>3. CASE i > p + 1
      BY <1>1, <1>3, <2>1, <2>3
    <2> QED
      BY <1>1, <1>2, <2>2, <2>3
  <1>6. \A i \in 1 .. n : k(i) = key => Hit(list, key) /\ i = p + 1
    <2> TAKE i \in 1 .. n
    <2> HAVE k(i) = key
    <2>1. i > p
      BY <1>1, <1>2
    <2>2. p + 1 \in 1 .. n /\ k(p + 1) \in Nat /\ k(p + 1) >= key
      BY <1>1, <1>2, <2>1
    <2>3. i = p + 1
      BY <1>1, <1>2, <1>3, <2>1, <2>2
    <2>4. p < n /\ k(p + 1) = key
      BY <1>1, <1>2, <2>2, <2>3
    <2> QED
      BY <1>4, <2>3, <2>4, Zenon
  <1>7. ~ Hit(list, key) => \A i \in 1 .. n : i > p => k(i) > key
    BY <1>1, <1>5, <1>6
  <1>8. Hit(list, key) => p + 1 \in 1 .. n /\ k(p + 1) = key
    BY <1>1, <1>2, <1>4
  <1> QED
    BY <1>5, <1>6, <1>7, <1>8 DEF p, n, k

(* Where an insertion leaves the items.                                    *)
LEMMA InsertedAt ==
  ASSUME NEW V, NEW list \in Seq(Entries(V)), NEW item \in Entries(V)
  PROVE  LET p == Passed(list, item.key)
         IN /\ Inserted(list, item) \in Seq(Entries(V))
            /\ Len(Inserted(list, item)) = Len(list) + 1
            /\ \A i \in 1 .. Len(list) + 1 :
                 Inserted(list, item)[i] =
                   IF i <= p THEN list[i] ELSE IF i = p + 1 THEN item ELSE list[i - 1]
  <1> DEFINE p == Passed(list, item.key)
             n == Len(list)
             front == SubSeq(list, 1, p)
             mid == <<item>>
             back == SubSeq(list, p + 1, n)
  <1>1. n \in Nat /\ \A i \in 1 .. n : list[i] \in Entries(V)
    BY ListAt
  <1>2. p \in 0 .. n
    BY SearchStops, EntryFields
  <1>3. /\ front \in Seq(Entries(V)) /\ Len(front) = p
        /\ \A i \in 1 .. p : front[i] = list[i]
    <2>1. p \in Nat /\ p <= Len(list) /\ 1 <= p + 1
      BY <1>1, <1>2
    <2> HIDE DEF p
    <2> QED
      BY <2>1, PartOfList
  <1>4. /\ back \in Seq(Entries(V)) /\ Len(back) = n - p
        /\ \A i \in 1 .. n - p : back[i] = list[p + i]
    <2>1. p + 1 \in Nat \ {0} /\ n \in Nat /\ n <= Len(list) /\ p + 1 <= n + 1
      BY <1>1, <1>2
    <2> HIDE DEF p, n
    <2> QED
      BY <2>1, <1>1, <1>2, PartOfList
  <1>5. mid \in Seq(Entries(V)) /\ Len(mid) = 1 /\ mid[1] = item
    OBVIOUS
  <1> HIDE DEF p, n, front, mid, back
  <1>6. /\ front \o mid \in Seq(Entries(V)) /\ Len(front \o mid) = p + 1
        /\ \A i \in 1 .. p + 1 : (front \o mid)[i] = IF i <= p THEN list[i] ELSE item
    <2>1. /\ front \o mid \in Seq(Entries(V))
          /\ Len(front \o mid) = Len(front) + Len(mid)
          /\ \A i \in 1 .. Len(front) + Len(mid) : (front \o mid)[i] =
               IF i <= Len(front) THEN front[i] ELSE mid[i - Len(front)]
      BY <1>3, <1>5, ConcatProperties, Zenon
    <2> QED
      BY <1>2, <1>3, <1>5, <2>1
  <1>7. PICK fm \in Seq(Entries(V)) : fm = front \o mid
    BY <1>6
  <1>8. /\ fm \o back \in Seq(Entries(V))
        /\ Len(fm \o back) = n + 1
        /\ \A i \in 1 .. n + 1 : (fm \o back)[i] = IF i <= p + 1 THEN fm[i] ELSE back[i - (p + 1)]
    <2>1. /\ fm \o back \in Seq(Entries(V))
          /\ Len(fm \o back) = Len(fm) + Len(back)
          /\ \A i \in 1 .. Len(fm) + Len(back) : (fm \o back)[i] =
               IF i <= Len(fm) THEN fm[i] ELSE back[i - Len(fm)]
      BY <1>4, ConcatProperties, Zenon
    <2>2. Len(fm) = p + 1 /\ Len(back) = n - p /\ p + 1 + (n - p) = n + 1
      BY <1>1, <1>2, <1>4, <1>6, <1>7
    <2> QED
      BY <2>1, <2>2
  <1>9. \A i \in 1 .. n + 1 :
          (fm \o back)[i] = IF i <= p THEN list[i] ELSE IF i = p + 1 THEN item ELSE list[i - 1]
    <2> TAKE i \in 1 .. n + 1
    <2>0. p \in Nat /\ n \in Nat /\ i \in Nat
      BY <1>1, <1>2
    <2>1. CASE i <= p + 1
      BY <1>1, <1>2, <1>6, <1>7, <1>8, <2>1
    <2>2. CASE i > p + 1
      <3>1. i - (p + 1) \in 1 .. n - p /\ p + (i - (p + 1)) = i - 1
        BY <1>1, <1>2, <2>2
      <3>2. (fm \o back)[i] = back[i - (p + 1)]
        BY <1>8, <2>0, <2>2
      <3>3. back[i - (p + 1)] = list[p + (i - (p + 1))]
        BY <1>4, <3>1
      <3> QED
        BY <2>0, <2>2, <3>1, <3>2, <3>3, SMTT(30)
    <2>3. i <= p + 1 \/ i > p + 1
      BY <2>0
    <2> QED
      BY <2>1, <2>2, <2>3, Zenon
  <1>10. Inserted(list, item) = fm \o back
    BY <1>7 DEF Inserted, p, n, front, mid, back
  <1> QED
    BY <1>8, <1>9, <1>10 DEF p, n

(* Where a deletion leaves the items.                                      *)
LEMMA UnlinkedAt ==
  ASSUME NEW V, NEW list \in Seq(Entries(V)), NEW key \in Keys, Passed(list, key) < Len(list)
  PROVE  LET p == Passed(list, key)
         IN /\ Unlinked(list, key) \in Seq(Entries(V))
            /\ Len(Unlinked(list, key)) = Len(list) - 1
            /\ \A i \in 1 .. Len(list) - 1 :
                 Unlinked(list, key)[i] = IF i <= p THEN list[i] ELSE list[i + 1]
  <1> DEFINE p == Passed(list, key)
             n == Len(list)
             front == SubSeq(list, 1, p)
             back == SubSeq(list, p + 2, n)
  <1>1. n \in Nat /\ \A i \in 1 .. n : list[i] \in Entries(V)
    BY ListAt
  <1>2. p \in 0 .. n - 1
    BY <1>1, SearchStops
  <1>3. /\ front \in Seq(Entries(V)) /\ Len(front) = p
        /\ \A i \in 1 .. p : front[i] = list[i]
    <2>1. p \in Nat /\ p <= Len(list) /\ 1 <= p + 1
      BY <1>1, <1>2
    <2> HIDE DEF p
    <2> QED
      BY <2>1, PartOfList
  <1>4. /\ back \in Seq(Entries(V)) /\ Len(back) = n - p - 1
        /\ \A i \in 1 .. n - p - 1 : back[i] = list[p + i + 1]
    <2>1. p + 2 \in Nat \ {0} /\ n \in Nat /\ n <= Len(list) /\ p + 2 <= n + 1
      BY <1>1, <1>2
    <2> HIDE DEF p, n
    <2> QED
      BY <2>1, <1>1, <1>2, PartOfList
  <1> HIDE DEF p, n, front, back
  <1>5. /\ front \o back \in Seq(Entries(V)) /\ Len(front \o back) = n - 1
        /\ \A i \in 1 .. n - 1 : (front \o back)[i] = IF i <= p THEN front[i] ELSE back[i - p]
    <2>1. /\ front \o back \in Seq(Entries(V))
          /\ Len(front \o back) = Len(front) + Len(back)
          /\ \A i \in 1 .. Len(front) + Len(back) : (front \o back)[i] =
               IF i <= Len(front) THEN front[i] ELSE back[i - Len(front)]
      BY <1>3, <1>4, ConcatProperties, Zenon
    <2>2. Len(front) = p /\ Len(back) = n - p - 1 /\ p + (n - p - 1) = n - 1
      BY <1>1, <1>2, <1>3, <1>4
    <2> QED
      BY <2>1, <2>2
  <1>6. \A i \in 1 .. n - 1 : (front \o back)[i] = IF i <= p THEN list[i] ELSE list[i + 1]
    <2> TAKE i \in 1 .. n - 1
    <2>0. p \in Nat /\ n \in Nat /\ i \in Nat
      BY <1>1, <1>2
    <2>1. CASE i <= p
      BY <1>1, <1>2, <1>3, <1>5, <2>1
    <2>2. CASE i > p
      <3>1. i - p \in 1 .. n - p - 1 /\ p + (i - p) + 1 = i + 1
        BY <1>1, <1>2, <2>2
      <3>2. (front \o back)[i] = back[i - p]
        BY <1>5, <2>0, <2>2
      <3>3. back[i - p] = list[p + (i - p) + 1]
        BY <1>4, <3>1
      <3> QED
        BY <2>0, <2>2, <3>1, <3>2, <3>3
    <2>3. i <= p \/ i > p
      BY <2>0
    <2> QED
      BY <2>1, <2>2, <2>3, Zenon
  <1>7. Unlinked(list, key) = front \o back
    BY DEF Unlinked, p, n, front, back
  <1> QED
    BY <1>5, <1>6, <1>7 DEF p, n
-----------------------------------------------------------------------------
(* What the lists hold                                                     *)

Elements(list) == {list[i] : i \in DOMAIN list}

(* What the buckets hold, whatever its order.                              *)
Contents == UNION {Elements(items[b]) : b \in Buckets}

(* An insertion adds the item to an ordered list, in its order.            *)
LEMMA InsertedElements ==
  ASSUME NEW V, NEW list \in Seq(Entries(V)), NEW item \in Entries(V),
         Ascends(list), ~ Hit(list, item.key)
  PROVE  /\ Elements(Inserted(list, item)) = Elements(list) \cup {item}
         /\ Ascends(Inserted(list, item))
  <1> DEFINE p == Passed(list, item.key)
             n == Len(list)
             new == Inserted(list, item)
  <1>1. /\ n \in Nat /\ DOMAIN list = 1 .. n
        /\ \A i \in 1 .. n : list[i].key \in Nat
    BY ListAt
  <1>2. new \in Seq(Entries(V)) /\ Len(new) = n + 1
    BY InsertedAt
  <1>3. \A i \in 1 .. n + 1 : new[i] = IF i <= p THEN list[i] ELSE IF i = p + 1 THEN item ELSE list[i - 1]
    BY InsertedAt
  <1>4. item.key \in Keys /\ item.key \in Nat
    BY EntryFields, KeysAreNumbers
  <1>5. p \in 0 .. n /\ \A i \in 1 .. p : list[i].key < item.key
    BY <1>4, SearchStops
  <1>6. \A i \in 1 .. n : i > p => list[i].key > item.key
    BY <1>4, SearchFinds
  <1>7. \A i, j \in 1 .. n : i < j => list[i].key < list[j].key
    BY <1>1 DEF Ascends
  <1>8. DOMAIN new = 1 .. n + 1
    BY <1>2, LenProperties
  <1> HIDE DEF p, n, new
  <1>9. Elements(new) = Elements(list) \cup {item}
    <2>1. ASSUME NEW i \in 1 .. n + 1
          PROVE  new[i] \in Elements(list) \cup {item}
      <3>1. i <= p \/ i = p + 1 \/ (i > p + 1 /\ i - 1 \in 1 .. n)
        BY <1>1, <1>5
      <3>2. i <= p => i \in 1 .. n
        BY <1>1, <1>5
      <3> QED
        BY <1>1, <1>3, <1>5, <3>1, <3>2 DEF Elements
    <2>2. ASSUME NEW i \in 1 .. n
          PROVE  list[i] \in Elements(new)
      <3>1. CASE i <= p
        <4>1. i \in 1 .. n + 1 /\ new[i] = list[i]
          BY <1>1, <1>3, <3>1
        <4> QED
          BY <1>8, <4>1 DEF Elements
      <3>2. CASE i > p
        <4>1. i + 1 \in 1 .. n + 1 /\ new[i + 1] = list[i]
          BY <1>1, <1>3, <1>5, <3>2
        <4> QED
          BY <1>8, <4>1 DEF Elements
      <3> QED
        BY <1>1, <1>5, <3>1, <3>2
    <2>3. item \in Elements(new)
      <3>1. p + 1 \in 1 .. n + 1 /\ new[p + 1] = item
        BY <1>1, <1>3, <1>5
      <3> QED
        BY <1>8, <3>1 DEF Elements
    <2> QED
      BY <1>1, <1>8, <2>1, <2>2, <2>3 DEF Elements
  <1>10. Ascends(new)
    <2> SUFFICES ASSUME NEW i \in 1 .. n + 1, NEW j \in 1 .. n + 1, i < j
                 PROVE  new[i].key < new[j].key
      BY <1>8 DEF Ascends
    <2>0. i \in Nat /\ j \in Nat /\ p \in Nat /\ n \in Nat /\ p <= n
          /\ i <= n + 1 /\ j <= n + 1 /\ i >= 1 /\ j >= 1
      BY <1>1, <1>5
    <2>1. CASE j <= p
      <3>1. new[i] = list[i] /\ new[j] = list[j] /\ i \in 1 .. n /\ j \in 1 .. n
        BY <1>3, <2>0, <2>1
      <3> QED
        BY <1>7, <3>1
    <2>2. CASE i <= p /\ j = p + 1
      <3>1. new[i] = list[i] /\ new[j] = item /\ i \in 1 .. p
        BY <1>3, <2>0, <2>2
      <3> QED
        BY <1>5, <3>1
    <2>3. CASE i <= p /\ j > p + 1
      <3>1. new[i] = list[i] /\ new[j] = list[j - 1] /\ i \in 1 .. n /\ j - 1 \in 1 .. n /\ i < j - 1
        BY <1>3, <2>0, <2>3
      <3> QED
        BY <1>7, <3>1
    <2>4. CASE i = p + 1 /\ j > p + 1
      <3>1. new[i] = item /\ new[j] = list[j - 1] /\ j - 1 \in 1 .. n /\ j - 1 > p
        BY <1>3, <2>0, <2>4
      <3>2. list[j - 1].key \in Nat /\ list[j - 1].key > item.key
        BY <1>1, <1>6, <3>1
      <3> QED
        BY <1>4, <3>1, <3>2
    <2>5. CASE i > p + 1
      <3>1. new[i] = list[i - 1] /\ new[j] = list[j - 1]
            /\ i - 1 \in 1 .. n /\ j - 1 \in 1 .. n /\ i - 1 < j - 1
        BY <1>3, <2>0, <2>5
      <3> QED
        BY <1>7, <3>1
    <2> QED
      BY <2>0, <2>1, <2>2, <2>3, <2>4, <2>5
  <1> QED
    BY <1>9, <1>10 DEF new

(* A deletion takes the key's item out of an ordered list.                 *)
LEMMA UnlinkedElements ==
  ASSUME NEW V, NEW list \in Seq(Entries(V)), NEW key \in Keys,
         Ascends(list), Hit(list, key)
  PROVE  /\ Elements(Unlinked(list, key)) = {e \in Elements(list) : e.key # key}
         /\ Ascends(Unlinked(list, key))
  <1> DEFINE p == Passed(list, key)
             n == Len(list)
             new == Unlinked(list, key)
  <1>1. /\ n \in Nat /\ DOMAIN list = 1 .. n
        /\ \A i \in 1 .. n : list[i].key \in Nat
    BY ListAt
  <1>2. p < n
    BY DEF Hit
  <1>3. new \in Seq(Entries(V)) /\ Len(new) = n - 1
    BY <1>2, UnlinkedAt
  <1>4. \A i \in 1 .. n - 1 : new[i] = IF i <= p THEN list[i] ELSE list[i + 1]
    BY <1>2, UnlinkedAt
  <1>5. p \in 0 .. n /\ key \in Nat
    BY SearchStops, KeysAreNumbers
  <1>6. \A i \in 1 .. n : list[i].key = key <=> i = p + 1
    BY SearchFinds
  <1>7. \A i, j \in 1 .. n : i < j => list[i].key < list[j].key
    BY <1>1 DEF Ascends
  <1>8. DOMAIN new = 1 .. n - 1
    BY <1>3, LenProperties
  <1> HIDE DEF p, n, new
  <1>9. ASSUME NEW i \in 1 .. n - 1
        PROVE  \E j \in 1 .. n : new[i] = list[j] /\ j # p + 1
    <2>1. CASE i <= p
      BY <1>1, <1>4, <1>5, <2>1
    <2>2. CASE i > p
      <3>1. i + 1 \in 1 .. n /\ i + 1 # p + 1 /\ new[i] = list[i + 1]
        BY <1>1, <1>4, <1>5, <2>2
      <3> QED
        BY <3>1, Zenon
    <2> QED
      BY <1>1, <1>5, <2>1, <2>2
  <1>10. ASSUME NEW j \in 1 .. n, j # p + 1
         PROVE  \E i \in 1 .. n - 1 : new[i] = list[j]
    <2>1. CASE j <= p
      <3>1. j \in 1 .. n - 1 /\ new[j] = list[j]
        BY <1>1, <1>2, <1>4, <1>5, <2>1
      <3> QED
        BY <3>1, Zenon
    <2>2. CASE j > p
      <3>1. j - 1 \in 1 .. n - 1 /\ ~ (j - 1 <= p) /\ j - 1 + 1 = j
        BY <1>1, <1>5, <1>10, <2>2
      <3>2. new[j - 1] = list[j]
        BY <1>4, <3>1
      <3> QED
        BY <3>1, <3>2, Zenon
    <2> QED
      BY <1>1, <1>5, <2>1, <2>2
  <1>11. Elements(new) = {e \in Elements(list) : e.key # key}
    <2>1. ASSUME NEW e \in Elements(new)
          PROVE  e \in Elements(list) /\ e.key # key
      <3>1. PICK i \in 1 .. n - 1 : e = new[i]
        BY <1>8 DEF Elements
      <3>2. PICK j \in 1 .. n : new[i] = list[j] /\ j # p + 1
        BY <1>9
      <3> QED
        BY <1>1, <1>6, <3>1, <3>2, Zenon DEF Elements
    <2>2. ASSUME NEW e \in Elements(list), e.key # key
          PROVE  e \in Elements(new)
      <3>1. PICK j \in 1 .. n : e = list[j]
        BY <1>1 DEF Elements
      <3>2. j # p + 1
        BY <1>6, <2>2, <3>1
      <3>3. PICK i \in 1 .. n - 1 : new[i] = list[j]
        BY <1>10, <3>2
      <3> QED
        BY <1>8, <3>1, <3>3, Zenon DEF Elements
    <2> QED
      BY <2>1, <2>2
  <1>12. Ascends(new)
    <2> SUFFICES ASSUME NEW i \in 1 .. n - 1, NEW j \in 1 .. n - 1, i < j
                 PROVE  new[i].key < new[j].key
      BY <1>8 DEF Ascends
    <2>0. i \in Nat /\ j \in Nat /\ p \in Nat /\ n \in Nat /\ i <= n - 1 /\ j <= n - 1 /\ i >= 1 /\ j >= 1
      BY <1>1, <1>5
    <2>1. CASE j <= p
      <3>1. new[i] = list[i] /\ new[j] = list[j] /\ i \in 1 .. n /\ j \in 1 .. n
        BY <1>4, <2>0, <2>1
      <3> QED
        BY <1>7, <3>1
    <2>2. CASE i <= p /\ j > p
      <3>1. new[i] = list[i] /\ new[j] = list[j + 1] /\ i \in 1 .. n /\ j + 1 \in 1 .. n /\ i < j + 1
        BY <1>4, <2>0, <2>2
      <3> QED
        BY <1>7, <3>1
    <2>3. CASE i > p
      <3>1. new[i] = list[i + 1] /\ new[j] = list[j + 1]
            /\ i + 1 \in 1 .. n /\ j + 1 \in 1 .. n /\ i + 1 < j + 1
        BY <1>4, <2>0, <2>3
      <3> QED
        BY <1>7, <3>1
    <2> QED
      BY <2>0, <2>1, <2>2, <2>3
  <1> QED
    BY <1>11, <1>12 DEF new
-----------------------------------------------------------------------------
(* The inductive invariant                                                 *)

(* Every list is counted, holds keys of its own bucket, and ascends.       *)
Sorted ==
  \A b \in Buckets :
    /\ count[b] = Len(items[b])
    /\ \A e \in Elements(items[b]) : BucketOf(e.key) = b
    /\ Ascends(items[b])

(* The hash owns the values it holds, each of them for one key.            *)
Owned ==
  /\ live = {e.value : e \in Contents}
  /\ \A e, f \in Contents : e.value = f.value => e = f

IInv == TypeOK /\ Sorted /\ Owned

LEMMA BucketOfKey ==
  ASSUME NEW key \in Keys
  PROVE  BucketOf(key) \in Buckets
  <1>1. HashOf[key] \in Nat /\ HASH_BUCKETS \in Nat \ {0}
    BY HashAssumption
  <1> QED
    BY <1>1 DEF BucketOf, Buckets

(* The types, in terms of the entries.                                     *)
LEMMA TypeFacts ==
  ASSUME TypeOK
  PROVE  /\ items \in [Buckets -> Seq(Entries(1 .. made))]
         /\ \A b \in Buckets : items[b] \in Seq(Entries(1 .. made))
         /\ count \in [Buckets -> Nat]
         /\ made \in Nat
  BY DEF TypeOK, Entries

LEMMA ContentsTyped ==
  ASSUME TypeOK, NEW e \in Contents
  PROVE  e \in Entries(1 .. made) /\ e.key \in Keys /\ e.value \in 1 .. made
  <1>1. PICK b \in Buckets : e \in Elements(items[b])
    BY DEF Contents
  <1>2. PICK i \in DOMAIN items[b] : e = items[b][i]
    BY <1>1 DEF Elements
  <1>3. items[b] \in Seq(Entries(1 .. made))
    BY TypeFacts
  <1>4. e \in Entries(1 .. made)
    BY <1>2, <1>3, ListAt
  <1> QED
    BY <1>4, EntryFields

(* The lists hold the key's item if anywhere then where the search looks.  *)
LEMMA HitOrMiss ==
  ASSUME TypeOK, Sorted, NEW key \in Keys
  PROVE  LET list == items[BucketOf(key)]
             p == Passed(list, key)
         IN /\ Hit(list, key) =>
                 /\ p + 1 \in 1 .. Len(list)
                 /\ list[p + 1] \in Contents /\ list[p + 1].key = key
                 /\ \A e \in Contents : e.key = key => e = list[p + 1]
            /\ ~ Hit(list, key) => \A e \in Contents : e.key # key
  <1> DEFINE b == BucketOf(key)
             list == items[b]
             p == Passed(list, key)
  <1>1. b \in Buckets
    BY BucketOfKey
  <1>2. list \in Seq(Entries(1 .. made)) /\ Ascends(list)
    BY <1>1, TypeFacts DEF Sorted
  <1>3. DOMAIN list = 1 .. Len(list)
    BY <1>2, LenProperties
  <1>4. ASSUME NEW e \in Contents, e.key = key
        PROVE  Hit(list, key) /\ e = list[p + 1]
    <2>1. PICK c \in Buckets : e \in Elements(items[c])
      BY DEF Contents
    <2>2. c = b
      BY <1>4, <2>1 DEF Sorted
    <2>3. PICK i \in 1 .. Len(list) : e = list[i]
      BY <1>3, <2>1, <2>2 DEF Elements
    <2> HIDE DEF list, p
    <2> QED
      BY <1>2, <1>4, <2>3, SearchFinds DEF p
  <1>5. ASSUME Hit(list, key)
        PROVE  p + 1 \in 1 .. Len(list) /\ list[p + 1].key = key /\ list[p + 1] \in Contents
    <2>1. p + 1 \in 1 .. Len(list) /\ list[p + 1].key = key
      BY <1>2, <1>5, SearchFinds
    <2>2. list[p + 1] \in Elements(list)
      BY <1>3, <2>1, Zenon DEF Elements
    <2> QED
      BY <1>1, <2>1, <2>2, Zenon DEF Contents
  <1> QED
    BY <1>4, <1>5, Zenon

-----------------------------------------------------------------------------
(* What the operations make of the contents                                *)

(* Nothing.                                                                *)
LEMMA UntouchedKeeps ==
  ASSUME TypeOK, Sorted, UNCHANGED table
  PROVE  Sorted' /\ Contents' = Contents /\ (Owned => Owned')
  <1>1. items' = items /\ count' = count /\ live' = live
    BY DEF table
  <1>2. Contents' = Contents
    BY <1>1 DEF Contents, Elements
  <1>3. Owned => Owned'
    BY <1>1, <1>2, Zenon DEF Owned
  <1>4. Sorted'
    BY <1>1, ZenonT(60) DEF Sorted, Elements, Ascends
  <1> QED
    BY <1>2, <1>3, <1>4

(* Making an item adds it.                                                 *)
LEMMA MakeItemAdds ==
  ASSUME TypeOK, Sorted, NEW key \in Keys, MakeItem(key)
  PROVE  /\ items' \in [Buckets -> Seq(Entries(1 .. made'))]
         /\ count' \in [Buckets -> Nat]
         /\ Sorted'
         /\ Contents' = Contents \cup {[key |-> key, value |-> made + 1]}
         /\ \A e \in Contents : e.key # key
  <1> DEFINE b == BucketOf(key)
             item == [key |-> key, value |-> made + 1]
             list == items[b]
             new == Inserted(list, item)
  <1>1. /\ ~ Hit(list, key) /\ made' = made + 1
        /\ items' = [items EXCEPT ![b] = new]
        /\ count' = [count EXCEPT ![b] = IF list = <<>> THEN 1 ELSE @ + 1]
    BY Zenon DEF MakeItem
  <1>2. b \in Buckets /\ made \in Nat /\ count \in [Buckets -> Nat]
    BY BucketOfKey, TypeFacts
  <1>3. \A c \in Buckets : items[c] \in Seq(Entries(1 .. made + 1))
    <2>1. Entries(1 .. made) \subseteq Entries(1 .. made + 1)
      BY <1>2 DEF Entries
    <2> QED
      BY <2>1, TypeFacts, SeqMonotonic
  <1>4. item \in Entries(1 .. made + 1) /\ item.key = key
    BY <1>2 DEF Entries
  <1>5. count[b] = Len(list) /\ Ascends(list)
    BY <1>2 DEF Sorted
  <1>6. list \in Seq(Entries(1 .. made + 1))
    BY <1>2, <1>3
  <1> HIDE DEF item, list
  <1>7. new \in Seq(Entries(1 .. made + 1)) /\ Len(new) = Len(list) + 1
    BY <1>4, <1>6, InsertedAt
  <1>8. Elements(new) = Elements(list) \cup {item} /\ Ascends(new)
    BY <1>1, <1>4, <1>5, <1>6, InsertedElements
  <1> HIDE DEF new, b
  <1>9. items \in [Buckets -> Seq(Entries(1 .. made))]
    BY TypeFacts
  <1>10. \A c \in Buckets : items'[c] = IF c = b THEN new ELSE items[c]
    BY <1>1, <1>9
  <1>11. count'[b] = Len(new)
    <2>1. CASE list = <<>>
      <3>1. Len(list) = 0
        BY <2>1
      <3>2. count'[b] = 1
        BY <1>1, <1>2, <2>1, Zenon
      <3> QED
        BY <1>7, <3>1, <3>2
    <2>2. CASE list # <<>>
      <3>1. count'[b] = count[b] + 1
        BY <1>1, <1>2, <2>2, Zenon
      <3> QED
        BY <1>5, <1>7, <3>1
    <2> QED
      BY <2>1, <2>2, Zenon
  <1>12. \A c \in Buckets : c # b => count'[c] = count[c]
    BY <1>1, <1>2
  <1>13. Len(new) \in Nat
    BY <1>7, LenProperties
  <1>14. count' \in [Buckets -> Nat]
    <2>1. PICK k : count' = [count EXCEPT ![b] = k]
      BY <1>1, Zenon
    <2>2. k = Len(new)
      BY <1>2, <1>11, <2>1
    <2> QED
      BY <1>2, <1>13, <2>1, <2>2
  <1>15. items' \in [Buckets -> Seq(Entries(1 .. made'))]
    <2>1. \A c \in Buckets : items'[c] \in Seq(Entries(1 .. made + 1))
      BY <1>3, <1>7, <1>10
    <2>2. DOMAIN items' = Buckets /\ items' = [c \in Buckets |-> items'[c]]
      BY <1>1, <1>9
    <2> QED
      BY <1>1, <2>1, <2>2, Zenon
  <1>16. Sorted'
    <2> SUFFICES ASSUME NEW c \in Buckets
                 PROVE  /\ count'[c] = Len(items'[c])
                        /\ \A e \in Elements(items'[c]) : BucketOf(e.key) = c
                        /\ Ascends(items'[c])
      BY Zenon DEF Sorted, Elements, Ascends
    <2>1. CASE c = b
      <3>1. items'[c] = new /\ count'[c] = Len(new)
        BY <1>2, <1>10, <1>11, <2>1
      <3>2. \A e \in Elements(list) : BucketOf(e.key) = b
        BY <1>2, Zenon DEF Sorted, list
      <3>3. BucketOf(item.key) = b
        BY <1>4 DEF b
      <3> QED
        BY <1>8, <2>1, <3>1, <3>2, <3>3
    <2>2. CASE c # b
      BY <1>10, <1>12, <2>2, Zenon DEF Sorted
    <2> QED
      BY <2>1, <2>2
  <1>17. Contents' = Contents \cup {item}
    <2>1. Contents' = UNION {Elements(items'[c]) : c \in Buckets}
      BY Zenon DEF Contents, Elements
    <2>2. Elements(items'[b]) = Elements(items[b]) \cup {item}
      BY <1>2, <1>8, <1>10 DEF list
    <2>3. \A c \in Buckets : c # b => Elements(items'[c]) = Elements(items[c])
      BY <1>10
    <2> QED
      BY <1>2, <2>1, <2>2, <2>3 DEF Contents
  <1>18. \A e \in Contents : e.key # key
    BY <1>1, HitOrMiss DEF list, b
  <1> QED
    BY <1>14, <1>15, <1>16, <1>17, <1>18 DEF item

(* Deleting an item takes it out.                                          *)
LEMMA DeleteItemRemoves ==
  ASSUME TypeOK, Sorted, NEW key \in Keys, DeleteItem(key)
  PROVE  /\ items' \in [Buckets -> Seq(Entries(1 .. made'))]
         /\ count' \in [Buckets -> Nat]
         /\ Sorted'
         /\ Contents' = {e \in Contents : e.key # key}
         /\ \E e \in Contents : e.key = key /\ live' = live \ {e.value}
  <1> DEFINE b == BucketOf(key)
             list == items[b]
             new == Unlinked(list, key)
  <1>1. /\ Hit(list, key) /\ made' = made
        /\ items' = [items EXCEPT ![b] = new]
        /\ count' = [count EXCEPT ![b] = @ - 1]
        /\ live' = live \ {ValueOf(key)}
    BY Zenon DEF DeleteItem, Exists
  <1>2. b \in Buckets /\ made \in Nat /\ count \in [Buckets -> Nat]
    BY BucketOfKey, TypeFacts
  <1>3. \A c \in Buckets : items[c] \in Seq(Entries(1 .. made))
    BY TypeFacts
  <1>4. list \in Seq(Entries(1 .. made)) /\ count[b] = Len(list) /\ Ascends(list)
    BY <1>2, <1>3 DEF Sorted
  <1>5. \E e \in Contents : e.key = key /\ live' = live \ {e.value}
    <2>1. ValueOf(key) = list[Passed(list, key) + 1].value
      BY <1>1, Zenon DEF ValueOf
    <2>2. list[Passed(list, key) + 1] \in Contents /\ list[Passed(list, key) + 1].key = key
      BY <1>1, HitOrMiss
    <2> QED
      BY <1>1, <2>1, <2>2, Zenon
  <1>6. \A c \in Buckets : \A e \in Elements(items[c]) : BucketOf(e.key) = c
    BY Zenon DEF Sorted
  <1> HIDE DEF list
  <1>7. Passed(list, key) < Len(list)
    BY <1>1 DEF Hit
  <1>8. new \in Seq(Entries(1 .. made)) /\ Len(new) = Len(list) - 1
    BY <1>4, <1>7, UnlinkedAt
  <1>9. Elements(new) = {e \in Elements(list) : e.key # key} /\ Ascends(new)
    BY <1>1, <1>4, UnlinkedElements
  <1>10. items \in [Buckets -> Seq(Entries(1 .. made))]
    BY TypeFacts
  <1> HIDE DEF new, b
  <1>11. \A c \in Buckets : items'[c] = IF c = b THEN new ELSE items[c]
    BY <1>1, <1>10
  <1>12. count'[b] = Len(new) /\ Len(new) \in Nat
    <2>1. count'[b] = count[b] - 1
      BY <1>1, <1>2
    <2> QED
      BY <1>4, <1>8, <2>1, LenProperties
  <1>13. \A c \in Buckets : c # b => count'[c] = count[c]
    BY <1>1, <1>2
  <1>14. count' \in [Buckets -> Nat]
    <2>1. PICK k : count' = [count EXCEPT ![b] = k]
      BY <1>1, Zenon
    <2>2. k = Len(new)
      BY <1>2, <1>12, <2>1
    <2> QED
      BY <1>2, <1>12, <2>1, <2>2
  <1>15. items' \in [Buckets -> Seq(Entries(1 .. made'))]
    <2>1. \A c \in Buckets : items'[c] \in Seq(Entries(1 .. made))
      BY <1>3, <1>8, <1>11
    <2>2. DOMAIN items' = Buckets /\ items' = [c \in Buckets |-> items'[c]]
      BY <1>1, <1>10
    <2> QED
      BY <1>1, <2>1, <2>2, Zenon
  <1>16. Sorted'
    <2> SUFFICES ASSUME NEW c \in Buckets
                 PROVE  /\ count'[c] = Len(items'[c])
                        /\ \A e \in Elements(items'[c]) : BucketOf(e.key) = c
                        /\ Ascends(items'[c])
      BY Zenon DEF Sorted, Elements, Ascends
    <2>1. CASE c = b
      <3>1. items'[c] = new /\ count'[c] = Len(new)
        BY <1>2, <1>11, <1>12, <2>1
      <3>2. \A e \in Elements(list) : BucketOf(e.key) = b
        BY <1>2, <1>6, Zenon DEF list
      <3> QED
        BY <1>9, <2>1, <3>1, <3>2
    <2>2. CASE c # b
      BY <1>11, <1>13, <2>2, Zenon DEF Sorted
    <2> QED
      BY <2>1, <2>2
  <1>17. Contents' = {e \in Contents : e.key # key}
    <2>1. Contents' = UNION {Elements(items'[c]) : c \in Buckets}
      BY Zenon DEF Contents, Elements
    <2>2. Elements(items'[b]) = {e \in Elements(items[b]) : e.key # key}
      BY <1>2, <1>9, <1>11 DEF list
    <2>3. \A c \in Buckets : c # b => Elements(items'[c]) = Elements(items[c])
      BY <1>11
    <2>4. \A c \in Buckets : c # b => \A e \in Elements(items[c]) : e.key # key
      BY <1>6 DEF b
    <2>5. \A e : e \in Contents' <=> \E c \in Buckets : e \in Elements(items'[c])
      BY <2>1
    <2>6. \A e : e \in Contents <=> \E c \in Buckets : e \in Elements(items[c])
      BY DEF Contents
    <2> QED
      BY <1>2, <2>2, <2>3, <2>4, <2>5, <2>6
  <1> QED
    BY <1>5, <1>14, <1>15, <1>16, <1>17

(* Destroying the buckets leaves nothing, and releases every value.        *)
LEMMA DestroyBucketsEmpties ==
  ASSUME TypeOK, Sorted, DestroyBuckets
  PROVE  /\ items' \in [Buckets -> Seq(Entries(1 .. made'))]
         /\ count' \in [Buckets -> Nat]
         /\ nodes' \in Int
         /\ Sorted'
         /\ Contents' = {}
         /\ Owned => live' = {}
  <1> DEFINE full == {b \in Buckets : count[b] > 0}
  <1>1. /\ items' = [b \in Buckets |-> <<>>]
        /\ count' = [b \in Buckets |-> 0]
        /\ live' = live \ UNION {ValuesIn(b) : b \in full}
        /\ nodes' = nodes - Cardinality(UNION {{b} \X DOMAIN items[b] : b \in full})
    BY Zenon DEF DestroyBuckets
  <1>2. \A b \in Buckets : items'[b] = <<>> /\ count'[b] = 0
    BY <1>1, Zenon
  <1>3. \A b \in Buckets : Elements(items'[b]) = {} /\ Ascends(items'[b]) /\ Len(items'[b]) = 0
    BY <1>2 DEF Elements, Ascends
  <1>4. Sorted'
    <2>1. \A b \in Buckets : /\ count'[b] = Len(items'[b])
                             /\ \A e \in Elements(items'[b]) : BucketOf(e.key) = b
                             /\ Ascends(items'[b])
      BY <1>2, <1>3
    <2> QED
      BY <2>1, Zenon DEF Sorted, Elements, Ascends
  <1>5. Contents' = {}
    <2>1. Contents' = UNION {Elements(items'[b]) : b \in Buckets}
      BY Zenon DEF Contents, Elements
    <2> QED
      BY <1>3, <2>1
  <1>6. items' \in [Buckets -> Seq(Entries(1 .. made'))]
    <2>1. <<>> \in Seq(Entries(1 .. made'))
      BY EmptySeq
    <2> QED
      BY <1>1, <2>1, Zenon
  <1>7. count' \in [Buckets -> Nat]
    BY <1>1
  <1>8. nodes' \in Int
    <2>1. IsFiniteSet(Buckets)
      BY FS_Interval, HashAssumption DEF Buckets
    <2>2. \A b \in Buckets : IsFiniteSet({b} \X DOMAIN items[b])
      <3> TAKE b \in Buckets
      <3>1. IsFiniteSet(DOMAIN items[b])
        <4>1. DOMAIN items[b] = 1 .. Len(items[b]) /\ Len(items[b]) \in Nat
          BY TypeFacts, LenProperties
        <4> QED
          BY <4>1, FS_Interval
      <3>2. IsFiniteSet({b})
        BY FS_Singleton
      <3> QED
        BY <3>1, <3>2, FS_Product
    <2>3. IsFiniteSet(UNION {{b} \X DOMAIN items[b] : b \in full})
      <3>1. \A b \in full : b \in Buckets
        OBVIOUS
      <3> HIDE DEF full
      <3> DEFINE Row == [b \in full |-> {b} \X DOMAIN items[b]]
      <3>2. IsFiniteSet(full)
        <4>1. full \in SUBSET Buckets
          BY <3>1
        <4> QED
          BY <2>1, <4>1, FS_Subset
      <3>3. Row \in Surjection(full, {{b} \X DOMAIN items[b] : b \in full})
        BY Zenon DEF Surjection
      <3>4. IsFiniteSet({{b} \X DOMAIN items[b] : b \in full})
        BY <3>2, <3>3, FS_Surjection
      <3>5. \A T \in {{b} \X DOMAIN items[b] : b \in full} : IsFiniteSet(T)
        BY <2>2, <3>1, Zenon
      <3> QED
        BY <3>4, <3>5, FS_UNION
    <2>4. Cardinality(UNION {{b} \X DOMAIN items[b] : b \in full}) \in Nat
      BY <2>3, FS_CardinalityType
    <2>5. nodes \in Int
      BY DEF TypeOK
    <2> HIDE DEF full
    <2> QED
      BY <1>1, <2>4, <2>5
  <1>9. ASSUME Owned
        PROVE  live' = {}
    <2>1. ASSUME NEW v \in live
          PROVE  v \in UNION {ValuesIn(b) : b \in full}
      <3>1. PICK e \in Contents : v = e.value
        BY <1>9, <2>1 DEF Owned
      <3>2. PICK b \in Buckets : e \in Elements(items[b])
        BY DEF Contents
      <3>3. PICK i \in DOMAIN items[b] : e = items[b][i]
        BY <3>2 DEF Elements
      <3>4. v \in ValuesIn(b)
        BY <3>1, <3>3 DEF ValuesIn
      <3>5. count[b] > 0
        <4>1. DOMAIN items[b] = 1 .. Len(items[b]) /\ Len(items[b]) \in Nat
          BY TypeFacts, LenProperties
        <4>2. count[b] = Len(items[b])
          BY DEF Sorted
        <4> QED
          BY <3>3, <4>1, <4>2
      <3> QED
        BY <3>4, <3>5
    <2> HIDE DEF full
    <2> QED
      BY <1>1, <2>1
  <1> QED
    BY <1>4, <1>5, <1>6, <1>7, <1>8, <1>9
-----------------------------------------------------------------------------
(* Every step keeps the invariant                                          *)

(* What a step can make of the table.                                      *)
Effect ==
  \/ UNCHANGED table
  \/ \E key \in Keys : MakeItem(key) \/ DeleteItem(key)
  \/ DestroyBuckets

TableTyped ==
  /\ items \in [Buckets -> Seq([key : Keys, value : 1 .. made])]
  /\ count \in [Buckets -> Nat]
  /\ nodes \in Int
  /\ made \in Nat
  /\ live \subseteq 1 .. made

LEMMA EffectTyped ==
  ASSUME IInv, Effect
  PROVE  TableTyped' /\ Sorted' /\ Owned'
  <1>1. /\ nodes \in Int /\ made \in Nat /\ live \subseteq 1 .. made
        /\ TypeOK /\ Sorted /\ Owned
    BY DEF IInv, TypeOK
  <1>2. \A e \in Contents : e.value \in 1 .. made
    BY <1>1, ContentsTyped
  <1>3. CASE UNCHANGED table
    <2>1. TableTyped'
      BY <1>1, <1>3, Zenon DEF TypeOK, TableTyped, table
    <2> QED
      BY <1>1, <1>3, <2>1, UntouchedKeeps
  <1>4. ASSUME NEW key \in Keys, MakeItem(key)
        PROVE  TableTyped' /\ Sorted' /\ Owned'
    <2> DEFINE item == [key |-> key, value |-> made + 1]
    <2>1. /\ items' \in [Buckets -> Seq(Entries(1 .. made'))]
          /\ count' \in [Buckets -> Nat]
          /\ Sorted'
          /\ Contents' = Contents \cup {item}
      BY <1>1, <1>4, MakeItemAdds
    <2>2. nodes' = nodes + 1 /\ made' = made + 1 /\ live' = live \cup {made + 1}
      BY <1>4, Zenon DEF MakeItem
    <2>3. item.value = made + 1
      OBVIOUS
    <2> HIDE DEF item
    <2>4. TableTyped'
      <3>1. nodes' \in Int /\ made' \in Nat /\ live' \subseteq 1 .. made'
        BY <1>1, <2>2
      <3> QED
        BY <2>1, <3>1, Zenon DEF TableTyped, Entries
    <2>5. \A e \in Contents : e.value # made + 1
      BY <1>1, <1>2
    <2>6. Owned'
      <3>1. live' = {e.value : e \in Contents'}
        <4>1. live = {e.value : e \in Contents}
          BY <1>1 DEF Owned
        <4> QED
          BY <2>1, <2>2, <2>3, <4>1
      <3>2. \A e, f \in Contents' : e.value = f.value => e = f
        <4>1. \A e, f \in Contents : e.value = f.value => e = f
          BY <1>1 DEF Owned
        <4> QED
          BY <2>1, <2>3, <2>5, <4>1
      <3> QED
        BY <3>1, <3>2, Zenon DEF Owned
    <2> QED
      BY <2>1, <2>4, <2>6
  <1>5. ASSUME NEW key \in Keys, DeleteItem(key)
        PROVE  TableTyped' /\ Sorted' /\ Owned'
    <2>1. /\ items' \in [Buckets -> Seq(Entries(1 .. made'))]
          /\ count' \in [Buckets -> Nat]
          /\ Sorted'
          /\ Contents' = {e \in Contents : e.key # key}
      BY <1>1, <1>5, DeleteItemRemoves
    <2>2. PICK gone \in Contents : gone.key = key /\ live' = live \ {gone.value}
      BY <1>1, <1>5, DeleteItemRemoves
    <2>3. nodes' = nodes /\ made' = made
      BY <1>5, Zenon DEF DeleteItem
    <2>4. TableTyped'
      <3>1. nodes' \in Int /\ made' \in Nat /\ live' \subseteq 1 .. made'
        BY <1>1, <2>2, <2>3
      <3> QED
        BY <2>1, <3>1, Zenon DEF TableTyped, Entries
    <2>5. \A e \in Contents : e.key = key <=> e = gone
      <3>1. \A e \in Contents : e.key = key => e = gone
        BY <1>1, <1>5, <2>2, HitOrMiss
      <3> QED
        BY <2>2, <3>1
    <2>6. Owned'
      <3>1. live = {e.value : e \in Contents} /\ \A e, f \in Contents : e.value = f.value => e = f
        BY <1>1 DEF Owned
      <3>2. live' = {e.value : e \in Contents'}
        BY <2>1, <2>2, <2>5, <3>1
      <3>3. \A e, f \in Contents' : e.value = f.value => e = f
        BY <2>1, <3>1
      <3> QED
        BY <3>2, <3>3, Zenon DEF Owned
    <2> QED
      BY <2>1, <2>4, <2>6
  <1>6. CASE DestroyBuckets
    <2>1. /\ items' \in [Buckets -> Seq(Entries(1 .. made'))]
          /\ count' \in [Buckets -> Nat]
          /\ nodes' \in Int
          /\ Sorted'
          /\ Contents' = {}
          /\ live' = {}
      BY <1>1, <1>6, DestroyBucketsEmpties
    <2>2. made' = made
      BY <1>6, Zenon DEF DestroyBuckets
    <2>3. Owned'
      <3>1. live' = {e.value : e \in Contents'} /\ \A e, f \in Contents' : e.value = f.value => e = f
        BY <2>1
      <3> QED
        BY <3>1, Zenon DEF Owned
    <2>4. live' \subseteq 1 .. made' /\ made' \in Nat
      BY <1>1, <2>1, <2>2
    <2>5. TableTyped'
      BY <2>1, <2>4, Zenon DEF TableTyped, Entries
    <2> QED
      BY <2>1, <2>3, <2>5
  <1> QED
    BY <1>3, <1>4, <1>5, <1>6, Zenon DEF Effect

LEMMA NextHasEffect ==
  ASSUME IInv, Next
  PROVE  Effect
  <1>1. ASSUME NEW key \in Keys, HRINDEX(key) \/ HRKEYEX(key) \/ HRKEYDEL(key)
        PROVE  Effect
    BY <1>1, Zenon DEF HRINDEX, HRKEYEX, HRKEYDEL, FindItem, GoesWild, Effect
  <1>2. ASSUME NEW keys \in KeyLists, HRSLICE(keys) \/ HRFILL(keys)
        PROVE  Effect
    BY <1>2, Zenon DEF HRSLICE, HRFILL, Effect
  <1>3. CASE NextKey
    <2>1. todo # <<>> => Head(todo) \in Keys
      <3>1. todo \in Seq(Keys)
        BY DEF IInv, TypeOK
      <3> QED
        BY <3>1, HeadTailProperties
    <2> QED
      BY <1>3, <2>1, Zenon DEF NextKey, FindItem, GoesWild, Effect
  <1>4. CASE HRFILLOne
    BY <1>4, Zenon DEF HRFILLOne, GoesWild, Effect
  <1>5. CASE HRLEN
    BY <1>5, Zenon DEF HRLEN, Effect
  <1>6. CASE HRLISTK \/ HRLISTV \/ HRLISTP
    BY <1>6, Zenon DEF HRLISTK, HRLISTV, HRLISTP, Lists, GoesWild, Effect
  <1>7. CASE Destroy
    BY <1>7, Zenon DEF Destroy, Effect
  <1> QED
    BY <1>1, <1>2, <1>3, <1>4, <1>5, <1>6, <1>7, Zenon DEF Next

Controlled ==
  /\ todo \in Seq(Keys)
  /\ pushing \in BOOLEAN
  /\ status \in {"ok", "wild", "destroyed"}

LEMMA NextControlled ==
  ASSUME IInv, Next
  PROVE  Controlled'
  <1>0. Controlled
    BY DEF IInv, TypeOK, Controlled
  <1>1. CASE UNCHANGED <<todo, pushing, status>>
    BY <1>0, <1>1, Zenon DEF Controlled
  <1>2. CASE GoesWild
    BY <1>0, <1>2, Zenon DEF GoesWild, Controlled
  <1>3. ASSUME NEW keys \in KeyLists, HRSLICE(keys) \/ HRFILL(keys)
        PROVE  Controlled'
    <2>1. keys \in Seq(Keys)
      BY HashAssumption
    <2>2. todo' = keys /\ pushing' \in BOOLEAN /\ status' = status
      BY <1>3, Zenon DEF HRSLICE, HRFILL
    <2> QED
      BY <1>0, <2>1, <2>2, Zenon DEF Controlled
  <1>4. ASSUME todo # <<>>, todo' = Tail(todo), UNCHANGED <<pushing, status>>
        PROVE  Controlled'
    <2>1. todo' \in Seq(Keys)
      <3>1. todo \in Seq(Keys)
        BY <1>0, Zenon DEF Controlled
      <3> QED
        BY <1>4, <3>1, HeadTailProperties
    <2> QED
      BY <1>0, <1>4, <2>1, Zenon DEF Controlled
  <1>5. CASE status' = "destroyed" /\ UNCHANGED <<todo, pushing>>
    BY <1>0, <1>5, Zenon DEF Controlled
  <1>6. \/ UNCHANGED <<todo, pushing, status>>
        \/ GoesWild
        \/ \E keys \in KeyLists : HRSLICE(keys) \/ HRFILL(keys)
        \/ todo # <<>> /\ todo' = Tail(todo) /\ UNCHANGED <<pushing, status>>
        \/ status' = "destroyed" /\ UNCHANGED <<todo, pushing>>
    <2>1. ASSUME NEW key \in Keys, HRINDEX(key) \/ HRKEYEX(key) \/ HRKEYDEL(key)
          PROVE  UNCHANGED <<todo, pushing, status>> \/ GoesWild
      BY <2>1, Zenon DEF HRINDEX, HRKEYEX, HRKEYDEL
    <2>2. CASE NextKey
      BY <2>2, Zenon DEF NextKey
    <2>3. CASE HRFILLOne
      BY <2>3, Zenon DEF HRFILLOne
    <2>4. CASE HRLEN
      BY <2>4, Zenon DEF HRLEN
    <2>5. CASE HRLISTK \/ HRLISTV \/ HRLISTP
      BY <2>5, Zenon DEF HRLISTK, HRLISTV, HRLISTP, Lists
    <2>6. CASE Destroy
      BY <2>6, Zenon DEF Destroy
    <2> QED
      BY <2>1, <2>2, <2>3, <2>4, <2>5, <2>6, Zenon DEF Next
  <1> QED
    BY <1>1, <1>2, <1>3, <1>4, <1>5, <1>6, Zenon

LEMMA NextIInv == IInv /\ [Next]_vars => IInv'
  <1>1. ASSUME IInv, Next
        PROVE  IInv'
    <2>1. TableTyped' /\ Sorted' /\ Owned' /\ Controlled'
      BY <1>1, EffectTyped, NextHasEffect, NextControlled
    <2> QED
      BY <2>1, Zenon DEF IInv, TypeOK, TableTyped, Controlled
  <1>2. ASSUME IInv, UNCHANGED vars
        PROVE  IInv'
    <2>1. UNCHANGED table /\ UNCHANGED <<todo, pushing, status>>
      BY <1>2, Zenon DEF vars, table
    <2>2. Sorted' /\ Owned'
      BY <1>2, <2>1, UntouchedKeeps DEF IInv
    <2>3. TypeOK'
      BY <1>2, <2>1, Zenon DEF IInv, TypeOK, table
    <2> QED
      BY <2>2, <2>3 DEF IInv
  <1> QED
    BY <1>1, <1>2

LEMMA InitIInv == Init => IInv
  <1> SUFFICES ASSUME Init
               PROVE  IInv
    OBVIOUS
  <1>1. /\ items = [b \in Buckets |-> <<>>] /\ count = [b \in Buckets |-> 0]
        /\ nodes = 0 /\ made = 0 /\ live = {} /\ todo = <<>> /\ pushing = FALSE /\ status = "ok"
    BY Zenon DEF Init
  <1>2. \A b \in Buckets : Elements(items[b]) = {} /\ Ascends(items[b]) /\ Len(items[b]) = 0 /\ count[b] = 0
    BY <1>1 DEF Elements, Ascends
  <1>3. Sorted
    BY <1>2 DEF Sorted
  <1>4. Contents = {}
    BY <1>2 DEF Contents
  <1>5. Owned
    BY <1>1, <1>4 DEF Owned
  <1>6. TypeOK
    <2>1. items \in [Buckets -> Seq([key : Keys, value : 1 .. made])]
      <3>1. <<>> \in Seq([key : Keys, value : 1 .. made])
        BY EmptySeq
      <3> QED
        BY <1>1, <3>1, Zenon
    <2>2. count \in [Buckets -> Nat] /\ nodes \in Int /\ made \in Nat /\ live \subseteq 1 .. made
      BY <1>1
    <2>3. todo \in Seq(Keys)
      BY <1>1, EmptySeq
    <2> QED
      BY <1>1, <2>1, <2>2, <2>3, Zenon DEF TypeOK
  <1> QED
    BY <1>3, <1>5, <1>6 DEF IInv

LEMMA IInvImplies == IInv => BucketsSound /\ HoldsItsValues
  <1> SUFFICES ASSUME IInv
               PROVE  BucketsSound /\ HoldsItsValues
    OBVIOUS
  <1>1. TypeOK /\ Sorted /\ Owned
    BY DEF IInv
  <1>2. BucketsSound
    <2>1. \A b \in Buckets : \A i \in DOMAIN items[b] : items[b][i] \in Elements(items[b])
      BY DEF Elements
    <2> QED
      BY <1>1, <2>1, Zenon DEF BucketsSound, Sorted, Ascends
  <1>3. live = UNION {ValuesIn(b) : b \in Buckets}
    <2>1. ASSUME NEW v
          PROVE  v \in live <=> \E b \in Buckets : \E i \in DOMAIN items[b] : v = items[b][i].value
      <3>1. v \in live <=> \E e \in Contents : v = e.value
        BY <1>1 DEF Owned
      <3>2. ASSUME NEW b \in Buckets, NEW i \in DOMAIN items[b]
            PROVE  items[b][i] \in Contents
        BY DEF Contents, Elements
      <3>3. ASSUME NEW e \in Contents
            PROVE  \E b \in Buckets : \E i \in DOMAIN items[b] : e = items[b][i]
        BY DEF Contents, Elements
      <3> QED
        BY <3>1, <3>2, <3>3
    <2>2. ASSUME NEW v
          PROVE  v \in UNION {ValuesIn(b) : b \in Buckets}
                   <=> \E b \in Buckets : \E i \in DOMAIN items[b] : v = items[b][i].value
      BY DEF ValuesIn
    <2> QED
      BY <2>1, <2>2
  <1>4. ASSUME NEW b \in Buckets, NEW c \in Buckets, NEW i \in DOMAIN items[b], NEW j \in DOMAIN items[c],
               items[b][i].value = items[c][j].value
        PROVE  b = c /\ i = j
    <2>1. items[b][i] \in Elements(items[b]) /\ items[c][j] \in Elements(items[c])
      BY Zenon DEF Elements
    <2>2. items[b][i] = items[c][j]
      BY <1>1, <1>4, <2>1, ZenonT(60) DEF Owned, Contents
    <2>3. b = c
      BY <1>1, <2>1, <2>2, Zenon DEF Sorted
    <2>4. i = j
      <3>1. /\ DOMAIN items[b] = 1 .. Len(items[b]) /\ Len(items[b]) \in Nat
            /\ items[b][i].key \in Nat
        BY <1>1, TypeFacts, ListAt
      <3>2. ~ (i < j) /\ ~ (j < i)
        BY <1>1, <2>2, <2>3, <3>1 DEF Sorted, Ascends
      <3> QED
        BY <2>3, <3>1, <3>2
    <2> QED
      BY <2>3, <2>4
  <1> QED
    BY <1>2, <1>3, <1>4, Zenon DEF HoldsItsValues

LEMMA IInvHolds == Spec => []IInv
  <1>1. Init => IInv
    BY InitIInv
  <1>2. IInv /\ [Next]_vars => IInv'
    BY NextIInv
  <1> QED
    BY <1>1, <1>2, PTL DEF Spec

(* However keys collide, each bucket keeps its own keys in ascending order *)
(* and counts them, so that a search may stop early and destruction skip a *)
(* bucket (_hash_key_item_unlocked, _hash_key_delete_unlocked).            *)
THEOREM BucketsStaySound == Spec => []BucketsSound
  <1>1. IInv => BucketsSound
    BY IInvImplies
  <1> QED
    BY <1>1, IInvHolds, PTL

(* The hash has one reference to each value in it, and none to any other,  *)
(* through deletion, filling anew and destruction (_hash_item_destroy).    *)
THEOREM ValuesAreOwned == Spec => []HoldsItsValues
  <1>1. IInv => HoldsItsValues
    BY IInvImplies
  <1> QED
    BY <1>1, IInvHolds, PTL
-----------------------------------------------------------------------------
(* The map that the contents are                                           *)

TheMap == [key \in KeysIn |-> ValueAt(key)]

(* The map has the keys and the values of the contents.                    *)
LEMMA MapOfContents ==
  IInv => /\ KeysIn = {e.key : e \in Contents}
          /\ \A e \in Contents : TheMap[e.key] = e.value
          /\ DOMAIN TheMap = KeysIn
          /\ TheMap = [key \in KeysIn |-> TheMap[key]]
  <1> SUFFICES ASSUME IInv
               PROVE  /\ KeysIn = {e.key : e \in Contents}
                      /\ \A e \in Contents : TheMap[e.key] = e.value
                      /\ DOMAIN TheMap = KeysIn
                      /\ TheMap = [key \in KeysIn |-> TheMap[key]]
    OBVIOUS
  <1>1. TypeOK /\ Sorted
    BY DEF IInv
  <1>2. ASSUME NEW b \in Buckets, NEW i \in DOMAIN items[b]
        PROVE  items[b][i] \in Contents /\ items[b][i].key \in KeysIn
    BY DEF Contents, Elements, KeysIn
  <1>3. ASSUME NEW e \in Contents
        PROVE  \E b \in Buckets : \E i \in DOMAIN items[b] : e = items[b][i]
    BY DEF Contents, Elements
  <1>4. ASSUME NEW key \in KeysIn
        PROVE  \E b \in Buckets : \E i \in DOMAIN items[b] : key = items[b][i].key
    BY DEF KeysIn
  <1>5. KeysIn = {e.key : e \in Contents}
    BY <1>2, <1>3, <1>4
  <1>6. ASSUME NEW e \in Contents
        PROVE  TheMap[e.key] = e.value
    <2> DEFINE list == items[BucketOf(e.key)]
               n == CHOOSE n \in DOMAIN list : list[n].key = e.key
    <2>1. PICK b \in Buckets : \E i \in DOMAIN items[b] : e = items[b][i]
      BY <1>3
    <2>2. PICK i \in DOMAIN items[b] : e = items[b][i]
      BY <2>1
    <2>3. b = BucketOf(e.key)
      BY <1>1, <2>2, SMTT(30) DEF Sorted, Elements
    <2>4. i \in DOMAIN list /\ list[i].key = e.key
      BY <2>2, <2>3
    <2>5. n \in DOMAIN list /\ list[n].key = e.key
      BY <2>4
    <2>6. list[n] \in Contents
      BY <1>2, <2>3, <2>5
    <2>7. e.key \in Keys
      BY <1>1, ContentsTyped
    <2> HIDE DEF n
    <2>8. \E f : \A g \in Contents : g.key = e.key => g = f
      BY <1>1, <2>7, HitOrMiss, Zenon
    <2>9. list[n] = e
      BY <2>5, <2>6, <2>8
    <2>10. ValueAt(e.key) = e.value
      BY <2>9, Zenon DEF ValueAt, n
    <2>11. e.key \in KeysIn
      BY <1>5
    <2> QED
      BY <2>10, <2>11, Zenon DEF TheMap
  <1> QED
    BY <1>5, <1>6, Zenon DEF TheMap

LEMMA MapOfContentsNext ==
  IInv' => /\ KeysIn' = {e.key : e \in Contents'}
           /\ \A e \in Contents' : TheMap'[e.key] = e.value
           /\ DOMAIN TheMap' = KeysIn'
           /\ TheMap' = [key \in KeysIn' |-> TheMap'[key]]
  <1>1. (IInv => /\ KeysIn = {e.key : e \in Contents}
                 /\ \A e \in Contents : TheMap[e.key] = e.value
                 /\ DOMAIN TheMap = KeysIn
                 /\ TheMap = [key \in KeysIn |-> TheMap[key]])'
    BY MapOfContents, PTL
  <1> QED
    BY <1>1

(* The map follows the contents.                                           *)
LEMMA MapFollows ==
  ASSUME IInv, IInv'
  PROVE  /\ Contents' = Contents => TheMap' = TheMap
         /\ \A key : \A value :
              /\ key \notin KeysIn
              /\ Contents' = Contents \cup {[key |-> key, value |-> value]}
              => TheMap' = [k \in DOMAIN TheMap \cup {key} |-> IF k = key THEN value ELSE TheMap[k]]
         /\ \A key : Contents' = {e \in Contents : e.key # key}
              => TheMap' = [k \in DOMAIN TheMap \ {key} |-> TheMap[k]]
         /\ Contents' = {} => TheMap' = Map!Empty
  <1> DEFINE C == Contents
             D == Contents'
             M == TheMap
             N == TheMap'
  <1>1. /\ DOMAIN M = {e.key : e \in C} /\ \A e \in C : M[e.key] = e.value
        /\ M = [key \in DOMAIN M |-> M[key]] /\ KeysIn = DOMAIN M
    BY MapOfContents, Zenon
  <1>2. /\ DOMAIN N = {e.key : e \in D} /\ \A e \in D : N[e.key] = e.value
        /\ N = [key \in DOMAIN N |-> N[key]]
    BY MapOfContentsNext, Zenon
  <1> HIDE DEF C, D, M, N
  <1>3. D = C => N = M
    <2> HAVE D = C
    <2>1. DOMAIN N = DOMAIN M
      BY <1>1, <1>2
    <2>2. \A k \in DOMAIN M : N[k] = M[k]
      BY <1>1, <1>2
    <2> QED
      BY <1>1, <1>2, <2>1, <2>2
  <1>4. ASSUME NEW key, NEW value, key \notin KeysIn,
               D = C \cup {[key |-> key, value |-> value]}
        PROVE  N = [k \in DOMAIN M \cup {key} |-> IF k = key THEN value ELSE M[k]]
    <2> DEFINE item == [key |-> key, value |-> value]
    <2>1. item.key = key /\ item.value = value
      OBVIOUS
    <2>2. D = C \cup {item}
      BY <1>4
    <2> HIDE DEF item
    <2>3. DOMAIN N = DOMAIN M \cup {key}
      BY <1>1, <1>2, <2>1, <2>2
    <2>4. N[key] = value
      BY <1>2, <2>1, <2>2
    <2>5. \A k \in DOMAIN M : k # key /\ N[k] = M[k]
      BY <1>1, <1>2, <1>4, <2>2
    <2> QED
      BY <1>2, <2>3, <2>4, <2>5
  <1>5. ASSUME NEW key, D = {e \in C : e.key # key}
        PROVE  N = [k \in DOMAIN M \ {key} |-> M[k]]
    <2>1. DOMAIN N = DOMAIN M \ {key}
      BY <1>1, <1>2, <1>5
    <2>2. \A k \in DOMAIN N : N[k] = M[k]
      BY <1>1, <1>2, <1>5
    <2> QED
      BY <1>2, <2>1, <2>2
  <1>6. D = {} => N = Map!Empty
    <2> HAVE D = {}
    <2>1. DOMAIN N = {}
      BY <1>2
    <2>2. N = [key \in {} |-> N[key]]
      BY <1>2, <2>1
    <2> QED
      BY <2>2 DEF Map!Empty
  <1>7. \A key : \A value :
          key \notin KeysIn /\ D = C \cup {[key |-> key, value |-> value]}
          => N = [k \in DOMAIN M \cup {key} |-> IF k = key THEN value ELSE M[k]]
    BY <1>4, Zenon
  <1>8. \A key : D = {e \in C : e.key # key} => N = [k \in DOMAIN M \ {key} |-> M[k]]
    BY <1>5, Zenon
  <1> QED
    BY <1>3, <1>6, <1>7, <1>8, Zenon DEF C, D, M, N

-----------------------------------------------------------------------------
(* Steps of the map                                                        *)

(* The search finds what the map holds.                                    *)
LEMMA Lookup ==
  ASSUME IInv, NEW key \in Keys
  PROVE  /\ Hit(items[BucketOf(key)], key) <=> key \in DOMAIN TheMap
         /\ Exists(key) <=> key \in DOMAIN TheMap
         /\ ValueOf(key) = IF key \in DOMAIN TheMap THEN TheMap[key] ELSE made + 1
  <1> DEFINE list == items[BucketOf(key)]
             p == Passed(list, key)
  <1>1. TypeOK /\ Sorted /\ BucketOf(key) \in Buckets
    BY BucketOfKey DEF IInv
  <1>2. /\ DOMAIN TheMap = {e.key : e \in Contents}
        /\ \A e \in Contents : TheMap[e.key] = e.value
    BY MapOfContents, Zenon
  <1>3. Hit(list, key) => list[p + 1] \in Contents /\ list[p + 1].key = key /\ p + 1 \in 1 .. Len(list)
    BY <1>1, HitOrMiss, Zenon
  <1>4. ~ Hit(list, key) => \A e \in Contents : e.key # key
    BY <1>1, HitOrMiss, Zenon
  <1>5. Hit(list, key) <=> key \in DOMAIN TheMap
    <2> HIDE DEF list, p
    <2> QED
      BY <1>2, <1>3, <1>4
  <1>6. Hit(list, key) => count[BucketOf(key)] > 0
    <2>1. count[BucketOf(key)] = Len(list) /\ Len(list) \in Nat
      <3>1. list \in Seq(Entries(1 .. made))
        BY <1>1, TypeFacts
      <3> QED
        BY <1>1, <3>1, LenProperties DEF Sorted
    <2> HIDE DEF list, p
    <2> QED
      BY <1>3, <2>1
  <1>7. ValueOf(key) = IF Hit(list, key) THEN list[p + 1].value ELSE made + 1
    BY Zenon DEF ValueOf
  <1>8. Exists(key) <=> count[BucketOf(key)] > 0 /\ Hit(list, key)
    BY Zenon DEF Exists
  <1> HIDE DEF list, p
  <1>9. Hit(list, key) => TheMap[key] = list[p + 1].value
    BY <1>2, <1>3
  <1> QED
    BY <1>5, <1>6, <1>7, <1>8, <1>9 DEF list

(* A key added to the contents is a key added to the map.                  *)
LEMMA MapGains ==
  ASSUME IInv, IInv', NEW new, NEW number, new \notin KeysIn,
         Contents' = Contents \cup {[key |-> new, value |-> number]}
  PROVE  TheMap' = [k \in DOMAIN TheMap \cup {new} |-> IF k = new THEN number ELSE TheMap[k]]
  <1>1. \A key : \A value :
          key \notin KeysIn /\ Contents' = Contents \cup {[key |-> key, value |-> value]}
          => TheMap' = [k \in DOMAIN TheMap \cup {key} |-> IF k = key THEN value ELSE TheMap[k]]
    BY MapFollows
  <1> QED
    BY <1>1, Zenon

(* Looking a key up, which makes it a value if it has none.                *)
LEMMA LookupStep ==
  ASSUME IInv, IInv', NEW key \in Keys, FindItem(key) \/ MakeItem(key)
  PROVE  Map!Require(key) /\ ValueOf(key) = Map!ValueOf(key)
  <1>1. TypeOK /\ Sorted
    BY DEF IInv
  <1>2. PICK M, new : M = TheMap /\ new = [k \in DOMAIN M \cup {key} |-> IF k \in DOMAIN M THEN M[k] ELSE made + 1]
    OBVIOUS
  <1>3. M = [k \in DOMAIN M |-> M[k]] /\ KeysIn = DOMAIN M
    BY <1>2, MapOfContents
  <1>4. ValueOf(key) = Map!ValueOf(key)
    BY Lookup, Zenon DEF Map!ValueOf, TheMap
  <1>5. TheMap' = new /\ made' = IF key \in DOMAIN M THEN made ELSE made + 1
    <2>1. CASE FindItem(key)
      <3>1. Hit(items[BucketOf(key)], key) /\ UNCHANGED table
        BY <2>1, Zenon DEF FindItem
      <3>2. Contents' = Contents /\ made' = made
        BY <1>1, <3>1, UntouchedKeeps DEF table
      <3>3. key \in DOMAIN M /\ TheMap' = M
        BY <1>2, <3>1, <3>2, Lookup, MapFollows
      <3>4. DOMAIN M \cup {key} = DOMAIN M
        BY <3>3
      <3>5. new = M
        BY <1>2, <1>3, <3>4
      <3> QED
        BY <3>2, <3>3, <3>5
    <2>2. CASE MakeItem(key)
      <3>1. /\ Contents' = Contents \cup {[key |-> key, value |-> made + 1]}
            /\ \A e \in Contents : e.key # key
        BY <1>1, <2>2, MakeItemAdds
      <3>2. key \notin KeysIn
        BY <3>1, MapOfContents
      <3>3. TheMap' = [k \in DOMAIN M \cup {key} |-> IF k = key THEN made + 1 ELSE M[k]]
        <4>1. TheMap' = [k \in DOMAIN TheMap \cup {key} |-> IF k = key THEN made + 1 ELSE TheMap[k]]
          <5>2. PICK v : v = made + 1
            OBVIOUS
          <5>3. Contents' = Contents \cup {[key |-> key, value |-> v]}
            BY <3>1, <5>2
          <5>4. TheMap' = [k \in DOMAIN TheMap \cup {key} |-> IF k = key THEN v ELSE TheMap[k]]
            BY <3>2, <5>3, MapGains, Zenon
          <5> QED
            BY <5>2, <5>4
        <4> QED
          BY <1>2, <4>1
      <3>4. \A k \in DOMAIN M \cup {key} :
              (IF k = key THEN made + 1 ELSE M[k]) = IF k \in DOMAIN M THEN M[k] ELSE made + 1
        BY <1>3, <3>2
      <3>5. TheMap' = new
        BY <1>2, <3>3, <3>4
      <3>6. made' = made + 1
        BY <2>2, Zenon DEF MakeItem
      <3> QED
        BY <1>3, <3>2, <3>5, <3>6
    <2> QED
      BY <2>1, <2>2
  <1> QED
    BY <1>2, <1>4, <1>5, Zenon DEF Map!Require, TheMap

LEMMA DeleteStep ==
  ASSUME IInv, IInv', NEW key \in Keys, HRKEYDEL(key)
  PROVE  Map!Delete(key)
  <1>1. TypeOK /\ Sorted
    BY DEF IInv
  <1>2. TheMap' = [k \in DOMAIN TheMap \ {key} |-> TheMap[k]] /\ made' = made
    <2>1. CASE DeleteItem(key)
      <3>1. Contents' = {e \in Contents : e.key # key}
        BY <1>1, <2>1, DeleteItemRemoves
      <3>2. made' = made
        BY <2>1, Zenon DEF DeleteItem
      <3> QED
        BY <3>1, <3>2, MapFollows
    <2>2. CASE ~ Exists(key) /\ UNCHANGED table
      <3>1. Contents' = Contents /\ made' = made
        BY <1>1, <2>2, UntouchedKeeps DEF table
      <3>2. TheMap' = TheMap /\ key \notin DOMAIN TheMap
        BY <2>2, <3>1, Lookup, MapFollows
      <3>3. DOMAIN TheMap \ {key} = DOMAIN TheMap /\ TheMap = [k \in DOMAIN TheMap |-> TheMap[k]]
        BY <3>2, MapOfContents
      <3> QED
        BY <3>1, <3>2, <3>3
    <2> QED
      BY <2>1, <2>2, Zenon DEF HRKEYDEL
  <1>3. result' = <<>>
    BY Zenon DEF HRKEYDEL
  <1> QED
    BY <1>2, <1>3, Zenon DEF Map!Delete, TheMap

LEMMA ClearStep ==
  ASSUME IInv, IInv', DestroyBuckets
  PROVE  Map!Clear
  <1>1. TypeOK /\ Sorted
    BY DEF IInv
  <1>2. Contents' = {}
    BY <1>1, DestroyBucketsEmpties
  <1>3. TheMap' = Map!Empty
    BY <1>2, MapFollows
  <1>4. made' = made
    BY Zenon DEF DestroyBuckets
  <1> QED
    BY <1>3, <1>4, Zenon DEF Map!Clear, TheMap

(* Whatever leaves the table as it was.                                    *)
LEMMA TableKept ==
  ASSUME IInv, IInv', UNCHANGED table
  PROVE  TheMap' = TheMap /\ made' = made
  <1>1. Contents' = Contents /\ made' = made
    BY UntouchedKeeps DEF table, IInv
  <1> QED
    BY <1>1, MapFollows
-----------------------------------------------------------------------------
(* The size                                                                *)

(* The places in the buckets before the t-th.                              *)
Places(t) == UNION {{b} \X (1 .. count[b]) : b \in 0 .. t - 1}

LEMMA PlaceIn ==
  ASSUME NEW t, NEW b, NEW i
  PROVE  <<b, i>> \in Places(t) <=> b \in 0 .. t - 1 /\ i \in 1 .. count[b]
  BY DEF Places

LEMMA PlaceIs ==
  ASSUME NEW t, NEW p \in Places(t)
  PROVE  p = <<p[1], p[2]>> /\ p[1] \in 0 .. t - 1 /\ p[2] \in 1 .. count[p[1]]
  BY DEF Places

LEMMA PlacesCounted ==
  ASSUME TypeOK, NEW t \in 0 .. HASH_BUCKETS
  PROVE  /\ IsFiniteSet(Places(t)) /\ Cardinality(Places(t)) \in Nat
         /\ t < HASH_BUCKETS => Cardinality(Places(t + 1)) = Cardinality(Places(t)) + count[t]
  <1> DEFINE Row == [b \in Buckets |-> {b} \X (1 .. count[b])]
  <1>1. HASH_BUCKETS \in Nat \ {0} /\ \A b \in Buckets : count[b] \in Nat
    BY HashAssumption, TypeFacts
  <1>2. ASSUME NEW b \in Buckets
        PROVE  IsFiniteSet({b} \X (1 .. count[b])) /\ Cardinality({b} \X (1 .. count[b])) = count[b]
    <2>1. IsFiniteSet(1 .. count[b]) /\ Cardinality(1 .. count[b]) = count[b]
      <3>1. PICK c \in Nat : c = count[b]
        BY <1>1
      <3>2. IsFiniteSet(1 .. c) /\ Cardinality(1 .. c) = IF 1 > c THEN 0 ELSE c - 1 + 1
        BY FS_Interval
      <3>3. Cardinality(1 .. c) = c
        BY <3>2
      <3> QED
        BY <3>1, <3>2, <3>3
    <2>2. IsFiniteSet({b}) /\ Cardinality({b}) = 1
      BY FS_Singleton
    <2>3. /\ IsFiniteSet({b} \X (1 .. count[b]))
          /\ Cardinality({b} \X (1 .. count[b])) = Cardinality({b}) * Cardinality(1 .. count[b])
      BY <2>1, <2>2, FS_Product, Zenon
    <2>4. 1 * count[b] = count[b]
      BY <1>1
    <2> QED
      BY <2>1, <2>2, <2>3, <2>4, Zenon
  <1>3. ASSUME NEW s \in 0 .. HASH_BUCKETS
        PROVE  IsFiniteSet(Places(s)) /\ Cardinality(Places(s)) \in Nat
    <2> DEFINE I == 0 .. s - 1
               F == [b \in I |-> {b} \X (1 .. count[b])]
    <2>1. IsFiniteSet(I) /\ I \subseteq Buckets
      BY <1>1, FS_Interval DEF Buckets
    <2>2. F \in Surjection(I, {{b} \X (1 .. count[b]) : b \in I})
      BY Zenon DEF Surjection
    <2> HIDE DEF I
    <2>3. IsFiniteSet({{b} \X (1 .. count[b]) : b \in I})
      BY <2>1, <2>2, FS_Surjection
    <2>4. \A T \in {{b} \X (1 .. count[b]) : b \in I} : IsFiniteSet(T)
      BY <1>2, <2>1
    <2>5. IsFiniteSet(UNION {{b} \X (1 .. count[b]) : b \in I})
      BY <2>3, <2>4, FS_UNION
    <2>6. IsFiniteSet(Places(s))
      BY <2>5 DEF Places, I
    <2> QED
      BY <2>6, FS_CardinalityType
  <1>4. ASSUME t < HASH_BUCKETS
        PROVE  Cardinality(Places(t + 1)) = Cardinality(Places(t)) + count[t]
    <2> DEFINE row == {t} \X (1 .. count[t])
    <2>1. t \in Buckets
      BY <1>1, <1>4 DEF Buckets
    <2>2. Places(t + 1) = Places(t) \cup row
      <3>1. 0 .. (t + 1) - 1 = (0 .. t - 1) \cup {t}
        BY <1>1
      <3>2. UNION {{b} \X (1 .. count[b]) : b \in (0 .. t - 1) \cup {t}}
              = (UNION {{b} \X (1 .. count[b]) : b \in 0 .. t - 1}) \cup row
        <4> DEFINE J == 0 .. t - 1
                   G(b) == {b} \X (1 .. count[b])
        <4> HIDE DEF J, G
        <4>1. UNION {G(b) : b \in J \cup {t}} = (UNION {G(b) : b \in J}) \cup G(t)
          OBVIOUS
        <4> QED
          BY <4>1 DEF J, G
      <3> QED
        BY <3>1, <3>2 DEF Places
    <2>3. Places(t) \cap row = {}
      <3>1. \A p \in Places(t) : p[1] # t
        <4> TAKE p \in Places(t)
        <4>1. p[1] \in 0 .. t - 1
          BY PlaceIs
        <4> QED
          BY <1>1, <4>1
      <3>2. \A p \in row : p[1] = t
        OBVIOUS
      <3> QED
        BY <3>1, <3>2
    <2>4. IsFiniteSet(row) /\ Cardinality(row) = count[t] /\ count[t] \in Nat
      BY <1>1, <1>2, <2>1
    <2>5. IsFiniteSet(Places(t)) /\ Cardinality(Places(t)) \in Nat
      BY <1>3
    <2> HIDE DEF row
    <2>6. Cardinality(Places(t) \cup row) = Cardinality(Places(t)) + Cardinality(row) - Cardinality({})
      BY <2>3, <2>4, <2>5, FS_Union
    <2> QED
      BY <2>2, <2>4, <2>5, <2>6, FS_EmptySet
  <1> QED
    BY <1>3, <1>4

(* The size counts every place, and no part of them exceeds it.            *)
LEMMA SizeCounts ==
  ASSUME TypeOK
  PROVE  /\ hash_size = Cardinality(Places(HASH_BUCKETS)) /\ hash_size \in Nat
         /\ \A t \in 0 .. HASH_BUCKETS : Cardinality(Places(t)) <= hash_size
         /\ Cardinality(Places(0)) = 0
  <1>1. HASH_BUCKETS \in Nat \ {0} /\ HASH_BUCKETS \in 0 .. HASH_BUCKETS /\ 0 \in 0 .. HASH_BUCKETS
    BY HashAssumption
  <1>2. hash_size = Cardinality(Places(HASH_BUCKETS))
    BY Zenon DEF hash_size, Places, Buckets
  <1>3. IsFiniteSet(Places(HASH_BUCKETS)) /\ Cardinality(Places(HASH_BUCKETS)) \in Nat
    BY <1>1, PlacesCounted
  <1>4. ASSUME NEW t \in 0 .. HASH_BUCKETS
        PROVE  Cardinality(Places(t)) <= hash_size
    <2>1. Places(t) \in SUBSET Places(HASH_BUCKETS)
      <3> SUFFICES ASSUME NEW p \in Places(t)
                   PROVE  p \in Places(HASH_BUCKETS)
        OBVIOUS
      <3>1. p = <<p[1], p[2]>> /\ p[1] \in 0 .. t - 1 /\ p[2] \in 1 .. count[p[1]]
        BY PlaceIs
      <3>2. p[1] \in 0 .. HASH_BUCKETS - 1
        BY <1>1, <3>1
      <3>3. <<p[1], p[2]>> \in Places(HASH_BUCKETS)
        BY <3>1, <3>2, PlaceIn
      <3> QED
        BY <3>1, <3>3, Zenon
    <2> QED
      BY <1>2, <1>3, <2>1, FS_Subset
  <1>5. Places(0) = {}
    <2>1. 0 .. 0 - 1 = {}
      OBVIOUS
    <2> QED
      BY <2>1 DEF Places
  <1> QED
    BY <1>2, <1>3, <1>4, <1>5, FS_EmptySet

(* It is the number of keys.                                               *)
LEMMA SizeIsKeys ==
  ASSUME IInv
  PROVE  /\ hash_size = Cardinality(DOMAIN TheMap) /\ hash_size \in Nat
         /\ IsFiniteSet(DOMAIN TheMap)
  <1> DEFINE P == Places(HASH_BUCKETS)
             key(p) == items[p[1]][p[2]].key
             f == [p \in P |-> key(p)]
  <1>1. TypeOK /\ Sorted /\ DOMAIN TheMap = KeysIn
    BY MapOfContents, Zenon DEF IInv
  <1>2. hash_size = Cardinality(P) /\ hash_size \in Nat /\ IsFiniteSet(P)
    <2>1. HASH_BUCKETS \in 0 .. HASH_BUCKETS
      BY HashAssumption
    <2> QED
      BY <1>1, <2>1, SizeCounts, PlacesCounted
  <1>3. \A b \in Buckets : DOMAIN items[b] = 1 .. count[b] /\ count[b] = Len(items[b])
    <2> TAKE b \in Buckets
    <2>1. items[b] \in Seq(Entries(1 .. made)) /\ count[b] = Len(items[b])
      BY <1>1, TypeFacts DEF Sorted
    <2> QED
      BY <2>1, LenProperties
  <1>4. ASSUME NEW p \in P
        PROVE  p = <<p[1], p[2]>> /\ p[1] \in Buckets /\ p[2] \in DOMAIN items[p[1]]
    <2>1. p = <<p[1], p[2]>> /\ p[1] \in 0 .. HASH_BUCKETS - 1 /\ p[2] \in 1 .. count[p[1]]
      BY PlaceIs
    <2> QED
      BY <1>3, <2>1 DEF Buckets
  <1>5. ASSUME NEW b \in Buckets, NEW i \in DOMAIN items[b]
        PROVE  <<b, i>> \in P /\ items[b][i].key \in KeysIn
    <2>1. <<b, i>> \in P
      BY <1>3, PlaceIn DEF Buckets
    <2>2. items[b][i].key \in KeysIn
      BY DEF KeysIn
    <2> QED
      BY <2>1, <2>2
  <1>6. f \in [P -> KeysIn]
    BY <1>4, <1>5
  <1>7. ASSUME NEW p \in P, NEW q \in P, key(p) = key(q)
        PROVE  p = q
    <2> DEFINE b == p[1]
               i == p[2]
               c == q[1]
               j == q[2]
    <2>1. p = <<b, i>> /\ b \in Buckets /\ i \in DOMAIN items[b]
      BY <1>4
    <2>2. q = <<c, j>> /\ c \in Buckets /\ j \in DOMAIN items[c]
      BY <1>4
    <2>3. items[b][i].key = items[c][j].key
      BY <1>7
    <2> HIDE DEF b, i, c, j
    <2>4. b = c
      BY <1>1, <2>1, <2>2, <2>3 DEF Sorted, Elements
    <2>5. items[b] \in Seq(Entries(1 .. made)) /\ Ascends(items[b])
      BY <1>1, <2>1, TypeFacts DEF Sorted
    <2>6. items[b][i].key \in Nat /\ i \in Nat /\ j \in Nat
      <3>1. DOMAIN items[b] = 1 .. Len(items[b]) /\ Len(items[b]) \in Nat
        BY <2>5, ListAt
      <3>2. \A n \in 1 .. Len(items[b]) : items[b][n].key \in Nat
        BY <2>5, ListAt
      <3> QED
        BY <2>1, <2>2, <2>4, <3>1, <3>2
    <2>7. ~ (i < j) /\ ~ (j < i)
      BY <2>1, <2>2, <2>3, <2>4, <2>5, <2>6 DEF Ascends
    <2>8. i = j
      BY <2>6, <2>7
    <2> QED
      BY <2>1, <2>2, <2>4, <2>8
  <1>8. ASSUME NEW k \in KeysIn
        PROVE  \E p \in P : f[p] = k
    <2>1. PICK b \in Buckets : k \in {items[b][i].key : i \in DOMAIN items[b]}
      BY DEF KeysIn
    <2>2. PICK i \in DOMAIN items[b] : k = items[b][i].key
      BY <2>1
    <2>3. <<b, i>> \in P
      BY <1>5
    <2>4. f[<<b, i>>] = k
      BY <2>2, <2>3
    <2> QED
      BY <2>3, <2>4
  <1>9. f \in Bijection(P, KeysIn)
    <2>1. \A p, q \in P : f[p] = f[q] => p = q
      BY <1>7
    <2> HIDE DEF f, P
    <2>2. f \in Injection(P, KeysIn)
      BY <1>6, <2>1 DEF Injection, IsInjective
    <2>3. f \in Surjection(P, KeysIn)
      BY <1>6, <1>8, Zenon DEF Surjection
    <2> QED
      BY <2>2, <2>3 DEF Bijection
  <1>10. ExistsBijection(P, KeysIn)
    BY <1>9, Zenon DEF ExistsBijection
  <1>11. Cardinality(KeysIn) = Cardinality(P) /\ IsFiniteSet(KeysIn)
    BY <1>2, <1>10, FS_Bijection
  <1> QED
    BY <1>1, <1>2, <1>11
-----------------------------------------------------------------------------
(* The loops over the buckets                                              *)

(* A turn collects nothing, for one of three reasons, or the first n items *)
(* of its bucket, as many as the size leaves room for.                     *)
LEMMA TurnAdds ==
  ASSUME IInv, NEW found \in Seq(Entries(1 .. made)), NEW b \in Nat
  PROVE  LET then == OneTurn(found, b)
             n == Len(then) - Len(found)
         IN /\ then \in Seq(Entries(1 .. made))
            /\ \/ then = found /\ (Len(found) >= hash_size \/ b \notin Buckets \/ count[b] = 0)
               \/ /\ b \in Buckets /\ n \in 1 .. Len(items[b]) /\ Len(then) <= hash_size
                  /\ n = Len(items[b]) \/ Len(then) = hash_size
                  /\ \A i \in 1 .. Len(found) : then[i] = found[i]
                  /\ \A i \in 1 .. n : then[Len(found) + i] = items[b][i]
  <1> DEFINE then == OneTurn(found, b)
  <1>1. CASE Len(found) >= hash_size \/ b \notin Buckets \/ count[b] = 0
    <2>1. then = found
      BY <1>1, Zenon DEF OneTurn
    <2> QED
      BY <1>1, <2>1, Zenon
  <1>2. CASE ~ (Len(found) >= hash_size \/ b \notin Buckets \/ count[b] = 0)
    <2> DEFINE room == hash_size - Len(found)
               list == items[b]
               n == IF Len(list) < room THEN Len(list) ELSE room
               more == SubSeq(list, 1, n)
    <2>1. TypeOK /\ Sorted
      BY DEF IInv
    <2>2. hash_size \in Nat /\ Len(found) \in Nat /\ b \in Buckets
      BY <1>2, <2>1, SizeCounts, LenProperties
    <2>3. list \in Seq(Entries(1 .. made)) /\ Len(list) \in Nat /\ Len(list) > 0
      <3>1. list \in Seq(Entries(1 .. made)) /\ count[b] = Len(list)
        BY <2>1, <2>2, TypeFacts DEF Sorted
      <3> HIDE DEF list
      <3>2. Len(list) \in Nat
        BY <3>1, LenProperties
      <3> QED
        BY <1>2, <3>1, <3>2
    <2>4. then = found \o more
      BY <1>2, Zenon DEF OneTurn, UpTo
    <2>5. room \in Nat \ {0}
      BY <1>2, <2>2
    <2> HIDE DEF room, list, then
    <2>6. n \in Nat \ {0} /\ n <= Len(list) /\ n <= room /\ (n = Len(list) \/ n = room)
      BY <2>3, <2>5
    <2> HIDE DEF n
    <2>7. /\ more \in Seq(Entries(1 .. made)) /\ Len(more) = n
          /\ \A i \in 1 .. n : more[i] = list[i]
      <3>1. /\ SubSeq(list, 1, n) \in Seq(Entries(1 .. made))
            /\ Len(SubSeq(list, 1, n)) = n + 1 - 1
            /\ \A i \in 1 .. n + 1 - 1 : SubSeq(list, 1, n)[i] = list[1 + i - 1]
        <4>1. n \in Nat /\ n <= Len(list) /\ 1 \in Nat \ {0} /\ 1 <= n + 1
          BY <2>6
        <4> QED
          BY <2>3, <4>1, PartOfList
      <3> HIDE DEF more
      <3>2. n + 1 - 1 = n /\ \A i \in 1 .. n : 1 + i - 1 = i
        BY <2>6
      <3> QED
        BY <3>1, <3>2 DEF more
    <2> HIDE DEF more
    <2>8. /\ then \in Seq(Entries(1 .. made))
          /\ Len(then) = Len(found) + Len(more)
          /\ \A i \in 1 .. Len(found) + Len(more) : then[i] =
               IF i <= Len(found) THEN found[i] ELSE more[i - Len(found)]
      BY <2>4, <2>7, ConcatProperties
    <2>9. \A i \in 1 .. Len(found) : then[i] = found[i]
      BY <2>2, <2>6, <2>7, <2>8
    <2>10. ASSUME NEW i \in 1 .. n
           PROVE  then[Len(found) + i] = list[i]
      <3>1. /\ Len(found) + i \in 1 .. Len(found) + Len(more)
            /\ ~ (Len(found) + i <= Len(found)) /\ (Len(found) + i) - Len(found) = i
        BY <2>2, <2>6, <2>7
      <3>2. then[Len(found) + i] = more[(Len(found) + i) - Len(found)]
        BY <2>8, <3>1
      <3> QED
        BY <2>7, <3>1, <3>2
    <2>11. Len(then) - Len(found) = n /\ n \in 1 .. Len(list) /\ Len(then) <= hash_size
      BY <2>2, <2>3, <2>6, <2>7, <2>8 DEF room
    <2>12. n = Len(list) \/ Len(then) = hash_size
      BY <2>2, <2>6, <2>7, <2>8 DEF room
    <2> QED
      BY <2>2, <2>8, <2>9, <2>10, <2>11, <2>12 DEF list, then
  <1> QED
    BY <1>1, <1>2

(* The n first states of a loop whose turns are the functions F[1], F[2]   *)
(* and so on exist, whatever these do.                                     *)
Runs(S, F, s0, n) ==
  {f \in [0 .. n -> S] : f[0] = s0 /\ \A i \in 1 .. n : f[i] = F[i][f[i - 1]]}

LEMMA LoopRuns ==
  ASSUME NEW S, NEW F, F \in [Nat -> [S -> S]], NEW s0, s0 \in S, NEW n, n \in Nat
  PROVE  Runs(S, F, s0, n) # {}
  <1> DEFINE Good(m) == Runs(S, F, s0, m) # {}
             T == {m \in Nat : ~ Good(m)}
  <1>1. ASSUME NEW m \in T, \A i \in T : m <= i
        PROVE  FALSE
    <2>1. CASE m = 0
      <3> DEFINE f == [i \in 0 .. 0 |-> s0]
      <3>1. f \in [0 .. 0 -> S] /\ f[0] = s0 /\ \A i \in 1 .. 0 : f[i] = F[i][f[i - 1]]
        OBVIOUS
      <3> HIDE DEF f
      <3>2. f \in Runs(S, F, s0, 0)
        BY <3>1 DEF Runs
      <3> QED
        BY <1>1, <2>1, <3>2
    <2>2. CASE m > 0
      <3>1. m - 1 \in Nat /\ m - 1 \notin T
        <4>1. m \in Nat
          OBVIOUS
        <4>2. m - 1 \in Nat /\ ~ (m <= m - 1)
          BY <2>2, <4>1
        <4> QED
          BY <1>1, <4>2, Zenon
      <3>2. PICK f \in Runs(S, F, s0, m - 1) : TRUE
        BY <3>1
      <3>3. /\ f \in [0 .. m - 1 -> S] /\ f[0] = s0
            /\ \A i \in 1 .. m - 1 : f[i] = F[i][f[i - 1]]
        BY DEF Runs
      <3> DEFINE next == F[m][f[m - 1]]
                 g == [i \in 0 .. m |-> IF i = m THEN next ELSE f[i]]
      <3>4. m \in Nat /\ next \in S
        <4>1. m \in Nat /\ m - 1 \in 0 .. m - 1
          BY <2>2
        <4>2. F[m] \in [S -> S] /\ f[m - 1] \in S
          BY <3>3, <4>1
        <4> QED
          BY <4>1, <4>2
      <3> HIDE DEF next
      <3>5. g \in [0 .. m -> S] /\ g[0] = s0
        BY <2>2, <3>3, <3>4
      <3>6. \A i \in 1 .. m : g[i] = F[i][g[i - 1]]
        <4> TAKE i \in 1 .. m
        <4>1. i - 1 \in 0 .. m /\ i - 1 # m /\ g[i - 1] = f[i - 1]
          BY <3>4
        <4>2. CASE i = m
          BY <3>4, <4>1, <4>2 DEF next
        <4>3. CASE i # m
          BY <3>3, <3>4, <4>1, <4>3
        <4> QED
          BY <4>2, <4>3
      <3> HIDE DEF g
      <3>7. g \in Runs(S, F, s0, m)
        BY <3>5, <3>6 DEF Runs
      <3> QED
        BY <1>1, <3>7
    <2> QED
      BY <2>1, <2>2
  <1>2. T \subseteq Nat
    OBVIOUS
  <1> HIDE DEF T
  <1>3. T = {}
    BY <1>1, <1>2, LeastNumber
  <1> QED
    BY <1>3 DEF T

(* The turns of a listing, from nothing to what it has collected.          *)
Turns(byItems, f) ==
  /\ f[0] = <<>>
  /\ \A i \in 0 .. HASH_BUCKETS : f[i] \in Seq(Entries(1 .. made))
  /\ \A i \in 1 .. HASH_BUCKETS :
       f[i] = OneTurn(f[i - 1], IF byItems THEN Len(f[i - 1]) ELSE i - 1)
  /\ Collected(byItems) = f[HASH_BUCKETS]

LEMMA ListingTurns ==
  ASSUME IInv, NEW byItems \in BOOLEAN
  PROVE  \E f : Turns(byItems, f)
  <1> DEFINE S == Seq(Entries(1 .. made))
             n == HASH_BUCKETS
             none == <<>>
             At(i, s) == IF byItems THEN Len(s) ELSE i - 1
             Step(i, s) == OneTurn(s, At(i, s))
             F == [i \in Nat |-> [s \in S |-> IF i = 0 THEN s ELSE Step(i, s)]]
             Equation(g) == g = [i \in 0 .. n |-> IF i = 0 THEN none ELSE Step(i, g[i - 1])]
             f == CHOOSE g : Equation(g)
             r == f[n]
  <1>1. Collected(byItems) = r
    BY Zenon DEF Collected
  <1>2. n \in Nat \ {0} /\ none \in S
    BY HashAssumption, EmptySeq
  <1>3. \A i \in Nat \ {0} : \A s \in S : Step(i, s) \in S
    <2> TAKE i \in Nat \ {0}
    <2> TAKE s \in S
    <2>1. At(i, s) \in Nat
      BY LenProperties
    <2> HIDE DEF At
    <2> QED
      BY <2>1, TurnAdds
  <1> HIDE DEF S, n, none, At, Step
  <1>4. F \in [Nat -> [S -> S]]
    BY <1>3
  <1>5. PICK g \in Runs(S, F, none, n) : TRUE
    <2> HIDE DEF F
    <2>1. Runs(S, F, none, n) # {}
      BY <1>2, <1>4, LoopRuns
    <2> QED
      BY <2>1
  <1>6. g \in [0 .. n -> S] /\ g[0] = none /\ \A i \in 1 .. n : g[i] = F[i][g[i - 1]]
    <2> HIDE DEF F
    <2> QED
      BY <1>5 DEF Runs
  <1>7. Equation(g)
    <2>1. ASSUME NEW i \in 0 .. n
          PROVE  g[i] = IF i = 0 THEN none ELSE Step(i, g[i - 1])
      <3>1. CASE i = 0
        BY <1>6, <3>1
      <3>2. CASE i # 0
        <4>1. i \in 1 .. n /\ i - 1 \in 0 .. n /\ i \in Nat
          BY <1>2, <3>2
        <4>2. g[i] = F[i][g[i - 1]] /\ g[i - 1] \in S
          BY <1>6, <4>1
        <4> QED
          BY <3>2, <4>1, <4>2
      <3> QED
        BY <3>1, <3>2
    <2>2. g = [i \in 0 .. n |-> g[i]]
      BY <1>6
    <2> QED
      BY <2>1, <2>2
  <1>8. Equation(f)
    BY <1>7, Zenon
  <1> HIDE DEF f
  <1>9. ASSUME NEW i \in 0 .. n
        PROVE  f[i] = IF i = 0 THEN none ELSE Step(i, f[i - 1])
    BY <1>8, <1>9
  <1>10. f[0] = none /\ \A i \in 1 .. n : f[i] = Step(i, f[i - 1])
    BY <1>2, <1>9
  <1>11. \A i \in 0 .. n : f[i] \in S
    <2> DEFINE T == {i \in 0 .. n : f[i] \notin S}
    <2>1. ASSUME NEW m \in T, \A i \in T : m <= i
          PROVE  FALSE
      <3>1. m # 0 /\ m \in 1 .. n /\ m - 1 \in 0 .. n /\ m \in Nat \ {0} /\ ~ (m <= m - 1)
        BY <1>2, <1>10
      <3>2. f[m - 1] \in S
        BY <2>1, <3>1
      <3>3. f[m] \in S
        BY <1>3, <1>10, <3>1, <3>2
      <3> QED
        BY <3>3
    <2>2. T \subseteq Nat
      BY <1>2
    <2> HIDE DEF T
    <2>3. T = {}
      BY <2>1, <2>2, LeastNumber
    <2> QED
      BY <2>3 DEF T
  <1>12. Turns(byItems, f)
    BY <1>1, <1>10, <1>11, Zenon DEF Turns, S, n, none, Step, At, r
  <1> QED
    BY <1>12
(* A bucket's items are in the contents, and of that bucket.               *)
LEMMA BucketContents ==
  ASSUME IInv, NEW b \in Buckets
  PROVE  /\ items[b] \in Seq(Entries(1 .. made)) /\ Len(items[b]) \in Nat /\ count[b] = Len(items[b])
         /\ \A i \in 1 .. Len(items[b]) : items[b][i] \in Contents /\ BucketOf(items[b][i].key) = b
         /\ \A e \in Contents : BucketOf(e.key) = b => \E i \in 1 .. Len(items[b]) : e = items[b][i]
         /\ \A i, j \in 1 .. Len(items[b]) : items[b][i] = items[b][j] => i = j
  <1>1. TypeOK /\ Sorted
    BY DEF IInv
  <1>2. items[b] \in Seq(Entries(1 .. made)) /\ count[b] = Len(items[b]) /\ Ascends(items[b])
    BY <1>1, TypeFacts DEF Sorted
  <1>3. /\ Len(items[b]) \in Nat /\ DOMAIN items[b] = 1 .. Len(items[b])
        /\ \A i \in 1 .. Len(items[b]) : items[b][i].key \in Nat
    BY <1>2, ListAt
  <1>4. \A i \in 1 .. Len(items[b]) : items[b][i] \in Elements(items[b])
    BY <1>3 DEF Elements
  <1>5. \A i \in 1 .. Len(items[b]) : items[b][i] \in Contents /\ BucketOf(items[b][i].key) = b
    BY <1>1, <1>4 DEF Contents, Sorted
  <1>6. ASSUME NEW e \in Contents, BucketOf(e.key) = b
        PROVE  \E i \in 1 .. Len(items[b]) : e = items[b][i]
    <2>1. PICK c \in Buckets : e \in Elements(items[c])
      BY DEF Contents
    <2>2. c = b
      BY <1>1, <1>6, <2>1 DEF Sorted
    <2> QED
      BY <1>3, <2>1, <2>2 DEF Elements
  <1>7. ASSUME NEW i \in 1 .. Len(items[b]), NEW j \in 1 .. Len(items[b]), items[b][i] = items[b][j]
        PROVE  i = j
    <2>1. i \in Nat /\ j \in Nat /\ items[b][i].key \in Nat /\ items[b][i].key = items[b][j].key
      BY <1>3, <1>7
    <2>2. ~ (i < j) /\ ~ (j < i)
      BY <1>2, <1>3, <2>1, SMTT(30) DEF Ascends
    <2> QED
      BY <2>1, <2>2
  <1> QED
    BY <1>2, <1>3, <1>5, <1>6, <1>7

(* The loop that goes by the turns collects every item once.               *)
LEMMA InTurnLists ==
  ASSUME IInv
  PROVE  /\ InTurn \in Seq(Entries(1 .. made)) /\ Len(InTurn) = hash_size
         /\ \A i \in 1 .. hash_size : InTurn[i] \in Contents
         /\ \A e \in Contents : \E i \in 1 .. hash_size : InTurn[i] = e
  <1> DEFINE Below(t) == Cardinality(Places(t))
             Good(t, s) ==
               /\ Len(s) = Below(t)
               /\ \A i \in 1 .. Len(s) : s[i] \in Contents
               /\ \A e \in Contents : BucketOf(e.key) < t => \E i \in 1 .. Len(s) : s[i] = e
  <1>1. PICK f : Turns(FALSE, f)
    BY ListingTurns
  <1>2. /\ f[0] = <<>>
        /\ \A i \in 0 .. HASH_BUCKETS : f[i] \in Seq(Entries(1 .. made))
        /\ \A i \in 1 .. HASH_BUCKETS : f[i] = OneTurn(f[i - 1], i - 1)
        /\ InTurn = f[HASH_BUCKETS]
    BY <1>1, Zenon DEF Turns, InTurn
  <1>3. HASH_BUCKETS \in Nat \ {0} /\ TypeOK /\ Buckets = 0 .. HASH_BUCKETS - 1
    BY HashAssumption DEF IInv, Buckets
  <1>4. \A e \in Contents : BucketOf(e.key) \in Buckets
    BY <1>3, ContentsTyped, BucketOfKey
  <1>5. /\ hash_size = Below(HASH_BUCKETS) /\ hash_size \in Nat
        /\ \A t \in 0 .. HASH_BUCKETS : Below(t) <= hash_size /\ Below(t) \in Nat
        /\ Below(0) = 0
    BY <1>3, SizeCounts, PlacesCounted
  <1>6. \A t \in 0 .. HASH_BUCKETS : t < HASH_BUCKETS => Below(t + 1) = Below(t) + count[t]
    BY <1>3, PlacesCounted
  <1> HIDE DEF Below
  <1>7. Good(0, f[0])
    <2>1. Len(f[0]) = 0
      BY <1>2, EmptySeq
    <2>2. \A e \in Contents : ~ (BucketOf(e.key) < 0)
      BY <1>3, <1>4
    <2> HIDE DEF Buckets, BucketOf
    <2> QED
      BY <1>5, <2>1, <2>2
  <1>8. ASSUME NEW t \in 0 .. HASH_BUCKETS - 1, Good(t, f[t])
        PROVE  Good(t + 1, f[t + 1])
    <2> DEFINE found == f[t]
               then == OneTurn(found, t)
               n == Len(then) - Len(found)
    <2>1. t \in Buckets /\ t \in Nat /\ t \in 0 .. HASH_BUCKETS /\ t + 1 \in 1 .. HASH_BUCKETS
          /\ t + 1 \in 0 .. HASH_BUCKETS /\ (t + 1) - 1 = t /\ t < HASH_BUCKETS
      BY <1>3
    <2>2. found \in Seq(Entries(1 .. made)) /\ f[t + 1] = then
      BY <1>2, <2>1
    <2>3. then \in Seq(Entries(1 .. made))
      BY <1>2, <2>1, <2>2
    <2>4. \/ then = found /\ (Len(found) >= hash_size \/ count[t] = 0)
          \/ /\ n \in 1 .. Len(items[t]) /\ Len(then) <= hash_size
             /\ n = Len(items[t]) \/ Len(then) = hash_size
             /\ \A i \in 1 .. Len(found) : then[i] = found[i]
             /\ \A i \in 1 .. n : then[Len(found) + i] = items[t][i]
      BY <2>1, <2>2, TurnAdds, Zenon
    <2>5. /\ Len(items[t]) \in Nat /\ count[t] = Len(items[t])
          /\ \A i \in 1 .. Len(items[t]) : items[t][i] \in Contents
          /\ \A e \in Contents : BucketOf(e.key) = t => \E i \in 1 .. Len(items[t]) : e = items[t][i]
      BY <2>1, BucketContents
    <2>6. /\ Below(t + 1) = Below(t) + Len(items[t]) /\ Below(t + 1) <= hash_size
          /\ Below(t) \in Nat /\ Below(t + 1) \in Nat
      BY <1>5, <1>6, <2>1, <2>5
    <2>7. /\ Len(found) = Below(t)
          /\ \A i \in 1 .. Len(found) : found[i] \in Contents
          /\ \A e \in Contents : BucketOf(e.key) < t => \E i \in 1 .. Len(found) : found[i] = e
      BY <1>8
    <2>8. Len(found) \in Nat /\ Len(then) \in Nat
      BY <2>2, <2>3, LenProperties
    <2>9. \A e \in Contents : BucketOf(e.key) < t + 1 => BucketOf(e.key) < t \/ BucketOf(e.key) = t
      BY <1>3, <1>4, <2>1
    <2> HIDE DEF found, then, n
    <2>10. CASE then = found /\ (Len(found) >= hash_size \/ count[t] = 0)
      <3>1. Len(items[t]) = 0
        BY <1>5, <2>5, <2>6, <2>7, <2>10
      <3>2. Len(then) = Below(t + 1)
        BY <2>6, <2>7, <2>10, <3>1
      <3>3. \A e \in Contents : BucketOf(e.key) # t
        BY <2>5, <3>1
      <3>4. \A e \in Contents : BucketOf(e.key) < t + 1 => \E i \in 1 .. Len(then) : then[i] = e
        BY <2>7, <2>9, <2>10, <3>3, Zenon
      <3>5. \A i \in 1 .. Len(then) : then[i] \in Contents
        BY <2>7, <2>10
      <3> QED
        BY <2>2, <3>2, <3>4, <3>5, Zenon
    <2>11. CASE /\ n \in 1 .. Len(items[t]) /\ Len(then) <= hash_size
                /\ n = Len(items[t]) \/ Len(then) = hash_size
                /\ \A i \in 1 .. Len(found) : then[i] = found[i]
                /\ \A i \in 1 .. n : then[Len(found) + i] = items[t][i]
      <3>1. Len(then) = Len(found) + n /\ n \in Nat
        BY <2>8, <2>11 DEF n
      <3>2. n = Len(items[t])
        BY <1>5, <2>5, <2>6, <2>7, <2>8, <2>11, <3>1
      <3>3. Len(then) = Below(t + 1)
        BY <2>6, <2>7, <3>1, <3>2
      <3>4. ASSUME NEW i \in 1 .. Len(then)
            PROVE  then[i] \in Contents
        <4>1. CASE i <= Len(found)
          <5>1. i \in 1 .. Len(found)
            BY <2>8, <4>1
          <5> QED
            BY <2>7, <2>11, <5>1
        <4>2. CASE i > Len(found)
          <5>1. i - Len(found) \in 1 .. n /\ Len(found) + (i - Len(found)) = i
            BY <2>8, <3>1, <4>2
          <5>2. then[Len(found) + (i - Len(found))] = items[t][i - Len(found)]
            BY <2>11, <5>1
          <5> QED
            BY <2>5, <3>2, <5>1, <5>2
        <4>3. i <= Len(found) \/ i > Len(found)
          BY <2>8
        <4> QED
          BY <4>1, <4>2, <4>3
      <3>5. ASSUME NEW e \in Contents, BucketOf(e.key) < t + 1
            PROVE  \E i \in 1 .. Len(then) : then[i] = e
        <4>1. CASE BucketOf(e.key) < t
          <5>1. PICK i \in 1 .. Len(found) : found[i] = e
            BY <2>7, <4>1
          <5>2. i \in 1 .. Len(then) /\ then[i] = e
            BY <2>8, <2>11, <3>1, <5>1
          <5> QED
            BY <5>2
        <4>2. CASE BucketOf(e.key) = t
          <5>1. PICK i \in 1 .. Len(items[t]) : e = items[t][i]
            BY <2>5, <4>2
          <5>2. Len(found) + i \in 1 .. Len(then)
            BY <2>8, <3>1, <3>2, <5>1
          <5>3. then[Len(found) + i] = e
            BY <2>11, <3>2, <5>1
          <5> QED
            BY <5>2, <5>3
        <4> QED
          BY <2>9, <3>5, <4>1, <4>2
      <3> QED
        BY <2>2, <3>3, <3>4, <3>5, Zenon
    <2> QED
      BY <2>4, <2>10, <2>11
  <1> HIDE DEF Good
  <1>9. \A t \in 0 .. HASH_BUCKETS : Good(t, f[t])
    <2> DEFINE T == {t \in 0 .. HASH_BUCKETS : ~ Good(t, f[t])}
    <2>1. ASSUME NEW m \in T, \A t \in T : m <= t
          PROVE  FALSE
      <3>1. m # 0
        BY <1>7
      <3>2. m - 1 \in 0 .. HASH_BUCKETS - 1 /\ m - 1 \in 0 .. HASH_BUCKETS
            /\ ~ (m <= m - 1) /\ (m - 1) + 1 = m
        BY <1>3, <3>1
      <3>3. Good(m - 1, f[m - 1])
        BY <2>1, <3>2
      <3>4. Good((m - 1) + 1, f[(m - 1) + 1])
        BY <1>8, <3>2, <3>3
      <3>5. Good(m, f[m])
        BY <3>2, <3>4
      <3> QED
        BY <3>5
    <2>2. T \subseteq Nat
      BY <1>3
    <2> HIDE DEF T
    <2>3. T = {}
      BY <2>1, <2>2, LeastNumber
    <2> QED
      BY <2>3 DEF T
  <1>10. HASH_BUCKETS \in 0 .. HASH_BUCKETS
    BY <1>3
  <1>11. /\ Len(InTurn) = hash_size /\ InTurn \in Seq(Entries(1 .. made))
         /\ \A i \in 1 .. Len(InTurn) : InTurn[i] \in Contents
         /\ \A e \in Contents : BucketOf(e.key) < HASH_BUCKETS => \E i \in 1 .. Len(InTurn) : InTurn[i] = e
    BY <1>2, <1>5, <1>9, <1>10, Zenon DEF Good
  <1>12. \A e \in Contents : BucketOf(e.key) < HASH_BUCKETS
    BY <1>3, <1>4
  <1> QED
    BY <1>11, <1>12, Zenon

(* The loop that goes by the items collects none twice: the bucket that a  *)
(* turn looks into comes after those of all the items collected before.    *)
LEMMA ByItemsLists ==
  ASSUME IInv
  PROVE  /\ ByItems \in Seq(Entries(1 .. made)) /\ Len(ByItems) \in Nat
         /\ \A i \in 1 .. Len(ByItems) : ByItems[i] \in Contents
         /\ \A i, j \in 1 .. Len(ByItems) : ByItems[i] = ByItems[j] => i = j
  <1> DEFINE Good(s) ==
               /\ \A i \in 1 .. Len(s) : s[i] \in Contents /\ BucketOf(s[i].key) < Len(s)
               /\ \A i, j \in 1 .. Len(s) : s[i] = s[j] => i = j
  <1>1. PICK f : Turns(TRUE, f)
    BY ListingTurns
  <1>2. /\ f[0] = <<>>
        /\ \A i \in 0 .. HASH_BUCKETS : f[i] \in Seq(Entries(1 .. made))
        /\ \A i \in 1 .. HASH_BUCKETS : f[i] = OneTurn(f[i - 1], Len(f[i - 1]))
        /\ ByItems = f[HASH_BUCKETS]
    BY <1>1, Zenon DEF Turns, ByItems
  <1>3. HASH_BUCKETS \in Nat \ {0} /\ TypeOK /\ Buckets = 0 .. HASH_BUCKETS - 1
    BY HashAssumption DEF IInv, Buckets
  <1>4. \A e \in Contents : BucketOf(e.key) \in Nat
    <2>1. \A e \in Contents : BucketOf(e.key) \in Buckets
      BY <1>3, ContentsTyped, BucketOfKey
    <2> QED
      BY <1>3, <2>1
  <1>5. Good(f[0])
    <2>1. Len(f[0]) = 0
      BY <1>2, EmptySeq
    <2> QED
      BY <2>1
  <1>6. ASSUME NEW t \in 0 .. HASH_BUCKETS - 1, Good(f[t])
        PROVE  Good(f[t + 1])
    <2> DEFINE found == f[t]
               b == Len(found)
               then == OneTurn(found, b)
               n == Len(then) - Len(found)
    <2>1. t \in 0 .. HASH_BUCKETS /\ t + 1 \in 1 .. HASH_BUCKETS
          /\ t + 1 \in 0 .. HASH_BUCKETS /\ (t + 1) - 1 = t
      BY <1>3
    <2>2. found \in Seq(Entries(1 .. made)) /\ f[t + 1] = then /\ then \in Seq(Entries(1 .. made))
      BY <1>2, <2>1
    <2>3. b \in Nat /\ Len(then) \in Nat
      BY <2>2, LenProperties
    <2>4. \/ then = found
          \/ /\ b \in Buckets /\ n \in 1 .. Len(items[b])
             /\ \A i \in 1 .. Len(found) : then[i] = found[i]
             /\ \A i \in 1 .. n : then[Len(found) + i] = items[b][i]
      BY <2>2, <2>3, TurnAdds, Zenon
    <2>5. CASE then = found
      BY <1>6, <2>2, <2>5
    <2>6. CASE /\ b \in Buckets /\ n \in 1 .. Len(items[b])
               /\ \A i \in 1 .. Len(found) : then[i] = found[i]
               /\ \A i \in 1 .. n : then[Len(found) + i] = items[b][i]
      <3>1. /\ Len(items[b]) \in Nat
            /\ \A i \in 1 .. Len(items[b]) : items[b][i] \in Contents /\ BucketOf(items[b][i].key) = b
            /\ \A i, j \in 1 .. Len(items[b]) : items[b][i] = items[b][j] => i = j
        BY <2>6, BucketContents
      <3>2. /\ \A i \in 1 .. b : found[i] \in Contents /\ BucketOf(found[i].key) < b
            /\ \A i, j \in 1 .. b : found[i] = found[j] => i = j
        BY <1>6
      <3>3. Len(then) = b + n /\ n \in Nat \ {0} /\ n <= Len(items[b])
        <4>1. n \in 1 .. Len(items[b])
          BY <2>6, Zenon
        <4>3. b = Len(found)
          OBVIOUS
        <4> HIDE DEF found, then, b
        <4>2. Len(then) = b + n
          BY <2>3, <4>3 DEF n
        <4> HIDE DEF n
        <4> QED
          BY <3>1, <4>1, <4>2
      <3>4. /\ \A i \in 1 .. b : then[i] = found[i]
            /\ \A i \in 1 .. n : then[b + i] = items[b][i]
        BY <2>6
      <3> HIDE DEF found, then, n, b
      <3>5. \A i \in 1 .. n : then[b + i] = items[b][i] /\ i \in 1 .. Len(items[b])
        BY <3>1, <3>3, <3>4
      <3>6. ASSUME NEW i \in 1 .. b + n, i > b
            PROVE  i - b \in 1 .. n /\ then[i] = items[b][i - b] /\ i - b \in 1 .. Len(items[b])
        <4>1. i - b \in 1 .. n /\ b + (i - b) = i
          BY <2>3, <3>3, <3>6
        <4> QED
          BY <3>5, <4>1
      <3>7. ASSUME NEW i \in 1 .. b + n
            PROVE  /\ then[i] \in Contents /\ BucketOf(then[i].key) < Len(then)
                   /\ i <= b => BucketOf(then[i].key) < b /\ i \in 1 .. b
                   /\ i > b => BucketOf(then[i].key) = b
        <4>1. CASE i <= b
          <5>1. i \in 1 .. b /\ then[i] = found[i]
            BY <2>3, <3>3, <3>4, <4>1
          <5>2. then[i] \in Contents /\ BucketOf(then[i].key) < b /\ BucketOf(then[i].key) \in Nat
            BY <1>4, <3>2, <5>1
          <5> QED
            BY <2>3, <3>3, <4>1, <5>1, <5>2
        <4>2. CASE i > b
          <5>1. then[i] \in Contents /\ BucketOf(then[i].key) = b
            BY <3>1, <3>6, <4>2
          <5> QED
            BY <2>3, <3>3, <4>2, <5>1
        <4>3. i <= b \/ i > b
          BY <2>3
        <4> QED
          BY <4>1, <4>2, <4>3, Zenon
      <3>8. ASSUME NEW i \in 1 .. b + n, NEW j \in 1 .. b + n, then[i] = then[j]
            PROVE  i = j
        <4>1. CASE i <= b /\ j <= b
          BY <3>2, <3>4, <3>7, <3>8, <4>1
        <4>2. CASE i > b /\ j > b
          <5>1. i - b = j - b
            BY <3>1, <3>6, <3>8, <4>2
          <5> QED
            BY <2>3, <3>3, <5>1
        <4>3. ~ (i <= b /\ j > b) /\ ~ (i > b /\ j <= b)
          BY <1>4, <2>3, <3>7, <3>8
        <4>4. (i <= b \/ i > b) /\ (j <= b \/ j > b)
          BY <2>3, <3>3
        <4> QED
          BY <4>1, <4>2, <4>3, <4>4
      <3>9. /\ \A i \in 1 .. Len(then) : then[i] \in Contents /\ BucketOf(then[i].key) < Len(then)
            /\ \A i, j \in 1 .. Len(then) : then[i] = then[j] => i = j
        BY <3>3, <3>7, <3>8
      <3> QED
        BY <2>2, <3>9, Zenon
    <2> QED
      BY <2>4, <2>5, <2>6
  <1> HIDE DEF Good
  <1>7. \A t \in 0 .. HASH_BUCKETS : Good(f[t])
    <2> DEFINE T == {t \in 0 .. HASH_BUCKETS : ~ Good(f[t])}
    <2>1. ASSUME NEW m \in T, \A t \in T : m <= t
          PROVE  FALSE
      <3>1. m # 0
        BY <1>5
      <3>2. m - 1 \in 0 .. HASH_BUCKETS - 1 /\ m - 1 \in 0 .. HASH_BUCKETS
            /\ ~ (m <= m - 1) /\ (m - 1) + 1 = m
        BY <1>3, <3>1
      <3>3. Good(f[m - 1])
        BY <2>1, <3>2
      <3>4. Good(f[(m - 1) + 1])
        BY <1>6, <3>2, <3>3
      <3>5. Good(f[m])
        BY <3>2, <3>4
      <3> QED
        BY <3>5
    <2>2. T \subseteq Nat
      BY <1>3
    <2> HIDE DEF T
    <2>3. T = {}
      BY <2>1, <2>2, LeastNumber
    <2> QED
      BY <2>3 DEF T
  <1>8. HASH_BUCKETS \in 0 .. HASH_BUCKETS
    BY <1>3
  <1>9. /\ \A i \in 1 .. Len(ByItems) : ByItems[i] \in Contents
        /\ \A i, j \in 1 .. Len(ByItems) : ByItems[i] = ByItems[j] => i = j
    BY <1>2, <1>7, <1>8, Zenon DEF Good
  <1>10. ByItems \in Seq(Entries(1 .. made))
    BY <1>2, <1>8
  <1> QED
    BY <1>9, <1>10, LenProperties
-----------------------------------------------------------------------------
(* Listings of the map                                                     *)

(* A function on 1 .. n is a sequence.                                     *)
LEMMA FunctionIsSeq ==
  ASSUME NEW S, NEW n \in Nat, NEW f \in [1 .. n -> S]
  PROVE  f \in Seq(S) /\ Len(f) = n /\ DOMAIN f = 1 .. n
  <1>1. f \in Seq(S)
    BY SeqDef
  <1>2. Len(f) \in Nat /\ DOMAIN f = 1 .. Len(f) /\ DOMAIN f = 1 .. n
    BY <1>1, LenProperties
  <1> QED
    BY <1>1, <1>2

(* What the pairs of the items found are.                                  *)
LEMMA PairsOfItems ==
  ASSUME NEW n \in Nat, NEW found \in Seq(Entries(Nat)), Len(found) = n, NEW pairs,
         pairs = [i \in 1 .. 2 * n |->
                    LET item == found[(i + 1) \div 2]
                    IN IF i % 2 = 1 THEN item.key ELSE item.value]
  PROVE  /\ Len(pairs) = 2 * n
         /\ \A i \in 1 .. n : pairs[2 * i - 1] = found[i].key /\ pairs[2 * i] = found[i].value
  <1>1. ASSUME NEW i \in 1 .. n
        PROVE  /\ 2 * i - 1 \in 1 .. 2 * n /\ ((2 * i - 1) + 1) \div 2 = i /\ (2 * i - 1) % 2 = 1
               /\ 2 * i \in 1 .. 2 * n /\ (2 * i + 1) \div 2 = i /\ (2 * i) % 2 = 0
    OBVIOUS
  <1>2. ASSUME NEW i \in 1 .. 2 * n
        PROVE  (i + 1) \div 2 \in 1 .. n
    OBVIOUS
  <1>3. \A i \in 1 .. n : found[i].key \in Nat /\ found[i].value \in Nat
    <2>1. \A i \in 1 .. n : found[i] \in Entries(Nat)
      BY ElementOfSeq
    <2> QED
      BY <2>1, EntryFields, KeysAreNumbers
  <1>4. pairs \in [1 .. 2 * n -> Nat]
    BY <1>2, <1>3
  <1>5. 2 * n \in Nat
    OBVIOUS
  <1>6. Len(pairs) = 2 * n
    BY <1>4, <1>5, FunctionIsSeq
  <1>7. ASSUME NEW i \in 1 .. n
        PROVE  pairs[2 * i - 1] = found[i].key
    BY <1>1
  <1>8. ASSUME NEW i \in 1 .. n
        PROVE  pairs[2 * i] = found[i].value
    BY <1>1, SMTT(30)
  <1> QED
    BY <1>6, <1>7, <1>8

(* The same operator, as the instance names it.                           *)
LEMMA SameCardinality == \A S : Map!Cardinality(S) = Cardinality(S)
  BY Zenon DEF Map!Cardinality, Cardinality

LEMMA ListPairsStep ==
  ASSUME IInv, IInv', HRLISTP
  PROVE  Map!ListPairs
  <1>1. /\ UNCHANGED table
        /\ result' = [i \in 1 .. 2 * hash_size |->
                        LET item == InTurn[(i + 1) \div 2]
                        IN IF i % 2 = 1 THEN item.key ELSE item.value]
    BY Zenon DEF HRLISTP, Lists
  <1>2. TheMap' = TheMap /\ made' = made
    BY <1>1, TableKept
  <1>3. hash_size = Cardinality(DOMAIN TheMap) /\ hash_size \in Nat
    BY SizeIsKeys
  <1>4. /\ InTurn \in Seq(Entries(1 .. made)) /\ Len(InTurn) = hash_size
        /\ \A i \in 1 .. hash_size : InTurn[i] \in Contents
        /\ \A e \in Contents : \E i \in 1 .. hash_size : InTurn[i] = e
    BY InTurnLists
  <1>5. InTurn \in Seq(Entries(Nat))
    <2>1. made \in Nat
      BY DEF IInv, TypeOK
    <2>2. Entries(1 .. made) \subseteq Entries(Nat)
      BY <2>1 DEF Entries
    <2> QED
      BY <1>4, <2>2, SeqMonotonic, Zenon
  <1>6. PICK n \in Nat : n = hash_size
    BY <1>3
  <1>7. PICK found : found = InTurn
    OBVIOUS
  <1>8. PICK pairs : pairs = result'
    OBVIOUS
  <1>9. /\ Len(pairs) = 2 * n
        /\ \A i \in 1 .. n : pairs[2 * i - 1] = found[i].key /\ pairs[2 * i] = found[i].value
    <2>1. found \in Seq(Entries(Nat)) /\ Len(found) = n
      BY <1>4, <1>5, <1>6, <1>7
    <2>2. pairs = [i \in 1 .. 2 * n |->
                     LET item == found[(i + 1) \div 2]
                     IN IF i % 2 = 1 THEN item.key ELSE item.value]
      BY <1>1, <1>6, <1>7, <1>8, Zenon
    <2> QED
      BY <1>6, <2>1, <2>2, PairsOfItems, ZenonT(60)
  <1>10. PICK M : M = TheMap
    OBVIOUS
  <1>11. /\ DOMAIN M = {e.key : e \in Contents}
         /\ \A e \in Contents : M[e.key] = e.value
    BY <1>10, MapOfContents, Zenon
  <1>12. /\ \A i \in 1 .. n : found[i] \in Contents
         /\ \A e \in Contents : \E i \in 1 .. n : found[i] = e
    BY <1>4, <1>6, <1>7, Zenon
  <1>13. {pairs[2 * i - 1] : i \in 1 .. n} = DOMAIN M
    <2>1. \A i \in 1 .. n : pairs[2 * i - 1] \in DOMAIN M
      BY <1>9, <1>11, <1>12
    <2>2. ASSUME NEW key \in DOMAIN M
          PROVE  \E i \in 1 .. n : key = pairs[2 * i - 1]
      <3>1. PICK e \in Contents : key = e.key
        BY <1>11
      <3>2. PICK i \in 1 .. n : found[i] = e
        BY <1>12
      <3> QED
        BY <1>9, <3>1, <3>2
    <2> QED
      BY <2>1, <2>2, Zenon
  <1>14. \A i \in 1 .. n : pairs[2 * i] = M[pairs[2 * i - 1]]
    <2> TAKE i \in 1 .. n
    <2>1. found[i] \in Contents /\ pairs[2 * i - 1] = found[i].key /\ pairs[2 * i] = found[i].value
      BY <1>9, <1>12, Zenon
    <2>2. M[found[i].key] = found[i].value
      BY <1>11, <2>1, Zenon
    <2> QED
      BY <2>1, <2>2, Zenon
  <1>15. n = Cardinality(DOMAIN M)
    BY <1>3, <1>6, <1>10
  <1>16. n = Map!Cardinality(DOMAIN M)
    BY <1>15, SameCardinality, Zenon
  <1>17. /\ Len(result') = 2 * Map!Cardinality(DOMAIN TheMap)
         /\ {result'[2 * i - 1] : i \in 1 .. Map!Cardinality(DOMAIN TheMap)} = DOMAIN TheMap
         /\ \A i \in 1 .. Map!Cardinality(DOMAIN TheMap) : result'[2 * i] = TheMap[result'[2 * i - 1]]
    BY <1>8, <1>9, <1>10, <1>13, <1>14, <1>16, ZenonT(60)
  <1> QED
    BY <1>2, <1>17, Zenon DEF Map!ListPairs, TheMap

(* If the loop that goes by the items comes by as many as there are, it    *)
(* comes by all of them.                                                   *)
LEMMA CompleteFinds ==
  ASSUME IInv, Complete
  PROVE  \A e \in Contents : \E i \in 1 .. hash_size : ByItems[i] = e
  <1>1. PICK n \in Nat : n = hash_size
    BY SizeIsKeys
  <1>2. PICK found, M : found = ByItems /\ M = TheMap
    OBVIOUS
  <1>3. /\ \A i \in 1 .. n : found[i] \in Contents
        /\ \A i, j \in 1 .. n : found[i] = found[j] => i = j
    BY <1>1, <1>2, ByItemsLists, Zenon DEF Complete
  <1>4. DOMAIN M = {e.key : e \in Contents} /\ Cardinality(DOMAIN M) = n
    BY <1>1, <1>2, MapOfContents, SizeIsKeys, Zenon
  <1>5. \A e, g \in Contents : g.key = e.key => g = e
    <2> TAKE e, g \in Contents
    <2>1. TypeOK /\ Sorted
      BY DEF IInv
    <2>2. e.key \in Keys
      BY <2>1, ContentsTyped
    <2>3. \E h : \A f \in Contents : f.key = e.key => f = h
      BY <2>1, <2>2, HitOrMiss, Zenon
    <2> QED
      BY <2>3
  <1>6. PICK K : K = {found[i].key : i \in 1 .. n}
    OBVIOUS
  <1>7. K \subseteq DOMAIN M
    BY <1>3, <1>4, <1>6
  <1>8. Cardinality(K) = n
    <2> DEFINE f == [i \in 1 .. n |-> found[i].key]
    <2>1. f \in [1 .. n -> K] /\ \A i \in 1 .. n : f[i] = found[i].key
      BY <1>6
    <2>2. \A i, j \in 1 .. n : f[i] = f[j] => i = j
      BY <1>3, <1>5, <2>1
    <2>3. \A k \in K : \E i \in 1 .. n : f[i] = k
      BY <1>6, <2>1
    <2> HIDE DEF f
    <2>4. f \in Injection(1 .. n, K)
      BY <2>1, <2>2 DEF Injection, IsInjective
    <2>5. f \in Surjection(1 .. n, K)
      BY <2>1, <2>3, Zenon DEF Surjection
    <2>6. f \in Bijection(1 .. n, K)
      BY <2>4, <2>5 DEF Bijection
    <2>7. ExistsBijection(1 .. n, K)
      BY <2>6, Zenon DEF ExistsBijection
    <2>8. IsFiniteSet(1 .. n) /\ Cardinality(1 .. n) = n
      <3>1. 1 \in Int /\ n \in Int
        OBVIOUS
      <3>2. IsFiniteSet(1 .. n) /\ Cardinality(1 .. n) = IF 1 > n THEN 0 ELSE n - 1 + 1
        BY <3>1, FS_Interval
      <3> QED
        BY <3>2
    <2> QED
      BY <2>7, <2>8, FS_Bijection
  <1>9. K = DOMAIN M
    <2>1. IsFiniteSet(DOMAIN M)
      BY <1>2, SizeIsKeys
    <2> QED
      BY <1>4, <1>7, <1>8, <2>1, FS_Subset
  <1>10. ASSUME NEW e \in Contents
         PROVE  \E i \in 1 .. n : found[i] = e
    <2>1. PICK i \in 1 .. n : found[i].key = e.key
      BY <1>4, <1>6, <1>9
    <2>2. found[i] = e
      BY <1>3, <1>5, <2>1
    <2> QED
      BY <2>2
  <1> QED
    BY <1>1, <1>2, <1>10

(* The keys, or the values, of the items it comes by.                      *)
LEMMA PartOfItems ==
  ASSUME NEW n \in Nat, NEW f \in [1 .. n -> Nat], NEW list,
         list = [i \in 1 .. n |-> IF i <= n THEN f[i] ELSE Undef]
  PROVE  Len(list) = n /\ {list[i] : i \in DOMAIN list} = {f[i] : i \in 1 .. n}
  <1>1. list = [i \in 1 .. n |-> f[i]]
    OBVIOUS
  <1>2. list \in [1 .. n -> Nat]
    BY <1>1
  <1>3. Len(list) = n /\ DOMAIN list = 1 .. n
    BY <1>2, FunctionIsSeq
  <1> QED
    BY <1>1, <1>3

LEMMA ListKeysStep ==
  ASSUME IInv, IInv', HRLISTK, Complete
  PROVE  Map!ListKeys
  <1>1. PICK n \in Nat : n = hash_size
    BY SizeIsKeys
  <1>2. PICK found, list, M : found = ByItems /\ list = result' /\ M = TheMap
    OBVIOUS
  <1>3. Len(found) = n /\ ~ (Len(ByItems) < hash_size)
    BY <1>1, <1>2 DEF Complete
  <1>4. UNCHANGED table /\ list = [i \in 1 .. n |-> IF i <= Len(found) THEN found[i].key ELSE Undef]
    BY <1>1, <1>2, <1>3, Zenon DEF HRLISTK, Lists, Overrun
  <1>5. /\ \A i \in 1 .. n : found[i] \in Contents
        /\ \A e \in Contents : \E i \in 1 .. n : found[i] = e
    BY <1>1, <1>2, ByItemsLists, CompleteFinds, Zenon DEF Complete
  <1>6. \A e \in Contents : e.key \in Nat
    <2>1. \A e \in Contents : e.key \in Keys
      BY ContentsTyped DEF IInv
    <2> QED
      BY <2>1, HashAssumption
  <1>7. PICK f : f = [i \in 1 .. n |-> found[i].key]
    OBVIOUS
  <1>8. f \in [1 .. n -> Nat] /\ \A i \in 1 .. n : f[i] = found[i].key
    BY <1>5, <1>6, <1>7
  <1>9. list = [i \in 1 .. n |-> IF i <= n THEN f[i] ELSE Undef]
    BY <1>3, <1>4, <1>8
  <1>10. Len(list) = n /\ {list[i] : i \in DOMAIN list} = {f[i] : i \in 1 .. n}
    BY <1>8, <1>9, PartOfItems
  <1>11. DOMAIN M = {e.key : e \in Contents}
    BY <1>2, MapOfContents, Zenon
  <1>12. {f[i] : i \in 1 .. n} = DOMAIN M
    BY <1>5, <1>8, <1>11
  <1>13. n = Map!Cardinality(DOMAIN M)
    BY <1>1, <1>2, SizeIsKeys, SameCardinality, Zenon
  <1>14. TheMap' = TheMap /\ made' = made
    BY <1>4, TableKept
  <1> QED
    BY <1>2, <1>10, <1>12, <1>13, <1>14, Zenon DEF Map!ListKeys, Map!ListAll, TheMap

LEMMA ListValuesStep ==
  ASSUME IInv, IInv', HRLISTV, Complete
  PROVE  Map!ListValues
  <1>1. PICK n \in Nat : n = hash_size
    BY SizeIsKeys
  <1>2. PICK found, list, M : found = ByItems /\ list = result' /\ M = TheMap
    OBVIOUS
  <1>3. Len(found) = n /\ ~ (Len(ByItems) < hash_size)
    BY <1>1, <1>2 DEF Complete
  <1>4. UNCHANGED table /\ list = [i \in 1 .. n |-> IF i <= Len(found) THEN found[i].value ELSE Undef]
    BY <1>1, <1>2, <1>3, Zenon DEF HRLISTV, Lists, Overrun
  <1>5. /\ \A i \in 1 .. n : found[i] \in Contents
        /\ \A e \in Contents : \E i \in 1 .. n : found[i] = e
    BY <1>1, <1>2, ByItemsLists, CompleteFinds, Zenon DEF Complete
  <1>6. \A e \in Contents : e.value \in Nat
    <2>1. \A e \in Contents : e.value \in 1 .. made
      BY ContentsTyped DEF IInv
    <2>2. 1 .. made \subseteq Nat
      BY DEF IInv, TypeOK
    <2> QED
      BY <2>1, <2>2
  <1>7. PICK f : f = [i \in 1 .. n |-> found[i].value]
    OBVIOUS
  <1>8. f \in [1 .. n -> Nat] /\ \A i \in 1 .. n : f[i] = found[i].value
    BY <1>5, <1>6, <1>7
  <1>9. list = [i \in 1 .. n |-> IF i <= n THEN f[i] ELSE Undef]
    BY <1>3, <1>4, <1>8
  <1>10. Len(list) = n /\ {list[i] : i \in DOMAIN list} = {f[i] : i \in 1 .. n}
    BY <1>8, <1>9, PartOfItems
  <1>11. /\ DOMAIN M = {e.key : e \in Contents}
         /\ \A e \in Contents : M[e.key] = e.value
    BY <1>2, MapOfContents, Zenon
  <1>12. {f[i] : i \in 1 .. n} = {M[key] : key \in DOMAIN M}
    <2>1. \A i \in 1 .. n : found[i].key \in DOMAIN M /\ M[found[i].key] = f[i]
      BY <1>5, <1>8, <1>11
    <2>2. \A key \in DOMAIN M : \E i \in 1 .. n : M[key] = f[i]
      BY <1>5, <1>8, <1>11
    <2>3. \A i \in 1 .. n : f[i] \in {M[key] : key \in DOMAIN M}
      BY <2>1
    <2>4. \A v \in {M[key] : key \in DOMAIN M} : \E i \in 1 .. n : v = f[i]
      BY <2>2
    <2> QED
      BY <2>3, <2>4
  <1>13. n = Map!Cardinality(DOMAIN M)
    BY <1>1, <1>2, SizeIsKeys, SameCardinality, Zenon
  <1>14. TheMap' = TheMap /\ made' = made
    BY <1>4, TableKept
  <1>15. PICK S : S = {M[key] : key \in DOMAIN M}
    OBVIOUS
  <1>16. Len(result') = Map!Cardinality(DOMAIN TheMap)
    BY <1>2, <1>10, <1>13, Zenon
  <1>17. {result'[i] : i \in DOMAIN result'} = S
    <2>1. {list[i] : i \in DOMAIN list} = S
      BY <1>10, <1>12, <1>15, Zenon
    <2> QED
      BY <1>2, <2>1, Zenon
  <1>18. Map!ListAll(S)
    BY <1>14, <1>16, <1>17, Zenon DEF Map!ListAll, TheMap
  <1>19. S = {TheMap[key] : key \in DOMAIN TheMap}
    BY <1>2, <1>15, Zenon
  <1> QED
    BY <1>18, <1>19, Zenon DEF Map!ListValues, TheMap
-----------------------------------------------------------------------------
(* Implementation                                                          *)

LEMMA InitIsEmpty == Init => Map!Init
  <1> SUFFICES ASSUME Init
               PROVE  Map!Init
    OBVIOUS
  <1>1. items = [b \in Buckets |-> <<>>] /\ made = 0 /\ result = <<>>
    BY Zenon DEF Init
  <1>2. KeysIn = {}
    BY <1>1 DEF KeysIn
  <1>3. TheMap = Map!Empty
    BY <1>2 DEF TheMap, Map!Empty
  <1> QED
    BY <1>1, <1>3, Zenon DEF Map!Init, TheMap

(* Each instruction serves its key.                                        *)
LEMMA HashServes ==
  ASSUME IInv, IInv', NEW key \in Keys
  PROVE  Serves(key)
  <1>1. NoMemory(key) => ~ (FindItem(key) \/ MakeItem(key))
    <2>1. PICK n, m : n = nodes /\ m = made
      OBVIOUS
    <2>2. n \in Int /\ m \in Nat /\ MaxItems \in Nat /\ MaxScalars \in Nat
      BY <2>1, HashAssumption DEF IInv, TypeOK
    <2>3. ~ (n < MaxItems /\ n >= MaxItems) /\ ~ (m < MaxScalars /\ m >= MaxScalars)
      BY <2>2
    <2> QED
      BY <2>1, <2>3, Zenon DEF NoMemory, FindItem, MakeItem
  <1>2. HRINDEX(key) => IF NoMemory(key) THEN status' = "wild" ELSE Map!Index(key)
    <2>1. HRINDEX(key) /\ NoMemory(key) => status' = "wild"
      BY <1>1, Zenon DEF HRINDEX, GoesWild
    <2>2. ASSUME HRINDEX(key), ~ NoMemory(key)
          PROVE  Map!Index(key)
      <3>1. (FindItem(key) \/ MakeItem(key)) /\ result' = <<ValueOf(key)>>
        BY <2>2, Zenon DEF HRINDEX
      <3> QED
        BY <3>1, LookupStep, Zenon DEF Map!Index
    <2> QED
      BY <2>1, <2>2
  <1>3. NextKey /\ key = Head(todo) =>
          IF NoMemory(key) THEN status' = "wild"
          ELSE IF pushing THEN Map!Collect(key) ELSE Map!Fill(key)
    <2>1. NextKey /\ key = Head(todo) /\ NoMemory(key) => status' = "wild"
      BY <1>1, Zenon DEF NextKey, GoesWild
    <2>2. ASSUME NextKey, key = Head(todo), ~ NoMemory(key)
          PROVE  IF pushing THEN Map!Collect(key) ELSE Map!Fill(key)
      <3>1. /\ FindItem(key) \/ MakeItem(key)
            /\ result' = IF pushing THEN Append(result, ValueOf(key)) ELSE result
        BY <2>2, Zenon DEF NextKey
      <3>2. Map!Require(key) /\ ValueOf(key) = Map!ValueOf(key)
        BY <3>1, LookupStep
      <3>3. CASE pushing
        <4>1. result' = Append(result, Map!ValueOf(key))
          BY <3>1, <3>2, <3>3, Zenon
        <4> QED
          BY <3>2, <3>3, <4>1, Zenon DEF Map!Collect
      <3>4. CASE ~ pushing
        <4>1. result' = result
          BY <3>1, <3>4, Zenon
        <4> QED
          BY <3>2, <3>4, <4>1, Zenon DEF Map!Fill
      <3> QED
        BY <3>3, <3>4
    <2> QED
      BY <2>1, <2>2
  <1>4. HRKEYEX(key) => Map!Exists(key)
    <2> SUFFICES ASSUME HRKEYEX(key) PROVE Map!Exists(key)
      OBVIOUS
    <2>1. UNCHANGED table /\ result' = IF Exists(key) THEN <<1>> ELSE <<0>>
      BY Zenon DEF HRKEYEX
    <2>2. TheMap' = TheMap /\ made' = made
      BY <2>1, TableKept
    <2>3. Exists(key) <=> key \in DOMAIN TheMap
      BY Lookup
    <2>4. result' = IF key \in DOMAIN TheMap THEN <<1>> ELSE <<0>>
      BY <2>1, <2>3, Zenon
    <2> QED
      BY <2>2, <2>4, Zenon DEF Map!Exists, TheMap
  <1>5. HRKEYDEL(key) => Map!Delete(key)
    BY DeleteStep
  <1> QED
    BY <1>2, <1>3, <1>4, <1>5, Zenon DEF Serves

(* So do the instructions that concern all keys.                           *)
LEMMA HashListsMap ==
  ASSUME IInv, IInv'
  PROVE  ListsMap
  <1>1. HRLEN => Map!Size
    <2> SUFFICES ASSUME HRLEN PROVE Map!Size
      OBVIOUS
    <2>1. UNCHANGED table /\ result' = <<hash_size>>
      BY Zenon DEF HRLEN
    <2>2. TheMap' = TheMap /\ made' = made
      BY <2>1, TableKept
    <2>3. hash_size = Cardinality(DOMAIN TheMap)
      BY SizeIsKeys
    <2>4. result' = <<Map!Cardinality(DOMAIN TheMap)>>
      BY <2>1, <2>3, SameCardinality, Zenon
    <2> QED
      BY <2>2, <2>4, Zenon DEF Map!Size, TheMap
  <1> QED
    BY <1>1, ListPairsStep, ListKeysStep, ListValuesStep, Zenon DEF ListsMap

LEMMA HashTakesKeys ==
  ASSUME IInv, IInv', NEW keys
  PROVE  /\ HRSLICE(keys) => Map!Begin
         /\ HRFILL(keys) => Map!Clear /\ result' = <<>>
  <1>1. ASSUME HRSLICE(keys)
        PROVE  Map!Begin
    <2>1. UNCHANGED table /\ result' = <<>>
      BY <1>1, Zenon DEF HRSLICE
    <2>2. TheMap' = TheMap /\ made' = made
      BY <2>1, TableKept
    <2> QED
      BY <2>1, <2>2, Zenon DEF Map!Begin, TheMap
  <1>2. ASSUME HRFILL(keys)
        PROVE  Map!Clear /\ result' = <<>>
    <2>1. DestroyBuckets /\ result' = <<>>
      BY <1>2, Zenon DEF HRFILL
    <2> QED
      BY <2>1, ClearStep
  <1> QED
    BY <1>1, <1>2

(* Theorem.  Whatever keys collide, and in whatever order they are         *)
(* entered, found and deleted, to each instruction the buckets are a map:  *)
(* HRINDEX, HRSLICE and HRFILL find the value of the key they ask for,     *)
(* HRKEYDEL deletes that key and no other, HRKEYEX, HRLEN and HRLISTP tell *)
(* what the map has, as long as memory lasts; and HRLISTK and HRLISTV do   *)
(* when their loop comes by as many items as there are (hash.c).           *)
THEOREM HashIsDictionary == Spec => IsDictionary
  <1>1. Init => Map!Init
    BY InitIsEmpty
  <1>2. IInv /\ IInv' =>
          /\ \A key \in Keys : Serves(key)
          /\ \A keys \in KeyLists :
               /\ HRSLICE(keys) => Map!Begin
               /\ HRFILL(keys) => Map!Clear /\ result' = <<>>
          /\ Destroy => Map!Clear
          /\ ListsMap
    <2>1. IInv /\ IInv' /\ Destroy => Map!Clear
      BY ClearStep, Zenon DEF Destroy
    <2> QED
      BY <2>1, HashServes, HashTakesKeys, HashListsMap
  <1> QED
    BY <1>1, <1>2, IInvHolds, PTL DEF Spec, IsDictionary
=============================================================================
