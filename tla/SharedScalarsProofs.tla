------------------------- MODULE SharedScalarsProofs --------------------------
(***************************************************************************)
(* What the runs of SharedScalars check, for every value of the constants.  *)
(* First the inductive invariant and lemmas about its parts: the lists of   *)
(* steps that contexts have still to take, how often each kind of step is   *)
(* in them, the references counted and the mutexes owned.  Then the steps   *)
(* and the instructions: what one context does keeps its own part of the    *)
(* invariant and leaves the other contexts apart.                           *)
(***************************************************************************)
EXTENDS SharedScalars, FiniteSetTheorems, SequenceTheorems,
        WellFoundedInduction, TLAPS

(* Where the steps in E are in the list s, and how many they are           *)
Places(s, E) == {i \in 1 .. Len(s) : s[i] \in E}
Count(s, E) == Cardinality(Places(s, E))

(* Steps by what they do to a scalar: lock it, unlock it, free it,         *)
(* reference it, spend a reference the context holds, and put a reference  *)
(* into a scalar                                                           *)
Locking(x) == {<<"lock", x>>}
Unlocking(x) == {<<"unlock", x>>}
Freeing(x) == {<<"free", x>>}
Referencing(x) == {<<"reference", x>>}
Spending(x) == {<<"release", x>>, <<"free", x>>}
Putting(v) == {<<"put", y, v>> : y \in Scalars}

(* In every list of steps: a scalar that is locked, unlocked or used is    *)
(* released or freed later, so that the context still holds a reference;   *)
SpendsLater(s) ==
  \A i \in 1 .. Len(s) : s[i][1] \in {"lock", "unlock", "clear", "get", "put"} =>
    \E k \in i + 1 .. Len(s) : s[k] \in Spending(s[i][2])

(* a scalar whose value is used is unlocked or freed later, so that the    *)
(* mutex is held;                                                          *)
UnlocksLater(s) ==
  \A i \in 1 .. Len(s) : s[i][1] \in {"clear", "get", "put"} =>
    \E k \in i + 1 .. Len(s) : s[k] \in Unlocking(s[i][2]) \cup Freeing(s[i][2])

(* a reference, from the place "first" on, is made of a scalar that is     *)
(* released later;                                                         *)
ReferenceKept(s, first) ==
  \A i \in first .. Len(s) : s[i][1] = "reference" =>
    \E k \in i + 1 .. Len(s) : s[k] \in Spending(s[i][2])

(* and kinds of steps come in some orders only: what b allows before it.   *)
MayPrecede(a, b) ==
  /\ b[1] = "lock" => a[1] = "reference"
  /\ b[1] = "free" => a[1] \in {"release", "clear", "free"}
  /\ b[1] = "put" => a[1] \in {"lock", "clear", "reference", "release", "free"}
  /\ b[1] = "reference" => a[1] # "put"

Phases(s) ==
  \A j \in 1 .. Len(s) : \A i \in 1 .. j - 1 : MayPrecede(s[i], s[j])

InOrder(s) == SpendsLater(s) /\ UnlocksLater(s) /\ ReferenceKept(s, 2) /\ Phases(s)

(* How often t has locked x                                                *)
Mine(t, x) == IF owner[x] = t THEN depth[x] ELSE 0

(* After SRUNLOCK of a scalar that the context has not locked              *)
Unlocked(t, x) ==
  /\ todo[t] = <<<<"unlock", x>>, <<"release", x>>>>
  /\ locked[t][x] = 0
  /\ owner[x] # t

(* A context owns a mutex as often as its program has locked it and it has *)
(* still to unlock it, less what it has still to lock.                     *)
MutexCounted(t) ==
  \A x \in Scalars :
    \/ Mine(t, x) + Count(todo[t], Locking(x))
         = locked[t][x] + Count(todo[t], Unlocking(x)) + Count(todo[t], Freeing(x))
    \/ Unlocked(t, x)

(* A context holds the references that it has still to release, and with   *)
(* those it has still to make, the ones it has still to put into scalars   *)
(* and one to each scalar its program has locked.                          *)
Kept(t) ==
  \A x \in Scalars :
    /\ holds[t][x] >= Count(todo[t], Spending(x))
    /\ holds[t][x] + Count(todo[t], Referencing(x))
         >= Count(todo[t], Spending(x)) + Count(todo[t], Putting(x))
            + (IF locked[t][x] > 0 THEN 1 ELSE 0)

(* When the next step makes a reference there is one already: the context  *)
(* holds it or it is the value of a scalar the context has locked.         *)
Found(t) ==
  todo[t] # <<>> /\ Head(todo[t])[1] = "reference" =>
    LET v == Head(todo[t])[2] IN
    \/ holds[t][v] > 0
    \/ \E x \in Scalars : owner[x] = t /\ value[x] = v

(* A value is put into a scalar that the context has locked and cleared,   *)
(* or is going to clear before.                                            *)
Cleared(t) ==
  \A j \in 1 .. Len(todo[t]) : todo[t][j][1] = "put" =>
    \/ owner[todo[t][j][2]] = t /\ value[todo[t][j][2]] = Undef
    \/ \E i \in 1 .. j - 1 : todo[t][i] = <<"clear", todo[t][j][2]>>

(* A scalar is freed with its last reference.                              *)
LastFreed(t) ==
  \A i \in 1 .. Len(todo[t]) : todo[t][i][1] = "free" => refs[todo[t][i][2]] = 1

(* A context uses only what a scalar it has locked may refer to, until     *)
(* that is unlocked or freed.                                              *)
Within(t) ==
  /\ \A y \in Scalars : locked[t][y] > 0 =>
       \A i \in 1 .. Len(todo[t]) : todo[t][i][2] \in Reach(y)
  /\ \A j \in 1 .. Len(todo[t]) : todo[t][j][1] \in {"unlock", "free"} =>
       \A i \in 1 .. j - 1 : todo[t][i][2] \in Reach(todo[t][j][2])

(* Values are references to what their scalars may refer to,               *)
Typed ==
  \A x \in Scalars : value[x] # Undef => <<x, value[x]>> \in Refers

(* and so are the values that are to be put.                               *)
PutTyped(t) ==
  \A i \in 1 .. Len(todo[t]) : todo[t][i][1] = "put" /\ todo[t][i][3] # Undef =>
     <<todo[t][i][2], todo[t][i][3]>> \in Refers

(* The invariant, in parts per context                                     *)
OfThread(t) ==
  /\ InOrder(todo[t])
  /\ MutexCounted(t)
  /\ Kept(t)
  /\ Found(t)
  /\ Cleared(t)
  /\ LastFreed(t)
  /\ Within(t)
  /\ PutTyped(t)

Inv ==
  /\ TypeOK
  /\ RefsExact
  /\ Typed
  /\ \A t \in Threads : OfThread(t)

-----------------------------------------------------------------------------
(* Lists of steps and counts                                               *)

(* The tail of a list of steps, place by place.                            *)
LEMMA TailOf ==
  ASSUME NEW S, NEW s \in Seq(S), s # <<>>
  PROVE  /\ Tail(s) \in Seq(S)
         /\ Len(s) \in Nat /\ Len(s) >= 1
         /\ Len(Tail(s)) = Len(s) - 1
         /\ \A i \in 1 .. Len(s) - 1 : Tail(s)[i] = s[i + 1]
         /\ \A i \in 2 .. Len(s) : s[i] = Tail(s)[i - 1]
         /\ Head(s) = s[1] /\ s[1] \in S
  OBVIOUS

(* A list with a step put in front of it, place by place.                  *)
LEMMA ConsOf ==
  ASSUME NEW S, NEW s \in Seq(S), NEW a \in S
  PROVE  /\ <<a>> \o s \in Seq(S)
         /\ Len(<<a>> \o s) = Len(s) + 1
         /\ Len(s) \in Nat
         /\ (<<a>> \o s)[1] = a
         /\ \A i \in 1 .. Len(s) : (<<a>> \o s)[i + 1] = s[i]
         /\ \A i \in 2 .. Len(s) + 1 : (<<a>> \o s)[i] = s[i - 1]
         /\ <<a>> \o s # <<>> /\ Head(<<a>> \o s) = a
  OBVIOUS

(* The places of a list that hold a step of E are finitely many.           *)
LEMMA PlacesFinite ==
  ASSUME NEW S, NEW s \in Seq(S), NEW E
  PROVE  IsFiniteSet(Places(s, E)) /\ Count(s, E) \in Nat
  <1>1. Places(s, E) \subseteq 1 .. Len(s) /\ Len(s) \in Nat
    BY DEF Places
  <1>2. IsFiniteSet(1 .. Len(s))
    BY <1>1, FS_Interval
  <1> QED
    BY <1>1, <1>2, FS_Subset, FS_CardinalityType DEF Count

(* The count of E is 0 exactly if no place holds a step of E.              *)
LEMMA CountNone ==
  ASSUME NEW S, NEW s \in Seq(S), NEW E
  PROVE  Count(s, E) = 0 <=> \A i \in 1 .. Len(s) : s[i] \notin E
  <1>1. Places(s, E) = {} <=> \A i \in 1 .. Len(s) : s[i] \notin E
    BY DEF Places
  <1> QED
    BY <1>1, PlacesFinite, FS_EmptySet DEF Count

(* Two places that hold a step of E count for two.                         *)
LEMMA CountTwo ==
  ASSUME NEW S, NEW s \in Seq(S), NEW E,
         NEW i \in 1 .. Len(s), NEW k \in 1 .. Len(s), i # k, s[i] \in E, s[k] \in E
  PROVE  Count(s, E) >= 2
  <1>1. i \in Places(s, E) /\ k \in Places(s, E) \ {i}
    BY DEF Places
  <1>2. IsFiniteSet(Places(s, E)) /\ Count(s, E) \in Nat
    BY PlacesFinite
  <1>3. /\ IsFiniteSet(Places(s, E) \ {i})
        /\ Cardinality(Places(s, E) \ {i}) = Count(s, E) - 1
    BY <1>1, <1>2, FS_RemoveElement DEF Count
  <1>4. Cardinality(Places(s, E) \ {i}) \in Nat /\ Cardinality(Places(s, E) \ {i}) # 0
    BY <1>1, <1>3, FS_EmptySet, FS_CardinalityType
  <1> QED
    BY <1>2, <1>3, <1>4

(* Taking the first step counts it out.                                    *)
LEMMA CountTail ==
  ASSUME NEW S, NEW s \in Seq(S), s # <<>>, NEW E
  PROVE  Count(s, E) = Count(Tail(s), E) + (IF Head(s) \in E THEN 1 ELSE 0)
  <1> DEFINE r == Tail(s)
             A == Places(r, E)
             B == Places(s, E) \ {1}
             f == [i \in A |-> i + 1]
  <1>1. /\ r \in Seq(S) /\ Len(s) \in Nat /\ Len(s) >= 1 /\ Len(r) = Len(s) - 1
        /\ \A i \in 1 .. Len(r) : r[i] = s[i + 1]
        /\ Head(s) = s[1]
    OBVIOUS
  <1>2. IsFiniteSet(A) /\ IsFiniteSet(Places(s, E)) /\ Count(r, E) \in Nat /\ Count(s, E) \in Nat
    BY <1>1, PlacesFinite
  <1>3. IsFiniteSet(B)
    BY <1>2, FS_RemoveElement
  <1>4. f \in Bijection(A, B)
    <2>1. ASSUME NEW i \in A PROVE i + 1 \in B
      BY <1>1 DEF Places
    <2>2. ASSUME NEW k \in B PROVE \E i \in A : i + 1 = k
      <3>1. k - 1 \in A /\ (k - 1) + 1 = k
        BY <1>1 DEF Places
      <3> QED
        BY <3>1
    <2>3. \A i \in A : i \in Int
      BY DEF Places
    <2> HIDE DEF A, B
    <2>4. f \in Injection(A, B)
      BY <2>1, <2>3 DEF Injection, IsInjective
    <2>5. f \in Surjection(A, B)
      BY <2>1, <2>2 DEF Surjection
    <2> QED
      BY <2>4, <2>5 DEF Bijection
  <1>5. Cardinality(A) = Cardinality(B)
    <2> HIDE DEF A, B, f
    <2>1. ExistsBijection(A, B)
      BY <1>4 DEF ExistsBijection
    <2> QED
      BY <1>2, <1>3, <2>1, FS_Bijection
  <1>6. CASE Head(s) \in E
    <2>1. 1 \in Places(s, E)
      BY <1>1, <1>6 DEF Places
    <2>2. Cardinality(B) = Count(s, E) - 1
      BY <1>2, <2>1, FS_RemoveElement DEF Count
    <2> QED
      BY <1>2, <1>5, <1>6, <2>2 DEF Count
  <1>7. CASE Head(s) \notin E
    <2>1. B = Places(s, E)
      BY <1>1, <1>7 DEF Places
    <2>2. Count(s, E) = Count(r, E)
      BY <1>5, <2>1 DEF Count
    <2> HIDE DEF r
    <2> QED
      BY <1>2, <1>7, <2>2 DEF r
  <1> QED
    BY <1>6, <1>7

(* Counts of two lists that are put together add up.                       *)
LEMMA CountConcat ==
  ASSUME NEW S, NEW s \in Seq(S), NEW r \in Seq(S), NEW E
  PROVE  Count(s \o r, E) = Count(s, E) + Count(r, E)
  <1> DEFINE n == Len(s)
             q == s \o r
             A == Places(s, E)
             B == Places(r, E)
             C == {i \in n + 1 .. Len(q) : q[i] \in E}
             f == [i \in B |-> i + n]
  <1>1. /\ q \in Seq(S) /\ n \in Nat /\ Len(r) \in Nat /\ Len(q) = n + Len(r)
        /\ \A i \in 1 .. n + Len(r) : q[i] = IF i <= n THEN s[i] ELSE r[i - n]
    BY ConcatProperties
  <1> HIDE DEF n, q
  <1>2. \A i \in 1 .. Len(r) : i + n \in n + 1 .. Len(q) /\ q[i + n] = r[i]
    BY <1>1
  <1>3. Places(q, E) = A \cup C /\ A \cap C = {}
    <2>1. \A i \in 1 .. n : q[i] = s[i]
      BY <1>1
    <2>2. \A i : i \in 1 .. Len(q) <=> i \in 1 .. n \/ i \in n + 1 .. Len(q)
      BY <1>1
    <2>3. \A i \in 1 .. n : i \notin n + 1 .. Len(q)
      BY <1>1
    <2> QED
      BY <2>1, <2>2, <2>3 DEF Places, n
  <1>4. IsFiniteSet(A) /\ IsFiniteSet(B) /\ Count(s, E) \in Nat /\ Count(r, E) \in Nat
    BY PlacesFinite
  <1>5. f \in Bijection(B, C)
    <2>1. ASSUME NEW i \in B PROVE i + n \in C
      BY <1>2 DEF Places
    <2>2. ASSUME NEW k \in C PROVE \E i \in B : i + n = k
      <3>1. k - n \in B /\ (k - n) + n = k
        BY <1>1 DEF Places
      <3> QED
        BY <3>1
    <2>3. \A i \in B : i \in Int
      BY DEF Places
    <2> HIDE DEF B, C
    <2>4. f \in Injection(B, C)
      BY <1>1, <2>1, <2>3, SMTT(30) DEF Injection, IsInjective
    <2>5. f \in Surjection(B, C)
      BY <2>1, <2>2 DEF Surjection
    <2> QED
      BY <2>4, <2>5 DEF Bijection
  <1>6. IsFiniteSet(C)
    <2>1. IsFiniteSet(n + 1 .. Len(q))
      BY <1>1, FS_Interval
    <2> QED
      BY <2>1, FS_Subset
  <1>7. Cardinality(B) = Cardinality(C)
    <2> HIDE DEF B, C, f
    <2>1. ExistsBijection(B, C)
      BY <1>5 DEF ExistsBijection
    <2> QED
      BY <1>4, <1>6, <2>1, FS_Bijection
  <1>8. Cardinality(A \cup C) = Cardinality(A) + Cardinality(C) - Cardinality(A \cap C)
    <2> HIDE DEF A, C
    <2> QED
      BY <1>4, <1>6, FS_Union
  <1>9. Cardinality(A \cap C) = 0
    BY <1>3, FS_EmptySet
  <1>10. /\ Count(s \o r, E) = Cardinality(A \cup C)
         /\ Count(s, E) = Cardinality(A) /\ Count(r, E) = Cardinality(B)
    BY <1>3 DEF Count, q
  <1> HIDE DEF A, B, C
  <1> QED
    BY <1>4, <1>7, <1>8, <1>9, <1>10

(* Lists of no, one and two steps                                          *)
None(s) == Len(s) = 0
One(s, a) == Len(s) = 1 /\ s[1] = a
Two(s, a, b) == Len(s) = 2 /\ s[1] = a /\ s[2] = b

(* The counts of lists of no, one and two steps.                           *)
LEMMA CountShort ==
  ASSUME NEW S, NEW E
  PROVE  /\ \A s \in Seq(S) : None(s) => Count(s, E) = 0
         /\ \A s \in Seq(S) : \A a : One(s, a) => Count(s, E) = IF a \in E THEN 1 ELSE 0
         /\ \A s \in Seq(S) : \A a, b : Two(s, a, b) =>
              Count(s, E) = (IF a \in E THEN 1 ELSE 0) + (IF b \in E THEN 1 ELSE 0)
  <1>1. \A s \in Seq(S) : None(s) => Count(s, E) = 0
    <2> SUFFICES ASSUME NEW s \in Seq(S), None(s)
                 PROVE  Count(s, E) = 0
      OBVIOUS
    <2>1. \A i \in 1 .. Len(s) : s[i] \notin E
      BY DEF None
    <2> QED
      BY <2>1, CountNone
  <1>2. \A s \in Seq(S) : \A a : One(s, a) => Count(s, E) = IF a \in E THEN 1 ELSE 0
    <2> SUFFICES ASSUME NEW s \in Seq(S), NEW a, One(s, a)
                 PROVE  Count(s, E) = IF a \in E THEN 1 ELSE 0
      OBVIOUS
    <2>1. Len(s) = 1
      BY DEF One
    <2>2. s # <<>>
      BY <2>1
    <2>3. Tail(s) \in Seq(S) /\ None(Tail(s)) /\ Head(s) = a
      BY <2>2, TailOf DEF One, None
    <2>4. Count(s, E) = Count(Tail(s), E) + (IF Head(s) \in E THEN 1 ELSE 0)
      BY <2>2, CountTail
    <2>5. Count(Tail(s), E) = 0
      BY <1>1, <2>3
    <2> QED
      BY <2>3, <2>4, <2>5
  <1>3. \A s \in Seq(S) : \A a, b : Two(s, a, b) =>
          Count(s, E) = (IF a \in E THEN 1 ELSE 0) + (IF b \in E THEN 1 ELSE 0)
    <2> SUFFICES ASSUME NEW s \in Seq(S), NEW a, NEW b, Two(s, a, b)
                 PROVE  Count(s, E) = (IF a \in E THEN 1 ELSE 0) + (IF b \in E THEN 1 ELSE 0)
      OBVIOUS
    <2>1. s # <<>>
      BY DEF Two
    <2>2. Tail(s) \in Seq(S) /\ One(Tail(s), b) /\ Head(s) = a
      BY <2>1, TailOf, SMTT(30) DEF One, Two
    <2>3. Count(s, E) = Count(Tail(s), E) + (IF Head(s) \in E THEN 1 ELSE 0)
      BY <2>1, CountTail
    <2>4. Count(Tail(s), E) = IF b \in E THEN 1 ELSE 0
      BY <1>2, <2>2
    <2> QED
      BY <2>2, <2>3, <2>4
  <1> QED
    BY <1>1, <1>2, <1>3

-----------------------------------------------------------------------------
(* Steps taken                                                             *)

(* The order of a list outlives its first step being taken; what was asked *)
(* of all references but the first is then asked of all.                   *)
LEMMA OrderTail ==
  ASSUME NEW s \in Seq(Steps), s # <<>>, InOrder(s)
  PROVE  InOrder(Tail(s)) /\ ReferenceKept(Tail(s), 1)
  <1> DEFINE r == Tail(s)
  <1>1. /\ Len(s) \in Nat /\ Len(r) = Len(s) - 1
        /\ \A i \in 1 .. Len(r) : r[i] = s[i + 1]
        /\ \A i \in 2 .. Len(s) : s[i] = r[i - 1]
    BY TailOf
  <1> HIDE DEF r
  <1>2. ASSUME NEW i \in 1 .. Len(r), NEW E, \E k \in (i + 1) + 1 .. Len(s) : s[k] \in E
        PROVE  \E k \in i + 1 .. Len(r) : r[k] \in E
    <2>1. PICK k \in (i + 1) + 1 .. Len(s) : s[k] \in E
      BY <1>2
    <2>2. k - 1 \in i + 1 .. Len(r) /\ r[k - 1] = s[k]
      BY <1>1, <2>1
    <2> QED
      BY <2>1, <2>2
  <1>3. \A i \in 1 .. Len(r) : i + 1 \in 2 .. Len(s) /\ i + 1 \in 1 .. Len(s) /\ r[i] = s[i + 1]
    BY <1>1
  <1>4. SpendsLater(r)
    BY <1>2, <1>3 DEF InOrder, SpendsLater
  <1>5. UnlocksLater(r)
    BY <1>2, <1>3 DEF InOrder, UnlocksLater
  <1>6. ReferenceKept(r, 1)
    BY <1>2, <1>3 DEF InOrder, ReferenceKept
  <1>7. ReferenceKept(r, 2)
    BY <1>1, <1>6 DEF ReferenceKept
  <1>8. ASSUME NEW j \in 1 .. Len(r), NEW i \in 1 .. j - 1
        PROVE  MayPrecede(r[i], r[j])
    <2>1. i + 1 \in 1 .. (j + 1) - 1 /\ j + 1 \in 1 .. Len(s) /\ i \in 1 .. Len(r)
      BY <1>1
    <2>2. MayPrecede(s[i + 1], s[j + 1])
      BY <2>1 DEF InOrder, Phases
    <2> QED
      BY <1>3, <2>1, <2>2
  <1> QED
    BY <1>4, <1>5, <1>6, <1>7, <1>8 DEF InOrder, Phases, r

(* A step can be put in front of an ordered list if what it asks of later  *)
(* steps is there.                                                         *)
LEMMA OrderCons ==
  ASSUME NEW r \in Seq(Steps), InOrder(r), ReferenceKept(r, 1), NEW a \in Steps,
         a[1] \in {"lock", "unlock", "clear", "get", "put"} =>
           \E k \in 1 .. Len(r) : r[k] \in Spending(a[2]),
         a[1] \in {"clear", "get", "put"} =>
           \E k \in 1 .. Len(r) : r[k] \in Unlocking(a[2]) \cup Freeing(a[2]),
         \A j \in 1 .. Len(r) : MayPrecede(a, r[j])
  PROVE  /\ InOrder(<<a>> \o r)
         /\ a[1] # "reference" => ReferenceKept(<<a>> \o r, 1)
  <1> DEFINE s == <<a>> \o r
  <1>1. /\ Len(r) \in Nat /\ Len(s) = Len(r) + 1
        /\ \A i \in 1 .. Len(r) : s[i + 1] = r[i]
        /\ \A i \in 2 .. Len(s) : s[i] = r[i - 1]
        /\ s[1] = a
    BY ConsOf
  <1> HIDE DEF s
  <1>2. ASSUME NEW i \in 1 .. Len(r), NEW E, \E k \in i + 1 .. Len(r) : r[k] \in E
        PROVE  \E k \in (i + 1) + 1 .. Len(s) : s[k] \in E
    <2>1. PICK k \in i + 1 .. Len(r) : r[k] \in E
      BY <1>2
    <2>2. k + 1 \in (i + 1) + 1 .. Len(s) /\ s[k + 1] = r[k]
      BY <1>1, <2>1
    <2> QED
      BY <2>1, <2>2
  <1>3. ASSUME NEW E, \E k \in 1 .. Len(r) : r[k] \in E
        PROVE  \E k \in 1 + 1 .. Len(s) : s[k] \in E
    <2>1. PICK k \in 1 .. Len(r) : r[k] \in E
      BY <1>3
    <2>2. k + 1 \in 1 + 1 .. Len(s) /\ s[k + 1] = r[k]
      BY <1>1, <2>1
    <2> QED
      BY <2>1, <2>2
  <1>4. \A i \in 1 .. Len(s) :
          \/ i = 1 /\ s[i] = a
          \/ i - 1 \in 1 .. Len(r) /\ s[i] = r[i - 1] /\ (i - 1) + 1 = i
    BY <1>1
  <1>5. SpendsLater(s)
    <2> SUFFICES ASSUME NEW i \in 1 .. Len(s), s[i][1] \in {"lock", "unlock", "clear", "get", "put"}
                 PROVE  \E k \in i + 1 .. Len(s) : s[k] \in Spending(s[i][2])
      BY DEF SpendsLater
    <2>1. CASE i = 1
      BY <1>1, <1>3, <2>1
    <2>2. CASE i # 1
      <3>1. i - 1 \in 1 .. Len(r) /\ s[i] = r[i - 1] /\ (i - 1) + 1 = i
        BY <1>4, <2>2
      <3>2. \E k \in (i - 1) + 1 .. Len(r) : r[k] \in Spending(s[i][2])
        BY <3>1 DEF InOrder, SpendsLater
      <3> HIDE DEF Spending
      <3> QED
        BY <1>2, <3>1, <3>2
    <2> QED
      BY <2>1, <2>2
  <1>6. UnlocksLater(s)
    <2> SUFFICES ASSUME NEW i \in 1 .. Len(s), s[i][1] \in {"clear", "get", "put"}
                 PROVE  \E k \in i + 1 .. Len(s) : s[k] \in Unlocking(s[i][2]) \cup Freeing(s[i][2])
      BY DEF UnlocksLater
    <2>1. CASE i = 1
      BY <1>1, <1>3, <2>1
    <2>2. CASE i # 1
      <3>1. i - 1 \in 1 .. Len(r) /\ s[i] = r[i - 1] /\ (i - 1) + 1 = i
        BY <1>4, <2>2
      <3>2. \E k \in (i - 1) + 1 .. Len(r) : r[k] \in Unlocking(s[i][2]) \cup Freeing(s[i][2])
        BY <3>1 DEF InOrder, UnlocksLater
      <3> QED
        BY <1>2, <3>1, <3>2
    <2> QED
      BY <2>1, <2>2
  <1>7. ReferenceKept(s, 2)
    <2> SUFFICES ASSUME NEW i \in 2 .. Len(s), s[i][1] = "reference"
                 PROVE  \E k \in i + 1 .. Len(s) : s[k] \in Spending(s[i][2])
      BY DEF ReferenceKept
    <2>1. i - 1 \in 1 .. Len(r) /\ s[i] = r[i - 1] /\ (i - 1) + 1 = i
      BY <1>1
    <2>2. \E k \in (i - 1) + 1 .. Len(r) : r[k] \in Spending(s[i][2])
      BY <2>1 DEF ReferenceKept
    <2> QED
      BY <1>2, <2>1, <2>2
  <1>8. a[1] # "reference" => ReferenceKept(s, 1)
    BY <1>1, <1>7 DEF ReferenceKept
  <1>9. ASSUME NEW j \in 1 .. Len(s), NEW i \in 1 .. j - 1
        PROVE  MayPrecede(s[i], s[j])
    <2>1. j - 1 \in 1 .. Len(r) /\ s[j] = r[j - 1]
      BY <1>1
    <2>2. CASE i = 1
      BY <1>1, <2>1, <2>2
    <2>3. CASE i # 1
      <3>1. i - 1 \in 1 .. (j - 1) - 1 /\ s[i] = r[i - 1]
        BY <1>1, <2>1, <2>3
      <3> QED
        BY <2>1, <3>1 DEF InOrder, Phases
    <2> QED
      BY <2>2, <2>3
  <1> QED
    BY <1>5, <1>6, <1>7, <1>9, <1>8 DEF InOrder, Phases, s

(* What Take says of the list before and after.                            *)
LEMMA Taken ==
  ASSUME TypeOK, NEW t \in Threads, NEW x \in Scalars, NEW op, NEW first \in Seq(Steps),
         Take(t, op, x, first)
  PROVE  /\ todo[t] \in Seq(Steps) /\ todo[t] # <<>>
         /\ todo' \in [Threads -> Seq(Steps)]
         /\ todo'[t] = first \o Tail(todo[t])
         /\ \A u \in Threads \ {t} : todo'[u] = todo[u]
         /\ todo[t][1][1] = op /\ todo[t][1][2] = x
         /\ Head(todo[t]) = todo[t][1] /\ todo[t][1] \in Steps
         /\ op # "put" => todo[t][1] = <<op, x>>
         /\ op = "put" => /\ todo[t][1] = <<"put", x, todo[t][1][3]>>
                          /\ todo[t][1][3] \in Scalars \cup {Undef}
  <1>1. todo[t] \in Seq(Steps) /\ todo[t] # <<>>
    BY DEF TypeOK, Take
  <1>2. Tail(todo[t]) \in Seq(Steps) /\ Head(todo[t]) = todo[t][1] /\ todo[t][1] \in Steps
    BY <1>1, TailOf
  <1>3. first \o Tail(todo[t]) \in Seq(Steps)
    BY <1>2
  <1>4. todo' = [todo EXCEPT ![t] = first \o Tail(todo[t])]
    BY DEF Take
  <1>5. todo[t][1][1] = op /\ todo[t][1][2] = x
    BY <1>2 DEF Take
  <1>6. op # "put" => todo[t][1] = <<op, x>>
    <2>1. op # "put" => todo[t][1] \in Kinds \X Scalars
      BY <1>2, <1>5 DEF Steps
    <2> QED
      BY <1>5, <2>1
  <1>7. op = "put" => /\ todo[t][1] = <<"put", x, todo[t][1][3]>>
                      /\ todo[t][1][3] \in Scalars \cup {Undef}
    <2>1. op = "put" => todo[t][1] \in {"put"} \X Scalars \X (Scalars \cup {Undef})
      BY <1>2, <1>5 DEF Steps, Kinds
    <2> QED
      BY <1>5, <2>1
  <1>8. /\ todo' \in [Threads -> Seq(Steps)]
        /\ todo'[t] = first \o Tail(todo[t])
        /\ \A u \in Threads \ {t} : todo'[u] = todo[u]
    BY <1>3, <1>4 DEF TypeOK
  <1> QED
    BY <1>1, <1>2, <1>5, <1>6, <1>7, <1>8

(* The steps of the code are steps.                                        *)
LEMMA StepTypes ==
  ASSUME NEW x \in Scalars
  PROVE  /\ \A op \in Kinds : <<op, x>> \in Steps /\ <<<<op, x>>>> \in Seq(Steps)
         /\ \A v \in Scalars \cup {Undef} : <<"put", x, v>> \in Steps
  BY DEF Steps

(* Nothing comes of putting no steps in front.                             *)
LEMMA NoStepsFirst ==
  ASSUME NEW none \in Seq(Steps), None(none), NEW s \in Seq(Steps)
  PROVE  none \o s = s
  <1>1. /\ none \o s \in Seq(Steps) /\ Len(none \o s) = Len(s) /\ Len(s) \in Nat
        /\ \A i \in 1 .. Len(s) : (none \o s)[i] = s[i]
    BY DEF None
  <1> QED
    BY <1>1, SeqEqual

(* What a step does to the count of E: it goes, and the steps that come in *)
(* its place are added.                                                    *)
LEMMA TakenCount ==
  ASSUME TypeOK, NEW t \in Threads, NEW x \in Scalars, NEW op, NEW first \in Seq(Steps),
         Take(t, op, x, first), NEW E
  PROVE  /\ Count(todo[t], E) \in Nat
         /\ Count(todo'[t], E) = Count(todo[t], E) - (IF todo[t][1] \in E THEN 1 ELSE 0)
                                + Count(first, E)
  <1> DEFINE r == Tail(todo[t])
  <1>1. /\ todo[t] \in Seq(Steps) /\ todo[t] # <<>> /\ todo'[t] = first \o r
        /\ Head(todo[t]) = todo[t][1]
    BY Taken
  <1>2. r \in Seq(Steps)
    BY <1>1, TailOf
  <1>3. Count(todo[t], E) \in Nat /\ Count(r, E) \in Nat /\ Count(first, E) \in Nat
    BY <1>1, <1>2, PlacesFinite
  <1>4. Count(todo[t], E) = Count(r, E) + (IF todo[t][1] \in E THEN 1 ELSE 0)
    BY <1>1, CountTail
  <1> HIDE DEF r
  <1>5. Count(todo'[t], E) = Count(first, E) + Count(r, E)
    BY <1>1, <1>2, CountConcat
  <1> QED
    BY <1>3, <1>4, <1>5

-----------------------------------------------------------------------------
(* References held                                                         *)

(* The references that contexts hold to a scalar are finitely many.        *)
LEMMA TokensFinite ==
  ASSUME TypeOK, NEW x \in Scalars
  PROVE  IsFiniteSet(HeldTokens(x))
  <1> DEFINE T(t) == {t} \X (1 .. holds[t][x])
  <1>1. ASSUME NEW t \in Threads
        PROVE  IsFiniteSet({t} \X (1 .. holds[t][x]))
    <2>1. IsFiniteSet({t})
      BY FS_Singleton
    <2>2. IsFiniteSet(1 .. holds[t][x])
      BY FS_Interval DEF TypeOK
    <2> QED
      BY <2>1, <2>2, FS_Product
  <1> DEFINE Parts == {{t} \X (1 .. holds[t][x]) : t \in Threads}
             f == [t \in Threads |-> {t} \X (1 .. holds[t][x])]
  <1>2. f \in Surjection(Threads, Parts)
    BY DEF Surjection
  <1>3. IsFiniteSet(Parts)
    <2> HIDE DEF Parts, f
    <2> QED
      BY <1>2, FS_Surjection, SharedScalarsAssumption DEF ExistsSurjection
  <1>4. \A P \in Parts : IsFiniteSet(P)
    BY <1>1
  <1>5. IsFiniteSet(UNION Parts)
    <2> HIDE DEF Parts
    <2> QED
      BY <1>3, <1>4, FS_UNION
  <1> QED
    BY <1>5 DEF HeldTokens

(* So are the scalars whose value is a reference to it.                    *)
LEMMA ReferringFinite ==
  ASSUME NEW x
  PROVE  /\ IsFiniteSet({y \in Scalars : value[y] = x})
         /\ Cardinality({y \in Scalars : value[y] = x}) \in Nat
  <1>1. {y \in Scalars : value[y] = x} \subseteq Scalars
    OBVIOUS
  <1> QED
    BY <1>1, FS_Subset, FS_CardinalityType, SharedScalarsAssumption

(* A context holds no more references than are counted, and a scalar       *)
(* another refers to has one.                                              *)
LEMMA HoldsCounted ==
  ASSUME TypeOK, RefsExact, NEW t \in Threads, NEW x \in Scalars
  PROVE  /\ holds[t][x] \in Nat /\ refs[x] \in Nat
         /\ holds[t][x] <= refs[x]
         /\ \A y \in Scalars : value[y] = x => refs[x] > 0
  <1> DEFINE T == {t} \X (1 .. holds[t][x])
             V == {y \in Scalars : value[y] = x}
             f == [n \in 1 .. holds[t][x] |-> <<t, n>>]
  <1>1. holds[t][x] \in Nat /\ refs[x] \in Nat
    BY DEF TypeOK
  <1>2. T \subseteq HeldTokens(x)
    BY DEF HeldTokens
  <1>3. IsFiniteSet(HeldTokens(x)) /\ Cardinality(HeldTokens(x)) \in Nat
    BY TokensFinite, FS_CardinalityType
  <1>4. IsFiniteSet(T) /\ Cardinality(T) <= Cardinality(HeldTokens(x))
    BY <1>2, <1>3, FS_Subset
  <1>5. Cardinality(T) = holds[t][x]
    <2>1. IsFiniteSet({t}) /\ Cardinality({t}) = 1
      BY FS_Singleton
    <2>2. IsFiniteSet(1 .. holds[t][x]) /\ Cardinality(1 .. holds[t][x]) = holds[t][x]
      <3> DEFINE h == holds[t][x]
      <3>1. h \in Nat /\ h \in Int /\ 1 \in Int
        BY <1>1
      <3> HIDE DEF h
      <3>2. /\ IsFiniteSet(1 .. h)
            /\ Cardinality(1 .. h) = IF 1 > h THEN 0 ELSE h - 1 + 1
        BY <3>1, FS_Interval
      <3>3. Cardinality(1 .. h) = h
        BY <3>1, <3>2
      <3> QED
        BY <3>2, <3>3 DEF h
    <2>3. Cardinality(T) = Cardinality({t}) * Cardinality(1 .. holds[t][x])
      BY <2>1, <2>2, FS_Product
    <2> QED
      BY <1>1, <2>1, <2>2, <2>3
  <1>6. IsFiniteSet(V) /\ Cardinality(V) \in Nat
    BY ReferringFinite
  <1>7. \A y \in Scalars : value[y] = x => Cardinality(V) # 0
    <2>1. \A y \in Scalars : value[y] = x => V # {}
      OBVIOUS
    <2> QED
      BY <1>6, <2>1, FS_EmptySet
  <1>8. refs[x] = Cardinality(HeldTokens(x)) + Cardinality(V)
    BY DEF RefsExact
  <1> HIDE DEF T, V
  <1> QED
    BY <1>1, <1>3, <1>4, <1>5, <1>6, <1>7, <1>8

(* The elements of the set that RefsExact counts.                          *)
LEMMA TokensOf ==
  ASSUME NEW h, NEW x
  PROVE  \A e : e \in UNION {{t} \X (1 .. h[t][x]) : t \in Threads} <=>
                 \E u \in Threads : \E n \in 1 .. h[u][x] : e = <<u, n>>
  OBVIOUS

(* A context that gains a reference makes them one more (POOL_REFERENCE,   *)
(* or a value taken out of a scalar).                                      *)
LEMMA TokensGained ==
  ASSUME TypeOK, NEW t \in Threads, NEW x \in Scalars, Gains(t, x)
  PROVE  /\ holds' \in [Threads -> [Scalars -> Nat]]
         /\ \A u \in Threads, y \in Scalars :
              holds'[u][y] = holds[u][y] + (IF u = t /\ y = x THEN 1 ELSE 0)
         /\ \A y \in Scalars : Cardinality(HeldTokens(y))'
                                = Cardinality(HeldTokens(y)) + (IF y = x THEN 1 ELSE 0)
  <1>1. holds \in [Threads -> [Scalars -> Nat]]
    BY DEF TypeOK
  <1>2. holds' = [holds EXCEPT ![t] = [holds[t] EXCEPT ![x] = holds[t][x] + 1]]
    BY <1>1 DEF Gains
  <1>3. /\ holds' \in [Threads -> [Scalars -> Nat]]
        /\ holds'[t][x] = holds[t][x] + 1
        /\ \A u \in Threads : \A y \in Scalars : u # t \/ y # x => holds'[u][y] = holds[u][y]
    BY <1>1, <1>2
  <1>4. ASSUME NEW y \in Scalars, y # x
        PROVE  HeldTokens(y)' = HeldTokens(y)
    BY <1>3, <1>4 DEF HeldTokens
  <1> DEFINE new == <<t, holds[t][x] + 1>>
             A == HeldTokens(x)
             B == HeldTokens(x)'
  <1>5. \A e : e \in A <=> \E u \in Threads : \E n \in 1 .. holds[u][x] : e = <<u, n>>
    BY TokensOf DEF HeldTokens
  <1>6. \A e : e \in B <=> \E u \in Threads : \E n \in 1 .. holds'[u][x] : e = <<u, n>>
    BY TokensOf DEF HeldTokens
  <1> HIDE DEF A, B
  <1>7. new \notin A
    <2>1. holds[t][x] \in Nat
      BY <1>1
    <2> QED
      BY <1>5, <2>1
  <1>8. B = A \cup {new}
    <2>1. ASSUME NEW e \in B
          PROVE  e \in A \cup {new}
      <3>1. PICK u \in Threads : \E n \in 1 .. holds'[u][x] : e = <<u, n>>
        BY <1>6
      <3>2. PICK n \in 1 .. holds'[u][x] : e = <<u, n>>
        BY <3>1
      <3>3. CASE u = t
        <4>1. n \in 1 .. holds[t][x] \/ n = holds[t][x] + 1
          BY <1>1, <1>3, <3>3, SMTT(30)
        <4> QED
          BY <1>5, <3>2, <3>3, <4>1
      <3>4. CASE u # t
        BY <1>3, <1>5, <3>2, <3>4
      <3> QED
        BY <3>3, <3>4
    <2>2. ASSUME NEW e \in A
          PROVE  e \in B
      <3>1. PICK u \in Threads : \E n \in 1 .. holds[u][x] : e = <<u, n>>
        BY <1>5
      <3>2. PICK n \in 1 .. holds[u][x] : e = <<u, n>>
        BY <3>1
      <3>3. n \in 1 .. holds'[u][x]
        BY <1>1, <1>3
      <3> QED
        BY <1>6, <3>2, <3>3
    <2>3. new \in B
      <3>1. holds[t][x] + 1 \in 1 .. holds'[t][x]
        BY <1>1, <1>3
      <3> QED
        BY <1>6, <3>1
    <2> QED
      BY <2>1, <2>2, <2>3
  <1>9. IsFiniteSet(A)
    BY TokensFinite DEF A
  <1>10. Cardinality(B) = Cardinality(A) + 1
    <2> HIDE DEF new
    <2> QED
      BY <1>7, <1>8, <1>9, FS_AddElement
  <1>11. \A y \in Scalars : Cardinality(HeldTokens(y)) \in Nat
    BY TokensFinite, FS_CardinalityType
  <1>12. Cardinality(HeldTokens(x))' = Cardinality(HeldTokens(x)) + 1
    BY <1>10 DEF A, B
  <1>13. \A y \in Scalars : y # x => Cardinality(HeldTokens(y))' = Cardinality(HeldTokens(y)) + 0
    BY <1>4, <1>11
  <1>14. \A u \in Threads, y \in Scalars : holds[u][y] \in Nat
    BY <1>1
  <1> QED
    BY <1>3, <1>12, <1>13, <1>14

(* A context that loses one makes them one fewer (POOL_RELEASE, or a value *)
(* put into a scalar).                                                     *)
LEMMA TokensLost ==
  ASSUME TypeOK, NEW t \in Threads, NEW x \in Scalars, Loses(t, x), holds[t][x] >= 1
  PROVE  /\ holds' \in [Threads -> [Scalars -> Nat]]
         /\ \A u \in Threads, y \in Scalars :
              holds'[u][y] = holds[u][y] - (IF u = t /\ y = x THEN 1 ELSE 0)
         /\ \A y \in Scalars : Cardinality(HeldTokens(y))'
                                = Cardinality(HeldTokens(y)) - (IF y = x THEN 1 ELSE 0)
  <1>1. holds \in [Threads -> [Scalars -> Nat]] /\ holds[t][x] - 1 \in Nat
    BY DEF TypeOK
  <1>2. holds' = [holds EXCEPT ![t] = [holds[t] EXCEPT ![x] = holds[t][x] - 1]]
    BY <1>1 DEF Loses
  <1>3. /\ holds' \in [Threads -> [Scalars -> Nat]]
        /\ holds'[t][x] = holds[t][x] - 1
        /\ \A u \in Threads : \A y \in Scalars : u # t \/ y # x => holds'[u][y] = holds[u][y]
    BY <1>1, <1>2
  <1>4. ASSUME NEW y \in Scalars, y # x
        PROVE  HeldTokens(y)' = HeldTokens(y)
    BY <1>3, <1>4 DEF HeldTokens
  <1> DEFINE old == <<t, holds[t][x]>>
             A == HeldTokens(x)
             B == HeldTokens(x)'
  <1>5. \A e : e \in A <=> \E u \in Threads : \E n \in 1 .. holds[u][x] : e = <<u, n>>
    BY TokensOf DEF HeldTokens
  <1>6. \A e : e \in B <=> \E u \in Threads : \E n \in 1 .. holds'[u][x] : e = <<u, n>>
    BY TokensOf DEF HeldTokens
  <1> HIDE DEF A, B
  <1>7. old \in A
    <2>1. holds[t][x] \in 1 .. holds[t][x]
      BY <1>1
    <2> QED
      BY <1>5, <2>1
  <1>8. B = A \ {old}
    <2>1. ASSUME NEW e \in B
          PROVE  e \in A \ {old}
      <3>1. PICK u \in Threads : \E n \in 1 .. holds'[u][x] : e = <<u, n>>
        BY <1>6
      <3>2. PICK n \in 1 .. holds'[u][x] : e = <<u, n>>
        BY <3>1
      <3>3. n \in 1 .. holds[u][x] /\ (u = t => n # holds[t][x])
        BY <1>1, <1>3
      <3> QED
        BY <1>5, <3>2, <3>3
    <2>2. ASSUME NEW e \in A, e # old
          PROVE  e \in B
      <3>1. PICK u \in Threads : \E n \in 1 .. holds[u][x] : e = <<u, n>>
        BY <1>5, <2>2
      <3>2. PICK n \in 1 .. holds[u][x] : e = <<u, n>>
        BY <3>1
      <3>3. CASE u = t
        <4>1. n # holds[t][x]
          BY <2>2, <3>2, <3>3
        <4>2. n \in 1 .. holds'[u][x]
          BY <1>1, <1>3, <3>3, <4>1
        <4> QED
          BY <1>6, <3>2, <4>2
      <3>4. CASE u # t
        BY <1>3, <1>6, <3>2, <3>4
      <3> QED
        BY <3>3, <3>4
    <2> QED
      BY <2>1, <2>2
  <1>9. IsFiniteSet(A) /\ Cardinality(A) \in Nat
    BY TokensFinite, FS_CardinalityType DEF A
  <1>10. Cardinality(B) = Cardinality(A) - 1
    <2> HIDE DEF old
    <2> QED
      BY <1>7, <1>8, <1>9, FS_RemoveElement
  <1>11. \A y \in Scalars : Cardinality(HeldTokens(y)) \in Nat
    BY TokensFinite, FS_CardinalityType
  <1>12. Cardinality(HeldTokens(x))' = Cardinality(HeldTokens(x)) - 1
    BY <1>10 DEF A, B
  <1>13. \A y \in Scalars : y # x => Cardinality(HeldTokens(y))' = Cardinality(HeldTokens(y)) - 0
    BY <1>4, <1>11
  <1>14. \A u \in Threads, y \in Scalars : holds[u][y] \in Nat
    BY <1>1
  <1> QED
    BY <1>3, <1>12, <1>13, <1>14

(* The scalars whose value is a reference to y                             *)
Referring(y) == {z \in Scalars : value[z] = y}

(* A scalar that held no reference is given one.                           *)
LEMMA ReferringMore ==
  ASSUME TypeOK, NEW x \in Scalars, NEW v \in Scalars \cup {Undef}, value[x] = Undef,
         value' = [value EXCEPT ![x] = v]
  PROVE  \A y \in Scalars : Cardinality(Referring(y))'
                            = Cardinality(Referring(y)) + (IF y = v THEN 1 ELSE 0)
  <1> TAKE y \in Scalars
  <1>1. IsFiniteSet(Referring(y)) /\ Cardinality(Referring(y)) \in Nat
    BY ReferringFinite DEF Referring
  <1>2. y # Undef
    BY SharedScalarsAssumption
  <1>3. CASE y = v
    <2>1. Referring(y)' = Referring(y) \cup {x} /\ x \notin Referring(y)
      BY <1>2, <1>3 DEF TypeOK, Referring
    <2> QED
      BY <1>1, <1>3, <2>1, FS_AddElement, ZenonT(60)
  <1>4. CASE y # v
    <2>1. Referring(y)' = Referring(y)
      BY <1>2, <1>4 DEF TypeOK, Referring
    <2> QED
      BY <1>1, <1>4, <2>1
  <1> QED
    BY <1>3, <1>4

(* A scalar loses the reference it held.                                   *)
LEMMA ReferringLess ==
  ASSUME TypeOK, NEW x \in Scalars, value' = [value EXCEPT ![x] = Undef]
  PROVE  \A y \in Scalars : Cardinality(Referring(y))'
                            = Cardinality(Referring(y)) - (IF y = value[x] THEN 1 ELSE 0)
  <1> TAKE y \in Scalars
  <1>1. IsFiniteSet(Referring(y)) /\ Cardinality(Referring(y)) \in Nat
    BY ReferringFinite DEF Referring
  <1>2. y # Undef
    BY SharedScalarsAssumption
  <1>3. CASE y = value[x]
    <2>1. Referring(y)' = Referring(y) \ {x} /\ x \in Referring(y)
      BY <1>2, <1>3 DEF TypeOK, Referring
    <2> QED
      BY <1>1, <1>3, <2>1, FS_RemoveElement, ZenonT(60)
  <1>4. CASE y # value[x]
    <2>1. Referring(y)' = Referring(y)
      BY <1>2, <1>4 DEF TypeOK, Referring
    <2> QED
      BY <1>1, <1>4, <2>1
  <1> QED
    BY <1>3, <1>4

(* RefsExact in the words of Referring.                                    *)
LEMMA ExactlyWhen ==
  /\ RefsExact <=> \A x \in Scalars :
       refs[x] = Cardinality(HeldTokens(x)) + Cardinality(Referring(x))
  /\ \A x \in Scalars : Cardinality(Referring(x)) \in Nat
  BY ReferringFinite DEF RefsExact, Referring

-----------------------------------------------------------------------------
(* Mutexes owned                                                           *)

(* What counts say of the list of a context.                               *)
LEMMA CountsOf ==
  ASSUME TypeOK, NEW t \in Threads, NEW E
  PROVE  /\ todo[t] \in Seq(Steps) /\ Count(todo[t], E) \in Nat
         /\ \A i \in 1 .. Len(todo[t]) : todo[t][i] \in E => Count(todo[t], E) >= 1
         /\ (\A i \in 1 .. Len(todo[t]) : todo[t][i] \notin E) => Count(todo[t], E) = 0
  <1>1. todo[t] \in Seq(Steps)
    BY DEF TypeOK
  <1>2. Count(todo[t], E) \in Nat
    BY <1>1, PlacesFinite
  <1> QED
    BY <1>1, <1>2, CountNone

(* No lock comes after the first step, unless that is a reference, nor     *)
(* before a free.                                                          *)
LEMMA NoLockLater ==
  ASSUME TypeOK, NEW t \in Threads, NEW x \in Scalars, InOrder(todo[t]),
         NEW i \in 1 .. Len(todo[t]),
         todo[t][i][1] \in {"unlock", "release", "clear", "free", "get", "put"},
         i = 1 \/ todo[t][i][1] = "free"
  PROVE  Count(todo[t], Locking(x)) = 0
  <1> DEFINE s == todo[t]
  <1>1. s \in Seq(Steps) /\ Len(s) \in Nat
    BY DEF TypeOK
  <1>2. ASSUME NEW k \in 1 .. Len(s), s[k] \in Locking(x)
        PROVE  FALSE
    <2>1. s[k][1] = "lock"
      BY <1>2 DEF Locking
    <2>2. k # i
      BY <2>1
    <2>3. k > i => MayPrecede(s[i], s[k])
      BY <1>1 DEF InOrder, Phases
    <2>4. k < i => MayPrecede(s[k], s[i])
      BY <1>1 DEF InOrder, Phases
    <2> QED
      BY <1>1, <2>1, <2>2, <2>3, <2>4 DEF MayPrecede
  <1> QED
    BY <1>2, CountsOf

(* The list after SRUNLOCK of a scalar the context had not locked has two  *)
(* kinds of steps.                                                         *)
LEMMA NotUnlocked ==
  ASSUME TypeOK, NEW t \in Threads, NEW x \in Scalars, Unlocked(t, x),
         NEW i \in 1 .. Len(todo[t])
  PROVE  todo[t][i][1] \in {"unlock", "release"}
  BY DEF Unlocked

(* A context owns the mutex of a scalar it is going to free.               *)
LEMMA FreedOwned ==
  ASSUME TypeOK, NEW t \in Threads, NEW x \in Scalars, InOrder(todo[t]), MutexCounted(t),
         NEW i \in 1 .. Len(todo[t]), todo[t][i] = <<"free", x>>
  PROVE  owner[x] = t
  <1>1. Count(todo[t], Locking(x)) = 0
    BY NoLockLater
  <1>2. Count(todo[t], Freeing(x)) >= 1 /\ Count(todo[t], Freeing(x)) \in Nat
    BY CountsOf DEF Freeing
  <1>3. Count(todo[t], Unlocking(x)) \in Nat /\ locked[t][x] \in Nat
    BY CountsOf DEF TypeOK
  <1>4. ~Unlocked(t, x)
    BY NotUnlocked
  <1>5. Mine(t, x) + 0 = locked[t][x] + Count(todo[t], Unlocking(x)) + Count(todo[t], Freeing(x))
    BY <1>1, <1>4 DEF MutexCounted
  <1> QED
    BY <1>2, <1>3, <1>5 DEF Mine

(* A context owns the mutex of the scalar whose value it is about to take, *)
(* copy, set or free.                                                      *)
LEMMA HeadOwned ==
  ASSUME TypeOK, NEW t \in Threads, NEW x \in Scalars, InOrder(todo[t]), MutexCounted(t),
         todo[t] # <<>>, todo[t][1][1] \in {"clear", "free", "get", "put"}, todo[t][1][2] = x
  PROVE  /\ owner[x] = t
         /\ Count(todo[t], Locking(x)) = 0
         /\ Mine(t, x) = locked[t][x] + Count(todo[t], Unlocking(x)) + Count(todo[t], Freeing(x))
  <1>1. todo[t] \in Seq(Steps) /\ Len(todo[t]) \in Nat /\ 1 \in 1 .. Len(todo[t])
    <2>1. todo[t] \in Seq(Steps)
      BY DEF TypeOK
    <2> QED
      BY <2>1, TailOf
  <1>2. Count(todo[t], Locking(x)) = 0
    BY <1>1, NoLockLater
  <1>3. /\ Count(todo[t], Freeing(x)) \in Nat
        /\ Count(todo[t], Unlocking(x)) \in Nat /\ locked[t][x] \in Nat
    BY CountsOf DEF TypeOK
  <1>4. Count(todo[t], Freeing(x)) >= 1 \/ Count(todo[t], Unlocking(x)) >= 1
    <2>1. CASE todo[t][1][1] = "free"
      <3>1. todo[t][1] = <<"free", x>>
        <4>1. todo[t][1] \in Kinds \X Scalars
          BY <1>1, <2>1 DEF Steps
        <4> QED
          BY <2>1, <4>1
      <3> QED
        BY <1>1, <3>1, CountsOf DEF Freeing
    <2>2. CASE todo[t][1][1] # "free"
      <3>1. PICK k \in 1 + 1 .. Len(todo[t]) : todo[t][k] \in Unlocking(x) \cup Freeing(x)
        BY <1>1, <2>2 DEF InOrder, UnlocksLater
      <3>2. k \in 1 .. Len(todo[t])
        BY <1>1
      <3> QED
        BY <3>1, <3>2, CountsOf
    <2> QED
      BY <2>1, <2>2
  <1>5. ~Unlocked(t, x)
    BY <1>1, NotUnlocked
  <1>6. Mine(t, x) + 0 = locked[t][x] + Count(todo[t], Unlocking(x)) + Count(todo[t], Freeing(x))
    BY <1>2, <1>5 DEF MutexCounted
  <1>7. Mine(t, x) \in Nat
    BY DEF Mine, TypeOK
  <1>8. Mine(t, x) >= 1
    BY <1>3, <1>4, <1>6, <1>7
  <1> QED
    BY <1>2, <1>3, <1>6, <1>7, <1>8 DEF Mine

(* When the last reference is freed the mutex is locked once, by the last  *)
(* holder, whose program has not locked it: nothing is forgotten with the  *)
(* object.                                                                 *)
LEMMA AtFree ==
  ASSUME TypeOK, RefsExact, NEW t \in Threads, NEW x \in Scalars, OfThread(t),
         todo[t] # <<>>, todo[t][1] = <<"free", x>>
  PROVE  /\ owner[x] = t /\ depth[x] = 1 /\ refs[x] = 1 /\ holds[t][x] = 1
         /\ locked[t][x] = 0
         /\ Count(todo[t], Locking(x)) = 0
         /\ Count(todo[t], Unlocking(x)) = 0
         /\ Count(todo[t], Freeing(x)) = 1
         /\ Count(todo[t], Spending(x)) = 1
         /\ Count(todo[t], Referencing(x)) = 0
         /\ Count(todo[t], Putting(x)) = 0
  <1>1. todo[t] \in Seq(Steps) /\ Len(todo[t]) \in Nat /\ 1 \in 1 .. Len(todo[t])
    <2>1. todo[t] \in Seq(Steps)
      BY DEF TypeOK
    <2> QED
      BY <2>1, TailOf
  <1>2. InOrder(todo[t]) /\ MutexCounted(t) /\ Kept(t) /\ LastFreed(t)
    BY DEF OfThread
  <1>3. refs[x] = 1
    BY <1>1, <1>2 DEF LastFreed
  <1>4. holds[t][x] \in Nat /\ holds[t][x] <= 1
    BY <1>3, HoldsCounted
  <1>5. Count(todo[t], Spending(x)) \in Nat /\ Count(todo[t], Spending(x)) >= 1
    <2>1. todo[t][1] \in Spending(x)
      BY DEF Spending
    <2> QED
      BY <1>1, <2>1, CountsOf
  <1>6. Count(todo[t], Spending(x)) = 1 /\ holds[t][x] = 1
    BY <1>2, <1>4, <1>5 DEF Kept
  <1>7. ASSUME NEW k \in 2 .. Len(todo[t]), todo[t][k] \in Spending(x)
        PROVE  FALSE
    <2>1. Count(todo[t], Spending(x)) >= 2
      <3>1. k \in 1 .. Len(todo[t]) /\ k # 1 /\ todo[t][1] \in Spending(x)
        BY <1>1 DEF Spending
      <3> QED
        BY <1>1, <1>7, <3>1, CountTwo
    <2> QED
      BY <1>6, <2>1
  <1>8. Count(todo[t], Referencing(x)) = 0
    <2>1. ASSUME NEW i \in 1 .. Len(todo[t]), todo[t][i] \in Referencing(x)
          PROVE  FALSE
      <3>1. todo[t][i][1] = "reference" /\ todo[t][i][2] = x
        BY <2>1 DEF Referencing
      <3>2. i \in 2 .. Len(todo[t])
        BY <1>1, <3>1
      <3>3. PICK k \in i + 1 .. Len(todo[t]) : todo[t][k] \in Spending(x)
        BY <1>2, <3>1, <3>2 DEF InOrder, ReferenceKept
      <3> QED
        BY <1>1, <1>7, <3>2, <3>3
    <2> QED
      BY <2>1, CountsOf
  <1>9. Count(todo[t], Unlocking(x)) = 0
    <2>1. ASSUME NEW i \in 1 .. Len(todo[t]), todo[t][i] \in Unlocking(x)
          PROVE  FALSE
      <3>1. todo[t][i][1] = "unlock" /\ todo[t][i][2] = x
        BY <2>1 DEF Unlocking
      <3>2. PICK k \in i + 1 .. Len(todo[t]) : todo[t][k] \in Spending(x)
        BY <1>2, <3>1 DEF InOrder, SpendsLater
      <3> QED
        BY <1>1, <1>7, <3>2
    <2> QED
      BY <2>1, CountsOf
  <1>10. Count(todo[t], Freeing(x)) = 1
    <2>1. Count(todo[t], Freeing(x)) = Count(Tail(todo[t]), Freeing(x)) + 1
      <3>1. Head(todo[t]) \in Freeing(x)
        BY <1>1, TailOf DEF Freeing
      <3> QED
        BY <1>1, <3>1, CountTail
    <2>2. /\ Tail(todo[t]) \in Seq(Steps) /\ Len(Tail(todo[t])) = Len(todo[t]) - 1
          /\ \A i \in 1 .. Len(todo[t]) - 1 : Tail(todo[t])[i] = todo[t][i + 1]
      BY <1>1, TailOf
    <2>3. \A i \in 1 .. Len(Tail(todo[t])) : Tail(todo[t])[i] \notin Freeing(x)
      <3> SUFFICES ASSUME NEW i \in 1 .. Len(Tail(todo[t])), Tail(todo[t])[i] \in Freeing(x)
                   PROVE  FALSE
        OBVIOUS
      <3>1. i + 1 \in 2 .. Len(todo[t]) /\ todo[t][i + 1] \in Spending(x)
        BY <1>1, <2>2 DEF Freeing, Spending
      <3> QED
        BY <1>7, <3>1
    <2>4. Count(Tail(todo[t]), Freeing(x)) = 0
      BY <2>2, <2>3, CountNone
    <2> QED
      BY <2>1, <2>4
  <1>11. Count(todo[t], Putting(x)) \in Nat /\ locked[t][x] \in Nat
    BY CountsOf DEF TypeOK
  <1>12. Count(todo[t], Putting(x)) = 0 /\ locked[t][x] = 0
    <2>1. holds[t][x] + Count(todo[t], Referencing(x))
            >= Count(todo[t], Spending(x)) + Count(todo[t], Putting(x))
               + (IF locked[t][x] > 0 THEN 1 ELSE 0)
      BY <1>2 DEF Kept
    <2> QED
      BY <1>6, <1>8, <1>11, <2>1
  <1>13. /\ owner[x] = t /\ Count(todo[t], Locking(x)) = 0
         /\ Mine(t, x) = locked[t][x] + Count(todo[t], Unlocking(x)) + Count(todo[t], Freeing(x))
    BY <1>2, HeadOwned
  <1>14. depth[x] = 1
    BY <1>9, <1>10, <1>12, <1>13 DEF Mine
  <1> QED
    BY <1>3, <1>6, <1>8, <1>9, <1>10, <1>12, <1>13, <1>14

-----------------------------------------------------------------------------
(* What one step leaves of what held of the steps after it                 *)

(* Which step counts as what.                                              *)
LEMMA KindsOfSteps ==
  ASSUME NEW x \in Scalars, NEW y \in Scalars
  PROVE  /\ \A op \in Kinds :
              /\ <<op, x>> \in Locking(y) <=> op = "lock" /\ x = y
              /\ <<op, x>> \in Unlocking(y) <=> op = "unlock" /\ x = y
              /\ <<op, x>> \in Freeing(y) <=> op = "free" /\ x = y
              /\ <<op, x>> \in Referencing(y) <=> op = "reference" /\ x = y
              /\ <<op, x>> \in Spending(y) <=> op \in {"release", "free"} /\ x = y
              /\ <<op, x>> \notin Putting(y)
         /\ \A v \in Scalars \cup {Undef} :
              /\ <<"put", x, v>> \notin Locking(y)
              /\ <<"put", x, v>> \notin Unlocking(y)
              /\ <<"put", x, v>> \notin Freeing(y)
              /\ <<"put", x, v>> \notin Referencing(y)
              /\ <<"put", x, v>> \notin Spending(y)
              /\ <<"put", x, v>> \in Putting(y) <=> v = y
  <1>1. /\ \A op \in Kinds :
              /\ <<op, x>> \in Locking(y) <=> op = "lock" /\ x = y
              /\ <<op, x>> \in Unlocking(y) <=> op = "unlock" /\ x = y
              /\ <<op, x>> \in Freeing(y) <=> op = "free" /\ x = y
              /\ <<op, x>> \in Referencing(y) <=> op = "reference" /\ x = y
              /\ <<op, x>> \in Spending(y) <=> op \in {"release", "free"} /\ x = y
    BY DEF Locking, Unlocking, Freeing, Referencing, Spending
  <1>2. \A op \in Kinds : <<op, x>> \notin Putting(y)
    <2> SUFFICES ASSUME NEW op \in Kinds, NEW z \in Scalars, <<op, x>> = <<"put", z, y>>
                 PROVE  FALSE
      BY DEF Putting
    <2>1. <<op, x>>[1] = op /\ <<"put", z, y>>[1] = "put"
      OBVIOUS
    <2> QED
      BY <2>1 DEF Kinds
  <1>3. \A v \in Scalars \cup {Undef} :
              /\ <<"put", x, v>> \notin Locking(y)
              /\ <<"put", x, v>> \notin Unlocking(y)
              /\ <<"put", x, v>> \notin Freeing(y)
              /\ <<"put", x, v>> \notin Referencing(y)
              /\ <<"put", x, v>> \notin Spending(y)
    <2> TAKE v \in Scalars \cup {Undef}
    <2>1. ASSUME NEW op, <<"put", x, v>> = <<op, y>>
          PROVE  op = "put"
      <3>1. <<"put", x, v>>[1] = "put" /\ <<op, y>>[1] = op
        OBVIOUS
      <3> QED
        BY <2>1, <3>1
    <2> QED
      BY <2>1 DEF Locking, Unlocking, Freeing, Referencing, Spending
  <1>4. \A v \in Scalars \cup {Undef} : <<"put", x, v>> \in Putting(y) <=> v = y
    BY DEF Putting
  <1> QED
    BY <1>1, <1>2, <1>3, <1>4

(* The list after a step, place by place.                                  *)
LEMMA TakenAt ==
  ASSUME TypeOK, NEW t \in Threads, NEW x \in Scalars, NEW op, NEW first \in Seq(Steps),
         Take(t, op, x, first)
  PROVE  /\ Len(first) \in Nat /\ Len(todo[t]) \in Nat /\ Len(todo[t]) >= 1
         /\ Len(todo'[t]) = Len(first) + Len(todo[t]) - 1
         /\ \A i \in 1 .. Len(todo'[t]) :
              \/ i <= Len(first) /\ todo'[t][i] = first[i]
              \/ /\ i > Len(first)
                 /\ i - Len(first) + 1 \in 2 .. Len(todo[t])
                 /\ todo'[t][i] = todo[t][i - Len(first) + 1]
         /\ \A i \in 2 .. Len(todo[t]) :
              /\ i + Len(first) - 1 \in Len(first) + 1 .. Len(todo'[t])
              /\ todo'[t][i + Len(first) - 1] = todo[t][i]
  <1> DEFINE r == Tail(todo[t])
             n == Len(first)
  <1>1. /\ todo[t] \in Seq(Steps) /\ todo[t] # <<>> /\ todo'[t] = first \o r
    BY Taken
  <1>2. /\ r \in Seq(Steps) /\ Len(todo[t]) \in Nat /\ Len(todo[t]) >= 1
        /\ Len(r) = Len(todo[t]) - 1
        /\ \A i \in 1 .. Len(todo[t]) - 1 : r[i] = todo[t][i + 1]
        /\ \A i \in 2 .. Len(todo[t]) : todo[t][i] = r[i - 1]
    BY <1>1, TailOf
  <1>3. n \in Nat
    OBVIOUS
  <1> HIDE DEF r
  <1>4. /\ Len(todo'[t]) = n + Len(r)
        /\ \A i \in 1 .. n + Len(r) : todo'[t][i] = IF i <= n THEN first[i] ELSE r[i - n]
    <2> DEFINE q == first \o r
    <2>1. \A a, b \in Seq(Steps) :
            /\ Len(a \o b) = Len(a) + Len(b)
            /\ \A i \in 1 .. Len(a) + Len(b) :
                 (a \o b)[i] = IF i <= Len(a) THEN a[i] ELSE b[i - Len(a)]
      BY ConcatProperties, Zenon
    <2>2. /\ Len(q) = Len(first) + Len(r)
          /\ \A i \in 1 .. Len(first) + Len(r) :
               q[i] = IF i <= Len(first) THEN first[i] ELSE r[i - Len(first)]
      BY <1>2, <2>1, Zenon
    <2>3. todo'[t] = q
      BY <1>1
    <2> HIDE DEF q
    <2> QED
      BY <2>2, <2>3
  <1> HIDE DEF n
  <1>5. Len(todo'[t]) = n + Len(todo[t]) - 1
    BY <1>2, <1>3, <1>4
  <1>6. ASSUME NEW i \in 1 .. Len(todo'[t])
        PROVE  \/ i <= n /\ todo'[t][i] = first[i]
               \/ /\ i > n
                  /\ i - n + 1 \in 2 .. Len(todo[t])
                  /\ todo'[t][i] = todo[t][i - n + 1]
    <2>1. CASE i <= n
      BY <1>3, <1>4, <2>1
    <2>2. CASE i > n
      <3>1. i - n + 1 \in 2 .. Len(todo[t]) /\ (i - n + 1) - 1 = i - n
        BY <1>2, <1>3, <1>5, <2>2, SMTT(30)
      <3>2. todo'[t][i] = r[i - n]
        BY <1>3, <1>4, <2>2
      <3> QED
        BY <1>2, <2>2, <3>1, <3>2
    <2> QED
      BY <1>3, <2>1, <2>2
  <1>7. ASSUME NEW i \in 2 .. Len(todo[t])
        PROVE  /\ i + n - 1 \in n + 1 .. Len(todo'[t])
               /\ todo'[t][i + n - 1] = todo[t][i]
    <2>1. i + n - 1 \in n + 1 .. Len(todo'[t]) /\ (i + n - 1) - n = i - 1 /\ ~(i + n - 1 <= n)
      BY <1>2, <1>3, <1>5
    <2>2. i + n - 1 \in 1 .. n + Len(r)
      BY <1>2, <1>3
    <2>3. todo'[t][i + n - 1] = r[i - 1]
      BY <1>4, <2>1, <2>2
    <2> QED
      BY <1>2, <2>1, <2>3
  <1> QED
    BY <1>2, <1>3, <1>5, <1>6, <1>7 DEF n

(* Steps leave the values that are to be put as they are.                  *)
LEMMA KeepsPutTyped ==
  ASSUME TypeOK, NEW t \in Threads, NEW x \in Scalars, NEW op, NEW first \in Seq(Steps),
         Take(t, op, x, first), PutTyped(t),
         \A i \in 1 .. Len(first) : first[i][1] # "put"
  PROVE  PutTyped(t)'
  <1> SUFFICES ASSUME NEW i \in 1 .. Len(todo'[t]), todo'[t][i][1] = "put", todo'[t][i][3] # Undef
               PROVE  <<todo'[t][i][2], todo'[t][i][3]>> \in Refers
    BY DEF PutTyped
  <1>1. /\ Len(first) \in Nat
        /\ \/ i <= Len(first) /\ todo'[t][i] = first[i]
           \/ i - Len(first) + 1 \in 2 .. Len(todo[t]) /\ todo'[t][i] = todo[t][i - Len(first) + 1]
    BY TakenAt
  <1> QED
    BY <1>1, SMTT(30) DEF PutTyped

(* What can be reached from what can be reached can be reached.            *)
LEMMA ReachTransitive ==
  ASSUME NEW x \in Scalars, NEW y \in Scalars, NEW z \in Scalars, y \in Reach(x), z \in Reach(y)
  PROVE  z \in Reach(x)
  <1>1. \A p, q \in Refers : p[2] = q[1] => <<p[1], q[2]>> \in Refers
    BY SharedScalarsAssumption
  <1>2. <<x, y>> \in Refers /\ <<y, z>> \in Refers => <<x, z>> \in Refers
    <2> SUFFICES ASSUME <<x, y>> \in Refers, <<y, z>> \in Refers
                 PROVE  <<x, z>> \in Refers
      OBVIOUS
    <2>1. <<<<x, y>>[1], <<y, z>>[2]>> \in Refers
      BY <1>1
    <2> QED
      BY <2>1
  <1> QED
    BY <1>2 DEF Reach

(* Every step is on a scalar.                                              *)
LEMMA OnScalars ==
  ASSUME TypeOK, NEW t \in Threads, NEW i \in 1 .. Len(todo[t])
  PROVE  todo[t][i] \in Steps /\ todo[t][i][2] \in Scalars
  <1>1. todo[t] \in Seq(Steps)
    BY DEF TypeOK
  <1>2. todo[t][i] \in Steps
    BY <1>1
  <1> QED
    BY <1>2 DEF Steps

(* Steps that come in place of one on x and are on what x may refer to     *)
(* keep Within.                                                            *)
LEMMA KeepsWithin ==
  ASSUME TypeOK, NEW t \in Threads, NEW x \in Scalars, NEW op, NEW first \in Seq(Steps),
         Take(t, op, x, first), Within(t), locked' = locked,
         \A i \in 1 .. Len(first) : first[i][2] \in Scalars /\ first[i][2] \in Reach(x),
         \A j \in 1 .. Len(first) : first[j][1] \in {"unlock", "free"} =>
           \A i \in 1 .. j - 1 : first[i][2] \in Reach(first[j][2])
  PROVE  Within(t)'
  <1> DEFINE n == Len(first)
  <1>1. n \in Nat /\ Len(todo[t]) \in Nat /\ 1 \in 1 .. Len(todo[t]) /\ todo[t][1][2] = x
    BY TakenAt, Taken
  <1>2. \A i \in 1 .. Len(todo'[t]) :
              \/ i <= n /\ todo'[t][i] = first[i]
              \/ /\ i > n
                 /\ i - n + 1 \in 2 .. Len(todo[t])
                 /\ todo'[t][i] = todo[t][i - n + 1]
    BY TakenAt
  <1> HIDE DEF n
  <1>3. ASSUME NEW y \in Scalars, locked'[t][y] > 0, NEW i \in 1 .. Len(todo'[t])
        PROVE  todo'[t][i][2] \in Reach(y)
    <2>1. \A k \in 1 .. Len(todo[t]) : todo[t][k][2] \in Reach(y)
      BY <1>3 DEF Within
    <2>2. CASE i <= n /\ todo'[t][i] = first[i]
      <3>1. i \in 1 .. Len(first) /\ first[i][2] \in Scalars /\ first[i][2] \in Reach(x)
        BY <1>1, <2>2 DEF n
      <3>2. x \in Reach(y)
        BY <1>1, <2>1
      <3>3. first[i][2] \in Reach(y)
        BY <3>1, <3>2, ReachTransitive
      <3> QED
        BY <2>2, <3>3
    <2>3. CASE i > n /\ i - n + 1 \in 2 .. Len(todo[t]) /\ todo'[t][i] = todo[t][i - n + 1]
      BY <1>1, <2>1, <2>3
    <2> QED
      BY <1>2, <2>2, <2>3
  <1>4. ASSUME NEW j \in 1 .. Len(todo'[t]), todo'[t][j][1] \in {"unlock", "free"},
               NEW i \in 1 .. j - 1
        PROVE  todo'[t][i][2] \in Reach(todo'[t][j][2])
    <2>1. Len(todo'[t]) \in Nat
      BY <1>1, TakenAt DEF n
    <2>2. CASE j <= n /\ todo'[t][j] = first[j]
      <3>1. i <= n /\ i \in 1 .. Len(todo'[t])
        BY <1>1, <2>1, <2>2
      <3>2. todo'[t][i] = first[i]
        BY <1>1, <1>2, <3>1
      <3>3. j \in 1 .. Len(first)
        BY <1>1, <2>2 DEF n
      <3> QED
        BY <1>4, <2>2, <3>2, <3>3
    <2>3. CASE j > n /\ j - n + 1 \in 2 .. Len(todo[t]) /\ todo'[t][j] = todo[t][j - n + 1]
      <3> DEFINE k == j - n + 1
                 y == todo[t][k][2]
      <3>1. k \in 1 .. Len(todo[t]) /\ todo[t][k][1] \in {"unlock", "free"} /\ k > 1
        BY <1>1, <1>4, <2>3
      <3>2. \A m \in 1 .. k - 1 : todo[t][m][2] \in Reach(y)
        BY <3>1 DEF Within
      <3>3. i \in 1 .. Len(todo'[t])
        BY <2>1
      <3>4. CASE i <= n /\ todo'[t][i] = first[i]
        <4>1. i \in 1 .. Len(first) /\ first[i][2] \in Scalars /\ first[i][2] \in Reach(x)
          BY <1>1, <3>4 DEF n
        <4>2. 1 \in 1 .. k - 1
          BY <3>1
        <4>3. x \in Reach(y) /\ y \in Scalars
          BY <1>1, <3>1, <3>2, <4>2, OnScalars
        <4>4. first[i][2] \in Reach(y)
          BY <4>1, <4>3, ReachTransitive
        <4> QED
          BY <2>3, <3>4, <4>4
      <3>5. CASE i > n /\ i - n + 1 \in 2 .. Len(todo[t]) /\ todo'[t][i] = todo[t][i - n + 1]
        <4>1. i - n + 1 \in 1 .. k - 1
          <5>1. i \in Int /\ j \in Int /\ i < j
            BY <2>2
          <5>2. i - n + 1 \in Int /\ k \in Int /\ 2 <= i - n + 1
            BY <1>1, <3>5, <5>1
          <5>3. i - n + 1 < k
            BY <1>1, <5>1
          <5> QED
            BY <5>2, <5>3
        <4> QED
          BY <2>3, <3>2, <3>5, <4>1
      <3> QED
        BY <1>2, <3>3, <3>4, <3>5
    <2> QED
      BY <1>2, <2>2, <2>3
  <1> QED
    BY <1>3, <1>4 DEF Within

(* Cleared is kept by a clear, and by steps that leave cleared values      *)
(* alone.                                                                  *)
LEMMA KeepsCleared ==
  ASSUME TypeOK, NEW t \in Threads, NEW x \in Scalars, NEW op, NEW first \in Seq(Steps),
         Take(t, op, x, first), Cleared(t),
         \A i \in 1 .. Len(first) : first[i][1] # "put",
         op = "clear" => owner'[x] = t /\ value'[x] = Undef,
         \A j \in 2 .. Len(todo[t]) : todo[t][j][1] = "put" =>
           LET y == todo[t][j][2] IN
           owner[y] = t /\ value[y] = Undef => owner'[y] = t /\ value'[y] = Undef
  PROVE  Cleared(t)'
  <1> DEFINE n == Len(first)
  <1>1. n \in Nat /\ Len(todo[t]) \in Nat /\ Len(todo[t]) >= 1
    BY TakenAt
  <1>2. /\ \A i \in 1 .. Len(todo'[t]) :
              \/ i <= n /\ todo'[t][i] = first[i]
              \/ /\ i > n
                 /\ i - n + 1 \in 2 .. Len(todo[t])
                 /\ todo'[t][i] = todo[t][i - n + 1]
        /\ \A i \in 2 .. Len(todo[t]) :
              /\ i + n - 1 \in n + 1 .. Len(todo'[t])
              /\ todo'[t][i + n - 1] = todo[t][i]
    BY TakenAt
  <1>3. todo[t][1][1] = op /\ todo[t][1][2] = x
    BY Taken
  <1>4. \A i \in 1 .. n : first[i][1] # "put"
    OBVIOUS
  <1> HIDE DEF n
  <1> SUFFICES ASSUME NEW j \in 1 .. Len(todo'[t]), todo'[t][j][1] = "put"
               PROVE  \/ owner'[todo'[t][j][2]] = t /\ value'[todo'[t][j][2]] = Undef
                      \/ \E i \in 1 .. j - 1 : todo'[t][i] = <<"clear", todo'[t][j][2]>>
    BY DEF Cleared
  <1> DEFINE k == j - n + 1
             y == todo[t][k][2]
  <1>5. k \in 2 .. Len(todo[t]) /\ todo'[t][j] = todo[t][k] /\ j > n
    <2>1. Len(todo'[t]) \in Nat
      BY <1>1, TakenAt DEF n
    <2>2. ~(j <= n /\ todo'[t][j] = first[j])
      BY <1>1, <1>4, <2>1
    <2> QED
      BY <1>2, <2>2
  <1>6. \/ owner[y] = t /\ value[y] = Undef
        \/ \E i \in 1 .. k - 1 : todo[t][i] = <<"clear", y>>
    <2>1. k \in 1 .. Len(todo[t]) /\ todo[t][k][1] = "put"
      BY <1>5
    <2> QED
      BY <2>1 DEF Cleared
  <1>7. CASE owner[y] = t /\ value[y] = Undef
    BY <1>5, <1>7
  <1>8. ASSUME NEW i \in 1 .. k - 1, todo[t][i] = <<"clear", y>>
        PROVE  \/ owner'[y] = t /\ value'[y] = Undef
               \/ \E m \in 1 .. j - 1 : todo'[t][m] = <<"clear", y>>
    <2>1. CASE i = 1
      BY <1>3, <1>8, <2>1
    <2>2. CASE i # 1
      <3>1. i \in 2 .. Len(todo[t])
        BY <1>1, <1>5, <2>2, SMTT(30)
      <3>2. i + n - 1 \in 1 .. j - 1
        BY <1>1, <1>5, <3>1
      <3> QED
        BY <1>2, <1>8, <3>1, <3>2, ZenonT(60)
    <2> QED
      BY <2>1, <2>2
  <1> QED
    BY <1>5, <1>6, <1>7, <1>8, SMTT(30)

(* LastFreed is kept while no count of a scalar to be freed changes.       *)
LEMMA KeepsLastFreed ==
  ASSUME TypeOK, NEW t \in Threads, NEW x \in Scalars, NEW op, NEW first \in Seq(Steps),
         Take(t, op, x, first), LastFreed(t),
         \A i \in 1 .. Len(first) : first[i][1] = "free" => refs'[first[i][2]] = 1,
         \A i \in 2 .. Len(todo[t]) : todo[t][i][1] = "free" =>
           refs'[todo[t][i][2]] = refs[todo[t][i][2]]
  PROVE  LastFreed(t)'
  <1> SUFFICES ASSUME NEW i \in 1 .. Len(todo'[t]), todo'[t][i][1] = "free"
               PROVE  refs'[todo'[t][i][2]] = 1
    BY DEF LastFreed
  <1> DEFINE k == i - Len(first) + 1
  <1>1. Len(first) \in Nat
    BY TakenAt
  <1>2. \/ i <= Len(first) /\ todo'[t][i] = first[i]
        \/ k \in 2 .. Len(todo[t]) /\ todo'[t][i] = todo[t][k]
    BY TakenAt
  <1>3. CASE i <= Len(first) /\ todo'[t][i] = first[i]
    BY <1>1, <1>3
  <1>4. CASE k \in 2 .. Len(todo[t]) /\ todo'[t][i] = todo[t][k]
    <2>1. k \in 1 .. Len(todo[t]) /\ todo[t][k][1] = "free"
      BY <1>1, <1>4
    <2>2. refs[todo[t][k][2]] = 1
      BY <2>1 DEF LastFreed
    <2> QED
      BY <1>4, <2>1, <2>2
  <1> QED
    BY <1>2, <1>3, <1>4

(* A reference that becomes the next step is on a scalar of which the      *)
(* context holds one.                                                      *)
LEMMA KeepsFound ==
  ASSUME TypeOK, TypeOK', NEW t \in Threads, NEW x \in Scalars, NEW op,
         NEW none \in Seq(Steps), None(none),
         Take(t, op, x, none), InOrder(todo[t]), Kept(t)'
  PROVE  Found(t)'
  <1> DEFINE r == Tail(todo[t])
  <1>1. todo[t] \in Seq(Steps) /\ todo[t] # <<>>
    BY DEF TypeOK, Take
  <1>2. r \in Seq(Steps) /\ todo'[t] = r
    <2>1. r \in Seq(Steps)
      BY <1>1, TailOf
    <2>2. none \o r = r
      BY <2>1, NoStepsFirst
    <2>3. todo' = [todo EXCEPT ![t] = none \o Tail(todo[t])]
      BY DEF Take
    <2> QED
      BY <2>1, <2>2, <2>3 DEF TypeOK
  <1>3. ReferenceKept(r, 1)
    BY <1>1, OrderTail
  <1> HIDE DEF r
  <1> SUFFICES ASSUME r # <<>>, Head(r)[1] = "reference"
               PROVE  holds'[t][Head(r)[2]] > 0
    BY <1>2 DEF Found
  <1> DEFINE v == Head(r)[2]
  <1>4. Head(r) = r[1] /\ 1 \in 1 .. Len(r) /\ r[1] \in Steps /\ Len(r) \in Nat
    BY <1>2, TailOf
  <1>5. v \in Scalars
    BY <1>4 DEF Steps
  <1>6. PICK k \in 1 + 1 .. Len(r) : r[k] \in Spending(v)
    BY <1>3, <1>4 DEF ReferenceKept
  <1>7. k \in 1 .. Len(r)
    BY <1>4
  <1>8. Count(r, Spending(v)) \in Nat /\ Count(r, Spending(v)) # 0
    BY <1>2, <1>6, <1>7, PlacesFinite, CountNone
  <1>9. holds'[t][v] >= Count(r, Spending(v))
    BY <1>2, <1>5 DEF Kept
  <1>10. holds'[t][v] \in Nat
    BY <1>5, SMTT(30) DEF TypeOK
  <1> HIDE DEF v
  <1>11. holds'[t][v] > 0
    BY <1>8, <1>9, <1>10
  <1> QED
    BY <1>11 DEF v

(* A step leaves context u apart: its steps, references and mutexes, and   *)
(* the scalars it has locked, are as before.                               *)
Apart(u) ==
  /\ todo'[u] = todo[u] /\ holds'[u] = holds[u] /\ locked'[u] = locked[u]
  /\ \A y \in Scalars :
       /\ owner'[y] = u <=> owner[y] = u
       /\ owner[y] = u => /\ depth'[y] = depth[y]
                          /\ value'[y] = value[y]
                          /\ refs'[y] = refs[y]

(* A context that a step leaves apart keeps its part of the invariant.     *)
LEMMA OthersKeep ==
  ASSUME TypeOK, NEW u \in Threads, OfThread(u), Apart(u)
  PROVE  OfThread(u)'
  <1>1. InOrder(todo[u])'
    BY DEF OfThread, Apart
  <1>2. \A x \in Scalars : Mine(u, x)' = Mine(u, x) /\ (Unlocked(u, x) => Unlocked(u, x)')
    BY DEF Apart, Mine, Unlocked
  <1>3. MutexCounted(u)'
    BY <1>2 DEF OfThread, Apart, MutexCounted
  <1>4. Kept(u)'
    BY DEF OfThread, Apart, Kept
  <1>5. Found(u)'
    BY DEF OfThread, Apart, Found
  <1>6. Cleared(u)'
    <2> SUFFICES ASSUME NEW j \in 1 .. Len(todo[u]), todo[u][j][1] = "put"
                 PROVE  \/ owner'[todo[u][j][2]] = u /\ value'[todo[u][j][2]] = Undef
                        \/ \E i \in 1 .. j - 1 : todo[u][i] = <<"clear", todo[u][j][2]>>
      BY ZenonT(60) DEF Cleared, Apart
    <2>1. todo[u][j][2] \in Scalars
      BY OnScalars
    <2>2. \/ owner[todo[u][j][2]] = u /\ value[todo[u][j][2]] = Undef
          \/ \E i \in 1 .. j - 1 : todo[u][i] = <<"clear", todo[u][j][2]>>
      BY DEF OfThread, Cleared
    <2> QED
      BY <2>1, <2>2 DEF Apart
  <1>7. LastFreed(u)'
    <2> SUFFICES ASSUME NEW i \in 1 .. Len(todo[u]), todo[u][i][1] = "free"
                 PROVE  refs'[todo[u][i][2]] = 1
      BY DEF LastFreed, Apart
    <2> DEFINE y == todo[u][i][2]
    <2>1. y \in Scalars /\ todo[u][i] \in Steps
      BY OnScalars
    <2>2. todo[u][i] = <<"free", y>>
      BY <2>1 DEF Steps
    <2>3. owner[y] = u
      BY <2>1, <2>2, FreedOwned DEF OfThread
    <2>4. refs[y] = 1
      BY DEF OfThread, LastFreed
    <2> QED
      BY <2>1, <2>3, <2>4 DEF Apart
  <1>8. Within(u)'
    BY DEF OfThread, Apart, Within
  <1>9. PutTyped(u)'
    BY DEF OfThread, Apart, PutTyped
  <1> QED
    BY <1>1, <1>3, <1>4, <1>5, <1>6, <1>7, <1>8, <1>9 DEF OfThread

(* What a step of context t must show: its own part of the invariant, and  *)
(* that the others are left apart.                                         *)
Preserved(t) ==
  /\ TypeOK' /\ RefsExact' /\ Typed' /\ OfThread(t)'
  /\ \A u \in Threads \ {t} : Apart(u)

(* The steps that t has still to take are fewer by step op on x.           *)
Fewer(t, op, x) ==
  \A y \in Scalars :
    /\ Count(todo'[t], Locking(y)) =
         IF op = "lock" /\ x = y THEN Count(todo[t], Locking(y)) - 1 ELSE Count(todo[t], Locking(y))
    /\ Count(todo'[t], Unlocking(y)) =
         IF op = "unlock" /\ x = y THEN Count(todo[t], Unlocking(y)) - 1 ELSE Count(todo[t], Unlocking(y))
    /\ Count(todo'[t], Freeing(y)) =
         IF op = "free" /\ x = y THEN Count(todo[t], Freeing(y)) - 1 ELSE Count(todo[t], Freeing(y))
    /\ Count(todo'[t], Referencing(y)) =
         IF op = "reference" /\ x = y THEN Count(todo[t], Referencing(y)) - 1
           ELSE Count(todo[t], Referencing(y))
    /\ Count(todo'[t], Spending(y)) =
         IF op \in {"release", "free"} /\ x = y THEN Count(todo[t], Spending(y)) - 1
           ELSE Count(todo[t], Spending(y))
    /\ Count(todo'[t], Putting(y)) = Count(todo[t], Putting(y))

(* What is known after step op on x, in whose place no other came          *)
Followed(t, op, x) ==
  /\ todo[t][1] = <<op, x>> /\ todo[t] # <<>> /\ 1 \in 1 .. Len(todo[t])
  /\ todo' \in [Threads -> Seq(Steps)] /\ \A u \in Threads \ {t} : todo'[u] = todo[u]
  /\ InOrder(todo'[t]) /\ PutTyped(t)'
  /\ \A E : Count(todo[t], E) \in Nat
  /\ Fewer(t, op, x)
  /\ \A i \in 2 .. Len(todo[t]) : /\ todo[t][i][2] \in Scalars /\ todo[t][i] \in Steps
                                  /\ i \in 1 .. Len(todo[t])
  /\ \A i \in 2 .. Len(todo[t]) : MayPrecede(todo[t][1], todo[t][i])
  /\ locked' = locked => Within(t)'
  /\ (\A i \in 2 .. Len(todo[t]) : todo[t][i][1] = "free" =>
        refs'[todo[t][i][2]] = refs[todo[t][i][2]])
     => LastFreed(t)'
  /\ /\ op = "clear" => owner'[x] = t /\ value'[x] = Undef
     /\ \A j \in 2 .. Len(todo[t]) : todo[t][j][1] = "put" =>
          LET y == todo[t][j][2] IN
          owner[y] = t /\ value[y] = Undef => owner'[y] = t /\ value'[y] = Undef
     => Cleared(t)'
  /\ TypeOK' /\ Kept(t)' => Found(t)'
  /\ \A y \in Scalars : Unlocked(t, y) => op = "unlock"

(* A step in whose place no other comes.                                   *)
LEMMA OneTaken ==
  ASSUME TypeOK, NEW t \in Threads, NEW x \in Scalars, NEW op \in Kinds,
         NEW none \in Seq(Steps), None(none),
         Take(t, op, x, none), OfThread(t)
  PROVE  Followed(t, op, x)
  <1>1. /\ InOrder(todo[t]) /\ PutTyped(t) /\ Within(t) /\ LastFreed(t) /\ Cleared(t)
        /\ MutexCounted(t) /\ Kept(t)
    BY DEF OfThread
  <1>2. op # "put"
    BY DEF Kinds
  <1>3. \A r \in Seq(Steps) : none \o r = r
    BY NoStepsFirst
  <1>4. /\ todo[t] \in Seq(Steps) /\ todo[t] # <<>> /\ todo[t][1] = <<op, x>>
        /\ todo'[t] = none \o Tail(todo[t])
        /\ todo' \in [Threads -> Seq(Steps)]
        /\ \A u \in Threads \ {t} : todo'[u] = todo[u]
    BY <1>2, Taken
  <1>5. Tail(todo[t]) \in Seq(Steps) /\ 1 \in 1 .. Len(todo[t]) /\ Len(todo[t]) \in Nat
    BY <1>4, TailOf
  <1>6. todo'[t] = Tail(todo[t])
    BY <1>3, <1>4, <1>5
  <1>7. InOrder(todo'[t])
    BY <1>1, <1>4, <1>6, OrderTail
  <1>8. \A i \in 1 .. Len(none) : FALSE
    BY DEF None
  <1>9. PutTyped(t)'
    BY <1>1, <1>2, <1>8, KeepsPutTyped
  <1>10. \A E : /\ Count(todo[t], E) \in Nat
                /\ Count(todo'[t], E) = Count(todo[t], E) - (IF <<op, x>> \in E THEN 1 ELSE 0)
    <2> TAKE E
    <2>1. Count(none, E) = 0
      BY CountShort
    <2>2. Count(todo[t], E) \in Nat
          /\ Count(todo'[t], E) = Count(todo[t], E) - (IF todo[t][1] \in E THEN 1 ELSE 0)
                                 + Count(none, E)
      BY TakenCount
    <2> QED
      BY <1>4, <2>1, <2>2
  <1>11. locked' = locked => Within(t)'
    BY <1>1, <1>2, <1>8, KeepsWithin
  <1>12. (\A i \in 2 .. Len(todo[t]) : todo[t][i][1] = "free" =>
            refs'[todo[t][i][2]] = refs[todo[t][i][2]])
         => LastFreed(t)'
    BY <1>1, <1>2, <1>8, KeepsLastFreed
  <1>13. /\ op = "clear" => owner'[x] = t /\ value'[x] = Undef
         /\ \A j \in 2 .. Len(todo[t]) : todo[t][j][1] = "put" =>
              LET y == todo[t][j][2] IN
              owner[y] = t /\ value[y] = Undef => owner'[y] = t /\ value'[y] = Undef
         => Cleared(t)'
    BY <1>1, <1>2, <1>8, KeepsCleared
  <1>14. \A i \in 2 .. Len(todo[t]) : /\ todo[t][i][2] \in Scalars /\ todo[t][i] \in Steps
                                      /\ i \in 1 .. Len(todo[t])
    BY <1>5, OnScalars
  <1>15. \A i \in 2 .. Len(todo[t]) : MayPrecede(todo[t][1], todo[t][i])
    BY <1>1, <1>5 DEF InOrder, Phases
  <1>16. TypeOK' /\ Kept(t)' => Found(t)'
    BY <1>1, KeepsFound
  <1>17. \A y \in Scalars : Unlocked(t, y) => op = "unlock"
    BY <1>4, <1>5 DEF Unlocked
  <1>18. ASSUME NEW y \in Scalars
         PROVE
       /\ Count(todo'[t], Locking(y))
            = Count(todo[t], Locking(y)) - (IF op = "lock" /\ x = y THEN 1 ELSE 0)
       /\ Count(todo'[t], Unlocking(y))
            = Count(todo[t], Unlocking(y)) - (IF op = "unlock" /\ x = y THEN 1 ELSE 0)
       /\ Count(todo'[t], Freeing(y))
            = Count(todo[t], Freeing(y)) - (IF op = "free" /\ x = y THEN 1 ELSE 0)
       /\ Count(todo'[t], Referencing(y))
            = Count(todo[t], Referencing(y)) - (IF op = "reference" /\ x = y THEN 1 ELSE 0)
       /\ Count(todo'[t], Spending(y))
            = Count(todo[t], Spending(y)) - (IF op \in {"release", "free"} /\ x = y THEN 1 ELSE 0)
       /\ Count(todo'[t], Putting(y)) = Count(todo[t], Putting(y))
    <2>1. /\ <<op, x>> \in Locking(y) <=> op = "lock" /\ x = y
          /\ <<op, x>> \in Unlocking(y) <=> op = "unlock" /\ x = y
          /\ <<op, x>> \in Freeing(y) <=> op = "free" /\ x = y
          /\ <<op, x>> \in Referencing(y) <=> op = "reference" /\ x = y
          /\ <<op, x>> \in Spending(y) <=> op \in {"release", "free"} /\ x = y
          /\ <<op, x>> \notin Putting(y)
      BY KindsOfSteps
    <2>2. Count(todo'[t], Putting(y)) = Count(todo[t], Putting(y)) - 0
      BY <1>10, <2>1
    <2> QED
      BY <1>10, <2>1, <2>2
  <1>19. Fewer(t, op, x)
    BY <1>10, <1>18, SMTT(30) DEF Fewer
  <1> QED
    BY <1>4, <1>5, <1>7, <1>9, <1>10, <1>11, <1>12, <1>13, <1>14, <1>16, <1>17, <1>19, <1>15 DEF Followed

(* The same, in the words of the model.                                    *)
LEMMA NoneFollowed ==
  ASSUME TypeOK, NEW t \in Threads, NEW x \in Scalars, NEW op \in Kinds,
         Take(t, op, x, <<>>), OfThread(t)
  PROVE  Followed(t, op, x)
  <1> DEFINE none == <<>>
  <1>1. none \in Seq(Steps) /\ None(none)
    BY DEF None
  <1>2. Take(t, op, x, none)
    BY Zenon
  <1> HIDE DEF none
  <1> QED
    BY <1>1, <1>2, OneTaken

(* The kinds of steps, by name.                                            *)
LEMMA OpKinds ==
  /\ "lock" \in Kinds /\ "unlock" \in Kinds /\ "reference" \in Kinds /\ "release" \in Kinds
  /\ "clear" \in Kinds /\ "free" \in Kinds /\ "get" \in Kinds
  BY DEF Kinds

(* RefsExact is kept by what changes no reference.                         *)
LEMMA SameReferences ==
  ASSUME RefsExact, UNCHANGED <<value, refs, holds>>
  PROVE  RefsExact'
  BY DEF RefsExact, HeldTokens

(* What is known after step op on x, in whose place came the steps of      *)
(* "first"                                                                 *)
Replaced(t, op, x, first) ==
  /\ todo[t] # <<>> /\ 1 \in 1 .. Len(todo[t])
  /\ todo[t][1][1] = op /\ todo[t][1][2] = x
  /\ op # "put" => todo[t][1] = <<op, x>>
  /\ op = "put" => /\ todo[t][1] = <<"put", x, todo[t][1][3]>>
                   /\ todo[t][1][3] \in Scalars \cup {Undef}
                   /\ Head(todo[t]) = todo[t][1]
  /\ todo' \in [Threads -> Seq(Steps)] /\ \A u \in Threads \ {t} : todo'[u] = todo[u]
  /\ todo'[t] = first \o Tail(todo[t])
  /\ PutTyped(t)'
  /\ \A E : /\ Count(todo[t], E) \in Nat
            /\ Count(todo'[t], E) = Count(todo[t], E) - (IF todo[t][1] \in E THEN 1 ELSE 0)
                                  + Count(first, E)
  /\ \A i \in 2 .. Len(todo[t]) : /\ todo[t][i][2] \in Scalars /\ todo[t][i] \in Steps
                                  /\ i \in 1 .. Len(todo[t])
                                  /\ MayPrecede(todo[t][1], todo[t][i])
  /\ locked' = locked => Within(t)'
  /\ /\ \A i \in 1 .. Len(first) : first[i][1] = "free" => refs'[first[i][2]] = 1
     /\ \A i \in 2 .. Len(todo[t]) : todo[t][i][1] = "free" =>
          refs'[todo[t][i][2]] = refs[todo[t][i][2]]
     => LastFreed(t)'
  /\ /\ op = "clear" => owner'[x] = t /\ value'[x] = Undef
     /\ \A j \in 2 .. Len(todo[t]) : todo[t][j][1] = "put" =>
          LET y == todo[t][j][2] IN
          owner[y] = t /\ value[y] = Undef => owner'[y] = t /\ value'[y] = Undef
     => Cleared(t)'
  /\ \A y \in Scalars : Unlocked(t, y) => op = "unlock"
  /\ Tail(todo[t]) \in Seq(Steps)
  /\ InOrder(Tail(todo[t])) /\ ReferenceKept(Tail(todo[t]), 1)
  /\ \A j \in 1 .. Len(Tail(todo[t])) : MayPrecede(todo[t][1], Tail(todo[t])[j])

(* A step in whose place others come, on scalars that its own may refer    *)
(* to.                                                                     *)
LEMMA MoreTaken ==
  ASSUME TypeOK, NEW t \in Threads, NEW x \in Scalars, NEW op, NEW first \in Seq(Steps),
         Take(t, op, x, first), OfThread(t),
         \A i \in 1 .. Len(first) :
           /\ first[i][1] # "put" /\ first[i][2] \in Scalars /\ first[i][2] \in Reach(x)
           /\ first[i][1] \in {"unlock", "free"} =>
                \A k \in 1 .. i - 1 : first[k][2] \in Reach(first[i][2])
  PROVE  Replaced(t, op, x, first)
  <1>1. /\ InOrder(todo[t]) /\ PutTyped(t) /\ Within(t) /\ LastFreed(t) /\ Cleared(t)
    BY DEF OfThread
  <1>2. /\ todo[t] \in Seq(Steps) /\ todo[t] # <<>>
        /\ todo[t][1][1] = op /\ todo[t][1][2] = x
        /\ op # "put" => todo[t][1] = <<op, x>>
        /\ op = "put" => /\ todo[t][1] = <<"put", x, todo[t][1][3]>>
                         /\ todo[t][1][3] \in Scalars \cup {Undef}
                         /\ Head(todo[t]) = todo[t][1]
        /\ todo'[t] = first \o Tail(todo[t])
        /\ todo' \in [Threads -> Seq(Steps)]
        /\ \A u \in Threads \ {t} : todo'[u] = todo[u]
    BY Taken
  <1>3. /\ Tail(todo[t]) \in Seq(Steps) /\ 1 \in 1 .. Len(todo[t]) /\ Len(todo[t]) \in Nat
        /\ Len(Tail(todo[t])) = Len(todo[t]) - 1
        /\ \A i \in 1 .. Len(todo[t]) - 1 : Tail(todo[t])[i] = todo[t][i + 1]
    BY <1>2, TailOf
  <1>4. InOrder(Tail(todo[t])) /\ ReferenceKept(Tail(todo[t]), 1)
    BY <1>1, <1>2, OrderTail
  <1>5. PutTyped(t)'
    BY <1>1, KeepsPutTyped
  <1>6. \A E : /\ Count(todo[t], E) \in Nat
            /\ Count(todo'[t], E) = Count(todo[t], E) - (IF todo[t][1] \in E THEN 1 ELSE 0)
                                  + Count(first, E)
    BY TakenCount
  <1>7. \A i \in 2 .. Len(todo[t]) : MayPrecede(todo[t][1], todo[t][i])
    BY <1>1, <1>3 DEF InOrder, Phases
  <1>8. \A i \in 2 .. Len(todo[t]) : /\ todo[t][i][2] \in Scalars /\ todo[t][i] \in Steps
                                     /\ i \in 1 .. Len(todo[t])
    BY <1>3, OnScalars
  <1>9. locked' = locked => Within(t)'
    BY <1>1, KeepsWithin
  <1>10. /\ \A i \in 1 .. Len(first) : first[i][1] = "free" => refs'[first[i][2]] = 1
         /\ \A i \in 2 .. Len(todo[t]) : todo[t][i][1] = "free" =>
              refs'[todo[t][i][2]] = refs[todo[t][i][2]]
         => LastFreed(t)'
    BY <1>1, KeepsLastFreed
  <1>11. /\ op = "clear" => owner'[x] = t /\ value'[x] = Undef
         /\ \A j \in 2 .. Len(todo[t]) : todo[t][j][1] = "put" =>
              LET y == todo[t][j][2] IN
              owner[y] = t /\ value[y] = Undef => owner'[y] = t /\ value'[y] = Undef
         => Cleared(t)'
    BY <1>1, KeepsCleared
  <1>12. \A y \in Scalars : Unlocked(t, y) => op = "unlock"
    BY <1>2, <1>3 DEF Unlocked
  <1>13. \A j \in 1 .. Len(Tail(todo[t])) : MayPrecede(todo[t][1], Tail(todo[t])[j])
    <2> TAKE j \in 1 .. Len(Tail(todo[t]))
    <2>1. j + 1 \in 2 .. Len(todo[t]) /\ Tail(todo[t])[j] = todo[t][j + 1]
      BY <1>3
    <2>2. MayPrecede(todo[t][1], todo[t][j + 1])
      BY <1>7, <2>1
    <2> QED
      BY <2>1, <2>2
  <1> QED
    BY <1>2, <1>3, <1>4, <1>5, <1>6, <1>7, <1>8, <1>9, <1>10, <1>11, <1>12, <1>13 DEF Replaced

(* One or two steps put in front of a list, one at a time.                 *)
LEMMA FirstIs ==
  ASSUME NEW s \in Seq(Steps)
  PROVE  /\ \A a \in Steps : One(s, a) => \A r \in Seq(Steps) : s \o r = <<a>> \o r
         /\ \A a, b \in Steps : Two(s, a, b) =>
              \A r \in Seq(Steps) : s \o r = <<a>> \o (<<b>> \o r)
  <1>1. ASSUME NEW a \in Steps, One(s, a)
        PROVE  s = <<a>>
    <2>1. <<a>> \in Seq(Steps) /\ Len(<<a>>) = 1 /\ <<a>>[1] = a
      OBVIOUS
    <2>2. Len(s) = Len(<<a>>) /\ \A i \in 1 .. Len(s) : s[i] = <<a>>[i]
      BY <1>1, <2>1 DEF One
    <2> QED
      BY <2>1, <2>2, SeqEqual
  <1>2. ASSUME NEW a \in Steps, NEW b \in Steps, Two(s, a, b)
        PROVE  s = <<a>> \o <<b>>
    <2>1. <<a>> \in Seq(Steps) /\ <<b>> \in Seq(Steps)
      OBVIOUS
    <2>2. /\ <<a>> \o <<b>> \in Seq(Steps) /\ Len(<<a>> \o <<b>>) = 2
          /\ (<<a>> \o <<b>>)[1] = a /\ (<<a>> \o <<b>>)[2] = b
      <3>1. /\ <<a>> \o <<b>> \in Seq(Steps) /\ Len(<<a>> \o <<b>>) = 2
            /\ (<<a>> \o <<b>>)[1] = a
        BY <2>1, ConcatProperties
      <3>2. (<<a>> \o <<b>>)[2] = b
        BY <2>1, ConsOf
      <3> QED
        BY <3>1, <3>2
    <2>3. Len(s) = Len(<<a>> \o <<b>>) /\ \A i \in 1 .. Len(s) : s[i] = (<<a>> \o <<b>>)[i]
      BY <1>2, <2>2 DEF Two
    <2> QED
      BY <2>2, <2>3, SeqEqual
  <1>3. ASSUME NEW a \in Steps, NEW b \in Steps, NEW r \in Seq(Steps)
        PROVE  (<<a>> \o <<b>>) \o r = <<a>> \o (<<b>> \o r)
    <2>1. <<a>> \in Seq(Steps) /\ <<b>> \in Seq(Steps)
      OBVIOUS
    <2> QED
      BY <2>1, ConcatAssociative
  <1>4. \A a \in Steps : One(s, a) => \A r \in Seq(Steps) : s \o r = <<a>> \o r
    BY <1>1, Zenon
  <1>5. ASSUME NEW a \in Steps, NEW b \in Steps, Two(s, a, b), NEW r \in Seq(Steps)
        PROVE  s \o r = <<a>> \o (<<b>> \o r)
    <2>1. s \o r = (<<a>> \o <<b>>) \o r
      BY <1>2, <1>5, Zenon
    <2> QED
      BY <1>3, <2>1, Zenon
  <1> QED
    BY <1>4, <1>5, Zenon

(* A step in whose place none comes,                                       *)
LEMMA NoneReplaced ==
  ASSUME TypeOK, NEW t \in Threads, NEW x \in Scalars, NEW op,
         Take(t, op, x, <<>>), OfThread(t)
  PROVE  \E none \in Seq(Steps) :
           /\ None(none) /\ Replaced(t, op, x, none) /\ InOrder(todo'[t])
           /\ TypeOK' /\ Kept(t)' => Found(t)'
  <1> DEFINE none == <<>>
  <1>1. none \in Seq(Steps) /\ None(none) /\ \A i \in 1 .. Len(none) : FALSE
    BY DEF None
  <1>2. Take(t, op, x, none)
    BY Zenon
  <1> HIDE DEF none
  <1>3. Replaced(t, op, x, none)
    BY <1>1, <1>2, MoreTaken
  <1>4. none \o Tail(todo[t]) = Tail(todo[t])
    BY <1>1, <1>3, NoStepsFirst DEF Replaced
  <1>5. InOrder(todo'[t])
    BY <1>3, <1>4 DEF Replaced
  <1>6. TypeOK' /\ Kept(t)' => Found(t)'
    BY <1>1, <1>2, KeepsFound DEF OfThread
  <1> QED
    BY <1>1, <1>3, <1>5, <1>6

(* one,                                                                    *)
LEMMA OneReplaced ==
  ASSUME TypeOK, NEW t \in Threads, NEW x \in Scalars, NEW op, NEW a \in Steps,
         Take(t, op, x, <<a>>), OfThread(t),
         a[2] \in Scalars, a[2] \in Reach(x), a[1] \notin {"put", "unlock", "free"}
  PROVE  \E first \in Seq(Steps) :
           /\ One(first, a) /\ Replaced(t, op, x, first)
           /\ todo'[t] = <<a>> \o Tail(todo[t])
           /\ todo'[t] # <<>> /\ Head(todo'[t]) = a
  <1> DEFINE first == <<a>>
  <1>1. first \in Seq(Steps) /\ One(first, a)
    BY DEF One
  <1>2. Take(t, op, x, first)
    BY Zenon
  <1> HIDE DEF first
  <1>3. \A i \in 1 .. Len(first) : first[i] = a
    BY <1>1 DEF One
  <1>4. Replaced(t, op, x, first)
    BY <1>1, <1>2, <1>3, MoreTaken
  <1>5. Tail(todo[t]) \in Seq(Steps) /\ todo'[t] = first \o Tail(todo[t])
    BY <1>4 DEF Replaced
  <1>6. todo'[t] = <<a>> \o Tail(todo[t])
    BY <1>1, <1>5, FirstIs, ZenonT(60)
  <1> QED
    BY <1>1, <1>4, <1>5, <1>6, ConsOf, SMTT(30)

(* or two.                                                                 *)
LEMMA TwoReplaced ==
  ASSUME TypeOK, NEW t \in Threads, NEW x \in Scalars, NEW op, NEW a \in Steps, NEW b \in Steps,
         Take(t, op, x, <<a, b>>), OfThread(t),
         a[2] = x, b[2] = x, a[1] # "put", b[1] # "put"
  PROVE  \E first \in Seq(Steps) :
           /\ Two(first, a, b) /\ Replaced(t, op, x, first)
           /\ todo'[t] = <<a>> \o (<<b>> \o Tail(todo[t]))
           /\ todo'[t] # <<>> /\ Head(todo'[t]) = a
  <1> DEFINE first == <<a, b>>
  <1>1. first \in Seq(Steps) /\ Two(first, a, b)
    BY DEF Two
  <1>2. Take(t, op, x, first)
    BY Zenon
  <1> HIDE DEF first
  <1>3. \A i \in 1 .. Len(first) : first[i] \in {a, b} /\ \A k \in 1 .. i - 1 : first[k] \in {a, b}
    BY <1>1 DEF Two
  <1>4. x \in Reach(x)
    BY DEF Reach
  <1>5. Replaced(t, op, x, first)
    BY <1>1, <1>2, <1>3, <1>4, MoreTaken
  <1>6. Tail(todo[t]) \in Seq(Steps) /\ todo'[t] = first \o Tail(todo[t])
    BY <1>5 DEF Replaced
  <1>7. todo'[t] = <<a>> \o (<<b>> \o Tail(todo[t]))
    BY <1>1, <1>6, FirstIs, ZenonT(60)
  <1>8. <<b>> \o Tail(todo[t]) \in Seq(Steps)
    BY <1>6, ConsOf
  <1> QED
    BY <1>1, <1>5, <1>7, <1>8, ConsOf

(* The counts after each.                                                  *)
LEMMA CountsReplaced ==
  ASSUME NEW t \in Threads, NEW x \in Scalars, NEW op, NEW first \in Seq(Steps),
         Replaced(t, op, x, first), NEW E
  PROVE  LET n == Count(todo[t], E) - (IF todo[t][1] \in E THEN 1 ELSE 0) IN
         /\ None(first) => Count(todo'[t], E) = n
         /\ \A a : One(first, a) => Count(todo'[t], E) = n + (IF a \in E THEN 1 ELSE 0)
         /\ \A a, b : Two(first, a, b) =>
              Count(todo'[t], E) = n + (IF a \in E THEN 1 ELSE 0) + (IF b \in E THEN 1 ELSE 0)
  <1>1. /\ Count(todo[t], E) \in Nat
        /\ Count(todo'[t], E) = Count(todo[t], E) - (IF todo[t][1] \in E THEN 1 ELSE 0)
                              + Count(first, E)
    BY DEF Replaced
  <1>2. /\ None(first) => Count(first, E) = 0
        /\ \A a : One(first, a) => Count(first, E) = IF a \in E THEN 1 ELSE 0
        /\ \A a, b : Two(first, a, b) =>
             Count(first, E) = (IF a \in E THEN 1 ELSE 0) + (IF b \in E THEN 1 ELSE 0)
    BY CountShort
  <1> QED
    BY <1>1, <1>2

(* MutexCounted is kept by what changes no mutex and no lock or unlock     *)
(* left.                                                                   *)
LEMMA SameMutexes ==
  ASSUME TypeOK, NEW t \in Threads, MutexCounted(t), \A y \in Scalars : ~Unlocked(t, y),
         owner' = owner, depth' = depth, locked' = locked,
         \A y \in Scalars :
            /\ Count(todo'[t], Locking(y)) = Count(todo[t], Locking(y))
            /\ Count(todo'[t], Unlocking(y)) = Count(todo[t], Unlocking(y))
            /\ Count(todo'[t], Freeing(y)) = Count(todo[t], Freeing(y))
  PROVE  MutexCounted(t)'
  BY DEF MutexCounted, Mine

(* A reference may come in place of a get, and a release of a clear.       *)
LEMMA OrderFirst ==
  ASSUME TypeOK, NEW t \in Threads, NEW x \in Scalars, NEW op, NEW first,
         Replaced(t, op, x, first), NEW a \in Steps, a[1] \in {"reference", "release"},
         op = IF a[1] = "reference" THEN "get" ELSE "clear",
         todo'[t] = <<a>> \o Tail(todo[t])
  PROVE  InOrder(todo'[t])
  <1> DEFINE r == Tail(todo[t])
  <1>1. /\ r \in Seq(Steps) /\ InOrder(r) /\ ReferenceKept(r, 1)
        /\ \A j \in 1 .. Len(r) : MayPrecede(todo[t][1], r[j])
        /\ todo[t][1][1] = op
    BY DEF Replaced
  <1> HIDE DEF r
  <1>2. \A j \in 1 .. Len(r) : MayPrecede(a, r[j])
    BY <1>1 DEF MayPrecede
  <1>3. InOrder(<<a>> \o r)
    BY <1>1, <1>2, OrderCons
  <1> QED
    BY <1>3 DEF r

(* The numbers that RefsExact adds.                                        *)
LEMMA HeldFinite ==
  ASSUME TypeOK, RefsExact, NEW y \in Scalars
  PROVE  /\ refs[y] = Cardinality(HeldTokens(y)) + Cardinality(Referring(y))
         /\ Cardinality(HeldTokens(y)) \in Nat /\ Cardinality(Referring(y)) \in Nat
  BY TokensFinite, FS_CardinalityType, ExactlyWhen

-----------------------------------------------------------------------------
(* The lists that instructions begin with                                  *)

(* How often a set has a step: once or not at all                          *)
Has(E, a) == IF a \in E THEN 1 ELSE 0

(* The count of E in a list is what its first step and its tail have.      *)
LEMMA CountCons ==
  ASSUME NEW q \in Seq(Steps), q # <<>>, NEW E
  PROVE  /\ Tail(q) \in Seq(Steps) /\ Len(Tail(q)) = Len(q) - 1 /\ Len(q) \in Nat
         /\ \A i \in 1 .. Len(q) - 1 : Tail(q)[i] = q[i + 1]
         /\ Count(q, E) = Has(E, q[1]) + Count(Tail(q), E)
  <1>1. /\ Tail(q) \in Seq(Steps) /\ Len(Tail(q)) = Len(q) - 1 /\ Len(q) \in Nat
        /\ \A i \in 1 .. Len(q) - 1 : Tail(q)[i] = q[i + 1]
        /\ Head(q) = q[1]
    BY TailOf
  <1>2. Count(q, E) = Count(Tail(q), E) + (IF Head(q) \in E THEN 1 ELSE 0)
    BY CountTail
  <1>3. Count(Tail(q), E) \in Nat
    BY <1>1, PlacesFinite
  <1> QED
    BY <1>1, <1>2, <1>3 DEF Has

(* A list that is not empty.                                               *)
LEMMA SomeSteps ==
  ASSUME NEW q \in Seq(Steps), NEW n \in Nat, Len(q) = n + 1
  PROVE  q # <<>>
  OBVIOUS

(* The counts of the lists that instructions begin with.                   *)
LEMMA CountList ==
  ASSUME NEW E
  PROVE  \A q \in Seq(Steps) :
           /\ Len(q) = 1 => Count(q, E) = Has(E, q[1])
           /\ Len(q) = 2 => Count(q, E) = Has(E, q[1]) + Has(E, q[2])
           /\ Len(q) = 3 => Count(q, E) = Has(E, q[1]) + (Has(E, q[2]) + Has(E, q[3]))
           /\ Len(q) = 4 => Count(q, E) = Has(E, q[1]) + (Has(E, q[2]) + (Has(E, q[3]) + 
                                         Has(E, q[4])))
           /\ Len(q) = 5 => Count(q, E) = Has(E, q[1]) + (Has(E, q[2]) + (Has(E, q[3]) + (
                                         Has(E, q[4]) + Has(E, q[5]))))
           /\ Len(q) = 6 => Count(q, E) = Has(E, q[1]) + (Has(E, q[2]) + (Has(E, q[3]) + (
                                         Has(E, q[4]) + (Has(E, q[5]) + Has(E, q[6])))))
           /\ Len(q) = 7 => Count(q, E) = Has(E, q[1]) + (Has(E, q[2]) + (Has(E, q[3]) + (
                                         Has(E, q[4]) + (Has(E, q[5]) + (Has(E, q[6]) + 
                                         Has(E, q[7]))))))
  <1>1. \A q \in Seq(Steps) : Len(q) = 1 => Count(q, E) = Has(E, q[1])
    <2> TAKE q \in Seq(Steps)
    <2>1. Len(q) = 1 => One(q, q[1])
      BY DEF One
    <2> QED
      BY <2>1, CountShort, ZenonT(60) DEF Has
  <1>2. \A q \in Seq(Steps) : Len(q) = 2 => Count(q, E) = Has(E, q[1]) + Has(E, q[2])
    <2> SUFFICES ASSUME NEW q \in Seq(Steps), Len(q) = 2
                 PROVE  Count(q, E) = Has(E, q[1]) + Has(E, q[2])
      OBVIOUS
    <2> DEFINE r == Tail(q)
    <2>1. q # <<>>
      <3>1. Len(q) = 1 + 1
        OBVIOUS
      <3> QED
        BY <3>1, SomeSteps
    <2>2. /\ r \in Seq(Steps) /\ Len(r) = Len(q) - 1 /\ \A i \in 1 .. Len(q) - 1 : r[i] = q[i + 1]
          /\ Count(q, E) = Has(E, q[1]) + Count(r, E)
      BY <2>1, CountCons
    <2> HIDE DEF r
    <2>3. Len(r) = 1 /\ r[1] = q[2]
      BY <2>2
    <2>4. Count(r, E) = Has(E, r[1])
      BY <1>1, <2>2, <2>3, Zenon
    <2> QED
      BY <2>2, <2>3, <2>4, Zenon
  <1>3. \A q \in Seq(Steps) : Len(q) = 3 => Count(q, E) = Has(E, q[1]) + (Has(E, q[2]) + Has(E, q[3]))
    <2> SUFFICES ASSUME NEW q \in Seq(Steps), Len(q) = 3
                 PROVE  Count(q, E) = Has(E, q[1]) + (Has(E, q[2]) + Has(E, q[3]))
      OBVIOUS
    <2> DEFINE r == Tail(q)
    <2>1. q # <<>>
      <3>1. Len(q) = 2 + 1
        OBVIOUS
      <3> QED
        BY <3>1, SomeSteps
    <2>2. /\ r \in Seq(Steps) /\ Len(r) = Len(q) - 1 /\ \A i \in 1 .. Len(q) - 1 : r[i] = q[i + 1]
          /\ Count(q, E) = Has(E, q[1]) + Count(r, E)
      BY <2>1, CountCons
    <2> HIDE DEF r
    <2>3. Len(r) = 2 /\ r[1] = q[2] /\ r[2] = q[3]
      BY <2>2
    <2>4. Count(r, E) = Has(E, r[1]) + Has(E, r[2])
      BY <1>2, <2>2, <2>3, Zenon
    <2> QED
      BY <2>2, <2>3, <2>4, Zenon
  <1>4. \A q \in Seq(Steps) : Len(q) = 4 => Count(q, E) = Has(E, q[1]) + (Has(E, q[2]) + (Has(E, q[3]) + 
            Has(E, q[4])))
    <2> SUFFICES ASSUME NEW q \in Seq(Steps), Len(q) = 4
                 PROVE  Count(q, E) = Has(E, q[1]) + (Has(E, q[2]) + (Has(E, q[3]) + 
                          Has(E, q[4])))
      OBVIOUS
    <2> DEFINE r == Tail(q)
    <2>1. q # <<>>
      <3>1. Len(q) = 3 + 1
        OBVIOUS
      <3> QED
        BY <3>1, SomeSteps
    <2>2. /\ r \in Seq(Steps) /\ Len(r) = Len(q) - 1 /\ \A i \in 1 .. Len(q) - 1 : r[i] = q[i + 1]
          /\ Count(q, E) = Has(E, q[1]) + Count(r, E)
      BY <2>1, CountCons
    <2> HIDE DEF r
    <2>3. Len(r) = 3 /\ r[1] = q[2] /\ r[2] = q[3] /\ r[3] = q[4]
      BY <2>2
    <2>4. Count(r, E) = Has(E, r[1]) + (Has(E, r[2]) + Has(E, r[3]))
      BY <1>3, <2>2, <2>3, Zenon
    <2> QED
      BY <2>2, <2>3, <2>4, Zenon
  <1>5. \A q \in Seq(Steps) : Len(q) = 5 => Count(q, E) = Has(E, q[1]) + (Has(E, q[2]) + (Has(E, q[3]) + (
            Has(E, q[4]) + Has(E, q[5]))))
    <2> SUFFICES ASSUME NEW q \in Seq(Steps), Len(q) = 5
                 PROVE  Count(q, E) = Has(E, q[1]) + (Has(E, q[2]) + (Has(E, q[3]) + (
                          Has(E, q[4]) + Has(E, q[5]))))
      OBVIOUS
    <2> DEFINE r == Tail(q)
    <2>1. q # <<>>
      <3>1. Len(q) = 4 + 1
        OBVIOUS
      <3> QED
        BY <3>1, SomeSteps
    <2>2. /\ r \in Seq(Steps) /\ Len(r) = Len(q) - 1 /\ \A i \in 1 .. Len(q) - 1 : r[i] = q[i + 1]
          /\ Count(q, E) = Has(E, q[1]) + Count(r, E)
      BY <2>1, CountCons
    <2> HIDE DEF r
    <2>3. Len(r) = 4 /\ r[1] = q[2] /\ r[2] = q[3] /\ r[3] = q[4] /\ r[4] = q[5]
      BY <2>2
    <2>4. Count(r, E) = Has(E, r[1]) + (Has(E, r[2]) + (Has(E, r[3]) + 
            Has(E, r[4])))
      BY <1>4, <2>2, <2>3, Zenon
    <2> QED
      BY <2>2, <2>3, <2>4, Zenon
  <1>6. \A q \in Seq(Steps) : Len(q) = 6 => Count(q, E) = Has(E, q[1]) + (Has(E, q[2]) + (Has(E, q[3]) + (
            Has(E, q[4]) + (Has(E, q[5]) + Has(E, q[6])))))
    <2> SUFFICES ASSUME NEW q \in Seq(Steps), Len(q) = 6
                 PROVE  Count(q, E) = Has(E, q[1]) + (Has(E, q[2]) + (Has(E, q[3]) + (
                          Has(E, q[4]) + (Has(E, q[5]) + Has(E, q[6])))))
      OBVIOUS
    <2> DEFINE r == Tail(q)
    <2>1. q # <<>>
      <3>1. Len(q) = 5 + 1
        OBVIOUS
      <3> QED
        BY <3>1, SomeSteps
    <2>2. /\ r \in Seq(Steps) /\ Len(r) = Len(q) - 1 /\ \A i \in 1 .. Len(q) - 1 : r[i] = q[i + 1]
          /\ Count(q, E) = Has(E, q[1]) + Count(r, E)
      BY <2>1, CountCons
    <2> HIDE DEF r
    <2>3. Len(r) = 5 /\ r[1] = q[2] /\ r[2] = q[3] /\ r[3] = q[4] /\ r[4] = q[5] /\ r[5] = q[6]
      BY <2>2
    <2>4. Count(r, E) = Has(E, r[1]) + (Has(E, r[2]) + (Has(E, r[3]) + (
            Has(E, r[4]) + Has(E, r[5]))))
      BY <1>5, <2>2, <2>3, Zenon
    <2> QED
      BY <2>2, <2>3, <2>4, Zenon
  <1>7. \A q \in Seq(Steps) : Len(q) = 7 => Count(q, E) = Has(E, q[1]) + (Has(E, q[2]) + (Has(E, q[3]) + (
            Has(E, q[4]) + (Has(E, q[5]) + (Has(E, q[6]) + 
            Has(E, q[7]))))))
    <2> SUFFICES ASSUME NEW q \in Seq(Steps), Len(q) = 7
                 PROVE  Count(q, E) = Has(E, q[1]) + (Has(E, q[2]) + (Has(E, q[3]) + (
                          Has(E, q[4]) + (Has(E, q[5]) + (Has(E, q[6]) + 
                          Has(E, q[7]))))))
      OBVIOUS
    <2> DEFINE r == Tail(q)
    <2>1. q # <<>>
      <3>1. Len(q) = 6 + 1
        OBVIOUS
      <3> QED
        BY <3>1, SomeSteps
    <2>2. /\ r \in Seq(Steps) /\ Len(r) = Len(q) - 1 /\ \A i \in 1 .. Len(q) - 1 : r[i] = q[i + 1]
          /\ Count(q, E) = Has(E, q[1]) + Count(r, E)
      BY <2>1, CountCons
    <2> HIDE DEF r
    <2>3. Len(r) = 6 /\ r[1] = q[2] /\ r[2] = q[3] /\ r[3] = q[4] /\ r[4] = q[5] /\ r[5] = q[6] /\ r[6] = q[7]
      BY <2>2
    <2>4. Count(r, E) = Has(E, r[1]) + (Has(E, r[2]) + (Has(E, r[3]) + (
            Has(E, r[4]) + (Has(E, r[5]) + Has(E, r[6])))))
      BY <1>6, <2>2, <2>3, Zenon
    <2> QED
      BY <2>2, <2>3, <2>4, Zenon
  <1> QED
    BY <1>1, <1>2, <1>3, <1>4, <1>5, <1>6, <1>7

(* Lists written out.                                                      *)
LEMMA Lists ==
  ASSUME NEW a \in Steps, NEW b \in Steps, NEW c \in Steps, NEW d \in Steps
  PROVE  /\ <<a>> \in Seq(Steps) /\ Len(<<a>>) = 1 /\ <<a>>[1] = a
         /\ <<a, b>> \in Seq(Steps) /\ Len(<<a, b>>) = 2 /\ <<a, b>>[1] = a /\ <<a, b>>[2] = b
         /\ <<a, b, c>> \in Seq(Steps) /\ Len(<<a, b, c>>) = 3
         /\ <<a, b, c>>[1] = a /\ <<a, b, c>>[2] = b /\ <<a, b, c>>[3] = c
         /\ <<a, b, c, d>> \in Seq(Steps) /\ Len(<<a, b, c, d>>) = 4
         /\ <<a, b, c, d>>[1] = a /\ <<a, b, c, d>>[2] = b
         /\ <<a, b, c, d>>[3] = c /\ <<a, b, c, d>>[4] = d
  OBVIOUS

(* Lists of five and of seven steps                                        *)
Five(s, a, b, c, d, e) ==
  Len(s) = 5 /\ s[1] = a /\ s[2] = b /\ s[3] = c /\ s[4] = d /\ s[5] = e

Seven(s, a, b, c, d, e, f, g) ==
  /\ Len(s) = 7 /\ s[1] = a /\ s[2] = b /\ s[3] = c /\ s[4] = d /\ s[5] = e
  /\ s[6] = f /\ s[7] = g

(* The list that SRWRITE begins with, which is put together.               *)
LEMMA Concats ==
  ASSUME NEW a \in Steps, NEW b \in Steps, NEW c \in Steps, NEW d \in Steps,
         NEW e \in Steps, NEW f \in Steps, NEW g \in Steps,
         NEW p \in Seq(Steps), NEW q \in Seq(Steps)
  PROVE  LET s == <<a, b>> \o p \o <<d, e>> \o q \o <<g>> IN
         /\ s \in Seq(Steps)
         /\ None(p) /\ None(q) => Five(s, a, b, d, e, g)
         /\ One(p, c) /\ One(q, f) => Seven(s, a, b, c, d, e, f, g)
  <1> DEFINE A == <<a, b>>
             D == <<d, e>>
             G == <<g>>
             u == A \o p
             v == u \o D
             w == v \o q
             s == w \o G
  <1>1. A \in Seq(Steps) /\ D \in Seq(Steps) /\ G \in Seq(Steps)
    BY Lists
  <1>2. /\ Len(A) = 2 /\ A[1] = a /\ A[2] = b
        /\ Len(D) = 2 /\ D[1] = d /\ D[2] = e
        /\ Len(G) = 1 /\ G[1] = g
    BY Lists
  <1> HIDE DEF A, D, G
  <1>3. u \in Seq(Steps)
    BY <1>1, ConcatProperties
  <1>4. /\ Len(u) = Len(A) + Len(p) /\ Len(p) \in Nat
       /\ \A i \in 1 .. Len(A) + Len(p) : u[i] = IF i <= Len(A) THEN A[i] ELSE p[i - Len(A)]
    BY <1>1, ConcatProperties
  <1> HIDE DEF u
  <1>5. v \in Seq(Steps)
    BY <1>1, <1>3, ConcatProperties
  <1>6. /\ Len(v) = Len(u) + Len(D)
       /\ \A i \in 1 .. Len(u) + Len(D) : v[i] = IF i <= Len(u) THEN u[i] ELSE D[i - Len(u)]
    BY <1>1, <1>3, ConcatProperties
  <1> HIDE DEF v
  <1>7. w \in Seq(Steps)
    BY <1>5, ConcatProperties
  <1>8. /\ Len(w) = Len(v) + Len(q) /\ Len(q) \in Nat
       /\ \A i \in 1 .. Len(v) + Len(q) : w[i] = IF i <= Len(v) THEN v[i] ELSE q[i - Len(v)]
    BY <1>5, ConcatProperties
  <1> HIDE DEF w
  <1>9. s \in Seq(Steps)
    BY <1>1, <1>7, ConcatProperties
  <1>10. /\ Len(s) = Len(w) + Len(G)
        /\ \A i \in 1 .. Len(w) + Len(G) : s[i] = IF i <= Len(w) THEN w[i] ELSE G[i - Len(w)]
    BY <1>1, <1>7, ConcatProperties
  <1> HIDE DEF s
  <1>11. ASSUME None(p), None(q)
         PROVE  Five(s, a, b, d, e, g)
    <2>1. Len(p) = 0 /\ Len(q) = 0
      BY <1>11 DEF None
    <2>2. Len(u) = 2 /\ u[1] = a /\ u[2] = b
      BY <1>4, <1>2, <2>1
    <2>3. Len(v) = 4 /\ v[1] = a /\ v[2] = b /\ v[3] = d /\ v[4] = e
      BY <1>6, <1>2, <2>2
    <2>4. Len(w) = 4 /\ w[1] = a /\ w[2] = b /\ w[3] = d /\ w[4] = e
      BY <1>8, <2>1, <2>3
    <2> QED
      BY <1>10, <1>2, <2>4 DEF Five
  <1>12. ASSUME One(p, c), One(q, f)
         PROVE  Seven(s, a, b, c, d, e, f, g)
    <2>1. Len(p) = 1 /\ Len(q) = 1 /\ p[1] = c /\ q[1] = f
      BY <1>12 DEF One
    <2>2. Len(u) = 3 /\ u[1] = a /\ u[2] = b /\ u[3] = c
      BY <1>4, <1>2, <2>1
    <2>3. Len(v) = 5 /\ v[1] = a /\ v[2] = b /\ v[3] = c /\ v[4] = d /\ v[5] = e
      BY <1>6, <1>2, <2>2
    <2>4. Len(w) = 6 /\ w[1] = a /\ w[2] = b /\ w[3] = c /\ w[4] = d /\ w[5] = e /\ w[6] = f
      BY <1>8, <2>1, <2>3
    <2> QED
      BY <1>10, <1>2, <2>4 DEF Seven
  <1> QED
    BY <1>9, <1>11, <1>12, Zenon DEF A, D, G, s, u, v, w

(* It has five steps if the new value is no reference,                     *)
LEMMA ConcatFive ==
  ASSUME NEW a \in Steps, NEW b \in Steps, NEW d \in Steps, NEW e \in Steps, NEW g \in Steps,
         NEW p \in Seq(Steps), NEW q \in Seq(Steps), None(p), None(q)
  PROVE  Five(<<a, b>> \o p \o <<d, e>> \o q \o <<g>>, a, b, d, e, g)
  BY Concats

(* and seven if it is one.                                                 *)
LEMMA ConcatSeven ==
  ASSUME NEW a \in Steps, NEW b \in Steps, NEW c \in Steps, NEW d \in Steps, NEW e \in Steps,
         NEW f \in Steps, NEW g \in Steps,
         NEW p \in Seq(Steps), NEW q \in Seq(Steps), One(p, c), One(q, f)
  PROVE  Seven(<<a, b>> \o p \o <<d, e>> \o q \o <<g>>, a, b, c, d, e, f, g)
  BY Concats

(* KindsOfSteps in numbers.                                                *)
LEMMA HasKind ==
  ASSUME NEW x \in Scalars, NEW y \in Scalars
  PROVE  /\ \A op \in Kinds :
              /\ Has(Locking(y), <<op, x>>) = IF op = "lock" /\ x = y THEN 1 ELSE 0
              /\ Has(Unlocking(y), <<op, x>>) = IF op = "unlock" /\ x = y THEN 1 ELSE 0
              /\ Has(Referencing(y), <<op, x>>) = IF op = "reference" /\ x = y THEN 1 ELSE 0
              /\ Has(Spending(y), <<op, x>>) = IF op \in {"release", "free"} /\ x = y THEN 1 ELSE 0
              /\ Has(Putting(y), <<op, x>>) = 0
         /\ \A v \in Scalars \cup {Undef} :
              /\ Has(Locking(y), <<"put", x, v>>) = 0
              /\ Has(Unlocking(y), <<"put", x, v>>) = 0
              /\ Has(Referencing(y), <<"put", x, v>>) = 0
              /\ Has(Spending(y), <<"put", x, v>>) = 0
              /\ Has(Putting(y), <<"put", x, v>>) = IF v = y THEN 1 ELSE 0
  <1>1. ASSUME NEW op \in Kinds
        PROVE /\ Has(Locking(y), <<op, x>>) = IF op = "lock" /\ x = y THEN 1 ELSE 0
              /\ Has(Unlocking(y), <<op, x>>) = IF op = "unlock" /\ x = y THEN 1 ELSE 0
              /\ Has(Referencing(y), <<op, x>>) = IF op = "reference" /\ x = y THEN 1 ELSE 0
              /\ Has(Spending(y), <<op, x>>) = IF op \in {"release", "free"} /\ x = y THEN 1 ELSE 0
              /\ Has(Putting(y), <<op, x>>) = 0
    BY KindsOfSteps DEF Has
  <1>2. ASSUME NEW v \in Scalars \cup {Undef}
        PROVE /\ Has(Locking(y), <<"put", x, v>>) = 0
              /\ Has(Unlocking(y), <<"put", x, v>>) = 0
              /\ Has(Referencing(y), <<"put", x, v>>) = 0
              /\ Has(Spending(y), <<"put", x, v>>) = 0
              /\ Has(Putting(y), <<"put", x, v>>) = IF v = y THEN 1 ELSE 0
    BY KindsOfSteps DEF Has
  <1> QED
    BY <1>1, <1>2

-----------------------------------------------------------------------------
(* The steps                                                               *)

(* POOL_LOCK                                                               *)
LEMMA LockPreserves ==
  ASSUME Inv, NEW t \in Threads, NEW x \in Scalars, LockStep(t, x)
  PROVE  Preserved(t)
  <1>1. /\ TypeOK /\ RefsExact /\ Typed /\ OfThread(t)
        /\ InOrder(todo[t]) /\ MutexCounted(t) /\ Kept(t) /\ Cleared(t) /\ LastFreed(t)
        /\ Within(t) /\ PutTyped(t)
    BY DEF Inv, OfThread
  <1>2. Followed(t, "lock", x)
    BY <1>1, NoneFollowed, OpKinds, Zenon DEF LockStep
  <1> DEFINE s == todo[t]
  <1>3. /\ s[1] = <<"lock", x>> /\ 1 \in 1 .. Len(s) /\ s # <<>>
        /\ todo' \in [Threads -> Seq(Steps)] /\ \A u \in Threads \ {t} : todo'[u] = todo[u]
        /\ InOrder(todo'[t]) /\ PutTyped(t)'
        /\ \A E : Count(s, E) \in Nat
        /\ \A y \in Scalars :
            /\ Count(todo'[t], Locking(y)) = Count(s, Locking(y)) - (IF y = x THEN 1 ELSE 0)
            /\ Count(todo'[t], Unlocking(y)) = Count(s, Unlocking(y))
            /\ Count(todo'[t], Freeing(y)) = Count(s, Freeing(y))
            /\ Count(todo'[t], Referencing(y)) = Count(s, Referencing(y))
            /\ Count(todo'[t], Spending(y)) = Count(s, Spending(y))
            /\ Count(todo'[t], Putting(y)) = Count(s, Putting(y))
    <2>1. Fewer(t, "lock", x)
      BY <1>2, Zenon DEF Followed
    <2>2. /\ s[1] = <<"lock", x>> /\ 1 \in 1 .. Len(s) /\ s # <<>>
          /\ todo' \in [Threads -> Seq(Steps)] /\ \A u \in Threads \ {t} : todo'[u] = todo[u]
          /\ InOrder(todo'[t]) /\ PutTyped(t)'
          /\ \A E : Count(s, E) \in Nat
      BY <1>2, Zenon DEF Followed
    <2>3. ASSUME NEW y \in Scalars
          PROVE  /\ Count(todo'[t], Locking(y)) = Count(s, Locking(y)) - (IF y = x THEN 1 ELSE 0)
                 /\ Count(todo'[t], Unlocking(y)) = Count(s, Unlocking(y))
                 /\ Count(todo'[t], Freeing(y)) = Count(s, Freeing(y))
                 /\ Count(todo'[t], Referencing(y)) = Count(s, Referencing(y))
                 /\ Count(todo'[t], Spending(y)) = Count(s, Spending(y))
                 /\ Count(todo'[t], Putting(y)) = Count(s, Putting(y))
      <3>1. \A E : Count(s, E) \in Nat
        BY <2>2, Zenon
      <3> QED
        BY <2>1, <3>1 DEF Fewer
    <2> QED
      BY <2>2, <2>3
  <1>4. value' = value /\ refs' = refs /\ holds' = holds /\ locked' = locked
    BY Zenon DEF LockStep
  <1>5. /\ owner[x] \in {Nobody, t}
        /\ owner' = [owner EXCEPT ![x] = t] /\ depth' = [depth EXCEPT ![x] = depth[x] + 1]
        /\ t # Nobody
    BY SharedScalarsAssumption DEF LockStep, Locks, Available
  <1>6. TypeOK'
    <2>1. /\ owner' \in [Scalars -> Threads \cup {Nobody}] /\ depth' \in [Scalars -> Nat]
          /\ \A y \in Scalars : owner'[y] = Nobody <=> depth'[y] = 0
      BY <1>1, <1>5 DEF TypeOK
    <2> QED
      BY <1>1, <1>3, <1>4, <2>1 DEF TypeOK
  <1>7. RefsExact' /\ Typed'
    BY <1>1, <1>4, SameReferences DEF Typed
  <1>8. MutexCounted(t)'
    <2> SUFFICES ASSUME NEW y \in Scalars
                 PROVE  Mine(t, y)' + Count(todo'[t], Locking(y))
                          = locked'[t][y] + Count(todo'[t], Unlocking(y)) + Count(todo'[t], Freeing(y))
      BY DEF MutexCounted
    <2>1. ~Unlocked(t, y)
      BY <1>2 DEF Followed
    <2>2. Mine(t, y) + Count(s, Locking(y))
            = locked[t][y] + Count(s, Unlocking(y)) + Count(s, Freeing(y))
      BY <1>1, <2>1 DEF MutexCounted
    <2>3. Mine(t, y)' = Mine(t, y) + (IF y = x THEN 1 ELSE 0) /\ Mine(t, y) \in Nat
      BY <1>1, <1>5 DEF TypeOK, Mine
    <2>4. /\ Count(todo'[t], Locking(y)) = Count(s, Locking(y)) - (IF y = x THEN 1 ELSE 0)
          /\ Count(todo'[t], Unlocking(y)) = Count(s, Unlocking(y))
          /\ Count(todo'[t], Freeing(y)) = Count(s, Freeing(y))
          /\ Count(s, Locking(y)) \in Nat
          /\ locked'[t][y] = locked[t][y]
      BY <1>3, <1>4
    <2> QED
      BY <2>2, <2>3, <2>4
  <1>9. Kept(t)'
    BY <1>1, <1>3, <1>4 DEF Kept
  <1>10. Found(t)' /\ Within(t)' /\ LastFreed(t)'
    BY <1>2, <1>4, <1>6, <1>9 DEF Followed
  <1>11. Cleared(t)'
    <2>1. \A y \in Scalars : owner[y] = t => owner'[y] = t
      BY <1>1, <1>5 DEF TypeOK
    <2> QED
      BY <1>2, <1>4, <2>1 DEF Followed
  <1>12. ASSUME NEW u \in Threads \ {t}
         PROVE  Apart(u)
    BY <1>1, <1>3, <1>4, <1>5, SharedScalarsAssumption, ZenonT(60) DEF Apart, TypeOK
  <1> QED
    BY <1>3, <1>6, <1>7, <1>8, <1>9, <1>10, <1>11, <1>12 DEF Preserved, OfThread

(* POOL_UNLOCK                                                             *)
LEMMA UnlockPreserves ==
  ASSUME Inv, NEW t \in Threads, NEW x \in Scalars, UnlockStep(t, x)
  PROVE  Preserved(t)
  <1>1. /\ TypeOK /\ RefsExact /\ Typed /\ OfThread(t)
        /\ InOrder(todo[t]) /\ MutexCounted(t) /\ Kept(t) /\ Cleared(t) /\ LastFreed(t)
        /\ Within(t) /\ PutTyped(t)
    BY DEF Inv, OfThread
  <1>2. Followed(t, "unlock", x)
    BY <1>1, NoneFollowed, OpKinds, Zenon DEF UnlockStep
  <1> DEFINE s == todo[t]
  <1>3. /\ s[1] = <<"unlock", x>> /\ 1 \in 1 .. Len(s) /\ s # <<>>
        /\ todo' \in [Threads -> Seq(Steps)] /\ \A u \in Threads \ {t} : todo'[u] = todo[u]
        /\ InOrder(todo'[t]) /\ PutTyped(t)'
        /\ \A E : Count(s, E) \in Nat
        /\ \A y \in Scalars :
            /\ Count(todo'[t], Locking(y)) = Count(s, Locking(y))
            /\ Count(todo'[t], Unlocking(y)) = Count(s, Unlocking(y)) - (IF y = x THEN 1 ELSE 0)
            /\ Count(todo'[t], Freeing(y)) = Count(s, Freeing(y))
            /\ Count(todo'[t], Referencing(y)) = Count(s, Referencing(y))
            /\ Count(todo'[t], Spending(y)) = Count(s, Spending(y))
            /\ Count(todo'[t], Putting(y)) = Count(s, Putting(y))
    <2>1. Fewer(t, "unlock", x)
      BY <1>2, Zenon DEF Followed
    <2>2. /\ s[1] = <<"unlock", x>> /\ 1 \in 1 .. Len(s) /\ s # <<>>
          /\ todo' \in [Threads -> Seq(Steps)] /\ \A u \in Threads \ {t} : todo'[u] = todo[u]
          /\ InOrder(todo'[t]) /\ PutTyped(t)'
          /\ \A E : Count(s, E) \in Nat
      BY <1>2, Zenon DEF Followed
    <2>3. ASSUME NEW y \in Scalars
          PROVE  /\ Count(todo'[t], Locking(y)) = Count(s, Locking(y))
                 /\ Count(todo'[t], Unlocking(y)) = Count(s, Unlocking(y)) - (IF y = x THEN 1 ELSE 0)
                 /\ Count(todo'[t], Freeing(y)) = Count(s, Freeing(y))
                 /\ Count(todo'[t], Referencing(y)) = Count(s, Referencing(y))
                 /\ Count(todo'[t], Spending(y)) = Count(s, Spending(y))
                 /\ Count(todo'[t], Putting(y)) = Count(s, Putting(y))
      <3>1. \A E : Count(s, E) \in Nat
        BY <2>2, Zenon
      <3> QED
        BY <2>1, <3>1 DEF Fewer
    <2> QED
      BY <2>2, <2>3
  <1>4. /\ value' = value /\ refs' = refs /\ holds' = holds /\ locked' = locked
        /\ Unlocks(t, x)
    BY Zenon DEF UnlockStep
  <1>5. t # Nobody
    BY SharedScalarsAssumption
  <1>6. /\ owner' \in [Scalars -> Threads \cup {Nobody}] /\ depth' \in [Scalars -> Nat]
        /\ \A y \in Scalars : owner'[y] = Nobody <=> depth'[y] = 0
        /\ \A u \in Threads \ {t} : \A y \in Scalars :
             /\ owner'[y] = u <=> owner[y] = u
             /\ owner[y] = u => depth'[y] = depth[y]
    <2>1. CASE owner[x] # t
      BY <1>1, <1>4, <2>1 DEF TypeOK, Unlocks
    <2>2. CASE owner[x] = t
      <3>1. /\ owner' = [owner EXCEPT ![x] = IF depth[x] = 1 THEN Nobody ELSE t]
            /\ depth' = [depth EXCEPT ![x] = depth[x] - 1]
        BY <1>4, <2>2 DEF Unlocks
      <3>2. depth[x] - 1 \in Nat /\ (depth[x] - 1 = 0 <=> depth[x] = 1)
        BY <1>1, <1>5, <2>2 DEF TypeOK
      <3> QED
        BY <1>1, <1>5, <2>2, <3>1, <3>2, SharedScalarsAssumption DEF TypeOK
    <2> QED
      BY <2>1, <2>2
  <1>7. TypeOK'
    BY <1>1, <1>3, <1>4, <1>6 DEF TypeOK
  <1>8. RefsExact' /\ Typed'
    BY <1>1, <1>4, SameReferences DEF Typed
  <1>9. MutexCounted(t)'
    <2> SUFFICES ASSUME NEW y \in Scalars
                 PROVE  Mine(t, y)' + Count(todo'[t], Locking(y))
                          = locked'[t][y] + Count(todo'[t], Unlocking(y)) + Count(todo'[t], Freeing(y))
      BY DEF MutexCounted
    <2>1. /\ Count(todo'[t], Locking(y)) = Count(s, Locking(y))
          /\ Count(todo'[t], Unlocking(y)) = Count(s, Unlocking(y)) - (IF y = x THEN 1 ELSE 0)
          /\ Count(todo'[t], Freeing(y)) = Count(s, Freeing(y))
          /\ Count(s, Locking(y)) \in Nat /\ Count(s, Unlocking(y)) \in Nat
          /\ Count(s, Freeing(y)) \in Nat
          /\ locked'[t][y] = locked[t][y] /\ locked[t][y] \in Nat
      BY <1>1, <1>3, <1>4 DEF TypeOK
    <2>2. Unlocked(t, y) => y = x
      <3>1. Unlocked(t, y) => s[1] = <<"unlock", y>>
        BY DEF Unlocked
      <3> QED
        BY <1>3, <3>1
    <2>3. Mine(t, y) \in Nat
      BY <1>1 DEF TypeOK, Mine
    <2>4. CASE owner[x] = t
      <3>1. ~Unlocked(t, y)
        BY <2>2, <2>4 DEF Unlocked
      <3>2. Mine(t, y) + Count(s, Locking(y))
              = locked[t][y] + Count(s, Unlocking(y)) + Count(s, Freeing(y))
        BY <1>1, <3>1 DEF MutexCounted
      <3>3. /\ owner' = [owner EXCEPT ![x] = IF depth[x] = 1 THEN Nobody ELSE t]
            /\ depth' = [depth EXCEPT ![x] = depth[x] - 1]
        BY <1>4, <2>4 DEF Unlocks
      <3>4. Mine(t, y)' = Mine(t, y) - (IF y = x THEN 1 ELSE 0)
        BY <1>1, <1>5, <2>4, <3>3 DEF TypeOK, Mine
      <3> QED
        BY <2>1, <2>3, <3>2, <3>4
    <2>5. CASE owner[x] # t
      <3>1. owner' = owner /\ depth' = depth
        BY <1>4, <2>5 DEF Unlocks
      <3>2. Mine(t, y)' = Mine(t, y)
        BY <3>1 DEF Mine
      <3>3. CASE y # x
        <4>1. Mine(t, y) + Count(s, Locking(y))
                = locked[t][y] + Count(s, Unlocking(y)) + Count(s, Freeing(y))
          BY <1>1, <2>2, <3>3 DEF MutexCounted
        <4> QED
          BY <2>1, <2>3, <3>2, <3>3, <4>1
      <3>4. CASE y = x
        <4>1. Mine(t, y) = 0
          BY <2>5, <3>4 DEF Mine
        <4>2. Count(s, Locking(y)) = 0
          <5>1. TypeOK /\ InOrder(s)
            BY <1>1, Zenon
          <5>2. s[1] = <<"unlock", x>> /\ 1 \in 1 .. Len(s)
            BY <1>3, Zenon
          <5>3. s[1][1] = "unlock"
            BY <5>2
          <5> QED
            BY <5>1, <5>2, <5>3, NoLockLater
        <4>3. Count(s, Unlocking(y)) >= 1
          <5>1. s[1] \in Unlocking(y)
            BY <1>3, <3>4 DEF Unlocking
          <5> QED
            BY <1>1, <1>3, <5>1, CountsOf
        <4>4. Unlocked(t, y)
          <5>1. \/ Mine(t, y) + Count(s, Locking(y))
                     = locked[t][y] + Count(s, Unlocking(y)) + Count(s, Freeing(y))
                \/ Unlocked(t, y)
            BY <1>1, Zenon DEF MutexCounted
          <5>2. Count(s, Freeing(y)) \in Nat /\ locked[t][y] \in Nat /\ Count(s, Unlocking(y)) \in Nat
            BY <2>1
          <5> QED
            BY <4>1, <4>2, <4>3, <5>1, <5>2
        <4>5. locked[t][y] = 0 /\ Two(s, <<"unlock", y>>, <<"release", y>>) /\ s \in Seq(Steps)
          <5>1. s = <<<<"unlock", y>>, <<"release", y>>>> /\ locked[t][y] = 0
            BY <4>4 DEF Unlocked
          <5>2. Two(s, <<"unlock", y>>, <<"release", y>>)
            BY <5>1 DEF Two
          <5>3. s \in Seq(Steps)
            BY <1>1 DEF TypeOK
          <5> QED
            BY <5>1, <5>2, <5>3
        <4>6. /\ <<"unlock", y>> \in Unlocking(y) /\ <<"release", y>> \notin Unlocking(y)
              /\ <<"unlock", y>> \notin Freeing(y) /\ <<"release", y>> \notin Freeing(y)
          BY DEF Unlocking, Freeing
        <4>7. Count(s, Unlocking(y)) = 1 /\ Count(s, Freeing(y)) = 0
          BY <4>5, <4>6, CountShort
        <4> QED
          BY <2>1, <3>2, <3>4, <4>1, <4>2, <4>5, <4>7
      <3> QED
        BY <3>3, <3>4
    <2> QED
      BY <2>4, <2>5
  <1>10. Kept(t)'
    BY <1>1, <1>3, <1>4 DEF Kept
  <1>11. Found(t)' /\ Within(t)' /\ LastFreed(t)'
    BY <1>2, <1>4, <1>7, <1>10 DEF Followed
  <1>12. Cleared(t)'
    <2>1. \A j \in 2 .. Len(s) : s[j][1] # "put"
      <3>1. \A j \in 2 .. Len(todo[t]) : MayPrecede(todo[t][1], todo[t][j])
        BY <1>2, Zenon DEF Followed
      <3>2. s[1] = <<"unlock", x>>
        BY <1>3, Zenon
      <3> QED
        BY <3>1, <3>2 DEF MayPrecede
    <2>2. /\ "unlock" = "clear" => owner'[x] = t /\ value'[x] = Undef
          /\ \A j \in 2 .. Len(todo[t]) : todo[t][j][1] = "put" =>
               LET y == todo[t][j][2] IN
               owner[y] = t /\ value[y] = Undef => owner'[y] = t /\ value'[y] = Undef
          => Cleared(t)'
      BY <1>2, Zenon DEF Followed
    <2> QED
      BY <2>1, <2>2
  <1>13. ASSUME NEW u \in Threads \ {t}
         PROVE  Apart(u)
    BY <1>3, <1>4, <1>6 DEF Apart
  <1> QED
    BY <1>3, <1>7, <1>8, <1>9, <1>10, <1>11, <1>12, <1>13 DEF Preserved, OfThread

(* POOL_REFERENCE                                                          *)
LEMMA ReferencePreserves ==
  ASSUME Inv, NEW t \in Threads, NEW x \in Scalars, ReferenceStep(t, x)
  PROVE  Preserved(t)
  <1>1. /\ TypeOK /\ RefsExact /\ Typed /\ OfThread(t)
        /\ InOrder(todo[t]) /\ MutexCounted(t) /\ Kept(t) /\ Cleared(t) /\ LastFreed(t)
        /\ Within(t) /\ PutTyped(t)
    BY DEF Inv, OfThread
  <1>2. Followed(t, "reference", x)
    BY <1>1, NoneFollowed, OpKinds, Zenon DEF ReferenceStep
  <1> DEFINE s == todo[t]
  <1>3. /\ s[1] = <<"reference", x>> /\ 1 \in 1 .. Len(s) /\ s # <<>>
        /\ todo' \in [Threads -> Seq(Steps)] /\ \A u \in Threads \ {t} : todo'[u] = todo[u]
        /\ InOrder(todo'[t]) /\ PutTyped(t)'
        /\ \A E : Count(s, E) \in Nat
        /\ \A y \in Scalars :
            /\ Count(todo'[t], Locking(y)) = Count(s, Locking(y))
            /\ Count(todo'[t], Unlocking(y)) = Count(s, Unlocking(y))
            /\ Count(todo'[t], Freeing(y)) = Count(s, Freeing(y))
            /\ Count(todo'[t], Referencing(y)) = Count(s, Referencing(y)) - (IF y = x THEN 1 ELSE 0)
            /\ Count(todo'[t], Spending(y)) = Count(s, Spending(y))
            /\ Count(todo'[t], Putting(y)) = Count(s, Putting(y))
    <2>1. Fewer(t, "reference", x)
      BY <1>2, Zenon DEF Followed
    <2>2. /\ s[1] = <<"reference", x>> /\ 1 \in 1 .. Len(s) /\ s # <<>>
          /\ todo' \in [Threads -> Seq(Steps)] /\ \A u \in Threads \ {t} : todo'[u] = todo[u]
          /\ InOrder(todo'[t]) /\ PutTyped(t)'
          /\ \A E : Count(s, E) \in Nat
      BY <1>2, Zenon DEF Followed
    <2>3. ASSUME NEW y \in Scalars
          PROVE  /\ Count(todo'[t], Locking(y)) = Count(s, Locking(y))
                 /\ Count(todo'[t], Unlocking(y)) = Count(s, Unlocking(y))
                 /\ Count(todo'[t], Freeing(y)) = Count(s, Freeing(y))
                 /\ Count(todo'[t], Referencing(y)) = Count(s, Referencing(y)) - (IF y = x THEN 1 ELSE 0)
                 /\ Count(todo'[t], Spending(y)) = Count(s, Spending(y))
                 /\ Count(todo'[t], Putting(y)) = Count(s, Putting(y))
      <3>1. \A E : Count(s, E) \in Nat
        BY <2>2, Zenon
      <3> QED
        BY <2>1, <3>1 DEF Fewer
    <2> QED
      BY <2>2, <2>3
  <1>4. /\ value' = value /\ owner' = owner /\ depth' = depth /\ locked' = locked
        /\ refs' = [refs EXCEPT ![x] = refs[x] + 1] /\ Gains(t, x) /\ Available(t, x)
    BY Zenon DEF ReferenceStep
  <1>5. /\ holds' \in [Threads -> [Scalars -> Nat]]
        /\ \A u \in Threads, y \in Scalars :
             holds'[u][y] = holds[u][y] + (IF u = t /\ y = x THEN 1 ELSE 0)
        /\ \A y \in Scalars : Cardinality(HeldTokens(y))'
                               = Cardinality(HeldTokens(y)) + (IF y = x THEN 1 ELSE 0)
    BY <1>1, <1>4, TokensGained
  <1>6. refs' \in [Scalars -> Nat]
        /\ \A y \in Scalars : refs'[y] = refs[y] + (IF y = x THEN 1 ELSE 0)
    BY <1>1, <1>4 DEF TypeOK
  <1>7. TypeOK'
    BY <1>1, <1>3, <1>4, <1>5, <1>6 DEF TypeOK
  <1>8. RefsExact' /\ Typed'
    <2>1. ASSUME NEW y \in Scalars
          PROVE  refs'[y] = Cardinality(HeldTokens(y))' + Cardinality({z \in Scalars : value'[z] = y})
      <3>1. refs[y] = Cardinality(HeldTokens(y)) + Cardinality({z \in Scalars : value[z] = y})
        BY <1>1 DEF RefsExact
      <3>2. Cardinality({z \in Scalars : value[z] = y}) \in Nat
        BY ReferringFinite
      <3>3. Cardinality(HeldTokens(y)) \in Nat
        BY <1>1, TokensFinite, FS_CardinalityType
      <3> QED
        BY <1>4, <1>5, <1>6, <3>1, <3>2, <3>3
    <2> QED
      BY <1>1, <1>4, <2>1 DEF RefsExact, Typed
  <1>9. MutexCounted(t)'
    <2> SUFFICES ASSUME NEW y \in Scalars
                 PROVE  Mine(t, y)' + Count(todo'[t], Locking(y))
                          = locked'[t][y] + Count(todo'[t], Unlocking(y)) + Count(todo'[t], Freeing(y))
      BY DEF MutexCounted
    <2>1. ~Unlocked(t, y)
      BY <1>2 DEF Followed
    <2>2. Mine(t, y) + Count(s, Locking(y))
            = locked[t][y] + Count(s, Unlocking(y)) + Count(s, Freeing(y))
      BY <1>1, <2>1 DEF MutexCounted
    <2>3. Mine(t, y)' = Mine(t, y)
      BY <1>4 DEF Mine
    <2> QED
      BY <1>3, <1>4, <2>2, <2>3
  <1>10. Kept(t)'
    <2> SUFFICES ASSUME NEW y \in Scalars
                 PROVE  /\ holds'[t][y] >= Count(todo'[t], Spending(y))
                        /\ holds'[t][y] + Count(todo'[t], Referencing(y))
                             >= Count(todo'[t], Spending(y)) + Count(todo'[t], Putting(y))
                                + (IF locked'[t][y] > 0 THEN 1 ELSE 0)
      BY DEF Kept
    <2>1. /\ holds[t][y] >= Count(s, Spending(y))
          /\ holds[t][y] + Count(s, Referencing(y))
               >= Count(s, Spending(y)) + Count(s, Putting(y)) + (IF locked[t][y] > 0 THEN 1 ELSE 0)
      BY <1>1 DEF Kept
    <2>2. /\ holds'[t][y] = holds[t][y] + (IF y = x THEN 1 ELSE 0) /\ holds[t][y] \in Nat
          /\ Count(todo'[t], Referencing(y)) = Count(s, Referencing(y)) - (IF y = x THEN 1 ELSE 0)
          /\ Count(todo'[t], Spending(y)) = Count(s, Spending(y))
          /\ Count(todo'[t], Putting(y)) = Count(s, Putting(y))
          /\ Count(s, Referencing(y)) \in Nat /\ Count(s, Spending(y)) \in Nat
          /\ Count(s, Putting(y)) \in Nat /\ locked' = locked
      BY <1>1, <1>3, <1>4, <1>5 DEF TypeOK
    <2> QED
      BY <2>1, <2>2
  <1>11. Found(t)' /\ Within(t)'
    BY <1>2, <1>4, <1>7, <1>10 DEF Followed
  <1>12. Cleared(t)'
    BY <1>2, <1>4 DEF Followed
  <1>13. LastFreed(t)'
    <2>1. \A j \in 2 .. Len(s) : s[j][1] # "free"
      <3>1. \A j \in 2 .. Len(todo[t]) : MayPrecede(todo[t][1], todo[t][j])
        BY <1>2, Zenon DEF Followed
      <3>2. s[1] = <<"reference", x>>
        BY <1>3, Zenon
      <3> QED
        BY <3>1, <3>2 DEF MayPrecede
    <2> QED
      BY <1>2, <2>1 DEF Followed
  <1>14. ASSUME NEW u \in Threads \ {t}
         PROVE  Apart(u)
    <2>1. \A y \in Scalars : owner[y] = u => y # x
      BY <1>4, SharedScalarsAssumption DEF Available
    <2>2. holds'[u] = holds[u]
      BY <1>1, <1>4 DEF Gains, TypeOK
    <2> QED
      BY <1>3, <1>4, <1>6, <1>1, <2>1, <2>2 DEF Apart, TypeOK
  <1> QED
    BY <1>3, <1>7, <1>8, <1>9, <1>10, <1>11, <1>12, <1>13, <1>14 DEF Preserved, OfThread

(* POOL_RELEASE, not of the last reference                                 *)
LEMMA ReleasePreserves ==
  ASSUME Inv, NEW t \in Threads, NEW x \in Scalars, ReleaseStep(t, x)
  PROVE  Preserved(t)
  <1>1. /\ TypeOK /\ RefsExact /\ Typed /\ OfThread(t)
        /\ InOrder(todo[t]) /\ MutexCounted(t) /\ Kept(t) /\ Cleared(t) /\ LastFreed(t)
        /\ Within(t) /\ PutTyped(t)
    BY DEF Inv, OfThread
  <1>2. Followed(t, "release", x)
    BY <1>1, NoneFollowed, OpKinds, Zenon DEF ReleaseStep
  <1> DEFINE s == todo[t]
  <1>3. /\ s[1] = <<"release", x>> /\ 1 \in 1 .. Len(s) /\ s # <<>>
        /\ todo' \in [Threads -> Seq(Steps)] /\ \A u \in Threads \ {t} : todo'[u] = todo[u]
        /\ InOrder(todo'[t]) /\ PutTyped(t)'
        /\ \A E : Count(s, E) \in Nat
        /\ \A y \in Scalars :
            /\ Count(todo'[t], Locking(y)) = Count(s, Locking(y))
            /\ Count(todo'[t], Unlocking(y)) = Count(s, Unlocking(y))
            /\ Count(todo'[t], Freeing(y)) = Count(s, Freeing(y))
            /\ Count(todo'[t], Referencing(y)) = Count(s, Referencing(y))
            /\ Count(todo'[t], Spending(y)) = Count(s, Spending(y)) - (IF y = x THEN 1 ELSE 0)
            /\ Count(todo'[t], Putting(y)) = Count(s, Putting(y))
    <2>1. Fewer(t, "release", x)
      BY <1>2, Zenon DEF Followed
    <2>2. /\ s[1] = <<"release", x>> /\ 1 \in 1 .. Len(s) /\ s # <<>>
          /\ todo' \in [Threads -> Seq(Steps)] /\ \A u \in Threads \ {t} : todo'[u] = todo[u]
          /\ InOrder(todo'[t]) /\ PutTyped(t)'
          /\ \A E : Count(s, E) \in Nat
      BY <1>2, Zenon DEF Followed
    <2>3. ASSUME NEW y \in Scalars
          PROVE  /\ Count(todo'[t], Locking(y)) = Count(s, Locking(y))
                 /\ Count(todo'[t], Unlocking(y)) = Count(s, Unlocking(y))
                 /\ Count(todo'[t], Freeing(y)) = Count(s, Freeing(y))
                 /\ Count(todo'[t], Referencing(y)) = Count(s, Referencing(y))
                 /\ Count(todo'[t], Spending(y)) = Count(s, Spending(y)) - (IF y = x THEN 1 ELSE 0)
                 /\ Count(todo'[t], Putting(y)) = Count(s, Putting(y))
      <3>1. \A E : Count(s, E) \in Nat
        BY <2>2, Zenon
      <3> QED
        BY <2>1, <3>1 DEF Fewer
    <2> QED
      BY <2>2, <2>3
  <1>4. /\ value' = value /\ owner' = owner /\ depth' = depth /\ locked' = locked
        /\ refs' = [refs EXCEPT ![x] = refs[x] - 1] /\ Loses(t, x) /\ Available(t, x)
        /\ refs[x] > 1
    BY Zenon DEF ReleaseStep
  <1>5. holds[t][x] >= 1
    <2>1. s[1] \in Spending(x)
      BY <1>3 DEF Spending
    <2>2. Count(s, Spending(x)) >= 1
      BY <1>1, <1>3, <2>1, CountsOf
    <2> QED
      BY <1>1, <1>3, <2>2, SMTT(30) DEF Kept, TypeOK
  <1>6. /\ holds' \in [Threads -> [Scalars -> Nat]]
        /\ \A u \in Threads, y \in Scalars :
             holds'[u][y] = holds[u][y] - (IF u = t /\ y = x THEN 1 ELSE 0)
        /\ \A y \in Scalars : Cardinality(HeldTokens(y))'
                               = Cardinality(HeldTokens(y)) - (IF y = x THEN 1 ELSE 0)
    BY <1>1, <1>4, <1>5, TokensLost
  <1>7. refs' \in [Scalars -> Nat]
        /\ \A y \in Scalars : refs'[y] = refs[y] - (IF y = x THEN 1 ELSE 0)
    BY <1>1, <1>4 DEF TypeOK
  <1>8. TypeOK'
    BY <1>1, <1>3, <1>4, <1>6, <1>7 DEF TypeOK
  <1>9. RefsExact' /\ Typed'
    <2>1. ASSUME NEW y \in Scalars
          PROVE  refs'[y] = Cardinality(HeldTokens(y))' + Cardinality({z \in Scalars : value'[z] = y})
      <3>1. refs[y] = Cardinality(HeldTokens(y)) + Cardinality({z \in Scalars : value[z] = y})
        BY <1>1 DEF RefsExact
      <3>2. Cardinality({z \in Scalars : value[z] = y}) \in Nat
        BY ReferringFinite
      <3>3. Cardinality(HeldTokens(y)) \in Nat
        BY <1>1, TokensFinite, FS_CardinalityType
      <3> QED
        BY <1>4, <1>6, <1>7, <3>1, <3>2, <3>3
    <2> QED
      BY <1>1, <1>4, <2>1 DEF RefsExact, Typed
  <1>10. MutexCounted(t)'
    <2> SUFFICES ASSUME NEW y \in Scalars
                 PROVE  Mine(t, y)' + Count(todo'[t], Locking(y))
                          = locked'[t][y] + Count(todo'[t], Unlocking(y)) + Count(todo'[t], Freeing(y))
      BY DEF MutexCounted
    <2>1. ~Unlocked(t, y)
      BY <1>2 DEF Followed
    <2>2. Mine(t, y) + Count(s, Locking(y))
            = locked[t][y] + Count(s, Unlocking(y)) + Count(s, Freeing(y))
      BY <1>1, <2>1 DEF MutexCounted
    <2>3. Mine(t, y)' = Mine(t, y)
      BY <1>4 DEF Mine
    <2> QED
      BY <1>3, <1>4, <2>2, <2>3
  <1>11. Kept(t)'
    <2> SUFFICES ASSUME NEW y \in Scalars
                 PROVE  /\ holds'[t][y] >= Count(todo'[t], Spending(y))
                        /\ holds'[t][y] + Count(todo'[t], Referencing(y))
                             >= Count(todo'[t], Spending(y)) + Count(todo'[t], Putting(y))
                                + (IF locked'[t][y] > 0 THEN 1 ELSE 0)
      BY DEF Kept
    <2>1. /\ holds[t][y] >= Count(s, Spending(y))
          /\ holds[t][y] + Count(s, Referencing(y))
               >= Count(s, Spending(y)) + Count(s, Putting(y)) + (IF locked[t][y] > 0 THEN 1 ELSE 0)
      BY <1>1 DEF Kept
    <2>2. /\ holds'[t][y] = holds[t][y] - (IF y = x THEN 1 ELSE 0) /\ holds[t][y] \in Nat
          /\ Count(todo'[t], Referencing(y)) = Count(s, Referencing(y))
          /\ Count(todo'[t], Spending(y)) = Count(s, Spending(y)) - (IF y = x THEN 1 ELSE 0)
          /\ Count(todo'[t], Putting(y)) = Count(s, Putting(y))
          /\ Count(s, Referencing(y)) \in Nat /\ Count(s, Spending(y)) \in Nat
          /\ Count(s, Putting(y)) \in Nat /\ locked' = locked
      BY <1>1, <1>3, <1>4, <1>6 DEF TypeOK
    <2> QED
      BY <2>1, <2>2
  <1>12. Found(t)' /\ Within(t)'
    BY <1>2, <1>4, <1>8, <1>11 DEF Followed
  <1>13. Cleared(t)'
    BY <1>2, <1>4 DEF Followed
  <1>14. LastFreed(t)'
    <2>1. \A j \in 2 .. Len(s) : s[j][1] = "free" => s[j][2] # x /\ s[j][2] \in Scalars
      BY <1>1, <1>2, <1>4 DEF Followed, LastFreed
    <2>2. \A j \in 2 .. Len(s) : s[j][1] = "free" => refs'[s[j][2]] = refs[s[j][2]]
      BY <1>1, <1>4, <2>1 DEF TypeOK
    <2> QED
      BY <1>2, <2>2 DEF Followed
  <1>15. ASSUME NEW u \in Threads \ {t}
         PROVE  Apart(u)
    <2>1. \A y \in Scalars : owner[y] = u => y # x
      BY <1>4, SharedScalarsAssumption DEF Available
    <2>2. holds'[u] = holds[u]
      BY <1>1, <1>4 DEF Loses, TypeOK
    <2>3. \A y \in Scalars : y # x => refs'[y] = refs[y]
      BY <1>1, <1>4 DEF TypeOK
    <2> QED
      BY <1>3, <1>4, <2>1, <2>2, <2>3 DEF Apart
  <1> QED
    BY <1>3, <1>8, <1>10, <1>11, <1>12, <1>13, <1>14, <1>15, <1>9 DEF Preserved, OfThread

(* The end of POOL_RELEASE of the last reference: mutex and object are     *)
(* freed.                                                                  *)
LEMMA FreePreserves ==
  ASSUME Inv, NEW t \in Threads, NEW x \in Scalars, FreeStep(t, x)
  PROVE  Preserved(t)
  <1>1. /\ TypeOK /\ RefsExact /\ Typed /\ OfThread(t)
        /\ InOrder(todo[t]) /\ MutexCounted(t) /\ Kept(t) /\ Cleared(t) /\ LastFreed(t)
        /\ Within(t) /\ PutTyped(t)
    BY DEF Inv, OfThread
  <1>2. Followed(t, "free", x)
    BY <1>1, NoneFollowed, OpKinds, Zenon DEF FreeStep
  <1> DEFINE s == todo[t]
  <1>3. /\ s[1] = <<"free", x>> /\ 1 \in 1 .. Len(s) /\ s # <<>>
        /\ todo' \in [Threads -> Seq(Steps)] /\ \A u \in Threads \ {t} : todo'[u] = todo[u]
        /\ InOrder(todo'[t]) /\ PutTyped(t)'
        /\ \A E : Count(s, E) \in Nat
        /\ \A y \in Scalars :
            /\ Count(todo'[t], Locking(y)) = Count(s, Locking(y))
            /\ Count(todo'[t], Unlocking(y)) = Count(s, Unlocking(y))
            /\ Count(todo'[t], Freeing(y)) = Count(s, Freeing(y)) - (IF y = x THEN 1 ELSE 0)
            /\ Count(todo'[t], Referencing(y)) = Count(s, Referencing(y))
            /\ Count(todo'[t], Spending(y)) = Count(s, Spending(y)) - (IF y = x THEN 1 ELSE 0)
            /\ Count(todo'[t], Putting(y)) = Count(s, Putting(y))
    <2>1. /\ s[1] = <<"free", x>> /\ 1 \in 1 .. Len(s) /\ s # <<>>
          /\ todo' \in [Threads -> Seq(Steps)] /\ \A u \in Threads \ {t} : todo'[u] = todo[u]
          /\ InOrder(todo'[t]) /\ PutTyped(t)'
          /\ \A E : Count(s, E) \in Nat
      BY <1>2, Zenon DEF Followed
    <2>2. Fewer(t, "free", x)
      BY <1>2, Zenon DEF Followed
    <2>3. ASSUME NEW y \in Scalars
          PROVE  /\ Count(todo'[t], Locking(y)) = Count(s, Locking(y))
                 /\ Count(todo'[t], Unlocking(y)) = Count(s, Unlocking(y))
                 /\ Count(todo'[t], Freeing(y)) = Count(s, Freeing(y)) - (IF y = x THEN 1 ELSE 0)
                 /\ Count(todo'[t], Referencing(y)) = Count(s, Referencing(y))
                 /\ Count(todo'[t], Spending(y)) = Count(s, Spending(y)) - (IF y = x THEN 1 ELSE 0)
                 /\ Count(todo'[t], Putting(y)) = Count(s, Putting(y))
      <3>1. \A E : Count(s, E) \in Nat
        BY <2>1, Zenon
      <3> QED
        BY <2>2, <3>1 DEF Fewer
    <2> QED
      BY <2>1, <2>3
  <1>4. /\ value' = value /\ locked' = locked
        /\ refs' = [refs EXCEPT ![x] = 0] /\ owner' = [owner EXCEPT ![x] = Nobody]
        /\ depth' = [depth EXCEPT ![x] = 0] /\ Loses(t, x)
    BY Zenon DEF FreeStep
  <1>5. /\ owner[x] = t /\ depth[x] = 1 /\ refs[x] = 1 /\ holds[t][x] = 1 /\ locked[t][x] = 0
        /\ Count(s, Locking(x)) = 0 /\ Count(s, Unlocking(x)) = 0
        /\ Count(s, Freeing(x)) = 1 /\ Count(s, Spending(x)) = 1
    BY <1>1, <1>3, AtFree, SMTT(30)
  <1>6. holds[t][x] >= 1
    <2>1. s[1] \in Spending(x)
      BY <1>3 DEF Spending
    <2>2. Count(s, Spending(x)) >= 1
      BY <1>1, <1>3, <2>1, CountsOf
    <2> QED
      BY <1>1, <1>3, <2>2, SMTT(30) DEF Kept, TypeOK
  <1>7. /\ holds' \in [Threads -> [Scalars -> Nat]]
        /\ \A u \in Threads, y \in Scalars :
             holds'[u][y] = holds[u][y] - (IF u = t /\ y = x THEN 1 ELSE 0)
        /\ \A y \in Scalars : Cardinality(HeldTokens(y))'
                               = Cardinality(HeldTokens(y)) - (IF y = x THEN 1 ELSE 0)
    BY <1>1, <1>4, <1>6, TokensLost
  <1>8. refs' \in [Scalars -> Nat]
        /\ \A y \in Scalars : refs'[y] = refs[y] - (IF y = x THEN 1 ELSE 0)
    BY <1>1, <1>4, <1>5 DEF TypeOK
  <1>9. /\ owner' \in [Scalars -> Threads \cup {Nobody}] /\ depth' \in [Scalars -> Nat]
        /\ \A y \in Scalars : owner'[y] = Nobody <=> depth'[y] = 0
    BY <1>1, <1>4 DEF TypeOK
  <1>10. TypeOK'
    BY <1>1, <1>3, <1>4, <1>7, <1>8, <1>9 DEF TypeOK
  <1>11. RefsExact' /\ Typed'
    <2>1. ASSUME NEW y \in Scalars
          PROVE  refs'[y] = Cardinality(HeldTokens(y))' + Cardinality({z \in Scalars : value'[z] = y})
      <3>1. refs[y] = Cardinality(HeldTokens(y)) + Cardinality({z \in Scalars : value[z] = y})
        BY <1>1 DEF RefsExact
      <3>2. Cardinality({z \in Scalars : value[z] = y}) \in Nat
        BY ReferringFinite
      <3>3. Cardinality(HeldTokens(y)) \in Nat
        BY <1>1, TokensFinite, FS_CardinalityType
      <3> QED
        BY <1>4, <1>7, <1>8, <3>1, <3>2, <3>3
    <2> QED
      BY <1>1, <1>4, <2>1 DEF RefsExact, Typed
  <1>12. MutexCounted(t)'
    <2> SUFFICES ASSUME NEW y \in Scalars
                 PROVE  Mine(t, y)' + Count(todo'[t], Locking(y))
                          = locked'[t][y] + Count(todo'[t], Unlocking(y)) + Count(todo'[t], Freeing(y))
      BY DEF MutexCounted
    <2>1. ~Unlocked(t, y)
      BY <1>2 DEF Followed
    <2>2. Mine(t, y) + Count(s, Locking(y))
            = locked[t][y] + Count(s, Unlocking(y)) + Count(s, Freeing(y))
      BY <1>1, <2>1 DEF MutexCounted
    <2>3. Mine(t, y)' = IF y = x THEN 0 ELSE Mine(t, y)
      BY <1>1, <1>4, SharedScalarsAssumption DEF TypeOK, Mine
    <2>4. /\ Count(todo'[t], Locking(y)) = Count(s, Locking(y))
          /\ Count(todo'[t], Unlocking(y)) = Count(s, Unlocking(y))
          /\ Count(todo'[t], Freeing(y)) = Count(s, Freeing(y)) - (IF y = x THEN 1 ELSE 0)
          /\ Count(s, Freeing(y)) \in Nat /\ locked' = locked
      BY <1>3, <1>4
    <2>5. CASE y = x
      BY <1>5, <2>3, <2>4, <2>5
    <2>6. CASE y # x
      BY <2>2, <2>3, <2>4, <2>6
    <2> QED
      BY <2>5, <2>6
  <1>13. Kept(t)'
    <2> SUFFICES ASSUME NEW y \in Scalars
                 PROVE  /\ holds'[t][y] >= Count(todo'[t], Spending(y))
                        /\ holds'[t][y] + Count(todo'[t], Referencing(y))
                             >= Count(todo'[t], Spending(y)) + Count(todo'[t], Putting(y))
                                + (IF locked'[t][y] > 0 THEN 1 ELSE 0)
      BY DEF Kept
    <2>1. /\ holds[t][y] >= Count(s, Spending(y))
          /\ holds[t][y] + Count(s, Referencing(y))
               >= Count(s, Spending(y)) + Count(s, Putting(y)) + (IF locked[t][y] > 0 THEN 1 ELSE 0)
      BY <1>1 DEF Kept
    <2>2. /\ holds'[t][y] = holds[t][y] - (IF y = x THEN 1 ELSE 0) /\ holds[t][y] \in Nat
          /\ Count(todo'[t], Referencing(y)) = Count(s, Referencing(y))
          /\ Count(todo'[t], Spending(y)) = Count(s, Spending(y)) - (IF y = x THEN 1 ELSE 0)
          /\ Count(todo'[t], Putting(y)) = Count(s, Putting(y))
          /\ Count(s, Referencing(y)) \in Nat /\ Count(s, Spending(y)) \in Nat
          /\ Count(s, Putting(y)) \in Nat /\ locked' = locked
      BY <1>1, <1>3, <1>4, <1>7 DEF TypeOK
    <2> QED
      BY <2>1, <2>2
  <1>14. Found(t)' /\ Within(t)'
    BY <1>2, <1>4, <1>10, <1>13 DEF Followed
  <1>15. ASSUME NEW j \in 2 .. Len(s), s[j] \in Spending(x)
         PROVE  FALSE
    <2>1. 1 \in 1 .. Len(s) /\ j \in 1 .. Len(s) /\ j # 1 /\ s \in Seq(Steps)
      BY <1>1, <1>2, <1>3 DEF Followed, TypeOK
    <2>2. s[1] \in Spending(x)
      BY <1>3 DEF Spending
    <2>3. Count(s, Spending(x)) >= 2
      BY <1>15, <2>1, <2>2, CountTwo
    <2> QED
      BY <1>5, <2>3
  <1>16. Cleared(t)'
    <2> SUFFICES ASSUME NEW j \in 2 .. Len(s), s[j][1] = "put"
                 PROVE  s[j][2] # x /\ s[j][2] \in Scalars
      BY <1>1, <1>2, <1>4 DEF Followed, TypeOK
    <2>1. j \in 1 .. Len(s) /\ s[j][2] \in Scalars
      BY <1>2 DEF Followed
    <2>2. PICK k \in j + 1 .. Len(s) : s[k] \in Spending(s[j][2])
      BY <1>1, <2>1 DEF InOrder, SpendsLater
    <2>3. k \in 2 .. Len(s)
      BY <2>2
    <2> QED
      BY <1>15, <2>1, <2>2, <2>3
  <1>17. LastFreed(t)'
    <2>1. ASSUME NEW j \in 2 .. Len(s), s[j][1] = "free"
          PROVE  s[j][2] # x /\ s[j][2] \in Scalars
      <3>1. s[j] \in Steps /\ s[j][2] \in Scalars
        BY <1>2 DEF Followed
      <3>2. s[j] = <<"free", s[j][2]>>
        BY <2>1, <3>1 DEF Steps
      <3>3. s[j][2] = x => s[j] \in Spending(x)
        BY <3>2 DEF Spending
      <3> QED
        BY <1>15, <3>1, <3>3
    <2>2. \A j \in 2 .. Len(s) : s[j][1] = "free" => refs'[s[j][2]] = refs[s[j][2]]
      BY <1>1, <1>4, <2>1 DEF TypeOK
    <2> QED
      BY <1>2, <2>2 DEF Followed
  <1>18. ASSUME NEW u \in Threads \ {t}
         PROVE  Apart(u)
    <2>1. owner'[x] # u /\ owner[x] # u
      BY <1>1, <1>4, <1>5, SharedScalarsAssumption DEF TypeOK
    <2>2. holds'[u] = holds[u]
      BY <1>1, <1>4 DEF Loses, TypeOK
    <2>3. \A y \in Scalars : y # x => /\ refs'[y] = refs[y] /\ owner'[y] = owner[y]
                                      /\ depth'[y] = depth[y]
      BY <1>1, <1>4 DEF TypeOK
    <2> QED
      BY <1>3, <1>4, <2>1, <2>2, <2>3 DEF Apart
  <1> QED
    BY <1>3, <1>10, <1>12, <1>13, <1>14, <1>16, <1>17, <1>18, <1>11 DEF Preserved, OfThread

(* The beginning of POOL_RELEASE of the last reference: its mutex is       *)
(* locked, and the value is to be destroyed.                               *)
LEMMA ReleaseLastPreserves ==
  ASSUME Inv, NEW t \in Threads, NEW x \in Scalars, ReleaseLastStep(t, x)
  PROVE  Preserved(t)
  <1> DEFINE s == todo[t]
  <1>1. /\ TypeOK /\ RefsExact /\ Typed /\ OfThread(t)
        /\ InOrder(s) /\ MutexCounted(t) /\ Kept(t) /\ Cleared(t) /\ LastFreed(t)
        /\ Within(t) /\ PutTyped(t)
    BY DEF Inv, OfThread
  <1>2. PICK first \in Seq(Steps) :
          /\ Two(first, <<"clear", x>>, <<"free", x>>) /\ Replaced(t, "release", x, first)
          /\ todo'[t] = <<<<"clear", x>>>> \o (<<<<"free", x>>>> \o Tail(s))
          /\ todo'[t] # <<>> /\ Head(todo'[t]) = <<"clear", x>>
    <2>1. <<"clear", x>> \in Steps /\ <<"free", x>> \in Steps
      BY StepTypes, OpKinds
    <2>2. Take(t, "release", x, <<<<"clear", x>>, <<"free", x>>>>)
      BY Zenon DEF ReleaseLastStep
    <2>3. /\ <<"clear", x>>[2] = x /\ <<"free", x>>[2] = x
          /\ <<"clear", x>>[1] # "put" /\ <<"free", x>>[1] # "put"
      OBVIOUS
    <2> QED
      BY <1>1, <2>1, <2>2, <2>3, TwoReplaced, ZenonT(60)
  <1>3. /\ s[1] = <<"release", x>> /\ 1 \in 1 .. Len(s) /\ s # <<>>
        /\ todo' \in [Threads -> Seq(Steps)] /\ \A u \in Threads \ {t} : todo'[u] = todo[u]
        /\ PutTyped(t)'
        /\ \A E : Count(s, E) \in Nat
        /\ \A y \in Scalars :
            /\ Count(todo'[t], Locking(y)) = Count(s, Locking(y))
            /\ Count(todo'[t], Unlocking(y)) = Count(s, Unlocking(y))
            /\ Count(todo'[t], Freeing(y)) = Count(s, Freeing(y)) + (IF x = y THEN 1 ELSE 0)
            /\ Count(todo'[t], Referencing(y)) = Count(s, Referencing(y))
            /\ Count(todo'[t], Spending(y)) = Count(s, Spending(y))
            /\ Count(todo'[t], Putting(y)) = Count(s, Putting(y))
    <2>1. /\ s[1] = <<"release", x>> /\ 1 \in 1 .. Len(s) /\ s # <<>>
          /\ todo' \in [Threads -> Seq(Steps)] /\ \A u \in Threads \ {t} : todo'[u] = todo[u]
          /\ PutTyped(t)'
          /\ \A E : Count(s, E) \in Nat
      BY <1>2 DEF Replaced
    <2> SUFFICES ASSUME NEW y \in Scalars
                 PROVE  /\ Count(todo'[t], Locking(y)) = Count(s, Locking(y))
                        /\ Count(todo'[t], Unlocking(y)) = Count(s, Unlocking(y))
                        /\ Count(todo'[t], Freeing(y)) = Count(s, Freeing(y)) + (IF x = y THEN 1 ELSE 0)
                        /\ Count(todo'[t], Referencing(y)) = Count(s, Referencing(y))
                        /\ Count(todo'[t], Spending(y)) = Count(s, Spending(y))
                        /\ Count(todo'[t], Putting(y)) = Count(s, Putting(y))
      BY <2>1
    <2>2. /\ <<"release", x>> \notin Locking(y)
          /\ <<"clear", x>> \notin Locking(y)
          /\ <<"free", x>> \notin Locking(y)
          /\ <<"release", x>> \notin Unlocking(y)
          /\ <<"clear", x>> \notin Unlocking(y)
          /\ <<"free", x>> \notin Unlocking(y)
          /\ <<"release", x>> \notin Freeing(y)
          /\ <<"clear", x>> \notin Freeing(y)
          /\ <<"free", x>> \in Freeing(y) <=> x = y
          /\ <<"release", x>> \notin Referencing(y)
          /\ <<"clear", x>> \notin Referencing(y)
          /\ <<"free", x>> \notin Referencing(y)
          /\ <<"release", x>> \in Spending(y) <=> x = y
          /\ <<"clear", x>> \notin Spending(y)
          /\ <<"free", x>> \in Spending(y) <=> x = y
          /\ <<"release", x>> \notin Putting(y)
          /\ <<"clear", x>> \notin Putting(y)
          /\ <<"free", x>> \notin Putting(y)
      BY KindsOfSteps, OpKinds
    <2>3. ASSUME NEW E
          PROVE  Count(todo'[t], E) =
              Count(s, E) - (IF s[1] \in E THEN 1 ELSE 0)
                + (IF <<"clear", x>> \in E THEN 1 ELSE 0)
                + (IF <<"free", x>> \in E THEN 1 ELSE 0)
      BY <1>2, CountsReplaced, Zenon
    <2>4. Count(todo'[t], Locking(y)) = Count(s, Locking(y)) - (IF s[1] \in Locking(y) THEN 1 ELSE 0)
                + (IF <<"clear", x>> \in Locking(y) THEN 1 ELSE 0)
                + (IF <<"free", x>> \in Locking(y) THEN 1 ELSE 0)
      BY <2>3, Zenon
    <2>5. Count(todo'[t], Unlocking(y)) = Count(s, Unlocking(y)) - (IF s[1] \in Unlocking(y) THEN 1 ELSE 0)
                + (IF <<"clear", x>> \in Unlocking(y) THEN 1 ELSE 0)
                + (IF <<"free", x>> \in Unlocking(y) THEN 1 ELSE 0)
      BY <2>3, Zenon
    <2>6. Count(todo'[t], Freeing(y)) = Count(s, Freeing(y)) - (IF s[1] \in Freeing(y) THEN 1 ELSE 0)
                + (IF <<"clear", x>> \in Freeing(y) THEN 1 ELSE 0)
                + (IF <<"free", x>> \in Freeing(y) THEN 1 ELSE 0)
      BY <2>3, Zenon
    <2>7. Count(todo'[t], Referencing(y)) =
        Count(s, Referencing(y)) - (IF s[1] \in Referencing(y) THEN 1 ELSE 0)
                + (IF <<"clear", x>> \in Referencing(y) THEN 1 ELSE 0)
                + (IF <<"free", x>> \in Referencing(y) THEN 1 ELSE 0)
      BY <2>3, Zenon
    <2>8. Count(todo'[t], Spending(y)) = Count(s, Spending(y)) - (IF s[1] \in Spending(y) THEN 1 ELSE 0)
                + (IF <<"clear", x>> \in Spending(y) THEN 1 ELSE 0)
                + (IF <<"free", x>> \in Spending(y) THEN 1 ELSE 0)
      BY <2>3, Zenon
    <2>9. Count(todo'[t], Putting(y)) = Count(s, Putting(y)) - (IF s[1] \in Putting(y) THEN 1 ELSE 0)
                + (IF <<"clear", x>> \in Putting(y) THEN 1 ELSE 0)
                + (IF <<"free", x>> \in Putting(y) THEN 1 ELSE 0)
      BY <2>3, Zenon
    <2>10. Count(s, Locking(y)) \in Nat /\ Count(s, Unlocking(y)) \in Nat
           /\ Count(s, Freeing(y)) \in Nat /\ Count(s, Referencing(y)) \in Nat
           /\ Count(s, Spending(y)) \in Nat /\ Count(s, Putting(y)) \in Nat
      BY <2>1
    <2> QED
      BY <2>1, <2>2, <2>4, <2>5, <2>6, <2>7, <2>8, <2>9, <2>10
  <1>4. /\ refs[x] = 1 /\ Locks(t, x)
        /\ value' = value /\ refs' = refs /\ holds' = holds /\ locked' = locked
    BY Zenon DEF ReleaseLastStep
  <1>5. /\ owner[x] \in {Nobody, t} /\ locked' = locked /\ holds' = holds
        /\ owner' = [owner EXCEPT ![x] = t] /\ depth' = [depth EXCEPT ![x] = depth[x] + 1]
        /\ t # Nobody
    BY <1>4, SharedScalarsAssumption DEF Locks, Available
  <1>6. TypeOK'
    <2>1. /\ owner' \in [Scalars -> Threads \cup {Nobody}] /\ depth' \in [Scalars -> Nat]
          /\ \A y \in Scalars : owner'[y] = Nobody <=> depth'[y] = 0
      BY <1>1, <1>5 DEF TypeOK
    <2> QED
      BY <1>1, <1>3, <1>4, <2>1 DEF TypeOK
  <1>7. RefsExact' /\ Typed'
    BY <1>1, <1>4, SameReferences DEF Typed
  <1>8. InOrder(todo'[t])
    <2> DEFINE r == Tail(s)
               a == <<"clear", x>>
               b == <<"free", x>>
    <2>1. /\ r \in Seq(Steps) /\ InOrder(r) /\ ReferenceKept(r, 1)
          /\ \A j \in 1 .. Len(r) : MayPrecede(s[1], r[j])
      BY <1>2 DEF Replaced
    <2>2. a \in Steps /\ b \in Steps /\ b \in Spending(x) /\ b \in Freeing(x)
      BY StepTypes, OpKinds DEF Spending, Freeing
    <2>3. s[1][1] = "release"
      BY <1>3
    <2>4. a[1] = "clear" /\ a[2] = x /\ b[1] = "free" /\ b[2] = x
      OBVIOUS
    <2> HIDE DEF r, a, b
    <2>5. \A j \in 1 .. Len(r) : MayPrecede(b, r[j]) /\ MayPrecede(a, r[j])
      BY <2>1, <2>3, <2>4 DEF MayPrecede
    <2>6. InOrder(<<b>> \o r) /\ ReferenceKept(<<b>> \o r, 1)
      BY <2>1, <2>2, <2>4, <2>5, OrderCons
    <2> DEFINE q == <<b>> \o r
    <2>7. /\ q \in Seq(Steps) /\ 1 \in 1 .. Len(q) /\ q[1] = b /\ Len(q) = Len(r) + 1
          /\ Len(r) \in Nat /\ \A i \in 2 .. Len(r) + 1 : q[i] = r[i - 1]
      BY <2>1, <2>2, ConsOf
    <2> HIDE DEF q
    <2>8. \A j \in 1 .. Len(q) : MayPrecede(a, q[j])
      <3> TAKE j \in 1 .. Len(q)
      <3>1. CASE j = 1
        BY <2>4, <2>7, <3>1 DEF MayPrecede
      <3>2. CASE j # 1
        <4>1. j - 1 \in 1 .. Len(r) /\ q[j] = r[j - 1]
          BY <2>7, <3>2
        <4> QED
          BY <2>5, <4>1
      <3> QED
        BY <3>1, <3>2
    <2>9. /\ \E k \in 1 .. Len(q) : q[k] \in Spending(a[2])
          /\ \E k \in 1 .. Len(q) : q[k] \in Unlocking(a[2]) \cup Freeing(a[2])
      BY <2>2, <2>4, <2>7
    <2>10. InOrder(q) /\ ReferenceKept(q, 1)
      BY <2>6 DEF q
    <2>11. InOrder(<<a>> \o q)
      BY <2>2, <2>7, <2>8, <2>9, <2>10, OrderCons
    <2>12. todo'[t] = <<a>> \o q
      BY <1>2 DEF a, b, q, r
    <2> QED
      BY <2>11, <2>12
  <1>9. MutexCounted(t)'
    <2> SUFFICES ASSUME NEW y \in Scalars
                 PROVE  Mine(t, y)' + Count(todo'[t], Locking(y))
                          = locked'[t][y] + Count(todo'[t], Unlocking(y)) + Count(todo'[t], Freeing(y))
      BY DEF MutexCounted
    <2>1. ~Unlocked(t, y)
      BY <1>2 DEF Replaced
    <2>2. Mine(t, y) + Count(s, Locking(y))
            = locked[t][y] + Count(s, Unlocking(y)) + Count(s, Freeing(y))
      BY <1>1, <2>1 DEF MutexCounted
    <2>3. Mine(t, y)' = Mine(t, y) + (IF x = y THEN 1 ELSE 0) /\ Mine(t, y) \in Nat
      BY <1>1, <1>5 DEF TypeOK, Mine
    <2>4. /\ Count(todo'[t], Locking(y)) = Count(s, Locking(y))
          /\ Count(todo'[t], Unlocking(y)) = Count(s, Unlocking(y))
          /\ Count(todo'[t], Freeing(y)) = Count(s, Freeing(y)) + (IF x = y THEN 1 ELSE 0)
          /\ Count(s, Locking(y)) \in Nat /\ Count(s, Freeing(y)) \in Nat
          /\ Count(s, Unlocking(y)) \in Nat
          /\ locked'[t][y] = locked[t][y] /\ locked[t][y] \in Nat
      BY <1>1, <1>3, <1>5 DEF TypeOK
    <2> QED
      BY <2>2, <2>3, <2>4, SMTT(30)
  <1>10. Kept(t)'
    <2> SUFFICES ASSUME NEW y \in Scalars
                 PROVE  /\ holds'[t][y] >= Count(todo'[t], Spending(y))
                        /\ holds'[t][y] + Count(todo'[t], Referencing(y))
                             >= Count(todo'[t], Spending(y)) + Count(todo'[t], Putting(y))
                                + (IF locked'[t][y] > 0 THEN 1 ELSE 0)
      BY DEF Kept
    <2>1. /\ holds[t][y] >= Count(s, Spending(y))
          /\ holds[t][y] + Count(s, Referencing(y))
               >= Count(s, Spending(y)) + Count(s, Putting(y)) + (IF locked[t][y] > 0 THEN 1 ELSE 0)
      BY <1>1 DEF Kept
    <2>2. /\ holds'[t][y] = holds[t][y] /\ holds[t][y] \in Nat
          /\ Count(todo'[t], Referencing(y)) = Count(s, Referencing(y))
          /\ Count(todo'[t], Spending(y)) = Count(s, Spending(y))
          /\ Count(todo'[t], Putting(y)) = Count(s, Putting(y))
          /\ Count(s, Referencing(y)) \in Nat /\ Count(s, Spending(y)) \in Nat
          /\ Count(s, Putting(y)) \in Nat /\ locked' = locked
      BY <1>1, <1>3, <1>5 DEF TypeOK
    <2> QED
      BY <2>1, <2>2
  <1>11. Found(t)' /\ Within(t)'
    <2>1. Within(t)'
      BY <1>2, <1>4 DEF Replaced
    <2>2. Head(todo'[t])[1] # "reference"
      BY <1>2
    <2> QED
      BY <2>1, <2>2 DEF Found
  <1>12. Cleared(t)'
    <2>1. \A y \in Scalars : owner[y] = t => owner'[y] = t
      BY <1>1, <1>5 DEF TypeOK
    <2> QED
      BY <1>2, <1>4, <2>1 DEF Replaced
  <1>13. LastFreed(t)'
    <2>1. \A i \in 1 .. Len(first) : first[i][1] = "free" => first[i][2] = x
      BY <1>2 DEF Two
    <2> QED
      BY <1>2, <1>4, <2>1 DEF Replaced
  <1>14. ASSUME NEW u \in Threads \ {t}
         PROVE  Apart(u)
    BY <1>1, <1>3, <1>4, <1>5, SharedScalarsAssumption, ZenonT(60) DEF Apart, TypeOK
  <1> QED
    BY <1>3, <1>6, <1>7, <1>8, <1>9, <1>10, <1>11, <1>12, <1>13, <1>14 DEF Preserved, OfThread

(* anon_scalar_clone from a scalar whose value is no reference             *)
LEMMA GetNothingPreserves ==
  ASSUME Inv, NEW t \in Threads, NEW x \in Scalars, GetStep(t, x), value[x] = Undef
  PROVE  Preserved(t)
  <1>1. /\ TypeOK /\ RefsExact /\ Typed /\ OfThread(t)
        /\ InOrder(todo[t]) /\ MutexCounted(t) /\ Kept(t) /\ Cleared(t) /\ LastFreed(t)
        /\ Within(t) /\ PutTyped(t)
    BY DEF Inv, OfThread
  <1>2. Followed(t, "get", x)
    <2>1. Take(t, "get", x, <<>>)
      BY Zenon DEF GetStep
    <2> QED
      BY <1>1, <2>1, NoneFollowed, OpKinds, Zenon
  <1>3. /\ todo[t][1] = <<"get", x>> /\ 1 \in 1 .. Len(todo[t]) /\ todo[t] # <<>>
        /\ todo' \in [Threads -> Seq(Steps)] /\ \A u \in Threads \ {t} : todo'[u] = todo[u]
        /\ InOrder(todo'[t]) /\ PutTyped(t)'
        /\ \A E : Count(todo[t], E) \in Nat
        /\ \A y \in Scalars :
            /\ Count(todo'[t], Locking(y)) = Count(todo[t], Locking(y))
            /\ Count(todo'[t], Unlocking(y)) = Count(todo[t], Unlocking(y))
            /\ Count(todo'[t], Freeing(y)) = Count(todo[t], Freeing(y))
            /\ Count(todo'[t], Referencing(y)) = Count(todo[t], Referencing(y))
            /\ Count(todo'[t], Spending(y)) = Count(todo[t], Spending(y))
            /\ Count(todo'[t], Putting(y)) = Count(todo[t], Putting(y))
    <2>1. Fewer(t, "get", x)
      BY <1>2, Zenon DEF Followed
    <2>2. /\ todo[t][1] = <<"get", x>> /\ 1 \in 1 .. Len(todo[t]) /\ todo[t] # <<>>
          /\ todo' \in [Threads -> Seq(Steps)] /\ \A u \in Threads \ {t} : todo'[u] = todo[u]
          /\ InOrder(todo'[t]) /\ PutTyped(t)'
          /\ \A E : Count(todo[t], E) \in Nat
      BY <1>2, Zenon DEF Followed
    <2>3. ASSUME NEW y \in Scalars
          PROVE  /\ Count(todo'[t], Locking(y)) = Count(todo[t], Locking(y))
                 /\ Count(todo'[t], Unlocking(y)) = Count(todo[t], Unlocking(y))
                 /\ Count(todo'[t], Freeing(y)) = Count(todo[t], Freeing(y))
                 /\ Count(todo'[t], Referencing(y)) = Count(todo[t], Referencing(y))
                 /\ Count(todo'[t], Spending(y)) = Count(todo[t], Spending(y))
                 /\ Count(todo'[t], Putting(y)) = Count(todo[t], Putting(y))
      <3>1. \A E : Count(todo[t], E) \in Nat
        BY <2>2, Zenon
      <3> QED
        BY <2>1, <3>1 DEF Fewer
    <2> QED
      BY <2>2, <2>3
  <1>4. /\ value' = value /\ refs' = refs /\ owner' = owner /\ depth' = depth
        /\ holds' = holds /\ locked' = locked
    BY Zenon DEF GetStep
  <1>5. TypeOK'
    BY <1>1, <1>3, <1>4 DEF TypeOK
  <1>6. RefsExact' /\ Typed'
    BY <1>1, <1>4, SameReferences DEF Typed
  <1>7. MutexCounted(t)'
    <2>1. \A y \in Scalars : ~Unlocked(t, y)
      BY <1>2 DEF Followed
    <2> QED
      BY <1>1, <1>3, <1>4, <2>1, SameMutexes
  <1>8. Kept(t)'
    BY <1>1, <1>3, <1>4 DEF Kept
  <1>9. Found(t)' /\ Within(t)' /\ LastFreed(t)'
    BY <1>2, <1>4, <1>5, <1>8 DEF Followed
  <1>10. Cleared(t)'
    BY <1>2, <1>4 DEF Followed
  <1>11. ASSUME NEW u \in Threads \ {t}
         PROVE  Apart(u)
    BY <1>3, <1>4 DEF Apart
  <1> QED
    BY <1>3, <1>5, <1>6, <1>7, <1>8, <1>9, <1>10, <1>11 DEF Preserved, OfThread

(* anon_scalar_clone from a scalar whose value is a reference, which is to *)
(* be referenced                                                           *)
LEMMA GetReferencePreserves ==
  ASSUME Inv, NEW t \in Threads, NEW x \in Scalars, GetStep(t, x), value[x] # Undef
  PROVE  Preserved(t)
  <1> DEFINE s == todo[t]
             v == value[x]
  <1>1. /\ TypeOK /\ RefsExact /\ Typed /\ OfThread(t)
        /\ InOrder(s) /\ MutexCounted(t) /\ Kept(t) /\ Cleared(t) /\ LastFreed(t)
        /\ Within(t) /\ PutTyped(t)
    BY DEF Inv, OfThread
  <1>2. v \in Scalars /\ <<x, v>> \in Refers /\ v \in Reach(x)
    <2>1. v \in Scalars
      BY <1>1 DEF TypeOK
    <2> QED
      BY <1>1, <2>1 DEF Typed, Reach
  <1>3. PICK first \in Seq(Steps) :
          /\ One(first, <<"reference", v>>) /\ Replaced(t, "get", x, first)
          /\ todo'[t] = <<<<"reference", v>>>> \o Tail(s)
          /\ todo'[t] # <<>> /\ Head(todo'[t]) = <<"reference", v>>
    <2>1. <<"reference", v>> \in Steps
      BY <1>2, StepTypes, OpKinds
    <2>2. Take(t, "get", x, <<<<"reference", v>>>>)
      BY Zenon DEF GetStep
    <2>3. /\ <<"reference", v>>[2] = v
          /\ <<"reference", v>>[1] \notin {"put", "unlock", "free"}
      OBVIOUS
    <2> QED
      BY <1>2, <1>1, <2>1, <2>2, <2>3, OneReplaced, ZenonT(60)
  <1>4. /\ s[1] = <<"get", x>> /\ 1 \in 1 .. Len(s) /\ s # <<>>
        /\ todo' \in [Threads -> Seq(Steps)] /\ \A u \in Threads \ {t} : todo'[u] = todo[u]
        /\ PutTyped(t)'
        /\ \A E : Count(s, E) \in Nat
        /\ \A y \in Scalars :
            /\ Count(todo'[t], Locking(y)) = Count(s, Locking(y))
            /\ Count(todo'[t], Unlocking(y)) = Count(s, Unlocking(y))
            /\ Count(todo'[t], Freeing(y)) = Count(s, Freeing(y))
            /\ Count(todo'[t], Referencing(y)) = Count(s, Referencing(y)) + (IF v = y THEN 1 ELSE 0)
            /\ Count(todo'[t], Spending(y)) = Count(s, Spending(y))
            /\ Count(todo'[t], Putting(y)) = Count(s, Putting(y))
    <2>1. /\ s[1] = <<"get", x>> /\ 1 \in 1 .. Len(s) /\ s # <<>>
          /\ todo' \in [Threads -> Seq(Steps)] /\ \A u \in Threads \ {t} : todo'[u] = todo[u]
          /\ PutTyped(t)'
          /\ \A E : Count(s, E) \in Nat
      BY <1>3 DEF Replaced
    <2> SUFFICES ASSUME NEW y \in Scalars
                 PROVE  /\ Count(todo'[t], Locking(y)) = Count(s, Locking(y))
                        /\ Count(todo'[t], Unlocking(y)) = Count(s, Unlocking(y))
                        /\ Count(todo'[t], Freeing(y)) = Count(s, Freeing(y))
                        /\ Count(todo'[t], Referencing(y)) =
                               Count(s, Referencing(y)) + (IF v = y THEN 1 ELSE 0)
                        /\ Count(todo'[t], Spending(y)) = Count(s, Spending(y))
                        /\ Count(todo'[t], Putting(y)) = Count(s, Putting(y))
      BY <2>1
    <2>2. /\ <<"get", x>> \notin Locking(y)
          /\ <<"reference", v>> \notin Locking(y)
          /\ <<"get", x>> \notin Unlocking(y)
          /\ <<"reference", v>> \notin Unlocking(y)
          /\ <<"get", x>> \notin Freeing(y)
          /\ <<"reference", v>> \notin Freeing(y)
          /\ <<"get", x>> \notin Referencing(y)
          /\ <<"reference", v>> \in Referencing(y) <=> v = y
          /\ <<"get", x>> \notin Spending(y)
          /\ <<"reference", v>> \notin Spending(y)
          /\ <<"get", x>> \notin Putting(y)
          /\ <<"reference", v>> \notin Putting(y)
      BY KindsOfSteps, OpKinds, <1>2
    <2>3. ASSUME NEW E
          PROVE  Count(todo'[t], E) =
              Count(s, E) - (IF s[1] \in E THEN 1 ELSE 0)
                + (IF <<"reference", v>> \in E THEN 1 ELSE 0)
      BY <1>3, CountsReplaced, ZenonT(60)
    <2>4. Count(todo'[t], Locking(y)) = Count(s, Locking(y)) - (IF s[1] \in Locking(y) THEN 1 ELSE 0)
                + (IF <<"reference", v>> \in Locking(y) THEN 1 ELSE 0)
      BY <2>3, Zenon
    <2>5. Count(todo'[t], Unlocking(y)) = Count(s, Unlocking(y)) - (IF s[1] \in Unlocking(y) THEN 1 ELSE 0)
                + (IF <<"reference", v>> \in Unlocking(y) THEN 1 ELSE 0)
      BY <2>3, Zenon
    <2>6. Count(todo'[t], Freeing(y)) = Count(s, Freeing(y)) - (IF s[1] \in Freeing(y) THEN 1 ELSE 0)
                + (IF <<"reference", v>> \in Freeing(y) THEN 1 ELSE 0)
      BY <2>3, Zenon
    <2>7. Count(todo'[t], Referencing(y)) =
        Count(s, Referencing(y)) - (IF s[1] \in Referencing(y) THEN 1 ELSE 0)
                + (IF <<"reference", v>> \in Referencing(y) THEN 1 ELSE 0)
      BY <2>3, Zenon
    <2>8. Count(todo'[t], Spending(y)) = Count(s, Spending(y)) - (IF s[1] \in Spending(y) THEN 1 ELSE 0)
                + (IF <<"reference", v>> \in Spending(y) THEN 1 ELSE 0)
      BY <2>3, Zenon
    <2>9. Count(todo'[t], Putting(y)) = Count(s, Putting(y)) - (IF s[1] \in Putting(y) THEN 1 ELSE 0)
                + (IF <<"reference", v>> \in Putting(y) THEN 1 ELSE 0)
      BY <2>3, Zenon
    <2>10. Count(s, Locking(y)) \in Nat /\ Count(s, Unlocking(y)) \in Nat
           /\ Count(s, Freeing(y)) \in Nat /\ Count(s, Referencing(y)) \in Nat
           /\ Count(s, Spending(y)) \in Nat /\ Count(s, Putting(y)) \in Nat
      BY <2>1
    <2> QED
      BY <2>1, <2>2, <2>4, <2>5, <2>6, <2>7, <2>8, <2>9, <2>10
  <1>5. /\ owner' = owner /\ depth' = depth /\ locked' = locked
        /\ refs' = refs /\ owner[x] = t
    <2>1. owner[x] = t
      BY <1>1, <1>4, HeadOwned, SMTT(30)
    <2> QED
      BY <2>1, Zenon DEF GetStep
  <1>6. value' = value /\ holds' = holds
    BY Zenon DEF GetStep
  <1>7. TypeOK'
    BY <1>1, <1>4, <1>6, <1>5 DEF TypeOK
  <1>8. RefsExact' /\ Typed'
    BY <1>1, <1>6, <1>5, SameReferences DEF Typed
  <1>9. InOrder(todo'[t])
    <2>1. <<"reference", v>> \in Steps /\ <<"reference", v>>[1] = "reference"
      BY <1>2, StepTypes, OpKinds
    <2> QED
      BY <1>1, <1>3, <2>1, OrderFirst
  <1>10. MutexCounted(t)'
    <2>1. \A y \in Scalars : ~Unlocked(t, y)
      BY <1>3, OpKinds DEF Replaced
    <2> QED
      BY <1>1, <1>4, <1>5, <2>1, SameMutexes
  <1>11. Kept(t)'
    <2> SUFFICES ASSUME NEW y \in Scalars
                 PROVE  /\ holds'[t][y] >= Count(todo'[t], Spending(y))
                        /\ holds'[t][y] + Count(todo'[t], Referencing(y))
                             >= Count(todo'[t], Spending(y)) + Count(todo'[t], Putting(y))
                                + (IF locked'[t][y] > 0 THEN 1 ELSE 0)
      BY DEF Kept
    <2>1. /\ holds[t][y] >= Count(s, Spending(y))
          /\ holds[t][y] + Count(s, Referencing(y))
               >= Count(s, Spending(y)) + Count(s, Putting(y)) + (IF locked[t][y] > 0 THEN 1 ELSE 0)
      BY <1>1 DEF Kept
    <2>2. /\ holds'[t][y] = holds[t][y] /\ holds[t][y] \in Nat
          /\ Count(todo'[t], Referencing(y)) = Count(s, Referencing(y)) + (IF v = y THEN 1 ELSE 0)
          /\ Count(todo'[t], Spending(y)) = Count(s, Spending(y))
          /\ Count(todo'[t], Putting(y)) = Count(s, Putting(y))
          /\ Count(s, Referencing(y)) \in Nat /\ Count(s, Spending(y)) \in Nat
          /\ Count(s, Putting(y)) \in Nat /\ locked' = locked
      BY <1>1, <1>4, <1>5, <1>6 DEF TypeOK
    <2> QED
      BY <2>1, <2>2
  <1>12. Found(t)' /\ Within(t)'
    <2>1. Within(t)'
      BY <1>3, <1>5 DEF Replaced
    <2>2. Head(todo'[t])[2] = v
      BY <1>3
    <2> QED
      BY <1>6, <1>5, <2>1, <2>2 DEF Found
  <1>13. Cleared(t)'
    BY <1>3, <1>6, <1>5 DEF Replaced
  <1>14. LastFreed(t)'
    <2>1. \A i \in 1 .. Len(first) : first[i][1] # "free"
      BY <1>3 DEF None, One
    <2> QED
      BY <1>3, <1>5, <2>1 DEF Replaced
  <1>15. ASSUME NEW u \in Threads \ {t}
         PROVE  Apart(u)
    BY <1>4, <1>6, <1>5 DEF Apart
  <1> QED
    BY <1>3, <1>4, <1>7, <1>8, <1>9, <1>10, <1>11, <1>12, <1>13, <1>14, <1>15 DEF Preserved, OfThread

(* anon_scalar_destroy of a value that is no reference                     *)
LEMMA ClearNothingPreserves ==
  ASSUME Inv, NEW t \in Threads, NEW x \in Scalars, ClearStep(t, x), value[x] = Undef
  PROVE  Preserved(t)
  <1>1. /\ TypeOK /\ RefsExact /\ Typed /\ OfThread(t)
        /\ InOrder(todo[t]) /\ MutexCounted(t) /\ Kept(t) /\ Cleared(t) /\ LastFreed(t)
        /\ Within(t) /\ PutTyped(t)
    BY DEF Inv, OfThread
  <1>2. Followed(t, "clear", x)
    <2>1. Take(t, "clear", x, <<>>)
      BY Zenon DEF ClearStep
    <2> QED
      BY <1>1, <2>1, NoneFollowed, OpKinds, Zenon
  <1>3. /\ todo[t][1] = <<"clear", x>> /\ 1 \in 1 .. Len(todo[t]) /\ todo[t] # <<>>
        /\ todo' \in [Threads -> Seq(Steps)] /\ \A u \in Threads \ {t} : todo'[u] = todo[u]
        /\ InOrder(todo'[t]) /\ PutTyped(t)'
        /\ \A E : Count(todo[t], E) \in Nat
        /\ \A y \in Scalars :
            /\ Count(todo'[t], Locking(y)) = Count(todo[t], Locking(y))
            /\ Count(todo'[t], Unlocking(y)) = Count(todo[t], Unlocking(y))
            /\ Count(todo'[t], Freeing(y)) = Count(todo[t], Freeing(y))
            /\ Count(todo'[t], Referencing(y)) = Count(todo[t], Referencing(y))
            /\ Count(todo'[t], Spending(y)) = Count(todo[t], Spending(y))
            /\ Count(todo'[t], Putting(y)) = Count(todo[t], Putting(y))
    <2>1. /\ todo[t][1] = <<"clear", x>> /\ 1 \in 1 .. Len(todo[t]) /\ todo[t] # <<>>
          /\ todo' \in [Threads -> Seq(Steps)] /\ \A u \in Threads \ {t} : todo'[u] = todo[u]
          /\ InOrder(todo'[t]) /\ PutTyped(t)'
          /\ \A E : Count(todo[t], E) \in Nat
      BY <1>2 DEF Followed
    <2>2. ASSUME NEW y \in Scalars
          PROVE  /\ Count(todo'[t], Locking(y)) = Count(todo[t], Locking(y))
                 /\ Count(todo'[t], Unlocking(y)) = Count(todo[t], Unlocking(y))
                 /\ Count(todo'[t], Freeing(y)) = Count(todo[t], Freeing(y))
                 /\ Count(todo'[t], Referencing(y)) = Count(todo[t], Referencing(y))
                 /\ Count(todo'[t], Spending(y)) = Count(todo[t], Spending(y))
                 /\ Count(todo'[t], Putting(y)) = Count(todo[t], Putting(y))
      <3>1. Fewer(t, "clear", x)
        BY <1>2, Zenon DEF Followed
      <3> QED
        BY <3>1 DEF Fewer
    <2> QED
      BY <2>1, <2>2
  <1>4. /\ value' = value /\ refs' = refs /\ owner' = owner /\ depth' = depth
        /\ holds' = holds /\ locked' = locked
    <2>1. /\ value' = [value EXCEPT ![x] = Undef] /\ refs' = refs /\ owner' = owner /\ depth' = depth
          /\ holds' = holds /\ locked' = locked
      BY Zenon DEF ClearStep
    <2> QED
      BY <1>1, <2>1 DEF TypeOK
  <1>5. owner[x] = t
    <2>1. todo[t][1][1] = "clear" /\ todo[t][1][2] = x
      BY <1>3
    <2> QED
      BY <1>1, <1>3, <2>1, HeadOwned
  <1>6. TypeOK'
    BY <1>1, <1>3, <1>4 DEF TypeOK
  <1>7. RefsExact' /\ Typed'
    BY <1>1, <1>4, SameReferences DEF Typed
  <1>8. MutexCounted(t)'
    <2>1. \A y \in Scalars : ~Unlocked(t, y)
      BY <1>2 DEF Followed
    <2> QED
      BY <1>1, <1>3, <1>4, <2>1, SameMutexes
  <1>9. Kept(t)'
    BY <1>1, <1>3, <1>4 DEF Kept
  <1>10. Found(t)' /\ Within(t)' /\ LastFreed(t)'
    BY <1>2, <1>4, <1>6, <1>9 DEF Followed
  <1>11. Cleared(t)'
    BY <1>2, <1>4, <1>5 DEF Followed
  <1>12. ASSUME NEW u \in Threads \ {t}
         PROVE  Apart(u)
    BY <1>3, <1>4 DEF Apart
  <1> QED
    BY <1>3, <1>6, <1>7, <1>8, <1>9, <1>10, <1>11, <1>12 DEF Preserved, OfThread

(* anon_scalar_destroy of a reference: the scalar has it no longer, and    *)
(* the context is to release it.                                           *)
LEMMA ClearReferencePreserves ==
  ASSUME Inv, NEW t \in Threads, NEW x \in Scalars, ClearStep(t, x), value[x] # Undef
  PROVE  Preserved(t)
  <1> DEFINE s == todo[t]
             v == value[x]
  <1>1. /\ TypeOK /\ RefsExact /\ Typed /\ OfThread(t)
        /\ InOrder(s) /\ MutexCounted(t) /\ Kept(t) /\ Cleared(t) /\ LastFreed(t)
        /\ Within(t) /\ PutTyped(t)
    BY DEF Inv, OfThread
  <1>2. v \in Scalars /\ <<x, v>> \in Refers /\ v \in Reach(x)
    <2>1. v \in Scalars
      BY <1>1 DEF TypeOK
    <2> QED
      BY <1>1, <2>1 DEF Typed, Reach
  <1>3. PICK first \in Seq(Steps) :
          /\ One(first, <<"release", v>>) /\ Replaced(t, "clear", x, first)
          /\ todo'[t] = <<<<"release", v>>>> \o Tail(s)
          /\ todo'[t] # <<>> /\ Head(todo'[t]) = <<"release", v>>
    <2>1. <<"release", v>> \in Steps
      BY <1>2, StepTypes, OpKinds
    <2>2. Take(t, "clear", x, <<<<"release", v>>>>)
      BY Zenon DEF ClearStep
    <2>3. /\ <<"release", v>>[2] = v
          /\ <<"release", v>>[1] \notin {"put", "unlock", "free"}
      OBVIOUS
    <2> QED
      BY <1>2, <1>1, <2>1, <2>2, <2>3, OneReplaced, ZenonT(60)
  <1>4. /\ s[1] = <<"clear", x>> /\ 1 \in 1 .. Len(s) /\ s # <<>>
        /\ todo' \in [Threads -> Seq(Steps)] /\ \A u \in Threads \ {t} : todo'[u] = todo[u]
        /\ PutTyped(t)'
        /\ \A E : Count(s, E) \in Nat
        /\ \A y \in Scalars :
            /\ Count(todo'[t], Locking(y)) = Count(s, Locking(y))
            /\ Count(todo'[t], Unlocking(y)) = Count(s, Unlocking(y))
            /\ Count(todo'[t], Freeing(y)) = Count(s, Freeing(y))
            /\ Count(todo'[t], Referencing(y)) = Count(s, Referencing(y))
            /\ Count(todo'[t], Spending(y)) = Count(s, Spending(y)) + (IF v = y THEN 1 ELSE 0)
            /\ Count(todo'[t], Putting(y)) = Count(s, Putting(y))
    <2>1. /\ s[1] = <<"clear", x>> /\ 1 \in 1 .. Len(s) /\ s # <<>>
          /\ todo' \in [Threads -> Seq(Steps)] /\ \A u \in Threads \ {t} : todo'[u] = todo[u]
          /\ PutTyped(t)'
          /\ \A E : Count(s, E) \in Nat
      BY <1>3 DEF Replaced
    <2> SUFFICES ASSUME NEW y \in Scalars
                 PROVE  /\ Count(todo'[t], Locking(y)) = Count(s, Locking(y))
                        /\ Count(todo'[t], Unlocking(y)) = Count(s, Unlocking(y))
                        /\ Count(todo'[t], Freeing(y)) = Count(s, Freeing(y))
                        /\ Count(todo'[t], Referencing(y)) = Count(s, Referencing(y))
                        /\ Count(todo'[t], Spending(y)) = Count(s, Spending(y)) + (IF v = y THEN 1 ELSE 0)
                        /\ Count(todo'[t], Putting(y)) = Count(s, Putting(y))
      BY <2>1
    <2>2. /\ <<"clear", x>> \notin Locking(y)
          /\ <<"release", v>> \notin Locking(y)
          /\ <<"clear", x>> \notin Unlocking(y)
          /\ <<"release", v>> \notin Unlocking(y)
          /\ <<"clear", x>> \notin Freeing(y)
          /\ <<"release", v>> \notin Freeing(y)
          /\ <<"clear", x>> \notin Referencing(y)
          /\ <<"release", v>> \notin Referencing(y)
          /\ <<"clear", x>> \notin Spending(y)
          /\ <<"release", v>> \in Spending(y) <=> v = y
          /\ <<"clear", x>> \notin Putting(y)
          /\ <<"release", v>> \notin Putting(y)
      BY KindsOfSteps, OpKinds, <1>2
    <2>3. ASSUME NEW E
          PROVE  Count(todo'[t], E) =
              Count(s, E) - (IF s[1] \in E THEN 1 ELSE 0)
                + (IF <<"release", v>> \in E THEN 1 ELSE 0)
      BY <1>3, CountsReplaced, ZenonT(60)
    <2>4. Count(todo'[t], Locking(y)) = Count(s, Locking(y)) - (IF s[1] \in Locking(y) THEN 1 ELSE 0)
                + (IF <<"release", v>> \in Locking(y) THEN 1 ELSE 0)
      BY <2>3, Zenon
    <2>5. Count(todo'[t], Unlocking(y)) = Count(s, Unlocking(y)) - (IF s[1] \in Unlocking(y) THEN 1 ELSE 0)
                + (IF <<"release", v>> \in Unlocking(y) THEN 1 ELSE 0)
      BY <2>3, Zenon
    <2>6. Count(todo'[t], Freeing(y)) = Count(s, Freeing(y)) - (IF s[1] \in Freeing(y) THEN 1 ELSE 0)
                + (IF <<"release", v>> \in Freeing(y) THEN 1 ELSE 0)
      BY <2>3, Zenon
    <2>7. Count(todo'[t], Referencing(y)) =
        Count(s, Referencing(y)) - (IF s[1] \in Referencing(y) THEN 1 ELSE 0)
                + (IF <<"release", v>> \in Referencing(y) THEN 1 ELSE 0)
      BY <2>3, Zenon
    <2>8. Count(todo'[t], Spending(y)) = Count(s, Spending(y)) - (IF s[1] \in Spending(y) THEN 1 ELSE 0)
                + (IF <<"release", v>> \in Spending(y) THEN 1 ELSE 0)
      BY <2>3, Zenon
    <2>9. Count(todo'[t], Putting(y)) = Count(s, Putting(y)) - (IF s[1] \in Putting(y) THEN 1 ELSE 0)
                + (IF <<"release", v>> \in Putting(y) THEN 1 ELSE 0)
      BY <2>3, Zenon
    <2>10. Count(s, Locking(y)) \in Nat /\ Count(s, Unlocking(y)) \in Nat
           /\ Count(s, Freeing(y)) \in Nat /\ Count(s, Referencing(y)) \in Nat
           /\ Count(s, Spending(y)) \in Nat /\ Count(s, Putting(y)) \in Nat
      BY <2>1
    <2> QED
      BY <2>1, <2>2, <2>4, <2>5, <2>6, <2>7, <2>8, <2>9, <2>10
  <1>5. /\ owner' = owner /\ depth' = depth /\ locked' = locked
        /\ refs' = refs /\ owner[x] = t
    <2>1. owner[x] = t
      BY <1>1, <1>4, HeadOwned, SMTT(30)
    <2> QED
      BY <2>1, Zenon DEF ClearStep
  <1>6. value' = [value EXCEPT ![x] = Undef] /\ Gains(t, v)
    BY Zenon DEF ClearStep
  <1>7. /\ holds' \in [Threads -> [Scalars -> Nat]]
        /\ \A u \in Threads, y \in Scalars :
             holds'[u][y] = holds[u][y] + (IF u = t /\ y = v THEN 1 ELSE 0)
        /\ \A y \in Scalars : Cardinality(HeldTokens(y))'
                               = Cardinality(HeldTokens(y)) + (IF y = v THEN 1 ELSE 0)
    <2> HIDE DEF v
    <2> QED
      BY <1>2, <1>1, <1>6, TokensGained
  <1>8. TypeOK'
    <2>1. value' \in [Scalars -> Scalars \cup {Undef}]
      BY <1>1, <1>6 DEF TypeOK
    <2> QED
      BY <1>1, <1>4, <1>5, <1>7, <2>1 DEF TypeOK
  <1>9. RefsExact' /\ Typed'
    <2>1. \A y \in Scalars : Cardinality(Referring(y))'
                             = Cardinality(Referring(y)) - (IF y = v THEN 1 ELSE 0)
      BY <1>1, <1>6, ReferringLess
    <2>2. ASSUME NEW y \in Scalars
          PROVE  refs'[y] = Cardinality(HeldTokens(y))' + Cardinality(Referring(y))'
      <3>1. /\ refs[y] = Cardinality(HeldTokens(y)) + Cardinality(Referring(y))
            /\ Cardinality(HeldTokens(y)) \in Nat /\ Cardinality(Referring(y)) \in Nat
        BY <1>1, HeldFinite
      <3>2. Cardinality(HeldTokens(y))' = Cardinality(HeldTokens(y)) + (IF y = v THEN 1 ELSE 0)
        BY <1>7, Zenon
      <3>3. Cardinality(Referring(y))' = Cardinality(Referring(y)) - (IF y = v THEN 1 ELSE 0)
        BY <2>1, Zenon
      <3>4. refs'[y] = refs[y]
        BY <1>5
      <3> HIDE DEF v
      <3> QED
        BY <3>1, <3>2, <3>3, <3>4
    <2>3. RefsExact'
      BY <2>2 DEF RefsExact, Referring
    <2>4. Typed'
      BY <1>1, <1>6 DEF Typed, TypeOK
    <2> QED
      BY <2>3, <2>4
  <1>10. InOrder(todo'[t])
    <2>1. <<"release", v>> \in Steps /\ <<"release", v>>[1] = "release"
      BY <1>2, StepTypes, OpKinds
    <2> QED
      BY <1>1, <1>3, <2>1, OrderFirst
  <1>11. MutexCounted(t)'
    <2>1. \A y \in Scalars : ~Unlocked(t, y)
      BY <1>3, OpKinds DEF Replaced
    <2> QED
      BY <1>1, <1>4, <1>5, <2>1, SameMutexes
  <1>12. Kept(t)'
    <2> SUFFICES ASSUME NEW y \in Scalars
                 PROVE  /\ holds'[t][y] >= Count(todo'[t], Spending(y))
                        /\ holds'[t][y] + Count(todo'[t], Referencing(y))
                             >= Count(todo'[t], Spending(y)) + Count(todo'[t], Putting(y))
                                + (IF locked'[t][y] > 0 THEN 1 ELSE 0)
      BY DEF Kept
    <2>1. /\ holds[t][y] >= Count(s, Spending(y))
          /\ holds[t][y] + Count(s, Referencing(y))
               >= Count(s, Spending(y)) + Count(s, Putting(y)) + (IF locked[t][y] > 0 THEN 1 ELSE 0)
      BY <1>1 DEF Kept
    <2>2. holds'[t][y] = holds[t][y] + (IF v = y THEN 1 ELSE 0)
      BY <1>7
    <2>3. /\ Count(todo'[t], Referencing(y)) = Count(s, Referencing(y))
          /\ Count(todo'[t], Spending(y)) = Count(s, Spending(y)) + (IF v = y THEN 1 ELSE 0)
          /\ Count(todo'[t], Putting(y)) = Count(s, Putting(y))
          /\ Count(s, Referencing(y)) \in Nat /\ Count(s, Spending(y)) \in Nat
          /\ Count(s, Putting(y)) \in Nat
      BY <1>4
    <2>4. holds[t][y] \in Nat /\ locked' = locked
      BY <1>1, <1>5 DEF TypeOK
    <2> HIDE DEF s, v
    <2> QED
      BY <2>1, <2>2, <2>3, <2>4, SMTT(30)
  <1>13. Found(t)' /\ Within(t)'
    <2>1. Within(t)'
      BY <1>3, <1>5 DEF Replaced
    <2>2. Head(todo'[t])[1] # "reference"
      BY <1>3
    <2> QED
      BY <2>1, <2>2 DEF Found
  <1>14. Cleared(t)'
    <2>1. value'[x] = Undef /\ \A y \in Scalars : value[y] = Undef => value'[y] = Undef
      BY <1>1, <1>6 DEF TypeOK
    <2> QED
      BY <1>3, <1>5, <2>1 DEF Replaced
  <1>15. LastFreed(t)'
    <2>1. \A i \in 1 .. Len(first) : first[i][1] # "free"
      BY <1>3 DEF None, One
    <2> QED
      BY <1>3, <1>5, <2>1 DEF Replaced
  <1>16. ASSUME NEW u \in Threads \ {t}
         PROVE  Apart(u)
    <2>1. \A y \in Scalars : owner[y] = u => value'[y] = value[y]
      BY <1>1, <1>6, <1>5 DEF TypeOK
    <2>2. holds'[u] = holds[u]
      BY <1>1, <1>6 DEF Gains, Loses, TypeOK
    <2> QED
      BY <1>4, <1>5, <2>1, <2>2 DEF Apart
  <1> QED
    BY <1>3, <1>4, <1>8, <1>9, <1>10, <1>11, <1>12, <1>13, <1>14, <1>15, <1>16 DEF Preserved, OfThread

(* The end of anon_scalar_clone into a scalar                              *)
LEMMA PutPreserves ==
  ASSUME Inv, NEW t \in Threads, NEW x \in Scalars, PutStep(t, x)
  PROVE  Preserved(t)
  <1> DEFINE s == todo[t]
             v == todo[t][1][3]
  <1>1. /\ TypeOK /\ RefsExact /\ Typed /\ OfThread(t)
        /\ InOrder(s) /\ MutexCounted(t) /\ Kept(t) /\ Cleared(t) /\ LastFreed(t)
        /\ Within(t) /\ PutTyped(t)
    BY DEF Inv, OfThread
  <1>2. PICK none \in Seq(Steps) :
          /\ None(none) /\ Replaced(t, "put", x, none) /\ InOrder(todo'[t])
          /\ TypeOK' /\ Kept(t)' => Found(t)'
    <2>1. Take(t, "put", x, <<>>)
      BY Zenon DEF PutStep
    <2> QED
      BY <1>1, <2>1, NoneReplaced, Zenon
  <1>3. /\ s[1] = <<"put", x, v>> /\ v \in Scalars \cup {Undef} /\ Head(s) = s[1]
        /\ 1 \in 1 .. Len(s) /\ s # <<>> /\ s[1][1] = "put" /\ s[1][2] = x
        /\ todo' \in [Threads -> Seq(Steps)] /\ \A u \in Threads \ {t} : todo'[u] = todo[u]
        /\ PutTyped(t)'
        /\ \A E : Count(s, E) \in Nat
        /\ \A y \in Scalars : ~Unlocked(t, y)
    BY <1>2 DEF Replaced
  <1>4. \A y \in Scalars :
            /\ Count(todo'[t], Locking(y)) = Count(s, Locking(y))
            /\ Count(todo'[t], Unlocking(y)) = Count(s, Unlocking(y))
            /\ Count(todo'[t], Freeing(y)) = Count(s, Freeing(y))
            /\ Count(todo'[t], Referencing(y)) = Count(s, Referencing(y))
            /\ Count(todo'[t], Spending(y)) = Count(s, Spending(y))
            /\ Count(todo'[t], Putting(y)) = Count(s, Putting(y)) - (IF v = y THEN 1 ELSE 0)
            /\ v = y => Count(s, Putting(y)) >= 1
    <2> TAKE y \in Scalars
    <2>1. /\ s[1] \notin Locking(y)
          /\ s[1] \notin Unlocking(y)
          /\ s[1] \notin Freeing(y)
          /\ s[1] \notin Referencing(y)
          /\ s[1] \notin Spending(y)
          /\ s[1] \in Putting(y) <=> v = y
      <3> DEFINE a == <<"put", x, v>>
      <3>1. /\ a \notin Locking(y) /\ a \notin Unlocking(y) /\ a \notin Freeing(y)
            /\ a \notin Referencing(y) /\ a \notin Spending(y)
            /\ a \in Putting(y) <=> v = y
        BY <1>3, KindsOfSteps
      <3>2. s[1] = a
        BY <1>3
      <3> HIDE DEF a
      <3> QED
        BY <3>1, <3>2
    <2>2. ASSUME NEW E
          PROVE  Count(todo'[t], E) = Count(s, E) - (IF s[1] \in E THEN 1 ELSE 0)
      <3> DEFINE op == "put"
      <3>1. Replaced(t, op, x, none)
        BY <1>2
      <3> HIDE DEF op
      <3> QED
        BY <1>2, <3>1, CountsReplaced
    <2>3. ASSUME NEW E, s[1] \notin E
          PROVE  Count(todo'[t], E) = Count(s, E)
      BY <1>3, <2>2, <2>3
    <2>4. Count(todo'[t], Putting(y)) = Count(s, Putting(y)) - (IF v = y THEN 1 ELSE 0)
      BY <2>1, <2>2
    <2>5. v = y => Count(s, Putting(y)) >= 1
      BY <1>1, <1>3, <2>1, CountsOf
    <2> QED
      BY <2>1, <2>3, <2>4, <2>5, Zenon
  <1>5. /\ value' = [value EXCEPT ![x] = v] /\ refs' = refs /\ owner' = owner /\ depth' = depth
        /\ locked' = locked
        /\ v = Undef => holds' = holds
        /\ v # Undef => Loses(t, v)
    BY <1>3, Zenon DEF PutStep
  <1>6. owner[x] = t /\ value[x] = Undef
    <2>1. owner[x] = t
      BY <1>1, <1>3, HeadOwned
    <2>2. value[x] = Undef
      <3>1. \/ owner[s[1][2]] = t /\ value[s[1][2]] = Undef
            \/ \E i \in 1 .. 1 - 1 : s[i] = <<"clear", s[1][2]>>
        BY <1>1, <1>3, Zenon DEF Cleared
      <3> QED
        BY <1>3, <3>1
    <2> QED
      BY <2>1, <2>2
  <1>7. v # Undef => <<x, v>> \in Refers
    BY <1>1, <1>3 DEF PutTyped
  <1>8. \A j \in 2 .. Len(s) : s[j][1] # "put" /\ s[j][1] # "reference"
    BY <1>2, <1>3 DEF Replaced, MayPrecede
  <1>9. \A y \in Scalars : Count(s, Referencing(y)) = 0
    <2> TAKE y \in Scalars
    <2>1. \A i \in 1 .. Len(s) : s[i][1] # "reference"
      BY <1>3, <1>8
    <2>2. \A i \in 1 .. Len(s) : s[i] \notin Referencing(y)
      BY <2>1 DEF Referencing
    <2> QED
      BY <1>1, <2>2, CountsOf
  <1>10. \A y \in Scalars :
           /\ holds[t][y] \in Nat
           /\ holds[t][y] >= Count(s, Spending(y)) + Count(s, Putting(y))
                             + (IF locked[t][y] > 0 THEN 1 ELSE 0)
    <2> TAKE y \in Scalars
    <2>1. holds[t][y] \in Nat
      BY <1>1 DEF TypeOK
    <2>2. holds[t][y] + Count(s, Referencing(y))
               >= Count(s, Spending(y)) + Count(s, Putting(y)) + (IF locked[t][y] > 0 THEN 1 ELSE 0)
      BY <1>1 DEF Kept
    <2>3. /\ Count(s, Referencing(y)) = 0
          /\ Count(s, Spending(y)) \in Nat /\ Count(s, Putting(y)) \in Nat
      BY <1>3, <1>9
    <2> QED
      BY <2>1, <2>2, <2>3
  <1>11. /\ holds' \in [Threads -> [Scalars -> Nat]]
         /\ \A u \in Threads, y \in Scalars :
              holds'[u][y] = holds[u][y] - (IF u = t /\ y = v THEN 1 ELSE 0)
         /\ \A y \in Scalars : Cardinality(HeldTokens(y))'
                                = Cardinality(HeldTokens(y)) - (IF y = v THEN 1 ELSE 0)
    <2>1. CASE v # Undef
      <3>1. v \in Scalars /\ Loses(t, v)
        BY <1>3, <1>5, <2>1
      <3>2. holds[t][v] >= 1
        <4>1. /\ holds[t][v] \in Nat /\ Count(s, Putting(v)) >= 1
              /\ holds[t][v] >= Count(s, Spending(v)) + Count(s, Putting(v))
                                + (IF locked[t][v] > 0 THEN 1 ELSE 0)
              /\ Count(s, Spending(v)) \in Nat /\ Count(s, Putting(v)) \in Nat
          BY <1>3, <1>4, <1>10, <3>1
        <4> HIDE DEF s, v
        <4> QED
          BY <4>1
      <3> HIDE DEF v
      <3> QED
        BY <1>1, <3>1, <3>2, TokensLost
    <2>2. CASE v = Undef
      <3>1. \A y \in Scalars : y # v
        BY <2>2, SharedScalarsAssumption
      <3>2. holds' = holds
        BY <1>5, <2>2
      <3>3. \A y \in Scalars : Cardinality(HeldTokens(y))' = Cardinality(HeldTokens(y))
        BY <3>2 DEF HeldTokens
      <3>4. \A y \in Scalars : Cardinality(HeldTokens(y)) \in Nat
        BY <1>1, HeldFinite
      <3>5. \A u \in Threads, y \in Scalars : holds[u][y] \in Nat
        BY <1>1 DEF TypeOK
      <3>6. holds' \in [Threads -> [Scalars -> Nat]]
        BY <1>1, <3>2 DEF TypeOK
      <3> HIDE DEF v
      <3> QED
        BY <3>1, <3>2, <3>3, <3>4, <3>5, <3>6
    <2> QED
      BY <2>1, <2>2
  <1>12. TypeOK'
    <2>1. value' \in [Scalars -> Scalars \cup {Undef}]
      BY <1>1, <1>3, <1>5 DEF TypeOK
    <2> QED
      BY <1>1, <1>3, <1>5, <1>11, <2>1 DEF TypeOK
  <1>13. RefsExact' /\ Typed'
    <2>1. \A y \in Scalars : Cardinality(Referring(y))'
                             = Cardinality(Referring(y)) + (IF y = v THEN 1 ELSE 0)
      <3> HIDE DEF v
      <3> QED
        BY <1>1, <1>3, <1>5, <1>6, ReferringMore
    <2>2. ASSUME NEW y \in Scalars
          PROVE  refs'[y] = Cardinality(HeldTokens(y))' + Cardinality(Referring(y))'
      <3>1. /\ refs[y] = Cardinality(HeldTokens(y)) + Cardinality(Referring(y))
            /\ Cardinality(HeldTokens(y)) \in Nat /\ Cardinality(Referring(y)) \in Nat
        BY <1>1, HeldFinite
      <3>2. Cardinality(HeldTokens(y))' = Cardinality(HeldTokens(y)) - (IF y = v THEN 1 ELSE 0)
        BY <1>11, Zenon
      <3>3. Cardinality(Referring(y))' = Cardinality(Referring(y)) + (IF y = v THEN 1 ELSE 0)
        BY <2>1, Zenon
      <3>4. refs'[y] = refs[y]
        BY <1>5
      <3> HIDE DEF v
      <3> QED
        BY <3>1, <3>2, <3>3, <3>4
    <2>3. RefsExact'
      BY <2>2 DEF RefsExact, Referring
    <2>4. Typed'
      BY <1>1, <1>5, <1>7 DEF Typed, TypeOK
    <2> QED
      BY <2>3, <2>4
  <1>14. MutexCounted(t)'
    BY <1>1, <1>3, <1>4, <1>5, SameMutexes
  <1>15. Kept(t)'
    <2> SUFFICES ASSUME NEW y \in Scalars
                 PROVE  /\ holds'[t][y] >= Count(todo'[t], Spending(y))
                        /\ holds'[t][y] + Count(todo'[t], Referencing(y))
                             >= Count(todo'[t], Spending(y)) + Count(todo'[t], Putting(y))
                                + (IF locked'[t][y] > 0 THEN 1 ELSE 0)
      BY DEF Kept
    <2>1. /\ holds[t][y] \in Nat
          /\ holds[t][y] >= Count(s, Spending(y)) + Count(s, Putting(y))
                             + (IF locked[t][y] > 0 THEN 1 ELSE 0)
      BY <1>10
    <2>2. holds'[t][y] = holds[t][y] - (IF v = y THEN 1 ELSE 0)
      BY <1>11
    <2>3. /\ Count(todo'[t], Referencing(y)) = Count(s, Referencing(y))
          /\ Count(todo'[t], Spending(y)) = Count(s, Spending(y))
          /\ Count(todo'[t], Putting(y)) = Count(s, Putting(y)) - (IF v = y THEN 1 ELSE 0)
          /\ v = y => Count(s, Putting(y)) >= 1
      BY <1>4
    <2>4. /\ Count(s, Referencing(y)) = 0 /\ Count(s, Spending(y)) \in Nat
          /\ Count(s, Putting(y)) \in Nat
      BY <1>3, <1>9
    <2>5. locked' = locked
      BY <1>5
    <2> HIDE DEF s, v
    <2> QED
      BY <2>1, <2>2, <2>3, <2>4, <2>5
  <1>16. Found(t)' /\ Within(t)'
    BY <1>2, <1>5, <1>12, <1>15 DEF Replaced
  <1>17. Cleared(t)'
    <2>1. "put" # "clear"
      OBVIOUS
    <2> QED
      BY <1>2, <1>8, <2>1 DEF Replaced
  <1>18. LastFreed(t)'
    <2>1. \A i \in 1 .. Len(none) : FALSE
      BY <1>2 DEF None
    <2> QED
      BY <1>2, <1>5, <2>1 DEF Replaced
  <1>19. ASSUME NEW u \in Threads \ {t}
         PROVE  Apart(u)
    <2>1. \A y \in Scalars : owner[y] = u => value'[y] = value[y]
      BY <1>1, <1>5, <1>6 DEF TypeOK
    <2>2. holds'[u] = holds[u]
      <3>1. v # Undef => v \in Scalars /\ holds' = [holds EXCEPT ![t][v] = holds[t][v] - 1]
        BY <1>3, <1>5 DEF Loses
      <3> QED
        BY <1>1, <1>5, <3>1 DEF TypeOK
    <2> QED
      BY <1>3, <1>5, <2>1, <2>2 DEF Apart
  <1> QED
    BY <1>2, <1>3, <1>12, <1>13, <1>14, <1>15, <1>16, <1>17, <1>18, <1>19 DEF Preserved, OfThread

(* Every step of an instruction keeps the invariant.                       *)
LEMMA StepPreserves ==
  ASSUME Inv, NEW t \in Threads, Step(t)
  PROVE  Preserved(t)
  <1>1. PICK x \in Scalars :
          \/ LockStep(t, x) \/ UnlockStep(t, x) \/ ReferenceStep(t, x)
          \/ ReleaseStep(t, x) \/ ReleaseLastStep(t, x) \/ FreeStep(t, x)
          \/ ClearStep(t, x) \/ GetStep(t, x) \/ PutStep(t, x)
    BY Zenon DEF Step
  <1>2. CASE ClearStep(t, x)
    BY <1>2, ClearNothingPreserves, ClearReferencePreserves
  <1>3. CASE GetStep(t, x)
    BY <1>3, GetNothingPreserves, GetReferencePreserves
  <1> QED
    BY <1>1, <1>2, <1>3, LockPreserves, UnlockPreserves, ReferencePreserves, ReleasePreserves,
       ReleaseLastPreserves, FreePreserves, PutPreserves

-----------------------------------------------------------------------------
(* The instructions                                                        *)

(* Between instructions a context owns what its program has locked, and    *)
(* holds a reference to each scalar it has locked.                         *)
LEMMA AtBegin ==
  ASSUME Inv, NEW t \in Threads, todo[t] = <<>>, NEW x \in Scalars
  PROVE  /\ Mine(t, x) = locked[t][x]
         /\ locked[t][x] \in Nat /\ holds[t][x] \in Nat
         /\ locked[t][x] > 0 => holds[t][x] > 0
  <1>1. /\ TypeOK /\ MutexCounted(t) /\ Kept(t)
    BY DEF Inv, OfThread
  <1>2. /\ locked[t][x] \in Nat /\ holds[t][x] \in Nat /\ depth[x] \in Nat
    BY <1>1 DEF TypeOK
  <1>3. \A E : Count(todo[t], E) = 0
    <2>1. Len(todo[t]) = 0
      OBVIOUS
    <2> QED
      BY <1>1, <2>1, CountsOf
  <1>4. ~Unlocked(t, x)
    BY DEF Unlocked
  <1>5. Mine(t, x) + 0 = locked[t][x] + 0 + 0
    BY <1>1, <1>3, <1>4 DEF MutexCounted
  <1>6. holds[t][x] + 0 >= 0 + 0 + (IF locked[t][x] > 0 THEN 1 ELSE 0)
    BY <1>1, <1>3 DEF Kept
  <1>7. Mine(t, x) \in Nat
    BY <1>2 DEF Mine
  <1> QED
    BY <1>2, <1>5, <1>6, <1>7

(* What an instruction must begin with, for the invariant to be kept.      *)
LEMMA BeginPreserves ==
  ASSUME Inv, NEW t \in Threads, todo[t] = <<>>, NEW s \in Seq(Steps), Begin(t, s),
         locked' \in [Threads -> [Scalars -> Nat]],
         \A u \in Threads \ {t} : locked'[u] = locked[u],
         InOrder(s),
         \A i \in 1 .. Len(s) : s[i][1] # "free",
         \A y \in Scalars :
           \/ locked[t][y] + Count(s, Locking(y)) = locked'[t][y] + Count(s, Unlocking(y))
           \/ s = <<<<"unlock", y>>, <<"release", y>>>> /\ locked'[t][y] = 0 /\ owner[y] # t,
         \A y \in Scalars :
           /\ holds[t][y] >= Count(s, Spending(y))
           /\ holds[t][y] + Count(s, Referencing(y))
                >= Count(s, Spending(y)) + Count(s, Putting(y))
                   + (IF locked'[t][y] > 0 THEN 1 ELSE 0),
         s # <<>> => Head(s)[1] # "reference" \/ holds[t][Head(s)[2]] > 0,
         \A j \in 1 .. Len(s) : s[j][1] = "put" =>
           \E i \in 1 .. j - 1 : s[i] = <<"clear", s[j][2]>>,
         \A y \in Scalars : locked'[t][y] > 0 =>
           \A i \in 1 .. Len(s) : s[i][2] \in Reach(y),
         \A j \in 1 .. Len(s) : s[j][1] = "unlock" =>
           \A i \in 1 .. j - 1 : s[i][2] \in Reach(s[j][2]),
         \A i \in 1 .. Len(s) : s[i][1] = "put" /\ s[i][3] # Undef =>
           <<s[i][2], s[i][3]>> \in Refers
  PROVE  Preserved(t)
  <1>1. TypeOK /\ RefsExact /\ Typed
    BY DEF Inv
  <1>2. /\ todo' = [todo EXCEPT ![t] = s] /\ todo \in [Threads -> Seq(Steps)]
        /\ value' = value /\ refs' = refs /\ owner' = owner /\ depth' = depth /\ holds' = holds
    BY <1>1 DEF Begin, TypeOK
  <1>3. /\ todo'[t] = s /\ todo' \in [Threads -> Seq(Steps)]
        /\ \A u \in Threads \ {t} : todo'[u] = todo[u]
    BY <1>2
  <1>4. TypeOK'
    BY <1>1, <1>2, <1>3 DEF TypeOK
  <1>5. RefsExact' /\ Typed'
    BY <1>1, <1>2, SameReferences DEF Typed
  <1>6. MutexCounted(t)'
    <2> SUFFICES ASSUME NEW y \in Scalars
                 PROVE  \/ Mine(t, y)' + Count(s, Locking(y))
                             = locked'[t][y] + Count(s, Unlocking(y)) + Count(s, Freeing(y))
                        \/ Unlocked(t, y)'
      BY <1>3 DEF MutexCounted
    <2>1. Mine(t, y)' = locked[t][y] /\ locked[t][y] \in Nat
      BY <1>2, AtBegin DEF Mine
    <2>2. Count(s, Freeing(y)) = 0 /\ Count(s, Unlocking(y)) \in Nat /\ locked'[t][y] \in Nat
      <3>1. \A i \in 1 .. Len(s) : s[i] \notin Freeing(y)
        BY DEF Freeing
      <3> QED
        BY <3>1, CountNone, PlacesFinite
    <2>3. CASE locked[t][y] + Count(s, Locking(y)) = locked'[t][y] + Count(s, Unlocking(y))
      BY <2>1, <2>2, <2>3
    <2>4. CASE s = <<<<"unlock", y>>, <<"release", y>>>> /\ locked'[t][y] = 0 /\ owner[y] # t
      BY <1>2, <1>3, <2>4, Zenon DEF Unlocked
    <2> QED
      BY <2>3, <2>4
  <1>7. Kept(t)'
    BY <1>2, <1>3 DEF Kept
  <1>8. Found(t)' /\ Cleared(t)' /\ LastFreed(t)'
    BY <1>2, <1>3, ZenonT(60) DEF Found, Cleared, LastFreed
  <1>9. Within(t)' /\ PutTyped(t)'
    BY <1>2, <1>3 DEF Within, PutTyped
  <1>10. ASSUME NEW u \in Threads \ {t}
         PROVE  Apart(u)
    BY <1>2, <1>3 DEF Apart
  <1> QED
    BY <1>3, <1>4, <1>5, <1>6, <1>7, <1>8, <1>9, <1>10 DEF Preserved, OfThread

(* SRREAD                                                                  *)
LEMMA ReadPreserves ==
  ASSUME Inv, NEW t \in Threads, NEW x \in Scalars, SRREAD(t, x)
  PROVE  Preserved(t)
  <1> DEFINE s == <<<<"lock", x>>, <<"get", x>>, <<"unlock", x>>, <<"release", x>>>>
  <1>1. todo[t] = <<>>
    BY Zenon DEF SRREAD, Permitted
  <1>2. /\ holds[t][x] >= 1 /\ (locked[t][x] > 0 => holds[t][x] > 1)
        /\ \A y \in Scalars : locked[t][y] > 0 => x \in Reach(y)
        /\ locked' = locked
    BY Zenon DEF SRREAD, Permitted
  <1>3. Begin(t, s)
    BY Zenon DEF SRREAD
  <1>4. s \in Seq(Steps)
    BY StepTypes, OpKinds, Lists
  <1>5. /\ Len(s) = 4 /\ s[1] = <<"lock", x>> /\ s[2] = <<"get", x>>
        /\ s[3] = <<"unlock", x>> /\ s[4] = <<"release", x>>
    BY StepTypes, OpKinds, Lists
  <1> HIDE DEF s
  <1>6. /\ s[1][1] = "lock" /\ s[2][1] = "get" /\ s[3][1] = "unlock" /\ s[4][1] = "release"
        /\ s[1][2] = x /\ s[2][2] = x /\ s[3][2] = x /\ s[4][2] = x
    BY <1>5
  <1>7. \A i \in 1 .. Len(s) : /\ i \in {1, 2, 3, 4} /\ s[i][2] = x
                               /\ s[i][1] \notin {"free", "put", "reference"}
    BY <1>5, <1>6
  <1>8. InOrder(s)
    <2>1. SpendsLater(s)
      BY <1>5, <1>6, <1>7 DEF SpendsLater, Spending
    <2>2. UnlocksLater(s)
      BY <1>5, <1>6, <1>7 DEF UnlocksLater, Unlocking
    <2>3. ReferenceKept(s, 2)
      BY <1>5, <1>7 DEF ReferenceKept
    <2>4. Phases(s)
      BY <1>5, <1>6, <1>7 DEF Phases, MayPrecede
    <2> QED
      BY <2>1, <2>2, <2>3, <2>4 DEF InOrder
  <1>9. \A y \in Scalars :
          /\ Count(s, Locking(y)) = Count(s, Unlocking(y)) /\ Count(s, Unlocking(y)) \in Nat
          /\ Count(s, Referencing(y)) = 0 /\ Count(s, Putting(y)) = 0
          /\ Count(s, Spending(y)) = IF x = y THEN 1 ELSE 0
    <2> TAKE y \in Scalars
    <2>1. \A E : Count(s, E) = Has(E, s[1]) + (Has(E, s[2]) + (Has(E, s[3]) + Has(E, s[4])))
      BY <1>4, <1>5, CountList
    <2> QED
      BY <1>5, <2>1, HasKind, OpKinds
  <1>10. \A y \in Scalars :
           locked[t][y] + Count(s, Locking(y)) = locked'[t][y] + Count(s, Unlocking(y))
    BY <1>2, <1>9
  <1>11. \A y \in Scalars :
           /\ holds[t][y] >= Count(s, Spending(y))
           /\ holds[t][y] + Count(s, Referencing(y))
                >= Count(s, Spending(y)) + Count(s, Putting(y))
                   + (IF locked'[t][y] > 0 THEN 1 ELSE 0)
    <2> TAKE y \in Scalars
    <2>1. /\ locked[t][y] \in Nat /\ holds[t][y] \in Nat
          /\ locked[t][y] > 0 => holds[t][y] > 0
      BY <1>1, AtBegin
    <2> QED
      BY <1>2, <1>9, <2>1
  <1>12. /\ s # <<>> => Head(s)[1] # "reference" \/ holds[t][Head(s)[2]] > 0
         /\ locked' \in [Threads -> [Scalars -> Nat]]
         /\ \A u \in Threads \ {t} : locked'[u] = locked[u]
    BY <1>2, <1>4, <1>5, <1>6 DEF Inv, TypeOK
  <1>13. /\ \A y \in Scalars : locked'[t][y] > 0 =>
              \A i \in 1 .. Len(s) : s[i][2] \in Reach(y)
         /\ \A j \in 1 .. Len(s) : s[j][1] = "unlock" =>
              \A i \in 1 .. j - 1 : s[i][2] \in Reach(s[j][2])
    BY <1>2, <1>5, <1>7 DEF Reach
  <1> QED
    BY <1>1, <1>3, <1>4, <1>7, <1>8, <1>10, <1>11, <1>12, <1>13, BeginPreserves

(* SRLOCK                                                                  *)
LEMMA LockingPreserves ==
  ASSUME Inv, NEW t \in Threads, NEW x \in Scalars, SRLOCK(t, x)
  PROVE  Preserved(t)
  <1> DEFINE s == <<<<"reference", x>>, <<"lock", x>>, <<"release", x>>>>
  <1>1. todo[t] = <<>>
    BY Zenon DEF SRLOCK, Permitted
  <1>2. /\ holds[t][x] > 0
        /\ \A y \in Scalars : locked[t][y] > 0 => x \in Reach(y)
        /\ locked' = [locked EXCEPT ![t][x] = locked[t][x] + 1]
    BY Zenon DEF SRLOCK, Permitted
  <1>3. Begin(t, s)
    BY Zenon DEF SRLOCK
  <1>4. s \in Seq(Steps)
    BY StepTypes, OpKinds, Lists
  <1>5. Len(s) = 3 /\ s[1] = <<"reference", x>> /\ s[2] = <<"lock", x>> /\ s[3] = <<"release", x>>
    BY StepTypes, OpKinds, Lists
  <1> HIDE DEF s
  <1>6. /\ s[1][1] = "reference" /\ s[2][1] = "lock" /\ s[3][1] = "release"
        /\ s[1][2] = x /\ s[2][2] = x /\ s[3][2] = x
    BY <1>5
  <1>7. \A i \in 1 .. Len(s) : /\ i \in {1, 2, 3} /\ s[i][2] = x
                               /\ s[i][1] \notin {"free", "put", "clear", "get", "unlock"}
    BY <1>5, <1>6
  <1>8. InOrder(s)
    <2>1. SpendsLater(s)
      BY <1>5, <1>6, <1>7 DEF SpendsLater, Spending
    <2>2. UnlocksLater(s)
      BY <1>5, <1>6, <1>7 DEF UnlocksLater, Unlocking
    <2>3. ReferenceKept(s, 2)
      BY <1>5, <1>6 DEF ReferenceKept
    <2>4. Phases(s)
      BY <1>5, <1>6, <1>7 DEF Phases, MayPrecede
    <2> QED
      BY <2>1, <2>2, <2>3, <2>4 DEF InOrder
  <1>9. \A y \in Scalars :
          /\ Count(s, Locking(y)) = (IF x = y THEN 1 ELSE 0) /\ Count(s, Unlocking(y)) = 0
          /\ Count(s, Referencing(y)) = (IF x = y THEN 1 ELSE 0) /\ Count(s, Putting(y)) = 0
          /\ Count(s, Spending(y)) = IF x = y THEN 1 ELSE 0
    <2> TAKE y \in Scalars
    <2>1. \A E : Count(s, E) = Has(E, s[1]) + (Has(E, s[2]) + Has(E, s[3]))
      BY <1>4, <1>5, CountList
    <2> QED
      BY <1>5, <2>1, HasKind, OpKinds
  <1>10. /\ locked' \in [Threads -> [Scalars -> Nat]]
         /\ \A u \in Threads \ {t} : locked'[u] = locked[u]
         /\ \A y \in Scalars : /\ locked[t][y] \in Nat
                               /\ locked'[t][y] = locked[t][y] + (IF x = y THEN 1 ELSE 0)
    BY <1>2 DEF Inv, TypeOK
  <1>11. \A y \in Scalars :
           locked[t][y] + Count(s, Locking(y)) = locked'[t][y] + Count(s, Unlocking(y))
    BY <1>9, <1>10
  <1>12. \A y \in Scalars :
           /\ holds[t][y] >= Count(s, Spending(y))
           /\ holds[t][y] + Count(s, Referencing(y))
                >= Count(s, Spending(y)) + Count(s, Putting(y))
                   + (IF locked'[t][y] > 0 THEN 1 ELSE 0)
    <2> TAKE y \in Scalars
    <2>1. /\ holds[t][y] \in Nat
          /\ locked[t][y] > 0 => holds[t][y] > 0
      BY <1>1, AtBegin
    <2> QED
      BY <1>2, <1>9, <1>10, <2>1
  <1>13. s # <<>> => Head(s)[1] # "reference" \/ holds[t][Head(s)[2]] > 0
    BY <1>2, <1>4, <1>5, <1>6
  <1>14. /\ \A y \in Scalars : locked'[t][y] > 0 =>
              \A i \in 1 .. Len(s) : s[i][2] \in Reach(y)
         /\ \A j \in 1 .. Len(s) : s[j][1] = "unlock" =>
              \A i \in 1 .. j - 1 : s[i][2] \in Reach(s[j][2])
    BY <1>2, <1>7, <1>10 DEF Reach
  <1> QED
    BY <1>1, <1>3, <1>4, <1>7, <1>8, <1>10, <1>11, <1>12, <1>13, <1>14, BeginPreserves

(* SRUNLOCK, of a scalar the context has locked or has not                 *)
LEMMA UnlockingPreserves ==
  ASSUME Inv, NEW t \in Threads, NEW x \in Scalars, SRUNLOCK(t, x)
  PROVE  Preserved(t)
  <1> DEFINE s == <<<<"unlock", x>>, <<"release", x>>>>
  <1>1. todo[t] = <<>>
    BY Zenon DEF SRUNLOCK, Permitted
  <1>2. /\ holds[t][x] > 0
        /\ locked[t][x] > 0 => holds[t][x] > (IF locked[t][x] = 1 THEN 0 ELSE 1)
        /\ \A y \in Scalars : locked[t][y] > 0 => x \in Reach(y)
        /\ locked' = [locked EXCEPT ![t][x] = IF locked[t][x] > 0 THEN locked[t][x] - 1 ELSE 0]
    BY Zenon DEF SRUNLOCK, Permitted
  <1>3. Begin(t, s)
    BY Zenon DEF SRUNLOCK
  <1>4. s \in Seq(Steps)
    BY StepTypes, OpKinds, Lists
  <1>5. Len(s) = 2 /\ s[1] = <<"unlock", x>> /\ s[2] = <<"release", x>>
    BY StepTypes, OpKinds, Lists
  <1>6. s = <<<<"unlock", x>>, <<"release", x>>>>
    BY Zenon
  <1> HIDE DEF s
  <1>7. s[1][1] = "unlock" /\ s[2][1] = "release" /\ s[1][2] = x /\ s[2][2] = x
    BY <1>5
  <1>8. \A i \in 1 .. Len(s) : /\ i \in {1, 2} /\ s[i][2] = x
                               /\ s[i][1] \notin {"free", "put", "clear", "get", "reference"}
    BY <1>5, <1>7
  <1>9. InOrder(s)
    <2>1. SpendsLater(s)
      BY <1>5, <1>7, <1>8 DEF SpendsLater, Spending
    <2>2. UnlocksLater(s)
      BY <1>5, <1>7, <1>8 DEF UnlocksLater, Unlocking
    <2>3. ReferenceKept(s, 2)
      BY <1>5, <1>7 DEF ReferenceKept
    <2>4. Phases(s)
      BY <1>5, <1>7, <1>8 DEF Phases, MayPrecede
    <2> QED
      BY <2>1, <2>2, <2>3, <2>4 DEF InOrder
  <1>10. \A y \in Scalars :
           /\ Count(s, Locking(y)) = 0 /\ Count(s, Unlocking(y)) = (IF x = y THEN 1 ELSE 0)
           /\ Count(s, Referencing(y)) = 0 /\ Count(s, Putting(y)) = 0
           /\ Count(s, Spending(y)) = IF x = y THEN 1 ELSE 0
    <2> TAKE y \in Scalars
    <2>1. \A E : Count(s, E) = Has(E, s[1]) + Has(E, s[2])
      BY <1>4, <1>5, CountList
    <2> QED
      BY <1>5, <2>1, HasKind, OpKinds
  <1>11. /\ locked' \in [Threads -> [Scalars -> Nat]]
         /\ \A u \in Threads \ {t} : locked'[u] = locked[u]
         /\ \A y \in Scalars : /\ locked[t][y] \in Nat
                               /\ x # y => locked'[t][y] = locked[t][y]
         /\ locked[t][x] > 0 => locked'[t][x] = locked[t][x] - 1
         /\ locked[t][x] = 0 => locked'[t][x] = 0
    BY <1>2 DEF Inv, TypeOK
  <1>12. \A y \in Scalars :
           \/ locked[t][y] + Count(s, Locking(y)) = locked'[t][y] + Count(s, Unlocking(y))
           \/ s = <<<<"unlock", y>>, <<"release", y>>>> /\ locked'[t][y] = 0 /\ owner[y] # t
    <2> TAKE y \in Scalars
    <2>1. CASE x # y \/ locked[t][x] > 0
      BY <1>10, <1>11, <2>1
    <2>2. CASE x = y /\ locked[t][x] = 0
      <3>1. owner[x] # t
        <4>1. Mine(t, x) = 0
          BY <1>1, <2>2, AtBegin
        <4> QED
          BY <4>1, SharedScalarsAssumption DEF Mine, Inv, TypeOK
      <3>2. locked'[t][x] = 0
        BY <1>11, <2>2
      <3> QED
        BY <1>6, <2>2, <3>1, <3>2, Zenon
    <2> QED
      BY <1>11, <2>1, <2>2
  <1>13. \A y \in Scalars :
           /\ holds[t][y] >= Count(s, Spending(y))
           /\ holds[t][y] + Count(s, Referencing(y))
                >= Count(s, Spending(y)) + Count(s, Putting(y))
                   + (IF locked'[t][y] > 0 THEN 1 ELSE 0)
    <2> TAKE y \in Scalars
    <2>1. /\ holds[t][y] \in Nat /\ locked[t][y] \in Nat
          /\ locked[t][y] > 0 => holds[t][y] > 0
      BY <1>1, AtBegin
    <2> QED
      BY <1>2, <1>10, <1>11, <2>1
  <1>14. s # <<>> => Head(s)[1] # "reference" \/ holds[t][Head(s)[2]] > 0
    BY <1>4, <1>5, <1>7
  <1>15. /\ \A y \in Scalars : locked'[t][y] > 0 =>
              \A i \in 1 .. Len(s) : s[i][2] \in Reach(y)
         /\ \A j \in 1 .. Len(s) : s[j][1] = "unlock" =>
              \A i \in 1 .. j - 1 : s[i][2] \in Reach(s[j][2])
    BY <1>2, <1>8, <1>11, SMTT(30) DEF Reach
  <1> QED
    BY <1>1, <1>3, <1>4, <1>8, <1>9, <1>11, <1>12, <1>13, <1>14, <1>15, BeginPreserves

(* Copy                                                                    *)
LEMMA CopyPreserves ==
  ASSUME Inv, NEW t \in Threads, NEW x \in Scalars, Copy(t, x)
  PROVE  Preserved(t)
  <1> DEFINE s == <<<<"reference", x>>>>
  <1>1. todo[t] = <<>>
    BY Zenon DEF Copy, Permitted
  <1>2. /\ holds[t][x] \in 1 .. MaxHolds - 1
        /\ \A y \in Scalars : locked[t][y] > 0 => x \in Reach(y)
        /\ locked' = locked
    BY Zenon DEF Copy, Permitted
  <1>3. Begin(t, s)
    BY Zenon DEF Copy
  <1>4. s \in Seq(Steps)
    BY StepTypes, OpKinds, Lists
  <1>5. Len(s) = 1 /\ s[1] = <<"reference", x>>
    BY StepTypes, OpKinds, Lists
  <1> HIDE DEF s
  <1>6. s[1][1] = "reference" /\ s[1][2] = x
    BY <1>5
  <1>7. \A i \in 1 .. Len(s) : /\ i = 1 /\ s[i][2] = x
                               /\ s[i][1] \notin {"free", "put", "clear", "get", "lock", "unlock"}
    BY <1>5, <1>6
  <1>8. InOrder(s)
    BY <1>5, <1>6, <1>7 DEF InOrder, SpendsLater, UnlocksLater, ReferenceKept, Phases
  <1>9. \A y \in Scalars :
          /\ Count(s, Locking(y)) = 0 /\ Count(s, Unlocking(y)) = 0 /\ Count(s, Putting(y)) = 0
          /\ Count(s, Referencing(y)) = IF x = y THEN 1 ELSE 0
          /\ Count(s, Spending(y)) = 0
    <2> TAKE y \in Scalars
    <2>1. \A E : Count(s, E) = Has(E, s[1])
      BY <1>4, <1>5, CountList
    <2> QED
      BY <1>5, <2>1, HasKind, OpKinds
  <1>10. \A y \in Scalars :
           locked[t][y] + Count(s, Locking(y)) = locked'[t][y] + Count(s, Unlocking(y))
    BY <1>2, <1>9
  <1>11. \A y \in Scalars :
           /\ holds[t][y] >= Count(s, Spending(y))
           /\ holds[t][y] + Count(s, Referencing(y))
                >= Count(s, Spending(y)) + Count(s, Putting(y))
                   + (IF locked'[t][y] > 0 THEN 1 ELSE 0)
    <2> TAKE y \in Scalars
    <2>1. /\ locked[t][y] \in Nat /\ holds[t][y] \in Nat
          /\ locked[t][y] > 0 => holds[t][y] > 0
      BY <1>1, AtBegin
    <2> QED
      BY <1>2, <1>9, <2>1
  <1>12. /\ s # <<>> => Head(s)[1] # "reference" \/ holds[t][Head(s)[2]] > 0
         /\ locked' \in [Threads -> [Scalars -> Nat]]
         /\ \A u \in Threads \ {t} : locked'[u] = locked[u]
    BY <1>2, <1>4, <1>5, <1>6, SharedScalarsAssumption DEF Inv, TypeOK
  <1>13. /\ \A y \in Scalars : locked'[t][y] > 0 =>
              \A i \in 1 .. Len(s) : s[i][2] \in Reach(y)
         /\ \A j \in 1 .. Len(s) : s[j][1] = "unlock" =>
              \A i \in 1 .. j - 1 : s[i][2] \in Reach(s[j][2])
    BY <1>2, <1>7
  <1> QED
    BY <1>1, <1>3, <1>4, <1>7, <1>8, <1>10, <1>11, <1>12, <1>13, BeginPreserves

(* Drop                                                                    *)
LEMMA DropPreserves ==
  ASSUME Inv, NEW t \in Threads, NEW x \in Scalars, Drop(t, x)
  PROVE  Preserved(t)
  <1> DEFINE s == <<<<"release", x>>>>
  <1>1. todo[t] = <<>>
    BY Zenon DEF Drop, Permitted
  <1>2. /\ holds[t][x] >= 1 /\ (locked[t][x] > 0 => holds[t][x] > 1)
        /\ \A y \in Scalars : locked[t][y] > 0 => x \in Reach(y)
        /\ locked' = locked
    BY Zenon DEF Drop, Permitted
  <1>3. Begin(t, s)
    BY Zenon DEF Drop
  <1>4. s \in Seq(Steps)
    BY StepTypes, OpKinds, Lists
  <1>5. Len(s) = 1 /\ s[1] = <<"release", x>>
    BY StepTypes, OpKinds, Lists
  <1> HIDE DEF s
  <1>6. s[1][1] = "release" /\ s[1][2] = x
    BY <1>5
  <1>7. \A i \in 1 .. Len(s) : /\ i = 1 /\ s[i][2] = x
                               /\ s[i][1] \notin {"free", "put", "clear", "get", "lock", "unlock"}
    BY <1>5, <1>6
  <1>8. InOrder(s)
    BY <1>5, <1>6, <1>7 DEF InOrder, SpendsLater, UnlocksLater, ReferenceKept, Phases
  <1>9. \A y \in Scalars :
          /\ Count(s, Locking(y)) = 0 /\ Count(s, Unlocking(y)) = 0 /\ Count(s, Putting(y)) = 0
          /\ Count(s, Referencing(y)) = 0
          /\ Count(s, Spending(y)) = IF x = y THEN 1 ELSE 0
    <2> TAKE y \in Scalars
    <2>1. \A E : Count(s, E) = Has(E, s[1])
      BY <1>4, <1>5, CountList
    <2> QED
      BY <1>5, <2>1, HasKind, OpKinds
  <1>10. \A y \in Scalars :
           locked[t][y] + Count(s, Locking(y)) = locked'[t][y] + Count(s, Unlocking(y))
    BY <1>2, <1>9
  <1>11. \A y \in Scalars :
           /\ holds[t][y] >= Count(s, Spending(y))
           /\ holds[t][y] + Count(s, Referencing(y))
                >= Count(s, Spending(y)) + Count(s, Putting(y))
                   + (IF locked'[t][y] > 0 THEN 1 ELSE 0)
    <2> TAKE y \in Scalars
    <2>1. /\ locked[t][y] \in Nat /\ holds[t][y] \in Nat
          /\ locked[t][y] > 0 => holds[t][y] > 0
      BY <1>1, AtBegin
    <2> QED
      BY <1>2, <1>9, <2>1
  <1>12. /\ s # <<>> => Head(s)[1] # "reference" \/ holds[t][Head(s)[2]] > 0
         /\ locked' \in [Threads -> [Scalars -> Nat]]
         /\ \A u \in Threads \ {t} : locked'[u] = locked[u]
    BY <1>2, <1>4, <1>5, <1>6, SharedScalarsAssumption DEF Inv, TypeOK
  <1>13. /\ \A y \in Scalars : locked'[t][y] > 0 =>
              \A i \in 1 .. Len(s) : s[i][2] \in Reach(y)
         /\ \A j \in 1 .. Len(s) : s[j][1] = "unlock" =>
              \A i \in 1 .. j - 1 : s[i][2] \in Reach(s[j][2])
    BY <1>2, <1>7
  <1> QED
    BY <1>1, <1>3, <1>4, <1>7, <1>8, <1>10, <1>11, <1>12, <1>13, BeginPreserves

(* SRWRITE of a value that is no reference                                 *)
LEMMA WriteNothingPreserves ==
  ASSUME Inv, NEW t \in Threads, NEW x \in Scalars, NEW v \in Scalars \cup {Undef},
         SRWRITE(t, x, v), v = Undef
  PROVE  Preserved(t)
  <1> DEFINE p == IF v = Undef THEN <<>> ELSE <<<<"reference", v>>>>
             q == IF v = Undef THEN <<>> ELSE <<<<"release", v>>>>
             s == <<<<"lock", x>>, <<"clear", x>>>> \o p \o <<<<"put", x, v>>, <<"unlock", x>>>>
                  \o q \o <<<<"release", x>>>>
  <1>1. todo[t] = <<>>
    BY Zenon DEF SRWRITE, Permitted
  <1>2. /\ holds[t][x] >= 1 /\ (locked[t][x] > 0 => holds[t][x] > 1)
        /\ \A y \in Scalars : locked[t][y] > 0 => x \in Reach(y)
        /\ locked' = locked
    BY Zenon DEF SRWRITE, Permitted
  <1>3. Begin(t, s)
    BY Zenon DEF SRWRITE
  <1>4. p \in Seq(Steps) /\ q \in Seq(Steps) /\ None(p) /\ None(q)
    BY DEF None
  <1> HIDE DEF p, q
  <1>5. s \in Seq(Steps)
    BY <1>4, StepTypes, OpKinds, Concats
  <1>6. /\ Len(s) = 5
        /\ s[1] = <<"lock", x>> /\ s[2] = <<"clear", x>> /\ s[3] = <<"put", x, v>>
        /\ s[4] = <<"unlock", x>> /\ s[5] = <<"release", x>>
    <2> DEFINE a == <<"lock", x>>
               b == <<"clear", x>>
               d == <<"put", x, v>>
               e == <<"unlock", x>>
               g == <<"release", x>>
    <2>1. a \in Steps /\ b \in Steps /\ d \in Steps /\ e \in Steps /\ g \in Steps
      BY StepTypes, OpKinds
    <2> DEFINE w == <<a, b>> \o p \o <<d, e>> \o q \o <<g>>
    <2>2. s = w
      BY Zenon
    <2> HIDE DEF a, b, d, e, g, s
    <2>3. Five(w, a, b, d, e, g)
      BY <1>4, <2>1, ConcatFive
    <2> HIDE DEF w
    <2> QED
      BY <2>2, <2>3 DEF a, b, d, e, g, Five
  <1> HIDE DEF s
  <1>7. /\ s[1][1] = "lock" /\ s[2][1] = "clear" /\ s[3][1] = "put" /\ s[4][1] = "unlock"
        /\ s[5][1] = "release"
        /\ s[1][2] = x /\ s[2][2] = x /\ s[3][2] = x /\ s[4][2] = x /\ s[5][2] = x
        /\ s[3][3] = v
    BY <1>6
  <1>8. \A i \in 1 .. Len(s) :
          /\ i \in {1, 2, 3, 4, 5} /\ s[i][1] # "free" /\ s[i][1] # "get"
          /\ s[i][1] = "put" => i = 3
          /\ s[i][1] = "unlock" => i = 4
          /\ s[i][1] = "clear" => i = 2
          /\ s[i][1] = "lock" => i = 1
          /\ s[i][1] # "reference"
          /\ s[i][2] = x
    BY <1>6, <1>7
  <1>9. InOrder(s)
    <2>1. SpendsLater(s)
      BY <1>6, <1>7, <1>8 DEF SpendsLater, Spending
    <2>2. UnlocksLater(s)
      BY <1>6, <1>7, <1>8 DEF UnlocksLater, Unlocking
    <2>3. ReferenceKept(s, 2)
      BY <1>6, <1>7, <1>8 DEF ReferenceKept, Spending
    <2>4. Phases(s)
      BY <1>6, <1>7, <1>8 DEF Phases, MayPrecede
    <2> QED
      BY <2>1, <2>2, <2>3, <2>4 DEF InOrder
  <1>10. \A y \in Scalars :
          /\ Count(s, Locking(y)) = Count(s, Unlocking(y)) /\ Count(s, Unlocking(y)) \in Nat
          /\ Count(s, Referencing(y)) = 0
          /\ Count(s, Putting(y)) = 0
          /\ Count(s, Spending(y)) = (IF x = y THEN 1 ELSE 0)
    <2> TAKE y \in Scalars
    <2>1. \A E : Count(s, E) = Has(E, s[1]) + (Has(E, s[2]) + (Has(E, s[3]) + (Has(E, s[4]) + Has(E, s[5]))))
      BY <1>5, <1>6, CountList
    <2>2. v \in Scalars \cup {Undef} /\ v # y
      BY SharedScalarsAssumption
    <2> QED
      BY <1>6, <2>1, <2>2, HasKind, OpKinds
  <1>11. \A y \in Scalars :
           locked[t][y] + Count(s, Locking(y)) = locked'[t][y] + Count(s, Unlocking(y))
    BY <1>2, <1>10
  <1>12. \A y \in Scalars :
           /\ holds[t][y] >= Count(s, Spending(y))
           /\ holds[t][y] + Count(s, Referencing(y))
                >= Count(s, Spending(y)) + Count(s, Putting(y))
                   + (IF locked'[t][y] > 0 THEN 1 ELSE 0)
    <2> TAKE y \in Scalars
    <2>1. /\ locked[t][y] \in Nat /\ holds[t][y] \in Nat
          /\ locked[t][y] > 0 => holds[t][y] > 0
      BY <1>1, AtBegin
    <2> QED
      BY <1>2, <1>10, <2>1
  <1>13. /\ s # <<>> => Head(s)[1] # "reference" \/ holds[t][Head(s)[2]] > 0
         /\ locked' \in [Threads -> [Scalars -> Nat]]
         /\ \A u \in Threads \ {t} : locked'[u] = locked[u]
    BY <1>2, <1>5, <1>6, <1>7, SMTT(30) DEF Inv, TypeOK
  <1>14. \A j \in 1 .. Len(s) : s[j][1] = "put" =>
           \E i \in 1 .. j - 1 : s[i] = <<"clear", s[j][2]>>
    <2>1. 2 \in 1 .. 3 - 1 /\ s[2] = <<"clear", s[3][2]>>
      BY <1>6, <1>7
    <2> QED
      BY <1>8, <2>1
  <1>15. /\ \A y \in Scalars : locked'[t][y] > 0 =>
              \A i \in 1 .. Len(s) : s[i][2] \in Reach(y)
         /\ \A j \in 1 .. Len(s) : s[j][1] = "unlock" =>
              \A i \in 1 .. j - 1 : s[i][2] \in Reach(s[j][2])
    BY <1>2, <1>6, <1>7, <1>8 DEF Reach
  <1>16. \A i \in 1 .. Len(s) : s[i][1] = "put" /\ s[i][3] # Undef =>
           <<s[i][2], s[i][3]>> \in Refers
    BY <1>7, <1>8
  <1> QED
    BY <1>1, <1>3, <1>5, <1>8, <1>9, <1>11, <1>12, <1>13, <1>14, <1>15, <1>16, BeginPreserves

(* SRWRITE of a reference, to the scalar itself or to another              *)
LEMMA WriteReferencePreserves ==
  ASSUME Inv, NEW t \in Threads, NEW x \in Scalars, NEW v \in Scalars \cup {Undef},
         SRWRITE(t, x, v), v # Undef
  PROVE  Preserved(t)
  <1> DEFINE p == IF v = Undef THEN <<>> ELSE <<<<"reference", v>>>>
             q == IF v = Undef THEN <<>> ELSE <<<<"release", v>>>>
             s == <<<<"lock", x>>, <<"clear", x>>>> \o p \o <<<<"put", x, v>>, <<"unlock", x>>>>
                  \o q \o <<<<"release", x>>>>
  <1>1. todo[t] = <<>>
    BY Zenon DEF SRWRITE, Permitted
  <1>2. /\ holds[t][x] >= 1 /\ (locked[t][x] > 0 => holds[t][x] > 1)
        /\ \A y \in Scalars : locked[t][y] > 0 => x \in Reach(y)
        /\ locked' = locked
    BY Zenon DEF SRWRITE, Permitted
  <1>3. /\ v \in Scalars /\ <<x, v>> \in Refers
        /\ holds[t][v] >= (IF v = x THEN 2 ELSE 1)
        /\ locked[t][v] > 0 => holds[t][v] > (IF v = x THEN 2 ELSE 1)
        /\ \A y \in Scalars : locked[t][y] > 0 => v \in Reach(y)
    <2>1. <<x, v>> \in Refers /\ Permitted(t, v, IF v = x THEN 2 ELSE 1)
      BY Zenon DEF SRWRITE
    <2> QED
      BY <2>1 DEF Permitted
  <1>4. Begin(t, s)
    BY Zenon DEF SRWRITE
  <1>5. p \in Seq(Steps) /\ q \in Seq(Steps) /\ One(p, <<"reference", v>>) /\ One(q, <<"release", v>>)
    <2>1. <<"reference", v>> \in Steps /\ <<"release", v>> \in Steps
      BY <1>3, StepTypes, OpKinds
    <2> QED
      BY <2>1, Lists DEF One
  <1> HIDE DEF p, q
  <1>6. s \in Seq(Steps)
    BY <1>5, StepTypes, OpKinds, Concats
  <1>7. /\ Len(s) = 7
        /\ s[1] = <<"lock", x>> /\ s[2] = <<"clear", x>> /\ s[3] = <<"reference", v>>
        /\ s[4] = <<"put", x, v>> /\ s[5] = <<"unlock", x>> /\ s[6] = <<"release", v>>
        /\ s[7] = <<"release", x>>
    <2> DEFINE a == <<"lock", x>>
               b == <<"clear", x>>
               c == <<"reference", v>>
               d == <<"put", x, v>>
               e == <<"unlock", x>>
               f == <<"release", v>>
               g == <<"release", x>>
    <2>1. /\ a \in Steps /\ b \in Steps /\ c \in Steps /\ d \in Steps /\ e \in Steps
          /\ f \in Steps /\ g \in Steps
      BY <1>3, StepTypes, OpKinds
    <2> DEFINE w == <<a, b>> \o p \o <<d, e>> \o q \o <<g>>
    <2>2. s = w /\ One(p, c) /\ One(q, f)
      BY <1>5, Zenon
    <2> HIDE DEF a, b, c, d, e, f, g, s
    <2>3. Seven(w, a, b, c, d, e, f, g)
      BY <1>5, <2>1, <2>2, ConcatSeven
    <2> HIDE DEF w
    <2> QED
      BY <2>2, <2>3 DEF a, b, c, d, e, f, g, Seven
  <1> HIDE DEF s
  <1>8. /\ s[1][1] = "lock" /\ s[2][1] = "clear" /\ s[3][1] = "reference" /\ s[4][1] = "put"
        /\ s[5][1] = "unlock" /\ s[6][1] = "release" /\ s[7][1] = "release"
        /\ s[1][2] = x /\ s[2][2] = x /\ s[3][2] = v /\ s[4][2] = x /\ s[5][2] = x
        /\ s[6][2] = v /\ s[7][2] = x
        /\ s[4][3] = v
    BY <1>7
  <1>9. \A i \in 1 .. Len(s) :
          /\ i \in {1, 2, 3, 4, 5, 6, 7} /\ s[i][1] # "free" /\ s[i][1] # "get"
          /\ s[i][1] = "put" => i = 4
          /\ s[i][1] = "unlock" => i = 5
          /\ s[i][1] = "clear" => i = 2
          /\ s[i][1] = "lock" => i = 1
          /\ s[i][1] = "reference" => i = 3
          /\ s[i][2] \in {x, v}
    BY <1>7, <1>8
  <1>10. InOrder(s)
    <2>1. SpendsLater(s)
      BY <1>7, <1>8, <1>9 DEF SpendsLater, Spending
    <2>2. UnlocksLater(s)
      BY <1>7, <1>8, <1>9 DEF UnlocksLater, Unlocking
    <2>3. ReferenceKept(s, 2)
      BY <1>7, <1>8, <1>9 DEF ReferenceKept, Spending
    <2>4. Phases(s)
      BY <1>7, <1>8, <1>9 DEF Phases, MayPrecede
    <2> QED
      BY <2>1, <2>2, <2>3, <2>4 DEF InOrder
  <1>11. \A y \in Scalars :
          /\ Count(s, Locking(y)) = Count(s, Unlocking(y)) /\ Count(s, Unlocking(y)) \in Nat
          /\ Count(s, Referencing(y)) = IF v = y THEN 1 ELSE 0
          /\ Count(s, Putting(y)) = IF v = y THEN 1 ELSE 0
          /\ Count(s, Spending(y)) = (IF x = y THEN 1 ELSE 0) + (IF v = y THEN 1 ELSE 0)
    <2> TAKE y \in Scalars
    <2>1. \A E : Count(s, E) = Has(E, s[1]) + (Has(E, s[2]) + (Has(E, s[3]) + (Has(E, s[4])
                               + (Has(E, s[5]) + (Has(E, s[6]) + Has(E, s[7]))))))
      BY <1>6, <1>7, CountList
    <2> QED
      BY <1>3, <1>7, <2>1, HasKind, OpKinds
  <1>12. \A y \in Scalars :
           locked[t][y] + Count(s, Locking(y)) = locked'[t][y] + Count(s, Unlocking(y))
    BY <1>2, <1>11
  <1>13. \A y \in Scalars :
           /\ holds[t][y] >= Count(s, Spending(y))
           /\ holds[t][y] + Count(s, Referencing(y))
                >= Count(s, Spending(y)) + Count(s, Putting(y))
                   + (IF locked'[t][y] > 0 THEN 1 ELSE 0)
    <2> TAKE y \in Scalars
    <2>1. /\ locked[t][y] \in Nat /\ holds[t][y] \in Nat
          /\ locked[t][y] > 0 => holds[t][y] > 0
      BY <1>1, AtBegin
    <2>2. /\ Count(s, Referencing(y)) = (IF v = y THEN 1 ELSE 0)
          /\ Count(s, Putting(y)) = (IF v = y THEN 1 ELSE 0)
          /\ Count(s, Spending(y)) = (IF x = y THEN 1 ELSE 0) + (IF v = y THEN 1 ELSE 0)
      BY <1>11
    <2>3. locked' = locked
      BY <1>2
    <2> HIDE DEF s
    <2>4. CASE v = y
      BY <1>3, <1>2, <2>1, <2>2, <2>3, <2>4
    <2>5. CASE v # y
      BY <1>2, <2>1, <2>2, <2>3, <2>5
    <2> QED
      BY <2>4, <2>5
  <1>14. /\ s # <<>> => Head(s)[1] # "reference" \/ holds[t][Head(s)[2]] > 0
         /\ locked' \in [Threads -> [Scalars -> Nat]]
         /\ \A u \in Threads \ {t} : locked'[u] = locked[u]
    <2>1. Head(s) = s[1]
      BY <1>6, <1>7
    <2>2. s # <<>> => Head(s)[1] # "reference" \/ holds[t][Head(s)[2]] > 0
      BY <1>8, <2>1
    <2>3. locked \in [Threads -> [Scalars -> Nat]]
      BY DEF Inv, TypeOK
    <2> QED
      BY <1>2, <2>2, <2>3
  <1>15. \A j \in 1 .. Len(s) : s[j][1] = "put" =>
           \E i \in 1 .. j - 1 : s[i] = <<"clear", s[j][2]>>
    <2>1. 2 \in 1 .. 4 - 1 /\ s[2] = <<"clear", s[4][2]>>
      BY <1>7, <1>8
    <2> QED
      BY <1>9, <2>1
  <1>16. /\ \A y \in Scalars : locked'[t][y] > 0 =>
              \A i \in 1 .. Len(s) : s[i][2] \in Reach(y)
         /\ \A j \in 1 .. Len(s) : s[j][1] = "unlock" =>
              \A i \in 1 .. j - 1 : s[i][2] \in Reach(s[j][2])
    <2>1. \A y \in Scalars : locked'[t][y] > 0 => x \in Reach(y) /\ v \in Reach(y)
      BY <1>3, <1>2
    <2>2. x \in Reach(x) /\ v \in Reach(x)
      BY <1>3 DEF Reach
    <2>3. \A j \in 1 .. Len(s) : s[j][1] = "unlock" => s[j][2] = x
      BY <1>8, <1>9
    <2>4. \A i \in 1 .. Len(s) : s[i][2] \in {x, v}
      BY <1>9
    <2>5. \A j \in 1 .. Len(s) : \A i \in 1 .. j - 1 : i \in 1 .. Len(s)
      BY <1>7
    <2> QED
      BY <2>1, <2>2, <2>3, <2>4, <2>5
  <1>17. \A i \in 1 .. Len(s) : s[i][1] = "put" /\ s[i][3] # Undef =>
           <<s[i][2], s[i][3]>> \in Refers
    BY <1>3, <1>8, <1>9
  <1> QED
    BY <1>1, <1>4, <1>6, <1>9, <1>10, <1>12, <1>13, <1>14, <1>15, <1>16, <1>17, BeginPreserves

(* Every beginning of an instruction keeps the invariant.                  *)
LEMMA InstructionPreserves ==
  ASSUME Inv, NEW t \in Threads, Instruction(t)
  PROVE  Preserved(t)
  <1>1. PICK x \in Scalars :
          \/ SRREAD(t, x) \/ SRLOCK(t, x) \/ SRUNLOCK(t, x) \/ Copy(t, x) \/ Drop(t, x)
          \/ \E v \in Scalars \cup {Undef} : SRWRITE(t, x, v)
    BY Zenon DEF Instruction
  <1>2. CASE \E v \in Scalars \cup {Undef} : SRWRITE(t, x, v)
    BY <1>2, WriteNothingPreserves, WriteReferencePreserves
  <1> QED
    BY <1>1, <1>2, ReadPreserves, LockingPreserves, UnlockingPreserves, CopyPreserves, DropPreserves

-----------------------------------------------------------------------------
(* The invariant and what it implies                                       *)

(* The invariant is inductive.                                             *)
LEMMA StepInv ==
  Inv /\ [Next]_vars => Inv'
  <1> SUFFICES ASSUME Inv, [Next]_vars
               PROVE  Inv'
    OBVIOUS
  <1>1. CASE UNCHANGED vars
    <2>1. /\ value' = value /\ refs' = refs /\ owner' = owner /\ depth' = depth
          /\ holds' = holds /\ locked' = locked /\ todo' = todo
      BY <1>1 DEF vars
    <2>2. TypeOK' /\ RefsExact' /\ Typed'
      BY <2>1, SameReferences DEF Inv, TypeOK, Typed
    <2>3. ASSUME NEW u \in Threads
          PROVE  OfThread(u)'
      <3>1. Apart(u)
        BY <2>1 DEF Apart
      <3> QED
        BY <3>1, OthersKeep DEF Inv
    <2> QED
      BY <2>2, <2>3 DEF Inv
  <1>2. CASE Next
    <2>1. PICK t \in Threads : Instruction(t) \/ Step(t)
      BY <1>2, Zenon DEF Next
    <2>2. Preserved(t)
      BY <2>1, InstructionPreserves, StepPreserves
    <2>3. ASSUME NEW u \in Threads \ {t}
          PROVE  OfThread(u)'
      <3>1. Apart(u)
        BY <2>2 DEF Preserved
      <3> QED
        BY <3>1, OthersKeep DEF Inv
    <2> QED
      BY <2>2, <2>3 DEF Preserved, Inv
  <1> QED
    BY <1>1, <1>2

(* The invariant holds at first, when each context has one reference to    *)
(* each scalar.                                                            *)
LEMMA InitInv ==
  Init => Inv
  <1> SUFFICES ASSUME Init
               PROVE  Inv
    OBVIOUS
  <1> DEFINE none == <<>>
  <1>1. /\ value = [x \in Scalars |-> Undef] /\ refs = [x \in Scalars |-> Cardinality(Threads)]
        /\ owner = [x \in Scalars |-> Nobody] /\ depth = [x \in Scalars |-> 0]
        /\ holds = [t \in Threads |-> [x \in Scalars |-> 1]]
        /\ locked = [t \in Threads |-> [x \in Scalars |-> 0]]
        /\ todo = [t \in Threads |-> none]
    BY Zenon DEF Init
  <1>2. none \in Seq(Steps) /\ None(none)
    BY DEF None
  <1> HIDE DEF none
  <1>3. Cardinality(Threads) \in Nat
    BY SharedScalarsAssumption, FS_CardinalityType
  <1>4. TypeOK
    BY <1>1, <1>2, <1>3 DEF TypeOK
  <1>5. ASSUME NEW x \in Scalars
        PROVE  refs[x] = Cardinality(HeldTokens(x)) + Cardinality({y \in Scalars : value[y] = x})
    <2> DEFINE f == [t \in Threads |-> <<t, 1>>]
    <2>1. HeldTokens(x) = {<<t, 1>> : t \in Threads}
      <3>1. \A t \in Threads : 1 .. holds[t][x] = {1}
        BY <1>1
      <3> QED
        BY <3>1 DEF HeldTokens
    <2>2. f \in Bijection(Threads, HeldTokens(x))
      BY <2>1 DEF Bijection, Injection, Surjection, IsInjective
    <2>3. Cardinality(HeldTokens(x)) = Cardinality(Threads)
      <3>1. ExistsBijection(Threads, HeldTokens(x))
        BY <2>2, Zenon DEF ExistsBijection
      <3>2. IsFiniteSet(HeldTokens(x)) /\ IsFiniteSet(Threads)
        BY <1>4, TokensFinite, SharedScalarsAssumption
      <3> QED
        BY <3>1, <3>2, FS_Bijection
    <2>4. {y \in Scalars : value[y] = x} = {}
      BY <1>1, SharedScalarsAssumption
    <2>5. Cardinality({y \in Scalars : value[y] = x}) = 0
      BY <2>4, FS_EmptySet
    <2>6. refs[x] = Cardinality(Threads)
      BY <1>1
    <2> QED
      BY <1>3, <2>3, <2>5, <2>6
  <1>6. RefsExact
    BY <1>5 DEF RefsExact
  <1>7. Typed
    BY <1>1 DEF Typed
  <1>8. ASSUME NEW t \in Threads
        PROVE  OfThread(t)
    <2>1. todo[t] = none
      BY <1>1
    <2>2. \A i \in 1 .. Len(todo[t]) : FALSE
      BY <1>2, <2>1 DEF None
    <2>3. \A E : Count(todo[t], E) = 0
      BY <1>4, <2>2, CountsOf
    <2>4. InOrder(todo[t]) /\ Cleared(t) /\ LastFreed(t) /\ PutTyped(t)
      <3>1. /\ \A i \in 1 .. Len(todo[t]) : FALSE
            /\ \A i \in 2 .. Len(todo[t]) : FALSE
        BY <2>2
      <3> QED
        BY <3>1, Zenon
           DEF InOrder, SpendsLater, UnlocksLater, ReferenceKept, Phases, Cleared, LastFreed, PutTyped
    <2>5. MutexCounted(t)
      BY <1>1, <2>3, SharedScalarsAssumption DEF MutexCounted, Mine
    <2>6. Kept(t)
      BY <1>1, <2>3 DEF Kept
    <2>7. Within(t)
      BY <1>1, <2>2 DEF Within
    <2>8. Found(t)
      BY <1>4, <2>2 DEF Found, TypeOK
    <2> QED
      BY <2>4, <2>5, <2>6, <2>7, <2>8 DEF OfThread
  <1> QED
    BY <1>4, <1>6, <1>7, <1>8 DEF Inv

(* Theorem.  m_references is exact between any two steps, for any number   *)
(* of contexts and scalars and any chains of references, cycles included   *)
(* (POOL_REFERENCE, POOL_RELEASE, anon_scalar_clone, anon_scalar_destroy). *)
THEOREM SharedReferencesExact ==
  Spec => []RefsExact
  <1>1. Inv => RefsExact
    BY DEF Inv
  <1> QED
    BY <1>1, InitInv, StepInv, PTL DEF Spec

(* Theorem.  No context has anything left to do with a freed scalar: the   *)
(* assertions POOL_HANDLE_IN_USE cannot fail.                              *)
THEOREM FreedNeverUsed ==
  Spec => []FreedIsForgotten
  <1>1. Inv => FreedIsForgotten
    <2> SUFFICES ASSUME Inv, NEW t \in Threads, NEW i \in DOMAIN todo[t]
                 PROVE  refs[todo[t][i][2]] > 0
      BY DEF FreedIsForgotten
    <2> DEFINE s == todo[t]
               x == s[i][2]
    <2>1. /\ TypeOK /\ RefsExact /\ InOrder(s) /\ Kept(t) /\ Found(t)
      BY DEF Inv, OfThread
    <2>2. s \in Seq(Steps) /\ Len(s) \in Nat /\ i \in 1 .. Len(s)
      BY <2>1 DEF TypeOK
    <2>3. s[i] \in Steps /\ x \in Scalars
      BY <2>1, <2>2, OnScalars
    <2>4. s[i][1] \in Kinds \cup {"put"}
      BY <2>3 DEF Steps
    <2>5. (\E k \in 1 .. Len(s) : s[k] \in Spending(x)) => refs[x] > 0
      <3> SUFFICES ASSUME NEW k \in 1 .. Len(s), s[k] \in Spending(x)
                   PROVE  refs[x] > 0
        OBVIOUS
      <3>1. Count(s, Spending(x)) >= 1 /\ Count(s, Spending(x)) \in Nat
        BY <2>1, CountsOf
      <3>2. holds[t][x] >= Count(s, Spending(x))
        BY <2>1, <2>3 DEF Kept
      <3>3. holds[t][x] \in Nat /\ refs[x] \in Nat /\ holds[t][x] <= refs[x]
        BY <2>1, <2>3, HoldsCounted
      <3> HIDE DEF s, x
      <3> QED
        BY <3>1, <3>2, <3>3
    <2>6. CASE s[i][1] \in {"release", "free"}
      <3>1. s[i] \in Spending(x)
        <4>1. \E op \in Kinds : s[i] = <<op, s[i][2]>>
          BY <2>3, <2>6 DEF Steps
        <4> QED
          BY <2>6, <4>1 DEF Spending
      <3> QED
        BY <2>2, <2>5, <3>1
    <2>7. CASE s[i][1] \in {"lock", "unlock", "clear", "get", "put"}
      <3>1. \E k \in i + 1 .. Len(s) : s[k] \in Spending(x)
        BY <2>1, <2>2, <2>7 DEF InOrder, SpendsLater
      <3> QED
        BY <2>2, <2>5, <3>1
    <2>8. CASE s[i][1] = "reference" /\ i # 1
      <3>1. \E k \in i + 1 .. Len(s) : s[k] \in Spending(x)
        BY <2>1, <2>2, <2>8 DEF InOrder, ReferenceKept
      <3> QED
        BY <2>2, <2>5, <3>1
    <2>9. CASE s[i][1] = "reference" /\ i = 1
      <3>1. s # <<>> /\ Head(s) = s[1]
        BY <2>2
      <3>2. holds[t][x] > 0 \/ \E y \in Scalars : owner[y] = t /\ value[y] = x
        BY <2>1, <2>9, <3>1 DEF Found
      <3> QED
        BY <2>1, <2>3, <3>2, HoldsCounted
    <2> QED
      BY <2>4, <2>6, <2>7, <2>8, <2>9 DEF Kinds
  <1> QED
    BY <1>1, InitInv, StepInv, PTL DEF Spec

(* Theorem.  The types are right, and between instructions a context owns  *)
(* exactly the mutexes its program has locked and not unlocked.            *)
THEOREM LocksAlwaysReturned ==
  Spec => []LocksReturned
  <1>1. Inv => LocksReturned
    <2> SUFFICES ASSUME Inv, NEW t \in Threads, todo[t] = <<>>, NEW x \in Scalars
                 PROVE  (IF owner[x] = t THEN depth[x] ELSE 0) = locked[t][x]
      BY DEF LocksReturned, Inv
    <2>1. Mine(t, x) = locked[t][x]
      BY AtBegin
    <2> QED
      BY <2>1 DEF Mine
  <1> QED
    BY <1>1, InitInv, StepInv, PTL DEF Spec

(* The three steps that change a value or free a scalar are taken by the   *)
(* owner of its mutex.                                                     *)
LEMMA OwnerChanges ==
  ASSUME Inv, NEW t \in Threads, Instruction(t) \/ Step(t), NEW x \in Scalars,
         value'[x] # value[x] \/ (refs'[x] = 0 /\ refs[x] > 0)
  PROVE  owner[x] = t /\ todo'[t] # todo[t]
  <1> DEFINE s == todo[t]
  <1>1. /\ TypeOK /\ OfThread(t) /\ InOrder(s) /\ MutexCounted(t)
        /\ value \in [Scalars -> Scalars \cup {Undef}] /\ refs \in [Scalars -> Nat]
    BY DEF Inv, OfThread, TypeOK
  <1>2. ASSUME NEW y \in Scalars, NEW op, NEW first \in Seq(Steps), Replaced(t, op, y, first),
               None(first) \/ Head(todo'[t])[1] # op,
               op \in {"clear", "free", "put"},
               y # x => value'[x] = value[x] /\ refs'[x] = refs[x]
        PROVE  owner[x] = t /\ todo'[t] # todo[t]
    <2>1. x = y
      BY <1>1, <1>2
    <2>2. s # <<>> /\ s[1][1] = op /\ s[1][2] = y
      BY <1>2 DEF Replaced
    <2>3. owner[x] = t
      BY <1>1, <1>2, <2>1, <2>2, HeadOwned
    <2>4. CASE None(first)
      <3>1. /\ Tail(s) \in Seq(Steps) /\ todo'[t] = first \o Tail(s)
        BY <1>2 DEF Replaced
      <3>2. todo'[t] = Tail(s)
        BY <2>4, <3>1, NoStepsFirst
      <3>3. Len(Tail(s)) = Len(s) - 1 /\ Len(s) \in Nat
        <4>1. s \in Seq(Steps)
          BY <1>1 DEF TypeOK
        <4> QED
          BY <2>2, <4>1, TailOf
      <3>4. Len(todo'[t]) # Len(s)
        BY <3>2, <3>3
      <3> HIDE DEF s
      <3> QED
        BY <2>3, <3>4 DEF s
    <2>5. CASE Head(todo'[t])[1] # op
      <3>1. Head(s) = s[1]
        BY <1>1, <2>2 DEF TypeOK
      <3> QED
        BY <2>2, <2>3, <2>5, <3>1
    <2> QED
      BY <1>2, <2>4, <2>5
  <1>3. CASE Instruction(t)
    <2>1. value' = value /\ refs' = refs
      BY <1>3, Zenon DEF Instruction, SRREAD, SRWRITE, SRLOCK, SRUNLOCK, Copy, Drop, Begin
    <2> QED
      BY <1>1, <2>1
  <1>4. CASE Step(t)
    <2>1. PICK y \in Scalars :
            \/ LockStep(t, y) \/ UnlockStep(t, y) \/ ReferenceStep(t, y)
            \/ ReleaseStep(t, y) \/ ReleaseLastStep(t, y) \/ FreeStep(t, y)
            \/ ClearStep(t, y) \/ GetStep(t, y) \/ PutStep(t, y)
      BY <1>4, Zenon DEF Step
    <2>2. CASE LockStep(t, y) \/ UnlockStep(t, y) \/ ReleaseLastStep(t, y) \/ GetStep(t, y)
      <3>1. value' = value /\ refs' = refs
        BY <2>2, Zenon DEF LockStep, UnlockStep, ReleaseLastStep, GetStep
      <3> QED
        BY <1>1, <3>1
    <2>3. CASE ReferenceStep(t, y)
      <3>1. value' = value /\ refs' = [refs EXCEPT ![y] = refs[y] + 1]
        BY <2>3, Zenon DEF ReferenceStep
      <3> QED
        BY <1>1, <3>1
    <2>4. CASE ReleaseStep(t, y)
      <3>1. value' = value /\ refs' = [refs EXCEPT ![y] = refs[y] - 1] /\ refs[y] > 1
        BY <2>4, Zenon DEF ReleaseStep
      <3> QED
        BY <1>1, <3>1
    <2>5. CASE FreeStep(t, y)
      <3>1. value' = value /\ refs' = [refs EXCEPT ![y] = 0]
        BY <2>5, Zenon DEF FreeStep
      <3>2. PICK none \in Seq(Steps) : None(none) /\ Replaced(t, "free", y, none)
        <4>1. Take(t, "free", y, <<>>)
          BY <2>5, Zenon DEF FreeStep
        <4> QED
          BY <1>1, <4>1, NoneReplaced, Zenon
      <3>3. y # x => value'[x] = value[x] /\ refs'[x] = refs[x]
        BY <1>1, <3>1
      <3> DEFINE op == "free"
      <3>4. op \in {"clear", "free", "put"} /\ Replaced(t, op, y, none)
        BY <3>2
      <3> HIDE DEF op
      <3> QED
        BY <1>2, <3>2, <3>3, <3>4
    <2>6. CASE PutStep(t, y)
      <3>1. value' = [value EXCEPT ![y] = Head(s)[3]] /\ refs' = refs
        BY <2>6, Zenon DEF PutStep
      <3>2. PICK none \in Seq(Steps) : None(none) /\ Replaced(t, "put", y, none)
        <4>1. Take(t, "put", y, <<>>)
          BY <2>6, Zenon DEF PutStep
        <4> QED
          BY <1>1, <4>1, NoneReplaced, Zenon
      <3>3. y # x => value'[x] = value[x] /\ refs'[x] = refs[x]
        BY <1>1, <3>1
      <3> DEFINE op == "put"
      <3>4. op \in {"clear", "free", "put"} /\ Replaced(t, op, y, none)
        BY <3>2
      <3> HIDE DEF op
      <3> QED
        BY <1>2, <3>2, <3>3, <3>4
    <2>7. CASE ClearStep(t, y)
      <3>1. value' = [value EXCEPT ![y] = Undef] /\ refs' = refs
        BY <2>7, Zenon DEF ClearStep
      <3>2. y # x => value'[x] = value[x] /\ refs'[x] = refs[x]
        BY <1>1, <3>1
      <3> DEFINE op == "clear"
      <3>3. op \in {"clear", "free", "put"} /\ "clear" = op
        OBVIOUS
      <3> HIDE DEF op
      <3>4. CASE value[y] = Undef
        <4>1. Take(t, "clear", y, <<>>)
          BY <2>7, <3>4, Zenon DEF ClearStep
        <4>2. PICK none \in Seq(Steps) : None(none) /\ Replaced(t, op, y, none)
          BY <1>1, <3>3, <4>1, NoneReplaced, Zenon
        <4> QED
          BY <1>2, <3>2, <3>3, <4>2
      <3>5. CASE value[y] # Undef
        <4> DEFINE a == <<"release", value[y]>>
        <4>1. Take(t, "clear", y, <<a>>)
          BY <2>7, <3>5, Zenon DEF ClearStep
        <4>2. value[y] \in Scalars /\ value[y] \in Reach(y)
          <5>1. value[y] \in Scalars
            BY <1>1, <3>5
          <5> QED
            BY <3>5, <5>1 DEF Inv, Typed, Reach
        <4>3. /\ a \in Steps /\ a[2] \in Scalars /\ a[2] \in Reach(y)
              /\ a[1] \notin {"put", "unlock", "free"} /\ a[1] # "clear"
          BY <4>2, StepTypes, OpKinds
        <4> HIDE DEF a
        <4>4. PICK first \in Seq(Steps) : /\ One(first, a) /\ Replaced(t, op, y, first)
                                          /\ todo'[t] # <<>> /\ Head(todo'[t]) = a
          BY <1>1, <3>3, <4>1, <4>3, OneReplaced, Zenon
        <4>5. Head(todo'[t])[1] # op
          BY <3>3, <4>3, <4>4, Zenon
        <4> QED
          BY <1>2, <3>2, <3>3, <4>4, <4>5
      <3> QED
        BY <3>4, <3>5
    <2> QED
      BY <2>1, <2>2, <2>3, <2>4, <2>5, <2>6, <2>7
  <1> QED
    BY <1>3, <1>4

(* Theorem.  A value is changed, and a scalar freed, only by the context   *)
(* that has the mutex (SRLOCK, SRWRITE, POOL_RELEASE).                     *)
THEOREM OnlyOwnersChange ==
  Spec => OnlyOwnerChanges
  <1> DEFINE Changes ==
        \A x \in Scalars :
          value'[x] # value[x] \/ (refs'[x] = 0 /\ refs[x] > 0) =>
            \E t \in Threads : owner[x] = t /\ todo'[t] # todo[t]
  <1>1. Inv /\ [Next]_vars => [Changes]_vars
    <2> SUFFICES ASSUME Inv, Next
                 PROVE  Changes
      OBVIOUS
    <2>1. PICK t \in Threads : Instruction(t) \/ Step(t)
      BY Zenon DEF Next
    <2> QED
      BY <2>1, OwnerChanges
  <1> HIDE DEF Changes
  <1>2. Spec => [][Changes]_vars
    BY <1>1, InitInv, StepInv, PTL DEF Spec
  <1> QED
    BY <1>2 DEF OnlyOwnerChanges, Changes

-----------------------------------------------------------------------------
(* Deadlock                                                                *)

(* A context that owns a mutex waits only for what the scalar may refer    *)
(* to.                                                                     *)
LEMMA WaitsBelow ==
  ASSUME Inv, NEW u \in Threads, NEW x \in Scalars, owner[x] = u, NEW z \in Wanted(u)
  PROVE  z \in Scalars /\ z \in Reach(x)
  <1> DEFINE s == todo[u]
  <1>1. /\ TypeOK /\ MutexCounted(u) /\ Within(u)
    BY DEF Inv, OfThread
  <1>2. /\ s # <<>> /\ Head(s)[1] \in {"lock", "reference", "release"} /\ z = Head(s)[2]
    BY Zenon DEF Wanted
  <1>3. s \in Seq(Steps) /\ Len(s) \in Nat /\ 1 \in 1 .. Len(s) /\ Head(s) = s[1]
    BY <1>1, <1>2 DEF TypeOK
  <1>4. z \in Scalars
    BY <1>1, <1>2, <1>3, OnScalars
  <1>5. Mine(u, x) \in Nat /\ Mine(u, x) > 0
    BY <1>1, SharedScalarsAssumption DEF TypeOK, Mine
  <1>6. ~Unlocked(u, x)
    BY DEF Unlocked
  <1>7. Mine(u, x) + Count(s, Locking(x)) = locked[u][x] + Count(s, Unlocking(x)) + Count(s, Freeing(x))
    BY <1>1, <1>6 DEF MutexCounted
  <1>8. \/ locked[u][x] > 0
        \/ \E j \in 1 .. Len(s) : s[j] \in Unlocking(x) \cup Freeing(x)
    <2>1. /\ Count(s, Locking(x)) \in Nat /\ Count(s, Unlocking(x)) \in Nat
          /\ Count(s, Freeing(x)) \in Nat /\ locked[u][x] \in Nat
      BY <1>1, CountsOf DEF TypeOK
    <2>2. locked[u][x] > 0 \/ Count(s, Unlocking(x)) # 0 \/ Count(s, Freeing(x)) # 0
      BY <1>5, <1>7, <2>1
    <2> QED
      BY <1>1, <2>1, <2>2, CountsOf
  <1>9. CASE locked[u][x] > 0
    BY <1>1, <1>2, <1>3, <1>4, <1>9 DEF Within
  <1>10. CASE \E j \in 1 .. Len(s) : s[j] \in Unlocking(x) \cup Freeing(x)
    <2>1. PICK j \in 1 .. Len(s) : s[j] \in Unlocking(x) \cup Freeing(x)
      BY <1>10
    <2>2. s[j][1] \in {"unlock", "free"} /\ s[j][2] = x
      BY <2>1 DEF Unlocking, Freeing
    <2>3. j # 1
      BY <1>2, <1>3, <2>2
    <2>4. 1 \in 1 .. j - 1
      BY <1>3, <2>3
    <2> QED
      BY <1>1, <1>2, <1>3, <1>4, <2>2, <2>4 DEF Within
  <1> QED
    BY <1>8, <1>9, <1>10

(* If no scalar may refer to itself, one of every few refers to no other   *)
(* of them.                                                                *)
LEMMA SomeRefersToNone ==
  ASSUME \A x \in Scalars : <<x, x>> \notin Refers, NEW W, W \subseteq Scalars, W # {}
  PROVE  \E x \in W : \A y \in W : <<x, y>> \notin Refers
  <1> DEFINE D(x) == {y \in Scalars : <<x, y>> \in Refers}
             N == {Cardinality(D(x)) : x \in W}
             Less == OpToRel(<, Nat)
  <1>1. \A x : IsFiniteSet(D(x)) /\ Cardinality(D(x)) \in Nat
    <2> TAKE x
    <2>1. D(x) \subseteq Scalars
      OBVIOUS
    <2> QED
      BY <2>1, FS_Subset, FS_CardinalityType, SharedScalarsAssumption
  <1>2. ASSUME NEW x \in W, NEW y \in W, <<x, y>> \in Refers
        PROVE  Cardinality(D(y)) < Cardinality(D(x))
    <2>1. \A z \in Scalars : <<y, z>> \in Refers => <<x, z>> \in Refers
      <3> TAKE z \in Scalars
      <3>1. ASSUME <<y, z>> \in Refers
            PROVE  <<x, z>> \in Refers
        <4> DEFINE p == <<x, y>>
                   q == <<y, z>>
        <4>1. p \in Refers /\ q \in Refers /\ p[2] = q[1] /\ p[1] = x /\ q[2] = z
          BY <1>2, <3>1
        <4> HIDE DEF p, q
        <4>2. <<p[1], q[2]>> \in Refers
          BY <4>1, SharedScalarsAssumption
        <4> QED
          BY <4>1, <4>2
      <3> QED
        BY <3>1
    <2>2. D(y) \subseteq D(x) /\ y \in D(x) /\ y \notin D(y)
      BY <1>2, <2>1
    <2>3. D(y) # D(x)
      BY <2>2
    <2> HIDE DEF D
    <2>4. /\ Cardinality(D(y)) <= Cardinality(D(x))
          /\ Cardinality(D(y)) = Cardinality(D(x)) => D(y) = D(x)
      BY <1>1, <2>2, FS_Subset
    <2> QED
      BY <1>1, <2>3, <2>4
  <1>3. N \subseteq Nat /\ N # {}
    BY <1>1
  <1>4. IsWellFoundedOn(Less, Nat)
    BY NatLessThanWellFounded
  <1>5. \A m, n \in Nat : m < n => <<m, n>> \in Less
    BY DEF OpToRel
  <1>6. \A n \in N : \E x \in W : n = Cardinality(D(x))
    OBVIOUS
  <1>7. \A x \in W : Cardinality(D(x)) \in N
    OBVIOUS
  <1> HIDE DEF D, N, Less
  <1>8. PICK n \in N : \A m \in N : <<m, n>> \notin Less
    <2>1. PICK k \in N : TRUE
      BY <1>3
    <2> QED
      BY <1>3, <1>4, <2>1, WFMin
  <1>9. PICK x \in W : n = Cardinality(D(x))
    BY <1>6
  <1>10. ASSUME NEW y \in W, <<x, y>> \in Refers
         PROVE  FALSE
    <2>1. Cardinality(D(y)) < Cardinality(D(x))
      BY <1>2, <1>10
    <2>2. <<Cardinality(D(y)), n>> \in Less
      BY <1>1, <1>5, <1>9, <2>1
    <2> QED
      BY <1>7, <1>8, <2>2
  <1> QED
    BY <1>10

(* Theorem.  If no chain of references leads from a scalar to itself, no   *)
(* contexts wait for each other in a circle, however many they are and     *)
(* however long the chains.                                                *)
THEOREM NoDeadlockOnScalars ==
  ASSUME \A x \in Scalars : <<x, x>> \notin Refers
  PROVE  Spec => []NoCircularWait
  <1>1. Inv => NoCircularWait
    <2> SUFFICES ASSUME Inv, NEW ts \in (SUBSET Threads) \ {{}},
                        \A t \in ts : \E x \in Wanted(t) : owner[x] \in ts \ {t}
                 PROVE  FALSE
      BY DEF NoCircularWait
    <2> DEFINE W == {x \in Scalars : \E t \in ts : x \in Wanted(t) /\ owner[x] \in ts \ {t}}
    <2>1. ts \subseteq Threads /\ ts # {}
      OBVIOUS
    <2>2. ASSUME NEW x \in Scalars, owner[x] \in ts
          PROVE  \E y \in W : y \in Reach(x) /\ y # x
      <3>1. PICK u \in ts : owner[x] = u
        BY <2>2
      <3>2. PICK y \in Wanted(u) : owner[y] \in ts \ {u}
        OBVIOUS
      <3>3. y \in Scalars /\ y \in Reach(x)
        BY <2>1, <3>1, WaitsBelow
      <3> QED
        BY <3>1, <3>2, <3>3
    <2>3. W # {}
      <3>1. PICK t \in ts : TRUE
        BY <2>1
      <3>2. PICK x \in Wanted(t) : owner[x] \in ts \ {t}
        OBVIOUS
      <3>3. x \in Scalars
        <4>1. TypeOK /\ todo[t] # <<>> /\ x = Head(todo[t])[2]
          BY <2>1, Zenon DEF Inv, Wanted
        <4>2. todo[t] \in Seq(Steps) /\ 1 \in 1 .. Len(todo[t]) /\ Head(todo[t]) = todo[t][1]
          BY <2>1, <4>1 DEF TypeOK
        <4> QED
          BY <2>1, <4>1, <4>2, OnScalars
      <3> QED
        BY <3>2, <3>3
    <2>4. W \subseteq Scalars /\ \A x \in W : owner[x] \in ts
      OBVIOUS
    <2> HIDE DEF W
    <2>5. PICK x \in W : \A y \in W : <<x, y>> \notin Refers
      BY <2>3, <2>4, SomeRefersToNone
    <2>6. PICK y \in W : y \in Reach(x) /\ y # x
      BY <2>2, <2>4
    <2> QED
      BY <2>5, <2>6 DEF Reach
  <1> QED
    BY <1>1, InitInv, StepInv, PTL DEF Spec
=============================================================================
