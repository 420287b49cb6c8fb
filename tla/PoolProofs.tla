------------------------------ MODULE PoolProofs -----------------------------
(***************************************************************************)
(* Proofs, for every set of contexts, initial size, load and word size, of *)
(* the properties of Pool.                                                 *)
(***************************************************************************)
EXTENDS Pool, PoolObject, FiniteSetTheorems, WellFoundedInduction, TLAPS

-----------------------------------------------------------------------------
(* Iteration                                                               *)

(* Numbers have a least one among them.                                    *)
LEMMA LeastNumber ==
  ASSUME NEW T, T \subseteq Nat, T # {}
  PROVE  \E m \in T : \A i \in T : m <= i
  <1> DEFINE Less == OpToRel(<, Nat)
  <1>1. IsWellFoundedOn(Less, Nat)
    BY NatLessThanWellFounded
  <1>2. \A m, n \in Nat : m < n => <<m, n>> \in Less
    BY DEF OpToRel
  <1> HIDE DEF Less
  <1>3. PICK m \in T : \A i \in T : <<i, m>> \notin Less
    BY <1>1, WFMin
  <1>4. \A i \in T : ~ (i < m)
    BY <1>2, <1>3
  <1> QED
    BY <1>4

(* The states in S that F goes through, from s0 on, in n turns.            *)
Iterations(S, F, s0, n) ==
  {f \in [0 .. n -> S] : f[0] = s0 /\ \A i \in 1 .. n : f[i] = F[f[i - 1]]}

(* There are such, whatever F does.                                        *)
LEMMA Iterates ==
  ASSUME NEW S, NEW F, F \in [S -> S], NEW s0, s0 \in S, NEW n, n \in Nat
  PROVE  Iterations(S, F, s0, n) # {}
  <1> DEFINE Good(m) ==
               \E f \in [0 .. m -> S] : f[0] = s0 /\ \A i \in 1 .. m : f[i] = F[f[i - 1]]
             T == {m \in Nat : ~ Good(m)}
  <1>1. ASSUME NEW m \in T, \A i \in T : m <= i
        PROVE  FALSE
    <2>1. CASE m = 0
      <3> DEFINE f == [i \in 0 .. 0 |-> s0]
      <3>1. f \in [0 .. 0 -> S] /\ f[0] = s0 /\ \A i \in 1 .. 0 : f[i] = F[f[i - 1]]
        OBVIOUS
      <3> HIDE DEF f
      <3>2. Good(0)
        BY <3>1
      <3> QED
        BY <1>1, <2>1, <3>2
    <2>2. CASE m > 0
      <3>1. m - 1 \in Nat /\ m - 1 \notin T
        <4>1. m \in Nat
          OBVIOUS
        <4>2. m - 1 \in Nat /\ ~ (m <= m - 1)
          BY <2>2, <4>1
        <4> QED
          BY <1>1, <4>2, Zenon
      <3>2. PICK f \in [0 .. m - 1 -> S] :
              f[0] = s0 /\ \A i \in 1 .. m - 1 : f[i] = F[f[i - 1]]
        BY <3>1
      <3> DEFINE g == [i \in 0 .. m |-> IF i = m THEN F[f[m - 1]] ELSE f[i]]
      <3>3. g \in [0 .. m -> S] /\ g[0] = s0
        BY <1>1, <2>2, <3>1, <3>2
      <3>4. \A i \in 1 .. m : g[i] = F[g[i - 1]]
        BY <1>1, <2>2, <3>1, <3>2
      <3> HIDE DEF g
      <3>5. Good(m)
        BY <3>3, <3>4
      <3> QED
        BY <1>1, <3>5
    <2> QED
      BY <2>1, <2>2
  <1>2. T \subseteq Nat
    OBVIOUS
  <1> HIDE DEF T
  <1>3. T = {}
    BY <1>1, <1>2, LeastNumber
  <1>4. Good(n)
    BY <1>3 DEF T
  <1> QED
    BY <1>4 DEF Iterations

(* Remainders fit into a word.                                             *)
LEMMA Remainder ==
  ASSUME NEW w, NEW k \in Nat, w = k + 1, NEW i \in Int
  PROVE  i % w \in 0 .. k
  OBVIOUS

-----------------------------------------------------------------------------
(* FIND_FREE_SEQUENCE                                                      *)

(* The states of a search for many items: from the start up to iter there  *)
(* are only free items.                                                    *)
Searching(many) ==
  {s \in [iter : Nat, prev : 0 .. allocated, start : Nat, found : Nat,
          end : {"on", "none", "found", "wild"}] :
     /\ s.end \in {"on", "found"} =>
          /\ s.iter = s.start + s.found
          /\ \A i \in s.start .. s.iter - 1 : i \in Handles /\ next[i] # InUse
     /\ s.end = "found" =>
          s.found + 1 = many /\ s.iter \in Handles /\ next[s.iter] # InUse}

(* Its fields.                                                             *)
LEMMA SearchFields ==
  ASSUME NEW many, NEW s \in Searching(many)
  PROVE  /\ s = [iter |-> s.iter, prev |-> s.prev, start |-> s.start,
                 found |-> s.found, end |-> s.end]
         /\ s.iter \in Nat /\ s.prev \in 0 .. allocated
         /\ s.start \in Nat /\ s.found \in Nat
         /\ s.end \in {"on", "none", "found", "wild"}
         /\ s.end \in {"on", "found"} =>
              /\ s.iter = s.start + s.found
              /\ \A i \in s.start .. s.iter - 1 : i \in Handles /\ next[i] # InUse
         /\ s.end = "found" =>
              s.found + 1 = many /\ s.iter \in Handles /\ next[s.iter] # InUse
  BY DEF Searching

(* A turn of the loop keeps to them.                                       *)
LEMMA ScanKeepsOn ==
  ASSUME TypeOK, PoolAssumption, NEW many \in Nat \ {0}, NEW s \in Searching(many)
  PROVE  ScanStep(many, s) \in Searching(many)
  <1>1. PICK i \in Nat, p \in 0 .. allocated, b \in Nat, n \in Nat,
             e \in {"on", "none", "found", "wild"} :
          /\ s = [iter |-> i, prev |-> p, start |-> b, found |-> n, end |-> e]
          /\ e \in {"on", "found"} =>
               i = b + n /\ \A j \in b .. i - 1 : j \in Handles /\ next[j] # InUse
          /\ e = "found" => n + 1 = many /\ i \in Handles /\ next[i] # InUse
    BY SearchFields
  <1>2. allocated \in Nat /\ Handles = 1 .. allocated /\ \A h \in Handles : next[h] \in Nat
    BY PoolAssumption DEF TypeOK, Handles
  <1>3. CASE e # "on"
    <2>1. ScanStep(many, s) = s
      BY <1>1, <1>3 DEF ScanStep
    <2> QED
      BY <2>1
  <1>4. CASE e = "on" /\ i \notin Handles
    <2>1. ScanStep(many, s)
            = [iter |-> i, prev |-> p, start |-> b, found |-> n, end |-> "none"]
      BY <1>1, <1>4 DEF ScanStep
    <2> QED
      BY <2>1 DEF Searching
  <1>5. CASE e = "on" /\ i \in Handles /\ next[i] = InUse
    <2>1. CASE p = 0
      <3>1. ScanStep(many, s)
              = [iter |-> i, prev |-> p, start |-> b, found |-> n, end |-> "wild"]
        BY <1>1, <1>5, <2>1 DEF ScanStep
      <3> QED
        BY <3>1 DEF Searching
    <2>2. CASE p # 0
      <3>1. PICK k : k = next[p]
        OBVIOUS
      <3>2. ScanStep(many, s)
              = [iter |-> k, prev |-> 0, start |-> k, found |-> 0, end |-> "on"]
        BY <1>1, <1>5, <2>2, <3>1 DEF ScanStep
      <3>3. p \in Handles
        BY <1>2, <2>2
      <3>4. k \in Nat /\ 0 \in 0 .. allocated
        BY <1>2, <3>1, <3>3
      <3>5. k = k + 0 /\ k .. k - 1 = {}
        BY <3>4
      <3> QED
        BY <3>2, <3>4, <3>5 DEF Searching
    <2> QED
      BY <2>1, <2>2
  <1>6. CASE e = "on" /\ i \in Handles /\ next[i] # InUse /\ n + 1 = many
    <2>1. ScanStep(many, s)
            = [iter |-> i, prev |-> p, start |-> b, found |-> n, end |-> "found"]
      BY <1>1, <1>6 DEF ScanStep
    <2> QED
      BY <1>1, <1>6, <2>1 DEF Searching
  <1>7. CASE e = "on" /\ i \in Handles /\ next[i] # InUse /\ n + 1 # many
    <2>1. ScanStep(many, s)
            = [iter |-> i + 1, prev |-> i, start |-> b, found |-> n + 1, end |-> "on"]
      BY <1>1, <1>7 DEF ScanStep
    <2>2. i + 1 \in Nat /\ i \in 0 .. allocated /\ n + 1 \in Nat
      BY <1>2, <1>7
    <2>3. i + 1 = b + (n + 1)
      BY <1>1, <1>7
    <2>4. ASSUME NEW j \in b .. (i + 1) - 1
          PROVE  j \in Handles /\ next[j] # InUse
      <3>1. j \in b .. i - 1 \/ j = i
        BY <2>4
      <3> QED
        BY <1>1, <1>7, <3>1
    <2> QED
      BY <2>1, <2>2, <2>3, <2>4 DEF Searching
  <1> QED
    BY <1>3, <1>4, <1>5, <1>6, <1>7

(* What is found is a run of items of the array that are not in use.       *)
LEMMA FoundRun ==
  ASSUME TypeOK, PoolAssumption, NEW many \in Nat \ {0},
         FindFreeSequence(many).end = "found"
  PROVE  /\ FindFreeSequence(many).start \in Nat
         /\ \A i \in FindFreeSequence(many).start ..
                     FindFreeSequence(many).start + many - 1 :
              i \in Handles /\ next[i] # InUse
  <1> DEFINE S == Searching(many)
             n == ScanTurns
             s0 == [iter |-> head, prev |-> 0, start |-> head, found |-> 0, end |-> "on"]
             Step(s) == ScanStep(many, s)
             F == [s \in S |-> Step(s)]
             Equation(g) == g = [i \in 0 .. n |-> IF i = 0 THEN s0 ELSE Step(g[i - 1])]
             f == CHOOSE g : Equation(g)
             r == f[n]
  <1>1. ~ (freeCount <= many)
    BY DEF FindFreeSequence
  <1>2. FindFreeSequence(many) = r
    BY <1>1, Zenon DEF FindFreeSequence
  <1>3. n \in Nat
    <2>1. allocated + 1 \in Nat
      BY DEF TypeOK
    <2> QED
      BY <2>1 DEF ScanTurns
  <1>4. s0 \in S
    <2>1. PICK k \in Nat : k = head
      BY PoolAssumption DEF TypeOK
    <2>2. 0 \in 0 .. allocated /\ k .. k - 1 = {} /\ k = k + 0
      BY DEF TypeOK
    <2>3. [iter |-> k, prev |-> 0, start |-> k, found |-> 0, end |-> "on"]
            \in Searching(many)
      BY <2>2 DEF Searching
    <2> QED
      BY <2>1, <2>3, Zenon
  <1>5. \A s \in S : Step(s) \in S
    BY ScanKeepsOn
  <1> HIDE DEF S, n, s0, Step, r
  <1>6. F \in [S -> S]
    BY <1>5
  <1>7. PICK g \in [0 .. n -> S] : g[0] = s0 /\ \A i \in 1 .. n : g[i] = F[g[i - 1]]
    <2>1. Iterations(S, F, s0, n) # {}
      <3> HIDE DEF F
      <3> QED
        BY <1>3, <1>4, <1>6, Iterates
    <2> QED
      BY <2>1 DEF Iterations
  <1>8. Equation(g)
    <2>1. ASSUME NEW i \in 0 .. n
          PROVE  g[i] = IF i = 0 THEN s0 ELSE Step(g[i - 1])
      <3>1. CASE i = 0
        BY <1>7, <3>1
      <3>2. CASE i # 0
        <4>1. i \in 1 .. n /\ i - 1 \in 0 .. n
          BY <1>3, <3>2
        <4>2. g[i] = F[g[i - 1]] /\ g[i - 1] \in S
          BY <1>7, <4>1
        <4> QED
          BY <3>2, <4>2
      <3> QED
        BY <3>1, <3>2
    <2>2. g = [i \in 0 .. n |-> g[i]]
      BY <1>7
    <2> QED
      BY <2>1, <2>2
  <1>9. Equation(f)
    BY <1>8, Zenon
  <1> HIDE DEF f
  <1>10. ASSUME NEW i \in 0 .. n
         PROVE  f[i] = IF i = 0 THEN s0 ELSE Step(f[i - 1])
    BY <1>9, <1>10
  <1> DEFINE T == {i \in 0 .. n : f[i] \notin S}
  <1>11. T = {}
    <2>1. SUFFICES ASSUME T # {} PROVE FALSE
      OBVIOUS
    <2>2. PICK m \in T : \A i \in T : m <= i
      <3>1. T \subseteq Nat
        BY <1>3
      <3> QED
        BY <2>1, <3>1, LeastNumber
    <2>3. f[m] = IF m = 0 THEN s0 ELSE Step(f[m - 1])
      BY <1>10, <2>2
    <2>4. CASE m = 0
      BY <1>4, <2>2, <2>3, <2>4
    <2>5. CASE m # 0
      <3>1. m - 1 \in 0 .. n /\ m - 1 \notin T
        BY <1>3, <2>2, <2>5
      <3>2. f[m - 1] \in S
        BY <3>1
      <3> QED
        BY <1>5, <2>2, <2>3, <2>5, <3>2
    <2> QED
      BY <2>4, <2>5
  <1>12. r \in Searching(many)
    <2>1. n \in 0 .. n
      BY <1>3
    <2> QED
      BY <1>11, <2>1 DEF r, S
  <1>13. /\ r.start \in Nat /\ r.found \in Nat /\ r.iter = r.start + many - 1
         /\ \A i \in r.start .. r.iter - 1 : i \in Handles /\ next[i] # InUse
         /\ r.iter \in Handles /\ next[r.iter] # InUse
    <2>1. r.end = "found"
      BY <1>2
    <2> QED
      BY <1>12, <2>1, SearchFields, SMTT(30)
  <1>14. \A i \in r.start .. r.start + many - 1 : i \in r.start .. r.iter - 1 \/ i = r.iter
    BY <1>13, SMTT(30)
  <1> QED
    BY <1>2, <1>13, <1>14

-----------------------------------------------------------------------------
(* The inductive invariant                                                 *)

(* An object out of the reach of races is marked and counted as it is      *)
(* held, until one thread releases it and lists it; memcpy has it so.      *)
Safe(h) ==
  /\ holds[h] > 0 => next[h] = InUse /\ refs[h] = holds[h]
  /\ \A t \in Threads :
       leaving[t] = h => next[h] = InUse /\ refs[h] = 0 /\ holds[h] = 0
  /\ \A t, u \in Threads : t # u /\ leaving[t] = h => leaving[u] # h
  /\ copyNext[h] = next[h] /\ copyRefs[h] = refs[h]

(* A part of the items that nobody has, and nobody counts, which the free  *)
(* list never leaves; it begins there, or just behind an array of two      *)
(* items, and no two links lead to the same item.                          *)
Free(S) ==
  /\ S \subseteq Handles
  /\ \A h \in S : refs[h] = 0 /\ holds[h] = 0
  /\ \A h \in S : \A t \in Threads : h \notin claim[t] /\ leaving[t] # h
  /\ head \in S \cup {0, allocated + 1}
  /\ \A h \in S : next[h] \in S \cup {0} /\ (next[h] # 0 => next[h] # head)
  /\ \A h, i \in S : next[h] = next[i] /\ next[h] # 0 => h = i

(* Of single objects: what is claimed is nobody else's, and the free list  *)
(* is apart from all that is.                                              *)
Single ==
  /\ \A t, u \in Threads : t # u => claim[t] \cap claim[u] = {}
  /\ \A t \in Threads : \A h \in claim[t] : refs[h] = 0 /\ holds[h] = 0
  /\ \A t, u \in Threads : leaving[u] \notin claim[t]
  /\ \E S \in SUBSET Handles : Free(S)

(* The array never grows so far that InUse would be a handle, and memcpy   *)
(* has the array as it is unless it has begun.                             *)
Basic ==
  /\ TypeOK
  /\ load \in Loads
  /\ allocated + 1 < InUse
  /\ grower = NoThread => copyNext = next /\ copyRefs = refs
  /\ grower # NoThread =>
       (IF wanted = 0 THEN 2 * allocated ELSE GrownFor(wanted)) <= load.most

Sound == status = "ok" => \A h \in Unraced : Safe(h)

Once == load.runs = {} /\ raced = {} /\ status = "ok" => Single

Inv == Basic /\ Sound /\ Once

(* Numbers and handles, in words that fit.                                 *)
LEMMA Words ==
  ASSUME PoolAssumption, Basic
  PROVE  /\ InUse \in Nat /\ InUse = WordSize - 1 /\ WordSize \in Nat
         /\ allocated \in Nat /\ allocated > 0 /\ allocated + 1 < InUse
         /\ load.most \in Nat /\ load.most + 1 < InUse
         /\ load.runs \subseteq Nat \ {0}
         /\ Handles = 1 .. allocated
         /\ next \in [1 .. allocated -> 0 .. InUse]
         /\ copyNext \in [1 .. allocated -> 0 .. InUse]
         /\ refs \in [1 .. allocated -> Nat] /\ copyRefs \in [1 .. allocated -> Nat]
         /\ holds \in [1 .. allocated -> Nat]
         /\ claim \in [Threads -> SUBSET (1 .. allocated)]
         /\ leaving \in [Threads -> 0 .. allocated]
         /\ head \in 0 .. InUse /\ freeCount \in 0 .. InUse
         /\ raced \subseteq 1 .. allocated
         /\ grower \in Threads \cup {NoThread} /\ NoThread \notin Threads
         /\ wanted \in {0} \cup load.runs
  <1>1. TypeOK /\ load \in Loads /\ allocated + 1 < InUse
    BY Zenon DEF Basic
  <1>2. /\ InUse = WordSize - 1 /\ WordSize \in Nat /\ WordSize - 1 \in Nat
        /\ 0 .. WordSize - 1 = 0 .. InUse
    BY DEF PoolAssumption, InUse
  <1>3. /\ load.most \in Nat /\ load.most + 1 < InUse
        /\ load.runs \subseteq Nat \ {0}
    BY <1>1, <1>2 DEF PoolAssumption
  <1>4. /\ allocated \in Nat /\ allocated > 0
        /\ head \in 0 .. InUse /\ freeCount \in 0 .. InUse
    BY <1>1, <1>2 DEF TypeOK
  <1>5. NoThread \notin Threads
    BY DEF PoolAssumption
  <1>6. /\ Handles = 1 .. allocated
        /\ next \in [1 .. allocated -> 0 .. InUse]
        /\ copyNext \in [1 .. allocated -> 0 .. InUse]
        /\ refs \in [1 .. allocated -> Nat] /\ copyRefs \in [1 .. allocated -> Nat]
        /\ holds \in [1 .. allocated -> Nat]
        /\ claim \in [Threads -> SUBSET (1 .. allocated)]
        /\ leaving \in [Threads -> 0 .. allocated]
        /\ raced \subseteq 1 .. allocated
        /\ grower \in Threads \cup {NoThread} /\ wanted \in {0} \cup load.runs
    BY <1>1, <1>2, Zenon DEF TypeOK, Handles
  <1> QED
    BY <1>1, <1>2, <1>3, <1>4, <1>5, <1>6

(* Where nothing has been written meanwhile, no race has reached any item. *)
LEMMA NoRaces ==
  ASSUME Inv, raced = {}, status = "ok"
  PROVE  \A h \in Handles : Safe(h)
  BY DEF Inv, Sound, Unraced

(* Sound only depends on what is written of the objects.                   *)
LEMMA Untouched ==
  ASSUME Sound, status = "ok", allocated' = allocated, next' = next, refs' = refs,
         holds' = holds, leaving' = leaving, copyNext' = copyNext,
         copyRefs' = copyRefs, raced' = raced
  PROVE  Sound'
  <1>1. ASSUME NEW h \in Unraced' PROVE Safe(h)'
    <2>1. h \in Unraced
      BY DEF Unraced, Handles
    <2>2. Safe(h)
      BY <2>1 DEF Sound
    <2> QED
      BY <2>2 DEF Safe, InUse
  <1> QED
    BY <1>1 DEF Sound

(* The initial states.                                                     *)
LEMMA InitInv ==
  ASSUME PoolAssumption, Init
  PROVE  Inv
  <1>1. /\ InitialSize \in Nat /\ InitialSize > 0 /\ WordSize \in Nat
        /\ InitialSize + 2 < WordSize
        /\ load \in Loads /\ allocated = InitialSize /\ head = 1
        /\ freeCount = InitialSize
        /\ next = [h \in 1 .. InitialSize |-> IF h < InitialSize THEN h + 1 ELSE 0]
        /\ refs = [h \in 1 .. InitialSize |-> 0] /\ claim = [t \in Threads |-> {}]
        /\ holds = refs /\ leaving = [t \in Threads |-> 0]
        /\ grower = NoThread /\ wanted = 0 /\ copyNext = next /\ copyRefs = refs
        /\ raced = {} /\ status = "ok"
    BY DEF Init, PoolAssumption
  <1>2. TypeOK
    <2>1. next \in [1 .. InitialSize -> 0 .. WordSize - 1]
      BY <1>1
    <2>2. refs \in [1 .. InitialSize -> Nat]
      BY <1>1
    <2>3. /\ claim \in [Threads -> SUBSET (1 .. InitialSize)]
          /\ leaving \in [Threads -> 0 .. InitialSize]
      BY <1>1
    <2>4. head \in 0 .. WordSize - 1 /\ freeCount \in 0 .. WordSize - 1
      BY <1>1
    <2> QED
      BY <1>1, <2>1, <2>2, <2>3, <2>4 DEF TypeOK, Handles
  <1>3. Sound
    BY <1>1 DEF Sound, Safe, Unraced, Handles
  <1>4. Free(Handles)
    BY <1>1 DEF Free, Handles
  <1>5. Single
    BY <1>1, <1>4 DEF Single
  <1>6. allocated + 1 < InUse
    BY <1>1 DEF InUse
  <1> QED
    BY <1>1, <1>2, <1>3, <1>5, <1>6 DEF Inv, Basic, Once

(* A process that has come to grief leaves the pool alone.                 *)
LEMMA GriefPreserves ==
  ASSUME PoolAssumption, Inv, NEW how \in {"aborted", "wild", "hung"}, ComesToGrief(how)
  PROVE  Inv'
  <1>1. /\ allocated' = allocated /\ head' = head /\ freeCount' = freeCount
        /\ next' = next /\ refs' = refs /\ claim' = claim /\ load' = load
        /\ holds' = holds /\ leaving' = leaving /\ grower' = grower /\ wanted' = wanted
        /\ copyNext' = copyNext /\ copyRefs' = copyRefs /\ raced' = raced
        /\ status' = how
    BY DEF ComesToGrief, list, items, growth
  <1>2. TypeOK'
    BY <1>1 DEF Inv, Basic, TypeOK, Handles
  <1>3. Basic'
    BY <1>1, <1>2 DEF Inv, Basic, InUse, GrownFor
  <1>4. status' # "ok"
    BY <1>1
  <1> QED
    BY <1>3, <1>4 DEF Inv, Sound, Once

-----------------------------------------------------------------------------
(* POOL_ALLOCATE                                                           *)

(* A thread takes the head of the list.                                    *)
LEMMA PopsPreserves ==
  ASSUME PoolAssumption, Inv, NEW t \in Threads, AllocatePops(t)
  PROVE  Inv'
  <1>1. /\ status = "ok" /\ status' = status /\ claim[t] = {} /\ head \in Handles
        /\ head' = next[head] /\ freeCount > 0 /\ freeCount' = freeCount - 1
        /\ claim' = [claim EXCEPT ![t] = {head}]
        /\ allocated' = allocated /\ next' = next /\ refs' = refs /\ load' = load
        /\ holds' = holds /\ leaving' = leaving /\ grower' = grower /\ wanted' = wanted
        /\ copyNext' = copyNext /\ copyRefs' = copyRefs /\ raced' = raced
    BY DEF AllocatePops, Ready, Idle, items, growth
  <1>2. Basic'
    <2>1. head' \in 0 .. WordSize - 1 /\ freeCount' \in 0 .. WordSize - 1
      BY <1>1, Words, SMTT(30) DEF Inv
    <2>2. claim' \in [Threads -> SUBSET Handles]
      BY <1>1 DEF Inv, Basic, TypeOK
    <2>3. TypeOK'
      BY <1>1, <2>1, <2>2 DEF Inv, Basic, TypeOK, Handles
    <2> QED
      BY <1>1, <2>3 DEF Inv, Basic, InUse, GrownFor
  <1>3. Sound'
    BY <1>1, Untouched DEF Inv
  <1>4. ASSUME load.runs = {}, raced = {} PROVE Single'
    <2>1. Single
      BY <1>1, <1>4 DEF Inv, Once
    <2>2. PICK S \in SUBSET Handles : Free(S)
      BY <2>1 DEF Single
    <2>3. 0 \notin Handles /\ allocated + 1 \notin Handles
      BY Words DEF Inv
    <2>4. head \in S
      BY <1>1, <2>2, <2>3 DEF Free
    <2>5. \A u \in Threads : claim'[u] = IF u = t THEN {head} ELSE claim[u]
      BY <1>1, Words DEF Inv
    <2>13. PICK T : T = S \ {head}
      OBVIOUS
    <2>6. Free(T)'
      <3>1. head' \in T \cup {0}
        BY <1>1, <2>2, <2>4, <2>13 DEF Free
      <3>2. \A h \in T : next'[h] \in T \cup {0} /\ (next'[h] # 0 => next'[h] # head')
        BY <1>1, <2>2, <2>4, <2>13 DEF Free
      <3>3. \A h \in T : \A u \in Threads : h \notin claim'[u] /\ leaving'[u] # h
        BY <1>1, <2>2, <2>5, <2>13 DEF Free
      <3> QED
        BY <1>1, <2>2, <2>13, <3>1, <3>2, <3>3 DEF Free, Handles
    <2>7. \A u \in Threads : head \notin claim[u] /\ leaving[u] # head
      BY <2>2, <2>4 DEF Free
    <2>8. refs[head] = 0 /\ holds[head] = 0
      BY <2>2, <2>4 DEF Free
    <2>9. \A u, v \in Threads : u # v => claim'[u] \cap claim'[v] = {}
      BY <2>1, <2>5, <2>7 DEF Single
    <2>10. \A u \in Threads : \A h \in claim'[u] : refs'[h] = 0 /\ holds'[h] = 0
      BY <1>1, <2>1, <2>5, <2>8 DEF Single
    <2>11. \A u, v \in Threads : leaving'[v] \notin claim'[u]
      BY <1>1, <2>1, <2>5, <2>7 DEF Single
    <2>12. T \in SUBSET Handles'
      BY <1>1, <2>13 DEF Handles
    <2> QED
      BY <2>6, <2>9, <2>10, <2>11, <2>12 DEF Single
  <1> QED
    BY <1>1, <1>2, <1>3, <1>4 DEF Inv, Once

(* memcpy begins.                                                          *)
LEMMA CopiesPreserves ==
  ASSUME PoolAssumption, Inv, NEW t \in Threads, NEW many \in {0} \cup load.runs,
         status = "ok", grower = NoThread, Copies(t, many),
         (IF many = 0 THEN 2 * allocated ELSE GrownFor(many)) <= load.most
  PROVE  Inv'
  <1>1. /\ allocated' = allocated /\ head' = head /\ freeCount' = freeCount
        /\ next' = next /\ refs' = refs /\ claim' = claim /\ load' = load
        /\ holds' = holds /\ leaving' = leaving /\ grower' = t /\ wanted' = many
        /\ copyNext' = copyNext /\ copyRefs' = copyRefs /\ raced' = raced
        /\ status' = status
    BY DEF Copies, list, items
  <1>2. TypeOK'
    BY <1>1 DEF Inv, Basic, TypeOK, Handles
  <1>3. Basic'
    <2>1. GrownFor(many)' = GrownFor(many) /\ t # NoThread
      BY <1>1, Words DEF GrownFor, Inv
    <2>2. (IF many = 0 THEN 2 * allocated ELSE GrownFor(many))' <= load'.most
      BY <1>1, <2>1
    <2> QED
      BY <1>1, <1>2, <2>1, <2>2 DEF Inv, Basic, InUse
  <1>4. Sound'
    BY <1>1, Untouched DEF Inv
  <1>5. ASSUME Single PROVE Single'
    <2>1. PICK S \in SUBSET Handles : Free(S)
      BY <1>5 DEF Single
    <2>2. Free(S)' /\ Handles' = Handles
      BY <1>1, <2>1 DEF Free, Handles
    <2> QED
      BY <1>1, <1>5, <2>2 DEF Single
  <1> QED
    BY <1>1, <1>3, <1>4, <1>5 DEF Inv, Once

(* What a publication leaves of the objects there were: of those that have *)
(* not been written to meanwhile, the marks, the counts and the holders.   *)
Carried ==
  /\ allocated' \in Nat /\ allocated' >= allocated
  /\ copyNext' = next' /\ copyRefs' = refs'
  /\ \A h \in Handles : copyNext[h] = InUse => next'[h] = InUse
  /\ \A h \in Handles : refs'[h] = copyRefs[h] /\ holds'[h] = holds[h]
  /\ \A h \in Handles' \ Handles : holds'[h] = 0
  /\ leaving' = leaving /\ raced' = raced

LEMMA CarriedSound ==
  ASSUME PoolAssumption, Inv, status = "ok", Carried
  PROVE  Sound'
  <1>1. ASSUME NEW h \in Unraced' PROVE Safe(h)'
    <2>1. /\ copyNext'[h] = next'[h] /\ copyRefs'[h] = refs'[h] /\ leaving' = leaving
          /\ InUse' = InUse
      BY DEF Carried, InUse
    <2>2. CASE h \in Handles
      <3>1. h \in Unraced
        BY <2>2 DEF Unraced, Carried
      <3>2. Safe(h)
        BY <3>1 DEF Inv, Sound
      <3>3. /\ next[h] = InUse => next'[h] = InUse
            /\ refs'[h] = refs[h] /\ holds'[h] = holds[h]
        BY <2>2, <3>2 DEF Safe, Carried
      <3> QED
        BY <2>1, <3>2, <3>3 DEF Safe
    <2>3. CASE h \notin Handles
      <3>1. holds'[h] = 0
        BY <2>3 DEF Carried, Unraced
      <3>2. h \notin 0 .. allocated
        BY <2>3, Words DEF Unraced, Handles, Carried, Inv
      <3>3. \A u \in Threads : leaving[u] # h
        BY <3>2, Words DEF Inv
      <3> QED
        BY <2>1, <3>1, <3>3 DEF Safe
    <2> QED
      BY <2>2, <2>3
  <1> QED
    BY <1>1 DEF Sound

(* The array is doubled; the old rest of the list is left where it is.     *)
LEMMA GrowsPreserves ==
  ASSUME PoolAssumption, Inv, NEW t \in Threads, AllocateGrows(t)
  PROVE  Inv'
  <1> DEFINE a == allocated
  <1>1. /\ status = "ok" /\ status' = status /\ load' = load
        /\ grower = t /\ wanted = 0 /\ allocated' = 2 * a
        /\ next' = Chained(copyNext, 2 * a, a + 2) /\ refs' = Zeroed(copyRefs, 2 * a)
        /\ copyNext' = next' /\ copyRefs' = refs' /\ holds' = Zeroed(holds, 2 * a)
        /\ head' = a + 2 /\ freeCount' = a - 1
        /\ claim' = [claim EXCEPT ![t] = {a + 1}]
        /\ grower' = NoThread /\ wanted' = 0 /\ leaving' = leaving /\ raced' = raced
    BY DEF AllocateGrows, Publishes
  <1>2. a \in Nat /\ a > 0 /\ 2 * a + 1 < InUse /\ InUse \in Nat
    <2>1. grower # NoThread /\ 2 * a <= load.most
      BY <1>1, Words DEF Inv, Basic
    <2> QED
      BY <2>1, Words, SMTT(30) DEF Inv
  <1>3. Handles' = 1 .. 2 * a /\ Handles = 1 .. a
    BY <1>1 DEF Handles
  <1>4. /\ next' \in [1 .. 2 * a -> 0 .. InUse]
        /\ \A h \in 1 .. a : next'[h] = copyNext[h]
        /\ \A h \in a + 2 .. 2 * a : next'[h] = IF h = 2 * a THEN 0 ELSE h + 1
    <2>1. DOMAIN copyNext = 1 .. a
      BY Words DEF Inv
    <2>2. next' = [h \in 1 .. 2 * a |->
                     IF h = 2 * a THEN 0
                     ELSE IF h >= a + 2 THEN h + 1
                     ELSE IF h \in 1 .. a THEN copyNext[h] ELSE 0]
      BY <1>1, <2>1, Zenon DEF Chained
    <2>3. \A h \in 1 .. a : copyNext[h] \in 0 .. InUse
      BY Words DEF Inv
    <2> HIDE DEF a
    <2>4. \A h \in 1 .. 2 * a : h + 1 \in 0 .. InUse \/ h = 2 * a
      BY <1>2
    <2>5. next' \in [1 .. 2 * a -> 0 .. InUse]
      BY <1>2, <2>2, <2>3, <2>4
    <2>6. \A h \in 1 .. a : next'[h] = copyNext[h]
      <3> TAKE h \in 1 .. a
      <3>1. h \in 1 .. 2 * a /\ h # 2 * a /\ ~ (h >= a + 2)
        BY <1>2
      <3> QED
        BY <2>2, <3>1
    <2>7. \A h \in a + 2 .. 2 * a : next'[h] = IF h = 2 * a THEN 0 ELSE h + 1
      <3> TAKE h \in a + 2 .. 2 * a
      <3>1. h \in 1 .. 2 * a /\ h >= a + 2
        BY <1>2
      <3> QED
        BY <2>2, <3>1
    <2> QED
      BY <2>5, <2>6, <2>7
  <1>5. /\ refs' \in [1 .. 2 * a -> Nat] /\ holds' \in [1 .. 2 * a -> Nat]
        /\ \A h \in 1 .. a : refs'[h] = copyRefs[h] /\ holds'[h] = holds[h]
        /\ \A h \in a + 1 .. 2 * a : refs'[h] = 0 /\ holds'[h] = 0
    <2>1. /\ copyRefs \in [1 .. a -> Nat] /\ holds \in [1 .. a -> Nat]
      BY Words DEF Inv
    <2> HIDE DEF a
    <2>2. /\ refs' = [h \in 1 .. 2 * a |-> IF h \in 1 .. a THEN copyRefs[h] ELSE 0]
          /\ holds' = [h \in 1 .. 2 * a |-> IF h \in 1 .. a THEN holds[h] ELSE 0]
      BY <1>1, <2>1 DEF Zeroed
    <2>3. \A h \in 1 .. a : h \in 1 .. 2 * a
      BY <1>2
    <2>4. \A h \in a + 1 .. 2 * a : h \in 1 .. 2 * a /\ h \notin 1 .. a
      BY <1>2
    <2> QED
      BY <2>1, <2>2, <2>3, <2>4
  <1>6. claim \in [Threads -> SUBSET (1 .. a)] /\ leaving \in [Threads -> 0 .. a]
    BY Words DEF Inv
  <1>7. \A u \in Threads : claim'[u] = IF u = t THEN {a + 1} ELSE claim[u]
    BY <1>1, <1>6
  <1>8. Basic'
    <2>1. /\ claim' \in [Threads -> SUBSET (1 .. 2 * a)]
          /\ leaving' \in [Threads -> 0 .. 2 * a]
      <3>1. 1 .. a \subseteq 1 .. 2 * a /\ a + 1 \in 1 .. 2 * a /\ 0 .. a \subseteq 0 .. 2 * a
        BY <1>2
      <3> HIDE DEF a
      <3> QED
        BY <1>1, <1>6, <3>1
    <2>2. InUse = WordSize - 1
      BY DEF InUse
    <2>3. next' \in [1 .. 2 * a -> 0 .. WordSize - 1]
      BY <1>4, <2>2
    <2>4. (head \in 0 .. WordSize - 1)' /\ (freeCount \in 0 .. WordSize - 1)'
      BY <1>1, <1>2, <2>2
    <2>5. (status \in {"ok", "aborted", "wild", "hung"})' /\ (wanted \in {0} \cup load.runs)'
      BY <1>1
    <2>6. raced' \subseteq 1 .. 2 * a
      BY <1>1, <1>2, Words DEF Inv
    <2>7. 2 * a \in Nat \ {0}
      BY <1>2
    <2> HIDE DEF a
    <2>8. TypeOK'
      BY <1>1, <1>3, <1>5, <2>1, <2>3, <2>4, <2>5, <2>6, <2>7 DEF TypeOK
    <2>9. (allocated + 1 < InUse)' /\ load' \in Loads
      BY <1>1, <1>2 DEF InUse, Inv, Basic
    <2> QED
      BY <1>1, <2>8, <2>9 DEF Basic
  <1>9. Sound'
    <2>1. \A h \in Handles : copyNext[h] = InUse => next'[h] = InUse
      BY <1>3, <1>4
    <2>2. \A h \in Handles : refs'[h] = copyRefs[h] /\ holds'[h] = holds[h]
      BY <1>3, <1>5
    <2>3. \A h \in Handles' \ Handles : holds'[h] = 0
      BY <1>2, <1>3, <1>5
    <2>4. Carried
      BY <1>1, <1>2, <2>1, <2>2, <2>3 DEF Carried
    <2> QED
      BY <1>1, <2>4, CarriedSound
  <1>10. ASSUME load.runs = {}, raced = {} PROVE Single'
    <2>1. Single
      BY <1>1, <1>10 DEF Inv, Once
    <2>2. \A h \in 1 .. a : copyRefs[h] = refs[h]
      BY <1>1, <1>3, <1>10, NoRaces DEF Safe
    <2>11. PICK S : S = a + 2 .. 2 * a
      OBVIOUS
    <2>3. S \subseteq Handles' /\ S \cap (0 .. a + 1) = {} /\ S \subseteq a + 1 .. 2 * a
      BY <1>2, <1>3, <2>11
    <2>4. \A u \in Threads : claim'[u] \subseteq 0 .. a + 1 /\ leaving'[u] \in 0 .. a + 1
      <3>1. 1 .. a \subseteq 0 .. a + 1 /\ 0 .. a \subseteq 0 .. a + 1 /\ a + 1 \in 0 .. a + 1
        BY <1>2
      <3> HIDE DEF a
      <3> QED
        BY <1>1, <1>6, <1>7, <3>1
    <2>5. Free(S)'
      <3>1. \A h \in S : refs'[h] = 0 /\ holds'[h] = 0
        BY <1>5, <2>3
      <3>2. \A h \in S : \A u \in Threads : h \notin claim'[u] /\ leaving'[u] # h
        BY <2>3, <2>4, Zenon
      <3>3. head' \in S \cup {0, allocated' + 1}
        BY <1>1, <1>2, <2>11
      <3>4. ASSUME NEW h \in S
            PROVE  /\ next'[h] \in S \cup {0} /\ (next'[h] # 0 => next'[h] # head')
                   /\ next'[h] # 0 => next'[h] = h + 1
        <4>1. next'[h] = IF h = 2 * a THEN 0 ELSE h + 1
          BY <1>4, <2>11
        <4> HIDE DEF a
        <4> QED
          BY <1>1, <1>2, <2>11, <4>1
      <3>5. \A h, i \in S : next'[h] = next'[i] /\ next'[h] # 0 => h = i
        <4>1. \A h, i \in S : h + 1 = i + 1 => h = i
          BY <1>2, <2>11
        <4> QED
          BY <3>4, <4>1
      <3> QED
        BY <2>3, <3>1, <3>2, <3>3, <3>4, <3>5 DEF Free
    <2>6. a + 1 \notin 0 .. a /\ a + 1 \in a + 1 .. 2 * a
      BY <1>2
    <2>7. \A u \in Threads : claim[u] \subseteq 1 .. a /\ claim[u] \subseteq 0 .. a
                             /\ leaving[u] \in 0 .. a
      <3>1. 1 .. a \subseteq 0 .. a
        BY <1>2
      <3> HIDE DEF a
      <3> QED
        BY <1>6, <3>1
    <2> HIDE DEF a
    <2>8. \A u, v \in Threads : u # v => claim'[u] \cap claim'[v] = {}
      <3>1. \A u \in Threads : a + 1 \notin claim[u]
        BY <2>6, <2>7
      <3> QED
        BY <1>7, <2>1, <3>1 DEF Single
    <2>9. \A u \in Threads : \A h \in claim'[u] : refs'[h] = 0 /\ holds'[h] = 0
      <3> TAKE u \in Threads
      <3> TAKE h \in claim'[u]
      <3>1. CASE u = t
        BY <1>5, <1>7, <2>6, <3>1
      <3>2. CASE u # t
        <4>1. h \in claim[u] /\ h \in 1 .. a
          BY <1>7, <2>7, <3>2
        <4> QED
          BY <1>5, <2>1, <2>2, <4>1 DEF Single
      <3> QED
        BY <3>1, <3>2
    <2>10. \A u, v \in Threads : leaving'[v] \notin claim'[u]
      <3>1. \A v \in Threads : leaving'[v] = leaving[v] /\ leaving[v] # a + 1
        BY <1>1, <2>6, <2>7
      <3> QED
        BY <1>7, <2>1, <3>1 DEF Single
    <2> QED
      BY <2>3, <2>5, <2>8, <2>9, <2>10 DEF Single
  <1> QED
    BY <1>1, <1>8, <1>9, <1>10 DEF Inv, Once

(* A count of an item is written, which reaches the copy or does not.      *)
LEMMA CountWritten ==
  ASSUME PoolAssumption, Basic, NEW h \in Handles, NEW c \in Nat, WriteCount(h, c)
  PROVE  /\ refs' \in [1 .. allocated -> Nat] /\ copyRefs' \in [1 .. allocated -> Nat]
         /\ refs'[h] = c
         /\ \A i \in Handles : i # h => refs'[i] = refs[i] /\ copyRefs'[i] = copyRefs[i]
         /\ grower = NoThread => copyRefs'[h] = c
         /\ grower = NoThread => copyRefs' = refs'
  <1>1. /\ Handles = 1 .. allocated /\ refs \in [1 .. allocated -> Nat]
        /\ copyRefs \in [1 .. allocated -> Nat]
        /\ grower = NoThread => copyRefs = refs
    BY Words DEF Basic
  <1>2. /\ refs' = [refs EXCEPT ![h] = c]
        /\ \/ copyRefs' = [copyRefs EXCEPT ![h] = c]
           \/ grower # NoThread /\ copyRefs' = copyRefs
    BY DEF WriteCount
  <1> QED
    BY <1>1, <1>2

(* A mark likewise.                                                        *)
LEMMA MarkWritten ==
  ASSUME PoolAssumption, Basic, NEW h \in Handles, WriteMark(h)
  PROVE  /\ next' \in [1 .. allocated -> 0 .. InUse]
         /\ copyNext' \in [1 .. allocated -> 0 .. InUse]
         /\ next'[h] = InUse
         /\ \A i \in Handles : i # h => next'[i] = next[i] /\ copyNext'[i] = copyNext[i]
         /\ grower = NoThread => copyNext'[h] = InUse
         /\ grower = NoThread => copyNext' = next'
  <1>1. /\ Handles = 1 .. allocated /\ next \in [1 .. allocated -> 0 .. InUse]
        /\ copyNext \in [1 .. allocated -> 0 .. InUse]
        /\ grower = NoThread => copyNext = next
        /\ InUse \in 0 .. InUse
    BY Words DEF Basic
  <1>2. /\ next' = [next EXCEPT ![h] = InUse]
        /\ \/ copyNext' = [copyNext EXCEPT ![h] = InUse]
           \/ grower # NoThread /\ copyNext' = copyNext
    BY DEF WriteMark
  <1> QED
    BY <1>1, <1>2

(* A thread has written to no item but h.                                  *)
OnlyAt(h) ==
  /\ allocated' = allocated /\ status' = status
  /\ \A i \in Handles : i # h =>
       /\ next'[i] = next[i] /\ copyNext'[i] = copyNext[i]
       /\ refs'[i] = refs[i] /\ copyRefs'[i] = copyRefs[i] /\ holds'[i] = holds[i]
       /\ \A u \in Threads : leaving'[u] = i => leaving[u] = i
  /\ raced \subseteq raced'

(* The other objects are as safe as before.                                *)
LEMMA OthersSafe ==
  ASSUME Inv, status = "ok", NEW h \in Handles, OnlyAt(h),
         h \in Unraced' => Safe(h)'
  PROVE  Sound'
  <1>1. ASSUME NEW i \in Unraced' PROVE Safe(i)'
    <2>1. i \in Unraced /\ i \in Handles
      BY DEF Unraced, Handles, OnlyAt
    <2>2. Safe(i)
      BY <2>1 DEF Inv, Sound
    <2>3. CASE i = h
      BY <1>1, <2>3
    <2>4. CASE i # h
      <3>1. /\ next'[i] = next[i] /\ copyNext'[i] = copyNext[i]
            /\ refs'[i] = refs[i] /\ copyRefs'[i] = copyRefs[i] /\ holds'[i] = holds[i]
            /\ \A u \in Threads : leaving'[u] = i => leaving[u] = i
            /\ InUse' = InUse
        BY <2>1, <2>4 DEF OnlyAt, InUse
      <3> QED
        BY <2>2, <3>1 DEF Safe
    <2> QED
      BY <2>3, <2>4
  <1> QED
    BY <1>1 DEF Sound

(* What a thread has taken is marked, item by item.                        *)
LEMMA InitialisePreserves ==
  ASSUME PoolAssumption, Inv, NEW t \in Threads, NEW h \in claim[t], Initialise(t, h)
  PROVE  Inv'
  <1>1. CASE refs[h] # 0
    BY <1>1, GriefPreserves DEF Initialise
  <1>2. CASE refs[h] = 0
    <2>1. /\ WriteCount(h, 1) /\ WriteMark(h)
          /\ holds' = [holds EXCEPT ![h] = holds[h] + 1]
          /\ claim' = [claim EXCEPT ![t] = claim[t] \ {h}]
          /\ IF \E u \in Threads : leaving[u] = h
               THEN raced' = raced \cup {h}
               ELSE raced' = IF grower # NoThread THEN raced \cup {h} ELSE raced
          /\ allocated' = allocated /\ head' = head /\ freeCount' = freeCount
          /\ leaving' = leaving /\ grower' = grower /\ wanted' = wanted
          /\ status = "ok" /\ status' = status /\ load' = load
      BY <1>2 DEF Initialise, Races, list, growth
    <2>2. /\ Basic /\ h \in Handles /\ Handles = 1 .. allocated /\ 1 \in Nat
          /\ claim \in [Threads -> SUBSET Handles] /\ holds \in [Handles -> Nat]
      BY Words DEF Inv
    <2>3. /\ refs' \in [1 .. allocated -> Nat] /\ copyRefs' \in [1 .. allocated -> Nat]
          /\ refs'[h] = 1
          /\ \A i \in Handles : i # h => refs'[i] = refs[i] /\ copyRefs'[i] = copyRefs[i]
          /\ grower = NoThread => copyRefs'[h] = 1
          /\ grower = NoThread => copyRefs' = refs'
      BY <2>1, <2>2, CountWritten
    <2>4. /\ next' \in [1 .. allocated -> 0 .. InUse]
          /\ copyNext' \in [1 .. allocated -> 0 .. InUse]
          /\ next'[h] = InUse
          /\ \A i \in Handles : i # h => next'[i] = next[i] /\ copyNext'[i] = copyNext[i]
          /\ grower = NoThread => copyNext'[h] = InUse
          /\ grower = NoThread => copyNext' = next'
      BY <2>1, <2>2, MarkWritten
    <2>5. /\ holds' \in [1 .. allocated -> Nat] /\ holds'[h] = holds[h] + 1
          /\ \A i \in Handles : i # h => holds'[i] = holds[i]
      BY <2>1, <2>2
    <2>6. \A u \in Threads : claim'[u] = IF u = t THEN claim[t] \ {h} ELSE claim[u]
      BY <2>1, <2>2
    <2>7. raced \subseteq raced' /\ raced' \subseteq raced \cup {h}
      BY <2>1
    <2>8. Basic'
      <3>1. claim' \in [Threads -> SUBSET (1 .. allocated)] /\ raced' \subseteq 1 .. allocated
        BY <2>1, <2>2, <2>7, Words
      <3>2. InUse = WordSize - 1
        BY DEF InUse
      <3>3. TypeOK'
        BY <2>1, <2>2, <2>3, <2>4, <2>5, <3>1, <3>2 DEF Basic, TypeOK, Handles
      <3> QED
        BY <2>1, <2>2, <2>3, <2>4, <3>3 DEF Basic, InUse, GrownFor
    <2>9. Sound'
      <3>1. OnlyAt(h)
        BY <2>1, <2>3, <2>4, <2>5, <2>7 DEF OnlyAt
      <3>2. ASSUME h \in Unraced' PROVE Safe(h)'
        <4>1. h \notin raced'
          BY <2>2, <3>2, Words DEF Unraced
        <4>2. grower = NoThread /\ \A u \in Threads : leaving[u] # h
          BY <2>1, <4>1
        <4>3. h \in Unraced
          BY <2>1, <2>2, <2>7, <3>2 DEF Unraced, Handles
        <4>4. Safe(h)
          BY <2>1, <4>3 DEF Inv, Sound
        <4>5. holds[h] \in Nat /\ ~ (holds[h] > 0)
          BY <1>2, <2>2, <4>4 DEF Safe
        <4>6. holds'[h] = 1 /\ InUse' = InUse
          BY <2>5, <4>5 DEF InUse
        <4> QED
          BY <2>1, <2>3, <2>4, <4>2, <4>6 DEF Safe
      <3> QED
        BY <2>1, <2>2, <3>1, <3>2, OthersSafe
    <2>10. ASSUME load.runs = {}, raced' = {} PROVE Single'
      <3>1. Single
        BY <2>1, <2>7, <2>10 DEF Inv, Once
      <3>2. PICK S \in SUBSET Handles : Free(S)
        BY <3>1 DEF Single
      <3>3. h \notin S
        BY <3>2 DEF Free
      <3>4. \A i \in S : next'[i] = next[i] /\ refs'[i] = refs[i] /\ holds'[i] = holds[i]
        BY <2>3, <2>4, <2>5, <3>2, <3>3
      <3>5. \A i \in S : \A u \in Threads : i \notin claim'[u] /\ leaving'[u] # i
        BY <2>1, <2>6, <3>2 DEF Free
      <3>6. Free(S)'
        BY <2>1, <3>2, <3>4, <3>5 DEF Free, Handles
      <3>7. \A u, v \in Threads : u # v => claim'[u] \cap claim'[v] = {}
        BY <2>6, <3>1 DEF Single
      <3>8. \A u \in Threads : \A i \in claim'[u] : refs'[i] = 0 /\ holds'[i] = 0
        <4> TAKE u \in Threads
        <4> TAKE i \in claim'[u]
        <4>1. i \in claim[u] /\ i # h /\ i \in Handles
          BY <2>2, <2>6, <3>1 DEF Single
        <4> QED
          BY <2>3, <2>5, <3>1, <4>1 DEF Single
      <3>9. \A u, v \in Threads : leaving'[v] \notin claim'[u]
        BY <2>1, <2>6, <3>1 DEF Single
      <3>10. S \in SUBSET Handles'
        BY <2>1 DEF Handles
      <3> QED
        BY <3>6, <3>7, <3>8, <3>9, <3>10 DEF Single
    <2> QED
      BY <2>1, <2>8, <2>9, <2>10 DEF Inv, Once
  <1> QED
    BY <1>1, <1>2

-----------------------------------------------------------------------------
(* POOL_ALLOCATE_MANY                                                      *)

(* A set of numbers up to n has a largest, which Max chooses.              *)
LEMMA MaxOf ==
  ASSUME NEW n \in Nat, NEW S, S \subseteq 0 .. n, S # {}
  PROVE  Max(S) \in S /\ \A x \in S : Max(S) >= x
  <1> DEFINE T == {n - x : x \in S}
  <1>1. T \subseteq Nat /\ T # {}
    <2>1. \A x \in S : n - x \in Nat
      OBVIOUS
    <2>2. PICK x \in S : TRUE
      OBVIOUS
    <2>3. n - x \in T
      OBVIOUS
    <2> QED
      BY <2>1, <2>3
  <1>2. PICK m \in T : \A i \in T : m <= i
    <2> HIDE DEF T
    <2> QED
      BY <1>1, LeastNumber
  <1>3. PICK x \in S : m = n - x
    BY <1>2
  <1>4. \A y \in S : x >= y
    <2> TAKE y \in S
    <2>1. n - x <= n - y
      BY <1>2, <1>3
    <2>2. x \in 0 .. n /\ y \in 0 .. n
      OBVIOUS
    <2> QED
      BY <2>1, <2>2
  <1>5. \E z \in S : \A y \in S : z >= y
    BY <1>4
  <1> QED
    BY <1>5, Zenon DEF Max

(* A run that was found is cut out of the list; what holds is that its     *)
(* neighbour, which is linked past it, is not in use.                      *)
LEMMA FoundPreserves ==
  ASSUME PoolAssumption, Inv, NEW t \in Threads, NEW many \in load.runs,
         ManyFound(t, many)
  PROVE  Inv'
  <1> DEFINE start == FindFreeSequence(many).start
             taken == start .. start + many - 1
             last == next[start + many - 1]
             before == {0} \cup {h \in 1 .. start - 1 : next[h] # InUse}
             prev == Max(before)
  <1>1. /\ FindFreeSequence(many).end = "found" /\ status = "ok" /\ status' = status
        /\ claim' = [claim EXCEPT ![t] = taken]
        /\ IF prev = 0
             THEN head' = last /\ next' = next
             ELSE next' = [next EXCEPT ![prev] = last] /\ head' = head
        /\ copyNext' = next' /\ copyRefs' = copyRefs /\ grower = NoThread
        /\ allocated' = allocated /\ freeCount' = freeCount /\ refs' = refs
        /\ holds' = holds /\ leaving' = leaving /\ grower' = grower
        /\ wanted' = wanted /\ raced' = raced /\ load' = load
    BY DEF ManyFound, Ready, Idle, growth
  <1>2. many \in Nat \ {0}
    BY Words DEF Inv
  <1>3. start \in Nat /\ \A i \in taken : i \in Handles /\ next[i] # InUse
    BY <1>1, <1>2, FoundRun DEF Inv, Basic
  <1>4. taken \subseteq Handles /\ start + many - 1 \in Handles
    BY <1>2, <1>3
  <1> HIDE DEF start
  <1>5. Handles = 1 .. allocated /\ allocated \in Nat
    BY Words DEF Inv
  <1>6. start - 1 \in Nat /\ start - 1 < allocated
    <2>1. start \in taken
      BY <1>2, <1>3
    <2> QED
      BY <1>3, <1>4, <1>5, <2>1
  <1>7. prev \in before
    <2>1. before \subseteq 0 .. start - 1 /\ before # {}
      BY <1>6
    <2> HIDE DEF before
    <2> QED
      BY <1>6, <2>1, MaxOf
  <1> HIDE DEF prev
  <1>8. prev = 0 \/ (prev \in Handles /\ next[prev] # InUse)
    BY <1>5, <1>6, <1>7
  <1>9. last \in 0 .. InUse /\ next \in [Handles -> 0 .. InUse]
    BY <1>4, <1>5, Words DEF Inv
  <1> HIDE DEF last, taken
  <1>10. /\ head' \in 0 .. InUse /\ next' \in [Handles -> 0 .. InUse]
         /\ \A i \in Handles : next[i] = InUse => next'[i] = InUse
    BY <1>1, <1>8, <1>9, Words DEF Inv
  <1>11. Basic'
    <2>1. claim' \in [Threads -> SUBSET Handles]
      BY <1>1, <1>4, <1>5, Words DEF Inv
    <2>2. Handles' = Handles /\ InUse = WordSize - 1
      BY <1>1 DEF Handles, InUse
    <2>3. TypeOK'
      BY <1>1, <1>10, <2>1, <2>2 DEF Inv, Basic, TypeOK
    <2> QED
      BY <1>1, <2>3 DEF Inv, Basic, InUse, GrownFor
  <1>12. Sound'
    <2>1. copyNext = next /\ copyRefs = refs
      BY <1>1 DEF Inv, Basic
    <2>2. Handles' = Handles /\ allocated' >= allocated /\ allocated' \in Nat
      BY <1>1, <1>5 DEF Handles
    <2>3. Carried
      BY <1>1, <1>10, <2>1, <2>2 DEF Carried
    <2> QED
      BY <1>1, <2>3, CarriedSound
  <1>13. load.runs # {}
    OBVIOUS
  <1> QED
    BY <1>1, <1>11, <1>12, <1>13 DEF Inv, Once

(* The array grows by whole multiples of its size, far enough.             *)
LEMMA GrownEnough ==
  ASSUME allocated \in Nat, allocated > 0, NEW many \in Nat \ {0}
  PROVE  GrownFor(many) \in Nat /\ GrownFor(many) >= allocated + many
  <1>1. PICK a \in Nat : a = allocated /\ a > 0
    OBVIOUS
  <1>2. PICK d : d = (many + a - 1) \div a
    OBVIOUS
  <1>3. many + a - 1 \in Nat
    BY <1>1
  <1>4. d \in Nat /\ a * d <= many + a - 1 /\ many + a - 1 < a * d + a
    BY <1>1, <1>2, <1>3
  <1>5. GrownFor(many) = a * (1 + d)
    BY <1>1, <1>2 DEF GrownFor
  <1>6. a * (1 + d) = a + a * d /\ a * d \in Nat
    BY <1>1, <1>4
  <1> QED
    BY <1>1, <1>4, <1>5, <1>6

(* A run is taken from the new part of the array.                          *)
LEMMA ManyGrowsPreserves ==
  ASSUME PoolAssumption, Inv, NEW t \in Threads, ManyGrows(t)
  PROVE  Inv'
  <1> DEFINE a == allocated
             many == wanted
             size == GrownFor(many)
             first == a + 1 + many
             links == Zeroed(copyNext, size)
             end == EndOfList(links, head)
             old == IF head = 0 THEN links ELSE [links EXCEPT ![end] = first]
  <1>1. /\ status = "ok" /\ grower = t /\ many > 0
        /\ head = 0 \/ (end \in 1 .. size /\ links[end] = 0)
        /\ head' = IF head = 0 THEN first ELSE head
        /\ next' = Chained(old, size, first)
        /\ copyNext' = next' /\ copyRefs' = refs'
        /\ allocated' = size /\ refs' = Zeroed(copyRefs, size)
        /\ holds' = Zeroed(holds, size)
        /\ freeCount' = (size - first) % WordSize
        /\ claim' = [claim EXCEPT ![t] = a + 1 .. a + many]
        /\ grower' = NoThread /\ wanted' = 0 /\ leaving' = leaving
        /\ raced' = raced /\ status' = status /\ load' = load
    BY DEF ManyGrows, Publishes
  <1>2. /\ many \in Nat \ {0} /\ many \in load.runs /\ a \in Nat /\ a > 0
        /\ InUse \in Nat /\ InUse = WordSize - 1
        /\ load.most + 1 < InUse /\ load.most \in Nat
        /\ Handles = 1 .. a /\ copyNext \in [1 .. a -> 0 .. InUse]
        /\ copyRefs \in [1 .. a -> Nat] /\ holds \in [1 .. a -> Nat]
        /\ head \in 0 .. InUse /\ grower # NoThread
    BY <1>1, Words DEF Inv
  <1>3. size \in Nat /\ size >= a + many
    BY <1>2, GrownEnough
  <1>4. size <= load.most
    BY <1>2 DEF Inv, Basic
  <1> HIDE DEF size, end
  <1>5. size + 1 < InUse /\ first \in 0 .. InUse /\ first > a + 1 /\ first <= size + 1
    <2>1. /\ load.most + 1 < InUse /\ load.most \in Nat /\ InUse \in Nat
          /\ a \in Nat /\ many \in Nat /\ many > 0
      BY <1>2
    <2>2. first = a + 1 + many
      OBVIOUS
    <2> HIDE DEF first, a, many
    <2>3. size + 1 < InUse /\ first <= size + 1
      BY <1>3, <1>4, <2>1, <2>2
    <2> QED
      BY <1>3, <2>1, <2>2, <2>3
  <1>6. links = [h \in 1 .. size |-> IF h \in 1 .. a THEN copyNext[h] ELSE 0]
    BY <1>2, Zenon DEF Zeroed
  <1>7. \A h \in 1 .. a : h \in 1 .. size /\ h # size /\ ~ (h >= first)
    <2>1. a \in Nat /\ many \in Nat /\ many > 0
      BY <1>2
    <2> HIDE DEF a, many
    <2> QED
      BY <1>3, <2>1
  <1> HIDE DEF links
  <1>8. links \in [1 .. size -> 0 .. InUse] /\ \A h \in 1 .. a : links[h] = copyNext[h]
    BY <1>2, <1>6, <1>7
  <1>9. /\ old \in [1 .. size -> 0 .. InUse]
        /\ \A h \in 1 .. a : copyNext[h] = InUse => old[h] = InUse
    <2>1. CASE head = 0
      BY <1>8, <2>1
    <2>2. CASE head # 0
      <3>1. end \in 1 .. size /\ links[end] = 0 /\ 0 # InUse
        BY <1>1, <1>2, <2>2
      <3> HIDE DEF first, a
      <3>2. old = [links EXCEPT ![end] = first]
        BY <2>2
      <3> QED
        BY <1>5, <1>7, <1>8, <3>1, <3>2
    <2> QED
      BY <2>1, <2>2
  <1> HIDE DEF old, first, a, many
  <1>10. next' = [h \in 1 .. size |->
                    IF h = size THEN 0
                    ELSE IF h >= first THEN h + 1
                    ELSE IF h \in 1 .. size THEN old[h] ELSE 0]
    <2>1. DOMAIN old = 1 .. size
      BY <1>9
    <2> QED
      BY <1>1, <2>1, Zenon DEF Chained
  <1>11. /\ next' \in [1 .. size -> 0 .. InUse]
         /\ \A h \in 1 .. a : copyNext[h] = InUse => next'[h] = InUse
    <2>1. \A h \in 1 .. size : h + 1 \in 0 .. InUse
      BY <1>2, <1>3, <1>5
    <2>2. 0 \in 0 .. InUse
      BY <1>2
    <2>3. next' \in [1 .. size -> 0 .. InUse]
      BY <1>9, <1>10, <2>1, <2>2, SMTT(30)
    <2>4. \A h \in 1 .. a : next'[h] = old[h]
      BY <1>7, <1>10
    <2> QED
      BY <1>9, <2>3, <2>4
  <1>12. /\ refs' \in [1 .. size -> Nat] /\ holds' \in [1 .. size -> Nat]
         /\ \A h \in 1 .. a : refs'[h] = copyRefs[h] /\ holds'[h] = holds[h]
         /\ \A h \in 1 .. size : h \notin 1 .. a => holds'[h] = 0
    <2>1. /\ refs' = [h \in 1 .. size |-> IF h \in 1 .. a THEN copyRefs[h] ELSE 0]
          /\ holds' = [h \in 1 .. size |-> IF h \in 1 .. a THEN holds[h] ELSE 0]
      BY <1>1, <1>2, Zenon DEF Zeroed
    <2> QED
      BY <1>2, <1>7, <2>1
  <1>13. Handles' = 1 .. size
    BY <1>1 DEF Handles
  <1>14. Basic'
    <2>1. claim' \in [Threads -> SUBSET (1 .. size)] /\ leaving' \in [Threads -> 0 .. size]
      <3>1. claim \in [Threads -> SUBSET (1 .. a)] /\ leaving \in [Threads -> 0 .. a]
        BY Words DEF a, Inv
      <3>2. /\ 1 .. a \subseteq 1 .. size /\ a + 1 .. a + many \subseteq 1 .. size
            /\ 0 .. a \subseteq 0 .. size
        BY <1>2, <1>3
      <3>3. claim \in [Threads -> SUBSET (1 .. size)]
        BY <3>1, <3>2
      <3> QED
        BY <1>1, <3>1, <3>2, <3>3
    <2>2. head' \in 0 .. InUse
      BY <1>1, <1>2, <1>5
    <2>3. freeCount' \in 0 .. InUse
      <3>1. size - first \in Int /\ WordSize = InUse + 1
        BY <1>2, <1>3, <1>5
      <3>2. (size - first) % WordSize \in 0 .. InUse
        BY <1>2, <3>1, Remainder
      <3> QED
        BY <1>1, <3>1, <3>2
    <2>4. size \in Nat \ {0}
      BY <1>2, <1>3
    <2>5. raced' \subseteq 1 .. size
      <3>1. raced \subseteq 1 .. a
        BY Words DEF a, Inv
      <3> QED
        BY <1>1, <1>7, <3>1
    <2>6. TypeOK'
      BY <1>1, <1>2, <1>11, <1>12, <1>13, <2>1, <2>2, <2>3, <2>4, <2>5
         DEF Inv, Basic, TypeOK
    <2>7. (allocated + 1 < InUse)' /\ load' \in Loads
      BY <1>1, <1>5 DEF InUse, Inv, Basic
    <2> QED
      BY <1>1, <2>6, <2>7 DEF Basic
  <1>15. Sound'
    <2>1. allocated' \in Nat /\ allocated' >= allocated
      BY <1>1, <1>2, <1>3 DEF a
    <2>2. Handles' \ Handles \subseteq {h \in 1 .. size : h \notin 1 .. a}
      BY <1>2, <1>13
    <2>3. Carried
      BY <1>1, <1>2, <1>11, <1>12, <2>1, <2>2 DEF Carried
    <2> QED
      BY <1>1, <2>3, CarriedSound
  <1>16. load'.runs # {}
    BY <1>1, <1>2
  <1> QED
    BY <1>14, <1>15, <1>16 DEF Inv, Once

-----------------------------------------------------------------------------
(* POOL_REFERENCE and POOL_RELEASE                                         *)

(* A count goes up or down by one, with its holders; of the objects        *)
(* nobody holds, nothing changes.                                          *)
LEMMA CountedPreserves ==
  ASSUME PoolAssumption, Inv, NEW t \in Threads, NEW h \in Held,
         status = "ok", leaving[t] = 0, Counted(h),
         NEW c \in Nat, NEW n \in Nat, WriteCount(h, c),
         \/ c = refs[h] + 1 /\ n = holds[h] + 1
         \/ c = refs[h] - 1 /\ n = holds[h] - 1,
         holds' = [holds EXCEPT ![h] = n],
         leaving' = IF c = 0 THEN [leaving EXCEPT ![t] = h] ELSE leaving,
         Races(h), allocated' = allocated, head' = head, freeCount' = freeCount,
         next' = next, copyNext' = copyNext, claim' = claim, grower' = grower,
         wanted' = wanted, status' = status, load' = load
  PROVE  Inv'
  <1>1. /\ Basic /\ h \in Handles /\ Handles = 1 .. allocated /\ h > 0
        /\ holds \in [Handles -> Nat] /\ holds[h] \in Nat /\ holds[h] > 0
        /\ refs[h] \in Nat /\ refs[h] > 0 /\ next[h] = InUse
        /\ leaving \in [Threads -> 0 .. allocated]
        /\ allocated \in Nat
    <2>1. /\ h \in Handles /\ holds[h] > 0 /\ refs[h] > 0 /\ next[h] = InUse
      BY DEF Held, Counted
    <2>2. /\ Basic /\ Handles = 1 .. allocated /\ allocated \in Nat
          /\ holds \in [1 .. allocated -> Nat] /\ refs \in [1 .. allocated -> Nat]
          /\ leaving \in [Threads -> 0 .. allocated]
      BY Words, Zenon DEF Inv
    <2> QED
      BY <2>1, <2>2
  <1>2. /\ refs' \in [1 .. allocated -> Nat] /\ copyRefs' \in [1 .. allocated -> Nat]
        /\ refs'[h] = c
        /\ \A i \in Handles : i # h => refs'[i] = refs[i] /\ copyRefs'[i] = copyRefs[i]
        /\ grower = NoThread => copyRefs'[h] = c
        /\ grower = NoThread => copyRefs' = refs'
    BY <1>1, CountWritten
  <1>3. /\ holds' \in [1 .. allocated -> Nat] /\ holds'[h] = n
        /\ \A i \in Handles : i # h => holds'[i] = holds[i]
    BY <1>1
  <1>4. /\ leaving' \in [Threads -> 0 .. allocated]
        /\ \A u \in Threads : leaving'[u] = IF c = 0 /\ u = t THEN h ELSE leaving[u]
    BY <1>1
  <1>5. raced' = IF grower # NoThread THEN raced \cup {h} ELSE raced
    BY DEF Races
  <1>6. Basic'
    <2>1. raced' \subseteq 1 .. allocated
      BY <1>1, <1>5, Words
    <2>2. TypeOK'
      BY <1>1, <1>2, <1>3, <1>4, <2>1 DEF Basic, TypeOK, Handles
    <2> QED
      BY <1>1, <1>2, <2>2 DEF Basic, InUse, GrownFor
  <1>7. Sound'
    <2>1. OnlyAt(h)
      <3>1. \A i \in Handles : i # h => \A u \in Threads : leaving'[u] = i => leaving[u] = i
        BY <1>4
      <3> QED
        BY <1>2, <1>3, <1>5, <3>1 DEF OnlyAt
    <2>2. ASSUME h \in Unraced' PROVE Safe(h)'
      <3>1. h \notin raced'
        BY <1>1, <2>2 DEF Unraced
      <3>2. grower = NoThread /\ raced' = raced
        BY <1>5, <3>1
      <3>3. h \in Unraced
        BY <1>1, <2>2, <3>2 DEF Unraced, Handles
      <3>4. Safe(h)
        BY <3>3 DEF Inv, Sound
      <3>5. refs[h] = holds[h] /\ \A u \in Threads : leaving[u] # h
        BY <1>1, <3>4 DEF Safe
      <3>6. c = n
        BY <1>1, <3>5
      <3>7. copyNext'[h] = next'[h] /\ next'[h] = InUse' /\ copyRefs'[h] = refs'[h]
        BY <1>1, <1>2, <3>2, <3>4 DEF Safe, InUse
      <3>8. \A u \in Threads : leaving'[u] = h => u = t /\ c = 0
        BY <1>4, <3>5
      <3> QED
        BY <1>2, <1>3, <3>6, <3>7, <3>8 DEF Safe
    <2> QED
      BY <1>1, <2>1, <2>2, OthersSafe
  <1>8. ASSUME load.runs = {}, raced' = {} PROVE Single'
    <2>1. Single
      BY <1>5, <1>8 DEF Inv, Once
    <2>2. PICK S \in SUBSET Handles : Free(S)
      BY <2>1 DEF Single
    <2>3. h \notin S /\ \A u \in Threads : h \notin claim[u]
      BY <1>1, <2>1, <2>2 DEF Free, Single
    <2>4. \A i \in S : refs'[i] = refs[i] /\ holds'[i] = holds[i]
      BY <1>2, <1>3, <2>2, <2>3
    <2>5. \A i \in S : \A u \in Threads : i \notin claim'[u] /\ leaving'[u] # i
      BY <1>4, <2>2, <2>3 DEF Free
    <2>6. Free(S)'
      BY <2>2, <2>4, <2>5 DEF Free, Handles
    <2>7. \A u \in Threads : \A i \in claim'[u] : refs'[i] = 0 /\ holds'[i] = 0
      <3> TAKE u \in Threads
      <3> TAKE i \in claim'[u]
      <3>1. i \in claim[u] /\ i # h
        BY <2>3
      <3>2. i \in Handles
        BY <1>1, <3>1, Words
      <3> QED
        BY <1>2, <1>3, <2>1, <3>1, <3>2 DEF Single
    <2>8. \A u, v \in Threads : leaving'[v] \notin claim'[u]
      BY <1>4, <2>1, <2>3 DEF Single
    <2>9. S \in SUBSET Handles' /\ \A u, v \in Threads : u # v => claim'[u] \cap claim'[v] = {}
      BY <2>1 DEF Handles, Single
    <2> QED
      BY <2>6, <2>7, <2>8, <2>9 DEF Single
  <1> QED
    BY <1>6, <1>7, <1>8 DEF Inv, Once

(* A held object is referenced once more.                                  *)
LEMMA ReferencePreserves ==
  ASSUME PoolAssumption, Inv, NEW t \in Threads, NEW h \in Held, Reference(t, h)
  PROVE  Inv'
  <1>1. CASE ~ Counted(h)
    BY <1>1, GriefPreserves DEF Reference
  <1>2. CASE Counted(h)
    <2>1. /\ status = "ok" /\ leaving[t] = 0 /\ WriteCount(h, refs[h] + 1)
          /\ holds' = [holds EXCEPT ![h] = holds[h] + 1] /\ Races(h)
          /\ allocated' = allocated /\ head' = head /\ freeCount' = freeCount
          /\ next' = next /\ copyNext' = copyNext /\ claim' = claim
          /\ leaving' = leaving /\ grower' = grower /\ wanted' = wanted
          /\ status' = status /\ load' = load
      BY <1>2 DEF Reference, Idle, list, growth
    <2>4. refs[h] \in Nat /\ holds[h] \in Nat
      <3>1. /\ Handles = 1 .. allocated /\ holds \in [1 .. allocated -> Nat]
            /\ refs \in [1 .. allocated -> Nat]
        BY Words, Zenon DEF Inv
      <3> QED
        BY <3>1 DEF Held
    <2>2. PICK c \in Nat, n \in Nat : c = refs[h] + 1 /\ n = holds[h] + 1 /\ c # 0
      <3>1. refs[h] + 1 \in Nat /\ holds[h] + 1 \in Nat /\ refs[h] + 1 # 0
        BY <2>4
      <3> QED
        BY <3>1
    <2>3. leaving' = IF c = 0 THEN [leaving EXCEPT ![t] = h] ELSE leaving
      BY <2>1, <2>2
    <2> QED
      BY <1>2, <2>1, <2>2, <2>3, CountedPreserves
  <1> QED
    BY <1>1, <1>2

(* A reference is given back.                                              *)
LEMMA ReleasePreserves ==
  ASSUME PoolAssumption, Inv, NEW t \in Threads, NEW h \in Held, Release(t, h)
  PROVE  Inv'
  <1>1. CASE ~ Counted(h)
    BY <1>1, GriefPreserves DEF Release
  <1>2. CASE Counted(h)
    <2>1. /\ status = "ok" /\ leaving[t] = 0 /\ WriteCount(h, refs[h] - 1)
          /\ holds' = [holds EXCEPT ![h] = holds[h] - 1] /\ Races(h)
          /\ allocated' = allocated /\ head' = head /\ freeCount' = freeCount
          /\ next' = next /\ copyNext' = copyNext /\ claim' = claim
          /\ leaving' = (IF refs[h] = 1 THEN [leaving EXCEPT ![t] = h] ELSE leaving)
          /\ grower' = grower /\ wanted' = wanted /\ status' = status /\ load' = load
      BY <1>2 DEF Release, Idle, list, growth
    <2>2. /\ refs[h] \in Nat /\ refs[h] > 0 /\ holds[h] \in Nat /\ holds[h] > 0
      <3>1. /\ Handles = 1 .. allocated /\ holds \in [1 .. allocated -> Nat]
            /\ refs \in [1 .. allocated -> Nat]
        BY Words, Zenon DEF Inv
      <3>2. h \in Handles /\ holds[h] > 0 /\ refs[h] > 0
        BY <1>2 DEF Held, Counted
      <3> QED
        BY <3>1, <3>2
    <2>3. PICK c \in Nat, n \in Nat : c = refs[h] - 1 /\ n = holds[h] - 1
      BY <2>2
    <2>4. c = 0 <=> refs[h] = 1
      BY <2>2, <2>3
    <2>5. leaving' = IF c = 0 THEN [leaving EXCEPT ![t] = h] ELSE leaving
      BY <2>1, <2>4
    <2> QED
      BY <1>2, <2>1, <2>3, <2>5, CountedPreserves
  <1> QED
    BY <1>1, <1>2

(* ADD_TO_FREE_LIST finds an item that is marked itself, and links it to   *)
(* itself; one that is not was written in a race, and the item it finds    *)
(* instead lies below it.                                                  *)
LEMMA ListsPreserves ==
  ASSUME PoolAssumption, Inv, NEW t \in Threads, AddToFreeList(t)
  PROVE  Inv'
  <1> DEFINE h == leaving[t]
             before == {0} \cup {i \in 1 .. h : next[i] = InUse}
             prev == Max(before)
  <1>1. /\ status = "ok" /\ h # 0 /\ grower = NoThread
        /\ IF prev > 0
             THEN next' = [next EXCEPT ![h] = next[prev], ![prev] = h] /\ head' = head
             ELSE next' = [next EXCEPT ![h] = head] /\ head' = h
        /\ copyNext' = next' /\ copyRefs' = copyRefs
        /\ freeCount' = (freeCount + 1) % WordSize
        /\ leaving' = [leaving EXCEPT ![t] = 0]
        /\ allocated' = allocated /\ refs' = refs /\ holds' = holds /\ claim' = claim
        /\ grower' = grower /\ wanted' = wanted /\ raced' = raced
        /\ status' = status /\ load' = load
    BY DEF AddToFreeList, growth
  <1>2. /\ h \in 1 .. allocated /\ allocated \in Nat /\ Handles = 1 .. allocated
        /\ next \in [1 .. allocated -> 0 .. InUse] /\ head \in 0 .. InUse
        /\ leaving \in [Threads -> 0 .. allocated] /\ h \in 0 .. InUse
        /\ copyNext = next /\ copyRefs = refs /\ InUse = WordSize - 1
    BY <1>1, Words, SMTT(30) DEF Inv, Basic
  <1> HIDE DEF h
  <1>3. /\ prev \in before /\ \A i \in before : prev >= i
    <2>1. before \subseteq 0 .. h /\ before # {} /\ h \in Nat
      BY <1>2
    <2> HIDE DEF before
    <2> QED
      BY <2>1, MaxOf
  <1>4. prev = 0 \/ (prev \in 1 .. h /\ prev \in 1 .. allocated /\ prev > 0)
    BY <1>2, <1>3
  <1>5. next[h] = InUse => prev = h
    <2>1. next[h] = InUse => h \in before
      BY <1>2
    <2>2. prev >= h /\ prev \in 0 .. h => prev = h
      BY <1>2
    <2>3. prev \in 0 .. h
      BY <1>2, <1>3
    <2> HIDE DEF before, prev
    <2> QED
      BY <1>3, <2>1, <2>2, <2>3
  <1> HIDE DEF prev
  <1>6. \A u \in Threads : leaving'[u] = IF u = t THEN 0 ELSE leaving[u]
    BY <1>1, <1>2
  <1>7. Basic'
    <2>1. next' \in [1 .. allocated -> 0 .. InUse] /\ head' \in 0 .. InUse
      BY <1>1, <1>2, <1>4, SMTT(30)
    <2>2. freeCount' \in 0 .. InUse
      <3>1. WordSize = InUse + 1 /\ freeCount + 1 \in Int /\ InUse \in Nat
        BY Words DEF Inv
      <3> QED
        BY <1>1, <3>1, Remainder
    <2>3. leaving' \in [Threads -> 0 .. allocated]
      BY <1>1, <1>2
    <2>4. TypeOK'
      BY <1>1, <1>2, <2>1, <2>2, <2>3 DEF Inv, Basic, TypeOK, Handles
    <2> QED
      BY <1>1, <1>2, <2>4 DEF Inv, Basic, InUse, GrownFor
  <1>8. next[h] = InUse =>
          /\ next'[h] = h /\ head' = head
          /\ \A i \in Handles : i # h => next'[i] = next[i]
    BY <1>1, <1>2, <1>4, <1>5
  <1>9. Sound'
    <2>1. ASSUME NEW i \in Unraced' PROVE Safe(i)'
      <3>1. i \in Unraced /\ i \in Handles
        BY <1>1 DEF Unraced, Handles
      <3>2. Safe(i)
        BY <1>1, <3>1 DEF Inv, Sound
      <3>3. copyNext'[i] = next'[i] /\ copyRefs'[i] = refs'[i] /\ InUse' = InUse
        BY <1>1, <1>2 DEF InUse
      <3>4. CASE i = h
        <4>1. next[h] = InUse /\ holds[h] = 0 /\ \A u \in Threads : u # t => leaving[u] # h
          BY <3>2, <3>4 DEF Safe, h
        <4>2. \A u \in Threads : leaving'[u] # h
          BY <1>1, <1>6, <4>1
        <4> QED
          BY <1>1, <3>3, <3>4, <4>1, <4>2 DEF Safe
      <3>5. CASE i # h
        <4>1. next'[i] = next[i]
          <5>1. CASE next[h] = InUse
            BY <1>8, <3>1, <3>5, <5>1
          <5>2. CASE next[h] # InUse
            <6>1. ~ Safe(h)
              BY <5>2 DEF Safe, h
            <6>2. h \notin Unraced
              BY <1>1, <6>1 DEF Inv, Sound
            <6>3. PICK j \in raced : ~ (j < h)
              BY <1>2, <6>2 DEF Unraced
            <6>4. j < i /\ j \in 1 .. allocated
              BY <3>1, <6>3, Words DEF Unraced, Inv
            <6>5. i > h /\ i # prev
              BY <1>2, <1>4, <3>1, <6>3, <6>4
            <6> QED
              BY <1>1, <1>2, <1>4, <3>1, <3>5, <6>5
          <5> QED
            BY <5>1, <5>2
        <4>2. \A u \in Threads : leaving'[u] = i => leaving[u] = i
          <5>1. i # 0
            BY <1>2, <3>1
          <5> QED
            BY <1>6, <5>1
        <4> QED
          BY <1>1, <3>2, <3>3, <4>1, <4>2 DEF Safe
      <3> QED
        BY <3>4, <3>5
    <2> QED
      BY <2>1 DEF Sound
  <1>10. ASSUME load.runs = {}, raced = {} PROVE Single'
    <2>1. Single
      BY <1>1, <1>10 DEF Inv, Once
    <2>2. next[h] = InUse
      <3>1. Safe(h)
        BY <1>1, <1>2, <1>10, NoRaces
      <3> QED
        BY <3>1 DEF Safe, h
    <2>3. PICK S \in SUBSET Handles : Free(S)
      BY <2>1 DEF Single
    <2>4. h \notin S
      BY <2>3 DEF Free, h
    <2>5. \A i \in S : next'[i] = next[i]
      BY <1>8, <2>2, <2>3, <2>4
    <2>6. 0 \notin Handles /\ Handles' = Handles
      BY <1>1, <1>2 DEF Handles
    <2>7. \A i \in S : \A u \in Threads : i \notin claim'[u] /\ leaving'[u] # i
      BY <1>1, <1>6, <2>3, <2>6 DEF Free
    <2>8. Free(S)'
      BY <1>1, <1>8, <2>2, <2>3, <2>5, <2>6, <2>7 DEF Free
    <2>9. \A u, v \in Threads : leaving'[v] \notin claim'[u]
      <3>1. \A u \in Threads : claim[u] \subseteq Handles
        BY <1>2, Words DEF Inv
      <3> QED
        BY <1>1, <1>6, <2>1, <2>6, <3>1 DEF Single
    <2> QED
      BY <1>1, <2>1, <2>6, <2>8, <2>9 DEF Single
  <1> QED
    BY <1>1, <1>7, <1>9, <1>10 DEF Inv, Once

-----------------------------------------------------------------------------
(* The theorems                                                            *)

(* Every step keeps the invariant.                                         *)
LEMMA NextPreserves ==
  ASSUME PoolAssumption, Inv, [Next]_vars
  PROVE  Inv'
  <1>1. CASE UNCHANGED vars
    <2>1. /\ load' = load /\ allocated' = allocated /\ head' = head /\ freeCount' = freeCount
          /\ next' = next /\ refs' = refs /\ claim' = claim /\ status' = status
          /\ holds' = holds /\ leaving' = leaving /\ grower' = grower /\ wanted' = wanted
          /\ copyNext' = copyNext /\ copyRefs' = copyRefs /\ raced' = raced
      BY <1>1 DEF vars
    <2>2. Basic'
      BY <2>1 DEF Inv, Basic, TypeOK, Handles, InUse, GrownFor
    <2>3. Sound'
      BY <2>1, Untouched DEF Inv, Sound
    <2>4. ASSUME Single PROVE Single'
      <3>1. PICK S \in SUBSET Handles : Free(S)
        BY <2>4 DEF Single
      <3>2. Free(S)' /\ Handles' = Handles
        BY <2>1, <3>1 DEF Free, Handles
      <3> QED
        BY <2>1, <2>4, <3>2 DEF Single
    <2> QED
      BY <2>1, <2>2, <2>3, <2>4 DEF Inv, Once
  <1>2. ASSUME NEW t \in Threads, AllocateCopies(t) PROVE Inv'
    <2>1. /\ status = "ok" /\ grower = NoThread /\ 2 * allocated <= load.most
          /\ Copies(t, 0)
      BY <1>2 DEF AllocateCopies, Ready, Idle
    <2>2. (IF 0 = 0 THEN 2 * allocated ELSE GrownFor(0)) <= load.most /\ 0 \in {0} \cup load.runs
      BY <2>1
    <2> QED
      BY <2>1, <2>2, CopiesPreserves
  <1>3. ASSUME NEW t \in Threads, NEW many \in load.runs, ManyCopies(t, many) PROVE Inv'
    <2>1. /\ status = "ok" /\ grower = NoThread /\ GrownFor(many) <= load.most
          /\ Copies(t, many)
      BY <1>3 DEF ManyCopies, Ready, Idle
    <2>2. many # 0 /\ many \in {0} \cup load.runs
      BY Words DEF Inv
    <2>3. (IF many = 0 THEN 2 * allocated ELSE GrownFor(many)) <= load.most
      BY <2>1, <2>2
    <2> QED
      BY <2>1, <2>2, <2>3, CopiesPreserves
  <1>4. ASSUME NEW t \in Threads, AllocatePops(t) \/ AllocateFails(t) \/ AllocateGrows(t)
        PROVE  Inv'
    BY <1>4, PopsPreserves, GrowsPreserves, GriefPreserves DEF AllocateFails
  <1>5. ASSUME NEW t \in Threads, NEW many \in load.runs,
               ManyFound(t, many) \/ ManyFails(t, many)
        PROVE  Inv'
    BY <1>5, FoundPreserves, GriefPreserves DEF ManyFails
  <1>6. ASSUME NEW t \in Threads, ManyGrows(t) \/ ManyGrowsFails(t)
        PROVE  Inv'
    BY <1>6, ManyGrowsPreserves, GriefPreserves DEF ManyGrowsFails
  <1>7. ASSUME NEW t \in Threads, NEW h \in claim[t], Initialise(t, h)
        PROVE  Inv'
    BY <1>7, InitialisePreserves
  <1>8. ASSUME NEW t \in Threads, NEW h \in Held, Reference(t, h) \/ Release(t, h)
        PROVE  Inv'
    BY <1>8, ReferencePreserves, ReleasePreserves
  <1>9. ASSUME NEW t \in Threads, AddToFreeList(t)
        PROVE  Inv'
    BY <1>9, ListsPreserves
  <1> QED
    BY <1>1, <1>2, <1>3, <1>4, <1>5, <1>6, <1>7, <1>8, <1>9 DEF Next

(* The free list stays in a part of the items nobody has; and what is safe *)
(* is as it is held.                                                       *)
LEMMA InvImplies ==
  ASSUME PoolAssumption, Inv
  PROVE  NoDoubleAllocation /\ HeldStaysHeld
  <1>1. ASSUME Single PROVE ListApart
    <2>1. PICK S \in SUBSET Handles : Free(S)
      BY <1>1 DEF Single
    <2>2. S \cap GivenOut = {}
      <3>1. \A h \in S : ~ (holds[h] > 0)
        BY <2>1 DEF Free
      <3> QED
        BY <2>1, <3>1 DEF Free, GivenOut, Held
    <2>3. S \in SUBSET (Handles \ GivenOut)
      BY <2>2
    <2>4. 0 \notin Handles /\ allocated + 1 \notin Handles
      BY Words DEF Inv
    <2>5. ({head} \cup {next[h] : h \in S}) \cap Handles \subseteq S
      BY <2>1, <2>4 DEF Free
    <2> QED
      BY <2>3, <2>5 DEF ListApart
  <1>2. NoDoubleAllocation
    BY <1>1 DEF Inv, Basic, Once, NoDoubleAllocation, GivenOutOnce, Single
  <1>3. HeldStaysHeld
    BY DEF Inv, Sound, Safe, HeldStaysHeld, Held
  <1> QED
    BY <1>2, <1>3

(* No object of a pool is given out twice, however many contexts allocate, *)
(* hold, release and make the pool grow, as long as they ask for single    *)
(* objects and write to none while it is copied; and whatever they do,     *)
(* counters and links keep to their words (POOL_ALLOCATE,                  *)
(* POOL_ALLOCATE_MANY, POOL_RELEASE).                                      *)
THEOREM ObjectsGivenOnce == Spec => []NoDoubleAllocation
  <1>1. PoolAssumption /\ Init => Inv
    BY InitInv
  <1>2. PoolAssumption /\ Inv /\ [Next]_vars => Inv'
    BY NextPreserves
  <1>3. PoolAssumption /\ Inv => NoDoubleAllocation
    BY InvImplies
  <1> QED
    BY <1>1, <1>2, <1>3, PoolAssumption, PTL DEF Spec

(* An object that is held is marked as in use and counts its holders,      *)
(* whatever is allocated, searched for, released or grown, unless it or an *)
(* object above it was written to while the pool was copied.               *)
THEOREM ObjectsStayHeld == Spec => []HeldStaysHeld
  <1>1. PoolAssumption /\ Init => Inv
    BY InitInv
  <1>2. PoolAssumption /\ Inv /\ [Next]_vars => Inv'
    BY NextPreserves
  <1>3. PoolAssumption /\ Inv => HeldStaysHeld
    BY InvImplies
  <1> QED
    BY <1>1, <1>2, <1>3, PoolAssumption, PTL DEF Spec

-----------------------------------------------------------------------------
(* One object, whose references several contexts count: PoolObject         *)

(* An object with a mutex, and what PoolObject assumes of its constants.   *)
SharedObject ==
  /\ IsFiniteSet(Tokens)
  /\ Nobody \notin Contexts
  /\ Shared = TRUE
  /\ MaxGrowths \in Nat

Critical == {"refstore", "reldec", "relstore", "destroy"}

Releasing == {"reldec", "relstore", "destroy", "zero"}

Dying == {"destroy", "zero", "freelist"}

(* 1 while a context has given up a reference that is still counted.       *)
Owed == IF \E t \in Contexts : pc[t] \in Releasing THEN 1 ELSE 0

(* The mutex is held exactly by the context that is between a lock and an  *)
(* unlock, and the pool does not grow.                                     *)
MutexInv ==
  /\ \A t \in Contexts : pc[t] \in Critical <=> mutex = t
  /\ \A t \in Contexts : pc[t] # "grow"
  /\ base = 0
  /\ \A t \in Contexts : seen[t] = 0

(* Once the last reference is being given back there is nobody else.       *)
DyingInv ==
  \A t \in Contexts :
     pc[t] \in Dying =>
       /\ Live = {}
       /\ \A u \in Contexts : u # t => pc[u] = "idle"

(* What a context has loaded, or concluded from, is still so.              *)
LoadedInv ==
  \A t \in Contexts :
     /\ pc[t] \in {"refstore", "relstore"} => reg[t] = references
     /\ pc[t] = "refstore" => OwnedBy(t) # {}
     /\ pc[t] \in {"reldec", "relstore"} => references > 1

CountInv == references = Cardinality(Live) + Owed

AliveInv ==
  /\ alive <=> Live # {} \/ \E t \in Contexts : pc[t] = "destroy"
  /\ inUse <=> Live # {} \/ \E t \in Contexts : pc[t] \in Dying

ObjectInv == ObjectTypeOK /\ MutexInv /\ DyingInv /\ LoadedInv /\ CountInv /\ AliveInv
-----------------------------------------------------------------------------
(* The tokens in use, and their number, as references come and go.         *)

(* There are finitely many references.                                     *)
LEMMA LiveFinite ==
  ASSUME SharedObject
  PROVE  IsFiniteSet(Live) /\ Cardinality(Live) \in Nat
  BY FS_Subset, FS_CardinalityType DEF SharedObject, Live

(* The instance counts elements as we do.                                  *)
LEMMA CountsAlike ==
  ASSUME NEW S
  PROVE  Cardinality(S) = Cardinality(S)
  BY DEF Cardinality, Cardinality

(* A reference more.                                                       *)
LEMMA LiveGains ==
  ASSUME SharedObject, ObjectTypeOK, NEW t \in Contexts, NEW k \in Tokens \ Live,
         owner' = [owner EXCEPT ![k] = t]
  PROVE  Live' # {} /\ Cardinality(Live') = Cardinality(Live) + 1
  <1>1. Live' = Live \cup {k} /\ k \notin Live
    BY DEF SharedObject, Live, ObjectTypeOK
  <1>2. Cardinality(Live \cup {k}) = Cardinality(Live) + 1
    BY <1>1, FS_AddElement, LiveFinite
  <1>3. QED
    BY <1>1, <1>2

(* A reference less.                                                       *)
LEMMA LiveLoses ==
  ASSUME SharedObject, ObjectTypeOK, NEW t \in Contexts, NEW k \in OwnedBy(t),
         owner' = [owner EXCEPT ![k] = Nobody]
  PROVE  Live # {} /\ Cardinality(Live') = Cardinality(Live) - 1
  <1>1. Live' = Live \ {k} /\ k \in Live
    BY DEF SharedObject, Live, OwnedBy, ObjectTypeOK
  <1>2. Cardinality(Live \ {k}) = Cardinality(Live) - 1
    BY <1>1, FS_RemoveElement, LiveFinite
  <1>3. QED
    BY <1>1, <1>2

(* The count says whether there is a reference at all.                     *)
LEMMA LiveCounted ==
  ASSUME SharedObject
  PROVE  Live = {} <=> Cardinality(Live) = 0
  BY LiveFinite, FS_EmptySet

-----------------------------------------------------------------------------
(* Each step keeps the invariant.                                          *)

(* The object has just been allocated: one reference, nobody busy.         *)
LEMMA ObjectInitInv ==
  ASSUME SharedObject, ObjectInit
  PROVE  ObjectInv
  <1>. PICK t \in Contexts, k \in Tokens :
         owner = [j \in Tokens |-> IF j = k THEN t ELSE Nobody]
    BY DEF ObjectInit
  <1>1. ObjectTypeOK
    BY DEF ObjectInit, ObjectTypeOK, Locations
  <1>2. Live = {k}
    BY DEF SharedObject, Live
  <1>3. Cardinality(Live) = 1
    BY <1>2, FS_Singleton
  <1>4. MutexInv
    BY DEF SharedObject, ObjectInit, MutexInv, Critical
  <1>5. DyingInv /\ LoadedInv
    BY DEF ObjectInit, DyingInv, LoadedInv, Dying
  <1>6. Owed = 0
    BY DEF ObjectInit, Owed, Releasing
  <1>7. CountInv
    BY <1>3, <1>6 DEF ObjectInit, CountInv
  <1>8. AliveInv
    BY <1>2 DEF ObjectInit, AliveInv, Dying
  <1>9. QED
    BY <1>1, <1>4, <1>5, <1>7, <1>8 DEF ObjectInv

(* POOL_REFERENCE up to its load.                                          *)
LEMMA ReferenceLoadInv ==
  ASSUME SharedObject, ObjectInv, NEW t \in Contexts, ReferenceLoad(t)
  PROVE  ObjectInv'
  <1>. USE DEF ObjectInv, ReferenceLoad, Lock, LoadCount, Goto, object
  <1>1. ObjectTypeOK'
    BY DEF ObjectTypeOK, Locations
  <1>2. MutexInv'
    BY DEF SharedObject, MutexInv, Critical, ObjectTypeOK
  <1>3. Live' = Live /\ OwnedBy(t)' = OwnedBy(t) /\ Live # {}
    BY DEF SharedObject, Live, OwnedBy
  <1>4. DyingInv'
    BY <1>3 DEF DyingInv, Dying, ObjectTypeOK
  <1>5. LoadedInv'
    BY DEF LoadedInv, MutexInv, Critical, ObjectTypeOK, OwnedBy
  <1>6. Owed' = Owed
    BY DEF Owed, Releasing, ObjectTypeOK
  <1>7. CountInv'
    BY <1>3, <1>6 DEF CountInv
  <1>8. AliveInv'
    BY <1>3 DEF AliveInv, Dying, ObjectTypeOK
  <1>9. QED
    BY <1>1, <1>2, <1>4, <1>5, <1>7, <1>8

(* POOL_REFERENCE from its store: nobody else is counting.                 *)
LEMMA ReferenceStoreInv ==
  ASSUME SharedObject, ObjectInv, NEW t \in Contexts, ReferenceStore(t)
  PROVE  ObjectInv'
  <1>. USE DEF ObjectInv, ReferenceStore, StoreCount, Unlock, Goto
  <1>. PICK k \in Tokens \ Live : owner' = [owner EXCEPT ![k] = t]
    OBVIOUS
  <1>1. references' = references + 1
    BY DEF LoadedInv, MutexInv
  <1>2. ObjectTypeOK'
    BY <1>1 DEF ObjectTypeOK, Locations
  <1>3. MutexInv'
    BY DEF SharedObject, MutexInv, Critical, ObjectTypeOK
  <1>4. Live # {}
    BY DEF SharedObject, LoadedInv, Live, OwnedBy
  <1>5. Live' # {} /\ Cardinality(Live') = Cardinality(Live) + 1
    BY LiveGains
  <1>6. DyingInv'
    BY <1>4 DEF DyingInv, Dying, ObjectTypeOK
  <1>7. LoadedInv'
    BY DEF LoadedInv, MutexInv, Critical, ObjectTypeOK
  <1>8. Owed' = Owed
    BY DEF Owed, Releasing, ObjectTypeOK
  <1>9. CountInv'
    BY <1>1, <1>5, <1>8, LiveFinite DEF CountInv, Owed
  <1>10. AliveInv'
    BY <1>4, <1>5 DEF AliveInv
  <1>11. QED
    BY <1>2, <1>3, <1>6, <1>7, <1>9, <1>10

(* POOL_RELEASE up to its branch on the last reference.                    *)
LEMMA ReleaseBeginInv ==
  ASSUME SharedObject, ObjectInv, NEW t \in Contexts, ReleaseBegin(t)
  PROVE  ObjectInv'
  <1>. USE DEF ObjectInv, ReleaseBegin, Lock, Goto, object
  <1>. PICK k \in OwnedBy(t) : owner' = [owner EXCEPT ![k] = Nobody]
    OBVIOUS
  <1>1. ObjectTypeOK'
    BY DEF ObjectTypeOK, Locations
  <1>2. MutexInv'
    BY DEF SharedObject, MutexInv, Critical, ObjectTypeOK
  <1>3. Live # {} /\ Cardinality(Live') = Cardinality(Live) - 1
    BY LiveLoses
  <1>4. Owed = 0
    BY <1>3 DEF SharedObject, Owed, Releasing, DyingInv, Dying, MutexInv, Critical
  <1>5. Owed' = 1
    BY DEF Owed, Releasing, ObjectTypeOK
  <1>6. CountInv'
    BY <1>3, <1>4, <1>5, LiveFinite DEF CountInv
  <1>7. references > 0 /\ (references = 1 <=> Live' = {})
    <2>1. references = Cardinality(Live)
      BY <1>4, LiveFinite DEF CountInv
    <2>2. IsFiniteSet(Live') /\ (Live' = {} <=> Cardinality(Live') = 0)
      BY FS_Subset, FS_EmptySet DEF SharedObject, Live
    <2>3. QED
      BY <1>3, <2>1, <2>2, LiveFinite, LiveCounted
  <1>8. \A u \in Contexts : pc[u] \notin Dying \cup Critical
    BY <1>3 DEF SharedObject, MutexInv, DyingInv, Critical, Dying
  <1>9. \A u \in Contexts : pc[u] = "idle"
    BY <1>8 DEF ObjectTypeOK, Locations, Critical, Dying, MutexInv
  <1>10. DyingInv'
    BY <1>7, <1>9 DEF DyingInv, Dying, ObjectTypeOK
  <1>11. LoadedInv'
    BY <1>7, <1>9 DEF LoadedInv, ObjectTypeOK
  <1>12. AliveInv'
    BY <1>3, <1>7, <1>9 DEF AliveInv, Dying, ObjectTypeOK
  <1>13. QED
    BY <1>1, <1>2, <1>6, <1>10, <1>11, <1>12

(* The load of POOL_RELEASE's decrement.                                   *)
LEMMA ReleaseLoadInv ==
  ASSUME SharedObject, ObjectInv, NEW t \in Contexts, ReleaseLoad(t)
  PROVE  ObjectInv'
  <1>. USE DEF ObjectInv, ReleaseLoad, LoadCount, Goto, object
  <1>1. ObjectTypeOK'
    BY DEF ObjectTypeOK, Locations
  <1>2. MutexInv'
    BY DEF MutexInv, Critical, ObjectTypeOK
  <1>3. Live' = Live
    BY DEF Live
  <1>4. DyingInv'
    BY <1>3 DEF DyingInv, Dying, ObjectTypeOK
  <1>5. LoadedInv'
    BY DEF LoadedInv, MutexInv, Critical, ObjectTypeOK, OwnedBy
  <1>6. Owed' = Owed
    BY DEF Owed, Releasing, ObjectTypeOK
  <1>7. CountInv'
    BY <1>3, <1>6 DEF CountInv
  <1>8. AliveInv'
    BY <1>3 DEF AliveInv, Dying, ObjectTypeOK
  <1>9. QED
    BY <1>1, <1>2, <1>4, <1>5, <1>7, <1>8

(* The store of POOL_RELEASE's decrement.                                  *)
LEMMA ReleaseStoreInv ==
  ASSUME SharedObject, ObjectInv, NEW t \in Contexts, ReleaseStore(t)
  PROVE  ObjectInv'
  <1>. USE DEF ObjectInv, ReleaseStore, StoreCount, Unlock, Goto
  <1>1. references' = references - 1 /\ references > 1
    BY DEF LoadedInv, MutexInv
  <1>2. ObjectTypeOK'
    BY <1>1 DEF ObjectTypeOK, Locations
  <1>3. MutexInv'
    BY DEF SharedObject, MutexInv, Critical, ObjectTypeOK
  <1>4. Live' = Live
    BY DEF Live
  <1>5. Owed = 1
    BY DEF Owed, Releasing
  <1>6. Live # {}
    BY <1>1, <1>5, LiveCounted, LiveFinite DEF CountInv
  <1>7. DyingInv'
    BY <1>4, <1>6 DEF DyingInv, Dying, ObjectTypeOK
  <1>8. LoadedInv'
    BY DEF LoadedInv, MutexInv, Critical, ObjectTypeOK
  <1>9. \A u \in Contexts : pc[u] \in Releasing => u = t
    BY <1>6 DEF Releasing, Critical, Dying, MutexInv, DyingInv
  <1>10. Owed' = 0
    BY <1>9 DEF Owed, Releasing, ObjectTypeOK
  <1>11. CountInv'
    BY <1>1, <1>4, <1>5, <1>10, LiveFinite DEF CountInv, ObjectTypeOK
  <1>12. AliveInv'
    BY <1>4, <1>6 DEF AliveInv, Dying, ObjectTypeOK
  <1>13. QED
    BY <1>2, <1>3, <1>7, <1>8, <1>11, <1>12

(* The last reference: the object is destroyed, the mutex is gone.         *)
LEMMA DestroyInv ==
  ASSUME SharedObject, ObjectInv, NEW t \in Contexts, Destroy(t)
  PROVE  ObjectInv'
  <1>. USE DEF ObjectInv, Destroy, Unlock, Goto
  <1>1. ObjectTypeOK'
    BY DEF ObjectTypeOK, Locations
  <1>2. MutexInv'
    BY DEF SharedObject, MutexInv, Critical, ObjectTypeOK
  <1>3. Live' = Live /\ Live = {}
    BY DEF Live, DyingInv, Dying
  <1>4. \A u \in Contexts : u # t => pc[u] = "idle"
    BY DEF DyingInv, Dying
  <1>5. DyingInv'
    BY <1>3, <1>4 DEF DyingInv, Dying, ObjectTypeOK
  <1>6. LoadedInv'
    BY <1>4 DEF LoadedInv, ObjectTypeOK
  <1>7. Owed' = Owed
    BY DEF Owed, Releasing, ObjectTypeOK
  <1>8. CountInv'
    BY <1>3, <1>7 DEF CountInv
  <1>9. AliveInv'
    BY <1>3, <1>4 DEF AliveInv, Dying, ObjectTypeOK
  <1>10. QED
    BY <1>1, <1>2, <1>5, <1>6, <1>8, <1>9

(* The count of the destroyed object is zeroed.                            *)
LEMMA ZeroInv ==
  ASSUME SharedObject, ObjectInv, NEW t \in Contexts, Zero(t)
  PROVE  ObjectInv'
  <1>. USE DEF ObjectInv, Zero, Goto
  <1>1. ObjectTypeOK'
    BY DEF ObjectTypeOK, Locations
  <1>2. MutexInv'
    BY DEF MutexInv, Critical, ObjectTypeOK
  <1>3. Live' = Live /\ Live = {}
    BY DEF Live, DyingInv, Dying
  <1>4. \A u \in Contexts : u # t => pc[u] = "idle"
    BY DEF DyingInv, Dying
  <1>5. DyingInv'
    BY <1>3, <1>4 DEF DyingInv, Dying, ObjectTypeOK
  <1>6. LoadedInv'
    BY <1>4 DEF LoadedInv, ObjectTypeOK
  <1>7. Owed' = 0
    BY <1>4 DEF Owed, Releasing, ObjectTypeOK
  <1>8. CountInv'
    BY <1>3, <1>7, LiveCounted DEF CountInv
  <1>9. AliveInv'
    BY <1>3, <1>4 DEF AliveInv, Dying, ObjectTypeOK
  <1>10. QED
    BY <1>1, <1>2, <1>5, <1>6, <1>8, <1>9

(* ADD_TO_FREE_LIST: the object is no longer in use.                       *)
LEMMA AddToFreeListInv ==
  ASSUME SharedObject, ObjectInv, NEW t \in Contexts, JoinFreeList(t)
  PROVE  ObjectInv'
  <1>. USE DEF ObjectInv, JoinFreeList, Goto
  <1>1. ObjectTypeOK'
    BY DEF ObjectTypeOK, Locations
  <1>2. MutexInv'
    BY DEF MutexInv, Critical, ObjectTypeOK
  <1>3. Live' = Live /\ Live = {}
    BY DEF Live, DyingInv, Dying
  <1>4. \A u \in Contexts : u # t => pc[u] = "idle"
    BY DEF DyingInv, Dying
  <1>5. \A u \in Contexts : pc'[u] = "idle"
    BY <1>4 DEF ObjectTypeOK
  <1>6. DyingInv' /\ LoadedInv'
    BY <1>5 DEF DyingInv, LoadedInv, Dying
  <1>7. Owed' = Owed
    BY DEF Owed, Releasing, ObjectTypeOK
  <1>8. CountInv'
    BY <1>3, <1>7 DEF CountInv
  <1>9. AliveInv'
    BY <1>3, <1>5, <1>4 DEF AliveInv, Dying, ObjectTypeOK
  <1>10. QED
    BY <1>1, <1>2, <1>6, <1>8, <1>9

(* A reference changes hands.                                              *)
LEMMA GiveInv ==
  ASSUME SharedObject, ObjectInv, NEW t \in Contexts, NEW u \in Contexts, t # u, Give(t, u)
  PROVE  ObjectInv'
  <1>. USE DEF ObjectInv, Give, object
  <1>. PICK k \in OwnedBy(t) : owner' = [owner EXCEPT ![k] = u]
    OBVIOUS
  <1>1. ObjectTypeOK'
    BY DEF ObjectTypeOK, OwnedBy
  <1>2. Live' = Live
    BY DEF SharedObject, Live, OwnedBy, ObjectTypeOK
  <1>3. MutexInv' /\ DyingInv'
    BY <1>2 DEF MutexInv, DyingInv
  <1>4. \A v \in Contexts : v # t /\ OwnedBy(v) # {} => OwnedBy(v)' # {}
    BY DEF OwnedBy, ObjectTypeOK
  <1>5. LoadedInv'
    BY <1>4 DEF LoadedInv
  <1>6. CountInv' /\ AliveInv'
    BY <1>2 DEF CountInv, AliveInv, Owed
  <1>7. QED
    BY <1>1, <1>3, <1>5, <1>6

(* Every step of a shared object in a pool that does not grow.             *)
LEMMA ObjectStepInv ==
  ASSUME SharedObject, ObjectInv, [ObjectNext]_objectVars
  PROVE  ObjectInv'
  <1>1. CASE UNCHANGED objectVars
    <2>. Live' = Live /\ \A t \in Contexts : OwnedBy(t)' = OwnedBy(t)
      BY <1>1 DEF objectVars, Live, OwnedBy
    <2>. QED
      BY <1>1 DEF objectVars, ObjectInv, ObjectTypeOK, MutexInv, DyingInv, LoadedInv,
                  CountInv, AliveInv, Owed
  <1>2. ASSUME NEW t \in Contexts, Proceed(t)
        PROVE  ObjectInv'
    BY <1>2, ReferenceLoadInv, ReferenceStoreInv, ReleaseBeginInv,
       ReleaseLoadInv, ReleaseStoreInv, DestroyInv, ZeroInv,
       AddToFreeListInv DEF Proceed
  <1>3. ASSUME NEW t \in Contexts, NEW u \in Contexts, t # u, Give(t, u)
        PROVE  ObjectInv'
    BY <1>3, GiveInv
  <1>4. QED
    BY <1>1, <1>2, <1>3 DEF ObjectNext

(* What the invariant says of the properties.                              *)
LEMMA InvSuffices ==
  ASSUME SharedObject, ObjectInv
  PROVE  RefsExact /\ HolderSafe
  <1>1. RefsExact
    BY LiveFinite, CountsAlike DEF ObjectInv, ObjectTypeOK, RefsExact, Quiet,
       CountInv, AliveInv, Owed, Releasing, Dying
  <1>2. HolderSafe
    BY LiveFinite, LiveCounted DEF ObjectInv, HolderSafe, CountInv, AliveInv, Owed
  <1>3. QED
    BY <1>1, <1>2

-----------------------------------------------------------------------------

(* Theorem.  The mutex is free or has one holder, and the counters of such *)
(* an object never fall below zero (POOL_LOCK, POOL_RELEASE).              *)
THEOREM SharedTypeCorrect ==
  ASSUME Shared = TRUE
  PROVE  ObjectSpec => []ObjectTypeOK
  <1>0. SharedObject
    BY PoolObjectAssumption DEF SharedObject
  <1>1. ObjectInit => ObjectInv
    BY <1>0, ObjectInitInv
  <1>2. ObjectInv /\ [ObjectNext]_objectVars => ObjectInv'
    BY <1>0, ObjectStepInv
  <1>3. ObjectInv => ObjectTypeOK
    BY DEF ObjectInv
  <1>4. QED
    BY <1>1, <1>2, <1>3, PTL DEF ObjectSpec

(* Theorem.  For any number of contexts and references, a shared object in *)
(* a pool that does not grow has its references counted exactly            *)
(* (POOL_REFERENCE, POOL_RELEASE).                                         *)
THEOREM SharedCountExact ==
  ASSUME Shared = TRUE
  PROVE  ObjectSpec => []RefsExact
  <1>0. SharedObject
    BY PoolObjectAssumption DEF SharedObject
  <1>1. ObjectInit => ObjectInv
    BY <1>0, ObjectInitInv
  <1>2. ObjectInv /\ [ObjectNext]_objectVars => ObjectInv'
    BY <1>0, ObjectStepInv
  <1>3. ObjectInv => RefsExact
    BY <1>0, InvSuffices
  <1>4. QED
    BY <1>1, <1>2, <1>3, PTL DEF ObjectSpec

(* Theorem.  Whoever holds a reference to such an object may use it: it is *)
(* destroyed by the release of its last reference and by nothing else.     *)
THEOREM SharedHolderSafe ==
  ASSUME Shared = TRUE
  PROVE  ObjectSpec => []HolderSafe
  <1>0. SharedObject
    BY PoolObjectAssumption DEF SharedObject
  <1>1. ObjectInit => ObjectInv
    BY <1>0, ObjectInitInv
  <1>2. ObjectInv /\ [ObjectNext]_objectVars => ObjectInv'
    BY <1>0, ObjectStepInv
  <1>3. ObjectInv => HolderSafe
    BY <1>0, InvSuffices
  <1>4. QED
    BY <1>1, <1>2, <1>3, PTL DEF ObjectSpec
=============================================================================
