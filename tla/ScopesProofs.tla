----------------------------- MODULE ScopesProofs -----------------------------
(***************************************************************************)
(* Proofs about Scopes, for any contexts and bounds: vm_main destroys the  *)
(* pools only when no context uses them any more; every symbol table has   *)
(* the references it should have; and a RETURN finds its scope.  Then      *)
(* proofs about SymbolTable, for any identifiers, symbols and scopes: the  *)
(* tables stay search trees, their symbols' references are exact, and what *)
(* they mean is what nested scopes mean.                                   *)
(***************************************************************************)
EXTENDS Scopes, SymbolTable, SequenceTheorems, FiniteSetTheorems, WellFoundedInduction, TLAPS

Listed == {"created", "running", "ending", "closing", "leaving"}

Empty == {"unborn", "telling", "gone"}

Functions ==
  /\ scope = [c \in Contexts |-> scope[c]]
  /\ stack = [c \in Contexts |-> stack[c]]
  /\ at \in [Contexts -> Listed \cup Empty]

(* A context is in the registry from before its thread is created until it *)
(* has destroyed everything it had.                                        *)
RegistryInv ==
  /\ registered = {c \in Contexts : at[c] \in Listed}
  /\ \A c \in Contexts :
       at[c] \in Empty \cup {"leaving"} => scope[c] = NoTable /\ stack[c] = <<>>

(* Only a context in the registry creates others, so that once vm_main has *)
(* found the registry empty it stays empty.                                *)
MainInv == main \in {"collect", "exit"} => registered = {}

Inv == Functions /\ RegistryInv /\ MainInv
-----------------------------------------------------------------------------
(* It holds at the start.                                                  *)
LEMMA InitInv ==
  Init => Inv
  <1> SUFFICES ASSUME Init PROVE Inv
    OBVIOUS
  <1>1. Functions /\ RegistryInv
    BY ScopesAssumption DEF Init, Functions, RegistryInv, Listed, Empty
  <1>2. MainInv
    BY DEF Init, MainInv
  <1> QED
    BY <1>1, <1>2 DEF Inv

(* A step of a listed context that stays listed                            *)
LEMMA ListedStep ==
  ASSUME Inv, NEW c \in Contexts, at[c] \in Listed,
         NEW where \in Listed, NEW s, NEW n,
         where = "leaving" => s = <<>> /\ n = NoTable,
         at' = [at EXCEPT ![c] = where],
         stack' = [stack EXCEPT ![c] = s],
         scope' = [scope EXCEPT ![c] = n],
         registered' = registered,
         main' \in {main, "wait"}
  PROVE  Inv'
  <1>1. Functions'
    BY DEF Inv, Functions
  <1>2. RegistryInv'
    <2>1. \A d \in Contexts : at'[d] \in Listed <=> at[d] \in Listed
      BY DEF Inv, Functions
    <2>2. /\ at'[c] = where /\ scope'[c] = n /\ stack'[c] = s
          /\ \A d \in Contexts \ {c} :
               at'[d] = at[d] /\ scope'[d] = scope[d] /\ stack'[d] = stack[d]
      BY DEF Inv, Functions
    <2>3. where \notin Empty
      BY DEF Listed, Empty
    <2> QED
      BY <2>1, <2>2, <2>3 DEF Inv, RegistryInv
  <1>3. MainInv'
    BY DEF Inv, MainInv
  <1> QED
    BY <1>1, <1>2, <1>3 DEF Inv

(* A step that changes nothing the invariant is about but vm_main's place  *)
LEMMA MainStep ==
  ASSUME Inv, UNCHANGED <<scope, stack, at, registered>>,
         main' \in {"collect", "exit"} => main \in {"collect", "exit"} \/ registered = {}
  PROVE  Inv'
  BY DEF Inv, Functions, RegistryInv, MainInv

(* The steps of a context that has been created, up to its last scope      *)
LEMMA WorkInv ==
  ASSUME Inv, NEW c \in Contexts,
         Start(c) \/ Call(c) \/ Return(c) \/ End(c) \/ EndScope(c) \/ Close(c)
  PROVE  Inv'
  <1> DEFINE Moves(where, s, n) ==
        /\ at' = [at EXCEPT ![c] = where]
        /\ stack' = [stack EXCEPT ![c] = s]
        /\ scope' = [scope EXCEPT ![c] = n]
        /\ where = "leaving" => s = <<>> /\ n = NoTable
  <1>1. at = [at EXCEPT ![c] = at[c]] /\ stack = [stack EXCEPT ![c] = stack[c]]
        /\ scope = [scope EXCEPT ![c] = scope[c]]
    BY DEF Inv, Functions
  <1>2. at[c] \in Listed /\ registered' = registered /\ main' = main
    BY DEF Start, Call, Return, End, EndScope, Close, Running, Listed
  <1>3. \E where \in Listed : \E s, n : Moves(where, s, n)
    <2>1. CASE Start(c)
      BY <2>1 DEF Start, PushAndStartScope, Listed
    <2>2. CASE Call(c)
      <3>1. at' = at /\ at[c] # "leaving"
        BY <2>2 DEF Call, Running
      <3>2. PICK s, n : stack' = [stack EXCEPT ![c] = s] /\ scope' = [scope EXCEPT ![c] = n]
        BY <2>2 DEF Call, PushAndStartScope
      <3>3. Moves(at[c], s, n)
        BY <1>1, <3>1, <3>2
      <3> QED
        BY <1>2, <3>3
    <2>3. CASE Return(c)
      <3>1. at' = at /\ at[c] # "leaving"
        BY <2>3 DEF Return, Running
      <3>2. PICK s, n : stack' = [stack EXCEPT ![c] = s] /\ scope' = [scope EXCEPT ![c] = n]
        BY <2>3 DEF Return
      <3>3. Moves(at[c], s, n)
        BY <1>1, <3>1, <3>2
      <3> QED
        BY <1>2, <3>3
    <2>4. CASE End(c)
      BY <1>1, <2>4 DEF End, Listed
    <2>5. CASE EndScope(c)
      BY <1>1, <2>5 DEF EndScope, Listed
    <2>6. CASE Close(c)
      BY <2>6 DEF Close, Listed
    <2> QED
      BY <2>1, <2>2, <2>3, <2>4, <2>5, <2>6
  <1> QED
    BY <1>2, <1>3, ListedStep, ZenonT(60)

(* CORO                                                                    *)
LEMMA CoroInv ==
  ASSUME Inv, NEW c \in Contexts, NEW child \in Contexts, Coro(c, child)
  PROVE  Inv'
  <1>1. Functions'
    BY DEF Inv, Functions, Coro, Listed
  <1>2. RegistryInv'
    BY DEF Inv, Functions, RegistryInv, Coro, Listed, Empty
  <1>3. MainInv'
    BY DEF Inv, Functions, RegistryInv, MainInv, Coro, Running, MainTold, Listed
  <1> QED
    BY <1>1, <1>2, <1>3 DEF Inv

(* A context leaves the registry, with nothing left                        *)
LEMMA LeaveInv ==
  ASSUME Inv, NEW c \in Contexts, Leave(c)
  PROVE  Inv'
  <1>1. /\ Functions'
        /\ at'[c] = "telling" /\ \A d \in Contexts \ {c} : at'[d] = at[d]
        /\ UNCHANGED <<scope, stack, main>>
        /\ registered' = registered \ {c}
    BY DEF Inv, Functions, Leave, Empty
  <1>2. RegistryInv'
    BY <1>1 DEF Inv, RegistryInv, Leave, Listed, Empty
  <1> QED
    BY <1>1, <1>2 DEF Inv, MainInv

(* A context tells vm_main that it has left                                *)
LEMMA TellInv ==
  ASSUME Inv, NEW c \in Contexts, Tell(c)
  PROVE  Inv'
  <1>1. /\ Functions'
        /\ at[c] = "telling" /\ at'[c] = "gone"
        /\ \A d \in Contexts \ {c} : at'[d] = at[d]
        /\ UNCHANGED <<scope, stack, registered>>
    BY DEF Inv, Functions, Tell, Empty
  <1>2. RegistryInv'
    BY <1>1 DEF Inv, RegistryInv, Listed, Empty
  <1>3. MainInv'
    BY <1>1 DEF Inv, MainInv, MainTold, Tell
  <1> QED
    BY <1>1, <1>2, <1>3 DEF Inv

(* Every step preserves the invariant.                                     *)
LEMMA StepInv ==
  ASSUME Inv, [Next]_vars
  PROVE  Inv'
  <1>1. CASE UNCHANGED vars
    BY <1>1, MainStep DEF vars
  <1>2. CASE MainProceeds \/ SpuriousWakeup \/ \E c \in Contexts : CoroFails(c)
    <2>1. /\ UNCHANGED <<scope, stack, at, registered>>
          /\ main' \in {"collect", "exit"} => main \in {"collect", "exit"} \/ registered = {}
      BY <1>2 DEF MainProceeds, MainExecuted, MainLooks, Collect, SpuriousWakeup,
                  CoroFails, MainTold
    <2> QED
      BY <2>1, MainStep
  <1>3. ASSUME NEW c \in Contexts, Proceed(c) \/ Call(c) \/ Return(c) \/ End(c)
        PROVE  Inv'
    BY <1>3, WorkInv, LeaveInv, TellInv DEF Proceed
  <1>4. ASSUME NEW c \in Contexts, NEW child \in Contexts, Coro(c, child)
        PROVE  Inv'
    BY <1>4, CoroInv
  <1> QED
    BY <1>1, <1>2, <1>3, <1>4 DEF Next

-----------------------------------------------------------------------------
(* Theorem.  For any number of contexts, however they start one another    *)
(* and end, vm_main collects symbol tables and destroys the pools only     *)
(* when every context has destroyed its scopes and its stacks.             *)
THEOREM PoolsAreOutlived ==
  Spec => []PoolsOutliveContexts
  <1>1. Inv => PoolsOutliveContexts
    <2> SUFFICES ASSUME Inv, main \in {"collect", "exit"}, NEW c \in Contexts
                 PROVE  /\ at[c] \in {"unborn", "telling", "gone"}
                        /\ scope[c] = NoTable /\ stack[c] = <<>>
      BY DEF PoolsOutliveContexts
    <2>1. at[c] \notin Listed
      BY DEF Inv, MainInv, RegistryInv
    <2> QED
      BY <2>1 DEF Inv, Functions, RegistryInv, Empty
  <1> QED
    BY <1>1, InitInv, StepInv, PTL DEF Spec

-----------------------------------------------------------------------------
(* Sequences and loops                                                     *)

(* Numbers have a least one among them.                                    *)
LEMMA LeastNumber ==
  ASSUME NEW T, T \subseteq Nat, T # {}
  PROVE  \E m \in T : \A i \in T : m <= i
  <1> DEFINE Less == OpToRel(<, Nat)
  <1>1. IsWellFoundedOn(Less, Nat)
    BY NatLessThanWellFounded
  <1>2. \A m, n \in Nat : m < n => <<m, n>> \in Less
    BY DEF OpToRel
  <1> HIDE DEF Less
  <1>3. PICK m \in T : \A i \in T : <<i, m>> \notin Less
    BY <1>1, WFMin
  <1>4. \A i \in T : ~ (i < m)
    BY <1>2, <1>3
  <1> QED
    BY <1>4

(* The function f has the turns of a loop 0, ..., n.                       *)
Turns(n, f) == f = [i \in 0 .. n |-> f[i]]

(* Two loops that start alike and take like turns are the same.            *)
LEMMA LoopsAgree ==
  ASSUME NEW n \in Nat, NEW f, NEW g,
         Turns(n, f), Turns(n, g), f[0] = g[0],
         \A i \in 1 .. n : f[i - 1] = g[i - 1] => f[i] = g[i]
  PROVE  f = g
  <1> DEFINE T == {i \in 0 .. n : f[i] # g[i]}
  <1>1. T \subseteq Nat
    OBVIOUS
  <1>2. T = {}
    <2> SUFFICES ASSUME T # {} PROVE FALSE
      OBVIOUS
    <2>1. PICK m \in T : \A i \in T : m <= i
      BY <1>1, LeastNumber
    <2>2. m \in 0 .. n /\ m # 0
      BY <2>1
    <2>3. m - 1 \in 0 .. n /\ m \in 1 .. n /\ ~ (m <= m - 1)
      BY <2>2
    <2>4. f[m - 1] = g[m - 1]
      BY <2>1, <2>3
    <2>5. f[m] = g[m]
      BY <2>3, <2>4
    <2> QED
      BY <2>1, <2>5
  <1>3. \A i \in 0 .. n : f[i] = g[i]
    BY <1>2
  <1> QED
    BY <1>3 DEF Turns

Elements(s) == {s[i] : i \in 1 .. Len(s)}

(* A sequence without the element at one of its positions                  *)
LEMMA RemovedAt ==
  ASSUME NEW S, NEW s \in Seq(S), NEW k \in 1 .. Len(s)
  PROVE  /\ RemoveAt(s, k) \in Seq(S)
         /\ Len(RemoveAt(s, k)) = Len(s) - 1
         /\ \A i \in 1 .. Len(s) - 1 :
              RemoveAt(s, k)[i] = IF i < k THEN s[i] ELSE s[i + 1]
  <1> DEFINE n == Len(s)
             front == SubSeq(s, 1, k - 1)
             rest == SubSeq(s, k + 1, n)
             r == RemoveAt(s, k)
  <1>1. n \in Nat /\ \A i \in 1 .. n : s[i] \in S
    BY LenProperties, ElementOfSeq
  <1>2. r = front \o rest
    BY DEF RemoveAt
  <1> HIDE DEF n, r
  <1>3. k \in 1 .. n
    BY DEF n
  <1>4. /\ front \in Seq(S) /\ Len(front) = k - 1
        /\ \A i \in 1 .. k - 1 : front[i] = s[i]
    <2>1. 1 \in Int /\ k - 1 \in Int /\ \A i \in 1 .. k - 1 : s[i] \in S
      BY <1>1, <1>3
    <2>2. /\ front \in Seq(S)
          /\ Len(front) = IF 1 <= k - 1 THEN k - 1 - 1 + 1 ELSE 0
          /\ \A i \in 1 .. k - 1 - 1 + 1 : front[i] = s[1 + i - 1]
      BY <2>1, SubSeqProperties
    <2> QED
      BY <1>1, <1>3, <2>2
  <1>5. /\ rest \in Seq(S) /\ Len(rest) = n - k
        /\ \A i \in 1 .. n - k : rest[i] = s[k + i]
    <2>1. n \in Int /\ k + 1 \in Int /\ \A i \in k + 1 .. n : s[i] \in S
      BY <1>1, <1>3
    <2>2. /\ rest \in Seq(S)
          /\ Len(rest) = IF k + 1 <= n THEN n - (k + 1) + 1 ELSE 0
          /\ \A i \in 1 .. n - (k + 1) + 1 : rest[i] = s[k + 1 + i - 1]
      BY <2>1, SubSeqProperties
    <2> QED
      BY <1>1, <1>3, <2>2
  <1> HIDE DEF front, rest
  <1>6. /\ r \in Seq(S)
        /\ Len(r) = Len(front) + Len(rest)
        /\ \A i \in 1 .. Len(front) + Len(rest) :
             r[i] = IF i <= Len(front) THEN front[i] ELSE rest[i - Len(front)]
    <2>1. front \in Seq(S) /\ rest \in Seq(S)
      BY <1>4, <1>5
    <2> QED
      BY <1>2, <2>1, ConcatProperties, Zenon
  <1>7. Len(r) = n - 1
    BY <1>1, <1>3, <1>4, <1>5, <1>6
  <1>8. ASSUME NEW i \in 1 .. n - 1
        PROVE  r[i] = IF i < k THEN s[i] ELSE s[i + 1]
    <2>1. CASE i < k
      <3>1. i \in 1 .. k - 1 /\ i \in 1 .. Len(front) + Len(rest) /\ i <= Len(front)
        BY <1>1, <1>3, <1>4, <1>5, <2>1
      <3> QED
        BY <1>4, <1>6, <2>1, <3>1
    <2>2. CASE i >= k
      <3>1. /\ i + 1 - k \in 1 .. n - k /\ i \in 1 .. Len(front) + Len(rest)
            /\ ~ (i <= Len(front)) /\ i - Len(front) = i + 1 - k /\ k + (i + 1 - k) = i + 1
            /\ ~ (i < k)
        BY <1>1, <1>3, <1>4, <1>5, <2>2
      <3> QED
        BY <1>5, <1>6, <3>1, SMTT(30)
    <2> QED
      BY <1>3, <2>1, <2>2
  <1> QED
    BY <1>6, <1>7, <1>8 DEF n, r

(* The registry without one of its tables                                  *)
LEMMA Removal ==
  ASSUME NEW S, NEW s \in Seq(S), NEW e, \E i \in 1 .. Len(s) : s[i] = e,
         \A i, j \in 1 .. Len(s) : s[i] = s[j] => i = j
  PROVE  /\ RemoveFirst(s, e) \in Seq(S)
         /\ Elements(RemoveFirst(s, e)) = Elements(s) \ {e}
         /\ \A i, j \in 1 .. Len(RemoveFirst(s, e)) :
              RemoveFirst(s, e)[i] = RemoveFirst(s, e)[j] => i = j
  <1> DEFINE I == {i \in 1 .. Len(s) : s[i] = e}
             k == Min(I)
             r == RemoveFirst(s, e)
             n == Len(s)
  <1>1. r = RemoveAt(s, k)
    BY DEF RemoveFirst, SelectInSeq
  <1>2. n \in Nat
    BY LenProperties
  <1>3. k \in 1 .. n /\ s[k] = e
    <2>1. I \subseteq Nat /\ I # {}
      BY <1>2
    <2>2. \E m \in I : \A i \in I : m <= i
      <3> HIDE DEF I
      <3> QED
        BY <2>1, LeastNumber
    <2>3. k \in I
      BY <2>2 DEF Min
    <2> QED
      BY <2>3
  <1> HIDE DEF k, I, r
  <1>4. /\ r \in Seq(S) /\ Len(r) = n - 1
        /\ \A i \in 1 .. n - 1 : r[i] = IF i < k THEN s[i] ELSE s[i + 1]
    BY <1>1, <1>3, RemovedAt, ZenonT(60)
  <1>5. \A i, j \in 1 .. n : s[i] = s[j] => i = j
    OBVIOUS
  <1> HIDE DEF n
  <1>6. ASSUME NEW i \in 1 .. Len(r), NEW j \in 1 .. Len(r), r[i] = r[j]
        PROVE  i = j
    <2> DEFINE f(q) == IF q < k THEN q ELSE q + 1
    <2>1. /\ f(i) \in 1 .. n /\ f(j) \in 1 .. n
          /\ r[i] = s[f(i)] /\ r[j] = s[f(j)]
      BY <1>2, <1>3, <1>4
    <2>2. f(i) = f(j)
      BY <1>5, <1>6, <2>1, Zenon
    <2> QED
      BY <1>2, <1>3, <1>4, <2>2
  <1>7. {r[i] : i \in 1 .. Len(r)} = {s[i] : i \in 1 .. n} \ {e}
    <2>1. ASSUME NEW i \in 1 .. Len(r)
          PROVE  r[i] \in {s[j] : j \in 1 .. n} \ {e}
      <3> DEFINE q == IF i < k THEN i ELSE i + 1
      <3>1. q \in 1 .. n /\ q # k /\ r[i] = s[q]
        BY <1>2, <1>3, <1>4, SMTT(30)
      <3>2. s[q] # e
        BY <1>3, <1>5, <3>1, Zenon
      <3> QED
        BY <3>1, <3>2, Zenon
    <2>2. ASSUME NEW j \in 1 .. n, s[j] # e
          PROVE  \E i \in 1 .. Len(r) : r[i] = s[j]
      <3>1. CASE j < k
        BY <1>2, <1>3, <1>4, <3>1
      <3>2. CASE j > k
        <4>1. j - 1 \in 1 .. Len(r) /\ r[j - 1] = s[j]
          BY <1>2, <1>3, <1>4, <3>2
        <4> QED
          BY <4>1
      <3> QED
        BY <1>2, <1>3, <2>2, <3>1, <3>2
    <2> QED
      BY <2>1, <2>2, SMTT(30)
  <1> QED
    BY <1>4, <1>6, <1>7 DEF r, n, Elements
(* The counts when a table loses its last reference, p being its parent   *)
LEMMA LastReference ==
  ASSUME NEW D, NEW R \in [D -> Nat], NEW n \in D, NEW p
  PROVE  /\ p \in D =>
              [q \in D |-> IF q = n THEN 0 ELSE IF q = p THEN R[q] - 1 ELSE R[q]]
                = [[R EXCEPT ![p] = @ - 1] EXCEPT ![n] = 0]
         /\ p \notin D =>
              [q \in D |-> IF q = n THEN 0 ELSE IF q = p THEN R[q] - 1 ELSE R[q]]
                = [R EXCEPT ![n] = 0]
  OBVIOUS

(* The counts when a table n is created by a call, s being its parent      *)
GivenChild(D, R, n, s) ==
  [q \in D |-> IF q = n THEN 1 ELSE IF q = s THEN R[q] + 2 ELSE R[q]]

LEMMA NewReferences ==
  ASSUME NEW D, NEW R \in [D -> Nat], NEW n \in D, NEW s, s # n
  PROVE  /\ s \in D =>
              GivenChild(D, R, n, s)
                = [[[R EXCEPT ![s] = @ + 1] EXCEPT ![s] = @ + 1] EXCEPT ![n] = 1]
         /\ s \notin D => GivenChild(D, R, n, s) = [R EXCEPT ![n] = 1]
         /\ GivenChild(D, R, n, s) \in [D -> Nat]
  <1>1. CASE s \in D
    <2> DEFINE one == [R EXCEPT ![s] = @ + 1]
               two == [one EXCEPT ![s] = @ + 1]
               all == [two EXCEPT ![n] = 1]
    <2>1. one = [q \in D |-> IF q = s THEN R[q] + 1 ELSE R[q]]
      OBVIOUS
    <2> HIDE DEF one
    <2>2. two = [q \in D |-> IF q = s THEN R[q] + 2 ELSE R[q]]
      BY <1>1, <2>1
    <2> HIDE DEF two
    <2>3. all = [q \in D |-> IF q = n THEN 1 ELSE IF q = s THEN R[q] + 2 ELSE R[q]]
      BY <1>1, <2>2
    <2> QED
      BY <1>1, <2>3 DEF one, two, GivenChild
  <1>2. CASE s \notin D
    BY <1>2 DEF GivenChild
  <1> QED
    BY <1>1, <1>2 DEF GivenChild

-----------------------------------------------------------------------------
(* What the operations do to the symbol tables                             *)

(* The tables numbered up to top, each listed at most once.                *)
Tables(top) ==
  {ts \in [refs : [1 .. MaxTables -> Nat], parent : [1 .. MaxTables -> 0 .. top],
           registry : Seq(1 .. top)] :
     \A i, j \in 1 .. Len(ts.registry) : ts.registry[i] = ts.registry[j] => i = j}

Listing(ts) == Elements(ts.registry)

(* The fields of a group of tables                                         *)
LEMMA TableFields ==
  ASSUME NEW top, NEW ts \in Tables(top)
  PROVE  /\ ts = [refs |-> ts.refs, parent |-> ts.parent, registry |-> ts.registry]
         /\ ts.refs \in [1 .. MaxTables -> Nat]
         /\ ts.parent \in [1 .. MaxTables -> 0 .. top]
         /\ ts.registry \in Seq(1 .. top)
         /\ Listing(ts) \subseteq 1 .. top
  <1>1. /\ ts \in [refs : [1 .. MaxTables -> Nat], parent : [1 .. MaxTables -> 0 .. top],
                   registry : Seq(1 .. top)]
    BY DEF Tables
  <1>2. ts.registry \in Seq(1 .. top)
    BY <1>1
  <1>3. \A i \in 1 .. Len(ts.registry) : ts.registry[i] \in 1 .. top
    BY <1>2, ElementOfSeq
  <1> QED
    BY <1>1, <1>3 DEF Listing, Elements

(* Tables from their fields                                                *)
LEMMA TableRecord ==
  ASSUME NEW top, NEW refs \in [1 .. MaxTables -> Nat],
         NEW parent \in [1 .. MaxTables -> 0 .. top], NEW registry \in Seq(1 .. top),
         \A i, j \in 1 .. Len(registry) : registry[i] = registry[j] => i = j
  PROVE  [refs |-> refs, parent |-> parent, registry |-> registry] \in Tables(top)
  BY DEF Tables

(* A table keeps references                                                *)
LEMMA DestroyedShared ==
  ASSUME NEW top, NEW ts \in Tables(top), NEW n \in 1 .. MaxTables, ts.refs[n] > 1
  PROVE  Destroyed(ts, n) = [refs |-> [ts.refs EXCEPT ![n] = @ - 1],
                             parent |-> ts.parent, registry |-> ts.registry]
  <1>1. Destroyed(ts, n) = [ts EXCEPT !.refs[n] = @ - 1]
    BY ScopesAssumption, TableFields DEF Destroyed, NoTable
  <1> QED
    BY <1>1, TableFields, SMTT(30)

(* The last reference of a table                                           *)
LEMMA DestroyedLast ==
  ASSUME NEW top, top \in 0 .. MaxTables, NEW ts \in Tables(top), NEW n \in Listing(ts),
         ts.refs[n] = 1,
         ts.parent[n] # NoTable => ts.refs[ts.parent[n]] > 0
  PROVE  /\ Destroyed(ts, n) \in Tables(top)
         /\ Destroyed(ts, n).refs =
              [q \in 1 .. MaxTables |-> IF q = n THEN 0
                                        ELSE IF q = ts.parent[n] THEN ts.refs[q] - 1
                                        ELSE ts.refs[q]]
         /\ Destroyed(ts, n).parent = [ts.parent EXCEPT ![n] = NoTable]
         /\ Listing(Destroyed(ts, n)) = Listing(ts) \ {n}
  <1> DEFINE p == ts.parent[n]
             d == Destroyed(ts, n)
             refs == [q \in 1 .. MaxTables |-> IF q = n THEN 0
                                               ELSE IF q = p THEN ts.refs[q] - 1
                                               ELSE ts.refs[q]]
  <1>1. /\ ts = [refs |-> ts.refs, parent |-> ts.parent, registry |-> ts.registry]
        /\ ts.refs \in [1 .. MaxTables -> Nat]
        /\ ts.parent \in [1 .. MaxTables -> 0 .. top]
        /\ ts.registry \in Seq(1 .. top)
        /\ n \in 1 .. top
    BY TableFields
  <1>2. /\ MaxTables \in Nat /\ top \in Nat
        /\ n \in 1 .. MaxTables /\ p \in 0 .. top /\ p \in 0 .. MaxTables /\ n # NoTable
    BY <1>1, ScopesAssumption DEF NoTable
  <1>3. d = [refs |-> refs, parent |-> [ts.parent EXCEPT ![n] = NoTable],
             registry |-> RemoveFirst(ts.registry, n)]
    <2>1. CASE p = NoTable
      <3>1. d = [ts EXCEPT !.refs[n] = 0, !.parent[n] = NoTable,
                           !.registry = RemoveFirst(@, n)]
        BY <1>2, <2>1 DEF Destroyed
      <3>2. refs = [ts.refs EXCEPT ![n] = 0]
        <4>1. p \notin 1 .. MaxTables
          BY <2>1 DEF NoTable
        <4> QED
          BY <1>1, <1>2, <4>1, LastReference, ZenonT(60)
      <3> HIDE DEF d, refs
      <3> QED
        BY <1>1, <3>1, <3>2
    <2>2. CASE p # NoTable
      <3> DEFINE kept == [ts EXCEPT !.refs[p] = @ - 1]
      <3>1. d = [kept EXCEPT !.refs[n] = 0, !.parent[n] = NoTable,
                             !.registry = RemoveFirst(@, n)]
        BY <1>2, <2>2 DEF Destroyed
      <3>2. kept = [refs |-> [ts.refs EXCEPT ![p] = @ - 1], parent |-> ts.parent,
                    registry |-> ts.registry]
        BY <1>1
      <3>3. refs = [[ts.refs EXCEPT ![p] = @ - 1] EXCEPT ![n] = 0]
        <4>1. p \in 1 .. MaxTables
          BY <1>2, <2>2 DEF NoTable
        <4> QED
          BY <1>1, <1>2, <4>1, LastReference, Zenon
      <3> HIDE DEF d, refs, kept
      <3> QED
        BY <1>1, <3>1, <3>2, <3>3
    <2> QED
      BY <2>1, <2>2
  <1>4. refs \in [1 .. MaxTables -> Nat]
    <2> SUFFICES ASSUME NEW q \in 1 .. MaxTables
                 PROVE  (IF q = n THEN 0 ELSE IF q = p THEN ts.refs[q] - 1 ELSE ts.refs[q])
                          \in Nat
      OBVIOUS
    <2>1. p # NoTable => ts.refs[p] > 0
      OBVIOUS
    <2> QED
      BY <1>1, <1>2, <2>1, SMTT(30) DEF NoTable
  <1>5. [ts.parent EXCEPT ![n] = NoTable] \in [1 .. MaxTables -> 0 .. top]
    BY <1>1, <1>2 DEF NoTable
  <1>6. /\ RemoveFirst(ts.registry, n) \in Seq(1 .. top)
        /\ Elements(RemoveFirst(ts.registry, n)) = Elements(ts.registry) \ {n}
        /\ \A i, j \in 1 .. Len(RemoveFirst(ts.registry, n)) :
             RemoveFirst(ts.registry, n)[i] = RemoveFirst(ts.registry, n)[j] => i = j
    <2>1. \E i \in 1 .. Len(ts.registry) : ts.registry[i] = n
      BY DEF Listing, Elements
    <2>2. \A i, j \in 1 .. Len(ts.registry) : ts.registry[i] = ts.registry[j] => i = j
      BY DEF Tables
    <2> QED
      BY <1>1, <2>1, <2>2, Removal
  <1> HIDE DEF refs, d, p
  <1>7. /\ d.refs = refs /\ d.parent = [ts.parent EXCEPT ![n] = NoTable]
        /\ d.registry = RemoveFirst(ts.registry, n)
    BY <1>3
  <1>9. d \in Tables(top)
    BY <1>3, <1>4, <1>5, <1>6, TableRecord
  <1>10. Listing(d) = Listing(ts) \ {n}
    BY <1>6, <1>7 DEF Listing
  <1> QED
    BY <1>7, <1>9, <1>10 DEF refs, d, p

(* No table                                                                *)
LEMMA DestroyedNone ==
  ASSUME NEW ts
  PROVE  Destroyed(ts, NoTable) = ts
  BY DEF Destroyed

(* A new table, referred to by its parent                                  *)
IsCreated(ts, d, n, s) ==
  /\ d \in Tables(n)
  /\ d.refs = GivenChild(1 .. MaxTables, ts.refs, n, s)
  /\ d.parent = [ts.parent EXCEPT ![n] = s]
  /\ Listing(d) = Listing(ts) \cup {n}

LEMMA CreatedTable ==
  ASSUME NEW top, top \in Nat, NEW n, n = top + 1, n <= MaxTables, NEW ts \in Tables(top),
         NEW s \in 0 .. top, NEW d, d = Created(Referenced(ts, s), n, s)
  PROVE  IsCreated(ts, d, n, s)
  <1> DEFINE one == Referenced(ts, s)
             two == Referenced(one, s)
             refs == GivenChild(1 .. MaxTables, ts.refs, n, s)
  <1>1. /\ ts = [refs |-> ts.refs, parent |-> ts.parent, registry |-> ts.registry]
        /\ ts.refs \in [1 .. MaxTables -> Nat]
        /\ ts.parent \in [1 .. MaxTables -> 0 .. top]
        /\ ts.registry \in Seq(1 .. top)
        /\ Listing(ts) \subseteq 1 .. top
    BY TableFields
  <1>2. /\ MaxTables \in Nat
        /\ n \in 1 .. MaxTables /\ s \in 0 .. MaxTables /\ s # n /\ 0 .. top \subseteq 0 .. n
    BY ScopesAssumption
  <1>16. d = Created(one, n, s)
    OBVIOUS
  <1>3. one.parent = ts.parent /\ one.registry = ts.registry
    BY <1>1 DEF Referenced
  <1>4. [two.refs EXCEPT ![n] = 1] = refs
    <2>1. CASE s = NoTable
      <3>1. two = ts
        BY <2>1 DEF Referenced
      <3>2. s \notin 1 .. MaxTables
        BY <2>1 DEF NoTable
      <3> HIDE DEF one, two
      <3>3. refs = [ts.refs EXCEPT ![n] = 1]
        BY <1>1, <1>2, <3>2 DEF GivenChild
      <3> HIDE DEF refs
      <3> QED
        BY <3>1, <3>3
    <2>2. CASE s # NoTable
      <3>1. one = [refs |-> [ts.refs EXCEPT ![s] = @ + 1], parent |-> ts.parent,
                   registry |-> ts.registry]
        BY <1>1, <2>2 DEF Referenced
      <3>2. two = [one EXCEPT !.refs[s] = @ + 1]
        BY <2>2 DEF Referenced
      <3> HIDE DEF one, two
      <3>3. two.refs = [[ts.refs EXCEPT ![s] = @ + 1] EXCEPT ![s] = @ + 1]
        BY <3>1, <3>2
      <3>4. s \in 1 .. MaxTables
        BY <1>2, <2>2 DEF NoTable
      <3>5. refs = [[[ts.refs EXCEPT ![s] = @ + 1] EXCEPT ![s] = @ + 1] EXCEPT ![n] = 1]
        BY <1>1, <1>2, <3>4, NewReferences, SMTT(30)
      <3> HIDE DEF refs
      <3> QED
        BY <3>3, <3>5
    <2> QED
      BY <2>1, <2>2
  <1>5. d = [refs |-> refs, parent |-> [ts.parent EXCEPT ![n] = s],
             registry |-> <<n>> \o ts.registry]
    BY <1>3, <1>4, <1>16 DEF Created
  <1> HIDE DEF one, two
  <1>6. refs \in [1 .. MaxTables -> Nat]
    BY <1>1, <1>2, NewReferences
  <1>7. [ts.parent EXCEPT ![n] = s] \in [1 .. MaxTables -> 0 .. n]
    BY <1>1, <1>2
  <1> DEFINE r == <<n>> \o ts.registry
  <1>15. d = [refs |-> refs, parent |-> [ts.parent EXCEPT ![n] = s], registry |-> r]
    BY <1>5
  <1>8. Len(ts.registry) \in Nat /\ ts.registry \in Seq(1 .. n)
        /\ \A i \in 1 .. Len(ts.registry) : ts.registry[i] \in 1 .. top
    <2>1. 1 .. top \subseteq 1 .. n
      BY <1>2
    <2> QED
      BY <1>1, <2>1, LenProperties, ElementOfSeq, SeqMonotonic
  <1>9. /\ r \in Seq(1 .. n) /\ Len(r) = Len(ts.registry) + 1
        /\ \A i \in 1 .. Len(r) : r[i] = IF i = 1 THEN n ELSE ts.registry[i - 1]
    <2> DEFINE front == <<n>>
    <2>1. front \in Seq(1 .. n) /\ Len(front) = 1 /\ front[1] = n
      BY <1>2
    <2> HIDE DEF front
    <2>2. /\ front \o ts.registry \in Seq(1 .. n)
          /\ Len(front \o ts.registry) = Len(front) + Len(ts.registry)
          /\ \A i \in 1 .. Len(front) + Len(ts.registry) : (front \o ts.registry)[i] =
                  IF i <= Len(front) THEN front[i] ELSE ts.registry[i - Len(front)]
      BY <1>8, <2>1, ConcatProperties, ZenonT(60)
    <2>3. r = front \o ts.registry
      BY DEF front
    <2> HIDE DEF r
    <2> QED
      BY <1>8, <2>1, <2>2, <2>3, SMTT(30)
  <1> HIDE DEF r, refs
  <1>10. n \notin 1 .. top
    OBVIOUS
  <1>11. ASSUME NEW i \in 1 .. Len(r), NEW j \in 1 .. Len(r), r[i] = r[j]
         PROVE  i = j
    <2>1. \A h, l \in 1 .. Len(ts.registry) : ts.registry[h] = ts.registry[l] => h = l
      BY DEF Tables
    <2>2. CASE i = 1 \/ j = 1
      <3>1. ASSUME NEW h \in 1 .. Len(r), h # 1
            PROVE  r[h] # n
        <4>1. h - 1 \in 1 .. Len(ts.registry) /\ r[h] = ts.registry[h - 1]
          BY <1>8, <1>9, <3>1
        <4> QED
          BY <1>8, <1>10, <4>1
      <3>2. \A h \in 1 .. Len(r) : h = 1 => r[h] = n
        BY <1>9
      <3> QED
        BY <1>11, <2>2, <3>1, <3>2
    <2>3. CASE i # 1 /\ j # 1
      <3>1. i - 1 \in 1 .. Len(ts.registry) /\ j - 1 \in 1 .. Len(ts.registry)
        BY <1>8, <1>9, <2>3
      <3>2. ts.registry[i - 1] = ts.registry[j - 1]
        BY <1>9, <1>11, <2>3
      <3>3. i - 1 = j - 1
        BY <2>1, <3>1, <3>2
      <3> QED
        BY <1>8, <1>9, <3>3
    <2> QED
      BY <2>2, <2>3
  <1>12. d.refs = refs /\ d.parent = [ts.parent EXCEPT ![n] = s] /\ d.registry = r
    BY <1>15
  <1>13. d \in Tables(n)
    <2>1. \A i, j \in 1 .. Len(r) : r[i] = r[j] => i = j
      BY <1>11
    <2> QED
      <3> DEFINE P == [ts.parent EXCEPT ![n] = s]
      <3>1. P \in [1 .. MaxTables -> 0 .. n] /\ r \in Seq(1 .. n)
        BY <1>7, <1>9
      <3> HIDE DEF P
      <3>2. [refs |-> refs, parent |-> P, registry |-> r] \in Tables(n)
        BY <1>6, <2>1, <3>1, TableRecord
      <3> QED
        BY <1>15, <3>2 DEF P
  <1>14. Listing(d) = Listing(ts) \cup {n}
    <2>1. ASSUME NEW i \in 1 .. Len(r)
          PROVE  r[i] \in Elements(ts.registry) \cup {n}
      <3>1. CASE i = 1
        BY <1>9, <3>1
      <3>2. CASE i # 1
        <4>1. i - 1 \in 1 .. Len(ts.registry) /\ r[i] = ts.registry[i - 1]
          BY <1>8, <1>9, <3>2
        <4> QED
          BY <4>1 DEF Elements
      <3> QED
        BY <3>1, <3>2
    <2>2. 1 \in 1 .. Len(r) /\ r[1] = n
      BY <1>8, <1>9
    <2>3. ASSUME NEW j \in 1 .. Len(ts.registry)
          PROVE  \E i \in 1 .. Len(r) : r[i] = ts.registry[j]
      <3>1. j + 1 \in 1 .. Len(r) /\ j + 1 # 1 /\ j + 1 - 1 = j
        BY <1>8, <1>9
      <3>2. r[j + 1] = ts.registry[(j + 1) - 1]
        BY <1>9, <3>1
      <3>3. r[j + 1] = ts.registry[j]
        BY <3>1, <3>2, SMTT(30)
      <3> QED
        BY <3>1, <3>3
    <2>4. Elements(r) \subseteq Elements(ts.registry) \cup {n}
      BY <2>1 DEF Elements
    <2>5. n \in Elements(r) /\ Elements(ts.registry) \subseteq Elements(r)
      BY <2>2, <2>3, SMTT(30) DEF Elements
    <2> QED
      BY <1>12, <2>4, <2>5 DEF Listing
  <1> QED
    BY <1>12, <1>13, <1>14 DEF refs, IsCreated

(* One call of vm_end_scope is enough when the scope to return to is the   *)
(* parent.                                                                 *)
LEMMA EndedOne ==
  ASSUME NEW ts, NEW n, NEW top, n # NoTable, n # top, ts.parent[n] = top, MaxTables >= 1
  PROVE  Ended(ts, n, top) = [tables |-> Destroyed(ts, n), scope |-> top]
  <1> DEFINE first == [tables |-> ts, scope |-> n]
             last == [tables |-> Destroyed(ts, n), scope |-> top]
             Step(s) == IF s.scope = NoTable \/ s.scope = top THEN s
                        ELSE [tables |-> Destroyed(s.tables, s.scope),
                              scope  |-> s.tables.parent[s.scope]]
             Equation(g) == g = [i \in 0 .. MaxTables |-> IF i = 0 THEN first ELSE Step(g[i - 1])]
             f == CHOOSE g : Equation(g)
             g == [i \in 0 .. MaxTables |-> IF i = 0 THEN first ELSE last]
  <1>1. Ended(ts, n, top) = f[MaxTables]
    BY Zenon DEF Ended
  <1>2. MaxTables \in Nat
    BY ScopesAssumption
  <1>3. Step(first) = last /\ Step(last) = last
    OBVIOUS
  <1> HIDE DEF first, last, Step
  <1>4. \A i \in 0 .. MaxTables : g[i] = IF i = 0 THEN first ELSE Step(g[i - 1])
    BY <1>2, <1>3
  <1>5. Equation(g)
    BY <1>4
  <1>6. Equation(f)
    BY <1>5, Zenon
  <1>7. \A i \in 0 .. MaxTables : f[i] = IF i = 0 THEN first ELSE Step(f[i - 1])
    BY <1>6
  <1>8. Turns(MaxTables, f) /\ Turns(MaxTables, g)
    BY <1>6 DEF Turns
  <1> HIDE DEF f, g
  <1>9. f = g
    <2>1. f[0] = g[0]
      BY <1>2, <1>4, <1>7
    <2>2. ASSUME NEW i \in 1 .. MaxTables, f[i - 1] = g[i - 1]
          PROVE  f[i] = g[i]
      <3>1. i \in 0 .. MaxTables /\ i # 0
        BY <1>2
      <3>2. f[i] = Step(f[i - 1]) /\ g[i] = Step(g[i - 1])
        BY <1>4, <1>7, <3>1
      <3> QED
        BY <2>2, <3>2
    <2> QED
      BY <1>2, <1>8, <2>1, <2>2, LoopsAgree
  <1> QED
    BY <1>1, <1>2, <1>9 DEF g, last

(* The return stack of c is given back: its entries are distinct tables    *)
(* with a reference each besides their own.                                *)
IsUnwound(u, ts, states, k, top) ==
  /\ u \in Tables(top) /\ u.parent = ts.parent /\ u.registry = ts.registry
  /\ \A q \in 1 .. MaxTables :
       u.refs[q] = IF \E i \in 1 .. k : states[i].top = q THEN ts.refs[q] - 1
                   ELSE ts.refs[q]

LEMMA UnwoundEffect ==
  ASSUME NEW top, top \in 0 .. MaxTables, NEW ts \in Tables(top),
         NEW states, NEW k \in Nat, Len(states) = k,
         \A i \in 1 .. k : states[i].top \in 0 .. top,
         \A i, j \in 1 .. k :
           states[i].top = states[j].top => i = j \/ states[i].top = NoTable,
         \A i \in 1 .. k : states[i].top # NoTable => ts.refs[states[i].top] > 1
  PROVE  IsUnwound(Unwound(ts, states), ts, states, k, top)
  <1> DEFINE Given(j, q) == \E i \in k + 1 - j .. k : states[i].top = q
             refs(j) == [q \in 1 .. MaxTables |->
                           IF Given(j, q) THEN ts.refs[q] - 1 ELSE ts.refs[q]]
             After(j) == [refs |-> refs(j), parent |-> ts.parent, registry |-> ts.registry]
             Entry(j) == states[k + 1 - j].top
             Equation(g) ==
               g = [i \in 0 .. k |-> IF i = 0 THEN ts ELSE Destroyed(g[i - 1], Entry(i))]
             f == CHOOSE g : Equation(g)
             g == [i \in 0 .. k |-> After(i)]
  <1>1. Unwound(ts, states) = f[k]
    BY Zenon DEF Unwound
  <1>2. /\ MaxTables \in Nat /\ top \in Nat
        /\ ts = [refs |-> ts.refs, parent |-> ts.parent, registry |-> ts.registry]
        /\ ts.refs \in [1 .. MaxTables -> Nat]
        /\ ts.parent \in [1 .. MaxTables -> 0 .. top]
        /\ ts.registry \in Seq(1 .. top)
        /\ \A i, j \in 1 .. Len(ts.registry) : ts.registry[i] = ts.registry[j] => i = j
    BY ScopesAssumption, TableFields, SMTT(30) DEF Tables
  <1>3. \A j \in 0 .. k : refs(j) \in [1 .. MaxTables -> Nat]
    <2> SUFFICES ASSUME NEW j \in 0 .. k, NEW q \in 1 .. MaxTables
                 PROVE  (IF Given(j, q) THEN ts.refs[q] - 1 ELSE ts.refs[q]) \in Nat
      OBVIOUS
    <2>1. ts.refs[q] \in Nat
      BY <1>2
    <2>2. CASE Given(j, q)
      <3>1. PICK i \in k + 1 - j .. k : states[i].top = q
        BY <2>2
      <3>2. i \in 1 .. k /\ q # NoTable
        BY <3>1 DEF NoTable
      <3>3. ts.refs[q] > 1
        BY <3>1, <3>2
      <3> QED
        BY <2>1, <2>2, <3>3
    <2> QED
      BY <2>1, <2>2
  <1>4. After(0) = ts
    <2>1. \A q : ~ Given(0, q)
      OBVIOUS
    <2>2. refs(0) = ts.refs
      BY <1>2, <2>1
    <2> QED
      BY <1>2, <2>2
  <1>5. \A j \in 0 .. k : After(j) \in Tables(top)
    BY <1>2, <1>3, TableRecord
  <1>6. ASSUME NEW j \in 1 .. k
        PROVE  After(j) = Destroyed(After(j - 1), Entry(j))
    <2>1. /\ j \in 0 .. k /\ j - 1 \in 0 .. k /\ k + 1 - j \in 1 .. k
          /\ k + 1 - j .. k = {k + 1 - j} \cup (k + 1 - (j - 1) .. k)
      OBVIOUS
    <2>2. \A q : Given(j, q) <=> Given(j - 1, q) \/ q = Entry(j)
      BY <2>1
    <2>3. CASE Entry(j) = NoTable
      <3>1. \A q \in 1 .. MaxTables : Given(j, q) <=> Given(j - 1, q)
        BY <2>2, <2>3, SMTT(30) DEF NoTable
      <3> HIDE DEF Given
      <3>2. refs(j) = refs(j - 1)
        BY <3>1
      <3> HIDE DEF refs, Entry
      <3> QED
        BY <2>3, <3>2, DestroyedNone
    <2>4. CASE Entry(j) # NoTable
      <3> DEFINE e == Entry(j)
      <3>1. e \in 1 .. MaxTables /\ ts.refs[e] > 1
        BY <1>2, <2>1, <2>4, SMTT(30) DEF NoTable
      <3>2. ~ Given(j - 1, e)
        <4> SUFFICES ASSUME NEW i \in k + 1 - (j - 1) .. k, states[i].top = e
                     PROVE  FALSE
          OBVIOUS
        <4>1. i \in 1 .. k /\ i # k + 1 - j
          BY <2>1
        <4> QED
          BY <2>1, <2>4, <4>1
      <3> HIDE DEF Given, e
      <3>3. refs(j - 1)[e] = ts.refs[e]
        BY <3>1, <3>2
      <3>4. \A q \in 1 .. MaxTables : Given(j, q) <=> Given(j - 1, q) \/ q = e
        BY <2>2 DEF e
      <3>5. refs(j) = [refs(j - 1) EXCEPT ![e] = @ - 1]
        BY <1>2, <3>1, <3>2, <3>4
      <3> DEFINE before == After(j - 1)
      <3>6. before \in Tables(top) /\ before.refs = refs(j - 1)
            /\ before.parent = ts.parent /\ before.registry = ts.registry
        BY <1>5, <2>1
      <3> HIDE DEF before, refs
      <3>7. Destroyed(before, e) = [refs |-> [before.refs EXCEPT ![e] = @ - 1],
                                    parent |-> before.parent, registry |-> before.registry]
        BY <3>1, <3>3, <3>6, DestroyedShared
      <3> QED
        BY <3>5, <3>6, <3>7 DEF before, e
    <2> QED
      BY <2>3, <2>4
  <1> HIDE DEF After, Entry
  <1>7. \A i \in 0 .. k : g[i] = IF i = 0 THEN ts ELSE Destroyed(g[i - 1], Entry(i))
    <2> SUFFICES ASSUME NEW i \in 0 .. k
                 PROVE  g[i] = IF i = 0 THEN ts ELSE Destroyed(g[i - 1], Entry(i))
      OBVIOUS
    <2>1. CASE i = 0
      BY <1>4, <2>1
    <2>2. CASE i # 0
      <3>1. i \in 1 .. k /\ i - 1 \in 0 .. k
        BY <2>2
      <3>2. g[i] = After(i) /\ g[i - 1] = After(i - 1)
        BY <3>1
      <3> QED
        BY <1>6, <2>2, <3>1, <3>2
    <2> QED
      BY <2>1, <2>2
  <1>8. Equation(g)
    BY <1>7
  <1>9. Equation(f)
    BY <1>8, Zenon
  <1>10. \A i \in 0 .. k : f[i] = IF i = 0 THEN ts ELSE Destroyed(f[i - 1], Entry(i))
    BY <1>9
  <1>11. Turns(k, f) /\ Turns(k, g)
    BY <1>9 DEF Turns
  <1> HIDE DEF f
  <1>12. f = g
    <2> HIDE DEF g
    <2>1. f[0] = g[0]
      BY <1>7, <1>10
    <2>2. ASSUME NEW i \in 1 .. k, f[i - 1] = g[i - 1]
          PROVE  f[i] = g[i]
      <3>1. i \in 0 .. k /\ i # 0
        OBVIOUS
      <3>2. f[i] = Destroyed(f[i - 1], Entry(i)) /\ g[i] = Destroyed(g[i - 1], Entry(i))
        BY <1>7, <1>10, <3>1
      <3> QED
        BY <2>2, <3>2
    <2> QED
      BY <1>11, <2>1, <2>2, LoopsAgree
  <1>13. Unwound(ts, states) = After(k)
    BY <1>1, <1>12
  <1>14. /\ After(k) \in Tables(top) /\ After(k).parent = ts.parent
         /\ After(k).registry = ts.registry /\ After(k).refs = refs(k)
    <2>1. k \in 0 .. k
      OBVIOUS
    <2> QED
      BY <1>5, <2>1 DEF After
  <1>15. \A q : Given(k, q) <=> \E i \in 1 .. k : states[i].top = q
    <2>1. k + 1 - k = 1
      OBVIOUS
    <2> QED
      BY <2>1
  <1> HIDE DEF Given
  <1> QED
    BY <1>13, <1>14, <1>15 DEF IsUnwound

(* Nothing is collected while every listed table is referred to.           *)
LEMMA NothingCollected ==
  ASSUME NEW top, NEW ts \in Tables(top), top \in 0 .. MaxTables,
         \A n \in Listing(ts) : ts.refs[n] > 0
  PROVE  Collected(ts) = ts
  <1> DEFINE Step(s) == IF s.registry = <<>> THEN s
                        ELSE IF s.refs[Head(s.registry)] > 0 THEN s
                        ELSE LET p == s.parent[Head(s.registry)]
                             IN [refs |-> IF p = NoTable THEN s.refs
                                          ELSE [s.refs EXCEPT ![p] = @ - 1],
                                 parent |-> s.parent,
                                 registry |-> Tail(s.registry)]
             k == Len(ts.registry)
             Equation(g) == g = [i \in 0 .. k |-> IF i = 0 THEN ts ELSE Step(g[i - 1])]
             f == CHOOSE g : Equation(g)
             g == [i \in 0 .. k |-> ts]
  <1>1. Collected(ts) = f[k]
    BY Zenon DEF Collected
  <1>2. k \in Nat /\ ts.registry \in Seq(1 .. top)
    BY TableFields, LenProperties, SMTT(30)
  <1>3. Step(ts) = ts
    <2>1. CASE ts.registry = <<>>
      BY <2>1, Zenon
    <2>2. CASE ts.registry # <<>>
      <3>1. Len(ts.registry) # 0 /\ Head(ts.registry) = ts.registry[1]
        BY <1>2, <2>2, EmptySeq
      <3>2. Head(ts.registry) \in Listing(ts)
        BY <1>2, <3>1 DEF Listing, Elements
      <3> QED
        BY <3>2
    <2> QED
      BY <2>1, <2>2
  <1> HIDE DEF Step, k
  <1>4. \A i \in 0 .. k : g[i] = IF i = 0 THEN ts ELSE Step(g[i - 1])
    BY <1>2, <1>3
  <1>5. Equation(g)
    BY <1>4
  <1>6. Equation(f)
    BY <1>5, Zenon
  <1>7. \A i \in 0 .. k : f[i] = IF i = 0 THEN ts ELSE Step(f[i - 1])
    BY <1>6
  <1>8. Turns(k, f) /\ Turns(k, g)
    BY <1>6 DEF Turns
  <1> HIDE DEF f
  <1>9. f = g
    <2> HIDE DEF g
    <2>1. f[0] = g[0]
      BY <1>2, <1>4, <1>7
    <2>2. ASSUME NEW i \in 1 .. k, f[i - 1] = g[i - 1]
          PROVE  f[i] = g[i]
      <3>1. i \in 0 .. k /\ i # 0
        BY <1>2
      <3>2. f[i] = Step(f[i - 1]) /\ g[i] = Step(g[i - 1])
        BY <1>4, <1>7, <3>1
      <3> QED
        BY <2>2, <3>2
    <2> QED
      BY <1>2, <1>8, <2>1, <2>2, LoopsAgree
  <1> QED
    BY <1>1, <1>2, <1>9

-----------------------------------------------------------------------------
(* The second invariant: the scopes of a context are a chain, to which its *)
(* return stack refers one by one, and chains have no table in common.     *)

States(top) == [position : {"code", "end"}, top : 0 .. top]

Typed ==
  /\ made \in 0 .. MaxTables
  /\ tables \in Tables(made)
  /\ scope \in [Contexts -> 0 .. made]
  /\ counter \in [Contexts -> {"code", "end"}]
  /\ stack \in [Contexts -> Seq(States(made))]
  /\ at \in [Contexts -> Listed \cup Empty]
  /\ registered \subseteq Contexts

(* There is a table for each context that has not started.                 *)
Waiting == {c \in Contexts : at[c] \in {"unborn", "created"}}

Reserved == made + Cardinality(Waiting) <= MaxTables

(* The table that the i-th entry of the return stack of c will return to   *)
Top(c, i) == stack[c][i].top

HasEntry(n) == \E c \in Contexts : \E i \in 1 .. Len(stack[c]) : Top(c, i) = n

HasChild(n) == \E q \in Registry : tables.parent[q] = n

(* Tables have listed parents, no two the same.                            *)
Linked ==
  /\ \A q \in Registry : tables.parent[q] \in Registry \cup {NoTable}
  /\ \A q, r \in Registry :
       tables.parent[q] = tables.parent[r] => q = r \/ tables.parent[q] = NoTable

(* No two entries refer to the same table.                                 *)
Single ==
  \A c, d \in Contexts : \A i \in 1 .. Len(stack[c]), j \in 1 .. Len(stack[d]) :
    Top(c, i) = Top(d, j) => Top(c, i) = NoTable \/ (c = d /\ i = j)

One(b) == IF b THEN 1 ELSE 0

Counted ==
  \A n \in Registry : tables.refs[n] = 1 + One(HasChild(n)) + One(HasEntry(n))

(* The entries of a return stack are scopes, each the parent of the next.  *)
Stacked(c) ==
  /\ Len(stack[c]) <= MaxCalls + 1
  /\ Len(stack[c]) > 0 => stack[c][1].position = "end"
  /\ \A i \in 1 .. Len(stack[c]) :
       /\ i = 1 => Top(c, i) = NoTable
       /\ i > 1 => Top(c, i) \in Registry /\ tables.parent[Top(c, i)] = Top(c, i - 1)

(* The current scope follows the last of them.                             *)
CurrentOf(c) ==
  /\ at[c] \in Empty \cup {"created", "leaving"} => Len(stack[c]) = 0
  /\ Len(stack[c]) = 0 => scope[c] = NoTable
  /\ Running(c) => Len(stack[c]) > 0
  /\ Len(stack[c]) > 0 /\ at[c] \in {"running", "ending"} =>
       /\ scope[c] \in Registry
       /\ tables.parent[scope[c]] = Top(c, Len(stack[c]))
       /\ ~ HasEntry(scope[c])
  /\ Len(stack[c]) > 0 /\ at[c] = "closing" => scope[c] = Top(c, Len(stack[c]))
  /\ scope[c] # NoTable => ~ HasChild(scope[c])

Apart ==
  \A c, d \in Contexts : scope[c] = scope[d] => c = d \/ scope[c] = NoTable

Trees ==
  /\ Typed /\ Reserved /\ Linked /\ Single /\ Counted /\ Apart
  /\ \A c \in Contexts : Stacked(c) /\ CurrentOf(c)

-----------------------------------------------------------------------------
(* What it says at once                                                    *)

LEMMA RegistryIsListing ==
  Registry = Listing(tables)
  BY DEF Registry, Listing, Elements

(* The numbers and sets of a typed state                                   *)
LEMMA Numbers ==
  ASSUME Typed
  PROVE  /\ MaxTables \in Nat /\ made \in Nat /\ made <= MaxTables
         /\ tables.refs \in [1 .. MaxTables -> Nat]
         /\ tables.parent \in [1 .. MaxTables -> 0 .. made]
         /\ Registry \subseteq 1 .. made /\ Registry \subseteq 1 .. MaxTables
         /\ NoTable \notin Registry
         /\ \A c \in Contexts :
              /\ Len(stack[c]) \in Nat /\ stack[c] \in Seq(States(made))
              /\ scope[c] \in 0 .. made
              /\ at[c] \in Listed \cup Empty
              /\ counter[c] \in {"code", "end"}
              /\ \A i \in 1 .. Len(stack[c]) :
                   stack[c][i] \in States(made) /\ Top(c, i) \in 0 .. made
  <1>1. MaxTables \in Nat /\ made \in Nat /\ made <= MaxTables
    BY ScopesAssumption DEF Typed
  <1>2. /\ tables.refs \in [1 .. MaxTables -> Nat]
        /\ tables.parent \in [1 .. MaxTables -> 0 .. made]
        /\ Registry \subseteq 1 .. made
    BY TableFields, RegistryIsListing DEF Typed
  <1>3. ASSUME NEW c \in Contexts
        PROVE  /\ Len(stack[c]) \in Nat /\ stack[c] \in Seq(States(made))
               /\ \A i \in 1 .. Len(stack[c]) :
                    stack[c][i] \in States(made) /\ Top(c, i) \in 0 .. made
    <2>1. stack[c] \in Seq(States(made))
      BY DEF Typed
    <2>2. Len(stack[c]) \in Nat /\ \A i \in 1 .. Len(stack[c]) : stack[c][i] \in States(made)
      BY <2>1, LenProperties, ElementOfSeq
    <2> QED
      BY <2>1, <2>2 DEF States, Top
  <1>4. ASSUME NEW c \in Contexts
        PROVE  /\ scope[c] \in 0 .. made /\ at[c] \in Listed \cup Empty
               /\ counter[c] \in {"code", "end"}
    BY DEF Typed
  <1>5. Registry \subseteq 1 .. MaxTables /\ NoTable \notin Registry
    BY <1>1, <1>2 DEF NoTable
  <1> QED
    BY <1>1, <1>2, <1>3, <1>4, <1>5

(* Entries and current scopes are listed.                                  *)
LEMMA EntriesListed ==
  ASSUME Trees, NEW c \in Contexts
  PROVE  /\ \A i \in 1 .. Len(stack[c]) : Top(c, i) \in Registry \cup {NoTable}
         /\ scope[c] \in Registry \cup {NoTable}
  <1>1. \A i \in 1 .. Len(stack[c]) : Top(c, i) \in Registry \cup {NoTable}
    <2>1. Stacked(c) /\ Len(stack[c]) \in Nat
      BY Numbers DEF Trees
    <2> QED
      BY <2>1 DEF Stacked
  <1>2. scope[c] \in Registry \cup {NoTable}
    <2>1. CurrentOf(c) /\ Len(stack[c]) \in Nat /\ at[c] \in Listed \cup Empty
      BY Numbers DEF Trees
    <2>2. Len(stack[c]) > 0 => Len(stack[c]) \in 1 .. Len(stack[c])
      BY <2>1
    <2> QED
      BY <1>1, <2>1, <2>2 DEF CurrentOf, Listed
  <1> QED
    BY <1>1, <1>2

(* Both parts of a context's invariant survive what changes neither it nor *)
(* its tables.                                                             *)
LEMMA OtherContext ==
  ASSUME Trees, NEW d \in Contexts,
         at'[d] = at[d], counter'[d] = counter[d],
         stack'[d] = stack[d], scope'[d] = scope[d],
         \A i \in 1 .. Len(stack[d]) : Top(d, i) \in Registry => Top(d, i) \in Registry',
         scope[d] \in Registry => scope[d] \in Registry',
         \A q \in Registry : q \in Registry' => tables'.parent[q] = tables.parent[q],
         scope[d] # NoTable => (HasChild(scope[d])' => HasChild(scope[d])),
         scope[d] # NoTable => (HasEntry(scope[d])' => HasEntry(scope[d]))
  PROVE  Stacked(d)' /\ CurrentOf(d)'
  <1>1. /\ Stacked(d) /\ CurrentOf(d)
        /\ Len(stack[d]) \in Nat /\ NoTable \notin Registry
    BY Numbers DEF Trees
  <1>2. \A i : Top(d, i)' = Top(d, i)
    BY DEF Top
  <1>3. Running(d)' <=> Running(d)
    BY DEF Running
  <1>4. Stacked(d)'
    BY <1>1, <1>2 DEF Stacked
  <1>5. CurrentOf(d)'
    BY <1>1, <1>2, <1>3 DEF CurrentOf
  <1> QED
    BY <1>4, <1>5

-----------------------------------------------------------------------------
(* Calls                                                                   *)

(* What a call does to the tables, the scopes and the return stacks        *)
Pushed(c, position, n, s, k) ==
  /\ made' = n /\ made' = made + 1 /\ n \in 0 .. MaxTables
  /\ tables' \in Tables(n)
  /\ tables'.refs[n] = 1
  /\ \A q \in Registry :
       tables'.refs[q] = IF q = s THEN tables.refs[q] + 2 ELSE tables.refs[q]
  /\ tables'.parent[n] = s
  /\ \A q \in Registry : tables'.parent[q] = tables.parent[q]
  /\ Registry' = Registry \cup {n}
  /\ n \notin Registry /\ n # NoTable /\ n \notin 0 .. made
  /\ scope' \in [Contexts -> 0 .. n]
  /\ scope'[c] = n /\ \A d \in Contexts \ {c} : scope'[d] = scope[d]
  /\ stack' \in [Contexts -> Seq(States(n))]
  /\ \A d \in Contexts \ {c} : stack'[d] = stack[d]
  /\ Len(stack'[c]) = k + 1
  /\ \A i \in 1 .. k : stack'[c][i] = stack[c][i]
  /\ stack'[c][k + 1] = [position |-> position, top |-> s]

LEMMA PushEffect ==
  ASSUME Typed, NEW c \in Contexts, NEW position \in {"code", "end"},
         made < MaxTables, PushAndStartScope(c, position),
         NEW n, n = made + 1, NEW s, s = scope[c], NEW k, k = Len(stack[c])
  PROVE  Pushed(c, position, n, s, k)
  <1> DEFINE state == [position |-> position, top |-> s]
  <1>1. /\ MaxTables \in Nat /\ made \in Nat /\ n <= MaxTables
        /\ tables \in Tables(made) /\ s \in 0 .. made
        /\ tables.refs \in [1 .. MaxTables -> Nat]
        /\ tables.parent \in [1 .. MaxTables -> 0 .. made]
        /\ Registry \subseteq 1 .. made /\ Registry \subseteq 1 .. MaxTables
    BY Numbers DEF Typed
  <1>2. /\ made' = n
        /\ tables' = Created(Referenced(tables, s), made + 1, s)
        /\ scope' = [scope EXCEPT ![c] = n]
        /\ stack' = [stack EXCEPT ![c] = Append(@, state)]
    BY DEF PushAndStartScope
  <1>3. /\ tables' \in Tables(n)
        /\ tables'.refs = GivenChild(1 .. MaxTables, tables.refs, n, s)
        /\ tables'.parent = [tables.parent EXCEPT ![n] = s]
        /\ Listing(tables') = Listing(tables) \cup {n}
    <2>1. /\ made \in Nat /\ n = made + 1 /\ n <= MaxTables
          /\ tables \in Tables(made) /\ s \in 0 .. made
      BY <1>1
    <2>2. tables' = Created(Referenced(tables, s), n, s)
      BY <1>2
    <2> HIDE DEF state
    <2> QED
      BY <2>1, <2>2, CreatedTable DEF IsCreated
  <1>4. n \in 1 .. MaxTables /\ n \notin 0 .. made /\ n \notin Registry /\ n # 0
    BY <1>1
  <1>5. Registry' = Registry \cup {n}
    <2>1. Registry' = Listing(tables') /\ Registry = Listing(tables)
      BY DEF Registry, Listing, Elements
    <2> QED
      BY <1>3, <2>1
  <1>6. /\ tables'.refs[n] = 1
        /\ \A q \in Registry :
             tables'.refs[q] = IF q = s THEN tables.refs[q] + 2 ELSE tables.refs[q]
    BY <1>1, <1>3, <1>4 DEF GivenChild
  <1>7. /\ tables'.parent[n] = s
        /\ \A q \in Registry : tables'.parent[q] = tables.parent[q]
    BY <1>1, <1>3, <1>4
  <1>8. /\ scope' \in [Contexts -> 0 .. n]
        /\ scope'[c] = n /\ \A d \in Contexts \ {c} : scope'[d] = scope[d]
    BY <1>1, <1>2 DEF Typed
  <1>9. /\ stack[c] \in Seq(States(n)) /\ state \in States(n)
        /\ \A d \in Contexts : stack[d] \in Seq(States(n))
    <2>1. States(made) \subseteq States(n)
      BY <1>1 DEF States
    <2>2. \A d \in Contexts : stack[d] \in Seq(States(n))
      BY <2>1, SeqMonotonic DEF Typed
    <2>3. state \in States(n)
      BY <1>1 DEF States
    <2> QED
      BY <2>2, <2>3
  <1>10. /\ stack' \in [Contexts -> Seq(States(n))]
         /\ stack'[c] = Append(stack[c], state)
         /\ \A d \in Contexts \ {c} : stack'[d] = stack[d]
    <2>1. stack = [d \in Contexts |-> stack[d]]
      BY DEF Typed
    <2>2. Append(stack[c], state) \in Seq(States(n))
      BY <1>9, AppendProperties
    <2> HIDE DEF state
    <2> QED
      BY <1>2, <1>9, <2>1, <2>2
  <1>11. /\ Len(stack'[c]) = Len(stack[c]) + 1
         /\ \A i \in 1 .. Len(stack[c]) : stack'[c][i] = stack[c][i]
         /\ stack'[c][Len(stack[c]) + 1] = state
    BY <1>9, <1>10, AppendProperties
  <1> QED
    BY <1>1, <1>2, <1>3, <1>4, <1>5, <1>6, <1>7, <1>8, <1>10, <1>11, SMTT(30) DEF NoTable, Pushed

(* A call preserves the invariant.                                         *)
LEMMA PushInv ==
  ASSUME Trees, NEW c \in Contexts, NEW position \in {"code", "end"},
         made < MaxTables, PushAndStartScope(c, position),
         at[c] \in {"created", "running"},
         Len(stack[c]) = 0 => position = "end" /\ scope[c] = NoTable,
         Len(stack[c]) > 0 => at[c] = "running",
         Len(stack[c]) <= MaxCalls,
         at' = [at EXCEPT ![c] = "running"],
         Reserved', UNCHANGED <<counter, registered>>
  PROVE  Trees'
  <1>18. PICK n, s, k : n = made + 1 /\ s = scope[c] /\ k = Len(stack[c])
    OBVIOUS
  <1>1. Pushed(c, position, n, s, k)
    BY <1>18, PushEffect DEF Trees
  <1> USE DEF Pushed
  <1>2. /\ MaxTables \in Nat /\ made \in Nat /\ k \in Nat /\ MaxCalls \in Nat
        /\ tables.refs \in [1 .. MaxTables -> Nat]
        /\ Registry \subseteq 1 .. made /\ NoTable \notin Registry
        /\ s \in Registry \cup {NoTable}
        /\ Registry \subseteq 1 .. MaxTables
        /\ \A d \in Contexts : Len(stack[d]) \in Nat /\ scope[d] \in 0 .. made
        /\ \A d \in Contexts : \A i \in 1 .. Len(stack[d]) : Top(d, i) \in 0 .. made
    BY <1>18, Numbers, EntriesListed, ScopesAssumption DEF Trees
  <1>3. s # NoTable => ~ HasChild(s) /\ ~ HasEntry(s) /\ s \in Registry
    <2>1. CurrentOf(c)
      BY DEF Trees
    <2> QED
      BY <1>2, <1>18, <2>1 DEF CurrentOf
  <1>4. /\ at'[c] = "running" /\ \A d \in Contexts \ {c} : at'[d] = at[d]
        /\ at' \in [Contexts -> Listed \cup Empty]
    BY DEF Trees, Typed, Listed
  <1>5. Typed'
    BY <1>1, <1>4 DEF Trees, Typed
  <1>6. /\ \A d \in Contexts \ {c} : \A i : Top(d, i)' = Top(d, i)
        /\ \A i \in 1 .. k : Top(c, i)' = Top(c, i)
        /\ Top(c, k + 1)' = s
    <2>1. Top(c, k + 1)' = s
      BY <1>1 DEF Top
    <2>2. ASSUME NEW d \in Contexts \ {c}, NEW i PROVE Top(d, i)' = Top(d, i)
      <3>1. stack'[d] = stack[d]
        BY <1>1
      <3> QED
        BY <3>1 DEF Top
    <2>3. \A i \in 1 .. k : Top(c, i)' = Top(c, i)
      BY <1>1 DEF Top
    <2> QED
      BY <2>1, <2>2, <2>3
  <1>7. /\ 1 .. Len(stack'[c]) = 1 .. k \cup {k + 1} /\ k + 1 \notin 1 .. k
        /\ \A d \in Contexts \ {c} : 1 .. Len(stack'[d]) = 1 .. Len(stack[d])
        /\ 1 .. Len(stack[c]) = 1 .. k
    BY <1>1, <1>2, <1>18, SMTT(30)
  <1>19. ASSUME NEW d \in Contexts, NEW i \in 1 .. Len(stack'[d])
         PROVE  \/ d = c /\ i = k + 1 /\ Top(d, i)' = s
                \/ i \in 1 .. Len(stack[d]) /\ Top(d, i)' = Top(d, i)
    <2>1. CASE d = c
      BY <1>6, <1>7, <2>1
    <2>2. CASE d # c
      BY <1>6, <1>7, <2>2
    <2> QED
      BY <2>1, <2>2
  <1>20. ASSUME NEW d \in Contexts, NEW i \in 1 .. Len(stack[d])
         PROVE  i \in 1 .. Len(stack'[d]) /\ Top(d, i)' = Top(d, i)
    <2>1. CASE d = c
      BY <1>6, <1>7, <2>1
    <2>2. CASE d # c
      BY <1>6, <1>7, <2>2
    <2> QED
      BY <2>1, <2>2
  <1>8. \A q : HasEntry(q)' <=> HasEntry(q) \/ q = s
    <2> SUFFICES ASSUME NEW q PROVE HasEntry(q)' <=> HasEntry(q) \/ q = s
      OBVIOUS
    <2>1. ASSUME HasEntry(q)' PROVE HasEntry(q) \/ q = s
      <3>0. PICK d \in Contexts : \E i \in 1 .. Len(stack'[d]) : Top(d, i)' = q
        BY <2>1 DEF HasEntry
      <3>1. PICK i \in 1 .. Len(stack'[d]) : Top(d, i)' = q
        BY <3>0
      <3> QED
        BY <1>19, <3>1 DEF HasEntry
    <2>2. ASSUME HasEntry(q) PROVE HasEntry(q)'
      <3>0. PICK d \in Contexts : \E i \in 1 .. Len(stack[d]) : Top(d, i) = q
        BY <2>2 DEF HasEntry
      <3>1. PICK i \in 1 .. Len(stack[d]) : Top(d, i) = q
        BY <3>0
      <3> QED
        BY <1>20, <3>1 DEF HasEntry
    <2>3. HasEntry(s)'
      BY <1>6, <1>7 DEF HasEntry
    <2> QED
      BY <2>1, <2>2, <2>3
  <1>9. \A q \in Registry : HasChild(q)' <=> HasChild(q) \/ q = s
    BY <1>1, ZenonT(60) DEF HasChild
  <1>10. ~ HasChild(n)' /\ ~ HasEntry(n)
    <2>1. ~ HasChild(n)'
      <3> SUFFICES ASSUME NEW q \in Registry', tables'.parent[q] = n PROVE FALSE
        BY DEF HasChild
      <3>1. \A r \in Registry : tables.parent[r] \in 0 .. made
        BY Numbers DEF Trees
      <3>2. q \in Registry => tables'.parent[q] \in 0 .. made
        BY <1>1, <3>1
      <3>3. q = n => tables'.parent[q] \in 0 .. made
        BY <1>1, <1>2, <1>18
      <3> QED
        BY <1>1, <3>2, <3>3
    <2>2. ~ HasEntry(n)
      <3> SUFFICES ASSUME NEW d \in Contexts, NEW i \in 1 .. Len(stack[d]), Top(d, i) = n
                   PROVE  FALSE
        BY DEF HasEntry
      <3> QED
        BY <1>1, <1>2
    <2> QED
      BY <2>1, <2>2
  <1>11. Linked'
    <2>1. Linked
      BY DEF Trees
    <2>2. \A q \in Registry' : tables'.parent[q] \in Registry' \cup {NoTable}
      BY <1>1, <1>2, <2>1, ZenonT(60) DEF Linked
    <2>3. ASSUME NEW q \in Registry, tables.parent[q] = s
          PROVE  s = NoTable
      BY <1>3, <2>3 DEF HasChild
    <2>4. ASSUME NEW q \in Registry', NEW r \in Registry',
                 tables'.parent[q] = tables'.parent[r]
          PROVE  q = r \/ tables'.parent[q] = NoTable
      <3>1. CASE q = n \/ r = n
        BY <1>1, <2>3, <2>4, <3>1, ZenonT(60)
      <3>2. CASE q \in Registry /\ r \in Registry
        BY <1>1, <2>1, <2>4, <3>2, SMTT(30) DEF Linked
      <3> QED
        BY <1>1, <3>1, <3>2
    <2> QED
      BY <2>2, <2>4 DEF Linked
  <1>12. Single'
    <2>1. Single
      BY DEF Trees
    <2>2. ASSUME NEW d \in Contexts, NEW i \in 1 .. Len(stack[d]), Top(d, i) = s
          PROVE  s = NoTable
      BY <1>3, <2>2 DEF HasEntry
    <2>3. ASSUME NEW d \in Contexts, NEW e \in Contexts,
                 NEW i \in 1 .. Len(stack'[d]), NEW j \in 1 .. Len(stack'[e]),
                 Top(d, i)' = Top(e, j)'
          PROVE  Top(d, i)' = NoTable \/ (d = e /\ i = j)
      <3>1. CASE i \in 1 .. Len(stack[d]) /\ j \in 1 .. Len(stack[e])
        BY <1>20, <2>1, <2>3, <3>1 DEF Single
      <3>2. CASE d = c /\ i = k + 1 /\ Top(d, i)' = s
        BY <1>19, <2>2, <2>3, <3>2
      <3>3. CASE e = c /\ j = k + 1 /\ Top(e, j)' = s
        BY <1>19, <2>2, <2>3, <3>3
      <3> QED
        BY <1>19, <3>1, <3>2, <3>3
    <2> QED
      BY <2>3 DEF Single
  <1>13. Counted'
    <2>1. tables'.refs[n] = 1 + One(HasChild(n)') + One(HasEntry(n)')
      <3>1. ~ HasEntry(n)'
        BY <1>1, <1>2, <1>8, <1>10
      <3> QED
        BY <1>1, <1>10, <3>1 DEF One
    <2>2. ASSUME NEW q \in Registry
          PROVE  tables'.refs[q] = 1 + One(HasChild(q)') + One(HasEntry(q)')
      <3>1. tables.refs[q] = 1 + One(HasChild(q)) + One(HasEntry(q))
        BY DEF Trees, Counted
      <3>2. q # NoTable
        BY <1>2
      <3>3. CASE q = s
        <4>1. ~ HasChild(q) /\ ~ HasEntry(q) /\ HasChild(q)' /\ HasEntry(q)'
          BY <1>3, <1>8, <1>9, <3>2, <3>3
        <4>2. tables'.refs[q] = tables.refs[q] + 2
          BY <1>1, <3>3
        <4> QED
          BY <3>1, <4>1, <4>2 DEF One
      <3>4. CASE q # s
        <4>1. (HasChild(q)' <=> HasChild(q)) /\ (HasEntry(q)' <=> HasEntry(q))
          BY <1>8, <1>9, <3>2, <3>4
        <4>2. tables'.refs[q] = tables.refs[q]
          BY <1>1, <3>4
        <4> QED
          BY <3>1, <4>1, <4>2 DEF One
      <3> QED
        BY <3>3, <3>4
    <2> QED
      BY <1>1, <2>1, <2>2 DEF Counted
  <1>14. Apart'
    <2>1. Apart
      BY DEF Trees
    <2>2. \A d \in Contexts : scope[d] # n
      BY <1>1, <1>2
    <2> QED
      <3> SUFFICES ASSUME NEW d \in Contexts, NEW e \in Contexts, scope'[d] = scope'[e]
                   PROVE  d = e \/ scope'[d] = NoTable
        BY DEF Apart
      <3>1. CASE d = c /\ e # c
        <4>1. scope'[d] = n /\ scope'[e] = scope[e]
          BY <1>1, <3>1
        <4> QED
          BY <2>2, <4>1
      <3>3. CASE d # c /\ e = c
        <4>1. scope'[e] = n /\ scope'[d] = scope[d]
          BY <1>1, <3>3
        <4> QED
          BY <2>2, <4>1
      <3>2. CASE d # c /\ e # c
        BY <1>1, <2>1, <3>2, SMTT(30) DEF Apart
      <3> QED
        BY <3>1, <3>2, <3>3
  <1>15. ASSUME NEW d \in Contexts, d # c
         PROVE  Stacked(d)' /\ CurrentOf(d)'
    <2>1. scope[d] # s \/ s = NoTable
      BY <1>15, <1>18 DEF Trees, Apart
    <2>2. scope'[d] = scope[d] /\ at'[d] = at[d] /\ counter'[d] = counter[d]
          /\ stack'[d] = stack[d]
      BY <1>1, <1>4, <1>15
    <2>3. PICK x : x = scope[d]
      OBVIOUS
    <2>4. x # NoTable => (HasChild(x)' => HasChild(x)) /\ (HasEntry(x)' => HasEntry(x))
      <3>1. x \in Registry \cup {NoTable}
        BY <2>3, EntriesListed
      <3> QED
        BY <1>8, <1>9, <2>1, <2>3, <3>1
    <2>5. scope[d] # NoTable => (HasChild(scope[d])' => HasChild(scope[d]))
                                 /\ (HasEntry(scope[d])' => HasEntry(scope[d]))
      BY <2>2, <2>3, <2>4
    <2> QED
      BY <1>1, <2>2, <2>5, OtherContext
  <1>16. Stacked(c)'
    <2>1. Stacked(c)
      BY DEF Trees
    <2>2. k + 1 <= MaxCalls + 1
      BY <1>2, <1>18
    <2>3. stack'[c][1].position = "end"
      <3>1. CASE k = 0
        BY <1>1, <1>18, <3>1
      <3>2. CASE k > 0
        <4>1. 1 \in 1 .. k
          BY <1>2, <3>2
        <4> QED
          BY <1>1, <1>18, <2>1, <3>2, <4>1 DEF Stacked
      <3> QED
        BY <1>2, <3>1, <3>2
    <2>4. ASSUME NEW i \in 1 .. k
          PROVE  /\ i = 1 => Top(c, i)' = NoTable
                 /\ i > 1 => /\ Top(c, i)' \in Registry'
                             /\ tables'.parent[Top(c, i)'] = Top(c, i - 1)'
      <3>1. /\ i = 1 => Top(c, i) = NoTable
            /\ i > 1 => Top(c, i) \in Registry /\ tables.parent[Top(c, i)] = Top(c, i - 1)
        BY <1>18, <2>1 DEF Stacked
      <3>2. i > 1 => i - 1 \in 1 .. k
        BY <1>2
      <3> QED
        BY <1>1, <1>6, <3>1, <3>2
    <2>5. /\ k = 0 => s = NoTable
          /\ k > 0 => s \in Registry' /\ tables'.parent[s] = Top(c, k)'
      <3>1. CASE k = 0
        BY <1>18, <3>1
      <3>2. CASE k > 0
        <4>1. s \in Registry /\ tables.parent[s] = Top(c, k)
          BY <1>18, <3>2 DEF Trees, CurrentOf
        <4>2. Top(c, k)' = Top(c, k)
          BY <1>2, <1>6, <3>2
        <4> QED
          BY <1>1, <3>2, <4>1, <4>2
      <3> QED
        BY <1>2, <3>1, <3>2
    <2>6. ASSUME NEW i \in 1 .. k + 1
          PROVE  /\ i = 1 => Top(c, i)' = NoTable
                 /\ i > 1 => /\ Top(c, i)' \in Registry'
                             /\ tables'.parent[Top(c, i)'] = Top(c, i - 1)'
      <3>1. CASE i \in 1 .. k
        BY <2>4, <3>1
      <3>2. CASE i = k + 1
        <4>1. Top(c, i)' = s /\ (i = 1 <=> k = 0) /\ (i > 1 <=> k > 0) /\ i - 1 = k
          BY <1>2, <1>6, <3>2
        <4> QED
          BY <2>5, <4>1
      <3> QED
        BY <1>2, <3>1, <3>2
    <2> QED
      BY <1>1, <2>2, <2>3, <2>6 DEF Stacked
  <1>17. CurrentOf(c)'
    <2>1. ~ HasEntry(n)'
      BY <1>1, <1>2, <1>8, <1>10
    <2>2. Len(stack'[c]) > 0 /\ Len(stack'[c]) # 0 /\ at'[c] = "running" /\ scope'[c] = n
      <3>1. Len(stack'[c]) = k + 1 /\ scope'[c] = n
        BY <1>1
      <3>2. k \in Nat
        BY <1>2
      <3> HIDE DEF Pushed
      <3> QED
        BY <1>4, <3>1, <3>2
    <2>3. Top(c, Len(stack[c]))' = s
      BY <1>1, <1>6
    <2>4. ~ HasEntry(scope[c])' /\ ~ HasChild(scope[c])'
      BY <1>10, <2>1, <2>2
    <2>5. scope'[c] \in Registry' /\ tables'.parent[scope'[c]] = s
      BY <1>1, <2>2
    <2>6. at'[c] \notin Empty \cup {"created", "leaving"} /\ at'[c] # "closing"
      BY <2>2 DEF Empty
    <2> HIDE DEF Pushed
    <2> QED
      BY <2>2, <2>3, <2>4, <2>5, <2>6 DEF CurrentOf
  <1> QED
    BY <1>5, <1>11, <1>12, <1>13, <1>14, <1>15, <1>16, <1>17 DEF Trees

-----------------------------------------------------------------------------
(* The end of a scope                                                      *)

(* The scope s of c, whose parent is t, is gone, and so are the entries of *)
(* the return stack, of which there were k, from m on.                     *)
Dropped(c, s, t, m, k) ==
  /\ made' = made
  /\ tables' \in Tables(made)
  /\ Registry' = Registry \ {s}
  /\ \A q \in Registry \ {s} : tables'.parent[q] = tables.parent[q]
  /\ \A q \in Registry \ {s} :
       tables'.refs[q] = tables.refs[q] - One(q = t)
                         - One(\E i \in m + 1 .. k : Top(c, i) = q)
  /\ stack' \in [Contexts -> Seq(States(made))]
  /\ \A d \in Contexts \ {c} : stack'[d] = stack[d]
  /\ Len(stack'[c]) = m
  /\ \A i \in 1 .. m : stack'[c][i] = stack[c][i] /\ Top(c, i) # s
  /\ scope' \in [Contexts -> 0 .. made]
  /\ scope'[c] \in {t, NoTable} /\ \A d \in Contexts \ {c} : scope'[d] = scope[d]

LEMMA DropInv ==
  ASSUME Trees, NEW c \in Contexts, NEW s \in Registry, s = scope[c],
         NEW t, t = tables.parent[s], NEW k, k = Len(stack[c]), NEW m \in 0 .. k,
         Dropped(c, s, t, m, k), ~ HasChild(s),
         \A d \in Contexts \ {c} : \A i \in 1 .. Len(stack[d]) : Top(d, i) # s,
         \A d \in Contexts \ {c} : at'[d] = at[d] /\ counter'[d] = counter[d],
         at' \in [Contexts -> Listed \cup Empty],
         counter' \in [Contexts -> {"code", "end"}],
         registered' = registered, Reserved', CurrentOf(c)'
  PROVE  Trees'
  <1> USE DEF Dropped
  <1>1. /\ MaxTables \in Nat /\ made \in Nat /\ k \in Nat /\ m \in Nat /\ m <= k
        /\ tables.refs \in [1 .. MaxTables -> Nat]
        /\ Registry \subseteq 1 .. MaxTables /\ NoTable \notin Registry
        /\ \A d \in Contexts : Len(stack[d]) \in Nat
    BY Numbers DEF Trees
  <1>2. /\ \A d \in Contexts : scope[d] \in Registry \cup {NoTable}
        /\ \A d \in Contexts : \A i \in 1 .. Len(stack[d]) : Top(d, i) \in Registry \cup {NoTable}
    BY EntriesListed
  <1>3. Typed'
    BY DEF Trees, Typed
  <1>4. ASSUME NEW d \in Contexts, NEW i \in 1 .. Len(stack'[d])
        PROVE  /\ i \in 1 .. Len(stack[d]) /\ Top(d, i)' = Top(d, i)
               /\ d = c => i \in 1 .. m
    <2>1. CASE d = c
      <3>1. i \in 1 .. m /\ i \in 1 .. k
        BY <1>1, <2>1
      <3> QED
        BY <2>1, <3>1 DEF Top
    <2>2. CASE d # c
      <3>1. stack'[d] = stack[d]
        BY <2>2
      <3> QED
        BY <2>2, <3>1 DEF Top
    <2> QED
      BY <2>1, <2>2
  <1>5. ASSUME NEW d \in Contexts, NEW i \in 1 .. Len(stack[d]), d = c => i \in 1 .. m
        PROVE  i \in 1 .. Len(stack'[d]) /\ Top(d, i)' = Top(d, i)
    <2>1. i \in 1 .. Len(stack'[d])
      <3>1. CASE d = c
        BY <1>5, <3>1
      <3>2. CASE d # c
        <4>1. stack'[d] = stack[d]
          BY <3>2
        <4> QED
          BY <4>1
      <3> QED
        BY <3>1, <3>2
    <2> QED
      BY <1>4, <2>1
  <1>6. Single
    BY DEF Trees
  <1>7. \A q \in Registry :
          HasEntry(q)' <=> HasEntry(q) /\ ~ \E i \in m + 1 .. k : Top(c, i) = q
    <2> SUFFICES ASSUME NEW q \in Registry
                 PROVE  HasEntry(q)' <=> HasEntry(q) /\ ~ \E i \in m + 1 .. k : Top(c, i) = q
      OBVIOUS
    <2>1. ASSUME HasEntry(q)'
          PROVE  HasEntry(q) /\ ~ \E i \in m + 1 .. k : Top(c, i) = q
      <3>1. PICK d \in Contexts : \E i \in 1 .. Len(stack'[d]) : Top(d, i)' = q
        BY <2>1 DEF HasEntry
      <3>2. PICK i \in 1 .. Len(stack'[d]) : Top(d, i)' = q
        BY <3>1
      <3>3. i \in 1 .. Len(stack[d]) /\ Top(d, i) = q /\ (d = c => i \in 1 .. m)
        BY <1>4, <3>2
      <3>4. ASSUME NEW j \in m + 1 .. k, Top(c, j) = q
            PROVE  FALSE
        <4>1. j \in 1 .. Len(stack[c]) /\ j \notin 1 .. m
          BY <1>1
        <4>2. d = c /\ i = j
          BY <1>1, <1>6, <3>3, <3>4, <4>1, SMTT(30) DEF Single
        <4> QED
          BY <3>3, <4>1, <4>2
      <3> QED
        BY <3>3, <3>4 DEF HasEntry
    <2>2. ASSUME HasEntry(q), ~ \E i \in m + 1 .. k : Top(c, i) = q
          PROVE  HasEntry(q)'
      <3>1. PICK d \in Contexts : \E i \in 1 .. Len(stack[d]) : Top(d, i) = q
        BY <2>2 DEF HasEntry
      <3>2. PICK i \in 1 .. Len(stack[d]) : Top(d, i) = q
        BY <3>1
      <3>3. d = c => i \in 1 .. m
        <4>1. d = c => i \in 1 .. k /\ i \notin m + 1 .. k
          BY <2>2, <3>2
        <4> QED
          BY <1>1, <4>1
      <3> QED
        BY <1>5, <3>2, <3>3 DEF HasEntry
    <2> QED
      BY <2>1, <2>2
  <1>8. \A q \in Registry : HasChild(q)' <=> HasChild(q) /\ q # t
    <2> SUFFICES ASSUME NEW q \in Registry
                 PROVE  HasChild(q)' <=> HasChild(q) /\ q # t
      OBVIOUS
    <2>1. ASSUME HasChild(q)'
          PROVE  HasChild(q) /\ q # t
      <3>1. PICK r \in Registry' : tables'.parent[r] = q
        BY <2>1 DEF HasChild
      <3>2. r \in Registry /\ r # s /\ tables.parent[r] = q
        BY <3>1
      <3>3. ASSUME q = t
            PROVE  FALSE
        <4>1. Linked /\ tables.parent[r] = tables.parent[s] /\ q # NoTable
          BY <1>1, <3>2, <3>3 DEF Trees
        <4> QED
          BY <3>2, <4>1 DEF Linked
      <3> QED
        BY <3>2, <3>3 DEF HasChild
    <2>2. ASSUME HasChild(q), q # t
          PROVE  HasChild(q)'
      <3>1. PICK r \in Registry : tables.parent[r] = q
        BY <2>2 DEF HasChild
      <3>2. r \in Registry' /\ tables'.parent[r] = q
        BY <2>2, <3>1
      <3> QED
        BY <3>2 DEF HasChild
    <2> QED
      BY <2>1, <2>2
  <1>9. Linked'
    <2>1. \A q \in Registry : tables.parent[q] # s
      BY DEF HasChild
    <2>2. Linked
      BY DEF Trees
    <2>3. \A q \in Registry' : tables'.parent[q] = tables.parent[q] /\ q \in Registry
      OBVIOUS
    <2>4. ASSUME NEW q \in Registry'
          PROVE  tables'.parent[q] \in Registry' \cup {NoTable}
      <3>1. /\ q \in Registry /\ tables'.parent[q] = tables.parent[q]
            /\ tables.parent[q] # s /\ Registry' = Registry \ {s}
        BY <2>1, <2>3
      <3>2. tables.parent[q] \in Registry \cup {NoTable}
        BY <2>2, <3>1 DEF Linked
      <3> QED
        BY <3>1, <3>2
    <2>5. \A q, r \in Registry' : tables'.parent[q] = tables'.parent[r]
                                    => q = r \/ tables'.parent[q] = NoTable
      <3> HIDE DEF Dropped
      <3> QED
        BY <2>2, <2>3 DEF Linked
    <2> HIDE DEF Dropped
    <2> QED
      BY <2>4, <2>5 DEF Linked
  <1>10. Single'
    <2> SUFFICES ASSUME NEW d \in Contexts, NEW e \in Contexts,
                        NEW i \in 1 .. Len(stack'[d]), NEW j \in 1 .. Len(stack'[e]),
                        Top(d, i)' = Top(e, j)'
                 PROVE  Top(d, i)' = NoTable \/ (d = e /\ i = j)
      BY DEF Single
    <2> QED
      <3>1. /\ i \in 1 .. Len(stack[d]) /\ Top(d, i)' = Top(d, i)
            /\ j \in 1 .. Len(stack[e]) /\ Top(e, j)' = Top(e, j)
        BY <1>4
      <3>2. Top(d, i) = Top(e, j)
        BY <3>1
      <3>3. Top(d, i) = NoTable \/ (d = e /\ i = j)
        BY <1>6, <3>1, <3>2, SMTT(30) DEF Single
      <3> QED
        BY <3>1, <3>3
  <1>11. Counted'
    <2> SUFFICES ASSUME NEW q \in Registry \ {s}
                 PROVE  tables'.refs[q] = 1 + One(HasChild(q)') + One(HasEntry(q)')
      BY DEF Counted
    <2> DEFINE E == \E i \in m + 1 .. k : Top(c, i) = q
    <2>1. tables.refs[q] = 1 + One(HasChild(q)) + One(HasEntry(q))
      BY DEF Trees, Counted
    <2>2. tables'.refs[q] = tables.refs[q] - One(q = t) - One(E)
      OBVIOUS
    <2>3. q = t => HasChild(q)
      BY DEF HasChild
    <2>4. E => HasEntry(q)
      <3> SUFFICES ASSUME NEW i \in m + 1 .. k, Top(c, i) = q
                   PROVE  HasEntry(q)
        OBVIOUS
      <3>1. i \in 1 .. Len(stack[c])
        BY <1>1
      <3> QED
        BY <3>1 DEF HasEntry
    <2>5. (HasChild(q)' <=> HasChild(q) /\ q # t) /\ (HasEntry(q)' <=> HasEntry(q) /\ ~ E)
      BY <1>7, <1>8
    <2> HIDE DEF E
    <2>6. One(HasChild(q)') = One(HasChild(q)) - One(q = t)
      BY <2>3, <2>5 DEF One
    <2>7. One(HasEntry(q)') = One(HasEntry(q)) - One(E)
      BY <2>4, <2>5 DEF One
    <2>8. /\ One(HasChild(q)) \in Int /\ One(HasEntry(q)) \in Int
          /\ One(q = t) \in Int /\ One(E) \in Int
      BY DEF One
    <2> QED
      BY <2>1, <2>2, <2>6, <2>7, <2>8, SMTT(30)
  <1>12. Apart'
    <2>1. ASSUME NEW d \in Contexts \ {c}, t # NoTable
          PROVE  scope[d] # t
      <3>1. HasChild(t)
        BY DEF HasChild
      <3> QED
        BY <2>1, <3>1 DEF Trees, CurrentOf
    <2> SUFFICES ASSUME NEW d \in Contexts, NEW e \in Contexts, scope'[d] = scope'[e], d # e
                 PROVE  scope'[d] = NoTable
      BY DEF Apart
    <2>2. CASE d = c
      <3>1. scope'[e] = scope[e] /\ scope'[c] \in {t, NoTable}
        BY <2>2
      <3> QED
        BY <2>1, <2>2, <3>1
    <2>4. CASE e = c
      <3>1. scope'[d] = scope[d] /\ scope'[c] \in {t, NoTable}
        BY <2>4
      <3> QED
        BY <2>1, <2>4, <3>1
    <2>3. CASE d # c /\ e # c
      <3>1. scope'[d] = scope[d] /\ scope'[e] = scope[e]
        BY <2>3
      <3> HIDE DEF Dropped
      <3> QED
        BY <3>1 DEF Trees, Apart
    <2> QED
      BY <2>2, <2>3, <2>4
  <1>13. Stacked(c)'
    <2>1. Stacked(c)
      BY DEF Trees
    <2>2. m <= MaxCalls + 1 /\ Len(stack'[c]) = m
      BY <1>1, <2>1, ScopesAssumption DEF Stacked
    <2>3. m > 0 => stack'[c][1].position = "end"
      <3>1. m > 0 => 1 \in 1 .. m /\ k > 0
        BY <1>1
      <3> QED
        BY <2>1, <3>1 DEF Stacked
    <2>4. ASSUME NEW i \in 1 .. m
          PROVE  /\ i = 1 => Top(c, i)' = NoTable
                 /\ i > 1 => /\ Top(c, i)' \in Registry'
                             /\ tables'.parent[Top(c, i)'] = Top(c, i - 1)'
      <3>1. i \in 1 .. k /\ Top(c, i)' = Top(c, i) /\ Top(c, i) # s
        BY <1>1, SMTT(30) DEF Top
      <3>2. i > 1 => Top(c, i - 1)' = Top(c, i - 1)
        <4>1. i > 1 => i - 1 \in 1 .. m
          BY <1>1
        <4> QED
          BY <4>1 DEF Top
      <3>3. /\ i = 1 => Top(c, i) = NoTable
            /\ i > 1 => Top(c, i) \in Registry /\ tables.parent[Top(c, i)] = Top(c, i - 1)
        BY <2>1, <3>1 DEF Stacked
      <3> QED
        BY <3>1, <3>2, <3>3
    <2> HIDE DEF Dropped
    <2> QED
      BY <2>2, <2>3, <2>4 DEF Stacked
  <1>14. ASSUME NEW d \in Contexts, d # c
         PROVE  Stacked(d)' /\ CurrentOf(d)'
    <2>1. scope'[d] = scope[d] /\ at'[d] = at[d] /\ counter'[d] = counter[d]
          /\ stack'[d] = stack[d]
      BY <1>14
    <2>2. scope[d] # s
      BY <1>1, <1>14 DEF Trees, Apart
    <2>3. PICK x : x = scope[d]
      OBVIOUS
    <2>4. x # NoTable => (HasChild(x)' => HasChild(x)) /\ (HasEntry(x)' => HasEntry(x))
      BY <1>2, <1>7, <1>8, <2>3
    <2>5. scope[d] # NoTable => (HasChild(scope[d])' => HasChild(scope[d]))
                                 /\ (HasEntry(scope[d])' => HasEntry(scope[d]))
      BY <2>1, <2>3, <2>4
    <2>6. \A i \in 1 .. Len(stack[d]) : Top(d, i) \in Registry => Top(d, i) \in Registry'
      BY <1>14
    <2> QED
      BY <2>1, <2>2, <2>5, <2>6, OtherContext, ZenonT(60)
  <1> QED
    BY <1>3, <1>9, <1>10, <1>11, <1>12, <1>13, <1>14 DEF Trees

-----------------------------------------------------------------------------
(* Steps that leave the tables as they are                                 *)

(* Such a step of c, which may drop entries that refer to no table         *)
LEMMA QuietInv ==
  ASSUME Trees, NEW c \in Contexts,
         UNCHANGED <<made, tables, scope>>,
         stack' \in [Contexts -> Seq(States(made))],
         \A d \in Contexts \ {c} : stack'[d] = stack[d],
         \/ stack'[c] = stack[c]
         \/ Len(stack'[c]) = 0 /\ \A i \in 1 .. Len(stack[c]) : Top(c, i) = NoTable,
         \A d \in Contexts \ {c} : at'[d] = at[d] /\ counter'[d] = counter[d],
         at' \in [Contexts -> Listed \cup Empty],
         counter' \in [Contexts -> {"code", "end"}],
         registered' \subseteq Contexts, Reserved', CurrentOf(c)'
  PROVE  Trees'
  <1>1. Typed'
    BY DEF Trees, Typed
  <1>2. Registry' = Registry
    BY DEF Registry
  <1>3. NoTable \notin Registry
    BY Numbers DEF Trees
  <1>4. ASSUME NEW d \in Contexts, NEW i \in 1 .. Len(stack'[d])
        PROVE  i \in 1 .. Len(stack[d]) /\ Top(d, i)' = Top(d, i)
    <2>1. stack'[d] = stack[d]
      BY <1>4
    <2> QED
      BY <2>1 DEF Top
  <1>5. ASSUME NEW d \in Contexts, NEW i \in 1 .. Len(stack[d])
        PROVE  \/ i \in 1 .. Len(stack'[d]) /\ Top(d, i)' = Top(d, i)
               \/ Top(d, i) = NoTable
    <2>1. stack'[d] = stack[d] \/ Top(d, i) = NoTable
      BY <1>5
    <2> QED
      BY <2>1 DEF Top
  <1>6. \A q \in Registry : HasChild(q)' <=> HasChild(q)
    BY <1>2 DEF HasChild
  <1>7. \A q \in Registry : HasEntry(q)' <=> HasEntry(q)
    <2> SUFFICES ASSUME NEW q \in Registry PROVE HasEntry(q)' <=> HasEntry(q)
      OBVIOUS
    <2>1. ASSUME HasEntry(q)' PROVE HasEntry(q)
      <3>1. PICK d \in Contexts : \E i \in 1 .. Len(stack'[d]) : Top(d, i)' = q
        BY <2>1 DEF HasEntry
      <3> QED
        BY <1>4, <3>1 DEF HasEntry
    <2>2. ASSUME HasEntry(q) PROVE HasEntry(q)'
      <3>1. PICK d \in Contexts : \E i \in 1 .. Len(stack[d]) : Top(d, i) = q
        BY <2>2 DEF HasEntry
      <3> QED
        BY <1>3, <1>5, <3>1 DEF HasEntry
    <2> QED
      BY <2>1, <2>2
  <1>8. Linked'
    BY <1>2 DEF Trees, Linked
  <1>9. Single'
    <2> SUFFICES ASSUME NEW d \in Contexts, NEW e \in Contexts,
                        NEW i \in 1 .. Len(stack'[d]), NEW j \in 1 .. Len(stack'[e]),
                        Top(d, i)' = Top(e, j)'
                 PROVE  Top(d, i)' = NoTable \/ (d = e /\ i = j)
      BY DEF Single
    <2>1. /\ i \in 1 .. Len(stack[d]) /\ Top(d, i)' = Top(d, i)
          /\ j \in 1 .. Len(stack[e]) /\ Top(e, j)' = Top(e, j)
      BY <1>4
    <2>2. Top(d, i) = Top(e, j)
      BY <2>1
    <2>3. Top(d, i) = NoTable \/ (d = e /\ i = j)
      BY <2>1, <2>2 DEF Trees, Single
    <2> QED
      BY <2>1, <2>3
  <1>10. Counted'
    <2> SUFFICES ASSUME NEW q \in Registry
                 PROVE  tables'.refs[q] = 1 + One(HasChild(q)') + One(HasEntry(q)')
      BY <1>2 DEF Counted
    <2>1. tables.refs[q] = 1 + One(HasChild(q)) + One(HasEntry(q))
      BY DEF Trees, Counted
    <2> QED
      BY <1>6, <1>7, <2>1 DEF One
  <1>11. Apart'
    BY DEF Trees, Apart
  <1>12. Stacked(c)'
    <2>1. CASE stack'[c] = stack[c]
      <3>1. Stacked(c)
        BY DEF Trees
      <3>2. PICK p, R, st : p = tables.parent /\ R = Registry /\ st = stack[c]
        OBVIOUS
      <3>3. /\ Len(st) <= MaxCalls + 1
            /\ Len(st) > 0 => st[1].position = "end"
            /\ \A i \in 1 .. Len(st) :
                 /\ i = 1 => st[i].top = NoTable
                 /\ i > 1 => st[i].top \in R /\ p[st[i].top] = st[i - 1].top
        BY <3>1, <3>2, Zenon DEF Stacked, Top
      <3>4. stack'[c] = st /\ tables'.parent = p /\ Registry' = R
        BY <1>2, <2>1, <3>2
      <3> QED
        BY <3>3, <3>4, Zenon DEF Stacked, Top
    <2>2. CASE Len(stack'[c]) = 0
      BY <2>2, ScopesAssumption DEF Stacked
    <2> QED
      BY <2>1, <2>2
  <1>13. ASSUME NEW d \in Contexts, d # c
         PROVE  Stacked(d)' /\ CurrentOf(d)'
    <2>1. scope'[d] = scope[d] /\ at'[d] = at[d] /\ counter'[d] = counter[d]
          /\ stack'[d] = stack[d]
      BY <1>13
    <2>2. PICK x : x = scope[d]
      OBVIOUS
    <2>3. x # NoTable => (HasChild(x)' => HasChild(x)) /\ (HasEntry(x)' => HasEntry(x))
      BY <1>6, <1>7, <2>2, EntriesListed
    <2>4. scope[d] # NoTable => (HasChild(scope[d])' => HasChild(scope[d]))
                                 /\ (HasEntry(scope[d])' => HasEntry(scope[d]))
      BY <2>1, <2>2, <2>3
    <2> QED
      BY <1>2, <2>1, <2>4, OtherContext
  <1> QED
    BY <1>1, <1>8, <1>9, <1>10, <1>11, <1>12, <1>13 DEF Trees

(* A step that changes nothing the invariant is about                      *)
LEMMA NothingMoves ==
  ASSUME Trees, UNCHANGED <<made, tables, scope, stack, counter, at>>,
         registered' \subseteq Contexts
  PROVE  Trees'
  <1>1. Main \in Contexts
    BY ScopesAssumption
  <1>2. PICK x : x = scope[Main]
    OBVIOUS
  <1>3. (HasChild(x)' <=> HasChild(x)) /\ (HasEntry(x)' <=> HasEntry(x))
    BY DEF HasChild, HasEntry, Top, Registry
  <1>4. scope'[Main] = x
    BY <1>2
  <1>5. /\ HasChild(scope[Main])' <=> HasChild(scope[Main])
        /\ HasEntry(scope[Main])' <=> HasEntry(scope[Main])
    BY <1>2, <1>3, <1>4
  <1>6. /\ Top(Main, Len(stack[Main]))' = Top(Main, Len(stack[Main]))
        /\ Registry' = Registry /\ (Running(Main)' <=> Running(Main))
    BY DEF Top, Registry, Running
  <1>7. CurrentOf(Main)'
    BY <1>1, <1>5, <1>6 DEF Trees, CurrentOf
  <1>8. Reserved'
    BY DEF Trees, Reserved, Waiting
  <1> QED
    BY <1>1, <1>7, <1>8, QuietInv DEF Trees, Typed

(* The steps in a context's life that leave its scopes alone               *)
GoesOn(from, to) ==
  \/ from = "unborn" /\ to = "created"
  \/ from = "running" /\ to = "ending"
  \/ from = "leaving" /\ to = "telling"
  \/ from = "telling" /\ to = "gone"

(* A step in which a context only goes on in its life                      *)
LEMMA MovesOn ==
  ASSUME Trees, NEW c \in Contexts, NEW from, NEW to,
         GoesOn(from, to),
         at[c] = from, at' = [at EXCEPT ![c] = to],
         UNCHANGED <<made, tables, scope, stack, counter>>,
         registered' \subseteq Contexts
  PROVE  Trees'
  <1>1. at'[c] = to /\ \A d \in Contexts \ {c} : at'[d] = at[d]
    BY DEF Trees, Typed, GoesOn
  <1>2. at' \in [Contexts -> Listed \cup Empty]
    BY DEF Trees, Typed, Listed, Empty, GoesOn
  <1>3. Reserved'
    <2>1. Waiting' = Waiting
      BY <1>1 DEF Waiting, GoesOn
    <2> QED
      BY <2>1 DEF Trees, Reserved
  <1>4. CurrentOf(c)'
    <2>1. PICK x : x = scope[c]
      OBVIOUS
    <2>2. (HasChild(x)' <=> HasChild(x)) /\ (HasEntry(x)' <=> HasEntry(x))
      BY DEF HasChild, HasEntry, Top, Registry
    <2>3. CurrentOf(c)
      BY DEF Trees
    <2>4. Top(c, Len(stack[c]))' = Top(c, Len(stack[c])) /\ Registry' = Registry
      BY DEF Top, Registry
    <2>5. ~ Running(c)'
      BY <1>1 DEF Running, GoesOn
    <2>6. scope'[c] = x
      BY <2>1
    <2>7. (HasChild(scope[c])' <=> HasChild(scope[c])) /\ (HasEntry(scope[c])' <=> HasEntry(scope[c]))
      BY <2>1, <2>2, <2>6
    <2> QED
      BY <1>1, <2>3, <2>4, <2>5, <2>7 DEF CurrentOf, Empty, GoesOn
  <1> QED
    BY <1>1, <1>2, <1>3, <1>4, QuietInv DEF Trees, Typed

-----------------------------------------------------------------------------
(* The actions, one by one                                                 *)

(* A context that starts takes the table kept for it.                      *)
LEMMA StartReserved ==
  ASSUME Trees, NEW c \in Contexts, at[c] \in {"unborn", "created"},
         at' = [at EXCEPT ![c] = "running"], made' = made + 1
  PROVE  made < MaxTables /\ Reserved'
  <1>1. PICK w : w = Waiting
    OBVIOUS
  <1>2. IsFiniteSet(w) /\ Cardinality(w) \in Nat
    <2>1. w \in SUBSET Contexts
      BY <1>1 DEF Waiting
    <2> QED
      BY <2>1, ScopesAssumption, FS_Subset, FS_CardinalityType
  <1>3. /\ Cardinality(w \ {c}) = Cardinality(w) - 1
        /\ Cardinality(w \ {c}) \in Nat
    <2>1. c \in w
      BY <1>1 DEF Waiting
    <2> QED
      BY <1>2, <2>1, FS_RemoveElement, FS_CardinalityType
  <1>4. Waiting' = w \ {c}
    BY <1>1 DEF Waiting, Trees, Typed
  <1>5. made + Cardinality(w) <= MaxTables
    BY <1>1 DEF Trees, Reserved
  <1>6. made \in Nat /\ MaxTables \in Nat
    BY Numbers DEF Trees
  <1> QED
    BY <1>2, <1>3, <1>4, <1>5, <1>6 DEF Reserved

LEMMA StartTrees ==
  ASSUME Trees, NEW c \in Contexts, Start(c)
  PROVE  Trees'
  <1>1. /\ at[c] = "created" /\ PushAndStartScope(c, "end")
        /\ at' = [at EXCEPT ![c] = "running"] /\ made' = made + 1
        /\ UNCHANGED <<counter, registered>>
    BY DEF Start, PushAndStartScope
  <1>2. made < MaxTables /\ Reserved'
    BY <1>1, StartReserved
  <1>3. Len(stack[c]) = 0 /\ scope[c] = NoTable
    BY <1>1 DEF Trees, CurrentOf
  <1>4. /\ "end" \in {"code", "end"} /\ at[c] \in {"created", "running"}
        /\ Len(stack[c]) = 0 => "end" = "end" /\ scope[c] = NoTable
        /\ Len(stack[c]) > 0 => at[c] = "running"
        /\ Len(stack[c]) <= MaxCalls
    BY <1>1, <1>3, ScopesAssumption
  <1> QED
    BY <1>1, <1>2, <1>4, PushInv

LEMMA CallTrees ==
  ASSUME Trees, NEW c \in Contexts, Call(c)
  PROVE  Trees'
  <1>1. /\ Running(c) /\ CallsOpen(c) < MaxCalls /\ TablesLeft
        /\ PushAndStartScope(c, "code") /\ made' = made + 1
        /\ at' = at /\ UNCHANGED <<counter, registered>>
    BY DEF Call, PushAndStartScope
  <1>2. at[c] = "running" /\ at' = [at EXCEPT ![c] = "running"]
    BY <1>1 DEF Running, Trees, Typed
  <1>3. Len(stack[c]) \in Nat /\ Len(stack[c]) > 0 /\ made \in Nat /\ MaxTables \in Nat
    BY <1>1, Numbers DEF Trees, CurrentOf
  <1>4. Len(stack[c]) <= MaxCalls
    BY <1>1, <1>3, ScopesAssumption DEF CallsOpen
  <1>5. PICK w : w = Waiting
    OBVIOUS
  <1>6. Cardinality(w) \in Nat
    <2>1. w \in SUBSET Contexts
      BY <1>5 DEF Waiting
    <2> QED
      BY <2>1, ScopesAssumption, FS_Subset, FS_CardinalityType
  <1>7. made + Cardinality(w) < MaxTables
    BY <1>1, <1>5 DEF TablesLeft, Waiting
  <1>8. Waiting' = w
    BY <1>1, <1>5 DEF Waiting
  <1>9. made < MaxTables /\ Reserved'
    BY <1>1, <1>3, <1>6, <1>7, <1>8 DEF Reserved
  <1>10. /\ "code" \in {"code", "end"} /\ at[c] \in {"created", "running"}
         /\ Len(stack[c]) = 0 => "code" = "end" /\ scope[c] = NoTable
         /\ Len(stack[c]) > 0 => at[c] = "running"
    BY <1>2, <1>3
  <1> QED
    BY <1>1, <1>2, <1>4, <1>9, <1>10, PushInv

(* CORO, END and the last steps of a context                               *)
LEMMA MovingTrees ==
  ASSUME Trees, NEW c \in Contexts,
         End(c) \/ Leave(c) \/ Tell(c) \/ \E d \in Contexts : Coro(d, c)
  PROVE  Trees'
  <1>1. UNCHANGED <<made, tables, scope, stack, counter>>
    BY DEF End, Leave, Tell, Coro
  <1>2. registered' \subseteq Contexts
    BY DEF Trees, Typed, End, Leave, Tell, Coro
  <1>3. \E from, to : GoesOn(from, to) /\ at[c] = from /\ at' = [at EXCEPT ![c] = to]
    <2>1. CASE End(c)
      BY <2>1 DEF End, GoesOn
    <2>2. CASE Leave(c)
      BY <2>2 DEF Leave, GoesOn
    <2>3. CASE Tell(c)
      BY <2>3 DEF Tell, GoesOn
    <2>4. CASE \E d \in Contexts : Coro(d, c)
      BY <2>4 DEF Coro, GoesOn
    <2> QED
      BY <2>1, <2>2, <2>3, <2>4
  <1>4. PICK from, to : GoesOn(from, to) /\ at[c] = from /\ at' = [at EXCEPT ![c] = to]
    BY <1>3
  <1> QED
    BY <1>1, <1>2, <1>4, MovesOn

(* The steps of vm_main, and a CORO that fails                             *)
LEMMA StillTrees ==
  ASSUME Trees,
         UNCHANGED vars \/ MainProceeds \/ SpuriousWakeup \/ \E c \in Contexts : CoroFails(c)
  PROVE  Trees'
  <1>1. CASE Collect
    <2>1. PICK ts : ts = tables
      OBVIOUS
    <2>2. /\ made \in 0 .. MaxTables /\ ts \in Tables(made)
          /\ \A n \in Listing(ts) : ts.refs[n] > 0
      <3>1. Typed /\ Counted /\ Registry = Listing(ts)
        BY <2>1, RegistryIsListing DEF Trees
      <3> QED
        <4>1. made \in 0 .. MaxTables /\ ts \in Tables(made)
          BY <2>1, <3>1 DEF Typed
        <4>2. ASSUME NEW n \in Registry
              PROVE  tables.refs[n] > 0
          BY <3>1 DEF Counted, One
        <4> QED
          BY <2>1, <3>1, <4>1, <4>2
    <2>3. Collected(ts) = ts
      BY <2>2, NothingCollected
    <2>4. UNCHANGED <<made, tables, scope, stack, counter, at>> /\ registered' = registered
      BY <1>1, <2>1, <2>3 DEF Collect
    <2> QED
      BY <2>4, NothingMoves DEF Trees, Typed
  <1>2. CASE ~ Collect
    <2>1. UNCHANGED <<made, tables, scope, stack, counter, at>> /\ registered' = registered
      BY <1>2 DEF vars, MainProceeds, MainExecuted, MainLooks, SpuriousWakeup, CoroFails
    <2> QED
      BY <2>1, NothingMoves DEF Trees, Typed
  <1> QED
    BY <1>1, <1>2

(* The scope s, whose parent is t, gives back its last reference, after    *)
(* one reference to each table in "given" was.                             *)
IsGone(d, s, t, given) ==
  /\ d \in Tables(made) /\ Listing(d) = Registry \ {s}
  /\ \A q \in Registry \ {s} : d.parent[q] = tables.parent[q]
  /\ \A q \in Registry \ {s} :
       d.refs[q] = tables.refs[q] - One(q = t) - One(q \in given)

(* One reference to each table in "given" is given back.                   *)
IsGiven(ts, given) ==
  /\ ts \in Tables(made) /\ ts.parent = tables.parent /\ Listing(ts) = Registry
  /\ \A q \in Registry : ts.refs[q] = tables.refs[q] - One(q \in given)

LEMMA ScopeGone ==
  ASSUME Typed, NEW s \in Registry, NEW t, t = tables.parent[s],
         NEW ts, NEW given, IsGiven(ts, given),
         ts.refs[s] = 1, t # NoTable => ts.refs[t] > 0 /\ t # s
  PROVE  IsGone(Destroyed(ts, s), s, t, given)
  <1> DEFINE d == Destroyed(ts, s)
  <1> USE DEF IsGiven
  <1>1. /\ Registry \subseteq 1 .. MaxTables /\ MaxTables \in Nat /\ made \in Nat
        /\ made <= MaxTables
        /\ tables.parent \in [1 .. MaxTables -> 0 .. made]
        /\ tables.refs \in [1 .. MaxTables -> Nat]
    BY Numbers
  <1>2. /\ d \in Tables(made) /\ Listing(d) = Registry \ {s}
        /\ d.parent = [tables.parent EXCEPT ![s] = NoTable]
        /\ d.refs = [q \in 1 .. MaxTables |-> IF q = s THEN 0
                                              ELSE IF q = t THEN ts.refs[q] - 1
                                              ELSE ts.refs[q]]
    <2>1. made \in 0 .. MaxTables /\ s \in Listing(ts) /\ ts.parent[s] = t
          /\ ts \in Tables(made)
      BY <1>1
    <2>2. ts.parent[s] # NoTable => ts.refs[ts.parent[s]] > 0
      BY <2>1
    <2>3. /\ d \in Tables(made)
          /\ d.refs = [q \in 1 .. MaxTables |-> IF q = s THEN 0
                                                ELSE IF q = ts.parent[s] THEN ts.refs[q] - 1
                                                ELSE ts.refs[q]]
          /\ d.parent = [ts.parent EXCEPT ![s] = NoTable]
          /\ Listing(d) = Listing(ts) \ {s}
      BY <2>1, <2>2, DestroyedLast
    <2> HIDE DEF d
    <2> QED
      BY <2>1, <2>3
  <1> HIDE DEF d
  <1>3. \A q \in Registry \ {s} : d.parent[q] = tables.parent[q]
    BY <1>1, <1>2
  <1>4. ASSUME NEW q \in Registry \ {s}
        PROVE  d.refs[q] = tables.refs[q] - One(q = t) - One(q \in given)
    <2>1. d.refs[q] = IF q = t THEN ts.refs[q] - 1 ELSE ts.refs[q]
      BY <1>1, <1>2
    <2>2. ts.refs[q] = tables.refs[q] - One(q \in given)
      OBVIOUS
    <2>3. tables.refs[q] \in Int /\ One(q \in given) \in Int
      BY <1>1 DEF One
    <2>4. One(q = t) = IF q = t THEN 1 ELSE 0
      BY DEF One
    <2> QED
      BY <2>1, <2>2, <2>3, <2>4
  <1>5. IsGone(d, s, t, given)
    BY <1>2, <1>3, <1>4 DEF IsGone
  <1> QED
    BY <1>5 DEF d

(* The tables after a step in which a scope is gone                        *)
LEMMA GoneListing ==
  ASSUME NEW s, NEW t, NEW given, IsGone(tables', s, t, given)
  PROVE  Registry' = Registry \ {s}
  <1>1. Registry' = Listing(tables')
    BY DEF Registry, Listing, Elements
  <1> QED
    BY <1>1 DEF IsGone

LEMMA DroppedFrom ==
  ASSUME NEW c \in Contexts, NEW s, NEW t, NEW given, NEW m, NEW k,
         IsGone(tables', s, t, given),
         \A q \in Registry \ {s} :
           (\E i \in m + 1 .. k : Top(c, i) = q) <=> q \in given,
         made' = made,
         stack' \in [Contexts -> Seq(States(made))],
         \A d \in Contexts \ {c} : stack'[d] = stack[d],
         Len(stack'[c]) = m,
         \A i \in 1 .. m : stack'[c][i] = stack[c][i] /\ Top(c, i) # s,
         scope' \in [Contexts -> 0 .. made],
         scope'[c] \in {t, NoTable},
         \A d \in Contexts \ {c} : scope'[d] = scope[d]
  PROVE  Dropped(c, s, t, m, k)
  <1>1. ASSUME NEW q \in Registry \ {s}
        PROVE  tables'.refs[q] = tables.refs[q] - One(q = t)
                                 - One(\E i \in m + 1 .. k : Top(c, i) = q)
    BY DEF IsGone, One
  <1>2. Registry' = Registry \ {s}
    BY GoneListing
  <1>3. tables' \in Tables(made) /\ \A q \in Registry \ {s} : tables'.parent[q] = tables.parent[q]
    BY DEF IsGone
  <1> QED
    BY <1>1, <1>2, <1>3 DEF Dropped

(* A step of a context that had started                                    *)
LEMMA KeptReserved ==
  ASSUME Trees, NEW c \in Contexts, made' = made,
         at[c] \notin {"unborn", "created"}, at'[c] \notin {"unborn", "created"},
         \A d \in Contexts \ {c} : at'[d] = at[d]
  PROVE  Reserved'
  <1>1. Waiting' = Waiting
    BY DEF Waiting
  <1> QED
    BY <1>1 DEF Trees, Reserved

(* The current scope s of a context with open calls, and its parent t      *)
LEMMA InnermostScope ==
  ASSUME Trees, NEW c \in Contexts, at[c] \in {"running", "ending"},
         NEW k, k = Len(stack[c]), k > 0,
         NEW s, s = scope[c], NEW t, t = Top(c, k)
  PROVE  /\ k \in Nat /\ s \in Registry /\ tables.parent[s] = t
         /\ ~ HasEntry(s) /\ ~ HasChild(s) /\ tables.refs[s] = 1
         /\ s # NoTable /\ s # t /\ t \in Registry \cup {NoTable}
         /\ t # NoTable => t \in Registry /\ tables.refs[t] = 3
         /\ k = 1 => t = NoTable /\ stack[c][1].position = "end"
         /\ k > 1 => t \in Registry /\ tables.parent[t] = Top(c, k - 1)
         /\ \A q \in Registry : tables.parent[q] = t => q = s \/ t = NoTable
  <1>1. k \in Nat /\ NoTable \notin Registry /\ k \in 1 .. Len(stack[c])
    BY Numbers DEF Trees
  <1>2. CurrentOf(c) /\ Stacked(c)
    BY DEF Trees
  <1>3. /\ s \in Registry /\ tables.parent[s] = t /\ ~ HasEntry(s)
    BY <1>2 DEF CurrentOf
  <1>4. s # NoTable /\ ~ HasChild(s)
    BY <1>1, <1>2, <1>3 DEF CurrentOf
  <1>5. s # t
    BY <1>3, <1>4 DEF HasChild
  <1>6. tables.refs[s] = 1
    BY <1>3, <1>4 DEF Trees, Counted, One
  <1>7. t \in Registry \cup {NoTable}
    BY <1>1, EntriesListed
  <1>8. ASSUME t # NoTable
        PROVE  t \in Registry /\ tables.refs[t] = 3
    <2>1. HasChild(t)
      BY <1>3 DEF HasChild
    <2>2. HasEntry(t)
      BY <1>1 DEF HasEntry
    <2> QED
      BY <1>7, <1>8, <2>1, <2>2 DEF Trees, Counted, One
  <1>9. /\ k = 1 => t = NoTable /\ stack[c][1].position = "end"
        /\ k > 1 => t \in Registry /\ tables.parent[t] = Top(c, k - 1)
    BY <1>1, <1>2 DEF Stacked
  <1>10. \A q \in Registry : tables.parent[q] = t => q = s \/ t = NoTable
    BY <1>3 DEF Trees, Linked
  <1> QED
    BY <1>1, <1>3, <1>4, <1>5, <1>6, <1>7, <1>8, <1>9, <1>10

(* vm_execute after its loop                                               *)
LEMMA EndScopeTrees ==
  ASSUME Trees, NEW c \in Contexts, EndScope(c)
  PROVE  Trees'
  <1>1. /\ at[c] = "ending" /\ at' = [at EXCEPT ![c] = "closing"]
        /\ tables' = Destroyed(tables, scope[c])
        /\ scope' = [scope EXCEPT ![c] = IF @ = NoTable THEN NoTable ELSE tables.parent[@]]
        /\ UNCHANGED <<made, stack, counter, registered>>
    BY DEF EndScope
  <1>2. /\ at'[c] = "closing" /\ \A d \in Contexts \ {c} : at'[d] = at[d]
        /\ at' \in [Contexts -> Listed \cup Empty]
    BY <1>1 DEF Trees, Typed, Listed
  <1>3. Reserved'
    BY <1>1, <1>2, KeptReserved
  <1>4. PICK k, s, t : k = Len(stack[c]) /\ s = scope[c] /\ t = Top(c, k)
    OBVIOUS
  <1>5. k \in Nat
    BY <1>4, Numbers DEF Trees
  <1>6. Typed /\ ~ Running(c)'
    BY <1>2 DEF Trees, Running
  <1>7. CASE k = 0
    <2>1. s = NoTable
      BY <1>4, <1>7 DEF Trees, CurrentOf
    <2>2. tables' = tables /\ scope' = scope
      BY <1>1, <1>4, <1>6, <2>1, DestroyedNone DEF Typed
    <2>3. CurrentOf(c)'
      <3>1. Len(stack'[c]) = 0 /\ scope'[c] = NoTable
        BY <1>1, <1>4, <1>7, <2>1, <2>2
      <3> QED
        BY <1>2, <1>6, <3>1 DEF CurrentOf, Empty
    <2> QED
      BY <1>1, <1>2, <1>3, <1>6, <2>2, <2>3, QuietInv DEF Typed
  <1>8. CASE k > 0
    <2>1. /\ s \in Registry /\ tables.parent[s] = t
          /\ ~ HasEntry(s) /\ ~ HasChild(s) /\ tables.refs[s] = 1
          /\ s # NoTable /\ s # t
          /\ t # NoTable => t \in Registry /\ tables.refs[t] = 3
          /\ \A q \in Registry : tables.parent[q] = t => q = s \/ t = NoTable
      BY <1>1, <1>4, <1>8, InnermostScope
    <2>2. /\ scope'[c] = t /\ \A d \in Contexts \ {c} : scope'[d] = scope[d]
          /\ scope' \in [Contexts -> 0 .. made]
      <3>1. scope' = [scope EXCEPT ![c] = t]
        BY <1>1, <1>4, <2>1
      <3>2. t \in 0 .. made
        BY <1>6, <2>1, Numbers
      <3> QED
        BY <1>6, <3>1, <3>2 DEF Typed
    <2>3. PICK ts, given : ts = tables /\ given = {}
      OBVIOUS
    <2>4. IsGone(tables', s, t, given)
      <3>1. \A q \in Registry : tables.refs[q] = tables.refs[q] - One(q \in given)
        BY <1>6, <2>3, Numbers DEF One
      <3>2. IsGiven(ts, given)
        BY <1>6, <2>3, <3>1, RegistryIsListing DEF Typed, IsGiven
      <3>3. ts.refs[s] = 1 /\ (t # NoTable => ts.refs[t] > 0 /\ t # s)
        BY <2>1, <2>3
      <3>4. tables' = Destroyed(ts, s)
        BY <1>1, <1>4, <2>3
      <3> QED
        BY <1>6, <2>1, <3>2, <3>3, <3>4, ScopeGone
    <2>5. Registry' = Registry \ {s}
      BY <2>4, GoneListing
    <2>6. ASSUME NEW q \in Registry \ {s}
          PROVE  (\E i \in k + 1 .. k : Top(c, i) = q) <=> q \in given
      BY <1>5, <2>3
    <2>7. \A i \in 1 .. k : Top(c, i) # s
      BY <1>4, <2>1 DEF HasEntry
    <2>8. Dropped(c, s, t, k, k)
      <3>1. /\ made' = made
            /\ stack' \in [Contexts -> Seq(States(made))]
            /\ \A d \in Contexts \ {c} : stack'[d] = stack[d]
            /\ Len(stack'[c]) = k
            /\ \A i \in 1 .. k : stack'[c][i] = stack[c][i] /\ Top(c, i) # s
        BY <1>1, <1>4, <1>6, <2>7 DEF Typed
      <3> QED
        BY <2>2, <2>4, <2>6, <3>1, DroppedFrom
    <2>9. CurrentOf(c)'
      <3>1. Top(c, Len(stack[c]))' = t /\ Len(stack'[c]) > 0
        BY <1>1, <1>4, <1>8 DEF Top
      <3>2. t # NoTable => ~ HasChild(t)'
        BY <2>1, <2>4, <2>5 DEF HasChild, IsGone
      <3>3. scope'[c] # NoTable => ~ HasChild(scope[c])'
        BY <2>2, <3>2
      <3> QED
        BY <1>2, <1>6, <2>2, <3>1, <3>3 DEF CurrentOf, Empty
    <2>10. \A d2 \in Contexts \ {c} : \A i \in 1 .. Len(stack[d2]) : Top(d2, i) # s
      BY <2>1 DEF HasEntry
    <2>11. k \in 0 .. k /\ t = tables.parent[s]
      BY <1>5, <2>1
    <2>12. \A d2 \in Contexts \ {c} : at'[d2] = at[d2] /\ counter'[d2] = counter[d2]
      BY <1>1, <1>2
    <2>13. counter' \in [Contexts -> {"code", "end"}] /\ registered' = registered
      BY <1>1, <1>6 DEF Typed
    <2> QED
      BY <1>2, <1>3, <1>4, <2>1, <2>8, <2>9, <2>10, <2>11, <2>12, <2>13, DropInv
  <1> QED
    BY <1>5, <1>7, <1>8

(* What RETURN does: the innermost call of c, its k-th, which has the      *)
(* scope s and is to return to t, is over.                                 *)
LEMMA ReturnEffect ==
  ASSUME Trees, NEW c \in Contexts, Return(c),
         NEW k, k = Len(stack[c]), NEW s, s = scope[c], NEW t, t = Top(c, k)
  PROVE  /\ k > 0 /\ Dropped(c, s, t, k - 1, k)
         /\ scope'[c] = t /\ counter'[c] = stack[c][k].position
         /\ counter' \in [Contexts -> {"code", "end"}]
         /\ \A d \in Contexts \ {c} : counter'[d] = counter[d]
  <1> DEFINE ended == Ended(Destroyed(tables, t), s, t)
  <1>1. /\ at[c] = "running" /\ counter[c] = "code"
        /\ stack' = [stack EXCEPT ![c] = Front(@)]
        /\ counter' = [counter EXCEPT ![c] = stack[c][k].position]
        /\ tables' = ended.tables
        /\ scope' = [scope EXCEPT ![c] = ended.scope]
        /\ made' = made
    BY DEF Return, Running, Top
  <1>2. Typed /\ k \in Nat /\ k > 0 /\ k \in 1 .. k /\ MaxTables \in Nat
    <2>1. Running(c) /\ CurrentOf(c)
      BY DEF Return, Trees
    <2> QED
      BY <2>1, Numbers DEF Trees, CurrentOf
  <1>3. /\ s \in Registry /\ tables.parent[s] = t
        /\ ~ HasEntry(s) /\ ~ HasChild(s) /\ tables.refs[s] = 1
        /\ s # NoTable /\ s # t
        /\ t # NoTable => t \in Registry /\ tables.refs[t] = 3
    BY <1>1, <1>2, InnermostScope
  <1>4. Registry \subseteq 1 .. MaxTables /\ NoTable \notin Registry
        /\ tables.refs \in [1 .. MaxTables -> Nat]
    BY <1>2, Numbers
  <1>5. PICK ts, given : ts = Destroyed(tables, t)
                         /\ given = IF t = NoTable THEN {} ELSE {t}
    OBVIOUS
  <1>6. IsGiven(ts, given) /\ ts.refs[s] = 1 /\ (t # NoTable => ts.refs[t] = 2)
    <2>1. tables \in Tables(made) /\ Listing(tables) = Registry
      BY <1>2, RegistryIsListing DEF Typed
    <2>2. CASE t = NoTable
      <3>1. ts = tables /\ given = {}
        BY <1>5, <2>2, DestroyedNone
      <3>2. \A q \in Registry : tables.refs[q] = tables.refs[q] - One(q \in given)
        <4> SUFFICES ASSUME NEW q \in Registry
                     PROVE  tables.refs[q] = tables.refs[q] - One(q \in given)
          OBVIOUS
        <4>1. tables.refs[q] \in Nat
          BY <1>4
        <4>2. One(q \in given) = 0
          BY <3>1 DEF One
        <4> QED
          BY <4>1, <4>2
      <3>3. \A q \in Registry : ts.refs[q] = tables.refs[q] - One(q \in given)
        BY <3>1, <3>2
      <3>4. IsGiven(ts, given)
        BY <2>1, <3>1, <3>3 DEF IsGiven
      <3> QED
        BY <1>3, <2>2, <3>1, <3>4
    <2>3. CASE t # NoTable
      <3>1. t \in 1 .. MaxTables /\ tables.refs[t] > 1 /\ given = {t}
        <4>1. t \in Registry /\ tables.refs[t] = 3
          BY <1>3, <2>3
        <4> QED
          BY <1>4, <1>5, <2>3, <4>1
      <3>2. ts = [refs |-> [tables.refs EXCEPT ![t] = @ - 1],
                  parent |-> tables.parent, registry |-> tables.registry]
        BY <1>5, <2>1, <3>1, DestroyedShared
      <3>3. PICK refs : refs = [tables.refs EXCEPT ![t] = @ - 1]
        OBVIOUS
      <3>4. refs \in [1 .. MaxTables -> Nat]
        BY <1>3, <1>4, <2>3, <3>1, <3>3
      <3>5. /\ tables.parent \in [1 .. MaxTables -> 0 .. made]
            /\ tables.registry \in Seq(1 .. made)
            /\ \A i, j \in 1 .. Len(tables.registry) :
                 tables.registry[i] = tables.registry[j] => i = j
        BY <2>1, TableFields DEF Tables
      <3>6. ts \in Tables(made)
        BY <3>2, <3>3, <3>4, <3>5, TableRecord
      <3>7. ts.refs = refs /\ ts.parent = tables.parent /\ ts.registry = tables.registry
        BY <3>2, <3>3
      <3>8. \A q \in Registry : ts.refs[q] = tables.refs[q] - One(q \in given)
        <4> SUFFICES ASSUME NEW q \in Registry
                     PROVE  ts.refs[q] = tables.refs[q] - One(q \in given)
          OBVIOUS
        <4>1. /\ refs[q] = IF q = t THEN tables.refs[q] - 1 ELSE tables.refs[q]
              /\ tables.refs[q] \in Nat
          BY <1>4, <3>3
        <4>2. One(q \in given) = IF q = t THEN 1 ELSE 0
          BY <3>1 DEF One
        <4> QED
          BY <3>7, <4>1, <4>2
      <3>9. ts.refs[s] = 1 /\ ts.refs[t] = 2
        <4>1. refs[s] = tables.refs[s]
          BY <1>3, <1>4, <3>3
        <4>2. refs[t] = tables.refs[t] - 1
          BY <1>4, <3>1, <3>3
        <4> QED
          BY <1>3, <2>3, <3>7, <4>1, <4>2
      <3>10. IsGiven(ts, given)
        BY <2>1, <3>6, <3>7, <3>8 DEF IsGiven, Listing
      <3> QED
        BY <3>9, <3>10
    <2> QED
      BY <2>2, <2>3
  <1>7. ended = [tables |-> Destroyed(ts, s), scope |-> t]
    <2>1. ts.parent[s] = t /\ MaxTables >= 1
      BY <1>2, <1>3, <1>4, <1>6 DEF IsGiven
    <2> QED
      BY <1>3, <1>5, <2>1, EndedOne
  <1> HIDE DEF ended
  <1>8. tables' = Destroyed(ts, s) /\ scope' = [scope EXCEPT ![c] = t]
    BY <1>1, <1>7
  <1>9. IsGone(tables', s, t, given)
    BY <1>2, <1>3, <1>6, <1>8, ScopeGone
  <1>10. /\ scope'[c] = t /\ \A d \in Contexts \ {c} : scope'[d] = scope[d]
         /\ scope' \in [Contexts -> 0 .. made]
    <2>1. t \in 0 .. made
      BY <1>2, <1>3, Numbers
    <2> QED
      BY <1>2, <1>8, <2>1 DEF Typed
  <1>11. /\ stack' \in [Contexts -> Seq(States(made))]
         /\ \A d \in Contexts \ {c} : stack'[d] = stack[d]
         /\ Len(stack'[c]) = k - 1
         /\ \A i \in 1 .. k - 1 : stack'[c][i] = stack[c][i]
    <2>1. /\ \A i \in 1 .. k : stack[c][i] \in States(made)
          /\ stack \in [Contexts -> Seq(States(made))]
      BY <1>2, Numbers DEF Typed
    <2>2. PICK front : front = Front(stack[c])
      OBVIOUS
    <2>3. /\ front \in Seq(States(made)) /\ Len(front) = k - 1
          /\ \A i \in 1 .. k - 1 : front[i] = stack[c][i]
      <3>1. /\ 1 \in Int /\ k - 1 \in Int
            /\ \A i \in 1 .. k - 1 : stack[c][i] \in States(made)
        BY <1>2, <2>1
      <3>2. front = SubSeq(stack[c], 1, k - 1)
        BY <2>2 DEF Front
      <3>3. /\ front \in Seq(States(made))
            /\ Len(front) = IF 1 <= k - 1 THEN k - 1 - 1 + 1 ELSE 0
            /\ \A i \in 1 .. k - 1 - 1 + 1 : front[i] = stack[c][1 + i - 1]
        BY <3>1, <3>2, SubSeqProperties
      <3> QED
        BY <1>2, <3>3, SMTT(30)
    <2>4. stack' = [stack EXCEPT ![c] = front]
      BY <1>1, <2>2
    <2> QED
      BY <2>1, <2>3, <2>4
  <1>12. \A i \in 1 .. k - 1 : stack'[c][i] = stack[c][i] /\ Top(c, i) # s
    <2>1. \A i \in 1 .. k - 1 : i \in 1 .. Len(stack[c])
      BY <1>2
    <2> QED
      BY <1>3, <1>11, <2>1 DEF HasEntry
  <1>13. \A q \in Registry \ {s} :
           (\E i \in k - 1 + 1 .. k : Top(c, i) = q) <=> q \in given
    <2>1. k - 1 + 1 .. k = {k}
      BY <1>2
    <2> QED
      BY <1>4, <1>5, <2>1
  <1>14. Dropped(c, s, t, k - 1, k)
    <2>1. PICK m : m = k - 1
      OBVIOUS
    <2>2. Dropped(c, s, t, m, k)
      BY <1>1, <1>9, <1>10, <1>11, <1>12, <1>13, <2>1, DroppedFrom, ZenonT(60)
    <2> QED
      BY <2>1, <2>2
  <1>15. /\ counter'[c] = stack[c][k].position
         /\ counter' \in [Contexts -> {"code", "end"}]
         /\ \A d \in Contexts \ {c} : counter'[d] = counter[d]
    <2>1. stack[c][k].position \in {"code", "end"}
      BY <1>2, Numbers DEF States
    <2> QED
      BY <1>1, <1>2, <2>1 DEF Typed
  <1> QED
    BY <1>2, <1>10, <1>14, <1>15

LEMMA ReturnTrees ==
  ASSUME Trees, NEW c \in Contexts, Return(c)
  PROVE  Trees'
  <1>1. PICK k, s, t : k = Len(stack[c]) /\ s = scope[c] /\ t = Top(c, k)
    OBVIOUS
  <1>2. /\ k > 0 /\ Dropped(c, s, t, k - 1, k)
        /\ scope'[c] = t /\ counter'[c] = stack[c][k].position
        /\ counter' \in [Contexts -> {"code", "end"}]
        /\ \A d \in Contexts \ {c} : counter'[d] = counter[d]
    BY <1>1, ReturnEffect
  <1>3. at[c] = "running" /\ at' = at /\ registered' = registered /\ made' = made
    BY DEF Return, Running
  <1>4. /\ k \in Nat /\ s \in Registry /\ tables.parent[s] = t
        /\ ~ HasEntry(s) /\ ~ HasChild(s)
        /\ s # NoTable /\ s # t
        /\ k = 1 => t = NoTable /\ stack[c][1].position = "end"
        /\ k > 1 => t \in Registry /\ tables.parent[t] = Top(c, k - 1)
        /\ \A q \in Registry : tables.parent[q] = t => q = s \/ t = NoTable
    BY <1>1, <1>2, <1>3, InnermostScope
  <1>5. Reserved'
    BY <1>3, KeptReserved
  <1>6. PICK m : m = k - 1 /\ m \in 0 .. k
    BY <1>2, <1>4
  <1>7. Dropped(c, s, t, m, k)
    BY <1>2, <1>6
  <1>8. CurrentOf(c)'
    <2>1. Len(stack'[c]) = m /\ Registry' = Registry \ {s}
      BY <1>7 DEF Dropped
    <2>2. CASE k = 1
      <3>1. m = 0 /\ t = NoTable /\ counter'[c] = "end"
        BY <1>2, <1>4, <1>6, <2>2
      <3>2. ~ Running(c)' /\ Len(stack'[c]) = 0 /\ scope'[c] = NoTable
        BY <1>2, <2>1, <3>1 DEF Running
      <3> QED
        BY <3>2 DEF CurrentOf
    <2>3. CASE k # 1
      <3>1. k > 1 /\ m > 0 /\ m \in 1 .. k /\ m # k
        BY <1>2, <1>4, <1>6, <2>3
      <3>2. t \in Registry' /\ tables'.parent[t] = Top(c, m)
        BY <1>4, <1>6, <1>7, <3>1 DEF Dropped
      <3>3. Top(c, Len(stack[c]))' = Top(c, m)
        <4>1. m \in 1 .. m
          BY <3>1
        <4>2. stack'[c][m] = stack[c][m]
          BY <1>7, <4>1 DEF Dropped
        <4> QED
          BY <2>1, <4>2 DEF Top
      <3>4. t # NoTable
        BY <1>4, <3>1, Numbers DEF Trees
      <3>5. ~ HasEntry(t)'
        <4> SUFFICES ASSUME NEW d \in Contexts, NEW i \in 1 .. Len(stack'[d]), Top(d, i)' = t
                     PROVE  FALSE
          BY DEF HasEntry
        <4>1. CASE d = c
          <5>1. i \in 1 .. m /\ i \in 1 .. k /\ k \in 1 .. k /\ i # k
            BY <1>4, <2>1, <3>1, <4>1, <1>6
          <5>2. Top(c, i) = t
            BY <1>7, <4>1, <5>1 DEF Dropped, Top
          <5> QED
            BY <1>1, <3>4, <5>1, <5>2 DEF Trees, Single
        <4>2. CASE d # c
          <5>1. stack'[d] = stack[d]
            BY <1>7, <4>2 DEF Dropped
          <5>2. i \in 1 .. Len(stack[d]) /\ Top(d, i) = t
            BY <5>1 DEF Top
          <5>3. k \in 1 .. Len(stack[c])
            BY <1>1, <1>4, <3>1
          <5> QED
            BY <1>1, <3>4, <4>2, <5>2, <5>3 DEF Trees, Single
        <4> QED
          BY <4>1, <4>2
      <3>6. ~ HasChild(t)'
        BY <1>4, <1>7, <3>4, SMTT(30) DEF Dropped, HasChild
      <3>7. ~ HasEntry(scope[c])' /\ ~ HasChild(scope[c])'
        BY <1>2, <3>5, <3>6
      <3>8. /\ at'[c] = "running" /\ Len(stack'[c]) > 0 /\ Len(stack'[c]) # 0
            /\ at'[c] \notin Empty \cup {"created", "leaving"} /\ at'[c] # "closing"
            /\ scope'[c] \in Registry' /\ tables'.parent[scope'[c]] = Top(c, Len(stack[c]))'
        BY <1>2, <1>3, <2>1, <3>1, <3>2, <3>3 DEF Empty
      <3> QED
        BY <3>7, <3>8 DEF CurrentOf
    <2> QED
      BY <2>2, <2>3
  <1>9. \A d \in Contexts \ {c} : \A i \in 1 .. Len(stack[d]) : Top(d, i) # s
    BY <1>4 DEF HasEntry
  <1>10. \A d \in Contexts \ {c} : at'[d] = at[d] /\ counter'[d] = counter[d]
    BY <1>2, <1>3
  <1>11. at' \in [Contexts -> Listed \cup Empty]
    BY <1>3 DEF Trees, Typed
  <1> QED
    BY <1>1, <1>2, <1>3, <1>4, <1>5, <1>6, <1>7, <1>8, <1>9, <1>10, <1>11, DropInv

(* A context whose loop has ended, with entries left on its return stack:  *)
(* its scope is the table the last of them refers to.                      *)
LEMMA ClosingScope ==
  ASSUME Trees, NEW c \in Contexts, at[c] = "closing",
         NEW k, k = Len(stack[c]), k > 1, NEW s, s = scope[c],
         NEW t, t = Top(c, k - 1)
  PROVE  /\ s \in Registry /\ t \in Registry \cup {NoTable}
         /\ s = Top(c, k) /\ tables.parent[s] = t
         /\ ~ HasChild(s) /\ s # t /\ tables.refs[s] = 2
         /\ t # NoTable => tables.refs[t] = 3
         /\ \A d \in Contexts \ {c} : \A i \in 1 .. Len(stack[d]) : Top(d, i) # s
  <1>1. k \in Nat /\ NoTable \notin Registry /\ k \in 1 .. Len(stack[c])
        /\ k - 1 \in 1 .. Len(stack[c])
    <2>1. k \in Nat /\ NoTable \notin Registry
      BY Numbers DEF Trees
    <2> QED
      BY <2>1
  <1>2. CurrentOf(c) /\ Stacked(c) /\ Linked /\ Counted /\ Single
    BY DEF Trees
  <1>3. s = Top(c, k)
    BY <1>1, <1>2 DEF CurrentOf
  <1>4. s \in Registry /\ tables.parent[s] = t /\ s # NoTable
    BY <1>1, <1>2, <1>3 DEF Stacked
  <1>5. ~ HasChild(s)
    BY <1>2, <1>4 DEF CurrentOf
  <1>6. s # t
    BY <1>4, <1>5 DEF HasChild
  <1>7. HasEntry(s)
    BY <1>1, <1>3 DEF HasEntry
  <1>8. tables.refs[s] = 2
    BY <1>2, <1>4, <1>5, <1>7 DEF Counted, One
  <1>9. t \in Registry \cup {NoTable}
    BY <1>1, EntriesListed
  <1>10. ASSUME t # NoTable
         PROVE  tables.refs[t] = 3
    <2>1. HasChild(t)
      BY <1>4 DEF HasChild
    <2>2. HasEntry(t)
      BY <1>1 DEF HasEntry
    <2> QED
      BY <1>2, <1>9, <1>10, <2>1, <2>2 DEF Counted, One
  <1>11. \A d \in Contexts \ {c} : \A i \in 1 .. Len(stack[d]) : Top(d, i) # s
    BY <1>1, <1>2, <1>3, <1>4 DEF Single
  <1> QED
    BY <1>3, <1>4, <1>5, <1>6, <1>8, <1>9, <1>10, <1>11

(* The references of the return stack of c, given back                     *)
EntriesOf(c, k) == {Top(c, i) : i \in 1 .. k}

LEMMA UnwoundGiven ==
  ASSUME Trees, NEW c \in Contexts, NEW k, k = Len(stack[c]),
         NEW given, given = EntriesOf(c, k),
         NEW ts, ts = Unwound(tables, stack[c])
  PROVE  /\ IsGiven(ts, given)
         /\ \A q \in Registry : ts.refs[q] = IF q \in given THEN tables.refs[q] - 1
                                             ELSE tables.refs[q]
         /\ given \subseteq {NoTable} => ts = tables
  <1>1. /\ k \in Nat /\ made \in 0 .. MaxTables /\ tables \in Tables(made) /\ Single
        /\ Registry \subseteq 1 .. MaxTables /\ NoTable \notin Registry
        /\ Listing(tables) = Registry
        /\ tables.refs \in [1 .. MaxTables -> Nat]
        /\ \A i \in 1 .. k : Top(c, i) \in 0 .. made
    BY Numbers, RegistryIsListing DEF Trees, Typed
  <1>2. PICK states, top : states = stack[c] /\ top = made
    OBVIOUS
  <1>3. \A i : states[i].top = Top(c, i)
    BY <1>2 DEF Top
  <1>4. \A i \in 1 .. k : states[i].top # NoTable => tables.refs[states[i].top] > 1
    <2> SUFFICES ASSUME NEW i \in 1 .. k, Top(c, i) # NoTable
                 PROVE  tables.refs[Top(c, i)] > 1
      BY <1>3
    <2>1. Top(c, i) \in Registry
      BY EntriesListed
    <2>2. HasEntry(Top(c, i))
      BY DEF HasEntry
    <2> QED
      BY <2>1, <2>2 DEF Trees, Counted, One
  <1>5. \A i, j \in 1 .. k :
          states[i].top = states[j].top => i = j \/ states[i].top = NoTable
    BY <1>1, <1>3 DEF Single
  <1>6. \A i \in 1 .. k : states[i].top \in 0 .. made
    BY <1>1, <1>3
  <1>7. /\ ts \in Tables(made) /\ ts.parent = tables.parent
        /\ ts.registry = tables.registry
        /\ \A q \in 1 .. MaxTables :
             ts.refs[q] = IF \E i \in 1 .. k : states[i].top = q THEN tables.refs[q] - 1
                          ELSE tables.refs[q]
    <2>1. /\ top \in 0 .. MaxTables /\ tables \in Tables(top) /\ Len(states) = k
          /\ \A i \in 1 .. k : states[i].top \in 0 .. top
          /\ ts = Unwound(tables, states)
      BY <1>1, <1>2, <1>6
    <2>2. IsUnwound(Unwound(tables, states), tables, states, k, top)
      BY <1>1, <1>4, <1>5, <2>1, UnwoundEffect
    <2> QED
      BY <1>2, <2>1, <2>2 DEF IsUnwound
  <1>8. \A q : (\E i \in 1 .. k : states[i].top = q) <=> q \in given
    BY <1>3 DEF EntriesOf
  <1>9. \A q \in 1 .. MaxTables :
          ts.refs[q] = IF q \in given THEN tables.refs[q] - 1 ELSE tables.refs[q]
    BY <1>7, <1>8
  <1>10. IsGiven(ts, given)
    <2>1. Listing(ts) = Registry
      BY <1>1, <1>7 DEF Listing
    <2>2. ASSUME NEW q \in Registry
          PROVE  ts.refs[q] = tables.refs[q] - One(q \in given)
      <3>1. /\ tables.refs[q] \in Nat
            /\ ts.refs[q] = IF q \in given THEN tables.refs[q] - 1 ELSE tables.refs[q]
        BY <1>1, <1>9
      <3>2. One(q \in given) = IF q \in given THEN 1 ELSE 0
        BY DEF One
      <3> QED
        BY <3>1, <3>2
    <2> QED
      BY <1>7, <2>1, <2>2 DEF IsGiven
  <1>11. ASSUME given \subseteq {NoTable}
         PROVE  ts = tables
    <2>1. ts.refs \in [1 .. MaxTables -> Nat]
      BY <1>7, TableFields
    <2>2. \A q \in 1 .. MaxTables : ts.refs[q] = tables.refs[q]
      BY <1>9, <1>11 DEF NoTable
    <2>3. ts.refs = tables.refs
      <3>1. PICK f, g : f = ts.refs /\ g = tables.refs
        OBVIOUS
      <3>2. /\ f \in [1 .. MaxTables -> Nat] /\ g \in [1 .. MaxTables -> Nat]
            /\ \A q \in 1 .. MaxTables : f[q] = g[q]
        BY <1>1, <2>1, <2>2, <3>1
      <3>3. /\ f = [q \in 1 .. MaxTables |-> f[q]]
            /\ g = [q \in 1 .. MaxTables |-> g[q]]
        BY <3>2, Zenon
      <3>4. f = g
        BY <3>2, <3>3, Zenon
      <3> QED
        BY <3>1, <3>4
    <2> QED
      <3>1. ts = [refs |-> ts.refs, parent |-> ts.parent, registry |-> ts.registry]
        BY <1>7, TableFields
      <3>2. tables = [refs |-> tables.refs, parent |-> tables.parent,
                      registry |-> tables.registry]
        BY <1>1, TableFields
      <3> QED
        BY <1>7, <2>3, <3>1, <3>2
  <1> QED
    BY <1>1, <1>9, <1>10, <1>11

LEMMA CloseTrees ==
  ASSUME Trees, NEW c \in Contexts, Close(c)
  PROVE  Trees'
  <1>1. /\ at[c] = "closing" /\ at' = [at EXCEPT ![c] = "leaving"]
        /\ tables' = Destroyed(Unwound(tables, stack[c]), scope[c])
        /\ scope' = [scope EXCEPT ![c] = NoTable]
        /\ stack' = [stack EXCEPT ![c] = <<>>]
        /\ UNCHANGED <<made, counter, registered>>
    BY DEF Close
  <1>2. /\ at'[c] = "leaving" /\ \A d \in Contexts \ {c} : at'[d] = at[d]
        /\ at' \in [Contexts -> Listed \cup Empty]
    BY <1>1 DEF Trees, Typed, Listed
  <1>3. Reserved'
    BY <1>1, <1>2, KeptReserved
  <1>4. Typed
    BY DEF Trees
  <1>5. /\ Len(stack'[c]) = 0 /\ \A d \in Contexts \ {c} : stack'[d] = stack[d]
        /\ stack' \in [Contexts -> Seq(States(made))]
    <2>1. PICK none : none = <<>>
      OBVIOUS
    <2>2. none \in Seq(States(made)) /\ Len(none) = 0
      BY <2>1, EmptySeq
    <2>3. stack' = [stack EXCEPT ![c] = none]
      BY <1>1, <2>1
    <2> QED
      BY <1>4, <2>2, <2>3 DEF Typed
  <1>6. /\ scope'[c] = NoTable /\ \A d \in Contexts \ {c} : scope'[d] = scope[d]
        /\ scope' \in [Contexts -> 0 .. made]
    BY <1>1, <1>4, Numbers DEF Typed, NoTable
  <1>7. CurrentOf(c)'
    <2>1. ~ Running(c)'
      BY <1>2 DEF Running
    <2> QED
      BY <1>5, <1>6, <2>1 DEF CurrentOf
  <1>15. PICK k, s, ts : k = Len(stack[c]) /\ s = scope[c] /\ ts = Unwound(tables, stack[c])
    OBVIOUS
  <1>16. PICK given : given = EntriesOf(c, k)
    OBVIOUS
  <1>8. /\ k = Len(stack[c]) /\ s = scope[c] /\ ts = Unwound(tables, stack[c])
        /\ \A q : q \in given <=> \E i \in 1 .. k : Top(c, i) = q
    BY <1>15, <1>16 DEF EntriesOf
  <1>9. k \in Nat
    BY <1>4, <1>8, Numbers
  <1>10. /\ IsGiven(ts, given)
         /\ \A q \in Registry : ts.refs[q] = IF q \in given THEN tables.refs[q] - 1
                                             ELSE tables.refs[q]
         /\ given \subseteq {NoTable} => ts = tables
    BY <1>15, <1>16, UnwoundGiven
  <1>11. \A d \in Contexts \ {c} : at'[d] = at[d] /\ counter'[d] = counter[d]
    BY <1>1, <1>2
  <1>12. counter' \in [Contexts -> {"code", "end"}] /\ registered' = registered
         /\ registered \subseteq Contexts
    BY <1>1, <1>4 DEF Typed
  <1>13. CASE k \leq 1
    <2>1. \A i \in 1 .. k : Top(c, i) = NoTable
      BY <1>8, <1>9, <1>13 DEF Trees, Stacked
    <2>2. s = NoTable
      <3>1. k = 0 \/ k = 1
        BY <1>9, <1>13
      <3>2. k = 1 => Top(c, k) = NoTable
        BY <2>1
      <3> QED
        BY <1>1, <1>8, <3>1, <3>2 DEF Trees, CurrentOf
    <2>3. tables' = tables
      <3>1. ts = tables
        BY <1>8, <1>10, <2>1
      <3> QED
        BY <1>1, <1>8, <2>2, <3>1, DestroyedNone
    <2>4. scope' = scope
      BY <1>1, <1>4, <1>8, <2>2 DEF Typed
    <2> QED
      BY <1>1, <1>2, <1>3, <1>5, <1>7, <1>8, <1>11, <1>12, <2>1, <2>3, <2>4, QuietInv
  <1>14. CASE k > 1
    <2>1. PICK t : t = Top(c, k - 1)
      OBVIOUS
    <2>2. /\ s \in Registry /\ t \in Registry \cup {NoTable}
          /\ s = Top(c, k) /\ tables.parent[s] = t
          /\ ~ HasChild(s) /\ s # t /\ tables.refs[s] = 2
          /\ t # NoTable => tables.refs[t] = 3
          /\ \A d \in Contexts \ {c} : \A i \in 1 .. Len(stack[d]) : Top(d, i) # s
      BY <1>1, <1>8, <1>14, <2>1, ClosingScope
    <2>3. s \in given /\ t \in given
      <3>1. k \in 1 .. k /\ k - 1 \in 1 .. k
        BY <1>9, <1>14
      <3> QED
        BY <1>8, <2>1, <2>2, <3>1
    <2>4. ts.refs[s] = 1 /\ (t # NoTable => ts.refs[t] > 0 /\ t # s)
      BY <1>10, <2>2, <2>3
    <2>5. IsGone(tables', s, t, given)
      BY <1>1, <1>4, <1>8, <1>10, <2>2, <2>4, ScopeGone
    <2>6. Dropped(c, s, t, 0, k)
      <3>1. \A q \in Registry \ {s} :
              (\E i \in 0 + 1 .. k : Top(c, i) = q) <=> q \in given
        BY <1>8
      <3>2. \A i \in 1 .. 0 : stack'[c][i] = stack[c][i] /\ Top(c, i) # s
        OBVIOUS
      <3>3. made' = made
        BY <1>1
      <3> QED
        BY <1>5, <1>6, <2>5, <3>1, <3>2, <3>3, DroppedFrom
    <2>7. 0 \in 0 .. k
      BY <1>9
    <2> QED
      BY <1>2, <1>3, <1>7, <1>8, <1>11, <1>12, <2>2, <2>6, <2>7, DropInv
  <1> QED
    BY <1>9, <1>13, <1>14

-----------------------------------------------------------------------------
(* It holds at the start.                                                  *)
LEMMA InitTrees ==
  Init => Trees
  <1> SUFFICES ASSUME Init PROVE Trees
    OBVIOUS
  <1>1. PICK none : none = <<>>
    OBVIOUS
  <1>2. Len(none) = 0 /\ \A S : none \in Seq(S)
    BY <1>1, EmptySeq
  <1>3. /\ made = 0 /\ MaxTables \in Nat
        /\ tables = [refs |-> [n \in 1 .. MaxTables |-> 0],
                     parent |-> [n \in 1 .. MaxTables |-> NoTable], registry |-> none]
        /\ scope = [c \in Contexts |-> NoTable]
        /\ stack = [c \in Contexts |-> none]
        /\ counter = [c \in Contexts |-> "code"]
        /\ at \in [Contexts -> {"created", "unborn"}]
        /\ registered = {Main}
    BY <1>1, ScopesAssumption DEF Init
  <1>4. \A c \in Contexts : Len(stack[c]) = 0 /\ scope[c] = NoTable
    BY <1>2, <1>3
  <1>5. Registry = {}
    <2>1. tables.registry = none
      BY <1>3
    <2> QED
      BY <1>2, <2>1 DEF Registry
  <1>6. tables \in Tables(0)
    <2>1. PICK refs, parent : refs = [n \in 1 .. MaxTables |-> 0]
                              /\ parent = [n \in 1 .. MaxTables |-> NoTable]
      OBVIOUS
    <2>2. refs \in [1 .. MaxTables -> Nat] /\ parent \in [1 .. MaxTables -> 0 .. 0]
          /\ none \in Seq(1 .. 0)
      BY <1>2, <2>1 DEF NoTable
    <2>3. \A i, j \in 1 .. Len(none) : none[i] = none[j] => i = j
      BY <1>2
    <2>4. [refs |-> refs, parent |-> parent, registry |-> none] \in Tables(0)
      BY <2>2, <2>3, TableRecord
    <2> QED
      BY <1>3, <2>1, <2>4
  <1>7. Typed
    <2>1. \A c \in Contexts : stack[c] \in Seq(States(made))
      BY <1>2, <1>3
    <2>2. stack \in [Contexts -> Seq(States(made))]
      BY <1>3, <2>1
    <2>3. at \in [Contexts -> Listed \cup Empty]
      BY <1>3 DEF Listed, Empty
    <2>4. scope \in [Contexts -> 0 .. made] /\ counter \in [Contexts -> {"code", "end"}]
      BY <1>3 DEF NoTable
    <2>5. made \in 0 .. MaxTables /\ tables \in Tables(made) /\ registered \subseteq Contexts
      BY <1>3, <1>6, ScopesAssumption
    <2> QED
      BY <2>2, <2>3, <2>4, <2>5 DEF Typed
  <1>8. Reserved
    <2>1. Waiting = Contexts
      BY <1>3 DEF Waiting
    <2>2. Cardinality(Contexts) \in Nat
      BY ScopesAssumption, FS_CardinalityType
    <2> QED
      BY <1>3, <2>1, <2>2, ScopesAssumption DEF Reserved
  <1>9. Linked /\ Counted
    BY <1>5 DEF Linked, Counted
  <1>10. Single /\ Apart
    BY <1>4 DEF Single, Apart
  <1>11. ASSUME NEW c \in Contexts
         PROVE  Stacked(c) /\ CurrentOf(c)
    <2>1. at[c] \in {"created", "unborn"} /\ ~ Running(c)
      BY <1>3 DEF Running
    <2>2. Stacked(c)
      BY <1>4, ScopesAssumption DEF Stacked
    <2>3. CurrentOf(c)
      BY <1>4, <2>1 DEF CurrentOf
    <2> QED
      BY <2>2, <2>3
  <1> QED
    BY <1>7, <1>8, <1>9, <1>10, <1>11 DEF Trees

(* Every step preserves it.                                                *)
LEMMA StepTrees ==
  ASSUME Trees, [Next]_vars
  PROVE  Trees'
  <1>1. CASE UNCHANGED vars \/ MainProceeds \/ SpuriousWakeup
    BY <1>1, StillTrees
  <1>2. ASSUME NEW c \in Contexts, CoroFails(c)
        PROVE  Trees'
    BY <1>2, StillTrees
  <1>3. ASSUME NEW c \in Contexts, End(c) \/ Leave(c) \/ Tell(c)
        PROVE  Trees'
    BY <1>3, MovingTrees
  <1>4. ASSUME NEW c \in Contexts, NEW child \in Contexts, Coro(c, child)
        PROVE  Trees'
    BY <1>4, MovingTrees
  <1>5. ASSUME NEW c \in Contexts, Start(c) \/ Call(c) \/ Return(c) \/ EndScope(c) \/ Close(c)
        PROVE  Trees'
    BY <1>5, StartTrees, CallTrees, ReturnTrees, EndScopeTrees, CloseTrees
  <1> QED
    BY <1>1, <1>2, <1>3, <1>4, <1>5 DEF Next, Proceed

LEMMA AlwaysTrees ==
  Spec => []Trees
  BY InitTrees, StepTrees, PTL DEF Spec

-----------------------------------------------------------------------------
(* Theorem.  For any number of contexts, calls and tables, while contexts  *)
(* run and while they end, a symbol table has one reference of its own,    *)
(* one for each child scope and one for each return stack entry to it:     *)
(* none dies under a scope or a RETURN that will need it, none is leaked.  *)
THEOREM ReferencesBalance ==
  Spec => []RefsBalance
  <1>1. ASSUME Trees, NEW n \in Registry
        PROVE  Cardinality(Children(n)) = One(HasChild(n))
    <2>1. n # NoTable
      BY <1>1, Numbers DEF Trees
    <2>2. CASE HasChild(n)
      <3>1. PICK q \in Registry : tables.parent[q] = n
        BY <2>2 DEF HasChild
      <3>2. Children(n) = {q}
        BY <1>1, <2>1, <3>1 DEF Children, Trees, Linked
      <3> QED
        BY <2>2, <3>2, FS_Singleton DEF One
    <2>3. CASE ~ HasChild(n)
      <3>1. Children(n) = {}
        BY <2>3 DEF Children, HasChild
      <3> QED
        BY <2>3, <3>1, FS_EmptySet DEF One
    <2> QED
      BY <2>2, <2>3
  <1>2. ASSUME Trees, NEW n \in Registry
        PROVE  Cardinality(EntriesTo(n)) = One(HasEntry(n))
    <2>1. n # NoTable
      BY <1>2, Numbers DEF Trees
    <2>2. ASSUME NEW c \in Contexts
          PROVE  /\ Len(stack[c]) \in Nat
                 /\ \A i \in 1 .. Len(stack[c]) : i \in 1 .. MaxCalls + 1
      BY <1>2, Numbers, ScopesAssumption, SMTT(30) DEF Trees, Stacked
    <2>3. ASSUME NEW e \in EntriesTo(n)
          PROVE  /\ e = <<e[1], e[2]>> /\ e[1] \in Contexts
                 /\ e[2] \in 1 .. Len(stack[e[1]]) /\ Top(e[1], e[2]) = n
      BY <2>2 DEF EntriesTo, Top
    <2>4. CASE HasEntry(n)
      <3>1. PICK c \in Contexts : \E i \in 1 .. Len(stack[c]) : Top(c, i) = n
        BY <2>4 DEF HasEntry
      <3>2. PICK i \in 1 .. Len(stack[c]) : Top(c, i) = n
        BY <3>1
      <3>3. <<c, i>> \in EntriesTo(n)
        BY <2>2, <3>2 DEF EntriesTo, Top
      <3>4. ASSUME NEW e \in EntriesTo(n)
            PROVE  e = <<c, i>>
        <4>1. e[1] = c /\ e[2] = i
          BY <1>2, <2>1, <2>3, <3>2 DEF Trees, Single
        <4> QED
          BY <2>3, <4>1
      <3>5. EntriesTo(n) = {<<c, i>>}
        BY <3>3, <3>4
      <3> QED
        BY <2>4, <3>5, FS_Singleton DEF One
    <2>5. CASE ~ HasEntry(n)
      <3>1. EntriesTo(n) = {}
        BY <2>3, <2>5 DEF HasEntry
      <3> QED
        BY <2>5, <3>1, FS_EmptySet DEF One
    <2> QED
      BY <2>4, <2>5
  <1>3. Trees => RefsBalance
    BY <1>1, <1>2 DEF Trees, Counted, RefsBalance
  <1> QED
    BY <1>3, AlwaysTrees, PTL

(* Theorem.  However many contexts call, return and end, all that a lookup *)
(* climbs through and all that a RETURN goes back to is listed, and alive. *)
THEOREM ScopesStayLive ==
  Spec => []ScopesLive
  <1>1. ASSUME Trees
        PROVE  ScopesLive
    <2>1. TypeOK
      BY <1>1, Numbers DEF Trees, Typed, TypeOK
    <2>2. \A c \in Contexts :
            /\ scope[c] \in Registry \cup {NoTable}
            /\ \A i \in 1 .. Len(stack[c]) : stack[c][i].top \in Registry \cup {NoTable}
      BY <1>1, EntriesListed DEF Top
    <2>3. \A n \in Registry : tables.parent[n] \in Registry \cup {NoTable}
      BY <1>1 DEF Trees, Linked
    <2> QED
      BY <2>1, <2>2, <2>3 DEF ScopesLive
  <1> QED
    BY <1>1, AlwaysTrees, PTL

(* Theorem.  A RETURN makes the scope of the matching call current again,  *)
(* however many calls were made and returned from in between.              *)
THEOREM ReturnsRestoreScopes ==
  Spec => ReturnRestoresScope
  <1> DEFINE Restores ==
        \A c \in Contexts :
          Running(c) /\ Len(stack'[c]) < Len(stack[c])
            => scope'[c] = stack[c][Len(stack[c])].top
  <1>1. ASSUME Trees, [Next]_vars
        PROVE  Restores
    <2> SUFFICES ASSUME NEW c \in Contexts, Running(c),
                        Len(stack'[c]) < Len(stack[c])
                 PROVE  scope'[c] = stack[c][Len(stack[c])].top
      OBVIOUS
    <2>1. Len(stack[c]) \in Nat /\ at[c] = "running"
          /\ stack = [d \in Contexts |-> stack[d]]
      BY <1>1, Numbers DEF Trees, Typed, Running
    <2>2. CASE Return(c)
      BY <1>1, <2>2, ReturnEffect DEF Top
    <2>3. ASSUME stack'[c] = stack[c]
          PROVE  FALSE
      BY <2>1, <2>3
    <2>4. ASSUME NEW position, PushAndStartScope(c, position)
          PROVE  FALSE
      <3>1. PICK e : stack'[c] = Append(stack[c], e)
        BY <2>1, <2>4 DEF PushAndStartScope
      <3>2. Len(stack'[c]) = Len(stack[c]) + 1
        <4>1. stack[c] \in Seq(States(made) \cup {e}) /\ e \in States(made) \cup {e}
          BY <1>1, Numbers, SeqMonotonic DEF Trees
        <4> QED
          BY <3>1, <4>1, AppendProperties
      <3> QED
        BY <2>1, <3>2
    <2>5. CASE UNCHANGED stack
      BY <2>3, <2>5
    <2>6. ASSUME NEW d \in Contexts, Start(d) \/ Call(d)
          PROVE  FALSE
      <3>1. PICK position : PushAndStartScope(d, position)
        BY <2>6 DEF Start, Call
      <3>2. CASE d = c
        BY <2>4, <3>1, <3>2
      <3>3. CASE d # c
        BY <2>1, <2>3, <3>1, <3>3 DEF PushAndStartScope
      <3> QED
        BY <3>2, <3>3
    <2>7. ASSUME NEW d \in Contexts, Close(d)
          PROVE  FALSE
      BY <2>1, <2>3, <2>7 DEF Close
    <2>8. ASSUME NEW d \in Contexts, d # c, Return(d)
          PROVE  FALSE
      BY <2>1, <2>3, <2>8 DEF Return
    <2>9. \/ UNCHANGED stack
          \/ \E d \in Contexts : Start(d) \/ Call(d) \/ Close(d) \/ Return(d)
      BY <1>1 DEF Next, vars, Proceed, EndScope, Leave, Tell, CoroFails, End, Coro,
                  MainProceeds, MainExecuted, MainLooks, Collect, SpuriousWakeup
    <2> QED
      BY <2>2, <2>5, <2>6, <2>7, <2>8, <2>9
  <1>2. Trees /\ [Next]_vars => [Restores]_vars
    BY <1>1
  <1> QED
    BY <1>2, AlwaysTrees, PTL DEF Spec, ReturnRestoresScope

-----------------------------------------------------------------------------
(***************************************************************************)
(* The symbol tables of one context.  Each open scope keeps a binary       *)
(* search tree, and its theorems follow from one inductive invariant,      *)
(* SymbolInv: every table is a search tree.                                *)
(***************************************************************************)

-----------------------------------------------------------------------------
(* Trees                                                                   *)

Sides == {"left", "right"}

(* Key m may be on that side of key n.                                     *)
Before(side, m, n) == IF side = "left" THEN m < n ELSE n < m

(* D says for each node of a search tree what is in the tree below it.     *)
Shaped(own, kid, root, D) ==
  /\ own \subseteq Nat /\ IsFiniteSet(own)
  /\ kid \in [own -> [Sides -> own \cup {Null}]]
  /\ root \in own \cup {Null}
  /\ D \in [own \cup {Null} -> SUBSET own]
  /\ D[Null] = {} /\ D[root] = own
  /\ \A n \in own : D[n] = {n} \cup D[kid[n]["left"]] \cup D[kid[n]["right"]]
  /\ \A n \in own, side \in Sides : \A m \in D[kid[n][side]] : Before(side, m, n)

(* What a node has below it, on either side.                               *)
Parted(own, kid, D, n, side) ==
  /\ kid[n][side] \in own \cup {Null} /\ kid[n][Other(side)] \in own \cup {Null}
  /\ Other(side) \in Sides /\ n # Null
  /\ D[n] \subseteq own /\ n \in D[n]
  /\ D[kid[n][side]] \subseteq D[n]
  /\ n \notin D[kid[n][side]] /\ n \notin D[kid[n][Other(side)]]
  /\ D[kid[n][side]] \cap D[kid[n][Other(side)]] = {}
  /\ D[n] = {n} \cup D[kid[n][side]] \cup D[kid[n][Other(side)]]
  /\ kid[n][side] # n

(* That is so of every node.                                               *)
LEMMA BelowNode ==
  ASSUME NEW own, NEW kid, NEW root, NEW D, Shaped(own, kid, root, D),
         NEW n \in own, NEW side \in Sides
  PROVE  Parted(own, kid, D, n, side)
  <1>1. /\ kid[n]["left"] \in own \cup {Null} /\ kid[n]["right"] \in own \cup {Null}
        /\ D[n] \subseteq own /\ own \subseteq Nat
        /\ D[n] = {n} \cup D[kid[n]["left"]] \cup D[kid[n]["right"]]
        /\ D[kid[n]["left"]] \subseteq own /\ D[kid[n]["right"]] \subseteq own
    BY DEF Shaped, Sides
  <1>2. /\ \A m \in D[kid[n]["left"]] : m < n
        /\ \A m \in D[kid[n]["right"]] : n < m
    BY DEF Shaped, Sides, Before
  <1>3. n \notin D[kid[n]["left"]] /\ n \notin D[kid[n]["right"]]
    BY <1>1, <1>2
  <1>4. D[kid[n]["left"]] \cap D[kid[n]["right"]] = {}
    <2>1. PICK L, R : L = D[kid[n]["left"]] /\ R = D[kid[n]["right"]]
      OBVIOUS
    <2>2. n \in Nat /\ L \subseteq Nat /\ R \subseteq Nat
      BY <1>1, <2>1
    <2>3. (\A m \in L : m < n) /\ (\A m \in R : n < m)
      BY <1>2, <2>1
    <2>4. L \cap R = {}
      BY <2>2, <2>3
    <2> QED
      BY <2>1, <2>4
  <1>5. n # Null
    BY <1>1 DEF Null
  <1>6. Other(side) \in Sides /\ {side, Other(side)} = Sides
    BY DEF Other, Sides
  <1>7. kid[n][side] # n
    <2>1. n \in D[n]
      BY <1>1
    <2>2. n \notin D[kid[n][side]]
      BY <1>3 DEF Sides
    <2> QED
      BY <2>1, <2>2
  <1>8. CASE side = "left"
    <2>1. Other(side) = "right"
      BY <1>8 DEF Other
    <2> QED
      BY <1>1, <1>3, <1>4, <1>5, <1>7, <1>8, <2>1 DEF Sides, Parted
  <1>9. CASE side = "right"
    <2>1. Other(side) = "left"
      BY <1>9 DEF Other
    <2> QED
      BY <1>1, <1>3, <1>4, <1>5, <1>7, <1>9, <2>1 DEF Sides, Parted
  <1> QED
    BY <1>8, <1>9 DEF Sides

(* What holds of every node whose children it holds of holds of the tree.  *)
LEMMA TreeInduction ==
  ASSUME NEW own, NEW kid, NEW root, NEW D, Shaped(own, kid, root, D),
         NEW P,
         \A n \in own : (\A side \in Sides : kid[n][side] \in own => kid[n][side] \in P) => n \in P
  PROVE  \A n \in own : n \in P
  <1> SUFFICES ASSUME NEW x \in own, x \notin P
               PROVE  FALSE
    OBVIOUS
  <1> DEFINE Bad == {n \in own : n \notin P}
             T == {Cardinality(D[n]) : n \in Bad}
  <1>1. ASSUME NEW n \in own
        PROVE  IsFiniteSet(D[n]) /\ Cardinality(D[n]) \in Nat
    <2>1. IsFiniteSet(own) /\ D[n] \in SUBSET own
      BY DEF Shaped
    <2> QED
      BY <2>1, FS_Subset, FS_CardinalityType
  <1>2. T \subseteq Nat /\ T # {}
    BY <1>1
  <1> HIDE DEF T
  <1>3. PICK k \in T : \A i \in T : k <= i
    BY <1>2, LeastNumber
  <1> USE DEF T
  <1>4. PICK n \in Bad : k = Cardinality(D[n])
    BY <1>3
  <1>5. PICK side \in Sides : kid[n][side] \in own /\ kid[n][side] \notin P
    BY <1>4
  <1>6. Cardinality(D[n]) <= Cardinality(D[kid[n][side]])
    <2>1. kid[n][side] \in Bad
      BY <1>5
    <2>2. Cardinality(D[kid[n][side]]) \in T
      BY <2>1
    <2> QED
      BY <1>3, <1>4, <2>2
  <1>7. D[kid[n][side]] \subseteq D[n] /\ n \in D[n] /\ n \notin D[kid[n][side]]
    <2>1. n \in own
      OBVIOUS
    <2>2. Parted(own, kid, D, n, side)
      BY <2>1, BelowNode
    <2> QED
      BY <2>2 DEF Parted
  <1>8. IsFiniteSet(D[n])
    BY <1>1
  <1>9. Cardinality(D[kid[n][side]]) \in Nat /\ Cardinality(D[n]) \in Nat
    BY <1>1, <1>5
  <1>10. Cardinality(D[kid[n][side]]) <= Cardinality(D[n])
    BY <1>7, <1>8, FS_Subset
  <1>11. Cardinality(D[n]) = Cardinality(D[kid[n][side]]) => D[n] = D[kid[n][side]]
    BY <1>7, <1>8, FS_Subset
  <1> QED
    BY <1>6, <1>7, <1>9, <1>10, <1>11

(* What is below a node below a node is below that.                        *)
LEMMA BelowBelow ==
  ASSUME NEW own, NEW kid, NEW root, NEW D, Shaped(own, kid, root, D),
         NEW n \in own, NEW m \in D[n]
  PROVE  D[m] \subseteq D[n] /\ m \in own
  <1> DEFINE P == {x \in own : \A y \in D[x] : D[y] \subseteq D[x]}
  <1>1. ASSUME NEW x \in own,
               \A side \in Sides : kid[x][side] \in own => kid[x][side] \in P
        PROVE  x \in P
    <2> SUFFICES ASSUME NEW y \in D[x]
                 PROVE  D[y] \subseteq D[x]
      OBVIOUS
    <2>1. CASE y = x
      BY <2>1
    <2>2. ASSUME NEW side \in Sides, y \in D[kid[x][side]]
          PROVE  D[y] \subseteq D[x]
      <3>1. kid[x][side] \in own
        BY <2>2, BelowNode DEF Shaped, Parted
      <3>2. D[y] \subseteq D[kid[x][side]]
        BY <1>1, <2>2, <3>1
      <3> QED
        BY <3>2, BelowNode DEF Parted
    <2>3. "left" \in Sides /\ "right" \in Sides
      BY DEF Sides
    <2>4. D[x] = {x} \cup D[kid[x]["left"]] \cup D[kid[x]["right"]]
      BY DEF Shaped
    <2> QED
      BY <2>1, <2>2, <2>3, <2>4
  <1> HIDE DEF P
  <1>2. n \in P
    BY <1>1, TreeInduction
  <1> USE DEF P
  <1>3. m \in own
    BY DEF Shaped
  <1> QED
    BY <1>2, <1>3

(* Every node but the root is somebody's child.                            *)
LEMMA SomeParent ==
  ASSUME NEW own, NEW kid, NEW root, NEW D, Shaped(own, kid, root, D),
         NEW n \in own, n # root
  PROVE  \E m \in own, side \in Sides : kid[m][side] = n
  <1> DEFINE P == {x \in own : \A y \in D[x] : y # x => \E m \in own, side \in Sides : kid[m][side] = y}
  <1>1. ASSUME NEW x \in own,
               \A side \in Sides : kid[x][side] \in own => kid[x][side] \in P
        PROVE  x \in P
    <2> SUFFICES ASSUME NEW y \in D[x], y # x
                 PROVE  \E m \in own, side \in Sides : kid[m][side] = y
      OBVIOUS
    <2>1. PICK side \in Sides : y \in D[kid[x][side]]
      <3>1. D[x] = {x} \cup D[kid[x]["left"]] \cup D[kid[x]["right"]]
        BY DEF Shaped
      <3> QED
        BY <3>1 DEF Sides
    <2>2. kid[x][side] \in own
      BY <2>1, BelowNode DEF Shaped, Parted
    <2>3. kid[x][side] \in P
      BY <1>1, <2>2
    <2> QED
      BY <2>1, <2>3
  <1> HIDE DEF P
  <1>2. \A x \in own : x \in P
    BY <1>1, TreeInduction
  <1> USE DEF P
  <1>3. root \in own /\ D[root] = own
    <2>1. root \in own \cup {Null} /\ D[root] = own /\ D[Null] = {}
      BY DEF Shaped
    <2> QED
      BY <2>1
  <1> QED
    BY <1>2, <1>3

(* Walking the tree from the root meets every node.                        *)
LEMMA TreeIsAll ==
  ASSUME NEW own, NEW kid, NEW root, NEW D, Shaped(own, kid, root, D),
         NEW B, B[Null] = {},
         \A n \in own : B[n] = {n} \cup B[kid[n]["left"]] \cup B[kid[n]["right"]]
  PROVE  B[root] = own
  <1> DEFINE P == {x \in own : B[x] = D[x]}
  <1>1. ASSUME NEW x \in own,
               \A side \in Sides : kid[x][side] \in own => kid[x][side] \in P
        PROVE  x \in P
    <2>1. ASSUME NEW side \in Sides
          PROVE  B[kid[x][side]] = D[kid[x][side]]
      <3>1. kid[x][side] \in own \cup {Null} /\ D[Null] = {}
        BY DEF Shaped
      <3> QED
        BY <1>1, <3>1
    <2>2. D[x] = {x} \cup D[kid[x]["left"]] \cup D[kid[x]["right"]]
      BY DEF Shaped
    <2> QED
      BY <2>1, <2>2 DEF Sides
  <1> HIDE DEF P
  <1>2. \A x \in own : x \in P
    BY <1>1, TreeInduction
  <1> USE DEF P
  <1>3. root \in own \cup {Null} /\ D[root] = own /\ D[Null] = {}
    BY DEF Shaped
  <1> QED
    BY <1>2, <1>3

(* What Shaped says of the tree, and of one of its nodes.                  *)
Rooted(own, kid, root, D) ==
  /\ own \subseteq Nat /\ IsFiniteSet(own) /\ Null \notin own
  /\ kid \in [own -> [Sides -> own \cup {Null}]] /\ root \in own \cup {Null}
  /\ D \in [own \cup {Null} -> SUBSET own] /\ D[Null] = {} /\ D[root] = own

Ordered(kid, D, n) ==
  /\ D[n] = {n} \cup D[kid[n]["left"]] \cup D[kid[n]["right"]]
  /\ \A m \in D[kid[n]["left"]] : m < n
  /\ \A m \in D[kid[n]["right"]] : n < m

(* A tree is one if it is so node by node.                                 *)
LEMMA ShapedBy ==
  ASSUME NEW own, NEW kid, NEW root, NEW D,
         Rooted(own, kid, root, D), \A n \in own : Ordered(kid, D, n)
  PROVE  Shaped(own, kid, root, D)
  <1>1. \A n \in own, side \in Sides : \A m \in D[kid[n][side]] : Before(side, m, n)
    <2> SUFFICES ASSUME NEW n \in own, NEW side \in Sides, NEW m \in D[kid[n][side]]
                 PROVE  Before(side, m, n)
      OBVIOUS
    <2>1. CASE side = "left"
      BY <2>1 DEF Before, Ordered
    <2>2. CASE side = "right"
      BY <2>2 DEF Before, Ordered
    <2> QED
      BY <2>1, <2>2 DEF Sides
  <1> QED
    BY <1>1 DEF Shaped, Rooted, Ordered

(* A tree is rooted: types, and everything is below the root.              *)
LEMMA ShapedIsRooted ==
  ASSUME NEW own, NEW kid, NEW root, NEW D, Shaped(own, kid, root, D)
  PROVE  Rooted(own, kid, root, D)
  BY DEF Shaped, Rooted, Null

(* In a tree every node is between what is on its left and on its right.   *)
LEMMA ShapedIsOrdered ==
  ASSUME NEW own, NEW kid, NEW root, NEW D, Shaped(own, kid, root, D), NEW n \in own
  PROVE  Ordered(kid, D, n)
  BY DEF Shaped, Sides, Before, Ordered

(* The children without n, whose place c takes.                            *)
KidsWithout(own, kid, n, c) ==
  [m \in own \ {n} |-> [side \in Sides |-> IF kid[m][side] = n THEN c ELSE kid[m][side]]]

(* A tree is one still when a node with at most one child is replaced by   *)
(* that child.                                                             *)
LEMMA ShapeRemoved ==
  ASSUME NEW own, NEW kid, NEW root, NEW D, Shaped(own, kid, root, D),
         NEW n \in own, NEW side \in Sides, kid[n][Other(side)] = Null
  PROVE  Shaped(own \ {n}, KidsWithout(own, kid, n, kid[n][side]),
                IF n = root THEN kid[n][side] ELSE root,
                [m \in (own \ {n}) \cup {Null} |-> D[m] \ {n}])
  <1>1. PICK own2, c, kid2, root2, E :
          /\ own2 = own \ {n} /\ c = kid[n][side] /\ kid2 = KidsWithout(own, kid, n, c)
          /\ root2 = (IF n = root THEN c ELSE root)
          /\ E = [m \in own2 \cup {Null} |-> D[m] \ {n}]
    OBVIOUS
  <1>2. /\ own \subseteq Nat /\ IsFiniteSet(own) /\ Null \notin own
        /\ kid \in [own -> [Sides -> own \cup {Null}]] /\ root \in own \cup {Null}
        /\ D \in [own \cup {Null} -> SUBSET own] /\ D[Null] = {} /\ D[root] = own
    <2>1. Rooted(own, kid, root, D)
      BY ShapedIsRooted
    <2> QED
      BY <2>1 DEF Rooted
  <1>3. /\ c \in own2 \cup {Null} /\ D[n] = {n} \cup D[c] /\ n \notin D[c]
    <2>1. Parted(own, kid, D, n, side)
      BY BelowNode
    <2> QED
      BY <1>1, <1>2, <2>1 DEF Parted
  <1>4. own2 \subseteq Nat /\ IsFiniteSet(own2)
    BY <1>1, <1>2, FS_RemoveElement, ZenonT(60)
  <1>5. \A m \in own2, s \in Sides : kid[m][s] \in own \cup {Null}
    BY <1>1, <1>2
  <1>6. /\ kid2 \in [own2 -> [Sides -> own2 \cup {Null}]]
        /\ \A m \in own2, s \in Sides : kid2[m][s] = IF kid[m][s] = n THEN c ELSE kid[m][s]
    <2>1. kid2 = [m \in own2 |-> [s \in Sides |-> IF kid[m][s] = n THEN c ELSE kid[m][s]]]
      BY <1>1 DEF KidsWithout
    <2>2. \A m \in own2, s \in Sides : (IF kid[m][s] = n THEN c ELSE kid[m][s]) \in own2 \cup {Null}
      BY <1>1, <1>3, <1>5
    <2> QED
      BY <2>1, <2>2
  <1>7. /\ E \in [own2 \cup {Null} -> SUBSET own2] /\ E[Null] = {}
        /\ \A m \in own2 \cup {Null} : E[m] = D[m] \ {n}
    BY <1>1, <1>2
  <1>8. root2 \in own2 \cup {Null} /\ E[root2] = own2
    <2>1. CASE n = root
      BY <1>1, <1>2, <1>3, <1>7, <2>1
    <2>2. CASE n # root
      BY <1>1, <1>2, <1>7, <2>2
    <2> QED
      BY <2>1, <2>2
  <1>9. ASSUME NEW m \in own2, NEW s \in Sides
        PROVE  E[kid2[m][s]] = D[kid[m][s]] \ {n}
    <2>1. CASE kid[m][s] = n
      BY <1>3, <1>6, <1>7, <2>1
    <2>2. CASE kid[m][s] # n
      <3>1. kid2[m][s] = kid[m][s] /\ kid[m][s] \in own2 \cup {Null}
        BY <1>1, <1>5, <1>6, <2>2
      <3> QED
        BY <1>7, <3>1
    <2> QED
      BY <2>1, <2>2
  <1>10. ASSUME NEW m \in own2
         PROVE  Ordered(kid2, E, m)
    <2>1. /\ E[kid2[m]["left"]] = D[kid[m]["left"]] \ {n}
          /\ E[kid2[m]["right"]] = D[kid[m]["right"]] \ {n}
      BY <1>9 DEF Sides
    <2>2. m \in own /\ m # n
      BY <1>1
    <2>3. /\ D[m] = {m} \cup D[kid[m]["left"]] \cup D[kid[m]["right"]]
          /\ \A y \in D[kid[m]["left"]] : y < m
          /\ \A y \in D[kid[m]["right"]] : m < y
      BY <2>2, ShapedIsOrdered DEF Ordered
    <2>4. E[m] = D[m] \ {n}
      BY <1>7
    <2> QED
      BY <2>1, <2>2, <2>3, <2>4 DEF Ordered
  <1>11. Shaped(own2, kid2, root2, E)
    <2>1. Rooted(own2, kid2, root2, E)
      BY <1>1, <1>2, <1>4, <1>6, <1>7, <1>8 DEF Rooted
    <2> QED
      BY <1>10, <2>1, ShapedBy
  <1> QED
    BY <1>1, <1>11

(* The children with a new leaf on one side of p.                          *)
KidsWith(own, kid, id, p, side) ==
  [m \in own \cup {id} |->
     [s \in Sides |-> IF m = id THEN Null ELSE IF m = p /\ s = side THEN id ELSE kid[m][s]]]

(* The leaf is on the right side of every node it is below.                *)
Fits(own, kid, D, id, p, side) ==
  /\ Before(side, id, p)
  /\ \A m \in own, s \in Sides : p \in D[kid[m][s]] => Before(s, id, m)

(* The first node of a tree.                                               *)
LEMMA ShapeStarted ==
  ASSUME NEW kid, NEW D, NEW id \in Nat, Shaped({}, kid, Null, D), NEW p, NEW side
  PROVE  \E E : Shaped({id}, KidsWith({}, kid, id, p, side), id, E)
  <1>1. PICK kid2, E, own2 : /\ own2 = {id} /\ kid2 = KidsWith({}, kid, id, p, side)
                       /\ E = [m \in {id, Null} |-> IF m = id THEN {id} ELSE {}]
    OBVIOUS
  <1>2. id # Null
    BY DEF Null
  <1>3. kid2 = [m \in {id} |-> [s \in Sides |-> Null]]
    BY <1>1 DEF KidsWith
  <1>4. kid2[id]["left"] = Null /\ kid2[id]["right"] = Null
    BY <1>3 DEF Sides
  <1>5. /\ kid2 \in [own2 -> [Sides -> own2 \cup {Null}]]
    BY <1>1, <1>3
  <1>6. /\ E \in [own2 \cup {Null} -> SUBSET own2] /\ E[Null] = {} /\ E[id] = own2
    BY <1>1, <1>2
  <1>7. IsFiniteSet(own2) /\ own2 \subseteq Nat /\ Null \notin own2 /\ id \in own2
    BY <1>1, <1>2, FS_Singleton
  <1>8. Rooted(own2, kid2, id, E)
    BY <1>5, <1>6, <1>7 DEF Rooted
  <1>9. \A n \in own2 : Ordered(kid2, E, n)
    BY <1>1, <1>4, <1>6 DEF Ordered
  <1>10. Shaped(own2, kid2, id, E)
    BY <1>8, <1>9, ShapedBy
  <1> QED
    BY <1>1, <1>10

(* A tree with a new leaf.                                                 *)
LEMMA ShapeInserted ==
  ASSUME NEW own, NEW kid, NEW root, NEW D, Shaped(own, kid, root, D),
         NEW p \in own, NEW side \in Sides, kid[p][side] = Null,
         NEW id \in Nat, id \notin own, Fits(own, kid, D, id, p, side)
  PROVE  \E E : Shaped(own \cup {id}, KidsWith(own, kid, id, p, side), root, E)
  <1>1. PICK own2, kid2, E :
          /\ own2 = own \cup {id} /\ kid2 = KidsWith(own, kid, id, p, side)
          /\ E = [m \in own2 \cup {Null} |->
                    IF m = id THEN {id} ELSE IF p \in D[m] THEN D[m] \cup {id} ELSE D[m]]
    OBVIOUS
  <1>2. /\ own \subseteq Nat /\ IsFiniteSet(own) /\ Null \notin own
        /\ kid \in [own -> [Sides -> own \cup {Null}]] /\ root \in own \cup {Null}
        /\ D \in [own \cup {Null} -> SUBSET own] /\ D[Null] = {} /\ D[root] = own
    <2>1. Rooted(own, kid, root, D)
      BY ShapedIsRooted
    <2> QED
      BY <2>1 DEF Rooted
  <1>3. id # Null /\ p # id
    BY DEF Null
  <1>4. own2 \subseteq Nat /\ IsFiniteSet(own2) /\ Null \notin own2
    BY <1>1, <1>2, <1>3, FS_AddElement
  <1>5. \A m \in own, s \in Sides : kid[m][s] \in own \cup {Null}
    BY <1>2
  <1>6. /\ kid2 \in [own2 -> [Sides -> own2 \cup {Null}]]
        /\ \A s \in Sides : kid2[id][s] = Null
        /\ \A m \in own, s \in Sides :
             kid2[m][s] = IF m = p /\ s = side THEN id ELSE kid[m][s]
    <2>1. kid2 = [m \in own2 |-> [s \in Sides |-> IF m = id THEN Null
                     ELSE IF m = p /\ s = side THEN id ELSE kid[m][s]]]
      BY <1>1 DEF KidsWith
    <2>2. \A m \in own2, s \in Sides :
            (IF m = id THEN Null ELSE IF m = p /\ s = side THEN id ELSE kid[m][s]) \in own2 \cup {Null}
      BY <1>1, <1>5
    <2> QED
      BY <1>1, <1>2, <2>1, <2>2
  <1>7. /\ E[id] = {id}
        /\ \A m \in own \cup {Null} : E[m] = IF p \in D[m] THEN D[m] \cup {id} ELSE D[m]
    BY <1>1, <1>2, <1>3
  <1>8. E \in [own2 \cup {Null} -> SUBSET own2] /\ E[Null] = {} /\ E[root] = own2
    <2>1. E[root] = own2 /\ E[Null] = {}
      BY <1>1, <1>2, <1>7
    <2>2. \A m \in own2 \cup {Null} :
            (IF m = id THEN {id} ELSE IF p \in D[m] THEN D[m] \cup {id} ELSE D[m]) \in SUBSET own2
      BY <1>1, <1>2
    <2> QED
      BY <1>1, <2>1, <2>2
  <1>9. ASSUME NEW m \in own, NEW s \in Sides
        PROVE  /\ \A y \in E[kid2[m][s]] : y \in D[kid[m][s]] \/ y = id
               /\ D[kid[m][s]] \subseteq E[kid2[m][s]]
               /\ id \in E[kid2[m][s]] <=> (m = p /\ s = side) \/ p \in D[kid[m][s]]
    <2>1. CASE m = p /\ s = side
      BY <1>2, <1>6, <1>7, <2>1
    <2>2. CASE ~ (m = p /\ s = side)
      <3>1. kid2[m][s] = kid[m][s] /\ kid[m][s] \in own \cup {Null}
        BY <1>5, <1>6, <2>2
      <3>2. id \notin D[kid[m][s]]
        BY <1>2, <3>1
      <3>3. PICK c : c = kid[m][s]
        OBVIOUS
      <3>4. E[c] = (IF p \in D[c] THEN D[c] \cup {id} ELSE D[c])
        BY <1>7, <3>1, <3>3
      <3> QED
        BY <2>2, <3>1, <3>2, <3>3, <3>4
    <2> QED
      BY <2>1, <2>2
  <1>10. ASSUME NEW m \in own
         PROVE  Ordered(kid2, E, m)
    <2>1. "left" \in Sides /\ "right" \in Sides /\ (side = "left" \/ side = "right")
      BY DEF Sides
    <2>2. /\ D[m] = {m} \cup D[kid[m]["left"]] \cup D[kid[m]["right"]]
          /\ \A y \in D[kid[m]["left"]] : y < m
          /\ \A y \in D[kid[m]["right"]] : m < y
      BY ShapedIsOrdered DEF Ordered
    <2>3. E[m] = IF p \in D[m] THEN D[m] \cup {id} ELSE D[m]
      BY <1>7
    <2>4. E[m] = {m} \cup E[kid2[m]["left"]] \cup E[kid2[m]["right"]]
      <3>1. p \in D[m] <=> m = p \/ p \in D[kid[m]["left"]] \/ p \in D[kid[m]["right"]]
        BY <2>2
      <3>2. \A y : y \in E[m] <=> y \in D[m] \/ (y = id /\ p \in D[m])
        BY <2>3
      <3>3. id \in E[kid2[m]["left"]] \cup E[kid2[m]["right"]] <=> p \in D[m]
        BY <1>9, <2>1, <3>1
      <3>4. \A y : y # id => (y \in E[kid2[m]["left"]] <=> y \in D[kid[m]["left"]])
        BY <1>9, <2>1
      <3>5. \A y : y # id => (y \in E[kid2[m]["right"]] <=> y \in D[kid[m]["right"]])
        BY <1>9, <2>1
      <3>6. id \notin D[m] /\ m # id
        BY <1>2
      <3> QED
        BY <2>2, <3>2, <3>3, <3>4, <3>5, <3>6
    <2>5. ASSUME NEW s \in Sides, id \in E[kid2[m][s]]
          PROVE  Before(s, id, m)
      <3>1. CASE m = p /\ s = side
        BY <3>1 DEF Fits
      <3>2. CASE p \in D[kid[m][s]]
        BY <3>2 DEF Fits
      <3> QED
        BY <1>9, <2>5, <3>1, <3>2
    <2>6. \A y \in E[kid2[m]["left"]] : y < m
      <3>1. id \in E[kid2[m]["left"]] => id < m
        BY <2>1, <2>5 DEF Before
      <3> QED
        BY <1>9, <2>1, <2>2, <3>1
    <2>7. \A y \in E[kid2[m]["right"]] : m < y
      <3>1. id \in E[kid2[m]["right"]] => m < id
        BY <2>1, <2>5 DEF Before
      <3> QED
        BY <1>9, <2>1, <2>2, <3>1
    <2> QED
      BY <2>4, <2>6, <2>7 DEF Ordered
  <1>11. Ordered(kid2, E, id)
    <2>1. kid2[id]["left"] = Null /\ kid2[id]["right"] = Null
      BY <1>6 DEF Sides
    <2> QED
      BY <1>7, <1>8, <2>1 DEF Ordered
  <1>12. Rooted(own2, kid2, root, E)
    BY <1>1, <1>2, <1>4, <1>6, <1>8 DEF Rooted
  <1>13. Shaped(own2, kid2, root, E)
    BY <1>1, <1>10, <1>11, <1>12, ShapedBy
  <1> QED
    BY <1>1, <1>13

(* new, a child of join, is the neighbour of n on one side, and is not its *)
(* child.                                                                  *)
NextTo(own, kid, D, n, new, join, side) ==
  /\ join \in own /\ join # n /\ join \in D[n] /\ new \in own
  /\ kid[join][Other(side)] = new /\ kid[new][Other(side)] = Null
  /\ new \in D[kid[n][side]]
  /\ \A x \in D[kid[n][side]] : x # new => Before(side, x, new)
  /\ \A m \in own, s \in Sides : kid[m][s] = new => m = join /\ s = Other(side)

(* The children without n, whose place new takes.                          *)
KidsSwapped(own, kid, n, new, join, side) ==
  [m \in own \ {n} |->
     [s \in Sides |->
        IF m = new THEN kid[n][s]
        ELSE IF m = join /\ s = Other(side) THEN kid[new][side]
        ELSE IF kid[m][s] = n THEN new ELSE kid[m][s]]]

(* A tree is one still when the next node on a side takes the place of a   *)
(* node and leaves its own to its child.                                   *)
LEMMA ShapeSwapped ==
  ASSUME NEW own, NEW kid, NEW root, NEW D, Shaped(own, kid, root, D),
         NEW n \in own, NEW new, NEW join, NEW side \in Sides,
         NextTo(own, kid, D, n, new, join, side)
  PROVE  \E E : Shaped(own \ {n}, KidsSwapped(own, kid, n, new, join, side),
                       IF n = root THEN new ELSE root, E)
  <1>1. PICK own2, kid2, root2, E, other, c, o :
          /\ own2 = own \ {n} /\ kid2 = KidsSwapped(own, kid, n, new, join, side)
          /\ root2 = (IF n = root THEN new ELSE root)
          /\ other = Other(side) /\ c = kid[n][side] /\ o = kid[new][side]
          /\ E = [m \in own2 \cup {Null} |->
                    IF m = new THEN D[n] \ {n}
                    ELSE IF n \in D[m] THEN D[m] \ {n} ELSE D[m] \ {new}]
    OBVIOUS
  <1>2. /\ own \subseteq Nat /\ IsFiniteSet(own) /\ Null \notin own
        /\ kid \in [own -> [Sides -> own \cup {Null}]] /\ root \in own \cup {Null}
        /\ D \in [own \cup {Null} -> SUBSET own] /\ D[Null] = {} /\ D[root] = own
    <2>1. Rooted(own, kid, root, D)
      BY ShapedIsRooted
    <2> QED
      BY <2>1 DEF Rooted
  <1>3. \A m \in own, s \in Sides : kid[m][s] \in own \cup {Null}
    BY <1>2
  <1>4. /\ other \in Sides /\ side # other /\ Sides = {side, other}
    BY <1>1 DEF Other, Sides
  <1>5. /\ join \in own /\ join # n /\ join \in D[n] /\ new \in own
        /\ kid[join][other] = new /\ kid[new][other] = Null
        /\ new \in D[c]
        /\ \A x \in D[c] : x # new => Before(side, x, new)
        /\ \A m \in own, s \in Sides : kid[m][s] = new => m = join /\ s = other
    <2>1. /\ join \in own /\ join # n /\ join \in D[n] /\ new \in own
          /\ kid[join][Other(side)] = new /\ kid[new][Other(side)] = Null
          /\ new \in D[kid[n][side]]
      BY DEF NextTo
    <2>2. \A x \in D[kid[n][side]] : x # new => Before(side, x, new)
      BY DEF NextTo
    <2>3. ASSUME NEW m \in own, NEW s \in Sides, kid[m][s] = new
          PROVE  m = join /\ s = Other(side)
      BY <2>3 DEF NextTo
    <2>4. other = Other(side) /\ c = kid[n][side]
      BY <1>1
    <2> QED
      BY <2>1, <2>2, <2>3, <2>4
  <1>6. /\ D[n] = {n} \cup D[c] \cup D[kid[n][other]] /\ n \notin D[c] /\ n \notin D[kid[n][other]]
        /\ D[c] \cap D[kid[n][other]] = {}
    <2>1. Parted(own, kid, D, n, side)
      BY BelowNode
    <2> QED
      BY <1>1, <2>1 DEF Parted
  <1>7. D[new] = {new} \cup D[o] /\ new \notin D[o]
    <2>1. Parted(own, kid, D, new, side)
      BY <1>5, BelowNode
    <2> QED
      BY <1>1, <1>2, <1>5, <2>1 DEF Parted
  <1>8. new # n /\ new # join /\ new \in D[n]
    <2>1. Parted(own, kid, D, join, other)
      BY <1>4, <1>5, BelowNode
    <2> QED
      BY <1>5, <1>6, <2>1 DEF Parted
  <1>9. D[new] \subseteq D[c] /\ n \notin D[new]
    <2>1. c \in own
      BY <1>1, <1>2, <1>3, <1>5
    <2>2. D[new] \subseteq D[c]
      BY <1>5, <2>1, BelowBelow
    <2> QED
      BY <1>6, <2>2
  (* n and join are not both below the other. *)
  <1>10. n \notin D[join]
    <2>1. join \in D[c] \cup D[kid[n][other]]
      BY <1>5, <1>6
    <2>2. ASSUME NEW s \in Sides, join \in D[kid[n][s]]
          PROVE  n \notin D[join]
      <3>1. Parted(own, kid, D, n, s)
        BY BelowNode
      <3>2. kid[n][s] \in own
        BY <1>2, <1>3, <2>2
      <3>3. D[join] \subseteq D[kid[n][s]]
        BY <2>2, <3>2, BelowBelow
      <3> QED
        BY <3>1, <3>3 DEF Parted
    <2> QED
      BY <1>1, <1>4, <2>1, <2>2
  <1>11. own2 \subseteq Nat /\ IsFiniteSet(own2) /\ Null \notin own2 /\ new \in own2
    BY <1>1, <1>2, <1>5, <1>8, FS_RemoveElement, ZenonT(60)
  <1>12. /\ kid2 \in [own2 -> [Sides -> own2 \cup {Null}]]
         /\ \A s \in Sides : kid2[new][s] = kid[n][s]
         /\ kid2[join][other] = o
         /\ \A m \in own2, s \in Sides : m # new /\ ~ (m = join /\ s = other) =>
              kid2[m][s] = IF kid[m][s] = n THEN new ELSE kid[m][s]
    <2>1. kid2 = [m \in own2 |-> [s \in Sides |->
                    IF m = new THEN kid[n][s] ELSE IF m = join /\ s = other THEN o
                    ELSE IF kid[m][s] = n THEN new ELSE kid[m][s]]]
      BY <1>1 DEF KidsSwapped
    <2>2. ASSUME NEW s \in Sides
          PROVE  kid[n][s] # n
      <3>1. Parted(own, kid, D, n, s)
        BY BelowNode
      <3> QED
        BY <3>1 DEF Parted
    <2>3. o # n
      <3>1. Parted(own, kid, D, new, side)
        BY <1>5, BelowNode
      <3>2. o = n => n \in D[o]
        <4>1. Parted(own, kid, D, n, side)
          BY BelowNode
        <4> QED
          BY <4>1 DEF Parted
      <3> QED
        BY <1>7, <1>9, <3>2
    <2>4. o \in own \cup {Null}
      BY <1>1, <1>3, <1>5
    <2>5. \A m \in own2, s \in Sides :
            (IF m = new THEN kid[n][s] ELSE IF m = join /\ s = other THEN o
             ELSE IF kid[m][s] = n THEN new ELSE kid[m][s]) \in own2 \cup {Null}
      BY <1>1, <1>3, <1>11, <2>2, <2>3, <2>4
    <2>6. join \in own2
      BY <1>1, <1>5
    <2> QED
      BY <1>4, <1>8, <1>11, <2>1, <2>5, <2>6
  <1>13. /\ E \in [own2 \cup {Null} -> SUBSET own2] /\ E[Null] = {}
         /\ E[new] = D[n] \ {n}
         /\ \A m \in own2 \cup {Null} : m # new =>
              E[m] = IF n \in D[m] THEN D[m] \ {n} ELSE D[m] \ {new}
    <2>1. \A m \in own2 \cup {Null} :
            (IF m = new THEN D[n] \ {n}
             ELSE IF n \in D[m] THEN D[m] \ {n} ELSE D[m] \ {new}) \in SUBSET own2
      BY <1>1, <1>2
    <2> QED
      BY <1>1, <1>2, <1>11, <2>1
  <1>14. root2 \in own2 \cup {Null} /\ E[root2] = own2
    <2>1. CASE n = root
      BY <1>1, <1>2, <1>11, <1>13, <2>1
    <2>2. CASE n # root
      <3>1. root # new
        BY <1>2, <1>9
      <3> QED
        BY <1>1, <1>2, <1>13, <2>2, <3>1
    <2> QED
      BY <2>1, <2>2
  (* The nodes above n *)
  <1>15. ASSUME NEW m \in own2, n \in D[m], NEW s \in Sides
         PROVE  E[kid2[m][s]] = D[kid[m][s]] \ {n}
    <2>1. PICK k : k = kid[m][s]
      OBVIOUS
    <2>2. m # new /\ m # join
      BY <1>9, <1>10, <1>15
    <2>3. kid2[m][s] = IF k = n THEN new ELSE k
      BY <1>12, <2>1, <2>2
    <2>4. k \in own \cup {Null} /\ k # new
      BY <1>1, <1>3, <1>5, <2>1, <2>2
    <2>5. CASE k = n
      BY <1>13, <2>1, <2>3, <2>5
    <2>6. CASE k # n
      <3>1. E[k] = IF n \in D[k] THEN D[k] \ {n} ELSE D[k] \ {new}
        BY <1>1, <1>13, <2>4, <2>6
      <3>2. n \notin D[k] => new \notin D[k]
        <4>1. Parted(own, kid, D, m, s) /\ m # n /\ m \in own
          BY <1>1, BelowNode
        <4>2. PICK j : j = kid[m][Other(s)]
          OBVIOUS
        <4>3. D[m] = {m} \cup D[k] \cup D[j] /\ D[k] \cap D[j] = {} /\ j \in own \cup {Null}
          BY <2>1, <4>1, <4>2 DEF Parted
        <4>4. ASSUME n \notin D[k]
              PROVE  new \notin D[k]
          <5>1. n \in D[j] /\ j \in own
            BY <1>2, <1>15, <4>1, <4>3, <4>4
          <5>2. D[n] \subseteq D[j]
            BY <5>1, BelowBelow
          <5> QED
            BY <1>8, <4>3, <5>2
        <4> QED
          BY <4>4
      <3> QED
        BY <2>1, <2>3, <2>6, <3>1, <3>2
    <2> QED
      BY <2>5, <2>6
  (* The others, except new *)
  <1>16. ASSUME NEW m \in own2, m # new, n \notin D[m], NEW s \in Sides
         PROVE  E[kid2[m][s]] = D[kid[m][s]] \ {new}
    <2>1. PICK k : k = kid[m][s]
      OBVIOUS
    <2>2. k \in own \cup {Null} /\ n \notin D[k] /\ k # n
      <3>1. Parted(own, kid, D, m, s)
        BY <1>1, BelowNode
      <3>2. Parted(own, kid, D, n, s)
        BY BelowNode
      <3> QED
        BY <1>16, <2>1, <3>1, <3>2 DEF Parted
    <2>3. CASE m = join /\ s = other
      <3>1. k = new /\ kid2[m][s] = o
        BY <1>5, <1>12, <2>1, <2>3
      <3>2. o \in own \cup {Null} /\ o # n /\ o # new
        <4>1. Parted(own, kid, D, new, side)
          BY <1>5, BelowNode, SMTT(30)
        <4>2. o = n => n \in D[o]
          <5>1. Parted(own, kid, D, n, side)
            BY BelowNode
          <5> QED
            BY <5>1 DEF Parted
        <4>3. o # n
          BY <1>7, <1>9, <4>2, SMTT(30)
        <4> QED
          BY <1>1, <4>1, <4>3 DEF Parted
      <3>3. E[o] = IF n \in D[o] THEN D[o] \ {n} ELSE D[o] \ {new}
        BY <1>1, <1>13, <3>2
      <3> QED
        BY <1>7, <1>9, <2>1, <3>1, <3>3
    <2>4. CASE ~ (m = join /\ s = other)
      <3>1. kid2[m][s] = k /\ k # new
        BY <1>1, <1>5, <1>12, <1>16, <2>1, <2>2, <2>4
      <3>2. E[k] = IF n \in D[k] THEN D[k] \ {n} ELSE D[k] \ {new}
        BY <1>1, <1>13, <2>2, <3>1, SMTT(30)
      <3> QED
        BY <2>1, <2>2, <3>1, <3>2, SMTT(30)
    <2> QED
      BY <2>3, <2>4
  <1>17. ASSUME NEW s \in Sides
         PROVE  E[kid2[new][s]] = D[kid[n][s]] \ {new}
    <2>1. PICK k : k = kid[n][s]
      OBVIOUS
    <2>2. k \in own \cup {Null} /\ n \notin D[k] /\ k # n
      <3>1. Parted(own, kid, D, n, s)
        BY BelowNode
      <3> QED
        BY <2>1, <3>1, SMTT(30) DEF Parted
    <2>3. kid2[new][s] = k /\ k # new
      BY <1>5, <1>12, <2>1
    <2>4. E[k] = IF n \in D[k] THEN D[k] \ {n} ELSE D[k] \ {new}
      BY <1>1, <1>13, <2>2, <2>3
    <2> QED
      BY <2>1, <2>2, <2>3, <2>4
  <1>18. ASSUME NEW m \in own2
         PROVE  Ordered(kid2, E, m)
    <2>1. CASE n \in D[m]
      <3>1. Ordered(kid, D, m) /\ m # n
        BY <1>1, ShapedIsOrdered
      <3>2. E[m] = D[m] \ {n}
        BY <1>9, <1>13, <2>1
      <3>3. /\ E[kid2[m]["left"]] = D[kid[m]["left"]] \ {n}
            /\ E[kid2[m]["right"]] = D[kid[m]["right"]] \ {n}
        BY <1>15, <2>1 DEF Sides
      <3> QED
        BY <3>1, <3>2, <3>3, SMTT(30) DEF Ordered
    <2>2. CASE n \notin D[m] /\ m # new
      <3>1. Ordered(kid, D, m)
        BY <1>1, ShapedIsOrdered
      <3>2. E[m] = D[m] \ {new}
        BY <1>13, <2>2
      <3>3. /\ E[kid2[m]["left"]] = D[kid[m]["left"]] \ {new}
            /\ E[kid2[m]["right"]] = D[kid[m]["right"]] \ {new}
        BY <1>16, <2>2 DEF Sides
      <3> QED
        BY <2>2, <3>1, <3>2, <3>3 DEF Ordered
    <2>3. CASE m = new
      <3>1. Ordered(kid, D, n)
        BY ShapedIsOrdered
      <3>2. /\ E[kid2[m]["left"]] = D[kid[n]["left"]] \ {new}
            /\ E[kid2[m]["right"]] = D[kid[n]["right"]] \ {new}
        BY <1>17, <2>3 DEF Sides
      <3>3. /\ n \notin D[kid[n]["left"]] /\ n \notin D[kid[n]["right"]]
        BY <1>1, <1>4, <1>6 DEF Sides
      <3>4. /\ \A y \in D[kid[n]["left"]] : y # new => y < new
            /\ \A y \in D[kid[n]["right"]] : y # new => new < y
        <4>1. D[kid[n]["left"]] \subseteq Nat /\ D[kid[n]["right"]] \subseteq Nat /\ n \in Nat /\ new \in Nat
          BY <1>2, <1>3, <1>5 DEF Sides
        <4>2. CASE side = "left"
          <5>1. \A y \in D[kid[n]["left"]] : y # new => y < new
            BY <1>1, <1>5, <4>2 DEF Before
          <5>2. new < n
            BY <1>1, <1>5, <3>1, <4>2 DEF Ordered
          <5> QED
            BY <3>1, <4>1, <5>1, <5>2 DEF Ordered
        <4>3. CASE side = "right"
          <5>1. \A y \in D[kid[n]["right"]] : y # new => new < y
            BY <1>1, <1>5, <4>3 DEF Before
          <5>2. n < new
            BY <1>1, <1>5, <3>1, <4>3 DEF Ordered
          <5> QED
            BY <3>1, <4>1, <5>1, <5>2 DEF Ordered
        <4> QED
          BY <4>2, <4>3 DEF Sides
      <3>5. E[m] = {m} \cup E[kid2[m]["left"]] \cup E[kid2[m]["right"]]
        <4>1. D[n] = {n} \cup D[kid[n]["left"]] \cup D[kid[n]["right"]]
          BY <3>1 DEF Ordered
        <4> QED
          BY <1>8, <1>13, <2>3, <3>2, <3>3, <4>1
      <3> QED
        BY <2>3, <3>2, <3>4, <3>5 DEF Ordered
    <2> QED
      BY <2>1, <2>2, <2>3, SMTT(30)
  <1>19. Rooted(own2, kid2, root2, E)
    BY <1>11, <1>12, <1>13, <1>14 DEF Rooted
  <1>20. Shaped(own2, kid2, root2, E)
    BY <1>18, <1>19, ShapedBy
  <1> QED
    BY <1>1, <1>20

(* Being before is transitive, and the other way round on the other side.  *)
LEMMA BeforeOrders ==
  ASSUME NEW a \in Nat, NEW b \in Nat, NEW c \in Nat, NEW side \in Sides
  PROVE  /\ Before(Other(side), a, b) <=> Before(side, b, a)
         /\ Before(side, a, b) /\ Before(side, b, c) => Before(side, a, c)
  <1>1. CASE side = "left"
    BY <1>1 DEF Before, Other
  <1>2. CASE side = "right"
    BY <1>2 DEF Before, Other
  <1> QED
    BY <1>1, <1>2 DEF Sides

(* There are two sides.                                                    *)
LEMMA SidesDiffer ==
  ASSUME NEW side \in Sides
  PROVE  Other(side) \in Sides /\ side # Other(side) /\ Sides = {side, Other(side)}
  BY DEF Other, Sides

(* A walk from one symbol to the next, which ends at some of them          *)
Walks(g, T, Stop, step) == g = [m \in T |-> IF m \in Stop THEN m ELSE g[step[m]]]

(* Every step is one to a child.                                           *)
ToChildren(own, kid, Stop, step) ==
  \A m \in own : m \notin Stop => \E s \in Sides : step[m] = kid[m][s] /\ step[m] \in own

(* Such a walk on a tree, always to a child, is one a recursive definition *)
(* can describe.                                                           *)
LEMMA LoopExists ==
  ASSUME NEW own, NEW kid, NEW root, NEW D, Shaped(own, kid, root, D),
         NEW Stop, NEW step,
         ToChildren(own, kid, Stop, step)
  PROVE  \E f : Walks(f, own, Stop, step)
  <1> DEFINE P == {x \in own : \E g : Walks(g, D[x], Stop, step)}
  <1>1. ASSUME NEW T, T = {}
        PROVE  \E g : Walks(g, T, Stop, step)
    <2>1. PICK g : g = [m \in T |-> 0]
      OBVIOUS
    <2>2. g = [m \in T |-> IF m \in Stop THEN m ELSE g[step[m]]]
      BY <1>1, <2>1
    <2> QED
      BY <2>2 DEF Walks
  <1>2. ASSUME NEW x \in own,
               \A side \in Sides : kid[x][side] \in own => kid[x][side] \in P
        PROVE  x \in P
    <2>1. ASSUME NEW s \in Sides
          PROVE  \E g : Walks(g, D[kid[x][s]], Stop, step)
      <3>1. kid[x][s] \in own \cup {Null} /\ D[Null] = {}
        BY DEF Shaped
      <3>2. CASE kid[x][s] = Null
        BY <1>1, <3>1, <3>2
      <3>3. CASE kid[x][s] \in own
        BY <1>2, <3>3
      <3> QED
        BY <3>1, <3>2, <3>3
    <2>2. PICK l, r : l = D[kid[x]["left"]] /\ r = D[kid[x]["right"]]
      OBVIOUS
    <2>3. D[x] = {x} \cup l \cup r /\ x \notin l /\ x \notin r /\ l \cap r = {}
      <3>1. Parted(own, kid, D, x, "left")
        BY BelowNode DEF Sides
      <3>2. Other("left") = "right"
        BY DEF Other
      <3> QED
        BY <2>2, <3>1, <3>2 DEF Parted
    <2>4. PICK gl : Walks(gl, l, Stop, step)
      BY <2>1, <2>2 DEF Sides
    <2>5. PICK gr : Walks(gr, r, Stop, step)
      BY <2>1, <2>2 DEF Sides
    <2>6. PICK g : g = [m \in D[x] |->
                          IF m \in l THEN gl[m] ELSE IF m \in r THEN gr[m]
                          ELSE IF x \in Stop THEN x
                          ELSE IF step[x] \in l THEN gl[step[x]] ELSE gr[step[x]]]
      OBVIOUS
    <2>7. \A m \in l : m \notin Stop => step[m] \in l
      <3> SUFFICES ASSUME NEW m \in l, m \notin Stop
                   PROVE  step[m] \in l
        OBVIOUS
      <3>1. kid[x]["left"] \in own
        BY <2>2 DEF Shaped, Sides
      <3>2. D[m] \subseteq l /\ m \in own
        BY <2>2, <3>1, BelowBelow
      <3>3. PICK s \in Sides : step[m] = kid[m][s] /\ step[m] \in own
        BY <3>2 DEF ToChildren
      <3>4. Parted(own, kid, D, m, s)
        BY <3>2, BelowNode
      <3>5. step[m] \in D[step[m]]
        BY <3>3, BelowNode DEF Parted
      <3> QED
        BY <3>2, <3>3, <3>4, <3>5 DEF Parted
    <2>8. \A m \in r : m \notin Stop => step[m] \in r
      <3> SUFFICES ASSUME NEW m \in r, m \notin Stop
                   PROVE  step[m] \in r
        OBVIOUS
      <3>1. kid[x]["right"] \in own
        BY <2>2 DEF Shaped, Sides
      <3>2. D[m] \subseteq r /\ m \in own
        BY <2>2, <3>1, BelowBelow
      <3>3. PICK s \in Sides : step[m] = kid[m][s] /\ step[m] \in own
        BY <3>2 DEF ToChildren
      <3>4. Parted(own, kid, D, m, s)
        BY <3>2, BelowNode
      <3>5. step[m] \in D[step[m]]
        BY <3>3, BelowNode DEF Parted
      <3> QED
        BY <3>2, <3>3, <3>4, <3>5 DEF Parted
    <2>9. x \notin Stop => step[x] \in l \cup r
      <3> SUFFICES ASSUME x \notin Stop
                   PROVE  step[x] \in l \cup r
        OBVIOUS
      <3>1. PICK s \in Sides : step[x] = kid[x][s] /\ step[x] \in own
        BY DEF ToChildren
      <3>2. step[x] \in D[step[x]]
        BY <3>1, BelowNode DEF Parted
      <3> QED
        BY <2>2, <3>1, <3>2 DEF Sides
    <2>10. /\ \A m \in l : gl[m] = IF m \in Stop THEN m ELSE gl[step[m]]
           /\ \A m \in r : gr[m] = IF m \in Stop THEN m ELSE gr[step[m]]
      BY <2>4, <2>5 DEF Walks
    <2>11. /\ \A m \in l : g[m] = gl[m]
           /\ \A m \in r : g[m] = gr[m]
           /\ g[x] = IF x \in Stop THEN x
                     ELSE IF step[x] \in l THEN gl[step[x]] ELSE gr[step[x]]
      BY <2>3, <2>6
    <2>12. \A m \in D[x] : g[m] = IF m \in Stop THEN m ELSE g[step[m]]
      <3>1. ASSUME NEW m \in l
            PROVE  g[m] = IF m \in Stop THEN m ELSE g[step[m]]
        BY <2>7, <2>10, <2>11
      <3>2. ASSUME NEW m \in r
            PROVE  g[m] = IF m \in Stop THEN m ELSE g[step[m]]
        BY <2>8, <2>10, <2>11
      <3>3. g[x] = IF x \in Stop THEN x ELSE g[step[x]]
        BY <2>3, <2>9, <2>11
      <3> QED
        BY <2>3, <3>1, <3>2, <3>3
    <2>13. g = [m \in D[x] |-> IF m \in Stop THEN m ELSE g[step[m]]]
      <3>1. g = [m \in D[x] |-> g[m]]
        BY <2>6
      <3> QED
        BY <2>12, <3>1
    <2>14. Walks(g, D[x], Stop, step)
      BY <2>13 DEF Walks
    <2> QED
      BY <2>14
  <1> HIDE DEF P
  <1>3. \A x \in own : x \in P
    BY <1>2, TreeInduction
  <1> USE DEF P
  <1>4. root \in own \cup {Null} /\ D[root] = own /\ D[Null] = {}
    BY DEF Shaped
  <1>5. CASE root \in own
    BY <1>3, <1>4, <1>5
  <1>6. CASE root = Null
    BY <1>1, <1>4, <1>6
  <1> QED
    BY <1>4, <1>5, <1>6

-----------------------------------------------------------------------------
(* The side of n on which id belongs                                       *)
SideOf(id, n) == IF id < n THEN "left" ELSE "right"

(* Where the way down by id from x ends                                    *)
Ends(own, kid, D, id, x, t) ==
  /\ t \in D[x]
  /\ id \in D[x] => t = id
  /\ t # id => kid[t][SideOf(id, t)] = Null
  /\ \A m \in D[x], s \in Sides : t \in D[kid[m][s]] => Before(s, id, m)

(* Going down by an identifier ends at it, or where it would be a child.   *)
LEMMA WayDown ==
  ASSUME NEW own, NEW kid, NEW root, NEW D, Shaped(own, kid, root, D),
         NEW id \in Nat, NEW f,
         \A n \in own : f[n] = IF n = id \/ kid[n][SideOf(id, n)] = Null THEN n
                               ELSE f[kid[n][SideOf(id, n)]]
  PROVE  \A x \in own : Ends(own, kid, D, id, x, f[x])
  <1> DEFINE P == {x \in own : Ends(own, kid, D, id, x, f[x])}
  <1>1. ASSUME NEW x \in own,
               \A side \in Sides : kid[x][side] \in own => kid[x][side] \in P
        PROVE  x \in P
    <2>1. PICK side, next, t : side = SideOf(id, x) /\ next = kid[x][side] /\ t = f[x]
      OBVIOUS
    <2>2. side \in Sides /\ x \in Nat /\ own \subseteq Nat
      BY <2>1 DEF SideOf, Sides, Shaped
    <2>3. x # id => Before(side, id, x) /\ ~ Before(Other(side), id, x)
      BY <2>1, <2>2 DEF Before, SideOf, Other
    <2>4. Parted(own, kid, D, x, side)
      BY <2>2, BelowNode
    <2>5. \A m \in D[x] : m \in own
      BY DEF Shaped
    <2>6. CASE x = id
      <3>1. t = x
        BY <2>1, <2>6
      <3>2. ASSUME NEW m \in D[x], NEW s \in Sides, t \in D[kid[m][s]]
            PROVE  Before(s, id, m)
        BY <2>5, <2>6, <3>1, <3>2 DEF Shaped
      <3> QED
        BY <2>1, <2>4, <2>6, <3>1, <3>2 DEF Ends, Parted
    <2>7. CASE x # id /\ next = Null
      <3>1. t = x
        BY <2>1, <2>7
      <3>2. id \notin D[x]
        <4>1. ASSUME id \in D[kid[x][Other(side)]]
              PROVE  FALSE
          <5>1. Other(side) \in Sides
            BY <2>4 DEF Parted
          <5>2. Before(Other(side), id, x)
            BY <4>1, <5>1 DEF Shaped
          <5> QED
            BY <2>3, <2>7, <5>2
        <4>2. D[next] = {}
          BY <2>7 DEF Shaped
        <4> QED
          BY <2>1, <2>4, <2>7, <4>1, <4>2 DEF Parted
      <3>3. ASSUME NEW m \in D[x], NEW s \in Sides
            PROVE  x \notin D[kid[m][s]]
        <4>1. PICK k : k = kid[m][s]
          OBVIOUS
        <4>2. k \in own \cup {Null} /\ m \notin D[k]
          BY <2>5, <4>1, BelowNode DEF Parted
        <4>3. ASSUME x \in D[k]
              PROVE  FALSE
          <5>1. k \in own
            BY <4>2, <4>3 DEF Shaped
          <5>2. D[x] \subseteq D[k]
            BY <4>3, <5>1, BelowBelow
          <5> QED
            BY <4>2, <5>2
        <4> QED
          BY <4>1, <4>3
      <3>4. x \in D[x] /\ kid[x][SideOf(id, x)] = Null
        BY <2>1, <2>4, <2>7 DEF Parted
      <3>5. Ends(own, kid, D, id, x, x)
        BY <3>2, <3>3, <3>4 DEF Ends
      <3> QED
        BY <2>1, <3>1, <3>5
    <2>8. CASE x # id /\ next # Null
      <3>1. next \in own /\ t = f[next]
        BY <2>1, <2>4, <2>8 DEF Parted
      <3>2. Ends(own, kid, D, id, next, t)
        BY <1>1, <2>1, <2>2, <3>1
      <3>3. id \in D[x] => id \in D[next]
        <4>1. ASSUME id \in D[kid[x][Other(side)]]
              PROVE  FALSE
          <5>1. Other(side) \in Sides
            BY <2>4 DEF Parted
          <5>2. Before(Other(side), id, x)
            BY <4>1, <5>1 DEF Shaped
          <5> QED
            BY <2>3, <2>8, <5>2
        <4> QED
          BY <2>1, <2>4, <2>8, <4>1 DEF Parted
      <3>4. t \in D[next] /\ t \in D[x] /\ t \notin D[kid[x][Other(side)]]
        BY <2>1, <2>4, <3>2 DEF Ends, Parted
      <3>5. ASSUME NEW m \in D[x], NEW s \in Sides, t \in D[kid[m][s]]
            PROVE  Before(s, id, m)
        <4>1. CASE m = x
          <5>1. s = side
            BY <2>2, <3>4, <3>5, <4>1, SidesDiffer
          <5> QED
            BY <2>3, <2>8, <4>1, <5>1
        <4>2. CASE m \in D[next]
          BY <3>2, <3>5, <4>2 DEF Ends
        <4>3. CASE m \in D[kid[x][Other(side)]]
          <5>1. kid[x][Other(side)] \in own
            BY <2>4, <4>3 DEF Parted, Shaped
          <5>2. D[m] \subseteq D[kid[x][Other(side)]]
            BY <4>3, <5>1, BelowBelow
          <5>3. Parted(own, kid, D, m, s)
            BY <2>5, BelowNode
          <5> QED
            BY <3>4, <3>5, <5>2, <5>3 DEF Parted
        <4> QED
          BY <2>1, <2>4, <4>1, <4>2, <4>3 DEF Parted
      <3> QED
        BY <2>1, <3>2, <3>3, <3>4, <3>5 DEF Ends
    <2> QED
      BY <2>6, <2>7, <2>8
  <1> HIDE DEF P
  <1>2. \A x \in own : x \in P
    BY <1>1, TreeInduction
  <1> QED
    BY <1>2 DEF P

-----------------------------------------------------------------------------
(* What one side below x has at its end: the symbol next to those beyond.  *)
Utmost(own, kid, D, x, side, t) ==
  /\ t \in D[x] /\ kid[t][Other(side)] = Null
  /\ \A y \in D[x] : y # t => Before(side, y, t)
  /\ t # x => \E m \in D[x] : kid[m][Other(side)] = t

(* Going along one side from a node ends at the utmost node below it.      *)
LEMMA WayAlong ==
  ASSUME NEW own, NEW kid, NEW root, NEW D, Shaped(own, kid, root, D),
         NEW side \in Sides, NEW f,
         \A n \in own : f[n] = IF kid[n][Other(side)] = Null THEN n
                               ELSE f[kid[n][Other(side)]]
  PROVE  \A x \in own : Utmost(own, kid, D, x, side, f[x])
  <1> DEFINE P == {x \in own : Utmost(own, kid, D, x, side, f[x])}
  <1>1. ASSUME NEW x \in own,
               \A s \in Sides : kid[x][s] \in own => kid[x][s] \in P
        PROVE  x \in P
    <2>1. PICK other, next, t : other = Other(side) /\ next = kid[x][other] /\ t = f[x]
      OBVIOUS
    <2>2. other \in Sides /\ x \in Nat /\ own \subseteq Nat
      BY <2>1, SidesDiffer DEF Shaped
    <2>3. Parted(own, kid, D, x, side)
      BY BelowNode
    <2>4. D[x] = {x} \cup D[kid[x][side]] \cup D[next] /\ D[x] \subseteq own /\ x \in D[x]
      BY <2>1, <2>3 DEF Parted
    <2>5. \A y \in D[kid[x][side]] : Before(side, y, x)
      BY DEF Shaped
    <2>6. CASE next = Null
      <3>1. t = x /\ D[next] = {}
        BY <2>1, <2>6 DEF Shaped
      <3> QED
        BY <2>1, <2>4, <2>5, <2>6, <3>1 DEF Utmost
    <2>7. CASE next # Null
      <3>1. next \in own /\ t = f[next]
        BY <2>1, <2>3, <2>7 DEF Parted
      <3>2. next \in P
        BY <1>1, <2>1, <2>2, <3>1
      <3>3. /\ t \in D[next] /\ kid[t][other] = Null
            /\ \A y \in D[next] : y # t => Before(side, y, t)
            /\ t # next => \E m \in D[next] : kid[m][other] = t
        BY <2>1, <3>1, <3>2 DEF Utmost
      <3>4. Before(side, x, t) /\ t \in Nat
        <4>1. Before(other, t, x)
          BY <2>1, <2>2, <3>3 DEF Shaped
        <4>2. t \in Nat
          BY <2>2, <2>4, <3>3
        <4> QED
          BY <2>1, <2>2, <4>1, <4>2, BeforeOrders
      <3>5. \A y \in D[kid[x][side]] : Before(side, y, t)
        <4> SUFFICES ASSUME NEW y \in D[kid[x][side]]
                     PROVE  Before(side, y, t)
          OBVIOUS
        <4>1. y \in Nat /\ Before(side, y, x)
          BY <2>2, <2>4, <2>5
        <4> QED
          BY <2>2, <3>4, <4>1, BeforeOrders
      <3>6. \E m \in D[x] : kid[m][other] = t
        <4>1. CASE t = next
          BY <2>1, <2>4, <4>1
        <4>2. CASE t # next
          BY <2>4, <3>3, <4>2
        <4> QED
          BY <4>1, <4>2
      <3>7. \A y \in D[x] : y # t => Before(side, y, t)
        BY <2>4, <3>3, <3>4, <3>5
      <3> QED
        BY <2>1, <2>4, <3>3, <3>6, <3>7 DEF Utmost
    <2> QED
      BY <2>6, <2>7
  <1> HIDE DEF P
  <1>2. \A x \in own : x \in P
    BY <1>1, TreeInduction
  <1> QED
    BY <1>2 DEF P

(* The children of all symbols of a table                                  *)
Kids(s) == [n \in DOMAIN s |-> [side \in Sides |-> Child(s, n, side)]]

(* The tree of a table, with D to say what is below each symbol            *)
TreeOf(table, D) ==
  Shaped(DOMAIN table.symbols, Kids(table.symbols), table.root, D)

(* The children of a symbol, by their side.                                *)
LEMMA KidsAre ==
  ASSUME NEW s, NEW n \in DOMAIN s
  PROVE  /\ Kids(s)[n]["left"] = s[n].left /\ Kids(s)[n]["right"] = s[n].right
         /\ \A side \in Sides : Kids(s)[n][side] = Child(s, n, side)
  BY DEF Kids, Child, Sides

(* What the recursion of Descent is, of Tree and of Neighbour              *)
IsDown(table, id, down) ==
  down = [n \in DOMAIN table.symbols |->
            LET next == IF id < n THEN table.symbols[n].left ELSE table.symbols[n].right
            IN IF n = id \/ next = Null THEN n ELSE down[next]]

IsBelow(table, below) ==
  below = [n \in DOMAIN table.symbols \cup {Null} |->
             IF n = Null THEN {}
             ELSE {n} \cup below[table.symbols[n].left] \cup below[table.symbols[n].right]]

IsAlong(s, side, along) ==
  along = [m \in DOMAIN s |->
             LET next == Child(s, m, Other(side))
             IN IF next = Null THEN m ELSE along[next]]

(* symbol_lookup and _symboltable_insert find where an identifier is or    *)
(* belongs.                                                                *)
LEMMA DescentEnds ==
  ASSUME NEW table, NEW D, TreeOf(table, D), NEW id \in Nat, table.root # Null
  PROVE  Ends(DOMAIN table.symbols, Kids(table.symbols), D, id, table.root, Descent(table, id))
  <1>1. PICK own, s, kid, root : /\ own = DOMAIN s /\ s = table.symbols
                                 /\ kid = Kids(s) /\ root = table.root
    OBVIOUS
  <1>2. Shaped(own, kid, root, D) /\ root \in own
    <2>1. Shaped(own, kid, root, D)
      BY <1>1 DEF TreeOf
    <2> QED
      BY <1>1, <2>1 DEF Shaped
  <1>3. \A n \in own : kid[n][SideOf(id, n)] = IF id < n THEN s[n].left ELSE s[n].right
    BY <1>1, KidsAre DEF SideOf
  <1>4. \A n \in own : SideOf(id, n) \in Sides
    BY DEF SideOf, Sides
  <1>5. \E f : IsDown(table, id, f)
    <2> DEFINE Stop == {n \in own : n = id \/ kid[n][SideOf(id, n)] = Null}
               step == [n \in own |-> kid[n][SideOf(id, n)]]
    <2>1. ToChildren(own, kid, Stop, step)
      <3> SUFFICES ASSUME NEW m \in own, m \notin Stop
                   PROVE  \E t \in Sides : step[m] = kid[m][t] /\ step[m] \in own
        BY DEF ToChildren
      <3>1. kid[m][SideOf(id, m)] # Null
        OBVIOUS
      <3>2. kid[m][SideOf(id, m)] \in own \cup {Null}
        BY <1>2, <1>4 DEF Shaped
      <3> QED
        BY <1>4, <3>1, <3>2
    <2>2. \A m \in own : m \in Stop <=> m = id \/ (IF id < m THEN s[m].left ELSE s[m].right) = Null
      BY <1>3
    <2>3. \A m \in own : step[m] = IF id < m THEN s[m].left ELSE s[m].right
      BY <1>3
    <2> HIDE DEF Stop, step
    <2>4. PICK f : Walks(f, own, Stop, step)
      BY <1>2, <2>1, LoopExists
    <2>5. f = [m \in own |-> IF m \in Stop THEN m ELSE f[step[m]]]
      BY <2>4 DEF Walks
    <2>6. f = [n \in own |->
                 LET next == IF id < n THEN s[n].left ELSE s[n].right
                 IN IF n = id \/ next = Null THEN n ELSE f[next]]
      BY <2>2, <2>3, <2>5
    <2> QED
      BY <1>1, <2>6 DEF IsDown
  <1>6. PICK f : f = CHOOSE g : IsDown(table, id, g)
    OBVIOUS
  <1>7. IsDown(table, id, f)
    BY <1>5, <1>6
  <1>8. Descent(table, id) = f[root]
    BY <1>1, <1>6, SMTT(30) DEF Descent, IsDown
  <1>9. \A n \in own : f[n] = IF n = id \/ kid[n][SideOf(id, n)] = Null THEN n
                              ELSE f[kid[n][SideOf(id, n)]]
    BY <1>1, <1>3, <1>7 DEF IsDown
  <1>10. Ends(own, kid, D, id, root, f[root])
    BY <1>2, <1>9, WayDown
  <1> QED
    BY <1>1, <1>8, <1>10

(* All symbols of a table that is a search tree are reached from its root. *)
LEMMA TreeIsOwn ==
  ASSUME NEW table, NEW D, TreeOf(table, D)
  PROVE  Tree(table) = DOMAIN table.symbols
  <1>1. PICK own, s, kid, root : /\ own = DOMAIN s /\ s = table.symbols
                                 /\ kid = Kids(s) /\ root = table.root
    OBVIOUS
  <1>2. Shaped(own, kid, root, D)
    BY <1>1 DEF TreeOf
  <1>3. /\ own \subseteq Nat /\ Null \notin own /\ root \in own \cup {Null}
        /\ D[Null] = {} /\ D \in [own \cup {Null} -> SUBSET own]
    BY <1>2, ShapedIsRooted DEF Rooted
  <1>4. \A n \in own : kid[n]["left"] = s[n].left /\ kid[n]["right"] = s[n].right
    BY <1>1, KidsAre
  <1>5. IsBelow(table, D)
    <2>1. \A n \in own : D[n] = {n} \cup D[s[n].left] \cup D[s[n].right]
      BY <1>2, <1>4, ShapedIsOrdered DEF Ordered
    <2>2. D = [n \in own \cup {Null} |-> IF n = Null THEN {}
                 ELSE {n} \cup D[s[n].left] \cup D[s[n].right]]
      BY <1>3, <2>1
    <2> QED
      BY <1>1, <2>2 DEF IsBelow
  <1>6. PICK B : B = CHOOSE g : IsBelow(table, g)
    OBVIOUS
  <1>7. IsBelow(table, B)
    BY <1>5, <1>6
  <1>8. Tree(table) = B[root]
    BY <1>1, <1>6 DEF Tree, IsBelow
  <1>9. /\ B[Null] = {}
        /\ \A n \in own : B[n] = {n} \cup B[kid[n]["left"]] \cup B[kid[n]["right"]]
    <2>1. B = [n \in own \cup {Null} |-> IF n = Null THEN {}
                 ELSE {n} \cup B[s[n].left] \cup B[s[n].right]]
      BY <1>1, <1>7 DEF IsBelow
    <2>2. \A n \in own : B[n] = {n} \cup B[s[n].left] \cup B[s[n].right]
      BY <1>3, <2>1
    <2>3. B[Null] = {}
      BY <2>1
    <2> QED
      BY <1>4, <2>2, <2>3, SMTT(30)
  <1>10. B[root] = own
    BY <1>2, <1>9, TreeIsAll
  <1> QED
    BY <1>1, <1>8, <1>10

(* The symbol that is to replace one with two children is the next to it.  *)
LEMMA NeighbourIsUtmost ==
  ASSUME NEW table, NEW D, TreeOf(table, D), NEW n \in DOMAIN table.symbols, NEW side \in Sides,
         Child(table.symbols, n, side) # Null
  PROVE  Utmost(DOMAIN table.symbols, Kids(table.symbols), D, Child(table.symbols, n, side),
                side, Neighbour(table.symbols, n, side))
  <1>1. PICK own, s, kid, root, c : /\ own = DOMAIN s /\ s = table.symbols
                                    /\ kid = Kids(s) /\ root = table.root /\ c = Child(s, n, side)
    OBVIOUS
  <1>2. Shaped(own, kid, root, D) /\ n \in own
    BY <1>1 DEF TreeOf
  <1>3. \A m \in own, t \in Sides : kid[m][t] = Child(s, m, t)
    BY <1>1, KidsAre
  <1>4. \A m \in own, t \in Sides : kid[m][t] \in own \cup {Null}
    BY <1>2 DEF Shaped
  <1>5. c \in own
    BY <1>1, <1>2, <1>3, <1>4
  <1>6. Other(side) \in Sides
    BY SidesDiffer
  <1>7. \E f : IsAlong(s, side, f)
    <2> DEFINE Stop == {m \in own : kid[m][Other(side)] = Null}
               step == [m \in own |-> kid[m][Other(side)]]
    <2>1. ToChildren(own, kid, Stop, step)
      BY <1>4, <1>6 DEF ToChildren
    <2>2. \A m \in own : m \in Stop <=> Child(s, m, Other(side)) = Null
      BY <1>3, <1>6
    <2>3. \A m \in own : step[m] = Child(s, m, Other(side))
      BY <1>3, <1>6
    <2> HIDE DEF Stop, step
    <2>4. PICK f : Walks(f, own, Stop, step)
      BY <1>2, <2>1, LoopExists
    <2>5. f = [m \in own |-> IF m \in Stop THEN m ELSE f[step[m]]]
      BY <2>4 DEF Walks
    <2>6. f = [m \in own |->
                 LET next == Child(s, m, Other(side))
                 IN IF next = Null THEN m ELSE f[next]]
      BY <2>2, <2>3, <2>5
    <2> QED
      BY <1>1, <2>6 DEF IsAlong
  <1>8. PICK f : f = CHOOSE g : IsAlong(s, side, g)
    OBVIOUS
  <1>9. IsAlong(s, side, f)
    BY <1>7, <1>8
  <1>10. Neighbour(s, n, side) = f[c]
    BY <1>1, <1>8 DEF Neighbour, IsAlong
  <1>11. \A m \in own : f[m] = IF kid[m][Other(side)] = Null THEN m
                               ELSE f[kid[m][Other(side)]]
    BY <1>1, <1>3, <1>6, <1>9 DEF IsAlong
  <1>12. Utmost(own, kid, D, c, side, f[c])
    BY <1>2, <1>5, <1>11, WayAlong
  <1> QED
    BY <1>1, <1>10, <1>12

(* No node has a child that another node below a child of it has.          *)
LEMMA ChildOfOne ==
  ASSUME NEW own, NEW kid, NEW root, NEW D, Shaped(own, kid, root, D),
         NEW x \in own, NEW s \in Sides, NEW m \in D[kid[x][s]],
         NEW s1 \in Sides, NEW s2 \in Sides, kid[x][s1] # Null
  PROVE  kid[x][s1] # kid[m][s2]
  <1> SUFFICES ASSUME kid[x][s1] = kid[m][s2]
               PROVE  FALSE
    OBVIOUS
  <1>1. PICK k, j : k = kid[x][s1] /\ j = kid[x][s]
    OBVIOUS
  <1>2. j \in own /\ k \in own
    BY <1>1 DEF Shaped
  <1>3. m \in own /\ D[m] \subseteq D[j] /\ m \in D[j]
    BY <1>1, <1>2, BelowBelow
  <1>4. Parted(own, kid, D, m, s2)
    BY <1>3, BelowNode
  <1>5. k \in D[k] /\ k \in D[m] /\ m \notin D[k]
    <2>1. D[k] \subseteq D[m] /\ m \notin D[k]
      BY <1>1, <1>4 DEF Parted
    <2>2. k \in D[k]
      BY <1>2, BelowNode DEF Parted
    <2> QED
      BY <2>1, <2>2
  <1>6. CASE s = s1
    BY <1>1, <1>3, <1>5, <1>6
  <1>7. CASE s # s1
    <2>1. s = Other(s1)
      BY <1>7, SidesDiffer
    <2>2. Parted(own, kid, D, x, s1)
      BY BelowNode
    <2>3. D[k] \cap D[j] = {}
      BY <1>1, <2>1, <2>2 DEF Parted
    <2> QED
      BY <1>3, <1>5, <2>3
  <1> QED
    BY <1>6, <1>7

(* No two nodes have the same child.                                       *)
OneParent(kid, T) ==
  \A m1, m2 \in T, s1, s2 \in Sides :
    kid[m1][s1] = kid[m2][s2] /\ kid[m1][s1] # Null => m1 = m2 /\ s1 = s2

(* No node of a tree is the child of two, or twice of one.                 *)
LEMMA UniqueParent ==
  ASSUME NEW own, NEW kid, NEW root, NEW D, Shaped(own, kid, root, D)
  PROVE  OneParent(kid, own)
  <1> DEFINE P == {x \in own : OneParent(kid, D[x])}
  <1>1. ASSUME NEW x \in own,
               \A side \in Sides : kid[x][side] \in own => kid[x][side] \in P
        PROVE  x \in P
    <2> SUFFICES ASSUME NEW m1 \in D[x], NEW m2 \in D[x], NEW s1 \in Sides, NEW s2 \in Sides,
                        kid[m1][s1] = kid[m2][s2], kid[m1][s1] # Null
                 PROVE  m1 = m2 /\ s1 = s2
      BY DEF OneParent
    <2>1. PICK k, l, r : k = kid[m1][s1] /\ l = kid[x]["left"] /\ r = kid[x]["right"]
      OBVIOUS
    <2>2. /\ D[x] = {x} \cup D[l] \cup D[r] /\ D[l] \cap D[r] = {}
          /\ l \in own \cup {Null} /\ r \in own \cup {Null}
      <3>1. Parted(own, kid, D, x, "left")
        BY BelowNode DEF Sides
      <3>2. Other("left") = "right"
        BY DEF Other
      <3> QED
        BY <2>1, <3>1, <3>2 DEF Parted
    <2>3. m1 \in own /\ m2 \in own /\ D[Null] = {}
      BY DEF Shaped
    <2>4. k \in D[m1] /\ k \in D[m2]
      <3>1. k \in own
        BY <2>1, <2>3 DEF Shaped
      <3>2. k \in D[k]
        BY <3>1, BelowNode DEF Parted
      <3>3. Parted(own, kid, D, m1, s1) /\ Parted(own, kid, D, m2, s2)
        BY <2>3, BelowNode
      <3> QED
        BY <2>1, <3>2, <3>3 DEF Parted
    <2>5. "left" \in Sides /\ "right" \in Sides
      BY DEF Sides
    <2>6. CASE m1 = x /\ m2 = x
      <3>1. s2 # s1 => s2 = Other(s1)
        BY SidesDiffer
      <3>2. Parted(own, kid, D, x, s1)
        BY BelowNode
      <3>3. k \in D[k]
        <4>1. k \in own
          BY <2>1, <2>3 DEF Shaped
        <4> QED
          BY <4>1, BelowNode DEF Parted
      <3> QED
        BY <2>1, <2>6, <3>1, <3>2, <3>3 DEF Parted
    <2>7. CASE m1 = x /\ m2 # x
      BY <2>1, <2>2, <2>5, <2>7, ChildOfOne
    <2>8. CASE m1 # x /\ m2 = x
      BY <2>1, <2>2, <2>5, <2>8, ChildOfOne
    <2>9. CASE m1 \in D[l] /\ m2 \in D[l]
      <3>1. l \in P
        BY <1>1, <2>1, <2>2, <2>3, <2>5, <2>9
      <3> QED
        BY <2>9, <3>1 DEF OneParent
    <2>10. CASE m1 \in D[r] /\ m2 \in D[r]
      <3>1. r \in P
        BY <1>1, <2>1, <2>2, <2>3, <2>5, <2>10
      <3> QED
        BY <2>10, <3>1 DEF OneParent
    <2>11. ASSUME NEW a \in D[l], NEW b \in D[r]
           PROVE  D[a] \cap D[b] = {}
      <3>1. l \in own /\ r \in own
        BY <2>2, <2>3
      <3>2. D[a] \subseteq D[l] /\ D[b] \subseteq D[r]
        BY <3>1, BelowBelow
      <3> QED
        BY <2>2, <3>2
    <2>12. CASE m1 \in D[l] /\ m2 \in D[r]
      BY <2>4, <2>11, <2>12
    <2>13. CASE m1 \in D[r] /\ m2 \in D[l]
      BY <2>4, <2>11, <2>13
    <2> QED
      BY <2>2, <2>6, <2>7, <2>8, <2>9, <2>10, <2>12, <2>13
  <1> HIDE DEF P
  <1>2. \A x \in own : x \in P
    BY <1>1, TreeInduction
  <1>3. root \in own \cup {Null} /\ D[root] = own /\ D[Null] = {}
    BY DEF Shaped
  <1>4. CASE root \in own
    BY <1>2, <1>3, <1>4 DEF P
  <1>5. CASE root = Null
    BY <1>3, <1>5 DEF OneParent
  <1> QED
    BY <1>3, <1>4, <1>5

-----------------------------------------------------------------------------
(* Symbols                                                                 *)

Record == [parent : Int, left : Int, right : Int, object : Int]

IsWithChild(own, s, n, side, c, w) ==
  /\ w \in [own -> Record]
  /\ \A m \in own : w[m].parent = s[m].parent /\ w[m].object = s[m].object
  /\ \A m \in own, t \in Sides :
       Child(w, m, t) = IF m = n /\ t = side THEN c ELSE Child(s, m, t)

IsWithParent(own, s, n, p, w) ==
  /\ w \in [own -> Record]
  /\ \A m \in own : /\ w[m].parent = IF m = n THEN p ELSE s[m].parent
                    /\ w[m].object = s[m].object
  /\ \A m \in own, t \in Sides : Child(w, m, t) = Child(s, m, t)

(* What setting m_left_child or m_right_child changes.                     *)
LEMMA WithChildIs ==
  ASSUME NEW own, NEW s \in [own -> Record], NEW n \in own, NEW side \in Sides, NEW c \in Int
  PROVE  IsWithChild(own, s, n, side, c, WithChild(s, n, side, c))
  <1>1. PICK r : r = IF side = "left" THEN [s[n] EXCEPT !.left = c] ELSE [s[n] EXCEPT !.right = c]
    OBVIOUS
  <1>2. /\ r \in Record /\ r.parent = s[n].parent /\ r.object = s[n].object
        /\ r.left = IF side = "left" THEN c ELSE s[n].left
        /\ r.right = IF side = "left" THEN s[n].right ELSE c
    BY <1>1 DEF Record
  <1>3. PICK w : w = WithChild(s, n, side, c)
    OBVIOUS
  <1>4. w = [s EXCEPT ![n] = r]
    BY <1>1, <1>3 DEF WithChild
  <1>5. w \in [own -> Record] /\ \A m \in own : w[m] = IF m = n THEN r ELSE s[m]
    BY <1>2, <1>4
  <1>6. \A m \in own : w[m].parent = s[m].parent /\ w[m].object = s[m].object
    BY <1>2, <1>5
  <1>7. \A m \in own, t \in Sides : Child(w, m, t) = IF m = n /\ t = side THEN c ELSE Child(s, m, t)
    BY <1>2, <1>5 DEF Child, Sides
  <1> QED
    BY <1>3, <1>5, <1>6, <1>7 DEF IsWithChild

(* What setting m_parent changes.                                          *)
LEMMA WithParentIs ==
  ASSUME NEW own, NEW s \in [own -> Record], NEW n \in own, NEW p \in Int
  PROVE  IsWithParent(own, s, n, p, WithParent(s, n, p))
  <1>1. PICK r : r = [s[n] EXCEPT !.parent = p]
    OBVIOUS
  <1>2. /\ r \in Record /\ r.parent = p /\ r.object = s[n].object
        /\ r.left = s[n].left /\ r.right = s[n].right
    BY <1>1 DEF Record
  <1>3. PICK w : w = WithParent(s, n, p)
    OBVIOUS
  <1>4. w = [s EXCEPT ![n] = r]
    BY <1>1, <1>3 DEF WithParent
  <1>5. w \in [own -> Record] /\ \A m \in own : w[m] = IF m = n THEN r ELSE s[m]
    BY <1>2, <1>4
  <1>6. \A m \in own : w[m].parent = (IF m = n THEN p ELSE s[m].parent) /\ w[m].object = s[m].object
    BY <1>2, <1>5
  <1>7. \A m \in own, t \in Sides : Child(w, m, t) = Child(s, m, t)
    BY <1>2, <1>5 DEF Child, Sides
  <1> QED
    BY <1>3, <1>5, <1>6, <1>7 DEF IsWithParent

(* c in the place of n, whoever has n as a child being its parent.         *)
LEMMA RelinkedIs ==
  ASSUME NEW own, NEW s \in [own -> Record], NEW n \in own, NEW c \in Int,
         s[n].parent \in own \cup {Null}, Null \notin own,
         \A m \in own, t \in Sides : Child(s, m, t) = n => m = s[n].parent,
         \A m \in own, t \in Sides : Child(s, m, t) = n => Child(s, m, Other(t)) # n
  PROVE  /\ Relinked(s, n, c) \in [own -> Record]
         /\ \A m \in own : /\ Relinked(s, n, c)[m].parent = s[m].parent
                           /\ Relinked(s, n, c)[m].object = s[m].object
         /\ \A m \in own, t \in Sides :
              Child(Relinked(s, n, c), m, t) = IF Child(s, m, t) = n THEN c ELSE Child(s, m, t)
  <1>1. PICK p, w : p = s[n].parent /\ w = Relinked(s, n, c)
    OBVIOUS
  <1>2. "left" \in Sides /\ "right" \in Sides /\ Other("left") = "right" /\ Other("right") = "left"
    BY DEF Sides, Other
  <1>3. p \in own => Child(s, p, "left") = s[p].left /\ Child(s, p, "right") = s[p].right
    BY DEF Child
  <1>4. ASSUME NEW m \in own, NEW t \in Sides, Child(s, m, t) = n
        PROVE  m = p
    BY <1>1, <1>4
  <1>5. CASE p = Null \/ (s[p].left # n /\ s[p].right # n)
    <2>1. w = s
      BY <1>1, <1>5 DEF Relinked
    <2>2. ASSUME NEW m \in own, NEW t \in Sides
          PROVE  Child(s, m, t) # n
      BY <1>3, <1>4, <1>5, <2>2 DEF Sides
    <2> QED
      BY <1>1, <2>1, <2>2
  <1>6. ASSUME p \in own, NEW side \in Sides, Child(s, p, side) = n, w = WithChild(s, p, side, c)
        PROVE  /\ w \in [own -> Record]
               /\ \A m \in own : w[m].parent = s[m].parent /\ w[m].object = s[m].object
               /\ \A m \in own, t \in Sides : Child(w, m, t) = IF Child(s, m, t) = n THEN c ELSE Child(s, m, t)
    <2>1. /\ w \in [own -> Record]
          /\ \A m \in own : w[m].parent = s[m].parent /\ w[m].object = s[m].object
          /\ \A m \in own, t \in Sides : Child(w, m, t) = IF m = p /\ t = side THEN c ELSE Child(s, m, t)
      <3>1. IsWithChild(own, s, p, side, c, w)
        BY <1>6, WithChildIs
      <3> QED
        BY <3>1 DEF IsWithChild
    <2>2. ASSUME NEW m \in own, NEW t \in Sides
          PROVE  Child(s, m, t) = n <=> m = p /\ t = side
      <3>1. Child(s, p, Other(side)) # n
        BY <1>6
      <3>2. t # side => t = Other(side)
        BY SidesDiffer
      <3> QED
        BY <1>4, <1>6, <3>1, <3>2
    <2> QED
      BY <2>1, <2>2
  <1>7. CASE p # Null /\ s[p].left = n
    <2>1. w = WithChild(s, p, "left", c) /\ p \in own
      BY <1>1, <1>7 DEF Relinked
    <2> QED
      BY <1>1, <1>2, <1>3, <1>6, <1>7, <2>1
  <1>8. CASE p # Null /\ s[p].left # n /\ s[p].right = n
    <2>1. w = WithChild(s, p, "right", c) /\ p \in own
      BY <1>1, <1>8 DEF Relinked
    <2> QED
      BY <1>1, <1>2, <1>3, <1>6, <1>8, <2>1
  <1> QED
    BY <1>5, <1>7, <1>8

After(n, pointer) == IF pointer = n THEN Gone ELSE pointer

IsWithout(own, s, n, w) ==
  /\ w \in [own \ {n} -> Record]
  /\ \A m \in own \ {n} : w[m].parent = After(n, s[m].parent) /\ w[m].object = s[m].object
  /\ \A m \in own \ {n}, t \in Sides : Child(w, m, t) = After(n, Child(s, m, t))

(* What freeing a symbol changes.                                          *)
LEMMA WithoutIs ==
  ASSUME NEW own, NEW s \in [own -> Record], NEW n
  PROVE  IsWithout(own, s, n, Without(s, n))
  <1>1. PICK w : w = Without(s, n)
    OBVIOUS
  <1>2. w = [i \in own \ {n} |->
               [parent |-> After(n, s[i].parent), left |-> After(n, s[i].left),
                right |-> After(n, s[i].right), object |-> s[i].object]]
    BY <1>1 DEF Without, After
  <1>3. \A i \in own : s[i] \in Record
    OBVIOUS
  <1>4. ASSUME NEW x \in Int
        PROVE  After(n, x) \in Int
    BY DEF After, Gone
  <1>5. w \in [own \ {n} -> Record]
    BY <1>2, <1>3, <1>4 DEF Record
  <1>6. \A m \in own \ {n} : w[m].parent = After(n, s[m].parent) /\ w[m].object = s[m].object
    BY <1>2
  <1>7. \A m \in own \ {n}, t \in Sides : Child(w, m, t) = After(n, Child(s, m, t))
    BY <1>2 DEF Child, Sides
  <1> QED
    BY <1>1, <1>5, <1>6, <1>7 DEF IsWithout

(* Tables, as far as types go                                              *)
Symbols(own) ==
  [own -> [parent : own \cup {Null, Gone}, left : own \cup {Null}, right : own \cup {Null},
           object : Objects \cup {Function}]]

SymbolTables ==
  UNION {[root : own \cup {Null}, symbols : Symbols(own)] : own \in SUBSET (Identifiers \cup {0})}

(* Each child is linked to its parent, unless the symbol that was has been *)
(* freed, and only the root is linked to none.                             *)
SymbolsLinked(s, root) ==
  /\ \A n \in DOMAIN s, t \in Sides :
       Child(s, n, t) # Null => s[Child(s, n, t)].parent \in {n, Gone}
  /\ \A n \in DOMAIN s : s[n].parent = Null <=> n = root

Sound(table) == SymbolsLinked(table.symbols, table.root) /\ \E D : TreeOf(table, D)

(* What a table has.                                                       *)
LEMMA TableFacts ==
  ASSUME NEW table \in SymbolTables
  PROVE  /\ table = [root |-> table.root, symbols |-> table.symbols]
         /\ DOMAIN table.symbols \subseteq Identifiers \cup {0}
         /\ table.root \in DOMAIN table.symbols \cup {Null}
         /\ table.symbols \in Symbols(DOMAIN table.symbols)
  <1>1. PICK own \in SUBSET (Identifiers \cup {0}) :
          table \in [root : own \cup {Null}, symbols : Symbols(own)]
    BY DEF SymbolTables
  <1>2. table.symbols \in Symbols(own) /\ table.root \in own \cup {Null}
        /\ table = [root |-> table.root, symbols |-> table.symbols]
    BY <1>1
  <1>3. DOMAIN table.symbols = own
    BY <1>2 DEF Symbols
  <1> QED
    BY <1>2, <1>3

(* What makes a table.                                                     *)
LEMMA TableBy ==
  ASSUME NEW own, own \subseteq Identifiers \cup {0}, NEW root \in own \cup {Null},
         NEW s \in Symbols(own)
  PROVE  [root |-> root, symbols |-> s] \in SymbolTables
  BY DEF SymbolTables

(* Identifiers are numbers, which NULL and a freed pointer are not.        *)
LEMMA Keys ==
  /\ Identifiers \cup {0} \subseteq Nat
  /\ Null \in Int /\ Gone \in Int /\ Null # Gone /\ Null \notin Nat /\ Gone \notin Nat
  BY SymbolTableAssumption DEF Null, Gone

(* The symbols of a table have the types of records.                       *)
LEMMA SymbolsAreRecords ==
  ASSUME NEW own, own \subseteq Nat, NEW s \in Symbols(own)
  PROVE  /\ s \in [own -> Record]
         /\ \A n \in own : /\ s[n].parent \in own \cup {Null, Gone}
                           /\ s[n].object \in Objects \cup {Function}
         /\ \A n \in own, t \in Sides : Child(s, n, t) \in own \cup {Null}
  <1>1. \A n \in own : s[n] \in [parent : own \cup {Null, Gone}, left : own \cup {Null},
                                 right : own \cup {Null}, object : Objects \cup {Function}]
    BY DEF Symbols
  <1>2. Objects \cup {Function} \subseteq Int
    BY SymbolTableAssumption DEF Objects, Function
  <1>3. own \cup {Null, Gone} \subseteq Int
    BY Keys
  <1>4. \A n \in own : s[n] \in Record
    BY <1>1, <1>2, <1>3 DEF Record
  <1>5. s = [n \in own |-> s[n]]
    BY DEF Symbols
  <1>6. \A n \in own, t \in Sides : Child(s, n, t) \in own \cup {Null}
    BY <1>1 DEF Child, Sides
  <1> QED
    BY <1>1, <1>4, <1>5, <1>6

PointsInto(own, s) ==
  /\ \A n \in own : s[n].parent \in own \cup {Null, Gone} /\ s[n].object \in Objects \cup {Function}
  /\ \A n \in own, t \in Sides : Child(s, n, t) \in own \cup {Null}

(* Records that point into a table are symbols of it.                      *)
LEMMA RecordsAreSymbols ==
  ASSUME NEW own, NEW s \in [own -> Record], PointsInto(own, s)
  PROVE  s \in Symbols(own)
  <1>1. ASSUME NEW n \in own
        PROVE  s[n] \in [parent : own \cup {Null, Gone}, left : own \cup {Null},
                         right : own \cup {Null}, object : Objects \cup {Function}]
    <2>1. s[n].left \in own \cup {Null} /\ s[n].right \in own \cup {Null}
      <3>1. "left" \in Sides /\ "right" \in Sides
        BY DEF Sides
      <3>2. s[n].left = Child(s, n, "left") /\ s[n].right = Child(s, n, "right")
        BY DEF Child
      <3> QED
        BY <3>1, <3>2 DEF PointsInto
    <2>2. s[n] = [parent |-> s[n].parent, left |-> s[n].left, right |-> s[n].right,
                  object |-> s[n].object]
      BY DEF Record
    <2>3. s[n].parent \in own \cup {Null, Gone} /\ s[n].object \in Objects \cup {Function}
      BY DEF PointsInto
    <2> QED
      BY <2>1, <2>2, <2>3
  <1> QED
    BY <1>1 DEF Symbols

(* symbol_lookup finds the identifiers of a table and no others.           *)
LEMMA FoundIs ==
  ASSUME NEW table \in SymbolTables, Sound(table), NEW id \in Nat
  PROVE  Found(table, id) <=> id \in DOMAIN table.symbols
  <1>1. PICK D : TreeOf(table, D)
    BY DEF Sound
  <1>2. PICK own, kid, root : own = DOMAIN table.symbols /\ kid = Kids(table.symbols) /\ root = table.root
    OBVIOUS
  <1>3. Shaped(own, kid, root, D)
    BY <1>1, <1>2 DEF TreeOf
  <1>4. root \in own \cup {Null} /\ D[root] = own /\ D[Null] = {}
    BY <1>3 DEF Shaped
  <1>5. CASE root = Null
    <2>1. Descent(table, id) = Null
      BY <1>2, <1>5 DEF Descent
    <2> QED
      BY <1>2, <1>4, <1>5, <2>1, Keys DEF Found
  <1>6. CASE root # Null
    <2>1. Ends(own, kid, D, id, root, Descent(table, id))
      BY <1>1, <1>2, <1>6, DescentEnds
    <2> QED
      BY <1>2, <1>4, <2>1 DEF Found, Ends
  <1> QED
    BY <1>5, <1>6

-----------------------------------------------------------------------------
(* What an insertion does to a table, and a removal                        *)
Gains(table, id, object, new) ==
  /\ new \in SymbolTables /\ Sound(new)
  /\ DOMAIN new.symbols = DOMAIN table.symbols \cup {id}
  /\ new.symbols[id].object = object
  /\ \A m \in DOMAIN table.symbols : new.symbols[m].object = table.symbols[m].object

Loses(table, id, new) ==
  /\ new \in SymbolTables /\ Sound(new)
  /\ DOMAIN new.symbols = DOMAIN table.symbols \ {id}
  /\ \A m \in DOMAIN new.symbols : new.symbols[m].object = table.symbols[m].object

(* _symboltable_insert leaves a sound table that has gained the new        *)
(* symbol.                                                                 *)
LEMMA InsertSound ==
  ASSUME NEW table \in SymbolTables, Sound(table), NEW id \in Identifiers \cup {0},
         ~ Found(table, id), NEW object \in Objects \cup {Function}
  PROVE  Gains(table, id, object, Inserted(table, id, object))
  <1>1. PICK own, s, root, kid, p, new :
          /\ own = DOMAIN s /\ s = table.symbols /\ root = table.root /\ kid = Kids(s)
          /\ p = Descent(table, id) /\ new = Inserted(table, id, object)
    OBVIOUS
  <1>2. PICK D : TreeOf(table, D)
    BY DEF Sound
  <1>3. Shaped(own, kid, root, D)
    BY <1>1, <1>2 DEF TreeOf
  <1>4. /\ own \subseteq Nat /\ own \subseteq Identifiers \cup {0} /\ Null \notin own
        /\ root \in own \cup {Null} /\ D[root] = own /\ D[Null] = {} /\ s \in Symbols(own)
        /\ id \in Nat /\ id \notin own /\ id # Null
    BY <1>1, <1>3, FoundIs, TableFacts, Keys DEF Shaped
  <1>5. /\ s \in [own -> Record]
        /\ \A n \in own : s[n].parent \in own \cup {Null, Gone} /\ s[n].object \in Objects \cup {Function}
        /\ \A n \in own, t \in Sides : Child(s, n, t) \in own \cup {Null}
    BY <1>4, SymbolsAreRecords, ZenonT(60)
  <1>6. PICK record : record = [parent |-> p, left |-> Null, right |-> Null, object |-> object]
    OBVIOUS
  <1>7. record.left = Null /\ record.right = Null /\ record.parent = p /\ record.object = object
    BY <1>6
  <1>8. object \in Int
    BY SymbolTableAssumption DEF Objects, Function
  <1>9. SymbolsLinked(s, root)
    BY <1>1 DEF Sound
  <1>10. CASE root = Null
    <2>1. p = Null /\ own = {}
      BY <1>1, <1>4, <1>10 DEF Descent
    <2>2. new = [root |-> id, symbols |-> [i \in {id} |-> record]]
      <3>1. new = [root |-> IF p = Null THEN id ELSE root,
                   symbols |-> [i \in DOMAIN s \cup {id} |-> IF i = id THEN record ELSE s[i]]]
        BY <1>1, <1>6, <2>1 DEF Inserted
      <3> QED
        BY <1>1, <2>1, <3>1
    <2>3. PICK s2 : s2 = [i \in {id} |-> record]
      OBVIOUS
    <2>4. new.symbols = s2 /\ new.root = id /\ DOMAIN s2 = {id} /\ s2[id] = record
      BY <2>2, <2>3
    <2>5. \A t \in Sides : Child(s2, id, t) = Null
      BY <1>7, <2>4 DEF Child
    <2>6. record \in Record
      BY <1>6, <1>8, <2>1, Keys DEF Record
    <2>7. s2 \in Symbols({id})
      <3>1. s2 \in [{id} -> Record]
        BY <2>3, <2>6
      <3>2. PointsInto({id}, s2)
        BY <1>7, <2>1, <2>4, <2>5 DEF PointsInto
      <3> QED
        BY <3>1, <3>2, RecordsAreSymbols
    <2>8. new \in SymbolTables
      BY <1>4, <2>2, <2>3, <2>7, TableBy
    <2>9. SymbolsLinked(s2, id)
      BY <1>7, <2>1, <2>4, <2>5 DEF SymbolsLinked
    <2>10. Kids(s2) = KidsWith({}, kid, id, p, "left")
      <3>1. Kids(s2) = [n \in {id} |-> [t \in Sides |-> Null]]
        BY <2>4, <2>5 DEF Kids
      <3> QED
        BY <3>1 DEF KidsWith
    <2>11. \E E : TreeOf(new, E)
      <3>1. Shaped({}, kid, Null, D)
        BY <1>3, <1>10, <2>1
      <3>2. \E E : Shaped({id}, KidsWith({}, kid, id, p, "left"), id, E)
        BY <1>4, <3>1, ShapeStarted
      <3> QED
        BY <2>4, <2>10, <3>2 DEF TreeOf
    <2>12. Sound(new)
      BY <2>4, <2>9, <2>11 DEF Sound
    <2> QED
      BY <1>1, <1>7, <2>1, <2>4, <2>8, <2>12 DEF Gains
  <1>11. CASE root # Null
    <2>1. Ends(own, kid, D, id, root, p)
      <3>1. id \in Nat /\ table.root # Null
        BY <1>1, <1>4, <1>11
      <3> QED
        BY <1>1, <1>2, <3>1, DescentEnds
    <2>2. PICK side : side = SideOf(id, p)
      OBVIOUS
    <2>3. side \in Sides /\ p \in own /\ p # id /\ kid[p][side] = Null
      BY <1>4, <2>1, <2>2 DEF Ends, SideOf, Sides
    <2>4. Fits(own, kid, D, id, p, side)
      <3>1. Before(side, id, p)
        BY <1>4, <2>2, <2>3 DEF Before, SideOf
      <3>2. \A m \in own, t \in Sides : p \in D[kid[m][t]] => Before(t, id, m)
        BY <1>4, <2>1 DEF Ends
      <3> QED
        BY <3>1, <3>2 DEF Fits
    <2>5. PICK linked : linked = WithChild(s, p, side, id)
      OBVIOUS
    <2>6. /\ linked \in [own -> Record]
          /\ \A m \in own : linked[m].parent = s[m].parent /\ linked[m].object = s[m].object
          /\ \A m \in own, t \in Sides :
               Child(linked, m, t) = IF m = p /\ t = side THEN id ELSE Child(s, m, t)
      <3>1. id \in Int /\ s \in [own -> Record]
        BY <1>4, <1>5
      <3>2. IsWithChild(own, s, p, side, id, linked)
        BY <2>3, <2>5, <3>1, WithChildIs
      <3> QED
        BY <3>2 DEF IsWithChild
    <2>7. PICK s2 : s2 = [i \in own \cup {id} |-> IF i = id THEN record ELSE linked[i]]
      OBVIOUS
    <2>8. new = [root |-> root, symbols |-> s2]
      <3>1. p # Null /\ DOMAIN linked = own
        BY <1>4, <2>3, <2>6
      <3>2. new = [root |-> root,
                   symbols |-> [i \in DOMAIN linked \cup {id} |-> IF i = id THEN record ELSE linked[i]]]
        BY <1>1, <1>6, <2>2, <2>5, <3>1 DEF Inserted, SideOf
      <3> QED
        BY <2>7, <3>1, <3>2
    <2>9. new.symbols = s2 /\ new.root = root /\ DOMAIN s2 = own \cup {id} /\ s2[id] = record
          /\ \A m \in own : s2[m] = linked[m]
      BY <1>4, <2>7, <2>8
    <2>10. /\ \A t \in Sides : Child(s2, id, t) = Null
           /\ \A m \in own, t \in Sides :
                Child(s2, m, t) = IF m = p /\ t = side THEN id ELSE Child(s, m, t)
      <3>1. \A t \in Sides : Child(s2, id, t) = Null
        BY <1>7, <2>9 DEF Child
      <3>2. \A m \in own, t \in Sides : Child(s2, m, t) = Child(linked, m, t)
        BY <2>9 DEF Child
      <3> QED
        BY <2>6, <3>1, <3>2
    <2>11. /\ s2[id].parent = p /\ s2[id].object = object
           /\ \A m \in own : s2[m].parent = s[m].parent /\ s2[m].object = s[m].object
      BY <1>7, <2>6, <2>9
    <2>12. s2 \in Symbols(own \cup {id})
      <3>1. record \in Record
        BY <1>4, <1>6, <1>8, <2>3, Keys DEF Record
      <3>2. s2 \in [own \cup {id} -> Record]
        BY <2>6, <2>7, <3>1
      <3>3. \A n \in own \cup {id} : /\ s2[n].parent \in (own \cup {id}) \cup {Null, Gone}
                                     /\ s2[n].object \in Objects \cup {Function}
        BY <1>5, <2>3, <2>11
      <3>4. \A n \in own \cup {id}, t \in Sides : Child(s2, n, t) \in (own \cup {id}) \cup {Null}
        BY <1>5, <2>10
      <3>5. PointsInto(own \cup {id}, s2)
        BY <3>3, <3>4 DEF PointsInto
      <3> QED
        BY <3>2, <3>5, RecordsAreSymbols
    <2>13. new \in SymbolTables
      BY <1>4, <2>8, <2>12, TableBy
    <2>14. SymbolsLinked(s2, root)
      <3>1. ASSUME NEW n \in own \cup {id}, NEW t \in Sides, Child(s2, n, t) # Null
            PROVE  s2[Child(s2, n, t)].parent \in {n, Gone}
        <4>1. n \in own
          BY <2>10, <3>1
        <4>2. CASE n = p /\ t = side
          BY <2>10, <2>11, <4>1, <4>2
        <4>3. CASE ~ (n = p /\ t = side)
          <5>1. PICK k : k = Child(s, n, t)
            OBVIOUS
          <5>2. Child(s2, n, t) = k /\ k \in own
            BY <1>5, <2>10, <3>1, <4>1, <4>3, <5>1
          <5>3. s[k].parent \in {n, Gone}
            BY <1>1, <1>9, <3>1, <4>1, <5>1, <5>2 DEF SymbolsLinked
          <5> QED
            BY <2>11, <5>2, <5>3
        <4> QED
          BY <4>2, <4>3
      <3>2. ASSUME NEW n \in own \cup {id}
            PROVE  s2[n].parent = Null <=> n = root
        <4>1. CASE n = id
          BY <1>4, <1>11, <2>3, <2>11, <4>1
        <4>2. CASE n \in own
          BY <1>1, <1>9, <2>11, <4>2 DEF SymbolsLinked
        <4> QED
          BY <4>1, <4>2
      <3> QED
        BY <2>9, <3>1, <3>2 DEF SymbolsLinked
    <2>15. Kids(s2) = KidsWith(own, kid, id, p, side)
      <3>1. \A m \in own, t \in Sides : kid[m][t] = Child(s, m, t)
        BY <1>1, KidsAre
      <3>2. \A m \in own \cup {id}, t \in Sides :
              Child(s2, m, t) = IF m = id THEN Null ELSE IF m = p /\ t = side THEN id ELSE kid[m][t]
        BY <1>4, <2>10, <3>1
      <3> QED
        BY <2>9, <3>2 DEF Kids, KidsWith
    <2>16. \E E : TreeOf(new, E)
      <3>1. \E E : Shaped(own \cup {id}, KidsWith(own, kid, id, p, side), root, E)
        BY <1>3, <1>4, <2>3, <2>4, ShapeInserted
      <3> QED
        BY <2>9, <2>15, <3>1 DEF TreeOf
    <2>17. Sound(new)
      BY <2>9, <2>14, <2>16 DEF Sound
    <2> QED
      BY <1>1, <2>9, <2>11, <2>13, <2>17 DEF Gains
  <1> QED
    BY <1>10, <1>11

(* The facts about a sound table that the removals use                     *)
Basis(table, own, s, root, kid, D) ==
  /\ own = DOMAIN s /\ s = table.symbols /\ root = table.root /\ kid = Kids(s)
  /\ Shaped(own, kid, root, D) /\ SymbolsLinked(s, root)
  /\ own \subseteq Nat /\ own \subseteq Identifiers \cup {0} /\ Null \notin own /\ Gone \notin own
  /\ root \in own \cup {Null} /\ D[root] = own /\ D[Null] = {}
  /\ s \in [own -> Record]
  /\ \A m \in own : s[m].parent \in own \cup {Null, Gone} /\ s[m].object \in Objects \cup {Function}
  /\ \A m \in own, t \in Sides : Child(s, m, t) \in own \cup {Null}
  /\ \A m \in own, t \in Sides : kid[m][t] = Child(s, m, t)
  /\ \A m1, m2 \in own, s1, s2 \in Sides :
       Child(s, m1, s1) = Child(s, m2, s2) /\ Child(s, m1, s1) # Null => m1 = m2 /\ s1 = s2
  /\ \A m \in own, t \in Sides :
       Child(s, m, t) # Null => s[Child(s, m, t)].parent \in {m, Gone}
  /\ \A m \in own : s[m].parent = Null <=> m = root

(* What a sound table is made of.                                          *)
LEMMA SoundBasis ==
  ASSUME NEW table \in SymbolTables, Sound(table)
  PROVE  \E own, s, root, kid, D : Basis(table, own, s, root, kid, D)
  <1>1. PICK own, s, root, kid :
          own = DOMAIN s /\ s = table.symbols /\ root = table.root /\ kid = Kids(s)
    OBVIOUS
  <1>2. PICK D : TreeOf(table, D)
    BY DEF Sound
  <1>3. Shaped(own, kid, root, D) /\ SymbolsLinked(s, root)
    BY <1>1, <1>2 DEF TreeOf, Sound
  <1>4. /\ own \subseteq Nat /\ own \subseteq Identifiers \cup {0} /\ Null \notin own /\ Gone \notin own
        /\ root \in own \cup {Null} /\ D[root] = own /\ D[Null] = {} /\ s \in Symbols(own)
    BY <1>1, <1>3, TableFacts, Keys DEF Shaped
  <1>5. /\ s \in [own -> Record]
        /\ \A m \in own : s[m].parent \in own \cup {Null, Gone} /\ s[m].object \in Objects \cup {Function}
        /\ \A m \in own, t \in Sides : Child(s, m, t) \in own \cup {Null}
    BY <1>4, SymbolsAreRecords, ZenonT(60)
  <1>6. \A m \in own, t \in Sides : kid[m][t] = Child(s, m, t)
    BY <1>1, KidsAre
  <1>7. \A m1, m2 \in own, s1, s2 \in Sides :
          Child(s, m1, s1) = Child(s, m2, s2) /\ Child(s, m1, s1) # Null => m1 = m2 /\ s1 = s2
    <2>1. OneParent(kid, own)
      BY <1>3, UniqueParent
    <2> QED
      BY <1>6, <2>1 DEF OneParent
  <1>8. /\ \A m \in own, t \in Sides :
             Child(s, m, t) # Null => s[Child(s, m, t)].parent \in {m, Gone}
        /\ \A m \in own : s[m].parent = Null <=> m = root
    BY <1>1, <1>3 DEF SymbolsLinked
  <1>9. Basis(table, own, s, root, kid, D)
    BY <1>1, <1>3, <1>4, <1>5, <1>6, <1>7, <1>8 DEF Basis
  <1> QED
    BY <1>9

(* Removal of a symbol with at most one child: its place goes to the child.*)
OneChild(s, n) == IF s[n].left # Null THEN s[n].left ELSE s[n].right

OrphanRooted(s, n, child) ==
  IF s[n].parent = Null /\ child # Null THEN WithParent(s, child, Null) ELSE s

(* symbol_undefine of a symbol with at most one child leaves a sound       *)
(* table, if its parent has not been freed.                                *)
LEMMA RemoveSound ==
  ASSUME NEW table \in SymbolTables, Sound(table), NEW n \in DOMAIN table.symbols,
         table.symbols[n].parent # Gone,
         table.symbols[n].left = Null \/ table.symbols[n].right = Null,
         NEW child, child = OneChild(table.symbols, n)
  PROVE  Loses(table, n, Replaced(table, n, OrphanRooted(table.symbols, n, child), child))
  <1>1. PICK own, s, root, kid, D : Basis(table, own, s, root, kid, D)
    BY SoundBasis
  <1>2. own = DOMAIN s /\ s = table.symbols /\ root = table.root /\ kid = Kids(s)
    BY <1>1 DEF Basis
  <1>3. PICK z, q, r, p, new :
          /\ z = OrphanRooted(s, n, child) /\ q = Relinked(z, n, child) /\ r = Without(q, n)
          /\ p = s[n].parent /\ new = Replaced(table, n, z, child)
    OBVIOUS
  <1>4. /\ Shaped(own, kid, root, D) /\ own \subseteq Nat /\ own \subseteq Identifiers \cup {0}
        /\ Null \notin own /\ Gone \notin own
        /\ root \in own \cup {Null} /\ D[root] = own /\ D[Null] = {}
    BY <1>1 DEF Basis
  <1>5. /\ s \in [own -> Record]
        /\ \A m \in own : s[m].parent \in own \cup {Null, Gone} /\ s[m].object \in Objects \cup {Function}
        /\ \A m \in own, t \in Sides : Child(s, m, t) \in own \cup {Null}
        /\ \A m \in own, t \in Sides : kid[m][t] = Child(s, m, t)
    BY <1>1 DEF Basis
  <1>6. /\ \A m1, m2 \in own, s1, s2 \in Sides :
             Child(s, m1, s1) = Child(s, m2, s2) /\ Child(s, m1, s1) # Null => m1 = m2 /\ s1 = s2
        /\ \A m \in own, t \in Sides :
             Child(s, m, t) # Null => s[Child(s, m, t)].parent \in {m, Gone}
        /\ \A m \in own : s[m].parent = Null <=> m = root
    BY <1>1 DEF Basis
  <1>7. n \in own /\ n # Null /\ p \in own \cup {Null} /\ Null # Gone
    BY <1>2, <1>3, <1>4, <1>5, Keys
  <1>8. PICK side \in Sides : child = Child(s, n, side) /\ Child(s, n, Other(side)) = Null
    <2>1. CASE s[n].left # Null
      BY <1>2, <2>1 DEF OneChild, Child, Other, Sides
    <2>2. CASE s[n].left = Null
      BY <1>2, <2>2 DEF OneChild, Child, Other, Sides
    <2> QED
      BY <2>1, <2>2
  <1>9. child \in own \cup {Null} /\ child # n /\ child \in Int /\ D[n] = {n} \cup D[child]
    <2>1. Parted(own, kid, D, n, side)
      BY <1>4, <1>7, BelowNode
    <2>2. Other(side) \in Sides
      BY SidesDiffer
    <2>3. kid[n][side] = child /\ kid[n][Other(side)] = Null
      BY <1>5, <1>7, <1>8, <2>2
    <2>4. child \in own \cup {Null} /\ child # n /\ D[n] = {n} \cup D[child] \cup D[Null]
      BY <2>1, <2>3 DEF Parted
    <2>5. child \in Int
      BY <1>4, <2>4, Keys
    <2> QED
      BY <1>4, <2>4, <2>5
  <1>10. /\ z \in [own -> Record]
         /\ \A m \in own : /\ z[m].parent = IF p = Null /\ m = child THEN Null ELSE s[m].parent
                           /\ z[m].object = s[m].object
         /\ \A m \in own, t \in Sides : Child(z, m, t) = Child(s, m, t)
    <2>1. CASE p = Null /\ child # Null
      <3>1. z = WithParent(s, child, Null) /\ child \in own
        BY <1>3, <1>9, <2>1 DEF OrphanRooted
      <3>2. s \in [own -> Record] /\ Null \in Int
        BY <1>5, Keys
      <3>3. /\ z \in [own -> Record]
            /\ \A m \in own : /\ z[m].parent = IF m = child THEN Null ELSE s[m].parent
                              /\ z[m].object = s[m].object
            /\ \A m \in own, t \in Sides : Child(z, m, t) = Child(s, m, t)
        <4>1. IsWithParent(own, s, child, Null, z)
          BY <3>1, <3>2, WithParentIs
        <4> QED
          BY <4>1 DEF IsWithParent
      <3> QED
        BY <2>1, <3>3
    <2>2. CASE ~ (p = Null /\ child # Null)
      <3>1. z = s
        BY <1>3, <2>2 DEF OrphanRooted
      <3>2. \A m \in own : ~ (p = Null /\ m = child)
        BY <1>4, <2>2
      <3> QED
        BY <1>5, <3>1, <3>2
    <2> QED
      BY <2>1, <2>2
  <1>11. /\ z[n].parent = p
         /\ \A m \in own, t \in Sides : Child(z, m, t) = n => m = p
         /\ \A m \in own, t \in Sides : Child(z, m, t) = n => Child(z, m, Other(t)) # n
    <2>1. z[n].parent = p
      BY <1>3, <1>7, <1>9, <1>10
    <2>2. \A m \in own, t \in Sides : Child(s, m, t) = n => m = p
      BY <1>2, <1>3, <1>6, <1>7
    <2>3. \A m \in own, t \in Sides : Child(s, m, t) = n => Child(s, m, Other(t)) # n
      BY <1>6, <1>7, SidesDiffer
    <2> QED
      BY <1>10, <2>1, <2>2, <2>3, SidesDiffer
  <1>12. /\ q \in [own -> Record]
         /\ \A m \in own : q[m].parent = z[m].parent /\ q[m].object = z[m].object
         /\ \A m \in own, t \in Sides :
              Child(q, m, t) = IF Child(z, m, t) = n THEN child ELSE Child(z, m, t)
    <2>1. z[n].parent \in own \cup {Null} /\ Null \notin own
      BY <1>4, <1>7, <1>11
    <2>2. \A m \in own, t \in Sides : Child(z, m, t) = n => m = z[n].parent
      BY <1>11
    <2>3. \A m \in own, t \in Sides : Child(z, m, t) = n => Child(z, m, Other(t)) # n
      BY <1>11
    <2>4. z \in [own -> Record] /\ child \in Int
      BY <1>9, <1>10
    <2> QED
      BY <1>3, <1>7, <2>1, <2>2, <2>3, <2>4, RelinkedIs
  <1>13. PICK own2 : own2 = own \ {n}
    OBVIOUS
  <1>14. /\ r \in [own2 -> Record]
         /\ \A m \in own2 : r[m].parent = After(n, q[m].parent) /\ r[m].object = q[m].object
         /\ \A m \in own2, t \in Sides : Child(r, m, t) = After(n, Child(q, m, t))
    <2>1. q \in [own -> Record]
      BY <1>12
    <2>2. /\ r \in [own \ {n} -> Record]
          /\ \A m \in own \ {n} : r[m].parent = After(n, q[m].parent) /\ r[m].object = q[m].object
          /\ \A m \in own \ {n}, t \in Sides : Child(r, m, t) = After(n, Child(q, m, t))
      <3>1. r = Without(q, n)
        BY <1>3
      <3>2. IsWithout(own, q, n, r)
        BY <2>1, <3>1, WithoutIs
      <3> QED
        BY <3>2 DEF IsWithout
    <2> QED
      BY <1>13, <2>2
  <1>15. \A m \in own2, t \in Sides :
           Child(r, m, t) = IF Child(s, m, t) = n THEN child ELSE Child(s, m, t)
    <2> SUFFICES ASSUME NEW m \in own2, NEW t \in Sides
                 PROVE  Child(r, m, t) = IF Child(s, m, t) = n THEN child ELSE Child(s, m, t)
      OBVIOUS
    <2>1. m \in own /\ Child(r, m, t) = After(n, Child(q, m, t))
      BY <1>13, <1>14
    <2>2. Child(q, m, t) = IF Child(z, m, t) = n THEN child ELSE Child(z, m, t)
      BY <1>12, <2>1
    <2>3. Child(z, m, t) = Child(s, m, t)
      BY <1>10, <2>1
    <2> QED
      BY <1>9, <2>1, <2>2, <2>3 DEF After
  <1>16. \A m \in own2 : /\ r[m].parent = IF p = Null /\ m = child THEN Null
                                          ELSE After(n, s[m].parent)
                         /\ r[m].object = s[m].object
    BY <1>7, <1>10, <1>12, <1>13, <1>14 DEF After
  <1>17. DOMAIN r = own2 /\ new = [root |-> IF p = Null THEN child ELSE root, symbols |-> r]
    BY <1>2, <1>3, <1>14 DEF Replaced
  <1>18. PICK root2 : root2 = IF p = Null THEN child ELSE root
    OBVIOUS
  <1>19. /\ new.root = root2 /\ new.symbols = r /\ new = [root |-> root2, symbols |-> r]
         /\ root2 = IF n = root THEN child ELSE root
         /\ p = Null <=> n = root
    BY <1>3, <1>6, <1>7, <1>17, <1>18
  <1>20. r \in Symbols(own2)
    <2>1. \A m \in own2 : /\ r[m].parent \in own2 \cup {Null, Gone}
                          /\ r[m].object \in Objects \cup {Function}
      BY <1>5, <1>13, <1>16 DEF After
    <2>2. \A m \in own2, t \in Sides : Child(r, m, t) \in own2 \cup {Null}
      BY <1>5, <1>9, <1>13, <1>15
    <2>3. r \in [own2 -> Record]
      BY <1>14
    <2>4. PointsInto(own2, r)
      BY <2>1, <2>2 DEF PointsInto
    <2> QED
      BY <2>3, <2>4, RecordsAreSymbols
  <1>21. new \in SymbolTables
    <2>1. root2 \in own2 \cup {Null} /\ own2 \subseteq Identifiers \cup {0}
      <3>1. n = root => root2 = child
        BY <1>19
      <3>2. n # root => root2 = root
        BY <1>19
      <3> QED
        BY <1>4, <1>9, <1>13, <3>1, <3>2
    <2> QED
      BY <1>19, <1>20, <2>1, TableBy
  <1>22. SymbolsLinked(r, root2)
    <2>1. ASSUME NEW m \in own2, NEW t \in Sides, Child(r, m, t) # Null
          PROVE  r[Child(r, m, t)].parent \in {m, Gone}
      <3>1. PICK k : k = Child(r, m, t)
        OBVIOUS
      <3>2. m \in own /\ m # n
        BY <1>13
      <3>3. CASE Child(s, m, t) = n
        <4>1. k = child /\ p = m
          BY <1>10, <1>11, <1>15, <3>1, <3>2, <3>3
        <4>2. child \in own2 /\ p # Null
          BY <1>4, <1>9, <1>13, <2>1, <3>1, <3>2, <4>1
        <4>3. s[child].parent \in {n, Gone}
          BY <1>6, <1>7, <1>8, <2>1, <3>1, <4>1
        <4>4. r[child].parent = Gone
          BY <1>16, <4>2, <4>3 DEF After
        <4> QED
          BY <3>1, <4>1, <4>4
      <3>4. CASE Child(s, m, t) # n
        <4>1. k = Child(s, m, t) /\ k \in own2
          BY <1>5, <1>13, <1>15, <2>1, <3>1, <3>2, <3>4
        <4>2. s[k].parent \in {m, Gone}
          BY <1>6, <2>1, <3>1, <3>2, <4>1
        <4>3. k # child
          BY <1>6, <1>7, <1>8, <2>1, <3>1, <3>2, <4>1
        <4> QED
          BY <1>16, <3>1, <3>2, <4>1, <4>2, <4>3 DEF After
      <3> QED
        BY <3>3, <3>4
    <2>2. ASSUME NEW m \in own2
          PROVE  r[m].parent = Null <=> m = root2
      <3>1. m \in own /\ m # n
        BY <1>13
      <3>2. s[m].parent = Null <=> m = root
        BY <1>6, <3>1
      <3>3. CASE p = Null /\ m = child
        BY <1>16, <1>18, <3>3
      <3>4. CASE ~ (p = Null /\ m = child)
        <4>1. r[m].parent = Null <=> s[m].parent = Null
          BY <1>7, <1>16, <3>4 DEF After
        <4> QED
          BY <1>18, <1>19, <3>1, <3>2, <3>4, <4>1
      <3> QED
        BY <3>3, <3>4
    <2> QED
      BY <1>17, <2>1, <2>2 DEF SymbolsLinked
  <1>23. \E E : TreeOf(new, E)
    <2>1. kid[n][Other(side)] = Null /\ kid[n][side] = child
      BY <1>5, <1>7, <1>8, SidesDiffer
    <2>2. PICK E : E = [m \in (own \ {n}) \cup {Null} |-> D[m] \ {n}]
      OBVIOUS
    <2>3. Shaped(own \ {n}, KidsWithout(own, kid, n, kid[n][side]),
                 IF n = root THEN kid[n][side] ELSE root, E)
      <3>1. Shaped(own, kid, root, D) /\ n \in own /\ kid[n][Other(side)] = Null
        BY <1>4, <1>7, <2>1
      <3> QED
        BY <2>2, <3>1, ShapeRemoved, SMTT(30)
    <2>4. Shaped(own2, KidsWithout(own, kid, n, child), root2, E)
      BY <1>13, <1>19, <2>1, <2>3
    <2>5. Kids(r) = KidsWithout(own, kid, n, child)
      BY <1>5, <1>13, <1>15, <1>17 DEF Kids, KidsWithout
    <2> QED
      BY <1>17, <1>19, <2>4, <2>5 DEF TreeOf
  <1>24. Sound(new)
    BY <1>19, <1>22, <1>23 DEF Sound
  <1>25. Loses(table, n, new)
    <2>1. DOMAIN new.symbols = DOMAIN table.symbols \ {n}
      BY <1>2, <1>13, <1>17, <1>19
    <2>2. \A m \in DOMAIN new.symbols : new.symbols[m].object = table.symbols[m].object
      BY <1>2, <1>16, <1>17, <1>19
    <2> QED
      BY <1>21, <1>24, <2>1, <2>2 DEF Loses
  <1> QED
    BY <1>2, <1>3, <1>25

(* The fields of the symbols that Swapped makes of s                       *)
IsSwapped(own, s, n, new, join, orphan, side, z) ==
  /\ z \in [own -> Record]
  /\ \A m \in own :
       /\ z[m].parent = IF m = s[n].left \/ m = s[n].right THEN new
                        ELSE IF m = new THEN s[n].parent
                        ELSE IF m = orphan THEN join ELSE s[m].parent
       /\ z[m].object = s[m].object
  /\ \A m \in own, t \in Sides :
       Child(z, m, t) = IF m = new THEN Child(s, n, t)
                        ELSE IF m = join /\ t = Other(side) THEN orphan ELSE Child(s, m, t)

(* What symbol_undefine writes when a symbol has two children.             *)
LEMMA SwappedIs ==
  ASSUME NEW own, own \subseteq Int, NEW s \in [own -> Record], NEW n \in own, NEW new \in own,
         NEW side \in Sides, NEW join, NEW orphan,
         join = s[new].parent, orphan = Child(s, new, side), join \in own, orphan \in own,
         s[n].left \in own, s[n].right \in own
  PROVE  IsSwapped(own, s, n, new, join, orphan, side, Swapped(s, n, new, side))
  <1>1. PICK a, b, r, c, d, z, left, right :
          /\ a = WithChild(s, join, Other(side), orphan) /\ b = WithParent(a, orphan, join)
          /\ r = [s[n] EXCEPT !.object = s[new].object] /\ c = [b EXCEPT ![new] = r]
          /\ d = WithParent(c, left, new) /\ z = WithParent(d, right, new)
          /\ left = s[n].left /\ right = s[n].right
    OBVIOUS
  <1>2. z = Swapped(s, n, new, side)
    BY <1>1 DEF Swapped
  <1>3. left \in own /\ right \in own /\ join \in Int /\ orphan \in Int /\ new \in Int
    BY <1>1
  <1>4. Other(side) \in Sides
    BY SidesDiffer
  <1>5. /\ a \in [own -> Record]
        /\ \A m \in own : a[m].parent = s[m].parent /\ a[m].object = s[m].object
        /\ \A m \in own, t \in Sides :
             Child(a, m, t) = IF m = join /\ t = Other(side) THEN orphan ELSE Child(s, m, t)
    <2>1. a = WithChild(s, join, Other(side), orphan)
      BY <1>1
    <2>2. IsWithChild(own, s, join, Other(side), orphan, a)
      BY <1>3, <1>4, <2>1, WithChildIs
    <2> QED
      BY <2>2 DEF IsWithChild
  <1>6. /\ b \in [own -> Record]
        /\ \A m \in own : /\ b[m].parent = IF m = orphan THEN join ELSE a[m].parent
                          /\ b[m].object = a[m].object
        /\ \A m \in own, t \in Sides : Child(b, m, t) = Child(a, m, t)
    <2>1. b = WithParent(a, orphan, join) /\ a \in [own -> Record]
      BY <1>1, <1>5
    <2>2. IsWithParent(own, a, orphan, join, b)
      BY <1>3, <2>1, WithParentIs
    <2> QED
      BY <2>2 DEF IsWithParent
  <1>7. /\ r \in Record /\ r.parent = s[n].parent /\ r.left = left /\ r.right = right
        /\ r.object = s[new].object
    <2>1. s[n] \in Record /\ s[new] \in Record
      OBVIOUS
    <2> QED
      BY <1>1, <2>1 DEF Record
  <1>8. c \in [own -> Record] /\ \A m \in own : c[m] = IF m = new THEN r ELSE b[m]
    BY <1>1, <1>6, <1>7
  <1>9. /\ \A m \in own : /\ c[m].parent = IF m = new THEN s[n].parent ELSE b[m].parent
                          /\ c[m].object = IF m = new THEN s[new].object ELSE b[m].object
        /\ \A m \in own, t \in Sides :
             Child(c, m, t) = IF m = new THEN Child(s, n, t) ELSE Child(b, m, t)
    <2>1. \A m \in own : /\ c[m].parent = IF m = new THEN s[n].parent ELSE b[m].parent
                         /\ c[m].object = IF m = new THEN s[new].object ELSE b[m].object
      BY <1>7, <1>8, SMTT(30)
    <2>2. ASSUME NEW m \in own, NEW t \in Sides
          PROVE  Child(c, m, t) = IF m = new THEN Child(s, n, t) ELSE Child(b, m, t)
      BY <1>1, <1>7, <1>8 DEF Child
    <2> QED
      BY <2>1, <2>2
  <1>10. /\ d \in [own -> Record]
         /\ \A m \in own : /\ d[m].parent = IF m = left THEN new ELSE c[m].parent
                           /\ d[m].object = c[m].object
         /\ \A m \in own, t \in Sides : Child(d, m, t) = Child(c, m, t)
    <2>1. d = WithParent(c, left, new) /\ c \in [own -> Record]
      BY <1>1, <1>8
    <2>2. IsWithParent(own, c, left, new, d)
      BY <1>3, <2>1, WithParentIs
    <2> QED
      BY <2>2 DEF IsWithParent
  <1>11. /\ z \in [own -> Record]
         /\ \A m \in own : /\ z[m].parent = IF m = right THEN new ELSE d[m].parent
                           /\ z[m].object = d[m].object
         /\ \A m \in own, t \in Sides : Child(z, m, t) = Child(d, m, t)
    <2>1. z = WithParent(d, right, new) /\ d \in [own -> Record]
      BY <1>1, <1>10
    <2>2. IsWithParent(own, d, right, new, z)
      BY <1>3, <2>1, WithParentIs
    <2> QED
      BY <2>2 DEF IsWithParent
  <1>12. \A m \in own :
           /\ z[m].parent = IF m = left \/ m = right THEN new
                            ELSE IF m = new THEN s[n].parent
                            ELSE IF m = orphan THEN join ELSE s[m].parent
           /\ z[m].object = s[m].object
    BY <1>5, <1>6, <1>9, <1>10, <1>11
  <1>13. \A m \in own, t \in Sides :
           Child(z, m, t) = IF m = new THEN Child(s, n, t)
                            ELSE IF m = join /\ t = Other(side) THEN orphan ELSE Child(s, m, t)
    BY <1>5, <1>6, <1>9, <1>10, <1>11, SMTT(30)
  <1>14. IsSwapped(own, s, n, new, join, orphan, side, z)
    BY <1>1, <1>11, <1>12, <1>13, ZenonT(60) DEF IsSwapped
  <1> QED
    BY <1>2, <1>14

(* Removal of a symbol with two children: its place goes to a neighbour.   *)
LEMMA SwapSound ==
  ASSUME NEW table \in SymbolTables, Sound(table), NEW n \in DOMAIN table.symbols, NEW side \in Sides,
         table.symbols[n].parent # Gone,
         table.symbols[n].left # Null, table.symbols[n].right # Null,
         NEW new, new = Neighbour(table.symbols, n, side),
         table.symbols[new].parent # Gone, Child(table.symbols, new, side) # Null,
         table.symbols[new].parent # n
  PROVE  Loses(table, n, Replaced(table, n, Swapped(table.symbols, n, new, side), new))
  <1>1. PICK own, s, root, kid, D : Basis(table, own, s, root, kid, D)
    BY SoundBasis
  <1>2. own = DOMAIN s /\ s = table.symbols /\ root = table.root /\ kid = Kids(s)
    BY <1>1 DEF Basis
  <1>3. PICK join, orphan, other, c, z, q, r, p, next :
          /\ join = s[new].parent /\ orphan = Child(s, new, side)
          /\ other = Other(side) /\ c = Child(s, n, side)
          /\ z = Swapped(s, n, new, side) /\ q = Relinked(z, n, new) /\ r = Without(q, n)
          /\ p = s[n].parent /\ next = Replaced(table, n, z, new)
    OBVIOUS
  <1>4. /\ Shaped(own, kid, root, D) /\ own \subseteq Nat /\ own \subseteq Identifiers \cup {0}
        /\ Null \notin own /\ Gone \notin own
        /\ root \in own \cup {Null} /\ D[root] = own /\ D[Null] = {}
    BY <1>1 DEF Basis
  <1>5. /\ s \in [own -> Record]
        /\ \A m \in own : s[m].parent \in own \cup {Null, Gone} /\ s[m].object \in Objects \cup {Function}
        /\ \A m \in own, t \in Sides : Child(s, m, t) \in own \cup {Null}
        /\ \A m \in own, t \in Sides : kid[m][t] = Child(s, m, t)
    BY <1>1 DEF Basis
  <1>6. /\ \A m1, m2 \in own, s1, s2 \in Sides :
             Child(s, m1, s1) = Child(s, m2, s2) /\ Child(s, m1, s1) # Null => m1 = m2 /\ s1 = s2
        /\ \A m \in own, t \in Sides :
             Child(s, m, t) # Null => s[Child(s, m, t)].parent \in {m, Gone}
        /\ \A m \in own : s[m].parent = Null <=> m = root
    BY <1>1 DEF Basis
  <1>7. n \in own /\ n # Null /\ p \in own \cup {Null} /\ Null # Gone
    BY <1>2, <1>3, <1>4, <1>5, Keys
  <1>8. other \in Sides /\ other # side /\ Sides = {side, other}
    BY <1>3, SidesDiffer
  <1>9. PICK left, right : left = s[n].left /\ right = s[n].right
    OBVIOUS
  <1>10. /\ left \in own /\ right \in own
         /\ left = Child(s, n, "left") /\ right = Child(s, n, "right")
         /\ \A t \in Sides : Child(s, n, t) \in {left, right}
    <2>1. left = Child(s, n, "left") /\ right = Child(s, n, "right")
      BY <1>9 DEF Child
    <2>2. "left" \in Sides /\ "right" \in Sides
      BY DEF Sides
    <2>3. left \in own \cup {Null} /\ right \in own \cup {Null}
      BY <1>5, <1>7, <2>1, <2>2
    <2>4. \A t \in Sides : Child(s, n, t) \in {left, right}
      BY <1>9 DEF Child
    <2> QED
      BY <1>2, <1>9, <2>1, <2>3, <2>4
  <1>11. c \in own /\ c \in {left, right}
    BY <1>3, <1>10
  <1>12. Utmost(own, kid, D, c, side, new)
    <2>1. TreeOf(table, D) /\ Child(table.symbols, n, side) # Null
      BY <1>2, <1>3, <1>4, <1>11 DEF TreeOf
    <2> QED
      BY <1>2, <1>3, <2>1, NeighbourIsUtmost
  <1>13. /\ new \in D[c] /\ new \in own /\ kid[new][other] = Null
         /\ \A y \in D[c] : y # new => Before(side, y, new)
    <2>1. D[c] \subseteq own
      BY <1>4, <1>11 DEF Shaped
    <2> QED
      BY <1>3, <1>12, <2>1 DEF Utmost
  <1>14. new # left /\ new # right /\ new # c
    <2>1. join \notin {n, Gone}
      BY <1>2, <1>3
    <2>2. ASSUME NEW t \in Sides
          PROVE  Child(s, n, t) # new
      BY <1>3, <1>4, <1>6, <1>7, <1>13, <2>1, ZenonT(60)
    <2>3. "left" \in Sides /\ "right" \in Sides
      BY DEF Sides
    <2> QED
      BY <1>10, <1>11, <2>2, <2>3
  <1>15. /\ join \in D[c] /\ join \in own /\ Child(s, join, other) = new /\ join # n
    <2>1. PICK m \in D[c] : kid[m][other] = new
      BY <1>3, <1>12, <1>14 DEF Utmost
    <2>2. m \in own
      BY <1>4, <1>11, <2>1 DEF Shaped
    <2>3. Child(s, m, other) = new
      BY <1>5, <1>8, <2>1, <2>2
    <2>4. s[new].parent \in {m, Gone}
      BY <1>4, <1>6, <1>8, <1>13, <2>2, <2>3
    <2>5. join = m
      BY <1>2, <1>3, <2>4
    <2> QED
      BY <1>2, <1>3, <2>1, <2>2, <2>3, <2>5
  <1>16. orphan \in own /\ orphan = kid[new][side]
    BY <1>2, <1>3, <1>5, <1>13
  <1>17. /\ orphan # n /\ orphan # new /\ orphan # left /\ orphan # right /\ new # n /\ join # new
         /\ left # n /\ right # n /\ n \notin D[c] /\ p # n
    <2>1. Parted(own, kid, D, n, side) /\ Parted(own, kid, D, new, side)
      BY <1>4, <1>7, <1>13, BelowNode, SMTT(30)
    <2>2. n \notin D[c] /\ new # n
      BY <1>3, <1>5, <1>7, <1>13, <2>1 DEF Parted
    <2>3. D[new] \subseteq D[c]
      BY <1>4, <1>11, <1>13, BelowBelow, SMTT(30)
    <2>4. orphan \in D[orphan] /\ D[orphan] \subseteq D[new] /\ orphan # new
      <3>1. orphan \in D[orphan]
        BY <1>4, <1>16, BelowNode DEF Parted
      <3> QED
        BY <1>16, <2>1, <3>1 DEF Parted
    <2>5. orphan # n
      BY <2>2, <2>3, <2>4
    <2>6. ASSUME NEW t \in Sides
          PROVE  Child(s, n, t) # orphan /\ Child(s, n, t) # n
      <3>1. Child(s, new, side) = orphan /\ orphan # Null
        BY <1>3, <1>4, <1>16
      <3>2. Child(s, n, t) # orphan
        BY <1>6, <1>7, <1>13, <2>2, <3>1
      <3>3. Parted(own, kid, D, n, t)
        BY <1>4, <1>7, BelowNode
      <3> QED
        BY <1>5, <1>7, <3>2, <3>3 DEF Parted
    <2>7. "left" \in Sides /\ "right" \in Sides
      BY DEF Sides
    <2>8. join # new
      <3>1. Parted(own, kid, D, join, other)
        BY <1>4, <1>8, <1>15, BelowNode
      <3> QED
        BY <1>5, <1>8, <1>15, <3>1 DEF Parted
    <2>9. p # n
      <3>1. CASE n = root
        BY <1>3, <1>6, <1>7, <3>1
      <3>2. CASE n # root
        <4>1. PICK m \in own, t \in Sides : kid[m][t] = n
          <5>1. Shaped(own, kid, root, D) /\ n \in own /\ n # root
            BY <1>4, <1>7, <3>2
          <5> QED
            BY <5>1, SomeParent
        <4>2. Parted(own, kid, D, m, t)
          BY <1>4, <4>1, BelowNode
        <4>3. Child(s, m, t) = n /\ n # m
          <5>1. kid[m][t] # m
            BY <4>2 DEF Parted
          <5> QED
            BY <1>5, <4>1, <5>1
        <4>4. s[n].parent \in {m, Gone}
          BY <1>6, <1>7, <4>3
        <4> QED
          BY <1>2, <1>3, <4>3, <4>4
      <3> QED
        BY <3>1, <3>2
    <2> QED
      BY <1>10, <2>2, <2>4, <2>5, <2>6, <2>7, <2>8, <2>9
  <1>18. NextTo(own, kid, D, n, new, join, side)
    <2>1. join \in D[n]
      <3>1. Parted(own, kid, D, n, side)
        BY <1>4, <1>7, BelowNode
      <3> QED
        BY <1>3, <1>5, <1>7, <1>15, <3>1 DEF Parted
    <2>2. kid[n][side] = c /\ kid[join][other] = new
      BY <1>3, <1>5, <1>7, <1>8, <1>15
    <2>3. ASSUME NEW m \in own, NEW t \in Sides, kid[m][t] = new
          PROVE  m = join /\ t = other
      BY <1>4, <1>5, <1>6, <1>8, <1>13, <1>15, <2>3
    <2> QED
      BY <1>3, <1>13, <1>15, <2>1, <2>2, <2>3, SMTT(30) DEF NextTo
  <1>19. IsSwapped(own, s, n, new, join, orphan, side, z)
    <2>1. own \subseteq Int /\ s \in [own -> Record] /\ s[n].left \in own /\ s[n].right \in own
      BY <1>4, <1>5, <1>9, <1>10
    <2>2. join = s[new].parent /\ orphan = Child(s, new, side) /\ z = Swapped(s, n, new, side)
      BY <1>3
    <2> QED
      BY <1>7, <1>13, <1>15, <1>16, <2>1, <2>2, SwappedIs
  <1>20. /\ z \in [own -> Record]
         /\ \A m \in own :
              /\ z[m].parent = IF m = left \/ m = right THEN new
                               ELSE IF m = new THEN p
                               ELSE IF m = orphan THEN join ELSE s[m].parent
              /\ z[m].object = s[m].object
    BY <1>3, <1>9, <1>19 DEF IsSwapped
  <1>21. \A m \in own, t \in Sides :
           Child(z, m, t) = IF m = new THEN Child(s, n, t)
                            ELSE IF m = join /\ t = other THEN orphan ELSE Child(s, m, t)
    BY <1>3, <1>19 DEF IsSwapped
  <1>22. /\ z[n].parent = p
         /\ \A m \in own, t \in Sides : Child(z, m, t) = n => Child(s, m, t) = n
         /\ \A m \in own, t \in Sides : Child(z, m, t) = n => m = p
         /\ \A m \in own, t \in Sides : Child(z, m, t) = n => Child(z, m, Other(t)) # n
    <2>1. z[n].parent = p
      BY <1>3, <1>7, <1>17, <1>20
    <2>2. ASSUME NEW m \in own, NEW t \in Sides, Child(z, m, t) = n
          PROVE  Child(s, m, t) = n
      <3>1. Child(s, n, t) # n
        BY <1>10, <1>17
      <3> QED
        BY <1>17, <1>21, <2>2, <3>1
    <2>3. \A m \in own, t \in Sides : Child(s, m, t) = n => m = p
      BY <1>2, <1>3, <1>6, <1>7
    <2>4. \A m \in own, t \in Sides : Child(s, m, t) = n => Child(s, m, Other(t)) # n
      BY <1>6, <1>7, SidesDiffer
    <2> QED
      BY <2>1, <2>2, <2>3, <2>4, SidesDiffer
  <1>23. /\ q \in [own -> Record]
         /\ \A m \in own : q[m].parent = z[m].parent /\ q[m].object = z[m].object
         /\ \A m \in own, t \in Sides :
              Child(q, m, t) = IF Child(z, m, t) = n THEN new ELSE Child(z, m, t)
    <2>1. z[n].parent \in own \cup {Null} /\ Null \notin own
      BY <1>4, <1>7, <1>22
    <2>2. \A m \in own, t \in Sides : Child(z, m, t) = n => m = z[n].parent
      BY <1>22
    <2>3. \A m \in own, t \in Sides : Child(z, m, t) = n => Child(z, m, Other(t)) # n
      BY <1>22
    <2>4. z \in [own -> Record] /\ new \in Int
      BY <1>4, <1>13, <1>20
    <2> QED
      BY <1>3, <1>7, <2>1, <2>2, <2>3, <2>4, RelinkedIs
  <1>24. PICK own2 : own2 = own \ {n}
    OBVIOUS
  <1>25. /\ r \in [own2 -> Record]
         /\ \A m \in own2 : r[m].parent = After(n, q[m].parent) /\ r[m].object = q[m].object
         /\ \A m \in own2, t \in Sides : Child(r, m, t) = After(n, Child(q, m, t))
    <2>1. q \in [own -> Record]
      BY <1>23
    <2>2. r = Without(q, n)
      BY <1>3
    <2>3. IsWithout(own, q, n, r)
      BY <2>1, <2>2, WithoutIs
    <2> QED
      BY <1>24, <2>3 DEF IsWithout
  <1>26. \A m \in own2, t \in Sides :
           Child(r, m, t) = IF m = new THEN Child(s, n, t)
                            ELSE IF m = join /\ t = other THEN orphan
                            ELSE IF Child(s, m, t) = n THEN new ELSE Child(s, m, t)
    <2> SUFFICES ASSUME NEW m \in own2, NEW t \in Sides
                 PROVE  Child(r, m, t) = IF m = new THEN Child(s, n, t)
                            ELSE IF m = join /\ t = other THEN orphan
                            ELSE IF Child(s, m, t) = n THEN new ELSE Child(s, m, t)
      OBVIOUS
    <2>1. m \in own /\ Child(s, n, t) # n
      BY <1>10, <1>17, <1>24
    <2>2. Child(q, m, t) = IF Child(z, m, t) = n THEN new ELSE Child(z, m, t)
      BY <1>23, <2>1
    <2>3. Child(r, m, t) = Child(q, m, t)
      BY <1>17, <1>25, <2>2 DEF After
    <2>4. Child(z, m, t) = IF m = new THEN Child(s, n, t)
                            ELSE IF m = join /\ t = other THEN orphan ELSE Child(s, m, t)
      BY <1>21, <2>1
    <2> QED
      BY <1>17, <2>1, <2>2, <2>3, <2>4
  <1>27. \A m \in own2 : /\ r[m].parent = IF m = left \/ m = right THEN new
                                          ELSE IF m = new THEN p
                                          ELSE IF m = orphan THEN join ELSE After(n, s[m].parent)
                         /\ r[m].object = s[m].object
    <2> SUFFICES ASSUME NEW m \in own2
                 PROVE  /\ r[m].parent = IF m = left \/ m = right THEN new
                                          ELSE IF m = new THEN p
                                          ELSE IF m = orphan THEN join ELSE After(n, s[m].parent)
                        /\ r[m].object = s[m].object
      OBVIOUS
    <2>1. m \in own /\ r[m].parent = After(n, z[m].parent) /\ r[m].object = s[m].object
      BY <1>20, <1>23, <1>24, <1>25
    <2>2. After(n, new) = new /\ After(n, p) = p /\ After(n, join) = join
      BY <1>15, <1>17 DEF After
    <2> QED
      BY <1>20, <2>1, <2>2
  <1>28. DOMAIN r = own2 /\ next = [root |-> IF p = Null THEN new ELSE root, symbols |-> r]
    BY <1>2, <1>3, <1>25 DEF Replaced
  <1>29. PICK root2 : root2 = IF p = Null THEN new ELSE root
    OBVIOUS
  <1>30. /\ next.root = root2 /\ next.symbols = r /\ next = [root |-> root2, symbols |-> r]
         /\ root2 = IF n = root THEN new ELSE root
         /\ p = Null <=> n = root
    BY <1>3, <1>6, <1>7, <1>28, <1>29
  <1>31. new \in own2 /\ join \in own2 /\ orphan \in own2 /\ left \in own2 /\ right \in own2
    BY <1>10, <1>13, <1>15, <1>16, <1>17, <1>24
  <1>32. r \in Symbols(own2)
    <2>1. ASSUME NEW m \in own2
          PROVE  r[m].parent \in own2 \cup {Null, Gone} /\ r[m].object \in Objects \cup {Function}
      <3>1. m \in own /\ s[m].parent \in own \cup {Null, Gone} /\ s[m].object \in Objects \cup {Function}
        BY <1>5, <1>24
      <3>2. After(n, s[m].parent) \in own2 \cup {Null, Gone}
        BY <1>24, <3>1 DEF After
      <3>3. p \in own2 \cup {Null}
        BY <1>7, <1>17, <1>24
      <3> QED
        BY <1>27, <1>31, <3>1, <3>2, <3>3
    <2>2. ASSUME NEW m \in own2, NEW t \in Sides
          PROVE  Child(r, m, t) \in own2 \cup {Null}
      <3>1. m \in own /\ Child(s, m, t) \in own \cup {Null}
        BY <1>5, <1>24
      <3>2. Child(s, n, t) \in own2
        BY <1>10, <1>31
      <3> QED
        BY <1>24, <1>26, <1>31, <3>1, <3>2
    <2>3. r \in [own2 -> Record]
      BY <1>25
    <2>4. PointsInto(own2, r)
      BY <2>1, <2>2 DEF PointsInto
    <2> QED
      BY <2>3, <2>4, RecordsAreSymbols
  <1>33. next \in SymbolTables
    <2>1. root2 \in own2 \cup {Null} /\ own2 \subseteq Identifiers \cup {0}
      <3>1. n = root => root2 = new
        BY <1>30
      <3>2. n # root => root2 = root
        BY <1>30
      <3> QED
        BY <1>4, <1>24, <1>31, <3>1, <3>2
    <2> QED
      BY <1>30, <1>32, <2>1, TableBy
  <1>34. SymbolsLinked(r, root2)
    <2>1. ASSUME NEW m \in own2, NEW t \in Sides, Child(r, m, t) # Null
          PROVE  r[Child(r, m, t)].parent \in {m, Gone}
      <3>1. PICK k : k = Child(r, m, t)
        OBVIOUS
      <3>2. m \in own /\ m # n
        BY <1>24
      <3>3. CASE m = new
        <4>1. k \in {left, right}
          BY <1>10, <1>26, <3>1, <3>3
        <4> QED
          BY <1>27, <1>31, <3>1, <3>3, <4>1
      <3>4. CASE m # new /\ m = join /\ t = other
        <4>1. k = orphan
          BY <1>26, <3>1, <3>4
        <4> QED
          BY <1>17, <1>27, <1>31, <3>1, <3>4, <4>1
      <3>5. CASE m # new /\ ~ (m = join /\ t = other) /\ Child(s, m, t) = n
        <4>1. k = new /\ p = m
          <5>1. k = new
            BY <1>26, <3>1, <3>5
          <5>2. s[n].parent \in {m, Gone}
            BY <1>6, <1>7, <3>2, <3>5
          <5> QED
            BY <1>2, <1>3, <5>1, <5>2
        <4> QED
          BY <1>14, <1>27, <1>31, <3>1, <4>1
      <3>6. CASE m # new /\ ~ (m = join /\ t = other) /\ Child(s, m, t) # n
        <4>1. k = Child(s, m, t) /\ k # Null
          BY <1>26, <2>1, <3>1, <3>6
        <4>2. k \in own /\ k \in own2
          BY <1>5, <1>24, <3>2, <3>6, <4>1
        <4>3. s[k].parent \in {m, Gone}
          BY <1>6, <3>2, <4>1
        <4>4. k # left /\ k # right
          <5>1. "left" \in Sides /\ "right" \in Sides
            BY DEF Sides
          <5> QED
            BY <1>6, <1>7, <1>10, <3>2, <4>1, <5>1
        <4>5. k # new
          BY <1>6, <1>8, <1>15, <3>2, <3>6, <4>1
        <4>6. k # orphan
          BY <1>3, <1>6, <1>13, <3>2, <3>6, <4>1
        <4>7. r[k].parent = After(n, s[k].parent)
          BY <1>27, <4>2, <4>4, <4>5, <4>6
        <4> QED
          BY <3>1, <3>2, <4>3, <4>7 DEF After
      <3> QED
        BY <3>3, <3>4, <3>5, <3>6
    <2>2. ASSUME NEW m \in own2
          PROVE  r[m].parent = Null <=> m = root2
      <3>1. m \in own /\ m # n
        BY <1>24
      <3>2. s[m].parent = Null <=> m = root
        BY <1>6, <3>1
      <3>3. ASSUME NEW x \in own, NEW t \in Sides, Child(s, x, t) = m
            PROVE  m # root
        BY <1>4, <1>6, <1>7, <3>1, <3>2, <3>3
      <3>4. "left" \in Sides /\ "right" \in Sides
        BY DEF Sides
      <3>5. CASE m = left \/ m = right
        <4>1. m # root
          BY <1>7, <1>10, <3>3, <3>4, <3>5
        <4>2. r[m].parent # Null
          BY <1>4, <1>13, <1>27, <3>5
        <4> QED
          BY <1>14, <1>30, <3>5, <4>1, <4>2
      <3>6. CASE m = new
        <4>1. r[m].parent = p
          BY <1>14, <1>27, <3>6
        <4>2. m # root
          BY <1>8, <1>15, <3>3, <3>6
        <4> QED
          BY <1>30, <3>6, <4>1, <4>2
      <3>7. CASE m = orphan
        <4>1. r[m].parent # Null
          BY <1>4, <1>15, <1>17, <1>27, <3>7
        <4>2. m # root
          BY <1>3, <1>13, <3>3, <3>7
        <4> QED
          BY <1>17, <1>30, <3>7, <4>1, <4>2
      <3>8. CASE m \notin {left, right, new, orphan}
        <4>1. r[m].parent = After(n, s[m].parent)
          BY <1>27, <3>8
        <4>2. r[m].parent = Null <=> s[m].parent = Null
          BY <1>7, <4>1 DEF After
        <4> QED
          BY <1>30, <3>1, <3>2, <3>8, <4>2
      <3> QED
        BY <3>5, <3>6, <3>7, <3>8
    <2> QED
      BY <1>28, <2>1, <2>2 DEF SymbolsLinked
  <1>35. \E E : TreeOf(next, E)
    <2>1. \E E : Shaped(own \ {n}, KidsSwapped(own, kid, n, new, join, side),
                        IF n = root THEN new ELSE root, E)
      <3>1. Shaped(own, kid, root, D) /\ n \in own
        BY <1>4, <1>7
      <3> QED
        BY <1>18, <3>1, ShapeSwapped
    <2>2. Kids(r) = KidsSwapped(own, kid, n, new, join, side)
      <3>1. Kids(r) = [m \in own \ {n} |-> [t \in Sides |-> Child(r, m, t)]]
        BY <1>24, <1>28 DEF Kids
      <3>2. \A m \in own \ {n}, t \in Sides :
              Child(r, m, t) = IF m = new THEN kid[n][t]
                               ELSE IF m = join /\ t = Other(side) THEN kid[new][side]
                               ELSE IF kid[m][t] = n THEN new ELSE kid[m][t]
        BY <1>3, <1>5, <1>7, <1>16, <1>24, <1>26
      <3> QED
        BY <3>1, <3>2 DEF KidsSwapped
    <2> QED
      BY <1>24, <1>28, <1>30, <2>1, <2>2 DEF TreeOf
  <1>36. Sound(next)
    BY <1>30, <1>34, <1>35 DEF Sound
  <1>37. Loses(table, n, next)
    <2>1. DOMAIN next.symbols = DOMAIN table.symbols \ {n}
      BY <1>2, <1>24, <1>28, <1>30
    <2>2. \A m \in DOMAIN next.symbols : next.symbols[m].object = table.symbols[m].object
      BY <1>2, <1>27, <1>28, <1>30
    <2> QED
      BY <1>33, <1>36, <2>1, <2>2 DEF Loses
  <1> QED
    BY <1>2, <1>3, <1>37

(* The symbols of a chain of scopes, and those that stand for an object    *)
SymbolsIn(ts) ==
  {p \in (1 .. Len(ts)) \X (Identifiers \cup {0}) : p[2] \in DOMAIN ts[p[1]].symbols}

HoldersIn(ts, o) == {p \in SymbolsIn(ts) : ts[p[1]].symbols[p[2]].object = o}

(* A chain of sound tables, and references counted rightly                 *)
Chain(ts) ==
  /\ ts \in Seq(SymbolTables)
  /\ \A k \in 1 .. Len(ts) : Sound(ts[k])
  /\ IsFiniteSet(SymbolsIn(ts))

Exact(ts, counts) ==
  /\ counts \in [Objects -> Nat]
  /\ \A o \in Objects : counts[o] = Cardinality(HoldersIn(ts, o))

(* The innermost table of a chain becomes another.                         *)
Becomes(ts, k, new, ts2) ==
  /\ ts2 \in Seq(SymbolTables) /\ Len(ts2) = Len(ts) /\ ts2[k] = new
  /\ \A j \in 1 .. Len(ts) : j # k => ts2[j] = ts[j]

(* An assignment to the innermost table is such a change.                  *)
LEMMA BecomesBy ==
  ASSUME NEW ts \in Seq(SymbolTables), NEW k \in 1 .. Len(ts), NEW new \in SymbolTables
  PROVE  Becomes(ts, k, new, [ts EXCEPT ![k] = new])
  BY DEF Becomes

(* A sound chain has finitely many symbols that stand for an object.       *)
LEMMA SymbolsFinite ==
  ASSUME NEW ts, Chain(ts), NEW o
  PROVE  IsFiniteSet(HoldersIn(ts, o)) /\ Cardinality(HoldersIn(ts, o)) \in Nat
  <1>1. IsFiniteSet(SymbolsIn(ts)) /\ HoldersIn(ts, o) \in SUBSET SymbolsIn(ts)
    BY DEF Chain, HoldersIn
  <1> QED
    BY <1>1, FS_Subset, FS_CardinalityType

(* A chain is one still when the innermost table gains a symbol, and that  *)
(* one is the only new holder of its object.                               *)
LEMMA ChainGains ==
  ASSUME NEW ts, Chain(ts), NEW k \in 1 .. Len(ts), NEW id \in Identifiers \cup {0},
         id \notin DOMAIN ts[k].symbols, NEW object, NEW new, Gains(ts[k], id, object, new),
         NEW ts2, Becomes(ts, k, new, ts2)
  PROVE  /\ Chain(ts2)
         /\ \A o : HoldersIn(ts2, o) = IF o = object THEN HoldersIn(ts, o) \cup {<<k, id>>}
                                       ELSE HoldersIn(ts, o)
         /\ \A o : <<k, id>> \notin HoldersIn(ts, o)
  <1>1. PICK all : all = (1 .. Len(ts)) \X (Identifiers \cup {0})
    OBVIOUS
  <1>2. <<k, id>> \in all
    BY <1>1
  <1>3. /\ ts2[k] = new /\ Len(ts2) = Len(ts) /\ ts2 \in Seq(SymbolTables)
        /\ \A j \in 1 .. Len(ts) : j # k => ts2[j] = ts[j]
        /\ DOMAIN new.symbols = DOMAIN ts[k].symbols \cup {id} /\ Sound(new)
        /\ new.symbols[id].object = object
        /\ \A m \in DOMAIN ts[k].symbols : new.symbols[m].object = ts[k].symbols[m].object
    BY DEF Becomes, Gains
  <1>4. ASSUME NEW p \in all
        PROVE  /\ p \in SymbolsIn(ts2) <=> p \in SymbolsIn(ts) \/ p = <<k, id>>
               /\ p \in SymbolsIn(ts) => ts2[p[1]].symbols[p[2]].object = ts[p[1]].symbols[p[2]].object
               /\ p = <<k, id>> => ts2[p[1]].symbols[p[2]].object = object
    <2>1. PICK j, i : p = <<j, i>> /\ j \in 1 .. Len(ts) /\ i \in Identifiers \cup {0}
                      /\ p[1] = j /\ p[2] = i
      BY <1>1
    <2>2. /\ p \in SymbolsIn(ts) <=> i \in DOMAIN ts[j].symbols
          /\ p \in SymbolsIn(ts2) <=> i \in DOMAIN ts2[j].symbols
      BY <1>1, <1>3, <2>1 DEF SymbolsIn
    <2>3. p = <<k, id>> <=> j = k /\ i = id
      BY <2>1
    <2>4. CASE j = k
      <3>1. ts2[j] = new
        BY <1>3, <2>4
      <3> QED
        BY <1>3, <2>1, <2>2, <2>3, <2>4, <3>1
    <2>5. CASE j # k
      <3>1. ts2[j] = ts[j]
        BY <1>3, <2>1, <2>5
      <3> QED
        BY <2>1, <2>2, <2>3, <2>5, <3>1
    <2> QED
      BY <2>4, <2>5
  <1>5. SymbolsIn(ts) \subseteq all /\ SymbolsIn(ts2) \subseteq all
    BY <1>1, <1>3 DEF SymbolsIn
  <1>6. SymbolsIn(ts2) = SymbolsIn(ts) \cup {<<k, id>>}
    BY <1>2, <1>4, <1>5
  <1>7. <<k, id>> \notin SymbolsIn(ts)
    BY DEF SymbolsIn
  <1>8. \A o : HoldersIn(ts2, o) = IF o = object THEN HoldersIn(ts, o) \cup {<<k, id>>}
                                   ELSE HoldersIn(ts, o)
    <2> TAKE o
    <2>1. \A p \in all : p \in HoldersIn(ts2, o) <=> p \in HoldersIn(ts, o) \/ (p = <<k, id>> /\ o = object)
      <3> SUFFICES ASSUME NEW p \in all
                   PROVE  p \in HoldersIn(ts2, o) <=> p \in HoldersIn(ts, o) \/ (p = <<k, id>> /\ o = object)
        OBVIOUS
      <3>1. /\ p \in HoldersIn(ts2, o) <=> p \in SymbolsIn(ts2) /\ ts2[p[1]].symbols[p[2]].object = o
            /\ p \in HoldersIn(ts, o) <=> p \in SymbolsIn(ts) /\ ts[p[1]].symbols[p[2]].object = o
        BY DEF HoldersIn
      <3> QED
        BY <1>4, <1>7, <3>1
    <2>2. HoldersIn(ts, o) \subseteq all /\ HoldersIn(ts2, o) \subseteq all
      BY <1>5 DEF HoldersIn
    <2> QED
      BY <1>2, <2>1, <2>2
  <1>9. Chain(ts2)
    <2>1. IsFiniteSet(SymbolsIn(ts2))
      BY <1>6, FS_AddElement DEF Chain
    <2>2. ASSUME NEW j \in 1 .. Len(ts2)
          PROVE  Sound(ts2[j])
      <3>1. CASE j = k
        BY <1>3, <3>1
      <3>2. CASE j # k
        BY <1>3, <3>2 DEF Chain
      <3> QED
        BY <3>1, <3>2
    <2> QED
      BY <1>3, <2>1, <2>2 DEF Chain
  <1>10. \A o : <<k, id>> \notin HoldersIn(ts, o)
    BY <1>7 DEF HoldersIn
  <1> QED
    BY <1>8, <1>9, <1>10

(* p is not a holder any more.                                             *)
HoldersLose(ts, p, object, ts2) ==
  /\ p \in HoldersIn(ts, object)
  /\ \A o : HoldersIn(ts2, o) = IF o = object THEN HoldersIn(ts, o) \ {p} ELSE HoldersIn(ts, o)

(* A chain is one still when the innermost table loses a symbol, and that  *)
(* one alone no longer holds its object.                                   *)
LEMMA ChainLoses ==
  ASSUME NEW ts, Chain(ts), NEW k \in 1 .. Len(ts), NEW id \in DOMAIN ts[k].symbols,
         NEW new, Loses(ts[k], id, new), NEW ts2, Becomes(ts, k, new, ts2)
  PROVE  Chain(ts2) /\ HoldersLose(ts, <<k, id>>, ts[k].symbols[id].object, ts2)
  <1>1. PICK all, object : /\ all = (1 .. Len(ts)) \X (Identifiers \cup {0})
                           /\ object = ts[k].symbols[id].object
    OBVIOUS
  <1>2. id \in Identifiers \cup {0} /\ <<k, id>> \in all
    <2>1. ts[k] \in SymbolTables
      BY DEF Chain
    <2>2. id \in Identifiers \cup {0}
      BY <2>1, TableFacts
    <2> QED
      BY <1>1, <2>2
  <1>3. /\ ts2[k] = new /\ Len(ts2) = Len(ts) /\ ts2 \in Seq(SymbolTables)
        /\ \A j \in 1 .. Len(ts) : j # k => ts2[j] = ts[j]
        /\ DOMAIN new.symbols = DOMAIN ts[k].symbols \ {id} /\ Sound(new)
        /\ \A m \in DOMAIN new.symbols : new.symbols[m].object = ts[k].symbols[m].object
    BY DEF Becomes, Loses
  <1>4. ASSUME NEW p \in all
        PROVE  /\ p \in SymbolsIn(ts2) <=> p \in SymbolsIn(ts) /\ p # <<k, id>>
               /\ p \in SymbolsIn(ts2) => ts2[p[1]].symbols[p[2]].object = ts[p[1]].symbols[p[2]].object
               /\ p = <<k, id>> => p \in SymbolsIn(ts) /\ ts[p[1]].symbols[p[2]].object = object
    <2>1. PICK j, i : p = <<j, i>> /\ j \in 1 .. Len(ts) /\ i \in Identifiers \cup {0}
                      /\ p[1] = j /\ p[2] = i
      BY <1>1
    <2>2. /\ p \in SymbolsIn(ts) <=> i \in DOMAIN ts[j].symbols
          /\ p \in SymbolsIn(ts2) <=> i \in DOMAIN ts2[j].symbols
      BY <1>1, <1>3, <2>1 DEF SymbolsIn
    <2>3. p = <<k, id>> <=> j = k /\ i = id
      BY <2>1
    <2>4. CASE j = k
      <3>1. ts2[j] = new
        BY <1>3, <2>4
      <3> QED
        BY <1>1, <1>3, <2>1, <2>2, <2>3, <2>4, <3>1
    <2>5. CASE j # k
      <3>1. ts2[j] = ts[j]
        BY <1>3, <2>1, <2>5
      <3> QED
        BY <2>1, <2>2, <2>3, <2>5, <3>1
    <2> QED
      BY <2>4, <2>5
  <1>5. SymbolsIn(ts) \subseteq all /\ SymbolsIn(ts2) \subseteq all
    BY <1>1, <1>3 DEF SymbolsIn
  <1>6. SymbolsIn(ts2) = SymbolsIn(ts) \ {<<k, id>>}
    BY <1>2, <1>4, <1>5
  <1>7. <<k, id>> \in HoldersIn(ts, object)
    BY <1>2, <1>4 DEF HoldersIn
  <1>8. \A o : HoldersIn(ts2, o) = IF o = object THEN HoldersIn(ts, o) \ {<<k, id>>}
                                   ELSE HoldersIn(ts, o)
    <2> TAKE o
    <2>1. \A p \in all : p \in HoldersIn(ts2, o) <=> p \in HoldersIn(ts, o) /\ ~ (p = <<k, id>> /\ o = object)
      <3> SUFFICES ASSUME NEW p \in all
                   PROVE  p \in HoldersIn(ts2, o) <=> p \in HoldersIn(ts, o) /\ ~ (p = <<k, id>> /\ o = object)
        OBVIOUS
      <3>1. /\ p \in HoldersIn(ts2, o) <=> p \in SymbolsIn(ts2) /\ ts2[p[1]].symbols[p[2]].object = o
            /\ p \in HoldersIn(ts, o) <=> p \in SymbolsIn(ts) /\ ts[p[1]].symbols[p[2]].object = o
        BY DEF HoldersIn
      <3> QED
        BY <1>4, <3>1
    <2>2. HoldersIn(ts, o) \subseteq all /\ HoldersIn(ts2, o) \subseteq all
      BY <1>5 DEF HoldersIn
    <2> QED
      BY <1>2, <2>1, <2>2
  <1>9. Chain(ts2)
    <2>1. IsFiniteSet(SymbolsIn(ts2))
      <3>1. IsFiniteSet(SymbolsIn(ts)) /\ SymbolsIn(ts2) \in SUBSET SymbolsIn(ts)
        BY <1>6 DEF Chain
      <3> QED
        BY <3>1, FS_Subset
    <2>2. ASSUME NEW j \in 1 .. Len(ts2)
          PROVE  Sound(ts2[j])
      <3>1. CASE j = k
        BY <1>3, <3>1
      <3>2. CASE j # k
        BY <1>3, <3>2 DEF Chain
      <3> QED
        BY <3>1, <3>2
    <2> QED
      BY <1>3, <2>1, <2>2 DEF Chain
  <1>10. HoldersLose(ts, <<k, id>>, object, ts2)
    BY <1>7, <1>8 DEF HoldersLose
  <1> QED
    BY <1>1, <1>9, <1>10

(* References follow the symbols.                                          *)
LEMMA ExactGains ==
  ASSUME NEW ts, Chain(ts), NEW counts, Exact(ts, counts), NEW p, NEW object \in Objects \cup {Function},
         NEW ts2, \A o : p \notin HoldersIn(ts, o),
         \A o : HoldersIn(ts2, o) = IF o = object THEN HoldersIn(ts, o) \cup {p} ELSE HoldersIn(ts, o),
         NEW counts2,
         counts2 = IF object = Function THEN counts ELSE [counts EXCEPT ![object] = @ + 1]
  PROVE  Exact(ts2, counts2)
  <1>1. Function \notin Objects
    BY DEF Function, Objects
  <1>2. counts \in [Objects -> Nat] /\ \A o \in Objects : counts[o] = Cardinality(HoldersIn(ts, o))
    BY DEF Exact
  <1>3. /\ counts2 \in [Objects -> Nat]
        /\ \A o \in Objects : counts2[o] = IF o = object THEN counts[o] + 1 ELSE counts[o]
    <2>1. CASE object = Function
      BY <1>1, <1>2, <2>1
    <2>2. CASE object # Function
      BY <1>2, <2>2
    <2> QED
      BY <2>1, <2>2
  <1>4. ASSUME NEW o \in Objects
        PROVE  counts2[o] = Cardinality(HoldersIn(ts2, o))
    <2>1. CASE o = object
      <3>1. IsFiniteSet(HoldersIn(ts, o)) /\ p \notin HoldersIn(ts, o)
        BY SymbolsFinite
      <3>2. Cardinality(HoldersIn(ts, o) \cup {p}) = Cardinality(HoldersIn(ts, o)) + 1
        BY <3>1, FS_AddElement
      <3> QED
        BY <1>2, <1>3, <2>1, <3>2
    <2>2. CASE o # object
      BY <1>2, <1>3, <2>2
    <2> QED
      BY <2>1, <2>2
  <1> QED
    BY <1>3, <1>4 DEF Exact

(* The references stay exact when a symbol is lost that gives one back.    *)
LEMMA ExactLoses ==
  ASSUME NEW ts, Chain(ts), NEW counts, Exact(ts, counts), NEW p, NEW object \in Objects \cup {Function},
         NEW ts2, HoldersLose(ts, p, object, ts2),
         NEW counts2,
         counts2 = IF object = Function THEN counts ELSE [counts EXCEPT ![object] = @ - 1]
  PROVE  Exact(ts2, counts2)
  <1>1. Function \notin Objects
    BY DEF Function, Objects
  <1>2. counts \in [Objects -> Nat] /\ \A o \in Objects : counts[o] = Cardinality(HoldersIn(ts, o))
    BY DEF Exact
  <1>3. \A o \in Objects : counts2[o] = IF o = object THEN counts[o] - 1 ELSE counts[o]
    <2>1. CASE object = Function
      BY <1>1, <1>2, <2>1
    <2>2. CASE object # Function
      BY <1>2, <2>2
    <2> QED
      BY <2>1, <2>2
  <1>4. ASSUME NEW o \in Objects
        PROVE  counts2[o] = Cardinality(HoldersIn(ts2, o)) /\ counts2[o] \in Nat
    <2>1. IsFiniteSet(HoldersIn(ts, o)) /\ Cardinality(HoldersIn(ts, o)) \in Nat
      BY SymbolsFinite
    <2>2. CASE o = object
      <3>1. Cardinality(HoldersIn(ts, o) \ {p}) = Cardinality(HoldersIn(ts, o)) - 1
        BY <2>1, <2>2, FS_RemoveElement DEF HoldersLose
      <3>2. IsFiniteSet(HoldersIn(ts, o) \ {p})
        BY <2>1, FS_RemoveElement
      <3>3. Cardinality(HoldersIn(ts, o) \ {p}) \in Nat
        BY <3>2, FS_CardinalityType
      <3> QED
        BY <1>2, <1>3, <2>2, <3>1, <3>3 DEF HoldersLose
    <2>3. CASE o # object
      BY <1>2, <1>3, <2>1, <2>3 DEF HoldersLose
    <2> QED
      BY <2>2, <2>3
  <1>5. counts2 \in [Objects -> Nat]
    <2>1. counts2 = [o \in Objects |-> counts2[o]]
      BY <1>2
    <2> QED
      BY <1>4, <2>1
  <1> QED
    BY <1>4, <1>5 DEF Exact

(* A set of symbols of one scope, each with its scope, has as many.        *)
LEMMA PairsCount ==
  ASSUME NEW S, IsFiniteSet(S), NEW k
  PROVE  Cardinality({k} \X S) = Cardinality(S)
  <1>1. PICK f : f = [x \in S |-> <<k, x>>]
    OBVIOUS
  <1>2. f \in Bijection(S, {k} \X S)
    <2>1. \A x \in S : f[x] \in {k} \X S
      BY <1>1
    <2>2. f \in [S -> {k} \X S]
      BY <1>1, <2>1
    <2>3. \A a, b \in S : f[a] = f[b] => a = b
      BY <1>1
    <2>4. \A y \in {k} \X S : \E x \in S : f[x] = y
      <3> SUFFICES ASSUME NEW y \in {k} \X S
                   PROVE  \E x \in S : f[x] = y
        OBVIOUS
      <3>1. PICK x \in S : y = <<k, x>>
        OBVIOUS
      <3> QED
        BY <1>1, <3>1
    <2>5. f \in Injection(S, {k} \X S)
      BY <2>2, <2>3 DEF Injection, IsInjective
    <2>6. f \in Surjection(S, {k} \X S)
      BY <2>2, <2>4 DEF Surjection
    <2> QED
      BY <2>5, <2>6 DEF Bijection
  <1>3. ExistsBijection(S, {k} \X S)
    BY <1>2 DEF ExistsBijection
  <1> QED
    BY <1>3, FS_Bijection

(* The innermost scope ends.                                               *)
LEMMA ChainCloses ==
  ASSUME NEW ts, Chain(ts), Len(ts) > 0, NEW counts, Exact(ts, counts),
         NEW ts2, ts2 = SubSeq(ts, 1, Len(ts) - 1),
         NEW counts2,
         counts2 = [o \in Objects |->
                      counts[o] - Cardinality({n \in DOMAIN ts[Len(ts)].symbols :
                                                 ts[Len(ts)].symbols[n].object = o})]
  PROVE  Chain(ts2) /\ Exact(ts2, counts2)
  <1>1. PICK k : k = Len(ts)
    OBVIOUS
  <1>2. ts \in Seq(SymbolTables) /\ k \in Nat /\ k > 0 /\ k - 1 \in 0 .. k
    BY <1>1 DEF Chain
  <1>3. ts2 \in Seq(SymbolTables) /\ Len(ts2) = k - 1 /\ \A j \in 1 .. k - 1 : ts2[j] = ts[j]
    BY <1>1, <1>2, SubSeqProperties
  <1>4. PICK all : all = (1 .. k) \X (Identifiers \cup {0})
    OBVIOUS
  <1>5. ASSUME NEW p \in all
        PROVE  /\ p \in SymbolsIn(ts2) <=> p \in SymbolsIn(ts) /\ p[1] # k
               /\ p[1] # k => ts2[p[1]] = ts[p[1]]
    <2>1. PICK j, i : p = <<j, i>> /\ j \in 1 .. k /\ i \in Identifiers \cup {0}
                      /\ p[1] = j /\ p[2] = i
      BY <1>4
    <2>2. p \in SymbolsIn(ts) <=> i \in DOMAIN ts[j].symbols
      BY <1>1, <2>1 DEF SymbolsIn
    <2>3. p \in SymbolsIn(ts2) <=> j \in 1 .. k - 1 /\ i \in DOMAIN ts2[j].symbols
      BY <1>3, <2>1 DEF SymbolsIn
    <2>4. j \in 1 .. k - 1 <=> j # k
      BY <1>2, <2>1
    <2> QED
      BY <1>3, <2>1, <2>2, <2>3, <2>4
  <1>6. SymbolsIn(ts) \subseteq all /\ SymbolsIn(ts2) \subseteq all
    <2>1. 1 .. k - 1 \subseteq 1 .. k
      BY <1>2
    <2>2. SymbolsIn(ts) \subseteq all
      BY <1>1, <1>4 DEF SymbolsIn
    <2>3. SymbolsIn(ts2) \subseteq (1 .. k - 1) \X (Identifiers \cup {0})
      BY <1>3 DEF SymbolsIn
    <2> QED
      BY <1>4, <2>1, <2>2, <2>3
  <1>7. SymbolsIn(ts2) \subseteq SymbolsIn(ts)
    BY <1>5, <1>6
  <1>8. Chain(ts2)
    <2>1. IsFiniteSet(SymbolsIn(ts2))
      BY <1>7, FS_Subset DEF Chain
    <2>2. \A j \in 1 .. Len(ts2) : Sound(ts2[j])
      BY <1>1, <1>2, <1>3 DEF Chain
    <2> QED
      BY <1>3, <2>1, <2>2 DEF Chain
  <1>9. ASSUME NEW o \in Objects
        PROVE  counts2[o] = Cardinality(HoldersIn(ts2, o)) /\ counts2[o] \in Nat
    <2>1. PICK S, H, H2 : /\ S = {n \in DOMAIN ts[k].symbols : ts[k].symbols[n].object = o}
                          /\ H = HoldersIn(ts, o) /\ H2 = HoldersIn(ts2, o)
      OBVIOUS
    <2>2. ts[k] \in SymbolTables /\ Sound(ts[k])
      BY <1>1, <1>2 DEF Chain
    <2>3. S \subseteq Identifiers \cup {0}
      BY <2>1, <2>2, TableFacts
    <2>4. IsFiniteSet(S)
      <3>1. PICK D : TreeOf(ts[k], D)
        BY <2>2, SMTT(30) DEF Sound
      <3>2. IsFiniteSet(DOMAIN ts[k].symbols)
        BY <3>1 DEF TreeOf, Shaped
      <3>3. S \subseteq DOMAIN ts[k].symbols
        BY <2>1
      <3> QED
        BY <3>2, <3>3, FS_Subset
    <2>5. H \subseteq all /\ H2 \subseteq all /\ {k} \X S \subseteq all
      BY <1>2, <1>4, <1>6, <2>1, <2>3 DEF HoldersIn
    <2>6. ASSUME NEW p \in all
          PROVE  /\ p \in H2 <=> p \in H /\ p[1] # k
                 /\ p \in {k} \X S <=> p \in H /\ p[1] = k
      <3>1. PICK j, i : p = <<j, i>> /\ j \in 1 .. k /\ i \in Identifiers \cup {0}
                        /\ p[1] = j /\ p[2] = i
        BY <1>4
      <3>2. p \in SymbolsIn(ts) <=> i \in DOMAIN ts[j].symbols
        BY <1>1, <3>1 DEF SymbolsIn
      <3>3. p \in H <=> i \in DOMAIN ts[j].symbols /\ ts[j].symbols[i].object = o
        BY <2>1, <3>1, <3>2, SMTT(30) DEF HoldersIn
      <3>4. p \in H2 <=> p \in SymbolsIn(ts2) /\ ts2[j].symbols[i].object = o
        BY <2>1, <3>1 DEF HoldersIn
      <3>5. /\ p \in SymbolsIn(ts2) <=> p \in SymbolsIn(ts) /\ j # k
            /\ j # k => ts2[j] = ts[j]
        BY <1>5, <3>1
      <3>6. p \in {k} \X S <=> j = k /\ i \in S
        BY <3>1
      <3>7. p \in H2 <=> p \in H /\ j # k
        BY <3>2, <3>3, <3>4, <3>5
      <3>8. p \in {k} \X S <=> p \in H /\ j = k
        BY <2>1, <3>3, <3>6
      <3> QED
        BY <3>1, <3>7, <3>8
    <2>7. PICK P : P = {k} \X S
      OBVIOUS
    <2>8. H2 = H \ P /\ P \subseteq H
      BY <2>5, <2>6, <2>7
    <2>9. IsFiniteSet(H) /\ IsFiniteSet(P) /\ IsFiniteSet(H2)
      <3>1. IsFiniteSet(H)
        BY <2>1, SymbolsFinite
      <3> QED
        BY <2>8, <3>1, FS_Subset
    <2>10. Cardinality(H2) = Cardinality(H) - Cardinality(P)
      <3>1. H2 = H \ P /\ H \cap P = P
        BY <2>8
      <3>2. Cardinality(H \ P) = Cardinality(H) - Cardinality(H \cap P)
        BY <2>9, FS_Difference
      <3> QED
        BY <3>1, <3>2
    <2>11. Cardinality(P) = Cardinality(S)
      BY <2>4, <2>7, PairsCount
    <2>12. counts2[o] = counts[o] - Cardinality(S)
      BY <1>1, <2>1
    <2>13. counts[o] = Cardinality(H)
      BY <2>1 DEF Exact
    <2>14. Cardinality(H2) \in Nat
      BY <2>9, FS_CardinalityType
    <2> QED
      BY <2>1, <2>10, <2>11, <2>12, <2>13, <2>14
  <1>10. counts2 \in [Objects -> Nat]
    BY <1>9
  <1> QED
    BY <1>8, <1>9, <1>10 DEF Exact

(* The inductive invariant of the symbol tables                            *)
SymbolInv ==
  /\ Chain(trees) /\ Exact(trees, references)
  /\ result \in Objects \cup {Function, 0}
  /\ status \in {"ok", "wild", "cyclic"}

-----------------------------------------------------------------------------
(* What it says of what the actions read                                   *)

(* symboltable_init makes a sound table.                                   *)
LEMMA EmptyTableSound ==
  EmptyTable \in SymbolTables /\ Sound(EmptyTable) /\ DOMAIN EmptyTable.symbols = {}
  /\ EmptyTable.root = Null
  <1>1. PICK s : s = [i \in {} |-> 0]
    OBVIOUS
  <1>2. s \in Symbols({}) /\ DOMAIN s = {}
    BY <1>1 DEF Symbols
  <1>3. << >> = s
    BY <1>1
  <1>4. EmptyTable = [root |-> Null, symbols |-> s]
    BY <1>3 DEF EmptyTable
  <1>5. EmptyTable.symbols = s /\ EmptyTable.root = Null
    BY <1>4
  <1>6. EmptyTable \in SymbolTables
    BY <1>2, <1>4, TableBy
  <1>7. SymbolsLinked(s, Null)
    BY <1>2 DEF SymbolsLinked
  <1>8. PICK E : E = [m \in {Null} |-> {}]
    OBVIOUS
  <1>9. Rooted({}, Kids(s), Null, E)
    <2>1. Kids(s) = [n \in {} |-> [side \in Sides |-> Child(s, n, side)]]
      BY <1>2 DEF Kids
    <2>2. Kids(s) \in [{} -> [Sides -> {} \cup {Null}]]
      BY <2>1
    <2>3. E \in [{} \cup {Null} -> SUBSET {}] /\ E[Null] = {}
      BY <1>8
    <2>4. IsFiniteSet({})
      BY FS_EmptySet
    <2> QED
      BY <2>2, <2>3, <2>4 DEF Rooted
  <1>10. Shaped({}, Kids(s), Null, E)
    BY <1>9, ShapedBy
  <1>11. Sound(EmptyTable)
    BY <1>2, <1>5, <1>7, <1>10 DEF Sound, TreeOf
  <1> QED
    BY <1>2, <1>5, <1>6, <1>11

(* Of some scopes one is the innermost.                                    *)
LEMMA InnerIs ==
  ASSUME NEW n \in Nat, NEW ks \in SUBSET (1 .. n), ks # {}
  PROVE  Inner(ks) \in ks /\ \A j \in ks : j <= Inner(ks)
  <1>1. PICK T : T = {n - j : j \in ks}
    OBVIOUS
  <1>2. T \subseteq Nat /\ T # {}
    <2>1. \A j \in ks : j \in 1 .. n /\ n - j \in Nat
      OBVIOUS
    <2> QED
      BY <1>1, <2>1
  <1>3. PICK m \in T : \A i \in T : m <= i
    BY <1>2, LeastNumber
  <1>4. PICK k \in ks : m = n - k
    BY <1>1, <1>3
  <1>5. \A j \in ks : j <= k
    BY <1>1, <1>3, <1>4
  <1>6. \E i \in ks : \A j \in ks : j <= i
    BY <1>5
  <1> QED
    BY <1>6 DEF Inner

(* The scopes that know an identifier                                      *)
KnownIn(ts, k, id) == {j \in 1 .. k : id \in DOMAIN ts[j].symbols}

(* symbol_lookup finds what the innermost scope that knows the identifier  *)
(* says it stands for, if there is one.                                    *)
LEMMA LookupIs ==
  ASSUME Chain(trees), NEW k \in 0 .. Len(trees), NEW id \in Identifiers
  PROVE  /\ KnownIn(trees, k, id) = {} => Lookup(k, id) = 0
         /\ KnownIn(trees, k, id) # {} =>
              /\ Inner(KnownIn(trees, k, id)) \in KnownIn(trees, k, id)
              /\ Lookup(k, id) = trees[Inner(KnownIn(trees, k, id))].symbols[id].object
              /\ Lookup(k, id) \in Objects \cup {Function}
  <1>1. trees \in Seq(SymbolTables) /\ Len(trees) \in Nat /\ id \in Nat
    BY SymbolTableAssumption DEF Chain
  <1>2. \A j \in 1 .. k : Found(trees[j], id) <=> id \in DOMAIN trees[j].symbols
    <2> SUFFICES ASSUME NEW j \in 1 .. k
                 PROVE  Found(trees[j], id) <=> id \in DOMAIN trees[j].symbols
      OBVIOUS
    <2>1. j \in 1 .. Len(trees)
      BY <1>1
    <2>2. trees[j] \in SymbolTables /\ Sound(trees[j])
      BY <1>1, <2>1 DEF Chain
    <2> QED
      BY <1>1, <2>2, FoundIs
  <1>3. PICK ks : ks = KnownIn(trees, k, id)
    OBVIOUS
  <1>4. ks = {j \in 1 .. k : Found(trees[j], id)}
    BY <1>2, <1>3 DEF KnownIn
  <1>5. Lookup(k, id) = IF ks = {} THEN 0 ELSE trees[Inner(ks)].symbols[id].object
    BY <1>4 DEF Lookup, Object
  <1>6. ASSUME ks # {}
        PROVE  /\ Inner(ks) \in ks
               /\ trees[Inner(ks)].symbols[id].object \in Objects \cup {Function}
    <2>1. Inner(ks) \in ks
      <3>1. k \in Nat /\ ks \in SUBSET (1 .. k)
        BY <1>1, <1>4
      <3> QED
        BY <1>6, <3>1, InnerIs
    <2>2. PICK j \in 1 .. Len(trees) : j = Inner(ks) /\ id \in DOMAIN trees[j].symbols
      <3>1. Inner(ks) \in 1 .. k /\ id \in DOMAIN trees[Inner(ks)].symbols
        BY <1>3, <2>1 DEF KnownIn
      <3>2. 1 .. k \subseteq 1 .. Len(trees)
        BY <1>1
      <3> QED
        BY <3>1, <3>2
    <2>3. PICK s, own : s = trees[j].symbols /\ own = DOMAIN s
      OBVIOUS
    <2>4. trees[j] \in SymbolTables
      BY <1>1
    <2>5. s \in Symbols(own) /\ own \subseteq Nat
      BY <2>3, <2>4, TableFacts, Keys
    <2>6. s[id].object \in Objects \cup {Function}
      BY <2>2, <2>3, <2>5, SymbolsAreRecords
    <2> QED
      BY <2>1, <2>2, <2>3, <2>6
  <1> QED
    BY <1>3, <1>5, <1>6

(* The symbols and holders of the state are those of its chain.            *)
LEMMA StateSame ==
  AllSymbols = SymbolsIn(trees) /\ \A o : Holders(o) = HoldersIn(trees, o)
  BY DEF AllSymbols, SymbolsIn, Holders, HoldersIn, Innermost, Object

-----------------------------------------------------------------------------
(* The steps                                                               *)

(* The invariant holds at the start.                                       *)
LEMMA SymbolInitInv == SymbolInit => SymbolInv
  <1> SUFFICES ASSUME SymbolInit
               PROVE  SymbolInv
    OBVIOUS
  <1>1. trees \in Seq(SymbolTables) /\ Len(trees) = 0
    BY DEF SymbolInit
  <1>2. SymbolsIn(trees) = {}
    BY <1>1 DEF SymbolsIn
  <1>3. Chain(trees)
    BY <1>1, <1>2, FS_EmptySet DEF Chain
  <1>4. \A o : HoldersIn(trees, o) = {}
    BY <1>2 DEF HoldersIn
  <1>5. references = [o \in Objects |-> 0]
    BY DEF SymbolInit
  <1>6. Exact(trees, references)
    BY <1>4, <1>5, FS_EmptySet DEF Exact
  <1>7. result = 0 /\ status = "ok"
    BY DEF SymbolInit
  <1> QED
    BY <1>3, <1>6, <1>7 DEF SymbolInv

(* What a definition does if it is not refused, and what a removal does if *)
(* it does not break the tree.                                             *)
Entered(id, object) ==
  /\ trees # << >>
  /\ id \notin DOMAIN trees[Len(trees)].symbols
  /\ \E new : /\ Gains(trees[Len(trees)], id, object, new)
              /\ trees' = [trees EXCEPT ![Len(trees)] = new]
  /\ references' = Taken(object) /\ result' = object

Removed(id) ==
  /\ trees # << >>
  /\ id \in DOMAIN trees[Len(trees)].symbols
  /\ \E new : /\ Loses(trees[Len(trees)], id, new)
              /\ trees' = [trees EXCEPT ![Len(trees)] = new]
  /\ references' = GivenBack(trees[Len(trees)].symbols[id].object)
  /\ UNCHANGED <<result, status>>

(* With a scope open, the innermost table is sound.                        *)
LEMMA InnermostTable ==
  ASSUME SymbolInv, trees # << >>
  PROVE  /\ trees \in Seq(SymbolTables) /\ Len(trees) \in 1 .. Len(trees)
         /\ trees[Len(trees)] \in SymbolTables /\ Sound(trees[Len(trees)])
  <1>1. trees \in Seq(SymbolTables) /\ Len(trees) \in 1 .. Len(trees)
    BY DEF SymbolInv, Chain
  <1> QED
    BY <1>1 DEF SymbolInv, Chain

(* symbol_define and symbol_clone refuse, or the innermost table gains the *)
(* symbol.                                                                 *)
LEMMA EnterIs ==
  ASSUME SymbolInv, InScope, NEW id \in Identifiers \cup {0}, NEW object \in Objects \cup {Function},
         Enter(id, object)
  PROVE  (result' = 0 /\ UNCHANGED <<trees, references>>) \/ Entered(id, object)
  <1>1. CASE Found(Current, id) \/ SymbolsInUse >= MaxSymbols
    BY <1>1 DEF Enter
  <1>2. CASE ~ (Found(Current, id) \/ SymbolsInUse >= MaxSymbols)
    <2>1. PICK k, table, new : k = Len(trees) /\ table = trees[k] /\ new = Inserted(table, id, object)
      OBVIOUS
    <2>2. /\ trees' = [trees EXCEPT ![k] = new] /\ references' = Taken(object) /\ result' = object
          /\ ~ Found(table, id)
      BY <1>2, <2>1 DEF Enter, Insert, Innermost, Current
    <2>3. table \in SymbolTables /\ Sound(table) /\ trees # << >>
      BY <2>1, InnermostTable DEF InScope
    <2>4. id \notin DOMAIN table.symbols
      BY <2>2, <2>3, FoundIs, Keys
    <2>5. Gains(table, id, object, new)
      BY <2>1, <2>2, <2>3, InsertSound
    <2> QED
      BY <2>1, <2>2, <2>3, <2>4, <2>5 DEF Entered
  <1> QED
    BY <1>1, <1>2

(* The tables stay as they are: unless something is broken, because there  *)
(* is no such symbol.                                                      *)
NothingRemoved(id) ==
  /\ UNCHANGED <<trees, references, result>>
  /\ status' \in {"ok", "wild", "cyclic"}
  /\ status' = "ok" => ~ Found(Current, id)

(* symbol_undefine leaves the tables as they are, or the innermost one     *)
(* loses the symbol.                                                       *)
LEMMA UndefineIs ==
  ASSUME SymbolInv, NEW id \in Identifiers, SYMUNDEF(id)
  PROVE  \/ NothingRemoved(id)
         \/ Removed(id)
  <1>1. PICK k, table, s : k = Len(trees) /\ table = trees[k] /\ s = table.symbols
    OBVIOUS
  <1>2. table = Current /\ trees # << >>
    BY <1>1 DEF Current, Innermost, SYMUNDEF, InScope
  <1>3. table \in SymbolTables /\ Sound(table)
    BY <1>1, <1>2, InnermostTable
  <1>4. Found(table, id) <=> id \in DOMAIN s
    <2>1. id \in Nat
      BY SymbolTableAssumption
    <2> QED
      BY <1>1, <1>3, <2>1, FoundIs
  <1>5. SymbolInv => status \in {"ok", "wild", "cyclic"}
    BY DEF SymbolInv
  <1>6. ASSUME NEW z, NEW child, Replace(id, z, child), id \in DOMAIN s,
               s[id].parent # Gone => Loses(table, id, Replaced(table, id, z, child))
        PROVE  \/ NothingRemoved(id)
               \/ Removed(id)
    <2>1. CASE s[id].parent = Gone
      BY <1>1, <1>2, <1>6, <2>1 DEF Replace, Breaks, NothingRemoved
    <2>2. CASE s[id].parent # Gone
      <3>1. PICK new : new = Replaced(table, id, z, child)
        OBVIOUS
      <3>2. /\ trees' = [trees EXCEPT ![k] = new] /\ references' = GivenBack(s[id].object)
            /\ UNCHANGED <<result, status>>
        BY <1>1, <1>2, <1>6, <2>2, <3>1 DEF Replace, Innermost, Current
      <3>3. Loses(table, id, new)
        BY <1>6, <2>2, <3>1
      <3> QED
        BY <1>1, <1>2, <1>6, <3>2, <3>3 DEF Removed
    <2> QED
      BY <2>1, <2>2
  <1>7. CASE ~ Found(table, id)
    BY <1>2, <1>5, <1>7 DEF SYMUNDEF, symbolVars, NothingRemoved
  <1>8. CASE Found(table, id) /\ UndefineLeafOrOne(id)
    <2>1. PICK child : child = OneChild(s, id)
      OBVIOUS
    <2>2. /\ s[id].left = Null \/ s[id].right = Null
          /\ Replace(id, OrphanRooted(s, id, child), child)
      BY <1>1, <1>2, <1>8, <2>1 DEF UndefineLeafOrOne, OneChild, OrphanRooted
    <2>3. id \in DOMAIN s
      BY <1>4, <1>8
    <2>4. s[id].parent # Gone => Loses(table, id, Replaced(table, id, OrphanRooted(s, id, child), child))
      BY <1>1, <1>3, <2>1, <2>2, <2>3, RemoveSound
    <2> QED
      BY <1>6, <2>2, <2>3, <2>4
  <1>9. ASSUME NEW side \in Sides, Found(table, id), UndefineBoth(id, side)
        PROVE  \/ NothingRemoved(id)
               \/ Removed(id)
    <2>1. PICK new : new = Neighbour(s, id, side)
      OBVIOUS
    <2>2. s[id].left # Null /\ s[id].right # Null
      BY <1>1, <1>2, <1>9 DEF UndefineBoth
    <2>3. CASE s[new].parent = Gone \/ Child(s, new, side) = Null
      <3>1. Breaks("wild")
        BY <1>1, <1>2, <1>9, <2>1, <2>3 DEF UndefineBoth
      <3> QED
        BY <3>1 DEF Breaks, NothingRemoved
    <2>4. CASE ~ (s[new].parent = Gone \/ Child(s, new, side) = Null) /\ s[new].parent = id
      <3>1. Breaks("cyclic")
        BY <1>1, <1>2, <1>9, <2>1, <2>4 DEF UndefineBoth
      <3> QED
        BY <3>1 DEF Breaks, NothingRemoved
    <2>5. CASE ~ (s[new].parent = Gone \/ Child(s, new, side) = Null) /\ s[new].parent # id
      <3>1. Replace(id, Swapped(s, id, new, side), new)
        BY <1>1, <1>2, <1>9, <2>1, <2>5 DEF UndefineBoth
      <3>2. id \in DOMAIN s
        BY <1>4, <1>9
      <3>3. s[id].parent # Gone => Loses(table, id, Replaced(table, id, Swapped(s, id, new, side), new))
        BY <1>1, <1>3, <2>1, <2>2, <2>5, <3>2, SwapSound
      <3> QED
        BY <1>6, <3>1, <3>2, <3>3
    <2> QED
      BY <2>3, <2>4, <2>5
  <1> QED
    BY <1>2, <1>7, <1>8, <1>9 DEF SYMUNDEF, Sides

(* Either way the chain stays sound and the references exact.              *)
LEMMA EnteredInv ==
  ASSUME SymbolInv, NEW id \in Identifiers \cup {0}, NEW object \in Objects \cup {Function},
         Entered(id, object)
  PROVE  Chain(trees') /\ Exact(trees', references')
  <1>1. PICK ts, cs, k, cs2 : /\ ts = trees /\ cs = references /\ k = Len(trees) /\ cs2 = Taken(object)
    OBVIOUS
  <1>2. PICK new : Gains(ts[k], id, object, new) /\ trees' = [ts EXCEPT ![k] = new]
    BY <1>1 DEF Entered
  <1>3. PICK ts2 : ts2 = [ts EXCEPT ![k] = new]
    OBVIOUS
  <1>4. trees' = ts2 /\ references' = cs2 /\ id \notin DOMAIN ts[k].symbols
    BY <1>1, <1>2, <1>3 DEF Entered
  <1>5. Chain(ts) /\ Exact(ts, cs)
    BY <1>1 DEF SymbolInv
  <1>6. ts \in Seq(SymbolTables) /\ k \in 1 .. Len(ts)
    BY <1>1, InnermostTable DEF Entered
  <1>7. Becomes(ts, k, new, ts2)
    BY <1>2, <1>3, <1>6, BecomesBy DEF Gains
  <1>8. /\ Chain(ts2)
        /\ \A o : HoldersIn(ts2, o) = IF o = object THEN HoldersIn(ts, o) \cup {<<k, id>>}
                                      ELSE HoldersIn(ts, o)
        /\ \A o : <<k, id>> \notin HoldersIn(ts, o)
    BY <1>2, <1>4, <1>5, <1>6, <1>7, ChainGains
  <1>9. cs2 = IF object = Function THEN cs ELSE [cs EXCEPT ![object] = @ + 1]
    BY <1>1 DEF Taken
  <1>10. Exact(ts2, cs2)
    BY <1>5, <1>8, <1>9, ExactGains
  <1> QED
    BY <1>4, <1>8, <1>10

(* A symbol that is lost gives its reference back.                         *)
LEMMA RemovedInv ==
  ASSUME SymbolInv, NEW id \in Identifiers, Removed(id)
  PROVE  Chain(trees') /\ Exact(trees', references')
  <1>1. PICK ts, cs, k, object, cs2 :
          /\ ts = trees /\ cs = references /\ k = Len(trees) /\ object = trees[k].symbols[id].object
          /\ cs2 = GivenBack(object)
    OBVIOUS
  <1>2. PICK new : Loses(ts[k], id, new) /\ trees' = [ts EXCEPT ![k] = new]
    BY <1>1 DEF Removed
  <1>3. PICK ts2 : ts2 = [ts EXCEPT ![k] = new]
    OBVIOUS
  <1>4. trees' = ts2 /\ references' = cs2 /\ id \in DOMAIN ts[k].symbols
    BY <1>1, <1>2, <1>3 DEF Removed
  <1>5. Chain(ts) /\ Exact(ts, cs)
    BY <1>1 DEF SymbolInv
  <1>6. ts \in Seq(SymbolTables) /\ k \in 1 .. Len(ts) /\ ts[k] \in SymbolTables
    BY <1>1, InnermostTable DEF Removed
  <1>7. Becomes(ts, k, new, ts2)
    BY <1>2, <1>3, <1>6, BecomesBy DEF Loses
  <1>8. object \in Objects \cup {Function} /\ object = ts[k].symbols[id].object
    <2>1. PICK s, own : s = ts[k].symbols /\ own = DOMAIN s
      OBVIOUS
    <2>2. s \in Symbols(own) /\ own \subseteq Nat
      BY <1>6, <2>1, TableFacts, Keys
    <2>3. s[id].object \in Objects \cup {Function}
      BY <1>4, <2>1, <2>2, SymbolsAreRecords
    <2> QED
      BY <1>1, <2>1, <2>3
  <1>9. Chain(ts2) /\ HoldersLose(ts, <<k, id>>, object, ts2)
    BY <1>2, <1>4, <1>5, <1>6, <1>7, <1>8, ChainLoses
  <1>10. cs2 = IF object = Function THEN cs ELSE [cs EXCEPT ![object] = @ - 1]
    BY <1>1 DEF GivenBack
  <1>11. Exact(ts2, cs2)
    BY <1>5, <1>8, <1>9, <1>10, ExactLoses
  <1> QED
    BY <1>4, <1>9, <1>11

(* A chain is one still with an empty table added to it.                   *)
LEMMA ChainOpens ==
  ASSUME NEW ts, Chain(ts), NEW counts, Exact(ts, counts), NEW ts2, ts2 = Append(ts, EmptyTable)
  PROVE  Chain(ts2) /\ Exact(ts2, counts)
  <1>1. PICK empty, k : empty = EmptyTable /\ k = Len(ts)
    OBVIOUS
  <1>2. empty \in SymbolTables /\ Sound(empty) /\ DOMAIN empty.symbols = {}
    BY <1>1, EmptyTableSound
  <1>3. ts \in Seq(SymbolTables) /\ k \in Nat /\ ts2 = Append(ts, empty)
    BY <1>1 DEF Chain
  <1>4. /\ ts2 \in Seq(SymbolTables) /\ Len(ts2) = k + 1 /\ ts2[k + 1] = empty
        /\ \A j \in 1 .. k : ts2[j] = ts[j]
    BY <1>1, <1>2, <1>3, AppendProperties
  <1>5. PICK all : all = (1 .. k + 1) \X (Identifiers \cup {0})
    OBVIOUS
  <1>6. ASSUME NEW p \in all
        PROVE  /\ p \in SymbolsIn(ts2) <=> p \in SymbolsIn(ts)
               /\ p \in SymbolsIn(ts) => ts2[p[1]] = ts[p[1]]
    <2>1. PICK j, i : p = <<j, i>> /\ j \in 1 .. k + 1 /\ i \in Identifiers \cup {0}
                      /\ p[1] = j /\ p[2] = i
      BY <1>5
    <2>2. p \in SymbolsIn(ts2) <=> i \in DOMAIN ts2[j].symbols
      BY <1>4, <2>1 DEF SymbolsIn
    <2>3. p \in SymbolsIn(ts) <=> j \in 1 .. k /\ i \in DOMAIN ts[j].symbols
      BY <1>1, <2>1 DEF SymbolsIn
    <2>4. CASE j = k + 1
      <3>1. j \notin 1 .. k /\ ts2[j] = empty
        BY <1>3, <1>4, <2>4
      <3> QED
        BY <1>2, <2>2, <2>3, <3>1
    <2>5. CASE j # k + 1
      <3>1. j \in 1 .. k
        BY <1>3, <2>1, <2>5
      <3> QED
        BY <1>4, <2>1, <2>2, <2>3, <3>1
    <2> QED
      BY <2>4, <2>5
  <1>7. SymbolsIn(ts) \subseteq all /\ SymbolsIn(ts2) \subseteq all
    <2>1. 1 .. k \subseteq 1 .. k + 1
      BY <1>3
    <2>2. SymbolsIn(ts) \subseteq (1 .. k) \X (Identifiers \cup {0})
      BY <1>1 DEF SymbolsIn
    <2>3. SymbolsIn(ts2) \subseteq (1 .. k + 1) \X (Identifiers \cup {0})
      BY <1>4 DEF SymbolsIn
    <2> QED
      BY <1>5, <2>1, <2>2, <2>3
  <1>8. SymbolsIn(ts2) = SymbolsIn(ts)
    BY <1>6, <1>7
  <1>9. \A o : HoldersIn(ts2, o) = HoldersIn(ts, o)
    BY <1>6, <1>7, <1>8 DEF HoldersIn
  <1>10. Chain(ts2)
    <2>1. IsFiniteSet(SymbolsIn(ts2))
      BY <1>8 DEF Chain
    <2>2. ASSUME NEW j \in 1 .. Len(ts2)
          PROVE  Sound(ts2[j])
      <3>1. CASE j = k + 1
        BY <1>2, <1>4, <3>1
      <3>2. CASE j # k + 1
        <4>1. j \in 1 .. k
          BY <1>3, <1>4, <3>2
        <4> QED
          BY <1>1, <1>4, <4>1 DEF Chain
      <3> QED
        BY <3>1, <3>2
    <2> QED
      BY <1>4, <2>1, <2>2 DEF Chain
  <1>11. Exact(ts2, counts)
    BY <1>9 DEF Exact
  <1> QED
    BY <1>10, <1>11

(* The scopes and the counts once the innermost scope has ended            *)
IsClosed(ts, counts, ts2, cs) ==
  /\ ts2 = SubSeq(ts, 1, Len(ts) - 1)
  /\ cs = [o \in Objects |->
             counts[o] - Cardinality({n \in DOMAIN ts[Len(ts)].symbols :
                                        ts[Len(ts)].symbols[n].object = o})]

(* A chain without its last table is one, the references of that table     *)
(* given back.                                                             *)
LEMMA ScopeCloses ==
  ASSUME NEW ts, NEW counts, NEW ts2, NEW cs, Chain(ts), Exact(ts, counts), Len(ts) > 0,
         IsClosed(ts, counts, ts2, cs)
  PROVE  Chain(ts2) /\ Exact(ts2, cs)
  BY ChainCloses DEF IsClosed

(* What a step has to show.                                                *)
LEMMA SymbolInvKept ==
  ASSUME SymbolInv, NEW ts, NEW cs, ts = trees', cs = references', Chain(ts), Exact(ts, cs),
         result' \in Objects \cup {Function, 0}, status' \in {"ok", "wild", "cyclic"}
  PROVE  SymbolInv'
  BY DEF SymbolInv

(* A step that leaves the tables alone keeps the invariant.                *)
LEMMA TablesStay ==
  ASSUME SymbolInv, UNCHANGED <<trees, references>>,
         result' \in Objects \cup {Function, 0}, status' \in {"ok", "wild", "cyclic"}
  PROVE  SymbolInv'
  <1>1. PICK ts, cs : ts = trees /\ cs = references
    OBVIOUS
  <1>2. ts = trees' /\ cs = references' /\ Chain(ts) /\ Exact(ts, cs)
    BY <1>1 DEF SymbolInv
  <1> QED
    BY <1>2, SymbolInvKept

(* What SYMCLONE does                                                      *)
LEMMA CloneIs ==
  ASSUME SymbolInv, NEW id \in Identifiers, SYMCLONE(id)
  PROVE  \/ UNCHANGED <<trees, references, result>> /\ status' = "wild"
         \/ UNCHANGED <<trees, references, status>> /\ result' \in {Lookup(Len(trees), id), 0}
         \/ /\ Entered(0, Lookup(Len(trees) - 1, id))
            /\ id \notin DOMAIN trees[Len(trees)].symbols
            /\ Lookup(Len(trees) - 1, id) # 0 /\ Len(trees) - 1 \in 0 .. Len(trees)
            /\ Lookup(Len(trees) - 1, id) \in Objects \cup {Function}
            /\ UNCHANGED status
  <1>1. InScope /\ trees # << >>
    BY DEF SYMCLONE, InScope
  <1>2. trees \in Seq(SymbolTables) /\ Len(trees) \in 1 .. Len(trees) /\ id \in Nat
    BY <1>1, InnermostTable, SymbolTableAssumption
  <1>3. CASE Innermost = 1
    BY <1>3 DEF SYMCLONE, Breaks
  <1>4. CASE Innermost # 1
    <2>1. PICK remote : remote = Lookup(Len(trees) - 1, id)
      OBVIOUS
    <2>2. CASE Found(Current, id) \/ remote = 0
      BY <1>4, <2>1, <2>2 DEF SYMCLONE, Innermost
    <2>3. CASE ~ (Found(Current, id) \/ remote = 0)
      <3>1. Enter(0, remote) /\ UNCHANGED status
        BY <1>4, <2>1, <2>3 DEF SYMCLONE, Innermost
      <3>2. Len(trees) - 1 \in 0 .. Len(trees)
        BY <1>2
      <3>3. remote \in Objects \cup {Function}
        BY <2>1, <2>3, <3>2, LookupIs DEF SymbolInv
      <3>4. (result' = 0 /\ UNCHANGED <<trees, references>>) \/ Entered(0, remote)
        BY <1>1, <3>1, <3>3, EnterIs
      <3>5. id \notin DOMAIN trees[Len(trees)].symbols
        BY <1>1, <1>2, <2>3, InnermostTable, FoundIs DEF Current, Innermost
      <3> QED
        BY <2>1, <2>3, <3>1, <3>2, <3>3, <3>4, <3>5
    <2> QED
      BY <2>2, <2>3
  <1> QED
    BY <1>3, <1>4

(* What a lookup finds is an object, a function or nothing.                *)
LEMMA LookupType ==
  ASSUME SymbolInv, NEW id \in Identifiers
  PROVE  Lookup(Len(trees), id) \in Objects \cup {Function, 0}
  <1>1. Len(trees) \in 0 .. Len(trees) /\ Chain(trees)
    BY DEF SymbolInv, Chain
  <1> QED
    BY <1>1, LookupIs

(* Every step keeps the invariant.                                         *)
LEMMA SymbolStep ==
  ASSUME SymbolInv, [SymbolNext]_symbolVars
  PROVE  SymbolInv'
  <1>1. result \in Objects \cup {Function, 0} /\ status \in {"ok", "wild", "cyclic"}
        /\ Chain(trees) /\ Exact(trees, references)
    BY DEF SymbolInv
  <1>2. ASSUME NEW id \in Identifiers, SYMFIND(id)
        PROVE  SymbolInv'
    BY <1>1, <1>2, TablesStay, LookupType DEF SYMFIND, Innermost
  <1>3. ASSUME NEW id \in Identifiers \cup {0}, NEW object \in Objects \cup {Function},
               Entered(id, object), UNCHANGED status
        PROVE  SymbolInv'
    <2>1. Chain(trees') /\ Exact(trees', references')
      BY <1>3, EnteredInv
    <2>2. result' \in Objects \cup {Function, 0}
      BY <1>3 DEF Entered
    <2> QED
      BY <1>1, <1>3, <2>1, <2>2, SymbolInvKept
  <1>4. ASSUME NEW id \in Identifiers, SYMCLONE(id)
        PROVE  SymbolInv'
    <2>1. CASE UNCHANGED <<trees, references, result>> /\ status' = "wild"
      BY <1>1, <2>1, TablesStay
    <2>2. CASE UNCHANGED <<trees, references, status>> /\ result' \in {Lookup(Len(trees), id), 0}
      BY <1>1, <2>2, TablesStay, LookupType
    <2>3. CASE /\ Entered(0, Lookup(Len(trees) - 1, id))
               /\ Lookup(Len(trees) - 1, id) \in Objects \cup {Function} /\ UNCHANGED status
      BY <1>3, <2>3
    <2> QED
      BY <1>4, <2>1, <2>2, <2>3, CloneIs
  <1>5. ASSUME NEW id \in Identifiers, SYMUNDEF(id)
        PROVE  SymbolInv'
    <2>1. CASE NothingRemoved(id)
      BY <1>1, <2>1, TablesStay DEF NothingRemoved
    <2>2. CASE Removed(id)
      <3>1. Chain(trees') /\ Exact(trees', references')
        BY <2>2, RemovedInv
      <3> QED
        BY <1>1, <2>2, <3>1, SymbolInvKept DEF Removed
    <2> QED
      BY <1>5, <2>1, <2>2, UndefineIs
  <1>6. ASSUME NEW id \in Identifiers, NEW object \in Referents(id), SYMDEF(id, object)
        PROVE  SymbolInv'
    <2>1. object \in Objects \cup {Function}
      BY DEF Referents
    <2>2. InScope /\ Enter(id, object) /\ UNCHANGED status
      BY <1>6 DEF SYMDEF
    <2>3. CASE result' = 0 /\ UNCHANGED <<trees, references>>
      BY <1>1, <2>2, <2>3, TablesStay
    <2>4. CASE Entered(id, object)
      BY <1>3, <2>1, <2>2, <2>4
    <2> QED
      BY <2>1, <2>2, <2>3, <2>4, EnterIs
  <1>7. ASSUME OpenScope
        PROVE  SymbolInv'
    <2>1. trees' = Append(trees, EmptyTable) /\ UNCHANGED <<references, result, status>>
      BY <1>7 DEF OpenScope
    <2>2. Chain(trees') /\ Exact(trees', references')
      BY <1>1, <2>1, ChainOpens
    <2> QED
      BY <1>1, <2>1, <2>2, SymbolInvKept
  <1>8. ASSUME CloseScope
        PROVE  SymbolInv'
    <2>1. InScope /\ trees # << >> /\ UNCHANGED <<result, status>>
      BY <1>8 DEF CloseScope, InScope
    <2>2. PICK k, table, ts, cs : k = Len(trees) /\ table = trees[k] /\ ts = trees' /\ cs = references'
      OBVIOUS
    <2>3. k > 0 /\ table \in SymbolTables /\ Sound(table)
      BY <2>1, <2>2, InnermostTable
    <2>4. Tree(table) = DOMAIN table.symbols
      BY <2>3, TreeIsOwn DEF Sound
    <2>5. ts = SubSeq(trees, 1, k - 1)
      BY <1>8, <2>2 DEF CloseScope, Innermost
    <2>6. cs = [o \in Objects |-> references[o] - Cardinality({n \in DOMAIN table.symbols : table.symbols[n].object = o})]
      BY <1>8, <2>2, <2>4 DEF CloseScope, Innermost, Current, Object
    <2>7. PICK old, counts : old = trees /\ counts = references
      OBVIOUS
    <2>8. Chain(old) /\ Exact(old, counts) /\ k = Len(old) /\ table = old[k]
      BY <1>1, <2>2, <2>7
    <2>9. IsClosed(old, counts, ts, cs)
      BY <2>2, <2>5, <2>6, <2>7 DEF IsClosed
    <2>11. Len(old) > 0
      BY <2>3, <2>8
    <2>10. Chain(ts) /\ Exact(ts, cs)
      BY <2>11, <2>8, <2>9, ScopeCloses
    <2> QED
      BY <1>1, <2>1, <2>2, <2>10, SymbolInvKept
  <1>9. CASE UNCHANGED symbolVars
    BY <1>1, <1>9, TablesStay DEF symbolVars
  <1> QED
    BY <1>2, <1>4, <1>5, <1>6, <1>7, <1>8, <1>9 DEF SymbolNext

(* Theorem.  Whatever symbols are defined, cloned and undefined, the table *)
(* of every open scope stays a search tree in which a child is linked to   *)
(* its parent unless that has been freed (_symboltable_insert,             *)
(* symbol_undefine).                                                       *)
THEOREM SymbolsSound == SymbolSpec => []SymbolInv
  BY SymbolInitInv, SymbolStep, PTL DEF SymbolSpec

(* Theorem.  The symbols hold one reference each to what they stand for,   *)
(* and there are no others: symbol_define, symbol_clone, symbol_undefine and         *)
(* _symbol_reap neither leak one nor give one back twice.                  *)
THEOREM ReferencesOfSymbols == SymbolSpec => []RefsExact
  <1>1. SymbolInv => RefsExact
    BY StateSame DEF SymbolInv, Exact, RefsExact
  <1> QED
    BY <1>1, SymbolsSound, PTL

(* The types follow from the invariant.                                    *)
LEMMA SymbolTypes == SymbolInv => SymbolTypeOK
  <1> SUFFICES ASSUME SymbolInv
               PROVE  SymbolTypeOK
    OBVIOUS
  <1>1. ASSUME NEW k \in 1 .. Innermost
        PROVE  /\ DOMAIN trees[k].symbols \subseteq Identifiers \cup {0}
               /\ trees[k].root \in DOMAIN trees[k].symbols \cup {Null}
               /\ trees[k].symbols \in Symbols(DOMAIN trees[k].symbols)
    <2>1. trees[k] \in SymbolTables
      BY DEF SymbolInv, Chain, Innermost
    <2> QED
      BY <2>1, TableFacts
  <1>2. references \in [Objects -> Nat] /\ result \in Objects \cup {Function, 0}
        /\ status \in {"ok", "wild", "cyclic"}
    BY DEF SymbolInv, Exact
  <1> QED
    BY <1>1, <1>2 DEF SymbolTypeOK, Symbols

(* Theorem.  Every symbol that has not been freed is reached from the root *)
(* of its table, so that _symbol_reap frees it at the end of the scope, and no    *)
(* root or child points to one that has been freed.                        *)
THEOREM SymbolsAreReached == SymbolSpec => []SymbolsReached
  <1>1. SymbolInv => SymbolsReached
    <2> SUFFICES ASSUME SymbolInv
                 PROVE  SymbolsReached
      OBVIOUS
    <2>1. ASSUME NEW k \in 1 .. Innermost
          PROVE  Tree(trees[k]) = DOMAIN trees[k].symbols
      <3>1. Sound(trees[k])
        BY DEF SymbolInv, Chain, Innermost
      <3> QED
        BY <3>1, TreeIsOwn DEF Sound
    <2> QED
      BY <2>1, SymbolTypes DEF SymbolsReached
  <1> QED
    BY <1>1, SymbolsSound, PTL

(* What a table's symbols stand for, and each table of a chain             *)
MeantIn(table) == [i \in DOMAIN table.symbols |-> table.symbols[i].object]

MeantBy(ts) == [k \in 1 .. Len(ts) |-> MeantIn(ts[k])]

(* The meanings of the state are those of its chain.                       *)
LEMMA MeaningsAre == SymbolInv => Meanings = MeantBy(trees)
  <1> SUFFICES ASSUME SymbolInv
               PROVE  Meanings = MeantBy(trees)
    OBVIOUS
  <1>1. ASSUME NEW k \in 1 .. Len(trees)
        PROVE  MeaningsOf(trees[k]) = MeantIn(trees[k])
    <2>1. Sound(trees[k])
      BY DEF SymbolInv, Chain
    <2>2. Tree(trees[k]) = DOMAIN trees[k].symbols
      BY <2>1, TreeIsOwn DEF Sound
    <2> QED
      BY <2>2 DEF MeaningsOf, MeantIn
  <1> QED
    BY <1>1 DEF Meanings, MeantBy, Innermost

(* The innermost scope of a chain is given other meanings.                 *)
MeantInnermost(ts, f, ts2) == MeantBy(ts2) = [MeantBy(ts) EXCEPT ![Len(MeantBy(ts))] = f]

(* They change with the innermost table only.                              *)
LEMMA MeantBecomes ==
  ASSUME NEW ts \in Seq(SymbolTables), NEW k \in 1 .. Len(ts), k = Len(ts), NEW new,
         NEW ts2, Becomes(ts, k, new, ts2), NEW f, f = MeantIn(new)
  PROVE  MeantInnermost(ts, f, ts2)
  <1>1. Len(MeantBy(ts)) = k
    BY DEF MeantBy
  <1>2. MeantBy(ts2) = [j \in 1 .. k |-> MeantIn(ts2[j])]
    BY DEF MeantBy, Becomes
  <1>3. MeantBy(ts) = [j \in 1 .. k |-> MeantIn(ts[j])]
    BY DEF MeantBy
  <1>4. \A j \in 1 .. k : MeantIn(ts2[j]) = IF j = k THEN f ELSE MeantIn(ts[j])
    BY DEF Becomes
  <1>5. MeantBy(ts2) = [MeantBy(ts) EXCEPT ![k] = f]
    BY <1>2, <1>3, <1>4, SMTT(30)
  <1> QED
    BY <1>1, <1>5 DEF MeantInnermost

(* The innermost scope means what the innermost table does.                *)
LEMMA MeantLast ==
  ASSUME NEW ts \in Seq(SymbolTables), NEW k, k = Len(ts), k > 0
  PROVE  /\ Len(MeantBy(ts)) = k /\ MeantBy(ts) # << >>
         /\ MeantBy(ts)[k] = MeantIn(ts[k]) /\ DOMAIN MeantBy(ts)[k] = DOMAIN ts[k].symbols
  <1>1. k \in 1 .. k /\ k \in Nat
    OBVIOUS
  <1>2. Len(MeantBy(ts)) = k /\ MeantBy(ts)[k] = MeantIn(ts[k])
    BY <1>1 DEF MeantBy
  <1>3. DOMAIN MeantIn(ts[k]) = DOMAIN ts[k].symbols
    BY DEF MeantIn
  <1> QED
    BY <1>1, <1>2, <1>3

(* What a scope means once an identifier has been given a meaning or lost. *)
MeantWith(f, id, object) == [i \in DOMAIN f \cup {id} |-> IF i = id THEN object ELSE f[i]]

MeantWithout(f, id) == [i \in DOMAIN f \ {id} |-> f[i]]

(* A table that gains a symbol gives that identifier a meaning.            *)
LEMMA MeantGains ==
  ASSUME NEW table, NEW id, id \notin DOMAIN table.symbols, NEW object, NEW new,
         Gains(table, id, object, new)
  PROVE  MeantIn(new) = MeantWith(MeantIn(table), id, object)
  <1>1. DOMAIN MeantIn(table) = DOMAIN table.symbols
    BY DEF MeantIn
  <1>2. \A i \in DOMAIN table.symbols \cup {id} :
          new.symbols[i].object = IF i = id THEN object ELSE MeantIn(table)[i]
    BY DEF MeantIn, Gains
  <1>3. MeantIn(new) = [i \in DOMAIN table.symbols \cup {id} |-> new.symbols[i].object]
    BY DEF MeantIn, Gains
  <1> QED
    BY <1>1, <1>2, <1>3 DEF MeantWith

(* A table that loses a symbol takes the meaning from that identifier.     *)
LEMMA MeantLoses ==
  ASSUME NEW table, NEW id, NEW new, Loses(table, id, new)
  PROVE  MeantIn(new) = MeantWithout(MeantIn(table), id)
  <1>1. DOMAIN MeantIn(table) = DOMAIN table.symbols
    BY DEF MeantIn
  <1>2. \A i \in DOMAIN table.symbols \ {id} : new.symbols[i].object = MeantIn(table)[i]
    BY DEF MeantIn, Loses
  <1>3. MeantIn(new) = [i \in DOMAIN table.symbols \ {id} |-> new.symbols[i].object]
    BY DEF MeantIn, Loses
  <1> QED
    BY <1>1, <1>2, <1>3 DEF MeantWithout

(* symbol_lookup gives an identifier the meaning that the scopes give it.  *)
LEMMA LookupIsMeaning ==
  ASSUME SymbolInv, NEW id \in Identifiers
  PROVE  Env!Meaning(id) = Lookup(Len(trees), id)
  <1>1. PICK n, ks, f : n = Len(trees) /\ ks = KnownIn(trees, n, id) /\ f = MeantBy(trees)
    OBVIOUS
  <1>2. trees \in Seq(SymbolTables) /\ n \in Nat /\ n \in 0 .. Len(trees) /\ Chain(trees)
    BY <1>1 DEF SymbolInv, Chain
  <1>3. Meanings = f /\ Len(f) = n
        /\ \A k \in 1 .. n : f[k] = MeantIn(trees[k]) /\ DOMAIN f[k] = DOMAIN trees[k].symbols
    <2>1. \A k : DOMAIN MeantIn(trees[k]) = DOMAIN trees[k].symbols
      BY DEF MeantIn
    <2> QED
      BY <1>1, <1>2, <2>1, MeaningsAre DEF MeantBy
  <1>4. Env!Knowing(id) = ks
    BY <1>1, <1>3 DEF Env!Knowing, Env!Innermost, KnownIn
  <1>5. Env!Meaning(id) = IF ks = {} THEN 0 ELSE f[Inner(ks)][id]
    BY <1>3, <1>4 DEF Env!Meaning, Inner
  <1>6. CASE ks = {}
    BY <1>1, <1>2, <1>5, <1>6, LookupIs
  <1>7. CASE ks # {}
    <2>1. Inner(ks) \in ks /\ Lookup(n, id) = trees[Inner(ks)].symbols[id].object
      BY <1>1, <1>2, <1>7, LookupIs
    <2>2. PICK k \in 1 .. n : k = Inner(ks) /\ id \in DOMAIN trees[k].symbols
      BY <1>1, <2>1 DEF KnownIn
    <2>3. f[k][id] = trees[k].symbols[id].object
      BY <1>3, <2>2 DEF MeantIn
    <2> QED
      BY <1>1, <1>5, <1>7, <2>1, <2>2, <2>3
  <1> QED
    BY <1>6, <1>7

(* The innermost scope, in the terms of both                               *)
LEMMA InnermostMeanings ==
  ASSUME SymbolInv, trees # << >>
  PROVE  /\ Meanings # << >> /\ Env!Innermost = Len(trees)
         /\ DOMAIN Meanings[Env!Innermost] = DOMAIN trees[Len(trees)].symbols
         /\ Meanings[Env!Innermost] = MeantIn(trees[Len(trees)])
  <1>1. PICK k, f : k = Len(trees) /\ f = MeantBy(trees)
    OBVIOUS
  <1>2. trees \in Seq(SymbolTables) /\ k > 0
    BY <1>1, InnermostTable
  <1>3. Len(f) = k /\ f # << >> /\ f[k] = MeantIn(trees[k]) /\ DOMAIN f[k] = DOMAIN trees[k].symbols
    BY <1>1, <1>2, MeantLast
  <1>4. Meanings = f
    BY <1>1, MeaningsAre
  <1> QED
    BY <1>1, <1>3, <1>4 DEF Env!Innermost

(* The same of the state after a step.                                     *)
LEMMA MeaningsNext == SymbolInv' => Meanings' = MeantBy(trees')
  <1>1. (SymbolInv => Meanings = MeantBy(trees))'
    BY MeaningsAre, PTL
  <1> QED
    BY <1>1

(* The innermost table becomes another: so does the innermost scope.       *)
LEMMA MeaningsBecome ==
  ASSUME SymbolInv, SymbolInv', trees # << >>, NEW new \in SymbolTables,
         trees' = [trees EXCEPT ![Len(trees)] = new],
         NEW f, f = MeantIn(new)
  PROVE  Meanings' = [Meanings EXCEPT ![Env!Innermost] = f]
  <1>1. PICK ts, k : ts = trees /\ k = Len(ts)
    OBVIOUS
  <1>2. ts \in Seq(SymbolTables) /\ k > 0
    BY <1>1, InnermostTable
  <1>3. PICK ts2 : ts2 = [ts EXCEPT ![k] = new]
    OBVIOUS
  <1>6. MeantBy(ts2) = [MeantBy(ts) EXCEPT ![Len(MeantBy(ts))] = f]
    <2>1. k \in 1 .. Len(ts) /\ k = Len(ts)
      BY <1>1, <1>2
    <2>2. Becomes(ts, k, new, ts2)
      BY <1>2, <1>3, <2>1, BecomesBy
    <2> QED
      BY <1>2, <2>1, <2>2, MeantBecomes DEF MeantInnermost
  <1>4. Meanings = MeantBy(ts) /\ Env!Innermost = Len(MeantBy(ts))
    BY <1>1, MeaningsAre DEF Env!Innermost
  <1>5. Meanings' = MeantBy(ts2)
    BY <1>1, <1>3, MeaningsNext
  <1> QED
    BY <1>4, <1>5, <1>6

(* A symbol entered is a meaning entered.                                  *)
LEMMA EnteredIsEnter ==
  ASSUME SymbolInv, SymbolInv', NEW id, NEW object, Entered(id, object)
  PROVE  /\ Env!Enter(id, object) /\ result' = object
         /\ Meanings # << >> /\ id \notin DOMAIN Meanings[Env!Innermost]
  <1>1. PICK table : table = trees[Len(trees)]
    OBVIOUS
  <1>2. trees # << >> /\ id \notin DOMAIN table.symbols
    BY <1>1 DEF Entered
  <1>3. PICK new : Gains(table, id, object, new) /\ trees' = [trees EXCEPT ![Len(trees)] = new]
    BY <1>1 DEF Entered
  <1>4. PICK f : f = MeantWith(MeantIn(table), id, object)
    OBVIOUS
  <1>5. f = MeantIn(new) /\ new \in SymbolTables
    <2>1. new \in SymbolTables
      BY <1>3 DEF Gains
    <2> QED
      BY <1>2, <1>3, <1>4, <2>1, MeantGains
  <1>6. Meanings' = [Meanings EXCEPT ![Env!Innermost] = f]
    BY <1>2, <1>3, <1>5, MeaningsBecome
  <1>7. f = MeantWith(Meanings[Env!Innermost], id, object)
    BY <1>1, <1>2, <1>4, InnermostMeanings
  <1>8. Env!Enter(id, object)
    BY <1>6, <1>7 DEF Env!Enter, MeantWith
  <1> QED
    BY <1>1, <1>2, <1>8, InnermostMeanings DEF Entered

(* A symbol removed is an identifier undefined.                            *)
LEMMA RemovedIsUndefine ==
  ASSUME SymbolInv, SymbolInv', NEW id, Removed(id)
  PROVE  Env!Undefine(id)
  <1>1. PICK table : table = trees[Len(trees)]
    OBVIOUS
  <1>2. trees # << >>
    BY DEF Removed
  <1>3. PICK new : Loses(table, id, new) /\ trees' = [trees EXCEPT ![Len(trees)] = new]
    BY <1>1 DEF Removed
  <1>4. PICK f : f = MeantWithout(MeantIn(table), id)
    OBVIOUS
  <1>5. f = MeantIn(new) /\ new \in SymbolTables
    <2>1. new \in SymbolTables
      BY <1>3 DEF Loses
    <2> QED
      BY <1>3, <1>4, <2>1, MeantLoses
  <1>6. Meanings' = [Meanings EXCEPT ![Env!Innermost] = f]
    BY <1>2, <1>3, <1>5, MeaningsBecome
  <1>7. f = MeantWithout(Meanings[Env!Innermost], id)
    BY <1>1, <1>2, <1>4, InnermostMeanings
  <1>8. UNCHANGED result /\ Meanings # << >>
    BY <1>2, InnermostMeanings DEF Removed
  <1> QED
    BY <1>6, <1>7, <1>8 DEF Env!Undefine, MeantWithout

(* Tables that stay as they are mean what they did.                        *)
LEMMA TablesSame ==
  ASSUME SymbolInv, SymbolInv', UNCHANGED trees
  PROVE  UNCHANGED Meanings
  <1>1. PICK f : f = MeantBy(trees)
    OBVIOUS
  <1>2. f = MeantBy(trees')
    BY <1>1
  <1>3. Meanings' = f
    BY <1>2, MeaningsNext
  <1>4. Meanings = f
    BY <1>1, MeaningsAre
  <1> QED
    BY <1>3, <1>4

(* vm_start_scope opens a scope without meanings.                          *)
LEMMA OpensScope ==
  ASSUME SymbolInv, SymbolInv', OpenScope
  PROVE  Env!Open
  <1>1. PICK ts, empty, ts2 : ts = trees /\ empty = EmptyTable /\ ts2 = Append(ts, empty)
    OBVIOUS
  <1>2. ts \in Seq(SymbolTables) /\ empty \in SymbolTables
    BY <1>1, EmptyTableSound DEF SymbolInv, Chain
  <1>3. PICK k : k = Len(ts) /\ k \in Nat
    BY <1>2
  <1>4. Len(ts2) = k + 1 /\ ts2[k + 1] = empty /\ \A j \in 1 .. k : ts2[j] = ts[j]
    BY <1>1, <1>2, <1>3, AppendProperties
  <1>5. PICK e : e = MeantIn(empty)
    OBVIOUS
  <1>6. e = << >>
    <2>1. DOMAIN empty.symbols = {}
      BY <1>1, EmptyTableSound
    <2>2. e = [i \in {} |-> empty.symbols[i].object]
      BY <1>5, <2>1 DEF MeantIn
    <2> QED
      BY <2>2
  <1>7. MeantBy(ts2) = Append(MeantBy(ts), e)
    <2>1. PICK f, g : f = MeantBy(ts) /\ g = MeantBy(ts2)
      OBVIOUS
    <2>2. f = [j \in 1 .. k |-> MeantIn(ts[j])] /\ Len(f) = k
      BY <1>3, <2>1 DEF MeantBy
    <2>3. g = [j \in 1 .. k + 1 |-> MeantIn(ts2[j])]
      BY <1>4, <2>1 DEF MeantBy
    <2>4. \A j \in 1 .. k + 1 : MeantIn(ts2[j]) = IF j = k + 1 THEN e ELSE f[j]
      BY <1>3, <1>4, <1>5, <2>2
    <2>5. PICK S : S = {MeantIn(t) : t \in SymbolTables}
      OBVIOUS
    <2>6. f \in Seq(S) /\ e \in S
      <3>1. \A j \in 1 .. k : f[j] \in S
        BY <1>2, <1>3, <2>2, <2>5
      <3>2. e \in S
        BY <1>2, <1>5, <2>5
      <3> QED
        BY <1>3, <2>2, <3>1, <3>2
    <2>7. PICK a : a = Append(f, e)
      OBVIOUS
    <2>8. a \in Seq(S) /\ Len(a) = k + 1 /\ a[k + 1] = e /\ \A j \in 1 .. k : a[j] = f[j]
      <3>1. Len(f) = k
        BY <2>2
      <3>2. a \in Seq(S) /\ Len(a) = k + 1 /\ a[Len(f) + 1] = e /\ \A j \in 1 .. Len(f) : a[j] = f[j]
        BY <2>6, <2>7, <3>1, AppendProperties
      <3> QED
        BY <3>1, <3>2
    <2>9. \A j \in 1 .. k + 1 : a[j] = g[j]
      <3>1. \A j \in 1 .. k + 1 : j = k + 1 \/ j \in 1 .. k
        BY <1>3
      <3>2. \A j \in 1 .. k : j # k + 1 /\ j \in 1 .. k + 1
        BY <1>3
      <3>3. g[k + 1] = e
        BY <1>3, <2>3, <2>4
      <3>4. \A j \in 1 .. k : g[j] = f[j]
        BY <2>3, <2>4, <3>2
      <3> QED
        BY <2>8, <3>1, <3>3, <3>4
    <2>11. a = [j \in 1 .. k + 1 |-> a[j]]
      BY <2>8
    <2>12. g = [j \in 1 .. k + 1 |-> g[j]]
      BY <2>3
    <2>10. g = a
      BY <2>9, <2>11, <2>12
    <2> QED
      BY <2>1, <2>7, <2>10
  <1>8. Meanings = MeantBy(ts) /\ Meanings' = MeantBy(ts2)
    <2>1. trees' = ts2
      BY <1>1 DEF OpenScope
    <2> QED
      BY <1>1, <2>1, MeaningsAre, MeaningsNext
  <1>9. Meanings' = Append(Meanings, << >>) /\ UNCHANGED result
    BY <1>6, <1>7, <1>8 DEF OpenScope
  <1> QED
    BY <1>9 DEF Env!Open

(* vm_end_scope takes the meanings of the innermost scope away.            *)
LEMMA ClosesScope ==
  ASSUME SymbolInv, SymbolInv', CloseScope
  PROVE  Env!Close
  <1>1. PICK ts, k : ts = trees /\ k = Len(ts)
    OBVIOUS
  <1>2. trees # << >>
    BY DEF CloseScope, InScope
  <1>3. ts \in Seq(SymbolTables) /\ k \in 1 .. k /\ k \in Nat /\ k - 1 \in 0 .. k
    BY <1>1, <1>2, InnermostTable
  <1>4. PICK ts2 : ts2 = SubSeq(ts, 1, k - 1)
    OBVIOUS
  <1>5. Len(ts2) = k - 1 /\ \A j \in 1 .. k - 1 : ts2[j] = ts[j]
    BY <1>1, <1>3, <1>4, SubSeqProperties
  <1>6. PICK f, g : f = MeantBy(ts) /\ g = MeantBy(ts2)
    OBVIOUS
  <1>7. f = [j \in 1 .. k |-> MeantIn(ts[j])] /\ Len(f) = k /\ f # << >>
    BY <1>1, <1>3, <1>6 DEF MeantBy
  <1>8. g = [j \in 1 .. k - 1 |-> f[j]]
    <2>1. \A j \in 1 .. k - 1 : MeantIn(ts2[j]) = f[j]
      BY <1>3, <1>5, <1>7
    <2> QED
      BY <1>5, <1>6, <2>1 DEF MeantBy
  <1>9. g = SubSeq(f, 1, k - 1)
    BY <1>3, <1>7, <1>8
  <1>10. Meanings = f /\ Meanings' = g
    <2>1. trees' = ts2
      BY <1>1, <1>4 DEF CloseScope, Innermost
    <2> QED
      BY <1>1, <1>6, <2>1, MeaningsAre, MeaningsNext
  <1>11. Meanings' = SubSeq(Meanings, 1, Env!Innermost - 1) /\ Meanings # << >>
    BY <1>7, <1>9, <1>10 DEF Env!Innermost
  <1>12. UNCHANGED result
    BY DEF CloseScope
  <1> QED
    BY <1>11, <1>12 DEF Env!Close

(* A definition refused changes nothing.                                   *)
LEMMA RefusedIs ==
  ASSUME SymbolInv, SymbolInv', result' = 0, UNCHANGED trees
  PROVE  Env!Refuse
  BY TablesSame DEF Env!Refuse

(* An identifier is known in the innermost scope if its table has it.      *)
LEMMA KnownIs ==
  ASSUME SymbolInv, trees # << >>, NEW id \in Identifiers \cup {0}
  PROVE  /\ Found(Current, id) <=> id \in DOMAIN trees[Len(trees)].symbols
         /\ KnownHere(id) <=> id \in DOMAIN trees[Len(trees)].symbols
         /\ id \in DOMAIN Meanings[Innermost] <=> id \in DOMAIN trees[Len(trees)].symbols
  <1>1. /\ trees[Len(trees)] \in SymbolTables /\ Sound(trees[Len(trees)])
        /\ Len(trees) \in 1 .. Len(trees)
    BY InnermostTable
  <1>2. Found(Current, id) <=> id \in DOMAIN trees[Len(trees)].symbols
    BY <1>1, FoundIs, Keys DEF Current, Innermost
  <1>3. Env!Innermost = Len(trees)
        /\ DOMAIN Meanings[Len(trees)] = DOMAIN trees[Len(trees)].symbols
    BY InnermostMeanings
  <1> QED
    BY <1>1, <1>2, <1>3 DEF KnownHere, Env!Knowing, Innermost

(* SYMFIND pushes the meaning of the identifier.                           *)
LEMMA FoundIsFind ==
  ASSUME SymbolInv, SymbolInv', NEW id \in Identifiers, result' = Lookup(Len(trees), id),
         UNCHANGED trees
  PROVE  Env!Find(id)
  <1>1. result' = Env!Meaning(id)
    BY LookupIsMeaning
  <1> QED
    BY <1>1, TablesSame DEF Env!Find

(* What Enter does, in terms of the scopes                                 *)
LEMMA EnterServes ==
  ASSUME SymbolInv, SymbolInv', InScope, NEW id \in Identifiers \cup {0},
         NEW object \in Objects \cup {Function}, Enter(id, object)
  PROVE  \/ (KnownHere(id) \/ Short) /\ Env!Refuse
         \/ ~ (KnownHere(id) \/ Short) /\ Entered(id, object)
  <1>1. trees # << >>
    BY DEF InScope
  <1>2. KnownHere(id) <=> Found(Current, id)
    BY <1>1, KnownIs
  <1>3. CASE Found(Current, id) \/ SymbolsInUse >= MaxSymbols
    <2>1. result' = 0 /\ UNCHANGED <<trees, references>>
      BY <1>3 DEF Enter
    <2>2. UNCHANGED trees
      BY <2>1
    <2> QED
      BY <1>2, <1>3, <2>1, <2>2, RefusedIs DEF Short
  <1>4. CASE ~ (Found(Current, id) \/ SymbolsInUse >= MaxSymbols)
    <2>1. PICK k, table, new : k = Len(trees) /\ table = trees[k] /\ new = Inserted(table, id, object)
      OBVIOUS
    <2>2. /\ trees' = [trees EXCEPT ![k] = new] /\ references' = Taken(object) /\ result' = object
          /\ ~ Found(table, id)
      BY <1>4, <2>1 DEF Enter, Insert, Innermost, Current
    <2>3. table \in SymbolTables /\ Sound(table)
      BY <1>1, <2>1, InnermostTable
    <2>4. id \notin DOMAIN table.symbols
      BY <2>2, <2>3, FoundIs, Keys
    <2>5. Gains(table, id, object, new)
      BY <2>1, <2>2, <2>3, InsertSound
    <2>6. Entered(id, object)
      BY <1>1, <2>1, <2>2, <2>4, <2>5 DEF Entered
    <2> QED
      BY <1>2, <1>4, <2>6 DEF Short
  <1> QED
    BY <1>3, <1>4

(* SYMDEF gives the identifier a meaning in the innermost scope.           *)
LEMMA DefineServes ==
  ASSUME SymbolInv, SymbolInv', NEW id \in Identifiers, NEW object \in Referents(id),
         SYMDEF(id, object)
  PROVE  IF KnownHere(id) \/ Short THEN Env!Refuse ELSE Env!Define(id, object)
  <1>1. object \in Objects \cup {Function}
    BY DEF Referents
  <1>2. InScope /\ Enter(id, object)
    BY DEF SYMDEF
  <1>3. Entered(id, object) => Env!Define(id, object)
    BY EnteredIsEnter DEF Env!Define
  <1> QED
    BY <1>1, <1>2, <1>3, EnterServes

(* An identifier that the innermost scope does not know has the meaning    *)
(* that the scopes around it give it.                                      *)
LEMMA OuterLookup ==
  ASSUME SymbolInv, NEW id \in Identifiers, trees # << >>,
         id \notin DOMAIN trees[Len(trees)].symbols
  PROVE  Lookup(Len(trees), id) = Lookup(Len(trees) - 1, id)
  <1>1. PICK n : n = Len(trees)
    OBVIOUS
  <1>2. n \in Nat /\ n \in 0 .. Len(trees) /\ n - 1 \in 0 .. Len(trees) /\ n \in 1 .. n
    BY <1>1, InnermostTable
  <1>3. \A j \in 1 .. n : j # n => j \in 1 .. n - 1
    BY <1>2
  <1>4. KnownIn(trees, n, id) = KnownIn(trees, n - 1, id)
    BY <1>1, <1>2, <1>3 DEF KnownIn
  <1>5. Chain(trees)
    BY DEF SymbolInv
  <1> QED
    BY <1>1, <1>2, <1>4, <1>5, LookupIs

(* SYMCLONE enters the meaning from outside, under the identifier 0, which *)
(* is what it promises of the identifier 0 only.                           *)
LEMMA CloneServes ==
  ASSUME SymbolInv, SymbolInv', NEW id \in Identifiers, SYMCLONE(id)
  PROVE  \/ status' # "ok"
         \/ (KnownHere(id) \/ Env!Meaning(id) = 0) /\ Env!Find(id)
         \/ Env!Clone(id)
         \/ Short /\ Env!Refuse
         \/ Misnamed(id)
  <1>1. InScope /\ trees # << >>
    BY DEF SYMCLONE, InScope
  <1>2. Len(trees) \in 1 .. Len(trees)
    BY <1>1, InnermostTable
  <1>3. PICK remote : remote = Lookup(Len(trees) - 1, id)
    OBVIOUS
  <1>4. /\ Found(Current, id) <=> id \in DOMAIN trees[Len(trees)].symbols
        /\ KnownHere(id) <=> id \in DOMAIN trees[Len(trees)].symbols
        /\ id \in DOMAIN Meanings[Innermost] <=> id \in DOMAIN trees[Len(trees)].symbols
    BY <1>1, KnownIs
  <1>5. ~ KnownHere(id) => Env!Meaning(id) = remote
    BY <1>1, <1>3, <1>4, OuterLookup, LookupIsMeaning
  <1>6. CASE Innermost = 1
    BY <1>6 DEF SYMCLONE, Breaks
  <1>7. CASE Innermost # 1 /\ (Found(Current, id) \/ remote = 0)
    <2>1. UNCHANGED <<trees, references>> /\ result' = Lookup(Len(trees), id)
      BY <1>3, <1>7 DEF SYMCLONE, Innermost
    <2>2. UNCHANGED trees
      BY <2>1
    <2>3. Env!Find(id)
      BY <2>1, <2>2, FoundIsFind
    <2> QED
      BY <1>4, <1>5, <1>7, <2>3
  <1>8. CASE Innermost # 1 /\ ~ (Found(Current, id) \/ remote = 0)
    <2>1. Enter(0, remote)
      BY <1>3, <1>8 DEF SYMCLONE, Innermost
    <2>2. remote \in Objects \cup {Function}
      <3>1. Len(trees) - 1 \in 0 .. Len(trees)
        BY <1>2
      <3> QED
        BY <1>3, <1>8, <3>1, LookupIs DEF SymbolInv
    <2>3. ~ KnownHere(id) /\ Env!Meaning(id) = remote /\ remote # 0
          /\ id \notin DOMAIN Meanings[Innermost]
      BY <1>4, <1>5, <1>8
    <2>4. 0 \in Identifiers \cup {0}
      OBVIOUS
    <2>5. CASE Entered(0, remote)
      <3>1. Env!Enter(0, remote) /\ result' = remote /\ Meanings # << >>
            /\ 0 \notin DOMAIN Meanings[Env!Innermost]
        BY <2>5, EnteredIsEnter
      <3>2. Env!Innermost = Innermost
        BY <1>1, InnermostMeanings DEF Innermost
      <3>3. Env!CloneAs(0, id)
        BY <2>3, <3>1, <3>2 DEF Env!CloneAs
      <3> QED
        BY <3>3 DEF Misnamed, Env!Clone
    <2>6. CASE KnownHere(0) /\ Env!Refuse
      <3>1. 0 \in DOMAIN Meanings[Innermost]
        BY <1>1, <2>4, <2>6, KnownIs
      <3>2. id # 0
        BY <2>3, <3>1
      <3> QED
        BY <2>6, <3>1, <3>2 DEF Misnamed
    <2>7. CASE Short /\ Env!Refuse
      BY <2>7
    <2> QED
      BY <1>1, <2>1, <2>2, <2>4, <2>5, <2>6, <2>7, EnterServes
  <1> QED
    BY <1>6, <1>7, <1>8

(* Scopes of which an unknown identifier is removed are as they were.      *)
LEMMA UnknownIsUndefine ==
  ASSUME SymbolInv, SymbolInv', NEW id, trees # << >>, UNCHANGED <<trees, result>>,
         id \notin DOMAIN trees[Len(trees)].symbols
  PROVE  Env!Undefine(id)
  <1>1. PICK f : f = MeantBy(trees)
    OBVIOUS
  <1>2. PICK n : n = Len(trees)
    OBVIOUS
  <1>3. Meanings = f /\ Meanings' = f
    <2>1. UNCHANGED trees
      OBVIOUS
    <2> QED
      BY <1>1, <2>1, MeaningsAre, TablesSame
  <1>4. Meanings # << >> /\ Env!Innermost = n /\ id \notin DOMAIN Meanings[n]
        /\ Meanings[n] = MeantIn(trees[n])
    BY <1>2, InnermostMeanings
  <1>5. PICK g : g = MeantIn(trees[n])
    OBVIOUS
  <1>6. g = [i \in DOMAIN g |-> g[i]]
    BY <1>5 DEF MeantIn
  <1>7. f[n] = g /\ id \notin DOMAIN g
    BY <1>3, <1>4, <1>5
  <1>8. DOMAIN g \ {id} = DOMAIN g
    BY <1>7
  <1>9. [i \in DOMAIN g \ {id} |-> g[i]] = g
    BY <1>6, <1>8
  <1>10. f = [k \in DOMAIN f |-> f[k]]
    BY <1>1 DEF MeantBy
  <1>11. [f EXCEPT ![n] = g] = f
    BY <1>7, <1>10
  <1>12. f = [f EXCEPT ![n] = [i \in DOMAIN f[n] \ {id} |-> f[n][i]]]
    BY <1>7, <1>9, <1>11
  <1> QED
    BY <1>3, <1>4, <1>12 DEF Env!Undefine

(* SYMUNDEF removes the meaning, if there is one.                          *)
LEMMA UndefineServes ==
  ASSUME SymbolInv, SymbolInv', NEW id \in Identifiers, SYMUNDEF(id)
  PROVE  status' # "ok" \/ Env!Undefine(id)
  <1>1. trees # << >>
    BY DEF SYMUNDEF, InScope
  <1>2. CASE NothingRemoved(id) /\ status' = "ok"
    <2>1. id \notin DOMAIN trees[Len(trees)].symbols
      BY <1>1, <1>2, KnownIs DEF NothingRemoved
    <2>2. UNCHANGED <<trees, result>>
      BY <1>2 DEF NothingRemoved
    <2> QED
      BY <1>1, <2>1, <2>2, UnknownIsUndefine
  <1>3. CASE Removed(id)
    BY <1>3, RemovedIsUndefine
  <1> QED
    BY <1>2, <1>3, UndefineIs

(* So each instruction serves its identifier.                              *)
LEMMA SymbolServes ==
  ASSUME SymbolInv, SymbolInv', NEW id \in Identifiers
  PROVE  Serves(id)
  <1>1. SYMFIND(id) => Env!Find(id)
    <2> SUFFICES ASSUME SYMFIND(id) PROVE Env!Find(id)
      OBVIOUS
    <2>1. result' = Lookup(Len(trees), id) /\ UNCHANGED trees
      BY DEF SYMFIND, Innermost
    <2> QED
      BY <2>1, FoundIsFind
  <1> QED
    BY <1>1, DefineServes, CloneServes, UndefineServes DEF Serves

(* Theorem.  The symbol tables are nested scopes to every instruction:     *)
(* whatever was defined, cloned and removed before, SYMFIND pushes the     *)
(* innermost meaning of the identifier it asks for, SYMDEF and SYMUNDEF    *)
(* change the meaning of theirs and of no other, as long as symbol_        *)
(* undefine does not break a tree, which stops the model; a clone has the  *)
(* right meaning under the identifier 0.                                   *)
THEOREM SymbolsAreEnvironment == SymbolSpec => IsEnvironment
  <1>1. SymbolInit => Env!Init
    <2> SUFFICES ASSUME SymbolInit
                 PROVE  Env!Init
      OBVIOUS
    <2>1. Len(trees) = 0 /\ result = 0
      BY DEF SymbolInit
    <2>2. Meanings = [k \in 1 .. 0 |-> MeaningsOf(trees[k])]
      BY <2>1 DEF Meanings, Innermost
    <2>3. Meanings = << >>
      BY <2>2
    <2> QED
      BY <2>1, <2>3 DEF Env!Init
  <1>2. SymbolInv /\ SymbolInv' =>
          /\ \A id \in Identifiers : Serves(id)
          /\ OpenScope => Env!Open
          /\ CloseScope => Env!Close
    BY SymbolServes, OpensScope, ClosesScope
  <1> QED
    BY <1>1, <1>2, SymbolsSound, PTL DEF SymbolSpec, IsEnvironment
=============================================================================
