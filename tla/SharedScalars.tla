---------------------------- MODULE SharedScalars -----------------------------
(***************************************************************************)
(* Pooled scalars that several contexts reach (scalar.h, scalar.c, pool.h), *)
(* under SRREAD, SRWRITE, SRLOCK, SRUNLOCK and what the data stack does     *)
(* with references.  The scalars were defined with SYMBOL_FLAG_SHARED, so   *)
(* each has a mutex, which is recursive.  A scalar's value can be a         *)
(* reference to another, and is released or cloned, which takes that        *)
(* one's mutex, while the first is locked.                                  *)
(*                                                                         *)
(* What a context has still to do in its instruction is a list of steps,    *)
(* "todo"; a step may put others in front of the rest.  A critical section  *)
(* that only counts a reference is one step, and so is the part of it       *)
(* between taking the mutex and the first call that takes another.          *)
(*                                                                         *)
(* "holds" are a context's references, on its data stack, in its symbols    *)
(* and in the variables of the function it is in (Stack has the clones that *)
(* come and go with every push and pop).  Programs follow two rules, which  *)
(* are CONSTANT Refers and operator Permitted.                              *)
(***************************************************************************)
EXTENDS Integers, Sequences, FiniteSets

CONSTANTS
  Threads,      \* the execution contexts
  Scalars,      \* the shared scalars
  Undef,        \* a value that is no reference: undefined, integer, string
  Nobody,       \* the owner of a free mutex
  Refers,       \* the pairs of scalars of which the first may, directly or
                \* through others, refer to the second
  MaxHolds,     \* bound: the references of one context to one scalar
  MaxLocks      \* bound: how often a context locks a scalar without unlocking

ASSUME SharedScalarsAssumption ==
  /\ IsFiniteSet(Threads)
  /\ IsFiniteSet(Scalars)
  /\ Refers \subseteq Scalars \X Scalars
  /\ \A p, q \in Refers : p[2] = q[1] => <<p[1], q[2]>> \in Refers
  /\ Undef \notin Scalars
  /\ Nobody \notin Threads
  /\ MaxHolds \in Nat
  /\ MaxLocks \in Nat

VARIABLES
  value,        \* m_value of each scalar
  refs,         \* m_references of each; 0 when it has been freed
  owner,        \* the context that has locked each scalar's mutex
  depth,        \* how often it has
  holds,        \* per context, the number of its references to each scalar
  locked,       \* per context, how many SRLOCKs of each it has not undone
  todo          \* per context, the steps its instruction has still to take

vars == <<value, refs, owner, depth, holds, locked, todo>>

Init ==
  /\ value = [x \in Scalars |-> Undef]
  /\ refs = [x \in Scalars |-> Cardinality(Threads)]
  /\ owner = [x \in Scalars |-> Nobody]
  /\ depth = [x \in Scalars |-> 0]
  /\ holds = [t \in Threads |-> [x \in Scalars |-> 1]]
  /\ locked = [t \in Threads |-> [x \in Scalars |-> 0]]
  /\ todo = [t \in Threads |-> <<>>]

-----------------------------------------------------------------------------
(* Steps                                                                   *)

(* Takes the next step of t, which is op on x; "first" comes in its place. *)
Take(t, op, x, first) ==
  /\ todo[t] # <<>>
  /\ Head(todo[t])[1] = op
  /\ Head(todo[t])[2] = x
  /\ todo' = [todo EXCEPT ![t] = first \o Tail(@)]

Gains(t, x) == holds' = [holds EXCEPT ![t][x] = @ + 1]

Loses(t, x) == holds' = [holds EXCEPT ![t][x] = @ - 1]

(* pthread_mutex_lock on a recursive mutex                                 *)
Available(t, x) == owner[x] \in {Nobody, t}

Locks(t, x) ==
  /\ Available(t, x)
  /\ owner' = [owner EXCEPT ![x] = t]
  /\ depth' = [depth EXCEPT ![x] = @ + 1]

(* Mutant of Unlocks: the mutex is not counted down.                       *)
MutantUnlocks(t, x) == UNCHANGED <<owner, depth>>

(* pthread_mutex_unlock: refused to all but the owner, whom nobody asks.   *)
Unlocks(t, x) ==
  IF owner[x] # t THEN UNCHANGED <<owner, depth>>
  ELSE /\ depth' = [depth EXCEPT ![x] = @ - 1]
       /\ owner' = [owner EXCEPT ![x] = IF depth[x] = 1 THEN Nobody ELSE t]

(* POOL_LOCK and POOL_UNLOCK by themselves                                 *)
LockStep(t, x) ==
  /\ Take(t, "lock", x, <<>>)
  /\ Locks(t, x)
  /\ UNCHANGED <<value, refs, holds, locked>>

UnlockStep(t, x) ==
  /\ Take(t, "unlock", x, <<>>)
  /\ Unlocks(t, x)
  /\ UNCHANGED <<value, refs, holds, locked>>

(* Mutant of ReferenceStep: the reference is copied and not counted.       *)
MutantReferenceStep(t, x) ==
  /\ Take(t, "reference", x, <<>>)
  /\ Available(t, x)
  /\ Gains(t, x)
  /\ UNCHANGED <<value, refs, owner, depth, locked>>

(* POOL_REFERENCE                                                          *)
ReferenceStep(t, x) ==
  /\ Take(t, "reference", x, <<>>)
  /\ Available(t, x)
  /\ refs' = [refs EXCEPT ![x] = @ + 1]
  /\ Gains(t, x)
  /\ UNCHANGED <<value, owner, depth, locked>>

(* POOL_RELEASE of a reference that is not the last, and of the last: the  *)
(* value is destroyed with the mutex held.                                 *)
ReleaseStep(t, x) ==
  /\ Take(t, "release", x, <<>>)
  /\ Available(t, x)
  /\ refs[x] > 1
  /\ refs' = [refs EXCEPT ![x] = @ - 1]
  /\ Loses(t, x)
  /\ UNCHANGED <<value, owner, depth, locked>>

ReleaseLastStep(t, x) ==
  /\ Take(t, "release", x, <<<<"clear", x>>, <<"free", x>>>>)
  /\ refs[x] = 1
  /\ Locks(t, x)
  /\ UNCHANGED <<value, refs, holds, locked>>

(* The mutex is unlocked, destroyed and freed, the object as well.         *)
FreeStep(t, x) ==
  /\ Take(t, "free", x, <<>>)
  /\ refs' = [refs EXCEPT ![x] = 0]
  /\ owner' = [owner EXCEPT ![x] = Nobody]
  /\ depth' = [depth EXCEPT ![x] = 0]
  /\ Loses(t, x)
  /\ UNCHANGED <<value, locked>>

(* Mutant of ClearStep: the value is forgotten and not released.           *)
MutantClearStep(t, x) ==
  /\ Take(t, "clear", x, <<>>)
  /\ value' = [value EXCEPT ![x] = Undef]
  /\ UNCHANGED <<refs, owner, depth, holds, locked>>

(* anon_scalar_destroy: a reference is released, once nobody finds it.     *)
ClearStep(t, x) ==
  LET v == value[x] IN
  /\ Take(t, "clear", x, IF v = Undef THEN <<>> ELSE <<<<"release", v>>>>)
  /\ value' = [value EXCEPT ![x] = Undef]
  /\ IF v = Undef THEN UNCHANGED holds ELSE Gains(t, v)
  /\ UNCHANGED <<refs, owner, depth, locked>>

(* anon_scalar_clone from the scalar: a reference is referenced.           *)
GetStep(t, x) ==
  /\ Take(t, "get", x, IF value[x] = Undef THEN <<>> ELSE <<<<"reference", value[x]>>>>)
  /\ UNCHANGED <<value, refs, owner, depth, holds, locked>>

(* The end of anon_scalar_clone into the scalar: it has the reference now. *)
PutStep(t, x) ==
  LET v == Head(todo[t])[3] IN
  /\ Take(t, "put", x, <<>>)
  /\ value' = [value EXCEPT ![x] = v]
  /\ IF v = Undef THEN UNCHANGED holds ELSE Loses(t, v)
  /\ UNCHANGED <<refs, owner, depth, locked>>

-----------------------------------------------------------------------------
(* Instructions                                                            *)

Reach(x) == {x} \cup {y \in Scalars : <<x, y>> \in Refers}

(* The second rule.  While a program has locked a scalar it uses only this *)
(* one and what it may refer to, and it keeps a reference to it.  "spent"  *)
(* is how many of its references to x the instruction takes.               *)
Permitted(t, x, spent) ==
  /\ todo[t] = <<>>
  /\ holds[t][x] >= spent
  /\ \A y \in Scalars : locked[t][y] > 0 => x \in Reach(y)
  /\ locked[t][x] > 0 => holds[t][x] > spent

Begin(t, steps) ==
  /\ todo' = [todo EXCEPT ![t] = steps]
  /\ UNCHANGED <<value, refs, owner, depth, holds>>

SRREAD(t, x) ==
  /\ Permitted(t, x, 1)
  /\ \A y \in Scalars : holds[t][y] < MaxHolds
  /\ Begin(t, <<<<"lock", x>>, <<"get", x>>, <<"unlock", x>>, <<"release", x>>>>)
  /\ UNCHANGED locked

(* Mutant of SRWRITE: the value's scalar is locked too, and locked first.  *)
LocksBoth(t, x, v) ==
  /\ Permitted(t, x, 1)
  /\ v # Undef => <<x, v>> \in Refers /\ Permitted(t, v, 1)
  /\ Begin(t, IF v = Undef
                THEN <<<<"lock", x>>, <<"clear", x>>, <<"put", x, v>>,
                       <<"unlock", x>>, <<"release", x>>>>
                ELSE <<<<"lock", v>>, <<"lock", x>>, <<"clear", x>>,
                       <<"reference", v>>, <<"put", x, v>>, <<"unlock", x>>,
                       <<"unlock", v>>, <<"release", v>>, <<"release", x>>>>)
  /\ UNCHANGED locked

(* Mutant of SRWRITE: the mutex is unlocked when the old value is gone.    *)
UnlocksEarly(t, x, v) ==
  /\ Permitted(t, x, 1)
  /\ v # Undef => <<x, v>> \in Refers /\ Permitted(t, v, 1)
  /\ Begin(t, <<<<"lock", x>>, <<"clear", x>>, <<"unlock", x>>>>
              \o (IF v = Undef THEN <<>> ELSE <<<<"reference", v>>>>)
              \o <<<<"put", x, v>>>>
              \o (IF v = Undef THEN <<>> ELSE <<<<"release", v>>>>)
              \o <<<<"release", x>>>>)
  /\ UNCHANGED locked

SRWRITE(t, x, v) ==
  /\ Permitted(t, x, 1)
  /\ v # Undef => <<x, v>> \in Refers /\ Permitted(t, v, IF v = x THEN 2 ELSE 1)
  /\ Begin(t, <<<<"lock", x>>, <<"clear", x>>>>
              \o (IF v = Undef THEN <<>> ELSE <<<<"reference", v>>>>)
              \o <<<<"put", x, v>>, <<"unlock", x>>>>
              \o (IF v = Undef THEN <<>> ELSE <<<<"release", v>>>>)
              \o <<<<"release", x>>>>)
  /\ UNCHANGED locked

(* SRLOCK: vm_ds_top clones the reference, which is destroyed at the end.  *)
SRLOCK(t, x) ==
  /\ Permitted(t, x, 0)
  /\ holds[t][x] > 0
  /\ locked[t][x] < MaxLocks
  /\ Begin(t, <<<<"reference", x>>, <<"lock", x>>, <<"release", x>>>>)
  /\ locked' = [locked EXCEPT ![t][x] = @ + 1]

(* SRUNLOCK of a scalar the context has not locked has no effect.          *)
SRUNLOCK(t, x) ==
  /\ Permitted(t, x, IF locked[t][x] = 1 THEN 0 ELSE 1)
  /\ holds[t][x] > 0
  /\ Begin(t, <<<<"unlock", x>>, <<"release", x>>>>)
  /\ locked' = [locked EXCEPT ![t][x] = IF @ > 0 THEN @ - 1 ELSE 0]

(* DUP, OVER, SYMFIND and the like; DROP, the end of a scope and the like. *)
Copy(t, x) ==
  /\ Permitted(t, x, 0)
  /\ holds[t][x] \in 1 .. MaxHolds - 1
  /\ Begin(t, <<<<"reference", x>>>>)
  /\ UNCHANGED locked

Drop(t, x) ==
  /\ Permitted(t, x, 1)
  /\ Begin(t, <<<<"release", x>>>>)
  /\ UNCHANGED locked

Instruction(t) ==
  \E x \in Scalars :
    \/ SRREAD(t, x) \/ SRLOCK(t, x) \/ SRUNLOCK(t, x) \/ Copy(t, x) \/ Drop(t, x)
    \/ \E v \in Scalars \cup {Undef} : SRWRITE(t, x, v)

Step(t) ==
  \E x \in Scalars :
    \/ LockStep(t, x) \/ UnlockStep(t, x) \/ ReferenceStep(t, x)
    \/ ReleaseStep(t, x) \/ ReleaseLastStep(t, x) \/ FreeStep(t, x)
    \/ ClearStep(t, x) \/ GetStep(t, x) \/ PutStep(t, x)

Next == \E t \in Threads : Instruction(t) \/ Step(t)

Spec == Init /\ [][Next]_vars

-----------------------------------------------------------------------------
(* Properties                                                              *)

Kinds == {"lock", "unlock", "reference", "release", "clear", "free", "get"}

Steps == Kinds \X Scalars \cup {"put"} \X Scalars \X (Scalars \cup {Undef})

TypeOK ==
  /\ value \in [Scalars -> Scalars \cup {Undef}]
  /\ refs \in [Scalars -> Nat]
  /\ owner \in [Scalars -> Threads \cup {Nobody}]
  /\ depth \in [Scalars -> Nat]
  /\ \A x \in Scalars : owner[x] = Nobody <=> depth[x] = 0
  /\ holds \in [Threads -> [Scalars -> Nat]]
  /\ locked \in [Threads -> [Scalars -> Nat]]
  /\ todo \in [Threads -> Seq(Steps)]

HeldTokens(x) == UNION {{t} \X (1 .. holds[t][x]) : t \in Threads}

(* m_references counts the references that contexts hold and the scalars   *)
(* whose value is one, between any two steps of any instructions.          *)
RefsExact ==
  \A x \in Scalars :
    refs[x] = Cardinality(HeldTokens(x)) + Cardinality({y \in Scalars : value[y] = x})

(* No context has anything left to do with a scalar that has been freed:   *)
(* the assertions POOL_HANDLE_IN_USE cannot fail, and nobody is about to   *)
(* lock a mutex that is gone.                                              *)
FreedIsForgotten ==
  \A t \in Threads : \A i \in DOMAIN todo[t] : refs[todo[t][i][2]] > 0

(* A scalar's value is read and changed, and the scalar is freed, only by  *)
(* the context that has its mutex, so that what a program does between     *)
(* SRLOCK and SRUNLOCK happens to it at once.                              *)
OnlyOwnerChanges ==
  [][\A x \in Scalars :
       value'[x] # value[x] \/ (refs'[x] = 0 /\ refs[x] > 0) =>
         \E t \in Threads : owner[x] = t /\ todo'[t] # todo[t]]_vars

(* Between instructions a context owns exactly the mutexes its program has *)
(* locked and not unlocked, as often as it has; and whenever a mutex is     *)
(* free it has been unlocked as often as locked (TypeOK).                  *)
LocksReturned ==
  /\ TypeOK
  /\ \A t \in Threads : todo[t] = <<>> =>
       \A x \in Scalars : (IF owner[x] = t THEN depth[x] ELSE 0) = locked[t][x]

(* The scalar whose mutex the next step of a context needs                 *)
Wanted(t) ==
  IF todo[t] # <<>> /\ Head(todo[t])[1] \in {"lock", "reference", "release"}
    THEN {Head(todo[t])[2]} ELSE {}

(* If no chain of references leads from a scalar to itself, no contexts    *)
(* wait for each other's mutexes in a circle, although values are released *)
(* and cloned with the mutex held.                                         *)
NoCircularWait ==
  \A ts \in (SUBSET Threads) \ {{}} :
    \E t \in ts : \A x \in Wanted(t) : owner[x] \notin ts \ {t}
=============================================================================
