-------------------------------- MODULE Stack ---------------------------------
(***************************************************************************)
(* The data stacks of the contexts (stack.h, with anon_scalar_clone and    *)
(* anon_scalar_destroy as its copy and destroy functions), under the       *)
(* instructions of bytecode.c that work on the top of the stack.           *)
(*                                                                         *)
(* A stack belongs to one context, so an instruction is one action.  Every *)
(* clone of a string or of a reference is counted in "held", and every     *)
(* destruction takes one off; integers need no counting.                   *)
(*                                                                         *)
(* When an assertion fails the process is "aborted"; once it has read      *)
(* memory that was freed it is "wild".                                     *)
(***************************************************************************)
EXTENDS Integers, Sequences, FiniteSets

CONSTANTS
  Owners,       \* the contexts, each of which has a stack
  First,        \* the context that runs from the start
  Ints,         \* the integers that programs push or compute
  Objects,      \* strings, and what references refer to
  Undef,
  InitialSize,  \* STACK_INITIAL_SIZE
  MaxAllocated, \* the largest block calloc can provide
  MaxItems,     \* bound: the number of values on all stacks, or forgotten
  WordBits      \* the width of uintptr_t

ASSUME StackAssumption ==
  /\ First \in Owners
  /\ IsFiniteSet(Owners)
  /\ Ints \subseteq Int
  /\ 0 \in Ints
  /\ Ints \cap (Objects \cup {Undef}) = {}
  /\ Undef \notin Objects
  /\ InitialSize \in Nat
  /\ MaxAllocated \in Nat
  /\ InitialSize <= MaxAllocated
  /\ MaxItems \in Nat

Powers == {2 ^ k : k \in 0 .. WordBits}

HalfWord == 2 ^ (WordBits - 1)

(* Integers are intptr_t, and half of the addresses are more than enough   *)
(* for the slots that fit into memory.  (The provers know nothing of       *)
(* exponents, hence the second conjunct.)                                  *)
ASSUME WordAssumption ==
  /\ WordBits \in Nat \ {0}
  /\ Powers \subseteq Nat
  /\ HalfWord > MaxAllocated + 1
  /\ Ints \subseteq - HalfWord .. HalfWord - 1

Values == Ints \cup Objects \cup {Undef}

VARIABLES
  stacks,       \* m_data_stack of each context
  started,      \* the contexts that have been started and have not ended
  held,         \* how many clones of each object have not been destroyed
  leaked,       \* how many of them nothing can reach any more
  status        \* "ok", "aborted" or "wild"

stackVars == <<stacks, started, held, leaked, status>>

-----------------------------------------------------------------------------
(* The functions of stack.h                                                *)

(* STACK_INIT: calloc leaves every slot undefined.                         *)
NewStack == [items |-> [i \in 0 .. InitialSize - 1 |-> Undef], count |-> 0]

NoStack == [items |-> [i \in {} |-> Undef], count |-> 0]

Allocated(s) == Cardinality(DOMAIN s.items)

(* The smallest power of two that is greater than n.                       *)
nextupow2(n) ==
  CHOOSE p \in Powers : p > n /\ \A q \in Powers : q > n => p <= q

(* STACK_RESERVE                                                           *)
Reserved(s, size) == IF Allocated(s) >= size THEN Allocated(s) ELSE nextupow2(size)

Refused(s, n) == Reserved(s, s.count + n) > MaxAllocated

Moves(s, n) == Reserved(s, s.count + n) > Allocated(s)

(* What a slot holds, before or after the items have been moved to a       *)
(* larger block of zeros.                                                  *)
Slot(s, i) == IF i \in DOMAIN s.items THEN s.items[i] ELSE Undef

Occurs(v, list) == Cardinality({i \in DOMAIN list : list[i] = v})

(* A stack on its way through an instruction, with the count of clones.    *)
Of(c) == [stack |-> stacks[c], held |-> held]

Cloned(m, list) == [m EXCEPT !.held = [o \in Objects |-> @[o] + Occurs(o, list)]]

Destroyed(m, list) == [m EXCEPT !.held = [o \in Objects |-> @[o] - Occurs(o, list)]]

(* The top n items, the topmost first: what STACK_POP puts into results.   *)
Top(m, n) == [i \in 1 .. n |-> m.stack.items[m.stack.count - i]]

(* Mutant of Placed: the values are pushed from the first to the last.     *)
MutantPlaced(s, list) ==
  LET size == Reserved(s, s.count + Len(list)) IN
  [items |-> [i \in 0 .. size - 1 |->
                IF i \in s.count .. s.count + Len(list) - 1
                  THEN list[i - s.count + 1] ELSE Slot(s, i)],
   count |-> s.count + Len(list)]

(* The values in their slots, the first of them on top.                    *)
Placed(s, list) ==
  LET size == Reserved(s, s.count + Len(list)) IN
  [items |-> [i \in 0 .. size - 1 |->
                IF i \in s.count .. s.count + Len(list) - 1
                  THEN list[Len(list) - (i - s.count)] ELSE Slot(s, i)],
   count |-> s.count + Len(list)]

(* The slots that are given up are left undefined by anon_scalar_destroy.  *)
Cut(s, n) ==
  [items |-> [i \in DOMAIN s.items |->
                IF i \in s.count - n .. s.count - 1 THEN Undef ELSE s.items[i]],
   count |-> s.count - n]

(* STACK_PUSH: without memory the values are dropped, and no caller asks.  *)
(* anon_scalar_clone destroys what it finds in the slot.                   *)
Pushed(m, list) ==
  LET s == m.stack
      stale == [i \in 1 .. Len(list) |-> Slot(s, s.count + i - 1)]
  IN IF Refused(s, Len(list)) THEN m
     ELSE [Cloned(Destroyed(m, stale), list) EXCEPT !.stack = Placed(s, list)]

(* STACK_POP with results: each item is cloned and destroyed.  Without     *)
(* (PoppedAway), it is destroyed.                                          *)
Popped(m, n) == [Destroyed(Cloned(m, Top(m, n)), Top(m, n)) EXCEPT !.stack = Cut(m.stack, n)]

(* Mutant of PoppedAway: the items are not destroyed.                      *)
MutantPoppedAway(m, n) == [m EXCEPT !.stack = Cut(m.stack, n)]

PoppedAway(m, n) == [Destroyed(m, Top(m, n)) EXCEPT !.stack = Cut(m.stack, n)]

-----------------------------------------------------------------------------
(* Instructions                                                            *)

StackInit ==
  /\ stacks = [c \in Owners |-> IF c = First THEN NewStack ELSE NoStack]
  /\ started = {First}
  /\ held = [o \in Objects |-> 0]
  /\ leaked = [o \in Objects |-> 0]
  /\ status = "ok"

Running(c) == status = "ok" /\ c \in started

Depth(c) == stacks[c].count

Become(c, m) ==
  /\ stacks' = [stacks EXCEPT ![c] = m.stack]
  /\ held' = m.held
  /\ UNCHANGED <<started, leaked, status>>

Stops(how) == status' = how /\ UNCHANGED <<stacks, started, held, leaked>>

(* STACK_POP asserts that there are n items.                               *)
Underflow(c, n) == Running(c) /\ Depth(c) < n /\ Stops("aborted")

(* BYTE, INT, UNDEF, STR...: a new value is pushed and the instruction's   *)
(* own copy destroyed.                                                     *)
Items == UNION {{c} \X (0 .. Depth(c) - 1) : c \in Owners}

Forgotten == UNION {{o} \X (1 .. leaked[o]) : o \in Objects}

Room == Cardinality(Items) + Cardinality(Forgotten) < MaxItems

PushNew(m, v) == Destroyed(Pushed(Cloned(m, <<v>>), <<v>>), <<v>>)

Literal(c) ==
  /\ Running(c)
  /\ Room
  /\ \E v \in Values : Become(c, PushNew(Of(c), v))

(* ADD, SUBT, AND, LT0, NOT...: n operands are popped, and the integer     *)
(* computed from them is pushed before they are destroyed.                 *)
Operate(c, n) ==
  /\ Running(c)
  /\ Depth(c) >= n
  /\ \E v \in Ints : Become(c, Destroyed(PushNew(Popped(Of(c), n), v), Top(Of(c), n)))

(* JMP0, JMPU: the condition is popped, looked at and destroyed.           *)
Branch(c) ==
  /\ Running(c)
  /\ Depth(c) >= 1
  /\ Become(c, Destroyed(Popped(Of(c), 1), Top(Of(c), 1)))

Drop(c) == Running(c) /\ Depth(c) >= 1 /\ Become(c, PoppedAway(Of(c), 1))

(* STACK_SWAP moves the bytes: nothing is cloned or destroyed.             *)
Swapped(s) ==
  [s EXCEPT !.items = [@ EXCEPT ![s.count - 1] = s.items[s.count - 2],
                                ![s.count - 2] = s.items[s.count - 1]]]

Swap(c) ==
  /\ Running(c)
  /\ Depth(c) > 1
  /\ Become(c, [Of(c) EXCEPT !.stack = Swapped(stacks[c])])

(* DUP and OVER: STACK_PUSH gets a pointer into the block, which it frees  *)
(* when the stack moves to a larger one.                                   *)
Copy(c, depth) ==
  /\ Running(c)
  /\ Depth(c) >= depth
  /\ Room
  /\ IF Moves(stacks[c], 1) /\ ~ Refused(stacks[c], 1) THEN Stops("wild")
     ELSE Become(c, Pushed(Of(c), <<stacks[c].items[Depth(c) - depth]>>))

Dup(c) == Copy(c, 1)

Over(c) == Copy(c, 2)

-----------------------------------------------------------------------------
(* ROT, TOR and REV take a count from the top, and need memory for so many *)
(* values before they pop them.                                            *)

(* The count as size_t: an integer modulo the word, or zero.               *)
Count(c) ==
  LET v == Top(Of(c), 1)[1]
  IN IF v \notin Ints THEN 0 ELSE IF v < 0 THEN v + 2 * HalfWord ELSE v

CountPopped(c) == PoppedAway(Of(c), 1)

Enough(c, n) == Running(c) /\ Depth(c) > n /\ Count(c) = n

TooFew(c, least) ==
  /\ Running(c)
  /\ Depth(c) >= 1
  /\ Count(c) \in least .. MaxAllocated
  /\ Depth(c) <= Count(c)
  /\ Stops("aborted")

NoMemory(c, least) == Running(c) /\ Depth(c) >= 1 /\ Count(c) >= least

(* ROT: the top is pushed first, the others on top of it.                  *)
Rot(c, n) ==
  /\ Enough(c, n)
  /\ LET m == CountPopped(c)
         top == Top(m, 1)
         others == Top(Popped(m, 1), n - 1)
         rotated == Pushed(Pushed(Popped(Popped(m, 1), n - 1), top), others)
     IN Become(c, IF n > 1 THEN Destroyed(rotated, top \o others) ELSE m)

(* TOR: the others are pushed first, the bottom on top of them.            *)
Tor(c, n) ==
  /\ Enough(c, n)
  /\ LET m == CountPopped(c)
         others == Top(m, n - 1)
         bottom == Top(Popped(m, n - 1), 1)
         rotated == Pushed(Pushed(Popped(Popped(m, n - 1), 1), others), bottom)
     IN Become(c, IF n > 1 THEN Destroyed(rotated, others \o bottom) ELSE m)

RotateFails(c) == NoMemory(c, 2) /\ Become(c, CountPopped(c))

(* REV: the items are pushed one by one from the topmost, then the count.  *)
Rev(c, n) ==
  /\ Enough(c, n)
  /\ LET count == Top(Of(c), 1)
         m == Popped(Of(c), 1)
         items == Top(m, n)
         turned == [i \in 1 .. n |-> items[n + 1 - i]]
     IN Become(c, Destroyed(Pushed(Destroyed(Pushed(Popped(m, n), turned), items), count), count))

RevFails(c) == NoMemory(c, 1) /\ Become(c, PushNew(CountPopped(c), 0))

-----------------------------------------------------------------------------
(* CORO moves values to the stack of a new context.                        *)

(* The count as a signed integer.                                          *)
Params(c) == LET v == Top(Of(c), 1)[1] IN IF v \in Ints /\ v > 0 THEN v ELSE 0

MayCoro(c, d) == Running(c) /\ Depth(c) >= 1 /\ d \notin started

(* The parameters leave c, and are put on a new stack.                     *)
Parent(c, n) == Popped(CountPopped(c), n)

Child(c, n) ==
  LET params == Top(CountPopped(c), n)
  IN Destroyed(Pushed([Parent(c, n) EXCEPT !.stack = NewStack], params), params)

CoroStarts(c, d, n) ==
  /\ MayCoro(c, d)
  /\ n = Params(c)
  /\ Depth(c) > n
  /\ stacks' = [stacks EXCEPT ![c] = Parent(c, n).stack, ![d] = Child(c, n).stack]
  /\ held' = Child(c, n).held
  /\ started' = started \cup {d}
  /\ UNCHANGED <<leaked, status>>

(* No memory for the parameters: the context starts without them.          *)
CoroBare(c, d) ==
  /\ MayCoro(c, d)
  /\ Params(c) > 0
  /\ stacks' = [stacks EXCEPT ![c] = CountPopped(c).stack, ![d] = NewStack]
  /\ held' = CountPopped(c).held
  /\ started' = started \cup {d}
  /\ UNCHANGED <<leaked, status>>

(* pthread_create fails: the new context is destroyed again.               *)
CoroUncreated(c, n) ==
  /\ Running(c)
  /\ Depth(c) > n
  /\ n = Params(c)
  /\ Become(c, [Destroyed(Child(c, n), Top(Child(c, n), Child(c, n).stack.count))
                  EXCEPT !.stack = Parent(c, n).stack])

(* No memory for the new context: the clones in params are forgotten.      *)
CoroForgets(c, n) ==
  /\ Running(c)
  /\ Depth(c) > n
  /\ n = Params(c)
  /\ stacks' = [stacks EXCEPT ![c] = Parent(c, n).stack]
  /\ held' = Parent(c, n).held
  /\ leaked' = [o \in Objects |-> leaked[o] + Occurs(o, Top(CountPopped(c), n))]
  /\ UNCHANGED <<started, status>>

CoroTooFew(c) ==
  /\ Running(c)
  /\ Depth(c) >= 1
  /\ Params(c) \in Depth(c) .. MaxAllocated
  /\ Stops("aborted")

(* STACK_DESTROY, when the context ends.                                   *)
End(c) ==
  /\ Running(c)
  /\ stacks' = [stacks EXCEPT ![c] = NoStack]
  /\ held' = Destroyed(Of(c), Top(Of(c), Depth(c))).held
  /\ started' = started \ {c}
  /\ UNCHANGED <<leaked, status>>

StackNext ==
  \E c \in Owners :
    \/ Literal(c) \/ Branch(c) \/ Drop(c) \/ Swap(c) \/ Dup(c) \/ Over(c) \/ End(c)
    \/ \E n \in 1 .. 2 : Operate(c, n) \/ Underflow(c, n)
    \/ TooFew(c, 1) \/ RotateFails(c) \/ RevFails(c) \/ CoroTooFew(c)
    \/ \E n \in 0 .. Depth(c) :
         Rot(c, n) \/ Tor(c, n) \/ Rev(c, n) \/ CoroUncreated(c, n) \/ CoroForgets(c, n)
    \/ \E d \in Owners :
         CoroBare(c, d) \/ \E n \in 0 .. Depth(c) : CoroStarts(c, d, n)

StackSpec == StackInit /\ [][StackNext]_stackVars

-----------------------------------------------------------------------------
(* Properties                                                              *)

(* A stack has a block of slots at least as long as its contents.          *)
StackTypeOK ==
  /\ \A c \in Owners :
       LET s == stacks[c] IN
       /\ s.count \in Nat
       /\ DOMAIN s.items = 0 .. Allocated(s) - 1
       /\ s.count <= Allocated(s) /\ Allocated(s) <= MaxAllocated
       /\ \A i \in DOMAIN s.items : s.items[i] \in Values
  /\ started \subseteq Owners
  /\ held \in [Objects -> Nat]
  /\ leaked \in [Objects -> Nat]
  /\ status \in {"ok", "aborted", "wild"}

(* The slots above the top are undefined.  A push clones into them, and    *)
(* would destroy what an earlier pop or a growth left there a second time. *)
FreeSlotsUndefined ==
  \A c \in Owners : \A i \in DOMAIN stacks[c].items :
    i >= Depth(c) => stacks[c].items[i] = Undef

(* Strings and references pass through pops, pushes and growth without     *)
(* being freed early or twice: of each, as many clones are alive as there  *)
(* are on the stacks and among the parameters that a failed CORO forgot.   *)
ClonesExact ==
  /\ StackTypeOK
  /\ FreeSlotsUndefined
  /\ \A o \in Objects :
       held[o] = leaked[o] + Cardinality({x \in Items : stacks[x[1]].items[x[2]] = o})

(* The values on a stack, the top at the end.                              *)
Contents(s) == [i \in 1 .. s.count |-> s.items[i - 1]]

(* The stack instructions have their documented effects on sequences of    *)
(* values, in every context, whatever blocks the stacks live in.           *)
Operands == INSTANCE OperandStack WITH
  Contexts <- Owners,
  seqs <- [c \in Owners |-> Contents(stacks[c])]

IsOperandStack == Operands!Spec

(* Not so: DUP and OVER read their operand from the block they are given.  *)
NeverWild == status # "wild"
=============================================================================
