------------------------------- MODULE Channel -------------------------------
(***************************************************************************)
(* One channel_t (channel.c): a ring buffer of scalars guarded by the      *)
(* mutex of its pool wrapper, with the condition variables m_has_items and *)
(* m_has_space, used by any number of execution contexts through CRREAD,   *)
(* CRTRYRD and CRWRITE.                                                    *)
(*                                                                         *)
(* Atomicity.  The mutex is released only inside pthread_cond_wait and     *)
(* pthread_cond_timedwait and at the end of each function, so each stretch *)
(* between those points is one action.  The pthread_cond_signal that       *)
(* channel_read and channel_write issue AFTER unlocking is an action of    *)
(* its own: any context may run between the unlock and the signal.         *)
(*                                                                         *)
(* Data.  The n-th value ever cloned into the ring is the number n.        *)
(***************************************************************************)
EXTENDS Integers, FiniteSets

CONSTANTS
  Threads,       \* the execution contexts that use the channel
  InitialSize,   \* _channel_initial_size (16 in the code)
  MaxAllocated,  \* the largest ring calloc can provide
  MaxWrites      \* bound: the number of values ever written

ASSUME ChannelAssumption ==
  /\ IsFiniteSet(Threads)
  /\ InitialSize \in Nat \ {0}
  /\ MaxAllocated \in Nat
  /\ MaxWrites \in Nat

Undef == 0       \* SCALAR_UNDEF: what calloc leaves in a slot

VARIABLES
  items,         \* m_items, indexed from 0
  allocated,     \* m_allocated_count
  start,         \* m_start
  count,         \* m_count
  written,       \* the number of values cloned into the ring so far
  pc,            \* where each context is in its current instruction
  result         \* the scalar a reading instruction is filling in

ring == <<items, allocated, start, count, written>>
vars == <<items, allocated, start, count, written, pc, result>>

(***************************************************************************)
(* The points at which a context can be:                                   *)
(*   idle         not using the channel                                    *)
(*   read         about to lock (or re-lock) the mutex in channel_read     *)
(*   readwait     asleep on m_has_items                                    *)
(*   signalspace  has read and unlocked, about to signal m_has_space       *)
(*   tryread      about to lock the mutex in channel_tryread               *)
(*   push         read finished, about to push the result and destroy it   *)
(*   write        about to lock (or re-lock) the mutex in channel_write    *)
(*   writewait    asleep on m_has_space                                    *)
(*   expired      timed wait over, about to re-lock the mutex              *)
(*   signalitems  has written and unlocked, about to signal m_has_items    *)
(***************************************************************************)
Locations ==
  {"idle", "read", "readwait", "signalspace", "tryread", "push",
   "write", "writewait", "expired", "signalitems"}

At(places) == {t \in Threads : pc[t] \in places}

Goto(t, place) == pc' = [pc EXCEPT ![t] = place]

(* The slot of the i-th queued value, counting from 0.                     *)
Slot(i) == (start + i) % allocated

Init ==
  /\ items = [i \in 0 .. InitialSize - 1 |-> Undef]
  /\ allocated = InitialSize
  /\ start = 0
  /\ count = 0
  /\ written = 0
  /\ pc = [t \in Threads |-> "idle"]
  /\ result = [t \in Threads |-> Undef]

-----------------------------------------------------------------------------
(* Condition variables                                                     *)

(* pthread_cond_signal by t, which then continues at "next": one context   *)
(* asleep at "asleep" wakes and must re-lock the mutex at "awake".  With   *)
(* nobody asleep the signal is lost.                                       *)
SignalAndGoto(t, asleep, awake, next) ==
  \/ /\ At({asleep}) = {}
     /\ Goto(t, next)
  \/ \E u \in At({asleep}) :
        pc' = [pc EXCEPT ![t] = next, ![u] = awake]

(* POSIX lets a wait return without a signal; both loops re-check.         *)
SpuriousWakeup(t) ==
  /\ \/ pc[t] = "readwait" /\ Goto(t, "read")
     \/ pc[t] = "writewait" /\ Goto(t, "write")
  /\ UNCHANGED <<ring, result>>

-----------------------------------------------------------------------------
(* channel_read and channel_tryread                                        *)

(* Mutant of TakeItem: m_start is not wrapped.                             *)
MutantTakeItem(t) ==
  /\ result' = [result EXCEPT ![t] = items[start]]
  /\ start' = start + 1
  /\ count' = count - 1
  /\ UNCHANGED <<items, allocated, written>>

(* Moves the oldest value out of the ring.  The scalar is copied bit for   *)
(* bit (anon_scalar_assign) and the slot keeps its old content.            *)
TakeItem(t) ==
  /\ result' = [result EXCEPT ![t] = items[start]]
  /\ start' = (start + 1) % allocated
  /\ count' = count - 1
  /\ UNCHANGED <<items, allocated, written>>

ReadBegin(t) ==
  /\ pc[t] = "idle"
  /\ Goto(t, "read")
  /\ UNCHANGED <<ring, result>>

ReadWait(t) ==
  /\ pc[t] = "read"
  /\ count = 0
  /\ Goto(t, "readwait")
  /\ UNCHANGED <<ring, result>>

ReadTake(t) ==
  /\ pc[t] = "read"
  /\ count > 0
  /\ TakeItem(t)
  /\ Goto(t, "signalspace")

ReadSignal(t) ==
  /\ pc[t] = "signalspace"
  /\ SignalAndGoto(t, "writewait", "write", "push")
  /\ UNCHANGED <<ring, result>>

TryReadBegin(t) ==
  /\ pc[t] = "idle"
  /\ Goto(t, "tryread")
  /\ UNCHANGED <<ring, result>>

(* On success no context is told that there is space again.                *)
TryReadTake(t) ==
  /\ pc[t] = "tryread"
  /\ count > 0
  /\ TakeItem(t)
  /\ Goto(t, "push")

TryReadWouldBlock(t) ==
  /\ pc[t] = "tryread"
  /\ count = 0
  /\ Goto(t, "push")
  /\ UNCHANGED <<ring, result>>

(* The rest of CRREAD and CRTRYRD: the value is cloned onto the data stack *)
(* and the instruction's own scalar destroyed.                             *)
PushResult(t) ==
  /\ pc[t] = "push"
  /\ result' = [result EXCEPT ![t] = Undef]
  /\ Goto(t, "idle")
  /\ UNCHANGED ring

-----------------------------------------------------------------------------
(* channel_write                                                           *)

(* _channel_reserve_unlocked: the queued values moved to the front of a    *)
(* zeroed ring of the given size, first the run up to the end of the old   *)
(* ring, then the run that had wrapped.                                    *)
Straight == IF allocated - start > count THEN count ELSE allocated - start

(* Mutant of Compacted: the ring is copied as realloc would, unrotated.    *)
MutantCompacted(size) ==
  [i \in 0 .. size - 1 |-> IF i < allocated THEN items[i] ELSE Undef]

Compacted(size) ==
  [i \in 0 .. size - 1 |->
     IF i < Straight THEN items[start + i]
     ELSE IF i < count THEN items[i - Straight] ELSE Undef]

(* Mutant of Enqueue: the signal after the unlock is forgotten.            *)
MutantEnqueue(t, slots, size, first) ==
  /\ items' = [slots EXCEPT ![(first + count) % size] = written + 1]
  /\ allocated' = size
  /\ start' = first
  /\ count' = count + 1
  /\ written' = written + 1
  /\ Goto(t, "idle")
  /\ UNCHANGED result

(* Clones the next value in behind the queued ones, in a ring "slots" of   *)
(* the given size whose oldest value is at "first", and unlocks.           *)
Enqueue(t, slots, size, first) ==
  /\ items' = [slots EXCEPT ![(first + count) % size] = written + 1]
  /\ allocated' = size
  /\ start' = first
  /\ count' = count + 1
  /\ written' = written + 1
  /\ Goto(t, "signalitems")
  /\ UNCHANGED result

(* The number of writes begun; MaxWrites bounds it, so a write that has    *)
(* begun is never cut short by the bound.                                  *)
WritesBegun == written + Cardinality(At({"write", "writewait", "expired"}))

WriteBegin(t) ==
  /\ pc[t] = "idle"
  /\ WritesBegun < MaxWrites
  /\ Goto(t, "write")
  /\ UNCHANGED <<ring, result>>

WriteEnqueue(t) ==
  /\ pc[t] = "write"
  /\ count < allocated
  /\ Enqueue(t, items, allocated, start)

WriteWait(t) ==
  /\ pc[t] = "write"
  /\ count >= allocated
  /\ Goto(t, "writewait")
  /\ UNCHANGED <<ring, result>>

(* Mutant of WriteExpire: ETIMEDOUT is treated like a wake-up.             *)
MutantWriteExpire(t) ==
  /\ pc[t] = "writewait"
  /\ Goto(t, "write")
  /\ UNCHANGED <<ring, result>>

(* The deadline, ten seconds after the write began, passes: the context    *)
(* leaves the waiters of m_has_space but has not yet got the mutex back.   *)
WriteExpire(t) ==
  /\ pc[t] = "writewait"
  /\ Goto(t, "expired")
  /\ UNCHANGED <<ring, result>>

(* ETIMEDOUT: with the mutex back the ring is doubled whether or not space *)
(* has appeared meanwhile; then the loop condition is false and the value  *)
(* goes in before the mutex is released.                                   *)
WriteGrow(t) ==
  /\ pc[t] = "expired"
  /\ 2 * allocated <= MaxAllocated
  /\ Enqueue(t, Compacted(2 * allocated), 2 * allocated, 0)

(* calloc fails: the result of _channel_reserve_unlocked is ignored.       *)
WriteGrowFails(t) ==
  /\ pc[t] = "expired"
  /\ 2 * allocated > MaxAllocated
  /\ \/ /\ count < allocated
        /\ Enqueue(t, items, allocated, start)
     \/ /\ count >= allocated
        /\ Goto(t, "writewait")
        /\ UNCHANGED <<ring, result>>

WriteSignal(t) ==
  /\ pc[t] = "signalitems"
  /\ SignalAndGoto(t, "readwait", "read", "idle")
  /\ UNCHANGED <<ring, result>>

-----------------------------------------------------------------------------

(* What a context that has entered the channel does by itself.             *)
Proceed(t) ==
  \/ ReadWait(t) \/ ReadTake(t) \/ ReadSignal(t)
  \/ TryReadTake(t) \/ TryReadWouldBlock(t) \/ PushResult(t)
  \/ WriteEnqueue(t) \/ WriteWait(t)
  \/ WriteGrow(t) \/ WriteGrowFails(t) \/ WriteSignal(t)

Begin(t) == ReadBegin(t) \/ TryReadBegin(t) \/ WriteBegin(t)

Next ==
  \E t \in Threads :
     Begin(t) \/ Proceed(t) \/ WriteExpire(t) \/ SpuriousWakeup(t)

Spec == Init /\ [][Next]_vars

(***************************************************************************)
(* Fairness.  A context that is not asleep keeps running and eventually    *)
(* gets the mutex (no critical section blocks).  The deadline of a write   *)
(* is absolute (m_has_space is waited for until time() + 10 as taken when  *)
(* the write began), so however often the wait is interrupted and entered  *)
(* again it expires: strong fairness.  Nothing forces a context to begin   *)
(* an instruction, and spurious wake-ups need not happen.                  *)
(***************************************************************************)
FairSpec ==
  /\ Spec
  /\ \A t \in Threads : WF_vars(Proceed(t)) /\ SF_vars(WriteExpire(t))

-----------------------------------------------------------------------------
(* Properties                                                              *)

(* Types of the variables; the ring indices stay inside the ring.          *)
TypeOK ==
  /\ allocated \in Nat \ {0}
  /\ items \in [0 .. allocated - 1 -> Nat]
  /\ start \in 0 .. allocated - 1
  /\ count \in 0 .. allocated
  /\ written \in Nat
  /\ pc \in [Threads -> Locations]
  /\ result \in [Threads -> Nat]

(* No wake-up is lost between channel_write's unlock and its signal: while *)
(* a reader sleeps on m_has_items, every queued value is matched by a      *)
(* context that will signal or by an awake reader about to lock.           *)
NoLostWakeup ==
  At({"readwait"}) # {} => count <= Cardinality(At({"read", "signalitems"}))

(* The ring holds exactly the last "count" values written, in the order of *)
(* writing, through wrap-around and growth: channel_write never overwrites *)
(* a queued value and _channel_reserve_unlocked loses or reorders none.    *)
QueueInOrder ==
  /\ count <= written
  /\ \A i \in 0 .. count - 1 : items[Slot(i)] = written - count + 1 + i

(* The abstract channel, its queue read off the ring from m_start.         *)
Queue == [i \in 1 .. count |-> items[Slot(i - 1)]]

Fifo == INSTANCE FifoChannel WITH queue <- Queue, sent <- written

(* The ring buffer with its mutex, condition variables and growth          *)
(* implements a first-in first-out queue (channel_read, channel_tryread,   *)
(* channel_write).                                                         *)
IsFifo == Fifo!Spec

(* "If the channel is currently at capacity, blocks until either space is  *)
(* available, or wait_timeout expires" (channel.c, channel_write): a       *)
(* writer asleep while the ring has space has a wake-up on its way.        *)
WriterToldOfSpace ==
  At({"writewait"}) # {} /\ count < allocated
    => At({"signalspace", "write", "expired"}) # {}

(* A value does not stay in the channel while a reader sleeps on it: the   *)
(* signal after the unlock always ends in some reader taking the value.    *)
ItemReachesReader ==
  \A n \in 1 .. MaxWrites :
     (n \in written - count + 1 .. written /\ At({"readwait"}) # {})
        ~> (n <= written - count \/ At({"readwait"}) = {})

(* A write ends, whoever reads: space is signalled, or the deadline passes *)
(* and the ring is doubled (channel_write).                                *)
WriteEnds ==
  \A t \in Threads :
     pc[t] \in {"write", "writewait", "expired"} ~> pc[t] = "idle"
=============================================================================
