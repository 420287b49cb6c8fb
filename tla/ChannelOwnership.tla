-------------------------- MODULE ChannelOwnership --------------------------
(***************************************************************************)
(* Who destroys the scalars that pass through a channel.  channel_write    *)
(* clones its value into a slot, channel_read copies the slot bit for bit  *)
(* into the reader's scalar and leaves the slot as it was, and the reader  *)
(* destroys its scalar.  This module adds to Channel the number of times   *)
(* each clone is destroyed (a string freed, a reference released), and the *)
(* end of the channel itself.  Values are strings or references throughout *)
(* (destroying a number does nothing).                                     *)
(***************************************************************************)
EXTENDS Channel

VARIABLES
  destroys,      \* how often the n-th clone has been destroyed
  released       \* the last reference to the channel is gone

ovars == <<vars, destroys, released>>

OInit ==
  /\ Init
  /\ destroys = [n \in 1 .. MaxWrites |-> 0]
  /\ released = FALSE

(* anon_scalar_destroy of a scalar holding n.                              *)
Destroy(n) ==
  destroys' = IF n = Undef THEN destroys ELSE [destroys EXCEPT ![n] = @ + 1]

(* Mutant of CloneIntoSlot: the slot before the next one is destroyed.     *)
MutantCloneIntoSlot(t) ==
  /\ count < allocated
  /\ WriteEnqueue(t) \/ WriteGrowFails(t)
  /\ Destroy(items[Slot(count - 1)])

(* anon_scalar_clone destroys what the slot holds before it fills it.      *)
CloneIntoSlot(t) ==
  /\ count < allocated
  /\ WriteEnqueue(t) \/ WriteGrowFails(t)
  /\ Destroy(items[Slot(count)])

(* CRREAD and CRTRYRD destroy their scalar once it is pushed.              *)
DestroyResult(t) == PushResult(t) /\ Destroy(result[t])

(* No scalar is destroyed: the slots of a doubled ring beyond the queued   *)
(* values are zeroed.                                                      *)
NoDestruction(t) ==
  /\ \/ Begin(t) \/ WriteExpire(t) \/ SpuriousWakeup(t)
     \/ ReadWait(t) \/ ReadTake(t) \/ ReadSignal(t)
     \/ TryReadTake(t) \/ TryReadWouldBlock(t)
     \/ WriteWait(t) \/ WriteGrow(t) \/ WriteSignal(t)
     \/ WriteGrowFails(t) /\ count >= allocated
  /\ UNCHANGED destroys

(* The last reference goes: _channel_destroy.  A context inside a channel  *)
(* instruction still holds one.  The loop over the queued values destroys  *)
(* slot m_start + m_count at every turn; the slot is undef after the first *)
(* turn, so at most one scalar is destroyed.  What the ring held last is   *)
(* not looked at again.                                                    *)
Release ==
  /\ At({"idle"}) = Threads
  /\ released' = TRUE
  /\ IF count = 0 THEN UNCHANGED destroys ELSE Destroy(items[Slot(count)])
  /\ UNCHANGED vars

ONext ==
  /\ ~released
  /\ \/ /\ \E t \in Threads :
             CloneIntoSlot(t) \/ DestroyResult(t) \/ NoDestruction(t)
        /\ UNCHANGED released
     \/ Release

OSpec == OInit /\ [][ONext]_ovars

(* With the fairness of Channel's FairSpec.                                *)
OFairSpec ==
  /\ OSpec
  /\ \A t \in Threads : WF_vars(Proceed(t)) /\ SF_vars(WriteExpire(t))

-----------------------------------------------------------------------------
(* Properties                                                              *)

(* A value waiting in the channel has not been destroyed: reusing a slot,  *)
(* or growing the ring, never frees what a reader has yet to receive       *)
(* (anon_scalar_clone in channel_write).                                   *)
QueuedIntact ==
  ~released => \A i \in 0 .. count - 1 : destroys[items[Slot(i)]] = 0

(* "Shallow-copy of an anonymous scalar_t object.  Only one of dest and    *)
(* original should be destroyed." (anon_scalar_assign): no value is        *)
(* destroyed both by the reader and through the slot it was copied from.   *)
OnlyOneDestroyed == \A n \in 1 .. MaxWrites : destroys[n] <= 1

(* "The resulting clone needs to be destroyed independently of the         *)
(* original." (anon_scalar_clone): once the channel is gone, and no read   *)
(* is under way, every clone made by channel_write has been destroyed.     *)
NoCloneLeaks == released => \A n \in 1 .. written : destroys[n] >= 1
=============================================================================
