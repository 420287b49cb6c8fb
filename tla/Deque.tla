-------------------------------- MODULE Deque ---------------------------------
(***************************************************************************)
(* What an array promises to the AR... instructions (array.c): a sequence  *)
(* of scalars that grows and shrinks at both ends and can be replaced,     *)
(* listed and indexed.  The n-th scalar made for the array is the number n.*)
(***************************************************************************)
EXTENDS Integers, Sequences

CONSTANTS
  MaxMany,       \* the largest number of values one instruction takes
  IndexLists     \* the sequences of indices asked for

VARIABLES
  seq,           \* the scalars of the array
  made,          \* the number of scalars made for the array so far
  result         \* what the last instruction pushed on the data stack

vars == <<seq, made, result>>

Init == seq = <<>> /\ made = 0 /\ result = <<>>

New(n) == [i \in 1 .. n |-> made + i]

(* n new scalars are put at an end, or in place of everything: none empty  *)
(* the array.                                                              *)
Push(n) == seq' = seq \o New(n) /\ made' = made + n /\ result' = <<>>

Unshift(n) == seq' = New(n) \o seq /\ made' = made + n /\ result' = <<>>

Fill(n) == seq' = New(n) /\ made' = made + n /\ result' = <<>>

(* Memory is short: nothing happens.                                       *)
Refuse == result' = <<>> /\ UNCHANGED <<seq, made>>

Pop ==
  /\ seq # <<>>
  /\ result' = <<seq[Len(seq)]>>
  /\ seq' = SubSeq(seq, 1, Len(seq) - 1)
  /\ UNCHANGED made

Shift ==
  /\ seq # <<>>
  /\ result' = <<Head(seq)>>
  /\ seq' = Tail(seq)
  /\ UNCHANGED made

(* ARPOP and ARSHFT of an empty array push an undefined value.             *)
Nothing == seq = <<>> /\ result' = <<0>> /\ UNCHANGED <<seq, made>>

List == result' = seq /\ UNCHANGED <<seq, made>>

Length == result' = <<Len(seq)>> /\ UNCHANGED <<seq, made>>

(* Negative indices count from the end: -1 is the last scalar.             *)
Place(i) == IF i < 0 THEN Len(seq) + 1 + i ELSE i + 1

(* References to the scalars at some indices.                              *)
Slice(indices) ==
  /\ \A k \in DOMAIN indices : Place(indices[k]) \in DOMAIN seq
  /\ result' = [k \in DOMAIN indices |-> seq[Place(indices[k])]]
  /\ UNCHANGED <<seq, made>>

(* The last reference to the array goes.                                   *)
Destroy == seq' = <<>> /\ UNCHANGED <<made, result>>

Next ==
  \/ \E n \in 1 .. MaxMany : Push(n) \/ Unshift(n)
  \/ \E n \in 0 .. MaxMany : Fill(n)
  \/ Refuse \/ Pop \/ Shift \/ Nothing \/ List \/ Length \/ Destroy
  \/ \E indices \in IndexLists : Slice(indices)

Spec == Init /\ [][Next]_vars
=============================================================================
