----------------------------- MODULE FifoChannel -----------------------------
(***************************************************************************)
(* What a dang channel promises to the contexts that share it: an          *)
(* unbounded first-in first-out queue.  Values are written one at a time;  *)
(* each value is taken by exactly one reader, in the order of writing.     *)
(*                                                                         *)
(* The n-th value ever written is the number n, so that "which value" and  *)
(* "in which order" are the same question.  0 is SCALAR_UNDEF.             *)
(***************************************************************************)
EXTENDS Naturals, Sequences

CONSTANT
  Threads     \* the execution contexts that may use the channel

VARIABLES
  queue,      \* the values written and not yet taken, oldest first
  sent,       \* the number of values written so far
  result      \* per context, the value its read holds, 0 if none

vars == <<queue, sent, result>>

Init ==
  /\ queue = <<>>
  /\ sent = 0
  /\ result = [t \in Threads |-> 0]

Send ==
  /\ queue' = Append(queue, sent + 1)
  /\ sent' = sent + 1
  /\ UNCHANGED result

Receive(t) ==
  /\ result[t] = 0
  /\ queue # <<>>
  /\ result' = [result EXCEPT ![t] = Head(queue)]
  /\ queue' = Tail(queue)
  /\ UNCHANGED sent

(* The reader has handed its value on to its data stack.                   *)
Finish(t) ==
  /\ result[t] # 0
  /\ result' = [result EXCEPT ![t] = 0]
  /\ UNCHANGED <<queue, sent>>

Next ==
  \/ Send
  \/ \E t \in Threads : Receive(t) \/ Finish(t)

Spec == Init /\ [][Next]_vars
=============================================================================
