----------------------------- MODULE OperandStack -----------------------------
(***************************************************************************)
(* What the stack instructions promise in their stack effects (the "=item" *)
(* lines of bytecode.c): each context has a sequence of values, whose last *)
(* element is the top.                                                     *)
(***************************************************************************)
EXTENDS Integers, Sequences, SequencesExt

CONSTANTS
  Contexts,
  First,        \* the context that runs from the start
  Ints,         \* the integers that programs push or compute
  Objects,      \* strings, and what references refer to
  Undef

Values == Ints \cup Objects \cup {Undef}

VARIABLE seqs   \* the operands of each context; <<>> before it starts

vars == seqs

Init == seqs = [c \in Contexts |-> <<>>]

SizeOf(v) == IF v \in Ints /\ v > 0 THEN v ELSE 0

(* The lowest part of a sequence, and the n values on top of it.           *)
Below(s, n) == SubSeq(s, 1, Len(s) - n)

TopOf(s, n) == SubSeq(s, Len(s) - n + 1, Len(s))

Becomes(c, s) == seqs' = [seqs EXCEPT ![c] = s]

Push(c, v) == Becomes(c, Append(seqs[c], v))

(* Pop n values and push one that was computed from them.                  *)
Replace(c, n, v) ==
  /\ Len(seqs[c]) >= n
  /\ Becomes(c, Append(Below(seqs[c], n), v))

Drop(c) == seqs[c] # <<>> /\ Becomes(c, Below(seqs[c], 1))

Swap(c) == Len(seqs[c]) > 1 /\ Becomes(c, Below(seqs[c], 2) \o Reverse(TopOf(seqs[c], 2)))

Dup(c) == seqs[c] # <<>> /\ Push(c, Last(seqs[c]))

Over(c) == Len(seqs[c]) > 1 /\ Push(c, TopOf(seqs[c], 2)[1])

(* The count n on the top, with n values below it.                         *)
Counted(c, n) == seqs[c] # <<>> /\ n = SizeOf(Last(seqs[c])) /\ Len(seqs[c]) > n

(* ROT: [xn .. x2 x1] n -- [x1 xn .. x2]                                   *)
Rot(c, n) ==
  /\ Counted(c, n)
  /\ LET s == Below(seqs[c], 1)
         list == TopOf(s, n)
     IN Becomes(c, IF n = 0 THEN s
                   ELSE Below(s, n) \o <<Last(list)>> \o Front(list))

(* TOR: [xn .. x2 x1] n -- [.. x2 x1 xn]                                   *)
Tor(c, n) ==
  /\ Counted(c, n)
  /\ LET s == Below(seqs[c], 1)
         list == TopOf(s, n)
     IN Becomes(c, IF n = 0 THEN s
                   ELSE Below(s, n) \o Tail(list) \o <<Head(list)>>)

(* REV: [an .. a2 a1] n -- [a1 a2 .. an] n                                 *)
Rev(c, n) ==
  /\ Counted(c, n)
  /\ LET s == Below(seqs[c], 1)
     IN Becomes(c, Below(s, n) \o Reverse(TopOf(s, n)) \o <<Last(seqs[c])>>)

(* Memory is short, or the count is negative: only the count is popped (as *)
(* Drop does), and REV puts a zero in its place.                           *)
RevFails(c) == Replace(c, 1, 0)

(* CORO: the n values under the count go to the new context in the same    *)
(* order.                                                                  *)
Coro(c, d, n) ==
  /\ c # d
  /\ seqs[d] = <<>>
  /\ Counted(c, n)
  /\ LET s == Below(seqs[c], 1)
     IN seqs' = [seqs EXCEPT ![c] = Below(s, n), ![d] = TopOf(s, n)]

(* Memory is short: nobody gets the values, or they stay where they are.   *)
CoroFails(c, n) ==
  /\ Counted(c, n)
  /\ LET s == Below(seqs[c], 1) IN Becomes(c, Below(s, n)) \/ Becomes(c, s)

End(c) == Becomes(c, <<>>)

Next ==
  \E c \in Contexts :
    \/ \E v \in Values :
         Push(c, v) \/ Replace(c, 1, v) \/ Replace(c, 2, v)
    \/ Drop(c) \/ Swap(c) \/ Dup(c) \/ Over(c) \/ RevFails(c) \/ End(c)
    \/ \E n \in 0 .. Len(seqs[c]) : Rot(c, n) \/ Tor(c, n) \/ Rev(c, n) \/ CoroFails(c, n)
    \/ \E d \in Contexts, n \in 0 .. Len(seqs[c]) : Coro(c, d, n)

Spec == Init /\ [][Next]_vars
=============================================================================
