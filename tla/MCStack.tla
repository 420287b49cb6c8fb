------------------------------- MODULE MCStack --------------------------------
(* Two contexts, stacks of two slots that can grow to four, and counts that  *)
(* are negative, too large, or fit.                                          *)
EXTENDS Stack

MCInts == {-1, 0, 3}
=============================================================================
