--------------------------- MODULE MCSharedScalars ----------------------------
(* Two or three contexts and scalars that refer to each other in one         *)
(* direction only, or in both.                                               *)
EXTENDS SharedScalars, TLC

CONSTANTS t1, t2, t3, x, y

MCThreads == {t1, t2, t3}
TwoThreads == {t1, t2}
MCScalars == {x, y}

Downwards == {<<x, y>>}
BothWays == {x, y} \X {x, y}

(* Contexts are interchangeable; used with safety only.                      *)
Interchangeable == Permutations(Threads)
=============================================================================
