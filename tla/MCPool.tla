------------------------------- MODULE MCPool --------------------------------
(* One or two contexts on a pool of two or four items that can grow.       *)
(* WordSize, 8 or 32, stands for the width of size_t, in which m_free_count*)
(* can wrap.                                                               *)
EXTENDS Pool, TLC

CONSTANTS t1, t2

MCThreads == {t1, t2}
OneThread == {t1}

(* Contexts are interchangeable; used with safety properties only.         *)
ThreadSymmetry == Permutations(MCThreads)

(* One object at a time, of a pool that grows twice, or whose objects two  *)
(* callers share; and runs.                                                *)
Alone == Load({}, 8, 1, 8)
Shared == Load({}, 4, 2, 8)
Runs == Load({1, 2}, 4, 2, 2)

AllLoads == {Alone, Shared, Runs}
FoundLoad == {Load({1, 2, 3}, 8, 1, 8)}
ManyLoad == {Load({1, 2, 3}, 16, 0, 8)}
RaceLoad == {Load({1, 2, 3}, 8, 0, 8)}
=============================================================================
