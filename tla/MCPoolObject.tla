---------------------------- MODULE MCPoolObject -----------------------------
(* Up to three contexts that hand three references around.                 *)
EXTENDS PoolObject, TLC

CONSTANTS t1, t2, t3, k1, k2, k3

TwoContexts == {t1, t2}
MCContexts == {t1, t2, t3}
OneContext == {t1}
MCTokens == {k1, k2, k3}

(* Contexts and tokens are interchangeable; used with safety only.         *)
Interchangeable == Permutations(MCContexts) \cup Permutations(MCTokens)
=============================================================================
