------------------------------- MODULE MCStream -------------------------------
(* Two contexts, two streams, and two processes for their pipes.             *)
EXTENDS Stream

CONSTANTS t1, t2, s1, s2, c1, c2

MCThreads == {t1, t2}
MCStreams == {s1, s2}
MCChildren == {c1, c2}
=============================================================================
