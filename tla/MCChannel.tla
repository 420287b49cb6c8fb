------------------------------ MODULE MCChannel ------------------------------
(* Three contexts on a ring of one slot that can be doubled twice: the     *)
(* ring wraps, fills and grows while readers and writers sleep on it.      *)
EXTENDS ChannelOwnership

CONSTANTS t1, t2, t3

MCThreads == {t1, t2, t3}
=============================================================================
