------------------------------ MODULE MCSignals ------------------------------
(* The main context, alone or with a coroutine, and two signals.           *)
EXTENDS Signals

CONSTANTS m, c1, s1, s2

OneContext == {m}
TwoContexts == {m, c1}
MCSignalSet == {s1, s2}
=============================================================================
