------------------------------ MODULE MCScopes -------------------------------
(* The main context and one or two coroutines, which start one another.    *)
EXTENDS Scopes

CONSTANTS m, c1, c2

MCContexts == {m, c1, c2}
TwoContexts == {m, c1}
=============================================================================
