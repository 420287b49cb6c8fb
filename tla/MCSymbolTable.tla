---------------------------- MODULE MCSymbolTable -----------------------------
(* Five identifiers, 0 among them, in one or two scopes: the smallest tree *)
(* in which a symbol with two children is removed as intended has five.    *)
EXTENDS SymbolTable

MCIdentifiers == 0 .. 4
MCFunctions == {1, 3, 4}
=============================================================================
