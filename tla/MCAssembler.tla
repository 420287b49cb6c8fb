----------------------------- MODULE MCAssembler ------------------------------
(* Programs of a few lines, whose labels are main, f and a local one, with   *)
(* instructions of each length and each way of moving the counter, one       *)
(* operand of the wrong kind and one string that is too long for STR.        *)
EXTENDS Assembler

CONSTANTS main, f, x

Global == <<"global", f>>
Local == <<"local", x>>
Full == <<"full", f, x>>

Line(label, instruction, kind, value) ==
  [label |-> label, instruction |-> instruction, operand |-> <<kind, value>>]

Bare(label, instruction) ==
  [label |-> label, instruction |-> instruction, operand |-> <<"none">>]

MCLines ==
  {Bare(label, None) : label \in {<<"global", main>>, Global, Local}}
  \cup {Bare(None, "frcall"), Bare(None, "symclone"),
        Bare(None, "return"), Bare(Global, "return"),
        Line(None, "byte", "integer", 5), Line(Global, "str", "string", 2),
        Line(None, "str", "string", 5), Line(Local, "string", "string", 5),
        Line(None, "call", "location", Global), Line(Global, "call", "location", Global),
        Line(Local, "funlit", "location", Local), Line(None, "funlit", "location", Global),
        Line(None, "coro", "location", Local),
        Line(None, "jmp0", "offset", Global), Line(Local, "jmp0", "offset", Local),
        Line(None, "jmp", "offset", Full), Line(None, "jmpu", "location", Global)}
=============================================================================
