--------------------------- MODULE AssemblyLanguage ---------------------------
(***************************************************************************)
(* What an assembly program means, without bytecode (assembler.y and the    *)
(* documentation of the instructions in bytecode.c).  A program is a        *)
(* sequence of lines.  A line has a label, an instruction and an operand,   *)
(* each of which may be missing; control goes from line to line, and by     *)
(* jumps, calls and returns to the lines that labels stand for.             *)
(*                                                                         *)
(* The data stack is left out: what a literal pushes is "shown" when it is  *)
(* pushed, conditional jumps go either way, and of function references the  *)
(* one last pushed is kept.                                                 *)
(***************************************************************************)
EXTENDS Integers, Sequences

CONSTANTS
  Lines,        \* the lines that programs are made of
  Main,         \* the name of the label at which execution starts
  None,         \* no label, no operand, no instruction, no section
  ByteRange,    \* the number of values of a byte
  MaxLines,     \* bound: the length of a program
  MaxCalls      \* bound: the depth of calls

VARIABLES
  source,       \* the lines of the program
  phase,        \* reading, running, rejected, ended or aborted
  at,           \* the line that is executed next
  calls,        \* the lines that calls return to
  function,     \* the line of the function reference on the data stack
  shown         \* what a literal has last pushed

vars == <<source, phase, at, calls, function, shown>>

Init ==
  /\ source = <<>>
  /\ phase = "reading"
  /\ at = 0
  /\ calls = <<>>
  /\ function = None
  /\ shown = None

-----------------------------------------------------------------------------
(* Labels.  A label is <<"global", name>> or <<"local", name>>; a local one *)
(* belongs to the last global one before it, its section.  References can   *)
(* also be <<"full", section, name>>.                                       *)

Section(i) ==
  LET globals == {j \in 1 .. i : source[j].label # None /\ source[j].label[1] = "global"}
  IN  IF globals = {} THEN None
      ELSE source[CHOOSE j \in globals : \A k \in globals : k <= j].label[2]

FullName(i, label) ==
  CASE label[1] = "global" -> <<label[2], None>>
    [] label[1] = "local"  -> <<Section(i), label[2]>>
    [] label[1] = "full"   -> <<label[2], label[3]>>

Defines(i, name) == source[i].label # None /\ FullName(i, source[i].label) = name

Definitions(name) == {i \in DOMAIN source : Defines(i, name)}

RefersToLabel(i) == source[i].operand[1] \in {"location", "offset"}

Target(i) == CHOOSE j \in Definitions(FullName(i, source[i].operand[2])) : TRUE

Jumps == {"jmp", "jmp0", "jmpu"}

(* The kinds of operand that an instruction takes                          *)
Takes(instruction) ==
  CASE instruction \in {"byte", "open", "int", "symdef", "symfind", "symundef"} -> {"integer"}
    [] instruction \in {"str", "string"}           -> {"string"}
    [] instruction \in {"call", "coro", "funlit"}  -> {"location"}
    [] instruction \in Jumps                       -> {"offset"}
    [] OTHER -> {"none", "integer", "string", "location", "offset"}

WellFormed ==
  /\ source # <<>>
  /\ \A i, j \in DOMAIN source :
       source[i].label # None /\ Defines(j, FullName(i, source[i].label)) => i = j
  /\ \A i \in DOMAIN source :
       /\ RefersToLabel(i) => Definitions(FullName(i, source[i].operand[2])) # {}
       /\ source[i].operand[1] \in Takes(source[i].instruction)

-----------------------------------------------------------------------------
(* Execution                                                               *)

End == Len(source) + 1

(* The line whose instruction is the first from line i on                  *)
Landing(i) ==
  LET from == {j \in i .. Len(source) : source[j].instruction # None}
  IN  IF from = {} THEN End ELSE CHOOSE j \in from : \A k \in from : j <= k

ReadLine(line) ==
  /\ phase = "reading"
  /\ Len(source) < MaxLines
  /\ source' = Append(source, line)
  /\ UNCHANGED <<phase, at, calls, function, shown>>

Start ==
  /\ phase = "reading"
  /\ WellFormed
  /\ phase' = "running"
  /\ at' = Landing(IF Definitions(<<Main, None>>) = {} THEN 1
                   ELSE CHOOSE i \in Definitions(<<Main, None>>) : TRUE)
  /\ UNCHANGED <<source, calls, function, shown>>

(* A program without lines is not rejected: dang crashes.                  *)
Reject ==
  /\ phase = "reading"
  /\ ~WellFormed
  /\ phase' = IF source = <<>> THEN "aborted" ELSE "rejected"
  /\ UNCHANGED <<source, at, calls, function, shown>>

(* Going on at line i.  An instruction that goes on at itself may abort the *)
(* program, on the assertion that an instruction moves the counter.        *)
GoTo(i) ==
  \/ /\ at' = Landing(i)
     /\ phase' = "running"
  \/ /\ Landing(i) = at
     /\ phase' = "aborted"
     /\ at' = at

Now == source[at].instruction

Executing(instructions) ==
  /\ phase = "running"
  /\ at # End
  /\ Now \in instructions
  /\ UNCHANGED source

(* What an operand can be shown as: a number is cut to a byte by BYTE, and  *)
(* a string that is too long for STR is cut somewhere.                      *)
Shows(operand) ==
  CASE Now = "byte" -> {<<"integer", operand[2] % ByteRange>>}
    [] Now = "str" /\ operand[2] >= ByteRange -> {"string"} \X (0 .. operand[2])
    [] OTHER -> {operand}

Literal ==
  /\ Executing({"byte", "int", "str", "string", "symfind"})
  /\ shown' \in Shows(source[at].operand)
  /\ GoTo(at + 1)
  /\ UNCHANGED <<calls, function>>

Funlit ==
  /\ Executing({"funlit"})
  /\ function' = Landing(Target(at))
  /\ GoTo(at + 1)
  /\ UNCHANGED <<calls, shown>>

Jump ==
  /\ Executing(Jumps)
  /\ GoTo(Target(at)) \/ (Now # "jmp" /\ GoTo(at + 1))
  /\ UNCHANGED <<calls, function, shown>>

Call ==
  /\ Executing({"call", "frcall"})
  /\ Len(calls) < MaxCalls
  /\ calls' = Append(calls, Landing(at + 1))
  /\ IF Now = "call"
       THEN /\ GoTo(Target(at))
            /\ UNCHANGED function
       ELSE /\ function # None
            /\ GoTo(function)
            /\ function' = None
  /\ UNCHANGED shown

(* One execution context is followed: the one that goes on or the new one. *)
Coro ==
  /\ Executing({"coro"})
  /\ UNCHANGED shown
  /\ \/ /\ GoTo(at + 1)
        /\ UNCHANGED <<calls, function>>
     \/ /\ at' = Landing(Target(at))
        /\ phase' = "running"
        /\ calls' = <<>>
        /\ function' = None

Return ==
  /\ Executing({"return"})
  /\ IF calls = <<>>
       THEN /\ GoTo(End)
            /\ UNCHANGED calls
       ELSE /\ GoTo(calls[Len(calls)])
            /\ calls' = SubSeq(calls, 1, Len(calls) - 1)
  /\ UNCHANGED <<function, shown>>

(* Every other instruction                                                 *)
Plain ==
  /\ Executing({"noop", "symclone"})
  /\ GoTo(at + 1)
  /\ UNCHANGED <<calls, function, shown>>

Ends ==
  /\ phase = "running"
  /\ at = End \/ Now = "end"
  /\ phase' = "ended"
  /\ UNCHANGED <<source, at, calls, function, shown>>

Next ==
  \/ \E line \in Lines : ReadLine(line)
  \/ Start \/ Reject
  \/ Literal \/ Funlit \/ Jump \/ Call \/ Coro \/ Return \/ Plain \/ Ends

Spec == Init /\ [][Next]_vars
=============================================================================
