------------------------------ MODULE Assembler -------------------------------
(***************************************************************************)
(* The assembler (assembler.y) and the fetch loop that runs what it makes   *)
(* (vm.c, and in bytecode.c the instructions that move the counter).  The   *)
(* parser reads a line at a time into a list; assemble() then gives every   *)
(* line a length and a position, resolves the labels and writes the bytes;  *)
(* vm_execute goes through them.                                            *)
(*                                                                         *)
(* The text of a program is given as the lines of AssemblyLanguage, which   *)
(* this module is shown to implement.  A byte of the code is                *)
(* <<"instruction", name>>, the first byte of an operand with its value, or *)
(* one of the bytes after it.                                               *)
(***************************************************************************)
EXTENDS Integers, Sequences

CONSTANTS
  Lines,        \* the lines that programs are made of
  Names,        \* what labels are called
  MainName,     \* "main"
  None,         \* NULL
  Word,         \* sizeof(intptr_t), which is that of handles and floats too
  ByteRange,    \* 256
  MaxLines,     \* bound: the length of a program
  MaxReturns    \* bound: the depth of calls

(* Without complex instructions there is nothing to align: an operand has  *)
(* more bytes than one.                                                    *)
ASSUME AssemblerAssumption ==
  /\ Word \in Nat \ {0, 1}
  /\ ByteRange \in Nat \ {0}
  /\ MainName \in Names
  /\ MaxReturns \in Nat

(* What the parser accepts as a label, a reference to one and an operand.  *)
Labels == {"global", "local"} \X Names

References == Labels \cup ({"full"} \X Names \X Names)

Kinds == {"none", "integer", "string", "location", "offset"}

(* The instructions that are more than their own byte, or end the program.  *)
Instructions ==
  {"byte", "open", "int", "str", "string", "symdef", "symfind", "symundef", "symclone",
   "jmp", "jmp0", "jmpu", "call", "coro", "funlit", "end"}

ASSUME LinesAssumption ==
  \A line \in Lines :
    /\ line.label \in Labels \cup {None}
    /\ line.operand \in {<<"none">>} \cup ({"integer"} \X Int) \cup ({"string"} \X Nat)
                         \cup ({"location", "offset"} \X References)

(* NULL is not a position, a name in the text or a label that is looked up.*)
ASSUME NoneAssumption ==
  /\ None \notin Nat
  /\ None \notin Kinds \cup Instructions
  /\ None \notin (Names \cup {None}) \X (Names \cup {None})

VARIABLES
  source,       \* the lines that have been read
  lines,        \* g_lines
  lastDefined,  \* g_last_label_defined
  phase,        \* of the program: reading, running, rejected, ended or aborted
  position,     \* m_position of each line
  code,         \* m_bytecode
  counter,      \* m_counter
  returns,      \* the positions on the return stack
  function,     \* the function reference on the data stack
  shown         \* what a literal has last pushed

assemblerVars ==
  <<source, lines, lastDefined, phase, position, code, counter, returns, function, shown>>

assembled == <<source, lines, lastDefined, position, code>>

AssemblerInit ==
  /\ source = <<>>
  /\ lines = <<>>
  /\ lastDefined = None
  /\ phase = "reading"
  /\ position = <<>>
  /\ code = <<>>
  /\ counter = 0
  /\ returns = <<>>
  /\ function = None
  /\ shown = None

-----------------------------------------------------------------------------
(* The parser                                                              *)

(* get_label: the key that a label or a reference is looked up with.       *)
KeyOf(label, prim) ==
  CASE label[1] = "global" -> <<label[2], None>>
    [] label[1] = "local"  -> <<prim, label[2]>>
    [] label[1] = "full"   -> <<label[2], label[3]>>

IsReference(operand) == operand[1] \in {"location", "offset"}

(* Mutant of ReadLine: a local label opens a section, as a global one does. *)
MutantReadLine(line) ==
  LET key == IF line.label = None THEN None ELSE KeyOf(line.label, lastDefined)
      defined == IF line.label # None THEN line.label[2] ELSE lastDefined
      operand == IF IsReference(line.operand)
                   THEN <<line.operand[1], KeyOf(line.operand[2], defined)>>
                   ELSE line.operand
  IN  /\ phase = "reading"
      /\ Len(source) < MaxLines
      /\ source' = Append(source, line)
      /\ lines' = Append(lines, [label |-> key, instruction |-> line.instruction,
                                 operand |-> operand])
      /\ lastDefined' = defined
      /\ UNCHANGED <<phase, position, code, counter, returns, function, shown>>

(* A line's label is defined before its operand is read.                   *)
ReadLine(line) ==
  LET key == IF line.label = None THEN None ELSE KeyOf(line.label, lastDefined)
      defined == IF line.label # None /\ line.label[1] = "global"
                   THEN line.label[2] ELSE lastDefined
      operand == IF IsReference(line.operand)
                   THEN <<line.operand[1], KeyOf(line.operand[2], defined)>>
                   ELSE line.operand
  IN  /\ phase = "reading"
      /\ Len(source) < MaxLines
      /\ source' = Append(source, line)
      /\ lines' = Append(lines, [label |-> key, instruction |-> line.instruction,
                                 operand |-> operand])
      /\ lastDefined' = defined
      /\ UNCHANGED <<phase, position, code, counter, returns, function, shown>>

-----------------------------------------------------------------------------
(* assemble(): lengths and positions                                       *)

Branches == {"jmp", "jmp0", "jmpu"}

instruction_sizes(instruction) ==
  CASE instruction \in {"byte", "open", "str"} -> 2
    [] instruction = "string" -> 5
    [] instruction = "symdef" -> 5 + Word
    [] instruction \in Branches \cup {"call", "coro", "funlit", "int", "symfind",
                                      "symundef", "symclone"} -> 1 + Word
    [] OTHER -> 1

(* m_length                                                                *)
Length(line) ==
  IF line.instruction = None THEN 0
  ELSE instruction_sizes(line.instruction)
       + (IF line.instruction \in {"str", "string"} /\ line.operand[1] = "string"
            THEN line.operand[2] ELSE 0)

(* m_position: a complex instruction's operand begins at a multiple of 4.  *)
Aligned(line, next_position) ==
  IF Length(line) > 2 /\ line.instruction # "str"
    THEN next_position + ((3 - next_position) % 4) ELSE next_position

(* The positions of the lines ls, and after them the end of the last       *)
Positions(ls) ==
  LET end[i \in 0 .. Len(ls)] ==
        IF i = 0 THEN 1 ELSE Aligned(ls[i], end[i - 1]) + Length(ls[i])
  IN  [i \in 1 .. Len(ls) + 1 |->
         IF i > Len(ls) THEN end[Len(ls)] ELSE Aligned(ls[i], end[i - 1])]

-----------------------------------------------------------------------------
(* assemble(): labels, operands and bytes                                  *)

LinesOf(key) == {i \in DOMAIN lines : lines[i].label = key}

LabelsResolved ==
  /\ \A i \in DOMAIN lines :
       lines[i].label # None => LinesOf(lines[i].label) = {i}
  /\ \A i \in DOMAIN lines :
       IsReference(lines[i].operand) => LinesOf(lines[i].operand[2]) # {}

(* What each instruction that has an operand requires it to be             *)
Requires(instruction) ==
  CASE instruction \in {"byte", "open", "int", "symdef", "symfind", "symundef"} -> "integer"
    [] instruction \in {"str", "string"}          -> "string"
    [] instruction \in {"call", "coro", "funlit"} -> "location"
    [] instruction \in Branches                   -> "offset"
    [] OTHER -> None

OperandsRight ==
  \A i \in DOMAIN lines :
    Requires(lines[i].instruction) \in {None, lines[i].operand[1]}

LinePosition(key, at) == at[CHOOSE i \in LinesOf(key) : TRUE]

(* The first byte of the operand.  SYMCLONE's is never written.            *)
OperandByte(i, at) ==
  LET operand == lines[i].operand IN
  CASE lines[i].instruction = "symclone" -> <<"instruction", "noop">>
    [] lines[i].instruction \in {"byte", "open"} -> <<"operand", operand[2] % ByteRange>>
    [] lines[i].instruction = "str" -> <<"operand", operand[2] % ByteRange>>
    [] operand[1] = "location" -> <<"operand", LinePosition(operand[2], at)>>
    [] operand[1] = "offset" -> <<"operand", LinePosition(operand[2], at) - at[i]>>
    [] OTHER -> <<"operand", operand[2]>>

(* How many bytes of a line are written: of a string that is too long for  *)
(* STR, as many as its length byte says.                                   *)
Written(i) ==
  CASE lines[i].instruction = "symclone" -> 1
    [] lines[i].instruction = "str" -> 2 + (lines[i].operand[2] % ByteRange)
    [] OTHER -> Length(lines[i])

Byte(i, k, at) ==
  CASE k = 0 -> <<"instruction", lines[i].instruction>>
    [] k = 1 -> OperandByte(i, at)
    [] OTHER -> <<"rest">>

(* The lines that write byte p; the rest is NOOPs, between two guard values.*)
Writers(p, at) == {i \in DOMAIN lines : p - at[i] \in 0 .. Written(i) - 1}

ByteAt(p, at) ==
  IF Writers(p, at) = {}
    THEN <<"instruction", IF p \in {0, at[Len(at)]} THEN "end" ELSE "noop">>
    ELSE LET i == CHOOSE i \in Writers(p, at) : TRUE IN Byte(i, p - at[i], at)

Bytecode(at) == [p \in 0 .. at[Len(at)] |-> ByteAt(p, at)]

(* After which vm_execute pushes the position of the first guard value.    *)
Assemble ==
  LET at == Positions(lines)
      start == IF LinesOf(<<MainName, None>>) = {} THEN 1
               ELSE LinePosition(<<MainName, None>>, at)
  IN  /\ phase = "reading"
      /\ LabelsResolved
      /\ OperandsRight
      /\ lines # <<>>
      /\ position' = at
      /\ code' = Bytecode(at)
      /\ counter' = start
      /\ returns' = <<0>>
      /\ phase' = "running"
      /\ UNCHANGED <<source, lines, lastDefined, function, shown>>

(* Without lines, g_last_line is NULL where the length is computed.        *)
AssembleFails ==
  /\ phase = "reading"
  /\ lines = <<>> \/ ~LabelsResolved \/ ~OperandsRight
  /\ phase' = IF lines = <<>> THEN "aborted" ELSE "rejected"
  /\ UNCHANGED <<source, lines, lastDefined, position, code, counter, returns, function, shown>>

-----------------------------------------------------------------------------
(* vm_execute                                                              *)

Fetched == code[counter]

(* NEXT_BYTE                                                               *)
Operand == code[counter + 1][2]

Fetch(instructions) ==
  /\ phase = "running"
  /\ counter \in DOMAIN code
  /\ Fetched[1] = "instruction"
  /\ Fetched[2] \in instructions
  /\ UNCHANGED assembled

(* assert(incr != 0); context->m_counter += incr                           *)
Advance(incr) ==
  IF incr = 0
    THEN /\ phase' = "aborted"
         /\ UNCHANGED counter
    ELSE /\ counter' = counter + incr
         /\ UNCHANGED phase

(* BYTE, INT, STR, STRING; SYMFIND pushes what its identifier stands for.  *)
PushLiteral ==
  /\ Fetch({"byte", "int", "str", "string", "symfind"})
  /\ shown' = <<IF Fetched[2] \in {"str", "string"} THEN "string" ELSE "integer", Operand>>
  /\ Advance(instruction_sizes(Fetched[2])
             + (IF Fetched[2] \in {"str", "string"} THEN Operand ELSE 0))
  /\ UNCHANGED <<returns, function>>

FUNLIT ==
  /\ Fetch({"funlit"})
  /\ function' = Operand
  /\ Advance(1 + Word)
  /\ UNCHANGED <<returns, shown>>

(* The value that a conditional branch pops is not modelled.               *)
JMP ==
  /\ Fetch(Branches)
  /\ \/ Advance(Operand)
     \/ /\ Fetched[2] # "jmp"
        /\ Advance(1 + Word)
  /\ UNCHANGED <<returns, function, shown>>

(* Mutant of CALL: returns to its own operand.                             *)
MutantCALL ==
  /\ Fetch({"call"})
  /\ Len(returns) <= MaxReturns
  /\ returns' = Append(returns, counter + 1)
  /\ Advance(Operand - counter)
  /\ UNCHANGED <<function, shown>>

CALL ==
  /\ Fetch({"call"})
  /\ Len(returns) <= MaxReturns
  /\ returns' = Append(returns, counter + 1 + Word)
  /\ Advance(Operand - counter)
  /\ UNCHANGED <<function, shown>>

FRCALL ==
  /\ Fetch({"frcall"})
  /\ function # None
  /\ Len(returns) <= MaxReturns
  /\ returns' = Append(returns, counter + 1)
  /\ Advance(function - counter)
  /\ function' = None
  /\ UNCHANGED shown

(* The context that goes on, or the one that vm_context_init starts        *)
CORO ==
  /\ Fetch({"coro"})
  /\ \/ /\ Advance(1 + Word)
        /\ UNCHANGED <<returns, function>>
     \/ /\ counter' = Operand
        /\ returns' = <<0>>
        /\ function' = None
        /\ UNCHANGED phase
  /\ UNCHANGED shown

RETURN ==
  /\ Fetch({"return"})
  /\ returns # <<>>
  /\ Advance(returns[Len(returns)] - counter)
  /\ returns' = SubSeq(returns, 1, Len(returns) - 1)
  /\ UNCHANGED <<function, shown>>

(* Any other instruction, of one byte                                      *)
Plain ==
  /\ Fetch({"noop", "symclone"})
  /\ Advance(instruction_sizes(Fetched[2]))
  /\ UNCHANGED <<returns, function, shown>>

END ==
  /\ phase = "running"
  /\ counter \notin DOMAIN code \/ Fetched = <<"instruction", "end">>
  /\ phase' = "ended"
  /\ UNCHANGED <<assembled, counter, returns, function, shown>>

AssemblerNext ==
  \/ \E line \in Lines : ReadLine(line)
  \/ Assemble \/ AssembleFails
  \/ PushLiteral \/ FUNLIT \/ JMP \/ CALL \/ FRCALL \/ CORO \/ RETURN \/ Plain \/ END

AssemblerSpec == AssemblerInit /\ [][AssemblerNext]_assemblerVars

-----------------------------------------------------------------------------
(* Properties                                                              *)

Bytes ==
  ({"instruction"} \X ({line.instruction : line \in Lines} \cup {"noop", "end"}))
    \cup ({"operand"} \X Int) \cup {<<"rest">>}

AssemblerTypeOK ==
  /\ source \in Seq(Lines)
  /\ Len(lines) = Len(source)
  /\ phase \in {"reading", "running", "rejected", "ended", "aborted"}
  /\ phase = "running" =>
       /\ Len(position) = Len(lines) + 1
       /\ code \in [0 .. position[Len(position)] -> Bytes]
       /\ \A i \in DOMAIN returns : returns[i] \in DOMAIN code
       /\ function \in DOMAIN code \cup {None}

(* Every operand of more than a byte that an instruction reads begins at a *)
(* multiple of four, as the comment in assemble() says.                    *)
OperandsAligned ==
  phase = "running" /\ Fetched[2] \in {"string", "int", "call", "coro", "funlit"} \cup Branches
    => (counter + 1) % 4 = 0

(* Whatever a program jumps to, calls or returns to, and however its lines *)
(* are padded, the fetch loop stays inside the code and never takes an     *)
(* operand, or the rest of one, for an instruction (the assertion in it    *)
(* that the byte is one), and finds the operands aligned.                  *)
FetchesInstructions ==
  /\ AssemblerTypeOK
  /\ phase = "running" => counter \in DOMAIN code /\ Fetched[1] = "instruction"
  /\ OperandsAligned

(* Every instruction moves the counter (an assertion in vm_execute).  It   *)
(* does not hold: a jump to itself, and a RETURN that directly follows the *)
(* call of itself, move it by nothing.                                     *)
NeverAborts == lines # <<>> => phase # "aborted"

(* The first line with an instruction that is not before position p; the   *)
(* first guard value stands for the end of the program as well.            *)
LineAt(p) ==
  LET from == {i \in DOMAIN lines : lines[i].instruction # None /\ position[i] >= p}
  IN  IF p = 0 \/ from = {} THEN Len(lines) + 1
      ELSE CHOOSE i \in from : \A j \in from : i <= j

(* The line that is executed next, those that calls return to, and that of *)
(* the function reference                                                  *)
AtLine == IF position = <<>> THEN 0 ELSE LineAt(counter)

CallLines == [i \in 1 .. Len(returns) - 1 |-> LineAt(returns[i + 1])]

FunctionLine == IF function = None THEN None ELSE LineAt(function)

Language == INSTANCE AssemblyLanguage WITH
  Main <- MainName, MaxCalls <- MaxReturns,
  at <- AtLine, calls <- CallLines, function <- FunctionLine

(* The bytecode of a program does what its lines say, from main on, label  *)
(* by label, through every call and return, and a program is refused if    *)
(* and only if a label is undefined or defined twice or an operand is of   *)
(* the wrong kind.                                                         *)
IsProgram == Language!Spec
=============================================================================
