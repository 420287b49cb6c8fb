----------------------------- MODULE Environment ------------------------------
(***************************************************************************)
(* What the symbol tables of one execution context promise to the SYM...   *)
(* instructions (symboltable.c): nested scopes, each of which gives some   *)
(* identifiers a meaning; the innermost meaning of an identifier counts.   *)
(* There is one operation for each instruction, and one for its failure.   *)
(***************************************************************************)
EXTENDS Integers, Sequences

VARIABLES
  scopes,        \* the meanings in each open scope, innermost last
  result         \* what the last instruction pushed, 0 for undef

vars == <<scopes, result>>

Init == scopes = <<>> /\ result = 0

Innermost == Len(scopes)

(* The scopes that know an identifier, and its meaning in the innermost.   *)
Knowing(id) == {k \in 1 .. Innermost : id \in DOMAIN scopes[k]}

Meaning(id) ==
  IF Knowing(id) = {} THEN 0
  ELSE scopes[CHOOSE k \in Knowing(id) : \A j \in Knowing(id) : j <= k][id]

Enter(id, object) ==
  scopes' = [scopes EXCEPT ![Innermost] =
               [i \in DOMAIN @ \cup {id} |-> IF i = id THEN object ELSE @[i]]]

Open == scopes' = Append(scopes, <<>>) /\ UNCHANGED result

Close ==
  /\ scopes # <<>>
  /\ scopes' = SubSeq(scopes, 1, Innermost - 1)
  /\ UNCHANGED result

Define(id, object) ==
  /\ scopes # <<>>
  /\ id \notin DOMAIN scopes[Innermost]
  /\ Enter(id, object)
  /\ result' = object

(* The identifier is taken, or memory is short.                            *)
Refuse == result' = 0 /\ UNCHANGED scopes

Find(id) == result' = Meaning(id) /\ UNCHANGED scopes

(* The meaning an outer scope gives to an identifier is entered in the     *)
(* current one under a name.                                               *)
CloneAs(name, id) ==
  /\ scopes # <<>>
  /\ id \notin DOMAIN scopes[Innermost]
  /\ Meaning(id) # 0
  /\ name \notin DOMAIN scopes[Innermost]
  /\ Enter(name, Meaning(id))
  /\ result' = Meaning(id)

(* "Makes the identifier available directly within the current scope"      *)
Clone(id) == CloneAs(id, id)

(* Nothing is changed if the current scope does not know the identifier.   *)
Undefine(id) ==
  /\ scopes # <<>>
  /\ scopes' = [scopes EXCEPT ![Innermost] =
                  [i \in DOMAIN @ \ {id} |-> @[i]]]
  /\ UNCHANGED result
=============================================================================
