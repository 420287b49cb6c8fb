------------------------------ MODULE Dictionary ------------------------------
(***************************************************************************)
(* What a hash promises to the HR... instructions (hash.c): a map from     *)
(* keys to values, in which looking a key up enters it if it is missing.   *)
(* The n-th value made for the hash is the number n.  There is one         *)
(* operation for each instruction; HRSLICE and HRFILL take several.        *)
(***************************************************************************)
EXTENDS Integers, Sequences, FiniteSets

VARIABLES
  map,           \* the value of each key
  made,          \* the number of values made for the hash so far
  result         \* what the last instruction pushed on the data stack

vars == <<map, made, result>>

(* A map without keys.                                                     *)
Empty == [key \in {} |-> 0]

Init == map = Empty /\ made = 0 /\ result = <<>>

(* The value of a key, or the one that is made for it.                     *)
ValueOf(key) == IF key \in DOMAIN map THEN map[key] ELSE made + 1

(* The key is entered with a new value unless it has one.                  *)
Require(key) ==
  /\ map' = [k \in DOMAIN map \cup {key} |-> IF k \in DOMAIN map THEN map[k] ELSE made + 1]
  /\ made' = IF key \in DOMAIN map THEN made ELSE made + 1

(* Its value is all that an instruction pushes, or comes after those that  *)
(* it has found so far, or is only needed in the map.                      *)
Index(key) == Require(key) /\ result' = <<ValueOf(key)>>

Collect(key) == Require(key) /\ result' = Append(result, ValueOf(key))

Fill(key) == Require(key) /\ UNCHANGED result

Delete(key) ==
  /\ map' = [k \in DOMAIN map \ {key} |-> map[k]]
  /\ result' = <<>>
  /\ UNCHANGED made

Exists(key) ==
  /\ result' = IF key \in DOMAIN map THEN <<1>> ELSE <<0>>
  /\ UNCHANGED <<map, made>>

Size == result' = <<Cardinality(DOMAIN map)>> /\ UNCHANGED <<map, made>>

Begin == result' = <<>> /\ UNCHANGED <<map, made>>

Clear == map' = Empty /\ UNCHANGED made

(* Every key once, followed by its value.                                  *)
ListPairs ==
  LET n == Cardinality(DOMAIN map)
  IN /\ Len(result') = 2 * n
     /\ {result'[2 * i - 1] : i \in 1 .. n} = DOMAIN map
     /\ \A i \in 1 .. n : result'[2 * i] = map[result'[2 * i - 1]]
     /\ UNCHANGED <<map, made>>

(* As many results as there are keys, and every key or value among them.   *)
ListAll(all) ==
  /\ Len(result') = Cardinality(DOMAIN map)
  /\ {result'[i] : i \in DOMAIN result'} = all
  /\ UNCHANGED <<map, made>>

ListKeys == ListAll(DOMAIN map)

ListValues == ListAll({map[key] : key \in DOMAIN map})
=============================================================================
