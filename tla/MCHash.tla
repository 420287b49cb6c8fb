-------------------------------- MODULE MCHash --------------------------------
(* Three keys that collide and one that does not, in three buckets of      *)
(* which the first or the last is empty at times.                          *)
EXTENDS Hash

MCKeys == 1 .. 4
MCHashOf == [key \in MCKeys |-> IF key = 3 THEN 4 ELSE 3]
MCKeyLists == {<<>>, <<2>>, <<3, 1>>, <<4, 2, 4>>}
=============================================================================
