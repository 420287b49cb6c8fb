------------------------------- MODULE MCArray --------------------------------
(* Two slots at first, growing at either end, with room for five scalars.  *)
EXTENDS Array

(* Indices in and out of bounds, from either end, alone and in pairs.      *)
MCIndexLists == {<<0>>, <<1>>, <<2>>, <<-1>>, <<-2>>, <<0, 1>>, <<1, 0>>, <<0, -1>>}
=============================================================================
