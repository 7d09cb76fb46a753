--------------------------- MODULE MCSerialization ---------------------------
(***************************************************************************)
(* Instances of Serialization for TLC.                                     *)
(***************************************************************************)
EXTENDS Serialization

Pairs == <<"count", "array", "count", "array">>

Flat == {<<"scalar", "count", "array">>, Pairs}

(* With a scalar between arrays, a lost array makes the next count a word   *)
(* of data.                                                                 *)
Mixed == {Pairs, <<"count", "array", "scalar", "count", "array">>}
=============================================================================
