---------------------------- MODULE MCAccessors ----------------------------
(***************************************************************************)
(* Instances of Accessors for TLC.                                         *)
(***************************************************************************)
EXTENDS Accessors, TLC

(* Addresses and values are interchangeable: no definition tells them       *)
(* apart except by equality.                                                *)
Symmetric ==
  Permutations(Addr) \cup Permutations(Value) \cup Permutations(Mutable)
=============================================================================
