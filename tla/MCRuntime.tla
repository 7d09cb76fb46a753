----------------------------- MODULE MCRuntime ------------------------------
(***************************************************************************)
(* Instances of Runtime for TLC: objects of one to three bytes, so that    *)
(* the length has every rest modulo 3, with every character class in their *)
(* text.                                                                   *)
(***************************************************************************)
EXTENDS Runtime

MCContents == {<<0>>, <<251>>, <<105, 183>>, <<255, 239>>, <<77, 254, 63>>}

MCForeign == {[i \in 1..10 |-> 0], [i \in 1..10 |-> 255 - 24 * i]}
=============================================================================
