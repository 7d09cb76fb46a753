----------------------------- MODULE MCCompiler -----------------------------
(***************************************************************************)
(* Instances of Compiler for TLC: the lines of one or two structs, and     *)
(* command lines that differ in one respect or two.                        *)
(***************************************************************************)
EXTENDS Compiler

Code(words) == [starts |-> "none", ends |-> FALSE, middle |-> FALSE, words |-> words]

(* Integers of every class of sizes; arrays are the fields of 8 bytes that  *)
(* are none.                                                                *)
FileLines ==
  {Code(w) : w \in {
    <<"struct", "a", "{">>, <<"struct", "b", "{">>, <<"}">>,
    <<"int8", "x">>, <<"int40", "x">>, <<"int72", "x">>, <<"mutable", "int8", "y_count">>,
    <<"repeated", "int8", "y">>, <<"repeated", "int8", "y_item">>, <<"a", "x">>,
    <<"mutable", "repeated", "a">>}}

FittingLines == {Code(w) : w \in {<<"struct", "a", "{">>, <<"}">>, <<"int8", "x">>, <<"int64", "y">>}}

Sizes ==
  [t \in {"int8", "int40", "int64", "int72"} |->
     CASE t = "int8" -> 1 [] t = "int72" -> 12 [] OTHER -> 8]

Aligned == [runtime |-> 8, target |-> 16]

Command(emit, target, runtime, bind) ==
  [emit |-> emit, target |-> target, runtime |-> runtime, bind |-> bind]

Commands ==
  {Command("object", "cpu", {}, {"c"}), Command("object", "cpu", {"file", "base64"}, {"c", "rust"}),
   Command("bitcode", "gpu", {}, {"rust"}), Command("object", "gpu", {"file"}, {"c"}),
   Command("bitcode", "unknown", {}, {"c"})}
=============================================================================
