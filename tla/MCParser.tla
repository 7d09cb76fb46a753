------------------------------ MODULE MCParser ------------------------------
(***************************************************************************)
(* Instances of Parser for TLC: two structs, a small and a large builtin   *)
(* type, every form of a field, and lines the document does not describe.  *)
(***************************************************************************)
EXTENDS Parser

Comment(starts, ends, middle) ==
  [starts |-> starts, ends |-> ends, middle |-> middle, words |-> <<"text">>]

Code(words) == [starts |-> "none", ends |-> FALSE, middle |-> FALSE, words |-> words]

Comments ==
  {Comment("//", FALSE, FALSE), Comment("//", TRUE, FALSE),
   Comment("/*", FALSE, FALSE), Comment("/*", TRUE, FALSE),
   Comment("*/", FALSE, FALSE), Comment("none", TRUE, FALSE),
   Comment("none", FALSE, TRUE), Code(<<"text">>), Code(<<>>)}

Documented ==
  {Code(w) : w \in {
    <<"struct", "a", "{">>, <<"struct", "b", "packed", "{">>, <<"}">>,
    <<"int8", "x">>, <<"mutable", "int64", "x">>, <<"repeated", "int8", "y">>,
    <<"mutable", "repeated", "int64", "y">>, <<"repeated", "mutable", "int8", "x">>,
    <<"a", "x">>, <<"mutable", "b", "y">>, <<"mutable", "repeated", "a">>}}

Odd ==
  {Code(w) : w \in {
    <<"struct">>, <<"struct", "b", "packed">>, <<"{">>, <<"mutable", "repeated">>,
    <<"text", "x">>, <<"int8", "mutable", "x">>}}

AllLines == Comments \cup Documented \cup Odd

Sizes == [t \in {"int8", "int64"} |-> IF t = "int8" THEN 1 ELSE 8]
=============================================================================
