------------------------------- MODULE Parser -------------------------------
(***************************************************************************)
(* Parser::parseFile and parseLine, with what they call to build the table *)
(* of structs: Module::getOrCreateStruct and parseType, Struct::addField,  *)
(* addRepeatedField and finalizeFields.                                    *)
(*                                                                         *)
(* One step reads one line.  A line is its comment marks and its words,    *)
(* those after the leading spaces.  Next to the parser runs a reader of    *)
(* doc/Syntax.md, which knows what the lines so far mean as long as they   *)
(* are in the form described there.                                        *)
(***************************************************************************)
EXTENDS Naturals, SequencesExt

CONSTANTS
  Lines,     \* the lines a file may have
  Builtin,   \* the types that parseType knows by name
  SizeOf,    \* their sizes
  StableUpTo, \* std::sort keeps the order of equals in so many fields
  None,      \* no struct
  MaxLines   \* bound: the length of a file

Mark == {"none", "//", "/*", "*/"}

Keyword == {"struct", "packed", "mutable", "repeated", "{", "}"}

ASSUME ParserAssumption ==
  /\ \A l \in Lines : /\ l.starts \in Mark
                      /\ l.ends \in BOOLEAN    \* it ends with */
                      /\ l.middle \in BOOLEAN  \* a mark elsewhere in it
                      /\ l.words \in Seq(STRING)
                      /\ l.words = <<>> => ~l.ends /\ ~l.middle
                      /\ Len(l.words) >= 2 /\ l.words[1] = "struct" =>
                           l.words[2] \notin Builtin \cup {None}
  /\ SizeOf \in [Builtin -> Nat \ {0}]
  /\ StableUpTo \in Nat
  /\ Builtin \cap Keyword = {}
  /\ MaxLines \in Nat

VARIABLES
  inside,   \* insideComment
  current,  \* m_current_struct_
  structs,  \* m_module_structs_
  result,   \* "reading", then what parseFile returned
  fault,    \* the undefined behaviour met so far
  read,     \* the number of lines read
  doc       \* auxiliary: what doc/Syntax.md makes of them

vars == <<inside, current, structs, result, fault, read, doc>>

Blank(l) == l.starts = "none" /\ l.words = <<>>

-----------------------------------------------------------------------------
(* Structs.  version counts the calls of finalizeFields: the struct has no  *)
(* LLVM type before the first, and a new one after each.  The last of them  *)
(* gave the struct to its first typed fields as their parentType.           *)

NewStruct == [fields |-> <<>>, packed |-> FALSE, version |-> 0, typed |-> 0]

GetOrCreate(n) ==
  [m \in DOMAIN structs \cup {n} |-> IF m \in DOMAIN structs THEN structs[m] ELSE NewStruct]

FieldSize(f) == IF f.kind = "scalar" /\ f.type \in Builtin THEN SizeOf[f.type] ELSE 8

(* std::sort by size.  Up to a number of fields, 16 in libstdc++, it sorts   *)
(* by insertion and equal sizes keep their order; beyond that they come in  *)
(* any order.                                                               *)
Before(fs, i, j) ==
  \/ FieldSize(fs[i]) < FieldSize(fs[j])
  \/ FieldSize(fs[i]) = FieldSize(fs[j]) /\ i < j

Rank(fs, j) == Cardinality({i \in DOMAIN fs : Before(fs, i, j)}) + 1

(* Where each field may go.                                                 *)
Places(fs) ==
  IF Len(fs) <= StableUpTo
    THEN {[j \in DOMAIN fs |-> Rank(fs, j)]}
    ELSE {r \in Bijection(DOMAIN fs, DOMAIN fs) :
            \A i, j \in DOMAIN fs : FieldSize(fs[i]) < FieldSize(fs[j]) => r[i] < r[j]}

SortBySize(fs) ==
  {[k \in DOMAIN fs |-> fs[CHOOSE j \in DOMAIN fs : r[j] = k]] : r \in Places(fs)}

(* A field of a struct type has the LLVM type the struct has at that point. *)
Scalar(n, t, m) ==
  [kind |-> "scalar", name |-> n, type |-> t, mut |-> m,
   of |-> IF t \in DOMAIN structs THEN structs[t].version ELSE 0]

FieldsFor(n, t, m, repeated) ==
  IF repeated
    THEN << [Scalar(n, t, m) EXCEPT !.kind = "count"], [Scalar(n, t, m) EXCEPT !.kind = "array"] >>
    ELSE << Scalar(n, t, m) >>

-----------------------------------------------------------------------------
(* parseLine                                                                *)

Fail(why) == fault' = why /\ UNCHANGED <<current, structs, result>>

Reject == result' = "rejected" /\ UNCHANGED <<current, structs, fault>>

OpenStruct(l) ==
  IF current # None THEN Reject
  ELSE IF Len(l.words) < 2 THEN Fail("range")
  ELSE LET n == l.words[2] IN
       /\ current' = n
       /\ structs' = [GetOrCreate(n) EXCEPT
                        ![n].packed = Len(l.words) = 3 /\ l.words[3] = "packed"]
       /\ UNCHANGED <<result, fault>>

(* Mutant: the fields are sorted from the largest to the smallest, by a     *)
(* sort that turns equals around.                                           *)
CloseStructReversed ==
  IF current = None THEN Fail("null")
  ELSE /\ \E sorted \in SortBySize(structs[current].fields) :
            structs' = [structs EXCEPT ![current].fields = Reverse(sorted),
                                       ![current].version = @ + 1,
                                       ![current].typed = Len(sorted)]
       /\ current' = None
       /\ UNCHANGED <<result, fault>>

CloseStruct ==
  IF current = None THEN Fail("null")
  ELSE /\ \E sorted \in SortBySize(structs[current].fields) :
            structs' = [structs EXCEPT ![current].fields = sorted,
                                       ![current].version = @ + 1,
                                       ![current].typed = Len(sorted)]
       /\ current' = None
       /\ UNCHANGED <<result, fault>>

IsMut(l) == "mutable" \in {l.words[1], l.words[2]}

IsRepeated(l) == "repeated" \in {l.words[1], l.words[2]}

(* Mutant: the type is always behind one modifier.                          *)
TypeAtSecond(l) == IF IsMut(l) \/ IsRepeated(l) THEN 2 ELSE 1

TypeAt(l) ==
  IF IsMut(l) /\ IsRepeated(l) THEN 3 ELSE IF IsMut(l) \/ IsRepeated(l) THEN 2 ELSE 1

(* Mutant: what parseType returns is not looked at.                        *)
AddFieldUnchecked(l) ==
  IF Len(l.words) < 2 \/ Len(l.words) < TypeAt(l) THEN Fail("range")
  ELSE IF current = None THEN Fail("null")
  ELSE /\ structs' = [structs EXCEPT ![current].fields =
                        @ \o FieldsFor(Last(l.words), l.words[TypeAt(l)], IsMut(l), IsRepeated(l))]
       /\ UNCHANGED <<current, result, fault>>

(* The second word is read even if there is only one; the name is the last  *)
(* word.  parseType refuses a type it does not know, and goes through the   *)
(* null type of a struct that is not finalized.  Structs named like an      *)
(* integer type, which it would read as one, are left out (Lines).          *)
AddField(l) ==
  IF Len(l.words) < 2 \/ Len(l.words) < TypeAt(l) THEN Fail("range")
  ELSE IF current = None THEN Fail("null")
  ELSE LET t == l.words[TypeAt(l)] IN
       IF t \notin Builtin \cup DOMAIN structs THEN Reject
       ELSE IF t \notin Builtin /\ structs[t].version = 0 THEN Fail("null")
       ELSE /\ structs' = [structs EXCEPT ![current].fields =
                             @ \o FieldsFor(Last(l.words), t, IsMut(l), IsRepeated(l))]
            /\ UNCHANGED <<current, result, fault>>

ParseLine(l) ==
  CASE l.words[1] = "struct" -> OpenStruct(l)
    [] l.words[1] = "}"      -> CloseStruct
    [] OTHER                 -> AddField(l)

-----------------------------------------------------------------------------
(* parseFile: the tests on a line in their order                            *)

Skip == UNCHANGED <<current, structs, result, fault>>

SkipLine(l) ==
  /\ Blank(l) \/ l.starts = "//"
  /\ Skip /\ UNCHANGED inside

OpenComment(l) ==
  /\ l.starts = "/*"
  /\ inside' = TRUE
  /\ Skip

CloseComment(l) ==
  /\ l.starts = "*/" \/ (l.starts = "none" /\ l.ends)
  /\ inside' = FALSE
  /\ Skip

(* Inside a block comment too.                                              *)
InlineComment(l) ==
  /\ l.starts = "none" /\ ~l.ends /\ l.middle
  /\ Reject /\ UNCHANGED inside

Text(l) ==
  /\ l.starts = "none" /\ ~l.ends /\ ~l.middle /\ ~Blank(l)
  /\ UNCHANGED inside
  /\ IF inside THEN Skip ELSE ParseLine(l)

-----------------------------------------------------------------------------
(* The reader of doc/Syntax.md.  declared is the sequence of its fields for *)
(* each struct; known turns FALSE at a line the document says nothing of.   *)

Unknown(d) == [d EXCEPT !.known = FALSE]

DocStruct(d, l) ==
  LET n == l.words[2] IN
  IF d.open = None /\ Len(l.words) \in {3, 4} /\ Last(l.words) = "{"
     /\ (Len(l.words) = 4 => l.words[3] = "packed")
     /\ n \notin DOMAIN d.declared \cup Keyword \cup Builtin
    THEN [d EXCEPT !.open = n,
                   !.declared = [m \in DOMAIN @ \cup {n} |-> IF m = n THEN <<>> ELSE @[m]],
                   !.packed = IF Len(l.words) = 4 THEN @ \cup {n} ELSE @]
    ELSE Unknown(d)

Modifiers ==
  {<<>>, <<"mutable">>, <<"repeated">>, <<"mutable", "repeated">>, <<"repeated", "mutable">>}

(* The modifiers in either order, the type, and a name; where the type is   *)
(* behind modifiers it may be the name as well (test/path.tyr).             *)
DocField(d, l) ==
  LET mods == Cardinality({i \in DOMAIN l.words : l.words[i] \in {"mutable", "repeated"}})
      rest == SubSeq(l.words, mods + 1, Len(l.words))
  IN IF /\ d.open # None
        /\ SubSeq(l.words, 1, mods) \in Modifiers
        /\ Len(rest) = 2 \/ (Len(rest) = 1 /\ mods > 0)
        /\ Range(rest) \cap Keyword = {}
        /\ rest[1] \in Builtin \cup (DOMAIN d.declared \ {d.open})
     THEN [d EXCEPT !.declared[d.open] =
             Append(@, [name |-> Last(rest), type |-> rest[1], mut |-> "mutable" \in Range(l.words),
                        kind |-> IF "repeated" \in Range(l.words) THEN "array" ELSE "scalar"])]
     ELSE Unknown(d)

DocCode(d, l) ==
  IF l.words[1] = "struct" THEN DocStruct(d, l)
  ELSE IF l.words = <<"}">> /\ d.open # None THEN [d EXCEPT !.open = None]
  ELSE DocField(d, l)

(* A comment takes whole lines, and not only one of them.                   *)
Read(d, l) ==
  IF ~d.known \/ l.middle \/ (l.ends /\ l.starts # "none") THEN Unknown(d)
  ELSE IF d.comment THEN [d EXCEPT !.comment = ~(l.starts = "*/" \/ l.ends)]
  ELSE IF Blank(l) \/ l.starts = "//" THEN d
  ELSE IF l.starts = "/*" THEN [d EXCEPT !.comment = TRUE]
  ELSE IF l.starts = "*/" \/ l.ends THEN Unknown(d)
  ELSE DocCode(d, l)

-----------------------------------------------------------------------------
Init ==
  /\ inside = FALSE /\ current = None /\ structs = <<>>
  /\ result = "reading" /\ fault = "none" /\ read = 0
  /\ doc = [comment |-> FALSE, open |-> None, declared |-> <<>>, packed |-> {}, known |-> TRUE]

ReadLine(l) ==
  /\ read < MaxLines
  /\ read' = read + 1
  /\ doc' = Read(doc, l)
  /\ \/ SkipLine(l)
     \/ OpenComment(l) \/ CloseComment(l) \/ InlineComment(l)
     \/ Text(l)

(* The end of the file is a success wherever it comes.                      *)
EndOfFile ==
  /\ result' = "accepted"
  /\ UNCHANGED <<inside, current, structs, fault, read, doc>>

Next ==
  /\ result = "reading" /\ fault = "none"
  /\ (\E l \in Lines : ReadLine(l)) \/ EndOfFile

Spec == Init /\ [][Next]_vars

-----------------------------------------------------------------------------
(* Properties                                                               *)

Type == Builtin \cup DOMAIN structs

Field == [kind : {"scalar", "count", "array"}, name : STRING, type : Type,
          mut : BOOLEAN, of : Nat]

Struct == [fields : Seq(Field), packed : BOOLEAN, version : Nat, typed : Nat]

(* The variables keep their types; a field's type is one the module knows.  *)
TypeOK ==
  /\ inside \in BOOLEAN
  /\ current \in DOMAIN structs \cup {None}
  /\ structs \in [DOMAIN structs -> Struct]
  /\ \A n \in DOMAIN structs : structs[n].typed <= Len(structs[n].fields)
  /\ result \in {"reading", "accepted", "rejected"}
  /\ fault \in {"none", "null", "range"}
  /\ read \in 0..MaxLines

Occurrences(s, x) == Cardinality({i \in DOMAIN s : s[i] = x})

Declared(fs) ==
  [i \in DOMAIN fs |-> [name |-> fs[i].name, type |-> fs[i].type,
                        mut |-> fs[i].mut, kind |-> fs[i].kind]]

(* As long as a file is in the documented form, the parser does not refuse  *)
(* it, is in the comment or struct the reader is in, and has exactly the    *)
(* structs and fields that were declared, in any order, and counts besides. *)
Faithful ==
  doc.known =>
    /\ fault = "none" /\ result # "rejected"
    /\ inside = doc.comment /\ current = doc.open
    /\ DOMAIN structs = DOMAIN doc.declared
    /\ \A n \in DOMAIN structs :
         LET has == Declared(structs[n].fields)
             should == doc.declared[n]
         IN \A f \in Range(has) \cup Range(should) :
              f.kind # "count" => Occurrences(has, f) = Occurrences(should, f)

CountsLead(fs) ==
  \A i \in DOMAIN fs :
    fs[i].kind = "array" => i > 1 /\ fs[i - 1] = [fs[i] EXCEPT !.kind = "count"]

(* In every struct, open, closed or opened again, that has no more fields   *)
(* than the sort keeps in order, an array comes right after its count, as   *)
(* the generated functions need it.                                         *)
CountFirst ==
  \A n \in DOMAIN structs :
    Len(structs[n].fields) <= StableUpTo => CountsLead(structs[n].fields)

Uses(n) == {f.type : f \in Range(structs[n].fields)} \ Builtin

(* No struct contains itself, directly or through others, unless one was    *)
(* opened again: destroying and serializing a nested struct ends.           *)
Acyclic ==
  (\A n \in DOMAIN structs : structs[n].version + (IF n = current THEN 1 ELSE 0) <= 1) =>
    \A ns \in SUBSET DOMAIN structs :
      ns # {} => \E n \in ns : Uses(n) \cap ns = {}

(* "struct name <packed> {" (doc/Syntax.md 21): a struct declared packed is *)
(* packed.                                                                  *)
PackedHonored ==
  doc.known => \A n \in doc.packed : structs[n].packed
=============================================================================
