---------------------------- MODULE ParserProofs ----------------------------
(***************************************************************************)
(* What the parser makes of a file, for all lines, all builtin types and   *)
(* files of any length.                                                    *)
(***************************************************************************)
EXTENDS Parser, FiniteSetTheorems, FunctionTheorems, SequenceTheorems, TLAPS

-----------------------------------------------------------------------------
(* The sort of the fields                                                   *)

(* Sizes are numbers.                                                       *)
LEMMA FieldSizeType == \A f : FieldSize(f) \in Nat
BY ParserAssumption DEF FieldSize

(* Size and position order the fields of a struct.                          *)
LEMMA BeforeOrder ==
  ASSUME NEW fs, NEW i \in Nat, NEW j \in Nat, NEW k \in Nat
  PROVE  /\ ~Before(fs, i, i)
         /\ Before(fs, i, j) /\ Before(fs, j, k) => Before(fs, i, k)
         /\ i # j => Before(fs, i, j) \/ Before(fs, j, i)
<1>1. FieldSize(fs[i]) \in Nat /\ FieldSize(fs[j]) \in Nat /\ FieldSize(fs[k]) \in Nat
  BY FieldSizeType
<1> QED
  BY <1>1 DEF Before

Earlier(fs, j) == {i \in DOMAIN fs : Before(fs, i, j)}

(* The fields that come before one are finitely many, and it is not one.    *)
LEMMA EarlierFinite ==
  ASSUME NEW S, NEW fs \in Seq(S), NEW j \in DOMAIN fs
  PROVE  /\ IsFiniteSet(Earlier(fs, j))
         /\ Cardinality(Earlier(fs, j)) \in Nat
         /\ Cardinality(Earlier(fs, j)) < Len(fs)
         /\ Rank(fs, j) = Cardinality(Earlier(fs, j)) + 1
<1>1. DOMAIN fs = 1..Len(fs) /\ Len(fs) \in Nat
  OBVIOUS
<1>2. IsFiniteSet(1..Len(fs)) /\ Cardinality(1..Len(fs)) = Len(fs)
  <2>1. /\ IsFiniteSet(1..Len(fs))
        /\ Cardinality(1..Len(fs)) = IF 1 > Len(fs) THEN 0 ELSE Len(fs) - 1 + 1
    BY <1>1, FS_Interval
  <2> QED
    BY <1>1, <2>1
<1>3. /\ IsFiniteSet((1..Len(fs)) \ {j})
      /\ Cardinality((1..Len(fs)) \ {j}) = Len(fs) - 1
  <2> DEFINE D == 1..Len(fs)
  <2>1. IsFiniteSet(D) /\ Cardinality(D) = Len(fs) /\ j \in D
    BY <1>1, <1>2
  <2> HIDE DEF D
  <2>2. IsFiniteSet(D \ {j}) /\ Cardinality(D \ {j}) = Len(fs) - 1
    BY <2>1, FS_RemoveElement
  <2> QED
    BY <2>2 DEF D
<1>4. Earlier(fs, j) \subseteq (1..Len(fs)) \ {j}
  <2>1. ~Before(fs, j, j)
    BY <1>1, BeforeOrder
  <2> QED
    BY <1>1, <2>1 DEF Earlier
<1>5. /\ IsFiniteSet(Earlier(fs, j))
      /\ Cardinality(Earlier(fs, j)) <= Len(fs) - 1
  BY <1>3, <1>4, FS_Subset
<1>6. Cardinality(Earlier(fs, j)) \in Nat
  BY <1>5, FS_CardinalityType
<1>7. Rank(fs, j) = Cardinality(Earlier(fs, j)) + 1
  BY DEF Rank, Earlier
<1> QED
  BY <1>1, <1>5, <1>6, <1>7

(* A field that comes before another has a lower rank.                      *)
LEMMA RankGrows ==
  ASSUME NEW S, NEW fs \in Seq(S), NEW i \in DOMAIN fs, NEW j \in DOMAIN fs,
         Before(fs, i, j)
  PROVE  Rank(fs, i) < Rank(fs, j)
<1>1. DOMAIN fs = 1..Len(fs) /\ Len(fs) \in Nat
  OBVIOUS
<1>2. i \notin Earlier(fs, i) /\ Earlier(fs, i) \cup {i} \subseteq Earlier(fs, j)
  <2>1. ~Before(fs, i, i)
    BY <1>1, BeforeOrder
  <2>2. ASSUME NEW k \in DOMAIN fs, Before(fs, k, i) PROVE Before(fs, k, j)
    <3>1. i \in Nat /\ j \in Nat /\ k \in Nat
      BY <1>1
    <3> QED
      BY <2>2, <3>1, BeforeOrder
  <2> QED
    BY <2>1, <2>2 DEF Earlier
<1>3. /\ IsFiniteSet(Earlier(fs, i)) /\ Cardinality(Earlier(fs, i)) \in Nat
      /\ Rank(fs, i) = Cardinality(Earlier(fs, i)) + 1
  BY EarlierFinite
<1>4. /\ IsFiniteSet(Earlier(fs, j)) /\ Cardinality(Earlier(fs, j)) \in Nat
      /\ Rank(fs, j) = Cardinality(Earlier(fs, j)) + 1
  BY EarlierFinite
<1>5. Cardinality(Earlier(fs, i) \cup {i}) = Cardinality(Earlier(fs, i)) + 1
  BY <1>2, <1>3, FS_AddElement
<1>6. Cardinality(Earlier(fs, i) \cup {i}) <= Cardinality(Earlier(fs, j))
  BY <1>2, <1>4, FS_Subset
<1> QED
  BY <1>3, <1>4, <1>5, <1>6

(* Every place is the rank of just one field.                               *)
LEMMA RankBijection ==
  ASSUME NEW S, NEW fs \in Seq(S)
  PROVE  /\ \A j \in DOMAIN fs : Rank(fs, j) \in DOMAIN fs
         /\ \A i, j \in DOMAIN fs : Rank(fs, i) = Rank(fs, j) => i = j
         /\ \A k \in DOMAIN fs : \E j \in DOMAIN fs : Rank(fs, j) = k
<1> DEFINE D == DOMAIN fs
           rank == [j \in D |-> Rank(fs, j)]
<1>1. D = 1..Len(fs) /\ Len(fs) \in Nat
  OBVIOUS
<1>2. ASSUME NEW j \in D PROVE Rank(fs, j) \in D
  <2>1. /\ Cardinality(Earlier(fs, j)) \in Nat
        /\ Cardinality(Earlier(fs, j)) < Len(fs)
        /\ Rank(fs, j) = Cardinality(Earlier(fs, j)) + 1
    BY EarlierFinite
  <2> QED
    BY <1>1, <2>1
<1>3. ASSUME NEW i \in D, NEW j \in D, Rank(fs, i) = Rank(fs, j) PROVE i = j
  <2>1. i \in Nat /\ j \in Nat
    BY <1>1
  <2>2. Rank(fs, i) \in Nat
    BY <1>1, <1>2
  <2>3. ~Before(fs, i, j)
    BY <1>3, <2>2, RankGrows
  <2>4. ~Before(fs, j, i)
    BY <1>3, <2>2, RankGrows
  <2> QED
    BY <2>1, <2>3, <2>4, BeforeOrder
<1> HIDE DEF D
<1>4. rank \in [D -> D] /\ \A i, j \in D : rank[i] = rank[j] => i = j
  BY <1>2, <1>3
<1>5. IsFiniteSet(D)
  BY <1>1, FS_Interval
<1>6. \A j \in D : rank[j] = Rank(fs, j)
  OBVIOUS
<1> HIDE DEF rank
<1>7. rank \in Injection(D, D)
  BY <1>4, Fun_IsInj
<1>8. rank \in Surjection(D, D)
  BY <1>5, <1>7, FS_Injection
<1>9. \A k \in D : \E j \in D : rank[j] = k
  BY <1>8, Fun_SurjectionProperties
<1>10. \A k \in D : \E j \in D : Rank(fs, j) = k
  BY <1>6, <1>9
<1> QED
  BY <1>2, <1>3, <1>10 DEF D

(* A way to place the fields is a permutation that puts the smaller first,  *)
(* and each at its rank if the fields are few.                              *)
LEMMA PlacesPermute ==
  ASSUME NEW S, NEW fs \in Seq(S), NEW r \in Places(fs)
  PROVE  /\ r \in [DOMAIN fs -> DOMAIN fs]
         /\ \A i, j \in DOMAIN fs : r[i] = r[j] => i = j
         /\ \A k \in DOMAIN fs : \E j \in DOMAIN fs : r[j] = k
         /\ \A i, j \in DOMAIN fs : FieldSize(fs[i]) < FieldSize(fs[j]) => r[i] < r[j]
         /\ Len(fs) <= StableUpTo => \A j \in DOMAIN fs : r[j] = Rank(fs, j)
<1>1. CASE Len(fs) <= StableUpTo
  <2>1. r = [j \in DOMAIN fs |-> Rank(fs, j)]
    BY <1>1 DEF Places
  <2>2. \A j \in DOMAIN fs : r[j] = Rank(fs, j) /\ Rank(fs, j) \in DOMAIN fs
    BY <2>1, RankBijection
  <2>3. r \in [DOMAIN fs -> DOMAIN fs]
    BY <2>1, <2>2
  <2>4. ASSUME NEW i \in DOMAIN fs, NEW j \in DOMAIN fs, FieldSize(fs[i]) < FieldSize(fs[j])
        PROVE  r[i] < r[j]
    <3>1. Before(fs, i, j)
      BY <2>4 DEF Before
    <3> QED
      BY <2>2, <3>1, RankGrows
  <2> QED
    BY <2>2, <2>3, <2>4, RankBijection
<1>2. CASE ~(Len(fs) <= StableUpTo)
  <2>1. /\ r \in Bijection(DOMAIN fs, DOMAIN fs)
        /\ \A i, j \in DOMAIN fs : FieldSize(fs[i]) < FieldSize(fs[j]) => r[i] < r[j]
    BY <1>2 DEF Places
  <2>2. /\ r \in [DOMAIN fs -> DOMAIN fs]
        /\ \A i, j \in DOMAIN fs : r[i] = r[j] => i = j
        /\ \A k \in DOMAIN fs : \E j \in DOMAIN fs : r[j] = k
    BY <2>1, Fun_IsBij DEF Bijection, Injection, Surjection, IsInjective
  <2> QED
    BY <1>2, <2>1, <2>2
<1> QED
  BY <1>1, <1>2

(* The sort is a permutation of the fields according to such a way.         *)
LEMMA SortPermutes ==
  ASSUME NEW S, NEW fs \in Seq(S), NEW new \in SortBySize(fs)
  PROVE  /\ new \in Seq(S) /\ Len(new) = Len(fs) /\ DOMAIN new = DOMAIN fs
         /\ \E r \in Places(fs) : \A j \in DOMAIN fs : r[j] \in DOMAIN fs /\ new[r[j]] = fs[j]
<1> DEFINE D == DOMAIN fs
<1>1. D = 1..Len(fs) /\ Len(fs) \in Nat
  OBVIOUS
<1>2. PICK r \in Places(fs) : new = [k \in D |-> fs[CHOOSE j \in D : r[j] = k]]
  BY DEF SortBySize
<1>3. /\ r \in [D -> D]
      /\ \A i, j \in D : r[i] = r[j] => i = j
      /\ \A k \in D : \E j \in D : r[j] = k
  BY PlacesPermute
<1> DEFINE place == [k \in D |-> CHOOSE j \in D : r[j] = k]
<1>4. ASSUME NEW k \in D PROVE place[k] \in D /\ r[place[k]] = k
  <2>1. \E j \in D : r[j] = k
    BY <1>3
  <2>2. place[k] = CHOOSE j \in D : r[j] = k
    OBVIOUS
  <2> HIDE DEF place
  <2> QED
    BY <2>1, <2>2, Zenon
<1>5. new = [k \in D |-> fs[place[k]]]
  BY <1>2
<1> HIDE DEF place
<1>6. ASSUME NEW j \in D PROVE r[j] \in D /\ place[r[j]] = j
  <2>1. r[j] \in D
    BY <1>3
  <2>2. place[r[j]] \in D /\ r[place[r[j]]] = r[j]
    BY <1>4, <2>1
  <2> QED
    BY <1>3, <2>1, <2>2
<1>7. new \in [1..Len(fs) -> S]
  BY <1>1, <1>4, <1>5
<1>8. new \in Seq(S) /\ Len(new) = Len(fs) /\ DOMAIN new = D
  BY <1>1, <1>7
<1>9. \A j \in D : r[j] \in D /\ new[r[j]] = fs[j]
  BY <1>5, <1>6
<1> QED
  BY <1>8, <1>9

(* Every field of the sorted struct comes from one of the struct.           *)
LEMMA SortKeepsRange ==
  ASSUME NEW S, NEW fs \in Seq(S), NEW new \in SortBySize(fs)
  PROVE  Range(new) = Range(fs)
<1>1. DOMAIN new = DOMAIN fs
  BY SortPermutes
<1>2. PICK r \in Places(fs) : \A j \in DOMAIN fs : r[j] \in DOMAIN fs /\ new[r[j]] = fs[j]
  BY SortPermutes
<1>3. \A k \in DOMAIN fs : \E j \in DOMAIN fs : r[j] = k
  BY PlacesPermute
<1>4. ASSUME NEW k \in DOMAIN fs PROVE \E j \in DOMAIN fs : new[k] = fs[j]
  BY <1>2, <1>3
<1>5. ASSUME NEW j \in DOMAIN fs PROVE \E k \in DOMAIN fs : new[k] = fs[j]
  BY <1>2
<1> QED
  BY <1>1, <1>4, <1>5 DEF Range

(* Fields of the same size that were next to each other stay so.            *)
LEMMA SortKeepsNeighbours ==
  ASSUME NEW S, NEW fs \in Seq(S), NEW i \in DOMAIN fs, i > 1,
         FieldSize(fs[i - 1]) = FieldSize(fs[i])
  PROVE  Rank(fs, i) = Rank(fs, i - 1) + 1
<1> DEFINE h == i - 1
<1>1. /\ DOMAIN fs = 1..Len(fs) /\ Len(fs) \in Nat
      /\ i \in Nat /\ h \in Nat /\ h \in DOMAIN fs /\ h < i
  OBVIOUS
<1>2. ASSUME NEW k \in DOMAIN fs
      PROVE  Before(fs, k, i) <=> Before(fs, k, h) \/ k = h
  <2>1. FieldSize(fs[k]) \in Nat /\ FieldSize(fs[i]) \in Nat /\ k \in Nat
    BY <1>1, FieldSizeType
  <2> QED
    BY <1>1, <2>1 DEF Before
<1> HIDE DEF h
<1>3. ~Before(fs, h, h)
  BY <1>1, BeforeOrder
<1>4. h \notin Earlier(fs, h) /\ Earlier(fs, i) = Earlier(fs, h) \cup {h}
  BY <1>1, <1>2, <1>3 DEF Earlier
<1>5. /\ IsFiniteSet(Earlier(fs, h)) /\ Cardinality(Earlier(fs, h)) \in Nat
      /\ Rank(fs, h) = Cardinality(Earlier(fs, h)) + 1
  BY <1>1, EarlierFinite
<1>6. Rank(fs, i) = Cardinality(Earlier(fs, i)) + 1
  BY EarlierFinite
<1>7. Cardinality(Earlier(fs, i)) = Cardinality(Earlier(fs, h)) + 1
  BY <1>4, <1>5, FS_AddElement
<1>8. Rank(fs, i) = Rank(fs, h) + 1
  BY <1>5, <1>6, <1>7
<1> QED
  BY <1>8 DEF h

-----------------------------------------------------------------------------
(* What a line does to the table of structs                                 *)

Opens(n) ==
  /\ current = None /\ n \in STRING /\ n \notin Builtin \cup {None}
  /\ current' = n
  /\ \E packed \in BOOLEAN : structs' = [GetOrCreate(n) EXCEPT ![n].packed = packed]

Words == UNION {Range(l.words) : l \in Lines}

Adds(name, t, mut, repeated) ==
  /\ current # None /\ t \in Type
  /\ t \notin Builtin => structs[t].version # 0
  /\ name \in STRING /\ name \in Words /\ mut \in BOOLEAN /\ repeated \in BOOLEAN
  /\ UNCHANGED current
  /\ structs' = [structs EXCEPT ![current].fields = @ \o FieldsFor(name, t, mut, repeated)]

ClosesAs(sorted) ==
  /\ current # None /\ current' = None
  /\ sorted \in SortBySize(structs[current].fields)
  /\ structs' = [structs EXCEPT ![current].fields = sorted,
                                ![current].version = @ + 1,
                                ![current].typed = Len(sorted)]

Closes == \E sorted : ClosesAs(sorted)

TableEffect ==
  \/ UNCHANGED <<current, structs>>
  \/ \E n : Opens(n)
  \/ \E name, t, mut, repeated : Adds(name, t, mut, repeated)
  \/ Closes

(* The words of a line are strings.                                         *)
LEMMA WordsType ==
  ASSUME NEW l \in Lines
  PROVE  /\ l.words \in Seq(STRING)
         /\ \A i \in 1..Len(l.words) : l.words[i] \in STRING
         /\ l.words # <<>> => /\ Len(l.words) > 0 /\ Last(l.words) = l.words[Len(l.words)]
                              /\ Last(l.words) \in Words
<1>1. l.words \in Seq(STRING)
  BY ParserAssumption
<1>2. \A i \in 1..Len(l.words) : l.words[i] \in STRING
  BY <1>1
<1>3. l.words # <<>> => Len(l.words) > 0 /\ Len(l.words) \in DOMAIN l.words
  BY <1>1
<1>4. ASSUME l.words # <<>> PROVE Last(l.words) \in Words
  <2>1. Last(l.words) \in Range(l.words)
    BY <1>3, <1>4 DEF Last, Range
  <2> QED
    BY <2>1 DEF Words
<1> QED
  BY <1>1, <1>2, <1>3, <1>4 DEF Last

(* A line that opens a struct.                                              *)
LEMMA StructLine ==
  ASSUME NEW l \in Lines, Len(l.words) >= 2, l.words[1] = "struct", current = None,
         ParseLine(l)
  PROVE  Opens(l.words[2]) /\ UNCHANGED <<result, fault>>
<1> DEFINE n == l.words[2]
           packed == Len(l.words) = 3 /\ l.words[3] = "packed"
<1>1. OpenStruct(l)
  BY DEF ParseLine
<1>2. l.words[2] \in STRING
  BY WordsType
<1>3. packed \in BOOLEAN /\ n \in STRING /\ n \notin Builtin \cup {None}
  BY <1>2, ParserAssumption
<1>4. /\ current' = n
      /\ structs' = [GetOrCreate(n) EXCEPT ![n].packed = packed]
      /\ UNCHANGED <<result, fault>>
  BY <1>1, WordsType DEF OpenStruct
<1> HIDE DEF n, packed
<1>5. Opens(n)
  BY <1>3, <1>4, Zenon DEF Opens
<1> QED
  BY <1>4, <1>5 DEF n

(* A line of code opens a struct, adds a field, closes the struct, or       *)
(* leaves the table alone.                                                  *)
LEMMA ParseLineEffect ==
  ASSUME NEW l \in Lines, l.words # <<>>, ParseLine(l)
  PROVE  TableEffect
<1>1. CASE l.words[1] = "struct"
  <2>1. OpenStruct(l)
    BY <1>1 DEF ParseLine
  <2>2. CASE Len(l.words) >= 2 /\ current = None
    <3>1. Opens(l.words[2])
      BY <1>1, <2>2, StructLine
    <3> QED
      BY <3>1, Zenon DEF TableEffect
  <2>3. CASE current # None
    BY <2>1, <2>3 DEF OpenStruct, Reject, TableEffect
  <2>4. CASE Len(l.words) < 2 /\ current = None
    BY <2>1, <2>4 DEF OpenStruct, Fail, TableEffect
  <2>5. Len(l.words) \in Nat
    BY WordsType
  <2> QED
    BY <2>2, <2>3, <2>4, <2>5
<1>2. CASE l.words[1] = "}"
  <2>1. CloseStruct
    BY <1>2 DEF ParseLine
  <2> QED
    BY <2>1 DEF CloseStruct, Fail, ClosesAs, Closes, TableEffect
<1>3. CASE l.words[1] # "struct" /\ l.words[1] # "}"
  <2>1. AddField(l)
    BY <1>3 DEF ParseLine
  <2>2. CASE UNCHANGED <<current, structs>>
    BY <2>2 DEF TableEffect
  <2>3. CASE ~UNCHANGED <<current, structs>>
    <3> DEFINE t == l.words[TypeAt(l)]
    <3>1. /\ current # None
          /\ t \in Type
          /\ t \notin Builtin => structs[t].version # 0
          /\ UNCHANGED current
          /\ structs' = [structs EXCEPT ![current].fields =
                           @ \o FieldsFor(Last(l.words), t, IsMut(l), IsRepeated(l))]
      BY <2>1, <2>3 DEF AddField, Fail, Reject, Type
    <3>2. Last(l.words) \in STRING /\ Last(l.words) \in Words
      BY WordsType
    <3>3. IsMut(l) \in BOOLEAN /\ IsRepeated(l) \in BOOLEAN
      BY DEF IsMut, IsRepeated
    <3>4. Adds(Last(l.words), t, IsMut(l), IsRepeated(l))
      BY <3>1, <3>2, <3>3 DEF Adds
    <3> QED
      BY <3>4 DEF TableEffect
  <2> QED
    BY <2>2, <2>3
<1> QED
  BY <1>1, <1>2, <1>3

(* So does a step: a comment, a blank line and the end of the file leave    *)
(* the table alone.                                                         *)
LEMMA StepEffect ==
  ASSUME Next
  PROVE  TableEffect
<1>1. CASE EndOfFile
  BY <1>1 DEF EndOfFile, TableEffect
<1>2. ASSUME NEW l \in Lines, ReadLine(l) PROVE TableEffect
  <2>1. CASE SkipLine(l) \/ OpenComment(l) \/ CloseComment(l) \/ InlineComment(l)
    BY <2>1 DEF SkipLine, OpenComment, CloseComment, InlineComment, Skip, Reject, TableEffect
  <2>2. CASE Text(l)
    <3>1. CASE inside
      BY <2>2, <3>1 DEF Text, Skip, TableEffect
    <3>2. CASE ~inside
      <4>1. l.words # <<>> /\ ParseLine(l)
        BY <2>2, <3>2 DEF Text, Blank
      <4> QED
        BY <4>1, ParseLineEffect
    <3> QED
      BY <3>1, <3>2
  <2> QED
    BY <1>2, <2>1, <2>2 DEF ReadLine
<1> QED
  BY <1>1, <1>2 DEF Next

-----------------------------------------------------------------------------
(* Types                                                                    *)

TableOK ==
  /\ current \in DOMAIN structs \cup {None}
  /\ structs \in [DOMAIN structs -> Struct]
  /\ \A n \in DOMAIN structs : structs[n].typed <= Len(structs[n].fields)

(* What is a field's type stays one when structs are added.                 *)
LEMMA StructGrows ==
  ASSUME DOMAIN structs \subseteq DOMAIN structs'
  PROVE  Field \subseteq Field' /\ Struct \subseteq Struct'
<1>1. Type \subseteq Type'
  BY DEF Type
<1>2. Field \subseteq Field'
  BY <1>1 DEF Field
<1>3. \A s \in Seq(Field) : s \in Seq(Field')
  <2> DEFINE F == Field
             G == Field'
  <2>1. F \subseteq G
    BY <1>2
  <2> HIDE DEF F, G
  <2>2. \A s \in Seq(F) : s \in Seq(G)
    BY <2>1
  <2> QED
    BY <2>2 DEF F, G
<1>4. Struct \subseteq Struct'
  BY <1>3 DEF Struct
<1> QED
  BY <1>2, <1>4

(* The fields that a line adds.                                             *)
LEMMA FieldsForType ==
  ASSUME TableOK, NEW name \in STRING, NEW t \in Type, NEW mut \in BOOLEAN,
         NEW repeated \in BOOLEAN
  PROVE  FieldsFor(name, t, mut, repeated) \in Seq(Field)
<1> DEFINE s == Scalar(name, t, mut)
           c == [s EXCEPT !.kind = "count"]
           a == [s EXCEPT !.kind = "array"]
<1>1. (IF t \in DOMAIN structs THEN structs[t].version ELSE 0) \in Nat
  BY DEF TableOK, Struct
<1>2. s \in Field
  BY <1>1 DEF Scalar, Field
<1>3. c \in Field /\ a \in Field
  BY <1>2 DEF Field
<1>4. FieldsFor(name, t, mut, repeated) = IF repeated THEN <<c, a>> ELSE <<s>>
  BY DEF FieldsFor
<1> HIDE DEF s, c, a
<1>5. <<c, a>> \in Seq(Field) /\ <<s>> \in Seq(Field)
  BY <1>2, <1>3
<1> QED
  BY <1>4, <1>5

(* Lines keep the table in its type.                                        *)
LEMMA TableTypeStep ==
  ASSUME TableOK, TableEffect
  PROVE  TableOK'
<1>1. CASE UNCHANGED <<current, structs>>
  BY <1>1 DEF TableOK, Struct, Field, Type
<1>2. ASSUME NEW n, Opens(n) PROVE TableOK'
  <2> DEFINE s == GetOrCreate(n)
  <2>1. PICK packed \in BOOLEAN : structs' = [s EXCEPT ![n].packed = packed]
    BY <1>2, Zenon DEF Opens
  <2>2. s = [m \in DOMAIN structs \cup {n} |->
               IF m \in DOMAIN structs THEN structs[m] ELSE NewStruct]
    BY DEF GetOrCreate
  <2>3. NewStruct \in Struct /\ NewStruct.typed <= Len(NewStruct.fields)
    BY DEF NewStruct, Struct
  <2>4. \A m \in DOMAIN structs \cup {n} : s[m] \in Struct /\ s[m].typed <= Len(s[m].fields)
    BY <2>2, <2>3 DEF TableOK
  <2> HIDE DEF s
  <2>5. s \in [DOMAIN structs \cup {n} -> Struct]
    BY <2>2, <2>4
  <2>6. [s[n] EXCEPT !.packed = packed] \in Struct
    BY <2>4 DEF Struct
  <2>7. structs' = [s EXCEPT ![n] = [s[n] EXCEPT !.packed = packed]]
    BY <2>1
  <2>8. DOMAIN structs' = DOMAIN structs \cup {n} /\ structs' \in [DOMAIN structs' -> Struct]
    BY <2>5, <2>6, <2>7
  <2>9. \A m \in DOMAIN structs' : structs'[m].typed <= Len(structs'[m].fields)
    BY <2>4, <2>5, <2>7 DEF Struct
  <2>10. Struct \subseteq Struct'
    BY <2>8, StructGrows
  <2>11. current' = n
    BY <1>2 DEF Opens
  <2> QED
    BY <2>8, <2>9, <2>10, <2>11 DEF TableOK
<1>3. ASSUME NEW name, NEW t, NEW mut, NEW repeated, Adds(name, t, mut, repeated)
      PROVE  TableOK'
  <2> DEFINE new == FieldsFor(name, t, mut, repeated)
             c == structs[current]
  <2>1. new \in Seq(Field)
    BY <1>3, FieldsForType DEF Adds
  <2> HIDE DEF new
  <2>2. /\ structs' = [structs EXCEPT ![current].fields = @ \o new]
        /\ current # None /\ UNCHANGED current
    BY <1>3 DEF Adds, new
  <2>3. c \in Struct /\ current \in DOMAIN structs /\ c.typed <= Len(c.fields)
    BY <2>2 DEF TableOK
  <2>4. /\ c.fields \o new \in Seq(Field) /\ Len(c.fields) <= Len(c.fields \o new)
        /\ Len(c.fields) \in Nat /\ Len(c.fields \o new) \in Nat /\ c.typed \in Nat
    BY <2>1, <2>3 DEF Struct
  <2>5. structs' = [structs EXCEPT ![current] = [c EXCEPT !.fields = c.fields \o new]]
    BY <2>2
  <2>6. [c EXCEPT !.fields = c.fields \o new] \in Struct
    BY <2>3, <2>4 DEF Struct
  <2>7. /\ [c EXCEPT !.fields = c.fields \o new].fields = c.fields \o new
        /\ [c EXCEPT !.fields = c.fields \o new].typed = c.typed
    BY <2>3 DEF Struct
  <2> HIDE DEF c
  <2>8. DOMAIN structs' = DOMAIN structs /\ structs' \in [DOMAIN structs' -> Struct]
    BY <2>5, <2>6 DEF TableOK
  <2>9. \A m \in DOMAIN structs' : structs'[m].typed <= Len(structs'[m].fields)
    BY <2>3, <2>4, <2>5, <2>7, <2>8 DEF TableOK
  <2>10. Struct \subseteq Struct'
    BY <2>8, StructGrows
  <2> QED
    BY <2>2, <2>3, <2>8, <2>9, <2>10 DEF TableOK
<1>4. ASSUME NEW new, ClosesAs(new) PROVE TableOK'
  <2> DEFINE c == structs[current]
             d == [c EXCEPT !.fields = new, !.version = c.version + 1, !.typed = Len(new)]
  <2>1. /\ structs' = [structs EXCEPT ![current] = d]
        /\ current # None /\ current' = None /\ new \in SortBySize(c.fields)
    BY <1>4 DEF ClosesAs
  <2>2. c \in Struct /\ current \in DOMAIN structs
    BY <2>1 DEF TableOK
  <2>3. new \in Seq(Field) /\ Len(new) \in Nat
    BY <2>1, <2>2, SortPermutes DEF Struct
  <2>4. d \in Struct /\ d.typed = Len(new) /\ d.fields = new
    <3> DEFINE e == [c EXCEPT !.fields = new]
               f == [e EXCEPT !.version = c.version + 1]
               g == [f EXCEPT !.typed = Len(new)]
    <3> HIDE DEF c
    <3>1. e \in Struct /\ e.fields = new
      BY <2>2, <2>3 DEF Struct
    <3>2. c.version + 1 \in Nat
      BY <2>2 DEF Struct
    <3> HIDE DEF e
    <3>3. f \in Struct /\ f.fields = new
      BY <3>1, <3>2 DEF Struct
    <3> HIDE DEF f
    <3>4. g \in Struct /\ g.fields = new /\ g.typed = Len(new)
      BY <2>3, <3>3 DEF Struct
    <3>5. d = g
      BY DEF e, f
    <3> QED
      BY <3>4, <3>5
  <2> HIDE DEF d, c
  <2>5. DOMAIN structs' = DOMAIN structs /\ structs' \in [DOMAIN structs' -> Struct]
    BY <2>1, <2>4 DEF TableOK
  <2>6. \A m \in DOMAIN structs' : structs'[m].typed <= Len(structs'[m].fields)
    BY <2>1, <2>3, <2>4, <2>5 DEF TableOK
  <2>7. Struct \subseteq Struct'
    BY <2>5, StructGrows
  <2> QED
    BY <2>1, <2>5, <2>6, <2>7 DEF TableOK
<1> QED
  BY <1>1, <1>2, <1>3, <1>4 DEF TableEffect, Closes

(* The rest of the state: where in a comment, the outcome, the lines read.  *)
LEMMA ProgressTypeStep ==
  ASSUME TypeOK, Next
  PROVE  /\ inside' \in BOOLEAN /\ result' \in {"reading", "accepted", "rejected"}
         /\ fault' \in {"none", "null", "range"} /\ read' \in 0..MaxLines
<1>1. /\ inside \in BOOLEAN /\ result \in {"reading", "accepted", "rejected"}
      /\ fault \in {"none", "null", "range"} /\ read \in 0..MaxLines
  BY DEF TypeOK
<1>2. CASE EndOfFile
  BY <1>1, <1>2 DEF EndOfFile
<1>3. ASSUME NEW l \in Lines, ReadLine(l)
      PROVE  /\ inside' \in BOOLEAN /\ result' \in {"reading", "accepted", "rejected"}
             /\ fault' \in {"none", "null", "range"} /\ read' \in 0..MaxLines
  <2>1. read' \in 0..MaxLines
    BY <1>1, <1>3, ParserAssumption DEF ReadLine
  <2>2. CASE SkipLine(l) \/ OpenComment(l) \/ CloseComment(l) \/ InlineComment(l)
    BY <1>1, <2>1, <2>2 DEF SkipLine, OpenComment, CloseComment, InlineComment, Skip, Reject
  <2>3. CASE Text(l)
    <3>1. inside' = inside
      BY <2>3 DEF Text
    <3>2. \/ UNCHANGED <<result, fault>>
          \/ result' = "rejected" /\ UNCHANGED fault
          \/ fault' \in {"null", "range"} /\ UNCHANGED result
      <4>1. CASE Skip
        BY <4>1 DEF Skip
      <4>2. CASE OpenStruct(l)
        BY <4>2 DEF OpenStruct, Reject, Fail
      <4>3. CASE CloseStruct
        BY <4>3 DEF CloseStruct, Fail
      <4>4. CASE AddField(l)
        BY <4>4 DEF AddField, Reject, Fail
      <4> QED
        BY <2>3, <4>1, <4>2, <4>3, <4>4 DEF Text, ParseLine
    <3> QED
      BY <1>1, <2>1, <3>1, <3>2
  <2> QED
    BY <1>3, <2>2, <2>3 DEF ReadLine
<1> QED
  BY <1>2, <1>3 DEF Next

(* Whatever lines a file has, the parser's variables keep their types, and  *)
(* every field of the table has a type that the module knows.               *)
THEOREM TypeCorrect == Spec => []TypeOK
<1>1. Init => TypeOK
  <2>1. 0 \in 0..MaxLines
    BY ParserAssumption
  <2>2. DOMAIN <<>> = {} /\ <<>> \in [{} -> Struct]
    <3>1. <<>> \in Seq(Struct) /\ Len(<<>>) = 0
      OBVIOUS
    <3>2. DOMAIN <<>> = 1..0
      BY <3>1
    <3> QED
      BY <3>2
  <2> QED
    BY <2>1, <2>2 DEF Init, TypeOK
<1>2. TypeOK /\ [Next]_vars => TypeOK'
  <2>1. ASSUME TypeOK, UNCHANGED vars PROVE TypeOK'
    BY <2>1 DEF TypeOK, Struct, Field, Type, vars
  <2>2. ASSUME TypeOK, Next PROVE TypeOK'
    <3>1. TableOK'
      BY <2>2, StepEffect, TableTypeStep DEF TypeOK, TableOK
    <3> QED
      BY <2>2, <3>1, ProgressTypeStep DEF TypeOK, TableOK
  <2> QED
    BY <2>1, <2>2
<1> QED
  BY <1>1, <1>2, PTL DEF Spec

-----------------------------------------------------------------------------
(* An array comes right after its count                                     *)

(* Adding fields at the end keeps the pairs, and adds one if need be.       *)
LEMMA AddKeepsPairs ==
  ASSUME NEW S, NEW fs \in Seq(S), CountsLead(fs),
         NEW name, NEW t, NEW mut, NEW repeated \in BOOLEAN,
         FieldsFor(name, t, mut, repeated) \in Seq(S)
  PROVE  CountsLead(fs \o FieldsFor(name, t, mut, repeated))
<1> DEFINE s == Scalar(name, t, mut)
           c == [s EXCEPT !.kind = "count"]
           a == [s EXCEPT !.kind = "array"]
           new == FieldsFor(name, t, mut, repeated)
<1>1. new = IF repeated THEN <<c, a>> ELSE <<s>>
  BY DEF FieldsFor
<1>2. s.kind = "scalar" /\ a.kind = "array" /\ c.kind = "count" /\ c = [a EXCEPT !.kind = "count"]
  BY DEF Scalar
<1>3. /\ Len(fs) \in Nat /\ Len(new) \in Nat /\ Len(new) = IF repeated THEN 2 ELSE 1
      /\ Len(fs \o new) = Len(fs) + Len(new)
      /\ DOMAIN (fs \o new) = 1..(Len(fs) + Len(new))
      /\ \A i \in 1..(Len(fs) + Len(new)) :
           (fs \o new)[i] = IF i <= Len(fs) THEN fs[i] ELSE new[i - Len(fs)]
  <2>1. Len(new) = IF repeated THEN 2 ELSE 1
    BY <1>1
  <2> HIDE DEF new
  <2>2. fs \in Seq(S) /\ new \in Seq(S)
    BY DEF new
  <2>3. /\ Len(fs \o new) = Len(fs) + Len(new) /\ fs \o new \in Seq(S)
        /\ \A i \in 1..(Len(fs) + Len(new)) :
             (fs \o new)[i] = IF i <= Len(fs) THEN fs[i] ELSE new[i - Len(fs)]
    BY <2>2, ConcatProperties
  <2>4. DOMAIN (fs \o new) = 1..Len(fs \o new)
    BY <2>3
  <2>5. Len(fs) \in Nat /\ Len(new) \in Nat
    BY <2>2
  <2> QED
    BY <2>1, <2>3, <2>4, <2>5
<1>4. /\ repeated => new[1] = c /\ new[2] = a
      /\ ~repeated => new[1] = s
  BY <1>1
<1> HIDE DEF s, c, a, new
<1>5. ASSUME NEW i \in DOMAIN (fs \o new), (fs \o new)[i].kind = "array"
      PROVE  i > 1 /\ (fs \o new)[i - 1] = [(fs \o new)[i] EXCEPT !.kind = "count"]
  <2>1. CASE i <= Len(fs)
    <3>1. i \in DOMAIN fs /\ (fs \o new)[i] = fs[i]
      BY <1>3, <2>1
    <3>2. i > 1 /\ fs[i - 1] = [fs[i] EXCEPT !.kind = "count"]
      BY <1>5, <3>1 DEF CountsLead
    <3>3. (fs \o new)[i - 1] = fs[i - 1]
      BY <1>3, <2>1, <3>2
    <3> QED
      BY <3>1, <3>2, <3>3
  <2>2. CASE i > Len(fs)
    <3>1. (fs \o new)[i] = new[i - Len(fs)] /\ i - Len(fs) \in 1..Len(new)
      BY <1>3, <2>2
    <3>2. repeated /\ i - Len(fs) = 2
      <4>1. new[i - Len(fs)].kind = "array"
        BY <1>5, <3>1
      <4>2. CASE repeated
        <5>1. i - Len(fs) \in {1, 2}
          BY <1>3, <3>1, <4>2
        <5> QED
          BY <1>2, <1>4, <4>1, <4>2, <5>1
      <4>3. CASE ~repeated
        <5>1. i - Len(fs) = 1
          BY <1>3, <3>1, <4>3
        <5> QED
          BY <1>2, <1>4, <4>1, <4>3, <5>1
      <4> QED
        BY <4>2, <4>3
    <3>3. (fs \o new)[i - 1] = new[1] /\ (fs \o new)[i] = new[2] /\ i > 1
      BY <1>3, <3>2
    <3> QED
      BY <1>2, <1>4, <3>2, <3>3
  <2> QED
    BY <1>3, <2>1, <2>2
<1> QED
  BY <1>5 DEF CountsLead, new

(* Few fields are sorted each to its rank.                                  *)
LEMMA StableSort ==
  ASSUME NEW S, NEW fs \in Seq(S), Len(fs) <= StableUpTo, NEW new \in SortBySize(fs)
  PROVE  \A j \in DOMAIN fs : Rank(fs, j) \in DOMAIN fs /\ new[Rank(fs, j)] = fs[j]
<1>1. PICK r \in Places(fs) : \A j \in DOMAIN fs : r[j] \in DOMAIN fs /\ new[r[j]] = fs[j]
  BY SortPermutes
<1>2. \A j \in DOMAIN fs : r[j] = Rank(fs, j)
  BY PlacesPermute
<1> QED
  BY <1>1, <1>2

(* A count and its array have the same size, that of a pointer.             *)
LEMMA SortKeepsPairs ==
  ASSUME NEW S, NEW fs \in Seq(S), Len(fs) <= StableUpTo, CountsLead(fs),
         NEW new \in SortBySize(fs)
  PROVE  CountsLead(new)
<1>1. /\ DOMAIN fs = 1..Len(fs) /\ Len(fs) \in Nat
      /\ new \in Seq(S) /\ DOMAIN new = DOMAIN fs
  BY SortPermutes
<1>2. \A j \in DOMAIN fs : Rank(fs, j) \in DOMAIN fs /\ new[Rank(fs, j)] = fs[j]
  BY StableSort
<1>3. ASSUME NEW k \in DOMAIN new, new[k].kind = "array"
      PROVE  k > 1 /\ new[k - 1] = [new[k] EXCEPT !.kind = "count"]
  <2>1. PICK j \in DOMAIN fs : k = Rank(fs, j) /\ new[k] = fs[j]
    <3>1. PICK j \in DOMAIN fs : Rank(fs, j) = k
      BY <1>1, RankBijection
    <3> QED
      BY <1>2, <3>1
  <2>2. j > 1 /\ fs[j - 1] = [fs[j] EXCEPT !.kind = "count"] /\ j - 1 \in DOMAIN fs
    BY <1>1, <1>3, <2>1 DEF CountsLead
  <2>3. fs[j].kind = "array" /\ fs[j - 1].kind \in {"array", "count"}
    BY <1>3, <2>1, <2>2
  <2>4. FieldSize(fs[j - 1]) = FieldSize(fs[j])
    BY <2>3 DEF FieldSize
  <2>5. Rank(fs, j) = Rank(fs, j - 1) + 1
    BY <2>2, <2>4, SortKeepsNeighbours
  <2>6. Rank(fs, j - 1) \in 1..Len(fs) /\ new[Rank(fs, j - 1)] = fs[j - 1]
    BY <1>1, <1>2, <2>2
  <2>7. k - 1 = Rank(fs, j - 1) /\ k > 1
    BY <2>1, <2>5, <2>6
  <2> QED
    BY <2>1, <2>2, <2>6, <2>7
<1> QED
  BY <1>3 DEF CountsLead

-----------------------------------------------------------------------------
(* What a line does to the fields and versions of the structs               *)

(* A struct that is opened for the first time has no fields; one that is    *)
(* opened again keeps those it has, and its version.                        *)
LEMMA OpensFields ==
  ASSUME TableOK, NEW n, Opens(n)
  PROVE  /\ DOMAIN structs' = DOMAIN structs \cup {n}
         /\ \A m \in DOMAIN structs : structs'[m].fields = structs[m].fields
                                      /\ structs'[m].version = structs[m].version
                                      /\ structs'[m].typed = structs[m].typed
         /\ n \notin DOMAIN structs => structs'[n].fields = <<>> /\ structs'[n].version = 0
<1> DEFINE s == GetOrCreate(n)
<1>1. PICK packed \in BOOLEAN : structs' = [s EXCEPT ![n].packed = packed]
  BY Zenon DEF Opens
<1>2. s = [m \in DOMAIN structs \cup {n} |->
             IF m \in DOMAIN structs THEN structs[m] ELSE NewStruct]
  BY DEF GetOrCreate
<1>3. NewStruct \in Struct /\ NewStruct.fields = <<>> /\ NewStruct.version = 0
  BY DEF NewStruct, Struct
<1>4. \A m \in DOMAIN structs \cup {n} : s[m] \in Struct
  BY <1>2, <1>3 DEF TableOK
<1>5. /\ \A m \in DOMAIN structs : s[m] = structs[m]
      /\ n \notin DOMAIN structs => s[n] = NewStruct
  BY <1>2
<1>6. DOMAIN s = DOMAIN structs \cup {n}
  BY <1>2
<1> HIDE DEF s
<1>7. structs' = [s EXCEPT ![n] = [s[n] EXCEPT !.packed = packed]]
  BY <1>1
<1>8. /\ DOMAIN structs' = DOMAIN structs \cup {n}
      /\ \A m \in DOMAIN structs \cup {n} :
           structs'[m] = IF m = n THEN [s[n] EXCEPT !.packed = packed] ELSE s[m]
  BY <1>6, <1>7
<1>9. /\ [s[n] EXCEPT !.packed = packed].fields = s[n].fields
      /\ [s[n] EXCEPT !.packed = packed].version = s[n].version
      /\ [s[n] EXCEPT !.packed = packed].typed = s[n].typed
  BY <1>4 DEF Struct
<1>10. \A m \in DOMAIN structs \cup {n} :
         structs'[m].fields = s[m].fields /\ structs'[m].version = s[m].version
         /\ structs'[m].typed = s[m].typed
  BY <1>8, <1>9
<1> QED
  BY <1>3, <1>5, <1>8, <1>10

(* A field is added at the end of the open struct.                          *)
LEMMA AddsFields ==
  ASSUME TableOK, NEW name, NEW t, NEW mut, NEW repeated, Adds(name, t, mut, repeated)
  PROVE  /\ DOMAIN structs' = DOMAIN structs /\ current \in DOMAIN structs
         /\ \A m \in DOMAIN structs : structs'[m].version = structs[m].version
                                      /\ structs'[m].typed = structs[m].typed
         /\ \A m \in DOMAIN structs :
              structs'[m].fields = IF m = current
                                     THEN structs[m].fields \o FieldsFor(name, t, mut, repeated)
                                     ELSE structs[m].fields
         /\ FieldsFor(name, t, mut, repeated) \in Seq(Field)
         /\ structs[current].fields \in Seq(Field)
<1> DEFINE new == FieldsFor(name, t, mut, repeated)
           c == structs[current]
<1>1. new \in Seq(Field)
  BY FieldsForType DEF Adds
<1> HIDE DEF new
<1>2. /\ structs' = [structs EXCEPT ![current].fields = @ \o new] /\ current # None
  BY DEF Adds, new
<1>3. c \in Struct /\ current \in DOMAIN structs
  BY <1>2 DEF TableOK
<1>4. structs' = [structs EXCEPT ![current] = [c EXCEPT !.fields = c.fields \o new]]
  BY <1>2
<1>5. /\ [c EXCEPT !.fields = c.fields \o new].fields = c.fields \o new
      /\ [c EXCEPT !.fields = c.fields \o new].version = c.version
      /\ [c EXCEPT !.fields = c.fields \o new].typed = c.typed
      /\ c.fields \in Seq(Field)
  BY <1>3 DEF Struct
<1> HIDE DEF c
<1>6. /\ DOMAIN structs' = DOMAIN structs
      /\ \A m \in DOMAIN structs :
           structs'[m] = IF m = current THEN [c EXCEPT !.fields = c.fields \o new] ELSE structs[m]
  BY <1>4 DEF TableOK
<1> QED
  BY <1>1, <1>3, <1>5, <1>6 DEF c, new

(* The struct that is closed is sorted and gets its next version.           *)
LEMMA ClosesFields ==
  ASSUME TableOK, NEW sorted, ClosesAs(sorted)
  PROVE  /\ DOMAIN structs' = DOMAIN structs /\ current \in DOMAIN structs
         /\ \A m \in DOMAIN structs :
              structs'[m].version = IF m = current THEN structs[m].version + 1
                                                   ELSE structs[m].version
         /\ \A m \in DOMAIN structs :
              structs'[m].fields = IF m = current THEN sorted ELSE structs[m].fields
         /\ \A m \in DOMAIN structs :
              structs'[m].typed = IF m = current THEN Len(sorted) ELSE structs[m].typed
         /\ sorted \in SortBySize(structs[current].fields)
         /\ structs[current].fields \in Seq(Field) /\ structs[current].version \in Nat
<1> DEFINE c == structs[current]
           d == [c EXCEPT !.fields = sorted, !.version = c.version + 1, !.typed = Len(sorted)]
<1>1. structs' = [structs EXCEPT ![current] = d] /\ current # None /\ sorted \in SortBySize(c.fields)
  BY DEF ClosesAs
<1>2. c \in Struct /\ current \in DOMAIN structs
  BY <1>1 DEF TableOK
<1> HIDE DEF c
<1>3. /\ d.fields = sorted /\ d.version = c.version + 1
      /\ d.typed = Len(sorted) /\ c.fields \in Seq(Field) /\ c.version \in Nat
  BY <1>2 DEF Struct
<1> HIDE DEF d
<1>4. /\ DOMAIN structs' = DOMAIN structs
      /\ \A m \in DOMAIN structs : structs'[m] = IF m = current THEN d ELSE structs[m]
  BY <1>1 DEF TableOK
<1> QED
  BY <1>1, <1>2, <1>3, <1>4 DEF c

-----------------------------------------------------------------------------
(* The generated functions of an array find its count in the field before   *)

(* The types of what a struct consists of.                                  *)
LEMMA FieldsAreSequences ==
  ASSUME TableOK, NEW n \in DOMAIN structs
  PROVE  /\ structs[n].fields \in Seq(Field) /\ structs[n].version \in Nat
         /\ structs[n].typed \in Nat /\ structs[n].packed \in BOOLEAN
BY DEF TableOK, Struct

Leading(fs) == Len(fs) <= StableUpTo => CountsLead(fs)

(* A line keeps every array behind its count.                               *)
LEMMA CountFirstStep ==
  ASSUME TableOK, CountFirst, TableEffect
  PROVE  CountFirst'
<1>1. \A n \in DOMAIN structs : Leading(structs[n].fields)
  BY DEF CountFirst, Leading
<1>2. SUFFICES \A n \in DOMAIN structs' : Leading(structs'[n].fields)
  BY DEF CountFirst, Leading
<1>3. CASE UNCHANGED <<current, structs>>
  BY <1>1, <1>3
<1>4. ASSUME NEW n, Opens(n) PROVE \A m \in DOMAIN structs' : Leading(structs'[m].fields)
  <2>1. Leading(<<>>)
    BY DEF CountsLead, Leading
  <2> QED
    BY <1>1, <1>4, <2>1, OpensFields
<1>5. ASSUME NEW name, NEW t, NEW mut, NEW repeated, Adds(name, t, mut, repeated)
      PROVE  \A m \in DOMAIN structs' : Leading(structs'[m].fields)
  <2> DEFINE fs == structs[current].fields
             new == FieldsFor(name, t, mut, repeated)
  <2>1. repeated \in BOOLEAN
    BY <1>5 DEF Adds
  <2>2. current \in DOMAIN structs /\ fs \in Seq(Field) /\ new \in Seq(Field)
    BY <1>5, AddsFields
  <2>3. Leading(fs \o new)
    <3>1. CASE Len(fs) <= StableUpTo
      <4>1. CountsLead(fs)
        BY <1>1, <2>2, <3>1 DEF Leading
      <4>2. CountsLead(fs \o new)
        BY <2>1, <2>2, <4>1, AddKeepsPairs
      <4> QED
        BY <4>2 DEF Leading
    <3>2. CASE ~(Len(fs) <= StableUpTo)
      <4>1. Len(fs) \in Nat /\ Len(new) \in Nat /\ Len(fs \o new) = Len(fs) + Len(new)
        BY <2>2
      <4> QED
        BY <3>2, <4>1, ParserAssumption DEF Leading
    <3> QED
      BY <3>1, <3>2
  <2> QED
    BY <1>1, <1>5, <2>3, AddsFields
<1>6. ASSUME NEW sorted, ClosesAs(sorted)
      PROVE  \A m \in DOMAIN structs' : Leading(structs'[m].fields)
  <2> DEFINE fs == structs[current].fields
  <2>1. current \in DOMAIN structs /\ fs \in Seq(Field) /\ sorted \in SortBySize(fs)
    BY <1>6, ClosesFields
  <2>2. Len(sorted) = Len(fs)
    BY <2>1, SortPermutes
  <2>3. Len(fs) <= StableUpTo => CountsLead(sorted)
    BY <1>1, <2>1, SortKeepsPairs DEF Leading
  <2>4. Leading(sorted)
    BY <2>2, <2>3 DEF Leading
  <2> QED
    BY <1>1, <1>6, <2>4, ClosesFields
<1> QED
  BY <1>3, <1>4, <1>5, <1>6 DEF TableEffect, Closes

(* In every struct of every file that has no more fields than the sort      *)
(* keeps in order, before and after they are sorted and when the struct is  *)
(* opened a second time, an array comes right after the count that          *)
(* addRepeatedField gave it.                                                *)
THEOREM ArraysFollowCounts == Spec => []CountFirst
<1>1. Init => CountFirst
  BY DEF Init, CountFirst
<1>2. TypeOK /\ CountFirst /\ [Next]_vars => CountFirst'
  <2>1. ASSUME CountFirst, UNCHANGED vars PROVE CountFirst'
    BY <2>1 DEF CountFirst, vars
  <2>2. ASSUME TypeOK, CountFirst, Next PROVE CountFirst'
    BY <2>2, StepEffect, CountFirstStep DEF TypeOK, TableOK
  <2> QED
    BY <2>1, <2>2
<1> QED
  BY <1>1, <1>2, TypeCorrect, PTL DEF Spec

-----------------------------------------------------------------------------
(* No struct contains itself                                                *)

Openings(n) == structs[n].version + (IF n = current THEN 1 ELSE 0)

OpenedOnce == \A n \in DOMAIN structs : Openings(n) <= 1

WellFounded ==
  \A ns \in SUBSET DOMAIN structs : ns # {} => \E n \in ns : Uses(n) \cap ns = {}

(* A field of a struct type was added when that struct was finalized.       *)
UsesFinalized ==
  \A n \in DOMAIN structs : \A u \in Uses(n) : u \in DOMAIN structs /\ structs[u].version # 0

AcyclicInv ==
  None \notin DOMAIN structs /\ UsesFinalized /\ (OpenedOnce => WellFounded)

TypesOf(fs) == {f.type : f \in Range(fs)} \ Builtin

(* The sort leaves the types of the fields.                                 *)
LEMMA SortKeepsTypes ==
  ASSUME NEW S, NEW fs \in Seq(S), NEW new \in SortBySize(fs)
  PROVE  TypesOf(new) = TypesOf(fs)
BY SortKeepsRange DEF TypesOf

(* An added field adds its own type.                                        *)
LEMMA AddTypes ==
  ASSUME NEW S, NEW fs \in Seq(S), NEW name, NEW t, NEW mut, NEW repeated \in BOOLEAN,
         FieldsFor(name, t, mut, repeated) \in Seq(S)
  PROVE  TypesOf(fs \o FieldsFor(name, t, mut, repeated)) = TypesOf(fs) \cup ({t} \ Builtin)
<1> DEFINE s == Scalar(name, t, mut)
           c == [s EXCEPT !.kind = "count"]
           a == [s EXCEPT !.kind = "array"]
           new == FieldsFor(name, t, mut, repeated)
<1>1. new = IF repeated THEN <<c, a>> ELSE <<s>>
  BY DEF FieldsFor
<1>2. s.type = t /\ c.type = t /\ a.type = t
  BY DEF Scalar
<1> HIDE DEF s, c, a
<1>3. Range(<<c, a>>) = {c, a} /\ Range(<<s>>) = {s}
  BY DEF Range
<1>4. {f.type : f \in Range(new)} = {t}
  BY <1>1, <1>2, <1>3
<1> HIDE DEF new
<1>5. Range(fs \o new) = Range(fs) \cup Range(new)
  <2>1. fs \in Seq(S) /\ new \in Seq(S)
    BY DEF new
  <2>2. /\ Len(fs) \in Nat /\ Len(new) \in Nat
        /\ DOMAIN fs = 1..Len(fs) /\ DOMAIN new = 1..Len(new)
    BY <2>1
  <2>3. /\ DOMAIN (fs \o new) = 1..(Len(fs) + Len(new))
        /\ \A i \in 1..(Len(fs) + Len(new)) :
             (fs \o new)[i] = IF i <= Len(fs) THEN fs[i] ELSE new[i - Len(fs)]
    BY <2>1, ConcatProperties
  <2>4. ASSUME NEW i \in 1..(Len(fs) + Len(new))
        PROVE  (fs \o new)[i] \in Range(fs) \cup Range(new)
    <3>1. CASE i <= Len(fs)
      BY <2>2, <2>3, <3>1 DEF Range
    <3>2. CASE i > Len(fs)
      <4>1. i - Len(fs) \in 1..Len(new) /\ (fs \o new)[i] = new[i - Len(fs)]
        BY <2>2, <2>3, <3>2
      <4> QED
        BY <2>2, <4>1 DEF Range
    <3> QED
      BY <2>2, <3>1, <3>2
  <2>5. ASSUME NEW j \in 1..Len(fs)
        PROVE  j \in DOMAIN (fs \o new) /\ (fs \o new)[j] = fs[j]
    BY <2>2, <2>3
  <2>6. ASSUME NEW j \in 1..Len(new)
        PROVE  Len(fs) + j \in DOMAIN (fs \o new) /\ (fs \o new)[Len(fs) + j] = new[j]
    BY <2>2, <2>3
  <2>7. ASSUME NEW x \in Range(fs \o new) PROVE x \in Range(fs) \cup Range(new)
    <3>1. PICK i \in DOMAIN (fs \o new) : x = (fs \o new)[i]
      BY DEF Range
    <3> QED
      BY <2>3, <2>4, <3>1
  <2>8. ASSUME NEW x \in Range(fs) PROVE x \in Range(fs \o new)
    <3>1. PICK j \in 1..Len(fs) : x = fs[j]
      BY <2>2 DEF Range
    <3> QED
      BY <2>5, <3>1 DEF Range
  <2>9. ASSUME NEW x \in Range(new) PROVE x \in Range(fs \o new)
    <3>1. PICK j \in 1..Len(new) : x = new[j]
      BY <2>2 DEF Range
    <3> QED
      BY <2>6, <3>1 DEF Range
  <2> QED
    BY <2>7, <2>8, <2>9
<1>6. TypesOf(fs \o new) = TypesOf(fs) \cup ({t} \ Builtin)
  BY <1>4, <1>5 DEF TypesOf
<1> QED
  BY <1>6 DEF new

(* Opening a struct, for the first time or again.                           *)
LEMMA AcyclicOpens ==
  ASSUME TableOK, AcyclicInv, NEW n, Opens(n)
  PROVE  AcyclicInv'
<1>1. /\ current = None /\ current' = n /\ n # None
      /\ None \notin DOMAIN structs /\ UsesFinalized
  BY DEF Opens, AcyclicInv
<1>2. /\ DOMAIN structs' = DOMAIN structs \cup {n}
      /\ \A m \in DOMAIN structs : structs'[m].version = structs[m].version
      /\ n \notin DOMAIN structs => structs'[n].version = 0
  BY OpensFields
<1>3. \A m \in DOMAIN structs : Uses(m)' = Uses(m)
  BY OpensFields DEF Uses
<1>4. ASSUME n \notin DOMAIN structs PROVE Uses(n)' = {}
  <2>1. structs'[n].fields = <<>>
    BY <1>4, OpensFields
  <2>2. Range(<<>>) = {}
    BY DEF Range
  <2> QED
    BY <2>1, <2>2 DEF Uses
<1>5. None \notin DOMAIN structs'
  BY <1>1, <1>2
<1>6. UsesFinalized'
  BY <1>1, <1>2, <1>3, <1>4 DEF UsesFinalized
<1>7. ASSUME OpenedOnce' PROVE WellFounded'
  <2>1. OpenedOnce
    <3> SUFFICES ASSUME NEW m \in DOMAIN structs PROVE Openings(m) <= 1
      BY DEF OpenedOnce
    <3>1. Openings(m)' <= 1
      BY <1>2, <1>7 DEF OpenedOnce
    <3>2. structs[m].version \in Nat /\ structs'[m].version = structs[m].version
      BY <1>2, FieldsAreSequences
    <3>3. m # current
      BY <1>1
    <3> QED
      BY <3>1, <3>2, <3>3 DEF Openings
  <2>2. WellFounded
    BY <2>1 DEF AcyclicInv
  <2>3. ASSUME NEW ns \in SUBSET DOMAIN structs', ns # {}
        PROVE  \E m \in ns : Uses(m)' \cap ns = {}
    <3>1. CASE ns \subseteq DOMAIN structs
      <4>1. PICK m \in ns : Uses(m) \cap ns = {}
        BY <2>2, <2>3, <3>1 DEF WellFounded
      <4> QED
        BY <1>3, <3>1, <4>1
    <3>2. CASE ~(ns \subseteq DOMAIN structs)
      <4>1. n \in ns /\ n \notin DOMAIN structs
        BY <1>2, <3>2
      <4> QED
        BY <1>4, <4>1
    <3> QED
      BY <3>1, <3>2
  <2> QED
    BY <2>3 DEF WellFounded
<1> QED
  BY <1>5, <1>6, <1>7 DEF AcyclicInv

(* Adding a field to a struct that was opened once: nobody uses it yet.     *)
LEMMA AcyclicAdds ==
  ASSUME TableOK, AcyclicInv, NEW name, NEW t, NEW mut, NEW repeated,
         Adds(name, t, mut, repeated)
  PROVE  AcyclicInv'
<1> DEFINE c == current
<1>1. /\ UNCHANGED current
      /\ t \in Type
      /\ t \notin Builtin => structs[t].version # 0
      /\ repeated \in BOOLEAN
  BY DEF Adds
<1>2. UsesFinalized /\ None \notin DOMAIN structs
  BY DEF AcyclicInv
<1>3. /\ DOMAIN structs' = DOMAIN structs /\ c \in DOMAIN structs
      /\ \A m \in DOMAIN structs : structs'[m].version = structs[m].version
  BY AddsFields
<1>4. \A m \in DOMAIN structs : Uses(m)' = IF m = c THEN Uses(m) \cup ({t} \ Builtin) ELSE Uses(m)
  <2>1. /\ structs[c].fields \in Seq(Field)
        /\ FieldsFor(name, t, mut, repeated) \in Seq(Field)
    BY AddsFields
  <2>2. TypesOf(structs[c].fields \o FieldsFor(name, t, mut, repeated))
          = TypesOf(structs[c].fields) \cup ({t} \ Builtin)
    BY <1>1, <2>1, AddTypes
  <2>3. \A m \in DOMAIN structs :
          structs'[m].fields = IF m = c THEN structs[m].fields \o FieldsFor(name, t, mut, repeated)
                                        ELSE structs[m].fields
    BY AddsFields
  <2> QED
    BY <2>2, <2>3 DEF Uses, TypesOf
<1>5. t \notin Builtin => t \in DOMAIN structs /\ structs[t].version # 0
  BY <1>1 DEF Type
<1>6. UsesFinalized'
  <2> SUFFICES ASSUME NEW m \in DOMAIN structs, NEW u \in Uses(m)'
               PROVE  u \in DOMAIN structs /\ structs[u].version # 0
    BY <1>3 DEF UsesFinalized
  <2>1. u \in Uses(m) \/ (u = t /\ t \notin Builtin)
    BY <1>4
  <2> QED
    BY <1>2, <1>5, <2>1 DEF UsesFinalized
<1>7. ASSUME OpenedOnce' PROVE WellFounded'
  <2>1. \A m \in DOMAIN structs : Openings(m)' = Openings(m)
    BY <1>1, <1>3 DEF Openings
  <2>2. WellFounded
    BY <1>3, <1>7, <2>1 DEF OpenedOnce, AcyclicInv
  <2>3. structs[c].version = 0
    <3>1. \A m \in DOMAIN structs : Openings(m) <= 1
      BY <1>3, <1>7, <2>1 DEF OpenedOnce
    <3>2. structs[c].version \in Nat
      BY <1>3, FieldsAreSequences
    <3> QED
      BY <1>3, <3>1, <3>2 DEF Openings
  <2>4. \A m \in DOMAIN structs : c \notin Uses(m)'
    BY <1>3, <1>6, <2>3 DEF UsesFinalized
  <2>5. ASSUME NEW ns \in SUBSET DOMAIN structs, ns # {}
        PROVE  \E m \in ns : Uses(m)' \cap ns = {}
    <3>1. CASE ns \subseteq {c}
      BY <1>3, <2>4, <2>5, <3>1
    <3>2. CASE ~(ns \subseteq {c})
      <4> DEFINE rest == ns \ {c}
      <4>1. rest \in SUBSET DOMAIN structs /\ rest # {}
        BY <3>2
      <4>2. PICK m \in rest : Uses(m) \cap rest = {}
        BY <2>2, <4>1 DEF WellFounded
      <4>3. Uses(m)' = Uses(m) /\ c \notin Uses(m)'
        BY <1>4, <2>4, <4>1, <4>2
      <4> QED
        BY <4>2, <4>3
    <3> QED
      BY <3>1, <3>2
  <2> QED
    BY <1>3, <2>5 DEF WellFounded
<1> QED
  BY <1>2, <1>3, <1>6, <1>7 DEF AcyclicInv

(* Closing a struct changes no field's type.                                *)
LEMMA AcyclicCloses ==
  ASSUME TableOK, AcyclicInv, NEW sorted, ClosesAs(sorted)
  PROVE  AcyclicInv'
<1>1. current # None /\ current' = None
  BY DEF ClosesAs
<1>2. UsesFinalized /\ None \notin DOMAIN structs
  BY DEF AcyclicInv
<1>3. /\ DOMAIN structs' = DOMAIN structs /\ current \in DOMAIN structs
      /\ \A m \in DOMAIN structs :
           structs'[m].version = IF m = current THEN structs[m].version + 1
                                                ELSE structs[m].version
  BY ClosesFields
<1>4. \A m \in DOMAIN structs : Uses(m)' = Uses(m)
  <2>1. structs[current].fields \in Seq(Field) /\ sorted \in SortBySize(structs[current].fields)
    BY ClosesFields
  <2>2. TypesOf(sorted) = TypesOf(structs[current].fields)
    BY <2>1, SortKeepsTypes
  <2>3. \A m \in DOMAIN structs :
          structs'[m].fields = IF m = current THEN sorted ELSE structs[m].fields
    BY ClosesFields
  <2> QED
    BY <2>2, <2>3 DEF Uses, TypesOf
<1>5. \A m \in DOMAIN structs : structs[m].version \in Nat
  BY FieldsAreSequences
<1>6. UsesFinalized'
  BY <1>2, <1>3, <1>4, <1>5 DEF UsesFinalized
<1>7. \A m \in DOMAIN structs : Openings(m)' = Openings(m)
  BY <1>1, <1>2, <1>3, <1>5 DEF Openings
<1>8. OpenedOnce' => WellFounded'
  BY <1>3, <1>4, <1>7 DEF OpenedOnce, WellFounded, AcyclicInv
<1> QED
  BY <1>2, <1>3, <1>6, <1>8 DEF AcyclicInv

(* Unless a struct is opened a second time no struct contains itself,       *)
(* directly or through others, since parseType refuses or dies of a struct  *)
(* that is not finalized.                                                   *)
THEOREM NoCycles == Spec => []Acyclic
<1>1. Init => AcyclicInv
  BY DEF Init, AcyclicInv, UsesFinalized, WellFounded
<1>2. TypeOK /\ AcyclicInv /\ [Next]_vars => AcyclicInv'
  <2>1. ASSUME AcyclicInv, UNCHANGED <<current, structs>> PROVE AcyclicInv'
    BY <2>1 DEF AcyclicInv, UsesFinalized, OpenedOnce, Openings, WellFounded, Uses
  <2>2. ASSUME TypeOK, AcyclicInv, Next PROVE AcyclicInv'
    <3>1. TableOK /\ TableEffect
      BY <2>2, StepEffect DEF TypeOK, TableOK
    <3> QED
      BY <2>1, <2>2, <3>1, AcyclicOpens, AcyclicAdds, AcyclicCloses DEF TableEffect, Closes
  <2> QED
    BY <2>1, <2>2 DEF vars
<1>3. AcyclicInv => Acyclic
  BY DEF AcyclicInv, OpenedOnce, Openings, WellFounded, Acyclic
<1> QED
  BY <1>1, <1>2, <1>3, TypeCorrect, PTL DEF Spec

-----------------------------------------------------------------------------
(* Occurrences of a field in a struct                                       *)

Form(x) == [name |-> x.name, type |-> x.type, mut |-> x.mut, kind |-> x.kind]

(* They can be counted.                                                     *)
LEMMA OccurrencesFinite ==
  ASSUME NEW S, NEW s \in Seq(S), NEW x
  PROVE  IsFiniteSet({i \in DOMAIN s : s[i] = x}) /\ Occurrences(s, x) \in Nat
<1>1. DOMAIN s = 1..Len(s) /\ Len(s) \in Nat
  OBVIOUS
<1>2. IsFiniteSet(DOMAIN s)
  BY <1>1, FS_Interval
<1>3. IsFiniteSet({i \in DOMAIN s : s[i] = x})
  BY <1>2, FS_Subset
<1> QED
  BY <1>3, FS_CardinalityType DEF Occurrences

(* One more at the end counts for what it is.                               *)
LEMMA AppendOccurrences ==
  ASSUME NEW S, NEW s \in Seq(S), NEW y \in S, NEW x
  PROVE  Occurrences(Append(s, y), x) = Occurrences(s, x) + IF y = x THEN 1 ELSE 0
<1> DEFINE at == {i \in DOMAIN s : s[i] = x}
           t == Append(s, y)
<1>1. /\ DOMAIN s = 1..Len(s) /\ Len(s) \in Nat /\ DOMAIN t = 1..(Len(s) + 1)
      /\ \A i \in 1..Len(s) : t[i] = s[i]
      /\ t[Len(s) + 1] = y
  BY AppendProperties
<1>2. IsFiniteSet(at) /\ Len(s) + 1 \notin at /\ Cardinality(at) \in Nat
  <2>1. IsFiniteSet(at) /\ Occurrences(s, x) \in Nat
    BY OccurrencesFinite
  <2>2. Len(s) + 1 \notin at
    BY <1>1
  <2> QED
    BY <2>1, <2>2 DEF Occurrences
<1> HIDE DEF t
<1>3. CASE y = x
  <2>1. {i \in DOMAIN t : t[i] = x} = at \cup {Len(s) + 1}
    BY <1>1, <1>3
  <2> HIDE DEF at
  <2>2. Cardinality(at \cup {Len(s) + 1}) = Cardinality(at) + 1
    BY <1>2, FS_AddElement
  <2> QED
    BY <1>3, <2>1, <2>2 DEF Occurrences, at, t
<1>4. CASE y # x
  <2>1. {i \in DOMAIN t : t[i] = x} = at
    BY <1>1, <1>4
  <2>2. Occurrences(t, x) = Occurrences(s, x) /\ Occurrences(s, x) \in Nat
    BY <1>2, <2>1 DEF Occurrences
  <2> QED
    BY <1>4, <2>2 DEF t
<1> QED
  BY <1>3, <1>4

(* Adding a field adds its form.                                            *)
LEMMA DeclaredAppend ==
  ASSUME NEW S, NEW fs \in Seq(S), NEW x \in S
  PROVE  /\ Declared(fs) \in Seq({Form(y) : y \in S})
         /\ Declared(Append(fs, x)) = Append(Declared(fs), Form(x))
<1> DEFINE R == {Form(y) : y \in S}
           d == Declared(fs)
           t == Append(fs, x)
<1>1. /\ DOMAIN fs = 1..Len(fs) /\ Len(fs) \in Nat /\ DOMAIN t = 1..(Len(fs) + 1)
      /\ \A i \in 1..Len(fs) : t[i] = fs[i]
      /\ t[Len(fs) + 1] = x
  BY AppendProperties
<1>2. d = [i \in 1..Len(fs) |-> Form(fs[i])]
  BY <1>1 DEF Declared, Form
<1>3. Declared(t) = [i \in 1..(Len(fs) + 1) |-> Form(t[i])]
  BY <1>1 DEF Declared, Form
<1>4. \A i \in 1..Len(fs) : Form(fs[i]) \in R
  BY <1>1
<1>5. Form(x) \in R
  OBVIOUS
<1> HIDE DEF R, d, t
<1>6. d \in [1..Len(fs) -> R]
  BY <1>2, <1>4
<1>7. d \in Seq(R) /\ Len(d) = Len(fs)
  BY <1>1, <1>6
<1>8. /\ Append(d, Form(x)) \in Seq(R) /\ Len(Append(d, Form(x))) = Len(fs) + 1
      /\ \A i \in 1..Len(fs) : Append(d, Form(x))[i] = d[i]
      /\ Append(d, Form(x))[Len(fs) + 1] = Form(x)
  BY <1>5, <1>7, AppendProperties
<1>9. \A i \in 1..(Len(fs) + 1) : Form(t[i]) = Append(d, Form(x))[i]
  BY <1>1, <1>2, <1>8
<1>10. Declared(t) \in [1..(Len(fs) + 1) -> R]
  <2>1. \A i \in 1..(Len(fs) + 1) : Append(d, Form(x))[i] \in R
    BY <1>1, <1>8
  <2> QED
    BY <1>3, <1>9, <2>1
<1>11. Declared(t) \in Seq(R) /\ Len(Declared(t)) = Len(fs) + 1
  BY <1>1, <1>10
<1>12. \A i \in 1..(Len(fs) + 1) : Declared(t)[i] = Append(d, Form(x))[i]
  BY <1>3, <1>9
<1>13. Declared(t) = Append(d, Form(x))
  BY <1>8, <1>11, <1>12, SeqEqual
<1> QED
  BY <1>7, <1>13 DEF R, d, t

(* So a field that is added counts for one of its form.                     *)
LEMMA AppendDeclares ==
  ASSUME NEW S, NEW fs \in Seq(S), NEW x \in S, NEW f
  PROVE  Occurrences(Declared(Append(fs, x)), f)
           = Occurrences(Declared(fs), f) + IF Form(x) = f THEN 1 ELSE 0
<1> DEFINE R == {Form(y) : y \in S}
<1>1. Form(x) \in R
  OBVIOUS
<1> HIDE DEF R
<1>2. /\ Declared(fs) \in Seq(R)
      /\ Declared(Append(fs, x)) = Append(Declared(fs), Form(x))
  BY DeclaredAppend DEF R
<1> QED
  BY <1>1, <1>2, AppendOccurrences

(* The sort leaves every field as often as it was.                          *)
LEMMA SortOccurrences ==
  ASSUME NEW S, NEW fs \in Seq(S), NEW to \in SortBySize(fs), NEW f
  PROVE  Occurrences(Declared(to), f) = Occurrences(Declared(fs), f)
<1>0. PICK r \in Places(fs) :
        \A j \in DOMAIN fs : r[j] \in DOMAIN fs /\ to[r[j]] = fs[j]
  BY SortPermutes
<1> DEFINE D == DOMAIN fs
           A == {j \in D : Form(fs[j]) = f}
           B == {k \in D : Form(to[k]) = f}
           rank == [j \in A |-> r[j]]
<1>1. /\ \A j \in D : r[j] \in D
      /\ \A i, j \in D : r[i] = r[j] => i = j
      /\ \A k \in D : \E j \in D : r[j] = k
  BY PlacesPermute
<1>2. /\ \A j \in D : to[r[j]] = fs[j]
      /\ to \in Seq(S) /\ Len(to) = Len(fs)
  BY <1>0, SortPermutes
<1>3. DOMAIN to = D /\ D = 1..Len(fs) /\ Len(fs) \in Nat
  BY <1>2
<1>4. DOMAIN Declared(to) = D /\ \A k \in D : Declared(to)[k] = Form(to[k])
  BY <1>3 DEF Declared, Form
<1>5. DOMAIN Declared(fs) = D /\ \A k \in D : Declared(fs)[k] = Form(fs[k])
  BY DEF Declared, Form
<1>6. Occurrences(Declared(to), f) = Cardinality(B)
  <2>1. {i \in DOMAIN Declared(to) : Declared(to)[i] = f} = B
    BY <1>4
  <2> QED
    BY <2>1 DEF Occurrences
<1>7. Occurrences(Declared(fs), f) = Cardinality(A)
  <2>1. {i \in DOMAIN Declared(fs) : Declared(fs)[i] = f} = A
    BY <1>5
  <2> QED
    BY <2>1 DEF Occurrences
<1>8. IsFiniteSet(A)
  <2>1. IsFiniteSet(D) /\ A \subseteq D
    BY <1>3, FS_Interval
  <2> HIDE DEF A, D
  <2> QED
    BY <2>1, FS_Subset
<1> HIDE DEF D
<1>9. rank \in [A -> B]
  BY <1>1, <1>2
<1>10. \A i, j \in A : rank[i] = rank[j] => i = j
  BY <1>1
<1>11. \A k \in B : \E j \in A : rank[j] = k
  BY <1>1, <1>2
<1> HIDE DEF A, B, rank
<1>12. ExistsBijection(A, B)
  BY <1>9, <1>10, <1>11, Fun_IsBij DEF ExistsBijection
<1>13. Cardinality(B) = Cardinality(A)
  BY <1>8, <1>12, FS_Bijection
<1> QED
  BY <1>6, <1>7, <1>13

-----------------------------------------------------------------------------
(* A struct has the fields that the document's reader saw declared          *)

DeclaredField == [name : STRING, type : STRING, mut : BOOLEAN, kind : {"array", "scalar"}]

(* The counts besides do not count.                                         *)
Agree(fs, ds) ==
  \A f : f.kind # "count" => Occurrences(Declared(fs), f) = Occurrences(ds, f)

(* A new struct has no fields and none declared.                            *)
LEMMA EmptyAgrees == Agree(<<>>, <<>>)
<1>1. DOMAIN <<>> = {}
  <2>1. Len(<<>>) = 0 /\ <<>> \in Seq({})
    OBVIOUS
  <2> QED
    BY <2>1
<1>2. DOMAIN Declared(<<>>) = {}
  BY <1>1 DEF Declared
<1>3. \A f : Occurrences(Declared(<<>>), f) = Cardinality({})
  <2> SUFFICES ASSUME NEW f PROVE Occurrences(Declared(<<>>), f) = Cardinality({})
    OBVIOUS
  <2>1. {i \in DOMAIN Declared(<<>>) : Declared(<<>>)[i] = f} = {}
    BY <1>2
  <2> QED
    BY <2>1 DEF Occurrences
<1>4. \A f : Occurrences(<<>>, f) = Cardinality({})
  <2> SUFFICES ASSUME NEW f PROVE Occurrences(<<>>, f) = Cardinality({})
    OBVIOUS
  <2>1. {i \in DOMAIN <<>> : <<>>[i] = f} = {}
    BY <1>1
  <2> QED
    BY <2>1 DEF Occurrences
<1> QED
  BY <1>3, <1>4 DEF Agree

(* Sorting the fields does not matter.                                      *)
LEMMA SortAgrees ==
  ASSUME NEW S, NEW fs \in Seq(S), NEW new \in SortBySize(fs), NEW ds, Agree(fs, ds)
  PROVE  Agree(new, ds)
<1>1. \A f : Occurrences(Declared(new), f) = Occurrences(Declared(fs), f)
  BY SortOccurrences
<1> QED
  BY <1>1 DEF Agree

(* A field added on both sides does not either, in any of its forms.        *)
LEMMA AddAgrees ==
  ASSUME NEW S, NEW fs \in Seq(S), NEW ds \in Seq(DeclaredField), Agree(fs, ds),
         NEW name \in STRING, NEW t \in STRING, NEW mut \in BOOLEAN, NEW repeated \in BOOLEAN,
         FieldsFor(name, t, mut, repeated) \in Seq(S),
         NEW d,
         d = [name |-> name, type |-> t, mut |-> mut,
              kind |-> IF repeated THEN "array" ELSE "scalar"]
  PROVE  /\ Append(ds, d) \in Seq(DeclaredField)
         /\ Agree(fs \o FieldsFor(name, t, mut, repeated), Append(ds, d))
<1> DEFINE s == Scalar(name, t, mut)
           c == [s EXCEPT !.kind = "count"]
           a == [s EXCEPT !.kind = "array"]
           new == FieldsFor(name, t, mut, repeated)
<1>1. new = IF repeated THEN <<c, a>> ELSE <<s>>
  BY DEF FieldsFor
<1>2. /\ s.name = name /\ s.type = t /\ s.mut = mut /\ s.kind = "scalar"
      /\ a.name = name /\ a.type = t /\ a.mut = mut /\ a.kind = "array"
      /\ c.kind = "count"
  BY DEF Scalar
<1>3. d \in DeclaredField
  BY DEF DeclaredField
<1>4. Append(ds, d) \in Seq(DeclaredField)
  BY <1>3
<1>5. \A f : Occurrences(Append(ds, d), f) = Occurrences(ds, f) + IF d = f THEN 1 ELSE 0
  BY <1>3, AppendOccurrences
<1> HIDE DEF s, c, a
<1>6. SUFFICES ASSUME NEW f, f.kind # "count"
               PROVE  Occurrences(Declared(fs \o new), f)
                        = Occurrences(Declared(fs), f) + IF d = f THEN 1 ELSE 0
  BY <1>4, <1>5, <1>6 DEF Agree
<1>7. CASE repeated
  <2>1. new = <<c, a>> /\ new \in Seq(S)
    BY <1>1, <1>7
  <2>2. c \in S /\ a \in S
    <3>1. Len(<<c, a>>) = 2 /\ <<c, a>>[1] = c /\ <<c, a>>[2] = a
      OBVIOUS
    <3> QED
      BY <2>1, <3>1, ElementOfSeq
  <2>3. fs \o new = Append(Append(fs, c), a)
    <3>1. Append(fs, c) = fs \o <<c>> /\ Append(fs, c) \in Seq(S)
      BY <2>2, AppendIsConcat
    <3>2. Append(Append(fs, c), a) = (fs \o <<c>>) \o <<a>>
      BY <2>2, <3>1, AppendIsConcat
    <3>3. <<c>> \in Seq(S) /\ <<a>> \in Seq(S) /\ <<c>> \o <<a>> = <<c, a>>
      <4>1. /\ <<c>> \in Seq(S) /\ Len(<<c>>) = 1 /\ <<c>>[1] = c
            /\ <<a>> \in Seq(S) /\ Len(<<a>>) = 1 /\ <<a>>[1] = a
            /\ <<c, a>> \in Seq(S) /\ Len(<<c, a>>) = 2
            /\ <<c, a>>[1] = c /\ <<c, a>>[2] = a
        BY <2>2
      <4>2. /\ <<c>> \o <<a>> \in Seq(S)
            /\ Len(<<c>> \o <<a>>) = Len(<<c>>) + Len(<<a>>)
            /\ \A i \in 1..(Len(<<c>>) + Len(<<a>>)) :
                 (<<c>> \o <<a>>)[i] = IF i <= Len(<<c>>) THEN <<c>>[i] ELSE <<a>>[i - Len(<<c>>)]
        BY <4>1, ConcatProperties
      <4>3. Len(<<c>> \o <<a>>) = 2 /\ \A i \in 1..2 : (<<c>> \o <<a>>)[i] = <<c, a>>[i]
        BY <4>1, <4>2
      <4> QED
        BY <4>1, <4>2, <4>3, SeqEqual
    <3> QED
      BY <2>1, <3>2, <3>3, ConcatAssociative
  <2>4. Append(fs, c) \in Seq(S)
    BY <2>2
  <2>5. Occurrences(Declared(Append(Append(fs, c), a)), f)
          = Occurrences(Declared(Append(fs, c)), f) + IF Form(a) = f THEN 1 ELSE 0
    BY <2>2, <2>4, AppendDeclares
  <2>6. Occurrences(Declared(Append(fs, c)), f)
          = Occurrences(Declared(fs), f) + IF Form(c) = f THEN 1 ELSE 0
    BY <2>2, AppendDeclares
  <2>7. Form(c).kind = "count" /\ Form(a) = d
    BY <1>2, <1>7 DEF Form
  <2>8. Occurrences(Declared(Append(fs, c)), f) = Occurrences(Declared(fs), f)
    <3>1. Form(c) # f
      BY <1>6, <2>7
    <3>2. Occurrences(Declared(fs), f) \in Nat
      BY <2>2, DeclaredAppend, OccurrencesFinite
    <3> QED
      BY <2>6, <3>1, <3>2
  <2> QED
    BY <2>3, <2>5, <2>7, <2>8
<1>8. CASE ~repeated
  <2>1. new = <<s>> /\ new \in Seq(S)
    BY <1>1, <1>8
  <2>2. s \in S
    <3>1. Len(<<s>>) = 1 /\ <<s>>[1] = s
      OBVIOUS
    <3> QED
      BY <2>1, <3>1, ElementOfSeq
  <2>3. fs \o new = Append(fs, s)
    BY <2>1, <2>2, AppendIsConcat
  <2>4. Occurrences(Declared(Append(fs, s)), f)
          = Occurrences(Declared(fs), f) + IF Form(s) = f THEN 1 ELSE 0
    BY <2>2, AppendDeclares
  <2>5. Form(s) = d
    BY <1>2, <1>8 DEF Form
  <2> QED
    BY <2>3, <2>4, <2>5
<1> QED
  BY <1>7, <1>8

-----------------------------------------------------------------------------
(* A line in the form of a field is read by the parser as by the document   *)

Mods(l) == Cardinality({i \in DOMAIN l.words : l.words[i] \in {"mutable", "repeated"}})

Rest(l) == SubSeq(l.words, Mods(l) + 1, Len(l.words))

FieldForm(l) ==
  /\ SubSeq(l.words, 1, Mods(l)) \in Modifiers
  /\ Len(Rest(l)) = 2 \/ (Len(Rest(l)) = 1 /\ Mods(l) > 0)
  /\ Range(Rest(l)) \cap Keyword = {}

(* The modifiers and the rest make up the line.                             *)
LEMMA ModsAndRest ==
  ASSUME NEW l \in Lines
  PROVE  LET w == l.words
             front == SubSeq(w, 1, Mods(l))
         IN /\ w \in Seq(STRING) /\ Len(w) \in Nat /\ DOMAIN w = 1..Len(w)
            /\ Mods(l) \in 0..Len(w)
            /\ Len(front) = Mods(l) /\ \A i \in 1..Mods(l) : front[i] = w[i]
            /\ Len(Rest(l)) = Len(w) - Mods(l)
            /\ DOMAIN Rest(l) = 1..(Len(w) - Mods(l))
            /\ \A i \in 1..(Len(w) - Mods(l)) : Rest(l)[i] = w[Mods(l) + i]
<1> DEFINE w == l.words
           n == Len(w)
           m == Mods(l)
           at == {i \in DOMAIN w : w[i] \in {"mutable", "repeated"}}
<1>1. w \in Seq(STRING)
  BY ParserAssumption
<1>2. n \in Nat /\ DOMAIN w = 1..n /\ \A i \in 1..n : w[i] \in STRING
  BY <1>1
<1>3. m \in 0..n
  <2>1. IsFiniteSet(1..n) /\ Cardinality(1..n) = n
    BY <1>2, FS_Interval
  <2>2. at \subseteq 1..n
    BY <1>2
  <2>3. m = Cardinality(at)
    BY DEF Mods
  <2> HIDE DEF at, m, w, n
  <2>4. IsFiniteSet(at) /\ Cardinality(at) <= n
    BY <2>1, <2>2, FS_Subset
  <2>5. Cardinality(at) \in Nat
    BY <2>4, FS_CardinalityType
  <2> QED
    BY <1>2, <2>3, <2>4, <2>5
<1> HIDE DEF m, w, at, n
<1>4. /\ Len(SubSeq(w, 1, m)) = m /\ \A i \in 1..m : SubSeq(w, 1, m)[i] = w[i]
  <2>1. \A i \in 1..m : w[i] \in STRING
    BY <1>2, <1>3
  <2>2. /\ Len(SubSeq(w, 1, m)) = IF 1 <= m THEN m - 1 + 1 ELSE 0
        /\ \A i \in 1..(m - 1 + 1) : SubSeq(w, 1, m)[i] = w[1 + i - 1]
    BY <1>2, <1>3, <2>1, SubSeqProperties
  <2> QED
    BY <1>2, <1>3, <2>2
<1>5. /\ SubSeq(w, m + 1, n) \in Seq(STRING)
      /\ Len(SubSeq(w, m + 1, n)) = n - m
      /\ \A i \in 1..(n - m) : SubSeq(w, m + 1, n)[i] = w[m + i]
  <2>1. \A i \in (m + 1)..n : w[i] \in STRING
    BY <1>2, <1>3
  <2>2. /\ SubSeq(w, m + 1, n) \in Seq(STRING)
        /\ Len(SubSeq(w, m + 1, n)) = IF m + 1 <= n THEN n - (m + 1) + 1 ELSE 0
        /\ \A i \in 1..(n - (m + 1) + 1) :
             SubSeq(w, m + 1, n)[i] = w[(m + 1) + i - 1]
    BY <1>2, <1>3, <2>1, SubSeqProperties
  <2>3. /\ m \in Nat /\ m <= n
        /\ (IF m + 1 <= n THEN n - (m + 1) + 1 ELSE 0) = n - m
        /\ n - (m + 1) + 1 = n - m
    BY <1>2, <1>3
  <2>4. ASSUME NEW i \in 1..(n - m) PROVE (m + 1) + i - 1 = m + i
    BY <2>3
  <2> HIDE DEF w, m, n
  <2>5. \A i \in 1..(n - m) : SubSeq(w, m + 1, n)[i] = w[m + i]
    BY <2>2, <2>3, <2>4
  <2> QED
    BY <2>2, <2>3, <2>5
<1>6. Rest(l) = SubSeq(w, m + 1, n)
  BY DEF Rest, m, w, n
<1>7. DOMAIN Rest(l) = 1..(n - m)
  BY <1>5, <1>6
<1> QED
  BY <1>1, <1>2, <1>3, <1>4, <1>5, <1>6, <1>7 DEF m, w, n

(* The two words that the parser looks at, and the place where it expects   *)
(* the type, agree with the form.                                           *)
LEMMA FieldFormRead ==
  ASSUME NEW l \in Lines, FieldForm(l)
  PROVE  /\ l.words[TypeAt(l)] = Rest(l)[1] /\ Last(l.words) = Last(Rest(l))
         /\ IsMut(l) <=> "mutable" \in Range(l.words)
         /\ IsRepeated(l) <=> "repeated" \in Range(l.words)
         /\ l.words[1] \notin {"struct", "}"}
         /\ Rest(l)[1] \in STRING /\ Last(l.words) \in STRING
         /\ ~(Len(l.words) < 2 \/ Len(l.words) < TypeAt(l))
<1> DEFINE w == l.words
           n == Len(w)
           m == Mods(l)
           r == Rest(l)
           front == SubSeq(w, 1, m)
<1>1. /\ n \in Nat /\ DOMAIN w = 1..n /\ m \in 0..n
      /\ \A i \in 1..n : w[i] \in STRING
      /\ Len(front) = m /\ \A i \in 1..m : front[i] = w[i]
      /\ Len(r) = n - m /\ DOMAIN r = 1..(n - m)
      /\ \A i \in 1..(n - m) : r[i] = w[m + i]
  BY ModsAndRest, WordsType
<1>2. /\ front \in Modifiers
      /\ Len(r) = 2 \/ (Len(r) = 1 /\ m > 0)
      /\ \A i \in DOMAIN r : r[i] \notin Keyword
  BY DEF FieldForm, Range
<1>3. \A x : x \in Range(w) <=> \E i \in 1..n : w[i] = x
  BY <1>1 DEF Range
<1>4. /\ IsMut(l) <=> w[1] = "mutable" \/ w[2] = "mutable"
      /\ IsRepeated(l) <=> w[1] = "repeated" \/ w[2] = "repeated"
  BY DEF IsMut, IsRepeated
<1>5. Last(w) = w[n] /\ Last(r) = r[Len(r)]
  BY DEF Last
<1>6. TypeAt(l) = IF IsMut(l) /\ IsRepeated(l) THEN 3 ELSE IF IsMut(l) \/ IsRepeated(l) THEN 2 ELSE 1
  BY DEF TypeAt
<1> HIDE DEF w, n, r, m, front
<1>7. \/ m = 0
      \/ m = 1 /\ w[1] = "mutable"
      \/ m = 1 /\ w[1] = "repeated"
      \/ m = 2 /\ w[1] = "mutable" /\ w[2] = "repeated"
      \/ m = 2 /\ w[1] = "repeated" /\ w[2] = "mutable"
  <2>1. CASE front = <<>>
    BY <1>1, <2>1
  <2>2. CASE front = <<"mutable">>
    BY <1>1, <2>2
  <2>3. CASE front = <<"repeated">>
    BY <1>1, <2>3
  <2>4. CASE front = <<"mutable", "repeated">>
    BY <1>1, <2>4
  <2>5. CASE front = <<"repeated", "mutable">>
    BY <1>1, <2>5
  <2> QED
    BY <1>2, <2>1, <2>2, <2>3, <2>4, <2>5 DEF Modifiers
<1>8. \A i \in (m + 1)..n : w[i] \notin Keyword
  <2> SUFFICES ASSUME NEW i \in (m + 1)..n PROVE w[i] \notin Keyword
    OBVIOUS
  <2>1. i - m \in 1..(n - m) /\ m + (i - m) = i
    BY <1>1
  <2> QED
    BY <1>1, <1>2, <2>1
<1>9. "mutable" \in Keyword /\ "repeated" \in Keyword /\ "struct" \in Keyword /\ "}" \in Keyword
  BY DEF Keyword
<1>10. n >= m + 1 /\ n >= 2 /\ n - m >= 1 /\ m \in Nat
  BY <1>1, <1>2
<1>11. r[1] = w[m + 1] /\ w[m + 1] \in STRING /\ w[m + 1] \notin Keyword
  BY <1>1, <1>8, <1>10
<1>12. Last(w) = Last(r)
  <2>1. m + Len(r) = n /\ Len(r) \in 1..(n - m)
    BY <1>1, <1>10
  <2> QED
    BY <1>1, <1>5, <2>1
<1>13. /\ IsMut(l) <=> "mutable" \in Range(w)
       /\ IsRepeated(l) <=> "repeated" \in Range(w)
       /\ TypeAt(l) = m + 1 /\ w[1] \notin {"struct", "}"}
  <2>1. \A x \in Keyword : x \in Range(w) => \E i \in 1..m : w[i] = x
    <3> SUFFICES ASSUME NEW x \in Keyword, NEW i \in 1..n, w[i] = x PROVE i \in 1..m
      BY <1>3
    <3>1. i \notin (m + 1)..n
      BY <1>8
    <3> QED
      BY <1>1, <1>10, <3>1
  <2>2. \A i \in 1..m : w[i] \in Range(w)
    <3>1. \A i \in 1..m : i \in 1..n
      BY <1>1
    <3> QED
      BY <1>3, <3>1
  <2>3. m = 0 => w[1] \notin Keyword /\ w[2] \notin Keyword
    BY <1>1, <1>8, <1>10
  <2>4. m = 1 => w[2] \notin Keyword
    BY <1>1, <1>8, <1>10
  <2>5. CASE m = 0
    <3>1. 1..m = {}
      BY <2>5
    <3>2. "mutable" \notin Range(w) /\ "repeated" \notin Range(w)
      BY <1>9, <2>1, <3>1
    <3>3. ~IsMut(l) /\ ~IsRepeated(l)
      BY <1>4, <1>9, <2>3, <2>5
    <3>4. w[1] \notin {"struct", "}"}
      BY <1>9, <2>3, <2>5
    <3>5. TypeAt(l) = 1 /\ m + 1 = 1
      BY <1>6, <2>5, <3>3
    <3> QED
      BY <3>2, <3>3, <3>4, <3>5
  <2>6. CASE m = 1 /\ w[1] = "mutable"
    <3>1. 1..m = {1}
      BY <2>6
    <3>2. "mutable" \in Range(w)
      BY <2>2, <2>6, <3>1
    <3>3. "repeated" \notin Range(w)
      BY <1>9, <2>1, <2>6, <3>1
    <3>4. w[2] # "mutable" /\ w[2] # "repeated"
      BY <1>9, <2>4, <2>6
    <3>5. IsMut(l) /\ ~IsRepeated(l)
      BY <1>4, <2>6, <3>4
    <3> QED
      BY <1>6, <2>6, <3>2, <3>3, <3>5
  <2>7. CASE m = 1 /\ w[1] = "repeated"
    <3>1. 1..m = {1}
      BY <2>7
    <3>2. "repeated" \in Range(w)
      BY <2>2, <2>7, <3>1
    <3>3. "mutable" \notin Range(w)
      BY <1>9, <2>1, <2>7, <3>1
    <3>4. w[2] # "mutable" /\ w[2] # "repeated"
      BY <1>9, <2>4, <2>7
    <3>5. ~IsMut(l) /\ IsRepeated(l)
      BY <1>4, <2>7, <3>4
    <3> QED
      BY <1>6, <2>7, <3>2, <3>3, <3>5
  <2>8. CASE m = 2 /\ w[1] = "mutable" /\ w[2] = "repeated"
    <3>1. 1..m = {1, 2}
      BY <2>8
    <3> QED
      BY <1>4, <1>6, <2>2, <2>8, <3>1
  <2>9. CASE m = 2 /\ w[1] = "repeated" /\ w[2] = "mutable"
    <3>1. 1..m = {1, 2}
      BY <2>9
    <3> QED
      BY <1>4, <1>6, <2>2, <2>9, <3>1
  <2> QED
    BY <1>7, <2>5, <2>6, <2>7, <2>8, <2>9
<1>14. Last(w) \in STRING
  <2>1. n \in 1..n
    BY <1>1, <1>10
  <2> QED
    BY <1>1, <1>5, <2>1
<1>15. ~(n < 2 \/ n < TypeAt(l))
  <2>1. TypeAt(l) = m + 1 /\ n \in Nat
    BY <1>1, <1>13
  <2> QED
    BY <1>10, <2>1
<1> QED
  BY <1>11, <1>12, <1>13, <1>14, <1>15 DEF w, n, r

-----------------------------------------------------------------------------
(* What the document's reader makes of a line it knows                      *)

DocShape ==
  /\ doc = [comment |-> doc.comment, open |-> doc.open, declared |-> doc.declared,
            packed |-> doc.packed, known |-> doc.known]
  /\ doc.comment \in BOOLEAN /\ doc.known \in BOOLEAN

(* A line that the document says nothing of.                                *)
LEMMA UnknownShape ==
  ASSUME DocShape, doc' = Unknown(doc)
  PROVE  DocShape' /\ ~doc'.known
<1>1. doc' = [comment |-> doc.comment, open |-> doc.open, declared |-> doc.declared,
              packed |-> doc.packed, known |-> FALSE]
  BY DEF DocShape, Unknown
<1> QED
  BY <1>1 DEF DocShape

DeclaresStruct(l) ==
  LET n == l.words[2] IN
  /\ l.words[1] = "struct" /\ Len(l.words) \in {3, 4} /\ doc.open = None
  /\ n \notin DOMAIN doc.declared
  /\ doc'.open = n
  /\ doc'.declared = [m \in DOMAIN doc.declared \cup {n} |->
                        IF m = n THEN <<>> ELSE doc.declared[m]]

DeclaresField(l) ==
  /\ FieldForm(l) /\ doc.open # None
  /\ Rest(l)[1] \in Builtin \cup (DOMAIN doc.declared \ {doc.open})
  /\ doc'.open = doc.open
  /\ doc'.declared =
       [doc.declared EXCEPT ![doc.open] =
          Append(@, [name |-> Last(Rest(l)), type |-> Rest(l)[1],
                     mut |-> "mutable" \in Range(l.words),
                     kind |-> IF "repeated" \in Range(l.words) THEN "array" ELSE "scalar"])]

EndsStruct(l) ==
  /\ l.words = <<"}">> /\ doc.open # None
  /\ doc'.open = None /\ doc'.declared = doc.declared

(* A line of code that the reader knows.                                    *)
LEMMA DocCodeRead ==
  ASSUME DocShape, doc.known, NEW l \in Lines, doc' = DocCode(doc, l)
  PROVE  /\ DocShape'
         /\ doc'.known => /\ doc'.comment = doc.comment
                          /\ DeclaresStruct(l) \/ DeclaresField(l) \/ EndsStruct(l)
<1>1. CASE doc' = Unknown(doc)
  BY <1>1, UnknownShape
<1>2. CASE l.words[1] = "struct" /\ doc' # Unknown(doc)
  <2> DEFINE n == l.words[2]
  <2>1. doc' = DocStruct(doc, l)
    BY <1>2 DEF DocCode
  <2>2. /\ doc.open = None /\ Len(l.words) \in {3, 4} /\ n \notin DOMAIN doc.declared
        /\ doc' = [doc EXCEPT !.open = n,
                   !.declared = [m \in DOMAIN @ \cup {n} |-> IF m = n THEN <<>> ELSE @[m]],
                   !.packed = IF Len(l.words) = 4 THEN @ \cup {n} ELSE @]
    BY <1>2, <2>1, Zenon DEF DocStruct
  <2>3. doc' = [comment |-> doc.comment, open |-> n,
                declared |-> [m \in DOMAIN doc.declared \cup {n} |->
                                IF m = n THEN <<>> ELSE doc.declared[m]],
                packed |-> IF Len(l.words) = 4 THEN doc.packed \cup {n} ELSE doc.packed,
                known |-> doc.known]
    BY <2>2 DEF DocShape
  <2>4. DocShape' /\ doc'.comment = doc.comment
    BY <2>3 DEF DocShape
  <2>5. DeclaresStruct(l)
    BY <1>2, <2>2, <2>3 DEF DeclaresStruct
  <2> QED
    BY <2>4, <2>5
<1>3. CASE l.words = <<"}">> /\ doc.open # None
  <2>1. l.words[1] # "struct"
    <3>1. <<"}">>[1] = "}"
      OBVIOUS
    <3>2. l.words[1] = "}"
      BY <1>3, <3>1
    <3> QED
      BY <3>2
  <2>2. doc' = [doc EXCEPT !.open = None]
    BY <1>3, <2>1 DEF DocCode
  <2>3. doc' = [comment |-> doc.comment, open |-> None, declared |-> doc.declared,
                packed |-> doc.packed, known |-> doc.known]
    BY <2>2 DEF DocShape
  <2>4. DocShape'
    BY <2>3 DEF DocShape
  <2>5. /\ doc'.comment = doc.comment /\ doc'.open = None /\ doc'.declared = doc.declared
    BY <2>3
  <2> QED
    BY <1>3, <2>4, <2>5 DEF EndsStruct
<1>4. CASE l.words[1] # "struct" /\ ~(l.words = <<"}">> /\ doc.open # None)
           /\ doc' # Unknown(doc)
  <2> DEFINE d == [name |-> Last(Rest(l)), type |-> Rest(l)[1],
                   mut |-> "mutable" \in Range(l.words),
                   kind |-> IF "repeated" \in Range(l.words) THEN "array" ELSE "scalar"]
  <2>1. doc' = DocField(doc, l)
    BY <1>4 DEF DocCode
  <2>2. /\ FieldForm(l) /\ doc.open # None
        /\ Rest(l)[1] \in Builtin \cup (DOMAIN doc.declared \ {doc.open})
        /\ doc' = [doc EXCEPT !.declared[doc.open] = Append(@, d)]
    BY <1>4, <2>1, Zenon DEF DocField, FieldForm, Mods, Rest
  <2> HIDE DEF d
  <2>3. doc' = [comment |-> doc.comment, open |-> doc.open,
                declared |-> [doc.declared EXCEPT ![doc.open] = Append(@, d)],
                packed |-> doc.packed, known |-> doc.known]
    BY <2>2 DEF DocShape
  <2>4. DocShape' /\ doc'.comment = doc.comment
    BY <2>3 DEF DocShape
  <2>5. DeclaresField(l)
    BY <2>2, <2>3 DEF DeclaresField, d
  <2> QED
    BY <2>4, <2>5
<1> QED
  BY <1>1, <1>2, <1>3, <1>4

(* Any line that the reader knows.                                          *)
LEMMA DocRead ==
  ASSUME DocShape, NEW l \in Lines, doc' = Read(doc, l)
  PROVE  /\ DocShape'
         /\ doc'.known =>
              /\ doc.known /\ ~l.middle /\ (l.ends => l.starts = "none")
              /\ \/ /\ doc.comment /\ doc'.comment = ~(l.starts = "*/" \/ l.ends)
                    /\ doc'.open = doc.open /\ doc'.declared = doc.declared
                 \/ ~doc.comment /\ (Blank(l) \/ l.starts = "//") /\ doc' = doc
                 \/ /\ ~doc.comment /\ l.starts = "/*" /\ doc'.comment = TRUE
                    /\ doc'.open = doc.open /\ doc'.declared = doc.declared
                 \/ /\ ~doc.comment /\ l.starts = "none" /\ ~l.ends /\ ~Blank(l)
                    /\ doc'.comment = doc.comment
                    /\ DeclaresStruct(l) \/ DeclaresField(l) \/ EndsStruct(l)
<1>1. l.starts \in Mark /\ l.ends \in BOOLEAN /\ l.middle \in BOOLEAN
  BY ParserAssumption
<1>2. CASE doc' = Unknown(doc)
  BY <1>2, UnknownShape
<1>3. CASE doc' # Unknown(doc)
  <2>1. doc.known /\ ~l.middle /\ (l.ends => l.starts = "none")
    BY <1>3 DEF Read
  <2>2. CASE doc.comment
    <3>1. doc' = [doc EXCEPT !.comment = ~(l.starts = "*/" \/ l.ends)]
      BY <2>1, <2>2 DEF Read
    <3>2. doc' = [comment |-> ~(l.starts = "*/" \/ l.ends), open |-> doc.open,
                  declared |-> doc.declared, packed |-> doc.packed, known |-> doc.known]
      BY <3>1 DEF DocShape
    <3> QED
      BY <2>1, <2>2, <3>2 DEF DocShape
  <2>3. CASE ~doc.comment /\ (Blank(l) \/ l.starts = "//")
    <3>1. doc' = doc
      BY <2>1, <2>3 DEF Read
    <3> QED
      BY <2>1, <2>3, <3>1 DEF DocShape
  <2>4. CASE ~doc.comment /\ ~(Blank(l) \/ l.starts = "//") /\ l.starts = "/*"
    <3>1. doc' = [doc EXCEPT !.comment = TRUE]
      BY <2>1, <2>4 DEF Read
    <3>2. doc' = [comment |-> TRUE, open |-> doc.open,
                  declared |-> doc.declared, packed |-> doc.packed, known |-> doc.known]
      BY <3>1 DEF DocShape
    <3>3. DocShape'
      BY <3>2 DEF DocShape
    <3>4. doc'.comment = TRUE /\ doc'.open = doc.open /\ doc'.declared = doc.declared
      BY <3>2
    <3> QED
      BY <2>1, <2>4, <3>3, <3>4
  <2>5. CASE ~doc.comment /\ ~(Blank(l) \/ l.starts = "//") /\ l.starts # "/*"
    <3>1. ~(l.starts = "*/" \/ l.ends) /\ doc' = DocCode(doc, l)
      BY <1>3, <2>1, <2>5 DEF Read
    <3>2. l.starts = "none"
      BY <1>1, <2>5, <3>1 DEF Mark
    <3> QED
      BY <2>1, <2>5, <3>1, <3>2, DocCodeRead
  <2> QED
    BY <2>2, <2>3, <2>4, <2>5
<1> QED
  BY <1>2, <1>3

-----------------------------------------------------------------------------
(* The parser goes along with the reader                                    *)

(* The table is the one that was declared, and what was ended is finalized, *)
(* once.                                                                    *)
SameTable ==
  /\ current = doc.open /\ None \notin DOMAIN structs
  /\ DOMAIN structs = DOMAIN doc.declared
  /\ \A n \in DOMAIN structs :
       /\ structs[n].version = IF n = current THEN 0 ELSE 1
       /\ doc.declared[n] \in Seq(DeclaredField)
       /\ Agree(structs[n].fields, doc.declared[n])

Tracks ==
  doc.known => fault = "none" /\ result # "rejected" /\ inside = doc.comment /\ SameTable

(* A line that opens a struct.                                              *)
LEMMA StructTracked ==
  ASSUME TableOK, SameTable, NEW l \in Lines, DeclaresStruct(l), ParseLine(l)
  PROVE  SameTable' /\ UNCHANGED <<result, fault>>
<1> DEFINE n == l.words[2]
<1>1. /\ l.words[1] = "struct" /\ Len(l.words) >= 2 /\ current = None
      /\ n \notin DOMAIN structs
      /\ doc'.open = n
      /\ doc'.declared = [m \in DOMAIN doc.declared \cup {n} |->
                            IF m = n THEN <<>> ELSE doc.declared[m]]
  BY DEF DeclaresStruct, SameTable
<1>2. Opens(n) /\ UNCHANGED <<result, fault>>
  BY <1>1, StructLine
<1> HIDE DEF n
<1>3. /\ DOMAIN structs' = DOMAIN structs \cup {n}
      /\ \A m \in DOMAIN structs : structs'[m].fields = structs[m].fields
                                   /\ structs'[m].version = structs[m].version
      /\ structs'[n].fields = <<>> /\ structs'[n].version = 0
  BY <1>1, <1>2, OpensFields
<1>4. current' = n /\ n # None /\ None \notin DOMAIN structs
  BY <1>2 DEF Opens, SameTable
<1>5. DOMAIN doc'.declared = DOMAIN structs'
  BY <1>1, <1>3 DEF SameTable
<1>6. ASSUME NEW m \in DOMAIN structs'
      PROVE  /\ structs'[m].version = IF m = current' THEN 0 ELSE 1
             /\ doc'.declared[m] \in Seq(DeclaredField)
             /\ Agree(structs'[m].fields, doc'.declared[m])
  <2>1. CASE m = n
    <3>1. doc'.declared[m] = <<>> /\ structs'[m].fields = <<>>
      BY <1>1, <1>3, <2>1
    <3> QED
      BY <1>3, <1>4, <2>1, <3>1, EmptyAgrees
  <2>2. CASE m # n
    <3>1. m \in DOMAIN structs /\ m # current
      BY <1>1, <1>3, <1>4, <2>2
    <3>2. doc'.declared[m] = doc.declared[m]
      BY <1>1, <2>2, <3>1 DEF SameTable
    <3> QED
      BY <1>3, <1>4, <2>2, <3>1, <3>2 DEF SameTable
  <2> QED
    BY <2>1, <2>2
<1>7. SameTable'
  BY <1>1, <1>4, <1>5, <1>6 DEF SameTable
<1> QED
  BY <1>2, <1>7

(* A line that ends one.                                                    *)
LEMMA EndTracked ==
  ASSUME TableOK, SameTable, NEW l \in Lines, EndsStruct(l), ParseLine(l)
  PROVE  SameTable' /\ UNCHANGED <<result, fault>>
<1>1. l.words = <<"}">> /\ current # None /\ doc'.open = None /\ doc'.declared = doc.declared
  BY DEF EndsStruct, SameTable
<1>2. l.words[1] = "}"
  <2>1. <<"}">>[1] = "}"
    OBVIOUS
  <2> QED
    BY <1>1, <2>1
<1>3. CloseStruct
  BY <1>2 DEF ParseLine
<1>4. PICK sorted : ClosesAs(sorted) /\ UNCHANGED <<result, fault>>
  BY <1>1, <1>3 DEF CloseStruct, ClosesAs
<1>5. /\ DOMAIN structs' = DOMAIN structs /\ current \in DOMAIN structs
      /\ \A m \in DOMAIN structs :
           structs'[m].version = IF m = current THEN structs[m].version + 1
                                                ELSE structs[m].version
      /\ \A m \in DOMAIN structs :
           structs'[m].fields = IF m = current THEN sorted ELSE structs[m].fields
      /\ sorted \in SortBySize(structs[current].fields)
      /\ structs[current].fields \in Seq(Field) /\ structs[current].version \in Nat
  BY <1>4, ClosesFields
<1>6. ASSUME NEW m \in DOMAIN structs
      PROVE  /\ structs'[m].version = 1
             /\ Agree(structs'[m].fields, doc.declared[m])
  <2>1. CASE m = current
    <3>1. Agree(sorted, doc.declared[m])
      BY <1>5, <2>1, SortAgrees DEF SameTable
    <3> QED
      BY <1>5, <2>1, <3>1 DEF SameTable
  <2>2. CASE m # current
    BY <1>5, <2>2 DEF SameTable
  <2> QED
    BY <2>1, <2>2
<1>7. current' = None
  BY <1>4 DEF ClosesAs
<1>8. SameTable'
  BY <1>1, <1>5, <1>6, <1>7 DEF SameTable
<1> QED
  BY <1>4, <1>8

(* A line that adds a field: the type is a builtin or a struct that was     *)
(* ended, which has been finalized, so the parser takes it.                 *)
LEMMA FieldTracked ==
  ASSUME TableOK, SameTable, NEW l \in Lines, DeclaresField(l), ParseLine(l)
  PROVE  SameTable' /\ UNCHANGED <<result, fault>>
<1> DEFINE t == Rest(l)[1]
           name == Last(l.words)
           c == doc.open
           new == FieldsFor(name, t, IsMut(l), IsRepeated(l))
           d == [name |-> Last(Rest(l)), type |-> t,
                 mut |-> "mutable" \in Range(l.words),
                 kind |-> IF "repeated" \in Range(l.words) THEN "array" ELSE "scalar"]
<1>1. /\ FieldForm(l) /\ c # None /\ current = c
      /\ t \in Builtin \cup (DOMAIN structs \ {c})
      /\ doc'.open = c
      /\ doc'.declared = [doc.declared EXCEPT ![c] = Append(@, d)]
  BY DEF DeclaresField, SameTable
<1>2. /\ ~(Len(l.words) < 2 \/ Len(l.words) < TypeAt(l))
      /\ l.words[TypeAt(l)] = t /\ name = Last(Rest(l))
      /\ IsMut(l) <=> "mutable" \in Range(l.words)
      /\ IsRepeated(l) <=> "repeated" \in Range(l.words)
      /\ l.words[1] \notin {"struct", "}"}
      /\ t \in STRING /\ name \in STRING
  BY <1>1, FieldFormRead
<1>3. IsMut(l) \in BOOLEAN /\ IsRepeated(l) \in BOOLEAN
  BY DEF IsMut, IsRepeated
<1>5. t \notin Builtin => t \in DOMAIN structs /\ structs[t].version # 0
  BY <1>1 DEF SameTable
<1>6. AddField(l)
  BY <1>2 DEF ParseLine
<1>8. /\ structs' = [structs EXCEPT ![current].fields = @ \o new]
      /\ UNCHANGED <<current, result, fault>>
  <2>2. t \in Builtin \cup DOMAIN structs /\ ~(t \notin Builtin /\ structs[t].version = 0)
    BY <1>1, <1>5
  <2> HIDE DEF t, new
  <2> QED
    BY <1>1, <1>2, <1>6, <2>2 DEF AddField, new
<1>9. Adds(name, t, IsMut(l), IsRepeated(l))
  <2>1. name \in Words
    <3>1. l.words # <<>>
      <4>1. ~(Len(l.words) < 2) /\ Len(<<>>) = 0
        BY <1>2
      <4> QED
        BY <4>1
    <3> QED
      BY <3>1, WordsType
  <2> HIDE DEF t, name, new
  <2> QED
    BY <1>1, <1>2, <1>3, <1>5, <1>8, <2>1 DEF Adds, Type, new
<1>10. /\ DOMAIN structs' = DOMAIN structs /\ current \in DOMAIN structs
       /\ \A m \in DOMAIN structs : structs'[m].version = structs[m].version
       /\ \A m \in DOMAIN structs :
            structs'[m].fields = IF m = current THEN structs[m].fields \o new
                                                ELSE structs[m].fields
       /\ new \in Seq(Field) /\ structs[current].fields \in Seq(Field)
  BY <1>9, AddsFields
<1>11. d = [name |-> name, type |-> t, mut |-> IsMut(l),
            kind |-> IF IsRepeated(l) THEN "array" ELSE "scalar"]
  <2>1. ("mutable" \in Range(l.words)) = IsMut(l)
    <3> DEFINE x == "mutable" \in Range(l.words)
               y == IsMut(l)
    <3>1. x \in BOOLEAN
      OBVIOUS
    <3>2. y \in BOOLEAN
      BY <1>3
    <3>3. x <=> y
      BY <1>2
    <3> HIDE DEF x, y
    <3>4. x = y
      BY <3>1, <3>2, <3>3
    <3> QED
      BY <3>4 DEF x, y
  <2>2. (IF "repeated" \in Range(l.words) THEN "array" ELSE "scalar")
          = IF IsRepeated(l) THEN "array" ELSE "scalar"
    BY <1>2, <1>3, Zenon
  <2> QED
    BY <1>2, <2>1, <2>2
<1> HIDE DEF t, name, d, new
<1>12. /\ Append(doc.declared[c], d) \in Seq(DeclaredField)
       /\ Agree(structs[c].fields \o new, Append(doc.declared[c], d))
  <2>1. doc.declared[c] \in Seq(DeclaredField) /\ Agree(structs[c].fields, doc.declared[c])
    BY <1>1, <1>10 DEF SameTable
  <2> DEFINE mut == IsMut(l)
             repeated == IsRepeated(l)
  <2>2. /\ mut \in BOOLEAN /\ repeated \in BOOLEAN /\ name \in STRING /\ t \in STRING
        /\ structs[c].fields \in Seq(Field)
    BY <1>1, <1>2, <1>3, <1>10
  <2>3. d = [name |-> name, type |-> t, mut |-> mut,
             kind |-> IF repeated THEN "array" ELSE "scalar"]
    BY <1>11
  <2>4. new = FieldsFor(name, t, mut, repeated) /\ new \in Seq(Field)
    BY <1>10 DEF new
  <2> HIDE DEF mut, repeated, c
  <2>5. FieldsFor(name, t, mut, repeated) \in Seq(Field)
    BY <2>4
  <2>6. Agree(structs[c].fields \o FieldsFor(name, t, mut, repeated), Append(doc.declared[c], d))
        /\ Append(doc.declared[c], d) \in Seq(DeclaredField)
    BY <2>1, <2>2, <2>3, <2>5, AddAgrees
  <2> QED
    BY <2>4, <2>6
<1>13. /\ DOMAIN doc'.declared = DOMAIN structs
       /\ \A m \in DOMAIN structs :
            doc'.declared[m] = IF m = c THEN Append(doc.declared[c], d) ELSE doc.declared[m]
  BY <1>1 DEF SameTable
<1>14. ASSUME NEW m \in DOMAIN structs
       PROVE  /\ structs'[m].version = IF m = current THEN 0 ELSE 1
              /\ doc'.declared[m] \in Seq(DeclaredField)
              /\ Agree(structs'[m].fields, doc'.declared[m])
  <2>1. CASE m = current
    BY <1>1, <1>10, <1>12, <1>13, <2>1 DEF SameTable
  <2>2. CASE m # current
    BY <1>1, <1>10, <1>13, <2>2 DEF SameTable
  <2> QED
    BY <2>1, <2>2
<1>15. SameTable'
  BY <1>1, <1>8, <1>10, <1>13, <1>14 DEF SameTable
<1> QED
  BY <1>8, <1>15

(* A line that the reader knows, in any of its forms.                       *)
LEMMA LineTracked ==
  ASSUME TypeOK, DocShape, Tracks, result = "reading", NEW l \in Lines, ReadLine(l)
  PROVE  DocShape' /\ Tracks'
<1>1. /\ DocShape'
      /\ doc'.known =>
              /\ doc.known /\ ~l.middle /\ (l.ends => l.starts = "none")
              /\ \/ /\ doc.comment /\ doc'.comment = ~(l.starts = "*/" \/ l.ends)
                    /\ doc'.open = doc.open /\ doc'.declared = doc.declared
                 \/ ~doc.comment /\ (Blank(l) \/ l.starts = "//") /\ doc' = doc
                 \/ /\ ~doc.comment /\ l.starts = "/*" /\ doc'.comment = TRUE
                    /\ doc'.open = doc.open /\ doc'.declared = doc.declared
                 \/ /\ ~doc.comment /\ l.starts = "none" /\ ~l.ends /\ ~Blank(l)
                    /\ doc'.comment = doc.comment
                    /\ DeclaresStruct(l) \/ DeclaresField(l) \/ EndsStruct(l)
  BY DocRead DEF ReadLine
<1>2. SUFFICES ASSUME doc'.known PROVE Tracks'
  BY <1>1 DEF Tracks
<1>3. /\ fault = "none" /\ inside = doc.comment /\ SameTable
      /\ doc.known /\ ~l.middle /\ (l.ends => l.starts = "none")
  BY <1>1, <1>2 DEF Tracks
<1>4. TableOK
  BY DEF TypeOK, TableOK
<1>5. ASSUME UNCHANGED <<current, structs, result, fault>>, inside' = doc'.comment,
             doc'.open = doc.open, doc'.declared = doc.declared
      PROVE  Tracks'
  BY <1>3, <1>5 DEF Tracks, SameTable
<1>6. /\ l.starts \in Mark
      /\ Blank(l) => ~l.ends /\ l.starts = "none"
  BY ParserAssumption DEF Blank
<1>7. \/ SkipLine(l) \/ OpenComment(l) \/ CloseComment(l) \/ InlineComment(l) \/ Text(l)
  BY DEF ReadLine
<1>8. CASE doc.comment /\ doc'.comment = ~(l.starts = "*/" \/ l.ends)
           /\ doc'.open = doc.open /\ doc'.declared = doc.declared
  <2>1. UNCHANGED <<current, structs, result, fault>>
    BY <1>3, <1>7, <1>8
       DEF SkipLine, OpenComment, CloseComment, InlineComment, Text, Skip
  <2>2. inside' = doc'.comment
    <3>1. CASE l.starts = "*/" \/ l.ends
      <4>1. inside' = FALSE
        BY <1>3, <1>6, <1>7, <3>1
           DEF SkipLine, OpenComment, CloseComment, InlineComment, Text
      <4> QED
        BY <1>8, <3>1, <4>1
    <3>2. CASE ~(l.starts = "*/" \/ l.ends)
      <4>1. doc.comment = TRUE /\ inside = TRUE
        BY <1>3, <1>8 DEF DocShape
      <4>2. inside' = TRUE
        BY <1>3, <1>7, <3>2, <4>1
           DEF SkipLine, OpenComment, CloseComment, InlineComment, Text
      <4> QED
        BY <1>8, <3>2, <4>2
    <3> QED
      BY <3>1, <3>2
  <2> QED
    BY <1>5, <1>8, <2>1, <2>2
<1>9. CASE ~doc.comment /\ (Blank(l) \/ l.starts = "//") /\ doc' = doc
  <2>1. SkipLine(l)
    BY <1>3, <1>6, <1>7, <1>9 DEF OpenComment, CloseComment, InlineComment, Text
  <2> QED
    BY <1>3, <1>5, <1>9, <2>1 DEF SkipLine, Skip
<1>10. CASE ~doc.comment /\ l.starts = "/*" /\ doc'.comment = TRUE
            /\ doc'.open = doc.open /\ doc'.declared = doc.declared
  <2>1. OpenComment(l)
    BY <1>3, <1>6, <1>7, <1>10 DEF SkipLine, CloseComment, InlineComment, Text
  <2> QED
    BY <1>5, <1>10, <2>1 DEF OpenComment, Skip
<1>11. CASE ~doc.comment /\ l.starts = "none" /\ ~l.ends /\ ~Blank(l)
            /\ doc'.comment = doc.comment
            /\ (DeclaresStruct(l) \/ DeclaresField(l) \/ EndsStruct(l))
  <2>1. Text(l)
    BY <1>3, <1>7, <1>11 DEF SkipLine, OpenComment, CloseComment, InlineComment
  <2>2. ParseLine(l) /\ inside' = inside
    BY <1>3, <1>11, <2>1 DEF Text
  <2>3. SameTable' /\ UNCHANGED <<result, fault>>
    BY <1>3, <1>4, <1>11, <2>2, StructTracked, FieldTracked, EndTracked
  <2> QED
    BY <1>3, <1>11, <2>2, <2>3 DEF Tracks
<1> QED
  BY <1>1, <1>2, <1>8, <1>9, <1>10, <1>11

(* Before the first line both know nothing.                                 *)
LEMMA DocInit ==
  ASSUME Init
  PROVE  DocShape /\ Tracks
<1>1. /\ doc = [comment |-> FALSE, open |-> None, declared |-> <<>>, packed |-> {}, known |-> TRUE]
      /\ inside = FALSE /\ current = None /\ structs = <<>>
      /\ result = "reading" /\ fault = "none"
  BY DEF Init
<1>2. DocShape /\ doc.comment = FALSE /\ doc.open = None /\ doc.declared = <<>>
  BY <1>1 DEF DocShape
<1>3. DOMAIN <<>> = {}
  OBVIOUS
<1>4. SameTable
  BY <1>1, <1>2, <1>3 DEF SameTable
<1> QED
  BY <1>1, <1>2, <1>4 DEF Tracks

(* A step of the parser.                                                    *)
LEMMA ParseTracked ==
  ASSUME TypeOK, DocShape, Tracks, Next
  PROVE  DocShape' /\ Tracks'
<1>1. CASE EndOfFile
  BY <1>1 DEF EndOfFile, DocShape, Tracks, SameTable
<1>2. ASSUME NEW l \in Lines, ReadLine(l) PROVE DocShape' /\ Tracks'
  BY <1>2, LineTracked DEF Next
<1> QED
  BY <1>1, <1>2 DEF Next

(* As long as a file is in the form of doc/Syntax.md, parseFile neither     *)
(* refuses nor crashes, is in the comment and in the struct where a reader  *)
(* of the document is, and its table has exactly the structs declared so    *)
(* far, each with exactly the fields declared in it, however they are       *)
(* sorted, and the counts of its arrays.                                    *)
THEOREM ParsesAsDocumented == Spec => []Faithful
<1>1. Init => DocShape /\ Tracks
  BY DocInit
<1>2. TypeOK /\ DocShape /\ Tracks /\ [Next]_vars => DocShape' /\ Tracks'
  <2>1. ASSUME DocShape, Tracks, UNCHANGED vars PROVE DocShape' /\ Tracks'
    BY <2>1 DEF DocShape, Tracks, SameTable, Agree, Occurrences, Declared, vars
  <2> QED
    BY <2>1, ParseTracked
<1>3. Tracks => Faithful
  BY DEF Tracks, SameTable, Agree, Faithful
<1> QED
  BY <1>1, <1>2, <1>3, TypeCorrect, PTL DEF Spec
=============================================================================
