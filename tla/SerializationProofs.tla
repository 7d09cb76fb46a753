------------------------- MODULE SerializationProofs -------------------------
(***************************************************************************)
(* What serialize and deserialize do with every object, for all layouts.   *)
(***************************************************************************)
EXTENDS Serialization, HeapProofs, FiniteSetTheorems, FunctionTheorems,
        SequenceTheorems

-----------------------------------------------------------------------------
(* Sums                                                                     *)

(* Induction over the natural numbers, for the set of those that have the   *)
(* property: the provers know the least element of a set, not operators.    *)
LEMMA SetInduction ==
  ASSUME NEW S, 0 \in S, \A n \in Nat : n \in S => n + 1 \in S
  PROVE  Nat \subseteq S
<1> DEFINE R == OpToRel(<, Nat)
           T == Nat \ S
<1>1. IsWellFoundedOn(R, Nat)
  BY NatLessThanWellFounded
<1>2. ASSUME T # {} PROVE FALSE
  <2>1. T \subseteq Nat
    OBVIOUS
  <2> HIDE DEF R, T
  <2>2. PICK x \in T : \A y \in T : ~(<<y, x>> \in R)
    BY <1>1, <1>2, <2>1, WFMin
  <2>3. x \in Nat /\ x # 0 /\ x - 1 \in Nat /\ x - 1 + 1 = x
    BY <2>2 DEF T
  <2>4. x - 1 \in T
    BY <2>2, <2>3 DEF T
  <2>5. <<x - 1, x>> \in R
    BY <2>3 DEF R, OpToRel
  <2> QED
    BY <2>2, <2>4, <2>5
<1> QED
  BY <1>2

(* The recursion that the fold of a sum is defined by.                      *)
Choice(s) == CHOOSE x \in s : TRUE
Recurs(f, g, s) == g[s] = IF s = {} THEN 0 ELSE f[Choice(s)] + g[s \ {Choice(s)}]
Sums(f, S, g) ==
  g = [s \in SUBSET S |-> IF s = {} THEN 0 ELSE f[Choice(s)] + g[s \ {Choice(s)}]]

Total(f, S) == SumFunctionOnSet(f, S)

(* The library's fold is the value of such a solution.                      *)
LEMMA TotalUnfolds ==
  ASSUME NEW f, NEW S
  PROVE  Total(f, S) = (CHOOSE g : Sums(f, S, g))[S]
BY DEF Total, SumFunctionOnSet, FoldFunctionOnSet, MapThenFoldSet, Sums, Choice

(* A nonempty set has its choice, and is smaller without it.                *)
LEMMA ChoiceTaken ==
  ASSUME NEW s, IsFiniteSet(s), s # {}
  PROVE  /\ Choice(s) \in s
         /\ IsFiniteSet(s \ {Choice(s)})
         /\ Cardinality(s \ {Choice(s)}) = Cardinality(s) - 1
         /\ Cardinality(s) \in Nat \ {0}
<1>1. Choice(s) \in s
  BY DEF Choice
<1>2. Cardinality(s) \in Nat /\ Cardinality(s) # 0
  BY FS_CardinalityType, FS_EmptySet
<1> HIDE DEF Choice
<1> QED
  BY <1>1, <1>2, FS_RemoveElement

Small(S, n) == {s \in SUBSET S : Cardinality(s) <= n}

(* The recursion has a solution, whose values are numbers.                  *)
LEMMA SumsExists ==
  ASSUME NEW S, IsFiniteSet(S), NEW f, \A x \in S : f[x] \in Nat
  PROVE  \E g \in [SUBSET S -> Nat] : Sums(f, S, g)
<1> DEFINE Solved == {n \in Nat : \E g \in [Small(S, n) -> Nat] :
                                    \A s \in Small(S, n) : Recurs(f, g, s)}
<1>1. \A s \in SUBSET S : IsFiniteSet(s) /\ Cardinality(s) \in Nat
                          /\ Cardinality(s) <= Cardinality(S)
  BY FS_Subset, FS_CardinalityType
<1>2. 0 \in Solved
  <2> DEFINE g == [s \in Small(S, 0) |-> 0]
  <2>1. \A s \in Small(S, 0) : s = {}
    BY <1>1, FS_EmptySet DEF Small
  <2>2. g \in [Small(S, 0) -> Nat] /\ \A s \in Small(S, 0) : Recurs(f, g, s)
    BY <2>1 DEF Recurs
  <2> QED
    BY <2>2
<1>3. ASSUME NEW n \in Nat, n \in Solved PROVE n + 1 \in Solved
  <2>1. PICK g \in [Small(S, n) -> Nat] : \A s \in Small(S, n) : Recurs(f, g, s)
    BY <1>3
  <2> DEFINE next == [s \in Small(S, n + 1) |->
                        IF s = {} THEN 0 ELSE f[Choice(s)] + g[s \ {Choice(s)}]]
  <2>2. \A s \in Small(S, n + 1) : s # {} => /\ s \ {Choice(s)} \in Small(S, n)
                                             /\ Choice(s) \in S
    <3> SUFFICES ASSUME NEW s \in Small(S, n + 1), s # {}
                 PROVE  s \ {Choice(s)} \in Small(S, n) /\ Choice(s) \in S
      OBVIOUS
    <3>1. s \in SUBSET S /\ IsFiniteSet(s) /\ Cardinality(s) \in Nat /\ Cardinality(s) <= n + 1
      BY <1>1 DEF Small
    <3>2. /\ Choice(s) \in s
          /\ Cardinality(s \ {Choice(s)}) = Cardinality(s) - 1
      BY <3>1, ChoiceTaken
    <3>3. Cardinality(s \ {Choice(s)}) <= n
      BY <3>1, <3>2
    <3> QED
      BY <3>1, <3>2, <3>3 DEF Small
  <2>3. next \in [Small(S, n + 1) -> Nat]
    BY <2>1, <2>2
  <2>4. Small(S, n) \subseteq Small(S, n + 1)
    BY <1>1 DEF Small
  <2>5. \A s \in Small(S, n) : next[s] = g[s]
    BY <2>1, <2>4 DEF Recurs
  <2>6. \A s \in Small(S, n + 1) : Recurs(f, next, s)
    <3> SUFFICES ASSUME NEW s \in Small(S, n + 1) PROVE Recurs(f, next, s)
      OBVIOUS
    <3>1. next[s] = IF s = {} THEN 0 ELSE f[Choice(s)] + g[s \ {Choice(s)}]
      OBVIOUS
    <3>2. s # {} => next[s \ {Choice(s)}] = g[s \ {Choice(s)}]
      BY <2>2, <2>5
    <3> HIDE DEF next
    <3> QED
      BY <3>1, <3>2 DEF Recurs
  <2> HIDE DEF next
  <2> QED
    BY <2>3, <2>6
<1>4. Nat \subseteq Solved
  <2> HIDE DEF Solved
  <2> QED
    BY <1>2, <1>3, SetInduction
<1>5. Cardinality(S) \in Solved
  BY <1>1, <1>4
<1>6. Small(S, Cardinality(S)) = SUBSET S
  BY <1>1 DEF Small
<1>7. PICK g \in [SUBSET S -> Nat] : \A s \in SUBSET S : Recurs(f, g, s)
  BY <1>5, <1>6
<1>8. Sums(f, S, g)
  BY <1>7 DEF Recurs, Sums
<1> QED
  BY <1>7, <1>8

(* Where two solutions are both defined, and for the same terms, they       *)
(* agree.                                                                   *)
LEMMA SumsAgree ==
  ASSUME NEW S, NEW T, NEW f, NEW e, NEW g, NEW h, Sums(f, S, g), Sums(e, T, h),
         NEW U, IsFiniteSet(U), U \subseteq S, U \subseteq T, \A x \in U : f[x] = e[x]
  PROVE  g[U] = h[U]
<1> DEFINE Same == {n \in Nat : \A s \in SUBSET U : Cardinality(s) <= n => g[s] = h[s]}
<1>1. \A s \in SUBSET U : IsFiniteSet(s) /\ Cardinality(s) \in Nat
  BY FS_Subset, FS_CardinalityType
<1>2. \A s \in SUBSET U : Recurs(f, g, s) /\ Recurs(e, h, s)
  BY DEF Sums, Recurs
<1>3. 0 \in Same
  <2>1. \A s \in SUBSET U : Cardinality(s) <= 0 => s = {}
    BY <1>1, FS_EmptySet
  <2> QED
    BY <1>2, <2>1 DEF Recurs
<1>4. ASSUME NEW n \in Nat, n \in Same PROVE n + 1 \in Same
  <2> SUFFICES ASSUME NEW s \in SUBSET U, Cardinality(s) <= n + 1 PROVE g[s] = h[s]
    OBVIOUS
  <2>1. CASE s = {}
    BY <1>2, <2>1 DEF Recurs
  <2>2. CASE s # {}
    <3>1. /\ Choice(s) \in U
          /\ s \ {Choice(s)} \in SUBSET U
          /\ Cardinality(s \ {Choice(s)}) <= n
      BY <1>1, <2>2, ChoiceTaken
    <3>2. g[s \ {Choice(s)}] = h[s \ {Choice(s)}]
      BY <1>4, <3>1
    <3> QED
      BY <1>2, <2>2, <3>1, <3>2 DEF Recurs
  <2> QED
    BY <2>1, <2>2
<1>5. Nat \subseteq Same
  <2> HIDE DEF Same
  <2> QED
    BY <1>3, <1>4, SetInduction
<1>6. Cardinality(U) \in Same
  BY <1>1, <1>5
<1> QED
  BY <1>1, <1>6

(* In a solution any element may be taken first.                            *)
LEMMA SumsInAnyOrder ==
  ASSUME NEW S, IsFiniteSet(S), NEW f, \A x \in S : f[x] \in Nat,
         NEW g \in [SUBSET S -> Nat], Sums(f, S, g), NEW x \in S
  PROVE  g[S] = f[x] + g[S \ {x}]
<1> DEFINE Free1 == {n \in Nat : \A s \in SUBSET S : Cardinality(s) <= n =>
                                   \A z \in s : g[s] = f[z] + g[s \ {z}]}
<1>1. \A s \in SUBSET S : IsFiniteSet(s) /\ Cardinality(s) \in Nat
  BY FS_Subset, FS_CardinalityType
<1>2. \A s \in SUBSET S : Recurs(f, g, s)
  BY DEF Sums, Recurs
<1>3. 0 \in Free1
  <2>1. \A s \in SUBSET S : Cardinality(s) <= 0 => s = {}
    BY <1>1, FS_EmptySet
  <2> QED
    BY <2>1
<1>4. ASSUME NEW n \in Nat, n \in Free1 PROVE n + 1 \in Free1
  <2> SUFFICES ASSUME NEW s \in SUBSET S, Cardinality(s) <= n + 1, NEW y \in s
               PROVE  g[s] = f[y] + g[s \ {y}]
    OBVIOUS
  <2> DEFINE c == Choice(s)
  <2>1. /\ c \in s
        /\ s \ {c} \in SUBSET S
        /\ Cardinality(s \ {c}) <= n
    BY <1>1, ChoiceTaken
  <2>2. g[s] = f[c] + g[s \ {c}]
    BY <1>2 DEF Recurs
  <2> HIDE DEF c
  <2>3. CASE y = c
    BY <2>2, <2>3
  <2>4. CASE y # c
    <3>1. g[s \ {c}] = f[y] + g[(s \ {c}) \ {y}]
      BY <1>4, <2>1, <2>4
    <3>2. /\ s \ {y} \in SUBSET S /\ c \in s \ {y}
          /\ Cardinality(s \ {y}) <= n
      <4>1. Cardinality(s \ {y}) = Cardinality(s) - 1
        BY <1>1, FS_RemoveElement
      <4> QED
        BY <1>1, <2>1, <2>4, <4>1
    <3>3. g[s \ {y}] = f[c] + g[(s \ {y}) \ {c}]
      BY <1>4, <3>2
    <3> DEFINE both == (s \ {c}) \ {y}
    <3>4. (s \ {y}) \ {c} = both /\ both \in SUBSET S
      OBVIOUS
    <3>5. f[y] \in Nat /\ f[c] \in Nat /\ g[both] \in Nat
      BY <2>1, <3>4
    <3>6. g[s \ {c}] = f[y] + g[both] /\ g[s \ {y}] = f[c] + g[both]
      BY <3>1, <3>3, <3>4
    <3> HIDE DEF both
    <3> QED
      BY <2>2, <3>5, <3>6
  <2> QED
    BY <2>3, <2>4
<1>5. Nat \subseteq Free1
  <2> HIDE DEF Free1
  <2> QED
    BY <1>3, <1>4, SetInduction
<1>6. IsFiniteSet(S) /\ Cardinality(S) \in Free1
  BY <1>1, <1>5
<1> QED
  BY <1>1, <1>6

(* What a sum is: nothing for no terms, otherwise any term and the rest.    *)
LEMMA TotalOf ==
  ASSUME NEW S, IsFiniteSet(S), NEW f, \A x \in S : f[x] \in Nat
  PROVE  /\ Total(f, S) \in Nat
         /\ S = {} => Total(f, S) = 0
         /\ \A x \in S : Total(f, S) = f[x] + Total(f, S \ {x})
<1>1. PICK g \in [SUBSET S -> Nat] : Sums(f, S, g)
  BY SumsExists
<1>2. ASSUME NEW T \in SUBSET S PROVE Total(f, T) = g[T]
  <2>1. IsFiniteSet(T) /\ \A x \in T : f[x] \in Nat
    BY FS_Subset
  <2>2. \E z : Sums(f, T, z)
    BY <2>1, SumsExists
  <2> DEFINE h == CHOOSE z : Sums(f, T, z)
  <2>3. Sums(f, T, h)
    BY <2>2
  <2>4. Total(f, T) = h[T]
    BY TotalUnfolds
  <2> HIDE DEF h
  <2>5. g[T] = h[T]
    BY <1>1, <2>1, <2>3, SumsAgree
  <2> QED
    BY <2>4, <2>5
<1>3. \A x \in S : g[S] = f[x] + g[S \ {x}]
  BY <1>1, SumsInAnyOrder
<1>4. S = {} => g[S] = 0
  BY <1>1 DEF Sums
<1> QED
  BY <1>1, <1>2, <1>3, <1>4

(* Equal terms have equal sums.                                             *)
LEMMA TotalEqual ==
  ASSUME NEW S, IsFiniteSet(S), NEW f, NEW e, \A x \in S : f[x] \in Nat /\ e[x] = f[x]
  PROVE  Total(f, S) = Total(e, S)
<1>1. \A x \in S : f[x] \in Nat /\ e[x] \in Nat /\ f[x] = e[x]
  OBVIOUS
<1>2. (\E z : Sums(f, S, z)) /\ (\E z : Sums(e, S, z))
  BY <1>1, SumsExists
<1> DEFINE g == CHOOSE z : Sums(f, S, z)
           h == CHOOSE z : Sums(e, S, z)
<1>3. Sums(f, S, g) /\ Sums(e, S, h)
  BY <1>2
<1>4. Total(f, S) = g[S] /\ Total(e, S) = h[S]
  BY TotalUnfolds
<1> HIDE DEF g, h
<1>5. g[S] = h[S]
  BY <1>1, <1>3, SumsAgree
<1> QED
  BY <1>4, <1>5

(* The sum over the first numbers grows term by term.                       *)
LEMMA TotalNext ==
  ASSUME NEW f, NEW n \in Nat, \A x \in 1..n : f[x] \in Nat
  PROVE  /\ Total(f, 1..n) \in Nat
         /\ n = 0 => Total(f, 1..n) = 0
         /\ n # 0 => Total(f, 1..n) = Total(f, 1..(n - 1)) + f[n]
<1> DEFINE S == 1..n
<1>1. IsFiniteSet(S)
  BY FS_Interval
<1>2. n # 0 => n \in S /\ S \ {n} = 1..(n - 1)
  OBVIOUS
<1>3. n = 0 => S = {}
  OBVIOUS
<1>4. \A x \in S : f[x] \in Nat
  OBVIOUS
<1> HIDE DEF S
<1>5. /\ Total(f, S) \in Nat
      /\ S = {} => Total(f, S) = 0
      /\ \A x \in S : Total(f, S) = f[x] + Total(f, S \ {x})
  BY <1>1, <1>4, TotalOf
<1>6. ASSUME n # 0 PROVE Total(f, 1..(n - 1)) \in Nat /\ Total(f, S) = f[n] + Total(f, 1..(n - 1)) /\ f[n] \in Nat
  <2>1. IsFiniteSet(S \ {n}) /\ \A x \in S \ {n} : f[x] \in Nat
    BY <1>1, <1>4, FS_RemoveElement
  <2>2. Total(f, S \ {n}) \in Nat
    BY <2>1, TotalOf
  <2> QED
    BY <1>2, <1>4, <1>5, <1>6, <2>2
<1> DEFINE t == Total(f, S)
           r == Total(f, 1..(n - 1))
<1>7. t \in Nat /\ (n = 0 => t = 0)
  BY <1>3, <1>5
<1>8. n # 0 => r \in Nat /\ t = f[n] + r /\ f[n] \in Nat
  BY <1>6
<1>9. n # 0 => t = r + f[n]
  <2> HIDE DEF t, r
  <2> QED
    BY <1>8
<1> QED
  BY <1>7, <1>9 DEF S

(* It never shrinks.                                                        *)
LEMMA TotalGrows ==
  ASSUME NEW f, NEW n \in Nat, \A x \in 1..n : f[x] \in Nat, NEW m \in 0..n
  PROVE  Total(f, 1..m) <= Total(f, 1..n)
<1> DEFINE Grown == {k \in Nat : m + k <= n => Total(f, 1..m) <= Total(f, 1..(m + k))}
<1>1. \A k \in 0..n : Total(f, 1..k) \in Nat
  <2> TAKE k \in 0..n
  <2>1. \A x \in 1..k : f[x] \in Nat
    OBVIOUS
  <2> QED
    BY <2>1, TotalNext
<1>2. 0 \in Grown
  <2>1. Total(f, 1..m) \in Nat /\ m + 0 = m
    BY <1>1
  <2> QED
    BY <2>1
<1>3. ASSUME NEW k \in Nat, k \in Grown PROVE k + 1 \in Grown
  <2> SUFFICES ASSUME m + (k + 1) <= n PROVE Total(f, 1..m) <= Total(f, 1..(m + (k + 1)))
    OBVIOUS
  <2> DEFINE j == m + (k + 1)
  <2>1. j \in 1..n /\ j - 1 = m + k /\ m + k <= n /\ m + k \in 0..n
    OBVIOUS
  <2>2. \A x \in 1..j : f[x] \in Nat
    BY <2>1
  <2>3. Total(f, 1..j) = Total(f, 1..(j - 1)) + f[j]
    BY <2>1, <2>2, TotalNext
  <2>4. /\ Total(f, 1..m) <= Total(f, 1..(m + k))
        /\ Total(f, 1..m) \in Nat /\ Total(f, 1..(m + k)) \in Nat /\ f[j] \in Nat
    BY <1>1, <1>3, <2>1, <2>2
  <2>5. Total(f, 1..j) = Total(f, 1..(m + k)) + f[j]
    BY <2>1, <2>3
  <2> DEFINE a == Total(f, 1..m)
             b == Total(f, 1..(m + k))
             c == Total(f, 1..j)
  <2>6. a <= b /\ a \in Nat /\ b \in Nat /\ c = b + f[j] /\ f[j] \in Nat
    BY <2>4, <2>5
  <2>7. a <= c
    <3> HIDE DEF a, b, c, j
    <3> QED
      BY <2>6
  <2> QED
    BY <2>7
<1>4. Nat \subseteq Grown
  <2> HIDE DEF Grown
  <2> QED
    BY <1>2, <1>3, SetInduction
<1>5. n - m \in Grown /\ m + (n - m) = n
  BY <1>4
<1> QED
  BY <1>5

-----------------------------------------------------------------------------
(* Layouts and positions                                                    *)

(* What a layout looks like.                                                *)
LEMMA LayoutFacts ==
  ASSUME NEW l \in Layouts
  PROVE  /\ Len(l) \in Nat \ {0} /\ Len(l) < SlotMod /\ DOMAIN l = 1..Len(l)
         /\ \A i \in DOMAIN l : l[i] \in Kind
         /\ \A i \in DOMAIN l : l[i] = "array" => i - 1 \in DOMAIN l /\ l[i - 1] = "count"
         /\ \A i \in DOMAIN l : l[i] = "count" => i + 1 \in DOMAIN l /\ l[i + 1] = "array"
         /\ l[Len(l)] # "count"
<1>1. WellFormed(l) /\ Len(l) < SlotMod
  BY SerializationAssumption DEF Fits
<1>2. l \in Seq(Kind) /\ l # <<>> /\ l[Len(l)] # "count"
  BY <1>1 DEF WellFormed
<1>3. Len(l) \in Nat \ {0} /\ DOMAIN l = 1..Len(l) /\ \A i \in DOMAIN l : l[i] \in Kind
  <2>1. Len(l) \in Nat /\ DOMAIN l = 1..Len(l) /\ \A i \in DOMAIN l : l[i] \in Kind
    BY <1>2
  <2>2. Len(l) # 0
    BY <1>2, EmptySeq
  <2> QED
    BY <2>1, <2>2
<1>4. \A i \in DOMAIN l : l[i] = "array" <=> i > 1 /\ l[i - 1] = "count"
  BY <1>1 DEF WellFormed
<1>5. \A i \in DOMAIN l : l[i] = "array" => i - 1 \in DOMAIN l /\ l[i - 1] = "count"
  BY <1>3, <1>4
<1>6. ASSUME NEW i \in DOMAIN l, l[i] = "count"
      PROVE  i + 1 \in DOMAIN l /\ l[i + 1] = "array"
  <2>1. i # Len(l)
    BY <1>2, <1>6
  <2>2. i \in Nat /\ i >= 1 /\ i <= Len(l)
    BY <1>3
  <2>3. i + 1 \in DOMAIN l /\ i + 1 > 1 /\ (i + 1) - 1 = i
    BY <1>3, <2>1, <2>2
  <2> QED
    BY <1>4, <1>6, <2>3
<1> QED
  BY <1>1, <1>2, <1>3, <1>5, <1>6

(* The counts of an object are numbers.                                     *)
Counted(h, l, p) == \A i \in Pointers(l) : Count(h, p, i) \in Nat

Sizes(h, l, p) == [i \in DOMAIN l |-> FieldWords(h, l, p, i)]

(* The words a field takes in the buffer, where a count is written with its *)
(* array, and the word the field begins at.                                 *)
Widths(h, l, p) ==
  [i \in DOMAIN l |-> IF l[i] = "count" THEN 0
                      ELSE IF l[i] = "array" THEN 1 + Slots(Count(h, p, i)) ELSE 1]

Begin(h, l, p, i) == 1 + Total(Widths(h, l, p), 1..(i - 1))

(* A size in words is less than what a size_t spans.                        *)
LEMMA SlotsType ==
  ASSUME NEW n \in Nat
  PROVE  Slots(n) \in 0..(SlotMod - 1) /\ (n < SlotMod => Slots(n) = n)
BY HeapAssumption DEF Slots

(* Sizes and widths are numbers.                                            *)
LEMMA WidthsType ==
  ASSUME NEW h, NEW l \in Layouts, NEW p, Counted(h, l, p)
  PROVE  /\ Widths(h, l, p) \in [1..Len(l) -> Nat]
         /\ Sizes(h, l, p) \in [1..Len(l) -> Nat]
<1>1. DOMAIN l = 1..Len(l)
  BY LayoutFacts
<1>2. \A i \in DOMAIN l : l[i] = "array" => Slots(Count(h, p, i)) \in Nat
  BY SlotsType DEF Counted, Pointers
<1> QED
  BY <1>1, <1>2 DEF Widths, Sizes, FieldWords

(* The fields of an object lie one behind the other.                        *)
LEMMA BeginNext ==
  ASSUME NEW h, NEW l \in Layouts, NEW p, Counted(h, l, p)
  PROVE  /\ Begin(h, l, p, 1) = 1
         /\ \A i \in 1..(Len(l) + 1) : Begin(h, l, p, i) \in Nat \ {0}
         /\ \A i \in DOMAIN l : Begin(h, l, p, i + 1) = Begin(h, l, p, i) + Widths(h, l, p)[i]
         /\ \A i \in 1..(Len(l) + 1), j \in 1..(Len(l) + 1) :
              i <= j => Begin(h, l, p, i) <= Begin(h, l, p, j)
<1> DEFINE w == Widths(h, l, p)
           n == Len(l)
<1>1. w \in [1..n -> Nat] /\ n \in Nat /\ DOMAIN l = 1..n
  BY WidthsType, LayoutFacts
<1> HIDE DEF w, n
<1>2. \A i \in 1..(n + 1) : i - 1 \in 0..n /\ Total(w, 1..(i - 1)) \in Nat
  <2> TAKE i \in 1..(n + 1)
  <2>1. i - 1 \in Nat /\ i - 1 \in 0..n /\ \A x \in 1..(i - 1) : w[x] \in Nat
    BY <1>1
  <2> QED
    BY <2>1, TotalNext
<1>3. Begin(h, l, p, 1) = 1
  <2>1. 1 \in 1..(n + 1) /\ 1 - 1 = 0 /\ \A x \in 1..0 : w[x] \in Nat
    BY <1>1
  <2>2. Total(w, 1..0) = 0
    BY <2>1, TotalNext
  <2> QED
    BY <2>1, <2>2 DEF Begin, w
<1>4. \A i \in 1..(n + 1) : Begin(h, l, p, i) \in Nat \ {0}
  BY <1>2 DEF Begin, w
<1>5. ASSUME NEW i \in 1..n PROVE Begin(h, l, p, i + 1) = Begin(h, l, p, i) + w[i]
  <2>1. i \in Nat /\ i # 0 /\ (i + 1) - 1 = i /\ \A x \in 1..i : w[x] \in Nat
    BY <1>1
  <2>2. Total(w, 1..i) = Total(w, 1..(i - 1)) + w[i]
    BY <2>1, TotalNext
  <2>3. Total(w, 1..(i - 1)) \in Nat /\ w[i] \in Nat
    BY <1>1, <1>2
  <2> DEFINE a == Total(w, 1..(i - 1))
  <2>4. Begin(h, l, p, i + 1) = 1 + (a + w[i]) /\ Begin(h, l, p, i) = 1 + a
    BY <2>1, <2>2 DEF Begin, w
  <2>5. a \in Nat
    BY <2>3
  <2> HIDE DEF a
  <2> QED
    BY <2>3, <2>4, <2>5
<1>6. ASSUME NEW i \in 1..(n + 1), NEW j \in 1..(n + 1), i <= j
      PROVE  Begin(h, l, p, i) <= Begin(h, l, p, j)
  <2>1. j - 1 \in Nat /\ i - 1 \in 0..(j - 1) /\ \A x \in 1..(j - 1) : w[x] \in Nat
    BY <1>1, <1>6
  <2>2. Total(w, 1..(i - 1)) <= Total(w, 1..(j - 1))
    BY <2>1, TotalGrows
  <2>3. Total(w, 1..(i - 1)) \in Nat /\ Total(w, 1..(j - 1)) \in Nat
    BY <1>2
  <2> QED
    BY <2>2, <2>3 DEF Begin, w
<1> QED
  BY <1>1, <1>3, <1>4, <1>5, <1>6 DEF w, n

(* What the struct function adds up is where the last field ends: the       *)
(* counts it sees on their own are the words the arrays write them to.      *)
LEMMA SizeIsEnd ==
  ASSUME NEW h, NEW l \in Layouts, NEW p, Counted(h, l, p)
  PROVE  1 + SumFunction(Sizes(h, l, p)) = Begin(h, l, p, Len(l) + 1)
<1> DEFINE w == Widths(h, l, p)
           s == Sizes(h, l, p)
           n == Len(l)
           Pending(i) == IF i > 0 /\ l[i] = "count" THEN 1 ELSE 0
<1>1. /\ w \in [1..n -> Nat] /\ s \in [1..n -> Nat]
      /\ n \in Nat \ {0} /\ DOMAIN l = 1..n /\ l[n] # "count"
      /\ \A i \in DOMAIN l : l[i] \in Kind
      /\ \A i \in DOMAIN l : l[i] = "array" => i - 1 \in DOMAIN l /\ l[i - 1] = "count"
      /\ \A i \in DOMAIN l : l[i] = "count" => i + 1 \in DOMAIN l /\ l[i + 1] = "array"
  BY WidthsType, LayoutFacts
<1>2. \A i \in 1..n : s[i] = w[i] + Pending(i) - Pending(i - 1)
  <2> SUFFICES ASSUME NEW i \in 1..n PROVE s[i] = w[i] + Pending(i) - Pending(i - 1)
    OBVIOUS
  <2>1. CASE l[i] = "count"
    <3>1. i - 1 > 0 => l[i - 1] # "count"
      <4> SUFFICES ASSUME i - 1 > 0, l[i - 1] = "count" PROVE FALSE
        OBVIOUS
      <4>1. i - 1 \in 1..n /\ (i - 1) + 1 = i
        OBVIOUS
      <4> QED
        BY <1>1, <2>1, <4>1
    <3>2. s[i] = 1 /\ w[i] = 0
      BY <1>1, <2>1 DEF Sizes, Widths, FieldWords
    <3>3. Pending(i) = 1 /\ Pending(i - 1) = 0
      BY <2>1, <3>1
    <3> QED
      BY <3>2, <3>3
  <2>2. CASE l[i] = "array"
    <3>1. i - 1 \in 1..n /\ l[i - 1] = "count"
      BY <1>1, <2>2
    <3>2. s[i] = Slots(Count(h, p, i)) /\ w[i] = 1 + Slots(Count(h, p, i)) /\ s[i] \in Nat
      BY <1>1, <2>2 DEF Sizes, Widths, FieldWords
    <3>3. Pending(i) = 0 /\ Pending(i - 1) = 1
      BY <2>2, <3>1
    <3> QED
      BY <3>2, <3>3
  <2>3. CASE l[i] = "scalar"
    <3>1. i - 1 > 0 => l[i - 1] # "count"
      <4> SUFFICES ASSUME i - 1 > 0, l[i - 1] = "count" PROVE FALSE
        OBVIOUS
      <4>1. i - 1 \in 1..n /\ (i - 1) + 1 = i
        OBVIOUS
      <4> QED
        BY <1>1, <2>3, <4>1
    <3>2. s[i] = 1 /\ w[i] = 1
      BY <1>1, <2>3 DEF Sizes, Widths, FieldWords
    <3>3. Pending(i) = 0 /\ Pending(i - 1) = 0
      BY <2>3, <3>1
    <3> QED
      BY <3>2, <3>3
  <2> QED
    BY <1>1, <2>1, <2>2, <2>3 DEF Kind
<1> DEFINE Even == {i \in Nat : i <= n => Total(s, 1..i) = Total(w, 1..i) + Pending(i)}
<1> HIDE DEF w, s, n
<1>3. 0 \in Even
  <2>1. (\A x \in 1..0 : s[x] \in Nat) /\ (\A x \in 1..0 : w[x] \in Nat)
    OBVIOUS
  <2>2. Total(s, 1..0) = 0 /\ Total(w, 1..0) = 0
    BY <2>1, TotalNext
  <2> QED
    BY <2>2
<1>4. ASSUME NEW i \in Nat, i \in Even PROVE i + 1 \in Even
  <2> SUFFICES ASSUME i + 1 <= n
               PROVE  Total(s, 1..(i + 1)) = Total(w, 1..(i + 1)) + Pending(i + 1)
    OBVIOUS
  <2> DEFINE k == i + 1
  <2>1. k \in 1..n /\ k \in Nat /\ k # 0 /\ k - 1 = i /\ i <= n
    BY <1>1
  <2> HIDE DEF k
  <2>2. (\A x \in 1..k : s[x] \in Nat) /\ (\A x \in 1..k : w[x] \in Nat)
    BY <1>1, <2>1
  <2>3. Total(s, 1..k) = Total(s, 1..(k - 1)) + s[k] /\ Total(w, 1..k) = Total(w, 1..(k - 1)) + w[k]
    BY <2>1, <2>2, TotalNext
  <2>4. Total(s, 1..i) = Total(w, 1..i) + Pending(i)
    BY <1>4, <2>1
  <2>5. (\A x \in 1..i : s[x] \in Nat) /\ (\A x \in 1..i : w[x] \in Nat)
    BY <1>1, <2>1
  <2>6. Total(s, 1..i) \in Nat /\ Total(w, 1..i) \in Nat
    BY <2>5, TotalNext
  <2>7. s[k] = w[k] + Pending(k) - Pending(k - 1) /\ s[k] \in Nat /\ w[k] \in Nat
    BY <1>1, <1>2, <2>1
  <2>8. Pending(k) \in Nat /\ Pending(i) \in Nat
    OBVIOUS
  <2> DEFINE a == Total(s, 1..i)
             b == Total(w, 1..i)
             c == Pending(i)
             d == Pending(k)
  <2>9. /\ a = b + c /\ a \in Nat /\ b \in Nat /\ c \in Nat /\ d \in Nat
        /\ s[k] = w[k] + d - c /\ s[k] \in Nat /\ w[k] \in Nat
        /\ Total(s, 1..k) = a + s[k] /\ Total(w, 1..k) = b + w[k]
    BY <2>1, <2>3, <2>4, <2>6, <2>7, <2>8
  <2>10. Total(s, 1..k) = Total(w, 1..k) + d
    <3> HIDE DEF a, b, c, d
    <3> QED
      BY <2>9
  <2> QED
    BY <2>10 DEF k
<1>5. Nat \subseteq Even
  <2> HIDE DEF Even
  <2> QED
    BY <1>3, <1>4, SetInduction
<1>6. Total(s, 1..n) = Total(w, 1..n) + 0
  BY <1>1, <1>5
<1>7. Total(w, 1..n) \in Nat
  <2>1. \A x \in 1..n : w[x] \in Nat
    BY <1>1
  <2> QED
    BY <1>1, <2>1, TotalNext
<1>8. SumFunction(s) = Total(s, 1..n)
  BY <1>1 DEF SumFunction, Total
<1>9. Begin(h, l, p, n + 1) = 1 + Total(w, 1..n)
  BY <1>1 DEF Begin, w
<1> QED
  BY <1>6, <1>7, <1>8, <1>9 DEF s, n

-----------------------------------------------------------------------------
(* Moving words                                                             *)

Words(m) == [0..(m - 1) -> Cell]

(* A block of words is not freed.                                           *)
LEMMA WordsLive ==
  ASSUME NEW m \in 0..(SlotMod - 1), NEW b \in Words(m)
  PROVE  b \in Block /\ b # Freed /\ DOMAIN b = 0..(m - 1)
BY BlockIntro, FreedIsNoBlock DEF Words

(* A word stored within a block is found there, and nothing else changes.   *)
LEMMA PutOutcome ==
  ASSUME NEW h \in HeapType, NEW p \in Addr, NEW m \in 0..(SlotMod - 1), h[p] \in Words(m),
         NEW i \in 0..(m - 1), NEW w \in Cell
  PROVE  /\ Put(h, p, i, w) \in HeapType
         /\ \A a \in Addr \ {p} : Put(h, p, i, w)[a] = h[a]
         /\ Put(h, p, i, w)[p] \in Words(m)
         /\ Put(h, p, i, w)[p][i] = w
         /\ \A k \in 0..(m - 1) : k # i => Put(h, p, i, w)[p][k] = h[p][k]
         /\ AccessFault(h, p, i, 1) = "none"
<1> DEFINE new == [k \in 0..(m - 1) |-> IF k = i THEN w ELSE h[p][k]]
<1>1. h[p] # Freed /\ DOMAIN h[p] = 0..(m - 1) /\ m \in Nat /\ i \in Nat /\ i + 1 <= m
  BY WordsLive, HeapAssumption
<1>2. AccessFault(h, p, i, 1) = "none"
  BY <1>1, AccessInBlock
<1> DEFINE src == [k \in {0} |-> w]
           old == [k \in DOMAIN h[p] |-> IF k \in i..(i + 1 - 1) THEN src[k - i] ELSE h[p][k]]
<1>3. old = new
  BY <1>1
<1>4. Put(h, p, i, w) = [h EXCEPT ![p] = new]
  <2>1. Put(h, p, i, w) = CopyIn(h, p, i, 1, src)
    BY DEF Put
  <2> HIDE DEF src, new
  <2>2. CopyIn(h, p, i, 1, src) = [h EXCEPT ![p] = old]
    <3>1. 1 # 0
      OBVIOUS
    <3> QED
      BY <1>2, <3>1, Zenon DEF CopyIn
  <2> QED
    BY <1>3, <2>1, <2>2
<1>5. new \in Words(m)
  BY DEF Words
<1>6. new \in Block
  BY <1>5, WordsLive
<1>7. new[i] = w /\ \A k \in 0..(m - 1) : k # i => new[k] = h[p][k]
  OBVIOUS
<1> HIDE DEF new
<1> QED
  BY <1>2, <1>4, <1>5, <1>6, <1>7 DEF HeapType

(* Words moved into a block are found there, unless moving them faults, and *)
(* nothing else changes.                                                    *)
Moved(h, g, p, m, i, q, j, n) ==
  /\ g \in HeapType
  /\ \A a \in Addr \ {p} : g[a] = h[a]
  /\ g[p] \in Words(m)
  /\ \A k \in 0..(m - 1) : k \notin i..(i + n - 1) => g[p][k] = h[p][k]
  /\ MoveFault(h, p, i, q, j, n) = "none" => \A k \in 0..(n - 1) : g[p][i + k] = h[q][j + k]

(* That is what the model's Move does.                                      *)
LEMMA MoveOutcome ==
  ASSUME NEW h \in HeapType, NEW p \in Addr, NEW m \in 0..(SlotMod - 1), h[p] \in Words(m),
         NEW i \in Nat, NEW q \in Addr \cup {Null}, NEW j \in Nat, NEW n \in Nat
  PROVE  Moved(h, Move(h, p, i, q, j, n), p, m, i, q, j, n)
<1>1. CASE n = 0 \/ MoveFault(h, p, i, q, j, n) # "none"
  <2>1. Move(h, p, i, q, j, n) = h
    BY <1>1 DEF Move
  <2>2. MoveFault(h, p, i, q, j, n) = "none" => 0..(n - 1) = {}
    BY <1>1
  <2> QED
    BY <2>1, <2>2 DEF Moved
<1>2. CASE n # 0 /\ MoveFault(h, p, i, q, j, n) = "none"
  <2> DEFINE src == [k \in 0..(n - 1) |-> h[q][j + k]]
             new == [k \in 0..(m - 1) |-> IF k \in i..(i + n - 1) THEN src[k - i] ELSE h[p][k]]
  <2>1. AccessFault(h, q, j, n) = "none" /\ AccessFault(h, p, i, n) = "none"
    BY <1>2 DEF MoveFault
  <2>2. h[p] # Freed /\ DOMAIN h[p] = 0..(m - 1) /\ m \in Nat
    BY WordsLive, HeapAssumption
  <2>3. q \in Addr /\ h[q] # Freed /\ \A k \in j..(j + n - 1) : k \in DOMAIN h[q]
    BY <1>2, <2>1 DEF AccessFault
  <2>4. \A k \in i..(i + n - 1) : k \in 0..(m - 1)
    BY <1>2, <2>1, <2>2 DEF AccessFault
  <2>5. PICK mq \in 0..(SlotMod - 1) : h[q] \in [0..(mq - 1) -> Cell]
    BY <2>3, LiveIsBlock, BlockElim
  <2>6. \A k \in 0..(n - 1) : src[k] \in Cell
    <3> TAKE k \in 0..(n - 1)
    <3>1. j + k \in j..(j + n - 1)
      OBVIOUS
    <3>2. h[q][j + k] \in Cell
      BY <2>3, <2>5, <3>1
    <3> QED
      BY <3>2
  <2>7. Move(h, p, i, q, j, n) = [h EXCEPT ![p] = new]
    BY <1>2, <2>1, <2>2 DEF Move, CopyIn
  <2>8. new \in Words(m)
    <3>1. \A k \in 0..(m - 1) : k \in i..(i + n - 1) => k - i \in 0..(n - 1)
      OBVIOUS
    <3> HIDE DEF src
    <3> QED
      BY <2>6, <3>1 DEF Words
  <2>9. \A k \in 0..(n - 1) : new[i + k] = h[q][j + k]
    <3> TAKE k \in 0..(n - 1)
    <3>1. i + k \in i..(i + n - 1) /\ i + k - i = k
      OBVIOUS
    <3>2. i + k \in 0..(m - 1)
      BY <2>4, <3>1
    <3> QED
      BY <3>1, <3>2
  <2>10. \A k \in 0..(m - 1) : k \notin i..(i + n - 1) => new[k] = h[p][k]
    OBVIOUS
  <2>11. new \in Block
    BY <2>8, WordsLive
  <2> HIDE DEF new, src
  <2> QED
    BY <2>7, <2>8, <2>9, <2>10, <2>11 DEF HeapType, Moved
<1> QED
  BY <1>1, <1>2

(* Moving words from within one block to within another does not fault.     *)
LEMMA MoveFits ==
  ASSUME NEW h, NEW p \in Addr, NEW m \in 0..(SlotMod - 1), h[p] \in Words(m),
         NEW q \in Addr, NEW r \in 0..(SlotMod - 1), h[q] \in Words(r),
         NEW i \in Nat, NEW j \in Nat, NEW n \in Nat, i + n <= m, j + n <= r
  PROVE  MoveFault(h, p, i, q, j, n) = "none"
<1>1. h[p] # Freed /\ DOMAIN h[p] = 0..(m - 1) /\ m \in Nat
  BY WordsLive, HeapAssumption
<1>2. h[q] # Freed /\ DOMAIN h[q] = 0..(r - 1) /\ r \in Nat
  BY WordsLive, HeapAssumption
<1>3. AccessFault(h, p, i, n) = "none" /\ AccessFault(h, q, j, n) = "none"
  BY <1>1, <1>2, AccessInBlock
<1> QED
  BY <1>3 DEF MoveFault

-----------------------------------------------------------------------------
(* The client's object                                                      *)

(* An object as the accessors leave it: an array has no block and no        *)
(* elements, or a block of its elements.                                    *)
Object(h, l, p) ==
  /\ p \in Addr
  /\ h[p] \in Words(Len(l))
  /\ \A i \in DOMAIN l : l[i] = "scalar" => Field(h, p, i) \in Word
  /\ \A i \in Pointers(l) :
       /\ Count(h, p, i) \in ArrayLen \cup {0}
       /\ \/ Field(h, p, i) = Null /\ Count(h, p, i) = 0
          \/ Field(h, p, i) \in Addr /\ h[Field(h, p, i)] \in [0..(Count(h, p, i) - 1) -> Word]

Own(h, l, p) == {p} \cup ({Field(h, p, i) : i \in Pointers(l)} \ {Null})

(* Sizes of objects are those that were computed, without wrapping.         *)
LEMMA ObjectFacts ==
  ASSUME NEW h, NEW l \in Layouts, NEW p, Object(h, l, p)
  PROVE  /\ Counted(h, l, p)
         /\ \A i \in Pointers(l) : /\ Count(h, p, i) \in 0..(SlotMod - 1)
                                   /\ Slots(Count(h, p, i)) = Count(h, p, i)
         /\ AllocSize(h, l, p) = Begin(h, l, p, Len(l) + 1)
         /\ AllocSize(h, l, p) \in 1..(SlotMod - 1)
<1>1. \A i \in Pointers(l) : Count(h, p, i) \in 0..(SlotMod - 1)
  <2>1. \A i \in Pointers(l) : Count(h, p, i) \in ArrayLen \cup {0}
    BY DEF Object
  <2>2. ArrayLen \cup {0} \subseteq 0..(SlotMod - 1)
    BY SerializationAssumption, HeapAssumption
  <2> QED
    BY <2>1, <2>2
<1>2. Counted(h, l, p)
  BY <1>1, HeapAssumption DEF Counted
<1>3. \A i \in Pointers(l) : Slots(Count(h, p, i)) = Count(h, p, i)
  BY <1>1, SlotsType, HeapAssumption
<1>4. Sizes(h, l, p) \in [DOMAIN l -> ArrayLen \cup {0, 1}]
  BY <1>3 DEF Sizes, FieldWords, Object, Pointers
<1>5. \A i \in DOMAIN l \ Pointers(l) : Sizes(h, l, p)[i] = 1
  BY DEF Sizes, FieldWords, Pointers
<1>6. 1 + SumFunction(Sizes(h, l, p)) < SlotMod
  BY <1>4, <1>5, SerializationAssumption DEF Fits
<1>7. /\ 1 + SumFunction(Sizes(h, l, p)) = Begin(h, l, p, Len(l) + 1)
      /\ Begin(h, l, p, Len(l) + 1) \in Nat \ {0}
  <2>1. Len(l) + 1 \in 1..(Len(l) + 1)
    BY LayoutFacts
  <2> QED
    BY <1>2, <2>1, SizeIsEnd, BeginNext
<1>8. AllocSize(h, l, p) = Slots(Begin(h, l, p, Len(l) + 1))
  BY <1>7 DEF AllocSize, Sizes
<1>9. AllocSize(h, l, p) = Begin(h, l, p, Len(l) + 1)
  BY <1>6, <1>7, <1>8, SlotsType
<1> QED
  BY <1>1, <1>2, <1>3, <1>6, <1>7, <1>9, HeapAssumption

(* An object stays what it is as long as its blocks are not touched.        *)
LEMMA ObjectKept ==
  ASSUME NEW h, NEW l \in Layouts, NEW p, Object(h, l, p),
         NEW g, \A a \in Own(h, l, p) : g[a] = h[a]
  PROVE  /\ Object(g, l, p)
         /\ Own(g, l, p) = Own(h, l, p)
         /\ Widths(g, l, p) = Widths(h, l, p) /\ AllocSize(g, l, p) = AllocSize(h, l, p)
         /\ \A i \in DOMAIN l : Field(g, p, i) = Field(h, p, i)
         /\ \A i \in Pointers(l) :
              /\ Count(g, p, i) = Count(h, p, i)
              /\ Field(h, p, i) # Null => g[Field(h, p, i)] = h[Field(h, p, i)]
<1>1. g[p] = h[p]
  BY DEF Own
<1>2. \A i : Field(g, p, i) = Field(h, p, i) /\ Count(g, p, i) = Count(h, p, i)
  BY <1>1 DEF Field, Count
<1>3. Own(g, l, p) = Own(h, l, p)
  BY <1>2 DEF Own
<1>4. \A i \in Pointers(l) : Field(h, p, i) # Null => g[Field(h, p, i)] = h[Field(h, p, i)]
  BY DEF Own
<1>5. Widths(g, l, p) = Widths(h, l, p) /\ AllocSize(g, l, p) = AllocSize(h, l, p)
  BY <1>2 DEF Widths, AllocSize, FieldWords
<1>6. Object(g, l, p)
  BY <1>1, <1>2, <1>4, HeapAssumption DEF Object
<1> QED
  BY <1>2, <1>3, <1>4, <1>5, <1>6

-----------------------------------------------------------------------------
(* The invariant                                                            *)

(* The fields before n have been written to the block at b, each where it   *)
(* begins; every word before the next field is one that was written.        *)
Written(h, l, p, b, i) ==
  LET at == Begin(h, l, p, i) IN
  /\ l[i] = "scalar" => h[b][at] = Field(h, p, i)
  /\ l[i] = "array" =>
       /\ h[b][at] = Count(h, p, i)
       /\ \A k \in 0..(Count(h, p, i) - 1) : h[b][at + 1 + k] = h[Field(h, p, i)][k]

Filled(h, l, p, b, n) ==
  /\ b \in Addr
  /\ h[b] \in Words(AllocSize(h, l, p)) /\ h[b][0] = AllocSize(h, l, p)
  /\ \A k \in 0..(Begin(h, l, p, n) - 1) : h[b][k] \in Nat
  /\ \A i \in DOMAIN l : i < n => Written(h, l, p, b, i)

(* The fields before n have been read into the struct at c: an array has a  *)
(* block of its own or, if memory was short, a pointer no one stored.       *)
(* Unless it was, they hold what the object holds.                          *)
Parts(h, l, c, n) == {c} \cup ({Field(h, c, i) : i \in {j \in Pointers(l) : j < n}} \ {Uninit})

Same(h, l, p, c, i) ==
  /\ l[i] = "scalar" => Field(h, c, i) = Field(h, p, i)
  /\ l[i] = "array" =>
       /\ Count(h, c, i) = Count(h, p, i)
       /\ \A k \in 0..(Count(h, p, i) - 1) : h[Field(h, c, i)][k] = h[Field(h, p, i)][k]

Apart(h, l, c, n) ==
  \A i, j \in Pointers(l) :
    i < n /\ j < n /\ i # j /\ Field(h, c, i) # Uninit => Field(h, c, i) # Field(h, c, j)

Copied(h, l, p, c, n, lost) ==
  /\ c \in Addr /\ h[c] \in Words(Len(l))
  /\ \A i \in Pointers(l) : i < n => \/ Field(h, c, i) = Uninit /\ lost
                                     \/ Field(h, c, i) \in Addr \ {c} /\ h[Field(h, c, i)] # Freed
  /\ \A i \in Pointers(l) : i >= n => Field(h, c, i) = Uninit
  /\ Apart(h, l, c, n)
  /\ Parts(h, l, c, n) \cap Own(h, l, p) = {}
  /\ ~lost => \A i \in DOMAIN l : i < n => Same(h, l, p, c, i)

Types ==
  /\ heap \in HeapType /\ layout \in Layouts
  /\ buf \in Addr \cup {Null} /\ copy \in Addr \cup {Null}
  /\ pc \in {"idle", "serialize", "deserialize"}
  /\ run \in [at : Addr \cup {Null}, field : 0..(Len(layout) + 1), word : Nat]
  /\ short \in BOOLEAN /\ ok \in BOOLEAN
  /\ fault \in {"none", "null", "bounds", "dangling"}

BufferInv ==
  buf # Null => /\ Filled(heap, layout, obj, buf, Len(layout) + 1)
                /\ buf \notin Own(heap, layout, obj)

CopyInv ==
  copy # Null => /\ Copied(heap, layout, obj, copy, Len(layout) + 1, short)
                 /\ AllocSize(heap, layout, copy) = AllocSize(heap, layout, obj)
                 /\ buf \notin Parts(heap, layout, copy, Len(layout) + 1)

RunPlaced == IF pc = "idle" THEN run = Stopped ELSE run.at # Null /\ run.field # 0

SerializeInv ==
  pc = "serialize" =>
    /\ buf = Null
    /\ Filled(heap, layout, obj, run.at, run.field)
    /\ run.word = Begin(heap, layout, obj, run.field)
    /\ run.at \notin Own(heap, layout, obj)
    /\ copy # Null => run.at \notin Parts(heap, layout, copy, Len(layout) + 1)

DeserializeInv ==
  pc = "deserialize" =>
    /\ buf # Null /\ copy = Null
    /\ Copied(heap, layout, obj, run.at, run.field, short)
    /\ ~short => run.word = Begin(heap, layout, obj, run.field)
    /\ buf \notin Parts(heap, layout, run.at, run.field)

SInv ==
  /\ Types /\ RunPlaced
  /\ Object(heap, layout, obj)
  /\ BufferInv /\ CopyInv /\ SerializeInv /\ DeserializeInv

-----------------------------------------------------------------------------
(* What is not touched stays                                                *)

(* What was never stored is neither an address nor NULL.                    *)
LEMMA NoPointer == Uninit \notin Addr /\ Uninit # Null /\ Null \notin Addr
BY SerializationAssumption, HeapAssumption

(* A buffer holds the object as long as neither of them changes.            *)
LEMMA FilledKept ==
  ASSUME NEW h, NEW l \in Layouts, NEW p, Object(h, l, p), NEW b, NEW n,
         Filled(h, l, p, b, n),
         NEW g, \A a \in Own(h, l, p) : g[a] = h[a], g[b] = h[b]
  PROVE  Filled(g, l, p, b, n)
<1>1. /\ Widths(g, l, p) = Widths(h, l, p) /\ AllocSize(g, l, p) = AllocSize(h, l, p)
      /\ \A i \in DOMAIN l : Field(g, p, i) = Field(h, p, i)
      /\ \A i \in Pointers(l) :
           /\ Count(g, p, i) = Count(h, p, i)
           /\ Field(h, p, i) # Null => g[Field(h, p, i)] = h[Field(h, p, i)]
  BY ObjectKept
<1>2. \A i : Begin(g, l, p, i) = Begin(h, l, p, i)
  BY <1>1 DEF Begin
<1>3. ASSUME NEW i \in DOMAIN l, Written(h, l, p, b, i) PROVE Written(g, l, p, b, i)
  <2>1. CASE l[i] = "scalar"
    BY <1>1, <1>2, <1>3, <2>1 DEF Written
  <2>2. CASE l[i] = "array"
    <3>1. i \in Pointers(l) /\ Count(g, p, i) = Count(h, p, i) /\ Field(g, p, i) = Field(h, p, i)
      BY <1>1, <2>2 DEF Pointers
    <3>2. \A k \in 0..(Count(h, p, i) - 1) : g[Field(h, p, i)][k] = h[Field(h, p, i)][k]
      <4>1. CASE Field(h, p, i) # Null
        BY <1>1, <3>1, <4>1
      <4>2. CASE Field(h, p, i) = Null
        <5>1. Count(h, p, i) = 0
          BY <3>1, <4>2, HeapAssumption DEF Object
        <5> QED
          BY <5>1
      <4> QED
        BY <4>1, <4>2
    <3> QED
      BY <1>2, <1>3, <2>2, <3>1, <3>2 DEF Written
  <2>3. CASE l[i] # "scalar" /\ l[i] # "array"
    BY <2>3 DEF Written
  <2> QED
    BY <2>1, <2>2, <2>3
<1> QED
  BY <1>1, <1>2, <1>3 DEF Filled

(* The same for a copy and its arrays.                                      *)
LEMMA CopiedKept ==
  ASSUME NEW h, NEW l \in Layouts, NEW p, Object(h, l, p), NEW c, NEW n, NEW lost,
         Copied(h, l, p, c, n, lost),
         NEW g, \A a \in Own(h, l, p) : g[a] = h[a], \A a \in Parts(h, l, c, n) : g[a] = h[a]
  PROVE  /\ Copied(g, l, p, c, n, lost)
         /\ Parts(g, l, c, n) = Parts(h, l, c, n)
         /\ AllocSize(g, l, c) = AllocSize(h, l, c)
<1>1. /\ Own(g, l, p) = Own(h, l, p)
      /\ \A i \in DOMAIN l : Field(g, p, i) = Field(h, p, i)
      /\ \A i \in Pointers(l) :
           /\ Count(g, p, i) = Count(h, p, i)
           /\ Field(h, p, i) # Null => g[Field(h, p, i)] = h[Field(h, p, i)]
  BY ObjectKept
<1>2. g[c] = h[c]
  BY DEF Parts
<1>3. \A i : Field(g, c, i) = Field(h, c, i) /\ Count(g, c, i) = Count(h, c, i)
  BY <1>2 DEF Field, Count
<1>4. Parts(g, l, c, n) = Parts(h, l, c, n)
  BY <1>3 DEF Parts
<1>5. AllocSize(g, l, c) = AllocSize(h, l, c)
  BY <1>3 DEF AllocSize, FieldWords
<1>6. \A i \in Pointers(l) : i < n /\ Field(h, c, i) # Uninit => g[Field(h, c, i)] = h[Field(h, c, i)]
  BY DEF Parts
<1>7. \A i \in Pointers(l) : i < n => \/ Field(g, c, i) = Uninit /\ lost
                                      \/ Field(g, c, i) \in Addr \ {c} /\ g[Field(g, c, i)] # Freed
  <2> SUFFICES ASSUME NEW i \in Pointers(l), i < n
               PROVE  \/ Field(g, c, i) = Uninit /\ lost
                      \/ Field(g, c, i) \in Addr \ {c} /\ g[Field(g, c, i)] # Freed
    OBVIOUS
  <2>1. \/ Field(h, c, i) = Uninit /\ lost
        \/ Field(h, c, i) \in Addr \ {c} /\ h[Field(h, c, i)] # Freed
    BY DEF Copied
  <2> QED
    BY <1>3, <1>6, <2>1, NoPointer
<1>8. ASSUME ~lost, NEW i \in DOMAIN l, i < n PROVE Same(g, l, p, c, i)
  <2>1. Same(h, l, p, c, i)
    BY <1>8 DEF Copied
  <2>2. CASE l[i] = "scalar"
    BY <1>1, <1>3, <2>1, <2>2 DEF Same
  <2>3. CASE l[i] = "array"
    <3>1. i \in Pointers(l) /\ Count(g, p, i) = Count(h, p, i) /\ Field(g, p, i) = Field(h, p, i)
      BY <1>1, <2>3 DEF Pointers
    <3>2. Field(h, c, i) # Uninit
      BY <1>8, <3>1, NoPointer DEF Copied
    <3>3. g[Field(h, c, i)] = h[Field(h, c, i)]
      BY <1>6, <1>8, <3>1, <3>2
    <3>4. \A k \in 0..(Count(h, p, i) - 1) : g[Field(h, p, i)][k] = h[Field(h, p, i)][k]
      <4>1. CASE Field(h, p, i) # Null
        BY <1>1, <3>1, <4>1
      <4>2. CASE Field(h, p, i) = Null
        <5>1. Count(h, p, i) = 0
          BY <3>1, <4>2, HeapAssumption DEF Object
        <5> QED
          BY <5>1
      <4> QED
        BY <4>1, <4>2
    <3> QED
      BY <1>3, <2>1, <2>3, <3>1, <3>3, <3>4 DEF Same
  <2>4. CASE l[i] # "scalar" /\ l[i] # "array"
    BY <2>4 DEF Same
  <2> QED
    BY <2>2, <2>3, <2>4
<1>9. Apart(g, l, c, n)
  BY <1>3 DEF Copied, Apart
<1>10. c \in Addr /\ g[c] \in Words(Len(l)) /\ \A i \in Pointers(l) : i >= n => Field(g, c, i) = Uninit
  BY <1>2, <1>3 DEF Copied
<1>11. Parts(g, l, c, n) \cap Own(g, l, p) = {}
  BY <1>1, <1>4 DEF Copied
<1> QED
  BY <1>4, <1>5, <1>7, <1>8, <1>9, <1>10, <1>11 DEF Copied

-----------------------------------------------------------------------------
(* Writing the buffer                                                       *)

(* The blocks of an object are live.                                        *)
LEMMA OwnLive ==
  ASSUME NEW h, NEW l \in Layouts, NEW p, Object(h, l, p)
  PROVE  /\ \A a \in Own(h, l, p) : a \in Addr /\ h[a] # Freed
         /\ \A i \in Pointers(l) : Field(h, p, i) # Null =>
              /\ Field(h, p, i) \in Own(h, l, p)
              /\ h[Field(h, p, i)] \in Words(Count(h, p, i))
<1>1. Len(l) \in 0..(SlotMod - 1)
  BY LayoutFacts, HeapAssumption
<1>2. p \in Addr /\ h[p] # Freed
  BY <1>1, WordsLive DEF Object
<1>3. ASSUME NEW i \in Pointers(l), Field(h, p, i) # Null
      PROVE  /\ Field(h, p, i) \in Addr
             /\ h[Field(h, p, i)] \in Words(Count(h, p, i))
             /\ h[Field(h, p, i)] # Freed
  <2>1. Count(h, p, i) \in 0..(SlotMod - 1)
    BY ObjectFacts
  <2>2. Field(h, p, i) \in Addr /\ h[Field(h, p, i)] \in [0..(Count(h, p, i) - 1) -> Word]
    BY <1>3 DEF Object
  <2>3. Word \subseteq Cell
    BY SerializationAssumption DEF Cell
  <2>4. h[Field(h, p, i)] \in Words(Count(h, p, i))
    BY <2>2, <2>3 DEF Words
  <2> QED
    BY <2>1, <2>2, <2>4, WordsLive
<1> QED
  BY <1>2, <1>3 DEF Own

(* Writing field n behind the fields before it fills one field more.        *)
LEMMA FilledNext ==
  ASSUME NEW h, NEW l \in Layouts, NEW p, Object(h, l, p), NEW b,
         NEW n \in DOMAIN l, Filled(h, l, p, b, n), b \notin Own(h, l, p),
         NEW g, \A a \in Own(h, l, p) : g[a] = h[a],
         g[b] \in Words(AllocSize(h, l, p)),
         \A k \in 0..(Begin(h, l, p, n) - 1) : g[b][k] = h[b][k],
         \A k \in Begin(h, l, p, n)..(Begin(h, l, p, n + 1) - 1) : g[b][k] \in Nat,
         Written(g, l, p, b, n)
  PROVE  Filled(g, l, p, b, n + 1)
<1>1. /\ Widths(g, l, p) = Widths(h, l, p) /\ AllocSize(g, l, p) = AllocSize(h, l, p)
      /\ \A i \in DOMAIN l : Field(g, p, i) = Field(h, p, i)
      /\ \A i \in Pointers(l) :
           /\ Count(g, p, i) = Count(h, p, i)
           /\ Field(h, p, i) # Null => g[Field(h, p, i)] = h[Field(h, p, i)]
  BY ObjectKept
<1>2. \A i : Begin(g, l, p, i) = Begin(h, l, p, i)
  BY <1>1 DEF Begin
<1>3. /\ Counted(h, l, p) /\ DOMAIN l = 1..Len(l) /\ Len(l) \in Nat
      /\ \A i \in Pointers(l) : Slots(Count(h, p, i)) = Count(h, p, i) /\ Count(h, p, i) \in Nat
  BY ObjectFacts, LayoutFacts, HeapAssumption
<1>4. /\ \A i \in 1..(Len(l) + 1) : Begin(h, l, p, i) \in Nat \ {0}
      /\ \A i \in DOMAIN l : Begin(h, l, p, i + 1) = Begin(h, l, p, i) + Widths(h, l, p)[i]
      /\ \A i \in 1..(Len(l) + 1), j \in 1..(Len(l) + 1) :
           i <= j => Begin(h, l, p, i) <= Begin(h, l, p, j)
  BY <1>3, BeginNext
<1>5. ASSUME NEW i \in DOMAIN l, i < n PROVE Written(g, l, p, b, i)
  <2>1. Written(h, l, p, b, i)
    BY <1>5 DEF Filled
  <2> DEFINE at == Begin(h, l, p, i)
             end == Begin(h, l, p, n)
  <2>2. at \in Nat /\ end \in Nat /\ at + Widths(h, l, p)[i] <= end
    <3>1. i \in 1..(Len(l) + 1) /\ i + 1 \in 1..(Len(l) + 1) /\ n \in 1..(Len(l) + 1) /\ i + 1 <= n
      BY <1>3, <1>5
    <3>2. Begin(h, l, p, i + 1) = at + Widths(h, l, p)[i]
      BY <1>4
    <3>3. Begin(h, l, p, i + 1) <= end
      BY <1>4, <3>1
    <3> QED
      BY <1>4, <3>1, <3>2, <3>3
  <2>3. \A k \in 0..(end - 1) : g[b][k] = h[b][k]
    OBVIOUS
  <2> HIDE DEF at, end
  <2>4. CASE l[i] = "scalar"
    <3>1. Widths(h, l, p)[i] = 1
      BY <2>4 DEF Widths
    <3>2. at \in 0..(end - 1)
      BY <2>2, <3>1
    <3>3. h[b][at] = Field(h, p, i)
      BY <2>1, <2>4 DEF Written, at
    <3>4. g[b][at] = Field(g, p, i)
      BY <1>1, <2>3, <3>2, <3>3
    <3> QED
      BY <1>2, <2>4, <3>4 DEF Written, at
  <2>5. CASE l[i] = "array"
    <3> DEFINE m == Count(h, p, i)
    <3>1. i \in Pointers(l) /\ m \in Nat /\ Count(g, p, i) = m /\ Field(g, p, i) = Field(h, p, i)
      BY <1>1, <1>3, <2>5 DEF Pointers
    <3>2. Widths(h, l, p)[i] = 1 + m
      BY <1>3, <2>5, <3>1 DEF Widths
    <3>3. /\ h[b][at] = m
          /\ \A k \in 0..(m - 1) : h[b][at + 1 + k] = h[Field(h, p, i)][k]
      BY <2>1, <2>5 DEF Written, at
    <3>4. \A k \in 0..(m - 1) : g[Field(h, p, i)][k] = h[Field(h, p, i)][k]
      <4>1. CASE Field(h, p, i) # Null
        BY <1>1, <3>1, <4>1
      <4>2. CASE Field(h, p, i) = Null
        <5>1. m = 0
          BY <3>1, <4>2, HeapAssumption DEF Object
        <5> QED
          BY <5>1
      <4> QED
        BY <4>1, <4>2
    <3> HIDE DEF m
    <3>5. at \in 0..(end - 1)
      BY <2>2, <3>1, <3>2
    <3>6. \A k \in 0..(m - 1) : at + 1 + k \in 0..(end - 1)
      BY <2>2, <3>1, <3>2
    <3>7. g[b][at] = m /\ \A k \in 0..(m - 1) : g[b][at + 1 + k] = g[Field(h, p, i)][k]
      BY <2>3, <3>3, <3>4, <3>5, <3>6
    <3> QED
      BY <1>2, <2>5, <3>1, <3>7 DEF Written, at
  <2>6. CASE l[i] # "scalar" /\ l[i] # "array"
    BY <2>6 DEF Written
  <2> QED
    BY <2>4, <2>5, <2>6
<1>6. \A i \in DOMAIN l : i < n + 1 => Written(g, l, p, b, i)
  <2>1. \A i \in DOMAIN l : i < n + 1 => i < n \/ i = n
    BY <1>3
  <2> QED
    BY <1>5, <2>1
<1>7. \A k \in 0..(Begin(g, l, p, n + 1) - 1) : g[b][k] \in Nat
  <2> DEFINE s == Begin(h, l, p, n)
             e == Begin(h, l, p, n + 1)
  <2>1. s \in Nat /\ e \in Nat
    <3>1. n \in 1..(Len(l) + 1) /\ n + 1 \in 1..(Len(l) + 1)
      BY <1>3
    <3> QED
      BY <1>4, <3>1
  <2>2. \A k \in 0..(s - 1) : h[b][k] \in Nat
    BY DEF Filled
  <2>3. \A k \in 0..(e - 1) : k \in 0..(s - 1) \/ k \in s..(e - 1)
    <3> HIDE DEF s, e
    <3> QED
      BY <2>1
  <2>4. \A k \in 0..(e - 1) : g[b][k] \in Nat
    BY <2>2, <2>3
  <2> QED
    BY <1>2, <2>4
<1>8. g[b][0] = AllocSize(h, l, p)
  <2>1. Begin(h, l, p, n) \in Nat \ {0}
    <3>1. n \in 1..(Len(l) + 1)
      BY <1>3
    <3> QED
      BY <1>4, <3>1
  <2>2. 0 \in 0..(Begin(h, l, p, n) - 1)
    BY <2>1
  <2> QED
    BY <2>2 DEF Filled
<1> QED
  BY <1>1, <1>6, <1>7, <1>8 DEF Filled

(* The field fits in the buffer.                                            *)
LEMMA RoomLeft ==
  ASSUME NEW h, NEW l \in Layouts, NEW p, Object(h, l, p), NEW n \in DOMAIN l
  PROVE  /\ Begin(h, l, p, n) \in Nat \ {0} /\ Widths(h, l, p)[n] \in Nat
         /\ Begin(h, l, p, n + 1) = Begin(h, l, p, n) + Widths(h, l, p)[n]
         /\ Begin(h, l, p, n) + Widths(h, l, p)[n] <= AllocSize(h, l, p)
         /\ AllocSize(h, l, p) \in 1..(SlotMod - 1) /\ AllocSize(h, l, p) \in Nat
         /\ l[n] = "count" => Widths(h, l, p)[n] = 0
         /\ l[n] = "scalar" => Widths(h, l, p)[n] = 1
         /\ l[n] = "array" => Widths(h, l, p)[n] = 1 + Count(h, p, n)
<1>1. /\ Counted(h, l, p) /\ AllocSize(h, l, p) = Begin(h, l, p, Len(l) + 1)
      /\ AllocSize(h, l, p) \in 1..(SlotMod - 1)
  BY ObjectFacts
<1>2. DOMAIN l = 1..Len(l) /\ Len(l) \in Nat
  BY LayoutFacts
<1>3. /\ n \in 1..(Len(l) + 1) /\ n + 1 \in 1..(Len(l) + 1) /\ Len(l) + 1 \in 1..(Len(l) + 1)
      /\ n + 1 <= Len(l) + 1
  BY <1>2
<1>4. /\ Begin(h, l, p, n) \in Nat \ {0}
      /\ Begin(h, l, p, n + 1) = Begin(h, l, p, n) + Widths(h, l, p)[n]
      /\ Begin(h, l, p, n + 1) <= Begin(h, l, p, Len(l) + 1)
  <2>1. /\ \A i \in 1..(Len(l) + 1) : Begin(h, l, p, i) \in Nat \ {0}
        /\ \A i \in DOMAIN l : Begin(h, l, p, i + 1) = Begin(h, l, p, i) + Widths(h, l, p)[i]
        /\ \A i \in 1..(Len(l) + 1), j \in 1..(Len(l) + 1) :
             i <= j => Begin(h, l, p, i) <= Begin(h, l, p, j)
    BY <1>1, BeginNext
  <2> QED
    BY <1>3, <2>1
<1>5. Widths(h, l, p)[n] \in Nat
  <2>1. Widths(h, l, p) \in [1..Len(l) -> Nat]
    BY <1>1, WidthsType
  <2> QED
    BY <1>2, <2>1
<1>6. l[n] = "array" => Widths(h, l, p)[n] = 1 + Count(h, p, n)
  BY ObjectFacts DEF Widths, Pointers
<1>7. /\ l[n] = "count" => Widths(h, l, p)[n] = 0
      /\ l[n] = "scalar" => Widths(h, l, p)[n] = 1
  BY DEF Widths
<1> QED
  BY <1>1, <1>4, <1>5, <1>6, <1>7, HeapAssumption

(* What a step of the serializer must show.                                 *)
Fills(h, g, l, p, b, n) ==
  /\ g \in HeapType
  /\ \A a \in Addr \ {b} : g[a] = h[a]
  /\ Filled(g, l, p, b, n)

(* The header is written to a block of the computed size.                   *)
LEMMA StartFills ==
  ASSUME NEW h \in HeapType, NEW l \in Layouts, NEW p, Object(h, l, p),
         NEW r \in Malloc(h, AllocSize(h, l, p)), r.ptr # Null
  PROVE  /\ r.ptr \in Addr /\ h[r.ptr] = Freed
         /\ Fills(h, Put(r.heap, r.ptr, 0, AllocSize(h, l, p)), l, p, r.ptr, 1)
         /\ Begin(h, l, p, 1) = 1
<1> DEFINE n == AllocSize(h, l, p)
           g == Put(r.heap, r.ptr, 0, n)
<1>1. n \in 1..(SlotMod - 1) /\ n \in 0..(SlotMod - 1) /\ Counted(h, l, p)
  BY ObjectFacts, HeapAssumption
<1>2. n \in Cell /\ n \in Nat /\ 0 \in 0..(n - 1)
  BY <1>1, SerializationAssumption, HeapAssumption DEF Cell
<1> HIDE DEF n
<1>3. /\ r.heap \in HeapType /\ r.ptr \in Addr /\ h[r.ptr] = Freed
      /\ r.heap[r.ptr] = [i \in 0..(n - 1) |-> Uninit]
      /\ \A a \in Addr \ {r.ptr} : r.heap[a] = h[a]
  BY <1>1, MallocOutcome DEF n
<1>4. r.heap[r.ptr] \in Words(n)
  BY <1>3 DEF Words, Cell
<1>5. /\ g \in HeapType
      /\ \A a \in Addr \ {r.ptr} : g[a] = r.heap[a]
      /\ g[r.ptr] \in Words(n) /\ g[r.ptr][0] = n
  BY <1>1, <1>2, <1>3, <1>4, PutOutcome
<1>6. \A a \in Addr \ {r.ptr} : g[a] = h[a]
  BY <1>3, <1>5
<1> HIDE DEF g
<1>7. \A a \in Own(h, l, p) : g[a] = h[a]
  BY <1>3, <1>6, OwnLive
<1>8. Widths(g, l, p) = Widths(h, l, p) /\ AllocSize(g, l, p) = n
  BY <1>7, ObjectKept DEF n
<1>9. Begin(h, l, p, 1) = 1 /\ Begin(g, l, p, 1) = 1
  <2>1. Begin(h, l, p, 1) = 1
    BY <1>1, BeginNext
  <2>2. Begin(g, l, p, 1) = Begin(h, l, p, 1)
    BY <1>8 DEF Begin
  <2> QED
    BY <2>1, <2>2
<1>10. \A i \in DOMAIN l : ~(i < 1)
  BY LayoutFacts
<1>11. \A k \in 0..(Begin(g, l, p, 1) - 1) : g[r.ptr][k] \in Nat
  BY <1>2, <1>5, <1>9
<1>12. Filled(g, l, p, r.ptr, 1)
  BY <1>3, <1>5, <1>8, <1>10, <1>11 DEF Filled
<1> QED
  BY <1>3, <1>5, <1>6, <1>9, <1>12 DEF Fills, g, n

(* A count is passed over.                                                  *)
LEMMA CountFills ==
  ASSUME NEW h \in HeapType, NEW l \in Layouts, NEW p, Object(h, l, p), NEW b,
         NEW n \in DOMAIN l, Filled(h, l, p, b, n), b \notin Own(h, l, p), l[n] = "count"
  PROVE  Fills(h, h, l, p, b, n + 1) /\ Begin(h, l, p, n + 1) = Begin(h, l, p, n)
<1>1. Begin(h, l, p, n + 1) = Begin(h, l, p, n) /\ Begin(h, l, p, n) \in Nat
  BY RoomLeft
<1>2. Written(h, l, p, b, n)
  BY DEF Written
<1>3. \A k \in Begin(h, l, p, n)..(Begin(h, l, p, n + 1) - 1) : h[b][k] \in Nat
  BY <1>1
<1>4. h[b] \in Words(AllocSize(h, l, p))
  BY DEF Filled
<1>5. Filled(h, l, p, b, n + 1)
  BY <1>2, <1>3, <1>4, FilledNext
<1> QED
  BY <1>1, <1>5 DEF Fills

(* A scalar is written.                                                     *)
LEMMA ScalarFills ==
  ASSUME NEW h \in HeapType, NEW l \in Layouts, NEW p, Object(h, l, p), NEW b,
         NEW n \in DOMAIN l, Filled(h, l, p, b, n), b \notin Own(h, l, p), l[n] = "scalar"
  PROVE  /\ Fills(h, Put(h, b, Begin(h, l, p, n), Field(h, p, n)), l, p, b, n + 1)
         /\ Begin(h, l, p, n + 1) = Begin(h, l, p, n) + 1
         /\ AccessFault(h, b, Begin(h, l, p, n), 1) = "none"
<1> DEFINE at == Begin(h, l, p, n)
           w == Field(h, p, n)
           m == AllocSize(h, l, p)
           g == Put(h, b, at, w)
<1>1. /\ at \in Nat \ {0} /\ at + 1 <= m /\ m \in 0..(SlotMod - 1) /\ m \in Nat
      /\ Begin(h, l, p, n + 1) = at + 1
  BY RoomLeft, HeapAssumption
<1>2. w \in Nat /\ w \in Cell
  BY SerializationAssumption DEF Object, Cell
<1>3. b \in Addr /\ h[b] \in Words(m)
  BY DEF Filled
<1> HIDE DEF at, w, m
<1>4. at \in 0..(m - 1)
  BY <1>1
<1>5. /\ g \in HeapType
      /\ \A a \in Addr \ {b} : g[a] = h[a]
      /\ g[b] \in Words(m) /\ g[b][at] = w
      /\ \A k \in 0..(m - 1) : k # at => g[b][k] = h[b][k]
      /\ AccessFault(h, b, at, 1) = "none"
  BY <1>1, <1>2, <1>3, <1>4, PutOutcome
<1> HIDE DEF g
<1>6. \A a \in Own(h, l, p) : g[a] = h[a]
  BY <1>5, OwnLive
<1>7. Field(g, p, n) = w /\ Begin(g, l, p, n) = at
  BY <1>6, ObjectKept DEF w, at, Begin
<1>8. Written(g, l, p, b, n)
  BY <1>5, <1>7 DEF Written
<1>9. \A k \in 0..(at - 1) : g[b][k] = h[b][k]
  BY <1>1, <1>5
<1>10. \A k \in at..(Begin(h, l, p, n + 1) - 1) : g[b][k] \in Nat
  BY <1>1, <1>2, <1>5
<1>11. Filled(g, l, p, b, n + 1)
  BY <1>5, <1>6, <1>8, <1>9, <1>10, FilledNext DEF at, m
<1> QED
  BY <1>1, <1>5, <1>11 DEF Fills, g, at, w

(* An array is written behind its count.                                    *)
LEMMA ArrayFills ==
  ASSUME NEW h \in HeapType, NEW l \in Layouts, NEW p, Object(h, l, p), NEW b,
         NEW n \in DOMAIN l, Filled(h, l, p, b, n), b \notin Own(h, l, p), l[n] = "array"
  PROVE  LET at == Begin(h, l, p, n)
             m == Count(h, p, n)
             q == Field(h, p, n)
             f == Put(h, b, at, m)
         IN /\ Fills(h, Move(f, b, at + 1, q, 0, m), l, p, b, n + 1)
            /\ Begin(h, l, p, n + 1) = at + (1 + m)
            /\ AccessFault(h, b, at, 1) = "none"
            /\ MoveFault(f, b, at + 1, q, 0, m) = "none"
<1> DEFINE at == Begin(h, l, p, n)
           m == Count(h, p, n)
           q == Field(h, p, n)
           s == AllocSize(h, l, p)
           f == Put(h, b, at, m)
           g == Move(f, b, at + 1, q, 0, m)
<1>1. /\ at \in Nat \ {0} /\ at + (1 + m) <= s /\ s \in 0..(SlotMod - 1) /\ s \in Nat
      /\ Begin(h, l, p, n + 1) = at + (1 + m)
  BY RoomLeft, HeapAssumption
<1>2. n \in Pointers(l) /\ m \in 0..(SlotMod - 1) /\ m \in Nat /\ m \in Cell
  BY ObjectFacts, SerializationAssumption, HeapAssumption DEF Pointers, Cell
<1>3. b \in Addr /\ h[b] \in Words(s)
  BY DEF Filled
<1>4. q \in Addr \cup {Null}
  BY <1>2 DEF Object
<1>5. q # Null => q \in Own(h, l, p) /\ h[q] \in Words(m)
  BY <1>2, OwnLive
<1>6. q = Null => m = 0
  BY <1>2, HeapAssumption DEF Object
<1>7. q # Null => \A k \in 0..(m - 1) : h[q][k] \in Nat
  BY <1>2, SerializationAssumption, HeapAssumption DEF Object
<1> HIDE DEF at, m, q, s
<1>8. at \in 0..(s - 1)
  BY <1>1, <1>2
<1>9. /\ f \in HeapType
      /\ \A a \in Addr \ {b} : f[a] = h[a]
      /\ f[b] \in Words(s) /\ f[b][at] = m
      /\ \A k \in 0..(s - 1) : k # at => f[b][k] = h[b][k]
      /\ AccessFault(h, b, at, 1) = "none"
  BY <1>1, <1>2, <1>3, <1>8, PutOutcome
<1> HIDE DEF f
<1>10. q # Null => f[q] = h[q] /\ q \in Addr
  BY <1>5, <1>9, OwnLive
<1>11. MoveFault(f, b, at + 1, q, 0, m) = "none"
  <2>1. CASE q # Null
    <3>1. at + 1 \in Nat /\ (at + 1) + m <= s /\ 0 + m <= m
      BY <1>1, <1>2
    <3> QED
      BY <1>1, <1>2, <1>3, <1>5, <1>9, <1>10, <2>1, <3>1, MoveFits
  <2>2. CASE q = Null
    BY <1>6, <2>2 DEF MoveFault, AccessFault
  <2> QED
    BY <2>1, <2>2
<1>12. /\ g \in HeapType
       /\ \A a \in Addr \ {b} : g[a] = f[a]
       /\ g[b] \in Words(s)
       /\ \A k \in 0..(s - 1) : k \notin (at + 1)..(at + 1 + m - 1) => g[b][k] = f[b][k]
       /\ \A k \in 0..(m - 1) : g[b][at + 1 + k] = f[q][0 + k]
  <2>1. at + 1 \in Nat
    BY <1>1
  <2>2. Moved(f, g, b, s, at + 1, q, 0, m)
    BY <1>1, <1>2, <1>3, <1>4, <1>9, <2>1, MoveOutcome
  <2> HIDE DEF g
  <2> QED
    BY <1>11, <2>2 DEF Moved
<1> HIDE DEF g
<1>13. \A a \in Addr \ {b} : g[a] = h[a]
  BY <1>9, <1>12
<1>14. \A a \in Own(h, l, p) : g[a] = h[a]
  BY <1>13, OwnLive
<1>15. Field(g, p, n) = q /\ Count(g, p, n) = m /\ Begin(g, l, p, n) = at
  <2>1. /\ Widths(g, l, p) = Widths(h, l, p)
        /\ \A i \in DOMAIN l : Field(g, p, i) = Field(h, p, i)
        /\ \A i \in Pointers(l) : Count(g, p, i) = Count(h, p, i)
    BY <1>14, ObjectKept
  <2> QED
    BY <1>2, <2>1 DEF m, q, at, Begin
<1>16. at \notin (at + 1)..(at + 1 + m - 1)
  BY <1>1, <1>2
<1>17. g[b][at] = m
  BY <1>8, <1>9, <1>12, <1>16
<1>18. \A k \in 0..(m - 1) : q # Null /\ g[b][at + 1 + k] = g[q][k] /\ g[b][at + 1 + k] \in Nat
  <2> SUFFICES ASSUME NEW k \in 0..(m - 1)
               PROVE  q # Null /\ g[b][at + 1 + k] = g[q][k] /\ g[b][at + 1 + k] \in Nat
    OBVIOUS
  <2>1. q # Null
    BY <1>2, <1>6
  <2>2. g[q] = h[q] /\ f[q] = h[q]
    BY <1>5, <1>10, <1>14, <2>1
  <2>3. g[b][at + 1 + k] = f[q][k]
    BY <1>12
  <2> QED
    BY <1>7, <2>1, <2>2, <2>3
<1>19. Written(g, l, p, b, n)
  BY <1>15, <1>17, <1>18 DEF Written
<1>20. \A k \in 0..(at - 1) : g[b][k] = h[b][k]
  <2>1. \A k \in 0..(at - 1) : k \in 0..(s - 1) /\ k # at /\ k \notin (at + 1)..(at + 1 + m - 1)
    BY <1>1, <1>2
  <2> QED
    BY <1>9, <1>12, <2>1
<1>21. \A k \in at..(Begin(h, l, p, n + 1) - 1) : g[b][k] \in Nat
  <2> SUFFICES ASSUME NEW k \in at..(Begin(h, l, p, n + 1) - 1) PROVE g[b][k] \in Nat
    OBVIOUS
  <2>1. k \in at..(at + (1 + m) - 1)
    <3>1. Begin(h, l, p, n + 1) - 1 = at + (1 + m) - 1
      BY <1>1, <1>2
    <3> QED
      BY <3>1, Zenon
  <2>2. CASE k = at
    BY <1>2, <1>17, <2>2
  <2>3. CASE k # at
    <3>1. k - at - 1 \in 0..(m - 1) /\ at + 1 + (k - at - 1) = k
      BY <1>1, <1>2, <2>1, <2>3
    <3> QED
      BY <1>18, <3>1
  <2> QED
    BY <2>2, <2>3
<1>22. Filled(g, l, p, b, n + 1)
  BY <1>12, <1>14, <1>19, <1>20, <1>21, FilledNext DEF at, s
<1> QED
  BY <1>1, <1>9, <1>11, <1>12, <1>13, <1>22 DEF Fills, g, f, at, m, q

-----------------------------------------------------------------------------
(* Reading the buffer                                                       *)

(* The fields whose cells reading field n stores.                           *)
Stores(l, n) == {n} \cup {i \in {n - 1} : l[n] = "array"}

(* The pointer that reading field n leaves in it.                           *)
PointerRead(h, g, l, p, c, n, lost) ==
  l[n] = "array" => \/ Field(g, c, n) = Uninit /\ lost
                    \/ /\ Field(g, c, n) \in Addr /\ g[Field(g, c, n)] # Freed
                       /\ Field(g, c, n) \notin Own(h, l, p) \cup Parts(h, l, c, n)

(* Reading field n behind the fields before it copies one field more.       *)
LEMMA CopiedNext ==
  ASSUME NEW h, NEW l \in Layouts, NEW p, Object(h, l, p), NEW c, NEW n \in DOMAIN l,
         NEW lost, Copied(h, l, p, c, n, lost),
         NEW g, g[c] \in Words(Len(l)),
         \A i \in DOMAIN l \ Stores(l, n) : Field(g, c, i) = Field(h, c, i),
         \A a \in Own(h, l, p) : g[a] = h[a],
         \A a \in Parts(h, l, c, n) \ {c} : g[a] = h[a],
         NEW lose, lost => lose,
         PointerRead(h, g, l, p, c, n, lose), ~lose => Same(g, l, p, c, n)
  PROVE  /\ Copied(g, l, p, c, n + 1, lose)
         /\ Parts(g, l, c, n + 1) \subseteq Parts(h, l, c, n) \cup {Field(g, c, n)}
         /\ l[n] # "array" => Parts(g, l, c, n + 1) = Parts(h, l, c, n)
         /\ l[n] = "array" => Parts(h, l, c, n) \subseteq Parts(g, l, c, n + 1)
         /\ l[n] = "array" /\ Field(g, c, n) # Uninit => Field(g, c, n) \in Parts(g, l, c, n + 1)
<1>1. /\ DOMAIN l = 1..Len(l) /\ Len(l) \in Nat
      /\ \A i \in DOMAIN l : l[i] = "array" => i - 1 \in DOMAIN l /\ l[i - 1] = "count"
  BY LayoutFacts
<1>2. /\ Own(g, l, p) = Own(h, l, p)
      /\ \A i \in DOMAIN l : Field(g, p, i) = Field(h, p, i)
      /\ \A i \in Pointers(l) :
           /\ Count(g, p, i) = Count(h, p, i)
           /\ Field(h, p, i) # Null => g[Field(h, p, i)] = h[Field(h, p, i)]
  BY ObjectKept
<1>3. \A i \in DOMAIN l : i # n /\ l[i] # "count" => i \notin Stores(l, n)
  BY <1>1 DEF Stores
<1>4. \A i \in Pointers(l) : i # n => Field(g, c, i) = Field(h, c, i)
  BY <1>3 DEF Pointers
<1>5. \A i \in Pointers(l) : i < n => Count(g, c, i) = Count(h, c, i)
  <2> SUFFICES ASSUME NEW i \in Pointers(l), i < n PROVE Count(g, c, i) = Count(h, c, i)
    OBVIOUS
  <2>1. i \in DOMAIN l /\ i - 1 \in DOMAIN l
    BY <1>1 DEF Pointers
  <2>2. i - 1 \notin Stores(l, n)
    BY <1>1, <2>1 DEF Stores
  <2>3. Field(g, c, i - 1) = Field(h, c, i - 1)
    BY <2>1, <2>2
  <2> QED
    BY <2>3 DEF Count
<1>6. \A i \in Pointers(l) : i < n + 1 <=> i < n \/ i = n
  BY <1>1 DEF Pointers
<1>7. n \in Pointers(l) <=> l[n] = "array"
  BY DEF Pointers
<1> DEFINE before == {Field(h, c, i) : i \in {j \in Pointers(l) : j < n}} \ {Uninit}
           after == {Field(g, c, i) : i \in {j \in Pointers(l) : j < n + 1}} \ {Uninit}
<1>8. /\ before \subseteq after /\ after \subseteq before \cup {Field(g, c, n)}
      /\ l[n] # "array" => after = before
      /\ l[n] = "array" /\ Field(g, c, n) # Uninit => Field(g, c, n) \in after
  <2>1. \A i \in Pointers(l) : i < n => i # n
    BY <1>1 DEF Pointers
  <2> QED
    BY <1>4, <1>6, <1>7, <2>1
<1>9. Parts(h, l, c, n) = {c} \cup before /\ Parts(g, l, c, n + 1) = {c} \cup after
  BY DEF Parts
<1> HIDE DEF before, after
<1>10. l[n] = "array" /\ Field(g, c, n) # Uninit =>
         /\ Field(g, c, n) \in Addr \ {c} /\ g[Field(g, c, n)] # Freed
         /\ Field(g, c, n) \notin Own(h, l, p) /\ Field(g, c, n) \notin before
  BY <1>9 DEF PointerRead
<1>11. \A i \in Pointers(l) : i < n /\ Field(h, c, i) # Uninit => Field(h, c, i) \in before
  BY DEF before
<1>12. ASSUME NEW i \in Pointers(l), i < n + 1
       PROVE  \/ Field(g, c, i) = Uninit /\ lose
              \/ Field(g, c, i) \in Addr \ {c} /\ g[Field(g, c, i)] # Freed
  <2>1. CASE i = n
    BY <1>7, <1>10, <2>1, NoPointer DEF PointerRead
  <2>2. CASE i # n
    <3>1. i < n /\ Field(g, c, i) = Field(h, c, i)
      BY <1>4, <1>6, <1>12, <2>2
    <3>2. \/ Field(h, c, i) = Uninit /\ lost
          \/ Field(h, c, i) \in Addr \ {c} /\ h[Field(h, c, i)] # Freed
      BY <3>1 DEF Copied
    <3>3. Field(h, c, i) \in Addr \ {c} => g[Field(h, c, i)] = h[Field(h, c, i)]
      BY <1>9, <1>11, <3>1, NoPointer
    <3> QED
      BY <3>1, <3>2, <3>3
  <2> QED
    BY <2>1, <2>2
<1>13. \A i \in Pointers(l) : i >= n + 1 => Field(g, c, i) = Uninit
  <2>1. \A i \in Pointers(l) : i >= n + 1 => i # n /\ i >= n
    BY <1>1 DEF Pointers
  <2> QED
    BY <1>4, <2>1 DEF Copied
<1>14. Apart(g, l, c, n + 1)
  <2> SUFFICES ASSUME NEW i \in Pointers(l), NEW j \in Pointers(l), i < n + 1, j < n + 1, i # j,
                      Field(g, c, i) # Uninit, Field(g, c, i) = Field(g, c, j)
               PROVE  FALSE
    BY DEF Apart
  <2>1. CASE i # n /\ j # n
    BY <1>4, <1>6, <2>1 DEF Copied, Apart
  <2>2. CASE i = n
    <3>1. j # n /\ j < n
      BY <1>6, <2>2
    <3>2. Field(g, c, j) \in before
      BY <1>4, <1>11, <3>1
    <3> QED
      BY <1>7, <1>10, <2>2, <3>2
  <2>3. CASE j = n
    <3>1. i # n /\ i < n
      BY <1>6, <2>3
    <3>2. Field(g, c, i) \in before
      BY <1>4, <1>11, <3>1
    <3> QED
      BY <1>7, <1>10, <2>3, <3>2
  <2> QED
    BY <2>1, <2>2, <2>3
<1>15. Parts(g, l, c, n + 1) \cap Own(g, l, p) = {}
  <2>1. Parts(h, l, c, n) \cap Own(h, l, p) = {}
    BY DEF Copied
  <2>2. CASE l[n] # "array"
    BY <1>2, <1>8, <1>9, <2>1, <2>2
  <2>3. CASE l[n] = "array" /\ Field(g, c, n) # Uninit
    BY <1>2, <1>8, <1>9, <1>10, <2>1, <2>3
  <2>4. CASE Field(g, c, n) = Uninit
    <3>1. Uninit \notin after
      BY DEF after
    <3> QED
      BY <1>2, <1>8, <1>9, <2>1, <2>4, <3>1
  <2> QED
    BY <2>2, <2>3, <2>4
<1>16. ASSUME ~lose, NEW i \in DOMAIN l, i < n + 1 PROVE Same(g, l, p, c, i)
  <2>1. CASE i = n
    BY <1>16, <2>1
  <2>2. CASE i # n
    <3>1. i < n
      BY <1>1, <1>16, <2>2
    <3>2. Same(h, l, p, c, i)
      BY <1>16, <3>1 DEF Copied
    <3>3. CASE l[i] = "scalar"
      <4>1. Field(g, c, i) = Field(h, c, i)
        BY <1>3, <2>2, <3>3
      <4> QED
        BY <1>2, <3>2, <3>3, <4>1 DEF Same
    <3>4. CASE l[i] = "array"
      <4>1. /\ i \in Pointers(l) /\ Field(g, c, i) = Field(h, c, i) /\ Count(g, c, i) = Count(h, c, i)
            /\ Count(g, p, i) = Count(h, p, i) /\ Field(g, p, i) = Field(h, p, i)
        BY <1>2, <1>4, <1>5, <2>2, <3>1, <3>4 DEF Pointers
      <4>2. Field(h, c, i) \in Addr \ {c}
        BY <1>16, <3>1, <4>1 DEF Copied
      <4>3. g[Field(h, c, i)] = h[Field(h, c, i)]
        BY <1>9, <1>11, <3>1, <4>1, <4>2, NoPointer
      <4>4. \A k \in 0..(Count(h, p, i) - 1) : g[Field(h, p, i)][k] = h[Field(h, p, i)][k]
        <5>1. CASE Field(h, p, i) # Null
          BY <1>2, <4>1, <5>1
        <5>2. CASE Field(h, p, i) = Null
          <6>1. Count(h, p, i) = 0
            BY <4>1, <5>2, NoPointer DEF Object
          <6> QED
            BY <6>1
        <5> QED
          BY <5>1, <5>2
      <4> QED
        BY <3>2, <3>4, <4>1, <4>3, <4>4 DEF Same
    <3>5. CASE l[i] # "scalar" /\ l[i] # "array"
      BY <3>5 DEF Same
    <3> QED
      BY <3>3, <3>4, <3>5
  <2> QED
    BY <2>1, <2>2
<1>17. c \in Addr
  BY DEF Copied
<1>18. Copied(g, l, p, c, n + 1, lose)
  BY <1>12, <1>13, <1>14, <1>15, <1>16, <1>17 DEF Copied
<1> QED
  BY <1>8, <1>9, <1>18

(* Reading starts with a struct no word of which was stored.                *)
LEMMA CopyStarts ==
  ASSUME NEW h \in HeapType, NEW l \in Layouts, NEW p, Object(h, l, p),
         NEW r \in Malloc(h, Len(l)), r.ptr # Null
  PROVE  /\ r.ptr \in Addr /\ h[r.ptr] = Freed
         /\ r.heap \in HeapType /\ \A a \in Addr \ {r.ptr} : r.heap[a] = h[a]
         /\ Copied(r.heap, l, p, r.ptr, 1, FALSE)
         /\ Parts(r.heap, l, r.ptr, 1) = {r.ptr}
<1> DEFINE g == r.heap
           c == r.ptr
<1>1. Len(l) \in 0..(SlotMod - 1) /\ DOMAIN l = 1..Len(l) /\ Len(l) \in Nat
  BY LayoutFacts, HeapAssumption
<1>2. /\ g \in HeapType /\ c \in Addr /\ h[c] = Freed
      /\ g[c] = [i \in 0..(Len(l) - 1) |-> Uninit]
      /\ \A a \in Addr \ {c} : g[a] = h[a]
  BY <1>1, MallocOutcome
<1> HIDE DEF g, c
<1>3. g[c] \in Words(Len(l))
  BY <1>2 DEF Words, Cell
<1>4. \A i \in Pointers(l) : ~(i < 1) /\ Field(g, c, i) = Uninit
  BY <1>1, <1>2 DEF Pointers, Field
<1>5. Parts(g, l, c, 1) = {c}
  BY <1>4 DEF Parts
<1>6. \A a \in Own(h, l, p) : g[a] = h[a]
  BY <1>2, OwnLive
<1>7. Own(g, l, p) = Own(h, l, p)
  BY <1>6, ObjectKept
<1>8. c \notin Own(h, l, p)
  BY <1>2, OwnLive
<1>9. Apart(g, l, c, 1)
  BY <1>4 DEF Apart
<1>10. \A i \in DOMAIN l : ~(i < 1)
  BY <1>1
<1>11. Copied(g, l, p, c, 1, FALSE)
  BY <1>2, <1>3, <1>4, <1>5, <1>7, <1>8, <1>9, <1>10 DEF Copied
<1> QED
  BY <1>2, <1>5, <1>11 DEF g, c

(* What a step of the deserializer must show: it stores in the struct and   *)
(* in memory that was vacant, and reads one field more.                     *)
Copies(h, g, l, p, c, n, lost, lose) ==
  /\ g \in HeapType
  /\ \A a \in Addr \ {c} : h[a] # Freed => g[a] = h[a]
  /\ Copied(g, l, p, c, n + 1, lose)
  /\ \A a \in Parts(g, l, c, n + 1) : a \in Parts(h, l, c, n) \/ (a \in Addr /\ h[a] = Freed)
  /\ Parts(h, l, c, n) \subseteq Parts(g, l, c, n + 1)
  /\ \A a \in Addr : h[a] = Freed /\ g[a] # Freed => a \in Parts(g, l, c, n + 1)

(* The parts of a copy are live.                                            *)
LEMMA PartsLive ==
  ASSUME NEW h, NEW l \in Layouts, NEW p, NEW c, NEW n, NEW lost, Copied(h, l, p, c, n, lost)
  PROVE  \A a \in Parts(h, l, c, n) : a \in Addr /\ h[a] # Freed
<1>1. Len(l) \in 0..(SlotMod - 1)
  BY LayoutFacts, HeapAssumption
<1>2. c \in Addr /\ h[c] # Freed
  BY <1>1, WordsLive DEF Copied
<1>3. \A i \in Pointers(l) : i < n /\ Field(h, c, i) # Uninit =>
        Field(h, c, i) \in Addr /\ h[Field(h, c, i)] # Freed
  BY DEF Copied
<1> QED
  BY <1>2, <1>3 DEF Parts

(* A count is passed over.                                                  *)
LEMMA CountCopies ==
  ASSUME NEW h \in HeapType, NEW l \in Layouts, NEW p, Object(h, l, p), NEW c,
         NEW n \in DOMAIN l, NEW lost, Copied(h, l, p, c, n, lost), l[n] = "count"
  PROVE  Copies(h, h, l, p, c, n, lost, lost)
<1>1. h[c] \in Words(Len(l)) /\ c \in Addr
  BY DEF Copied
<1>2. PointerRead(h, h, l, p, c, n, lost) /\ Same(h, l, p, c, n)
  BY DEF PointerRead, Same
<1>3. Copied(h, l, p, c, n + 1, lost) /\ Parts(h, l, c, n + 1) = Parts(h, l, c, n)
  BY <1>1, <1>2, CopiedNext
<1> QED
  BY <1>3 DEF Copies

(* A scalar is read: the right one, if the position is right.               *)
LEMMA ScalarCopies ==
  ASSUME NEW h \in HeapType, NEW l \in Layouts, NEW p, Object(h, l, p), NEW c,
         NEW n \in DOMAIN l, NEW lost, Copied(h, l, p, c, n, lost), l[n] = "scalar",
         NEW b, Filled(h, l, p, b, Len(l) + 1), b \notin Parts(h, l, c, n),
         NEW w \in Nat, ~lost => w = Begin(h, l, p, n)
  PROVE  /\ Copies(h, Move(h, c, n - 1, b, w, 1), l, p, c, n, lost, lost)
         /\ ~lost => MoveFault(h, c, n - 1, b, w, 1) = "none"
         /\ ~lost => w + 1 = Begin(h, l, p, n + 1)
<1> DEFINE g == Move(h, c, n - 1, b, w, 1)
           m == Len(l)
           s == AllocSize(h, l, p)
<1>1. /\ m \in 0..(SlotMod - 1) /\ DOMAIN l = 1..m /\ m \in Nat
      /\ n - 1 \in Nat /\ n - 1 \in 0..(m - 1) /\ n \in Nat /\ n < m + 1 /\ n - 1 + 1 <= m
  BY LayoutFacts, HeapAssumption
<1>2. c \in Addr /\ h[c] \in Words(m)
  BY DEF Copied
<1>3. b \in Addr /\ h[b] \in Words(s) /\ Written(h, l, p, b, n)
  BY <1>1 DEF Filled
<1>4. /\ Begin(h, l, p, n) \in Nat /\ Begin(h, l, p, n) + 1 <= s
      /\ Begin(h, l, p, n + 1) = Begin(h, l, p, n) + 1 /\ s \in 0..(SlotMod - 1)
  BY RoomLeft, HeapAssumption
<1> HIDE DEF m, s
<1>5. Moved(h, g, c, m, n - 1, b, w, 1)
  BY <1>1, <1>2, <1>3, MoveOutcome
<1>6. ~lost => MoveFault(h, c, n - 1, b, w, 1) = "none"
  <2> SUFFICES ASSUME ~lost PROVE MoveFault(h, c, n - 1, b, w, 1) = "none"
    OBVIOUS
  <2>1. w + 1 <= s /\ 1 \in Nat
    BY <1>4
  <2> QED
    BY <1>1, <1>2, <1>3, <1>4, <2>1, MoveFits
<1> HIDE DEF g
<1>7. /\ g \in HeapType /\ \A a \in Addr \ {c} : g[a] = h[a]
      /\ g[c] \in Words(m)
      /\ \A k \in 0..(m - 1) : k # n - 1 => g[c][k] = h[c][k]
  <2>1. \A k \in 0..(m - 1) : k # n - 1 => k \notin (n - 1)..(n - 1 + 1 - 1)
    BY <1>1
  <2> QED
    BY <1>5, <2>1 DEF Moved
<1>8. ~lost => g[c][n - 1] = h[b][w]
  <2> SUFFICES ASSUME ~lost PROVE g[c][n - 1] = h[b][w]
    OBVIOUS
  <2>1. \A k \in 0..(1 - 1) : g[c][n - 1 + k] = h[b][w + k]
    BY <1>5, <1>6 DEF Moved
  <2>2. 0 \in 0..(1 - 1) /\ n - 1 + 0 = n - 1 /\ w + 0 = w
    BY <1>1
  <2> QED
    BY <2>1, <2>2
<1>9. \A i \in DOMAIN l \ Stores(l, n) : Field(g, c, i) = Field(h, c, i)
  <2> SUFFICES ASSUME NEW i \in DOMAIN l, i # n PROVE Field(g, c, i) = Field(h, c, i)
    BY DEF Stores
  <2>1. i - 1 \in 0..(m - 1) /\ i - 1 # n - 1
    BY <1>1
  <2> QED
    BY <1>7, <2>1 DEF Field
<1>10. c \notin Own(h, l, p)
  BY DEF Copied, Parts
<1>11. /\ \A a \in Own(h, l, p) : g[a] = h[a]
       /\ \A a \in Parts(h, l, c, n) \ {c} : g[a] = h[a]
  BY <1>7, <1>10, OwnLive, PartsLive
<1>12. Field(g, p, n) = Field(h, p, n)
  <2>1. \A i \in DOMAIN l : Field(g, p, i) = Field(h, p, i)
    BY <1>11, ObjectKept
  <2> QED
    BY <2>1
<1>13. ~lost => Same(g, l, p, c, n)
  <2> SUFFICES ASSUME ~lost PROVE Field(g, c, n) = Field(g, p, n)
    BY DEF Same
  <2>1. h[b][Begin(h, l, p, n)] = Field(h, p, n)
    BY <1>3 DEF Written
  <2> QED
    BY <1>8, <1>12, <2>1 DEF Field
<1>14. PointerRead(h, g, l, p, c, n, lost)
  BY DEF PointerRead
<1>15. Copied(g, l, p, c, n + 1, lost) /\ Parts(g, l, c, n + 1) = Parts(h, l, c, n)
  BY <1>7, <1>9, <1>11, <1>13, <1>14, CopiedNext DEF m
<1>16. \A a \in Addr : h[a] = Freed => g[a] = Freed
  BY <1>1, <1>2, <1>7, WordsLive
<1>17. Copies(h, g, l, p, c, n, lost, lost)
  BY <1>7, <1>15, <1>16 DEF Copies
<1> QED
  BY <1>4, <1>6, <1>17 DEF g

(* The count of an array is loaded and stored: the right one, if the        *)
(* position is right.                                                       *)
LEMMA CountRead ==
  ASSUME NEW h \in HeapType, NEW l \in Layouts, NEW p, Object(h, l, p), NEW c,
         NEW n \in DOMAIN l, NEW lost, Copied(h, l, p, c, n, lost), l[n] = "array",
         NEW b, Filled(h, l, p, b, Len(l) + 1), b \notin Parts(h, l, c, n),
         NEW w \in Nat, ~lost => w = Begin(h, l, p, n)
  PROVE  /\ ~lost => AccessFault(h, b, w, 1) = "none" /\ h[b][w] = Count(h, p, n)
         /\ AccessFault(h, b, w, 1) = "none" =>
              LET f == Put(h, c, n - 2, h[b][w]) IN
              /\ h[b][w] \in Nat
              /\ f \in HeapType /\ \A a \in Addr \ {c} : f[a] = h[a]
              /\ f[c] \in Words(Len(l))
              /\ f[c][n - 2] = h[b][w]
              /\ \A k \in 0..(Len(l) - 1) : k # n - 2 => f[c][k] = h[c][k]
<1> DEFINE m == Len(l)
           s == AllocSize(h, l, p)
<1>1. /\ m \in 0..(SlotMod - 1) /\ DOMAIN l = 1..m /\ m \in Nat
      /\ n - 1 \in DOMAIN l /\ n \in Nat /\ n < m + 1
  BY LayoutFacts, HeapAssumption
<1>2. c \in Addr /\ h[c] \in Words(m)
  BY DEF Copied
<1>3. /\ b \in Addr /\ h[b] \in Words(s) /\ Written(h, l, p, b, n)
      /\ \A k \in 0..(Begin(h, l, p, m + 1) - 1) : h[b][k] \in Nat
      /\ Begin(h, l, p, m + 1) = s
  BY <1>1, ObjectFacts DEF Filled
<1>4. /\ Begin(h, l, p, n) \in Nat /\ Begin(h, l, p, n) + 1 <= s
      /\ s \in 0..(SlotMod - 1) /\ s \in Nat
  <2>1. /\ Begin(h, l, p, n) \in Nat /\ Begin(h, l, p, n) + Widths(h, l, p)[n] <= s
        /\ s \in 0..(SlotMod - 1) /\ s \in Nat
        /\ Widths(h, l, p)[n] = 1 + Count(h, p, n)
    BY RoomLeft, HeapAssumption
  <2>2. Count(h, p, n) \in Nat
    BY ObjectFacts DEF Counted, Pointers
  <2> QED
    BY <2>1, <2>2
<1> HIDE DEF m, s
<1>5. h[b] # Freed /\ DOMAIN h[b] = 0..(s - 1)
  BY <1>3, <1>4, WordsLive
<1>6. ASSUME ~lost PROVE AccessFault(h, b, w, 1) = "none" /\ h[b][w] = Count(h, p, n)
  <2>1. h[b][w] = Count(h, p, n)
    BY <1>3, <1>6 DEF Written
  <2>2. w + 1 <= s /\ 1 \in Nat
    BY <1>4, <1>6
  <2> QED
    BY <1>3, <1>4, <1>5, <2>1, <2>2, AccessInBlock
<1>7. ASSUME AccessFault(h, b, w, 1) = "none"
      PROVE  LET f == Put(h, c, n - 2, h[b][w]) IN
             /\ h[b][w] \in Nat
             /\ f \in HeapType /\ \A a \in Addr \ {c} : f[a] = h[a]
             /\ f[c] \in Words(m)
             /\ f[c][n - 2] = h[b][w]
             /\ \A k \in 0..(m - 1) : k # n - 2 => f[c][k] = h[c][k]
  <2>1. w \in 0..(s - 1)
    <3>1. \A j \in w..(w + 1 - 1) : j \in DOMAIN h[b]
      BY <1>7 DEF AccessFault
    <3>2. w \in w..(w + 1 - 1)
      OBVIOUS
    <3> QED
      BY <1>5, <3>1, <3>2
  <2>2. h[b][w] \in Nat /\ h[b][w] \in Cell
    BY <1>3, <2>1 DEF Words
  <2>3. n - 2 \in 0..(m - 1)
    BY <1>1
  <2> QED
    BY <1>1, <1>2, <2>2, <2>3, PutOutcome
<1> QED
  BY <1>6, <1>7 DEF m

(* If there is no memory for its elements, an array is lost: its pointer is *)
(* not stored, nothing but its count is read.                               *)
LEMMA ArrayLost ==
  ASSUME NEW h \in HeapType, NEW l \in Layouts, NEW p, Object(h, l, p), NEW c,
         NEW n \in DOMAIN l, NEW lost, Copied(h, l, p, c, n, lost), l[n] = "array",
         NEW b, Filled(h, l, p, b, Len(l) + 1), b \notin Parts(h, l, c, n),
         NEW w \in Nat, ~lost => w = Begin(h, l, p, n), AccessFault(h, b, w, 1) = "none"
  PROVE  Copies(h, Put(h, c, n - 2, h[b][w]), l, p, c, n, lost, TRUE)
<1> DEFINE f == Put(h, c, n - 2, h[b][w])
           m == Len(l)
<1>1. /\ f \in HeapType /\ \A a \in Addr \ {c} : f[a] = h[a]
      /\ f[c] \in Words(m)
      /\ \A k \in 0..(m - 1) : k # n - 2 => f[c][k] = h[c][k]
  BY CountRead
<1>2. m \in 0..(SlotMod - 1) /\ DOMAIN l = 1..m /\ m \in Nat /\ n \in 1..m
  BY LayoutFacts, HeapAssumption
<1>3. c \in Addr /\ h[c] \in Words(m)
  BY DEF Copied
<1> HIDE DEF f, m
<1>4. \A i \in DOMAIN l : i # n - 1 => Field(f, c, i) = Field(h, c, i)
  <2> SUFFICES ASSUME NEW i \in DOMAIN l, i # n - 1 PROVE Field(f, c, i) = Field(h, c, i)
    OBVIOUS
  <2>1. i - 1 \in 0..(m - 1) /\ i - 1 # n - 2
    BY <1>2
  <2> QED
    BY <1>1, <2>1 DEF Field
<1>5. \A i \in DOMAIN l \ Stores(l, n) : Field(f, c, i) = Field(h, c, i)
  BY <1>4 DEF Stores
<1>6. /\ \A a \in Own(h, l, p) : f[a] = h[a]
      /\ \A a \in Parts(h, l, c, n) \ {c} : f[a] = h[a]
  <2>1. c \notin Own(h, l, p)
    BY DEF Copied, Parts
  <2> QED
    BY <1>1, <2>1, OwnLive, PartsLive
<1>7. Field(f, c, n) = Uninit
  <2>1. n \in Pointers(l) /\ n >= n /\ n # n - 1
    BY <1>2 DEF Pointers
  <2>2. Field(h, c, n) = Uninit
    BY <2>1 DEF Copied
  <2> QED
    BY <1>4, <2>1, <2>2
<1>8. PointerRead(h, f, l, p, c, n, TRUE)
  BY <1>7 DEF PointerRead
<1>9. /\ Copied(f, l, p, c, n + 1, TRUE)
      /\ Parts(f, l, c, n + 1) \subseteq Parts(h, l, c, n) \cup {Uninit}
      /\ Parts(h, l, c, n) \subseteq Parts(f, l, c, n + 1)
  BY <1>1, <1>5, <1>6, <1>7, <1>8, CopiedNext DEF m
<1>10. Uninit \notin Parts(f, l, c, n + 1)
  BY <1>3, NoPointer DEF Parts
<1>11. \A a \in Addr : h[a] = Freed => f[a] = Freed
  BY <1>1, <1>2, <1>3, WordsLive
<1> QED
  BY <1>1, <1>9, <1>10, <1>11 DEF Copies, f

(* If there is, the array gets a block of its own and the elements.         *)
LEMMA ArrayCopies ==
  ASSUME NEW h \in HeapType, NEW l \in Layouts, NEW p, Object(h, l, p), NEW c,
         NEW n \in DOMAIN l, NEW lost, Copied(h, l, p, c, n, lost), l[n] = "array",
         NEW b, Filled(h, l, p, b, Len(l) + 1), b \notin Parts(h, l, c, n),
         NEW w \in Nat, ~lost => w = Begin(h, l, p, n), AccessFault(h, b, w, 1) = "none",
         NEW r \in Malloc(Put(h, c, n - 2, h[b][w]), Slots(h[b][w])), r.ptr # Null
  PROVE  LET m == Slots(h[b][w]) IN
         /\ Copies(h, Put(Move(r.heap, r.ptr, 0, b, w + 1, m), c, n - 1, r.ptr), l, p, c, n,
                   lost, lost)
         /\ ~lost => MoveFault(r.heap, r.ptr, 0, b, w + 1, m) = "none"
         /\ ~lost => w + (1 + m) = Begin(h, l, p, n + 1)
         /\ m \in Nat
<1> DEFINE v == h[b][w]
           m == Slots(v)
           f == Put(h, c, n - 2, v)
           a == r.ptr
           d == r.heap
           e == Move(d, a, 0, b, w + 1, m)
           g == Put(e, c, n - 1, a)
           len == Len(l)
           s == AllocSize(h, l, p)
<1>1. /\ v \in Nat
      /\ f \in HeapType /\ \A x \in Addr \ {c} : f[x] = h[x]
      /\ f[c] \in Words(len)
      /\ f[c][n - 2] = v
      /\ \A k \in 0..(len - 1) : k # n - 2 => f[c][k] = h[c][k]
  BY CountRead
<1>2. ~lost => v = Count(h, p, n)
  BY CountRead
<1>3. m \in 0..(SlotMod - 1) /\ m \in Nat
  <2> HIDE DEF v
  <2>1. Slots(v) \in 0..(SlotMod - 1)
    BY <1>1, SlotsType
  <2> QED
    BY <2>1, HeapAssumption
<1>4. ~lost => m = Count(h, p, n)
  BY <1>2, ObjectFacts DEF Pointers
<1>5. /\ len \in 0..(SlotMod - 1) /\ DOMAIN l = 1..len /\ len \in Nat /\ n \in 1..len
      /\ n - 1 \in DOMAIN l /\ n < len + 1
  BY LayoutFacts, HeapAssumption
<1>6. c \in Addr /\ h[c] \in Words(len) /\ h[c] # Freed
  BY <1>5, WordsLive DEF Copied
<1>7. /\ b \in Addr /\ h[b] \in Words(s) /\ Written(h, l, p, b, n)
      /\ s \in 0..(SlotMod - 1) /\ s \in Nat
  <2>1. b \in Addr /\ h[b] \in Words(s)
    BY DEF Filled
  <2>2. Written(h, l, p, b, n)
    BY <1>5 DEF Filled
  <2>3. s \in 0..(SlotMod - 1) /\ s \in Nat
    BY RoomLeft, HeapAssumption
  <2> QED
    BY <2>1, <2>2, <2>3
<1>8. /\ Begin(h, l, p, n) \in Nat
      /\ Begin(h, l, p, n + 1) = Begin(h, l, p, n) + (1 + Count(h, p, n))
      /\ Begin(h, l, p, n) + (1 + Count(h, p, n)) <= s
  BY RoomLeft
<1> HIDE DEF v, m, f, len, s
<1>9. /\ d \in HeapType /\ a \in Addr /\ f[a] = Freed
      /\ d[a] = [i \in 0..(m - 1) |-> Uninit]
      /\ \A x \in Addr \ {a} : d[x] = f[x]
  <2>1. r \in Malloc(f, m)
    BY DEF f, m, v
  <2> QED
    BY <1>1, <1>3, <2>1, MallocOutcome
<1> HIDE DEF a, d
<1>10. d[a] \in Words(m)
  BY <1>9 DEF Words, Cell
<1>11. a # c /\ h[a] = Freed
  <2>1. f[c] # Freed
    BY <1>1, <1>5, WordsLive
  <2> QED
    BY <1>1, <1>9, <2>1
<1>12. b # a /\ b # c /\ d[b] = h[b]
  <2>1. h[b] # Freed
    BY <1>7, WordsLive
  <2>2. b # c
    BY DEF Parts
  <2> QED
    BY <1>1, <1>7, <1>9, <1>11, <2>1, <2>2
<1>13. Moved(d, e, a, m, 0, b, w + 1, m)
  BY <1>3, <1>7, <1>9, <1>10, MoveOutcome
<1>14. ~lost => MoveFault(d, a, 0, b, w + 1, m) = "none"
  <2> SUFFICES ASSUME ~lost PROVE MoveFault(d, a, 0, b, w + 1, m) = "none"
    OBVIOUS
  <2>1. w + 1 \in Nat /\ (w + 1) + m <= s /\ 0 + m <= m
    BY <1>3, <1>4, <1>7, <1>8
  <2>2. d[b] \in Words(s)
    BY <1>7, <1>12
  <2> QED
    BY <1>3, <1>7, <1>9, <1>10, <2>1, <2>2, MoveFits
<1> HIDE DEF e
<1>15. /\ e \in HeapType /\ \A x \in Addr \ {a} : e[x] = d[x]
       /\ e[a] \in Words(m)
  BY <1>13 DEF Moved
<1>16. ~lost => \A k \in 0..(m - 1) : e[a][k] = h[b][w + 1 + k]
  <2> SUFFICES ASSUME ~lost, NEW k \in 0..(m - 1) PROVE e[a][k] = h[b][w + 1 + k]
    OBVIOUS
  <2>1. e[a][0 + k] = d[b][w + 1 + k]
    BY <1>13, <1>14 DEF Moved
  <2>2. 0 + k = k
    BY <1>3
  <2> QED
    BY <1>12, <2>1, <2>2
<1>17. e[c] = f[c] /\ e[c] \in Words(len)
  BY <1>1, <1>6, <1>9, <1>11, <1>15
<1>18. /\ g \in HeapType /\ \A x \in Addr \ {c} : g[x] = e[x]
       /\ g[c] \in Words(len) /\ g[c][n - 1] = a
       /\ \A k \in 0..(len - 1) : k # n - 1 => g[c][k] = e[c][k]
  <2>1. n - 1 \in 0..(len - 1) /\ a \in Cell
    BY <1>5, <1>9, SerializationAssumption DEF Cell
  <2> QED
    BY <1>5, <1>6, <1>15, <1>17, <2>1, PutOutcome
<1> HIDE DEF g
<1>19. g[c][n - 2] = v
  <2>1. n - 2 \in 0..(len - 1) /\ n - 2 # n - 1
    BY <1>5
  <2> QED
    BY <1>1, <1>17, <1>18, <2>1
<1>20. \A i \in DOMAIN l \ Stores(l, n) : Field(g, c, i) = Field(h, c, i)
  <2> SUFFICES ASSUME NEW i \in DOMAIN l, i # n, i # n - 1 PROVE Field(g, c, i) = Field(h, c, i)
    BY DEF Stores
  <2>1. i - 1 \in 0..(len - 1) /\ i - 1 # n - 1 /\ i - 1 # n - 2
    BY <1>5
  <2> QED
    BY <1>1, <1>17, <1>18, <2>1 DEF Field
<1>21. \A x \in Addr \ {a, c} : g[x] = h[x]
  <2> SUFFICES ASSUME NEW x \in Addr, x # a, x # c PROVE g[x] = h[x]
    OBVIOUS
  <2>1. g[x] = e[x] /\ e[x] = d[x] /\ d[x] = f[x] /\ f[x] = h[x]
    BY <1>1, <1>9, <1>15, <1>18
  <2> QED
    BY <2>1
<1>22. /\ c \notin Own(h, l, p) /\ a \notin Own(h, l, p) /\ a \notin Parts(h, l, c, n)
       /\ \A x \in Own(h, l, p) : g[x] = h[x]
       /\ \A x \in Parts(h, l, c, n) \ {c} : g[x] = h[x]
  <2>1. c \notin Own(h, l, p)
    BY DEF Copied, Parts
  <2>2. a \notin Own(h, l, p) /\ a \notin Parts(h, l, c, n)
    BY <1>11, OwnLive, PartsLive
  <2> QED
    BY <1>21, <2>1, <2>2, OwnLive, PartsLive
<1>23. Field(g, c, n) = a /\ Count(g, c, n) = v
  BY <1>18, <1>19, <1>5 DEF Field, Count
<1>24. g[a] = e[a] /\ g[a] # Freed
  BY <1>3, <1>9, <1>11, <1>15, <1>18, WordsLive
<1>25. PointerRead(h, g, l, p, c, n, lost)
  BY <1>9, <1>22, <1>23, <1>24 DEF PointerRead
<1>26. ~lost => Same(g, l, p, c, n)
  <2> SUFFICES ASSUME ~lost PROVE Same(g, l, p, c, n)
    OBVIOUS
  <2> DEFINE q == Field(h, p, n)
  <2>1. n \in Pointers(l)
    BY DEF Pointers
  <2>2. Count(g, p, n) = Count(h, p, n) /\ Field(g, p, n) = q /\ (q # Null => g[q] = h[q])
    <3>1. /\ \A i \in DOMAIN l : Field(g, p, i) = Field(h, p, i)
          /\ \A i \in Pointers(l) :
               /\ Count(g, p, i) = Count(h, p, i)
               /\ Field(h, p, i) # Null => g[Field(h, p, i)] = h[Field(h, p, i)]
      BY <1>22, ObjectKept
    <3> QED
      BY <2>1, <3>1
  <2>3. q = Null => Count(h, p, n) = 0
    BY <2>1, NoPointer DEF Object
  <2>4. \A k \in 0..(Count(h, p, n) - 1) : h[b][Begin(h, l, p, n) + 1 + k] = h[q][k]
    BY <1>7 DEF Written
  <2> HIDE DEF q
  <2>5. \A k \in 0..(m - 1) : g[a][k] = g[q][k]
    <3> SUFFICES ASSUME NEW k \in 0..(m - 1) PROVE g[a][k] = g[q][k]
      OBVIOUS
    <3>1. q # Null
      BY <1>3, <1>4, <2>3
    <3>2. g[a][k] = h[b][w + 1 + k]
      BY <1>16, <1>24
    <3>3. h[b][w + 1 + k] = h[q][k]
      BY <1>4, <2>4
    <3> QED
      BY <2>2, <3>1, <3>2, <3>3
  <2> QED
    BY <1>2, <1>4, <1>23, <2>2, <2>5 DEF Same
<1>27. /\ Copied(g, l, p, c, n + 1, lost)
       /\ Parts(g, l, c, n + 1) \subseteq Parts(h, l, c, n) \cup {a}
       /\ Parts(h, l, c, n) \subseteq Parts(g, l, c, n + 1)
       /\ a \in Parts(g, l, c, n + 1)
  <2>1. Field(g, c, n) # Uninit
    BY <1>9, <1>23, NoPointer
  <2> QED
    BY <1>18, <1>20, <1>22, <1>23, <1>25, <1>26, <2>1, CopiedNext DEF len
<1>28. Copies(h, g, l, p, c, n, lost, lost)
  <2>1. \A x \in Addr \ {c} : h[x] # Freed => g[x] = h[x]
    BY <1>11, <1>21
  <2>2. \A x \in Addr : h[x] = Freed /\ g[x] # Freed => x = a
    BY <1>6, <1>21
  <2> QED
    BY <1>9, <1>11, <1>18, <1>27, <2>1, <2>2 DEF Copies
<1>29. ~lost => w + (1 + m) = Begin(h, l, p, n + 1)
  BY <1>4, <1>8
<1> QED
  BY <1>3, <1>14, <1>28, <1>29 DEF g, e, d, a, m, v

-----------------------------------------------------------------------------
(* The steps                                                                *)

(* The object that the client starts with is one, and its blocks are all    *)
(* the memory there is.                                                     *)
LEMMA InitObject ==
  ASSUME Init
  PROVE  /\ heap \in HeapType /\ Object(heap, layout, obj)
         /\ \A a \in Addr : heap[a] # Freed => a \in Own(heap, layout, obj)
<1> DEFINE l == layout
           at == At(l)
           S == {0} \cup Pointers(l)
<1>1. PICK kept \in SUBSET Pointers(l),
           words \in [{i \in DOMAIN l : l[i] = "scalar"} -> Word] :
        \E in \in [kept -> Array] :
          heap = [a \in Addr |->
                    IF a = obj THEN ObjectBlock(l, in, kept, words)
                    ELSE IF \E i \in kept : at[i] = a
                         THEN in[CHOOSE i \in kept : at[i] = a]
                         ELSE Freed]
  BY DEF Init
<1>2. PICK in \in [kept -> Array] :
        heap = [a \in Addr |->
                  IF a = obj THEN ObjectBlock(l, in, kept, words)
                  ELSE IF \E i \in kept : at[i] = a
                       THEN in[CHOOSE i \in kept : at[i] = a]
                       ELSE Freed]
  BY <1>1
<1>3. l \in Layouts /\ obj = at[0]
  BY DEF Init
<1>4. at \in [S -> Addr] /\ \A i \in S, j \in S : at[i] = at[j] => i = j
  <2>1. Injection(S, Addr) # {}
    BY <1>3, SerializationAssumption DEF Fits, ExistsInjection
  <2>2. at \in Injection(S, Addr)
    BY <2>1 DEF At
  <2> QED
    BY <2>2 DEF Injection, IsInjective
<1>5. /\ Len(l) \in 0..(SlotMod - 1) /\ DOMAIN l = 1..Len(l) /\ Len(l) \in Nat
      /\ \A i \in DOMAIN l : l[i] \in Kind
      /\ \A i \in DOMAIN l : l[i] = "array" => i - 1 \in DOMAIN l /\ l[i - 1] = "count"
      /\ \A i \in DOMAIN l : l[i] = "count" => i + 1 \in DOMAIN l /\ l[i + 1] = "array"
  BY <1>3, LayoutFacts, HeapAssumption
<1>6. /\ 0 \in S /\ \A i \in kept : i \in S /\ i \in Pointers(l) /\ i \in DOMAIN l /\ i \in Nat /\ i # 0
  BY <1>5 DEF Pointers
<1> HIDE DEF at, S
<1>7. obj \in Addr
  BY <1>3, <1>4, <1>6
<1>8. ASSUME NEW i \in kept
      PROVE  at[i] \in Addr /\ at[i] # obj /\ heap[at[i]] = in[i]
  <2>1. at[i] \in Addr /\ at[i] # at[0]
    BY <1>4, <1>6, <1>8
  <2>2. (CHOOSE j \in kept : at[j] = at[i]) = i
    BY <1>4, <1>6, <1>8
  <2> QED
    BY <1>2, <1>3, <2>1, <2>2
<1>9. \A a \in Addr : heap[a] # Freed => a = obj \/ \E i \in kept : at[i] = a
  BY <1>2
<1>10. ASSUME NEW i \in kept
       PROVE  \E n \in ArrayLen : in[i] \in [0..(n - 1) -> Word] /\ Cardinality(DOMAIN in[i]) = n
  <2>1. PICK n \in ArrayLen : in[i] \in [0..(n - 1) -> Word]
    BY <1>10 DEF Array
  <2>2. n \in Nat
    BY SerializationAssumption, HeapAssumption
  <2>3. Cardinality(0..(n - 1)) = n
    BY <2>2, FS_Interval
  <2> QED
    BY <2>1, <2>3
<1> DEFINE b == ObjectBlock(l, in, kept, words)
<1>11. heap[obj] = b
  BY <1>2, <1>7
<1>12. ASSUME NEW i \in DOMAIN l
       PROVE  /\ i - 1 \in 0..(Len(l) - 1)
              /\ Field(heap, obj, i) =
                   CASE l[i] = "count"  -> IF i + 1 \in kept THEN Cardinality(DOMAIN in[i + 1]) ELSE 0
                     [] l[i] = "scalar" -> words[i]
                     [] OTHER           -> IF i \in kept THEN at[i] ELSE Null
  <2>1. i - 1 \in 0..(Len(l) - 1) /\ i - 1 + 1 = i
    BY <1>5
  <2> QED
    BY <1>11, <2>1 DEF Field, ObjectBlock, at
<1>13. \A i \in DOMAIN l : l[i] = "scalar" => Field(heap, obj, i) \in Word
  <2> SUFFICES ASSUME NEW i \in DOMAIN l, l[i] = "scalar" PROVE Field(heap, obj, i) \in Word
    OBVIOUS
  <2>1. Field(heap, obj, i) = words[i]
    BY <1>12
  <2> QED
    BY <1>1, <2>1
<1>14. ASSUME NEW i \in Pointers(l)
       PROVE  /\ i \in DOMAIN l /\ l[i] = "array"
              /\ Field(heap, obj, i) = IF i \in kept THEN at[i] ELSE Null
              /\ Count(heap, obj, i) = IF i \in kept THEN Cardinality(DOMAIN in[i]) ELSE 0
  <2>1. i \in DOMAIN l /\ l[i] = "array" /\ i - 1 \in DOMAIN l /\ l[i - 1] = "count" /\ i - 1 + 1 = i
    BY <1>5 DEF Pointers
  <2>2. Field(heap, obj, i) = IF i \in kept THEN at[i] ELSE Null
    BY <1>12, <2>1
  <2>3. Field(heap, obj, i - 1) = IF i \in kept THEN Cardinality(DOMAIN in[i]) ELSE 0
    BY <1>12, <2>1
  <2> QED
    BY <2>1, <2>2, <2>3 DEF Count
<1>15. ASSUME NEW i \in Pointers(l)
       PROVE  /\ Count(heap, obj, i) \in ArrayLen \cup {0}
              /\ \/ Field(heap, obj, i) = Null /\ Count(heap, obj, i) = 0
                 \/ /\ Field(heap, obj, i) \in Addr
                    /\ heap[Field(heap, obj, i)] \in [0..(Count(heap, obj, i) - 1) -> Word]
  BY <1>8, <1>10, <1>14
<1>16. heap[obj] \in Words(Len(l))
  <2>1. b = [k \in 0..(Len(l) - 1) |-> b[k]]
    BY DEF ObjectBlock
  <2>2. ASSUME NEW k \in 0..(Len(l) - 1) PROVE b[k] \in Cell
    <3>1. k + 1 \in DOMAIN l /\ k + 1 - 1 = k /\ l[k + 1] \in Kind
      BY <1>5
    <3>2. b[k] = Field(heap, obj, k + 1)
      BY <1>11, <3>1 DEF Field
    <3>3. CASE l[k + 1] = "count"
      <4>1. (k + 1) + 1 \in Pointers(l) /\ (k + 1) + 1 - 1 = k + 1
        BY <1>5, <3>1, <3>3 DEF Pointers
      <4>2. Field(heap, obj, k + 1) \in ArrayLen \cup {0}
        BY <1>15, <4>1 DEF Count
      <4>3. ArrayLen \cup {0} \subseteq 0..(SlotMod - 1) /\ 0..(SlotMod - 1) \subseteq Cell
        BY SerializationAssumption, HeapAssumption DEF Cell
      <4> QED
        BY <3>2, <4>2, <4>3
    <3>4. CASE l[k + 1] = "scalar"
      BY <1>13, <3>1, <3>2, <3>4, SerializationAssumption DEF Cell
    <3>5. CASE l[k + 1] = "array"
      <4>1. k + 1 \in Pointers(l)
        BY <3>1, <3>5 DEF Pointers
      <4>2. Field(heap, obj, k + 1) \in Addr \cup {Null}
        BY <1>15, <4>1
      <4> QED
        BY <3>2, <4>2, SerializationAssumption DEF Cell
    <3> QED
      BY <3>1, <3>3, <3>4, <3>5 DEF Kind
  <2> HIDE DEF b
  <2> QED
    BY <1>11, <2>1, <2>2 DEF Words
<1>17. Object(heap, l, obj)
  BY <1>7, <1>13, <1>15, <1>16 DEF Object
<1>18. heap \in HeapType
  <2>1. \A a \in Addr : heap[a] = Freed \/ heap[a] \in Block
    <3> SUFFICES ASSUME NEW a \in Addr, heap[a] # Freed PROVE heap[a] \in Block
      OBVIOUS
    <3>1. CASE a = obj
      BY <1>5, <1>16, <3>1, WordsLive
    <3>2. CASE a # obj
      <4>1. PICK i \in kept : at[i] = a
        BY <1>9, <3>2
      <4>2. PICK n \in ArrayLen : in[i] \in [0..(n - 1) -> Word]
        BY <1>10
      <4>3. n \in 0..(SlotMod - 1) /\ Word \subseteq Cell
        BY SerializationAssumption DEF Cell
      <4>4. heap[a] \in [0..(n - 1) -> Cell]
        BY <1>8, <4>1, <4>2, <4>3
      <4> QED
        BY <4>3, <4>4, BlockIntro
    <3> QED
      BY <3>1, <3>2
  <2>2. DOMAIN heap = Addr /\ heap = [a \in Addr |-> heap[a]]
    BY <1>2
  <2> QED
    BY <2>1, <2>2 DEF HeapType
<1>19. \A a \in Addr : heap[a] # Freed => a \in Own(heap, l, obj)
  <2> SUFFICES ASSUME NEW a \in Addr, heap[a] # Freed, a # obj PROVE a \in Own(heap, l, obj)
    BY DEF Own
  <2>1. PICK i \in kept : at[i] = a
    BY <1>9
  <2>2. Field(heap, obj, i) = a
    BY <1>6, <1>14, <2>1
  <2> QED
    BY <1>6, <2>2, NoPointer DEF Own
<1> QED
  BY <1>17, <1>18, <1>19

(* The object is untouched if its blocks are; then so are the buffer and    *)
(* the copy if theirs are.                                                  *)
LEMMA Frame ==
  ASSUME SInv, UNCHANGED <<layout, obj>>,
         \A a \in Own(heap, layout, obj) : heap'[a] = heap[a]
  PROVE  /\ Object(heap', layout, obj)
         /\ Own(heap', layout, obj) = Own(heap, layout, obj)
         /\ AllocSize(heap', layout, obj) = AllocSize(heap, layout, obj)
         /\ \A i : Begin(heap', layout, obj, i) = Begin(heap, layout, obj, i)
         /\ buf # Null /\ heap'[buf] = heap[buf] =>
              Filled(heap', layout, obj, buf, Len(layout) + 1)
         /\ copy # Null /\ (\A a \in Parts(heap, layout, copy, Len(layout) + 1) : heap'[a] = heap[a]) =>
              /\ Copied(heap', layout, obj, copy, Len(layout) + 1, short)
              /\ Parts(heap', layout, copy, Len(layout) + 1) = Parts(heap, layout, copy, Len(layout) + 1)
              /\ AllocSize(heap', layout, copy) = AllocSize(heap, layout, copy)
<1>1. layout \in Layouts /\ Object(heap, layout, obj)
  BY DEF SInv, Types
<1>2. /\ Object(heap', layout, obj)
      /\ Own(heap', layout, obj) = Own(heap, layout, obj)
      /\ Widths(heap', layout, obj) = Widths(heap, layout, obj)
      /\ AllocSize(heap', layout, obj) = AllocSize(heap, layout, obj)
  BY <1>1, ObjectKept
<1>3. \A i : Begin(heap', layout, obj, i) = Begin(heap, layout, obj, i)
  BY <1>2 DEF Begin
<1>4. buf # Null /\ heap'[buf] = heap[buf] => Filled(heap', layout, obj, buf, Len(layout) + 1)
  <2>1. buf # Null => Filled(heap, layout, obj, buf, Len(layout) + 1)
    BY DEF SInv, BufferInv
  <2> QED
    BY <1>1, <2>1, FilledKept
<1>5. ASSUME copy # Null,
             \A a \in Parts(heap, layout, copy, Len(layout) + 1) : heap'[a] = heap[a]
      PROVE  /\ Copied(heap', layout, obj, copy, Len(layout) + 1, short)
             /\ Parts(heap', layout, copy, Len(layout) + 1) = Parts(heap, layout, copy, Len(layout) + 1)
             /\ AllocSize(heap', layout, copy) = AllocSize(heap, layout, copy)
  <2>1. Copied(heap, layout, obj, copy, Len(layout) + 1, short)
    BY <1>5 DEF SInv, CopyInv
  <2> QED
    BY <1>1, <1>5, <2>1, CopiedKept
<1> QED
  BY <1>2, <1>3, <1>4, <1>5

(* When no call runs, its locals are in order as well.                      *)
LEMMA StoppedType ==
  ASSUME NEW l \in Layouts
  PROVE  Stopped \in [at : Addr \cup {Null}, field : 0..(Len(l) + 1), word : Nat]
<1>1. Len(l) \in Nat
  BY LayoutFacts
<1>2. 0 \in 0..(Len(l) + 1)
  BY <1>1
<1> QED
  BY <1>2 DEF Stopped

(* What a client has is live.                                               *)
LEMMA ClientLive ==
  ASSUME SInv
  PROVE  /\ \A a \in Own(heap, layout, obj) : a \in Addr /\ heap[a] # Freed
         /\ buf # Null => buf \in Addr /\ heap[buf] # Freed
         /\ copy # Null => \A a \in Parts(heap, layout, copy, Len(layout) + 1) :
                             a \in Addr /\ heap[a] # Freed
<1>1. layout \in Layouts /\ Object(heap, layout, obj)
  BY DEF SInv, Types
<1>2. \A a \in Own(heap, layout, obj) : a \in Addr /\ heap[a] # Freed
  BY <1>1, OwnLive
<1>3. buf # Null => buf \in Addr /\ heap[buf] # Freed
  <2>1. buf # Null => buf \in Addr /\ heap[buf] \in Words(AllocSize(heap, layout, obj))
    BY DEF SInv, BufferInv, Filled
  <2>2. AllocSize(heap, layout, obj) \in 0..(SlotMod - 1)
    BY <1>1, ObjectFacts, HeapAssumption
  <2> QED
    BY <2>1, <2>2, WordsLive
<1>4. copy # Null => \A a \in Parts(heap, layout, copy, Len(layout) + 1) :
                       a \in Addr /\ heap[a] # Freed
  <2>1. copy # Null => Copied(heap, layout, obj, copy, Len(layout) + 1, short)
    BY DEF SInv, CopyInv
  <2> QED
    BY <1>1, <2>1, PartsLive
<1> QED
  BY <1>2, <1>3, <1>4

(* A step of the serializer that keeps to its block keeps the invariant.    *)
LEMMA SerializeKeeps ==
  ASSUME SInv, buf = Null, NEW b \in Addr, NEW n \in 1..(Len(layout) + 1),
         b \notin Own(heap, layout, obj),
         copy # Null => b \notin Parts(heap, layout, copy, Len(layout) + 1),
         Fills(heap, heap', layout, obj, b, n),
         run' = [at |-> b, field |-> n, word |-> Begin(heap, layout, obj, n)],
         Begin(heap, layout, obj, n) \in Nat,
         pc' = "serialize", UNCHANGED <<layout, obj, buf, copy, short, ok>>,
         fault' \in {"none", "null", "bounds", "dangling"}
  PROVE  SInv'
<1>1. /\ heap' \in HeapType /\ Filled(heap', layout, obj, b, n)
      /\ \A a \in Addr \ {b} : heap'[a] = heap[a]
  BY DEF Fills
<1>2. \A a \in Own(heap, layout, obj) : heap'[a] = heap[a]
  BY <1>1, ClientLive
<1>3. copy # Null => \A a \in Parts(heap, layout, copy, Len(layout) + 1) : heap'[a] = heap[a]
  BY <1>1, ClientLive
<1>4. /\ Object(heap', layout, obj)
      /\ Own(heap', layout, obj) = Own(heap, layout, obj)
      /\ AllocSize(heap', layout, obj) = AllocSize(heap, layout, obj)
      /\ Begin(heap', layout, obj, n) = Begin(heap, layout, obj, n)
      /\ copy # Null =>
           /\ Copied(heap', layout, obj, copy, Len(layout) + 1, short)
           /\ Parts(heap', layout, copy, Len(layout) + 1) = Parts(heap, layout, copy, Len(layout) + 1)
           /\ AllocSize(heap', layout, copy) = AllocSize(heap, layout, copy)
  BY <1>2, <1>3, Frame
<1>5. Len(layout) \in Nat
  BY LayoutFacts DEF SInv, Types
<1>6. b # Null
  BY NoPointer
<1>7. Types'
  BY <1>1, <1>5 DEF SInv, Types
<1>8. CopyInv'
  <2>1. copy # Null => AllocSize(heap, layout, copy) = AllocSize(heap, layout, obj)
                       /\ buf \notin Parts(heap, layout, copy, Len(layout) + 1)
    BY DEF SInv, CopyInv
  <2> QED
    BY <1>4, <2>1 DEF CopyInv
<1>9. SerializeInv'
  BY <1>1, <1>4 DEF SerializeInv
<1> QED
  BY <1>4, <1>5, <1>6, <1>7, <1>8, <1>9 DEF SInv, RunPlaced, BufferInv, DeserializeInv

(* A step of the deserializer that stores in its struct and in memory that  *)
(* was vacant keeps the invariant.                                          *)
LEMMA DeserializeKeeps ==
  ASSUME SInv, buf # Null, copy = Null, NEW c \in Addr, NEW n \in 1..(Len(layout) + 1),
         heap' \in HeapType,
         \A a \in Addr \ {c} : heap[a] # Freed => heap'[a] = heap[a],
         c \notin Own(heap, layout, obj), c # buf,
         Copied(heap', layout, obj, c, n, short'),
         buf \notin Parts(heap', layout, c, n),
         run'.at = c, run'.field = n, run' \in [at : Addr, field : Nat, word : Nat],
         ~short' => run'.word = Begin(heap, layout, obj, n),
         pc' = "deserialize", UNCHANGED <<layout, obj, buf, copy, ok>>,
         short' \in BOOLEAN, fault' \in {"none", "null", "bounds", "dangling"}
  PROVE  SInv'
<1>1. \A a \in Own(heap, layout, obj) : heap'[a] = heap[a]
  BY ClientLive
<1>2. heap'[buf] = heap[buf]
  BY ClientLive
<1>3. /\ Object(heap', layout, obj)
      /\ Own(heap', layout, obj) = Own(heap, layout, obj)
      /\ Begin(heap', layout, obj, n) = Begin(heap, layout, obj, n)
      /\ Filled(heap', layout, obj, buf, Len(layout) + 1)
  BY <1>1, <1>2, Frame
<1>4. Len(layout) \in Nat
  BY LayoutFacts DEF SInv, Types
<1>5. run' \in [at : Addr \cup {Null}, field : 0..(Len(layout) + 1), word : Nat]
  BY <1>4
<1>6. Types'
  BY <1>5 DEF SInv, Types
<1>7. BufferInv'
  BY <1>3 DEF SInv, BufferInv
<1>8. DeserializeInv'
  BY <1>3 DEF DeserializeInv
<1>9. RunPlaced'
  BY <1>4, NoPointer DEF RunPlaced
<1> QED
  BY <1>3, <1>6, <1>7, <1>8, <1>9 DEF SInv, CopyInv, SerializeInv

(* The memory that the client and the call that is running have.            *)
Known ==
  Own(heap, layout, obj) \cup {buf}
    \cup (IF copy = Null THEN {} ELSE Parts(heap, layout, copy, Len(layout) + 1))
    \cup (IF pc = "serialize" THEN {run.at} ELSE {})
    \cup (IF pc = "deserialize" THEN Parts(heap, layout, run.at, run.field) ELSE {})

(* What is leaked is the rest.                                              *)
LEMMA LeakedIs == SInv => Leaked = Allocated(heap) \ Known
<1> SUFFICES ASSUME SInv PROVE Leaked = Allocated(heap) \ Known
  OBVIOUS
<1>1. ObjectBlocks = Own(heap, layout, obj)
  BY DEF ObjectBlocks, Own
<1>2. Null \notin Addr /\ Uninit \notin Addr
  BY NoPointer
<1>3. copy # Null => \A a \in Addr : a \in BlocksOf(heap, layout, copy) <=>
                                     a \in Parts(heap, layout, copy, Len(layout) + 1)
  <2>1. \A i \in Pointers(layout) : i < Len(layout) + 1
    BY LayoutFacts DEF SInv, Types, Pointers
  <2> QED
    BY <1>2, <2>1 DEF BlocksOf, ArraysOf, Parts, Pointers
<1>4. copy = Null => BlocksOf(heap, layout, copy) = {}
  BY DEF BlocksOf
<1>5. pc = "idle" => Running = {}
  BY DEF Running
<1>6. pc = "serialize" => Running = {run.at}
  BY DEF Running
<1>7. pc = "deserialize" => \A a \in Addr : a \in Running <=> a \in Parts(heap, layout, run.at, run.field)
  BY <1>2 DEF Running, Parts, Pointers
<1>8. pc \in {"idle", "serialize", "deserialize"}
  BY DEF SInv, Types
<1> QED
  BY <1>1, <1>3, <1>4, <1>5, <1>6, <1>7, <1>8 DEF Leaked, Known, Allocated

(* No step loses what was known, or keeps back what it was given.           *)
LEMMA NothingLost ==
  ASSUME SInv, SInv', \A a \in Addr : heap'[a] # Freed => a \in Known' \/ (heap[a] # Freed /\ a \notin Known)
  PROVE  Leaked' \subseteq Leaked
<1>1. Leaked = Allocated(heap) \ Known
  BY LeakedIs
<1>2. Leaked' = Allocated(heap') \ Known'
  <2>1. (SInv => Leaked = Allocated(heap) \ Known)'
    BY LeakedIs, PTL
  <2> QED
    BY <2>1
<1> QED
  BY <1>1, <1>2 DEF Allocated

(* What is proved of every step: it keeps the invariant, changes nothing of *)
(* the object, and is the kind of step that may leak or fault if it does.   *)
StepShows ==
  /\ SInv'
  /\ \A a \in Own(heap, layout, obj) : heap'[a] = heap[a]
  /\ Leaked' \subseteq Leaked \/ (pc = "deserialize" /\ pc' = "idle" /\ ~ok' /\ short)
  /\ fault' # "none" => (PassesNull /\ pc = "idle" /\ buf = Null) \/ short

(* A step that changes neither the heap nor who has what.                   *)
LEMMA CalmStep ==
  ASSUME SInv, UNCHANGED <<heap, layout, obj, buf, copy, pc, run, short>>, ok' \in BOOLEAN,
         fault' \in {"none", "null", "bounds", "dangling"},
         fault' # "none" => (PassesNull /\ pc = "idle" /\ buf = Null) \/ short
  PROVE  StepShows
<1>1. SInv'
  BY DEF SInv, Types, RunPlaced, BufferInv, CopyInv, SerializeInv, DeserializeInv
<1>2. Leaked' = Leaked
  BY DEF Leaked, ObjectBlocks, Running
<1> QED
  BY <1>1, <1>2 DEF StepShows

(* The position moves on.                                                   *)
LEMMA Advanced ==
  ASSUME run \in [at : Addr, field : Nat, word : Nat], NEW n \in Nat, Advance(n)
  PROVE  run' = [at |-> run.at, field |-> run.field + 1, word |-> run.word + n]
<1> DEFINE s == [run EXCEPT !.field = run.field + 1]
           u == [s EXCEPT !.word = run.word + n]
<1>1. s = [at |-> run.at, field |-> run.field + 1, word |-> run.word]
  OBVIOUS
<1>2. run' = u
  BY Zenon DEF Advance
<1> HIDE DEF s
<1>3. u = [at |-> run.at, field |-> run.field + 1, word |-> run.word + n]
  BY <1>1
<1> QED
  BY <1>2, <1>3

(* What holds while the serializer runs.                                    *)
LEMMA WhileSerializing ==
  ASSUME SInv, pc = "serialize", run.field \in DOMAIN layout
  PROVE  /\ heap \in HeapType /\ layout \in Layouts /\ Object(heap, layout, obj) /\ buf = Null
         /\ run.at \in Addr /\ run.at \notin Own(heap, layout, obj)
         /\ copy # Null => run.at \notin Parts(heap, layout, copy, Len(layout) + 1)
         /\ Filled(heap, layout, obj, run.at, run.field)
         /\ run.word = Begin(heap, layout, obj, run.field) /\ run.word \in Nat
         /\ run.field \in Nat /\ run.field + 1 \in 1..(Len(layout) + 1)
         /\ run \in [at : Addr, field : Nat, word : Nat]
<1>1. DOMAIN layout = 1..Len(layout) /\ Len(layout) \in Nat
  BY LayoutFacts DEF SInv, Types
<1>2. run.at \in Addr /\ Filled(heap, layout, obj, run.at, run.field)
  BY DEF SInv, SerializeInv, Filled
<1> QED
  BY <1>1, <1>2 DEF SInv, Types, SerializeInv

(* A step of the serializer that writes its field keeps everything.         *)
LEMMA SerializeShows ==
  ASSUME SInv, pc = "serialize", run.field \in DOMAIN layout,
         Fills(heap, heap', layout, obj, run.at, run.field + 1),
         NEW n \in Nat, Advance(n),
         Begin(heap, layout, obj, run.field + 1) = Begin(heap, layout, obj, run.field) + n,
         UNCHANGED <<layout, obj, buf, copy, pc, short, ok>>, fault' = "none"
  PROVE  StepShows
<1>1. /\ buf = Null /\ run.at \in Addr /\ run.at \notin Own(heap, layout, obj)
      /\ copy # Null => run.at \notin Parts(heap, layout, copy, Len(layout) + 1)
      /\ run.word = Begin(heap, layout, obj, run.field) /\ run.word \in Nat
      /\ run.field + 1 \in 1..(Len(layout) + 1)
      /\ run' = [at |-> run.at, field |-> run.field + 1, word |-> run.word + n]
  BY WhileSerializing, Advanced
<1>2. SInv'
  <2>1. run.word + n = Begin(heap, layout, obj, run.field + 1) /\ run.word + n \in Nat
    BY <1>1
  <2> QED
    BY <1>1, <2>1, SerializeKeeps
<1>3. \A a \in Addr \ {run.at} : heap'[a] = heap[a]
  BY DEF Fills
<1>4. \A a \in Own(heap, layout, obj) : heap'[a] = heap[a]
  BY <1>1, <1>3, ClientLive
<1>5. Known' = Known
  <2>1. Own(heap', layout, obj) = Own(heap, layout, obj)
    BY <1>4, Frame
  <2>2. copy # Null => Parts(heap', layout, copy, Len(layout) + 1) = Parts(heap, layout, copy, Len(layout) + 1)
    BY <1>1, <1>3, <1>4, ClientLive, Frame
  <2>3. run'.at = run.at
    BY <1>1
  <2> QED
    BY <2>1, <2>2, <2>3 DEF Known
<1>6. Leaked' \subseteq Leaked
  <2>1. run.at \in Known
    BY DEF Known
  <2> QED
    BY <1>2, <1>3, <1>5, <2>1, NothingLost
<1> QED
  BY <1>2, <1>4, <1>6 DEF StepShows

(* serialize allocates the buffer and writes its size, or returns NULL.     *)
LEMMA SerializeStartShows ==
  ASSUME SInv, fault = "none", SerializeStart
  PROVE  StepShows
<1>1. /\ heap \in HeapType /\ layout \in Layouts /\ Object(heap, layout, obj)
      /\ pc = "idle" /\ buf = Null
      /\ UNCHANGED <<layout, obj, buf, copy, short, fault>>
  BY DEF SInv, Types, SerializeStart
<1>2. PICK r \in Malloc(heap, AllocSize(heap, layout, obj)) :
        IF r.ptr = Null
          THEN ok' = FALSE /\ UNCHANGED <<heap, pc, run>>
          ELSE /\ heap' = Put(r.heap, r.ptr, 0, AllocSize(heap, layout, obj))
               /\ run' = [at |-> r.ptr, field |-> 1, word |-> 1]
               /\ pc' = "serialize"
               /\ UNCHANGED ok
  BY DEF SerializeStart
<1>3. CASE r.ptr = Null
  BY <1>1, <1>2, <1>3, CalmStep
<1>4. CASE r.ptr # Null
  <2> DEFINE b == r.ptr
  <2>1. b \in Addr /\ heap[b] = Freed /\ Fills(heap, heap', layout, obj, b, 1)
        /\ Begin(heap, layout, obj, 1) = 1
    BY <1>1, <1>2, <1>4, StartFills
  <2> HIDE DEF b
  <2>2. b \notin Own(heap, layout, obj) /\ (copy # Null => b \notin Parts(heap, layout, copy, Len(layout) + 1))
    BY <2>1, ClientLive
  <2>3. Len(layout) \in Nat /\ 1 \in 1..(Len(layout) + 1)
    BY <1>1, LayoutFacts
  <2>4. run' = [at |-> b, field |-> 1, word |-> Begin(heap, layout, obj, 1)] /\ pc' = "serialize"
        /\ UNCHANGED ok
    BY <1>2, <1>4, <2>1 DEF b
  <2>5. SInv'
    BY <1>1, <2>1, <2>2, <2>3, <2>4, SerializeKeeps
  <2>6. \A a \in Addr \ {b} : heap'[a] = heap[a]
    BY <2>1 DEF Fills
  <2>7. \A a \in Own(heap, layout, obj) : heap'[a] = heap[a]
    BY <2>1, <2>6, ClientLive
  <2>8. Known' = Known \cup {b}
    <3>1. Own(heap', layout, obj) = Own(heap, layout, obj)
      BY <1>1, <2>7, Frame
    <3>2. copy # Null => Parts(heap', layout, copy, Len(layout) + 1) = Parts(heap, layout, copy, Len(layout) + 1)
      BY <1>1, <2>1, <2>6, <2>7, ClientLive, Frame
    <3>3. run'.at = b
      BY <2>4
    <3> QED
      BY <1>1, <2>4, <3>1, <3>2, <3>3 DEF Known
  <2>9. Leaked' \subseteq Leaked
    BY <2>5, <2>6, <2>8, NothingLost
  <2> QED
    BY <1>1, <2>5, <2>7, <2>9 DEF StepShows
<1> QED
  BY <1>3, <1>4

(* A count is left to its array.                                            *)
LEMMA SerializeCountShows ==
  ASSUME SInv, fault = "none", SerializeCount
  PROVE  StepShows
<1>1. pc = "serialize" /\ run.field \in DOMAIN layout /\ layout[run.field] = "count"
      /\ Advance(0) /\ UNCHANGED <<heap, layout, obj, buf, copy, pc, short, ok, fault>>
  BY DEF SerializeCount, Serializing, Kinds
<1>2. /\ heap \in HeapType /\ layout \in Layouts /\ Object(heap, layout, obj)
      /\ Filled(heap, layout, obj, run.at, run.field) /\ run.at \notin Own(heap, layout, obj)
      /\ run.word = Begin(heap, layout, obj, run.field) /\ run.word \in Nat
  BY <1>1, WhileSerializing
<1>3. /\ Fills(heap, heap, layout, obj, run.at, run.field + 1)
      /\ Begin(heap, layout, obj, run.field + 1) = Begin(heap, layout, obj, run.field)
  BY <1>1, <1>2, CountFills
<1>4. Fills(heap, heap', layout, obj, run.at, run.field + 1)
  BY <1>1, <1>3
<1>5. Begin(heap, layout, obj, run.field + 1) = Begin(heap, layout, obj, run.field) + 0 /\ 0 \in Nat
  BY <1>2, <1>3
<1>6. fault' = "none"
  BY <1>1
<1> QED
  BY <1>1, <1>4, <1>5, <1>6, SerializeShows

(* A scalar is written behind the fields before it.                         *)
LEMMA SerializeScalarShows ==
  ASSUME SInv, fault = "none", SerializeScalar
  PROVE  StepShows
<1>1. /\ pc = "serialize" /\ run.field \in DOMAIN layout /\ layout[run.field] = "scalar"
      /\ Advance(1) /\ UNCHANGED <<layout, obj, buf, copy, pc, short, ok>>
      /\ heap' = Put(heap, run.at, run.word, Field(heap, obj, run.field))
      /\ fault' = AccessFault(heap, run.at, run.word, 1)
  BY DEF SerializeScalar, Serializing, Kinds
<1>2. /\ heap \in HeapType /\ layout \in Layouts /\ Object(heap, layout, obj)
      /\ Filled(heap, layout, obj, run.at, run.field) /\ run.at \notin Own(heap, layout, obj)
      /\ run.word = Begin(heap, layout, obj, run.field) /\ run.word \in Nat
  BY <1>1, WhileSerializing
<1>3. /\ Fills(heap, heap', layout, obj, run.at, run.field + 1)
      /\ Begin(heap, layout, obj, run.field + 1) = Begin(heap, layout, obj, run.field) + 1
      /\ AccessFault(heap, run.at, run.word, 1) = "none"
  BY <1>1, <1>2, ScalarFills
<1>4. fault' = "none" /\ 1 \in Nat
  BY <1>1, <1>3
<1> QED
  BY <1>1, <1>3, <1>4, SerializeShows

(* An array is written with its count.                                      *)
LEMMA SerializeArrayShows ==
  ASSUME SInv, fault = "none", SerializeArray
  PROVE  StepShows
<1> DEFINE m == Count(heap, obj, run.field)
           f == Put(heap, run.at, run.word, m)
           q == Field(heap, obj, run.field)
<1>1. /\ pc = "serialize" /\ run.field \in DOMAIN layout /\ layout[run.field] = "array"
      /\ Advance(1 + m) /\ UNCHANGED <<layout, obj, buf, copy, pc, short, ok>>
      /\ heap' = Move(f, run.at, run.word + 1, q, 0, m)
      /\ fault' = IF AccessFault(heap, run.at, run.word, 1) # "none"
                    THEN "bounds"
                    ELSE MoveFault(f, run.at, run.word + 1, q, 0, m)
  BY DEF SerializeArray, Serializing, Kinds
<1>2. /\ heap \in HeapType /\ layout \in Layouts /\ Object(heap, layout, obj)
      /\ Filled(heap, layout, obj, run.at, run.field) /\ run.at \notin Own(heap, layout, obj)
      /\ run.word = Begin(heap, layout, obj, run.field) /\ run.word \in Nat
  BY <1>1, WhileSerializing
<1>3. /\ Fills(heap, heap', layout, obj, run.at, run.field + 1)
      /\ Begin(heap, layout, obj, run.field + 1) = Begin(heap, layout, obj, run.field) + (1 + m)
      /\ AccessFault(heap, run.at, run.word, 1) = "none"
      /\ MoveFault(f, run.at, run.word + 1, q, 0, m) = "none"
  BY <1>1, <1>2, ArrayFills
<1>4. m \in Nat /\ 1 + m \in Nat
  <2>1. m \in Nat
    BY <1>1, <1>2, ObjectFacts DEF Counted, Pointers
  <2> QED
    BY <2>1
<1>5. fault' = "none"
  BY <1>1, <1>3
<1> HIDE DEF m, f, q
<1> QED
  BY <1>1, <1>3, <1>4, <1>5, SerializeShows

(* serialize returns the buffer.                                            *)
LEMMA SerializeReturnShows ==
  ASSUME SInv, fault = "none", SerializeReturn
  PROVE  StepShows
<1>1. /\ pc = "serialize" /\ run.field > Len(layout) /\ buf' = run.at /\ ok' = TRUE /\ pc' = "idle"
      /\ run' = Stopped /\ UNCHANGED <<heap, layout, obj, copy, short, fault>>
  BY DEF SerializeReturn
<1>2. Len(layout) \in Nat
  BY LayoutFacts DEF SInv, Types
<1>3. run.field = Len(layout) + 1 /\ run.at \in Addr
  BY <1>1, <1>2 DEF SInv, Types, RunPlaced
<1>4. /\ buf = Null /\ Filled(heap, layout, obj, run.at, Len(layout) + 1)
      /\ run.at \notin Own(heap, layout, obj)
      /\ copy # Null => run.at \notin Parts(heap, layout, copy, Len(layout) + 1)
  BY <1>1, <1>3 DEF SInv, SerializeInv
<1>5. SInv'
  <2>1. Types'
    BY <1>1, <1>2, <1>3 DEF SInv, Types, Stopped
  <2>2. BufferInv'
    BY <1>1, <1>4 DEF BufferInv
  <2>3. CopyInv'
    BY <1>1, <1>4 DEF SInv, CopyInv
  <2> QED
    BY <1>1, <2>1, <2>2, <2>3 DEF SInv, RunPlaced, SerializeInv, DeserializeInv
<1>6. Known \ {Null} \subseteq Known'
  BY <1>1, <1>4 DEF Known
<1>7. Leaked' \subseteq Leaked
  BY <1>1, <1>5, <1>6, NoPointer, NothingLost
<1> QED
  BY <1>1, <1>5, <1>7 DEF StepShows

(* A NULL buffer is read.                                                   *)
LEMMA DeserializeNullShows ==
  ASSUME SInv, fault = "none", DeserializeNull
  PROVE  StepShows
<1>1. UNCHANGED <<heap, layout, obj, buf, copy, pc, run, short>> /\ ok' \in BOOLEAN
      /\ fault' = "null" /\ PassesNull /\ pc = "idle" /\ buf = Null
  BY DEF DeserializeNull, SInv, Types
<1> QED
  BY <1>1, CalmStep

(* deserialize allocates the struct, or returns NULL.                       *)
LEMMA DeserializeStartShows ==
  ASSUME SInv, fault = "none", DeserializeStart
  PROVE  StepShows
<1>1. /\ heap \in HeapType /\ layout \in Layouts /\ Object(heap, layout, obj)
      /\ pc = "idle" /\ buf # Null /\ copy = Null /\ short' = FALSE
      /\ UNCHANGED <<layout, obj, buf, copy, fault>>
  BY DEF SInv, Types, DeserializeStart
<1>2. PICK r \in Malloc(heap, Len(layout)) :
        IF r.ptr = Null
          THEN ok' = FALSE /\ UNCHANGED <<heap, pc, run>>
          ELSE /\ heap' = r.heap
               /\ run' = [at |-> r.ptr, field |-> 1, word |-> 1]
               /\ pc' = "deserialize"
               /\ UNCHANGED ok
  BY DEF DeserializeStart
<1>3. CASE r.ptr = Null
  <2>1. UNCHANGED <<heap, layout, obj, buf, copy, pc, run>> /\ ok' = FALSE /\ short' = FALSE /\ fault' = "none"
    BY <1>1, <1>2, <1>3
  <2>2. SInv'
    BY <1>1, <2>1 DEF SInv, Types, RunPlaced, BufferInv, CopyInv, SerializeInv, DeserializeInv
  <2>3. Leaked' = Leaked
    BY <2>1 DEF Leaked, ObjectBlocks, Running
  <2> QED
    BY <2>1, <2>2, <2>3 DEF StepShows
<1>4. CASE r.ptr # Null
  <2> DEFINE c == r.ptr
  <2>1. /\ c \in Addr /\ heap[c] = Freed /\ heap' \in HeapType
        /\ \A a \in Addr \ {c} : heap'[a] = heap[a]
        /\ Copied(heap', layout, obj, c, 1, FALSE)
        /\ Parts(heap', layout, c, 1) = {c}
    <3>1. heap' = r.heap
      BY <1>2, <1>4
    <3> QED
      BY <1>1, <1>4, <3>1, CopyStarts
  <2>2. run' = [at |-> c, field |-> 1, word |-> 1] /\ pc' = "deserialize" /\ UNCHANGED ok
    BY <1>2, <1>4
  <2> HIDE DEF c
  <2>3. c \notin Own(heap, layout, obj) /\ c # buf /\ \A a \in Own(heap, layout, obj) : heap'[a] = heap[a]
    BY <1>1, <2>1, ClientLive
  <2>4. Len(layout) \in Nat /\ 1 \in 1..(Len(layout) + 1) /\ Begin(heap, layout, obj, 1) = 1
    <3>1. Len(layout) \in Nat /\ Counted(heap, layout, obj)
      BY <1>1, LayoutFacts, ObjectFacts
    <3>2. Begin(heap, layout, obj, 1) = 1
      BY <1>1, <3>1, BeginNext
    <3>3. 1 \in 1..(Len(layout) + 1)
      BY <3>1
    <3> QED
      BY <3>1, <3>2, <3>3
  <2>5. SInv'
    <3>1. run' \in [at : Addr, field : Nat, word : Nat] /\ run'.at = c /\ run'.field = 1 /\ run'.word = 1
      BY <2>1, <2>2
    <3>2. Copied(heap', layout, obj, c, 1, short')
      BY <1>1, <2>1
    <3>3. short' \in BOOLEAN /\ fault' = "none" /\ buf \notin Parts(heap', layout, c, 1)
      BY <1>1, <2>1, <2>3
    <3> QED
      BY <1>1, <2>1, <2>2, <2>3, <2>4, <3>1, <3>2, <3>3, DeserializeKeeps
  <2>6. Own(heap', layout, obj) = Own(heap, layout, obj)
    BY <1>1, <2>3, Frame
  <2>7. Known' = Known \cup {c}
    BY <1>1, <2>1, <2>2, <2>6 DEF Known
  <2>8. Leaked' \subseteq Leaked
    BY <2>1, <2>5, <2>7, NothingLost
  <2> QED
    BY <1>1, <2>3, <2>5, <2>8 DEF StepShows
<1> QED
  BY <1>3, <1>4

(* What holds while the deserializer runs.                                  *)
LEMMA WhileDeserializing ==
  ASSUME SInv, pc = "deserialize", run.field \in DOMAIN layout
  PROVE  /\ heap \in HeapType /\ layout \in Layouts /\ Object(heap, layout, obj)
         /\ buf # Null /\ copy = Null
         /\ Filled(heap, layout, obj, buf, Len(layout) + 1)
         /\ run.at \in Addr /\ run.at \notin Own(heap, layout, obj)
         /\ Copied(heap, layout, obj, run.at, run.field, short)
         /\ buf \notin Parts(heap, layout, run.at, run.field)
         /\ ~short => run.word = Begin(heap, layout, obj, run.field)
         /\ run.word \in Nat
         /\ run.field \in Nat /\ run.field + 1 \in 1..(Len(layout) + 1)
         /\ run \in [at : Addr, field : Nat, word : Nat]
<1>1. DOMAIN layout = 1..Len(layout) /\ Len(layout) \in Nat
  BY LayoutFacts DEF SInv, Types
<1>2. Copied(heap, layout, obj, run.at, run.field, short)
  BY DEF SInv, DeserializeInv
<1>3. run.at \in Addr /\ run.at \notin Own(heap, layout, obj)
  BY <1>2 DEF Copied, Parts
<1> QED
  BY <1>1, <1>2, <1>3 DEF SInv, Types, DeserializeInv, BufferInv

(* A step of the deserializer that reads its field keeps everything.        *)
LEMMA DeserializeShows ==
  ASSUME SInv, pc = "deserialize", run.field \in DOMAIN layout,
         Copies(heap, heap', layout, obj, run.at, run.field, short, short'),
         short' \in BOOLEAN, NEW n \in Nat, Advance(n),
         ~short' => run.word + n = Begin(heap, layout, obj, run.field + 1),
         UNCHANGED <<layout, obj, buf, copy, pc, ok>>,
         fault' \in {"none", "null", "bounds", "dangling"}, fault' # "none" => short
  PROVE  StepShows
<1> DEFINE c == run.at
           k == run.field + 1
<1>1. /\ buf # Null /\ copy = Null
      /\ c \in Addr /\ c \notin Own(heap, layout, obj)
      /\ buf \notin Parts(heap, layout, c, run.field)
      /\ run.word \in Nat
      /\ k \in 1..(Len(layout) + 1) /\ k \in Nat
      /\ run' = [at |-> c, field |-> k, word |-> run.word + n]
  BY WhileDeserializing, Advanced
<1>2. /\ heap' \in HeapType
      /\ \A a \in Addr \ {c} : heap[a] # Freed => heap'[a] = heap[a]
      /\ Copied(heap', layout, obj, c, k, short')
      /\ \A a \in Parts(heap', layout, c, k) :
           a \in Parts(heap, layout, c, run.field) \/ (a \in Addr /\ heap[a] = Freed)
      /\ Parts(heap, layout, c, run.field) \subseteq Parts(heap', layout, c, k)
      /\ \A a \in Addr : heap[a] = Freed /\ heap'[a] # Freed => a \in Parts(heap', layout, c, k)
  BY DEF Copies
<1>3. c # buf
  BY <1>1 DEF Parts
<1>4. buf \notin Parts(heap', layout, c, k)
  BY <1>1, <1>2, ClientLive
<1>5. run'.at = c /\ run'.field = k /\ run'.word = run.word + n
      /\ run' \in [at : Addr, field : Nat, word : Nat]
  BY <1>1
<1> HIDE DEF c, k
<1>6. pc' = "deserialize" /\ (~short' => run'.word = Begin(heap, layout, obj, k))
  BY <1>5 DEF k
<1>7. SInv'
  BY <1>1, <1>2, <1>3, <1>4, <1>5, <1>6, DeserializeKeeps
<1>8. \A a \in Own(heap, layout, obj) : heap'[a] = heap[a]
  BY <1>1, <1>2, ClientLive
<1>9. Own(heap', layout, obj) = Own(heap, layout, obj)
  BY <1>8, Frame
<1>10. /\ Known = Own(heap, layout, obj) \cup {buf} \cup Parts(heap, layout, c, run.field)
       /\ Known' = Own(heap, layout, obj) \cup {buf} \cup Parts(heap', layout, c, k)
  BY <1>1, <1>5, <1>6, <1>9 DEF Known, c
<1>11. c \in Known
  BY <1>10 DEF Parts
<1>12. Leaked' \subseteq Leaked
  BY <1>2, <1>7, <1>10, <1>11, NothingLost
<1> QED
  BY <1>7, <1>8, <1>12 DEF StepShows

(* A count is left to its array.                                            *)
LEMMA DeserializeCountShows ==
  ASSUME SInv, fault = "none", DeserializeCount
  PROVE  StepShows
<1>1. /\ pc = "deserialize" /\ run.field \in DOMAIN layout /\ layout[run.field] = "count"
      /\ Advance(0) /\ UNCHANGED <<heap, layout, obj, buf, copy, pc, short, ok, fault>>
  BY DEF DeserializeCount, Deserializing, Kinds
<1>2. /\ heap \in HeapType /\ layout \in Layouts /\ Object(heap, layout, obj)
      /\ Copied(heap, layout, obj, run.at, run.field, short)
      /\ ~short => run.word = Begin(heap, layout, obj, run.field)
      /\ run.word \in Nat
  BY <1>1, WhileDeserializing
<1>3. Copies(heap, heap, layout, obj, run.at, run.field, short, short)
  BY <1>1, <1>2, CountCopies
<1>4. Copies(heap, heap', layout, obj, run.at, run.field, short, short')
  BY <1>1, <1>3
<1>5. ~short' => run.word + 0 = Begin(heap, layout, obj, run.field + 1)
  <2>1. /\ Begin(heap, layout, obj, run.field + 1)
             = Begin(heap, layout, obj, run.field) + Widths(heap, layout, obj)[run.field]
        /\ Widths(heap, layout, obj)[run.field] = 0
    BY <1>1, <1>2, RoomLeft
  <2> QED
    BY <1>1, <1>2, <2>1
<1>6. 0 \in Nat /\ short' \in BOOLEAN /\ fault' = "none"
  BY <1>1 DEF SInv, Types
<1> QED
  BY <1>1, <1>4, <1>5, <1>6, DeserializeShows

(* A scalar is read.                                                        *)
LEMMA DeserializeScalarShows ==
  ASSUME SInv, fault = "none", DeserializeScalar
  PROVE  StepShows
<1>1. /\ pc = "deserialize" /\ run.field \in DOMAIN layout /\ layout[run.field] = "scalar"
      /\ Advance(1) /\ UNCHANGED <<layout, obj, buf, copy, pc, short, ok>>
      /\ heap' = Move(heap, run.at, run.field - 1, buf, run.word, 1)
      /\ fault' = MoveFault(heap, run.at, run.field - 1, buf, run.word, 1)
  BY DEF DeserializeScalar, Deserializing, Kinds
<1>2. /\ heap \in HeapType /\ layout \in Layouts /\ Object(heap, layout, obj)
      /\ Filled(heap, layout, obj, buf, Len(layout) + 1)
      /\ Copied(heap, layout, obj, run.at, run.field, short)
      /\ buf \notin Parts(heap, layout, run.at, run.field)
      /\ ~short => run.word = Begin(heap, layout, obj, run.field)
      /\ run.word \in Nat
  BY <1>1, WhileDeserializing
<1>3. /\ Copies(heap, Move(heap, run.at, run.field - 1, buf, run.word, 1), layout, obj,
                run.at, run.field, short, short)
      /\ ~short => MoveFault(heap, run.at, run.field - 1, buf, run.word, 1) = "none"
      /\ ~short => run.word + 1 = Begin(heap, layout, obj, run.field + 1)
  BY <1>1, <1>2, ScalarCopies
<1>4. Copies(heap, heap', layout, obj, run.at, run.field, short, short')
  BY <1>1, <1>3
<1>5. 1 \in Nat /\ short' \in BOOLEAN /\ (fault' # "none" => short)
  BY <1>1, <1>3 DEF SInv, Types
<1>6. fault' \in {"none", "null", "bounds", "dangling"}
  BY <1>1 DEF MoveFault, AccessFault
<1> QED
  BY <1>1, <1>3, <1>4, <1>5, <1>6, DeserializeShows

(* An array is read, or lost.                                               *)
LEMMA DeserializeArrayShows ==
  ASSUME SInv, fault = "none", DeserializeArray
  PROVE  StepShows
<1> DEFINE v == heap[buf][run.word]
           m == Slots(v)
           f == Put(heap, run.at, run.field - 2, v)
<1>1. /\ pc = "deserialize" /\ run.field \in DOMAIN layout /\ layout[run.field] = "array"
      /\ UNCHANGED <<layout, obj, buf, copy, pc, ok>>
      /\ IF AccessFault(heap, buf, run.word, 1) # "none"
           THEN fault' = "bounds" /\ UNCHANGED <<heap, run, short>>
           ELSE \E r \in Malloc(f, m) :
                  IF r.ptr = Null
                    THEN /\ heap' = f /\ short' = TRUE /\ Advance(0) /\ UNCHANGED fault
                    ELSE /\ heap' = Put(Move(r.heap, r.ptr, 0, buf, run.word + 1, m),
                                        run.at, run.field - 1, r.ptr)
                         /\ fault' = MoveFault(r.heap, r.ptr, 0, buf, run.word + 1, m)
                         /\ Advance(1 + m)
                         /\ UNCHANGED short
  BY DEF DeserializeArray, Deserializing, Kinds
<1>2. /\ heap \in HeapType /\ layout \in Layouts /\ Object(heap, layout, obj)
      /\ Filled(heap, layout, obj, buf, Len(layout) + 1)
      /\ Copied(heap, layout, obj, run.at, run.field, short)
      /\ buf \notin Parts(heap, layout, run.at, run.field)
      /\ ~short => run.word = Begin(heap, layout, obj, run.field)
      /\ run.word \in Nat
  BY <1>1, WhileDeserializing
<1>3. CASE AccessFault(heap, buf, run.word, 1) # "none"
  <2>1. short
    BY <1>1, <1>2, <1>3, CountRead
  <2>2. fault' = "bounds" /\ UNCHANGED <<heap, layout, obj, buf, copy, pc, run, short>> /\ ok' \in BOOLEAN
    BY <1>1, <1>3 DEF SInv, Types
  <2> QED
    BY <2>1, <2>2, CalmStep
<1>4. CASE AccessFault(heap, buf, run.word, 1) = "none"
  <2>1. PICK r \in Malloc(f, m) :
          IF r.ptr = Null
            THEN /\ heap' = f /\ short' = TRUE /\ Advance(0) /\ UNCHANGED fault
            ELSE /\ heap' = Put(Move(r.heap, r.ptr, 0, buf, run.word + 1, m),
                                run.at, run.field - 1, r.ptr)
                 /\ fault' = MoveFault(r.heap, r.ptr, 0, buf, run.word + 1, m)
                 /\ Advance(1 + m)
                 /\ UNCHANGED short
    BY <1>1, <1>4
  <2>2. CASE r.ptr = Null
    <3>1. heap' = f /\ short' = TRUE /\ Advance(0) /\ fault' = "none" /\ 0 \in Nat
      BY <2>1, <2>2
    <3>2. Copies(heap, f, layout, obj, run.at, run.field, short, TRUE)
      BY <1>1, <1>2, <1>4, ArrayLost
    <3>3. Copies(heap, heap', layout, obj, run.at, run.field, short, short')
      BY <3>1, <3>2
    <3> QED
      BY <1>1, <3>1, <3>3, DeserializeShows
  <2>3. CASE r.ptr # Null
    <3> DEFINE g == Put(Move(r.heap, r.ptr, 0, buf, run.word + 1, m), run.at, run.field - 1, r.ptr)
    <3>1. /\ heap' = g /\ fault' = MoveFault(r.heap, r.ptr, 0, buf, run.word + 1, m)
          /\ Advance(1 + m) /\ short' = short
      BY <2>1, <2>3
    <3>2. /\ Copies(heap, g, layout, obj, run.at, run.field, short, short)
          /\ ~short => MoveFault(r.heap, r.ptr, 0, buf, run.word + 1, m) = "none"
          /\ ~short => run.word + (1 + m) = Begin(heap, layout, obj, run.field + 1)
          /\ m \in Nat
      BY <1>1, <1>2, <1>4, <2>3, ArrayCopies
    <3> HIDE DEF g, m
    <3>3. Copies(heap, heap', layout, obj, run.at, run.field, short, short')
      BY <3>1, <3>2
    <3>4. 1 + m \in Nat /\ short' \in BOOLEAN /\ (fault' # "none" => short)
      BY <3>1, <3>2 DEF SInv, Types
    <3>5. fault' \in {"none", "null", "bounds", "dangling"}
      BY <3>1 DEF MoveFault, AccessFault
    <3> QED
      BY <1>1, <3>1, <3>2, <3>3, <3>4, <3>5, DeserializeShows
  <2> QED
    BY <2>2, <2>3
<1> QED
  BY <1>3, <1>4

(* deserialize returns the struct if its size is right, otherwise NULL.     *)
LEMMA DeserializeReturnShows ==
  ASSUME SInv, fault = "none", DeserializeReturn
  PROVE  StepShows
<1>1. /\ pc = "deserialize" /\ run.field > Len(layout) /\ pc' = "idle" /\ run' = Stopped
      /\ UNCHANGED <<heap, layout, obj, buf, short, fault>>
      /\ IF heap[buf][0] = AllocSize(heap, layout, run.at)
           THEN copy' = run.at /\ ok' = TRUE
           ELSE copy' = copy /\ ok' = FALSE
  BY DEF DeserializeReturn
<1>2. Len(layout) \in Nat /\ layout \in Layouts /\ Object(heap, layout, obj)
  BY LayoutFacts DEF SInv, Types
<1>3. run.field = Len(layout) + 1 /\ run.at \in Addr
  BY <1>1, <1>2 DEF SInv, Types, RunPlaced
<1>4. /\ buf # Null /\ copy = Null
      /\ Copied(heap, layout, obj, run.at, Len(layout) + 1, short)
      /\ buf \notin Parts(heap, layout, run.at, Len(layout) + 1)
      /\ ~short => run.word = Begin(heap, layout, obj, Len(layout) + 1)
  BY <1>1, <1>3 DEF SInv, DeserializeInv
<1>5. heap[buf][0] = AllocSize(heap, layout, obj)
  BY <1>4 DEF SInv, BufferInv, Filled
<1>6. CASE heap[buf][0] = AllocSize(heap, layout, run.at)
  <2>1. copy' = run.at /\ ok' = TRUE
    BY <1>1, <1>6
  <2>2. SInv'
    <3>1. Types'
      BY <1>1, <1>2, <1>3, <2>1 DEF SInv, Types, Stopped
    <3>2. CopyInv'
      BY <1>1, <1>4, <1>5, <1>6, <2>1 DEF CopyInv
    <3> QED
      BY <1>1, <2>1, <3>1, <3>2 DEF SInv, RunPlaced, BufferInv, SerializeInv, DeserializeInv
  <2>3. Known' = Known
    BY <1>1, <1>3, <1>4, <2>1, NoPointer DEF Known
  <2>4. Leaked' \subseteq Leaked
    BY <1>1, <2>2, <2>3, NothingLost
  <2> QED
    BY <1>1, <2>2, <2>4 DEF StepShows
<1>7. CASE heap[buf][0] # AllocSize(heap, layout, run.at)
  <2>1. copy' = Null /\ ok' = FALSE
    BY <1>1, <1>4, <1>7
  <2>2. SInv'
    <3>1. Types'
      BY <1>1, <1>2, <2>1, StoppedType DEF SInv, Types
    <3> QED
      BY <1>1, <2>1, <3>1 DEF SInv, RunPlaced, BufferInv, CopyInv, SerializeInv, DeserializeInv
  <2>3. short
    <3> SUFFICES ASSUME ~short PROVE AllocSize(heap, layout, run.at) = AllocSize(heap, layout, obj)
      BY <1>5, <1>7
    <3>1. \A i \in DOMAIN layout : i < Len(layout) + 1
      BY <1>2, LayoutFacts
    <3>2. \A i \in DOMAIN layout : Same(heap, layout, obj, run.at, i)
      BY <1>4, <3>1 DEF Copied
    <3>3. \A i \in DOMAIN layout : FieldWords(heap, layout, run.at, i) = FieldWords(heap, layout, obj, i)
      BY <3>2 DEF Same, FieldWords
    <3> QED
      BY <3>3 DEF AllocSize
  <2> QED
    BY <1>1, <2>1, <2>2, <2>3 DEF StepShows
<1> QED
  BY <1>6, <1>7

(* The client frees the buffer.                                             *)
LEMMA FreeBufferShows ==
  ASSUME SInv, fault = "none", FreeBuffer
  PROVE  StepShows
<1>1. /\ pc = "idle" /\ buf # Null /\ heap' = Free(heap, buf) /\ buf' = Null /\ ok' = TRUE
      /\ UNCHANGED <<layout, obj, copy, pc, run, short, fault>>
  BY DEF FreeBuffer
<1>2. /\ heap \in HeapType /\ buf \in Addr /\ buf \notin Own(heap, layout, obj)
      /\ copy # Null => buf \notin Parts(heap, layout, copy, Len(layout) + 1)
  BY <1>1, ClientLive DEF SInv, Types, BufferInv, CopyInv
<1>3. /\ heap' \in HeapType /\ heap'[buf] = Freed
      /\ \A a \in Addr \ {buf} : heap'[a] = heap[a]
  BY <1>1, <1>2 DEF Free, HeapType
<1>4. \A a \in Own(heap, layout, obj) : heap'[a] = heap[a]
  BY <1>2, <1>3, ClientLive
<1>5. copy # Null => \A a \in Parts(heap, layout, copy, Len(layout) + 1) : a \in Addr /\ heap'[a] = heap[a]
  BY <1>2, <1>3, ClientLive
<1>6. /\ Object(heap', layout, obj)
      /\ Own(heap', layout, obj) = Own(heap, layout, obj)
      /\ AllocSize(heap', layout, obj) = AllocSize(heap, layout, obj)
      /\ copy # Null =>
           /\ Copied(heap', layout, obj, copy, Len(layout) + 1, short)
           /\ Parts(heap', layout, copy, Len(layout) + 1) = Parts(heap, layout, copy, Len(layout) + 1)
           /\ AllocSize(heap', layout, copy) = AllocSize(heap, layout, copy)
  BY <1>1, <1>4, <1>5, Frame
<1>7. SInv'
  <2>1. Types'
    BY <1>1, <1>3 DEF SInv, Types
  <2>2. CopyInv'
    BY <1>1, <1>5, <1>6, NoPointer DEF SInv, CopyInv
  <2> QED
    BY <1>1, <1>6, <2>1, <2>2 DEF SInv, RunPlaced, BufferInv, SerializeInv, DeserializeInv
<1>8. Known \ {buf} \subseteq Known'
  BY <1>1, <1>6 DEF Known
<1>9. Leaked' \subseteq Leaked
  BY <1>3, <1>7, <1>8, NothingLost
<1> QED
  BY <1>1, <1>4, <1>7, <1>9 DEF StepShows

(* The client destroys the copy.                                            *)
LEMMA DestroyCopyShows ==
  ASSUME SInv, fault = "none", DestroyCopy
  PROVE  StepShows
<1> DEFINE P == Parts(heap, layout, copy, Len(layout) + 1)
<1>1. /\ pc = "idle" /\ copy # Null /\ UNCHANGED <<layout, obj, buf, pc, run, short>>
      /\ IF Uninit \in ArraysOf(heap, layout, copy)
           THEN fault' = "dangling" /\ UNCHANGED <<heap, copy, ok>>
           ELSE /\ heap' = [a \in Addr |->
                              IF a \in BlocksOf(heap, layout, copy) THEN Freed ELSE heap[a]]
                /\ copy' = Null /\ ok' = TRUE
                /\ UNCHANGED fault
  BY DEF DestroyCopy
<1>2. /\ heap \in HeapType /\ layout \in Layouts
      /\ Copied(heap, layout, obj, copy, Len(layout) + 1, short) /\ buf \notin P
  BY <1>1 DEF SInv, Types, CopyInv
<1>3. \A i \in Pointers(layout) : i < Len(layout) + 1
  BY <1>2, LayoutFacts DEF Pointers
<1>4. CASE Uninit \in ArraysOf(heap, layout, copy)
  <2>1. PICK i \in Pointers(layout) : Field(heap, copy, i) = Uninit
    BY <1>4 DEF ArraysOf, Pointers
  <2>2. short
    BY <1>2, <1>3, <2>1, NoPointer DEF Copied
  <2>3. fault' = "dangling" /\ UNCHANGED <<heap, layout, obj, buf, copy, pc, run, short>> /\ ok' \in BOOLEAN
    BY <1>1, <1>4 DEF SInv, Types
  <2> QED
    BY <2>2, <2>3, CalmStep
<1>5. CASE Uninit \notin ArraysOf(heap, layout, copy)
  <2>1. /\ heap' = [a \in Addr |-> IF a \in BlocksOf(heap, layout, copy) THEN Freed ELSE heap[a]]
        /\ copy' = Null /\ ok' = TRUE /\ fault' = "none"
    BY <1>1, <1>5
  <2>2. \A a \in Addr : a \in BlocksOf(heap, layout, copy) <=> a \in P
    BY <1>1, <1>3, NoPointer DEF BlocksOf, ArraysOf, Parts, Pointers
  <2>3. /\ heap' \in HeapType
        /\ \A a \in Addr : heap'[a] = IF a \in P THEN Freed ELSE heap[a]
    BY <1>2, <2>1, <2>2 DEF HeapType
  <2>4. P \cap Own(heap, layout, obj) = {}
    BY <1>2 DEF Copied
  <2> HIDE DEF P
  <2>5. \A a \in Own(heap, layout, obj) : heap'[a] = heap[a]
    BY <2>3, <2>4, ClientLive
  <2>6. /\ Object(heap', layout, obj)
        /\ Own(heap', layout, obj) = Own(heap, layout, obj)
    BY <1>1, <2>5, Frame
  <2>7. buf # Null => Filled(heap', layout, obj, buf, Len(layout) + 1)
    <3>1. buf # Null => heap'[buf] = heap[buf]
      BY <1>2, <2>3, ClientLive
    <3> QED
      BY <1>1, <2>5, <3>1, Frame
  <2>8. SInv'
    <3>1. Types'
      BY <1>1, <2>1, <2>3 DEF SInv, Types
    <3>2. BufferInv'
      BY <1>1, <2>6, <2>7 DEF SInv, BufferInv
    <3> QED
      BY <1>1, <2>1, <2>6, <3>1, <3>2 DEF SInv, RunPlaced, CopyInv, SerializeInv, DeserializeInv
  <2>9. Known \ P \subseteq Known'
    BY <1>1, <2>1, <2>6 DEF Known, P
  <2>10. Leaked' \subseteq Leaked
    BY <2>3, <2>8, <2>9, NothingLost
  <2> QED
    BY <2>1, <2>5, <2>8, <2>10 DEF StepShows
<1> QED
  BY <1>4, <1>5

(* Every step shows it.                                                     *)
LEMMA NextShows == SInv /\ Next => StepShows
<1> SUFFICES ASSUME SInv, Next PROVE StepShows
  OBVIOUS
<1>1. fault = "none"
  BY DEF Next
<1>2. CASE SerializeStart
  BY <1>1, <1>2, SerializeStartShows
<1>3. CASE SerializeCount
  BY <1>1, <1>3, SerializeCountShows
<1>4. CASE SerializeScalar
  BY <1>1, <1>4, SerializeScalarShows
<1>5. CASE SerializeArray
  BY <1>1, <1>5, SerializeArrayShows
<1>6. CASE SerializeReturn
  BY <1>1, <1>6, SerializeReturnShows
<1>7. CASE DeserializeNull
  BY <1>1, <1>7, DeserializeNullShows
<1>8. CASE DeserializeStart
  BY <1>1, <1>8, DeserializeStartShows
<1>9. CASE DeserializeCount
  BY <1>1, <1>9, DeserializeCountShows
<1>10. CASE DeserializeScalar
  BY <1>1, <1>10, DeserializeScalarShows
<1>11. CASE DeserializeArray
  BY <1>1, <1>11, DeserializeArrayShows
<1>12. CASE DeserializeReturn
  BY <1>1, <1>12, DeserializeReturnShows
<1>13. CASE FreeBuffer
  BY <1>1, <1>13, FreeBufferShows
<1>14. CASE DestroyCopy
  BY <1>1, <1>14, DestroyCopyShows
<1> QED
  BY <1>2, <1>3, <1>4, <1>5, <1>6, <1>7, <1>8, <1>9, <1>10, <1>11, <1>12, <1>13, <1>14 DEF Next

(* The invariant holds from the start.                                      *)
LEMMA InitHolds == Init => SInv
<1> SUFFICES ASSUME Init PROVE SInv
  OBVIOUS
<1>1. heap \in HeapType /\ Object(heap, layout, obj)
  BY InitObject
<1>2. /\ layout \in Layouts /\ buf = Null /\ copy = Null /\ pc = "idle" /\ run = Stopped
      /\ short = FALSE /\ ok = TRUE /\ fault = "none"
  BY DEF Init
<1>3. Types
  <2>1. Stopped \in [at : Addr \cup {Null}, field : 0..(Len(layout) + 1), word : Nat]
    BY <1>2, StoppedType
  <2> QED
    BY <1>1, <1>2, <2>1 DEF Types
<1> QED
  BY <1>1, <1>2, <1>3 DEF SInv, RunPlaced, BufferInv, CopyInv, SerializeInv, DeserializeInv

(* A step in which nothing happens shows it as well.                        *)
LEMMA StutterShows == SInv /\ UNCHANGED vars => SInv'
<1> SUFFICES ASSUME SInv, UNCHANGED vars PROVE SInv'
  OBVIOUS
<1> QED
  BY DEF vars, SInv, Types, RunPlaced, BufferInv, CopyInv, SerializeInv, DeserializeInv

(* The invariant holds.                                                     *)
LEMMA InvariantHolds == Spec => []SInv
<1>1. SInv /\ [Next]_vars => SInv'
  BY NextShows, StutterShows DEF StepShows
<1> QED
  BY <1>1, InitHolds, PTL DEF Spec

-----------------------------------------------------------------------------
(* With any allocator                                                       *)

(* serialize and deserialize leave the client's object alone, whatever the  *)
(* allocator does: no step of theirs, nor the client's free of a buffer or  *)
(* a copy, changes a block of it.                                           *)
THEOREM ObjectIsUntouched == Spec => ObjectUntouched
<1>1. SInv /\ [Next]_vars => [\A a \in ObjectBlocks : heap'[a] = heap[a]]_vars
  <2>1. ObjectBlocks = Own(heap, layout, obj)
    BY DEF ObjectBlocks, Own
  <2> QED
    BY <2>1, NextShows DEF StepShows
<1> QED
  BY <1>1, InvariantHolds, PTL DEF Spec, ObjectUntouched

(* Undefined behaviour has two causes: the client passes on the NULL of a   *)
(* serialize that failed, or malloc failed for an array of deserialize.     *)
THEOREM FaultsAreKnown == Spec => FaultsKnown
<1>1. SInv /\ [Next]_vars => [fault' # "none" => (pc = "idle" /\ buf = Null) \/ short]_vars
  BY NextShows DEF StepShows
<1> QED
  BY <1>1, InvariantHolds, PTL DEF Spec, FaultsKnown

(* Memory is lost only when deserialize gives up because the size is wrong, *)
(* and it is wrong only if malloc failed for an array.                      *)
THEOREM LeaksAreKnown == Spec => LeakOnlyWhenSizeWrong
<1>1. SInv /\ [Next]_vars =>
        [Leaked' \subseteq Leaked \/ (pc = "deserialize" /\ pc' = "idle" /\ ~ok' /\ short)]_vars
  BY NextShows DEF StepShows
<1> QED
  BY <1>1, InvariantHolds, PTL DEF Spec, LeakOnlyWhenSizeWrong

(* The size check lets only a copy of the object's size pass.               *)
THEOREM SizesDoAgree == Spec => []SizesAgree
<1>1. SInv => SizesAgree
  BY DEF SInv, CopyInv, SizesAgree
<1> QED
  BY <1>1, InvariantHolds, PTL

(* A copy that lost no array holds what the object holds.                   *)
LEMMA SameContents == SInv /\ ~short => RoundTrip
<1> SUFFICES ASSUME SInv, ~short, copy # Null
             PROVE  Contents(heap, layout, copy) = Contents(heap, layout, obj)
  BY DEF RoundTrip
<1>1. layout \in Layouts /\ Copied(heap, layout, obj, copy, Len(layout) + 1, short)
  BY DEF SInv, Types, CopyInv
<1>2. /\ \A i \in DOMAIN layout : i < Len(layout) + 1
      /\ \A i \in DOMAIN layout : layout[i] \in Kind
      /\ \A i \in DOMAIN layout : layout[i] = "array" => layout[i - 1] = "count" /\ i - 1 \in DOMAIN layout
  BY <1>1, LayoutFacts
<1>3. \A i \in DOMAIN layout : Same(heap, layout, obj, copy, i)
  BY <1>1, <1>2 DEF Copied
<1>4. ASSUME NEW i \in DOMAIN layout, layout[i] = "array"
      PROVE  Elements(heap, layout, copy, i) = Elements(heap, layout, obj, i)
  <2>1. /\ Count(heap, copy, i) = Count(heap, obj, i)
        /\ \A k \in 0..(Count(heap, obj, i) - 1) :
             heap[Field(heap, copy, i)][k] = heap[Field(heap, obj, i)][k]
    BY <1>3, <1>4 DEF Same
  <2>2. Count(heap, obj, i) \in Nat
    BY <1>1, <1>4, ObjectFacts DEF SInv, Counted, Pointers
  <2>3. \A j \in 1..Count(heap, obj, i) : j - 1 \in 0..(Count(heap, obj, i) - 1)
    BY <2>2
  <2> QED
    BY <2>1, <2>3 DEF Elements
<1>5. ASSUME NEW i \in DOMAIN layout, layout[i] # "array"
      PROVE  Field(heap, copy, i) = Field(heap, obj, i)
  <2>1. CASE layout[i] = "scalar"
    BY <1>3, <2>1 DEF Same
  <2>2. CASE layout[i] = "count"
    <3>1. i \in Int /\ i + 1 \in DOMAIN layout /\ layout[i + 1] = "array" /\ i + 1 - 1 = i
      BY <1>1, <2>2, LayoutFacts
    <3>2. Count(heap, copy, i + 1) = Count(heap, obj, i + 1)
      BY <1>3, <3>1 DEF Same
    <3> QED
      BY <3>1, <3>2 DEF Count
  <2> QED
    BY <1>2, <1>5, <2>1, <2>2 DEF Kind
<1> QED
  BY <1>4, <1>5 DEF Contents

(* What deserialize returns holds what was serialized, arrays included, if  *)
(* malloc gave it every array it asked for.                                 *)
THEOREM RoundTripsUnlessShort == Spec => []RoundTripUnlessShort
<1>1. SInv => RoundTripUnlessShort
  BY SameContents DEF RoundTripUnlessShort
<1> QED
  BY <1>1, InvariantHolds, PTL

-----------------------------------------------------------------------------
(* With an allocator that does not fail                                     *)

(* malloc and realloc hand out what they are asked for, a block of nothing  *)
(* included.                                                                *)
Reliable == ~MayFail /\ "null" \notin ZeroMalloc

(* Then no array is lost, and neither is memory.                            *)
FullInv == SInv /\ short = FALSE /\ Leaked = {}

(* It holds from the start and in every step.                               *)
LEMMA FullInvHolds ==
  ASSUME Reliable
  PROVE  Spec => []FullInv
<1>1. Init => FullInv
  <2> SUFFICES ASSUME Init PROVE FullInv
    OBVIOUS
  <2>1. SInv /\ short = FALSE
    BY InitHolds DEF Init
  <2>2. Leaked = Allocated(heap) \ Known
    BY <2>1, LeakedIs
  <2>3. \A a \in Addr : heap[a] # Freed => a \in Own(heap, layout, obj)
    BY InitObject
  <2> QED
    BY <2>1, <2>2, <2>3 DEF FullInv, Allocated, Known
<1>2. FullInv /\ [Next]_vars => FullInv'
  <2> SUFFICES ASSUME FullInv, [Next]_vars PROVE FullInv'
    OBVIOUS
  <2>1. CASE UNCHANGED vars
    <3>1. Leaked' = Leaked
      BY <2>1 DEF vars, Leaked, ObjectBlocks, Running
    <3> QED
      BY <2>1, <3>1, StutterShows DEF FullInv, vars
  <2>2. CASE Next
    <3>1. StepShows
      BY <2>2, NextShows DEF FullInv
    <3>2. short' = FALSE
      <4>1. CASE DeserializeArray
        <5>1. ~MallocMayFail(Slots(heap[buf][run.word]))
          BY DEF Reliable, MallocMayFail
        <5>2. \A r \in Malloc(Put(heap, run.at, run.field - 2, heap[buf][run.word]),
                              Slots(heap[buf][run.word])) : r.ptr # Null
          BY <5>1, NoPointer DEF Malloc, Vacant
        <5> QED
          BY <4>1, <5>2 DEF DeserializeArray, FullInv
      <4>2. CASE ~DeserializeArray
        BY <2>2, <4>2 DEF Next, FullInv, SerializeStart, SerializeCount, SerializeScalar, SerializeArray,
              Serializing, SerializeReturn, DeserializeNull, DeserializeStart, DeserializeCount,
              DeserializeScalar, DeserializeReturn, FreeBuffer, DestroyCopy
      <4> QED
        BY <4>1, <4>2
    <3>3. Leaked' = {}
      BY <3>1 DEF StepShows, FullInv
    <3> QED
      BY <3>1, <3>2, <3>3 DEF StepShows, FullInv
  <2> QED
    BY <2>1, <2>2
<1> QED
  BY <1>1, <1>2, PTL DEF Spec

(* The variables keep their types, and the position in the buffer stays     *)
(* within its size, in serialize and in deserialize.                        *)
THEOREM TypeCorrect ==
  ASSUME Reliable
  PROVE  Spec => []TypeOK
<1>1. FullInv => TypeOK
  <2> SUFFICES ASSUME FullInv PROVE TypeOK
    OBVIOUS
  <2>1. /\ SInv /\ short = FALSE /\ Types /\ layout \in Layouts /\ Object(heap, layout, obj)
        /\ obj \in Addr
    BY DEF FullInv, SInv, Types, Object
  <2>2. \A a \in Addr : \/ heap[a] = Freed
                        \/ \E n \in 0..(SlotMod - 1) : heap[a] \in [0..(n - 1) -> Cell]
    BY <2>1, BlockElim DEF Types, HeapType
  <2>3. /\ AllocSize(heap, layout, obj) \in 1..(SlotMod - 1)
        /\ AllocSize(heap, layout, obj) = Begin(heap, layout, obj, Len(layout) + 1)
        /\ Counted(heap, layout, obj)
    BY <2>1, ObjectFacts
  <2>4. run.word \in 0..AllocSize(heap, layout, obj)
    <3>1. CASE pc = "idle"
      BY <2>1, <2>3, <3>1, HeapAssumption DEF SInv, RunPlaced, Stopped
    <3>2. CASE pc # "idle"
      <4>1. run.word = Begin(heap, layout, obj, run.field)
        BY <2>1, <3>2 DEF SInv, Types, SerializeInv, DeserializeInv
      <4>2. Len(layout) \in Nat
        BY <2>1, LayoutFacts
      <4>3. run.field \in 1..(Len(layout) + 1) /\ Len(layout) + 1 \in 1..(Len(layout) + 1)
            /\ run.field <= Len(layout) + 1
        BY <2>1, <3>2, <4>2 DEF SInv, Types, RunPlaced
      <4>4. Begin(heap, layout, obj, run.field) \in Nat \ {0}
            /\ Begin(heap, layout, obj, run.field) <= Begin(heap, layout, obj, Len(layout) + 1)
        BY <2>1, <2>3, <4>3, BeginNext
      <4> QED
        BY <2>3, <4>1, <4>4, HeapAssumption
    <3> QED
      BY <3>1, <3>2
  <2> QED
    BY <2>1, <2>2, <2>4 DEF TypeOK, Types
<1> QED
  BY <1>1, FullInvHolds, PTL

(* What deserialize returns holds what was serialized.                      *)
THEOREM RoundTrips ==
  ASSUME Reliable
  PROVE  Spec => []RoundTrip
<1>1. FullInv => RoundTrip
  BY SameContents DEF FullInv
<1> QED
  BY <1>1, FullInvHolds, PTL

(* The object, the buffer and the copy can be freed each on its own.        *)
THEOREM CopiesAreSeparate ==
  ASSUME Reliable
  PROVE  Spec => []Separate
<1>1. FullInv => Separate
  <2> SUFFICES ASSUME FullInv PROVE Separate
    OBVIOUS
  <2>1. /\ SInv /\ short = FALSE /\ layout \in Layouts /\ obj \in Addr
        /\ \A i \in Pointers(layout) : i < Len(layout) + 1
    BY LayoutFacts DEF FullInv, SInv, Types, Object, Pointers
  <2>2. ObjectBlocks = Own(heap, layout, obj)
    BY DEF ObjectBlocks, Own
  <2>3. buf \notin ObjectBlocks
    BY <2>1, <2>2, NoPointer DEF SInv, BufferInv, Own
  <2>4. CASE copy = Null
    BY <2>3, <2>4 DEF Separate, BlocksOf
  <2>5. CASE copy # Null
    <3>1. /\ Copied(heap, layout, obj, copy, Len(layout) + 1, FALSE)
          /\ buf \notin Parts(heap, layout, copy, Len(layout) + 1)
      BY <2>1, <2>5 DEF SInv, CopyInv
    <3>2. \A i \in Pointers(layout) : Field(heap, copy, i) # Uninit
      BY <2>1, <3>1, NoPointer DEF Copied
    <3>3. BlocksOf(heap, layout, copy) \subseteq Parts(heap, layout, copy, Len(layout) + 1)
      BY <2>1, <3>2 DEF BlocksOf, ArraysOf, Parts, Pointers
    <3>4. (ObjectBlocks \cup {buf}) \cap BlocksOf(heap, layout, copy) = {}
      BY <2>2, <3>1, <3>3 DEF Copied
    <3>5. \A i, j \in Pointers(layout) : i # j => Field(heap, copy, i) # Field(heap, copy, j)
      BY <2>1, <3>1, <3>2 DEF Copied, Apart
    <3> QED
      BY <2>3, <3>4, <3>5 DEF Separate, Pointers
  <2> QED
    BY <2>4, <2>5
<1> QED
  BY <1>1, FullInvHolds, PTL

(* Every block is reachable from the object, the buffer, the copy or the    *)
(* call that is running.                                                    *)
THEOREM NothingLeaks ==
  ASSUME Reliable
  PROVE  Spec => []NoLeak
<1>1. FullInv => NoLeak
  BY DEF FullInv, NoLeak
<1> QED
  BY <1>1, FullInvHolds, PTL

(* A client that does not pass NULL on meets no undefined behaviour.        *)
THEOREM NothingFaults ==
  ASSUME Reliable, ~PassesNull
  PROVE  Spec => []NoFault
<1>1. Init => NoFault
  BY DEF Init, NoFault
<1>2. FullInv /\ NoFault /\ [Next]_vars => NoFault'
  <2>1. FullInv /\ Next => NoFault'
    BY NextShows DEF FullInv, StepShows, NoFault
  <2> QED
    BY <2>1 DEF NoFault, vars
<1> QED
  BY <1>1, <1>2, FullInvHolds, PTL DEF Spec

-----------------------------------------------------------------------------
(* The buffer as a whole                                                    *)

(* The recursion by which FlattenSeq is defined.                            *)
Flattened(s, n, f) == f = [i \in 1..n |-> IF i = 1 THEN s[i] ELSE f[i - 1] \o s[i]]

(* It has a solution, and FlattenSeq takes the last value of one.           *)
LEMMA FlattenUnfolds ==
  ASSUME NEW s, Len(s) \in Nat \ {0}
  PROVE  \E f : Flattened(s, Len(s), f) /\ FlattenSeq(s) = f[Len(s)]
<1> DEFINE Solved == {n \in Nat : \E f : Flattened(s, n, f)}
<1>1. 0 \in Solved
  <2> DEFINE f == [i \in {} |-> s]
  <2>1. 1..0 = {}
    OBVIOUS
  <2>2. Flattened(s, 0, f)
    BY <2>1 DEF Flattened
  <2> HIDE DEF f
  <2> QED
    BY <2>2
<1>2. ASSUME NEW n \in Nat, n \in Solved PROVE n + 1 \in Solved
  <2>1. PICK f : Flattened(s, n, f)
    BY <1>2
  <2> DEFINE g == [i \in 1..(n + 1) |-> IF i = 1 THEN s[i] ELSE f[i - 1] \o s[i]]
  <2>2. \A i \in 1..n : f[i] = IF i = 1 THEN s[i] ELSE f[i - 1] \o s[i]
    BY <2>1 DEF Flattened
  <2>4. \A i \in 1..(n + 1) : g[i] = IF i = 1 THEN s[i] ELSE f[i - 1] \o s[i]
    OBVIOUS
  <2>5. DOMAIN g = 1..(n + 1) /\ g = [i \in DOMAIN g |-> g[i]]
    OBVIOUS
  <2> HIDE DEF g
  <2>3. \A i \in 1..(n + 1) : i # 1 => g[i - 1] = f[i - 1]
    <3> SUFFICES ASSUME NEW i \in 1..n PROVE g[i] = f[i]
      <4>1. \A i \in 1..(n + 1) : i # 1 => i - 1 \in 1..n
        OBVIOUS
      <4> QED
        BY <4>1
    <3>1. i \in 1..(n + 1)
      OBVIOUS
    <3> QED
      BY <2>2, <2>4, <3>1
  <2>6. \A i \in 1..(n + 1) : g[i] = IF i = 1 THEN s[i] ELSE g[i - 1] \o s[i]
    BY <2>3, <2>4
  <2>7. Flattened(s, n + 1, g)
    BY <2>5, <2>6 DEF Flattened
  <2> QED
    BY <2>7
<1>3. Nat \subseteq Solved
  <2> HIDE DEF Solved
  <2> QED
    BY <1>1, <1>2, SetInduction
<1>4. \E f : Flattened(s, Len(s), f)
  BY <1>3
<1> DEFINE c == CHOOSE f : Flattened(s, Len(s), f)
<1>5. Flattened(s, Len(s), c)
  BY <1>4
<1>6. FlattenSeq(s) = c[Len(s)]
  BY DEF FlattenSeq, Flattened
<1> QED
  BY <1>5, <1>6

(* What field i is in the buffer.                                           *)
Piece(h, l, p, i) ==
  CASE l[i] = "count"  -> <<>>
    [] l[i] = "array"  -> <<Count(h, p, i)>> \o Elements(h, l, p, i)
    [] OTHER           -> <<Field(h, p, i)>>

(* It is as wide as the field, and is what the buffer holds there.          *)
PieceHeld(h, l, p, b, n, q) ==
  /\ q \in Seq(Cell)
  /\ Len(q) = Widths(h, l, p)[n]
  /\ \A j \in 1..Len(q) : q[j] = h[b][Begin(h, l, p, n) + j - 1]

(* Every field of a finished buffer is.                                     *)
LEMMA PieceFits ==
  ASSUME NEW h, NEW l \in Layouts, NEW p, Object(h, l, p), NEW b,
         NEW n \in DOMAIN l, Filled(h, l, p, b, Len(l) + 1)
  PROVE  PieceHeld(h, l, p, b, n, Piece(h, l, p, n))
<1> DEFINE q == Piece(h, l, p, n)
           at == Begin(h, l, p, n)
           m == Count(h, p, n)
<1>1. /\ DOMAIN l = 1..Len(l) /\ Len(l) \in Nat /\ l[n] \in Kind /\ n < Len(l) + 1
  BY LayoutFacts
<1>2. Written(h, l, p, b, n)
  BY <1>1 DEF Filled
<1>3. /\ at \in Nat \ {0}
      /\ l[n] = "count" => Widths(h, l, p)[n] = 0
      /\ l[n] = "scalar" => Widths(h, l, p)[n] = 1
      /\ l[n] = "array" => Widths(h, l, p)[n] = 1 + m
  BY RoomLeft
<1>4. CASE l[n] = "count"
  <2>1. q = <<>>
    BY <1>4 DEF Piece
  <2>2. q \in Seq(Cell) /\ Len(q) = 0
    BY <2>1
  <2> QED
    BY <1>3, <1>4, <2>2 DEF PieceHeld
<1>5. CASE l[n] = "scalar"
  <2>1. q = <<Field(h, p, n)>>
    BY <1>5 DEF Piece
  <2>2. Field(h, p, n) \in Cell /\ h[b][at] = Field(h, p, n)
    BY <1>2, <1>5, SerializationAssumption DEF Written, Object, Cell
  <2>3. q \in Seq(Cell) /\ Len(q) = 1 /\ q[1] = Field(h, p, n)
    BY <2>1, <2>2
  <2> HIDE DEF q, at
  <2>4. at + 1 - 1 = at
    BY <1>3
  <2>5. \A j \in 1..Len(q) : q[j] = h[b][at + j - 1]
    BY <2>2, <2>3, <2>4
  <2> QED
    BY <1>3, <1>5, <2>3, <2>5 DEF PieceHeld, q, at
<1>6. CASE l[n] = "array"
  <2> DEFINE e == Elements(h, l, p, n)
             a == Field(h, p, n)
  <2>1. q = <<m>> \o e
    BY <1>6 DEF Piece
  <2>2. n \in Pointers(l) /\ m \in Nat /\ m \in Cell
    BY <1>6, ObjectFacts, SerializationAssumption, HeapAssumption DEF Pointers, Cell
  <2>3. m # 0 => h[a] \in Words(m)
    <3>1. \A i \in Pointers(l) : Field(h, p, i) # Null =>
              /\ Field(h, p, i) \in Own(h, l, p)
              /\ h[Field(h, p, i)] \in Words(Count(h, p, i))
      BY OwnLive
    <3>2. a = Null => m = 0
      BY <2>2, NoPointer DEF Object
    <3> QED
      BY <2>2, <3>1, <3>2
  <2>4. h[b][at] = m /\ \A k \in 0..(m - 1) : h[b][at + 1 + k] = h[a][k]
    BY <1>2, <1>6 DEF Written
  <2>5. e = [j \in 1..m |-> h[a][j - 1]]
    BY DEF Elements
  <2> HIDE DEF q, at, m, e, a
  <2>6. e \in Seq(Cell) /\ Len(e) = m /\ \A j \in 1..m : e[j] = h[a][j - 1]
    <3>1. \A j \in 1..m : h[a][j - 1] \in Cell
      <4> SUFFICES ASSUME NEW j \in 1..m PROVE h[a][j - 1] \in Cell
        OBVIOUS
      <4>1. m # 0 /\ j - 1 \in 0..(m - 1)
        BY <2>2
      <4> QED
        BY <2>3, <4>1 DEF Words
    <3>2. e \in [1..m -> Cell]
      BY <2>5, <3>1
    <3> QED
      BY <2>2, <2>5, <3>2
  <2>7. /\ q \in Seq(Cell) /\ Len(q) = 1 + m /\ q[1] = m
        /\ \A j \in 1..m : q[j + 1] = e[j]
    BY <2>1, <2>2, <2>6
  <2>8. \A j \in 1..Len(q) : q[j] = h[b][at + j - 1]
    <3> SUFFICES ASSUME NEW j \in 1..(1 + m) PROVE q[j] = h[b][at + j - 1]
      BY <2>7
    <3>1. CASE j = 1
      <4>1. at + j - 1 = at
        BY <1>3, <3>1
      <4> QED
        BY <2>4, <2>7, <3>1, <4>1
    <3>2. CASE j # 1
      <4>1. j - 1 \in 1..m /\ j - 1 + 1 = j /\ j - 1 - 1 \in 0..(m - 1)
            /\ at + 1 + (j - 1 - 1) = at + j - 1
        BY <1>3, <2>2, <3>2
      <4>2. q[j] = h[a][j - 1 - 1]
        BY <2>6, <2>7, <4>1
      <4> QED
        BY <2>4, <4>1, <4>2
    <3> QED
      BY <3>1, <3>2
  <2> QED
    BY <1>3, <1>6, <2>7, <2>8 DEF PieceHeld, q, at, m
<1> QED
  BY <1>1, <1>4, <1>5, <1>6 DEF Kind

(* The first n fields, one behind the other, are what the buffer holds      *)
(* behind its header.                                                       *)
HoldsFirst(h, l, p, b, n, q) ==
  /\ q \in Seq(Cell)
  /\ Len(q) = Begin(h, l, p, n + 1) - 1
  /\ \A j \in 1..Len(q) : q[j] = h[b][j]

(* So are all of them.                                                      *)
LEMMA FieldsInOrder ==
  ASSUME NEW h, NEW l \in Layouts, NEW p, Object(h, l, p), NEW b,
         Filled(h, l, p, b, Len(l) + 1),
         NEW s, DOMAIN s = DOMAIN l, \A i \in DOMAIN l : s[i] = Piece(h, l, p, i),
         NEW f, Flattened(s, Len(l), f)
  PROVE  HoldsFirst(h, l, p, b, Len(l), f[Len(l)])
<1> DEFINE T == {n \in Nat : n + 1 \in DOMAIN l => HoldsFirst(h, l, p, b, n + 1, f[n + 1])}
<1>1. /\ DOMAIN l = 1..Len(l) /\ Len(l) \in Nat \ {0}
      /\ Counted(h, l, p)
  BY LayoutFacts, ObjectFacts
<1>2. \A i \in DOMAIN l : PieceHeld(h, l, p, b, i, s[i])
  BY PieceFits
<1>3. /\ Begin(h, l, p, 1) = 1
      /\ \A i \in 1..(Len(l) + 1) : Begin(h, l, p, i) \in Nat \ {0}
      /\ \A i \in DOMAIN l : Begin(h, l, p, i + 1) = Begin(h, l, p, i) + Widths(h, l, p)[i]
  BY <1>1, BeginNext
<1>4. \A i \in 1..Len(l) : f[i] = IF i = 1 THEN s[i] ELSE f[i - 1] \o s[i]
  BY DEF Flattened
<1>5. 0 \in T
  <2>1. 1 \in DOMAIN l /\ f[1] = s[1]
    BY <1>1, <1>4
  <2> DEFINE q == s[1]
  <2>2. /\ q \in Seq(Cell) /\ Len(q) = Widths(h, l, p)[1]
        /\ \A j \in 1..Len(q) : q[j] = h[b][Begin(h, l, p, 1) + j - 1]
    BY <1>2, <2>1 DEF PieceHeld
  <2> HIDE DEF q
  <2>3. Len(q) = Begin(h, l, p, 1 + 1) - 1
    <3>1. Begin(h, l, p, 1 + 1) = 1 + Len(q) /\ Len(q) \in Nat
      BY <1>3, <2>1, <2>2
    <3> QED
      BY <3>1
  <2>4. \A j \in 1..Len(q) : q[j] = h[b][j]
    <3> SUFFICES ASSUME NEW j \in 1..Len(q) PROVE q[j] = h[b][j]
      OBVIOUS
    <3>1. 1 + j - 1 = j
      OBVIOUS
    <3> QED
      BY <1>3, <2>2, <3>1
  <2>5. HoldsFirst(h, l, p, b, 1, f[1])
    BY <2>1, <2>2, <2>3, <2>4 DEF HoldsFirst, q
  <2> QED
    BY <2>5
<1>6. ASSUME NEW k \in DOMAIN l, k + 1 \in DOMAIN l, HoldsFirst(h, l, p, b, k, f[k])
      PROVE  HoldsFirst(h, l, p, b, k + 1, f[k + 1])
  <2> DEFINE e == f[k]
             q == s[k + 1]
             m == Begin(h, l, p, k + 1)
             w == Widths(h, l, p)[k + 1]
             z == Begin(h, l, p, k + 1 + 1)
  <2>1. k \in Nat /\ k + 1 # 1 /\ k + 1 - 1 = k /\ k + 1 \in 1..(Len(l) + 1) /\ k + 1 \in 1..Len(l)
    <3>1. k \in 1..Len(l) /\ k + 1 \in 1..Len(l) /\ Len(l) \in Nat
      BY <1>1, <1>6
    <3> HIDE DEF e, q, m, w, z
    <3> QED
      BY <3>1
  <2>2. /\ e \in Seq(Cell) /\ Len(e) = m - 1
        /\ \A j \in 1..Len(e) : e[j] = h[b][j]
    BY <1>6 DEF HoldsFirst
  <2>3. /\ q \in Seq(Cell) /\ Len(q) = w
        /\ \A j \in 1..Len(q) : q[j] = h[b][m + j - 1]
    BY <1>2, <1>6 DEF PieceHeld
  <2>4. f[k + 1] = e \o q
    <3> DEFINE i == k + 1
    <3>1. i \in 1..Len(l) /\ i # 1 /\ i - 1 = k
      BY <2>1
    <3> HIDE DEF i
    <3>2. f[i] = f[i - 1] \o s[i]
      BY <1>4, <3>1
    <3> QED
      BY <3>1, <3>2 DEF i
  <2>5. m \in Nat \ {0} /\ z = m + w
    BY <1>3, <1>6, <2>1
  <2> HIDE DEF e, q, m, w, z
  <2>6. Len(e) \in Nat /\ Len(q) \in Nat
    BY <2>2, <2>3
  <2>7. /\ e \o q \in Seq(Cell) /\ Len(e \o q) = Len(e) + Len(q)
        /\ \A j \in 1..(Len(e) + Len(q)) :
             (e \o q)[j] = IF j <= Len(e) THEN e[j] ELSE q[j - Len(e)]
    BY <2>2, <2>3, ConcatProperties
  <2>8. Len(e \o q) = z - 1
    <3>1. Len(e \o q) = (m - 1) + w /\ w \in Nat
      BY <2>2, <2>3, <2>6, <2>7
    <3> QED
      BY <2>5, <3>1
  <2>9. \A j \in 1..Len(e \o q) : (e \o q)[j] = h[b][j]
    <3> SUFFICES ASSUME NEW j \in 1..(Len(e) + Len(q)) PROVE (e \o q)[j] = h[b][j]
      BY <2>7
    <3>1. CASE j <= Len(e)
      <4>1. j \in 1..Len(e)
        BY <2>6, <3>1
      <4> QED
        BY <2>2, <2>7, <3>1, <4>1
    <3>2. CASE ~(j <= Len(e))
      <4>1. j - Len(e) \in 1..Len(q) /\ m + (j - Len(e)) - 1 = j
        BY <2>2, <2>5, <2>6, <3>2
      <4>2. q[j - Len(e)] = h[b][m + (j - Len(e)) - 1]
        BY <2>3, <4>1
      <4> QED
        BY <2>7, <3>2, <4>1, <4>2
    <3> QED
      BY <3>1, <3>2
  <2> QED
    BY <2>4, <2>7, <2>8, <2>9 DEF HoldsFirst, z
<1>7. Nat \subseteq T
  <2>1. \A n \in Nat : n \in T => n + 1 \in T
    <3> SUFFICES ASSUME NEW n \in Nat, n \in T, n + 1 + 1 \in DOMAIN l
                 PROVE  HoldsFirst(h, l, p, b, n + 1 + 1, f[n + 1 + 1])
      OBVIOUS
    <3>1. n + 1 \in DOMAIN l
      BY <1>1
    <3>2. HoldsFirst(h, l, p, b, n + 1, f[n + 1])
      BY <3>1
    <3> HIDE DEF T
    <3> QED
      BY <1>6, <3>1, <3>2
  <2> HIDE DEF T
  <2> QED
    BY <1>5, <2>1, SetInduction
<1>8. Len(l) - 1 \in Nat /\ Len(l) - 1 + 1 = Len(l) /\ Len(l) \in DOMAIN l
  BY <1>1
<1> QED
  BY <1>7, <1>8

(* A buffer that serialize has returned is the size and the fields, each    *)
(* word written, and nothing else, whatever the allocator does.             *)
THEOREM BuffersAreWhole == Spec => []BufferWhole
<1>1. SInv => BufferWhole
  <2> SUFFICES ASSUME SInv, buf # Null
               PROVE  heap[buf] = [k \in 0..(Len(Image(heap, layout, obj)) - 1) |->
                                     Image(heap, layout, obj)[k + 1]]
    BY DEF BufferWhole
  <2> DEFINE s == [i \in DOMAIN layout |-> Piece(heap, layout, obj, i)]
             m == AllocSize(heap, layout, obj)
             fields == FlattenSeq(s)
             image == Image(heap, layout, obj)
  <2>1. /\ layout \in Layouts /\ Object(heap, layout, obj)
        /\ Filled(heap, layout, obj, buf, Len(layout) + 1)
    BY DEF SInv, Types, BufferInv
  <2>2. /\ m = Begin(heap, layout, obj, Len(layout) + 1) /\ m \in 1..(SlotMod - 1)
        /\ heap[buf] \in Words(m) /\ heap[buf][0] = m
    BY <2>1, ObjectFacts DEF Filled
  <2>3. Len(layout) \in Nat \ {0} /\ DOMAIN layout = 1..Len(layout)
    BY <2>1, LayoutFacts
  <2>4. /\ DOMAIN s = DOMAIN layout /\ Len(s) = Len(layout)
        /\ \A i \in DOMAIN layout : s[i] = Piece(heap, layout, obj, i)
    BY <2>3
  <2>5. image = <<m>> \o fields
    BY DEF Image, Piece
  <2> HIDE DEF s, m, fields, image
  <2>6. PICK f : Flattened(s, Len(layout), f) /\ fields = f[Len(layout)]
    BY <2>3, <2>4, FlattenUnfolds DEF fields
  <2>7. HoldsFirst(heap, layout, obj, buf, Len(layout), fields)
    BY <2>1, <2>4, <2>6, FieldsInOrder
  <2>8. /\ fields \in Seq(Cell) /\ Len(fields) = m - 1 /\ m \in Nat \ {0} /\ m \in Cell
        /\ \A j \in 1..Len(fields) : fields[j] = heap[buf][j]
    BY <2>2, <2>7, SerializationAssumption, HeapAssumption DEF HoldsFirst, Cell
  <2>9. /\ Len(image) = m /\ image[1] = m
        /\ \A j \in 1..(m - 1) : image[j + 1] = fields[j]
    BY <2>5, <2>8
  <2>10. \A k \in 0..(m - 1) : image[k + 1] = heap[buf][k]
    <3> SUFFICES ASSUME NEW k \in 0..(m - 1) PROVE image[k + 1] = heap[buf][k]
      OBVIOUS
    <3>1. k # 0 => k \in 1..(m - 1)
      BY <2>8
    <3> QED
      BY <2>2, <2>8, <2>9, <3>1
  <2>11. heap[buf] = [k \in 0..(m - 1) |-> heap[buf][k]]
    BY <2>2 DEF Words
  <2> QED
    BY <2>9, <2>10, <2>11 DEF image
<1> QED
  BY <1>1, InvariantHolds, PTL
=============================================================================
