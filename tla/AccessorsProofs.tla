--------------------------- MODULE AccessorsProofs ---------------------------
(***************************************************************************)
(* Proofs about the generated accessors, for every set of fields, every    *)
(* array length and element size, and every allocator.                     *)
(***************************************************************************)
EXTENDS Accessors, HeapProofs

-----------------------------------------------------------------------------
(* Lemmas on the helpers                                                    *)

(* A size computation never leaves the size_t range.                        *)
LEMMA SlotsRange == \A n \in Nat : Slots(n) \in 0..(SlotMod - 1)
BY HeapAssumption, SMTT(30) DEF Slots

(* Client arrays are shorter than the size_t range, so their size is exact. *)
LEMMA InputFacts ==
  ASSUME NEW in \in Input
  PROVE  /\ in.len \in Nat /\ in.len \in ArrayLen /\ in.len <= SlotMod - 1
         /\ in.data \in [0..(in.len - 1) -> Value]
         /\ in.data \in Block
         /\ Slots(in.len) = in.len
<1>1. PICK n \in ArrayLen : in \in [len : {n}, data : [0..(n - 1) -> Value]]
  BY DEF Input
<1>2. n \in 0..(SlotMod - 1)
  BY AccessorsAssumption
<1>3. in.len = n /\ in.data \in [0..(n - 1) -> Value]
  BY <1>1
<1>4. in.data \in Block
  BY <1>2, <1>3, BlockIntro DEF Cell
<1>5. Slots(n) = n
  BY <1>2, HeapAssumption, SMTT(30) DEF Slots
<1> QED
  BY <1>2, <1>3, <1>4, <1>5, HeapAssumption

(* The struct is a block of its own.                                        *)
LEMMA StructBlockIsBlock == StructBlock \in Block
<1>1. StructBlock \in [0..(1 - 1) -> Cell]
  BY DEF StructBlock, Cell
<1>2. 1 \in 0..(SlotMod - 1)
  BY HeapAssumption
<1> QED
  BY <1>1, <1>2, BlockIntro

(* What the constructor leaves on the heap.                                 *)
LEMMA PlacedFacts ==
  ASSUME heap \in HeapType, NEW sp \in Addr, NEW K \in SUBSET Immutable,
         NEW in \in [Immutable -> Input], NEW at \in Placements(sp, K)
  PROVE  /\ Placed(sp, K, at, in) \in HeapType
         /\ Placed(sp, K, at, in)[sp] = StructBlock
         /\ at \in [K -> Vacant(heap) \ {sp}]
         /\ \A f, g \in K : at[f] = at[g] => f = g
         /\ \A f \in K : Placed(sp, K, at, in)[at[f]] = in[f].data
         /\ \A a \in Addr : a # sp /\ (\A f \in K : at[f] # a) =>
              Placed(sp, K, at, in)[a] = heap[a]
<1>1. /\ at \in [K -> Vacant(heap) \ {sp}]
      /\ \A f, g \in K : at[f] = at[g] => f = g
  BY DEF Placements, Injection, IsInjective
<1>2. \A f \in K : at[f] \in Addr /\ at[f] # sp /\ f \in Immutable
  BY <1>1 DEF Vacant
<1>3. \A a \in Addr : (\E f \in K : at[f] = a) => (CHOOSE f \in K : at[f] = a) \in K
  OBVIOUS
<1>4. \A f \in K : (CHOOSE g \in K : at[g] = at[f]) = f
  BY <1>1
<1>5. \A f \in K : in[f].data \in Block
  BY <1>2, InputFacts
<1>6. \A a \in Addr : Placed(sp, K, at, in)[a] \in Block \cup {Freed}
  BY <1>3, <1>5, StructBlockIsBlock DEF Placed, HeapType
<1>7. Placed(sp, K, at, in) \in HeapType
  BY <1>6 DEF HeapType, Placed
<1>8. \A f \in K : Placed(sp, K, at, in)[at[f]] = in[f].data
  BY <1>2, <1>4 DEF Placed
<1>9. Placed(sp, K, at, in)[sp] = StructBlock
  BY DEF Placed
<1>10. \A a \in Addr : a # sp /\ (\A f \in K : at[f] # a) =>
         Placed(sp, K, at, in)[a] = heap[a]
  BY DEF Placed
<1> QED
  BY <1>1, <1>7, <1>8, <1>9, <1>10

-----------------------------------------------------------------------------
(* Type correctness                                                         *)

(* What a client passes.                                                    *)
LEMMA DataIsArray ==
  ASSUME NEW in \in Input
  PROVE  in.data \in Array
<1>1. PICK n \in ArrayLen : in \in [len : {n}, data : [0..(n - 1) -> Value]]
  BY DEF Input
<1>2. in.data \in [0..(n - 1) -> Cell]
  BY <1>1 DEF Cell
<1> QED
  BY <1>2 DEF Array

LEMMA ArgumentTypes ==
  /\ \A in \in [Immutable -> Input] : Given(in) \in Argument
  /\ \A data \in Array : [array |-> data] \in Argument
  /\ \A i \in Index : [idx |-> i] \in Argument
  /\ \A i \in Index, v \in Value : [idx |-> i, val |-> v] \in Argument
  /\ \A n \in ResizeLen : [count |-> n] \in Argument
<1>1. ASSUME NEW in \in [Immutable -> Input] PROVE Given(in) \in Argument
  <2>1. [f \in Immutable |-> in[f].data] \in [Immutable -> Array]
    BY DataIsArray
  <2> QED
    BY <2>1 DEF Given, Argument
<1> QED
  BY <1>1 DEF Argument

(* What the functions return.                                               *)
LEMMA RespondType ==
  ASSUME NEW fn \in CallName, NEW f \in Field \cup {NoField}, NEW arg \in Argument,
         NEW ok \in BOOLEAN, NEW out \in Cell \cup {NoValue}, Respond(fn, f, arg, ok, out)
  PROVE  call' \in CallType
<1>1. (IF ok THEN arg ELSE NoValue) \in Argument
  BY DEF Argument
<1> QED
  BY <1>1 DEF Respond, CallType

LEMMA ReturnType ==
  ASSUME NEW fn \in CallName, NEW f \in Field \cup {NoField}, NEW ok \in BOOLEAN,
         NEW out \in Cell \cup {NoValue}, Return(fn, f, ok, out)
  PROVE  call' \in CallType
<1>1. NoValue \in Argument
  BY DEF Argument
<1> QED
  BY <1>1, RespondType DEF Return

(* What the accesses report.                                                *)
LEMMA FaultTypes ==
  ASSUME NEW h, NEW p, NEW i, NEW n
  PROVE  AccessFault(h, p, i, n) \in Fault /\ ReallocFault(h, p) \in Fault
BY DEF AccessFault, ReallocFault, Fault

(* What a fault-free access reads are cells.                                *)
LEMMA AccessedCells ==
  ASSUME NEW h \in HeapType, NEW p \in Addr \cup {Null}, NEW i \in Nat, NEW n \in Nat,
         AccessFault(h, p, i, n) = "none"
  PROVE  /\ \A j \in i..(i + n - 1) : h[p][j] \in Cell
         /\ n # 0 => p \in Addr /\ h[p] # Freed
<1>1. CASE n = 0
  BY <1>1
<1>2. CASE n # 0
  <2>1. p \in Addr /\ h[p] # Freed /\ \A j \in i..(i + n - 1) : j \in DOMAIN h[p]
    BY <1>2 DEF AccessFault
  <2>2. PICK m \in 0..(SlotMod - 1) : h[p] \in [0..(m - 1) -> Cell]
    BY <2>1, LiveIsBlock, BlockElim
  <2> QED
    BY <2>1, <2>2
<1> QED
  BY <1>1, <1>2

(* Whatever pointer realloc is given, it returns NULL or an address and     *)
(* leaves a heap.                                                           *)
LEMMA ReallocType ==
  ASSUME NEW h \in HeapType, NEW p \in Addr \cup {Null}, NEW n \in 0..(SlotMod - 1),
         NEW r \in Realloc(h, p, n)
  PROVE  r.heap \in HeapType /\ r.ptr \in Addr \cup {Null}
<1>1. CASE p = Null
  BY <1>1, MallocOutcome DEF Realloc
<1>2. CASE p # Null /\ h[p] = Freed
  BY <1>2 DEF Realloc, Refused
<1>3. CASE p # Null /\ h[p] # Freed
  BY <1>3, ReallocOutcome
<1> QED
  BY <1>1, <1>2, <1>3

(* The array that set is handed back has cells, and its size is exact.      *)
LEMMA LentFacts ==
  ASSUME TypeOK, NEW f \in Field, NEW n \in ArrayLen, SetLent(f, n)
  PROVE  /\ n \in 0..(SlotMod - 1) /\ n \in Nat /\ Slots(n) = n
         /\ \A j \in 0..(n - 1) : heap[ptr[f]][j] \in Cell
<1>1. n \in 0..(SlotMod - 1) /\ n \in Nat
  BY AccessorsAssumption, HeapAssumption
<1>2. Slots(n) = n
  BY <1>1, HeapAssumption, SMTT(30) DEF Slots
<1>3. /\ heap \in HeapType /\ ptr[f] \in Addr /\ heap[ptr[f]] # Freed
      /\ 0..(n - 1) \subseteq DOMAIN heap[ptr[f]]
  BY DEF SetLent, TypeOK
<1>4. PICK m \in 0..(SlotMod - 1) : heap[ptr[f]] \in [0..(m - 1) -> Cell]
  BY <1>3, LiveIsBlock, BlockElim
<1>5. \A j \in 0..(n - 1) : heap[ptr[f]][j] \in Cell
  BY <1>3, <1>4
<1> QED
  BY <1>1, <1>2, <1>5

(* One call keeps the types.                                                *)
LEMMA TypeStep == TypeOK /\ [Next]_vars => TypeOK'
<1> SUFFICES ASSUME TypeOK, [Next]_vars PROVE TypeOK'
  OBVIOUS
<1> USE DEF TypeOK
<1>1. CASE UNCHANGED vars
  BY <1>1 DEF vars
<1>2. CASE CreateOk
  <2>0. PICK in \in [Immutable -> Input], sp \in Vacant(heap) :
          \E at \in Placements(sp, Immutable) :
            /\ heap' = Placed(sp, Immutable, at, in)
            /\ self' = sp
            /\ count' = [f \in Field |-> IF f \in Mutable THEN 0 ELSE in[f].len]
            /\ ptr' = [f \in Field |-> IF f \in Mutable THEN Null ELSE at[f]]
            /\ Respond("create", NoField, Given(in), TRUE, NoValue)
    BY <1>2 DEF CreateOk
  <2>1. PICK at \in Placements(sp, Immutable) :
          /\ heap' = Placed(sp, Immutable, at, in)
          /\ self' = sp
          /\ count' = [f \in Field |-> IF f \in Mutable THEN 0 ELSE in[f].len]
          /\ ptr' = [f \in Field |-> IF f \in Mutable THEN Null ELSE at[f]]
    BY <2>0
  <2>2. sp \in Addr
    BY DEF Vacant
  <2>3. heap' \in HeapType /\ at \in [Immutable -> Vacant(heap) \ {sp}]
    BY <2>1, <2>2, PlacedFacts
  <2>4. count' \in [Field -> Nat]
    BY <2>1, InputFacts DEF Immutable
  <2>5. ptr' \in [Field -> Addr \cup {Null}]
    BY <2>1, <2>3 DEF Immutable, Vacant
  <2>6. fault' \in Fault /\ copies' = copies
    BY <1>2 DEF CreateOk, NoObject, Fault
  <2>7. call' \in CallType
    BY <2>0, ArgumentTypes, RespondType DEF CallName
  <2> QED
    BY <2>1, <2>2, <2>3, <2>4, <2>5, <2>6, <2>7
<1>3. CASE CreateFails
  <2>1. Return("create", NoField, FALSE, NoValue)
    BY <1>3 DEF CreateFails
  <2> QED
    BY <1>3, <2>1, ReturnType DEF CreateFails, NoObject, CallName, Fault
<1>4. CASE CreateFailsHalfway
  <2>1. PICK in \in [Immutable -> Input], sp \in Vacant(heap), K \in SUBSET Immutable :
          \E at \in Placements(sp, K) : heap' = Placed(sp, K, at, in)
    BY <1>4 DEF CreateFailsHalfway
  <2>2. heap' \in HeapType
    BY <2>1, PlacedFacts DEF Vacant
  <2>3. Return("create", NoField, FALSE, NoValue)
    BY <1>4 DEF CreateFailsHalfway
  <2> QED
    BY <1>4, <2>2, <2>3, ReturnType DEF CreateFailsHalfway, NoObject, CallName, Fault
<1>5. CASE Destroy
  <2>1. heap' \in HeapType
    BY <1>5 DEF Destroy, HeapType
  <2>2. Return("destroy", NoField, TRUE, NoValue)
    BY <1>5 DEF Destroy
  <2> QED
    BY <1>5, <2>1, <2>2, ReturnType DEF Destroy, CallName, Fault
<1>6. CASE FreeCopy
  <2>1. heap' \in HeapType
    BY <1>6 DEF FreeCopy, Free, HeapType
  <2>2. Return("free_copy", NoField, TRUE, NoValue)
    BY <1>6 DEF FreeCopy
  <2>3. fault' \in Fault
    BY <1>6, FaultTypes DEF FreeCopy
  <2> QED
    BY <1>6, <2>1, <2>2, <2>3, ReturnType DEF FreeCopy, CallName
<1>7. ASSUME NEW f \in Field, FieldCall(f) PROVE TypeOK'
  <2>1. ASSUME NEW fn \in NullHandle, CallOnNull(fn, f) PROVE TypeOK'
    <3>1. Return(fn, f, FALSE, NoValue) /\ fn \in CallName
      BY <2>1, AccessorsAssumption DEF CallOnNull, CallName
    <3> QED
      BY <2>1, <3>1, ReturnType DEF CallOnNull, Fault
  <2>2. CASE GetLent(f)
    <3>1. Return("get", f, TRUE, NoValue)
      BY <2>2 DEF GetLent
    <3> QED
      BY <2>2, <3>1, ReturnType DEF GetLent, Fault, CallName
  <2>3. CASE GetCopy(f)
    <3> DEFINE n == Slots(count[f])
    <3>1. n \in 0..(SlotMod - 1) /\ n \in Nat
      BY SlotsRange
    <3>2. PICK r \in Malloc(heap, n) :
            IF r.ptr = Null
              THEN /\ Return("get", f, FALSE, NoValue)
                   /\ fault' = "none"
                   /\ UNCHANGED <<heap, copies>>
              ELSE LET bad == AccessFault(heap, ptr[f], 0, n) IN
                   /\ Return("get", f, TRUE, NoValue)
                   /\ fault' = bad
                   /\ heap' = IF bad = "none" THEN CopyIn(r.heap, r.ptr, 0, n, heap[ptr[f]])
                                              ELSE r.heap
                   /\ copies' = copies \cup {r.ptr}
      BY <2>3 DEF GetCopy
    <3>3. r.heap \in HeapType /\ r.ptr \in Addr \cup {Null}
      BY <3>1, MallocOutcome
    <3>4. AccessFault(heap, ptr[f], 0, n) = "none" =>
            CopyIn(r.heap, r.ptr, 0, n, heap[ptr[f]]) \in HeapType
      <4> SUFFICES ASSUME AccessFault(heap, ptr[f], 0, n) = "none"
                   PROVE  CopyIn(r.heap, r.ptr, 0, n, heap[ptr[f]]) \in HeapType
        OBVIOUS
      <4>1. \A j \in 0..(0 + n - 1) : heap[ptr[f]][j] \in Cell
        <5>1. ptr[f] \in Addr \cup {Null} /\ 0 \in Nat
          OBVIOUS
        <5> HIDE DEF n
        <5> QED
          BY <3>1, <5>1, AccessedCells
      <4>2. \A j \in 0..(n - 1) : heap[ptr[f]][j] \in Cell
        <5>1. 0 + n - 1 = n - 1
          BY <3>1
        <5> QED
          BY <4>1, <5>1
      <4> HIDE DEF n
      <4> QED
        BY <3>1, <3>3, <4>2, CopyInOutcome
    <3>5. UNCHANGED <<self, count, ptr>>
      BY <2>3 DEF GetCopy
    <3>6. CASE r.ptr = Null
      BY <3>2, <3>5, <3>6, ReturnType DEF Fault, CallName
    <3>7. CASE r.ptr # Null
      <4>1. heap' \in HeapType /\ copies' \in SUBSET Addr
        BY <3>2, <3>3, <3>4, <3>7
      <4>2. fault' \in Fault
        BY <3>2, <3>7, FaultTypes
      <4> QED
        BY <3>2, <3>5, <3>7, <4>1, <4>2, ReturnType DEF CallName
    <3> QED
      BY <3>6, <3>7
  <2>4. ASSUME NEW i \in Index, GetItem(f, i) PROVE TypeOK'
    <3> DEFINE bad == AccessFault(heap, ptr[f], i, 1)
    <3>1. i \in Nat
      BY AccessorsAssumption
    <3>2. bad = "none" => heap[ptr[f]][i] \in Cell
      BY <3>1, AccessedCells
    <3>3. UNCHANGED <<heap, self, count, ptr, copies>>
      BY <2>4 DEF GetItem
    <3>4. fault' \in Fault
      <4>1. fault' \in {bad, "none"}
        BY <2>4 DEF GetItem
      <4> QED
        BY <4>1, FaultTypes DEF Fault
    <3>5. call' \in CallType
      <4>1. CASE i < count[f]
        <5>1. \E out \in Cell \cup {NoValue} : Respond("get_item", f, [idx |-> i], TRUE, out)
          BY <2>4, <3>2, <4>1 DEF GetItem
        <5> QED
          BY <5>1, ArgumentTypes, RespondType DEF CallName
      <4>2. CASE ~(i < count[f])
        <5>1. Return("get_item", f, FALSE, NoValue)
          BY <2>4, <4>2 DEF GetItem
        <5> QED
          BY <5>1, ReturnType DEF CallName
      <4> QED
        BY <4>1, <4>2
    <3> QED
      BY <3>3, <3>4, <3>5
  <2>5. ASSUME NEW in \in Input, Set(f, in) PROVE TypeOK'
    <3> DEFINE n == Slots(in.len)
    <3>1. /\ in.len \in Nat /\ n \in Nat /\ n \in 0..(SlotMod - 1)
          /\ \A j \in 0..(n - 1) : in.data[j] \in Cell
      BY InputFacts DEF Cell
    <3>0. ASSUME NEW ok \in BOOLEAN, Respond("set", f, [array |-> in.data], ok, NoValue)
          PROVE  call' \in CallType
      BY <3>0, DataIsArray, ArgumentTypes, RespondType DEF CallName
    <3>2. CASE SetFirst(f, in)
      <4>1. PICK r \in Malloc(heap, n) :
              /\ heap' = IF r.ptr = Null THEN heap ELSE CopyIn(r.heap, r.ptr, 0, n, in.data)
              /\ ptr' = [ptr EXCEPT ![f] = r.ptr]
              /\ Respond("set", f, [array |-> in.data], r.ptr # Null, NoValue)
        BY <3>2 DEF SetFirst
      <4>2. r.heap \in HeapType /\ r.ptr \in Addr \cup {Null}
        BY <3>1, MallocOutcome
      <4>3. heap' \in HeapType
        BY <3>1, <4>1, <4>2, CopyInOutcome
      <4>4. count' \in [Field -> Nat]
        BY <3>1, <3>2 DEF SetFirst
      <4>5. call' \in CallType
        BY <3>0, <4>1
      <4> QED
        BY <3>2, <4>1, <4>2, <4>3, <4>4, <4>5 DEF SetFirst, Fault
    <3>3. CASE SetInPlace(f, in)
      <4>1. heap' = CopyIn(heap, ptr[f], 0, n, in.data)
        BY <3>3 DEF SetInPlace
      <4>2. heap' \in HeapType
        BY <3>1, <4>1, CopyInOutcome
      <4>3. fault' \in Fault
        BY <3>3, FaultTypes DEF SetInPlace
      <4>4. call' \in CallType
        BY <3>0, <3>3 DEF SetInPlace
      <4> QED
        BY <3>3, <4>2, <4>3, <4>4 DEF SetInPlace
    <3>4. CASE SetResized(f, in)
      <4>1. PICK r \in Realloc(heap, ptr[f], n) :
              IF r.ptr = Null
                THEN /\ heap' = r.heap
                     /\ UNCHANGED ptr
                     /\ Return("set", f, FALSE, NoValue)
                ELSE /\ heap' = CopyIn(r.heap, r.ptr, 0, n, in.data)
                     /\ ptr' = [ptr EXCEPT ![f] = r.ptr]
                     /\ Respond("set", f, [array |-> in.data], TRUE, NoValue)
        BY <3>4 DEF SetResized
      <4>2. r.heap \in HeapType /\ r.ptr \in Addr \cup {Null}
        BY <3>1, ReallocType
      <4>3. heap' \in HeapType
        <5>1. CopyIn(r.heap, r.ptr, 0, n, in.data) \in HeapType
          <6> HIDE DEF n
          <6> QED
            BY <3>1, <4>2, CopyInOutcome
        <5> QED
          BY <4>1, <4>2, <5>1
      <4>4. ptr' \in [Field -> Addr \cup {Null}]
        BY <4>1, <4>2
      <4>5. count' \in [Field -> Nat]
        BY <3>1, <3>4 DEF SetResized
      <4>6. fault' \in Fault /\ UNCHANGED <<self, copies>>
        BY <3>4, FaultTypes DEF SetResized
      <4>7. call' \in CallType
        BY <3>0, <4>1, ReturnType DEF CallName
      <4> QED
        BY <4>3, <4>4, <4>5, <4>6, <4>7
    <3> QED
      BY <2>5, <3>2, <3>3, <3>4 DEF Set
  <2>6. ASSUME NEW i \in Index, NEW v \in Value, SetItem(f, i, v) PROVE TypeOK'
    <3>1. i \in Nat
      BY AccessorsAssumption
    <3>2. CopyIn(heap, ptr[f], i, 1, [j \in {0} |-> v]) \in HeapType
      <4>1. \A k \in 0..(1 - 1) : [j \in {0} |-> v][k] \in Cell
        BY DEF Cell
      <4> QED
        BY <3>1, <4>1, CopyInOutcome
    <3>3. heap' \in HeapType
      BY <2>6, <3>2 DEF SetItem
    <3>4. fault' \in Fault /\ UNCHANGED <<self, count, ptr, copies>>
      <4>1. fault' \in {AccessFault(heap, ptr[f], i, 1), "none"}
        BY <2>6 DEF SetItem
      <4> QED
        BY <2>6, <4>1, FaultTypes DEF SetItem, Fault
    <3>5. call' \in CallType
      <4>1. \/ Respond("set_item", f, [idx |-> i, val |-> v], TRUE, NoValue)
            \/ Return("set_item", f, FALSE, NoValue)
        BY <2>6 DEF SetItem
      <4> QED
        BY <4>1, ArgumentTypes, RespondType, ReturnType DEF CallName
    <3> QED
      BY <3>3, <3>4, <3>5
  <2>7. CASE SetCount(f)
    <3>1. CASE SetCountZero(f)
      BY <2>7, <3>1, ReturnType DEF SetCount, SetCountZero, Fault, CallName
    <3>2. ASSUME NEW n \in ResizeLen, SetCountNonZero(f, n) PROVE TypeOK'
      <4>1. n \in Nat /\ Slots(n) \in 0..(SlotMod - 1)
        BY AccessorsAssumption, SlotsRange
      <4>2. PICK r \in Realloc(heap, ptr[f], Slots(n)) :
              /\ heap' = r.heap
              /\ count' = IF r.ptr = Null THEN count ELSE [count EXCEPT ![f] = n]
              /\ ptr'   = IF r.ptr = Null THEN ptr   ELSE [ptr EXCEPT ![f] = r.ptr]
              /\ Respond("set_count", f, [count |-> n], r.ptr # Null, NoValue)
        BY <3>2 DEF SetCountNonZero
      <4>3. r.heap \in HeapType /\ r.ptr \in Addr \cup {Null}
        BY <4>1, ReallocType
      <4>4. fault' \in Fault /\ UNCHANGED <<self, copies>>
        BY <2>7, <3>2, FaultTypes DEF SetCount, SetCountNonZero
      <4>5. call' \in CallType
        BY <4>2, ArgumentTypes, RespondType DEF CallName
      <4> QED
        BY <4>1, <4>2, <4>3, <4>4, <4>5
    <3> QED
      BY <2>7, <3>1, <3>2 DEF SetCount
  <2>8. ASSUME NEW n \in ArrayLen, SetLent(f, n) PROVE TypeOK'
    <3> DEFINE src == heap[ptr[f]]
    <3>1. n \in 0..(SlotMod - 1) /\ n \in Nat /\ \A j \in 0..(n - 1) : src[j] \in Cell
      BY <2>8, LentFacts
    <3>2. PICK r \in Realloc(heap, ptr[f], n) :
            IF r.ptr = Null
              THEN /\ heap' = r.heap
                   /\ fault' = "none"
                   /\ UNCHANGED ptr
                   /\ Return("set", f, FALSE, NoValue)
              ELSE /\ heap' = CopyIn(r.heap, r.ptr, 0, n, src)
                   /\ fault' = IF n = 0 \/ r.ptr = ptr[f] THEN "none" ELSE "dangling"
                   /\ ptr' = [ptr EXCEPT ![f] = r.ptr]
                   /\ Respond("set", f, [array |-> [i \in 0..(n - 1) |-> src[i]]], TRUE, NoValue)
      BY <2>8 DEF SetLent
    <3>3. r.heap \in HeapType /\ r.ptr \in Addr \cup {Null}
      BY <3>1, ReallocType
    <3>4. CopyIn(r.heap, r.ptr, 0, n, src) \in HeapType
      <4> HIDE DEF src
      <4> QED
        BY <3>1, <3>3, CopyInOutcome
    <3>5. heap' \in HeapType /\ ptr' \in [Field -> Addr \cup {Null}] /\ fault' \in Fault
      BY <3>2, <3>3, <3>4 DEF Fault
    <3>6. count' \in [Field -> Nat] /\ UNCHANGED <<self, copies>>
      BY <2>8, <3>1 DEF SetLent
    <3>7. call' \in CallType
      <4>1. [i \in 0..(n - 1) |-> src[i]] \in Array
        BY <3>1 DEF Array
      <4> QED
        BY <3>2, <4>1, ArgumentTypes, RespondType, ReturnType DEF CallName
    <3> QED
      BY <3>5, <3>6, <3>7
  <2> QED
    BY <1>7, <2>1, <2>2, <2>3, <2>4, <2>5, <2>6, <2>7, <2>8 DEF FieldCall
<1> QED
  BY <1>1, <1>2, <1>3, <1>4, <1>5, <1>6, <1>7 DEF Next

(* The variables of the generated code keep their types, whatever is called *)
(* and whatever the allocator does.                                         *)
THEOREM TypeCorrect == Spec => []TypeOK
<1>1. Init => TypeOK
  BY HeapAssumption DEF Init, TypeOK, EmptyHeap, HeapType, CallType, Argument, CallName, Fault
<1> QED
  BY <1>1, TypeStep, PTL DEF Spec

-----------------------------------------------------------------------------
(* Ownership                                                                *)

(* Ownership said of one field, or one copy, at a time.                     *)
Owned ==
  /\ \A f \in Field : ptr[f] # Null =>
       /\ heap[ptr[f]] # Freed /\ ptr[f] # self /\ ptr[f] \notin copies
       /\ self # Null
  /\ \A f, g \in Field : ptr[f] = ptr[g] /\ ptr[f] # Null => f = g
  /\ self # Null => heap[self] # Freed /\ self \notin copies
  /\ \A a \in copies : heap[a] # Freed

(* The form in which the ownership is proved is the one that is checked.    *)
LEMMA OwnedIsOwnership == TypeOK => (Owned <=> Ownership)
BY DEF TypeOK, Owned, Ownership, Arrays, Allocated

(* The same of the next state.                                              *)
LEMMA OwnedIsOwnershipNext == TypeOK' => (Owned' <=> Ownership')
BY DEF TypeOK, Owned, Ownership, Arrays, Allocated

(* A step that moves no pointer and frees no block.                         *)
LEMMA OwnedKept ==
  ASSUME Owned, TypeOK, UNCHANGED <<self, ptr, copies>>,
         \A a \in Addr : heap[a] # Freed => heap'[a] # Freed
  PROVE  Owned'
BY DEF Owned, TypeOK

(* A step that gives field f a block of its own: its old one, at the same   *)
(* or at a vacant address, or a new one at a vacant address.                *)
LEMMA OwnedMoved ==
  ASSUME Owned, TypeOK, self # Null, UNCHANGED <<self, copies>>,
         NEW f \in Field, NEW q \in Addr,
         ptr' = [ptr EXCEPT ![f] = q],
         q = ptr[f] \/ heap[q] = Freed,
         heap'[q] # Freed,
         \A a \in Addr \ {q} : a # ptr[f] => heap'[a] = heap[a]
  PROVE  Owned'
<1>1. \A g \in Field : ptr'[g] = IF g = f THEN q ELSE ptr[g]
  BY DEF TypeOK
<1>2. \A g \in Field \ {f} : ptr[g] # Null => ptr[g] # q /\ ptr[g] # ptr[f] /\ ptr[g] \in Addr
  BY DEF Owned, TypeOK
<1>3. q # self /\ q \notin copies
  BY HeapAssumption DEF Owned, TypeOK
<1>4. self # ptr[f] /\ ptr[f] \notin copies
  BY HeapAssumption DEF Owned, TypeOK
<1>5. q # Null
  BY HeapAssumption
<1> QED
  BY <1>1, <1>2, <1>3, <1>4, <1>5 DEF Owned, TypeOK

(* realloc (or malloc, when the field is NULL) of the block of field f,     *)
(* then a copy into it: the field ends with a block of its own, or with the *)
(* pointer and the heap it had.                                             *)
LEMMA OwnedRealloc ==
  ASSUME NoFreeingRealloc, Owned, TypeOK, NEW f \in Field,
         NEW n \in 0..(SlotMod - 1), n = 0 => "free" \notin ZeroRealloc,
         NEW r \in Realloc(heap, ptr[f], n)
  PROVE  /\ r.ptr = Null => r.heap = heap
         /\ r.ptr # Null =>
              /\ r.ptr \in Addr
              /\ r.ptr = ptr[f] \/ heap[r.ptr] = Freed
              /\ r.heap[r.ptr] # Freed
              /\ DOMAIN r.heap[r.ptr] = 0..(n - 1)
              /\ \A a \in Addr \ {r.ptr} : a # ptr[f] => r.heap[a] = heap[a]
<1>0. heap \in HeapType /\ ptr[f] \in Addr \cup {Null}
  BY DEF TypeOK
<1>1. CASE ptr[f] = Null
  <2>1. r \in Malloc(heap, n)
    BY <1>1 DEF Realloc
  <2>2. [i \in 0..(n - 1) |-> Uninit] # Freed
    BY BlockIntro, FreedIsNoBlock DEF Cell
  <2>3. DOMAIN [i \in 0..(n - 1) |-> Uninit] = 0..(n - 1)
    OBVIOUS
  <2>4. \/ r.ptr = Null /\ r.heap = heap
        \/ /\ r.ptr \in Addr /\ heap[r.ptr] = Freed
           /\ r.heap[r.ptr] = [i \in 0..(n - 1) |-> Uninit]
           /\ \A a \in Addr \ {r.ptr} : r.heap[a] = heap[a]
    BY <1>0, <2>1, MallocOutcome
  <2> QED
    BY <1>1, <2>2, <2>3, <2>4, HeapAssumption
<1>2. CASE ptr[f] # Null
  <2>1. ptr[f] \in Addr /\ heap[ptr[f]] # Freed
    BY <1>0, <1>2 DEF Owned
  <2>2. DOMAIN Resized(heap[ptr[f]], n) = 0..(n - 1)
    BY DEF Resized
  <2>3. Resized(heap[ptr[f]], n) # Freed
    <3>1. PICK m \in 0..(SlotMod - 1) : heap[ptr[f]] \in [0..(m - 1) -> Cell]
      BY <1>0, <2>1, LiveIsBlock, BlockElim
    <3>2. Resized(heap[ptr[f]], n) \in [0..(n - 1) -> Cell]
      BY <3>1 DEF Resized, Cell
    <3> QED
      BY <3>2, BlockIntro, FreedIsNoBlock
  <2> QED
    BY <1>0, <1>2, <2>1, <2>2, <2>3, ReallocOutcome, HeapAssumption
<1> QED
  BY <1>1, <1>2

(* The setter of field f after realloc (or malloc) returned r.              *)
LEMMA OwnedSet ==
  ASSUME NoFreeingRealloc, Owned, TypeOK, self # Null, UNCHANGED <<self, copies>>,
         NEW f \in Field, NEW n \in 0..(SlotMod - 1), n = 0 => "free" \notin ZeroRealloc,
         NEW src, HoldsCells(src, n),
         NEW r \in Realloc(heap, ptr[f], n),
         r.ptr = Null => heap' = r.heap /\ ptr' = ptr,
         r.ptr # Null => /\ heap' = CopyIn(r.heap, r.ptr, 0, n, src)
                         /\ ptr' = [ptr EXCEPT ![f] = r.ptr]
  PROVE  Owned'
<1>1. heap \in HeapType /\ ptr[f] \in Addr \cup {Null} /\ n \in Nat
  BY DEF TypeOK
<1>2. r.heap \in HeapType /\ r.ptr \in Addr \cup {Null}
  BY <1>1, ReallocType
<1>3. CASE r.ptr = Null
  <2>1. heap' = heap /\ ptr' = ptr
    BY <1>3, OwnedRealloc
  <2> QED
    BY <2>1, OwnedKept
<1>4. CASE r.ptr # Null
  <2>1. /\ r.ptr \in Addr
        /\ r.ptr = ptr[f] \/ heap[r.ptr] = Freed
        /\ r.heap[r.ptr] # Freed
        /\ \A a \in Addr \ {r.ptr} : a # ptr[f] => r.heap[a] = heap[a]
    BY <1>4, OwnedRealloc
  <2>2. \A a \in Addr : /\ CopyIn(r.heap, r.ptr, 0, n, src)[a] = Freed <=> r.heap[a] = Freed
                        /\ a # r.ptr => CopyIn(r.heap, r.ptr, 0, n, src)[a] = r.heap[a]
    <3>1. r.ptr \in Pointer
      BY <1>2 DEF Pointer
    <3> QED
      BY <1>2, <3>1, CopyToStart
  <2>3. heap'[r.ptr] # Freed /\ \A a \in Addr \ {r.ptr} : a # ptr[f] => heap'[a] = heap[a]
    BY <1>4, <2>1, <2>2
  <2> QED
    BY <1>4, <2>1, <2>3, OwnedMoved
<1> QED
  BY <1>3, <1>4

(* The getter of an immutable field f after malloc returned r.              *)
LEMMA OwnedCopied ==
  ASSUME Owned, TypeOK, UNCHANGED <<self, count, ptr>>, NEW f \in Field,
         NEW n \in 0..(SlotMod - 1), NEW r \in Malloc(heap, n), r.ptr # Null,
         copies' = copies \cup {r.ptr},
         \/ heap' = r.heap
         \/ /\ heap' = CopyIn(r.heap, r.ptr, 0, n, heap[ptr[f]])
            /\ AccessFault(heap, ptr[f], 0, n) = "none"
  PROVE  Owned'
<1>1. heap \in HeapType /\ ptr[f] \in Addr \cup {Null} /\ n \in Nat
  BY DEF TypeOK
<1>2. /\ r.heap \in HeapType /\ r.ptr \in Addr /\ heap[r.ptr] = Freed
      /\ r.heap[r.ptr] = [i \in 0..(n - 1) |-> Uninit]
      /\ \A a \in Addr \ {r.ptr} : r.heap[a] = heap[a]
  BY <1>1, MallocOutcome
<1>3. r.heap[r.ptr] # Freed
  BY <1>2, BlockIntro, FreedIsNoBlock DEF Cell
<1>4. \A a \in Addr : heap'[a] = Freed <=> r.heap[a] = Freed
  <2>1. CASE heap' = r.heap
    BY <2>1
  <2>2. CASE /\ heap' = CopyIn(r.heap, r.ptr, 0, n, heap[ptr[f]])
             /\ AccessFault(heap, ptr[f], 0, n) = "none"
    <3>1. \A j \in 0..(0 + n - 1) : heap[ptr[f]][j] \in Cell
      BY <1>1, <2>2, AccessedCells
    <3>2. 0 + n - 1 = n - 1
      BY <1>1
    <3>3. HoldsCells(heap[ptr[f]], n) /\ r.ptr \in Pointer
      BY <1>1, <1>2, <3>1, <3>2 DEF HoldsCells, Pointer
    <3> QED
      BY <1>2, <2>2, <3>3, CopyToStart
  <2> QED
    BY <2>1, <2>2
<1>5. \A a \in Addr : heap[a] # Freed => heap'[a] # Freed /\ a # r.ptr
  BY <1>2, <1>4
<1>6. heap'[r.ptr] # Freed /\ \A f1 \in Field : ptr[f1] # Null => ptr[f1] \in Addr
  BY <1>2, <1>3, <1>4 DEF TypeOK
<1>7. self # Null => self \in Addr
  BY DEF TypeOK
<1>8. r.ptr # self /\ \A f1 \in Field : ptr[f1] # r.ptr
  <2>1. self # r.ptr
    BY <1>2, <1>7, HeapAssumption DEF Owned
  <2>2. ASSUME NEW f1 \in Field, ptr[f1] = r.ptr PROVE FALSE
    BY <1>2, <2>2, HeapAssumption DEF Owned
  <2> QED
    BY <2>1, <2>2
<1>9. \A a \in copies' : heap'[a] # Freed
  BY <1>5, <1>6 DEF Owned, TypeOK
<1>10. \A f1 \in Field : ptr[f1] # Null => heap'[ptr[f1]] # Freed /\ ptr[f1] \notin copies'
  BY <1>5, <1>6, <1>8 DEF Owned
<1>11. self # Null => heap'[self] # Freed /\ self \notin copies'
  BY <1>5, <1>7, <1>8 DEF Owned
<1> QED
  BY <1>9, <1>10, <1>11 DEF Owned

(* One call keeps the ownership.                                            *)
LEMMA OwnedStep ==
  ASSUME NoFreeingRealloc
  PROVE  TypeOK /\ Owned /\ [Next]_vars => Owned'
<1> SUFFICES ASSUME TypeOK, Owned, [Next]_vars PROVE Owned'
  OBVIOUS
<1> USE DEF TypeOK
<1>1. CASE UNCHANGED vars
  BY <1>1 DEF vars, Owned
<1>2. CASE CreateOk
  <2>0. PICK in \in [Immutable -> Input], sp \in Vacant(heap) :
          \E at \in Placements(sp, Immutable) :
            /\ heap' = Placed(sp, Immutable, at, in)
            /\ self' = sp
            /\ ptr' = [f \in Field |-> IF f \in Mutable THEN Null ELSE at[f]]
    BY <1>2 DEF CreateOk
  <2>1. PICK at \in Placements(sp, Immutable) :
          /\ heap' = Placed(sp, Immutable, at, in)
          /\ self' = sp
          /\ ptr' = [f \in Field |-> IF f \in Mutable THEN Null ELSE at[f]]
    BY <2>0
  <2>2. /\ heap'[sp] = StructBlock
        /\ at \in [Immutable -> Vacant(heap) \ {sp}]
        /\ \A f, g \in Immutable : at[f] = at[g] => f = g
        /\ \A f \in Immutable : heap'[at[f]] = in[f].data
        /\ \A a \in Addr : a # sp /\ (\A f \in Immutable : at[f] # a) => heap'[a] = heap[a]
    BY <2>1, PlacedFacts DEF Vacant
  <2>3. copies' = copies /\ sp \in Addr /\ heap[sp] = Freed /\ sp # Null
    BY <1>2, HeapAssumption DEF CreateOk, NoObject, Vacant
  <2>4. \A f \in Immutable : at[f] \in Addr /\ heap[at[f]] = Freed /\ at[f] # sp /\ at[f] # Null
    BY <2>2, HeapAssumption DEF Vacant
  <2>5. \A a \in copies : heap[a] # Freed /\ heap'[a] = heap[a] /\ a # sp
                         /\ \A f \in Immutable : at[f] # a
    BY <2>2, <2>3, <2>4 DEF Owned
  <2>6. \A f \in Immutable : heap'[at[f]] # Freed
    BY <2>2, InputFacts, FreedIsNoBlock
  <2>7. heap'[sp] # Freed
    BY <2>2, StructBlockIsBlock, FreedIsNoBlock
  <2>8. \A f \in Field : ptr'[f] # Null => f \in Immutable /\ ptr'[f] = at[f]
    BY <2>1 DEF Immutable
  <2> QED
    BY <2>1, <2>2, <2>3, <2>4, <2>5, <2>6, <2>7, <2>8 DEF Owned
<1>3. CASE CreateFails
  BY <1>3, OwnedKept DEF CreateFails, NoObject
<1>4. CASE CreateFailsHalfway
  <2>1. PICK in \in [Immutable -> Input], sp \in Vacant(heap), K \in SUBSET Immutable :
          \E at \in Placements(sp, K) : heap' = Placed(sp, K, at, in)
    BY <1>4 DEF CreateFailsHalfway
  <2>2. PICK at \in Placements(sp, K) : heap' = Placed(sp, K, at, in)
    BY <2>1
  <2>3. /\ at \in [K -> Vacant(heap) \ {sp}] /\ sp \in Addr /\ heap[sp] = Freed
        /\ \A a \in Addr : a # sp /\ (\A f \in K : at[f] # a) => heap'[a] = heap[a]
    BY <2>2, PlacedFacts DEF Vacant
  <2>4. \A a \in Addr : heap[a] # Freed => heap'[a] # Freed
    BY <2>3 DEF Vacant
  <2> QED
    BY <1>4, <2>4, OwnedKept DEF CreateFailsHalfway, NoObject
<1>5. CASE Destroy
  <2>1. \A a \in copies : a # self /\ a \notin Range(ptr)
    BY HeapAssumption DEF Owned, Range
  <2> QED
    BY <1>5, <2>1 DEF Destroy, Owned
<1>6. CASE FreeCopy
  <2>1. PICK a \in copies : heap' = Free(heap, a) /\ copies' = copies \ {a}
    BY <1>6 DEF FreeCopy
  <2>2. \A b \in Addr \ {a} : heap'[b] = heap[b]
    BY <2>1 DEF Free, HeapType
  <2> QED
    BY <1>6, <2>1, <2>2, HeapAssumption DEF FreeCopy, Owned
<1>7. ASSUME NEW f \in Field, FieldCall(f) PROVE Owned'
  <2>1. ASSUME NEW fn \in NullHandle, CallOnNull(fn, f) PROVE Owned'
    BY <2>1, OwnedKept DEF CallOnNull
  <2>2. CASE GetLent(f)
    BY <2>2, OwnedKept DEF GetLent
  <2>3. CASE GetCopy(f)
    <3>1. Slots(count[f]) \in 0..(SlotMod - 1)
      BY SlotsRange
    <3>2. PICK r \in Malloc(heap, Slots(count[f])) :
            \/ r.ptr = Null /\ UNCHANGED <<heap, copies>>
            \/ /\ r.ptr # Null
               /\ \/ heap' = CopyIn(r.heap, r.ptr, 0, Slots(count[f]), heap[ptr[f]])
                     /\ AccessFault(heap, ptr[f], 0, Slots(count[f])) = "none"
                  \/ heap' = r.heap
               /\ copies' = copies \cup {r.ptr}
      BY <2>3 DEF GetCopy
    <3>3. UNCHANGED <<self, count, ptr>>
      BY <2>3 DEF GetCopy
    <3>4. CASE r.ptr = Null
      <4>1. r.heap = heap
        BY <3>1, <3>4, MallocOutcome, HeapAssumption
      <4> QED
        BY <3>2, <3>3, <3>4, <4>1, OwnedKept
    <3>5. CASE r.ptr # Null
      BY <3>1, <3>2, <3>3, <3>5, OwnedCopied
    <3> QED
      BY <3>4, <3>5
  <2>4. ASSUME NEW i \in Index, GetItem(f, i) PROVE Owned'
    BY <2>4, OwnedKept DEF GetItem
  <2>5. ASSUME NEW in \in Input, Set(f, in) PROVE Owned'
    <3> DEFINE n == Slots(in.len)
    <3>1. /\ in.len \in Nat /\ n \in Nat /\ n \in 0..(SlotMod - 1)
          /\ \A j \in 0..(n - 1) : in.data[j] \in Cell
          /\ HoldsCells(in.data, n)
          /\ n = 0 => "free" \notin ZeroRealloc
      BY InputFacts DEF Cell, NoFreeingRealloc, HoldsCells
    <3>3. CASE SetFirst(f, in)
      <4>1. PICK r \in Malloc(heap, n) :
              /\ heap' = IF r.ptr = Null THEN heap ELSE CopyIn(r.heap, r.ptr, 0, n, in.data)
              /\ ptr' = [ptr EXCEPT ![f] = r.ptr]
        BY <3>3 DEF SetFirst
      <4>2. /\ r \in Realloc(heap, ptr[f], n) /\ ptr[f] = Null /\ self # Null
            /\ UNCHANGED <<self, copies>>
        BY <3>3 DEF SetFirst, Realloc
      <4> HIDE DEF n
      <4>3. CASE r.ptr = Null
        <5>1. heap' = heap /\ ptr' = ptr
          BY <4>1, <4>2, <4>3
        <5> QED
          BY <4>2, <5>1, OwnedKept
      <4>4. CASE r.ptr # Null
        <5>1. heap' = CopyIn(r.heap, r.ptr, 0, n, in.data) /\ ptr' = [ptr EXCEPT ![f] = r.ptr]
          BY <4>1, <4>4
        <5> QED
          BY <3>1, <4>2, <4>4, <5>1, OwnedSet
      <4> QED
        BY <4>3, <4>4
    <3>4. CASE SetInPlace(f, in)
      <4>1. heap' = CopyIn(heap, ptr[f], 0, n, in.data)
        BY <3>4 DEF SetInPlace
      <4> HIDE DEF n
      <4>2. heap \in HeapType /\ ptr[f] \in Addr \cup {Null} /\ 0 \in Nat
        OBVIOUS
      <4>3. \A a \in Addr : CopyIn(heap, ptr[f], 0, n, in.data)[a] = Freed <=> heap[a] = Freed
        <5>1. ptr[f] \in Pointer
          BY <4>2 DEF Pointer
        <5> QED
          BY <3>1, <4>2, <5>1, CopyToStart
      <4> QED
        BY <3>4, <4>1, <4>3, OwnedKept DEF SetInPlace
    <3>5. CASE SetResized(f, in)
      <4>1. PICK r \in Realloc(heap, ptr[f], n) :
              IF r.ptr = Null
                THEN heap' = r.heap /\ UNCHANGED ptr
                ELSE /\ heap' = CopyIn(r.heap, r.ptr, 0, n, in.data)
                     /\ ptr' = [ptr EXCEPT ![f] = r.ptr]
        BY <3>5 DEF SetResized
      <4>2. self # Null /\ UNCHANGED <<self, copies>>
        BY <3>5 DEF SetResized
      <4> HIDE DEF n
      <4> QED
        BY <3>1, <4>1, <4>2, OwnedSet
    <3> QED
      BY <2>5, <3>3, <3>4, <3>5 DEF Set
  <2>6. ASSUME NEW i \in Index, NEW v \in Value, SetItem(f, i, v) PROVE Owned'
    <3>1. i \in Nat
      BY AccessorsAssumption
    <3>2. heap' \in {heap, CopyIn(heap, ptr[f], i, 1, [j \in {0} |-> v])}
      BY <2>6 DEF SetItem
    <3>3. \A k \in 0..(1 - 1) : [j \in {0} |-> v][k] \in Cell
      BY DEF Cell
    <3>4. \A a \in Addr : heap'[a] = Freed <=> heap[a] = Freed
      BY <3>1, <3>2, <3>3, CopyInOutcome
    <3> QED
      BY <2>6, <3>4, OwnedKept DEF SetItem
  <2>7. CASE SetCount(f)
    <3>1. CASE SetCountZero(f)
      BY <2>7, <3>1, OwnedKept DEF SetCount, SetCountZero
    <3>2. ASSUME NEW n \in ResizeLen, SetCountNonZero(f, n) PROVE Owned'
      <4>1. /\ Slots(n) \in 0..(SlotMod - 1) /\ n # 0
            /\ Slots(n) = 0 => "free" \notin ZeroRealloc
        BY <3>2, AccessorsAssumption, SlotsRange DEF SetCountNonZero, NoFreeingRealloc
      <4>2. PICK r \in Realloc(heap, ptr[f], Slots(n)) :
              /\ heap' = r.heap
              /\ ptr'   = IF r.ptr = Null THEN ptr ELSE [ptr EXCEPT ![f] = r.ptr]
        BY <3>2 DEF SetCountNonZero
      <4>3. UNCHANGED <<self, copies>> /\ self # Null
        BY <2>7 DEF SetCount
      <4>4. CASE r.ptr = Null
        <5>1. heap' = heap /\ ptr' = ptr
          BY <4>1, <4>2, <4>4, OwnedRealloc
        <5> QED
          BY <4>3, <5>1, OwnedKept
      <4>5. CASE r.ptr # Null
        <5>1. /\ r.ptr \in Addr
              /\ r.ptr = ptr[f] \/ heap[r.ptr] = Freed
              /\ r.heap[r.ptr] # Freed
              /\ \A a \in Addr \ {r.ptr} : a # ptr[f] => r.heap[a] = heap[a]
          BY <4>1, <4>5, OwnedRealloc
        <5>2. /\ ptr' = [ptr EXCEPT ![f] = r.ptr]
              /\ heap'[r.ptr] # Freed
              /\ \A a \in Addr \ {r.ptr} : a # ptr[f] => heap'[a] = heap[a]
          BY <4>2, <4>5, <5>1
        <5> QED
          BY <4>3, <5>1, <5>2, OwnedMoved
      <4> QED
        BY <4>4, <4>5
    <3> QED
      BY <2>7, <3>1, <3>2 DEF SetCount
  <2>8. ASSUME NEW n \in ArrayLen, SetLent(f, n) PROVE Owned'
    <3> DEFINE src == heap[ptr[f]]
    <3>1. /\ n \in 0..(SlotMod - 1) /\ HoldsCells(src, n)
          /\ n = 0 => "free" \notin ZeroRealloc
      BY <2>8, LentFacts DEF HoldsCells, NoFreeingRealloc
    <3>2. PICK r \in Realloc(heap, ptr[f], n) :
            IF r.ptr = Null
              THEN heap' = r.heap /\ UNCHANGED ptr
              ELSE /\ heap' = CopyIn(r.heap, r.ptr, 0, n, src)
                   /\ ptr' = [ptr EXCEPT ![f] = r.ptr]
      BY <2>8 DEF SetLent
    <3>3. self # Null /\ UNCHANGED <<self, copies>>
      BY <2>8 DEF SetLent
    <3> HIDE DEF src
    <3> QED
      BY <3>1, <3>2, <3>3, OwnedSet
  <2> QED
    BY <1>7, <2>1, <2>2, <2>3, <2>4, <2>5, <2>6, <2>7, <2>8 DEF FieldCall
<1> QED
  BY <1>1, <1>2, <1>3, <1>4, <1>5, <1>6, <1>7 DEF Next

(* Whatever the client calls and whichever allocations fail, every array is *)
(* live and has one owner - unless realloc frees on size 0.                 *)
THEOREM OwnershipHolds ==
  ASSUME NoFreeingRealloc
  PROVE  Spec => []Ownership
<1>1. Init => Owned
  BY DEF Init, Owned
<1>2. TypeOK /\ Owned /\ [Next]_vars => Owned'
  BY OwnedStep
<1>3. TypeOK /\ Owned => Ownership
  BY OwnedIsOwnership
<1> QED
  BY <1>1, <1>2, <1>3, TypeCorrect, PTL DEF Spec
=============================================================================
