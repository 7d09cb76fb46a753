------------------------- MODULE AccessorsStepProofs -------------------------
(***************************************************************************)
(* What one call of the generated accessors may do, for any allocator that *)
(* does not free on realloc(p, 0): first the effect of each call on the    *)
(* memory, then the action properties, then what holds in every state      *)
(* while allocation succeeds.                                              *)
(***************************************************************************)
EXTENDS AccessorsProofs

Inv == TypeOK /\ Owned

(* What is known of every state: the types, and one owner for every array.  *)
LEMMA InvHolds ==
  ASSUME NoFreeingRealloc
  PROVE  Spec => []Inv
<1>1. Init => Owned
  BY DEF Init, Owned
<1>2. TypeOK /\ Owned /\ [Next]_vars => Owned'
  BY OwnedStep
<1> QED
  BY <1>1, <1>2, TypeCorrect, PTL DEF Spec, Inv

-----------------------------------------------------------------------------
(* The effects                                                              *)

(* Whether malloc or realloc can return NULL without having freed a block.  *)
MayRefuse == MayFail \/ "null" \in ZeroMalloc \/ "fail" \in ZeroRealloc

Answers(fn, f, ok) == call'.fn = fn /\ call'.field = f /\ call'.ok = ok

(* create succeeds.                                                         *)
ObjectMade ==
  /\ self = Null /\ UNCHANGED copies /\ fault' = "none" /\ Answers("create", NoField, TRUE)
  /\ self' \in Addr /\ heap[self'] = Freed /\ heap'[self'] # Freed
  /\ \A f \in Field \cap Mutable : ptr'[f] = Null /\ count'[f] = 0
  /\ \A f \in Immutable :
       /\ ptr'[f] \in Addr \ {self'} /\ heap[ptr'[f]] = Freed /\ heap'[ptr'[f]] # Freed
       /\ count'[f] < SlotMod /\ DOMAIN heap'[ptr'[f]] = 0..(count'[f] - 1)
  /\ \A a \in Addr : \/ heap'[a] = heap[a]
                     \/ a = self'
                     \/ \E f \in Immutable : a = ptr'[f]

(* create fails, with or without blocks that it leaves behind.              *)
NoObjectMade ==
  /\ self = Null /\ UNCHANGED <<self, count, ptr, copies>> /\ fault' = "none"
  /\ Answers("create", NoField, FALSE)
  /\ \A a \in Addr : heap[a] # Freed => heap'[a] = heap[a]
  /\ MayRefuse

ObjectDestroyed ==
  /\ self # Null /\ self' = Null /\ UNCHANGED copies /\ fault' = "none"
  /\ Answers("destroy", NoField, TRUE)
  /\ \A f \in Field : count'[f] = 0 /\ ptr'[f] = Null
  /\ \A a \in Addr : heap'[a] = IF a = self \/ \E f \in Field : ptr[f] = a
                                  THEN Freed ELSE heap[a]

CopyFreed ==
  /\ UNCHANGED <<self, count, ptr>> /\ fault' = "none"
  /\ Answers("free_copy", NoField, TRUE)
  /\ \E a \in copies :
       /\ copies' = copies \ {a} /\ heap'[a] = Freed
       /\ \A b \in Addr \ {a} : heap'[b] = heap[b]

(* A call that moves no pointer and writes no block; a set that fails may   *)
(* still change the count.                                                  *)
NothingMoved(f) ==
  /\ UNCHANGED <<heap, self, ptr, copies>> /\ call'.field = f
  /\ ~(call'.fn = "set_count" /\ call'.ok)
  /\ \/ UNCHANGED count
     \/ /\ self # Null /\ f \in Mutable /\ Answers("set", f, FALSE) /\ MayRefuse
        /\ \E n \in ArrayLen : count' = [count EXCEPT ![f] = n]

(* The getter of an immutable field hands out a copy.                       *)
CopyGiven(f) ==
  /\ self # Null /\ f \in Immutable /\ UNCHANGED <<self, count, ptr>>
  /\ Answers("get", f, TRUE)
  /\ \E a \in Addr :
       /\ heap[a] = Freed /\ heap'[a] # Freed /\ copies' = copies \cup {a}
       /\ \A b \in Addr \ {a} : heap'[b] = heap[b]
       /\ fault' = "none" =>
            heap'[a] = [j \in 0..(Slots(count[f]) - 1) |-> heap[ptr[f]][j]]

(* A setter that overwrites cells of the field's block.                     *)
CellsWritten(f) ==
  /\ self # Null /\ UNCHANGED <<self, count, ptr, copies>>
  /\ \E fn \in {"set", "set_item"} : Answers(fn, f, TRUE) /\ Callable(fn, f)
  /\ \A a \in Addr : /\ a # ptr[f] => heap'[a] = heap[a]
                     /\ heap'[a] = Freed <=> heap[a] = Freed
                     /\ heap[a] # Freed => DOMAIN heap'[a] = DOMAIN heap[a]

(* A setter that gives the field a block of n elements at q.                *)
ArrayPlaced(f, q, n) ==
  /\ self # Null /\ f \in Mutable /\ UNCHANGED <<self, copies>>
  /\ count' = [count EXCEPT ![f] = n] /\ ptr' = [ptr EXCEPT ![f] = q]
  /\ q = ptr[f] \/ heap[q] = Freed
  /\ heap'[q] # Freed /\ DOMAIN heap'[q] = 0..(Slots(n) - 1)
  /\ ptr[f] \in Addr \ {q} => heap'[ptr[f]] = Freed
  /\ \A a \in Addr \ {q} : a # ptr[f] => heap'[a] = heap[a]

ArrayMoved(f) ==
  \E q \in Addr, n \in Nat :
    /\ ArrayPlaced(f, q, n)
    /\ \/ /\ Answers("set", f, TRUE) /\ n \in ArrayLen
          /\ ptr[f] # Null => count[f] # n
       \/ /\ Answers("set_count", f, TRUE) /\ n \in ResizeLen
          /\ ptr[f] # Null => \A i \in DOMAIN heap[ptr[f]] \cap DOMAIN heap'[q] :
                                heap'[q][i] = heap[ptr[f]][i]

-----------------------------------------------------------------------------
(* Each call has one of the effects                                         *)

(* A realloc (or malloc) for field f that returns a pointer: where the      *)
(* block is then, and what is in it.                                        *)
LEMMA ReallocMoves ==
  ASSUME NoFreeingRealloc, Inv, NEW f \in Field,
         NEW n \in 0..(SlotMod - 1), n = 0 => "free" \notin ZeroRealloc,
         NEW r \in Realloc(heap, ptr[f], n), r.ptr # Null
  PROVE  /\ r.heap \in HeapType /\ r.ptr \in Addr
         /\ r.ptr = ptr[f] \/ heap[r.ptr] = Freed
         /\ r.heap[r.ptr] # Freed /\ DOMAIN r.heap[r.ptr] = 0..(n - 1)
         /\ ptr[f] \in Addr \ {r.ptr} => r.heap[ptr[f]] = Freed
         /\ \A a \in Addr \ {r.ptr} : a # ptr[f] => r.heap[a] = heap[a]
<1>1. heap \in HeapType /\ ptr[f] \in Addr \cup {Null}
  BY DEF Inv, TypeOK
<1>2. /\ r.ptr \in Addr /\ (r.ptr = ptr[f] \/ heap[r.ptr] = Freed)
      /\ r.heap[r.ptr] # Freed /\ DOMAIN r.heap[r.ptr] = 0..(n - 1)
      /\ \A a \in Addr \ {r.ptr} : a # ptr[f] => r.heap[a] = heap[a]
  BY OwnedRealloc DEF Inv
<1>3. r.heap \in HeapType
  BY <1>1, ReallocType
<1>4. ptr[f] \in Addr \ {r.ptr} => r.heap[ptr[f]] = Freed
  <2>1. ptr[f] # Null => heap[ptr[f]] # Freed
    BY DEF Inv, Owned
  <2> QED
    BY <1>1, <2>1, ReallocOutcome, HeapAssumption
<1> QED
  BY <1>2, <1>3, <1>4

(* What the block holds that a realloc for field f returned.                *)
LEMMA ReallocContents ==
  ASSUME Inv, NEW f \in Field, NEW n \in 0..(SlotMod - 1),
         NEW r \in Realloc(heap, ptr[f], n), r.ptr # Null
  PROVE  r.heap[r.ptr] = IF ptr[f] = Null THEN [i \in 0..(n - 1) |-> Uninit]
                                          ELSE Resized(heap[ptr[f]], n)
<1>1. heap \in HeapType /\ ptr[f] \in Addr \cup {Null}
  BY DEF Inv, TypeOK
<1>2. CASE ptr[f] = Null
  <2>1. r \in Malloc(heap, n)
    BY <1>2 DEF Realloc
  <2>2. r.heap[r.ptr] = [i \in 0..(n - 1) |-> Uninit]
    BY <1>1, <2>1, MallocOutcome
  <2> QED
    BY <1>2, <2>2, Zenon
<1>3. CASE ptr[f] # Null
  <2>1. ptr[f] \in Addr /\ heap[ptr[f]] # Freed
    BY <1>1, <1>3 DEF Inv, Owned
  <2>2. r.heap[r.ptr] = Resized(heap[ptr[f]], n)
    BY <1>1, <2>1, ReallocOutcome
  <2> QED
    BY <1>3, <2>2, Zenon
<1> QED
  BY <1>2, <1>3

(* The only way to return NULL is to refuse.                                *)
LEMMA ReallocRefuses ==
  ASSUME NoFreeingRealloc, Inv, NEW f \in Field,
         NEW n \in 0..(SlotMod - 1), n = 0 => "free" \notin ZeroRealloc,
         NEW r \in Realloc(heap, ptr[f], n), r.ptr = Null
  PROVE  r.heap = heap /\ MayRefuse
<1>1. heap \in HeapType /\ ptr[f] \in Addr \cup {Null}
  BY DEF Inv, TypeOK
<1>2. r.heap = heap
  BY OwnedRealloc DEF Inv
<1>3. CASE ptr[f] = Null
  <2>1. r \in Malloc(heap, n)
    BY <1>3 DEF Realloc
  <2>2. MallocMayFail(n)
    BY <1>1, <2>1, MallocOutcome, HeapAssumption
  <2> QED
    BY <1>2, <2>2, Zenon DEF MallocMayFail, MayRefuse
<1>4. CASE ptr[f] # Null
  <2>1. ptr[f] \in Addr /\ heap[ptr[f]] # Freed
    BY <1>1, <1>4 DEF Inv, Owned
  <2> QED
    BY <1>1, <1>2, <2>1, ReallocOutcome, HeapAssumption DEF MayRefuse
<1> QED
  BY <1>3, <1>4

(* realloc of field f to n elements that succeeds, with n elements of src   *)
(* copied to the block or not: where the field is then.                     *)
LEMMA PlacedByRealloc ==
  ASSUME NoFreeingRealloc, Inv, NEW f \in Field, f \in Mutable, self # Null,
         UNCHANGED <<self, copies>>, NEW m \in Nat, NEW n \in 0..(SlotMod - 1), n = Slots(m),
         n = 0 => "free" \notin ZeroRealloc,
         NEW r \in Realloc(heap, ptr[f], n), r.ptr # Null,
         count' = [count EXCEPT ![f] = m], ptr' = [ptr EXCEPT ![f] = r.ptr],
         NEW src,
         \/ heap' = r.heap
         \/ heap' = CopyIn(r.heap, r.ptr, 0, n, src) /\ HoldsCells(src, n)
  PROVE  ArrayPlaced(f, r.ptr, m)
<1>2. /\ r.heap \in HeapType /\ r.ptr \in Addr
      /\ r.ptr = ptr[f] \/ heap[r.ptr] = Freed
      /\ r.heap[r.ptr] # Freed /\ DOMAIN r.heap[r.ptr] = 0..(n - 1)
      /\ ptr[f] \in Addr \ {r.ptr} => r.heap[ptr[f]] = Freed
      /\ \A a \in Addr \ {r.ptr} : a # ptr[f] => r.heap[a] = heap[a]
  BY ReallocMoves
<1>3. /\ heap'[r.ptr] # Freed /\ DOMAIN heap'[r.ptr] = 0..(n - 1)
      /\ \A a \in Addr \ {r.ptr} : heap'[a] = r.heap[a]
  <2>1. CASE heap' = r.heap
    BY <1>2, <2>1
  <2>2. CASE heap' = CopyIn(r.heap, r.ptr, 0, n, src) /\ HoldsCells(src, n)
    <3>1. r.ptr \in Pointer
      BY <1>2 DEF Pointer
    <3> QED
      BY <1>2, <2>2, <3>1, CopyToStart
  <2> QED
    BY <2>1, <2>2
<1> QED
  BY <1>2, <1>3 DEF ArrayPlaced

(* The setters of the array give up after storing the count.                *)
LEMMA SetRefused ==
  ASSUME NEW f \in Field, f \in Mutable, self # Null, MayRefuse,
         UNCHANGED <<heap, self, ptr, copies>>,
         NEW n \in ArrayLen, count' = [count EXCEPT ![f] = n],
         Return("set", f, FALSE, NoValue)
  PROVE  NothingMoved(f)
<1>1. call'.fn = "set" /\ call'.field = f /\ call'.ok = FALSE
  BY DEF Return, Respond
<1>2. Answers("set", f, FALSE)
  BY <1>1 DEF Answers
<1>3. call'.fn # "set_count"
  BY <1>1
<1> QED
  BY <1>1, <1>2, <1>3, Zenon DEF NothingMoved

(* The calls on a field, one by one.                                        *)
LEMMA GetCopyEffect ==
  ASSUME NoFreeingRealloc, Inv, NEW f \in Field, GetCopy(f)
  PROVE  NothingMoved(f) \/ CopyGiven(f)
<1> DEFINE n == Slots(count[f])
<1>1. heap \in HeapType /\ ptr[f] \in Addr \cup {Null} /\ n \in 0..(SlotMod - 1) /\ n \in Nat
  BY SlotsRange DEF Inv, TypeOK
<1>2. UNCHANGED <<self, count, ptr>> /\ self # Null /\ f \in Immutable
  BY DEF GetCopy
<1>3. PICK r \in Malloc(heap, n) :
        IF r.ptr = Null
          THEN /\ Return("get", f, FALSE, NoValue)
               /\ UNCHANGED <<heap, copies>>
          ELSE /\ Return("get", f, TRUE, NoValue)
               /\ fault' = AccessFault(heap, ptr[f], 0, n)
               /\ heap' = IF AccessFault(heap, ptr[f], 0, n) = "none"
                            THEN CopyIn(r.heap, r.ptr, 0, n, heap[ptr[f]]) ELSE r.heap
               /\ copies' = copies \cup {r.ptr}
  BY DEF GetCopy
<1> HIDE DEF n
<1>4. CASE r.ptr = Null
  <2>1. UNCHANGED <<heap, copies>> /\ Return("get", f, FALSE, NoValue)
    BY <1>3, <1>4
  <2>2. call'.fn = "get" /\ call'.field = f
    BY <2>1 DEF Return, Respond
  <2> QED
    BY <1>2, <2>1, <2>2 DEF NothingMoved
<1>5. CASE r.ptr # Null
  <2>1. /\ r.heap \in HeapType /\ r.ptr \in Addr /\ heap[r.ptr] = Freed
        /\ r.heap[r.ptr] = [i \in 0..(n - 1) |-> Uninit]
        /\ \A a \in Addr \ {r.ptr} : r.heap[a] = heap[a]
    BY <1>1, <1>5, MallocOutcome
  <2>2. r.heap[r.ptr] # Freed /\ DOMAIN r.heap[r.ptr] = 0..(n - 1)
    BY <1>1, <2>1, BlockIntro, FreedIsNoBlock DEF Cell
  <2>3. Answers("get", f, TRUE) /\ copies' = copies \cup {r.ptr}
    <3>1. Return("get", f, TRUE, NoValue) /\ copies' = copies \cup {r.ptr}
      BY <1>3, <1>5
    <3> QED
      BY <3>1 DEF Answers, Return, Respond
  <2>4. CASE AccessFault(heap, ptr[f], 0, n) # "none"
    <3>1. heap' = r.heap /\ fault' # "none"
      BY <1>3, <1>5, <2>4
    <3> QED
      BY <1>2, <2>1, <2>2, <2>3, <3>1 DEF CopyGiven
  <2>5. CASE AccessFault(heap, ptr[f], 0, n) = "none"
    <3>1. HoldsCells(heap[ptr[f]], n)
      <4>1. \A j \in 0..(0 + n - 1) : heap[ptr[f]][j] \in Cell
        BY <1>1, <2>5, AccessedCells
      <4> QED
        BY <1>1, <4>1 DEF HoldsCells
    <3>2. r.ptr \in Pointer
      BY <2>1 DEF Pointer
    <3>3. heap' = CopyIn(r.heap, r.ptr, 0, n, heap[ptr[f]])
      BY <1>3, <1>5, <2>5
    <3>4. heap'[r.ptr] # Freed /\ \A a \in Addr \ {r.ptr} : heap'[a] = heap[a]
      BY <2>1, <2>2, <3>1, <3>2, <3>3, CopyToStart
    <3>5. heap'[r.ptr] = [j \in 0..(n - 1) |-> heap[ptr[f]][j]]
      BY <2>1, <2>2, <3>1, <3>3, CopyFills
    <3> QED
      BY <1>2, <2>1, <2>3, <3>4, <3>5 DEF CopyGiven, n
  <2> QED
    BY <2>4, <2>5
<1> QED
  BY <1>4, <1>5

(* set of an array of the client: realloc to its length, then a copy.       *)
LEMMA SetEffect ==
  ASSUME NoFreeingRealloc, Inv, NEW f \in Field, NEW in \in Input, Set(f, in)
  PROVE  NothingMoved(f) \/ CellsWritten(f) \/ ArrayMoved(f)
<1> DEFINE n == in.len
<1>1. /\ n \in Nat /\ n \in ArrayLen /\ n \in 0..(SlotMod - 1) /\ Slots(n) = n
      /\ HoldsCells(in.data, n)
      /\ n = 0 => "free" \notin ZeroRealloc
  BY InputFacts, HeapAssumption DEF NoFreeingRealloc, HoldsCells, Cell
<1>2. heap \in HeapType /\ ptr[f] \in Addr \cup {Null} /\ count \in [Field -> Nat]
      /\ ptr \in [Field -> Addr \cup {Null}]
  BY DEF Inv, TypeOK
<1>3. f \in Mutable
  BY DEF Set
<1>4. CASE SetFirst(f, in)
  <2>1. /\ self # Null /\ ptr[f] = Null /\ UNCHANGED <<self, copies>>
        /\ count' = [count EXCEPT ![f] = n]
    BY <1>4 DEF SetFirst
  <2>2. PICK r \in Malloc(heap, n) :
          /\ heap' = IF r.ptr = Null THEN heap ELSE CopyIn(r.heap, r.ptr, 0, n, in.data)
          /\ ptr' = [ptr EXCEPT ![f] = r.ptr]
          /\ Respond("set", f, [array |-> in.data], r.ptr # Null, NoValue)
    BY <1>1, <1>4 DEF SetFirst
  <2>3. r \in Realloc(heap, ptr[f], n)
    BY <2>1 DEF Realloc
  <2> HIDE DEF n
  <2>4. CASE r.ptr = Null
    <3>1. MayRefuse
      BY <1>1, <2>3, <2>4, ReallocRefuses
    <3>2. heap' = heap /\ ptr' = ptr /\ Return("set", f, FALSE, NoValue)
      BY <1>2, <2>1, <2>2, <2>4 DEF Return, Respond
    <3> QED
      BY <1>1, <1>3, <2>1, <3>1, <3>2, SetRefused
  <2>5. CASE r.ptr # Null
    <3>1. ArrayPlaced(f, r.ptr, n)
      BY <1>1, <1>3, <2>1, <2>2, <2>3, <2>5, PlacedByRealloc
    <3>2. r.ptr \in Addr
      BY <1>1, <2>3, <2>5, ReallocMoves
    <3> QED
      BY <1>1, <2>1, <2>2, <2>5, <3>1, <3>2 DEF ArrayMoved, Answers, Return, Respond
  <2> QED
    BY <2>4, <2>5
<1>5. CASE SetInPlace(f, in)
  <2>1. /\ self # Null /\ UNCHANGED <<self, count, ptr, copies>>
        /\ heap' = CopyIn(heap, ptr[f], 0, n, in.data)
        /\ Respond("set", f, [array |-> in.data], TRUE, NoValue)
    BY <1>1, <1>5 DEF SetInPlace
  <2> HIDE DEF n
  <2>2. ptr[f] \in Pointer
    BY <1>2 DEF Pointer
  <2>3. \A a \in Addr : /\ a # ptr[f] => heap'[a] = heap[a]
                        /\ heap'[a] = Freed <=> heap[a] = Freed
                        /\ heap[a] # Freed => DOMAIN heap'[a] = DOMAIN heap[a]
    BY <1>1, <1>2, <2>1, <2>2, CopyToStart
  <2> QED
    BY <1>3, <2>1, <2>3 DEF CellsWritten, Answers, Return, Respond, Callable
<1>6. CASE SetResized(f, in)
  <2>1. /\ self # Null /\ UNCHANGED <<self, copies>> /\ count[f] # n
        /\ count' = [count EXCEPT ![f] = n]
    BY <1>6 DEF SetResized
  <2>2. PICK r \in Realloc(heap, ptr[f], n) :
          IF r.ptr = Null
            THEN /\ heap' = r.heap
                 /\ UNCHANGED ptr
                 /\ Return("set", f, FALSE, NoValue)
            ELSE /\ heap' = CopyIn(r.heap, r.ptr, 0, n, in.data)
                 /\ ptr' = [ptr EXCEPT ![f] = r.ptr]
                 /\ Respond("set", f, [array |-> in.data], TRUE, NoValue)
    BY <1>1, <1>6 DEF SetResized
  <2> HIDE DEF n
  <2>3. CASE r.ptr = Null
    <3>1. r.heap = heap /\ MayRefuse
      BY <1>1, <2>3, ReallocRefuses
    <3>2. heap' = heap /\ ptr' = ptr /\ Return("set", f, FALSE, NoValue)
      BY <2>2, <2>3, <3>1
    <3> QED
      BY <1>1, <1>3, <2>1, <3>1, <3>2, SetRefused
  <2>4. CASE r.ptr # Null
    <3>1. ArrayPlaced(f, r.ptr, n)
      BY <1>1, <1>3, <2>1, <2>2, <2>4, PlacedByRealloc
    <3>2. r.ptr \in Addr
      BY <1>1, <2>4, ReallocMoves
    <3> QED
      BY <1>1, <2>1, <2>2, <2>4, <3>1, <3>2 DEF ArrayMoved, Answers, Return, Respond
  <2> QED
    BY <2>3, <2>4
<1> QED
  BY <1>4, <1>5, <1>6 DEF Set

(* set of the array that get lent: the same, from the field's own block.    *)
LEMMA SetLentEffect ==
  ASSUME NoFreeingRealloc, Inv, NEW f \in Field, NEW n \in ArrayLen, SetLent(f, n)
  PROVE  NothingMoved(f) \/ ArrayMoved(f)
<1> DEFINE src == heap[ptr[f]]
<1>1. /\ n \in Nat /\ n \in 0..(SlotMod - 1) /\ Slots(n) = n
      /\ HoldsCells(src, n)
      /\ n = 0 => "free" \notin ZeroRealloc
  BY LentFacts DEF NoFreeingRealloc, HoldsCells, Inv
<1>2. /\ self # Null /\ UNCHANGED <<self, copies>> /\ count[f] # n /\ f \in Mutable
      /\ count' = [count EXCEPT ![f] = n]
  BY DEF SetLent
<1>3. PICK r \in Realloc(heap, ptr[f], n) :
        IF r.ptr = Null
          THEN /\ heap' = r.heap
               /\ UNCHANGED ptr
               /\ Return("set", f, FALSE, NoValue)
          ELSE /\ heap' = CopyIn(r.heap, r.ptr, 0, n, src)
               /\ ptr' = [ptr EXCEPT ![f] = r.ptr]
               /\ Respond("set", f, [array |-> [i \in 0..(n - 1) |-> src[i]]], TRUE, NoValue)
  BY DEF SetLent
<1> HIDE DEF src
<1>4. CASE r.ptr = Null
  <2>1. r.heap = heap /\ MayRefuse
    BY <1>1, <1>4, ReallocRefuses
  <2>2. heap' = heap /\ ptr' = ptr /\ Return("set", f, FALSE, NoValue)
    BY <1>3, <1>4, <2>1
  <2> QED
    BY <1>2, <2>1, <2>2, SetRefused
<1>5. CASE r.ptr # Null
  <2>1. ArrayPlaced(f, r.ptr, n)
    BY <1>1, <1>2, <1>3, <1>5, PlacedByRealloc
  <2>2. r.ptr \in Addr
    BY <1>1, <1>5, ReallocMoves
  <2> QED
    BY <1>1, <1>2, <1>3, <1>5, <2>1, <2>2 DEF ArrayMoved, Answers, Return, Respond
<1> QED
  BY <1>4, <1>5

(* set_count: realloc, and the count is stored once that has succeeded.     *)
LEMMA SetCountEffect ==
  ASSUME NoFreeingRealloc, Inv, NEW f \in Field, SetCount(f)
  PROVE  NothingMoved(f) \/ ArrayMoved(f)
<1>1. self # Null /\ f \in Mutable /\ UNCHANGED <<self, copies>>
  BY DEF SetCount, Callable
<1>2. CASE SetCountZero(f)
  <2>1. Return("set_count", f, FALSE, NoValue) /\ UNCHANGED <<heap, ptr, count>>
    BY <1>2 DEF SetCountZero
  <2>2. call'.field = f /\ call'.ok = FALSE
    BY <2>1 DEF Return, Respond
  <2> QED
    BY <1>1, <2>1, <2>2 DEF NothingMoved
<1>3. ASSUME NEW m \in ResizeLen, SetCountNonZero(f, m)
      PROVE  NothingMoved(f) \/ ArrayMoved(f)
  <2> DEFINE n == Slots(m)
  <2>1. /\ m \in Nat /\ n \in 0..(SlotMod - 1)
        /\ n = 0 => "free" \notin ZeroRealloc
    BY <1>3, AccessorsAssumption, SlotsRange DEF SetCountNonZero, NoFreeingRealloc
  <2>2. PICK r \in Realloc(heap, ptr[f], n) :
          /\ heap' = r.heap
          /\ count' = IF r.ptr = Null THEN count ELSE [count EXCEPT ![f] = m]
          /\ ptr'   = IF r.ptr = Null THEN ptr   ELSE [ptr EXCEPT ![f] = r.ptr]
          /\ Respond("set_count", f, [count |-> m], r.ptr # Null, NoValue)
    BY <1>3 DEF SetCountNonZero
  <2>3. n = Slots(m)
    OBVIOUS
  <2> HIDE DEF n
  <2>4. CASE r.ptr = Null
    <3>1. heap' = heap /\ count' = count /\ ptr' = ptr
      BY <2>1, <2>2, <2>4, ReallocRefuses
    <3>2. call'.field = f /\ call'.ok = FALSE
      BY <2>2, <2>4 DEF Return, Respond
    <3> QED
      BY <1>1, <3>1, <3>2 DEF NothingMoved
  <2>5. CASE r.ptr # Null
    <3>1. /\ count' = [count EXCEPT ![f] = m]
          /\ ptr' = [ptr EXCEPT ![f] = r.ptr]
          /\ Respond("set_count", f, [count |-> m], TRUE, NoValue)
      BY <2>2, <2>5
    <3>2. ArrayPlaced(f, r.ptr, m)
      BY <1>1, <2>1, <2>2, <2>3, <2>5, <3>1, PlacedByRealloc
    <3>3. r.ptr \in Addr
      BY <2>1, <2>5, ReallocMoves
    <3>4. Answers("set_count", f, TRUE)
      BY <3>1 DEF Answers, Return, Respond
    <3>5. ptr[f] # Null => \A i \in DOMAIN heap[ptr[f]] \cap DOMAIN heap'[r.ptr] :
                             heap'[r.ptr][i] = heap[ptr[f]][i]
      <4>1. ptr[f] # Null => heap'[r.ptr] = Resized(heap[ptr[f]], n)
        BY <2>1, <2>2, <2>5, ReallocContents
      <4> QED
        BY <4>1 DEF Resized
    <3> QED
      BY <2>1, <3>2, <3>3, <3>4, <3>5 DEF ArrayMoved
  <2> QED
    BY <2>4, <2>5
<1> QED
  BY <1>2, <1>3 DEF SetCount

(* set_item writes one cell, or refuses an index out of range.              *)
LEMMA SetItemEffect ==
  ASSUME Inv, NEW f \in Field, NEW i \in Index, NEW v \in Value, SetItem(f, i, v)
  PROVE  NothingMoved(f) \/ CellsWritten(f)
<1>1. /\ self # Null /\ UNCHANGED <<self, count, ptr, copies>>
      /\ Callable("set_item", f)
  BY DEF SetItem
<1>2. CASE i < count[f]
  <2> DEFINE src == [j \in {0} |-> v]
  <2>1. /\ heap' = CopyIn(heap, ptr[f], i, 1, src)
        /\ Respond("set_item", f, [idx |-> i, val |-> v], TRUE, NoValue)
    BY <1>2 DEF SetItem
  <2>2. i \in Nat /\ heap \in HeapType /\ ptr[f] \in Pointer /\ src[0] \in Cell
    BY AccessorsAssumption DEF Inv, TypeOK, Pointer, Cell
  <2> HIDE DEF src
  <2>3. \A a \in Addr : /\ heap'[a] = Freed <=> heap[a] = Freed
                        /\ heap[a] # Freed => DOMAIN heap'[a] = DOMAIN heap[a]
                        /\ a # ptr[f] => heap'[a] = heap[a]
    BY <2>1, <2>2, CopyCell
  <2>4. Answers("set_item", f, TRUE)
    BY <2>1 DEF Answers, Return, Respond
  <2> QED
    BY <1>1, <2>3, <2>4 DEF CellsWritten
<1>3. CASE ~(i < count[f])
  <2>1. UNCHANGED heap /\ call'.fn = "set_item" /\ call'.field = f
    BY <1>3 DEF SetItem, Return, Respond
  <2> QED
    BY <1>1, <2>1 DEF NothingMoved
<1> QED
  BY <1>2, <1>3

(* Every call on a field has one of the effects.                            *)
LEMMA FieldCallEffect ==
  ASSUME NoFreeingRealloc, Inv, NEW f \in Field, FieldCall(f)
  PROVE  NothingMoved(f) \/ CopyGiven(f) \/ CellsWritten(f) \/ ArrayMoved(f)
<1>1. ASSUME NEW fn \in NullHandle, CallOnNull(fn, f) PROVE NothingMoved(f)
  <2>1. call'.field = f /\ call'.ok = FALSE /\ UNCHANGED <<heap, self, count, ptr, copies>>
    BY <1>1 DEF CallOnNull, Return, Respond
  <2> QED
    BY <2>1 DEF NothingMoved
<1>2. CASE GetLent(f)
  BY <1>2 DEF GetLent, Return, Respond, NothingMoved
<1>3. ASSUME NEW i \in Index, GetItem(f, i) PROVE NothingMoved(f)
  <2>1. UNCHANGED <<heap, self, count, ptr, copies>>
    BY <1>3 DEF GetItem
  <2>2. call'.fn = "get_item" /\ call'.field = f
    BY <1>3 DEF GetItem, Return, Respond
  <2> QED
    BY <2>1, <2>2 DEF NothingMoved
<1>4. CASE GetCopy(f)
  BY <1>4, GetCopyEffect
<1>5. ASSUME NEW in \in Input, Set(f, in)
      PROVE  NothingMoved(f) \/ CellsWritten(f) \/ ArrayMoved(f)
  BY <1>5, SetEffect
<1>6. ASSUME NEW n \in ArrayLen, SetLent(f, n) PROVE NothingMoved(f) \/ ArrayMoved(f)
  BY <1>6, SetLentEffect
<1>7. ASSUME NEW i \in Index, NEW v \in Value, SetItem(f, i, v)
      PROVE  NothingMoved(f) \/ CellsWritten(f)
  BY <1>7, SetItemEffect
<1>8. CASE SetCount(f)
  BY <1>8, SetCountEffect
<1> QED
  BY <1>1, <1>2, <1>3, <1>4, <1>5, <1>6, <1>7, <1>8 DEF FieldCall

(* The calls on the whole object.                                           *)
LEMMA CreateOkEffect ==
  ASSUME Inv, CreateOk
  PROVE  ObjectMade
<1>1. /\ self = Null /\ UNCHANGED copies /\ fault' = "none"
      /\ Answers("create", NoField, TRUE)
  BY DEF CreateOk, NoObject, Answers, Return, Respond
<1>2. PICK in \in [Immutable -> Input], sp \in Vacant(heap) :
        \E at \in Placements(sp, Immutable) :
          /\ heap' = Placed(sp, Immutable, at, in)
          /\ self' = sp
          /\ count' = [f \in Field |-> IF f \in Mutable THEN 0 ELSE in[f].len]
          /\ ptr' = [f \in Field |-> IF f \in Mutable THEN Null ELSE at[f]]
  BY DEF CreateOk
<1>3. PICK at \in Placements(sp, Immutable) :
        /\ heap' = Placed(sp, Immutable, at, in)
        /\ self' = sp
        /\ count' = [f \in Field |-> IF f \in Mutable THEN 0 ELSE in[f].len]
        /\ ptr' = [f \in Field |-> IF f \in Mutable THEN Null ELSE at[f]]
  BY <1>2
<1>4. sp \in Addr /\ heap[sp] = Freed /\ heap \in HeapType
  BY DEF Vacant, Inv, TypeOK
<1>5. /\ heap'[sp] = StructBlock
      /\ at \in [Immutable -> Vacant(heap) \ {sp}]
      /\ \A f \in Immutable : heap'[at[f]] = in[f].data
      /\ \A a \in Addr : a # sp /\ (\A f \in Immutable : at[f] # a) => heap'[a] = heap[a]
  BY <1>3, <1>4, PlacedFacts
<1>6. heap'[self'] # Freed
  BY <1>3, <1>5, StructBlockIsBlock, FreedIsNoBlock
<1>7. \A f \in Field \cap Mutable : ptr'[f] = Null /\ count'[f] = 0
  BY <1>3
<1>8. \A f \in Immutable : ptr'[f] = at[f] /\ count'[f] = in[f].len
  BY <1>3 DEF Immutable
<1>9. \A f \in Immutable :
        /\ ptr'[f] \in Addr \ {self'} /\ heap[ptr'[f]] = Freed /\ heap'[ptr'[f]] # Freed
        /\ count'[f] < SlotMod /\ DOMAIN heap'[ptr'[f]] = 0..(count'[f] - 1)
  <2>1. \A f \in Immutable : in[f].data # Freed /\ in[f].len < SlotMod
                            /\ DOMAIN in[f].data = 0..(in[f].len - 1)
    <3> SUFFICES ASSUME NEW f \in Immutable
                 PROVE  in[f].data # Freed /\ in[f].len < SlotMod
                        /\ DOMAIN in[f].data = 0..(in[f].len - 1)
      OBVIOUS
    <3>1. in[f] \in Input
      OBVIOUS
    <3> QED
      BY <3>1, InputFacts, FreedIsNoBlock, HeapAssumption
  <2>2. \A f \in Immutable : at[f] \in Addr \ {sp} /\ heap[at[f]] = Freed
    BY <1>5 DEF Vacant
  <2>3. self' = sp /\ \A f \in Immutable : heap'[at[f]] = in[f].data
    BY <1>3, <1>5
  <2> QED
    BY <1>8, <2>1, <2>2, <2>3
<1>10. \A a \in Addr : \/ heap'[a] = heap[a]
                       \/ a = self'
                       \/ \E f \in Immutable : a = ptr'[f]
  BY <1>3, <1>5, <1>8
<1> QED
  BY <1>1, <1>3, <1>4, <1>6, <1>7, <1>9, <1>10 DEF ObjectMade

(* A constructor that returns NULL leaves no object.                        *)
LEMMA CreateFailsEffect ==
  ASSUME Inv, CreateFails \/ CreateFailsHalfway
  PROVE  NoObjectMade
<1>1. /\ self = Null /\ UNCHANGED <<self, count, ptr, copies>> /\ fault' = "none"
      /\ Answers("create", NoField, FALSE)
  BY DEF CreateFails, CreateFailsHalfway, NoObject, Answers, Return, Respond
<1>2. CASE CreateFails
  <2>1. MayRefuse
    BY <1>2, Zenon DEF CreateFails, MayRefuse
  <2>2. heap' = heap
    BY <1>2 DEF CreateFails
  <2> QED
    BY <1>1, <2>1, <2>2 DEF NoObjectMade
<1>3. CASE CreateFailsHalfway
  <2>1. PICK in \in [Immutable -> Input], sp \in Vacant(heap), K \in SUBSET Immutable :
          /\ \E f \in Immutable \ K : MallocMayFail(Slots(in[f].len))
          /\ \E at \in Placements(sp, K) : heap' = Placed(sp, K, at, in)
    BY <1>3 DEF CreateFailsHalfway
  <2>2. PICK at \in Placements(sp, K) : heap' = Placed(sp, K, at, in)
    BY <2>1
  <2>3. sp \in Addr /\ heap[sp] = Freed /\ heap \in HeapType
    BY DEF Vacant, Inv, TypeOK
  <2>4. /\ at \in [K -> Vacant(heap) \ {sp}]
        /\ \A a \in Addr : a # sp /\ (\A f \in K : at[f] # a) => heap'[a] = heap[a]
    BY <2>2, <2>3, PlacedFacts
  <2>5. \A a \in Addr : heap[a] # Freed => heap'[a] = heap[a]
    BY <2>3, <2>4 DEF Vacant
  <2>6. MayRefuse
    BY <2>1, Zenon DEF MallocMayFail, MayRefuse
  <2> QED
    BY <1>1, <2>5, <2>6 DEF NoObjectMade
<1> QED
  BY <1>2, <1>3

(* destroy frees the struct and its arrays.                                 *)
LEMMA DestroyEffect ==
  ASSUME Inv, Destroy
  PROVE  ObjectDestroyed
<1>1. /\ self # Null /\ self' = Null /\ UNCHANGED copies
      /\ Answers("destroy", NoField, TRUE)
      /\ \A f \in Field : count'[f] = 0 /\ ptr'[f] = Null
  BY DEF Destroy, Answers, Return, Respond
<1>2. ~DoubleFree
  BY DEF Inv, Owned, DoubleFree
<1>3. fault' = "none"
  BY <1>2 DEF Destroy
<1>4. \A a \in Addr : a \in Range(ptr) <=> \E f \in Field : ptr[f] = a
  BY DEF Range, Inv, TypeOK
<1>5. \A a \in Addr : heap'[a] = IF a = self \/ \E f \in Field : ptr[f] = a
                                   THEN Freed ELSE heap[a]
  BY <1>4 DEF Destroy
<1> QED
  BY <1>1, <1>3, <1>5 DEF ObjectDestroyed

(* The client frees a copy that it was given.                               *)
LEMMA FreeCopyEffect ==
  ASSUME Inv, FreeCopy
  PROVE  CopyFreed
<1>1. PICK a \in copies : /\ heap' = Free(heap, a)
                          /\ fault' = ReallocFault(heap, a)
                          /\ copies' = copies \ {a}
  BY DEF FreeCopy
<1>2. a \in Addr /\ a # Null /\ heap[a] # Freed /\ heap \in HeapType
  BY HeapAssumption DEF Inv, TypeOK, Owned
<1>3. fault' = "none"
  BY <1>1, <1>2 DEF ReallocFault
<1>4. heap'[a] = Freed /\ \A b \in Addr \ {a} : heap'[b] = heap[b]
  BY <1>1, <1>2 DEF Free, HeapType
<1>5. UNCHANGED <<self, count, ptr>> /\ Answers("free_copy", NoField, TRUE)
  BY DEF FreeCopy, Answers, Return, Respond
<1> QED
  BY <1>1, <1>3, <1>4, <1>5 DEF CopyFreed

(* What a call may do, in one formula.                                      *)
Effect ==
  \/ ObjectMade \/ NoObjectMade \/ ObjectDestroyed \/ CopyFreed
  \/ \E f \in Field :
       NothingMoved(f) \/ CopyGiven(f) \/ CellsWritten(f) \/ ArrayMoved(f)

(* Every step has one of the effects: what the theorems below are shown     *)
(* for.                                                                     *)
LEMMA StepEffect ==
  ASSUME NoFreeingRealloc, Inv, Next
  PROVE  Effect
<1>1. CASE CreateOk
  BY <1>1, CreateOkEffect DEF Effect
<1>2. CASE CreateFails \/ CreateFailsHalfway
  BY <1>2, CreateFailsEffect DEF Effect
<1>3. CASE Destroy
  BY <1>3, DestroyEffect DEF Effect
<1>4. CASE FreeCopy
  BY <1>4, FreeCopyEffect DEF Effect
<1>5. ASSUME NEW f \in Field, FieldCall(f) PROVE Effect
  BY <1>5, FieldCallEffect DEF Effect
<1> QED
  BY <1>1, <1>2, <1>3, <1>4, <1>5 DEF Next

-----------------------------------------------------------------------------
(* The action properties, from the effects.  A step of Spec is a call in a  *)
(* state where Inv holds, or a stutter.                                     *)

(* Every generated function that returns false or NULL leaves the struct's  *)
(* pointers, and every live block and its contents, as they were: a setter  *)
(* that fails loses the count at most.                                      *)
THEOREM FailedCallsKeepArrays ==
  ASSUME NoFreeingRealloc
  PROVE  Spec => FailedCallKeepsArrays
<1> DEFINE A == ~call'.ok => /\ self' = self /\ ptr' = ptr
                             /\ \A a \in Allocated(heap) : heap'[a] = heap[a]
<1>1. Inv /\ Next => A
  <2> SUFFICES ASSUME Inv, Next, ~call'.ok
               PROVE  /\ self' = self /\ ptr' = ptr
                      /\ \A a \in Allocated(heap) : heap'[a] = heap[a]
    OBVIOUS
  <2>1. Effect
    BY StepEffect
  <2>2. CASE NoObjectMade
    BY <2>2 DEF NoObjectMade, Allocated
  <2>3. ASSUME NEW f \in Field, NothingMoved(f) PROVE UNCHANGED <<heap, self, ptr>>
    BY <2>3 DEF NothingMoved
  <2>4. ~(ObjectMade \/ ObjectDestroyed \/ CopyFreed)
    BY DEF ObjectMade, ObjectDestroyed, CopyFreed, Answers
  <2>5. ASSUME NEW f \in Field PROVE ~(CopyGiven(f) \/ CellsWritten(f) \/ ArrayMoved(f))
    BY DEF CopyGiven, CellsWritten, ArrayMoved, Answers
  <2> QED
    BY <2>1, <2>2, <2>3, <2>4, <2>5 DEF Effect, Allocated
<1> QED
  BY <1>1, InvHolds, PTL DEF Spec, FailedCallKeepsArrays

(* set_count does all of its work or none: when it returns false the object *)
(* is untouched, and when it returns true the elements below both counts    *)
(* are still there, wherever realloc put them.                              *)
THEOREM SetCountIsAtomic ==
  ASSUME NoFreeingRealloc
  PROVE  Spec => SetCountAtomic
<1> DEFINE A == \A f \in Field : Uses("set_count", f) =>
                  IF call'.ok
                    THEN ptr[f] # Null =>
                           \A i \in DOMAIN heap[ptr[f]] \cap DOMAIN heap'[ptr'[f]] :
                             heap'[ptr'[f]][i] = heap[ptr[f]][i]
                    ELSE UNCHANGED <<heap, self, count, ptr>>
<1>1. Inv /\ Next => A
  <2> SUFFICES ASSUME Inv, Next, NEW f \in Field, call'.fn = "set_count", call'.field = f
               PROVE  IF call'.ok
                        THEN ptr[f] # Null =>
                               \A i \in DOMAIN heap[ptr[f]] \cap DOMAIN heap'[ptr'[f]] :
                                 heap'[ptr'[f]][i] = heap[ptr[f]][i]
                        ELSE UNCHANGED <<heap, self, count, ptr>>
    BY DEF Uses
  <2>1. NothingMoved(f) \/ ArrayMoved(f)
    <3>1. Effect
      BY StepEffect
    <3>2. ~(ObjectMade \/ NoObjectMade \/ ObjectDestroyed \/ CopyFreed)
      BY DEF ObjectMade, NoObjectMade, ObjectDestroyed, CopyFreed, Answers
    <3>3. ASSUME NEW g \in Field PROVE ~(CopyGiven(g) \/ CellsWritten(g))
      BY DEF CopyGiven, CellsWritten, Answers
    <3>4. ASSUME NEW g \in Field, NothingMoved(g) \/ ArrayMoved(g) PROVE g = f
      BY <3>4 DEF NothingMoved, ArrayMoved, Answers
    <3> QED
      BY <3>1, <3>2, <3>3, <3>4 DEF Effect
  <2>2. CASE NothingMoved(f)
    <3>1. ~call'.ok /\ UNCHANGED <<heap, self, count, ptr>>
      BY <2>2 DEF NothingMoved, Answers
    <3> QED
      BY <3>1
  <2>3. CASE ArrayMoved(f)
    <3>1. PICK q \in Addr, n \in Nat :
            /\ ArrayPlaced(f, q, n)
            /\ Answers("set_count", f, TRUE)
            /\ ptr[f] # Null => \A i \in DOMAIN heap[ptr[f]] \cap DOMAIN heap'[q] :
                                  heap'[q][i] = heap[ptr[f]][i]
      BY <2>3 DEF ArrayMoved, Answers
    <3>2. ptr'[f] = q
      BY <3>1 DEF ArrayPlaced, Inv, TypeOK
    <3>3. call'.ok = TRUE
      BY <3>1 DEF Answers
    <3> QED
      BY <3>1, <3>2, <3>3
  <2> QED
    BY <2>1, <2>2, <2>3
<1> QED
  BY <1>1, InvHolds, PTL DEF Spec, SetCountAtomic

-----------------------------------------------------------------------------
(* What a call does to the fields it is not about                           *)

FieldKept(g) ==
  /\ ptr'[g] = ptr[g] /\ count'[g] = count[g]
  /\ ptr[g] # Null => heap'[ptr[g]] = heap[ptr[g]]

(* A call on one field, or on a copy, leaves the other fields alone.        *)
LEMMA OthersKept ==
  ASSUME Inv, NEW f \in Field,
         NothingMoved(f) \/ CopyGiven(f) \/ CellsWritten(f) \/ ArrayMoved(f),
         NEW g \in Field, g # f
  PROVE  FieldKept(g)
<1>1. /\ ptr \in [Field -> Addr \cup {Null}] /\ count \in [Field -> Nat]
      /\ ptr[g] # Null => /\ ptr[g] \in Addr /\ heap[ptr[g]] # Freed
                          /\ ptr[g] # ptr[f]
  BY DEF Inv, TypeOK, Owned
<1>2. CASE NothingMoved(f)
  BY <1>1, <1>2 DEF NothingMoved, FieldKept
<1>3. CASE CopyGiven(f)
  BY <1>1, <1>3 DEF CopyGiven, FieldKept
<1>4. CASE CellsWritten(f)
  BY <1>1, <1>4 DEF CellsWritten, FieldKept
<1>5. CASE ArrayMoved(f)
  <2>1. PICK q \in Addr, n \in Nat : ArrayPlaced(f, q, n)
    BY <1>5 DEF ArrayMoved
  <2>2. ptr'[g] = ptr[g] /\ count'[g] = count[g]
    BY <1>1, <2>1 DEF ArrayPlaced
  <2>3. ptr[g] # Null => ptr[g] # q
    BY <1>1, <2>1 DEF ArrayPlaced
  <2>4. ptr[g] # Null => heap'[ptr[g]] = heap[ptr[g]]
    BY <1>1, <2>1, <2>3 DEF ArrayPlaced
  <2> QED
    BY <2>2, <2>4 DEF FieldKept
<1> QED
  BY <1>2, <1>3, <1>4, <1>5

(* A getter, a create that fails and the client's free leave every field.   *)
LEMMA AllKept ==
  ASSUME Inv, NoObjectMade \/ CopyFreed \/ \E f \in Field : CopyGiven(f), NEW g \in Field
  PROVE  FieldKept(g)
<1>1. ptr[g] # Null => /\ ptr[g] \in Addr /\ heap[ptr[g]] # Freed
                       /\ ptr[g] \notin copies
  BY DEF Inv, TypeOK, Owned
<1>2. CASE NoObjectMade
  BY <1>1, <1>2 DEF NoObjectMade, FieldKept
<1>3. CASE CopyFreed
  BY <1>1, <1>3 DEF CopyFreed, FieldKept
<1>4. ASSUME NEW f \in Field, CopyGiven(f) PROVE FieldKept(g)
  BY <1>1, <1>4 DEF CopyGiven, FieldKept
<1> QED
  BY <1>2, <1>3, <1>4

(* A field that is left alone fits as it did.                               *)
LEMMA KeptFits ==
  ASSUME NEW g \in Field, Fits(g), FieldKept(g)
  PROVE  (Fits(g))'
BY DEF Fits, FieldKept

(* A size below 2^64 does not wrap, and a block placed for one fits.        *)
LEMMA SlotsExact ==
  ASSUME NEW n \in Nat, n < SlotMod
  PROVE  Slots(n) = n
BY HeapAssumption, SMTT(30) DEF Slots

(* A field that got a block of the size for its count fits.                 *)
LEMMA PlacedFits ==
  ASSUME Inv, NEW f \in Field, NEW q \in Addr, NEW n \in Nat, n < SlotMod,
         ArrayPlaced(f, q, n)
  PROVE  (Fits(f))'
<1>1. ptr'[f] = q /\ count'[f] = n /\ q # Null
  BY HeapAssumption DEF Inv, TypeOK, ArrayPlaced
<1>2. DOMAIN heap'[q] = 0..(n - 1)
  BY SlotsExact DEF ArrayPlaced
<1> QED
  BY <1>1, <1>2 DEF Fits

(* A call that overwrites cells keeps every block's length.                 *)
LEMMA WrittenFits ==
  ASSUME Inv, NEW f \in Field, CellsWritten(f), NEW g \in Field, Fits(g)
  PROVE  (Fits(g))'
<1>1. ptr[g] # Null => ptr[g] \in Addr /\ heap[ptr[g]] # Freed
  BY DEF Inv, TypeOK, Owned
<1>2. ptr' = ptr /\ count' = count
  BY DEF CellsWritten
<1>3. ptr[g] # Null => DOMAIN heap'[ptr[g]] = DOMAIN heap[ptr[g]]
  BY <1>1 DEF CellsWritten
<1> QED
  BY <1>2, <1>3 DEF Fits

(* A new object fits.                                                       *)
LEMMA MadeFits ==
  ASSUME ObjectMade, NEW g \in Field
  PROVE  (Fits(g))'
<1>1. CASE g \in Mutable
  BY <1>1 DEF ObjectMade, Fits
<1>2. CASE g \notin Mutable
  <2>1. /\ ptr'[g] \in Addr /\ DOMAIN heap'[ptr'[g]] = 0..(count'[g] - 1)
    BY <1>2 DEF ObjectMade, Immutable
  <2> QED
    BY <2>1, HeapAssumption DEF Fits
<1> QED
  BY <1>1, <1>2

(* The two ways in which a count and its block part.                        *)
LEMMA MisfitStep ==
  ASSUME NoFreeingRealloc, Inv, Next, NEW f \in Field, Fits(f), ~(Fits(f))'
  PROVE  \/ Uses("set", f) /\ ~call'.ok /\ MayRefuse
         \/ Uses("set_count", f) /\ count'[f] >= SlotMod /\ count'[f] \in ResizeLen
<1>1. Effect
  BY StepEffect
<1>2. ~FieldKept(f)
  BY KeptFits
<1>3. ~(ObjectMade \/ NoObjectMade \/ CopyFreed)
  BY <1>2, MadeFits, AllKept
<1>4. ~ObjectDestroyed
  BY DEF ObjectDestroyed, Fits
<1>5. NothingMoved(f) \/ ArrayMoved(f)
  <2>1. ASSUME NEW g \in Field PROVE ~(CopyGiven(g) \/ CellsWritten(g))
    BY <1>2, AllKept, WrittenFits
  <2>2. ASSUME NEW g \in Field, g # f PROVE ~(NothingMoved(g) \/ ArrayMoved(g))
    BY <1>2, <2>2, OthersKept
  <2> QED
    BY <1>1, <1>3, <1>4, <2>1, <2>2 DEF Effect
<1>6. CASE NothingMoved(f)
  <2>1. ~(UNCHANGED count)
    BY <1>2, <1>6 DEF NothingMoved, FieldKept
  <2>2. Answers("set", f, FALSE) /\ MayRefuse
    BY <1>6, <2>1 DEF NothingMoved
  <2> QED
    BY <2>2 DEF Answers, Uses
<1>7. CASE ArrayMoved(f)
  <2>1. PICK q \in Addr, n \in Nat :
          /\ ArrayPlaced(f, q, n)
          /\ \/ Answers("set", f, TRUE) /\ n \in ArrayLen
             \/ Answers("set_count", f, TRUE) /\ n \in ResizeLen
    BY <1>7 DEF ArrayMoved
  <2>2. n >= SlotMod
    BY <2>1, PlacedFits, HeapAssumption
  <2>3. n \notin ArrayLen
    BY <2>2, AccessorsAssumption, HeapAssumption
  <2>4. count'[f] = n
    BY <2>1 DEF ArrayPlaced, Inv, TypeOK
  <2>5. Uses("set_count", f) /\ n \in ResizeLen
    BY <2>1, <2>3 DEF Answers, Uses
  <2> QED
    BY <2>2, <2>4, <2>5
<1> QED
  BY <1>5, <1>6, <1>7

(* A field whose count is the length of its block keeps that through every  *)
(* call but two: a set that returns false after it has stored the new       *)
(* count, and a set_count whose size in bytes wraps.                        *)
THEOREM MisfitHasCause ==
  ASSUME NoFreeingRealloc
  PROVE  Spec => MisfitNeedsCause
<1> DEFINE A == \A f \in Field : Fits(f) /\ ~(Fits(f))' =>
                  \/ Uses("set", f) /\ ~call'.ok
                  \/ Uses("set_count", f) /\ count'[f] >= SlotMod
<1>1. Inv /\ Next => A
  BY MisfitStep
<1> QED
  BY <1>1, InvHolds, PTL DEF Spec, MisfitNeedsCause

(* A set_count that succeeds with a size below 2^64 leaves a count and a    *)
(* block that fit, whatever earlier calls did to them: the client can       *)
(* recover from a setter that failed by setting the count.                  *)
THEOREM SetCountDoesRepair ==
  ASSUME NoFreeingRealloc
  PROVE  Spec => SetCountRepairs
<1> DEFINE A == \A f \in Field :
                  Uses("set_count", f) /\ call'.ok /\ count'[f] < SlotMod => (Fits(f))'
<1>1. Inv /\ Next => A
  <2> SUFFICES ASSUME Inv, Next, NEW f \in Field,
                      call'.fn = "set_count", call'.field = f, call'.ok, count'[f] < SlotMod
               PROVE  (Fits(f))'
    BY DEF Uses
  <2>1. Effect
    BY StepEffect
  <2>2. ~(ObjectMade \/ NoObjectMade \/ ObjectDestroyed \/ CopyFreed)
    BY DEF ObjectMade, NoObjectMade, ObjectDestroyed, CopyFreed, Answers
  <2>3. ASSUME NEW g \in Field PROVE ~(CopyGiven(g) \/ CellsWritten(g) \/ NothingMoved(g))
    BY DEF CopyGiven, CellsWritten, NothingMoved, Answers
  <2>4. PICK g \in Field : ArrayMoved(g)
    BY <2>1, <2>2, <2>3 DEF Effect
  <2>5. PICK q \in Addr, n \in Nat : ArrayPlaced(g, q, n) /\ call'.field = g
    BY <2>4 DEF ArrayMoved, Answers
  <2>6. g = f /\ count'[f] = n
    BY <2>5 DEF ArrayPlaced, Inv, TypeOK
  <2> QED
    BY <2>5, <2>6, PlacedFits
<1> QED
  BY <1>1, InvHolds, PTL DEF Spec, SetCountRepairs

(* The array that a getter lends stays where it is until the client sets    *)
(* that field to another length, sets its count, or destroys the object: no *)
(* call on another field, and no call that fails, moves or frees it.        *)
THEOREM BorrowsAreStable ==
  ASSUME NoFreeingRealloc
  PROVE  Spec => BorrowStable
<1> DEFINE A == \A f \in Field :
                  ptr[f] # Null =>
                    \/ ptr'[f] = ptr[f] /\ heap'[ptr[f]] # Freed
                    \/ Uses("set", f) /\ count'[f] # count[f]
                    \/ Uses("set_count", f) /\ call'.ok
                    \/ call'.fn = "destroy"
<1>1. Inv /\ Next => A
  <2> SUFFICES ASSUME Inv, Next, NEW f \in Field, ptr[f] # Null
               PROVE  \/ ptr'[f] = ptr[f] /\ heap'[ptr[f]] # Freed
                      \/ Uses("set", f) /\ count'[f] # count[f]
                      \/ Uses("set_count", f) /\ call'.ok
                      \/ call'.fn = "destroy"
    OBVIOUS
  <2>1. Effect
    BY StepEffect
  <2>2. ptr[f] \in Addr /\ heap[ptr[f]] # Freed /\ self # Null
    BY DEF Inv, TypeOK, Owned
  <2>3. FieldKept(f) => ptr'[f] = ptr[f] /\ heap'[ptr[f]] # Freed
    BY <2>2 DEF FieldKept
  <2>4. CASE ObjectMade
    BY <2>2, <2>4 DEF ObjectMade
  <2>5. CASE ObjectDestroyed
    BY <2>5 DEF ObjectDestroyed, Answers
  <2>6. CASE NoObjectMade \/ CopyFreed \/ \E g \in Field : CopyGiven(g)
    BY <2>3, <2>6, AllKept
  <2>7. ASSUME NEW g \in Field, g # f, NothingMoved(g) \/ CellsWritten(g) \/ ArrayMoved(g)
        PROVE  FieldKept(f)
    BY <2>7, OthersKept
  <2>8. CASE NothingMoved(f) \/ CellsWritten(f)
    BY <2>2, <2>8 DEF NothingMoved, CellsWritten
  <2>9. CASE ArrayMoved(f)
    <3>1. PICK q \in Addr, n \in Nat :
            /\ ArrayPlaced(f, q, n)
            /\ (Answers("set", f, TRUE) /\ count[f] # n) \/ Answers("set_count", f, TRUE)
      BY <2>2, <2>9 DEF ArrayMoved
    <3>2. count'[f] = n
      BY <3>1 DEF ArrayPlaced, Inv, TypeOK
    <3> QED
      BY <3>1, <3>2 DEF Answers, Uses
  <2> QED
    BY <2>1, <2>3, <2>4, <2>5, <2>6, <2>7, <2>8, <2>9 DEF Effect
<1> QED
  BY <1>1, InvHolds, PTL DEF Spec, BorrowStable

(* A call other than a create that fails leaves nothing unreachable.        *)
LEMMA LeakStep ==
  ASSUME NoFreeingRealloc, Inv, Next, ~NoObjectMade
  PROVE  Leaked' \subseteq Leaked
<1> SUFFICES ASSUME NEW a \in Addr, heap'[a] # Freed, a # self', a \notin copies',
                    \A f \in Field : ptr'[f] # a
             PROVE  /\ heap[a] # Freed /\ a # self /\ a \notin copies
                    /\ \A f \in Field : ptr[f] # a
  BY HeapAssumption DEF Leaked, Allocated, Arrays
<1>1. Effect
  BY StepEffect
<1>2. a # Null /\ ptr \in [Field -> Addr \cup {Null}]
  BY HeapAssumption DEF Inv, TypeOK
<1>3. CASE ObjectMade
  <2>1. heap[a] # Freed /\ a # self /\ a \notin copies
    BY <1>2, <1>3 DEF ObjectMade, Immutable
  <2>2. \A f \in Field : ptr[f] # a
    BY <1>2, <1>3 DEF ObjectMade, Immutable, Inv, Owned
  <2> QED
    BY <2>1, <2>2
<1>4. CASE ObjectDestroyed
  BY <1>4 DEF ObjectDestroyed
<1>5. CASE CopyFreed
  BY <1>5 DEF CopyFreed
<1>6. ASSUME NEW f \in Field, NothingMoved(f) \/ CellsWritten(f)
      PROVE  /\ heap[a] # Freed /\ a # self /\ a \notin copies
             /\ \A g \in Field : ptr[g] # a
  BY <1>6 DEF NothingMoved, CellsWritten
<1>7. ASSUME NEW f \in Field, CopyGiven(f)
      PROVE  /\ heap[a] # Freed /\ a # self /\ a \notin copies
             /\ \A g \in Field : ptr[g] # a
  BY <1>7 DEF CopyGiven
<1>8. ASSUME NEW f \in Field, ArrayMoved(f)
      PROVE  /\ heap[a] # Freed /\ a # self /\ a \notin copies
             /\ \A g \in Field : ptr[g] # a
  <2>1. PICK q \in Addr, n \in Nat : ArrayPlaced(f, q, n)
    BY <1>8 DEF ArrayMoved
  <2>2. a # q /\ \A g \in Field \ {f} : ptr[g] # a
    BY <1>2, <2>1 DEF ArrayPlaced
  <2>3. a # ptr[f]
    BY <2>1, <2>2 DEF ArrayPlaced
  <2> QED
    BY <2>1, <2>2, <2>3 DEF ArrayPlaced
<1> QED
  BY <1>1, <1>3, <1>4, <1>5, <1>6, <1>7, <1>8 DEF Effect

(* The only function that loses memory is a constructor that returns NULL   *)
(* after it has allocated the struct: every other call leaves each block    *)
(* within reach of the object or of the client.                             *)
THEOREM OnlyFailedCreateLeaks ==
  ASSUME NoFreeingRealloc
  PROVE  Spec => LeakOnlyByFailedCreate
<1>1. Inv /\ Next => Leaked' \subseteq Leaked \/ (call'.fn = "create" /\ ~call'.ok)
  <2>1. NoObjectMade => call'.fn = "create" /\ ~call'.ok
    BY DEF NoObjectMade, Answers
  <2> QED
    BY <2>1, LeakStep
<1> QED
  BY <1>1, InvHolds, PTL DEF Spec, LeakOnlyByFailedCreate

-----------------------------------------------------------------------------
(* Immutable fields                                                         *)

(* What the constructor leaves of an immutable field, and nothing changes:  *)
(* a block of exactly the length its count says, which does not wrap.       *)
ImmutableHeld ==
  self # Null =>
    \A f \in Immutable : ptr[f] # Null /\ Fits(f) /\ count[f] < SlotMod

(* Every call keeps that.                                                   *)
LEMMA ImmutableHeldStep ==
  ASSUME NoFreeingRealloc, Inv, ImmutableHeld, [Next]_vars
  PROVE  ImmutableHeld'
<1>1. CASE UNCHANGED vars
  BY <1>1 DEF vars, ImmutableHeld, Fits
<1>2. CASE Next
  <2> SUFFICES ASSUME self' # Null, NEW f \in Immutable
               PROVE  ptr'[f] # Null /\ (Fits(f))' /\ count'[f] < SlotMod
    BY DEF ImmutableHeld
  <2>1. Effect
    BY <1>2, StepEffect
  <2>2. f \in Field /\ f \notin Mutable
    BY DEF Immutable
  <2>3. CASE ObjectMade
    <3>1. ptr'[f] # Null /\ count'[f] < SlotMod
      BY <2>3, HeapAssumption DEF ObjectMade
    <3> QED
      BY <2>2, <2>3, <3>1, MadeFits
  <2>4. CASE ~ObjectMade
    <3>1. self # Null /\ ~ObjectDestroyed /\ ~NoObjectMade
      BY <2>1, <2>4 DEF Effect, NoObjectMade, ObjectDestroyed, CopyFreed, NothingMoved,
           CopyGiven, CellsWritten, ArrayMoved, ArrayPlaced
    <3>2. ptr[f] # Null /\ Fits(f) /\ count[f] < SlotMod
      BY <3>1 DEF ImmutableHeld
    <3>3. CASE FieldKept(f)
      BY <2>2, <3>2, <3>3, KeptFits DEF FieldKept
    <3>4. CASE CellsWritten(f)
      <4>1. ptr' = ptr /\ count' = count
        BY <3>4 DEF CellsWritten
      <4> QED
        BY <2>2, <3>2, <3>4, <4>1, WrittenFits
    <3>5. NothingMoved(f) => FieldKept(f)
      BY <2>2 DEF NothingMoved, FieldKept
    <3>6. ~ArrayMoved(f)
      BY <2>2 DEF ArrayMoved, ArrayPlaced
    <3>7. CopyFreed \/ CopyGiven(f) => FieldKept(f)
      BY <2>2, AllKept
    <3>8. ASSUME NEW g \in Field, g # f,
                 NothingMoved(g) \/ CopyGiven(g) \/ CellsWritten(g) \/ ArrayMoved(g)
          PROVE  FieldKept(f)
      BY <2>2, <3>8, OthersKept
    <3>9. FieldKept(f) \/ CellsWritten(f)
      BY <2>1, <2>4, <3>1, <3>5, <3>6, <3>7, <3>8 DEF Effect
    <3> QED
      BY <3>3, <3>4, <3>9
  <2> QED
    BY <2>3, <2>4
<1> QED
  BY <1>1, <1>2

(* So is it in every state.                                                 *)
LEMMA ImmutableHeldHolds ==
  ASSUME NoFreeingRealloc
  PROVE  Spec => []ImmutableHeld
<1>1. Init => ImmutableHeld
  BY DEF Init, ImmutableHeld
<1>2. Inv /\ ImmutableHeld /\ [Next]_vars => ImmutableHeld'
  BY ImmutableHeldStep
<1> QED
  BY <1>1, <1>2, InvHolds, PTL DEF Spec

(* The copy that the getter of an immutable field hands out has the field's *)
(* contents, and is the client's: no later call changes it, and only the    *)
(* client frees it.                                                         *)
THEOREM CopiesAreFaithful ==
  ASSUME NoFreeingRealloc
  PROVE  Spec => CopyFaithful
<1> DEFINE
      Equal == \A a \in copies' \ copies : fault' = "none" => heap'[a] = heap[ptr[call'.field]]
      OnlyFreed == \A a \in copies : a \notin copies' => call'.fn = "free_copy"
      Kept == \A a \in copies \cap copies' : heap'[a] = heap[a]
<1>1. ASSUME Inv, ImmutableHeld, Next PROVE Equal
  <2>1. Effect
    BY <1>1, StepEffect
  <2>2. ASSUME NEW f \in Field, CopyGiven(f) PROVE Equal
    <3>1. PICK a \in Addr :
            /\ copies' = copies \cup {a}
            /\ fault' = "none" =>
                 heap'[a] = [j \in 0..(Slots(count[f]) - 1) |-> heap[ptr[f]][j]]
      BY <2>2 DEF CopyGiven
    <3>2. call'.field = f
      BY <2>2 DEF CopyGiven, Answers
    <3>3. /\ ptr[f] \in Addr /\ heap[ptr[f]] # Freed /\ count[f] \in Nat
          /\ count[f] < SlotMod /\ DOMAIN heap[ptr[f]] = 0..(count[f] - 1)
      BY <1>1, <2>2 DEF CopyGiven, ImmutableHeld, Fits, Inv, TypeOK, Owned
    <3>4. Slots(count[f]) = count[f]
      BY <3>3, SlotsExact
    <3>5. heap[ptr[f]] = [j \in 0..(count[f] - 1) |-> heap[ptr[f]][j]]
      <4>1. PICK m \in 0..(SlotMod - 1) : heap[ptr[f]] \in [0..(m - 1) -> Cell]
        BY <1>1, <3>3, LiveIsBlock, BlockElim DEF Inv, TypeOK
      <4>2. heap[ptr[f]] = [j \in DOMAIN heap[ptr[f]] |-> heap[ptr[f]][j]]
        BY <4>1
      <4> QED
        BY <3>3, <4>2
    <3> QED
      BY <3>1, <3>2, <3>4, <3>5
  <2>3. ASSUME NEW f \in Field, NothingMoved(f) \/ CellsWritten(f) \/ ArrayMoved(f)
        PROVE  copies' = copies
    BY <2>3 DEF NothingMoved, CellsWritten, ArrayMoved, ArrayPlaced
  <2>4. ObjectMade \/ NoObjectMade \/ ObjectDestroyed \/ CopyFreed => copies' \subseteq copies
    BY DEF ObjectMade, NoObjectMade, ObjectDestroyed, CopyFreed
  <2> QED
    BY <2>1, <2>2, <2>3, <2>4 DEF Effect
<1>2. ASSUME Inv, Next PROVE OnlyFreed
  <2>1. Effect
    BY <1>2, StepEffect
  <2>2. ASSUME NEW f \in Field,
               NothingMoved(f) \/ CellsWritten(f) \/ ArrayMoved(f) \/ CopyGiven(f)
        PROVE  copies \subseteq copies'
    BY <2>2 DEF NothingMoved, CellsWritten, ArrayMoved, ArrayPlaced, CopyGiven
  <2>3. ObjectMade \/ NoObjectMade \/ ObjectDestroyed => copies' = copies
    BY DEF ObjectMade, NoObjectMade, ObjectDestroyed
  <2>4. CopyFreed => call'.fn = "free_copy"
    BY DEF CopyFreed, Answers
  <2> QED
    BY <2>1, <2>2, <2>3, <2>4 DEF Effect
<1>3. ASSUME Inv, Next PROVE Kept
  <2> SUFFICES ASSUME NEW a \in copies, a \in copies' PROVE heap'[a] = heap[a]
    OBVIOUS
  <2>1. Effect
    BY <1>3, StepEffect
  <2>2. /\ a \in Addr /\ heap[a] # Freed /\ a # Null /\ a # self
        /\ \A f \in Field : ptr[f] # a
    BY <1>3, HeapAssumption DEF Inv, TypeOK, Owned
  <2>3. ObjectMade => heap'[a] = heap[a]
    BY <2>2 DEF ObjectMade
  <2>4. NoObjectMade \/ ObjectDestroyed \/ CopyFreed => heap'[a] = heap[a]
    BY <2>2 DEF NoObjectMade, ObjectDestroyed, CopyFreed
  <2>5. ASSUME NEW f \in Field, NothingMoved(f) \/ CellsWritten(f) \/ CopyGiven(f)
        PROVE  heap'[a] = heap[a]
    BY <2>2, <2>5 DEF NothingMoved, CellsWritten, CopyGiven
  <2>6. ASSUME NEW f \in Field, ArrayMoved(f) PROVE heap'[a] = heap[a]
    BY <2>2, <2>6 DEF ArrayMoved, ArrayPlaced
  <2> QED
    BY <2>1, <2>3, <2>4, <2>5, <2>6 DEF Effect
<1>4. Inv /\ ImmutableHeld /\ Next => Equal /\ OnlyFreed /\ Kept
  BY <1>1, <1>2, <1>3
<1> QED
  BY <1>4, InvHolds, ImmutableHeldHolds, PTL DEF Spec, CopyFaithful

(* With a client that keeps to the header (which has no item setter for an  *)
(* immutable field), an immutable array has the pointer, the count and the  *)
(* contents that the constructor gave it until destroy.                     *)
THEOREM ImmutablesAreStable ==
  ASSUME NoFreeingRealloc, "immutable_set_item" \notin Exposed
  PROVE  Spec => ImmutableStable
<1> DEFINE A == self # Null /\ call'.fn # "destroy" =>
                  \A f \in Immutable : /\ ptr'[f] = ptr[f] /\ count'[f] = count[f]
                                       /\ heap'[ptr[f]] = heap[ptr[f]]
<1>1. Inv /\ ImmutableHeld /\ Next => A
  <2> SUFFICES ASSUME Inv, ImmutableHeld, Next, self # Null, call'.fn # "destroy",
                      NEW f \in Immutable
               PROVE  FieldKept(f)
    BY DEF FieldKept, ImmutableHeld
  <2>1. Effect
    BY StepEffect
  <2>2. f \in Field /\ f \notin Mutable
    BY DEF Immutable
  <2>3. ~(ObjectMade \/ NoObjectMade \/ ObjectDestroyed)
    BY DEF ObjectMade, NoObjectMade, ObjectDestroyed, Answers
  <2>4. NothingMoved(f) => FieldKept(f)
    BY <2>2 DEF NothingMoved, FieldKept
  <2>5. ~ArrayMoved(f)
    BY <2>2 DEF ArrayMoved, ArrayPlaced
  <2>6. ~CellsWritten(f)
    BY <2>2 DEF CellsWritten, Callable
  <2>7. CopyFreed \/ CopyGiven(f) => FieldKept(f)
    BY <2>2, AllKept
  <2>8. ASSUME NEW g \in Field, g # f,
               NothingMoved(g) \/ CopyGiven(g) \/ CellsWritten(g) \/ ArrayMoved(g)
        PROVE  FieldKept(f)
    BY <2>2, <2>8, OthersKept
  <2> QED
    BY <2>1, <2>3, <2>4, <2>5, <2>6, <2>7, <2>8 DEF Effect
<1> QED
  BY <1>1, InvHolds, ImmutableHeldHolds, PTL DEF Spec, ImmutableStable

-----------------------------------------------------------------------------
(* Undefined behaviour                                                      *)

(* The size of n elements in bytes is that of at most n.                    *)
LEMMA SlotsBelow == \A n \in Nat : Slots(n) <= n
BY HeapAssumption, SMTT(30) DEF Slots

(* Accesses below the count of a field that fits are within its block.      *)
LEMMA AccessFits ==
  ASSUME Inv, NEW f \in Field, Fits(f), NEW i \in Nat, NEW n \in Nat, i + n <= count[f]
  PROVE  AccessFault(heap, ptr[f], i, n) = "none"
<1>1. count[f] \in Nat
  BY DEF Inv, TypeOK
<1>2. CASE ptr[f] = Null
  <2>1. n = 0
    BY <1>1, <1>2 DEF Fits
  <2> QED
    BY <2>1 DEF AccessFault
<1>3. CASE ptr[f] # Null
  <2>1. ptr[f] \in Addr /\ heap[ptr[f]] # Freed /\ DOMAIN heap[ptr[f]] = 0..(count[f] - 1)
    BY <1>3 DEF Inv, TypeOK, Owned, Fits
  <2> QED
    BY <1>1, <2>1, AccessInBlock
<1> QED
  BY <1>2, <1>3

(* No field points to a block that is gone.                                 *)
LEMMA NoStalePointer ==
  ASSUME Inv, NEW f \in Field
  PROVE  ReallocFault(heap, ptr[f]) = "none"
BY DEF Inv, Owned, ReallocFault

(* What the accesses of a call on a field can meet.                         *)
LEMMA FieldFault ==
  ASSUME Inv, NEW f \in Field, Fits(f), FieldCall(f), fault' # "none"
  PROVE  \/ \E fn \in NullHandle \cap {"get", "get_item", "destroy"} : CallOnNull(fn, f)
         \/ \E n \in ArrayLen : SetLent(f, n) /\ ptr'[f] # ptr[f]
<1>0. count[f] \in Nat /\ ptr \in [Field -> Addr \cup {Null}]
  BY DEF Inv, TypeOK
<1>1. ASSUME NEW fn \in NullHandle, CallOnNull(fn, f)
      PROVE  fn \in {"get", "get_item", "destroy"}
  BY <1>1 DEF CallOnNull, PassesNullCheck, Checked
<1>2. ~GetLent(f)
  BY DEF GetLent
<1>3. ~GetCopy(f)
  <2>1. AccessFault(heap, ptr[f], 0, Slots(count[f])) = "none"
    <3>1. Slots(count[f]) \in Nat /\ Slots(count[f]) <= count[f]
      BY <1>0, SlotsRange, SlotsBelow
    <3>2. 0 + Slots(count[f]) <= count[f]
      BY <3>1
    <3> QED
      BY <3>1, <3>2, AccessFits
  <2> QED
    BY <2>1 DEF GetCopy
<1>4. ASSUME NEW i \in Index PROVE ~GetItem(f, i)
  <2>1. i < count[f] => AccessFault(heap, ptr[f], i, 1) = "none"
    BY <1>0, AccessFits, AccessorsAssumption
  <2> QED
    BY <2>1 DEF GetItem
<1>5. ASSUME NEW in \in Input PROVE ~Set(f, in)
  <2>1. ~SetFirst(f, in)
    BY DEF SetFirst
  <2>2. ~SetInPlace(f, in)
    <3>1. count[f] = in.len => AccessFault(heap, ptr[f], 0, Slots(in.len)) = "none"
      <4>1. Slots(in.len) = in.len /\ in.len \in Nat
        BY InputFacts
      <4> QED
        BY <1>0, <4>1, AccessFits
    <3> QED
      BY <3>1 DEF SetInPlace
  <2>3. ~SetResized(f, in)
    BY NoStalePointer DEF SetResized
  <2> QED
    BY <2>1, <2>2, <2>3 DEF Set
<1>6. ASSUME NEW n \in ArrayLen, SetLent(f, n) PROVE ptr'[f] # ptr[f]
  <2>1. PICK r \in Realloc(heap, ptr[f], n) :
          IF r.ptr = Null
            THEN fault' = "none"
            ELSE /\ fault' = IF n = 0 \/ r.ptr = ptr[f] THEN "none" ELSE "dangling"
                 /\ ptr' = [ptr EXCEPT ![f] = r.ptr]
    BY <1>6 DEF SetLent
  <2> QED
    BY <1>0, <2>1
<1>7. ASSUME NEW i \in Index, NEW v \in Value PROVE ~SetItem(f, i, v)
  <2>1. i < count[f] => AccessFault(heap, ptr[f], i, 1) = "none"
    BY <1>0, AccessFits, AccessorsAssumption
  <2> QED
    BY <2>1 DEF SetItem
<1>8. ~SetCount(f)
  BY NoStalePointer DEF SetCount, SetCountZero, SetCountNonZero
<1> QED
  BY <1>1, <1>2, <1>3, <1>4, <1>5, <1>6, <1>7, <1>8 DEF FieldCall

(* The same of every call.                                                  *)
LEMMA CallFault ==
  ASSUME Inv, AllFit, Next, fault' # "none"
  PROVE  \E f \in Field :
           \/ \E fn \in NullHandle \cap {"get", "get_item", "destroy"} : CallOnNull(fn, f)
           \/ \E n \in ArrayLen : SetLent(f, n) /\ ptr'[f] # ptr[f]
<1>1. ~(CreateOk \/ CreateFails \/ CreateFailsHalfway)
  BY DEF CreateOk, CreateFails, CreateFailsHalfway, NoObject
<1>2. ~Destroy
  BY DestroyEffect DEF ObjectDestroyed
<1>3. ~FreeCopy
  BY FreeCopyEffect DEF CopyFreed
<1>4. PICK f \in Field : FieldCall(f)
  BY <1>1, <1>2, <1>3 DEF Next
<1>5. Fits(f)
  BY DEF AllFit
<1> QED
  BY <1>4, <1>5, FieldFault

(* Undefined behaviour has one of three causes: a count that does not fit,  *)
(* a NULL struct handed to a function that does not test for it, or an      *)
(* array that was lent and is moved by the very set it is passed to.        *)
THEOREM FaultHasCause ==
  ASSUME NoFreeingRealloc
  PROVE  Spec => FaultNeedsCause
<1> DEFINE A == fault' # "none" =>
                  \/ ~AllFit
                  \/ self = Null /\ call'.fn \in {"get", "get_item", "destroy"}
                  \/ \E f \in Field, n \in ArrayLen : SetLent(f, n) /\ ptr'[f] # ptr[f]
<1>1. Inv /\ Next => A
  <2>1. \A f \in Field, fn \in {"get", "get_item", "destroy"} :
          CallOnNull(fn, f) => self = Null /\ call'.fn = fn
    BY DEF CallOnNull, Return, Respond
  <2> QED
    BY <2>1, CallFault
<1> QED
  BY <1>1, InvHolds, PTL DEF Spec, FaultNeedsCause
=============================================================================
