----------------------- MODULE AccessorsContractProofs -----------------------
(***************************************************************************)
(* What holds while allocation succeeds: in every state every field fits   *)
(* its block, no call has met undefined behaviour and no block is lost,    *)
(* and the functions implement the contract of FieldContract.              *)
(***************************************************************************)
EXTENDS AccessorsStepProofs

(* The circumstances: no allocation is refused, realloc(p, 0) does not      *)
(* free, the counts passed to set_count do not wrap in bytes, and the       *)
(* client neither passes a lent array back nor NULL to a function that      *)
(* does not check for it.                                                   *)
Reliable ==
  /\ ~MayRefuse
  /\ "free" \notin ZeroRealloc
  /\ \A n \in ResizeLen : n < SlotMod
  /\ ~PassesLent
  /\ NullHandle \cap {"get", "get_item", "destroy"} = {}

Healthy == AllFit /\ NoFault /\ NoLeak

(* A reliable allocator does not free in realloc.                           *)
LEMMA ReliableRealloc == Reliable => NoFreeingRealloc
BY DEF Reliable, NoFreeingRealloc

(* Every call keeps the fields fitting, faults nowhere and loses nothing.   *)
LEMMA HealthyStep ==
  ASSUME Reliable, Inv, Healthy, [Next]_vars
  PROVE  Healthy'
<1>1. CASE UNCHANGED vars
  BY <1>1 DEF vars, Healthy, AllFit, Fits, NoFault, NoLeak, Leaked, Arrays
<1>2. CASE Next
  <2>1. NoFreeingRealloc /\ Inv /\ Next
    BY <1>2, ReliableRealloc
  <2>2. AllFit'
    <3> SUFFICES ASSUME NEW f \in Field PROVE (Fits(f))'
      BY DEF AllFit
    <3>1. Fits(f)
      BY DEF Healthy, AllFit
    <3>2. \A n \in ResizeLen : ~(n >= SlotMod)
      <4> SUFFICES ASSUME NEW n \in ResizeLen PROVE ~(n >= SlotMod)
        OBVIOUS
      <4>1. n \in Nat /\ SlotMod \in Nat /\ n < SlotMod
        BY AccessorsAssumption, HeapAssumption, Zenon DEF Reliable
      <4> QED
        BY <4>1
    <3> QED
      BY <2>1, <3>1, <3>2, MisfitStep DEF Reliable
  <2>3. NoFault'
    <3>1. \A f \in Field, n \in ArrayLen : ~SetLent(f, n)
      BY DEF Reliable, SetLent
    <3> QED
      BY <2>1, <3>1, CallFault DEF Healthy, NoFault, Reliable
  <2>4. NoLeak'
    <3>1. ~NoObjectMade
      BY DEF NoObjectMade, Reliable
    <3>2. Leaked' \subseteq Leaked
      BY <2>1, <3>1, LeakStep
    <3> QED
      BY <3>2 DEF Healthy, NoLeak
  <2> QED
    BY <2>2, <2>3, <2>4 DEF Healthy
<1> QED
  BY <1>1, <1>2

(* So is it in every state.                                                 *)
LEMMA HealthyHolds ==
  ASSUME Reliable
  PROVE  Spec => []Healthy
<1>1. Init => Healthy
  BY DEF Init, Healthy, AllFit, Fits, NoFault, NoLeak, Leaked, Allocated, EmptyHeap
<1>2. Inv /\ Healthy /\ [Next]_vars => Healthy'
  BY HealthyStep
<1> QED
  BY <1>1, <1>2, InvHolds, ReliableRealloc, PTL DEF Spec

(* While memory lasts and no size wraps (Reliable), the count of every      *)
(* field is the length of its block after every call: the bounds checks of  *)
(* the item accessors and the lengths of the memcpys are right.             *)
THEOREM FieldsFit ==
  ASSUME Reliable
  PROVE  Spec => []AllFit
<1>1. Healthy => AllFit
  BY DEF Healthy
<1> QED
  BY <1>1, HealthyHolds, PTL

(* While memory lasts and no size wraps (Reliable), no sequence of calls of *)
(* a client that hands no NULL struct to a getter or to destroy meets       *)
(* undefined behaviour.                                                     *)
THEOREM NothingFaults ==
  ASSUME Reliable
  PROVE  Spec => []NoFault
<1>1. Healthy => NoFault
  BY DEF Healthy
<1> QED
  BY <1>1, HealthyHolds, PTL

(* While memory lasts and no size wraps (Reliable), no sequence of calls    *)
(* loses a block: what create, set and the copying getters allocate is      *)
(* within reach until destroy or the client frees it.                       *)
THEOREM NothingLeaks ==
  ASSUME Reliable
  PROVE  Spec => []NoLeak
<1>1. Healthy => NoLeak
  BY DEF Healthy
<1> QED
  BY <1>1, HealthyHolds, PTL

-----------------------------------------------------------------------------
(* The refinement: what the contract sees of the object                     *)

Val == IF self = Null THEN Absent ELSE [f \in Field |-> Contents(f)]

(* The contents of a field that fits are its block.                         *)
LEMMA ContentsAreBlock ==
  ASSUME Inv, NEW f \in Field, Fits(f), ptr[f] # Null
  PROVE  /\ Contents(f) = heap[ptr[f]]
         /\ DOMAIN heap[ptr[f]] = 0..(count[f] - 1)
         /\ heap[ptr[f]] \in Block
<1>1. ptr[f] \in Addr /\ heap[ptr[f]] # Freed /\ DOMAIN heap[ptr[f]] = 0..(count[f] - 1)
  BY DEF Inv, TypeOK, Owned, Fits
<1>2. heap[ptr[f]] \in Block
  BY <1>1, LiveIsBlock DEF Inv, TypeOK
<1>3. PICK m \in 0..(SlotMod - 1) : heap[ptr[f]] \in [0..(m - 1) -> Cell]
  BY <1>2, BlockElim
<1>4. heap[ptr[f]] = [i \in DOMAIN heap[ptr[f]] |-> heap[ptr[f]][i]]
  BY <1>3
<1> QED
  BY <1>1, <1>2, <1>4 DEF Contents

(* A field that was never set is the empty array.                           *)
LEMMA ContentsOfNull ==
  ASSUME NEW f \in Field, Fits(f), ptr[f] = Null
  PROVE  Contents(f) = [i \in 0..(0 - 1) |-> Uninit] /\ DOMAIN Contents(f) = 0..(0 - 1)
<1>1. count[f] = 0
  BY DEF Fits
<1>2. 0..(0 - 1) = {}
  OBVIOUS
<1>3. Contents(f) = [i \in 0..(0 - 1) |-> heap[ptr[f]][i]]
  BY <1>1 DEF Contents
<1>4. \A i \in 0..(0 - 1) : heap[ptr[f]][i] = Uninit
  BY <1>2
<1> QED
  BY <1>3, <1>4

(* The contents have as many elements as the count says.                    *)
LEMMA ContentsDomain ==
  ASSUME NEW f \in Field
  PROVE  DOMAIN Contents(f) = 0..(count[f] - 1)
BY DEF Contents

(* They are an array that fits in a block.                                  *)
LEMMA ContentsInBlock ==
  ASSUME Inv, NEW f \in Field, Fits(f)
  PROVE  Contents(f) \in Block
<1>1. CASE ptr[f] # Null
  BY <1>1, ContentsAreBlock
<1>2. CASE ptr[f] = Null
  <2>1. [i \in 0..(0 - 1) |-> Uninit] \in [0..(0 - 1) -> Cell]
    BY DEF Cell
  <2>2. 0 \in 0..(SlotMod - 1)
    BY HeapAssumption
  <2> QED
    BY <1>2, <2>1, <2>2, ContentsOfNull, BlockIntro
<1> QED
  BY <1>1, <1>2

(* Absent is no object.                                                     *)
LEMMA ValExists ==
  ASSUME Inv, AllFit
  PROVE  Val # Absent <=> self # Null
<1>1. [f \in Field |-> Contents(f)] \in [Field -> Block]
  BY ContentsInBlock DEF AllFit
<1> QED
  BY <1>1, ContractAssumption DEF Val

(* What a client sees of a field depends on its count and its block only.   *)
LEMMA ContentsKept ==
  ASSUME NEW f \in Field, Fits(f), FieldKept(f)
  PROVE  Contents(f)' = Contents(f)
<1>1. CASE ptr[f] # Null
  BY <1>1 DEF FieldKept, Contents
<1>2. CASE ptr[f] = Null
  <2>1. ptr'[f] = Null /\ (Fits(f))'
    BY <1>2, KeptFits DEF FieldKept
  <2>2. count[f] = 0 /\ count'[f] = 0
    BY <1>2, <2>1 DEF Fits
  <2>3. \A i \in 0..(0 - 1) : heap[ptr[f]][i] = heap'[ptr'[f]][i]
    OBVIOUS
  <2> QED
    BY <2>2, <2>3 DEF Contents
<1> QED
  BY <1>1, <1>2

(* A call that changes none of them changes nothing of what a client sees.  *)
LEMMA ValKept ==
  ASSUME AllFit, self' = self, \A f \in Field : FieldKept(f)
  PROVE  Val' = Val
<1>1. \A f \in Field : Contents(f)' = Contents(f)
  BY ContentsKept DEF AllFit
<1> QED
  BY <1>1 DEF Val

(* A call that changes one field changes that field's array only.           *)
LEMMA ValUpdated ==
  ASSUME AllFit, self # Null, self' = self, NEW f \in Field,
         \A g \in Field \ {f} : FieldKept(g)
  PROVE  Val' = [Val EXCEPT ![f] = Contents(f)']
<1>1. \A g \in Field \ {f} : Contents(g)' = Contents(g)
  BY ContentsKept DEF AllFit
<1> QED
  BY <1>1 DEF Val

-----------------------------------------------------------------------------
(* Each call is a step of the contract                                      *)

(* The arrays a client passes are arrays of the contract.                   *)
LEMMA InputIsArray ==
  ASSUME NEW in \in Input
  PROVE  in.data \in Contract!Array
<1>1. PICK n \in ArrayLen : in \in [len : {n}, data : [0..(n - 1) -> Value]]
  BY DEF Input
<1> QED
  BY <1>1 DEF Contract!Array

(* No allocation is refused.                                                *)
LEMMA MallocGives ==
  ASSUME Reliable, NEW n, NEW r \in Malloc(heap, n), Inv
  PROVE  r.ptr # Null
<1>1. ~MallocMayFail(n)
  BY Zenon DEF Reliable, MayRefuse, MallocMayFail
<1>2. \E a \in Addr : r.ptr = a
  BY <1>1 DEF Malloc, Vacant
<1> QED
  BY <1>2, HeapAssumption

(* get, lent or copied.                                                     *)
LEMMA GetRefines ==
  ASSUME Reliable, Inv, Healthy, NEW f \in Field, GetLent(f) \/ GetCopy(f)
  PROVE  Contract!Get(f)
<1>1. NoFreeingRealloc /\ AllFit /\ self # Null /\ self' = self
  BY ReliableRealloc DEF Healthy, GetLent, GetCopy
<1>2. CASE GetLent(f)
  <2>1. Val' = Val
    BY <1>1, <1>2, ValKept DEF GetLent, FieldKept
  <2> QED
    BY <1>1, <1>2, <2>1, ValExists
      DEF Contract!Get, Contract!Exists, Contract!Returns, Contract!Responds, Val,
       GetLent, Return, Respond
<1>3. CASE GetCopy(f)
  <2>1. PICK r \in Malloc(heap, Slots(count[f])) :
          r.ptr # Null => Return("get", f, TRUE, NoValue)
    BY <1>3 DEF GetCopy
  <2>2. Return("get", f, TRUE, NoValue)
    BY <2>1, MallocGives
  <2>3. NothingMoved(f) \/ CopyGiven(f)
    BY <1>1, <1>3, GetCopyEffect
  <2>4. UNCHANGED count
    BY <1>3 DEF GetCopy
  <2>5. \A g \in Field : FieldKept(g)
    BY <2>3, <2>4, AllKept DEF NothingMoved, FieldKept
  <2>6. Val' = Val
    BY <1>1, <2>5, ValKept
  <2> QED
    BY <1>1, <2>2, <2>6, ValExists
      DEF Contract!Get, Contract!Exists, Contract!Returns, Contract!Responds, Val,
          Return, Respond
<1> QED
  BY <1>2, <1>3

(* get_item within the count, and beyond it.                                *)
LEMMA GetItemRefines ==
  ASSUME Reliable, Inv, Healthy, NEW f \in Field, NEW i \in Index, GetItem(f, i)
  PROVE  Contract!GetItem(f, i)
<1>1. /\ AllFit /\ Fits(f) /\ self # Null /\ i \in Nat /\ count[f] \in Nat
      /\ UNCHANGED <<heap, self, count, ptr>>
  BY AccessorsAssumption DEF Healthy, AllFit, GetItem, Inv, TypeOK
<1>2. Val' = Val
  BY <1>1, ValKept DEF FieldKept
<1>3. Val # Absent /\ Val[f] = Contents(f)
  BY <1>1, ValExists DEF Val
<1>4. i \in DOMAIN Val[f] <=> i < count[f]
  BY <1>1, <1>3 DEF Contents
<1>5. CASE i < count[f]
  <2>1. AccessFault(heap, ptr[f], i, 1) = "none"
    BY <1>1, <1>5, AccessFits
  <2>2. Respond("get_item", f, [idx |-> i], TRUE, heap[ptr[f]][i])
    BY <1>5, <2>1 DEF GetItem
  <2>3. Val[f][i] = heap[ptr[f]][i]
    BY <1>1, <1>3, <1>5 DEF Contents
  <2>4. Val' = Val /\ Contract!Responds("get_item", f, [idx |-> i], TRUE, Val[f][i])
    BY <1>2, <2>2, <2>3 DEF Contract!Returns, Contract!Responds, Return, Respond
  <2> QED
    BY <1>3, <1>4, <1>5, <2>4 DEF Contract!GetItem, Contract!Exists, Val
<1>6. CASE ~(i < count[f])
  <2>1. Return("get_item", f, FALSE, NoValue)
    BY <1>6 DEF GetItem
  <2> QED
    BY <1>2, <1>3, <1>4, <1>6, <2>1
      DEF Contract!GetItem, Contract!Exists, Contract!Fails, Contract!Returns,
          Contract!Responds, Val, Return, Respond
<1> QED
  BY <1>5, <1>6

(* A call on no object does nothing.                                        *)
LEMMA OnNullRefines ==
  ASSUME Reliable, Inv, Healthy, NEW f \in Field, NEW fn \in NullHandle, CallOnNull(fn, f)
  PROVE  Contract!OnNull(f)
<1>1. /\ AllFit /\ self = Null /\ UNCHANGED <<heap, self, count, ptr>>
      /\ Return(fn, f, FALSE, NoValue)
  BY DEF Healthy, CallOnNull
<1>2. fn \in {"set", "set_item", "set_count"}
  BY AccessorsAssumption DEF Reliable
<1>3. Val' = Val /\ Val = Absent
  BY <1>1 DEF Val
<1> QED
  BY <1>1, <1>2, <1>3
    DEF Contract!OnNull, Contract!Exists, Contract!Fails, Contract!Returns,
        Contract!Responds, Val, Return, Respond

(* set, whichever way it takes.                                             *)
LEMMA SetRefines ==
  ASSUME Reliable, Inv, Healthy, NEW f \in Field, NEW in \in Input, Set(f, in)
  PROVE  Contract!Set(f)
<1> DEFINE n == in.len
<1>0. /\ n \in Nat /\ n \in ArrayLen /\ n \in 0..(SlotMod - 1) /\ Slots(n) = n
      /\ HoldsCells(in.data, n)
      /\ n = 0 => "free" \notin ZeroRealloc
      /\ in.data = [i \in 0..(n - 1) |-> in.data[i]]
  BY InputFacts, HeapAssumption DEF HoldsCells, Cell, Reliable
<1>1. NoFreeingRealloc /\ AllFit /\ f \in Mutable /\ Fits(f)
  BY ReliableRealloc DEF Healthy, AllFit, Set
<1>2. /\ heap \in HeapType /\ ptr[f] \in Addr \cup {Null} /\ ptr \in [Field -> Addr \cup {Null}]
      /\ count \in [Field -> Nat]
  BY DEF Inv, TypeOK
<1>3. self # Null /\ self' = self
  BY DEF Set, SetFirst, SetInPlace, SetResized
<1> HIDE DEF n
<1>4. ASSUME NEW r \in Realloc(heap, ptr[f], n),
             heap' = CopyIn(r.heap, r.ptr, 0, n, in.data),
             ptr' = [ptr EXCEPT ![f] = r.ptr], count' = [count EXCEPT ![f] = n],
             r.ptr # Null
      PROVE  Contents(f)' = in.data
  <2>1. /\ r.heap \in HeapType /\ r.ptr \in Addr
        /\ r.heap[r.ptr] # Freed /\ DOMAIN r.heap[r.ptr] = 0..(n - 1)
    BY <1>0, <1>1, <1>4, ReallocMoves
  <2>2. heap'[r.ptr] = [j \in 0..(n - 1) |-> in.data[j]]
    <3>1. CopyIn(r.heap, r.ptr, 0, n, in.data)[r.ptr] = [j \in 0..(n - 1) |-> in.data[j]]
      BY <1>0, <2>1, CopyFills
    <3> QED
      BY <1>4, <3>1
  <2>3. ptr'[f] = r.ptr /\ count'[f] = n
    BY <1>2, <1>4
  <2>4. Contents(f)' = [i \in 0..(n - 1) |-> heap'[r.ptr][i]]
    BY <2>3 DEF Contents
  <2> QED
    BY <1>0, <2>2, <2>4
<1>5. Contents(f)' = in.data /\ Respond("set", f, [array |-> in.data], TRUE, NoValue)
  <2>1. CASE SetFirst(f, in)
    <3>1. PICK r \in Malloc(heap, n) :
            /\ heap' = IF r.ptr = Null THEN heap ELSE CopyIn(r.heap, r.ptr, 0, n, in.data)
            /\ ptr' = [ptr EXCEPT ![f] = r.ptr]
            /\ Respond("set", f, [array |-> in.data], r.ptr # Null, NoValue)
      BY <1>0, <2>1 DEF SetFirst, n
    <3>2. r \in Realloc(heap, ptr[f], n) /\ count' = [count EXCEPT ![f] = n]
      BY <2>1 DEF SetFirst, Realloc, n
    <3>3. r.ptr # Null
      BY MallocGives
    <3>4. /\ heap' = CopyIn(r.heap, r.ptr, 0, n, in.data)
          /\ Respond("set", f, [array |-> in.data], TRUE, NoValue)
      BY <3>1, <3>3
    <3> QED
      BY <1>4, <3>1, <3>2, <3>3, <3>4
  <2>2. CASE SetInPlace(f, in)
    <3>1. /\ heap' = CopyIn(heap, ptr[f], 0, n, in.data)
          /\ count[f] = n /\ ptr[f] # Null /\ UNCHANGED <<count, ptr>>
          /\ Respond("set", f, [array |-> in.data], TRUE, NoValue)
      BY <1>0, <2>2 DEF SetInPlace, n
    <3>2. /\ ptr[f] \in Addr /\ heap[ptr[f]] # Freed
          /\ DOMAIN heap[ptr[f]] = 0..(n - 1)
      BY <1>1, <1>2, <3>1 DEF Fits, Inv, Owned
    <3>3. heap'[ptr[f]] = [j \in 0..(n - 1) |-> in.data[j]]
      BY <1>0, <1>2, <3>1, <3>2, CopyFills
    <3>4. Contents(f)' = [i \in 0..(n - 1) |-> heap'[ptr[f]][i]]
      BY <3>1 DEF Contents
    <3>5. Contents(f)' = [i \in 0..(n - 1) |-> in.data[i]]
      BY <3>3, <3>4
    <3> QED
      BY <1>0, <3>1, <3>5, Zenon
  <2>3. CASE SetResized(f, in)
    <3>1. PICK r \in Realloc(heap, ptr[f], n) :
            IF r.ptr = Null
              THEN heap' = r.heap
              ELSE /\ heap' = CopyIn(r.heap, r.ptr, 0, n, in.data)
                   /\ ptr' = [ptr EXCEPT ![f] = r.ptr]
                   /\ Respond("set", f, [array |-> in.data], TRUE, NoValue)
      BY <1>0, <2>3 DEF SetResized, n
    <3>2. r.ptr # Null
      BY <1>0, <1>1, ReallocRefuses DEF Reliable
    <3>3. count' = [count EXCEPT ![f] = n]
      BY <2>3 DEF SetResized, n
    <3> QED
      BY <1>4, <3>1, <3>2, <3>3
  <2> QED
    BY <2>1, <2>2, <2>3 DEF Set
<1>6. \A g \in Field \ {f} : FieldKept(g)
  BY <1>1, SetEffect, OthersKept
<1>7. Val' = [Val EXCEPT ![f] = in.data]
  BY <1>1, <1>3, <1>5, <1>6, ValUpdated
<1>8. in.data \in Contract!Array /\ Val # Absent
  BY <1>1, <1>3, InputIsArray, ValExists
<1> QED
  BY <1>1, <1>5, <1>7, <1>8
    DEF Contract!Set, Contract!Exists, Contract!Returns, Contract!Responds, Val, Return, Respond

(* set_item within the count, and beyond it.                                *)
LEMMA SetItemRefines ==
  ASSUME Reliable, Inv, Healthy, NEW f \in Field, NEW i \in Index, NEW v \in Value,
         SetItem(f, i, v)
  PROVE  Contract!SetItem(f, i, v)
<1>1. /\ AllFit /\ Fits(f) /\ self # Null /\ i \in Nat /\ count[f] \in Nat
      /\ UNCHANGED <<self, count, ptr>> /\ Callable("set_item", f)
  BY AccessorsAssumption DEF Healthy, AllFit, SetItem, Inv, TypeOK
<1>2. Val # Absent /\ Val[f] = Contents(f)
  BY <1>1, ValExists DEF Val
<1>3. i \in DOMAIN Val[f] <=> i < count[f]
  BY <1>1, <1>2 DEF Contents
<1>4. f \in {g \in Field : Callable("set_item", g)}
  BY <1>1
<1>5. CASE i < count[f]
  <2> DEFINE src == [j \in {0} |-> v]
             old == heap[ptr[f]]
  <2>1. /\ heap' = CopyIn(heap, ptr[f], i, 1, src)
        /\ Respond("set_item", f, [idx |-> i, val |-> v], TRUE, NoValue)
    BY <1>5 DEF SetItem
  <2>2. AccessFault(heap, ptr[f], i, 1) = "none"
    BY <1>1, <1>5, AccessFits
  <2>3. ptr[f] \in Addr /\ DOMAIN old = 0..(count[f] - 1) /\ heap \in HeapType
    BY <1>1, <1>5 DEF Fits, Inv, TypeOK
  <2>4. heap' = [heap EXCEPT ![ptr[f]] =
                   [j \in DOMAIN old |-> IF j \in i..(i + 1 - 1) THEN src[j - i] ELSE old[j]]]
    BY <2>1, <2>2 DEF CopyIn
  <2>5. \A j \in Int : j \in i..(i + 1 - 1) <=> j = i
    BY <1>1
  <2>6. heap'[ptr[f]] = [j \in 0..(count[f] - 1) |-> IF j = i THEN v ELSE old[j]]
    <3>1. heap'[ptr[f]] = [j \in 0..(count[f] - 1) |->
                             IF j \in i..(i + 1 - 1) THEN src[j - i] ELSE old[j]]
      BY <2>3, <2>4 DEF HeapType
    <3>2. \A j \in 0..(count[f] - 1) :
            (IF j \in i..(i + 1 - 1) THEN src[j - i] ELSE old[j]) = IF j = i THEN v ELSE old[j]
      BY <1>1, <2>5
    <3> HIDE DEF src, old
    <3> QED
      BY <3>1, <3>2
  <2> HIDE DEF src
  <2>7. Contents(f)' = [j \in 0..(count[f] - 1) |-> IF j = i THEN v ELSE old[j]]
    <3>1. Contents(f)' = [j \in 0..(count[f] - 1) |-> heap'[ptr[f]][j]]
      BY <1>1 DEF Contents
    <3> QED
      BY <2>6, <3>1
  <2>8. [Contents(f) EXCEPT ![i] = v] =
          [j \in 0..(count[f] - 1) |-> IF j = i THEN v ELSE old[j]]
    BY <1>1, <1>5 DEF Contents
  <2>9. Val' = [Val EXCEPT ![f] = Contents(f)']
    <3>1. \A g \in Field \ {f} : FieldKept(g)
      <4>1. NothingMoved(f) \/ CellsWritten(f)
        BY SetItemEffect
      <4> QED
        BY <4>1, OthersKept
    <3> QED
      BY <1>1, <3>1, ValUpdated
  <2>10. Val' = [Val EXCEPT ![f][i] = v]
    BY <1>2, <2>7, <2>8, <2>9
  <2> QED
    BY <1>2, <1>3, <1>4, <1>5, <2>1, <2>10
      DEF Contract!SetItem, Contract!Exists, Contract!Returns, Contract!Responds, Val,
          Return, Respond
<1>6. CASE ~(i < count[f])
  <2>1. Return("set_item", f, FALSE, NoValue) /\ UNCHANGED heap
    BY <1>6 DEF SetItem
  <2>2. Val' = Val
    BY <1>1, <2>1, ValKept DEF FieldKept
  <2> QED
    BY <1>2, <1>3, <1>4, <1>6, <2>1, <2>2
      DEF Contract!SetItem, Contract!Exists, Contract!Fails, Contract!Returns,
          Contract!Responds, Val, Return, Respond
<1> QED
  BY <1>5, <1>6

(* set_count keeps the elements below both counts.                          *)
LEMMA SetCountRefines ==
  ASSUME Reliable, Inv, Healthy, NEW f \in Field, SetCount(f)
  PROVE  \E n \in ResizeLen : Contract!SetCount(f, n)
<1>1. /\ NoFreeingRealloc /\ AllFit /\ Fits(f) /\ f \in Mutable
      /\ self # Null /\ UNCHANGED <<self, copies>>
  BY ReliableRealloc DEF Healthy, AllFit, SetCount, Callable
<1>2. Val # Absent /\ Val[f] = Contents(f)
  BY <1>1, ValExists DEF Val
<1>3. CASE SetCountZero(f)
  <2>1. /\ 0 \in ResizeLen /\ Return("set_count", f, FALSE, NoValue)
        /\ UNCHANGED <<heap, ptr, count>>
    BY <1>3 DEF SetCountZero
  <2>2. Val' = Val
    BY <1>1, <2>1, ValKept DEF FieldKept
  <2>3. Contract!SetCount(f, 0)
    BY <1>1, <1>2, <2>1, <2>2
      DEF Contract!SetCount, Contract!Exists, Contract!Fails, Contract!Returns,
          Contract!Responds, Val, Return, Respond
  <2> QED
    BY <2>1, <2>3
<1>4. ASSUME NEW n \in ResizeLen, SetCountNonZero(f, n)
      PROVE  Contract!SetCount(f, n)
  <2>1. n \in Nat /\ n \in 0..(SlotMod - 1) /\ n # 0 /\ Slots(n) = n
    <3>1. n \in Nat /\ n < SlotMod /\ SlotMod \in Nat
      BY AccessorsAssumption, HeapAssumption, Zenon DEF Reliable
    <3> QED
      BY <1>4, <3>1, SlotsExact DEF SetCountNonZero
  <2>2. PICK r \in Realloc(heap, ptr[f], n) :
          /\ heap' = r.heap
          /\ count' = IF r.ptr = Null THEN count ELSE [count EXCEPT ![f] = n]
          /\ ptr'   = IF r.ptr = Null THEN ptr   ELSE [ptr EXCEPT ![f] = r.ptr]
          /\ Respond("set_count", f, [count |-> n], r.ptr # Null, NoValue)
    BY <1>4, <2>1 DEF SetCountNonZero
  <2>3. r.ptr # Null
    BY <1>1, <2>1, <2>2, ReallocRefuses DEF Reliable
  <2>4. /\ ptr'[f] = r.ptr /\ count'[f] = n
        /\ Respond("set_count", f, [count |-> n], TRUE, NoValue)
    BY <2>2, <2>3 DEF Inv, TypeOK
  <2>5. Contents(f)' = [i \in 0..(n - 1) |-> r.heap[r.ptr][i]]
    BY <2>2, <2>4 DEF Contents
  <2>6. \A i \in 0..(n - 1) :
          /\ r.heap[r.ptr][i] \in Cell
          /\ i \in DOMAIN Contents(f) => r.heap[r.ptr][i] = Contents(f)[i]
    <3>1. CASE ptr[f] = Null
      <4>1. r.heap[r.ptr] = [i \in 0..(n - 1) |-> Uninit]
        BY <2>1, <2>3, <3>1, ReallocContents
      <4>2. DOMAIN Contents(f) = {}
        BY <1>1, <3>1, ContentsOfNull
      <4> QED
        BY <4>1, <4>2 DEF Cell
    <3>2. CASE ptr[f] # Null
      <4>1. r.heap[r.ptr] = Resized(heap[ptr[f]], n)
        BY <2>1, <2>3, <3>2, ReallocContents
      <4>2. Contents(f) = heap[ptr[f]] /\ heap[ptr[f]] \in Block
        BY <1>1, <3>2, ContentsAreBlock
      <4>3. PICK m \in 0..(SlotMod - 1) : heap[ptr[f]] \in [0..(m - 1) -> Cell]
        BY <4>2, BlockElim
      <4> QED
        BY <4>1, <4>2, <4>3 DEF Resized, Cell
    <3> QED
      BY <3>1, <3>2
  <2>7. Val' = [Val EXCEPT ![f] = Contents(f)']
    <3>1. \A g \in Field \ {f} : FieldKept(g)
      <4>1. NothingMoved(f) \/ ArrayMoved(f)
        BY <1>1, SetCountEffect
      <4> QED
        BY <4>1, OthersKept
    <3> QED
      BY <1>1, <3>1, ValUpdated
  <2> DEFINE new == Contents(f)'
  <2>8. /\ new \in [0..(n - 1) -> Contract!Cell]
        /\ \A i \in DOMAIN new \cap DOMAIN Val[f] : new[i] = Val[f][i]
    BY <1>2, <2>5, <2>6 DEF Contract!Cell, Cell
  <2>9. Val' = [Val EXCEPT ![f] = new]
    BY <2>7
  <2> HIDE DEF new
  <2> QED
    BY <1>1, <1>2, <2>1, <2>4, <2>8, <2>9
      DEF Contract!SetCount, Contract!Exists, Contract!Returns, Contract!Responds, Val,
          Return, Respond
<1> QED
  BY <1>3, <1>4 DEF SetCount

(* create makes a new object of the contract.                               *)
LEMMA CreateRefines ==
  ASSUME Reliable, Inv, Healthy, CreateOk
  PROVE  Contract!Create
<1>1. PICK in \in [Immutable -> Input], sp \in Vacant(heap) :
        \E at \in Placements(sp, Immutable) :
          /\ heap' = Placed(sp, Immutable, at, in)
          /\ self' = sp
          /\ count' = [f \in Field |-> IF f \in Mutable THEN 0 ELSE in[f].len]
          /\ ptr' = [f \in Field |-> IF f \in Mutable THEN Null ELSE at[f]]
          /\ Respond("create", NoField, Given(in), TRUE, NoValue)
  BY DEF CreateOk
<1>2. PICK at \in Placements(sp, Immutable) :
        /\ heap' = Placed(sp, Immutable, at, in)
        /\ self' = sp
        /\ count' = [f \in Field |-> IF f \in Mutable THEN 0 ELSE in[f].len]
        /\ ptr' = [f \in Field |-> IF f \in Mutable THEN Null ELSE at[f]]
        /\ Respond("create", NoField, Given(in), TRUE, NoValue)
  BY <1>1
<1>3. sp \in Addr /\ sp # Null /\ heap \in HeapType /\ self = Null
  BY HeapAssumption DEF Vacant, Inv, TypeOK, CreateOk, NoObject
<1>4. \A f \in Immutable : heap'[at[f]] = in[f].data
  BY <1>2, <1>3, PlacedFacts
<1> DEFINE given == [f \in Field \ Mutable |-> in[f].data]
<1>5. \A f \in Field : Contents(f)' = IF f \in Mutable THEN Contract!Empty ELSE given[f]
  <2>1. ASSUME NEW f \in Field, f \in Mutable PROVE Contents(f)' = Contract!Empty
    <3>1. ObjectMade
      BY CreateOkEffect
    <3>2. (Fits(f))' /\ ptr'[f] = Null /\ count'[f] = 0
      BY <2>1, <3>1, MadeFits DEF ObjectMade
    <3>3. Contents(f)' = [i \in 0..(0 - 1) |-> heap'[ptr'[f]][i]]
      BY <3>2 DEF Contents
    <3>4. 0..(0 - 1) = {} /\ 0..(-1) = {}
      OBVIOUS
    <3> QED
      BY <3>3, <3>4 DEF Contract!Empty
  <2>2. ASSUME NEW f \in Field, f \notin Mutable PROVE Contents(f)' = given[f]
    <3>1. f \in Immutable /\ in[f] \in Input
      BY <2>2 DEF Immutable
    <3>2. ptr'[f] = at[f] /\ count'[f] = in[f].len
      BY <1>2, <2>2
    <3>3. in[f].data \in [0..(in[f].len - 1) -> Value]
      BY <3>1, InputFacts
    <3>4. Contents(f)' = [i \in 0..(in[f].len - 1) |-> in[f].data[i]]
      BY <1>4, <3>1, <3>2 DEF Contents
    <3>5. Contents(f)' = in[f].data
      BY <3>3, <3>4
    <3> QED
      BY <2>2, <3>5
  <2> QED
    BY <2>1, <2>2
<1>6. Val' = [f \in Field |-> IF f \in Mutable THEN Contract!Empty ELSE given[f]]
  <2> HIDE DEF given
  <2>1. Val' = [f \in Field |-> Contents(f)']
    BY <1>2, <1>3 DEF Val
  <2> QED
    BY <1>5, <2>1
<1>7. given \in [Field \ Mutable -> Contract!Array]
  <2>1. \A f \in Field \ Mutable : in[f] \in Input
    BY DEF Immutable
  <2> QED
    BY <2>1, InputIsArray
<1>8. Respond("create", NoField, [arrays |-> given], TRUE, NoValue)
  BY <1>2 DEF Given, Immutable
<1> HIDE DEF given
<1>9. Val = Absent
  BY <1>3 DEF Val
<1> QED
  BY <1>6, <1>7, <1>8, <1>9
    DEF Contract!Create, Contract!Exists, Contract!Returns, Contract!Responds, Val,
        Return, Respond

(* destroy ends it.                                                         *)
LEMMA DestroyRefines ==
  ASSUME Reliable, Inv, Healthy, Destroy
  PROVE  Contract!Destroy
<1>1. self # Null /\ self' = Null /\ Return("destroy", NoField, TRUE, NoValue)
  BY DEF Destroy
<1>2. Val # Absent /\ Val' = Absent
  BY <1>1, ValExists DEF Val, Healthy
<1> QED
  BY <1>1, <1>2
    DEF Contract!Destroy, Contract!Exists, Contract!Returns, Contract!Responds, Val,
        Return, Respond

(* A copy that the client frees is no part of it.                           *)
LEMMA FreeCopyRefines ==
  ASSUME Reliable, Inv, Healthy, FreeCopy
  PROVE  Contract!FreeCopy
<1>1. CopyFreed /\ Return("free_copy", NoField, TRUE, NoValue)
  BY FreeCopyEffect DEF FreeCopy
<1>2. Val' = Val
  BY <1>1, AllKept, ValKept DEF CopyFreed, Healthy
<1> QED
  BY <1>1, <1>2 DEF Contract!FreeCopy, Contract!Returns, Contract!Responds, Val, Return, Respond

(* Every call is a call of the contract, or changes nothing of it.          *)
LEMMA CallRefines ==
  ASSUME Reliable, Inv, Healthy, Next
  PROVE  Contract!Next
<1>1. CASE CreateOk
  BY <1>1, CreateRefines DEF Contract!Next
<1>2. ~(CreateFails \/ CreateFailsHalfway)
  BY CreateFailsEffect DEF NoObjectMade, Reliable
<1>3. CASE Destroy
  BY <1>3, DestroyRefines DEF Contract!Next
<1>4. CASE FreeCopy
  BY <1>4, FreeCopyRefines DEF Contract!Next
<1>5. ASSUME NEW f \in Field, FieldCall(f) PROVE Contract!Next
  <2>1. ASSUME NEW fn \in NullHandle, CallOnNull(fn, f) PROVE Contract!OnNull(f)
    BY <2>1, OnNullRefines
  <2>2. GetLent(f) \/ GetCopy(f) => Contract!Get(f)
    BY GetRefines
  <2>3. ASSUME NEW i \in Index, GetItem(f, i) PROVE Contract!GetItem(f, i)
    BY <2>3, GetItemRefines
  <2>4. ASSUME NEW in \in Input, Set(f, in) PROVE Contract!Set(f)
    BY <2>4, SetRefines
  <2>5. ASSUME NEW n \in ArrayLen PROVE ~SetLent(f, n)
    BY DEF SetLent, Reliable
  <2>6. ASSUME NEW i \in Index, NEW v \in Value, SetItem(f, i, v)
        PROVE  Contract!SetItem(f, i, v)
    BY <2>6, SetItemRefines
  <2>7. SetCount(f) => \E n \in ResizeLen : Contract!SetCount(f, n)
    BY SetCountRefines
  <2> QED
    BY <1>5, <2>1, <2>2, <2>3, <2>4, <2>5, <2>6, <2>7 DEF FieldCall, Contract!Next
<1> QED
  BY <1>1, <1>2, <1>3, <1>4, <1>5 DEF Next

(* ImplementsContract: while memory lasts, what a client sees of an object  *)
(* through the generated functions is one array per field, and every call   *)
(* does all it promises or, with an index out of range, a zero count or no  *)
(* object, nothing.                                                         *)
THEOREM ContractImplemented ==
  ASSUME Reliable
  PROVE  Spec => ImplementsContract
<1>1. Init => Contract!Init
  BY DEF Init, Contract!Init
<1>2. Inv /\ Healthy /\ [Next]_vars => [Contract!Next]_(Contract!vars)
  <2> SUFFICES ASSUME Inv, Healthy, [Next]_vars
               PROVE  Contract!Next \/ UNCHANGED Contract!vars
    OBVIOUS
  <2>1. CASE Next
    BY <2>1, CallRefines
  <2>2. CASE UNCHANGED vars
    BY <2>2 DEF vars, Contract!vars, Contents
  <2> QED
    BY <2>1, <2>2
<1> QED
  BY <1>1, <1>2, InvHolds, ReliableRealloc, HealthyHolds, PTL
    DEF Spec, ImplementsContract, Contract!Spec
=============================================================================
