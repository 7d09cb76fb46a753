----------------------------- MODULE HeapProofs -----------------------------
(***************************************************************************)
(* What the outcomes of the allocator's calls look like: the facts about   *)
(* Heap that the proofs about the generated code rest on.                  *)
(***************************************************************************)
EXTENDS Heap, TLAPS

(* An array of cells whose length fits in a size_t is a block.             *)
LEMMA BlockIntro ==
  ASSUME NEW n \in 0..(SlotMod - 1), NEW b \in [0..(n - 1) -> Cell]
  PROVE  b \in Block
BY DEF Block

(* Every block has a length that fits in a size_t.                          *)
LEMMA BlockElim ==
  ASSUME NEW b \in Block
  PROVE  \E n \in 0..(SlotMod - 1) : b \in [0..(n - 1) -> Cell]
BY DEF Block

(* A freed block can be told from a live one.                               *)
LEMMA FreedIsNoBlock == Freed \notin Block
BY BlockElim, HeapAssumption

(* What is at an address: Freed or a block, never both.                    *)
LEMMA LiveIsBlock ==
  ASSUME NEW h \in HeapType, NEW a \in Addr
  PROVE  h[a] \in Block <=> h[a] # Freed
BY FreedIsNoBlock DEF HeapType

(* malloc(n) refuses, leaving the heap, or puts n unwritten cells at an    *)
(* address that was vacant.                                                *)
LEMMA MallocOutcome ==
  ASSUME NEW h \in HeapType, NEW n \in 0..(SlotMod - 1), NEW r \in Malloc(h, n)
  PROVE  /\ r.heap \in HeapType
         /\ \/ r.ptr = Null /\ r.heap = h /\ MallocMayFail(n)
            \/ /\ r.ptr \in Addr /\ h[r.ptr] = Freed
               /\ r.heap[r.ptr] = [i \in 0..(n - 1) |-> Uninit]
               /\ \A a \in Addr \ {r.ptr} : r.heap[a] = h[a]
<1> DEFINE fresh == [i \in 0..(n - 1) |-> Uninit]
<1>1. fresh \in Block
  BY BlockIntro DEF Cell
<1>2. CASE r = Refused(h) /\ MallocMayFail(n)
  BY <1>2 DEF Refused
<1>3. CASE \E a \in Vacant(h) : r = [ptr |-> a, heap |-> [h EXCEPT ![a] = fresh]]
  BY <1>1, <1>3 DEF Vacant, HeapType
<1> QED
  BY <1>2, <1>3 DEF Malloc

(* realloc(p, n) of a live pointer is malloc if p is NULL; otherwise it     *)
(* refuses, or frees p for n = 0, or puts n cells at p or at a vacant       *)
(* address, p being freed if it is not that, the first cells kept.          *)
LEMMA ReallocOutcome ==
  ASSUME NEW h \in HeapType, NEW p \in Addr, h[p] # Freed,
         NEW n \in 0..(SlotMod - 1), NEW r \in Realloc(h, p, n)
  PROVE  /\ r.heap \in HeapType
         /\ \/ /\ r.ptr = Null /\ r.heap = h
               /\ MayFail \/ (n = 0 /\ "fail" \in ZeroRealloc)
            \/ /\ r.ptr = Null /\ r.heap = Free(h, p)
               /\ n = 0 /\ "free" \in ZeroRealloc
            \/ /\ r.ptr \in Addr /\ (r.ptr = p \/ h[r.ptr] = Freed)
               /\ r.heap[r.ptr] = Resized(h[p], n)
               /\ p # r.ptr => r.heap[p] = Freed
               /\ \A a \in Addr \ {p, r.ptr} : r.heap[a] = h[a]
<1>1. Resized(h[p], n) \in Block
  <2>1. PICK m \in 0..(SlotMod - 1) : h[p] \in [0..(m - 1) -> Cell]
    BY LiveIsBlock, BlockElim
  <2>2. Resized(h[p], n) \in [0..(n - 1) -> Cell]
    BY <2>1 DEF Resized, Cell
  <2> QED
    BY <2>2, BlockIntro
<1>2. p # Null
  BY HeapAssumption
<1>3. CASE r = Refused(h) /\ (MayFail \/ (n = 0 /\ "fail" \in ZeroRealloc))
  BY <1>3 DEF Refused
<1>4. CASE r = [ptr |-> Null, heap |-> Free(h, p)] /\ n = 0 /\ "free" \in ZeroRealloc
  <2>1. Free(h, p) \in HeapType
    BY <1>2 DEF Free, HeapType
  <2> QED
    BY <1>4, <2>1
<1>5. CASE \E a \in Vacant(h) \cup {p} :
              r = [ptr |-> a, heap |-> [h EXCEPT ![p] = Freed, ![a] = Resized(h[p], n)]]
  BY <1>1, <1>5 DEF Vacant, HeapType
<1> QED
  BY <1>2, <1>3, <1>4, <1>5 DEF Realloc

(* Copying cells into a block changes no other block, and neither frees it  *)
(* nor changes its length.                                                  *)
LEMMA CopyInOutcome ==
  ASSUME NEW h \in HeapType, NEW p \in Addr \cup {Null}, NEW i \in Nat, NEW n \in Nat,
         NEW src, \A j \in 0..(n - 1) : src[j] \in Cell
  PROVE  /\ CopyIn(h, p, i, n, src) \in HeapType
         /\ \A a \in Addr \ {p} : CopyIn(h, p, i, n, src)[a] = h[a]
         /\ \A a \in Addr :
              /\ CopyIn(h, p, i, n, src)[a] = Freed <=> h[a] = Freed
              /\ h[a] # Freed => DOMAIN CopyIn(h, p, i, n, src)[a] = DOMAIN h[a]
<1>1. CASE n = 0 \/ AccessFault(h, p, i, n) # "none"
  BY <1>1 DEF CopyIn
<1>2. CASE n # 0 /\ AccessFault(h, p, i, n) = "none"
  <2> DEFINE new == [j \in DOMAIN h[p] |->
                       IF j \in i..(i + n - 1) THEN src[j - i] ELSE h[p][j]]
  <2>1. p \in Addr /\ h[p] # Freed
    BY <1>2 DEF AccessFault
  <2>2. PICK m \in 0..(SlotMod - 1) : h[p] \in [0..(m - 1) -> Cell]
    BY <2>1, LiveIsBlock, BlockElim
  <2>3. \A j \in i..(i + n - 1) : j - i \in 0..(n - 1)
    OBVIOUS
  <2>4. new \in [0..(m - 1) -> Cell]
    BY <2>2, <2>3
  <2>5. new \in Block /\ new # Freed
    BY <2>4, BlockIntro, FreedIsNoBlock
  <2>6. CopyIn(h, p, i, n, src) = [h EXCEPT ![p] = new]
    BY <1>2 DEF CopyIn
  <2>7. DOMAIN new = DOMAIN h[p]
    OBVIOUS
  <2> HIDE DEF new
  <2> QED
    BY <2>1, <2>5, <2>6, <2>7 DEF HeapType
<1> QED
  BY <1>1, <1>2

(* The same for a copy of n cells to the start of a block.                  *)
Pointer == Addr \cup {Null}
HoldsCells(src, n) == n \in Nat /\ \A j \in 0..(n - 1) : src[j] \in Cell

(* A copy to the start of a block.                                          *)
LEMMA CopyToStart ==
  ASSUME NEW h \in HeapType, NEW p \in Pointer, NEW n, NEW src, HoldsCells(src, n)
  PROVE  /\ CopyIn(h, p, 0, n, src) \in HeapType
         /\ \A a \in Addr :
              /\ CopyIn(h, p, 0, n, src)[a] = Freed <=> h[a] = Freed
              /\ h[a] # Freed => DOMAIN CopyIn(h, p, 0, n, src)[a] = DOMAIN h[a]
              /\ a # p => CopyIn(h, p, 0, n, src)[a] = h[a]
BY CopyInOutcome DEF Pointer, HoldsCells

(* An access to a whole block, or within it, does not fault.                *)
LEMMA AccessInBlock ==
  ASSUME NEW h, NEW p \in Addr, h[p] # Freed, NEW i \in Nat, NEW n \in Nat,
         NEW m \in Nat, DOMAIN h[p] = 0..(m - 1), i + n <= m
  PROVE  AccessFault(h, p, i, n) = "none"
BY HeapAssumption DEF AccessFault

(* A copy over the whole of a block leaves it with what was copied.         *)
LEMMA CopyFills ==
  ASSUME NEW h \in HeapType, NEW p \in Addr, h[p] # Freed, NEW n, NEW src,
         HoldsCells(src, n), DOMAIN h[p] = 0..(n - 1)
  PROVE  CopyIn(h, p, 0, n, src)[p] = [j \in 0..(n - 1) |-> src[j]]
<1>1. PICK m \in 0..(SlotMod - 1) : h[p] \in [0..(m - 1) -> Cell]
  BY LiveIsBlock, BlockElim
<1>2. n \in Nat
  BY DEF HoldsCells
<1>3. CASE n = 0
  <2>1. CopyIn(h, p, 0, n, src) = h
    BY <1>3 DEF CopyIn
  <2>2. h[p] = [j \in 0..(n - 1) |-> src[j]]
    <3>1. 0..(n - 1) = {}
      BY <1>3
    <3>2. h[p] = [j \in 0..(n - 1) |-> h[p][j]]
      BY <1>1
    <3>3. \A j \in 0..(n - 1) : h[p][j] = src[j]
      BY <3>1
    <3> QED
      BY <3>2, <3>3, Zenon
  <2> QED
    BY <2>1, <2>2
<1>4. CASE n # 0
  <2>1. AccessFault(h, p, 0, n) = "none"
    BY <1>2, AccessInBlock
  <2> DEFINE new == [j \in DOMAIN h[p] |->
                       IF j \in 0..(0 + n - 1) THEN src[j - 0] ELSE h[p][j]]
  <2>2. CopyIn(h, p, 0, n, src) = [h EXCEPT ![p] = new]
    BY <1>4, <2>1 DEF CopyIn
  <2>3. new = [j \in 0..(n - 1) |-> src[j]]
    BY <1>2
  <2> HIDE DEF new
  <2> QED
    BY <2>2, <2>3 DEF HeapType
<1> QED
  BY <1>3, <1>4

(* The same for a copy to anywhere in a block, and for one cell.            *)
LEMMA CopyToMiddle ==
  ASSUME NEW h \in HeapType, NEW p \in Pointer, NEW i \in Nat, NEW n, NEW src,
         HoldsCells(src, n)
  PROVE  \A a \in Addr :
           /\ CopyIn(h, p, i, n, src)[a] = Freed <=> h[a] = Freed
           /\ h[a] # Freed => DOMAIN CopyIn(h, p, i, n, src)[a] = DOMAIN h[a]
           /\ a # p => CopyIn(h, p, i, n, src)[a] = h[a]
<1>1. p \in Addr \cup {Null} /\ n \in Nat /\ \A j \in 0..(n - 1) : src[j] \in Cell
  BY DEF Pointer, HoldsCells
<1>2. \A a \in Addr : a # p => CopyIn(h, p, i, n, src)[a] = h[a]
  BY DEF CopyIn, HeapType
<1>3. \A a \in Addr :
        /\ CopyIn(h, p, i, n, src)[a] = Freed <=> h[a] = Freed
        /\ h[a] # Freed => DOMAIN CopyIn(h, p, i, n, src)[a] = DOMAIN h[a]
  BY <1>1, CopyInOutcome
<1> QED
  BY <1>2, <1>3

(* A copy of one cell.                                                      *)
LEMMA CopyCell ==
  ASSUME NEW h \in HeapType, NEW p \in Pointer, NEW i \in Nat, NEW src, src[0] \in Cell
  PROVE  \A a \in Addr :
           /\ CopyIn(h, p, i, 1, src)[a] = Freed <=> h[a] = Freed
           /\ h[a] # Freed => DOMAIN CopyIn(h, p, i, 1, src)[a] = DOMAIN h[a]
           /\ a # p => CopyIn(h, p, i, 1, src)[a] = h[a]
<1>1. HoldsCells(src, 1)
  BY DEF HoldsCells
<1> QED
  BY <1>1, CopyToMiddle
=============================================================================
