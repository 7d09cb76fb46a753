-------------------------------- MODULE Heap --------------------------------
(***************************************************************************)
(* The allocator under the generated code: malloc, realloc and free, the   *)
(* only functions tyr's output calls that tyr does not generate (README.md *)
(* 66-69).  The user may link any other allocator in their place           *)
(* (doc/OverridingBuiltins.md), so nothing is assumed about WHERE a block  *)
(* is put, and the outcomes the C standard leaves to the implementation    *)
(* are parameters.                                                         *)
(*                                                                         *)
(* A heap maps every address that can start a block to the block that      *)
(* starts there, or to Freed.  A block is an array of cells, one cell per  *)
(* element of the field stored in it; a cell no one has written since it   *)
(* was handed out holds Uninit.                                            *)
(***************************************************************************)
EXTENDS Integers

CONSTANTS
  Addr,         \* the addresses at which a block can start
  Null,         \* the null pointer
  Freed,        \* what the heap holds at an address without a block
  Value,        \* the values a client stores in a cell
  Uninit,       \* the content of a cell that was never written
  SlotMod,      \* 2^64 divided by the element size: the slots a size_t spans
  MayFail,      \* TRUE if malloc and realloc may fail
  ZeroMalloc,   \* what malloc(0) may do: hand out a "block", return "null"
  ZeroRealloc   \* what realloc(p, 0) may do: resize to an empty "block",
                \* "fail" and keep p, or "free" p and return NULL

Cell  == Value \cup {Uninit}
Block == UNION {[0..(n - 1) -> Cell] : n \in 0..(SlotMod - 1)}

ASSUME HeapAssumption ==
  /\ Null \notin Addr
  /\ \A n \in 0..(SlotMod - 1) : Freed \notin [0..(n - 1) -> Cell]
  /\ Uninit \notin Value
  /\ SlotMod \in Nat /\ SlotMod > 1
  /\ MayFail \in BOOLEAN
  /\ ZeroMalloc \in (SUBSET {"block", "null"}) \ {{}}
  /\ ZeroRealloc \in (SUBSET {"block", "free", "fail"}) \ {{}}

HeapType == [Addr -> Block \cup {Freed}]

EmptyHeap == [a \in Addr |-> Freed]

Allocated(h) == {a \in Addr : h[a] # Freed}
Vacant(h)    == {a \in Addr : h[a] = Freed}

-----------------------------------------------------------------------------
(* The calls.  Each is the set of its outcomes: the pointer returned and    *)
(* the heap afterwards.                                                     *)

Refused(h) == [ptr |-> Null, heap |-> h]

MallocMayFail(n) == MayFail \/ (n = 0 /\ "null" \in ZeroMalloc)
MallocMayGive(n) == n > 0 \/ "block" \in ZeroMalloc

Malloc(h, n) ==
  {[ptr |-> a, heap |-> [h EXCEPT ![a] = [i \in 0..(n - 1) |-> Uninit]]] :
      a \in {v \in Vacant(h) : MallocMayGive(n)}}
    \cup {r \in {Refused(h)} : MallocMayFail(n)}

Free(h, p) == IF p = Null THEN h ELSE [h EXCEPT ![p] = Freed]

(* The first n cells of block b, Uninit where b is shorter.                 *)
Resized(b, n) == [i \in 0..(n - 1) |-> IF i \in DOMAIN b THEN b[i] ELSE Uninit]

(* realloc of NULL is malloc.  Of a live block, it keeps the address or     *)
(* moves the block and frees the old address.  Of a pointer to no block it  *)
(* is undefined: ReallocFault tells, and the outcome does not matter.       *)
Realloc(h, p, n) ==
  IF p = Null THEN Malloc(h, n)
  ELSE IF h[p] = Freed THEN {Refused(h)}
  ELSE {[ptr |-> a, heap |-> [h EXCEPT ![p] = Freed, ![a] = Resized(h[p], n)]] :
          a \in {v \in Vacant(h) \cup {p} : n > 0 \/ "block" \in ZeroRealloc}}
       \cup {r \in {Refused(h)} : MayFail \/ (n = 0 /\ "fail" \in ZeroRealloc)}
       \cup {r \in {[ptr |-> Null, heap |-> Free(h, p)]} :
                n = 0 /\ "free" \in ZeroRealloc}

-----------------------------------------------------------------------------
(* What goes wrong, "none" if nothing does: in handing p to realloc or free,*)
(* and in accessing n cells of the block at p from cell i on.               *)

ReallocFault(h, p) == IF p # Null /\ h[p] = Freed THEN "dangling" ELSE "none"

AccessFault(h, p, i, n) ==
  IF n = 0               THEN "none"
  ELSE IF p = Null       THEN "null"
  ELSE IF h[p] = Freed   THEN "dangling"
  ELSE IF \A j \in i..(i + n - 1) : j \in DOMAIN h[p] THEN "none"
  ELSE "bounds"

(* Copying n cells of src into the block at p from cell i on.  A faulting   *)
(* copy has no defined effect and nothing runs after it.                    *)
CopyIn(h, p, i, n, src) ==
  IF n = 0 \/ AccessFault(h, p, i, n) # "none" THEN h
  ELSE [h EXCEPT ![p] = [j \in DOMAIN h[p] |->
                           IF j \in i..(i + n - 1) THEN src[j - i] ELSE h[p][j]]]
=============================================================================
