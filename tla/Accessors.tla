------------------------------ MODULE Accessors ------------------------------
(***************************************************************************)
(* The functions tyr generates for a struct whose fields are arrays        *)
(* ("repeated" fields, each with its hidden count field), as LLVMIRGenPass *)
(* emits them: create, destroy, get, get_item, set, set_item, set_count.   *)
(* The client calls them in any order, on one object at a time.            *)
(*                                                                         *)
(* Each function runs to completion before the next call (the generated    *)
(* code has no thread or callback), so one call is one step.  Undefined    *)
(* behaviour inside a call is recorded in "fault", and nothing runs after. *)
(***************************************************************************)
EXTENDS Heap, FiniteSets, Functions

CONSTANTS
  Field,       \* the repeated fields of the struct
  Mutable,     \* those declared mutable
  ArrayLen,    \* lengths of the arrays a client holds and passes
  ResizeLen,   \* counts a client passes to set_count
  Index,       \* indices a client passes to the item accessors
  Exposed,     \* functions in the object file that the C header does not
               \* declare and this client calls nevertheless
  NullHandle,  \* functions this client calls with a NULL struct pointer
  PassesLent,  \* TRUE if it passes an array that get lent it back to set
  OutArg,      \* the client's variable that getters return through
  NoField,     \* the field of a call that is about the whole struct
  NoValue,     \* the result of a call that returns no cell, and the
               \* argument of one that is passed none
  MaxCopies    \* bound: copies from the getter that the client holds at once

Immutable == Field \ Mutable

CallName == {"none", "create", "destroy", "get", "get_item", "set", "set_item",
               "set_count", "free_copy"}

Fault == {"none", "null", "bounds", "dangling"}

ASSUME AccessorsAssumption ==
  /\ Mutable \subseteq Field
  /\ IsFiniteSet(Field)
  /\ ArrayLen \subseteq 0..(SlotMod - 1)
  /\ ResizeLen \subseteq Nat
  /\ Index \subseteq Nat
  /\ Exposed \subseteq {"set_count", "immutable_set_item"}
  /\ NullHandle \subseteq {"destroy", "get", "get_item", "set", "set_item", "set_count"}
  /\ PassesLent \in BOOLEAN
  /\ OutArg # Null
  /\ NoField \notin Field
  /\ NoValue \notin Cell
  /\ MaxCopies \in Nat

VARIABLES
  heap,    \* the allocator's blocks, the struct's own block among them
  self,    \* the object, Null when there is none
  count,   \* its count fields: the length of each array, as the code knows it
  ptr,     \* its array fields
  copies,  \* blocks the getter of an immutable field gave to the client
  call,    \* the last call, what it was passed and what it returned
  fault    \* the undefined behaviour met so far

vars == <<heap, self, count, ptr, copies, call, fault>>

-----------------------------------------------------------------------------
(* Helpers of the generated code                                            *)

(* The array a client passes: its length and its elements.                  *)
Input == UNION {[len : {n}, data : [0..(n - 1) -> Value]] : n \in ArrayLen}

(* getFieldAllocSize: element size times count, in 64-bit arithmetic.       *)
Slots(n) == n % SlotMod

(* insertNullCheck: the null tests of several pointers are or-ed, so the    *)
(* check passes as soon as ONE of them is not NULL.                         *)
PassesNullCheck(ptrs) == \E p \in ptrs : p # Null

(* What a call is recorded with: the field it is about, what the client     *)
(* passed besides (the array, the index, the count; for create one array    *)
(* per immutable field), whether it did its work, and the cell it returned. *)
(* The argument of a call that failed is not kept.                          *)
Respond(fn, f, arg, ok, out) ==
  call' = [fn |-> fn, field |-> f, arg |-> IF ok THEN arg ELSE NoValue,
           ok |-> ok, out |-> out]

Return(fn, f, ok, out) == Respond(fn, f, NoValue, ok, out)

Given(in) == [arrays |-> [f \in Immutable |-> in[f].data]]

(* The block that holds the struct itself; its fields are the variables     *)
(* count and ptr.                                                           *)
StructBlock == [i \in 0..0 |-> Uninit]

-----------------------------------------------------------------------------
(* create_<struct>                                                          *)

NoObject ==
  /\ self = Null
  /\ UNCHANGED copies
  /\ fault' = "none"

(* The heap once the struct is at sp and the arrays of the fields in K at   *)
(* the addresses "at".                                                      *)
Placed(sp, K, at, in) ==
  [a \in Addr |->
     IF a = sp THEN StructBlock
     ELSE IF \E f \in K : at[f] = a
          THEN in[CHOOSE f \in K : at[f] = a].data
          ELSE heap[a]]

(* Where the constructor's mallocs may put the struct and the arrays of K.  *)
Placements(sp, K) == Injection(K, Vacant(heap) \ {sp})

(* initField: a mutable field starts as 0 and NULL, an immutable one as a   *)
(* copy of the client's array.                                              *)
CreateOk ==
  /\ NoObject
  /\ \E in \in [Immutable -> Input], sp \in Vacant(heap) :
       /\ \A f \in Immutable : MallocMayGive(Slots(in[f].len))
       /\ \E at \in Placements(sp, Immutable) :
            /\ heap' = Placed(sp, Immutable, at, in)
            /\ self' = sp
            /\ count' = [f \in Field |-> IF f \in Mutable THEN 0 ELSE in[f].len]
            /\ ptr'   = [f \in Field |-> IF f \in Mutable THEN Null ELSE at[f]]
       /\ Respond("create", NoField, Given(in), TRUE, NoValue)

(* malloc of the struct fails.                                              *)
CreateFails ==
  /\ NoObject
  /\ MayFail
  /\ Return("create", NoField, FALSE, NoValue)
  /\ UNCHANGED <<heap, self, count, ptr>>

(* malloc of an array fails after the struct and the arrays of K, those     *)
(* before it, were allocated: NULL is returned and they stay.  Fields have  *)
(* no order here, so K is any of the sets that an order could give.         *)
CreateFailsHalfway ==
  /\ NoObject
  /\ \E in \in [Immutable -> Input], sp \in Vacant(heap), K \in SUBSET Immutable :
       /\ \A f \in K : MallocMayGive(Slots(in[f].len))
       /\ \E f \in Immutable \ K : MallocMayFail(Slots(in[f].len))
       /\ \E at \in Placements(sp, K) : heap' = Placed(sp, K, at, in)
  /\ Return("create", NoField, FALSE, NoValue)
  /\ UNCHANGED <<self, count, ptr>>

-----------------------------------------------------------------------------
(* destroy_<struct>: frees every array, then the struct; self is not        *)
(* checked.                                                                 *)

DoubleFree ==
  \E f \in Field :
    /\ ptr[f] # Null
    /\ \/ heap[ptr[f]] = Freed
       \/ ptr[f] = self
       \/ \E g \in Field \ {f} : ptr[g] = ptr[f]

(* Mutant: the struct's own block is not freed.                             *)
DestroyKeepsStruct ==
  /\ self # Null
  /\ fault' = IF DoubleFree THEN "dangling" ELSE "none"
  /\ heap' = [a \in Addr |-> IF a \in Range(ptr) THEN Freed ELSE heap[a]]
  /\ self' = Null
  /\ count' = [f \in Field |-> 0]
  /\ ptr' = [f \in Field |-> Null]
  /\ Return("destroy", NoField, TRUE, NoValue)
  /\ UNCHANGED copies

Destroy ==
  /\ self # Null
  /\ fault' = IF DoubleFree THEN "dangling" ELSE "none"
  /\ heap' = [a \in Addr |-> IF a = self \/ a \in Range(ptr) THEN Freed ELSE heap[a]]
  /\ self' = Null
  /\ count' = [f \in Field |-> 0]
  /\ ptr' = [f \in Field |-> Null]
  /\ Return("destroy", NoField, TRUE, NoValue)
  /\ UNCHANGED copies

-----------------------------------------------------------------------------
(* Mutant: item setters of immutable fields are declared to the client too. *)
CallableItems(fn, f) == fn \in {"set", "set_count"} => f \in Mutable

(* Which accessors there are: setters of the array and of its count only   *)
(* for a mutable field, an item setter for every field.  The C header       *)
(* declares no set_..._count, and the item setter of mutable fields only.   *)

Callable(fn, f) ==
  CASE fn = "set"       -> f \in Mutable
    [] fn = "set_count" -> f \in Mutable /\ "set_count" \in Exposed
    [] fn = "set_item"  -> f \in Mutable \/ "immutable_set_item" \in Exposed
    [] OTHER            -> TRUE

(* What a function null-checks: setters the struct pointer, getters that    *)
(* and OutArg (which the client never passes as NULL), destroy nothing.     *)
Checked(fn) == IF fn \in {"get", "get_item"} THEN {self, OutArg} ELSE {self}

(* A call with a NULL struct pointer, as after a create that failed: if it  *)
(* passes the check, the struct is accessed through NULL.                   *)
CallOnNull(fn, f) ==
  /\ self = Null
  /\ fn \in NullHandle /\ Callable(fn, f)
  /\ fault' = IF fn = "destroy" \/ PassesNullCheck(Checked(fn)) THEN "null" ELSE "none"
  /\ Return(fn, f, FALSE, NoValue)
  /\ UNCHANGED <<heap, self, count, ptr, copies>>

-----------------------------------------------------------------------------
(* get_<struct>_<field>                                                     *)

(* A mutable array is lent: the client gets the field's own pointer.        *)
GetLent(f) ==
  /\ f \in Mutable
  /\ self # Null
  /\ Return("get", f, TRUE, NoValue)
  /\ fault' = "none"
  /\ UNCHANGED <<heap, self, count, ptr, copies>>

(* Mutant: the new block is handed out without the memcpy.                  *)
GetCopyUnfilled(f) ==
  /\ f \in Immutable
  /\ self # Null
  /\ Cardinality(copies) < MaxCopies
  /\ \E r \in Malloc(heap, Slots(count[f])) :
       /\ r.ptr # Null
       /\ heap' = r.heap
       /\ copies' = copies \cup {r.ptr}
  /\ Return("get", f, TRUE, NoValue)
  /\ fault' = "none"
  /\ UNCHANGED <<self, count, ptr>>

(* An immutable array is copied into a new block that the client owns.      *)
GetCopy(f) ==
  /\ f \in Immutable
  /\ self # Null
  /\ Cardinality(copies) < MaxCopies
  /\ LET n == Slots(count[f]) IN
     \E r \in Malloc(heap, n) :
       IF r.ptr = Null
         THEN /\ Return("get", f, FALSE, NoValue)
              /\ fault' = "none"
              /\ UNCHANGED <<heap, copies>>
         ELSE LET bad == AccessFault(heap, ptr[f], 0, n) IN
              /\ Return("get", f, TRUE, NoValue)
              /\ fault' = bad
              /\ heap' = IF bad = "none" THEN CopyIn(r.heap, r.ptr, 0, n, heap[ptr[f]])
                                         ELSE r.heap
              /\ copies' = copies \cup {r.ptr}
  /\ UNCHANGED <<self, count, ptr>>

(* The client frees a copy it was given.                                    *)
FreeCopy ==
  /\ \E a \in copies : /\ heap' = Free(heap, a)
                       /\ fault' = ReallocFault(heap, a)
                       /\ copies' = copies \ {a}
  /\ Return("free_copy", NoField, TRUE, NoValue)
  /\ UNCHANGED <<self, count, ptr>>

(* Mutant: the index is compared with <=.                                   *)
GetItemUpTo(f, i) ==
  /\ self # Null
  /\ fault' = IF i <= count[f] THEN AccessFault(heap, ptr[f], i, 1) ELSE "none"
  /\ Respond("get_item", f, [idx |-> i], i <= count[f], NoValue)
  /\ UNCHANGED <<heap, self, count, ptr, copies>>

(* Mutant: the element's address is returned, its load is missing.          *)
GetItemNoLoad(f, i) ==
  /\ self # Null
  /\ fault' = "none"
  /\ Respond("get_item", f, [idx |-> i], i < count[f], IF i < count[f] THEN ptr[f] ELSE NoValue)
  /\ UNCHANGED <<heap, self, count, ptr, copies>>

(* get_<struct>_<field>_item: the cell, if idx < count.                     *)
GetItem(f, i) ==
  /\ self # Null
  /\ IF i < count[f]
       THEN LET bad == AccessFault(heap, ptr[f], i, 1) IN
            /\ fault' = bad
            /\ Respond("get_item", f, [idx |-> i], TRUE,
                       IF bad = "none" THEN heap[ptr[f]][i] ELSE NoValue)
       ELSE /\ fault' = "none"
            /\ Return("get_item", f, FALSE, NoValue)
  /\ UNCHANGED <<heap, self, count, ptr, copies>>

-----------------------------------------------------------------------------
(* set_<struct>_<field>(self, array, n), generated for mutable fields only  *)

(* Mutant: the count is not stored.                                         *)
SetFirstKeepsCount(f, in) ==
  /\ self # Null /\ ptr[f] = Null
  /\ \E r \in Malloc(heap, Slots(in.len)) :
       /\ heap' = IF r.ptr = Null THEN heap ELSE CopyIn(r.heap, r.ptr, 0, Slots(in.len), in.data)
       /\ ptr' = [ptr EXCEPT ![f] = r.ptr]
       /\ Respond("set", f, [array |-> in.data], r.ptr # Null, NoValue)
  /\ fault' = "none"
  /\ UNCHANGED <<self, count, copies>>

(* The field is NULL: the count is stored, then memory is allocated for it. *)
SetFirst(f, in) ==
  /\ self # Null /\ ptr[f] = Null
  /\ count' = [count EXCEPT ![f] = in.len]
  /\ LET n == Slots(in.len) IN
     \E r \in Malloc(heap, n) :
       /\ heap' = IF r.ptr = Null THEN heap ELSE CopyIn(r.heap, r.ptr, 0, n, in.data)
       /\ ptr' = [ptr EXCEPT ![f] = r.ptr]
       /\ Respond("set", f, [array |-> in.data], r.ptr # Null, NoValue)
  /\ fault' = "none"
  /\ UNCHANGED <<self, copies>>

(* Mutants: the block is reallocated although its size does not change; the *)
(* memcpy is missing, so the field keeps its old elements.                  *)
SetInPlaceUnfilled(f, in) ==
  /\ self # Null /\ ptr[f] # Null /\ count[f] = in.len
  /\ Respond("set", f, [array |-> in.data], TRUE, NoValue)
  /\ fault' = "none"
  /\ UNCHANGED <<heap, self, count, ptr, copies>>

SetInPlaceMoves(f, in) ==
  /\ self # Null /\ ptr[f] # Null /\ count[f] = in.len
  /\ \E r \in Realloc(heap, ptr[f], Slots(in.len)) :
       /\ r.ptr # Null
       /\ heap' = CopyIn(r.heap, r.ptr, 0, Slots(in.len), in.data)
       /\ ptr' = [ptr EXCEPT ![f] = r.ptr]
  /\ fault' = ReallocFault(heap, ptr[f])
  /\ Respond("set", f, [array |-> in.data], TRUE, NoValue)
  /\ UNCHANGED <<self, count, copies>>

(* The count is the length of the new array: it is copied over the old one. *)
SetInPlace(f, in) ==
  /\ self # Null /\ ptr[f] # Null /\ count[f] = in.len
  /\ LET n == Slots(in.len) IN
       /\ heap' = CopyIn(heap, ptr[f], 0, n, in.data)
       /\ fault' = AccessFault(heap, ptr[f], 0, n)
  /\ Respond("set", f, [array |-> in.data], TRUE, NoValue)
  /\ UNCHANGED <<self, count, ptr, copies>>

(* Mutants: the field keeps its old pointer after a move; the field takes    *)
(* realloc's result before it is tested.                                    *)
SetResizedKeepsPtr(f, in) ==
  /\ self # Null /\ ptr[f] # Null /\ count[f] # in.len
  /\ count' = [count EXCEPT ![f] = in.len]
  /\ \E r \in Realloc(heap, ptr[f], Slots(in.len)) :
       /\ heap' = r.heap
       /\ Respond("set", f, [array |-> in.data], r.ptr # Null, NoValue)
  /\ fault' = ReallocFault(heap, ptr[f])
  /\ UNCHANGED <<self, ptr, copies>>

SetResizedStoresNull(f, in) ==
  /\ self # Null /\ ptr[f] # Null /\ count[f] # in.len
  /\ count' = [count EXCEPT ![f] = in.len]
  /\ \E r \in Realloc(heap, ptr[f], Slots(in.len)) :
       /\ heap' = r.heap
       /\ ptr' = [ptr EXCEPT ![f] = r.ptr]
       /\ Respond("set", f, [array |-> in.data], r.ptr # Null, NoValue)
  /\ fault' = ReallocFault(heap, ptr[f])
  /\ UNCHANGED <<self, copies>>

(* It is not: the new count is stored, then the block is reallocated.  When *)
(* realloc returns NULL, false is returned at once, the count stays changed *)
(* and the field keeps its pointer.                                         *)
SetResized(f, in) ==
  /\ self # Null /\ ptr[f] # Null /\ count[f] # in.len
  /\ count' = [count EXCEPT ![f] = in.len]
  /\ LET n == Slots(in.len) IN
     \E r \in Realloc(heap, ptr[f], n) :
       IF r.ptr = Null
         THEN /\ heap' = r.heap
              /\ UNCHANGED ptr
              /\ Return("set", f, FALSE, NoValue)
         ELSE /\ heap' = CopyIn(r.heap, r.ptr, 0, n, in.data)
              /\ ptr' = [ptr EXCEPT ![f] = r.ptr]
              /\ Respond("set", f, [array |-> in.data], TRUE, NoValue)
  /\ fault' = ReallocFault(heap, ptr[f])
  /\ UNCHANGED <<self, copies>>

(* The client passes the first n elements of the field's own array, which   *)
(* get lent it: memcpy reads them from where they were before realloc.      *)
SetLent(f, n) ==
  /\ PassesLent
  /\ f \in Mutable /\ self # Null /\ ptr[f] # Null /\ count[f] # n
  /\ heap[ptr[f]] # Freed /\ 0..(n - 1) \subseteq DOMAIN heap[ptr[f]]
  /\ count' = [count EXCEPT ![f] = n]
  /\ \E r \in Realloc(heap, ptr[f], n) :
       IF r.ptr = Null
         THEN /\ heap' = r.heap
              /\ fault' = "none"
              /\ UNCHANGED ptr
              /\ Return("set", f, FALSE, NoValue)
         ELSE /\ heap' = CopyIn(r.heap, r.ptr, 0, n, heap[ptr[f]])
              /\ fault' = IF n = 0 \/ r.ptr = ptr[f] THEN "none" ELSE "dangling"
              /\ ptr' = [ptr EXCEPT ![f] = r.ptr]
              /\ Respond("set", f, [array |-> [i \in 0..(n - 1) |-> heap[ptr[f]][i]]],
                         TRUE, NoValue)
  /\ UNCHANGED <<self, copies>>

Set(f, in) ==
  /\ f \in Mutable
  /\ SetFirst(f, in) \/ SetInPlace(f, in) \/ SetResized(f, in)

-----------------------------------------------------------------------------
(* set_<struct>_<field>_item: generated for every repeated field            *)

SetItem(f, i, v) ==
  /\ self # Null
  /\ Callable("set_item", f)
  /\ IF i < count[f]
       THEN /\ fault' = AccessFault(heap, ptr[f], i, 1)
            /\ heap' = CopyIn(heap, ptr[f], i, 1, [j \in {0} |-> v])
            /\ Respond("set_item", f, [idx |-> i, val |-> v], TRUE, NoValue)
       ELSE /\ fault' = "none"
            /\ UNCHANGED heap
            /\ Return("set_item", f, FALSE, NoValue)
  /\ UNCHANGED <<self, count, ptr, copies>>

-----------------------------------------------------------------------------
(* set_<struct>_<field>_count: reallocates the array to n elements          *)

SetCountZero(f) ==
  /\ 0 \in ResizeLen
  /\ Return("set_count", f, FALSE, NoValue)
  /\ fault' = "none"
  /\ UNCHANGED <<heap, ptr, count>>

(* Mutants: the count is not stored again after realloc has succeeded; it is *)
(* not restored when realloc fails.                                         *)
SetCountForgotten(f, n) ==
  /\ n # 0
  /\ \E r \in Realloc(heap, ptr[f], Slots(n)) :
       /\ heap' = r.heap
       /\ ptr' = IF r.ptr = Null THEN ptr ELSE [ptr EXCEPT ![f] = r.ptr]
       /\ Respond("set_count", f, [count |-> n], r.ptr # Null, NoValue)
  /\ UNCHANGED count
  /\ fault' = ReallocFault(heap, ptr[f])

SetCountNotRestored(f, n) ==
  /\ n # 0
  /\ \E r \in Realloc(heap, ptr[f], Slots(n)) :
       /\ heap' = r.heap
       /\ ptr' = IF r.ptr = Null THEN ptr ELSE [ptr EXCEPT ![f] = r.ptr]
       /\ Respond("set_count", f, [count |-> n], r.ptr # Null, NoValue)
  /\ count' = [count EXCEPT ![f] = n]
  /\ fault' = ReallocFault(heap, ptr[f])

(* The count is stored for the size computation, restored, and stored again *)
(* with the new pointer once realloc has succeeded.                         *)
SetCountNonZero(f, n) ==
  /\ n # 0
  /\ \E r \in Realloc(heap, ptr[f], Slots(n)) :
       /\ heap' = r.heap
       /\ count' = IF r.ptr = Null THEN count ELSE [count EXCEPT ![f] = n]
       /\ ptr'   = IF r.ptr = Null THEN ptr   ELSE [ptr EXCEPT ![f] = r.ptr]
       /\ Respond("set_count", f, [count |-> n], r.ptr # Null, NoValue)
  /\ fault' = ReallocFault(heap, ptr[f])

SetCount(f) ==
  /\ self # Null
  /\ Callable("set_count", f)
  /\ SetCountZero(f) \/ \E n \in ResizeLen : SetCountNonZero(f, n)
  /\ UNCHANGED <<self, copies>>

-----------------------------------------------------------------------------
Init ==
  /\ heap = EmptyHeap
  /\ self = Null
  /\ count = [f \in Field |-> 0]
  /\ ptr = [f \in Field |-> Null]
  /\ copies = {}
  /\ call = [fn |-> "none", field |-> NoField, arg |-> NoValue, ok |-> TRUE, out |-> NoValue]
  /\ fault = "none"

FieldCall(f) ==
  \/ \E fn \in NullHandle : CallOnNull(fn, f)
  \/ GetLent(f)
  \/ GetCopy(f)
  \/ \E i \in Index : GetItem(f, i)
  \/ \E in \in Input : Set(f, in)
  \/ \E n \in ArrayLen : SetLent(f, n)
  \/ \E i \in Index, v \in Value : SetItem(f, i, v)
  \/ SetCount(f)

(* Nothing runs after undefined behaviour.                                  *)
Next ==
  /\ fault = "none"
  /\ \/ CreateOk
     \/ CreateFails
     \/ CreateFailsHalfway
     \/ Destroy
     \/ FreeCopy
     \/ \E f \in Field : FieldCall(f)

Spec == Init /\ [][Next]_vars

-----------------------------------------------------------------------------
(* Properties                                                               *)

Array == UNION {[0..(n - 1) -> Cell] : n \in ArrayLen}

Argument ==
  {NoValue} \cup [arrays : [Immutable -> Array]] \cup [array : Array]
            \cup [idx : Index] \cup [idx : Index, val : Value] \cup [count : ResizeLen]

CallType ==
  [fn : CallName, field : Field \cup {NoField}, arg : Argument, ok : BOOLEAN,
   out : Cell \cup {NoValue}]

(* The variables keep their types.                                          *)
TypeOK ==
  /\ heap \in HeapType
  /\ self \in Addr \cup {Null}
  /\ count \in [Field -> Nat]
  /\ ptr \in [Field -> Addr \cup {Null}]
  /\ copies \in SUBSET Addr
  /\ call \in CallType
  /\ fault \in Fault

Arrays == {ptr[f] : f \in Field} \ {Null}

(* Every block the object or the client refers to is live and belongs to    *)
(* one of them only: no array is shared by two fields, is the struct itself *)
(* or is a copy the client will free.  It is what makes destroy free every  *)
(* block once, whatever calls failed before.                                *)
Ownership ==
  /\ self # Null => self \in Allocated(heap) \ (Arrays \cup copies)
  /\ self = Null => Arrays = {}
  /\ Arrays \cup copies \subseteq Allocated(heap)
  /\ Arrays \cap copies = {}
  /\ \A f, g \in Field : ptr[f] = ptr[g] /\ ptr[f] # Null => f = g

(* The sizes for which Ownership is claimed: glibc's realloc frees a block   *)
(* resized to 0 and returns NULL, which the setters take for a failure that *)
(* kept it, so no size may come out as 0 there.                             *)
NoFreeingRealloc ==
  "free" \in ZeroRealloc =>
    \A n \in ArrayLen \cup (ResizeLen \ {0}) : Slots(n) # 0

(* The count field of f is the length of its block: what the bounds checks  *)
(* of the item accessors and every memcpy rely on.                          *)
Fits(f) ==
  IF ptr[f] = Null THEN count[f] = 0
                   ELSE DOMAIN heap[ptr[f]] = 0..(count[f] - 1)

AllFit == \A f \in Field : Fits(f)

(* No call meets undefined behaviour.                                       *)
NoFault == fault = "none"

Leaked == Allocated(heap) \ ({self} \cup Arrays \cup copies)

(* Every block is still reachable from the object or the client.            *)
NoLeak == Leaked = {}

Uses(fn, f) == call'.fn = fn /\ call'.field = f

(* The array that get lends stays where it is, and the struct keeps         *)
(* pointing to it, until the field is set to another length, its count is   *)
(* set (even to the same value: realloc may move), or the object is         *)
(* destroyed.  No call on another field moves it.                           *)
BorrowStable ==
  [][\A f \in Field :
       ptr[f] # Null =>
         \/ ptr'[f] = ptr[f] /\ heap'[ptr[f]] # Freed
         \/ Uses("set", f) /\ count'[f] # count[f]
         \/ Uses("set_count", f) /\ call'.ok
         \/ call'.fn = "destroy"]_vars

(* A copy from the getter of an immutable field equals the field when it is *)
(* handed out, and no later call on the object changes or frees it.         *)
CopyFaithful ==
  [][/\ \A a \in copies' \ copies : fault' = "none" => heap'[a] = heap[ptr[call'.field]]
     /\ \A a \in copies : a \notin copies' => call'.fn = "free_copy"
     /\ \A a \in copies \cap copies' : heap'[a] = heap[a]]_vars

(* A call that returns false leaves every array and every pointer as it was.*)
(* (It may leave a wrong count: FailedSetKeepsCount.)                       *)
FailedCallKeepsArrays ==
  [][~call'.ok =>
       /\ self' = self /\ ptr' = ptr
       /\ \A a \in Allocated(heap) : heap'[a] = heap[a]]_vars

(* set_count that fails changes nothing; that succeeds keeps the elements   *)
(* below both counts.                                                       *)
SetCountAtomic ==
  [][\A f \in Field : Uses("set_count", f) =>
       IF call'.ok
         THEN ptr[f] # Null =>
                \A i \in DOMAIN heap[ptr[f]] \cap DOMAIN heap'[ptr'[f]] :
                  heap'[ptr'[f]][i] = heap[ptr[f]][i]
         ELSE UNCHANGED <<heap, self, count, ptr>>]_vars

(* The count and the block of a field part ways only in a set of that field *)
(* that returned false, or in a set_count whose size wraps: it allocates a  *)
(* small block and returns true.                                            *)
MisfitNeedsCause ==
  [][\A f \in Field : Fits(f) /\ ~(Fits(f))' =>
       \/ Uses("set", f) /\ ~call'.ok
       \/ Uses("set_count", f) /\ count'[f] >= SlotMod]_vars

(* Undefined behaviour needs a field whose count does not fit, a NULL       *)
(* struct pointer passed to a getter or to destroy, or an array that was    *)
(* lent and is moved by the set it is passed to.                            *)
FaultNeedsCause ==
  [][fault' # "none" =>
       \/ ~AllFit
       \/ self = Null /\ call'.fn \in {"get", "get_item", "destroy"}
       \/ \E f \in Field, n \in ArrayLen : SetLent(f, n) /\ ptr'[f] # ptr[f]]_vars

(* set_count repairs a count that did not fit, unless the size wraps.       *)
SetCountRepairs ==
  [][\A f \in Field :
       Uses("set_count", f) /\ call'.ok /\ count'[f] < SlotMod => (Fits(f))']_vars

(* Only a create that fails loses memory.                                   *)
LeakOnlyByFailedCreate ==
  [][Leaked' \subseteq Leaked \/ (call'.fn = "create" /\ ~call'.ok)]_vars

(* An immutable array never changes while the object lives (for a client    *)
(* that keeps to the header).                                               *)
ImmutableStable ==
  [][self # Null /\ call'.fn # "destroy" =>
       \A f \in Immutable : /\ ptr'[f] = ptr[f] /\ count'[f] = count[f]
                            /\ heap'[ptr[f]] = heap[ptr[f]]]_vars

(* A set that returns false has set nothing: "Setter returns a bool to      *)
(* indicate if it was successfully set" (LLVMIRGenPass.cpp 461).            *)
FailedSetKeepsCount ==
  [][call'.fn = "set" /\ ~call'.ok => count' = count]_vars

-----------------------------------------------------------------------------
(* The contract, seen through the pointers.                                 *)

CONSTANT Absent   \* no object, as the contract sees it

ASSUME ContractAssumption == Absent \notin [Field -> Block]

Contents(f) == [i \in 0..(count[f] - 1) |-> heap[ptr[f]][i]]

Contract ==
  INSTANCE FieldContract WITH
    val <- IF self = Null THEN Absent ELSE [f \in Field |-> Contents(f)],
    res <- call,
    ItemSettable <- {f \in Field : Callable("set_item", f)}

(* While allocation succeeds and sizes do not wrap, the generated code      *)
(* implements the contract: a set that returns true has stored the very     *)
(* array it was passed, create one array for every immutable field, and so  *)
(* on, and no call has touched a field it is not about.                     *)
ImplementsContract == Contract!Spec
=============================================================================
