---------------------------- MODULE Serialization ----------------------------
(***************************************************************************)
(* serialize_<struct> and deserialize_<struct> as LLVMIRGenPass emits them, *)
(* with the private functions they call for each field.  Serializing an     *)
(* object gives one buffer: its own size, then the fields in layout order,  *)
(* an array as its count and its elements.  A field that is itself a struct *)
(* has no code to model: the generator does not survive one (Compiler).     *)
(*                                                                         *)
(* One step is one private function: the struct functions allocate, call    *)
(* them in turn, and compare sizes at the end, so a malloc that fails in    *)
(* one field is followed by the steps of the fields after it.               *)
(*                                                                         *)
(* Everything is counted in 8-byte words: the size header, a count, a       *)
(* scalar, an element and a pointer are one word each.  Byte swapping is    *)
(* left out: it is generated only if the module's data layout is big-endian *)
(* at the time of generation, and then on both sides.                       *)
(***************************************************************************)
EXTENDS Heap, SequencesExt, FiniteSets

CONSTANTS
  Layouts,     \* layouts of the structs: sequences of field kinds
  Word,        \* the data a client stores
  ArrayLen,    \* the lengths of its arrays
  PassesNull   \* TRUE if the client hands a failed call's NULL on

Kind == {"scalar", "count", "array"}

(* A repeated field comes after its count (addRepeatedField, and a sort by  *)
(* size that keeps the order of up to 16 fields).                           *)
WellFormed(l) ==
  /\ l \in Seq(Kind)
  /\ \A i \in DOMAIN l : l[i] = "array" <=> i > 1 /\ l[i - 1] = "count"
  /\ l # <<>> /\ l[Len(l)] # "count"

Pointers(l) == {i \in DOMAIN l : l[i] = "array"}

(* An object and its arrays are in memory: a size_t holds the sum of their  *)
(* sizes, and there are addresses for them.                                 *)
Fits(l) ==
  /\ \A n \in [DOMAIN l -> ArrayLen \cup {0, 1}] :
       (\A i \in DOMAIN l \ Pointers(l) : n[i] = 1) => 1 + SumFunction(n) < SlotMod
  /\ Len(l) < SlotMod
  /\ ExistsInjection({0} \cup Pointers(l), Addr)

ASSUME SerializationAssumption ==
  /\ \A l \in Layouts : WellFormed(l) /\ Fits(l)
  /\ Word \subseteq Nat /\ ArrayLen \subseteq 0..(SlotMod - 1)
  /\ Addr \cup {Null} \cup Word \cup 0..(SlotMod - 1) \subseteq Value
  /\ PassesNull \in BOOLEAN

VARIABLES
  heap,
  layout,  \* the layout of the struct
  obj,     \* the client's object
  buf,     \* the buffer it was given by serialize, Null when it has none
  copy,    \* the object it was given by deserialize, Null when it has none
  pc,      \* "idle", or the struct function that is running
  run,     \* its locals: the block it fills, the next field, the next word
  short,   \* auxiliary: malloc failed for an array of the last deserialize
  ok,      \* whether the last call returned a pointer
  fault    \* the undefined behaviour met so far

vars == <<heap, layout, obj, buf, copy, pc, run, short, ok, fault>>

Stopped == [at |-> Null, field |-> 0, word |-> 0]

-----------------------------------------------------------------------------
(* Objects.  Cell i - 1 of the struct's block is field i.                   *)

Field(h, p, i) == h[p][i - 1]

Count(h, p, i) == Field(h, p, i - 1)

(* getFieldAllocSize, a product modulo 2^64: it matters for a word of data  *)
(* that is read as a count.                                                 *)
Slots(n) == n % SlotMod

FieldWords(h, l, p, i) == IF l[i] = "array" THEN Slots(Count(h, p, i)) ELSE 1

(* Mutant: the counts are not counted, as they are written with the arrays. *)
AllocSizeNoCounts(h, l, p) ==
  1 + SumFunction([i \in DOMAIN l |-> IF l[i] = "count" THEN 0 ELSE FieldWords(h, l, p, i)])

AllocSize(h, l, p) == Slots(1 + SumFunction([i \in DOMAIN l |-> FieldWords(h, l, p, i)]))

Elements(h, l, p, i) == [j \in 1..Count(h, p, i) |-> h[Field(h, p, i)][j - 1]]

(* What the object holds, pointers followed.                                *)
Contents(h, l, p) ==
  [i \in DOMAIN l |-> IF l[i] = "array" THEN Elements(h, l, p, i) ELSE <<Field(h, p, i)>>]

(* The buffer of an object.                                                 *)
Image(h, l, p) ==
  <<AllocSize(h, l, p)>> \o
    FlattenSeq([i \in DOMAIN l |->
      CASE l[i] = "count"  -> <<>>
        [] l[i] = "array"  -> <<Count(h, p, i)>> \o Elements(h, l, p, i)
        [] OTHER           -> <<Field(h, p, i)>>])

ArraysOf(h, l, p) == {Field(h, p, i) : i \in {k \in DOMAIN l : l[k] = "array"}} \ {Null}
BlocksOf(h, l, p) == IF p = Null THEN {} ELSE {p} \cup ArraysOf(h, l, p)

-----------------------------------------------------------------------------
(* Moving words between blocks                                              *)

Put(h, p, i, w) == CopyIn(h, p, i, 1, [k \in {0} |-> w])

(* n words from word j of the block at q to word i of the block at p.       *)
MoveFault(h, p, i, q, j, n) ==
  IF AccessFault(h, q, j, n) # "none" THEN AccessFault(h, q, j, n)
                                      ELSE AccessFault(h, p, i, n)

Move(h, p, i, q, j, n) ==
  IF n = 0 \/ MoveFault(h, p, i, q, j, n) # "none" THEN h
  ELSE CopyIn(h, p, i, n, [k \in 0..(n - 1) |-> h[q][j + k]])

Advance(n) == run' = [run EXCEPT !.field = @ + 1, !.word = @ + n]

Kinds(k) == run.field \in DOMAIN layout /\ layout[run.field] = k

-----------------------------------------------------------------------------
(* serialize_<struct>                                                       *)

SerializeStart ==
  /\ pc = "idle" /\ buf = Null
  /\ \E r \in Malloc(heap, AllocSize(heap, layout, obj)) :
       IF r.ptr = Null
         THEN ok' = FALSE /\ UNCHANGED <<heap, pc, run>>
         ELSE /\ heap' = Put(r.heap, r.ptr, 0, AllocSize(heap, layout, obj))
              /\ run' = [at |-> r.ptr, field |-> 1, word |-> 1]
              /\ pc' = "serialize"
              /\ UNCHANGED ok
  /\ UNCHANGED <<layout, obj, buf, copy, short, fault>>

Serializing == pc = "serialize" /\ UNCHANGED <<layout, obj, buf, copy, pc, short, ok>>

SerializeCount ==
  /\ Serializing /\ Kinds("count")
  /\ Advance(0)
  /\ UNCHANGED <<heap, fault>>

SerializeScalar ==
  /\ Serializing /\ Kinds("scalar")
  /\ heap' = Put(heap, run.at, run.word, Field(heap, obj, run.field))
  /\ fault' = AccessFault(heap, run.at, run.word, 1)
  /\ Advance(1)

(* Mutants: the elements overwrite the count; memcpy's source and           *)
(* destination are swapped.                                                 *)
SerializeArrayOverCount ==
  /\ Serializing /\ Kinds("array")
  /\ LET n == Count(heap, obj, run.field)
         h == Put(heap, run.at, run.word, n)
     IN heap' = Move(h, run.at, run.word, Field(heap, obj, run.field), 0, n) /\ Advance(n)
  /\ UNCHANGED fault

SerializeArraySwapped ==
  /\ Serializing /\ Kinds("array")
  /\ LET n == Count(heap, obj, run.field)
         h == Put(heap, run.at, run.word, n)
     IN /\ heap' = Move(h, Field(heap, obj, run.field), 0, run.at, run.word + 1, n)
        /\ Advance(1 + n)
  /\ UNCHANGED fault

SerializeArray ==
  /\ Serializing /\ Kinds("array")
  /\ LET n == Count(heap, obj, run.field)
         h == Put(heap, run.at, run.word, n)
         p == Field(heap, obj, run.field)
     IN /\ heap' = Move(h, run.at, run.word + 1, p, 0, n)
        /\ fault' = IF AccessFault(heap, run.at, run.word, 1) # "none"
                      THEN "bounds"
                      ELSE MoveFault(h, run.at, run.word + 1, p, 0, n)
        /\ Advance(1 + n)

SerializeReturn ==
  /\ pc = "serialize" /\ run.field > Len(layout)
  /\ buf' = run.at
  /\ ok' = TRUE
  /\ pc' = "idle" /\ run' = Stopped
  /\ UNCHANGED <<heap, layout, obj, copy, short, fault>>

-----------------------------------------------------------------------------
(* deserialize_<struct>                                                     *)

(* The size is loaded from the buffer before the buffer is tested for NULL. *)
DeserializeNull ==
  /\ PassesNull
  /\ pc = "idle" /\ buf = Null /\ ~ok
  /\ fault' = "null"
  /\ UNCHANGED <<heap, layout, obj, buf, copy, pc, run, short, ok>>

DeserializeStart ==
  /\ pc = "idle" /\ buf # Null /\ copy = Null
  /\ \E r \in Malloc(heap, Len(layout)) :
       IF r.ptr = Null
         THEN ok' = FALSE /\ UNCHANGED <<heap, pc, run>>
         ELSE /\ heap' = r.heap
              /\ run' = [at |-> r.ptr, field |-> 1, word |-> 1]
              /\ pc' = "deserialize"
              /\ UNCHANGED ok
  /\ short' = FALSE
  /\ UNCHANGED <<layout, obj, buf, copy, fault>>

Deserializing == pc = "deserialize" /\ UNCHANGED <<layout, obj, buf, copy, pc, ok>>

DeserializeCount ==
  /\ Deserializing /\ Kinds("count")
  /\ Advance(0)
  /\ UNCHANGED <<heap, short, fault>>

DeserializeScalar ==
  /\ Deserializing /\ Kinds("scalar")
  /\ heap' = Move(heap, run.at, run.field - 1, buf, run.word, 1)
  /\ fault' = MoveFault(heap, run.at, run.field - 1, buf, run.word, 1)
  /\ Advance(1)
  /\ UNCHANGED short

(* Mutants: the field points into the buffer; the elements are counted but  *)
(* not the count.                                                           *)
DeserializeArrayShared ==
  /\ Deserializing /\ Kinds("array")
  /\ heap' = Put(Put(heap, run.at, run.field - 2, heap[buf][run.word]),
                 run.at, run.field - 1, buf)
  /\ Advance(1 + heap[buf][run.word])
  /\ UNCHANGED <<short, fault>>

DeserializeArrayNoCount ==
  /\ Deserializing /\ Kinds("array")
  /\ \E r \in Malloc(heap, heap[buf][run.word]) :
       LET n == heap[buf][run.word]
           h == Put(Put(r.heap, run.at, run.field - 2, n), run.at, run.field - 1, r.ptr)
       IN /\ r.ptr # Null
          /\ heap' = Move(h, r.ptr, 0, buf, run.word + 1, n)
          /\ fault' = MoveFault(h, r.ptr, 0, buf, run.word + 1, n)
          /\ Advance(n)
  /\ UNCHANGED short

(* The count is stored, then memory allocated.  When that fails nothing has *)
(* been read (0 is returned): the field's pointer is never stored, and the  *)
(* next field is read from this one's count on.                             *)
DeserializeArray ==
  /\ Deserializing /\ Kinds("array")
  /\ IF AccessFault(heap, buf, run.word, 1) # "none"
       THEN fault' = "bounds" /\ UNCHANGED <<heap, run, short>>
       ELSE LET n == Slots(heap[buf][run.word])
                counted == Put(heap, run.at, run.field - 2, heap[buf][run.word])
            IN \E r \in Malloc(counted, n) :
                 IF r.ptr = Null
                   THEN /\ heap' = counted
                        /\ short' = TRUE
                        /\ Advance(0)
                        /\ UNCHANGED fault
                   ELSE /\ heap' = Put(Move(r.heap, r.ptr, 0, buf, run.word + 1, n),
                                       run.at, run.field - 1, r.ptr)
                        /\ fault' = MoveFault(r.heap, r.ptr, 0, buf, run.word + 1, n)
                        /\ Advance(1 + n)
                        /\ UNCHANGED short

(* Mutants: the sizes are not compared; the comparison is inverted.         *)
DeserializeReturnUnchecked ==
  /\ pc = "deserialize" /\ run.field > Len(layout)
  /\ copy' = run.at
  /\ ok' = TRUE
  /\ pc' = "idle" /\ run' = Stopped
  /\ UNCHANGED <<heap, layout, obj, buf, short, fault>>

DeserializeReturnInverted ==
  /\ pc = "deserialize" /\ run.field > Len(layout)
  /\ IF heap[buf][0] # AllocSize(heap, layout, run.at)
       THEN copy' = run.at /\ ok' = TRUE
       ELSE copy' = copy /\ ok' = FALSE
  /\ pc' = "idle" /\ run' = Stopped
  /\ UNCHANGED <<heap, layout, obj, buf, short, fault>>

(* The object is returned if the size of its fields is the size the buffer  *)
(* says it has; otherwise it is dropped, with the arrays it has.            *)
DeserializeReturn ==
  /\ pc = "deserialize" /\ run.field > Len(layout)
  /\ IF heap[buf][0] = AllocSize(heap, layout, run.at)
       THEN copy' = run.at /\ ok' = TRUE
       ELSE copy' = copy /\ ok' = FALSE
  /\ pc' = "idle" /\ run' = Stopped
  /\ UNCHANGED <<heap, layout, obj, buf, short, fault>>

-----------------------------------------------------------------------------
(* The client                                                               *)

FreeBuffer ==
  /\ pc = "idle" /\ buf # Null
  /\ heap' = Free(heap, buf)
  /\ buf' = Null /\ ok' = TRUE
  /\ UNCHANGED <<layout, obj, copy, pc, run, short, fault>>

(* destroy_<struct> of the copy.  A pointer that was never stored is any    *)
(* address: freeing it is undefined.                                        *)
DestroyCopy ==
  /\ pc = "idle" /\ copy # Null
  /\ IF Uninit \in ArraysOf(heap, layout, copy)
       THEN fault' = "dangling" /\ UNCHANGED <<heap, copy, ok>>
       ELSE /\ heap' = [a \in Addr |->
                          IF a \in BlocksOf(heap, layout, copy) THEN Freed ELSE heap[a]]
            /\ copy' = Null /\ ok' = TRUE
            /\ UNCHANGED fault
  /\ UNCHANGED <<layout, obj, buf, pc, run, short>>

-----------------------------------------------------------------------------
(* The client's object, as the accessors leave it: an array that was never  *)
(* set is NULL and has count 0, one that was set has a block.  Where its    *)
(* blocks are makes no difference: one placement stands for all.            *)
At(l) == CHOOSE at \in Injection({0} \cup Pointers(l), Addr) : TRUE

Array == UNION {[0..(n - 1) -> Word] : n \in ArrayLen}

ObjectBlock(l, in, kept, words) ==
  [k \in 0..(Len(l) - 1) |->
     LET i == k + 1 IN
     CASE l[i] = "count"  -> IF i + 1 \in kept THEN Cardinality(DOMAIN in[i + 1]) ELSE 0
       [] l[i] = "scalar" -> words[i]
       [] OTHER           -> IF i \in kept THEN At(l)[i] ELSE Null]

Init ==
  /\ layout \in Layouts
  /\ obj = At(layout)[0]
  /\ \E kept \in SUBSET Pointers(layout),
        words \in [{i \in DOMAIN layout : layout[i] = "scalar"} -> Word] :
     \E in \in [kept -> Array] :
       heap = [a \in Addr |->
                 IF a = obj THEN ObjectBlock(layout, in, kept, words)
                 ELSE IF \E i \in kept : At(layout)[i] = a
                      THEN in[CHOOSE i \in kept : At(layout)[i] = a]
                      ELSE Freed]
  /\ buf = Null /\ copy = Null
  /\ pc = "idle" /\ run = Stopped
  /\ short = FALSE /\ ok = TRUE /\ fault = "none"

(* Nothing runs after undefined behaviour.                                  *)
Next ==
  /\ fault = "none"
  /\ \/ SerializeStart
     \/ SerializeCount \/ SerializeScalar \/ SerializeArray
     \/ SerializeReturn
     \/ DeserializeNull \/ DeserializeStart
     \/ DeserializeCount \/ DeserializeScalar \/ DeserializeArray
     \/ DeserializeReturn
     \/ FreeBuffer \/ DestroyCopy

Spec == Init /\ [][Next]_vars

-----------------------------------------------------------------------------
(* Properties                                                               *)

(* The variables keep their types, and the position in the buffer stays     *)
(* within its size.                                                         *)
TypeOK ==
  /\ \A a \in Addr : \/ heap[a] = Freed
                     \/ \E n \in 0..(SlotMod - 1) : heap[a] \in [0..(n - 1) -> Cell]
  /\ layout \in Layouts
  /\ obj \in Addr /\ buf \in Addr \cup {Null} /\ copy \in Addr \cup {Null}
  /\ pc \in {"idle", "serialize", "deserialize"}
  /\ run.at \in Addr \cup {Null} /\ run.field \in 0..(Len(layout) + 1)
  /\ run.word \in 0..AllocSize(heap, layout, obj)
  /\ short \in BOOLEAN /\ ok \in BOOLEAN
  /\ fault \in {"none", "null", "bounds", "dangling"}

(* No call meets undefined behaviour.                                       *)
NoFault == fault = "none"

(* What deserialize returns holds what was serialized, arrays included.     *)
RoundTrip == copy # Null => Contents(heap, layout, copy) = Contents(heap, layout, obj)

(* A finished buffer is the size header and the fields, each word written,  *)
(* and nothing else: the size computed before the fields were visited is    *)
(* the number of words they wrote.                                          *)
BufferWhole ==
  buf # Null =>
    LET image == Image(heap, layout, obj)
    IN heap[buf] = [k \in 0..(Len(image) - 1) |-> image[k + 1]]

ObjectBlocks == {obj} \cup ({Field(heap, obj, i) : i \in Pointers(layout)} \ {Null})

(* The blocks of a call that is running: its own and, in deserialize, those *)
(* of the fields it has finished.                                           *)
Running ==
  IF pc = "idle" THEN {}
  ELSE {run.at} \cup
         IF pc = "serialize" THEN {}
         ELSE {Field(heap, run.at, i) : i \in {k \in DOMAIN layout :
                                                 layout[k] = "array" /\ k < run.field}}

Leaked ==
  Allocated(heap) \ (ObjectBlocks \cup {buf} \cup BlocksOf(heap, layout, copy) \cup Running)

(* Every block is reachable from the object, the buffer, the copy or the    *)
(* call that is running.                                                    *)
NoLeak == Leaked = {}

(* The object, the buffer and the copy share no block, and no two arrays of *)
(* the copy are one: each can be freed on its own.                          *)
Separate ==
  LET copied == BlocksOf(heap, layout, copy) IN
  /\ (ObjectBlocks \cup {buf}) \cap copied = {}
  /\ buf \notin ObjectBlocks
  /\ \A i, j \in {k \in DOMAIN layout : layout[k] = "array"} :
       copy # Null /\ i # j => \/ Field(heap, copy, i) = Null
                               \/ Field(heap, copy, i) # Field(heap, copy, j)

(* No call changes the object it serializes, whether it succeeds or fails:  *)
(* the serializer's argument is declared read-only.                         *)
ObjectUntouched == [][\A a \in ObjectBlocks : heap'[a] = heap[a]]_vars

(* Memory is lost only by a deserialize that returns NULL because the size  *)
(* is wrong, and the size is wrong only if malloc failed for an array.      *)
LeakOnlyWhenSizeWrong ==
  [][Leaked' \subseteq Leaked \/ (pc = "deserialize" /\ pc' = "idle" /\ ~ok' /\ short)]_vars

(* Undefined behaviour starts at a NULL buffer, or after malloc failed for  *)
(* an array of deserialize; in particular serialize never meets it.         *)
FaultsKnown ==
  [][fault' # "none" => (pc = "idle" /\ buf = Null) \/ short]_vars

(* Unless malloc failed for an array, the copy holds what was serialized.   *)
RoundTripUnlessShort == ~short => RoundTrip

(* The copy would serialize to a buffer as large as the object's, even if   *)
(* an array was lost on the way.                                            *)
SizesAgree ==
  copy # Null => AllocSize(heap, layout, copy) = AllocSize(heap, layout, obj)

(* "If the function returns a pointer, it will be NULL on failure"          *)
(* (README.md 41): what deserialize returns has no field that was not read. *)
NoGarbage == copy # Null => Uninit \notin ArraysOf(heap, layout, copy)
=============================================================================
