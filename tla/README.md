# A TLA+ development of tyr

tyr compiles a struct description (`.tyr`) into LLVM IR: a type per struct and
the functions that create, destroy, read, write, serialize and deserialize it.
The compiler is sequential, and so is every function it generates. What is hard
here is the **generated memory management**: arrays of varying length behind raw
pointers, with a separate count, whose allocator may fail at every call, used by a
client in any order of calls. That is the core of this development. Around it are the compiler
as a whole, whose stages fail one by one and leave files behind, and the small
runtime, whose files outlive processes.

Paths below are relative to the repository; `LLVMIRGenPass.cpp` is
`lib/compiler/CodeGen/LLVMIRGen/LLVMIRGenPass.cpp`.

## 1. Inventory

| Component | State | Operations | What makes it correct |
|---|---|---|---|
| **Generated accessors** (emitted by `LLVMIRGenPass.cpp`) | the struct's count and array fields, the heap | `create_S`, `destroy_S`, `get_S_f`, `get_S_f_item`, `set_S_f`, `set_S_f_item`, `set_S_f_count` | one owner per block; the count is the length of the block; a call that fails changes nothing; no leak; arrays that were lent stay until the client changes them |
| **Generated serializers** (same pass) | a byte buffer with a size header | `serialize_S`, `deserialize_S`, one private function per field | the round trip is the identity; a bad buffer or a failed allocation gives NULL and loses no memory |
| **Allocator** (external; `README.md` 66-69, `doc/OverridingBuiltins.md`) | the heap | `malloc`, `realloc`, `free`, replaceable by name | assumed |
| **Parser** (`Parser.cpp`) | inside a comment, current struct | `parseFile`, `parseLine`, `addField` | what is accepted is what was written; errors are reported |
| **Tyr IR** (`IR.cpp`) | fields of a struct, offsets | `addField`, `addRepeatedField`, `finalizeFields` | a count precedes its array; offsets follow the LLVM type |
| **Module** (`CodeGen/Module.cpp`) | struct table, builtin names, LLVM module | `getOrCreateStruct`, `parseType`, `visit`, `finalizeBuiltins`, `linkRuntimeModules` | a function is generated before it is looked up |
| **PassManager, passes** (`PassManager.cpp`, `IR/Pass.hpp`) | list of passes | `registerPass`, `runOnModule` | every pass runs; failures reach the exit code |
| **Front end** (`tools/tyrc/Frontend.cpp`) | options | `main` | the stages in order, an exit code each |
| **Object/LLVM output passes** | target machine | `runOnModule` | the data layout the code was generated for is the target's |
| **C and Rust binding passes** | output file | `runOnModule` | the header declares what was generated |
| **Runtime** (`FileHelper.c`, `Base64.c`) | a file, streams, buffers | save and load a serialized struct, encode and decode it | round trip, over restarts; failure reported; nothing lost but by failure |
| `UnifyFnAttrs`, tests, examples, build | - | - | - |

How they interact: the front end sets up the module and runs the parser, which
fills the module's struct table; the pass manager lets each pass visit every field
and struct. `LLVMIRGenPass` comes first and emits the functions; an output pass
writes them; the binding pass writes the header. At run time the client calls the
generated functions, these call the allocator, and the runtime helpers call the
generated serializers through function pointers. There are no threads and no
callbacks into the client. The hard behaviours are partial failure (each allocation,
each library call, each pass), the order of the client's calls, stale pointers after a
reallocation, sizes at a boundary, and files that are read after the process that
wrote them failed, exited or died. `PROJECT.json` lists
each such hazard at its line, covered or not.

## 2. Plan

Done:

1. **Accessors** over **Heap**: the memory management of array fields, its
   abstract contract **FieldContract**, and the refinement.
2. **Serialization**.
3. **Parser** with the struct table, against a reader of `doc/Syntax.md`.
4. **Compiler** over **Parser**: the front end, the linking of the runtime, the pass
   manager and its passes, the names and types of what is generated against the
   header, struct sizes and data layouts.
5. **Base64** and **Runtime**: files and texts, processes that exit and crash.
6. Proofs: `HeapProofs`, `AccessorsProofs`, `AccessorsStepProofs`, `AccessorsContractProofs`
   (with the refinement), `SerializationProofs`, `ParserProofs`, `CompilerProofs`,
   `RuntimeProofs`: all that section 5 lists.

Every invariant and action property of the passing runs is proved. Left: the accessors
of scalar fields, and packed structs in `Serialization`, with alignment.

## 3. Modules

| Module | What it is |
|---|---|
| `Heap` | the allocator: each call as the set of its outcomes, and what faults |
| `Accessors` | the generated functions of a struct of array fields, one action per function and outcome; properties |
| `FieldContract` | what the client is promised, without memory: what each call does with the arguments it was passed |
| `MCAccessors` | symmetry set for TLC |
| `Serialization` | `serialize_S` and `deserialize_S`, one action per private field function; properties |
| `MCSerialization` | the layouts TLC checks |
| `Parser` | `parseFile`, `parseLine` and the struct table; a reader of the documentation; properties |
| `MCParser` | the lines TLC builds files of |
| `HeapProofs` | lemmas on the heap operators |
| `AccessorsProofs` | types and ownership in `Accessors` |
| `AccessorsStepProofs` | what a step of `Accessors` may do, with any allocator that does not free on `realloc(p, 0)` |
| `AccessorsContractProofs` | `Accessors` with an allocator that does not fail, and its refinement of `FieldContract` |
| `SerializationProofs` | theorems about `Serialization`, and lemmas on sums and sequences |
| `ParserProofs` | theorems about `Parser` |
| `Compiler` | extends `Parser`: `main`, linking, the passes, what they name and write; properties, one of them liveness |
| `MCCompiler` | lines and command lines for TLC |
| `Base64` | encoder and decoder as functions of bytes; RFC 4648 as the reference |
| `Runtime` | extends `Base64`: the file helpers and the text functions, one action per library call and outcome; exits and crashes; properties |
| `MCRuntime` | objects and memory contents for TLC |
| `RuntimeProofs` | theorems about `Runtime` and, for the texts, lemmas about `Base64` |
| `CompilerProofs` | extends `ParserProofs`: theorems about `Compiler`, lemmas on its table, sizes and signatures |

### Correspondence: `Accessors`

One generated function is one action, since nothing runs between its
instructions. `heap` is the allocator's memory; the struct's own block is in it
as one opaque cell, its fields are the variables `count` and `ptr`; `self` is the
pointer the client holds. `copies` are the arrays a client received from the
getter of an immutable field, which it must free. `call` records function, field,
arguments, returned `bool` and the cell that was read; the argument is that of a call
which returned true, since nothing may depend on one that did nothing. `fault` records undefined behaviour: a load
or store out of a block or through a freed or null pointer, `realloc` or `free` of a
freed pointer. After a fault nothing runs.

| Action | Code (`LLVMIRGenPass.cpp`) |
|---|---|
| `CreateOk`, `CreateFails`, `CreateFailsHalfway` | `getConstructor` 960-1023 with `initField` 222-267: mutable fields 0/NULL, immutable ones copied; a failing `malloc` returns NULL where it is |
| `Destroy` | `getDestructor` 1025-1060, `destroyField` 269-284 |
| `GetLent`, `GetCopy` | `getGetter` 286-372: lend (366-371) or copy (346-364) |
| `GetItem`, `SetItem` | 374-444, 652-723: `idx < count`, then the access |
| `Set` = `SetFirst`, `SetInPlace`, `SetResized` | `getSetter` 518-596: field NULL, same count, other count |
| `SetLent` | the same (549-596), when the array passed is the field's own, as `get` lent it: the copy reads the block that `realloc` may have moved |
| `SetCount` = `SetCountZero`, `SetCountNonZero` | `getSetter` 597-643 |
| `CallOnNull` | the NULL checks of all of them (`insertNullCheck` 30-57) |
| `FreeCopy` | the client (external) |

`Callable` is which of them exist and which the C header declares
(`CCodegenPass.cpp` 128-163): the header omits the count setter and the item setter
of immutable fields, which are in the object file all the same. A run says with
`Exposed` which of those its client calls. Count fields of immutable arrays have a
getter only.

Abstractions. A cell is an element (of any type); a block is an array of cells;
`SlotMod` is 2^64 divided by the element size, so that `Slots(n)` is the 64-bit
product of `getFieldAllocSize`. Lengths an array can really have are below
`SlotMod` (`ArrayLen`): no array of more elements exists for a client to pass.
Addresses are opaque, so any placement by the allocator is covered. Scalar fields
(a single store and load) are left out. Arrays follow their counts, as they do in structs
of at most 16 entries, for which `std::sort` keeps equal sizes in order; beyond, see
the hazard at `IR.cpp:101`. `PassesLent` says whether
the client passes a field's own array back to `set`; the out pointer is valid. `destroy` of a whole object is one step, its double frees computed by
`DoubleFree` (a field pointing to a freed block, to the struct, or to another field's
block).

### Correspondence: `Serialization`

A struct is a sequence of field kinds, `layout`, in the order `finalizeFields` leaves
them; `WellFormed` says that an array follows its count. Its block is in `heap`, with
one cell per field, so that loads and stores of `serialize_S` and `deserialize_S`
are accesses to it. `obj` is the client's object, `buf` the buffer and `copy` the
object it was given. A step is one private function, so a `malloc` that fails in
one of them is followed by the functions of the next fields, as in the code:
`run` is the struct function's local state, the block it fills, the field it is at
and its offset in the buffer (`CurrentIDX`).

| Action | Code (`LLVMIRGenPass.cpp`) |
|---|---|
| `SerializeStart`, `SerializeReturn` | `getSerializer(Struct)` 1085-1136: `AllocSize`, the header |
| `SerializeCount`, `DeserializeCount` | counts are skipped (1125, 1206) |
| `SerializeScalar`, `SerializeArray` | `getSerializer(Field)` 799-835 |
| `DeserializeStart`, `DeserializeReturn`, `DeserializeNull` | `getDeserializer(Struct)` 1171-1241: the header is loaded before the NULL test; the size check |
| `DeserializeScalar`, `DeserializeArray` | `getDeserializer(Field)` 897-949 |
| `FreeBuffer`, `DestroyCopy` | the client; `destroy_S` of the copy |

Memory is counted in words of 8 bytes, so a header, a count, a scalar, an
element and a pointer have one size; what the sizes decide (the size check, what
a misplaced read finds) is kept, alignment is not. `Slots` is the 64-bit product of
`getFieldAllocSize` (204-220): it matters for a word of data that is read as a count
after an array was lost. `Fits` is what having an object in memory means: the sum of its
sizes does not wrap, and there are addresses for its blocks. `short` is auxiliary: an array
was not allocated in the last `deserialize_S`. There are no struct fields: no module
is generated for a struct that has one (`Compiler`, `GenerationFault`).

### Correspondence: `Parser`

A line is its comment marks (`starts`, `ends`, `middle`) and its words; the tests of
`parseFile` (37-66) are the guards of `SkipLine`, `OpenComment`, `CloseComment`,
`InlineComment` and `Text`, and `ParseLine` chooses between `OpenStruct`,
`CloseStruct` and `AddField` (`parseLine` 102-147). `structs` is `m_module_structs_`;
a struct's `version` counts its LLVM types, 0 for the null type it has while it is
open, and a field of a struct type remembers the version it was given. Repeated fields
add two entries (`IR.cpp` 54-90), and closing sorts them by size (99-106) with
`std::sort`, which is stable only while it is an insertion sort: for up to 16 elements
in libstdc++, `StableUpTo` in the model. `SortBySize` is the set of what it may leave. Up to
`StableUpTo` fields that is one sequence, with each field at its `Rank`, the number of
fields `Before` it, smaller ones and equal ones that were added earlier; beyond, it is
every sequence sorted by size (`Places`). Words past the end of a
line and members of a null struct are undefined behaviour (`fault`). `doc` is
auxiliary: what a reader of `doc/Syntax.md` knows after the same lines; at the first
line the documentation does not describe, `known` becomes FALSE and stays so.

### Correspondence: `Compiler`

`Compiler` extends `Parser`, so that every file the parser accepts is what the passes
get. A step is a stage of `main`, a struct visited by `LLVMIRGenPass`, or a pass.

| Action | Code |
|---|---|
| `BadFileName`, `CannotOpen`, `OpenFile`, `ParseStep`, `ParsingFailed`, `RegisterPasses` | `main` (`Frontend.cpp` 129-202) |
| `LinkRuntime`, `LinkFails`, `LinkMissing` | `linkRuntimeModules` (`Module.cpp` 207-246), `main` 204-208; `getModuleFromFile` 183-204 returns null, and null is linked |
| `VisitStruct`, `GenerationDone` | `Module::visit` (103-124) of `LLVMIRGenPass`: one struct with its fields, in any order of the structs; then the module |
| `ObjectPass`, `ObjectBroken` | `ObjectCodegenPass.cpp` 54-120: target, data layout, file |
| `BitcodePass`, `BitcodeBroken` | `LLVMCodegenPass.cpp` 51-113: the same, the file opened last |
| `BindingPass`, `HeaderBroken`, `BuildFileBroken` | `CCodegenPass.cpp` 71-209, `RustCodegenPass.cpp` 41-161 |
| `Return` | `main` 210-215 |

A function is a name (verb, struct, version of its LLVM type, field, suffix) and its
parameter types after the struct pointer; `FieldFunctions`, `Constructor` and
`StructFunctions` are what `LLVMIRGenPass` inserts, `HeaderFunctions` what the header
declares, each from the fields by its own rules. `GenerationFault` is where
generation runs into undefined behaviour: a struct or a field without an LLVM type
(`NoParent`), a struct field (`PointerCast`: its accessors ask a *pointer* type for its
struct's name: lines 331, 339, 504, 512, 787, 888), two functions of one name and different types
(`cast<Function>` of a cast), a function looked up that was not made. LLVM asserts
some of these; in a build without assertions they are undefined, so the model stops.
`dl` is where the module's data layout comes from: LLVM's default until the linker
takes over the runtime's or the output pass sets the target's; `StructSize` is
`getTypeAllocSize` under it. `parseType` accepts integers of any width (`Module.cpp`
152-160). LLVM's default layout aligns all of more than 32 bits (`Wide`) to 4 bytes, those
of other than 64 bits because they fall back to the entry of i64; the layouts of 64-bit targets
align those of up to 64 bits to 8 bytes and longer ones to 8 or 16, each layout by
itself (`LongAlign`). `SizeOf` is a type's size under the default layout. A stream of LLVM that could not be written ends the
process with code 1 when it is destroyed; the binding passes ignore the error of
opening their file and meet that end. A file is missing, torn or whole. The command
line is drawn from `Options` when it is first looked at.

### Correspondence: `Runtime` and `Base64`

One file, objects of one struct type, one process at a time. A save goes from call to
call (`SaveOpens`, `SaveSerializes`, `SaveWrites`, `SaveReturns` and their failures;
`FileHelper.c` 31-59), so that a `Crash` may come between any two; a load
(61-89), an encoding and a decoding (`Base64.c` 58-162) change neither file nor
memory in between and are one step each. `stream` is what `fwrite` took and has not
written (`pending`) and where it will write it; a stream left open is in `leaked`,
and `ExitProcess` writes what those hold back, where it belongs, whoever wrote there
since. `lost` counts the blocks nobody has a pointer to, with who lost them. A
serializer or deserializer is a call that succeeds or returns NULL (`Serialization`
has them in detail); the deserializer fails for want of memory, or because the
length is not that of the struct. `custom` is a client whose generated code was
given other names for `malloc` and `free`. Objects have fewer than 200 bytes, so that the
64-bit length in front of them is one byte and seven zeros. `FileHelper.c` frees the serializer's block
with the C library's `free`. `kept`, `failed` are auxiliary: what a completed save put
in the file, and whether a library call failed in this process.

`Base64` translates the encoder and the decoder over bytes, `CharToIndex` by inverting
`IndexToChar`. What lies behind the serializer's block, which the encoder reads, is one of
`Foreign`. `Rfc4648` is the reference, from the RFC's bits, not from the code.

## 4. Runs

| Run | Instance | What it shows |
|---|---|---|
| `accessors_healthy` | two mutable and one immutable field, 5 addresses, lengths {0,2}, `set_count` to {0,1}, no failures, `malloc(0)`/`realloc(p,0)` hand out a block; the client also uses the functions the header omits | `TypeOK`, counts fit (`AllFit`), no undefined behaviour, no leak, lent arrays stay (`BorrowStable`), copies are faithful and independent (`CopyFaithful`), and the code implements `FieldContract`: what was passed to a call that returned true is what the object holds (`ImplementsContract`) |
| `accessors_failing` | one mutable and one immutable field, 4 addresses, lengths 0..2, `set_count` to {0,1,3,4,5} where 4 elements fill the size range, each allocation may fail, `malloc(0)` may give NULL, `realloc(p,0)` may fail; calls with NULL and with the field's own array included | what survives: `Ownership`; array contents of a failed call; `set_count` is all or nothing; a count is wrong only after a failed `set` or a size that wrapped (`MisfitNeedsCause`); undefined behaviour only from such a count, a NULL struct or a lent array that moved (`FaultNeedsCause`); `set_count` repairs a wrong count; memory is lost only by a `create` that fails; immutable arrays stay |
| `set_fails` (violated) | as `accessors_failing` | finding 1 |
| `serialize_healthy` | layouts scalar-count-array and two arrays, 7 addresses, lengths 0..2, no failures; `FreeBuffer` and `DestroyCopy` in any order, again and again | no undefined behaviour; the buffer is the header and the fields and nothing else (`BufferWhole`); the copy holds what was serialized (`RoundTrip`) and shares no memory with object or buffer (`Separate`); no leak |
| `serialize_failing` | two arrays, and two arrays with a scalar between them; any `malloc` may fail; NULL buffers are passed on | the object never changes; the copy has the object's size even if an array was lost; contents are right unless an array was lost; memory is lost only when the size check fails after that; undefined behaviour comes only from a NULL buffer or such a loss |
| `deserialize_garbage` (violated) | as `serialize_healthy`, `malloc` may fail | finding 2 |
| `parser` | files of up to 7 lines out of 26: nine blank, text and comment lines, eleven lines of the documented forms, and six lines that are not documented; two structs | a documented file is parsed to what it says (`Faithful`); arrays follow their counts, also after sorting and in structs that were opened again (`CountFirst`); no struct contains itself unless one was opened again (`Acyclic`) |
| `parser_packed` (violated) | the same | finding 3 |
| `compiler` | files of up to 6 lines of one or two structs with integers of 8, 40 and 72 bits and arrays, five command lines (object or bitcode, a CPU, a GPU or an unknown target, with and without runtime modules, C and Rust); every stage may fail | a header declares functions the module has, with their types (`HeaderMatches`); documented input is compiled in any order of the structs (`PlainCompiles`); the exit code tells what is on the disk (`ExitTruthful`); sizes are too small only for a last field of more than 32 bits, with a runtime module only of more than 64 (`ShortOnlyUnlinked`); the program ends (`CompilerEnds`) |
| `struct_fits` (violated) | one struct of two integers | finding 4 |
| `runtime` | objects of one to three bytes, writes that stop after 0, 5 or 9 bytes or at the end, two contents behind the block; any library call fails, exits and crashes at any time | what a completed save stored is loaded, over exits and crashes (`SavedIsLoaded`); what was encoded is decoded, and the text is Base64 whatever lies behind the block (`Base64RoundTrip`); streams and blocks are lost by failure only, but for the encoder's (`LostOnlyByFailure`); a file never grows beyond one object (`RTypeOK`) |
| `base64_text` (violated) | the same | finding 5 |

Bounds. Three fields are the fewest for two mutable arrays to be confused and an
immutable one to be present; the addresses suffice for the struct, the arrays, one
copy and a vacant place to move to (with fewer, `realloc` could never move).
Lengths cover empty, one and more than one element, growth and shrinkage, an
index at and beyond the end, and (`set_count` to 4 and 5) sizes that wrap to nothing and
to less. `MaxCopies` = 1 bounds the client's copies only. Two
values tell overwritten cells from old ones. Addresses, values and mutable fields
are symmetric: nothing compares them but by equality.

Serialization: 7 addresses hold the object with two arrays, the buffer, and a copy
with its arrays; with two arrays one can fail to be allocated and the next be read
from the wrong place, and a scalar between them makes a word of data a count.
Words are 1 and 2, which are also lengths. The object is one of all that the accessors
can leave (each array never set, empty or of any contents), at one placement, since
addresses are only compared. Parser: five lines declare a struct that
uses another, and seven open one of them again or put comments in between; the
second builtin type has the size of a count, so that both orders of sorting occur.
`MaxLines` bounds the file, not the table. `StableUpTo` is 16, as in the library, and no
struct of these files has more fields: the orders that a longer one may come in are too
many to enumerate. What the theorems say of longer structs they say for any `StableUpTo`.

Compiler: six lines hold a struct that another uses, two fields of one name, or a struct
that is opened again; the types are integers of each class that the layouts tell apart, of up to 32 bits, up to 64 and
more, and the pointers of arrays are 8 bytes and no integer; three fields show how a field
catches up what the one before it lost. Packed structs, which no documented line opens
(finding 3), are left to the theorem. Runtime: one to three bytes give every rest modulo 3 and
texts with every class of character; 5 and 9 stop a write in the header and behind
it. `MaxOpen` bounds the streams a process may have open and `MaxLost` the blocks it
may have lost before another call starts; a third failure differs from a second
in nothing that is modelled.

`CHECK_DEADLOCK FALSE` is set where the system stops: `compiler` and `struct_fits` at
an exit code, `parser` and `parser_packed` at the end of the file, and all but
`accessors_healthy` and `serialize_healthy` after undefined behaviour, or when leaks have
exhausted memory or `MaxOpen`.

Fairness. `CSpec` assumes `WF_cvars(CNext)`: the compiler is one thread that waits for
nothing, so as long as it can take a step it takes one. No fairness is assumed of a
single action, hence none of an outcome: every pass may fail whenever it fails in
the code. Under it `CompilerEnds` says that `main` reaches an exit code (or undefined
behaviour); it holds because every file ends and each pass leaves the list, whatever
it returned. The generated code and the runtime are libraries: a client need never
call again, so no fairness is assumed there and no liveness claimed.

## 5. Proofs

Every theorem holds for all values of the constants that their assumptions admit: any
number of fields, addresses and values, arrays and files of any length, any layout, and every
outcome of the allocator that the constants allow. Two limits: `ArraysFollowCounts` and
`HeadersMatch` promise something of structs of at most `StableUpTo` fields only, and the
theorems about `Runtime` are about objects of fewer than 200 bytes. The run that checks the same property on a small
instance is in section 4.

Hypotheses. `NoFreeingRealloc` (`AccessorsStepProofs`, `OwnershipHolds`): no size comes
out as 0 where `realloc` frees on 0. Without it `set` to length 0 takes the NULL for a
failure that kept the block, and the field keeps a freed pointer. `Reliable` of
`AccessorsContractProofs`: no allocation is refused, `realloc` does not free, `set_count`
is called with lengths whose size does not wrap, and NULL and lent arrays are not passed
where the code does not look. `Reliable` of `SerializationProofs`: `malloc` never fails and
`malloc(0)` is not NULL. Each is what a healthy run instantiates, and the theorems
that do without say what is left when it fails. Of the constants
nothing else is assumed than `HeapAssumption`, `AccessorsAssumption`, `ContractAssumption`,
`SerializationAssumption`, `ParserAssumption`, `CompilerAssumption`, `NameAssumption` and
`RuntimeAssumption`, which TLC evaluates on every run of the module. `NameAssumption` is
what appending to a string means: `x_item`, `x_count` and `x` are three names. The provers
know nothing of the characters of a string.

### `AccessorsProofs`

- `TypeCorrect`: `TypeOK`. `TypeStep` takes one step per action; the heap lemmas
  (`MallocOutcome`, `CopyInOutcome`, `ReallocType`) say what the allocator returns.
- `OwnershipHolds`: `Ownership`. The inductive invariant is `TypeOK /\ Owned`;
  `Owned` is `Ownership` stated field by field (`OwnedIsOwnership`), which is what
  the provers need to follow one pointer through `EXCEPT`. The steps reduce to three
  lemmas: nothing that was live is freed (`OwnedKept`); one field moves to a vacant
  or its own address (`OwnedMoved`, used by `OwnedSet` for every setter through
  `OwnedRealloc`); a vacant block becomes a client's copy (`OwnedCopied`).

### `AccessorsStepProofs`

The action properties. They are about one step and hold in states of
`Inv == TypeOK /\ Owned`: without ownership a call on one field could move another's
array. `Effect` is a list of the ways a call may change memory (an object was made or
not, destroyed, a copy given or freed, cells of one block written, one array moved,
nothing moved); `StepEffect` shows of every action that it is one of them, and each property is then
derived from the list: `FailedCallsKeepArrays`, `SetCountIsAtomic`, `SetCountDoesRepair`,
`MisfitHasCause`, `BorrowsAreStable`, `OnlyFailedCreateLeaks`, `CopiesAreFaithful`,
`FaultHasCause`. `ImmutablesAreStable` needs that the client does not call the item setter
of an immutable array, which the header does not declare.

### `AccessorsContractProofs`

`FieldsFit`, `NothingFaults` and `NothingLeaks` are one invariant, `Healthy == AllFit /\
NoFault /\ NoLeak`, inductive with `Inv`: an access is in bounds because the count fits,
and it fits because no `set` returned false half way. `ContractImplemented` is the
refinement of `FieldContract` under the mapping that reads an array's contents out of the
heap: each accessor is a step of the contract with the same arguments, or leaves what the
contract sees as it was. A `set` that returns true has stored the array it was passed, in
place or in a new block (`SetRefines`); the contents do not depend
on where `realloc` puts the block.

### `SerializationProofs`

The invariant is `SInv == Types /\ RunPlaced /\ Object /\ BufferInv /\ CopyInv /\
SerializeInv /\ DeserializeInv`. Its core says how far a running call is: the fields
before the current one are in the buffer, each at the place where it begins
(`Filled`), or have been read out of it into blocks of their own (`Copied`, `Same`, `Apart`);
the position is the sum of their sizes. `StepShows` has one lemma per action. With
any allocator: `ObjectIsUntouched`, `BuffersAreWhole`, `SizesDoAgree`,
`RoundTripsUnlessShort`, `LeaksAreKnown`, `FaultsAreKnown`. Under `Reliable`, with
`FullInv == SInv /\ short = FALSE /\ Leaked = {}`: `TypeCorrect`, `RoundTrips`,
`CopiesAreSeparate`, `NothingLeaks` and, for a client that hands no NULL on,
`NothingFaults`.

The sizes are sums over sequences of any length, and `BufferWhole` flattens one. Both
are recursive functions of the community modules. The proofs use their defining equations (`TotalUnfolds`,
`TotalNext`, `FlattenUnfolds`) and `SetInduction`, which is induction for a set of
naturals, derived from the least element of what is missing; the library's own
induction theorems take an operator, which the provers cannot instantiate.

### `ParserProofs`

- `TypeCorrect`: `TypeOK`, with every field's type one that the module knows.
- `ArraysFollowCounts`: `CountFirst`, for structs of at most `StableUpTo` fields: beyond,
  the order of a count and its array is the library's. Up to there the sort is a permutation by `Rank`
  (`RankIsOneToOne` and the lemmas around it), under which two neighbours of one size
  stay neighbours, and an array has the size of its count, both being 8 bytes.
- `NoCycles`: `Acyclic`. `AcyclicInv` adds that a struct's fields are of
  structs that were closed before, so that a struct opened once lies above those it uses.
- `ParsesAsDocumented`: `Faithful`. `DocShape` says what the reader of the
  documentation can have seen, and `Tracks` that parser and reader `Agree` on structs,
  fields, comments and the struct that is open.

### `CompilerProofs`

- `ExitCodeTruthful`: `ExitTruthful`. `ExitInvariant` tells for each stage what was
  written and what `retval` is; the passes are in one order, so how far they are
  is told by those that are left (`Underway`).
- `HeadersMatch`: `HeaderMatches`. The two passes go through the fields by rules of their
  own, so the proof relates them, for structs of at most `StableUpTo` fields. `TableInv`
  says of the parser's structs that there every array is led by its count (`Led`) and that, once closed, fields are sorted by
  size, and that a field of a struct type remembers a version that struct had.
  `Generated` says how far `LLVMIRGenPass` is: whatever struct it got through was
  finalized and has its functions (`Made`), and nothing is written before it is through all.
  With that the functions of a field follow one by one (`HeaderDeclared`); the parameters of
  `create`, which the header makes in one piece of count and array and the module in two, are
  equal as sequences by induction along the fields (`SameParameters`). The hypothesis that no
  struct was opened again is needed: a second LLVM type has another name.
- `ShortUnlinked`: `ShortOnlyUnlinked`. `Sized` says by which layout the sizes were computed.
  `DefaultBehind` is the argument: in fields sorted by size, LLVM's default layout
  is at any field equal to the target's, or 4 bytes behind it and then at an integer of 33 to
  64 bits; it catches up at the next field of 8 bytes that is not one, so that only the last
  field can leave the struct too small. A longer integer is sorted behind all others, so that
  the last field is one where the struct has any.
- `CompilerTypesCorrect`: `CTypeOK`. `TypeInv` needs the parser's types while the parser
  runs only.
- `PlainFilesCompile`: `PlainCompiles`. `DocInv` carries `ParsesAsDocumented`'s invariant
  through parsing and keeps of it that the table is the declared one (`SameTable`), and adds
  that the module has no other functions than those of its structs. A function's parameters
  then follow from its name and the declaration that gave it its name (`Signature`,
  `FieldSignature`), so two of one name agree (`NoClash`), which was the only way left to
  undefined behaviour. The proof showed that the property was too weak a condition as first
  stated: not only `x_count` beside an array `x`, two arrays `x` and `x_item` clash as well
  (`get_S_x_item` is the item getter of the one and the getter of the other). `PlainStruct` now
  forbids any two different fields whose functions share a name, and the run has such files.

### `RuntimeProofs`

- `OnlyFailureLoses`: `LostOnlyByFailure`, inductive as it stands. `LossStep` shows of each action that it loses nothing or sets `failed`, but for `ToText`, which appends a block of
  the encoder's own.
- `SavesAreLoaded`: `SavedIsLoaded`. `SaveInvariant` adds that the file holds what the
  last completed save was given (`KeptIsWhole`), and of a save under way that what it
  serialized is the object and what it wrote of it is in the file (`SaveUnderWay`).
- `RuntimeTypesCorrect`: `RTypeOK`, with the bound on the file that no type gives. `RTypeInv`
  adds that each stream left open ends within one object (`Streams`), so that a flush at
  exit, of any number of them in turn, cannot enlarge the file beyond it (`FlushFits`);
  a call that runs counts for the stream and the block it may lose, by which the bounds
  `MaxOpen` and `MaxLost` hold.
- `TextsRoundTrip`: `Base64RoundTrip`. The invariant says that the text is the
  encoding of an object and of what lay behind it. `EncodesChars` and `RfcChars` show the
  code's shifts of 24 bits and the RFC's bit string to be one text, sextet by sextet
  (`BitOf`, `SameSextets`), with `Lengths` for the padding; `DecodesChars` shows that
  the decoder joins the sextets to the same bytes, its padding counting as zeros.

The recursion of `FoldLeft` and `FlattenSeq` is unfolded as in `SerializationProofs`.

### Only model-checked

`CompilerEnds`, since liveness under fairness and `ENABLED` are out of the provers' reach.
A violation run shows a counterexample and has nothing to prove. All other properties
that the passing runs check are theorems, about the models as section 7 limits them.

## 6. Findings

1. **A failed `set` changes the count** (`LLVMIRGenPass.cpp` 537, 562). The setter
   stores the new count before it allocates and does not restore it. Later item
   accesses are checked against a count the block does not have.
2. **A failed `malloc` for the last array of `deserialize_S`** (919) passes the size
   check (1228): the object returned has a pointer that was never stored. For
   an earlier array the next field is read from the wrong place.
3. **`packed` is never honoured** (`Parser.cpp:111`): three words are expected where
   `struct name packed {` has four.
4. **Struct sizes come from the wrong data layout** (`LLVMIRGenPass.cpp` 994, 1187;
   `ObjectCodegenPass.cpp:76`): LLVM's default aligns 64-bit integers to 4 bytes, and the
   target's layout is set after the sizes were computed. Without a runtime module a struct
   of an `int8` and an `int64` gets 12 bytes where the code uses 16; so does one of an `int8`
   and an `int40`, or any integer of more than 32 bits (`ShortOnlyUnlinked`).
5. **The Base64 text is not that of the struct** (`Base64.c` 65-73, 91): the header is
   skipped but counted, so the last eight bytes encoded are from behind the buffer.

Met while modelling and part of the models: `realloc(p, 0)` that frees
(`NoFreeingRealloc`), NULL structs that pass `insertNullCheck` (`FaultNeedsCause`), lent arrays
and wrapped sizes (the same), runtime bitcode that is missing (`PlainCompiles`), bindings
written for an output file that failed (`ExitTruthful`), streams and buffers left by
a save that failed, and an unchecked `fclose` (`SavedIsLoaded`, `LostOnlyByFailure`).

## 7. Not modelled, and why

- Byte swapping: code is generated before the target's data layout is set, for a
  little-endian one, so none is ever emitted, also for a big-endian target.
- Alignment of packed fields, and arrays of pointers to structs, whose serialized
  form is the pointers.
- The accessors and serializers of struct fields, beyond the fact that the compiler does
  not survive them; the accessors of scalars, one load or store each;
  `serialize_S(NULL)`, which returns NULL.
- In the parser: structs named like an integer type, integer widths LLVM refuses, line
  numbers in messages. Structs of so many fields that `std::sort` is not stable are modelled,
  but nothing is promised of the order of their counts and arrays. A comment on one line is modelled, but `Faithful` makes no claim after it.
- In the compiler: names of structs and fields that differ and still make one
  function name (only the suffixes of arrays are told apart), verification by LLVM of a
  module that was generated without undefined behaviour (for object files it comes after
  the file was written, `ObjectCodegenPass.cpp` 113-115), data layouts of 32-bit
  targets, files of an earlier run.
- `UnifyFnAttrs`, which sets function attributes and has no state; the text of header and
  build file; `getExecutionEngine` and the tests. The LLVM back end and bindgen are
  external programs.
- In the runtime: objects of 200 bytes and more, two processes at one file, files of another struct type, texts that
  were not made by the encoder.
