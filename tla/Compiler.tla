------------------------------ MODULE Compiler ------------------------------
(***************************************************************************)
(* The tyr program: main of Frontend.cpp with the parser, the linking of   *)
(* the runtime, and the passes that the pass manager runs over the module. *)
(*                                                                         *)
(* Parser reads the file.  After that one step is what happens to one      *)
(* struct, to one pass or to one output file.  Functions are named by      *)
(* tuples and typed by their parameters; their bodies are the business of  *)
(* Accessors and Serialization.                                            *)
(***************************************************************************)
EXTENDS Parser, Integers

CONSTANTS
  Options,  \* the command lines: what to emit, for which target, the bindings
            \* and the runtime modules
  Wide,     \* the integer types of more than 32 bits
  LongAlign, \* how the layouts but LLVM's default align those of more than 64
  Running   \* no exit code yet

ASSUME CompilerAssumption ==
  /\ Options # {}
  /\ \A o \in Options : /\ o.emit \in {"object", "bitcode"}
                        /\ o.target \in {"cpu", "gpu", "unknown"}
                        /\ o.runtime \subseteq {"file", "base64"}
                        /\ o.bind \in (SUBSET {"c", "rust"}) \ {{}}
  /\ Wide \subseteq Builtin
  /\ \A t \in Builtin : IF t \in Wide THEN SizeOf[t] >= 8 /\ SizeOf[t] % 4 = 0
                                      ELSE SizeOf[t] <= 8
  /\ LongAlign \in [{"runtime", "target"} -> {8, 16}]
  /\ Running \notin Int

(* What is appended to a string makes it another one.                       *)
ASSUME NameAssumption ==
  \A l \in Lines : \A w \in Range(l.words) :
    w \o "_item" # w /\ w \o "_count" # w /\ w \o "_item" # w \o "_count"

VARIABLES
  stage,    \* how far main is
  opts,     \* the command line; drawn when it is first looked at
  dl,       \* where the LLVM module's data layout comes from
  visited,  \* the structs that LLVMIRGenPass has visited
  defined,  \* the functions of the LLVM module
  alloc,    \* the size that create and deserialize of a struct allocate
  passes,   \* the passes that PassManager has still to run
  allOk,    \* retval of PassManager::runOnModule
  files,    \* what was written
  exit      \* the exit code

own == <<stage, opts, dl, visited, defined, alloc, passes, allOk, files, exit>>
cvars == <<own, vars>>

Live == exit = Running /\ fault = "none"

Exit(code) ==
  /\ exit' = code
  /\ UNCHANGED <<stage, opts, dl, visited, defined, alloc, passes, allOk>>
  /\ UNCHANGED vars

Die(why) == fault' = why /\ UNCHANGED <<own, inside, current, structs, result, read, doc>>

-----------------------------------------------------------------------------
(* main, up to the passes                                                   *)

BadFileName == stage = "start" /\ Exit(1) /\ UNCHANGED files

CannotOpen == stage = "start" /\ Exit(-1) /\ UNCHANGED files

OpenFile ==
  /\ stage = "start" /\ stage' = "parse"
  /\ UNCHANGED <<opts, dl, visited, defined, alloc, passes, allOk, files, exit, vars>>

ParseStep == stage = "parse" /\ Next /\ UNCHANGED own

ParsingFailed ==
  stage = "parse" /\ result = "rejected" /\ Exit(-2) /\ UNCHANGED files

Registered(o) ==
  <<"irgen", o.emit>> \o (IF "c" \in o.bind THEN <<"c">> ELSE <<>>)
                      \o (IF "rust" \in o.bind THEN <<"rust">> ELSE <<>>)

RegisterPasses ==
  /\ stage = "parse" /\ result = "accepted"
  /\ stage' = "link"
  /\ \E o \in Options : opts' = o /\ passes' = Registered(o)
  /\ UNCHANGED <<dl, visited, defined, alloc, allOk, files, exit, vars>>

(* The linker gives a module without a data layout that of the first module *)
(* linked in, here the one of the runtime's bitcode.                        *)
LinkRuntime ==
  /\ stage = "link" /\ stage' = "passes"
  /\ dl' = IF opts.runtime = {} THEN dl ELSE "runtime"
  /\ UNCHANGED <<opts, visited, defined, alloc, passes, allOk, files, exit, vars>>

LinkFails == stage = "link" /\ opts.runtime # {} /\ Exit(-4) /\ UNCHANGED files

(* A bitcode file that is missing or unreadable is a null module, and is    *)
(* linked all the same.                                                     *)
LinkMissing == stage = "link" /\ opts.runtime # {} /\ Die("nomodule")

-----------------------------------------------------------------------------
(* Data layout.  LLVM's default aligns every integer of more than 32 bits   *)
(* to 4 bytes; the layouts it has of 64-bit targets align everything to its *)
(* size, except what is larger than 8 bytes.  The size that the sort goes   *)
(* by is the one of the default layout.                                     *)

Layout == {"default", "runtime", "target"}

WideInteger(f) == f.kind = "count" \/ (f.kind = "scalar" /\ f.type \in Wide)

TypeAlign(l, f) ==
  IF l = "default" /\ WideInteger(f) THEN 4
  ELSE IF FieldSize(f) > 8 THEN LongAlign[l] ELSE FieldSize(f)

Align(l, s, f) == IF s.packed THEN 1 ELSE TypeAlign(l, f)

RoundUp(n, a) == ((n + a - 1) \div a) * a

(* DataLayout::getTypeAllocSize of a field, in packed structs too           *)
AllocSize(l, f) == RoundUp(FieldSize(f), TypeAlign(l, f))

(* Where the first i fields of a struct end.                                *)
End(l, s) ==
  LET end[i \in 0..Len(s.fields)] ==
        IF i = 0 THEN 0
        ELSE RoundUp(end[i - 1], Align(l, s, s.fields[i])) + AllocSize(l, s.fields[i])
  IN end

(* DataLayout::getTypeAllocSize of a struct                                 *)
StructSize(l, s) ==
  RoundUp(End(l, s)[Len(s.fields)], Max({1} \cup {Align(l, s, f) : f \in Range(s.fields)}))

-----------------------------------------------------------------------------
(* LLVMIRGenPass.  The functions of a field bear the name of the LLVM type  *)
(* of its struct, which LLVM makes unique where the struct got a second     *)
(* one; create, destroy, serialize and deserialize that of the struct.      *)

Function(name, params) == [name |-> name, params |-> params]

(* The name of a field in the IR; the count of an array has its own.        *)
FieldName(f) == IF f.kind = "count" THEN f.name \o "_count" ELSE f.name

ValueType(f) ==
  CASE f.kind = "count" -> <<"uint64_t">>
    [] f.kind = "array" -> <<"*", f.type, f.of>>
    [] OTHER            -> <<f.type, f.of>>

ItemType(f) == Tail(ValueType(f))
Ref(t) == <<"*">> \o t
Uint64 == <<"uint64_t">>

FieldFunctions(n, f) ==
  LET name == FieldName(f)
      F(verb, to, params) == Function(<<verb, n, structs[n].version, to>>, params)
      of(cond, set) == IF cond THEN set ELSE {}
  IN {F("get", name, <<Ref(ValueType(f))>>)}
     \cup of(f.kind = "array", {F("get", name \o "_item", <<Uint64, ValueType(f)>>),
                                F("set", name \o "_item", <<Uint64, ItemType(f)>>)})
     \cup of(f.mut /\ f.kind = "array", {F("set", name, <<ValueType(f), Uint64>>)})
     \cup of(f.mut /\ f.kind # "array", {F("set", name, <<ValueType(f)>>)})
     \cup of(f.kind # "count", {F("serialize", name, <<>>), F("deserialize", name, <<>>)})

(* The parameters that create has for each field in turn.                   *)
Parameters(fs, Of(_)) == FlattenSeq([i \in DOMAIN fs |-> Of(fs[i])])

Constructor(n) ==
  LET Given(f) == IF f.mut THEN <<>> ELSE <<ValueType(f)>>
  IN Function(<<"create", n>>, Parameters(structs[n].fields, Given))

StructFunctions(n) ==
  {Constructor(n)} \cup
  {Function(<<verb, n>>, <<>>) : verb \in {"destroy", "serialize", "deserialize"}}

(* Mutant: runOnField looks at the arrays only.                             *)
FieldsVisitedArrays(n) == SelectSeq(structs[n].fields, LAMBDA f : f.kind # "scalar")

FieldsVisited(n) == structs[n].fields

(* What runOnStruct looks up: the functions of the fields by their names.   *)
LookedUp(n) ==
  {Function(<<verb, n, structs[n].version, f.name>>, <<>>) :
     verb \in {"serialize", "deserialize"},
     f \in {g \in Range(structs[n].fields) : g.kind # "count"}}

StructField(f) == f.kind = "scalar" /\ f.type \notin Builtin

(* A function of the same name and another type comes as a cast of it.      *)
Clash(fns) == \E g, h \in fns : g.name = h.name /\ g.params # h.params

(* What goes wrong in generating the functions of a struct.  A field that   *)
(* is not in its last LLVM type has no parent type, which getGetter and the *)
(* others go through.                                                       *)
NoParent(n) == structs[n].version = 0 \/ structs[n].typed # Len(structs[n].fields)

(* The getter, the setter and the serializers of a struct field cast its    *)
(* type, a pointer, to a struct (331, 504, 787, 888).                       *)
PointerCast(n) == \E f \in Range(structs[n].fields) : StructField(f)

GenerationFault(n, made) ==
  CASE NoParent(n)                              -> "null"
    [] PointerCast(n) \/ Clash(defined \cup made) -> "cast"
    [] ~(LookedUp(n) \subseteq made)            -> "unresolved"
    [] OTHER                                    -> "none"

(* Module::visit of the pass: the fields of a struct, then the struct; the  *)
(* structs in the order of a hash table.                                    *)
VisitStruct(n) ==
  LET made == UNION {FieldFunctions(n, f) : f \in Range(FieldsVisited(n))} IN
  /\ stage = "passes" /\ passes # <<>> /\ Head(passes) = "irgen"
  /\ n \notin visited
  /\ fault' = GenerationFault(n, made)
  /\ visited' = visited \cup {n}
  /\ defined' = defined \cup made \cup StructFunctions(n)
  /\ alloc' = [m \in DOMAIN alloc \cup {n} |->
                  IF m = n THEN StructSize(dl, structs[n]) ELSE alloc[m]]
  /\ UNCHANGED <<stage, opts, dl, passes, allOk, files, exit,
                 inside, current, structs, result, read, doc>>

-----------------------------------------------------------------------------
(* CCodegenPass: the functions that the header declares.                    *)

(* Mutant: the counts of arrays are no parameters of create.                *)
HeaderConstructorUncounted(n) ==
  LET Given(f) == IF f.kind = "count" \/ f.mut THEN <<>> ELSE <<ValueType(f)>>
  IN Function(<<"create", n>>, Parameters(structs[n].fields, Given))

HeaderConstructor(n) ==
  LET Given(f) == IF f.kind = "count" \/ f.mut THEN <<>>
                  ELSE IF f.kind = "array" THEN <<Uint64, ValueType(f)>> ELSE <<ValueType(f)>>
  IN Function(<<"create", n>>, Parameters(structs[n].fields, Given))

HeaderOf(n, kinds, muts) == {f \in Range(structs[n].fields) : f.kind \in kinds /\ f.mut \in muts}

HeaderFields(n) ==
  LET F(verb, name, params) == Function(<<verb, n, 1, name>>, params) IN
  {F("get", f.name, <<Ref(ValueType(f))>>) : f \in HeaderOf(n, {"scalar", "array"}, BOOLEAN)}
  \cup {F("set", f.name, <<ValueType(f)>>) : f \in HeaderOf(n, {"scalar"}, {TRUE})}
  \cup {F("set", f.name, <<ValueType(f), Uint64>>) : f \in HeaderOf(n, {"array"}, {TRUE})}
  \cup {F("get", f.name \o "_item", <<Uint64, ValueType(f)>>) : f \in HeaderOf(n, {"array"}, BOOLEAN)}
  \cup {F("set", f.name \o "_item", <<Uint64, ItemType(f)>>) : f \in HeaderOf(n, {"array"}, {TRUE})}
  \cup {F("get", f.name \o "_count", <<Ref(Uint64)>>) : f \in HeaderOf(n, {"array"}, BOOLEAN)}

HeaderFunctions(n) ==
  HeaderFields(n) \cup {HeaderConstructor(n)} \cup (StructFunctions(n) \ {Constructor(n)})

-----------------------------------------------------------------------------
(* PassManager::runOnModule: every pass runs, whatever the ones before it   *)
(* returned.                                                                *)

(* Mutant: the last pass decides.                                           *)
PassReturnsLast(ok) == passes' = Tail(passes) /\ allOk' = ok

PassReturns(ok) == passes' = Tail(passes) /\ allOk' = (allOk /\ ok)

(* Mutant: a pass that fails is run again.                                  *)
FailingPassAgain(pass) == passes' = passes /\ allOk' = FALSE

FailingPass(pass) == PassReturns(FALSE)

Turn(pass) == stage = "passes" /\ passes # <<>> /\ Head(passes) = pass

GenerationDone ==
  /\ Turn("irgen") /\ visited = DOMAIN structs
  /\ PassReturns(TRUE)
  /\ UNCHANGED <<stage, opts, dl, visited, defined, alloc, files, exit, vars>>

Kept == UNCHANGED <<stage, opts, visited, defined, alloc, exit, vars>>

TargetFound == opts.target # "unknown" /\ dl' = "target"

(* The ways of failing that the output passes share: there is no target, or *)
(* the file cannot be opened.  (Of the bitcode pass also: the module is not *)
(* well-formed.  The object pass finds that out only when the file is       *)
(* written, which is left out.)                                             *)
NothingWritten(pass) ==
  /\ FailingPass(pass) /\ UNCHANGED files
  /\ (opts.target = "unknown" /\ UNCHANGED dl) \/ TargetFound

WrittenWhole ==
  TargetFound /\ PassReturns(TRUE) /\ files' = [files EXCEPT !.output = "whole"]

(* ObjectCodegenPass.  No target for graphics processors emits object       *)
(* files, of which only the open file, empty, remains.                      *)
ObjectPass ==
  /\ Turn("object") /\ Kept
  /\ \/ NothingWritten("object")
     \/ /\ opts.target = "gpu" /\ TargetFound
        /\ FailingPass("object") /\ files' = [files EXCEPT !.output = "torn"]
     \/ opts.target = "cpu" /\ WrittenWhole

(* LLVMCodegenPass                                                          *)
BitcodePass ==
  /\ Turn("bitcode") /\ Kept
  /\ NothingWritten("bitcode") \/ WrittenWhole

(* A stream of LLVM that could not be written ends the process when it is   *)
(* destroyed.                                                               *)
ObjectBroken ==
  /\ Turn("object") /\ opts.target = "cpu"
  /\ files' = [files EXCEPT !.output = "torn"]
  /\ Exit(1)

BitcodeBroken ==
  /\ Turn("bitcode") /\ opts.target # "unknown"
  /\ files' = [files EXCEPT !.output = "torn"]
  /\ Exit(1)

(* CCodegenPass, and RustCodegenPass, which runs it first.  Neither looks   *)
(* at the error of opening its file.                                        *)
BindingPass ==
  \E pass \in {"c", "rust"} :
    /\ Turn(pass)
    /\ files' = [files EXCEPT !.header = "whole", !.build = IF pass = "rust" THEN "whole" ELSE @]
    /\ PassReturns(TRUE)
    /\ Kept /\ UNCHANGED dl

HeaderBroken ==
  /\ Turn("c") \/ Turn("rust")
  /\ files' \in {[files EXCEPT !.header = "torn"], files}
  /\ Exit(1)

BuildFileBroken ==
  /\ Turn("rust")
  /\ files' \in {[files EXCEPT !.header = "whole", !.build = b] : b \in {"none", "torn"}}
  /\ Exit(1)

(* Mutant: a failure that main has no name for.                             *)
ReturnInvalid ==
  /\ stage = "passes" /\ passes = <<>>
  /\ Exit(IF allOk THEN 0 ELSE -5)
  /\ UNCHANGED files

Return ==
  /\ stage = "passes" /\ passes = <<>>
  /\ Exit(IF allOk THEN 0 ELSE -3)
  /\ UNCHANGED files

-----------------------------------------------------------------------------
CInit ==
  /\ Init
  /\ stage = "start" /\ dl = "default"
  /\ opts = CHOOSE o \in Options : TRUE
  /\ visited = {} /\ defined = {} /\ alloc = <<>>
  /\ passes = <<>> /\ allOk = TRUE
  /\ files = [output |-> "none", header |-> "none", build |-> "none"]
  /\ exit = Running

CNext ==
  /\ Live
  /\ \/ BadFileName \/ CannotOpen \/ OpenFile
     \/ ParseStep \/ ParsingFailed \/ RegisterPasses
     \/ LinkRuntime \/ LinkFails \/ LinkMissing
     \/ \E n \in DOMAIN structs : VisitStruct(n)
     \/ GenerationDone
     \/ ObjectPass \/ BitcodePass \/ ObjectBroken \/ BitcodeBroken
     \/ BindingPass \/ HeaderBroken \/ BuildFileBroken
     \/ Return

(* The program runs as long as it can: it waits for nothing.                *)
CSpec == CInit /\ [][CNext]_cvars /\ WF_cvars(CNext)

-----------------------------------------------------------------------------
(* Properties                                                               *)

Written == {"none", "torn", "whole"}

(* The variables keep their types.                                          *)
CTypeOK ==
  /\ stage \in {"start", "parse", "link", "passes"} /\ opts \in Options
  /\ dl \in Layout
  /\ visited \subseteq DOMAIN structs /\ DOMAIN alloc = visited
  /\ \A n \in visited : alloc[n] \in Nat
  /\ Range(passes) \subseteq {"irgen", "object", "bitcode", "c", "rust"}
  /\ allOk \in BOOLEAN /\ files \in [{"output", "header", "build"} -> Written]
  /\ exit \in {Running, 0, 1, -1, -2, -3, -4}
  /\ fault \in {"none", "null", "range", "cast", "unresolved", "nomodule"}

Reopened(n) == structs[n].version > 1

(* A header declares functions that the module has, with the parameters     *)
(* they have there, unless a struct was opened again, and for structs of no *)
(* more fields than the sort keeps in order: the pass that writes it goes   *)
(* through the fields by itself, the module takes counts where they are.    *)
HeaderMatches ==
  (files.header = "whole" /\ ~\E n \in DOMAIN structs : Reopened(n)) =>
    \A n \in DOMAIN structs :
      Len(structs[n].fields) <= StableUpTo => HeaderFunctions(n) \subseteq defined

(* What follows get_, set_ and the struct in the names of its functions.    *)
Suffixed(f) == {f.name} \cup (IF f.kind = "array" THEN {f.name \o "_item", f.name \o "_count"} ELSE {})

PlainStruct(fs) ==
  \A f \in Range(fs) :
    /\ f.kind = "scalar" => f.type \in Builtin
    /\ \A g \in Range(fs) : Suffixed(f) \cap Suffixed(g) # {} =>
         f.name = g.name /\ f.type = g.type /\ f.kind = g.kind

(* A documented file is compiled without undefined behaviour, in whatever   *)
(* order the structs come, if it closes its structs, has no field of a      *)
(* struct type and no two fields that differ whose functions share a name,  *)
(* as those of x_count and an array x do, or of two arrays x and x_item,    *)
(* and the runtime's bitcode is where it should be.                         *)
PlainCompiles ==
  (/\ doc.known /\ doc.open = None
   /\ \A n \in DOMAIN doc.declared : PlainStruct(doc.declared[n])) =>
    fault \in {"none", "nomodule"}

Requested(o) == {"output", "header"} \cup (IF "rust" \in o.bind THEN {"build"} ELSE {})

(* The exit code of main tells what is on the disk: after 0 every file that *)
(* was asked for, after CODEGEN_FAILED the bindings but no code, after the  *)
(* failures before the passes nothing.                                      *)
ExitTruthful ==
  /\ exit = 0 => \A f \in Requested(opts) : files[f] = "whole"
  /\ exit = -3 => \A f \in Requested(opts) : files[f] = "whole" <=> f # "output"
  /\ exit \in {-1, -2, -4} => \A f \in DOMAIN files : files[f] = "none"

Short(n) == alloc[n] < StructSize("target", structs[n])

(* The size that create and deserialize allocate is computed before the     *)
(* target is known.  It is too small only if the last field is an integer   *)
(* of more than 32 bits, and if a runtime module was linked only if that    *)
(* has more than 64: a struct of arrays and counts is never too small.      *)
ShortOnlyUnlinked ==
  exit = 0 => \A n \in visited :
    LET last == Last(structs[n].fields) IN
    Short(n) => WideInteger(last) /\ (opts.runtime = {} \/ FieldSize(last) > 8)

(* "Allocate space for the output" (LLVMIRGenPass.cpp 991): what create     *)
(* allocates holds the struct on the target the code was generated for.     *)
StructFits == exit = 0 => \A n \in visited : ~Short(n)

(* The program ends, with an exit code or by undefined behaviour, whatever  *)
(* fails: no pass waits for another.                                        *)
CompilerEnds == <>~Live
=============================================================================
