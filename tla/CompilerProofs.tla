--------------------------- MODULE CompilerProofs ---------------------------
(***************************************************************************)
(* What holds of tyr for every input file, every command line and every    *)
(* failure: what its exit code says; that a header declares what is in the *)
(* module; when the size that create allocates is too small; the types of  *)
(* the variables; which files are compiled without undefined behaviour.    *)
(***************************************************************************)
EXTENDS Compiler, ParserProofs, WellFoundedInduction

-----------------------------------------------------------------------------
(* The exit code                                                            *)

NoFiles == [output |-> "none", header |-> "none", build |-> "none"]

(* The binding passes that a command line asks for.                         *)
Bindings(o) ==
  (IF "c" \in o.bind THEN <<"c">> ELSE <<>>) \o (IF "rust" \in o.bind THEN <<"rust">> ELSE <<>>)

(* How far the passes are, by those that are left: none of them has written *)
(* a file before its turn, and retval is false just if there is no code.    *)
Underway ==
  /\ opts \in Options /\ allOk \in BOOLEAN
  /\ files \in [{"output", "header", "build"} -> {"none", "torn", "whole"}]
  /\ \/ /\ \/ passes = <<"irgen", opts.emit>> \o Bindings(opts)
           \/ passes = <<opts.emit>> \o Bindings(opts)
        /\ files = NoFiles /\ allOk
     \/ /\ passes = Bindings(opts)
        /\ files.header = "none" /\ files.build = "none"
        /\ allOk <=> files.output = "whole"
     \/ /\ passes = <<"rust">> /\ "rust" \in opts.bind
        /\ files.header = "whole" /\ files.build = "none"
        /\ allOk <=> files.output = "whole"
     \/ /\ passes = <<>>
        /\ files.header = "whole"
        /\ "rust" \in opts.bind => files.build = "whole"
        /\ allOk <=> files.output = "whole"

ExitInvariant ==
  /\ ExitTruthful
  /\ stage \in {"start", "parse", "link", "passes"}
  /\ exit = Running =>
       IF stage = "passes" THEN Underway
       ELSE /\ files = NoFiles /\ allOk
            /\ stage = "link" => opts \in Options /\ passes = Registered(opts)

Pass == {"irgen", "object", "bitcode", "c", "rust"}

(* Taking elements from the front of a sequence.                            *)
LEMMA Front1 ==
  ASSUME NEW S, NEW a \in S, NEW s \in Seq(S)
  PROVE  Head(<<a>> \o s) = a /\ Tail(<<a>> \o s) = s /\ <<a>> \o s # <<>>
<1>1. Head(<<a>> \o s) = a
  OBVIOUS
<1>2. Tail(<<a>> \o s) = s
  OBVIOUS
<1>3. <<a>> \o s # <<>>
  OBVIOUS
<1> QED
  BY <1>1, <1>2, <1>3

(* Taking two elements from the front.                                      *)
LEMMA Front2 ==
  ASSUME NEW S, NEW a \in S, NEW b \in S, NEW s \in Seq(S)
  PROVE  Head(<<a, b>> \o s) = a /\ Tail(<<a, b>> \o s) = <<b>> \o s /\ <<a, b>> \o s # <<>>
<1>1. Head(<<a, b>> \o s) = a
  OBVIOUS
<1>2. Tail(<<a, b>> \o s) = <<b>> \o s
  OBVIOUS
<1>3. <<a, b>> \o s # <<>>
  OBVIOUS
<1> QED
  BY <1>1, <1>2, <1>3

(* The order of the passes, whatever the command line asks for.             *)
LEMMA PassOrder ==
  ASSUME NEW o \in Options
  PROVE  /\ o.emit \in {"object", "bitcode"}
         /\ Registered(o) = <<"irgen", o.emit>> \o Bindings(o)
         /\ Bindings(o) \in Seq(Pass)
<1> USE DEF Pass
<1>1. o.emit \in {"object", "bitcode"}
  BY CompilerAssumption
<1> DEFINE c == IF "c" \in o.bind THEN <<"c">> ELSE <<>>
           rust == IF "rust" \in o.bind THEN <<"rust">> ELSE <<>>
<1>0. <<"c">> \in Seq(Pass) /\ <<"rust">> \in Seq(Pass) /\ <<>> \in Seq(Pass)
  OBVIOUS
<1>2. c \in Seq(Pass)
  BY <1>0
<1>3. rust \in Seq(Pass)
  BY <1>0
<1>4. <<"irgen", o.emit>> \in Seq(Pass)
  BY <1>1
<1>5. Registered(o) = (<<"irgen", o.emit>> \o c) \o rust /\ Bindings(o) = c \o rust
  BY DEF Registered, Bindings
<1> HIDE DEF c, rust
<1>6. (<<"irgen", o.emit>> \o c) \o rust = <<"irgen", o.emit>> \o (c \o rust)
  BY <1>2, <1>3, <1>4, ConcatAssociative
<1>7. c \o rust \in Seq(Pass)
  BY <1>2, <1>3
<1> QED
  BY <1>1, <1>5, <1>6, <1>7

(* The front of the passes that are left decides what is left after it.     *)
LEMMA PassesInOrder ==
  ASSUME NEW o \in Options, NEW all, all = <<"irgen", o.emit>> \o Bindings(o),
         NEW rest, rest = <<o.emit>> \o Bindings(o)
  PROVE  /\ all # <<>> /\ Head(all) = "irgen" /\ Tail(all) = rest
         /\ rest # <<>> /\ Head(rest) = o.emit /\ Tail(rest) = Bindings(o)
<1>1. o.emit \in Pass /\ "irgen" \in Pass /\ Bindings(o) \in Seq(Pass)
  BY PassOrder DEF Pass
<1> HIDE DEF Pass
<1>2. all # <<>> /\ Head(all) = "irgen" /\ Tail(all) = rest
  BY <1>1, Front2
<1>3. rest # <<>> /\ Head(rest) = o.emit /\ Tail(rest) = Bindings(o)
  BY <1>1, Front1
<1> QED
  BY <1>2, <1>3

(* The bindings come after the code, and C before Rust.                     *)
LEMMA BindingOrder ==
  ASSUME NEW o \in Options
  PROVE  /\ Bindings(o) # <<>> /\ Head(Bindings(o)) \in {"c", "rust"}
         /\ Head(Bindings(o)) = "rust" => Tail(Bindings(o)) = <<>>
         /\ Head(Bindings(o)) = "c" => IF "rust" \in o.bind THEN Tail(Bindings(o)) = <<"rust">>
                                                            ELSE Tail(Bindings(o)) = <<>>
<1>1. o.bind \in (SUBSET {"c", "rust"}) \ {{}}
  BY CompilerAssumption
<1>2. <<"rust">> \in Seq(Pass) /\ <<>> \in Seq(Pass) /\ "c" \in Pass /\ "rust" \in Pass
  BY DEF Pass
<1>3. <<"rust">> # <<>> /\ Head(<<"rust">>) = "rust" /\ Tail(<<"rust">>) = <<>>
  OBVIOUS
<1>4. CASE "c" \in o.bind /\ "rust" \in o.bind
  <2>1. Bindings(o) = <<"c">> \o <<"rust">>
    BY <1>4 DEF Bindings
  <2> QED
    BY <1>2, <1>4, <2>1, Front1
<1>5. CASE "c" \in o.bind /\ "rust" \notin o.bind
  <2>1. Bindings(o) = <<"c">> \o <<>>
    BY <1>5 DEF Bindings
  <2> QED
    BY <1>2, <1>5, <2>1, Front1
<1>6. CASE "c" \notin o.bind
  <2>1. "rust" \in o.bind
    <3>1. PICK x \in o.bind : TRUE
      BY <1>1
    <3>2. x \in {"c", "rust"}
      BY <1>1
    <3> QED
      BY <1>6, <3>1, <3>2
  <2>2. Bindings(o) = <<>> \o <<"rust">>
    BY <1>6, <2>1 DEF Bindings
  <2>3. Bindings(o) = <<"rust">>
    BY <1>2, <2>2, ConcatEmptySeq
  <2> QED
    BY <1>3, <2>3
<1> QED
  BY <1>4, <1>5, <1>6

(* A process that has not ended has said nothing.                           *)
LEMMA NotEnded ==
  ASSUME exit' = Running
  PROVE  ExitTruthful'
<1>1. Running # 0 /\ Running # -3 /\ Running \notin {-1, -2, -4}
  BY CompilerAssumption
<1> QED
  BY <1>1 DEF ExitTruthful

(* The exits before the passes: nothing was written.                        *)
LEMMA EarlyExit ==
  ASSUME ExitInvariant, exit = Running, stage # "passes", UNCHANGED <<stage, files>>,
         exit' \in {1, -1, -2, -4}
  PROVE  ExitInvariant'
<1>1. files' = NoFiles
  BY DEF ExitInvariant
<1>2. exit' # 0 /\ exit' # -3 /\ exit' # Running
  BY CompilerAssumption
<1>3. \A f \in DOMAIN NoFiles : NoFiles[f] = "none"
  BY DEF NoFiles
<1>4. ExitTruthful'
  BY <1>1, <1>2, <1>3 DEF ExitTruthful
<1> QED
  BY <1>2, <1>4 DEF ExitInvariant

(* A stream that LLVM could not write ends the process with 1, of which     *)
(* ExitTruthful says nothing.                                               *)
LEMMA BrokenStream ==
  ASSUME ExitInvariant, exit' = 1, UNCHANGED stage
  PROVE  ExitInvariant'
<1>1. exit' # 0 /\ exit' # -3 /\ exit' \notin {-1, -2, -4} /\ exit' # Running
  BY CompilerAssumption
<1> QED
  BY <1>1 DEF ExitInvariant, ExitTruthful

(* What the passes do to the files and to retval keeps the order.           *)
LEMMA GenerationStep ==
  ASSUME Underway, GenerationDone
  PROVE  Underway'
<1>1. /\ passes # <<>> /\ Head(passes) = "irgen"
      /\ passes' = Tail(passes) /\ allOk' = (allOk /\ TRUE)
      /\ UNCHANGED <<opts, files>>
  BY DEF GenerationDone, Turn, PassReturns
<1>2. opts \in Options
  BY DEF Underway
<1>3. passes = <<"irgen", opts.emit>> \o Bindings(opts)
  <2>1. passes # <<opts.emit>> \o Bindings(opts)
    BY <1>1, <1>2, PassesInOrder, PassOrder
  <2>2. passes # Bindings(opts)
    BY <1>1, <1>2, BindingOrder
  <2>3. passes # <<"rust">>
    BY <1>1
  <2> QED
    BY <1>1, <2>1, <2>2, <2>3 DEF Underway
<1>4. passes' = <<opts.emit>> \o Bindings(opts)
  BY <1>1, <1>2, <1>3, PassesInOrder
<1>5. files = NoFiles /\ allOk
  <2>1. <<"irgen", opts.emit>> \o Bindings(opts) # Bindings(opts)
    BY <1>1, <1>2, <1>3, BindingOrder
  <2>2. passes # <<"rust">> /\ passes # <<>>
    BY <1>1
  <2> QED
    BY <1>3, <2>1, <2>2 DEF Underway
<1> QED
  BY <1>1, <1>2, <1>4, <1>5 DEF Underway

(* The output of the object or the bitcode, and its breaking off.           *)
OutputPass == ObjectPass \/ BitcodePass

OutputBroken == ObjectBroken \/ BitcodeBroken

Outputs == {"object", "bitcode"}

LEMMA OutputWays ==
  ASSUME OutputPass
  PROVE  \E pass \in Outputs :
           /\ Turn(pass) /\ Kept /\ dl' \in {dl, "target"}
           /\ \/ FailingPass(pass) /\ UNCHANGED files
              \/ FailingPass(pass) /\ files' = [files EXCEPT !.output = "torn"]
              \/ PassReturns(TRUE) /\ files' = [files EXCEPT !.output = "whole"]
<1>1. CASE ObjectPass
  BY <1>1, Zenon DEF ObjectPass, NothingWritten, WrittenWhole, TargetFound, Outputs
<1>2. CASE BitcodePass
  BY <1>2, Zenon DEF BitcodePass, NothingWritten, WrittenWhole, TargetFound, Outputs
<1> QED
  BY <1>1, <1>2 DEF OutputPass

LEMMA BrokenWays ==
  ASSUME OutputBroken
  PROVE  /\ \E pass \in Outputs : Turn(pass)
         /\ files' = [files EXCEPT !.output = "torn"]
         /\ Exit(1)
  BY DEF OutputBroken, ObjectBroken, BitcodeBroken, Outputs

LEMMA OutputStep ==
  ASSUME Underway, OutputPass
  PROVE  Underway'
<1>1. PICK pass \in Outputs :
        /\ Turn(pass) /\ Kept
        /\ \/ FailingPass(pass) /\ UNCHANGED files
           \/ FailingPass(pass) /\ files' = [files EXCEPT !.output = "torn"]
           \/ PassReturns(TRUE) /\ files' = [files EXCEPT !.output = "whole"]
  BY OutputWays
<1>2. opts \in Options
  BY DEF Underway
<1>3. /\ passes # <<>> /\ Head(passes) \in {"object", "bitcode"}
      /\ passes' = Tail(passes) /\ UNCHANGED opts
  BY <1>1 DEF Outputs, Turn, Kept, FailingPass, PassReturns
<1>4. /\ passes # <<"irgen", opts.emit>> \o Bindings(opts)
      /\ passes # Bindings(opts) /\ passes # <<"rust">>
  <2>1. passes # <<"irgen", opts.emit>> \o Bindings(opts)
    BY <1>2, <1>3, PassesInOrder
  <2>2. passes # Bindings(opts)
    BY <1>2, <1>3, BindingOrder
  <2>3. passes # <<"rust">>
    BY <1>3
  <2> QED
    BY <2>1, <2>2, <2>3
<1>5. passes = <<opts.emit>> \o Bindings(opts) /\ files = NoFiles /\ allOk
  BY <1>3, <1>4 DEF Underway
<1>6. passes' = Bindings(opts)
  BY <1>2, <1>3, <1>5, PassesInOrder
<1>7. /\ files' \in [{"output", "header", "build"} -> {"none", "torn", "whole"}]
      /\ files'.header = "none" /\ files'.build = "none"
      /\ allOk' <=> files'.output = "whole"
  <2>1. CASE FailingPass(pass) /\ UNCHANGED files
    <3>1. allOk' = FALSE /\ files' = NoFiles
      BY <1>5, <2>1, Zenon DEF FailingPass, PassReturns
    <3> QED
      BY <3>1 DEF NoFiles
  <2>2. CASE FailingPass(pass) /\ files' = [files EXCEPT !.output = "torn"]
    <3>1. allOk' = FALSE
      BY <2>2, Zenon DEF FailingPass, PassReturns
    <3>2. files' = [output |-> "torn", header |-> "none", build |-> "none"]
      BY <1>5, <2>2 DEF NoFiles
    <3> QED
      BY <3>1, <3>2
  <2>3. CASE PassReturns(TRUE) /\ files' = [files EXCEPT !.output = "whole"]
    <3>1. allOk' = TRUE
      BY <1>5, <2>3 DEF PassReturns
    <3>2. files' = [output |-> "whole", header |-> "none", build |-> "none"]
      BY <1>5, <2>3 DEF NoFiles
    <3> QED
      BY <3>1, <3>2
  <2> QED
    BY <1>1, <2>1, <2>2, <2>3
<1>8. allOk' \in BOOLEAN
  BY <1>1, <1>5 DEF FailingPass, PassReturns
<1> QED
  BY <1>2, <1>3, <1>6, <1>7, <1>8 DEF Underway

(* A binding: its files are written after those of the code.                *)
LEMMA BindingStep ==
  ASSUME Underway, BindingPass
  PROVE  Underway'
<1>1. PICK pass \in {"c", "rust"} :
        /\ Turn(pass) /\ PassReturns(TRUE) /\ Kept
        /\ files' = [files EXCEPT !.header = "whole",
                                  !.build = IF pass = "rust" THEN "whole" ELSE @]
  BY DEF BindingPass
<1>2. opts \in Options
  BY DEF Underway
<1>3. /\ passes # <<>> /\ Head(passes) = pass
      /\ passes' = Tail(passes) /\ allOk' = (allOk /\ TRUE) /\ UNCHANGED opts
  BY <1>1 DEF Turn, Kept, PassReturns
<1>4. /\ passes # <<"irgen", opts.emit>> \o Bindings(opts)
      /\ passes # <<opts.emit>> \o Bindings(opts)
  BY <1>2, <1>3, PassesInOrder, PassOrder
<1>5. /\ files \in [{"output", "header", "build"} -> {"none", "torn", "whole"}]
      /\ files.build = "none" /\ allOk \in BOOLEAN
      /\ allOk <=> files.output = "whole"
  BY <1>3, <1>4 DEF Underway
<1>6. /\ files' \in [{"output", "header", "build"} -> {"none", "torn", "whole"}]
      /\ files'.header = "whole" /\ files'.output = files.output
      /\ files'.build = IF pass = "rust" THEN "whole" ELSE "none"
  BY <1>1, <1>5
<1>7. allOk' <=> files'.output = "whole"
  BY <1>3, <1>5, <1>6
<1>8. CASE passes = Bindings(opts)
  <2>1. CASE pass = "rust"
    <3>1. passes' = <<>>
      BY <1>2, <1>3, <1>8, <2>1, BindingOrder
    <3> QED
      BY <1>2, <1>3, <1>6, <1>7, <2>1, <3>1 DEF Underway
  <2>2. CASE pass = "c" /\ "rust" \in opts.bind
    <3>1. passes' = <<"rust">>
      BY <1>2, <1>3, <1>8, <2>2, BindingOrder
    <3> QED
      BY <1>2, <1>3, <1>6, <1>7, <2>2, <3>1 DEF Underway
  <2>3. CASE pass = "c" /\ "rust" \notin opts.bind
    <3>1. passes' = <<>>
      BY <1>2, <1>3, <1>8, <2>3, BindingOrder
    <3> QED
      BY <1>2, <1>3, <1>6, <1>7, <2>3, <3>1 DEF Underway
  <2> QED
    BY <2>1, <2>2, <2>3
<1>9. CASE passes = <<"rust">>
  <2>1. pass = "rust" /\ passes' = <<>>
    BY <1>3, <1>9
  <2> QED
    BY <1>2, <1>3, <1>6, <1>7, <2>1 DEF Underway
<1> QED
  BY <1>3, <1>4, <1>8, <1>9 DEF Underway

(* main returns what the passes came to.                                    *)
LEMMA ReturnStep ==
  ASSUME ExitInvariant, exit = Running, Return
  PROVE  ExitInvariant'
<1>1. /\ stage = "passes" /\ passes = <<>>
      /\ exit' = IF allOk THEN 0 ELSE -3
      /\ UNCHANGED <<stage, opts, files>>
  BY DEF Return, Exit
<1>2. Underway
  BY <1>1 DEF ExitInvariant
<1>3. /\ files.header = "whole"
      /\ "rust" \in opts.bind => files.build = "whole"
      /\ allOk <=> files.output = "whole"
  <2>1. opts \in Options
    BY <1>2 DEF Underway
  <2>2. /\ passes # <<"irgen", opts.emit>> \o Bindings(opts)
        /\ passes # <<opts.emit>> \o Bindings(opts)
    BY <1>1, <2>1, PassesInOrder
  <2>3. passes # Bindings(opts) /\ passes # <<"rust">>
    BY <1>1, <2>1, BindingOrder
  <2> QED
    BY <1>2, <2>2, <2>3 DEF Underway
<1>4. exit' \in {0, -3} /\ exit' \notin {-1, -2, -4}
  BY <1>1
<1>5. exit' # Running
  BY <1>4, CompilerAssumption
<1>6. exit' = 0 <=> allOk
  BY <1>1
<1>7. \A f \in Requested(opts) : f # "output" => files[f] = "whole"
  BY <1>3 DEF Requested
<1>8. exit' = 0 => \A f \in Requested(opts) : files[f] = "whole"
  BY <1>3, <1>6, <1>7 DEF Requested
<1>9. exit' = -3 => \A f \in Requested(opts) : files[f] = "whole" <=> f # "output"
  BY <1>1, <1>3, <1>7
<1>10. ExitTruthful'
  BY <1>1, <1>4, <1>8, <1>9 DEF ExitTruthful
<1> QED
  BY <1>1, <1>5, <1>10 DEF ExitInvariant

(* Every step of tyr keeps it.                                              *)
LEMMA ExitStep ==
  ASSUME ExitInvariant, [CNext]_cvars
  PROVE  ExitInvariant'
<1>1. CASE UNCHANGED cvars
  BY <1>1 DEF ExitInvariant, ExitTruthful, Requested, Underway, cvars, own
<1>2. CASE CNext
  <2>1. exit = Running
    BY <1>2 DEF CNext, Live
  <2>2. CASE BadFileName \/ CannotOpen \/ ParsingFailed \/ LinkFails
    <3>1. stage # "passes" /\ exit' \in {1, -1, -2, -4} /\ UNCHANGED <<stage, files>>
      BY <2>2 DEF BadFileName, CannotOpen, ParsingFailed, LinkFails, Exit
    <3> QED
      BY <2>1, <3>1, EarlyExit
  <2>3. CASE OutputBroken \/ HeaderBroken \/ BuildFileBroken
    <3>1. exit' = 1 /\ UNCHANGED stage
      BY <2>3, BrokenWays DEF HeaderBroken, BuildFileBroken, Exit
    <3> QED
      BY <3>1, BrokenStream
  <2>4. CASE OpenFile
    BY <2>1, <2>4, NotEnded DEF OpenFile, ExitInvariant
  <2>5. CASE ParseStep \/ LinkMissing
    <3>1. UNCHANGED own
      BY <2>5 DEF ParseStep, LinkMissing, Die
    <3> QED
      BY <3>1 DEF ExitInvariant, ExitTruthful, Requested, Underway, own
  <2>6. CASE RegisterPasses
    <3>1. /\ stage = "parse" /\ stage' = "link"
          /\ opts' \in Options /\ passes' = Registered(opts')
          /\ UNCHANGED <<allOk, files, exit>>
      BY <2>6 DEF RegisterPasses
    <3> QED
      BY <2>1, <3>1, NotEnded DEF ExitInvariant
  <2>7. CASE LinkRuntime
    <3>1. /\ stage = "link" /\ stage' = "passes"
          /\ UNCHANGED <<opts, passes, allOk, files, exit>>
      BY <2>7 DEF LinkRuntime
    <3>2. /\ opts \in Options /\ passes = Registered(opts)
          /\ files = NoFiles /\ allOk = TRUE
      BY <2>1, <3>1 DEF ExitInvariant
    <3>3. passes = <<"irgen", opts.emit>> \o Bindings(opts)
      BY <3>2, PassOrder
    <3>4. NoFiles \in [{"output", "header", "build"} -> {"none", "torn", "whole"}]
      BY DEF NoFiles
    <3>5. Underway'
      BY <3>1, <3>2, <3>3, <3>4 DEF Underway
    <3> QED
      BY <2>1, <3>1, <3>5, NotEnded DEF ExitInvariant
  <2>8. ASSUME NEW n \in DOMAIN structs, VisitStruct(n) PROVE ExitInvariant'
    <3>1. UNCHANGED <<stage, opts, passes, allOk, files, exit>>
      BY <2>8 DEF VisitStruct
    <3> QED
      BY <3>1 DEF ExitInvariant, ExitTruthful, Requested, Underway
  <2>9. CASE GenerationDone \/ OutputPass \/ BindingPass
    <3>1. stage = "passes" /\ UNCHANGED <<stage, exit>>
      BY <2>9, OutputWays DEF GenerationDone, BindingPass, Turn, Kept
    <3>2. Underway'
      BY <2>1, <2>9, <3>1, GenerationStep, OutputStep, BindingStep DEF ExitInvariant
    <3> QED
      BY <2>1, <3>1, <3>2, NotEnded DEF ExitInvariant
  <2>10. CASE Return
    BY <2>1, <2>10, ReturnStep
  <2> QED
    BY <1>2, <2>2, <2>3, <2>4, <2>5, <2>6, <2>7, <2>8, <2>9, <2>10
    DEF CNext, OutputPass, OutputBroken
<1> QED
  BY <1>1, <1>2

(* For every input file and command line, and whatever fails on the way:    *)
(* if tyr returns 0 every file that was asked for is written whole; if it   *)
(* returns CODEGEN_FAILED the bindings are and the code is not; and the     *)
(* failures before the passes leave nothing behind.                         *)
THEOREM ExitCodeTruthful == CSpec => []ExitTruthful
<1>1. CInit => ExitInvariant
  <2>1. ASSUME CInit PROVE ExitInvariant
    <3>1. exit = Running /\ stage = "start" /\ files = NoFiles /\ allOk
      BY <2>1 DEF CInit, NoFiles
    <3>2. Running # 0 /\ Running # -3 /\ Running \notin {-1, -2, -4}
      BY CompilerAssumption
    <3> QED
      BY <3>1, <3>2 DEF ExitInvariant, ExitTruthful
  <2> QED
    BY <2>1
<1>2. ExitInvariant /\ [CNext]_cvars => ExitInvariant'
  BY ExitStep
<1>3. ExitInvariant => ExitTruthful
  BY DEF ExitInvariant
<1> QED
  BY <1>1, <1>2, <1>3, PTL DEF CSpec
-----------------------------------------------------------------------------
(* What the passes know of the table: counts have their arrays behind them, *)
(* and what was finalized last is sorted                                    *)

Led(fs) ==
  \A i \in DOMAIN fs :
    fs[i].kind = "count" => i + 1 \in DOMAIN fs /\ fs[i + 1] = [fs[i] EXCEPT !.kind = "array"]

Sorted(fs) == \A i, j \in DOMAIN fs : i < j => FieldSize(fs[i]) <= FieldSize(fs[j])

(* Added fields bring their array along.                                    *)
LEMMA AddKeepsLed ==
  ASSUME NEW S, NEW fs \in Seq(S), Led(fs), NEW name, NEW t, NEW mut, NEW repeated \in BOOLEAN,
         FieldsFor(name, t, mut, repeated) \in Seq(S)
  PROVE  Led(fs \o FieldsFor(name, t, mut, repeated))
<1> DEFINE s == Scalar(name, t, mut)
           c == [s EXCEPT !.kind = "count"]
           a == [s EXCEPT !.kind = "array"]
           new == FieldsFor(name, t, mut, repeated)
<1>1. new = IF repeated THEN <<c, a>> ELSE <<s>>
  BY DEF FieldsFor
<1>2. s.kind = "scalar" /\ a.kind = "array" /\ c.kind = "count" /\ a = [c EXCEPT !.kind = "array"]
  BY DEF Scalar
<1>3. /\ Len(new) = IF repeated THEN 2 ELSE 1
      /\ repeated => new[1] = c /\ new[2] = a
      /\ ~repeated => new[1] = s
  BY <1>1
<1> HIDE DEF s, c, a, new
<1>4. /\ Len(fs) \in Nat /\ Len(new) \in Nat
      /\ DOMAIN fs = 1..Len(fs) /\ DOMAIN (fs \o new) = 1..(Len(fs) + Len(new))
      /\ \A i \in 1..(Len(fs) + Len(new)) :
           (fs \o new)[i] = IF i <= Len(fs) THEN fs[i] ELSE new[i - Len(fs)]
  <2>1. fs \in Seq(S) /\ new \in Seq(S)
    BY DEF new
  <2> QED
    BY <2>1, ConcatProperties
<1>5. ASSUME NEW i \in DOMAIN (fs \o new), (fs \o new)[i].kind = "count"
      PROVE  /\ i + 1 \in DOMAIN (fs \o new)
             /\ (fs \o new)[i + 1] = [(fs \o new)[i] EXCEPT !.kind = "array"]
  <2>1. CASE i <= Len(fs)
    <3>1. i \in DOMAIN fs /\ (fs \o new)[i] = fs[i]
      BY <1>4, <2>1
    <3>2. i + 1 \in DOMAIN fs /\ fs[i + 1] = [fs[i] EXCEPT !.kind = "array"]
      BY <1>5, <3>1 DEF Led
    <3>3. (fs \o new)[i + 1] = fs[i + 1] /\ i + 1 \in DOMAIN (fs \o new)
      BY <1>4, <3>2
    <3> QED
      BY <3>1, <3>2, <3>3
  <2>2. CASE i > Len(fs)
    <3>1. (fs \o new)[i] = new[i - Len(fs)] /\ i - Len(fs) \in 1..Len(new)
      BY <1>4, <2>2
    <3>2. repeated /\ i - Len(fs) = 1
      <4>1. new[i - Len(fs)].kind = "count"
        BY <1>5, <3>1
      <4>2. CASE repeated
        <5>1. i - Len(fs) \in {1, 2}
          BY <1>3, <3>1, <4>2
        <5> QED
          BY <1>2, <1>3, <4>1, <4>2, <5>1
      <4>3. CASE ~repeated
        <5>1. i - Len(fs) = 1
          BY <1>3, <3>1, <4>3
        <5> QED
          BY <1>2, <1>3, <4>1, <4>3, <5>1
      <4> QED
        BY <4>2, <4>3
    <3>3. (fs \o new)[i] = c /\ (fs \o new)[i + 1] = a /\ i + 1 \in DOMAIN (fs \o new)
      BY <1>3, <1>4, <3>2
    <3> QED
      BY <1>2, <3>3
  <2> QED
    BY <1>4, <2>1, <2>2
<1> QED
  BY <1>5 DEF Led, new

(* Of every count in the struct there is the array, wherever it is.         *)
Mated(fs) ==
  \A f \in Range(fs) : f.kind = "count" => [f EXCEPT !.kind = "array"] \in Range(fs)

Ordered(fs) == Mated(fs) /\ (Len(fs) <= StableUpTo => Led(fs))

(* The sort keeps them together.                                            *)
LEMMA SortKeepsLed ==
  ASSUME NEW S, NEW fs \in Seq(S), Len(fs) <= StableUpTo, Led(fs), NEW new \in SortBySize(fs)
  PROVE  Led(new)
<1>1. /\ DOMAIN fs = 1..Len(fs) /\ Len(fs) \in Nat
      /\ new \in Seq(S) /\ DOMAIN new = DOMAIN fs
  BY SortPermutes
<1>2. \A j \in DOMAIN fs : Rank(fs, j) \in DOMAIN fs /\ new[Rank(fs, j)] = fs[j]
  BY StableSort
<1>3. ASSUME NEW k \in DOMAIN new, new[k].kind = "count"
      PROVE  k + 1 \in DOMAIN new /\ new[k + 1] = [new[k] EXCEPT !.kind = "array"]
  <2>1. PICK j \in DOMAIN fs : k = Rank(fs, j) /\ new[k] = fs[j]
    <3>1. PICK j \in DOMAIN fs : Rank(fs, j) = k
      BY <1>1, RankBijection
    <3> QED
      BY <1>2, <3>1
  <2>2. j + 1 \in DOMAIN fs /\ fs[j + 1] = [fs[j] EXCEPT !.kind = "array"]
    BY <1>3, <2>1 DEF Led
  <2>3. fs[j].kind = "count" /\ fs[j + 1].kind \in {"array", "count"}
    BY <1>3, <2>1, <2>2
  <2>4. FieldSize(fs[j]) = FieldSize(fs[j + 1])
    BY <2>3 DEF FieldSize
  <2>5. Rank(fs, j + 1) = Rank(fs, j) + 1
    <3>1. PICK i \in DOMAIN fs : i = j + 1
      BY <2>2
    <3>2. i > 1 /\ i - 1 = j
      BY <1>1, <3>1
    <3>3. Rank(fs, i) = Rank(fs, i - 1) + 1
      BY <2>4, <3>1, <3>2, SortKeepsNeighbours
    <3> QED
      BY <3>1, <3>2, <3>3
  <2>6. Rank(fs, j + 1) \in DOMAIN fs /\ new[Rank(fs, j + 1)] = fs[j + 1]
    BY <1>2, <2>2
  <2>7. k + 1 = Rank(fs, j + 1)
    BY <1>1, <2>1, <2>5
  <2> QED
    BY <1>1, <2>1, <2>2, <2>6, <2>7
<1> QED
  BY <1>3 DEF Led

(* The sort sorts.                                                          *)
LEMMA SortSorts ==
  ASSUME NEW S, NEW fs \in Seq(S), NEW new \in SortBySize(fs)
  PROVE  Sorted(new)
<1>1. /\ DOMAIN fs = 1..Len(fs) /\ Len(fs) \in Nat
      /\ new \in Seq(S) /\ DOMAIN new = DOMAIN fs
  BY SortPermutes
<1>2. PICK r \in Places(fs) : \A j \in DOMAIN fs : r[j] \in DOMAIN fs /\ new[r[j]] = fs[j]
  BY SortPermutes
<1>3. /\ \A k \in DOMAIN fs : \E j \in DOMAIN fs : r[j] = k
      /\ \A i, j \in DOMAIN fs : FieldSize(fs[i]) < FieldSize(fs[j]) => r[i] < r[j]
  BY PlacesPermute
<1>4. ASSUME NEW k \in DOMAIN fs, NEW m \in DOMAIN fs, k < m
      PROVE  FieldSize(new[k]) <= FieldSize(new[m])
  <2>1. PICK i \in DOMAIN fs : r[i] = k
    BY <1>3
  <2>2. PICK j \in DOMAIN fs : r[j] = m
    BY <1>3
  <2>3. new[k] = fs[i] /\ new[m] = fs[j]
    BY <1>2, <2>1, <2>2
  <2>4. k \in Nat /\ m \in Nat
    BY <1>1
  <2>5. ~(FieldSize(fs[j]) < FieldSize(fs[i]))
    <3>1. FieldSize(fs[j]) < FieldSize(fs[i]) => m < k
      BY <1>3, <2>1, <2>2
    <3> QED
      BY <1>4, <2>4, <3>1
  <2>6. FieldSize(fs[i]) \in Nat /\ FieldSize(fs[j]) \in Nat
    BY FieldSizeType
  <2> QED
    BY <2>3, <2>5, <2>6
<1> QED
  BY <1>1, <1>4 DEF Sorted

(* Two sequences one after the other have the elements of both.            *)
LEMMA ConcatRange ==
  ASSUME NEW S, NEW s \in Seq(S), NEW r \in Seq(S)
  PROVE  Range(s \o r) = Range(s) \cup Range(r)
<1>1. /\ DOMAIN s = 1..Len(s) /\ DOMAIN r = 1..Len(r) /\ Len(s) \in Nat /\ Len(r) \in Nat
      /\ DOMAIN (s \o r) = 1..(Len(s) + Len(r))
      /\ \A i \in 1..(Len(s) + Len(r)) : (s \o r)[i] = IF i <= Len(s) THEN s[i] ELSE r[i - Len(s)]
  BY ConcatProperties
<1>2. \A i \in DOMAIN s : i \in DOMAIN (s \o r) /\ (s \o r)[i] = s[i]
  BY <1>1
<1>3. ASSUME NEW i \in DOMAIN r PROVE (s \o r)[Len(s) + i] = r[i] /\ Len(s) + i \in DOMAIN (s \o r)
  BY <1>1
<1>4. \A i \in DOMAIN (s \o r) : i \in DOMAIN s \/ (i - Len(s) \in DOMAIN r /\ (s \o r)[i] = r[i - Len(s)])
  BY <1>1
<1>5. ASSUME NEW x \in Range(s) PROVE x \in Range(s \o r)
  BY <1>2 DEF Range
<1>6. ASSUME NEW x \in Range(r) PROVE x \in Range(s \o r)
  <2>1. PICK i \in DOMAIN r : r[i] = x
    BY DEF Range
  <2>2. (s \o r)[Len(s) + i] = x /\ Len(s) + i \in DOMAIN (s \o r)
    BY <1>3, <2>1
  <2> QED
    BY <2>2, Zenon DEF Range
<1>7. ASSUME NEW x \in Range(s \o r) PROVE x \in Range(s) \cup Range(r)
  BY <1>1, <1>2, <1>4 DEF Range
<1> QED
  BY <1>5, <1>6, <1>7

(* Added fields keep the order.                                             *)
LEMMA AddKeepsOrder ==
  ASSUME NEW S, NEW fs \in Seq(S), Ordered(fs),
         NEW name, NEW t, NEW mut, NEW repeated \in BOOLEAN,
         FieldsFor(name, t, mut, repeated) \in Seq(S)
  PROVE  Ordered(fs \o FieldsFor(name, t, mut, repeated))
<1> DEFINE s == Scalar(name, t, mut)
           c == [s EXCEPT !.kind = "count"]
           a == [s EXCEPT !.kind = "array"]
           new == FieldsFor(name, t, mut, repeated)
<1>1. new = IF repeated THEN <<c, a>> ELSE <<s>>
  BY DEF FieldsFor
<1>2. s.kind = "scalar" /\ a.kind = "array" /\ a = [c EXCEPT !.kind = "array"]
  BY DEF Scalar
<1>3. Mated(new)
  <2> HIDE DEF s, c, a
  <2>1. Range(<<c, a>>) = {c, a} /\ Range(<<s>>) = {s}
    BY DEF Range
  <2> QED
    BY <1>1, <1>2, <2>1 DEF Mated
<1>4. Range(fs \o new) = Range(fs) \cup Range(new)
  BY ConcatRange
<1>5. Mated(fs \o new)
  <2> HIDE DEF new
  <2> QED
    BY <1>3, <1>4 DEF Mated, Ordered
<1>6. Len(fs \o new) <= StableUpTo => Len(fs) <= StableUpTo
  <2>1. Len(fs) \in Nat /\ Len(new) \in Nat /\ Len(fs \o new) = Len(fs) + Len(new)
    OBVIOUS
  <2> HIDE DEF new
  <2> QED
    BY <2>1, ParserAssumption
<1>7. Len(fs) <= StableUpTo => Led(fs \o new)
  BY AddKeepsLed DEF Ordered
<1> QED
  BY <1>5, <1>6, <1>7 DEF Ordered

(* So does the sort.                                                        *)
LEMMA SortKeepsOrder ==
  ASSUME NEW S, NEW fs \in Seq(S), Ordered(fs), NEW new \in SortBySize(fs)
  PROVE  Ordered(new)
<1>1. Range(new) = Range(fs)
  BY SortKeepsRange
<1>2. Len(new) = Len(fs)
  BY SortPermutes
<1>3. Len(fs) <= StableUpTo => Led(new)
  BY SortKeepsLed DEF Ordered
<1> QED
  BY <1>1, <1>2, <1>3 DEF Ordered, Mated

(* A field is named by a word of the file; one of a struct type remembers a *)
(* version of it.                                                           *)
Remembers(f) ==
  /\ f.name \in Words
  /\ f.type \in Builtin => f.of = 0
  /\ f.type \notin Builtin => f.of \in 1..structs[f.type].version

TableInv ==
  /\ TableOK /\ CountFirst
  /\ Builtin \cap DOMAIN structs = {} /\ None \notin DOMAIN structs
  /\ \A n \in DOMAIN structs :
       /\ Ordered(structs[n].fields)
       /\ structs[n].version # 0 /\ structs[n].typed = Len(structs[n].fields) =>
            Sorted(structs[n].fields)
       /\ n # current => structs[n].version # 0 /\ structs[n].typed = Len(structs[n].fields)
       /\ \A f \in Range(structs[n].fields) : Remembers(f)

(* A new field remembers the version its type has.                          *)
LEMMA AddRemembers ==
  ASSUME TableInv, NEW name, NEW t, NEW mut, NEW repeated, Adds(name, t, mut, repeated),
         NEW f \in Range(FieldsFor(name, t, mut, repeated))
  PROVE  Remembers(f)
<1> DEFINE s == Scalar(name, t, mut)
           v == IF t \in DOMAIN structs THEN structs[t].version ELSE 0
<1>1. f \in {s, [s EXCEPT !.kind = "count"], [s EXCEPT !.kind = "array"]}
  <2> DEFINE c == [s EXCEPT !.kind = "count"]
             a == [s EXCEPT !.kind = "array"]
  <2>1. FieldsFor(name, t, mut, repeated) = IF repeated THEN <<c, a>> ELSE <<s>>
    BY DEF FieldsFor
  <2> HIDE DEF s, c, a
  <2>2. Range(<<c, a>>) = {c, a} /\ Range(<<s>>) = {s}
    BY DEF Range
  <2> QED
    BY <2>1, <2>2 DEF c, a
<1>2. f.type = t /\ f.of = v /\ f.name = name
  BY <1>1 DEF Scalar
<1>8. name \in Words
  BY DEF Adds
<1>3. t \in Builtin \cup DOMAIN structs /\ (t \notin Builtin => structs[t].version # 0)
  BY DEF Adds, Type
<1>4. t \in DOMAIN structs => structs[t].version \in Nat
  BY DEF TableInv, TableOK, Struct
<1>5. Builtin \cap DOMAIN structs = {}
  BY DEF TableInv
<1> HIDE DEF v
<1>6. t \in Builtin => v = 0
  BY <1>5 DEF v
<1>7. t \notin Builtin => v \in 1..structs[t].version
  BY <1>3, <1>4 DEF v
<1> QED
  BY <1>2, <1>6, <1>7, <1>8 DEF Remembers

(* What a field remembers stays a version of its type.                      *)
LEMMA StillRemembers ==
  ASSUME NEW f, Remembers(f), f.type \in Builtin \cup DOMAIN structs,
         \A n \in DOMAIN structs : /\ structs[n].version \in Nat /\ structs'[n].version \in Nat
                                   /\ structs[n].version <= structs'[n].version
  PROVE  Remembers(f)'
<1>1. CASE f.type \in Builtin
  BY <1>1 DEF Remembers
<1>2. CASE f.type \notin Builtin
  <2>1. f.type \in DOMAIN structs /\ f.of \in 1..structs[f.type].version
    BY <1>2 DEF Remembers
  <2>2. f.of \in 1..structs'[f.type].version
    BY <2>1
  <2> QED
    BY <1>2, <2>2 DEF Remembers
<1> QED
  BY <1>1, <1>2

(* Every line keeps all of it.                                              *)
LEMMA TableInvStep ==
  ASSUME TableInv, TableEffect, TableOK'
  PROVE  TableInv'
<1>1. CountFirst'
  BY CountFirstStep DEF TableInv
<1> DEFINE Fine(n, c, v, k, fs) ==
             /\ Ordered(fs)
             /\ v # 0 /\ k = Len(fs) => Sorted(fs)
             /\ n # c => v # 0 /\ k = Len(fs)
<1>2. \A n \in DOMAIN structs :
        /\ Fine(n, current, structs[n].version, structs[n].typed, structs[n].fields)
        /\ structs[n].fields \in Seq(Field) /\ structs[n].version \in Nat
        /\ structs[n].typed \in Nat /\ structs[n].typed <= Len(structs[n].fields)
  BY DEF TableInv, TableOK, Struct
<1>3. \A n \in DOMAIN structs' : structs'[n].version \in Nat
  BY DEF TableOK, Struct
<1>4. \A n \in DOMAIN structs : \A f \in Range(structs[n].fields) :
        Remembers(f) /\ f.type \in Builtin \cup DOMAIN structs
  <2> SUFFICES ASSUME NEW n \in DOMAIN structs, NEW f \in Range(structs[n].fields)
               PROVE  Remembers(f) /\ f.type \in Builtin \cup DOMAIN structs
    OBVIOUS
  <2>1. f \in Field
    BY <1>2 DEF Range
  <2> QED
    BY <2>1 DEF TableInv, Field, Type
<1>5. SUFFICES
        /\ Builtin \cap DOMAIN structs' = {} /\ None \notin DOMAIN structs'
        /\ \A n \in DOMAIN structs' :
             /\ Fine(n, current', structs'[n].version, structs'[n].typed, structs'[n].fields)
             /\ \A f \in Range(structs'[n].fields) : Remembers(f)'
  BY <1>1 DEF TableInv
<1>6. CASE UNCHANGED <<current, structs>>
  BY <1>6 DEF TableInv, Remembers
<1>7. ASSUME NEW n, Opens(n)
      PROVE  /\ Builtin \cap DOMAIN structs' = {} /\ None \notin DOMAIN structs'
             /\ \A m \in DOMAIN structs' :
                  /\ Fine(m, current', structs'[m].version, structs'[m].typed, structs'[m].fields)
                  /\ \A f \in Range(structs'[m].fields) : Remembers(f)'
  <2>1. /\ current = None /\ current' = n /\ n \notin Builtin \cup {None}
    BY <1>7 DEF Opens
  <2>2. /\ DOMAIN structs' = DOMAIN structs \cup {n}
        /\ \A m \in DOMAIN structs : structs'[m].fields = structs[m].fields
                                     /\ structs'[m].version = structs[m].version
                                     /\ structs'[m].typed = structs[m].typed
        /\ n \notin DOMAIN structs => structs'[n].fields = <<>> /\ structs'[n].version = 0
    BY <1>7, OpensFields DEF TableInv
  <2>3. None \notin DOMAIN structs /\ Builtin \cap DOMAIN structs = {}
    BY DEF TableInv
  <2>4. \A m \in DOMAIN structs : m # current
    BY <2>1, <2>3
  <2>5. ASSUME NEW m \in DOMAIN structs
        PROVE  /\ Fine(m, current', structs'[m].version, structs'[m].typed, structs'[m].fields)
               /\ \A f \in Range(structs'[m].fields) : Remembers(f)'
    <3>1. Fine(m, current', structs'[m].version, structs'[m].typed, structs'[m].fields)
      BY <1>2, <2>2, <2>4
    <3> HIDE DEF Fine
    <3>2. \A f \in Range(structs[m].fields) : Remembers(f)'
      <4>1. \A k \in DOMAIN structs : /\ structs[k].version \in Nat /\ structs'[k].version \in Nat
                                      /\ structs[k].version <= structs'[k].version
        BY <1>2, <2>2
      <4> QED
        BY <1>4, <4>1, StillRemembers
    <3> QED
      BY <2>2, <3>1, <3>2
  <2>6. ASSUME n \notin DOMAIN structs
        PROVE  /\ Fine(n, current', structs'[n].version, structs'[n].typed, structs'[n].fields)
               /\ \A f \in Range(structs'[n].fields) : Remembers(f)'
    <3>1. Ordered(<<>>) /\ Range(<<>>) = {}
      BY DEF Ordered, Mated, Led, Range
    <3> QED
      BY <2>1, <2>2, <2>6, <3>1
  <2> HIDE DEF Fine
  <2> QED
    BY <2>1, <2>2, <2>3, <2>5, <2>6
<1>8. ASSUME NEW name, NEW t, NEW mut, NEW repeated, Adds(name, t, mut, repeated)
      PROVE  /\ Builtin \cap DOMAIN structs' = {} /\ None \notin DOMAIN structs'
             /\ \A m \in DOMAIN structs' :
                  /\ Fine(m, current', structs'[m].version, structs'[m].typed, structs'[m].fields)
                  /\ \A f \in Range(structs'[m].fields) : Remembers(f)'
  <2> DEFINE new == FieldsFor(name, t, mut, repeated)
  <2>1. repeated \in BOOLEAN /\ UNCHANGED current
    BY <1>8 DEF Adds
  <2>2. /\ DOMAIN structs' = DOMAIN structs /\ current \in DOMAIN structs
        /\ \A m \in DOMAIN structs : structs'[m].version = structs[m].version
                                     /\ structs'[m].typed = structs[m].typed
        /\ \A m \in DOMAIN structs :
              structs'[m].fields = IF m = current
                                     THEN structs[m].fields \o new ELSE structs[m].fields
        /\ new \in Seq(Field) /\ structs[current].fields \in Seq(Field)
    BY <1>8, AddsFields DEF TableInv
  <2>3. Len(new) > 0
    BY DEF FieldsFor
  <2>4. \A f \in Range(new) : Remembers(f)
    BY <1>8, AddRemembers
  <2>5. \A f \in Range(new) : f.type \in Builtin \cup DOMAIN structs
    <3>1. \A i \in DOMAIN new : new[i] \in Field
      BY <2>2
    <3>2. \A f \in Field : f.type \in Builtin \cup DOMAIN structs
      BY DEF Field, Type
    <3> QED
      BY <3>1, <3>2 DEF Range
  <2>6. Ordered(structs[current].fields \o new)
    BY <1>2, <2>1, <2>2, AddKeepsOrder
  <2> HIDE DEF new
  <2>7. /\ Len(structs[current].fields \o new) > Len(structs[current].fields)
        /\ Range(structs[current].fields \o new) =
             Range(structs[current].fields) \cup Range(new)
    <3>1. Len(structs[current].fields \o new) > Len(structs[current].fields)
      BY <2>2, <2>3
    <3>2. Range(structs[current].fields \o new) =
             Range(structs[current].fields) \cup Range(new)
      BY <2>2, ConcatRange
    <3> QED
      BY <3>1, <3>2
  <2>8. \A k \in DOMAIN structs : /\ structs[k].version \in Nat /\ structs'[k].version \in Nat
                                  /\ structs[k].version <= structs'[k].version
    BY <1>2, <2>2
  <2>9. \A m \in DOMAIN structs : \A f \in Range(structs[m].fields) : Remembers(f)'
    BY <1>4, <2>8, StillRemembers
  <2>10. \A f \in Range(new) : Remembers(f)'
    BY <2>4, <2>5, <2>8, StillRemembers
  <2>11. ASSUME NEW m \in DOMAIN structs, m # current
         PROVE  /\ Fine(m, current', structs'[m].version, structs'[m].typed, structs'[m].fields)
                /\ \A f \in Range(structs'[m].fields) : Remembers(f)'
    <3>1. Fine(m, current', structs'[m].version, structs'[m].typed, structs'[m].fields)
      BY <1>2, <2>1, <2>2, <2>11
    <3> QED
      BY <2>2, <2>9, <2>11, <3>1
  <2>12. /\ Fine(current, current', structs'[current].version, structs'[current].typed,
                 structs'[current].fields)
         /\ \A f \in Range(structs'[current].fields) : Remembers(f)'
    <3>1. structs'[current].typed # Len(structs'[current].fields)
      <4>1. structs[current].typed <= Len(structs[current].fields)
            /\ structs[current].typed \in Nat /\ Len(structs[current].fields) \in Nat
            /\ Len(structs[current].fields \o new) \in Nat
        BY <1>2, <2>2
      <4>2. /\ structs'[current].typed = structs[current].typed
            /\ structs'[current].fields = structs[current].fields \o new
        BY <2>2
      <4> QED
        BY <2>7, <4>1, <4>2
    <3>2. structs'[current].fields = structs[current].fields \o new
      BY <2>2
    <3> QED
      BY <2>1, <2>6, <2>7, <2>9, <2>10, <2>2, <3>1, <3>2
  <2>13. Builtin \cap DOMAIN structs = {} /\ None \notin DOMAIN structs
    BY DEF TableInv
  <2> HIDE DEF Fine
  <2> QED
    BY <2>2, <2>11, <2>12, <2>13
<1>9. ASSUME NEW sorted, ClosesAs(sorted)
      PROVE  /\ Builtin \cap DOMAIN structs' = {} /\ None \notin DOMAIN structs'
             /\ \A m \in DOMAIN structs' :
                  /\ Fine(m, current', structs'[m].version, structs'[m].typed, structs'[m].fields)
                  /\ \A f \in Range(structs'[m].fields) : Remembers(f)'
  <2>1. current' = None /\ current # None
    BY <1>9 DEF ClosesAs
  <2>2. /\ DOMAIN structs' = DOMAIN structs /\ current \in DOMAIN structs
        /\ \A m \in DOMAIN structs :
             /\ structs'[m].version = IF m = current THEN structs[m].version + 1
                                                     ELSE structs[m].version
             /\ structs'[m].fields = IF m = current THEN sorted ELSE structs[m].fields
             /\ structs'[m].typed = IF m = current THEN Len(sorted) ELSE structs[m].typed
        /\ sorted \in SortBySize(structs[current].fields)
        /\ structs[current].fields \in Seq(Field)
    BY <1>9, ClosesFields DEF TableInv
  <2>3. \A k \in DOMAIN structs : /\ structs[k].version \in Nat /\ structs'[k].version \in Nat
                                  /\ structs[k].version <= structs'[k].version
    BY <1>2, <2>2
  <2>4. \A m \in DOMAIN structs : \A f \in Range(structs[m].fields) : Remembers(f)'
    BY <1>4, <2>3, StillRemembers
  <2>5. Ordered(sorted) /\ Sorted(sorted)
    BY <1>2, <2>2, SortKeepsOrder, SortSorts
  <2>6. Range(sorted) = Range(structs[current].fields)
    BY <2>2, SortKeepsRange
  <2>7. ASSUME NEW m \in DOMAIN structs, m # current
        PROVE  /\ Fine(m, current', structs'[m].version, structs'[m].typed, structs'[m].fields)
               /\ \A f \in Range(structs'[m].fields) : Remembers(f)'
    BY <1>2, <2>2, <2>4, <2>7
  <2>8. /\ Fine(current, current', structs'[current].version, structs'[current].typed,
                structs'[current].fields)
        /\ \A f \in Range(structs'[current].fields) : Remembers(f)'
    <3>1. structs[current].version \in Nat /\ structs'[current].version = structs[current].version + 1
      BY <1>2, <2>2
    <3>2. structs'[current].fields = sorted /\ structs'[current].typed = Len(sorted)
      BY <2>2
    <3> QED
      BY <2>2, <2>4, <2>5, <2>6, <3>1, <3>2
  <2>9. Builtin \cap DOMAIN structs = {} /\ None \notin DOMAIN structs
    BY DEF TableInv
  <2> HIDE DEF Fine
  <2> QED
    BY <2>2, <2>7, <2>8, <2>9
<1> HIDE DEF Fine
<1> QED
  BY <1>6, <1>7, <1>8, <1>9 DEF TableEffect, Closes

-----------------------------------------------------------------------------
(* The header declares what the module defines                              *)

(* Induction over the natural numbers, for the set of those that have the   *)
(* property.                                                                *)
LEMMA SetInduction ==
  ASSUME NEW S, 0 \in S, \A n \in Nat : n \in S => n + 1 \in S
  PROVE  Nat \subseteq S
<1> DEFINE R == OpToRel(<, Nat)
           T == Nat \ S
<1>1. IsWellFoundedOn(R, Nat)
  BY NatLessThanWellFounded
<1>2. ASSUME T # {} PROVE FALSE
  <2>1. T \subseteq Nat
    OBVIOUS
  <2> HIDE DEF R, T
  <2>2. PICK x \in T : \A y \in T : ~(<<y, x>> \in R)
    BY <1>1, <1>2, <2>1, WFMin
  <2>3. x \in Nat /\ x # 0 /\ x - 1 \in Nat /\ x - 1 + 1 = x
    BY <2>2 DEF T
  <2>4. x - 1 \in T
    BY <2>2, <2>3 DEF T
  <2>5. <<x - 1, x>> \in R
    BY <2>3 DEF R, OpToRel
  <2> QED
    BY <2>2, <2>4, <2>5
<1> QED
  BY <1>2

(* The recursion by which FlattenSeq is defined.                            *)
Flattened(s, n, f) == f = [i \in 1..n |-> IF i = 1 THEN s[i] ELSE f[i - 1] \o s[i]]

(* It has a solution, and FlattenSeq takes the last value of one.           *)
LEMMA FlattenUnfolds ==
  ASSUME NEW s, Len(s) \in Nat \ {0}
  PROVE  \E f : Flattened(s, Len(s), f) /\ FlattenSeq(s) = f[Len(s)]
<1> DEFINE Solved == {n \in Nat : \E f : Flattened(s, n, f)}
<1>1. 0 \in Solved
  <2> DEFINE f == [i \in {} |-> s]
  <2>1. 1..0 = {}
    OBVIOUS
  <2>2. Flattened(s, 0, f)
    BY <2>1 DEF Flattened
  <2> HIDE DEF f
  <2> QED
    BY <2>2
<1>2. ASSUME NEW n \in Nat, n \in Solved PROVE n + 1 \in Solved
  <2>1. PICK f : Flattened(s, n, f)
    BY <1>2
  <2> DEFINE g == [i \in 1..(n + 1) |-> IF i = 1 THEN s[i] ELSE f[i - 1] \o s[i]]
  <2>2. \A i \in 1..n : f[i] = IF i = 1 THEN s[i] ELSE f[i - 1] \o s[i]
    BY <2>1 DEF Flattened
  <2>3. \A i \in 1..(n + 1) : g[i] = IF i = 1 THEN s[i] ELSE f[i - 1] \o s[i]
    OBVIOUS
  <2>4. DOMAIN g = 1..(n + 1) /\ g = [i \in DOMAIN g |-> g[i]]
    OBVIOUS
  <2> HIDE DEF g
  <2>5. ASSUME NEW i \in 1..n PROVE g[i] = f[i]
    <3>1. i \in 1..(n + 1)
      OBVIOUS
    <3> QED
      BY <2>2, <2>3, <3>1
  <2>6. ASSUME NEW i \in 1..(n + 1), i # 1 PROVE g[i - 1] = f[i - 1]
    <3>1. i - 1 \in 1..n
      BY <2>6
    <3> QED
      BY <2>5, <3>1
  <2>7. \A i \in 1..(n + 1) : g[i] = IF i = 1 THEN s[i] ELSE g[i - 1] \o s[i]
    BY <2>3, <2>6
  <2>8. Flattened(s, n + 1, g)
    BY <2>4, <2>7 DEF Flattened
  <2> QED
    BY <2>8
<1>3. Nat \subseteq Solved
  <2> HIDE DEF Solved
  <2> QED
    BY <1>1, <1>2, SetInduction
<1>4. \E f : Flattened(s, Len(s), f)
  BY <1>3
<1> DEFINE c == CHOOSE f : Flattened(s, Len(s), f)
<1>5. Flattened(s, Len(s), c)
  BY <1>4
<1>6. FlattenSeq(s) = c[Len(s)]
  BY DEF FlattenSeq, Flattened
<1> QED
  BY <1>5, <1>6

(* The parameters that the module and the header have for a field.          *)
InModule(f) == IF f.mut THEN <<>> ELSE <<ValueType(f)>>

InHeader(f) ==
  IF f.kind = "count" \/ f.mut THEN <<>>
  ELSE IF f.kind = "array" THEN <<Uint64, ValueType(f)>> ELSE <<ValueType(f)>>

(* A count that the module takes by itself, the header takes together with  *)
(* its array.                                                               *)
LEMMA SameParameters ==
  ASSUME NEW fs \in Seq(Field), CountsLead(fs), Led(fs)
  PROVE  FlattenSeq([i \in DOMAIN fs |-> InModule(fs[i])])
         = FlattenSeq([i \in DOMAIN fs |-> InHeader(fs[i])])
<1> DEFINE m == [i \in DOMAIN fs |-> InModule(fs[i])]
           h == [i \in DOMAIN fs |-> InHeader(fs[i])]
           N == Len(fs)
           V == {ValueType(fs[i]) : i \in DOMAIN fs} \cup {Uint64}
<1>1. DOMAIN fs = 1..N /\ N \in Nat
  OBVIOUS
<1>4. \A i \in DOMAIN fs : fs[i] \in [kind : {"scalar", "count", "array"}, name : STRING,
                                     type : Type, mut : BOOLEAN, of : Nat]
  <2>1. \A i \in DOMAIN fs : fs[i] \in Field
    OBVIOUS
  <2> QED
    BY <2>1 DEF Field
<1>2. CASE N = 0
  <2>1. DOMAIN fs = {}
    BY <1>1, <1>2
  <2>2. m = h
    BY <2>1
  <2> HIDE DEF m, h
  <2>3. FlattenSeq(m) = FlattenSeq(h)
    BY <2>2
  <2> QED
    BY <2>3 DEF m, h
<1>3. CASE N # 0
  <2> DEFINE Alone(i) == fs[i].kind = "count" /\ ~fs[i].mut
             Joined(i) == fs[i].kind = "array" /\ ~fs[i].mut
  <2>1. \A i \in 1..N : ValueType(fs[i]) \in V /\ Uint64 \in V
    BY <1>1
  <2>2. \A i \in 1..N : fs[i].kind = "count" => ValueType(fs[i]) = Uint64
    BY DEF ValueType, Uint64
  <2> HIDE DEF V
  <2>3. ASSUME NEW i \in 1..N
        PROVE  /\ m[i] \in Seq(V) /\ h[i] \in Seq(V)
               /\ Alone(i) => m[i] = <<Uint64>> /\ h[i] = <<>>
               /\ Joined(i) => m[i] = <<ValueType(fs[i])>> /\ h[i] = <<Uint64, ValueType(fs[i])>>
               /\ ~Alone(i) /\ ~Joined(i) => m[i] = h[i]
    <3>1. m[i] = InModule(fs[i]) /\ h[i] = InHeader(fs[i])
      BY <1>1
    <3>2. ValueType(fs[i]) \in V /\ Uint64 \in V
      BY <2>1
    <3>3. /\ InModule(fs[i]) \in {<<>>, <<ValueType(fs[i])>>}
          /\ InHeader(fs[i]) \in {<<>>, <<ValueType(fs[i])>>, <<Uint64, ValueType(fs[i])>>}
      BY DEF InModule, InHeader
    <3> HIDE DEF m, h
    <3>4. m[i] \in Seq(V) /\ h[i] \in Seq(V)
      <4> DEFINE v == ValueType(fs[i])
      <4>1. v \in V /\ Uint64 \in V
        BY <3>2
      <4>2. /\ m[i] \in {<<>>, <<v>>}
            /\ h[i] \in {<<>>, <<v>>, <<Uint64, v>>}
        BY <3>1, <3>3
      <4> HIDE DEF v
      <4>3. <<>> \in Seq(V)
        OBVIOUS
      <4>4. <<v>> \in Seq(V)
        BY <4>1
      <4>5. <<Uint64, v>> \in Seq(V)
        BY <4>1
      <4> QED
        BY <4>2, <4>3, <4>4, <4>5
    <3>5. Alone(i) => m[i] = <<Uint64>> /\ h[i] = <<>>
      BY <2>2, <3>1 DEF InModule, InHeader
    <3>6. Joined(i) => m[i] = <<ValueType(fs[i])>> /\ h[i] = <<Uint64, ValueType(fs[i])>>
      BY <3>1 DEF InModule, InHeader
    <3>7. ~Alone(i) /\ ~Joined(i) => m[i] = h[i]
      BY <1>1, <3>1 DEF InModule, InHeader
    <3> QED
      BY <3>4, <3>5, <3>6, <3>7
  <2>4. DOMAIN m = 1..N /\ DOMAIN h = 1..N /\ Len(m) = N /\ Len(h) = N
    <3>1. m \in [1..N -> Seq(V)] /\ h \in [1..N -> Seq(V)]
      BY <1>1, <2>3
    <3> HIDE DEF m, h
    <3> QED
      BY <1>1, <3>1
  <2> HIDE DEF m, h
  <2>5. PICK a : Flattened(m, N, a) /\ FlattenSeq(m) = a[N]
    BY <1>1, <1>3, <2>4, FlattenUnfolds
  <2>6. PICK b : Flattened(h, N, b) /\ FlattenSeq(h) = b[N]
    BY <1>1, <1>3, <2>4, FlattenUnfolds
  <2>7. \A i \in 1..N : /\ a[i] = IF i = 1 THEN m[i] ELSE a[i - 1] \o m[i]
                        /\ b[i] = IF i = 1 THEN h[i] ELSE b[i - 1] \o h[i]
    BY <2>5, <2>6 DEF Flattened
  <2>8. ASSUME NEW i \in 1..N
        PROVE  /\ Joined(i) => i # 1 /\ Alone(i - 1)
               /\ ~Joined(i) => i = 1 \/ ~Alone(i - 1)
               /\ i # 1 => i - 1 \in 1..N
    <3>1. i # 1 => i - 1 \in 1..N /\ i - 1 + 1 = i
      BY <1>1
    <3>2. ASSUME Joined(i) PROVE i # 1 /\ Alone(i - 1)
      <4>1. i > 1 /\ fs[i - 1] = [fs[i] EXCEPT !.kind = "count"]
        BY <1>1, <3>2 DEF CountsLead
      <4>2. fs[i - 1].mut = fs[i].mut /\ fs[i - 1].kind = "count"
        <5>1. fs[i] \in [kind : {"scalar", "count", "array"}, name : STRING,
                         type : Type, mut : BOOLEAN, of : Nat]
          BY <1>1, <1>4
        <5> QED
          BY <4>1, <5>1
      <4> QED
        BY <3>2, <4>1, <4>2
    <3>3. ASSUME i # 1, Alone(i - 1) PROVE Joined(i)
      <4>1. fs[i] = [fs[i - 1] EXCEPT !.kind = "array"]
        BY <1>1, <3>1, <3>3 DEF Led
      <4>2. fs[i - 1] \in [kind : {"scalar", "count", "array"}, name : STRING,
                           type : Type, mut : BOOLEAN, of : Nat]
        BY <1>1, <1>4, <3>1, <3>3
      <4> QED
        BY <3>3, <4>1, <4>2
    <3> QED
      BY <3>1, <3>2, <3>3
  <2> DEFINE Same(i) == /\ a[i] \in Seq(V) /\ b[i] \in Seq(V)
                        /\ a[i] = IF Alone(i) THEN b[i] \o <<Uint64>> ELSE b[i]
             Good == {i \in Nat : i \in 1..N => Same(i)}
  <2>9. 0 \in Good
    BY <1>1
  <2>10. ASSUME NEW j \in Nat, j \in Good PROVE j + 1 \in Good
    <3>1. SUFFICES ASSUME j + 1 \in 1..N PROVE Same(j + 1)
      OBVIOUS
    <3> DEFINE i == j + 1
    <3>2. i \in 1..N /\ i - 1 = j
      BY <3>1
    <3> HIDE DEF i, Alone, Joined
    <3>3. CASE i = 1
      <4>1. a[i] = m[i] /\ b[i] = h[i] /\ ~Joined(i)
        BY <2>7, <2>8, <3>2, <3>3
      <4>2. CASE Alone(i)
        <5>1. a[i] = <<Uint64>> /\ b[i] = <<>>
          BY <2>3, <3>2, <4>1, <4>2
        <5>2. <<Uint64>> \in Seq(V)
          BY <2>3, <3>2, <4>1, <5>1
        <5>3. <<Uint64>> = <<>> \o <<Uint64>>
          BY <5>2, ConcatEmptySeq
        <5> QED
          BY <2>3, <3>2, <4>1, <4>2, <5>1, <5>3 DEF i
      <4>3. CASE ~Alone(i)
        BY <2>3, <3>2, <4>1, <4>3 DEF i
      <4> QED
        BY <4>2, <4>3
    <3>4. CASE i # 1
      <4>1. a[i] = a[j] \o m[i] /\ b[i] = b[j] \o h[i]
        BY <2>7, <3>2, <3>4
      <4>2. Same(j)
        <5>1. j \in 1..N
          BY <2>8, <3>2, <3>4
        <5> QED
          BY <2>10, <5>1
      <4>3. a[j] \in Seq(V) /\ b[j] \in Seq(V) /\ m[i] \in Seq(V) /\ h[i] \in Seq(V)
        BY <2>3, <3>2, <4>2
      <4>4. a[i] \in Seq(V) /\ b[i] \in Seq(V)
        BY <4>1, <4>3
      <4>5. CASE Joined(i)
        <5>1. /\ a[j] = b[j] \o <<Uint64>>
              /\ m[i] = <<ValueType(fs[i])>> /\ h[i] = <<Uint64, ValueType(fs[i])>>
          BY <2>3, <2>8, <3>2, <4>2, <4>5
        <5>2. ValueType(fs[i]) \in V /\ Uint64 \in V
          BY <2>1, <3>2
        <5>3. <<Uint64, ValueType(fs[i])>> = <<Uint64>> \o <<ValueType(fs[i])>>
              /\ <<Uint64>> \in Seq(V) /\ <<ValueType(fs[i])>> \in Seq(V)
          BY <5>2
        <5>4. a[i] = b[i]
          BY <4>1, <4>3, <5>1, <5>3, ConcatAssociative
        <5>5. ~Alone(i)
          BY <4>5 DEF Alone, Joined
        <5> QED
          BY <4>4, <5>4, <5>5 DEF i
      <4>6. CASE ~Joined(i)
        <5>1. a[j] = b[j]
          BY <2>8, <3>2, <3>4, <4>2, <4>6
        <5>2. CASE Alone(i)
          <6>1. m[i] = <<Uint64>> /\ h[i] = <<>>
            BY <2>3, <3>2, <5>2
          <6>2. b[i] = b[j]
            BY <4>1, <4>3, <6>1, ConcatEmptySeq
          <6> QED
            BY <4>1, <4>4, <5>1, <5>2, <6>1, <6>2 DEF i
        <5>3. CASE ~Alone(i)
          <6>1. m[i] = h[i]
            BY <2>3, <3>2, <4>6, <5>3
          <6> QED
            BY <4>1, <4>4, <5>1, <5>3, <6>1 DEF i
        <5> QED
          BY <5>2, <5>3
      <4> QED
        BY <4>5, <4>6
    <3> QED
      BY <3>3, <3>4
  <2>11. N \in Good
    <3> HIDE DEF Good
    <3>1. Nat \subseteq Good
      BY <2>9, <2>10, SetInduction
    <3> QED
      BY <1>1, <3>1
  <2>12. ~Alone(N)
    <3>1. ~(N + 1 \in DOMAIN fs) /\ N \in DOMAIN fs
      BY <1>1, <1>3
    <3> QED
      BY <3>1 DEF Led
  <2>13. a[N] = b[N]
    BY <1>1, <1>3, <2>11, <2>12
  <2> QED
    BY <2>5, <2>6, <2>13 DEF m, h
<1> QED
  BY <1>2, <1>3

(* What the visit of a struct puts into the module.                         *)
Made(n) ==
  (UNION {FieldFunctions(n, f) : f \in Range(structs[n].fields)}) \cup StructFunctions(n)

(* create is declared as it is defined.                                     *)
LEMMA ConstructorDeclared ==
  ASSUME TableInv, NEW n \in DOMAIN structs, Len(structs[n].fields) <= StableUpTo
  PROVE  HeaderConstructor(n) = Constructor(n)
<1> DEFINE fs == structs[n].fields
<1>1. fs \in Seq(Field) /\ CountsLead(fs) /\ Led(fs)
  BY FieldsAreSequences DEF TableInv, CountFirst, Ordered
<1>2. Constructor(n) = Function(<<"create", n>>, FlattenSeq([i \in DOMAIN fs |-> InModule(fs[i])]))
  BY DEF Constructor, Parameters, InModule
<1>3. HeaderConstructor(n)
        = Function(<<"create", n>>, FlattenSeq([i \in DOMAIN fs |-> InHeader(fs[i])]))
  BY DEF HeaderConstructor, Parameters, InHeader
<1> HIDE DEF fs
<1> QED
  BY <1>1, <1>2, <1>3, SameParameters

(* The functions that a field has in the module.                            *)
LEMMA FunctionsMade ==
  ASSUME NEW n, NEW f
  PROVE  /\ Function(<<"get", n, structs[n].version, FieldName(f)>>, <<Ref(ValueType(f))>>) \in FieldFunctions(n, f)
         /\ f.kind = "array" =>
              /\ Function(<<"get", n, structs[n].version, f.name \o "_item">>, <<Uint64, ValueType(f)>>)
                   \in FieldFunctions(n, f)
              /\ Function(<<"set", n, structs[n].version, f.name \o "_item">>, <<Uint64, ItemType(f)>>)
                   \in FieldFunctions(n, f)
         /\ f.mut /\ f.kind = "array" =>
              Function(<<"set", n, structs[n].version, f.name>>, <<ValueType(f), Uint64>>) \in FieldFunctions(n, f)
         /\ f.mut /\ f.kind = "scalar" =>
              Function(<<"set", n, structs[n].version, f.name>>, <<ValueType(f)>>) \in FieldFunctions(n, f)
         /\ f.kind # "count" =>
              /\ Function(<<"serialize", n, structs[n].version, f.name>>, <<>>) \in FieldFunctions(n, f)
              /\ Function(<<"deserialize", n, structs[n].version, f.name>>, <<>>) \in FieldFunctions(n, f)
<1>1. f.kind # "count" => FieldName(f) = f.name
  BY DEF FieldName
<1> QED
  BY <1>1, Zenon DEF FieldFunctions

(* The header of a struct that was closed once.                             *)
LEMMA HeaderDeclared ==
  ASSUME TableInv, NEW n \in DOMAIN structs, structs[n].version = 1,
         Len(structs[n].fields) <= StableUpTo
  PROVE  HeaderFunctions(n) \subseteq Made(n)
<1> DEFINE fs == structs[n].fields
           F(verb, name, params) == Function(<<verb, n, 1, name>>, params)
<1>1. fs \in Seq(Field) /\ CountsLead(fs)
  BY FieldsAreSequences DEF TableInv, CountFirst
<1>10. structs[n].version = 1
  OBVIOUS
<1> HIDE DEF fs
<1>2. ASSUME NEW f \in Range(fs), NEW g \in FieldFunctions(n, f)
      PROVE  g \in Made(n)
  BY DEF Made, fs
<1>11. ASSUME NEW f \in Range(fs)
       PROVE  /\ F("get", FieldName(f), <<Ref(ValueType(f))>>) \in Made(n)
              /\ f.kind = "array" =>
                   /\ F("get", f.name \o "_item", <<Uint64, ValueType(f)>>) \in Made(n)
                   /\ F("set", f.name \o "_item", <<Uint64, ItemType(f)>>) \in Made(n)
              /\ f.mut /\ f.kind = "array" =>
                   F("set", f.name, <<ValueType(f), Uint64>>) \in Made(n)
              /\ f.mut /\ f.kind = "scalar" => F("set", f.name, <<ValueType(f)>>) \in Made(n)
  <2>2. /\ F("get", FieldName(f), <<Ref(ValueType(f))>>) \in FieldFunctions(n, f)
        /\ f.kind = "array" =>
             /\ F("get", f.name \o "_item", <<Uint64, ValueType(f)>>) \in FieldFunctions(n, f)
             /\ F("set", f.name \o "_item", <<Uint64, ItemType(f)>>) \in FieldFunctions(n, f)
        /\ f.mut /\ f.kind = "array" =>
             F("set", f.name, <<ValueType(f), Uint64>>) \in FieldFunctions(n, f)
        /\ f.mut /\ f.kind = "scalar" =>
             F("set", f.name, <<ValueType(f)>>) \in FieldFunctions(n, f)
    <3> DEFINE G(verb, name, params) ==
                 Function(<<verb, n, structs[n].version, name>>, params)
    <3>1. /\ G("get", FieldName(f), <<Ref(ValueType(f))>>) \in FieldFunctions(n, f)
          /\ f.kind = "array" =>
               /\ G("get", f.name \o "_item", <<Uint64, ValueType(f)>>) \in FieldFunctions(n, f)
               /\ G("set", f.name \o "_item", <<Uint64, ItemType(f)>>) \in FieldFunctions(n, f)
          /\ f.mut /\ f.kind = "array" =>
               G("set", f.name, <<ValueType(f), Uint64>>) \in FieldFunctions(n, f)
          /\ f.mut /\ f.kind = "scalar" =>
               G("set", f.name, <<ValueType(f)>>) \in FieldFunctions(n, f)
      BY FunctionsMade, Zenon
    <3>2. ASSUME NEW verb, NEW name, NEW params PROVE G(verb, name, params) = F(verb, name, params)
      BY <1>10
    <3> HIDE DEF F, G
    <3> QED
      BY <3>1, <3>2
  <2> HIDE DEF F
  <2> QED
    BY <1>2, <2>2, Zenon
<1>3. ASSUME NEW f \in HeaderOf(n, {"scalar", "array"}, BOOLEAN)
      PROVE  F("get", f.name, <<Ref(ValueType(f))>>) \in Made(n)
  <2>1. f \in Range(fs) /\ FieldName(f) = f.name
    BY DEF HeaderOf, FieldName, fs
  <2> QED
    BY <1>11, <2>1
<1>4. ASSUME NEW f \in HeaderOf(n, {"scalar"}, {TRUE})
      PROVE  F("set", f.name, <<ValueType(f)>>) \in Made(n)
  <2>1. f \in Range(fs) /\ f.mut /\ f.kind = "scalar"
    BY DEF HeaderOf, fs
  <2> QED
    BY <1>11, <2>1
<1>5. ASSUME NEW f \in HeaderOf(n, {"array"}, {TRUE})
      PROVE  F("set", f.name, <<ValueType(f), Uint64>>) \in Made(n)
  <2>1. f \in Range(fs) /\ f.mut /\ f.kind = "array"
    BY DEF HeaderOf, fs
  <2> QED
    BY <1>11, <2>1
<1>6. ASSUME NEW f \in HeaderOf(n, {"array"}, BOOLEAN)
      PROVE  /\ F("get", f.name \o "_item", <<Uint64, ValueType(f)>>) \in Made(n)
             /\ F("set", f.name \o "_item", <<Uint64, ItemType(f)>>) \in Made(n)
  <2>1. f \in Range(fs) /\ f.kind = "array"
    BY DEF HeaderOf, fs
  <2> QED
    BY <1>11, <2>1
<1>7. ASSUME NEW f \in HeaderOf(n, {"array"}, BOOLEAN)
      PROVE  F("get", f.name \o "_count", <<Ref(Uint64)>>) \in Made(n)
  <2>1. f \in Range(fs) /\ f.kind = "array"
    BY DEF HeaderOf, fs
  <2>2. PICK i \in DOMAIN fs : fs[i] = f
    BY <2>1 DEF Range
  <2> DEFINE c == fs[i - 1]
  <2>3. i > 1 /\ c = [f EXCEPT !.kind = "count"]
    BY <1>1, <2>1, <2>2 DEF CountsLead
  <2>4. i - 1 \in DOMAIN fs
    BY <1>1, <2>3
  <2>5. f \in Field
    BY <1>1, <2>2
  <2>6. c.kind = "count" /\ c.name = f.name /\ c \in Range(fs)
    <3>1. [f EXCEPT !.kind = "count"].kind = "count" /\ [f EXCEPT !.kind = "count"].name = f.name
      BY <2>5 DEF Field
    <3> QED
      BY <2>3, <2>4, <3>1 DEF Range
  <2> HIDE DEF c
  <2>7. FieldName(c) = f.name \o "_count" /\ ValueType(c) = Uint64
    BY <2>6 DEF FieldName, ValueType, Uint64
  <2> QED
    BY <1>11, <2>6, <2>7
<1>8. HeaderFields(n) \subseteq Made(n)
  <2>1. \A f \in HeaderOf(n, {"array"}, {TRUE}) : f \in HeaderOf(n, {"array"}, BOOLEAN)
    BY DEF HeaderOf, fs
  <2> QED
    BY <1>3, <1>4, <1>5, <1>6, <1>7, <2>1 DEF HeaderFields
<1>9. HeaderConstructor(n) = Constructor(n)
  BY ConstructorDeclared
<1>12. StructFunctions(n) \subseteq Made(n)
  BY Zenon DEF Made
<1>13. Constructor(n) \in StructFunctions(n)
  BY DEF StructFunctions
<1> QED
  BY <1>8, <1>9, <1>12, <1>13 DEF HeaderFunctions

(* How far LLVMIRGenPass is.  A struct that it got through was finalized    *)
(* and has its functions; no pass comes before it is through.               *)
Generated ==
  /\ visited \subseteq DOMAIN structs
  /\ stage # "passes" => visited = {}
  /\ fault = "none" =>
       \A n \in visited : /\ structs[n].version # 0
                          /\ structs[n].typed = Len(structs[n].fields)
                          /\ Made(n) \subseteq defined
  /\ stage = "passes" /\ exit = Running /\ files # NoFiles => visited = DOMAIN structs
  /\ stage = "passes" /\ exit = Running =>
       visited = DOMAIN structs \/ (passes # <<>> /\ Head(passes) = "irgen")
  /\ files.header = "whole" => visited = DOMAIN structs /\ fault = "none"

PassesInv == TableInv /\ ExitInvariant /\ Generated

(* What the module should have of a struct depends on the table only.       *)
LEMMA MadeUnchanged ==
  ASSUME UNCHANGED structs, NEW m
  PROVE  Made(m)' = Made(m)
<1>1. Constructor(m)' = Constructor(m)
  BY DEF Constructor, Parameters
<1>2. \A f : FieldFunctions(m, f)' = FieldFunctions(m, f)
  BY DEF FieldFunctions
<1> QED
  BY <1>1, <1>2 DEF Made, StructFunctions

(* The parser leaves a table that is fine.                                  *)
LEMMA ParseKeepsTable ==
  ASSUME TableInv, Next
  PROVE  TableInv'
<1>1. TableEffect /\ TableOK
  BY StepEffect DEF TableInv
<1> QED
  BY <1>1, TableTypeStep, TableInvStep

(* What does not touch the table leaves it fine.                            *)
LEMMA TableUnchanged ==
  ASSUME TableInv, UNCHANGED <<current, structs>>
  PROVE  TableInv'
BY DEF TableInv, TableOK, CountFirst, Struct, Field, Type, Remembers

(* Before the passes nothing is written, and as long as LLVMIRGenPass is    *)
(* not through.                                                             *)
LEMMA NotWritten ==
  ASSUME ExitInvariant, exit = Running,
         stage # "passes" \/ (passes # <<>> /\ Head(passes) = "irgen")
  PROVE  files = NoFiles /\ files.header # "whole"
<1>1. CASE stage # "passes"
  BY <1>1 DEF ExitInvariant, NoFiles
<1>2. CASE stage = "passes"
  <2>1. Underway /\ opts \in Options
    BY <1>2 DEF ExitInvariant, Underway
  <2>2. passes # Bindings(opts)
    BY <1>2, <2>1, BindingOrder
  <2>3. passes # <<"rust">> /\ passes # <<>>
    BY <1>2
  <2> QED
    BY <2>1, <2>2, <2>3 DEF Underway, NoFiles
<1> QED
  BY <1>1, <1>2

(* A struct that LLVMIRGenPass gets through.                                *)
LEMMA VisitGenerates ==
  ASSUME PassesInv, exit = Running, fault = "none", NEW n \in DOMAIN structs, VisitStruct(n)
  PROVE  Generated'
<1> DEFINE made == UNION {FieldFunctions(n, f) : f \in Range(FieldsVisited(n))}
<1>1. /\ stage = "passes" /\ passes # <<>> /\ Head(passes) = "irgen"
      /\ fault' = GenerationFault(n, made)
      /\ visited' = visited \cup {n}
      /\ defined' = defined \cup made \cup StructFunctions(n)
      /\ UNCHANGED <<stage, passes, files, exit, structs>>
  BY DEF VisitStruct
<1>2. Made(n) = made \cup StructFunctions(n)
  BY DEF Made, FieldsVisited
<1>3. fault' = "none" => structs[n].version # 0 /\ structs[n].typed = Len(structs[n].fields)
  BY <1>1 DEF GenerationFault, NoParent
<1> HIDE DEF made
<1>4. files = NoFiles /\ files.header # "whole"
  BY <1>1, NotWritten DEF PassesInv
<1>5. \A m : Made(m)' = Made(m)
  BY <1>1, MadeUnchanged
<1>6. Generated
  BY DEF PassesInv
<1>7. visited' \subseteq DOMAIN structs'
  BY <1>1, <1>6 DEF Generated
<1>8. fault' = "none" =>
        \A m \in visited' : /\ structs'[m].version # 0
                            /\ structs'[m].typed = Len(structs'[m].fields)
                            /\ Made(m)' \subseteq defined'
  BY <1>1, <1>2, <1>3, <1>5, <1>6 DEF Generated
<1> QED
  BY <1>1, <1>4, <1>7, <1>8 DEF Generated

(* Every step of tyr keeps it.                                              *)
LEMMA GeneratedStep ==
  ASSUME PassesInv, CNext
  PROVE  Generated'
<1>1. exit = Running /\ fault = "none" /\ Generated /\ ExitInvariant
  BY DEF CNext, Live, PassesInv
<1>2. \A m : UNCHANGED structs => Made(m)' = Made(m)
  BY MadeUnchanged
<1>3. CASE BadFileName \/ CannotOpen \/ ParsingFailed \/ LinkFails
  <2>1. stage # "passes" /\ exit' # Running
        /\ UNCHANGED <<stage, visited, defined, files, structs, fault>>
    BY <1>3, CompilerAssumption
    DEF BadFileName, CannotOpen, ParsingFailed, LinkFails, Exit, vars
  <2> QED
    BY <1>1, <1>2, <2>1 DEF Generated
<1>4. CASE OutputBroken
  <2>1. PICK pass \in Outputs :
          Turn(pass) /\ files' = [files EXCEPT !.output = "torn"]
    BY <1>4, BrokenWays
  <2>2. /\ exit' # Running /\ UNCHANGED <<stage, visited, defined, structs, fault>>
    BY <1>4, BrokenWays, CompilerAssumption DEF Exit, vars
  <2>3. files'.header = files.header
    <3>1. Underway
      BY <1>1, <2>1 DEF ExitInvariant, Turn
    <3> QED
      BY <2>1, <3>1 DEF Underway
  <2> QED
    BY <1>1, <1>2, <2>2, <2>3 DEF Generated
<1>5. CASE HeaderBroken \/ BuildFileBroken
  <2>1. /\ exit' # Running /\ UNCHANGED <<stage, visited, defined, structs, fault>>
        /\ Turn("c") \/ Turn("rust")
    BY <1>5, CompilerAssumption DEF HeaderBroken, BuildFileBroken, Exit, vars
  <2>2. visited = DOMAIN structs
    BY <1>1, <2>1 DEF Generated, Turn
  <2> QED
    BY <1>1, <1>2, <2>1, <2>2 DEF Generated
<1>6. CASE OpenFile \/ ParseStep \/ RegisterPasses \/ LinkMissing
  <2>1. stage # "passes" /\ stage' # "passes" /\ UNCHANGED <<visited, files>>
    BY <1>6 DEF OpenFile, ParseStep, RegisterPasses, LinkMissing, Die, own
  <2>2. visited' = {}
    BY <1>1, <2>1 DEF Generated
  <2>3. files'.header # "whole"
    BY <1>1, <2>1, NotWritten
  <2> QED
    BY <2>1, <2>2, <2>3 DEF Generated
<1>7. CASE LinkRuntime
  <2>1. /\ stage = "link" /\ stage' = "passes" /\ opts \in Options /\ passes = Registered(opts)
        /\ UNCHANGED <<visited, defined, files, structs, passes, fault>>
    BY <1>1, <1>7 DEF LinkRuntime, ExitInvariant, vars
  <2>2. visited = {}
    BY <1>1, <2>1 DEF Generated
  <2>3. passes # <<>> /\ Head(passes) = "irgen"
    BY <2>1, PassOrder, PassesInOrder
  <2>4. files = NoFiles /\ files.header # "whole"
    BY <1>1, <2>1, NotWritten
  <2> QED
    BY <2>1, <2>2, <2>3, <2>4 DEF Generated
<1>8. ASSUME NEW n \in DOMAIN structs, VisitStruct(n) PROVE Generated'
  BY <1>1, <1>8, VisitGenerates
<1>9. CASE GenerationDone
  <2>1. /\ visited = DOMAIN structs
        /\ UNCHANGED <<stage, visited, defined, structs, fault, files>>
    BY <1>9 DEF GenerationDone, vars
  <2> QED
    BY <1>1, <1>2, <2>1 DEF Generated
<1>10. CASE OutputPass \/ BindingPass
  <2>1. /\ stage = "passes" /\ passes # <<>> /\ Head(passes) # "irgen"
        /\ UNCHANGED <<stage, visited, defined, structs, fault>>
    BY <1>10, OutputWays DEF Outputs, BindingPass, Turn, Kept, vars
  <2>2. visited = DOMAIN structs
    BY <1>1, <2>1 DEF Generated
  <2> QED
    BY <1>1, <1>2, <2>1, <2>2 DEF Generated
<1>11. CASE Return
  <2>1. /\ stage = "passes" /\ passes = <<>>
        /\ UNCHANGED <<stage, visited, defined, structs, fault, files>>
    BY <1>11 DEF Return, Exit, vars
  <2>2. visited = DOMAIN structs
    BY <1>1, <2>1 DEF Generated
  <2> QED
    BY <1>1, <1>2, <2>1, <2>2 DEF Generated
<1> QED
  BY <1>3, <1>4, <1>5, <1>6, <1>7, <1>8, <1>9, <1>10, <1>11 DEF CNext, OutputPass, OutputBroken

(* The table, the exit code and the passes together.                        *)
LEMMA PassesStep ==
  ASSUME PassesInv, [CNext]_cvars
  PROVE  PassesInv'
<1>1. ExitInvariant'
  BY ExitStep DEF PassesInv
<1>2. CASE UNCHANGED cvars
  <2>1. UNCHANGED <<current, structs>>
    BY <1>2 DEF cvars, vars
  <2>2. Generated'
    <3>1. \A m : Made(m)' = Made(m)
      BY <1>2, MadeUnchanged DEF cvars, vars
    <3> QED
      BY <1>2, <3>1 DEF cvars, vars, own, PassesInv, Generated
  <2> QED
    BY <1>1, <2>1, <2>2, TableUnchanged DEF PassesInv
<1>3. CASE CNext
  <2>1. TableInv'
    <3>1. CASE ParseStep
      BY <3>1, ParseKeepsTable DEF ParseStep, PassesInv
    <3>2. CASE ~ParseStep
      <4>1. UNCHANGED <<current, structs>>
        BY <1>3, <3>2, OutputWays, BrokenWays
        DEF CNext, BadFileName, CannotOpen, OpenFile, ParsingFailed, RegisterPasses, LinkRuntime,
            LinkFails, LinkMissing, VisitStruct, GenerationDone, OutputPass, OutputBroken,
            BindingPass, HeaderBroken, BuildFileBroken, Return, Exit, Die, Kept, vars
      <4> QED
        BY <4>1, TableUnchanged DEF PassesInv
    <3> QED
      BY <3>1, <3>2
  <2> QED
    BY <1>1, <1>3, <2>1, GeneratedStep DEF PassesInv
<1> QED
  BY <1>2, <1>3

(* It holds of an empty table, and before anything is written.              *)
LEMMA PassesInit ==
  ASSUME CInit
  PROVE  PassesInv
<1>1. ExitInvariant
  <2>1. exit = Running /\ stage = "start" /\ files = NoFiles /\ allOk
    BY DEF CInit, NoFiles
  <2>2. Running # 0 /\ Running # -3 /\ Running \notin {-1, -2, -4}
    BY CompilerAssumption
  <2> QED
    BY <2>1, <2>2 DEF ExitInvariant, ExitTruthful
<1>2. structs = <<>> /\ current = None /\ DOMAIN <<>> = {}
  BY DEF CInit, Init
<1>3. structs \in [DOMAIN structs -> Struct]
  BY <1>2
<1>4. TableInv
  BY <1>2, <1>3 DEF TableInv, TableOK, CountFirst
<1>5. Generated
  BY DEF CInit, Generated, NoFiles
<1> QED
  BY <1>1, <1>4, <1>5 DEF PassesInv

(* For every file and command line: a header that was written whole         *)
(* declares only functions that are in the module, create with the          *)
(* parameters it has there, though the pass that writes it goes through the *)
(* fields by itself - unless a struct was opened a second time, and for     *)
(* structs of no more fields than the sort keeps in order.                  *)
THEOREM HeadersMatch == CSpec => []HeaderMatches
<1>1. CInit => PassesInv
  BY PassesInit
<1>2. PassesInv /\ [CNext]_cvars => PassesInv'
  BY PassesStep
<1>3. PassesInv => HeaderMatches
  <2> SUFFICES ASSUME PassesInv, files.header = "whole",
                      ~\E n \in DOMAIN structs : Reopened(n),
                      NEW n \in DOMAIN structs, Len(structs[n].fields) <= StableUpTo
               PROVE  HeaderFunctions(n) \subseteq defined
    BY DEF HeaderMatches
  <2>1. structs[n].version # 0 /\ Made(n) \subseteq defined
    BY DEF PassesInv, Generated
  <2>2. structs[n].version \in Nat /\ ~(structs[n].version > 1)
    BY DEF PassesInv, TableInv, TableOK, Struct, Reopened
  <2>3. structs[n].version = 1
    BY <2>1, <2>2
  <2>4. HeaderFunctions(n) \subseteq Made(n)
    BY <2>3, HeaderDeclared DEF PassesInv
  <2> QED
    BY <2>1, <2>4
<1> QED
  BY <1>1, <1>2, <1>3, PTL DEF CSpec

-----------------------------------------------------------------------------
(* The size of a struct in two data layouts                                 *)

Alignment == 1..8 \cup {16}

(* A multiple of a at n or behind it, and the nearest.                      *)
LEMMA RoundUpFacts ==
  ASSUME NEW n \in Nat, NEW a \in Alignment
  PROVE  RoundUp(n, a) \in Nat /\ RoundUp(n, a) >= n
<1>1. /\ (n + 0) \div 1 = n
      /\ ((n + 1) \div 2) * 2 >= n /\ ((n + 2) \div 3) * 3 >= n /\ ((n + 3) \div 4) * 4 >= n
      /\ ((n + 4) \div 5) * 5 >= n /\ ((n + 5) \div 6) * 6 >= n /\ ((n + 6) \div 7) * 7 >= n
      /\ ((n + 7) \div 8) * 8 >= n /\ ((n + 15) \div 16) * 16 >= n
  OBVIOUS
<1>2. a \in {1, 2, 3, 4, 5, 6, 7, 8, 16}
  BY DEF Alignment
<1>3. (n + a - 1) \div a \in Int /\ ((n + a - 1) \div a) * a \in Int
  BY <1>2
<1>4. ((n + a - 1) \div a) * a >= n
  <2>1. CASE a = 1
    BY <2>1
  <2>2. CASE a = 2
    BY <2>2
  <2>3. CASE a = 3
    BY <2>3
  <2>4. CASE a = 4
    BY <2>4
  <2>5. CASE a = 5
    BY <2>5
  <2>6. CASE a = 6
    BY <2>6
  <2>7. CASE a = 7
    BY <2>7
  <2>8. CASE a = 8
    BY <2>8
  <2>9. CASE a = 16
    BY <2>9
  <2> QED
    BY <1>2, <2>1, <2>2, <2>3, <2>4, <2>5, <2>6, <2>7, <2>8, <2>9
<1> QED
  BY <1>3, <1>4 DEF RoundUp

(* Sizes and alignments are numbers.                                        *)
LEMMA SizeRange ==
  ASSUME NEW f, NEW l \in Layout
  PROVE  /\ FieldSize(f) \in Nat \ {0}
         /\ \A s : Align(l, s, f) \in Alignment
         /\ AllocSize(l, f) \in Nat
<1>1. FieldSize(f) \in Nat \ {0}
  BY ParserAssumption DEF FieldSize
<1>2. FieldSize(f) > 8 => WideInteger(f)
  BY ParserAssumption, CompilerAssumption DEF FieldSize, WideInteger
<1>3. TypeAlign(l, f) \in Alignment
  <2>1. l # "default" => LongAlign[l] \in {8, 16}
    BY CompilerAssumption DEF Layout
  <2> QED
    BY <1>1, <1>2, <2>1 DEF TypeAlign, Alignment
<1>4. \A s : Align(l, s, f) \in Alignment
  BY <1>3 DEF Align, Alignment
<1> QED
  BY <1>1, <1>3, <1>4, RoundUpFacts DEF AllocSize

(* Fields of no more than 8 bytes take what they have.                      *)
LEMMA NarrowSizes ==
  ASSUME NEW f, FieldSize(f) <= 8
  PROVE  /\ FieldSize(f) \in 1..8
         /\ WideInteger(f) => FieldSize(f) = 8
         /\ \A l : AllocSize(l, f) = FieldSize(f)
         /\ \A l, s : /\ Align(l, s, f) \in 1..8
                      /\ s.packed => Align(l, s, f) = 1
                      /\ ~s.packed => Align(l, s, f) = IF l = "default" /\ WideInteger(f)
                                                         THEN 4 ELSE FieldSize(f)
<1>1. FieldSize(f) \in 1..8
  BY ParserAssumption DEF FieldSize
<1>2. WideInteger(f) => FieldSize(f) = 8
  BY ParserAssumption, CompilerAssumption DEF WideInteger, FieldSize
<1>3. ASSUME NEW l
      PROVE  TypeAlign(l, f) = IF l = "default" /\ WideInteger(f) THEN 4 ELSE FieldSize(f)
  BY <1>1 DEF TypeAlign
<1>4. ASSUME NEW l PROVE AllocSize(l, f) = FieldSize(f)
  <2>1. \A z \in 1..8 : RoundUp(z, z) = z
    <3> SUFFICES ASSUME NEW z \in 1..8 PROVE RoundUp(z, z) = z
      OBVIOUS
    <3>1. /\ RoundUp(1, 1) = 1 /\ RoundUp(2, 2) = 2 /\ RoundUp(3, 3) = 3 /\ RoundUp(4, 4) = 4
          /\ RoundUp(5, 5) = 5 /\ RoundUp(6, 6) = 6 /\ RoundUp(7, 7) = 7 /\ RoundUp(8, 8) = 8
      BY DEF RoundUp
    <3>2. z \in {1, 2, 3, 4, 5, 6, 7, 8}
      OBVIOUS
    <3> QED
      BY <3>1, <3>2
  <2>2. RoundUp(8, 4) = 8
    BY DEF RoundUp
  <2> QED
    BY <1>1, <1>2, <1>3, <2>1, <2>2 DEF AllocSize
<1>5. ASSUME NEW l, NEW s
      PROVE  /\ Align(l, s, f) \in 1..8
             /\ s.packed => Align(l, s, f) = 1
             /\ ~s.packed => Align(l, s, f) = IF l = "default" /\ WideInteger(f)
                                                THEN 4 ELSE FieldSize(f)
  BY <1>1, <1>3 DEF Align
<1> QED
  BY <1>1, <1>2, <1>4, <1>5

Narrow(fs) == \A f \in Range(fs) : FieldSize(f) <= 8

(* How 4 and 8 round.                                                       *)
LEMMA RoundUpWords ==
  ASSUME NEW n \in Nat
  PROVE  /\ RoundUp(n, 8) % 8 = 0
         /\ RoundUp(n, 8) = RoundUp(n, 4) \/ RoundUp(n, 8) = RoundUp(n, 4) + 4
         /\ (n + 4) % 8 = 0 => RoundUp(n, 4) = n /\ RoundUp(n, 8) = n + 4
         /\ n % 8 = 0 => RoundUp(n, 8) = n
BY DEF RoundUp

(* The recursion that End is defined by.                                    *)
EndsAt(l, s, n, e) ==
  e = [i \in 0..n |-> IF i = 0 THEN 0
                      ELSE RoundUp(e[i - 1], Align(l, s, s.fields[i])) + AllocSize(l, s.fields[i])]

(* It has a solution.                                                       *)
LEMMA EndUnfolds ==
  ASSUME NEW l, NEW s, Len(s.fields) \in Nat
  PROVE  EndsAt(l, s, Len(s.fields), End(l, s))
<1> DEFINE Solved == {n \in Nat : \E e : EndsAt(l, s, n, e)}
           Next1(e, i) == RoundUp(e[i - 1], Align(l, s, s.fields[i])) + AllocSize(l, s.fields[i])
<1>1. 0 \in Solved
  <2> DEFINE e == [i \in 0..0 |-> 0]
  <2>1. e = [i \in 0..0 |-> IF i = 0 THEN 0 ELSE Next1(e, i)]
    OBVIOUS
  <2>2. EndsAt(l, s, 0, e)
    BY <2>1 DEF EndsAt
  <2> HIDE DEF e
  <2> QED
    BY <2>2
<1>2. ASSUME NEW n \in Nat, n \in Solved PROVE n + 1 \in Solved
  <2>1. PICK e : EndsAt(l, s, n, e)
    BY <1>2
  <2> DEFINE g == [i \in 0..(n + 1) |-> IF i = 0 THEN 0 ELSE Next1(e, i)]
  <2>2. \A i \in 0..n : e[i] = IF i = 0 THEN 0 ELSE Next1(e, i)
    BY <2>1 DEF EndsAt
  <2>3. \A i \in 0..(n + 1) : g[i] = IF i = 0 THEN 0 ELSE Next1(e, i)
    OBVIOUS
  <2>4. DOMAIN g = 0..(n + 1) /\ g = [i \in DOMAIN g |-> g[i]]
    OBVIOUS
  <2> HIDE DEF g
  <2>5. ASSUME NEW i \in 0..n PROVE g[i] = e[i]
    <3>1. i \in 0..(n + 1)
      OBVIOUS
    <3> HIDE DEF Next1
    <3> QED
      BY <2>2, <2>3, <3>1
  <2>6. ASSUME NEW i \in 0..(n + 1), i # 0 PROVE g[i - 1] = e[i - 1]
    <3>1. i - 1 \in 0..n
      BY <2>6
    <3> QED
      BY <2>5, <3>1
  <2>7. \A i \in 0..(n + 1) : g[i] = IF i = 0 THEN 0 ELSE Next1(g, i)
    BY <2>3, <2>6
  <2>8. EndsAt(l, s, n + 1, g)
    BY <2>4, <2>7 DEF EndsAt
  <2> QED
    BY <2>8
<1>3. Nat \subseteq Solved
  <2> HIDE DEF Solved
  <2> QED
    BY <1>1, <1>2, SetInduction
<1>4. \E e : EndsAt(l, s, Len(s.fields), e)
  BY <1>3
<1>5. End(l, s) = CHOOSE e : EndsAt(l, s, Len(s.fields), e)
  BY DEF End, EndsAt
<1> QED
  BY <1>4, <1>5

(* Where a field ends, from where the one before it ends.                   *)
LEMMA EndStep ==
  ASSUME NEW l \in Layout, NEW s, Len(s.fields) \in Nat
  PROVE  /\ End(l, s)[0] = 0
         /\ \A i \in 1..Len(s.fields) :
              End(l, s)[i] = RoundUp(End(l, s)[i - 1], Align(l, s, s.fields[i]))
                             + AllocSize(l, s.fields[i])
         /\ \A i \in 0..Len(s.fields) : End(l, s)[i] \in Nat
<1> DEFINE e == End(l, s)
           N == Len(s.fields)
<1>1. e = [i \in 0..N |-> IF i = 0 THEN 0
                          ELSE RoundUp(e[i - 1], Align(l, s, s.fields[i])) + AllocSize(l, s.fields[i])]
  BY EndUnfolds DEF EndsAt
<1> HIDE DEF e
<1>2. \A i \in 0..N : e[i] = IF i = 0 THEN 0
                             ELSE RoundUp(e[i - 1], Align(l, s, s.fields[i])) + AllocSize(l, s.fields[i])
  BY <1>1
<1>3. e[0] = 0
  BY <1>2
<1>4. \A i \in 1..N : e[i] = RoundUp(e[i - 1], Align(l, s, s.fields[i])) + AllocSize(l, s.fields[i])
  BY <1>2
<1> DEFINE Good == {i \in Nat : i <= N => e[i] \in Nat}
<1>5. 0 \in Good
  BY <1>3
<1>6. ASSUME NEW j \in Nat, j \in Good PROVE j + 1 \in Good
  <2>1. SUFFICES ASSUME j + 1 <= N PROVE e[j + 1] \in Nat
    OBVIOUS
  <2>2. e[j] \in Nat
    BY <1>6, <2>1
  <2>3. /\ j + 1 \in 1..N /\ j + 1 - 1 = j
        /\ AllocSize(l, s.fields[j + 1]) \in Nat /\ Align(l, s, s.fields[j + 1]) \in Alignment
    <3>1. j + 1 \in 1..N /\ j + 1 - 1 = j
      BY <2>1
    <3>2. AllocSize(l, s.fields[j + 1]) \in Nat /\ Align(l, s, s.fields[j + 1]) \in Alignment
      BY SizeRange
    <3> QED
      BY <3>1, <3>2
  <2>4. RoundUp(e[j], Align(l, s, s.fields[j + 1])) \in Nat
    BY <2>2, <2>3, RoundUpFacts
  <2>5. e[j + 1] = RoundUp(e[j], Align(l, s, s.fields[j + 1])) + AllocSize(l, s.fields[j + 1])
    BY <1>4, <2>3
  <2> QED
    BY <2>3, <2>4, <2>5
<1>7. \A i \in 0..N : e[i] \in Nat
  <2> HIDE DEF Good
  <2>1. Nat \subseteq Good
    BY <1>5, <1>6, SetInduction
  <2> QED
    BY <2>1 DEF Good
<1> QED
  BY <1>3, <1>4, <1>7 DEF e

(* All layouts but LLVM's default align fields of up to 8 bytes alike.      *)
LEMMA OneTargetLayout ==
  ASSUME NEW S, NEW s, s.fields \in Seq(S), Narrow(s.fields), s.packed \in BOOLEAN
  PROVE  StructSize("runtime", s) = StructSize("target", s)
<1>0. Len(s.fields) \in Nat /\ \A i \in 1..Len(s.fields) : s.fields[i] \in Range(s.fields)
  BY DEF Range
<1>1. \A f \in Range(s.fields) : /\ Align("runtime", s, f) = Align("target", s, f)
                                 /\ AllocSize("runtime", f) = AllocSize("target", f)
  BY NarrowSizes DEF Narrow
<1> DEFINE e == End("runtime", s)
           t == End("target", s)
           N == Len(s.fields)
           Good == {i \in Nat : i <= N => e[i] = t[i]}
<1>2. /\ e[0] = 0 /\ t[0] = 0
      /\ \A i \in 1..N :
           /\ e[i] = RoundUp(e[i - 1], Align("runtime", s, s.fields[i]))
                     + AllocSize("runtime", s.fields[i])
           /\ t[i] = RoundUp(t[i - 1], Align("target", s, s.fields[i]))
                     + AllocSize("target", s.fields[i])
  BY <1>0, EndStep DEF Layout
<1> HIDE DEF e, t
<1>3. 0 \in Good
  BY <1>2
<1>4. ASSUME NEW j \in Nat, j \in Good PROVE j + 1 \in Good
  <2>1. SUFFICES ASSUME j + 1 <= N PROVE e[j + 1] = t[j + 1]
    OBVIOUS
  <2>2. e[j] = t[j] /\ j + 1 \in 1..N /\ j + 1 - 1 = j
    BY <1>4, <2>1
  <2> QED
    BY <1>0, <1>1, <1>2, <2>2
<1>5. e[N] = t[N]
  <2> HIDE DEF Good
  <2>1. Nat \subseteq Good
    BY <1>3, <1>4, SetInduction
  <2> QED
    BY <1>0, <2>1 DEF Good
<1>6. {Align("runtime", s, f) : f \in Range(s.fields)} = {Align("target", s, f) : f \in Range(s.fields)}
  BY <1>1
<1> QED
  BY <1>5, <1>6 DEF StructSize, e, t

(* Where the default layout is behind, by half a word, it is behind at      *)
(* wide integers only, that the other fields of their size make up for.     *)
LEMMA DefaultBehind ==
  ASSUME NEW S, NEW s, s.fields \in Seq(S), Sorted(s.fields), Narrow(s.fields),
         s.packed \in BOOLEAN,
         NEW i \in 1..Len(s.fields)
  PROVE  LET d == End("default", s)
             t == End("target", s)
         IN d[i] = t[i] \/ (/\ d[i] + 4 = t[i] /\ t[i] % 8 = 0
                            /\ WideInteger(s.fields[i]) /\ ~s.packed)
<1> DEFINE d == End("default", s)
           t == End("target", s)
           N == Len(s.fields)
           fs == s.fields
           Behind(j) == d[j] + 4 = t[j] /\ t[j] % 8 = 0 /\ WideInteger(fs[j]) /\ ~s.packed
           Good == {j \in Nat : j \in 1..N => d[j] = t[j] \/ Behind(j)}
<1>1. N \in Nat /\ DOMAIN fs = 1..N
  OBVIOUS
<1>2. /\ d[0] = 0 /\ t[0] = 0
      /\ \A j \in 1..N :
           /\ d[j] = RoundUp(d[j - 1], Align("default", s, fs[j])) + AllocSize("default", fs[j])
           /\ t[j] = RoundUp(t[j - 1], Align("target", s, fs[j])) + AllocSize("target", fs[j])
      /\ \A j \in 0..N : d[j] \in Nat /\ t[j] \in Nat
  BY <1>1, EndStep DEF Layout
<1> HIDE DEF d, t
<1>3. 0 \in Good
  BY <1>1
<1>4. ASSUME NEW k \in Nat, k \in Good PROVE k + 1 \in Good
  <2>1. SUFFICES ASSUME k + 1 \in 1..N PROVE d[k + 1] = t[k + 1] \/ Behind(k + 1)
    OBVIOUS
  <2> DEFINE j == k + 1
  <2>2. j \in 1..N /\ j - 1 = k /\ k \in 0..N
    BY <1>1, <2>1
  <2>3. d[k] = t[k] \/ (k # 0 /\ Behind(k))
    BY <1>2, <1>4, <2>2
  <2> HIDE DEF j
  <2> DEFINE f == fs[j]
             z == FieldSize(f)
             a == Align("default", s, f)
             b == Align("target", s, f)
  <2>9. FieldSize(f) <= 8
    BY <1>1, <2>2 DEF Narrow, Range
  <2>4. /\ d[j] = RoundUp(d[k], a) + z /\ t[j] = RoundUp(t[k], b) + z
        /\ d[k] \in Nat /\ t[k] \in Nat
    BY <1>2, <2>2, <2>9, NarrowSizes
  <2>5. /\ z \in 1..8 /\ a \in 1..8 /\ b \in 1..8
        /\ WideInteger(f) => z = 8
        /\ s.packed => a = b
        /\ ~s.packed => b = z /\ a = IF WideInteger(f) THEN 4 ELSE z
    BY <2>9, NarrowSizes
  <2>6. k # 0 /\ Behind(k) => z = 8
    <3>1. SUFFICES ASSUME k # 0, Behind(k) PROVE z = 8
      OBVIOUS
    <3>2. k \in DOMAIN fs /\ j \in DOMAIN fs /\ k < j
      BY <1>1, <2>2, <3>1
    <3>3. FieldSize(fs[k]) <= FieldSize(fs[j])
      BY <3>2 DEF Sorted
    <3>4. FieldSize(fs[k]) = 8
      <4>1. FieldSize(fs[k]) <= 8
        BY <3>2 DEF Narrow, Range
      <4> QED
        BY <3>1, <4>1, NarrowSizes
    <3> QED
      BY <2>5, <3>3, <3>4
  <2> HIDE DEF f, z, a, b
  <2>7. CASE d[k] = t[k]
    <3>1. CASE a = b
      BY <2>4, <2>7, <3>1 DEF j
    <3>2. CASE a # b
      <4>1. ~s.packed /\ WideInteger(f) /\ a = 4 /\ b = 8 /\ z = 8
        BY <2>5, <3>2
      <4>2. /\ RoundUp(t[k], 8) % 8 = 0 /\ RoundUp(t[k], 8) \in Nat
            /\ RoundUp(t[k], 8) = RoundUp(t[k], 4) \/ RoundUp(t[k], 8) = RoundUp(t[k], 4) + 4
            /\ RoundUp(t[k], 4) \in Nat
        <5>1. 4 \in Alignment /\ 8 \in Alignment
          BY DEF Alignment
        <5>2. RoundUp(t[k], 8) \in Nat /\ RoundUp(t[k], 4) \in Nat
          BY <2>4, <5>1, RoundUpFacts
        <5>3. /\ RoundUp(t[k], 8) % 8 = 0
              /\ RoundUp(t[k], 8) = RoundUp(t[k], 4) \/ RoundUp(t[k], 8) = RoundUp(t[k], 4) + 4
          BY <2>4, RoundUpWords
        <5> QED
          BY <5>2, <5>3
      <4>3. d[j] = RoundUp(t[k], 4) + 8 /\ t[j] = RoundUp(t[k], 8) + 8
        BY <2>4, <2>7, <4>1
      <4>4. t[j] % 8 = 0
        BY <4>2, <4>3
      <4>5. d[j] = t[j] \/ d[j] + 4 = t[j]
        BY <4>2, <4>3
      <4> QED
        BY <4>1, <4>4, <4>5 DEF j, f
    <3> QED
      BY <3>1, <3>2
  <2>8. CASE k # 0 /\ Behind(k)
    <3>1. z = 8 /\ d[k] + 4 = t[k] /\ t[k] % 8 = 0 /\ ~s.packed
      BY <2>6, <2>8
    <3>2. b = 8 /\ t[j] = t[k] + 8 /\ t[j] % 8 = 0
      <4>1. RoundUp(t[k], 8) = t[k]
        BY <2>4, <3>1, RoundUpWords
      <4> QED
        BY <2>4, <2>5, <3>1, <4>1
    <3>3. (d[k] + 4) % 8 = 0
      BY <3>1
    <3>4. RoundUp(d[k], 4) = d[k] /\ RoundUp(d[k], 8) = d[k] + 4
      BY <2>4, <3>3, RoundUpWords
    <3>5. CASE WideInteger(f)
      <4>1. d[j] = d[k] + 8
        BY <2>4, <2>5, <3>1, <3>4, <3>5
      <4>2. d[j] + 4 = t[j]
        BY <2>4, <3>1, <3>2, <4>1
      <4> QED
        BY <3>1, <3>2, <3>5, <4>2 DEF j, f
    <3>6. CASE ~WideInteger(f)
      <4>1. d[j] = d[k] + 4 + 8
        BY <2>4, <2>5, <3>1, <3>4, <3>6
      <4>2. d[j] = t[j]
        BY <2>4, <3>1, <3>2, <4>1
      <4> QED
        BY <4>2 DEF j
    <3> QED
      BY <3>5, <3>6
  <2> QED
    BY <2>3, <2>7, <2>8
<1>5. i \in Good
  <2> HIDE DEF Good
  <2>1. Nat \subseteq Good
    BY <1>3, <1>4, SetInduction
  <2> QED
    BY <1>1, <2>1
<1> QED
  BY <1>5 DEF d, t

(* A struct without long integers has one size in both layouts unless its   *)
(* last field is a wide one.                                                *)
LEMMA SizesDiffer ==
  ASSUME NEW S, NEW s, s.fields \in Seq(S), Sorted(s.fields), Narrow(s.fields),
         s.packed \in BOOLEAN,
         ~WideInteger(Last(s.fields))
  PROVE  StructSize("default", s) = StructSize("target", s)
<1> DEFINE fs == s.fields
           N == Len(fs)
           D == {1} \cup {Align("default", s, f) : f \in Range(fs)}
           T == {1} \cup {Align("target", s, f) : f \in Range(fs)}
<1>1. N \in Nat /\ DOMAIN fs = 1..N
  OBVIOUS
<1>2. End("default", s)[N] = End("target", s)[N]
  <2>1. CASE N = 0
    BY <1>1, <2>1, EndStep DEF Layout
  <2>2. CASE N # 0
    <3>1. N \in 1..N /\ Last(fs) = fs[N]
      BY <1>1, <2>2 DEF Last
    <3> QED
      BY <3>1, DefaultBehind
  <2> QED
    BY <2>1, <2>2
<1>3. Max(D) = Max(T)
  <2>1. CASE s.packed \/ \A f \in Range(fs) : ~WideInteger(f)
    <3>1. \A f \in Range(fs) : Align("default", s, f) = Align("target", s, f)
      BY <2>1, NarrowSizes DEF Narrow
    <3>2. D = T
      BY <3>1
    <3> HIDE DEF D, T
    <3> QED
      BY <3>2
  <2>2. CASE ~s.packed /\ \E f \in Range(fs) : WideInteger(f)
    <3>1. PICK i \in 1..N : WideInteger(fs[i])
      BY <1>1, <2>2 DEF Range
    <3>2. N # 0 /\ N \in DOMAIN fs /\ Last(fs) = fs[N] /\ i < N
      <4>1. N \in 1..N /\ Last(fs) = fs[N]
        BY <1>1, <3>1 DEF Last
      <4>2. i # N
        BY <3>1, <4>1
      <4> QED
        BY <1>1, <3>1, <4>1, <4>2
    <3>3. FieldSize(fs[N]) = 8
      <4>1. FieldSize(fs[i]) <= FieldSize(fs[N])
        BY <1>1, <3>1, <3>2 DEF Sorted
      <4>2. FieldSize(fs[i]) = 8 /\ FieldSize(fs[N]) \in 1..8
        <5>1. FieldSize(fs[i]) <= 8 /\ FieldSize(fs[N]) <= 8
          BY <1>1, <3>1, <3>2 DEF Narrow, Range
        <5> QED
          BY <3>1, <5>1, NarrowSizes
      <4> QED
        BY <4>1, <4>2
    <3>4. fs[N] \in Range(fs)
      BY <3>2 DEF Range
    <3>5. Align("default", s, fs[N]) = 8 /\ Align("target", s, fs[N]) = 8
      BY <2>2, <3>2, <3>3, NarrowSizes
    <3>6. 8 \in D /\ 8 \in T
      BY <3>4, <3>5
    <3>7. D \subseteq 1..8 /\ T \subseteq 1..8
      <4>1. \A f \in Range(fs) :
              Align("default", s, f) \in 1..8 /\ Align("target", s, f) \in 1..8
        BY NarrowSizes DEF Narrow
      <4> QED
        BY <4>1
    <3> HIDE DEF D, T
    <3>8. ASSUME NEW R, 8 \in R, R \subseteq 1..8 PROVE Max(R) = 8
      <4>1. \A x \in R : (\A y \in R : x >= y) => x = 8
        BY <3>8
      <4>2. \A y \in R : 8 >= y
        BY <3>8
      <4> QED
        BY <3>8, <4>1, <4>2 DEF Max
    <3> QED
      BY <3>6, <3>7, <3>8
  <2> QED
    BY <2>1, <2>2
<1> QED
  BY <1>2, <1>3 DEF StructSize

(* A size is a number.                                                      *)
LEMMA StructSizeType ==
  ASSUME NEW l \in Layout, NEW s, Len(s.fields) \in Nat
  PROVE  StructSize(l, s) \in Nat
<1> DEFINE A == {1} \cup {Align(l, s, f) : f \in Range(s.fields)}
<1>1. \A f : Align(l, s, f) \in Alignment
  BY SizeRange
<1>2. A \subseteq Alignment /\ 1 \in A
  BY <1>1 DEF Alignment
<1> HIDE DEF A
<1>3. \E x \in A : \A y \in A : x >= y
  <2> DEFINE R == OpToRel(<, Nat)
             T == {16 - y : y \in A}
  <2>1. T \subseteq Nat /\ T # {} /\ \A y \in A : 16 - y \in T
    BY <1>2 DEF Alignment
  <2>2. \A x, y \in Nat : ~(<<y, x>> \in R) => x <= y
    BY DEF OpToRel
  <2>3. IsWellFoundedOn(R, Nat)
    BY NatLessThanWellFounded
  <2>4. \A z \in T : \E x \in A : z = 16 - x
    OBVIOUS
  <2> HIDE DEF R, T
  <2>5. PICK z \in T : \A y \in T : ~(<<y, z>> \in R)
    BY <2>1, <2>3, WFMin
  <2>6. PICK x \in A : z = 16 - x
    BY <2>4
  <2>7. ASSUME NEW y \in A PROVE x >= y
    <3>1. 16 - y \in T /\ 16 - y \in Nat /\ z \in Nat
      BY <2>1
    <3>2. z <= 16 - y
      BY <2>2, <2>5, <3>1
    <3> QED
      BY <1>2, <2>6, <3>2 DEF Alignment
  <2> QED
    BY <2>7
<1>4. Max(A) \in Alignment
  BY <1>2, <1>3 DEF Max
<1>5. End(l, s)[Len(s.fields)] \in Nat
  BY EndStep
<1> QED
  BY <1>4, <1>5, RoundUpFacts DEF StructSize, A

Planned == IF opts.runtime = {} THEN "default" ELSE "runtime"

(* The data layout by which LLVMIRGenPass computes what to allocate.        *)
Sized ==
  /\ DOMAIN alloc = visited
  /\ exit = Running /\ stage \in {"start", "parse", "link"} => dl = "default"
  /\ stage = "passes" /\ exit = Running /\ passes # <<>> /\ Head(passes) = "irgen" =>
       dl = Planned
  /\ \A n \in visited : alloc[n] = StructSize(Planned, structs[n])
  /\ exit # Running => fault = "none"

SizedInv == PassesInv /\ Sized

(* Every step of tyr keeps it.                                              *)
LEMMA SizedStep ==
  ASSUME SizedInv, CNext
  PROVE  Sized'
<1>1. /\ exit = Running /\ fault = "none"
      /\ TableInv /\ ExitInvariant /\ Generated /\ Sized
  BY DEF CNext, Live, SizedInv, PassesInv
<1>2. CASE BadFileName \/ CannotOpen \/ ParsingFailed \/ LinkFails \/ OutputBroken
           \/ HeaderBroken \/ BuildFileBroken \/ Return
  <2>1. /\ exit' # Running
        /\ UNCHANGED <<stage, opts, dl, visited, alloc, passes, structs, fault>>
    BY <1>2, BrokenWays, CompilerAssumption
    DEF BadFileName, CannotOpen, ParsingFailed, LinkFails, HeaderBroken,
        BuildFileBroken, Return, Exit, vars
  <2> QED
    BY <1>1, <2>1 DEF Sized, Planned
<1>3. CASE OpenFile \/ ParseStep \/ RegisterPasses \/ LinkMissing
  <2>1. /\ stage \in {"start", "parse", "link"} /\ stage' \in {"start", "parse", "link"}
        /\ UNCHANGED <<dl, visited, alloc, exit>>
    BY <1>3 DEF OpenFile, ParseStep, RegisterPasses, LinkMissing, Die, own
  <2>2. visited = {}
    BY <1>1, <2>1 DEF Generated
  <2> QED
    BY <1>1, <2>1, <2>2 DEF Sized
<1>4. CASE LinkRuntime
  <2>1. /\ stage = "link" /\ stage' = "passes"
        /\ dl' = IF opts.runtime = {} THEN dl ELSE "runtime"
        /\ UNCHANGED <<opts, visited, alloc, passes, exit>>
    BY <1>4 DEF LinkRuntime
  <2>2. visited = {} /\ dl = "default"
    BY <1>1, <2>1 DEF Generated, Sized
  <2>3. dl' = Planned'
    BY <2>1, <2>2 DEF Planned
  <2> QED
    BY <1>1, <2>1, <2>2, <2>3 DEF Sized
<1>5. ASSUME NEW n \in DOMAIN structs, VisitStruct(n) PROVE Sized'
  <2>1. /\ stage = "passes" /\ passes # <<>> /\ Head(passes) = "irgen"
        /\ n \notin visited /\ visited' = visited \cup {n}
        /\ alloc' = [m \in DOMAIN alloc \cup {n} |->
                        IF m = n THEN StructSize(dl, structs[n]) ELSE alloc[m]]
        /\ UNCHANGED <<stage, opts, dl, passes, exit, structs>>
    BY <1>5 DEF VisitStruct
  <2>2. dl = Planned /\ Planned' = Planned /\ DOMAIN alloc = visited
    BY <1>1, <2>1 DEF Sized, Planned
  <2>3. /\ DOMAIN alloc' = visited \cup {n}
        /\ \A m \in visited : alloc'[m] = alloc[m]
        /\ alloc'[n] = StructSize(dl, structs[n])
    <3> DEFINE v == StructSize(dl, structs[n])
    <3> HIDE DEF v
    <3>1. alloc' = [m \in DOMAIN alloc \cup {n} |-> IF m = n THEN v ELSE alloc[m]]
      BY <2>1 DEF v
    <3> QED
      BY <2>1, <2>2, <3>1 DEF v
  <2>4. \A m \in visited' : alloc'[m] = StructSize(Planned', structs'[m])
    BY <1>1, <2>1, <2>2, <2>3 DEF Sized
  <2> QED
    BY <1>1, <2>1, <2>2, <2>3, <2>4 DEF Sized
<1>6. CASE GenerationDone \/ OutputPass \/ BindingPass
  <2>1. /\ stage = "passes" /\ passes # <<>> /\ passes' = Tail(passes)
        /\ UNCHANGED <<stage, opts, visited, alloc, exit, structs>>
    BY <1>6, OutputWays DEF GenerationDone, BindingPass, Turn, Kept, PassReturns, FailingPass, vars
  <2>2. ~(passes' # <<>> /\ Head(passes') = "irgen")
    <3>1. Underway /\ opts \in Options
      BY <1>1, <2>1 DEF ExitInvariant, Underway
    <3>2. CASE passes = <<"irgen", opts.emit>> \o Bindings(opts)
      BY <2>1, <3>1, <3>2, PassesInOrder, PassOrder
    <3>3. CASE passes = <<opts.emit>> \o Bindings(opts)
      BY <2>1, <3>1, <3>3, PassesInOrder, BindingOrder
    <3>4. CASE passes = Bindings(opts)
      <4>1. Tail(passes) \in {<<>>, <<"rust">>}
        BY <2>1, <3>1, <3>4, BindingOrder
      <4>2. <<"rust">> # <<>> /\ Head(<<"rust">>) = "rust"
        OBVIOUS
      <4> QED
        BY <2>1, <4>1, <4>2
    <3>5. CASE passes = <<"rust">>
      BY <2>1, <3>5
    <3> QED
      BY <2>1, <3>1, <3>2, <3>3, <3>4, <3>5 DEF Underway
  <2> QED
    BY <1>1, <2>1, <2>2 DEF Sized, Planned
<1> QED
  BY <1>2, <1>3, <1>4, <1>5, <1>6 DEF CNext, OutputPass, OutputBroken

LEMMA SizedInvariant == CSpec => []SizedInv
<1>1. CInit => SizedInv
  <2> SUFFICES ASSUME CInit PROVE Sized
    BY PassesInit DEF SizedInv
  <2>1. alloc = <<>> /\ visited = {} /\ exit = Running /\ fault = "none" /\ dl = "default"
        /\ stage = "start" /\ DOMAIN <<>> = {}
    BY DEF CInit, Init
  <2> QED
    BY <2>1 DEF Sized
<1>2. SizedInv /\ [CNext]_cvars => SizedInv'
  <2>1. ASSUME SizedInv, UNCHANGED cvars PROVE Sized'
    BY <2>1 DEF SizedInv, Sized, Planned, cvars, own, vars
  <2>2. ASSUME SizedInv, CNext PROVE Sized'
    BY <2>2, SizedStep
  <2>3. ASSUME SizedInv, [CNext]_cvars PROVE PassesInv'
    BY <2>3, PassesStep DEF SizedInv
  <2> QED
    BY <2>1, <2>2, <2>3 DEF SizedInv
<1> QED
  BY <1>1, <1>2, PTL DEF CSpec

(* What create and deserialize allocate is too little for a struct only if  *)
(* its last field is an integer of more than 32 bits, whatever fields it    *)
(* has, and if a runtime module was linked only if that integer has more    *)
(* than 64: LLVM's default layout, by which the size is computed, puts      *)
(* nothing else elsewhere than the target's does.                           *)
THEOREM ShortUnlinked == CSpec => []ShortOnlyUnlinked
<1>1. SizedInv => ShortOnlyUnlinked
  <2> SUFFICES ASSUME SizedInv, exit = 0, NEW n \in visited, Short(n)
               PROVE  /\ WideInteger(Last(structs[n].fields))
                      /\ opts.runtime = {} \/ FieldSize(Last(structs[n].fields)) > 8
    BY DEF ShortOnlyUnlinked
  <2> DEFINE s == structs[n]
             last == Last(s.fields)
  <2>1. fault = "none"
    BY CompilerAssumption DEF SizedInv, Sized
  <2>2. n \in DOMAIN structs /\ s.version # 0 /\ s.typed = Len(s.fields)
    BY <2>1 DEF SizedInv, PassesInv, Generated
  <2>3. /\ s.fields \in Seq(Field) /\ s.packed \in BOOLEAN
    BY <2>2, FieldsAreSequences DEF SizedInv, PassesInv, TableInv
  <2>4. Sorted(s.fields)
    BY <2>2 DEF SizedInv, PassesInv, TableInv
  <2>5. Len(s.fields) \in Nat /\ DOMAIN s.fields = 1..Len(s.fields)
    BY <2>3
  <2>6. alloc[n] = StructSize(Planned, s)
    BY DEF SizedInv, Sized
  <2>7. StructSize(Planned, s) < StructSize("target", s)
    BY <2>6 DEF Short
  <2>8. StructSize("target", s) \in Nat
    BY <2>5, StructSizeType DEF Layout
  <2> HIDE DEF s
  <2>9. StructSize(Planned, s) # StructSize("target", s)
    BY <2>7, <2>8
  <2>10. CASE FieldSize(last) > 8
    BY <2>10, ParserAssumption, CompilerAssumption DEF FieldSize, WideInteger, s
  <2>11. CASE ~(FieldSize(last) > 8)
    <3>1. Narrow(s.fields)
      <4> SUFFICES ASSUME NEW f \in Range(s.fields) PROVE FieldSize(f) <= 8
        BY DEF Narrow
      <4>1. PICK i \in 1..Len(s.fields) : s.fields[i] = f
        BY <2>5 DEF Range
      <4>2. Len(s.fields) \in 1..Len(s.fields) /\ last = s.fields[Len(s.fields)]
        BY <2>5, <4>1 DEF Last
      <4>3. FieldSize(f) \in Nat /\ FieldSize(last) \in Nat
        BY FieldSizeType
      <4>4. FieldSize(f) <= FieldSize(last)
        <5>1. CASE i = Len(s.fields)
          BY <4>1, <4>2, <4>3, <5>1
        <5>2. CASE i # Len(s.fields)
          BY <2>4, <2>5, <4>1, <4>2, <5>2 DEF Sorted
        <5> QED
          BY <5>1, <5>2
      <4> HIDE DEF last
      <4> QED
        BY <2>11, <4>3, <4>4
    <3>2. Planned = "default"
      BY <2>3, <2>9, <3>1, OneTargetLayout DEF Planned
    <3>3. opts.runtime = {}
      BY <3>2 DEF Planned
    <3>4. WideInteger(last)
      BY <2>3, <2>4, <2>9, <3>1, <3>2, SizesDiffer
    <3> QED
      BY <3>3, <3>4 DEF s
  <2> QED
    BY <2>10, <2>11
<1> QED
  BY <1>1, SizedInvariant, PTL

-----------------------------------------------------------------------------
(* Types                                                                    *)

(* The parser's variables have its types until the passes are registered.   *)
TypeInv ==
  /\ stage \in {"start", "parse"} => TypeOK
  /\ opts \in Options /\ dl \in Layout
  /\ passes \in Seq(Pass) /\ allOk \in BOOLEAN
  /\ files \in [{"output", "header", "build"} -> Written]
  /\ exit \in {Running, 0, 1, -1, -2, -3, -4}
  /\ fault \in {"none", "null", "range", "cast", "unresolved", "nomodule"}

(* The parser keeps its types.                                              *)
LEMMA ParserTypeStep ==
  ASSUME TypeOK, Next
  PROVE  TypeOK'
<1>1. TableOK'
  BY StepEffect, TableTypeStep DEF TypeOK, TableOK
<1> QED
  BY <1>1, ProgressTypeStep DEF TypeOK, TableOK

(* Every step of tyr keeps the types.                                       *)
LEMMA TypeStep ==
  ASSUME TypeInv, CNext
  PROVE  TypeInv'
<1>1. exit = Running
  BY DEF CNext, Live
<1>2. TypeOK /\ UNCHANGED vars => TypeOK'
  BY DEF TypeOK, Struct, Field, Type, vars
<1>3. CASE BadFileName \/ CannotOpen \/ ParsingFailed \/ LinkFails \/ Return
  <2>1. /\ exit' \in {0, 1, -1, -2, -3, -4}
        /\ UNCHANGED <<stage, opts, dl, passes, allOk, files, vars>>
    BY <1>3 DEF BadFileName, CannotOpen, ParsingFailed, LinkFails, Return, Exit
  <2>2. fault' = fault
    BY <2>1 DEF vars
  <2> QED
    BY <1>2, <2>1, <2>2 DEF TypeInv
<1>4. CASE OutputBroken \/ HeaderBroken \/ BuildFileBroken
  <2>1. /\ stage = "passes" /\ exit' = 1
        /\ UNCHANGED <<stage, opts, dl, passes, allOk, fault>>
    BY <1>4, BrokenWays DEF HeaderBroken, BuildFileBroken, Exit, Turn, vars
  <2>2. files' \in [{"output", "header", "build"} -> Written]
    <3>1. files \in [{"output", "header", "build"} -> Written]
      BY DEF TypeInv
    <3>2. \A w \in Written, b \in Written :
            /\ [files EXCEPT !.output = w] \in [{"output", "header", "build"} -> Written]
            /\ [files EXCEPT !.header = w] \in [{"output", "header", "build"} -> Written]
            /\ [files EXCEPT !.header = w, !.build = b] \in [{"output", "header", "build"} -> Written]
      BY <3>1
    <3>3. "none" \in Written /\ "torn" \in Written /\ "whole" \in Written
      BY DEF Written
    <3>4. CASE OutputBroken
      BY <3>2, <3>3, <3>4, BrokenWays
    <3>5. CASE HeaderBroken
      BY <3>1, <3>2, <3>3, <3>5 DEF HeaderBroken
    <3>6. CASE BuildFileBroken
      BY <3>2, <3>3, <3>6 DEF BuildFileBroken
    <3> QED
      BY <1>4, <3>4, <3>5, <3>6
  <2> QED
    BY <2>1, <2>2 DEF TypeInv
<1>5. CASE OpenFile
  <2>1. /\ stage = "start" /\ stage' = "parse" /\ fault' = fault
        /\ UNCHANGED <<opts, dl, passes, allOk, files, exit, vars>>
    BY <1>5 DEF OpenFile, vars
  <2> QED
    BY <1>2, <2>1 DEF TypeInv
<1>6. CASE ParseStep
  <2>1. TypeOK'
    BY <1>6, ParserTypeStep DEF ParseStep, TypeInv
  <2>2. UNCHANGED <<opts, dl, passes, allOk, files, exit>>
    BY <1>6 DEF ParseStep, own
  <2> QED
    BY <2>1, <2>2 DEF TypeInv, TypeOK
<1>7. CASE RegisterPasses
  <2>1. /\ stage' = "link" /\ opts' \in Options /\ passes' = Registered(opts') /\ fault' = fault
        /\ UNCHANGED <<dl, allOk, files, exit>>
    BY <1>7 DEF RegisterPasses, vars
  <2>2. passes' \in Seq(Pass)
    <3>1. /\ opts'.emit \in {"object", "bitcode"} /\ Bindings(opts') \in Seq(Pass)
          /\ passes' = <<"irgen", opts'.emit>> \o Bindings(opts')
      BY <2>1, PassOrder
    <3>2. <<"irgen", opts'.emit>> \in Seq(Pass)
      BY <3>1 DEF Pass
    <3> HIDE DEF Pass
    <3> QED
      BY <3>1, <3>2
  <2> QED
    BY <2>1, <2>2 DEF TypeInv
<1>8. CASE LinkRuntime \/ LinkMissing
  <2>1. /\ stage = "link" /\ stage' \in {"link", "passes"} /\ dl' \in {dl, "runtime"}
        /\ fault' \in {fault, "nomodule"}
        /\ UNCHANGED <<opts, passes, allOk, files, exit>>
    BY <1>8 DEF LinkRuntime, LinkMissing, Die, own, vars
  <2> QED
    BY <2>1 DEF TypeInv, Layout
<1>9. ASSUME NEW n \in DOMAIN structs, VisitStruct(n) PROVE TypeInv'
  <2>1. /\ stage = "passes" /\ fault' \in {"none", "null", "cast", "unresolved"}
        /\ UNCHANGED <<stage, opts, dl, passes, allOk, files, exit>>
    BY <1>9 DEF VisitStruct, GenerationFault
  <2> QED
    BY <2>1 DEF TypeInv
<1>10. CASE GenerationDone \/ OutputPass \/ BindingPass
  <2>1. /\ stage = "passes" /\ dl' \in {dl, "target"} /\ passes # <<>> /\ passes' = Tail(passes)
        /\ UNCHANGED <<stage, opts, exit, fault>>
    BY <1>10, OutputWays DEF GenerationDone, BindingPass, Turn, Kept, PassReturns, FailingPass, vars
  <2>2. passes' \in Seq(Pass)
    <3>1. passes \in Seq(Pass)
      BY DEF TypeInv
    <3> HIDE DEF Pass
    <3> QED
      BY <2>1, <3>1
  <2>3. allOk' \in BOOLEAN
    BY <1>10, OutputWays, Zenon DEF GenerationDone, BindingPass, PassReturns, FailingPass
  <2>4. files' \in [{"output", "header", "build"} -> Written]
    <3>1. files \in [{"output", "header", "build"} -> Written]
      BY DEF TypeInv
    <3>2. "none" \in Written /\ "torn" \in Written /\ "whole" \in Written
      BY DEF Written
    <3>3. CASE GenerationDone
      BY <3>1, <3>3 DEF GenerationDone
    <3>4. CASE OutputPass
      BY <3>1, <3>2, <3>4, OutputWays
    <3>5. CASE BindingPass
      BY <3>1, <3>2, <3>5 DEF BindingPass
    <3> QED
      BY <1>10, <3>3, <3>4, <3>5
  <2> QED
    BY <2>1, <2>2, <2>3, <2>4 DEF TypeInv, Layout
<1> QED
  BY <1>3, <1>4, <1>5, <1>6, <1>7, <1>8, <1>9, <1>10 DEF CNext, OutputPass, OutputBroken

(* The types are invariant.                                                 *)
LEMMA TypeInvariant == CSpec => []TypeInv
<1>1. CInit => TypeInv
  <2> SUFFICES ASSUME CInit PROVE TypeInv
    OBVIOUS
  <2>1. TypeOK
    <3>1. 0 \in 0..MaxLines
      BY ParserAssumption
    <3>2. DOMAIN <<>> = {}
      OBVIOUS
    <3>3. /\ inside = FALSE /\ current = None /\ structs = <<>>
          /\ result = "reading" /\ fault = "none" /\ read = 0
      BY DEF CInit, Init
    <3>4. structs \in [DOMAIN structs -> Struct] /\ DOMAIN structs = {}
      BY <3>2, <3>3
    <3> QED
      BY <3>1, <3>3, <3>4 DEF TypeOK
  <2>2. opts \in Options
    BY CompilerAssumption DEF CInit
  <2>3. passes \in Seq(Pass)
    BY DEF CInit
  <2>4. files \in [{"output", "header", "build"} -> Written]
    BY DEF CInit, Written
  <2> QED
    BY <2>1, <2>2, <2>3, <2>4 DEF CInit, Init, TypeInv, Layout
<1>2. TypeInv /\ [CNext]_cvars => TypeInv'
  <2>1. ASSUME TypeInv, UNCHANGED cvars PROVE TypeInv'
    BY <2>1 DEF TypeInv, TypeOK, Struct, Field, Type, cvars, own, vars
  <2> QED
    BY <2>1, TypeStep
<1> QED
  BY <1>1, <1>2, PTL DEF CSpec

(* For every file and command line: the variables of tyr keep their types,  *)
(* main returns one of its seven exit codes, and the size of every struct   *)
(* that LLVMIRGenPass visited is a number.                                  *)
THEOREM CompilerTypesCorrect == CSpec => []CTypeOK
<1>1. TypeInv /\ SizedInv => CTypeOK
  <2> SUFFICES ASSUME TypeInv, SizedInv PROVE CTypeOK
    OBVIOUS
  <2>1. stage \in {"start", "parse", "link", "passes"}
    BY DEF SizedInv, PassesInv, ExitInvariant
  <2>2. visited \subseteq DOMAIN structs /\ DOMAIN alloc = visited
    BY DEF SizedInv, PassesInv, Generated, Sized
  <2>3. \A n \in visited : alloc[n] \in Nat
    <3> SUFFICES ASSUME NEW n \in visited PROVE alloc[n] \in Nat
      OBVIOUS
    <3>1. n \in DOMAIN structs /\ alloc[n] = StructSize(Planned, structs[n])
      BY <2>2 DEF SizedInv, Sized
    <3>2. structs[n].fields \in Seq(Field)
      BY <3>1, FieldsAreSequences DEF SizedInv, PassesInv, TableInv
    <3>3. Len(structs[n].fields) \in Nat
      BY <3>2
    <3> QED
      BY <3>1, <3>3, StructSizeType DEF Planned, Layout
  <2>4. Range(passes) \subseteq {"irgen", "object", "bitcode", "c", "rust"}
    <3>1. passes \in Seq(Pass)
      BY DEF TypeInv
    <3>2. \A i \in DOMAIN passes : passes[i] \in Pass
      BY <3>1
    <3> QED
      BY <3>2 DEF Range, Pass
  <2> QED
    BY <2>1, <2>2, <2>3, <2>4 DEF TypeInv, CTypeOK
<1> QED
  BY <1>1, TypeInvariant, SizedInvariant, PTL
-----------------------------------------------------------------------------
(* Files that are documented and plain are compiled                         *)

(* What is in a sequence occurs in it, and the other way round.             *)
LEMMA OccursInRange ==
  ASSUME NEW S, NEW s \in Seq(S), NEW x
  PROVE  Occurrences(s, x) # 0 <=> x \in Range(s)
<1>1. IsFiniteSet({i \in DOMAIN s : s[i] = x})
  BY OccurrencesFinite
<1>2. Occurrences(s, x) = 0 <=> {i \in DOMAIN s : s[i] = x} = {}
  BY <1>1, FS_EmptySet DEF Occurrences
<1>3. {i \in DOMAIN s : s[i] = x} = {} <=> x \notin Range(s)
  BY DEF Range
<1> QED
  BY <1>2, <1>3

(* The declaration of a field; that of a count is the one of its array.     *)
Declares(d, f) ==
  /\ d.name = f.name /\ d.type = f.type
  /\ d.kind = IF f.kind = "count" THEN "array" ELSE f.kind

(* Every field was declared.                                                *)
LEMMA FieldsDeclared ==
  ASSUME TableInv, SameTable, NEW n \in DOMAIN structs, NEW f \in Range(structs[n].fields)
  PROVE  \E d \in Range(doc.declared[n]) : Declares(d, f)
<1> DEFINE fs == structs[n].fields
           ds == doc.declared[n]
<1>1. fs \in Seq(Field) /\ Mated(fs)
  BY FieldsAreSequences DEF TableInv, Ordered
<1>2. ds \in Seq(DeclaredField) /\ Agree(fs, ds)
  BY DEF SameTable
<1>3. f \in Range(fs)
  OBVIOUS
<1> HIDE DEF fs, ds
<1>4. ASSUME NEW g \in Range(fs), g.kind # "count"
      PROVE  Form(g) \in Range(ds)
  <2>1. PICK i \in DOMAIN fs : fs[i] = g
    BY <1>4 DEF Range
  <2>2. /\ Declared(fs) \in Seq({Form(h) : h \in Range(fs)})
        /\ i \in DOMAIN Declared(fs) /\ Declared(fs)[i] = Form(g)
    <3>1. Declared(fs) = [k \in DOMAIN fs |-> Form(fs[k])]
      BY DEF Declared, Form
    <3>2. DOMAIN fs = 1..Len(fs) /\ Len(fs) \in Nat
      BY <1>1
    <3>3. \A k \in DOMAIN fs : Form(fs[k]) \in {Form(h) : h \in Range(fs)}
      BY DEF Range
    <3> DEFINE F == {Form(h) : h \in Range(fs)}
    <3> HIDE DEF F
    <3>4. Declared(fs) \in Seq(F)
      BY <3>1, <3>2, <3>3 DEF F
    <3> QED
      BY <2>1, <3>1, <3>4 DEF F
  <2>3. Form(g) \in Range(Declared(fs))
    BY <2>2 DEF Range
  <2>4. Occurrences(Declared(fs), Form(g)) # 0
    BY <2>2, <2>3, OccursInRange
  <2>5. Form(g).kind # "count"
    BY <1>4 DEF Form
  <2>6. Occurrences(ds, Form(g)) # 0
    BY <1>2, <2>4, <2>5 DEF Agree
  <2> QED
    BY <1>2, <2>6, OccursInRange
<1>5. CASE f.kind # "count"
  <2>1. Form(f) \in Range(ds)
    BY <1>3, <1>4, <1>5
  <2>2. Declares(Form(f), f)
    BY <1>5 DEF Declares, Form
  <2> QED
    BY <2>1, <2>2 DEF ds
<1>6. CASE f.kind = "count"
  <2>1. f \in Field
    <3>1. PICK i \in DOMAIN fs : fs[i] = f
      BY <1>3 DEF Range
    <3> QED
      BY <1>1, <3>1
  <2> DEFINE a == [f EXCEPT !.kind = "array"]
  <2>2. a \in Range(fs)
    BY <1>1, <1>3, <1>6 DEF Mated
  <2>4. a \in Range(fs) /\ a.kind = "array" /\ a.name = f.name /\ a.type = f.type
    BY <2>1, <2>2 DEF Field
  <2> HIDE DEF a
  <2>5. Form(a) \in Range(ds)
    BY <1>4, <2>4
  <2>6. Declares(Form(a), f)
    BY <1>6, <2>4 DEF Declares, Form
  <2> QED
    BY <2>5, <2>6 DEF ds
<1> QED
  BY <1>5, <1>6

(* The type of a value, of what was declared so, if every struct has one    *)
(* LLVM type.                                                               *)
PlainType(d) ==
  LET t == <<d.type, IF d.type \in Builtin THEN 0 ELSE 1>>
  IN IF d.kind = "array" THEN <<"*", d.type, IF d.type \in Builtin THEN 0 ELSE 1>> ELSE t

(* The parameters that a function has by its name and its field.            *)
Signature(verb, to, d) ==
  CASE verb \notin {"get", "set"}                    -> <<>>
    [] verb = "get" /\ to = d.name                   -> <<Ref(PlainType(d))>>
    [] verb = "set" /\ to = d.name                   ->
         IF d.kind = "array" THEN <<PlainType(d), Uint64>> ELSE <<PlainType(d)>>
    [] verb = "get" /\ to = d.name \o "_item"        -> <<Uint64, PlainType(d)>>
    [] verb = "set" /\ to = d.name \o "_item"        -> <<Uint64, Tail(PlainType(d))>>
    [] verb = "get" /\ to = d.name \o "_count"       -> <<Ref(Uint64)>>
    [] verb = "set" /\ to = d.name \o "_count"       -> <<Uint64>>

(* They follow from the name and the declaration alone.                     *)
LEMMA FieldSignature ==
  ASSUME NEW n, NEW f, NEW d, Declares(d, f), f.kind \in {"scalar", "count", "array"},
         f.name \in Words, f.of = IF f.type \in Builtin THEN 0 ELSE 1,
         NEW g \in FieldFunctions(n, f)
  PROVE  \E verb, to : /\ to \in Suffixed(d)
                       /\ g = Function(<<verb, n, structs[n].version, to>>, Signature(verb, to, d))
<1> DEFINE item == f.name \o "_item"
           count == f.name \o "_count"
           F(verb, to, params) == Function(<<verb, n, structs[n].version, to>>, params)
<1>1. item # f.name /\ count # f.name /\ item # count
  BY NameAssumption DEF Words
<1>2. d.name = f.name /\ d.type = f.type
  BY DEF Declares
<1> SUFFICES \E verb, to : to \in Suffixed(d) /\ g = F(verb, to, Signature(verb, to, d))
  OBVIOUS
<1>3. CASE f.kind = "scalar"
  <2>1. d.kind = "scalar" /\ PlainType(d) = ValueType(f) /\ FieldName(f) = f.name
    BY <1>2, <1>3 DEF Declares, PlainType, ValueType, FieldName
  <2>2. g \in {F("get", f.name, <<Ref(ValueType(f))>>), F("set", f.name, <<ValueType(f)>>),
               F("serialize", f.name, <<>>), F("deserialize", f.name, <<>>)}
    BY <1>3, <2>1 DEF FieldFunctions
  <2>3. f.name \in Suffixed(d)
    BY <1>2 DEF Suffixed
  <2>4. Signature("get", f.name, d) = <<Ref(ValueType(f))>>
    BY <1>1, <1>2, <2>1 DEF Signature
  <2>7. Signature("set", f.name, d) = <<ValueType(f)>>
    BY <1>1, <1>2, <2>1 DEF Signature
  <2>6. Signature("serialize", f.name, d) = <<>> /\ Signature("deserialize", f.name, d) = <<>>
    BY DEF Signature
  <2> HIDE DEF F
  <2> QED
    BY <2>2, <2>3, <2>4, <2>6, <2>7
<1>4. CASE f.kind = "count"
  <2>1. d.kind = "array" /\ ValueType(f) = Uint64 /\ FieldName(f) = count
    BY <1>4 DEF Declares, ValueType, FieldName, Uint64
  <2>2. g \in {F("get", count, <<Ref(Uint64)>>), F("set", count, <<Uint64>>)}
    BY <1>4, <2>1 DEF FieldFunctions
  <2>3. count \in Suffixed(d)
    BY <1>2, <2>1 DEF Suffixed
  <2>4. /\ Signature("get", count, d) = <<Ref(Uint64)>>
        /\ Signature("set", count, d) = <<Uint64>>
    BY <1>1, <1>2 DEF Signature
  <2> HIDE DEF F, count
  <2> QED
    BY <2>2, <2>3, <2>4
<1>5. CASE f.kind = "array"
  <2>1. d.kind = "array" /\ PlainType(d) = ValueType(f) /\ FieldName(f) = f.name
        /\ ItemType(f) = Tail(PlainType(d))
    BY <1>2, <1>5 DEF Declares, PlainType, ValueType, FieldName, ItemType
  <2>2. g \in {F("get", f.name, <<Ref(ValueType(f))>>), F("set", f.name, <<ValueType(f), Uint64>>),
               F("get", item, <<Uint64, ValueType(f)>>), F("set", item, <<Uint64, ItemType(f)>>),
               F("serialize", f.name, <<>>), F("deserialize", f.name, <<>>)}
    BY <1>5, <2>1 DEF FieldFunctions
  <2>3. f.name \in Suffixed(d) /\ item \in Suffixed(d)
    BY <1>2, <2>1 DEF Suffixed
  <2>4. Signature("get", f.name, d) = <<Ref(ValueType(f))>>
    BY <1>1, <1>2, <2>1 DEF Signature
  <2>7. Signature("set", f.name, d) = <<ValueType(f), Uint64>>
    BY <1>1, <1>2, <2>1 DEF Signature
  <2>6. Signature("serialize", f.name, d) = <<>> /\ Signature("deserialize", f.name, d) = <<>>
    BY DEF Signature
  <2>5. /\ Signature("get", item, d) = <<Uint64, ValueType(f)>>
        /\ Signature("set", item, d) = <<Uint64, ItemType(f)>>
    BY <1>1, <1>2, <2>1 DEF Signature
  <2> HIDE DEF F, item
  <2> QED
    BY <2>2, <2>3, <2>4, <2>5, <2>6, <2>7
<1> QED
  BY <1>3, <1>4, <1>5

(* If the names of the fields keep apart, no two functions of the module    *)
(* share a name and differ.                                                 *)
LEMMA NoClash ==
  ASSUME TableInv, SameTable, current = None,
         \A n \in DOMAIN structs : PlainStruct(doc.declared[n])
  PROVE  ~Clash(UNION {Made(n) : n \in DOMAIN structs})
<1> DEFINE G(verb, n, to, d) ==
             Function(<<verb, n, structs[n].version, to>>, Signature(verb, to, d))
<1>1. ASSUME NEW n \in DOMAIN structs, NEW f \in Range(structs[n].fields), NEW g \in FieldFunctions(n, f)
      PROVE  \E d \in Range(doc.declared[n]) : \E verb, to : to \in Suffixed(d) /\ g = G(verb, n, to, d)
  <2>1. PICK d \in Range(doc.declared[n]) : Declares(d, f)
    BY FieldsDeclared
  <2>2. f \in Field
    <3>1. structs[n].fields \in Seq(Field)
      BY FieldsAreSequences DEF TableInv
    <3> QED
      BY <3>1 DEF Range
  <2>3. f.kind \in {"scalar", "count", "array"} /\ f.type \in Builtin \cup DOMAIN structs
    BY <2>2 DEF Field, Type
  <2>4. Remembers(f)
    BY DEF TableInv
  <2>5. f.of = IF f.type \in Builtin THEN 0 ELSE 1
    <3>1. CASE f.type \in Builtin
      BY <2>4, <3>1 DEF Remembers
    <3>2. CASE f.type \notin Builtin
      <4>1. f.type \in DOMAIN structs /\ f.type # current
        BY <2>3, <3>2 DEF SameTable
      <4>2. structs[f.type].version = 1
        BY <4>1 DEF SameTable
      <4>3. f.of \in 1..1
        BY <2>4, <3>2, <4>2 DEF Remembers
      <4> QED
        BY <3>2, <4>3
    <3> QED
      BY <3>1, <3>2
  <2>6. f.name \in Words
    BY <2>4 DEF Remembers
  <2>7. \E verb, to : to \in Suffixed(d) /\ g = G(verb, n, to, d)
    BY <2>1, <2>3, <2>5, <2>6, FieldSignature
  <2> HIDE DEF G
  <2> QED
    BY <2>7
<1>2. ASSUME NEW n \in DOMAIN structs, NEW g \in StructFunctions(n)
      PROVE  \E verb : g = Function(<<verb, n>>, IF verb = "create" THEN Constructor(n).params ELSE <<>>)
  <2>1. CASE g = Constructor(n)
    <3>1. Constructor(n) = Function(<<"create", n>>, Constructor(n).params)
      BY DEF Constructor, Function
    <3> QED
      BY <2>1, <3>1
  <2>2. CASE g # Constructor(n)
    <3>1. PICK verb \in {"destroy", "serialize", "deserialize"} : g = Function(<<verb, n>>, <<>>)
      BY <2>2 DEF StructFunctions
    <3>2. verb # "create"
      OBVIOUS
    <3> QED
      BY <3>1, <3>2
  <2> QED
    BY <2>1, <2>2
<1>3. ASSUME NEW g \in UNION {Made(n) : n \in DOMAIN structs}
      PROVE  \E n \in DOMAIN structs :
               \/ \E verb : g = Function(<<verb, n>>, IF verb = "create" THEN Constructor(n).params ELSE <<>>)
               \/ \E d \in Range(doc.declared[n]) : \E verb, to : to \in Suffixed(d) /\ g = G(verb, n, to, d)
  <2>1. PICK n \in DOMAIN structs : g \in Made(n)
    OBVIOUS
  <2>2. CASE g \in StructFunctions(n)
    BY <1>2, <2>2
  <2>3. CASE g \notin StructFunctions(n)
    <3>1. PICK f \in Range(structs[n].fields) : g \in FieldFunctions(n, f)
      BY <2>1, <2>3 DEF Made
    <3> HIDE DEF G
    <3> QED
      BY <1>1, <3>1
  <2> QED
    BY <2>2, <2>3
<1>4. SUFFICES ASSUME NEW g \in UNION {Made(n) : n \in DOMAIN structs},
                      NEW h \in UNION {Made(n) : n \in DOMAIN structs},
                      g.name = h.name
               PROVE  g.params = h.params
  BY DEF Clash
<1>5. \A name, params : Function(name, params).name = name /\ Function(name, params).params = params
  BY DEF Function
<1>6. PICK n \in DOMAIN structs :
               \/ \E verb : g = Function(<<verb, n>>, IF verb = "create" THEN Constructor(n).params ELSE <<>>)
               \/ \E d \in Range(doc.declared[n]) : \E verb, to : to \in Suffixed(d) /\ g = G(verb, n, to, d)
  BY <1>3
<1>7. PICK m \in DOMAIN structs :
               \/ \E verb : h = Function(<<verb, m>>, IF verb = "create" THEN Constructor(m).params ELSE <<>>)
               \/ \E d \in Range(doc.declared[m]) : \E verb, to : to \in Suffixed(d) /\ h = G(verb, m, to, d)
  BY <1>3
<1>8. \A a, b, c, d, v, w : <<a, b>> # <<v, c, w, d>>
  OBVIOUS
<1>9. CASE \E verb : g = Function(<<verb, n>>, IF verb = "create" THEN Constructor(n).params ELSE <<>>)
  <2>1. PICK verb : g = Function(<<verb, n>>, IF verb = "create" THEN Constructor(n).params ELSE <<>>)
    BY <1>9
  <2>2. ASSUME NEW v, NEW to, NEW d PROVE h # G(v, m, to, d)
    <3>1. g.name = <<verb, n>>
      BY <1>5, <2>1
    <3>2. G(v, m, to, d).name = <<v, m, structs[m].version, to>>
      BY <1>5
    <3> HIDE DEF G
    <3> QED
      BY <1>4, <1>8, <3>1, <3>2
  <2>3. PICK v : h = Function(<<v, m>>, IF v = "create" THEN Constructor(m).params ELSE <<>>)
    BY <1>7, <2>2
  <2>4. <<verb, n>> = <<v, m>>
    BY <1>4, <1>5, <2>1, <2>3
  <2>5. verb = v /\ n = m
    BY <2>4
  <2> QED
    BY <2>1, <2>3, <2>5
<1>10. CASE \E d \in Range(doc.declared[n]) : \E verb, to : to \in Suffixed(d) /\ g = G(verb, n, to, d)
  <2>1. PICK d \in Range(doc.declared[n]) : \E verb, to : to \in Suffixed(d) /\ g = G(verb, n, to, d)
    BY <1>10
  <2>2. PICK verb, to : to \in Suffixed(d) /\ g = G(verb, n, to, d)
    BY <2>1
  <2>3. ASSUME NEW v, NEW params PROVE h # Function(<<v, m>>, params)
    <3>1. g.name = <<verb, n, structs[n].version, to>>
      BY <1>5, <2>2
    <3>2. Function(<<v, m>>, params).name = <<v, m>>
      BY <1>5
    <3> QED
      BY <1>4, <1>8, <3>1, <3>2
  <2>4. PICK e \in Range(doc.declared[m]) : \E v, ot : ot \in Suffixed(e) /\ h = G(v, m, ot, e)
    BY <1>7, <2>3
  <2>5. PICK v, ot : ot \in Suffixed(e) /\ h = G(v, m, ot, e)
    BY <2>4
  <2>6. <<verb, n, structs[n].version, to>> = <<v, m, structs[m].version, ot>>
    BY <1>4, <1>5, <2>2, <2>5
  <2>7. verb = v /\ n = m /\ to = ot
    BY <2>6
  <2>8. d.name = e.name /\ d.type = e.type /\ d.kind = e.kind
    <3>1. Suffixed(d) \cap Suffixed(e) # {} /\ d \in Range(doc.declared[n]) /\ e \in Range(doc.declared[n])
      BY <2>2, <2>5, <2>7
    <3> QED
      BY <3>1 DEF PlainStruct
  <2>9. Signature(verb, to, d) = Signature(v, ot, e)
    BY <2>7, <2>8 DEF Signature, PlainType
  <2>10. g.params = Signature(verb, to, d) /\ h.params = Signature(v, ot, e)
    BY <1>5, <2>2, <2>5
  <2> QED
    BY <2>9, <2>10
<1> QED
  BY <1>6, <1>9, <1>10

(* A struct that is documented and plain is generated.                      *)
LEMMA NoGenerationFault ==
  ASSUME TableInv, SameTable, current = None,
         \A m \in DOMAIN structs : PlainStruct(doc.declared[m]),
         NEW n \in DOMAIN structs, NEW made,
         made = UNION {FieldFunctions(n, f) : f \in Range(structs[n].fields)},
         defined \subseteq UNION {Made(m) : m \in DOMAIN structs}
  PROVE  GenerationFault(n, made) = "none"
<1>1. structs[n].version = 1 /\ structs[n].typed = Len(structs[n].fields)
  BY DEF SameTable, TableInv
<1>2. ~\E f \in Range(structs[n].fields) : StructField(f)
  <2> SUFFICES ASSUME NEW f \in Range(structs[n].fields), f.kind = "scalar" PROVE f.type \in Builtin
    BY DEF StructField
  <2>1. PICK d \in Range(doc.declared[n]) : Declares(d, f)
    BY FieldsDeclared
  <2>2. d.kind = "scalar" /\ d.type = f.type
    BY <2>1 DEF Declares
  <2> QED
    BY <2>2 DEF PlainStruct
<1>3. ~Clash(defined \cup made)
  <2>1. made \subseteq Made(n)
    BY DEF Made
  <2>2. defined \cup made \subseteq UNION {Made(m) : m \in DOMAIN structs}
    BY <2>1
  <2> QED
    BY <2>2, NoClash DEF Clash
<1>4. LookedUp(n) \subseteq made
  <2> DEFINE H(verb, f) == Function(<<verb, n, structs[n].version, f.name>>, <<>>)
             Verbs == {"serialize", "deserialize"}
             Fields == {h \in Range(structs[n].fields) : h.kind # "count"}
  <2>1. ASSUME NEW verb \in Verbs, NEW f \in Fields PROVE H(verb, f) \in made
    <3>1. H(verb, f) \in FieldFunctions(n, f)
      BY FunctionsMade
    <3> QED
      BY <3>1
  <2>2. LookedUp(n) = {H(verb, f) : verb \in Verbs, f \in Fields}
    BY DEF LookedUp
  <2> HIDE DEF H, Verbs, Fields
  <2> QED
    BY <2>1, <2>2
<1> QED
  BY <1>1, <1>2, <1>3, <1>4 DEF GenerationFault, NoParent, PointerCast

(* While the file is read the parser goes along with the reader; after that *)
(* the table is the declared one, and the module has no other functions     *)
(* than those of its structs.                                               *)
DocInv ==
  /\ DocShape
  /\ stage \in {"start", "parse"} => Tracks
  /\ doc.known => SameTable
  /\ defined \subseteq UNION {Made(n) : n \in visited}
  /\ PlainCompiles

PlainInv == PassesInv /\ TypeInv /\ DocInv

(* A step that leaves the table, the document and the module alone.         *)
LEMMA DocUnchanged ==
  ASSUME DocInv, UNCHANGED <<current, structs, doc, visited, defined>>,
         fault' \in {fault, "nomodule"},
         stage' \in {"start", "parse"} =>
           stage \in {"start", "parse"} /\ UNCHANGED <<fault, result, inside>>
  PROVE  DocInv'
<1>1. SameTable => SameTable'
  BY DEF SameTable
<1>2. Tracks /\ UNCHANGED <<fault, result, inside>> => Tracks'
  BY <1>1 DEF Tracks
<1>3. UNION {Made(n) : n \in visited} \subseteq (UNION {Made(n) : n \in visited})'
  BY MadeUnchanged
<1>4. PlainCompiles'
  BY DEF DocInv, PlainCompiles
<1>5. DocShape'
  BY DEF DocInv, DocShape
<1> QED
  BY <1>1, <1>2, <1>3, <1>4, <1>5 DEF DocInv

(* Every step of tyr keeps it.                                              *)
LEMMA DocStep ==
  ASSUME PlainInv, CNext
  PROVE  DocInv'
<1>1. fault = "none" /\ exit = Running /\ PassesInv /\ TypeInv /\ DocInv
  BY DEF CNext, Live, PlainInv
<1>2. CASE ParseStep
  <2>1. /\ stage = "parse" /\ Next /\ stage' = stage /\ visited' = visited /\ defined' = defined
    BY <1>2 DEF ParseStep, own
  <2>2. TypeOK /\ DocShape /\ Tracks
    BY <1>1, <2>1 DEF TypeInv, DocInv
  <2>3. DocShape' /\ Tracks'
    BY <2>1, <2>2, ParseTracked
  <2>4. visited = {} /\ defined = {}
    BY <1>1, <2>1 DEF PassesInv, Generated, DocInv
  <2>5. doc'.known => SameTable' /\ fault' = "none"
    BY <2>3 DEF Tracks
  <2>6. PlainCompiles'
    BY <2>5 DEF PlainCompiles
  <2> QED
    BY <2>1, <2>3, <2>4, <2>5, <2>6 DEF DocInv
<1>3. ASSUME NEW n \in DOMAIN structs, VisitStruct(n) PROVE DocInv'
  <2> DEFINE made == UNION {FieldFunctions(n, f) : f \in Range(structs[n].fields)}
  <2>1. /\ stage = "passes" /\ fault' = GenerationFault(n, made)
        /\ visited' = visited \cup {n} /\ defined' = defined \cup made \cup StructFunctions(n)
        /\ UNCHANGED <<stage, current, structs, doc>>
    BY <1>3 DEF VisitStruct, FieldsVisited
  <2>2. Made(n) = made \cup StructFunctions(n)
    BY DEF Made
  <2>3. \A m : Made(m)' = Made(m)
    BY <2>1, MadeUnchanged
  <2> HIDE DEF made
  <2>4. defined' \subseteq (UNION {Made(m) : m \in visited})'
    BY <1>1, <2>1, <2>2, <2>3 DEF DocInv
  <2>5. defined \subseteq UNION {Made(m) : m \in DOMAIN structs}
    BY <1>1 DEF DocInv, PassesInv, Generated
  <2>6. PlainCompiles'
    <3> SUFFICES ASSUME doc.known, doc.open = None,
                        \A m \in DOMAIN doc.declared : PlainStruct(doc.declared[m])
                 PROVE  fault' = "none"
      BY <2>1 DEF PlainCompiles
    <3>1. SameTable /\ TableInv
      BY <1>1 DEF DocInv, PassesInv
    <3>2. current = None /\ DOMAIN structs = DOMAIN doc.declared
      BY <3>1 DEF SameTable
    <3>3. GenerationFault(n, made) = "none"
      BY <2>5, <3>1, <3>2, NoGenerationFault DEF made
    <3> QED
      BY <2>1, <3>3
  <2>7. SameTable => SameTable'
    BY <2>1 DEF SameTable
  <2>8. DocShape'
    BY <1>1, <2>1 DEF DocInv, DocShape
  <2> QED
    BY <1>1, <2>1, <2>4, <2>6, <2>7, <2>8 DEF DocInv
<1>4. CASE BadFileName \/ CannotOpen \/ OpenFile \/ ParsingFailed
  <2>1. /\ stage \in {"start", "parse"} /\ UNCHANGED <<visited, defined, vars>>
    BY <1>4 DEF BadFileName, CannotOpen, OpenFile, ParsingFailed, Exit
  <2> QED
    BY <1>1, <2>1, DocUnchanged DEF vars
<1>5. CASE RegisterPasses \/ LinkRuntime \/ LinkFails \/ LinkMissing
  <2>1. /\ stage' \in {"link", "passes"} /\ fault' \in {fault, "nomodule"}
        /\ UNCHANGED <<current, structs, doc, visited, defined>>
    BY <1>5 DEF RegisterPasses, LinkRuntime, LinkFails, LinkMissing, Exit, Die, own, vars
  <2> QED
    BY <1>1, <2>1, DocUnchanged
<1>6. CASE \/ GenerationDone \/ OutputPass \/ OutputBroken
           \/ BindingPass \/ HeaderBroken \/ BuildFileBroken \/ Return
  <2>1. /\ stage' = "passes" /\ fault' = fault
        /\ UNCHANGED <<current, structs, doc, visited, defined>>
    BY <1>6, OutputWays, BrokenWays
    DEF GenerationDone, BindingPass, HeaderBroken,
                BuildFileBroken, Return, Turn, Exit, Kept, vars
  <2> QED
    BY <1>1, <2>1, DocUnchanged
<1> QED
  BY <1>2, <1>3, <1>4, <1>5, <1>6 DEF CNext, OutputPass, OutputBroken

(* For every file: if it is in the form of doc/Syntax.md, with no field of  *)
(* a struct type and no two fields that differ whose functions share a      *)
(* name, then tyr compiles it without undefined behaviour, in whatever      *)
(* order LLVMIRGenPass visits the structs - if the runtime's bitcode is     *)
(* where it should be.                                                      *)
THEOREM PlainFilesCompile == CSpec => []PlainCompiles
<1>1. CInit => DocInv
  <2> SUFFICES ASSUME CInit PROVE DocInv
    OBVIOUS
  <2>1. DocShape /\ Tracks
    BY DocInit DEF CInit
  <2>2. fault = "none" /\ defined = {} /\ stage = "start"
    BY DEF CInit, Init
  <2> QED
    BY <2>1, <2>2 DEF DocInv, Tracks, PlainCompiles
<1>2. DocInv /\ PassesInv /\ TypeInv /\ [CNext]_cvars => DocInv'
  <2>1. ASSUME DocInv, UNCHANGED cvars PROVE DocInv'
    BY <2>1, DocUnchanged DEF cvars, own, vars
  <2> QED
    BY <2>1, DocStep DEF PlainInv
<1>3. CSpec => []PassesInv
  BY PassesInit, PassesStep, PTL DEF CSpec
<1>4. DocInv => PlainCompiles
  BY DEF DocInv
<1> QED
  BY <1>1, <1>2, <1>3, <1>4, TypeInvariant, PTL DEF CSpec
=============================================================================
