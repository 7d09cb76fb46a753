------------------------------ MODULE Runtime -------------------------------
(***************************************************************************)
(* The runtime that tyr links into generated code: FileHelper.c and the    *)
(* two functions of Base64.c around the encoder.                           *)
(*                                                                         *)
(* A client saves objects of one struct type to one file, loads them, and  *)
(* turns them into text and back.  A save goes from one call of the C      *)
(* library to the next, so that the process may die between any two.       *)
(* Memory is counted, not laid out; serializer and deserializer are calls  *)
(* that succeed or return NULL, as Serialization has them in detail.       *)
(***************************************************************************)
EXTENDS Base64, SequencesExt

CONSTANTS
  Contents,  \* the serialized fields of the objects: sequences of bytes
  Foreign,   \* what the ten bytes after the serializer's block may be
  None,      \* nothing
  NULL,
  Cuts,      \* bound: the numbers of bytes at which a write may stop
  MaxOpen,   \* bound: the streams that a process may have open
  MaxLost    \* bound: no call starts after that many blocks were lost

Byte == 0..255
Junk == 256  \* a byte that was never stored
Header == 8

ASSUME RuntimeAssumption ==
  /\ \A c \in Contents : c \in Seq(Byte) /\ Len(c) < 200
  /\ \A j \in Foreign : j \in [1..10 -> Byte]
  /\ Cuts \subseteq Nat /\ MaxOpen \in Nat \ {0} /\ MaxLost \in Nat

VARIABLES
  size,    \* the size of the struct's serialized fields
  custom,  \* tyr was told other names for malloc and free
  file,    \* the bytes of the file, or None
  kept,    \* auxiliary: the object that was saved in the file, if one was
  call,    \* the call of save that runs: where it is, on which object
  stream,  \* its stream: the position, and what the library holds back
  leaked,  \* the streams that were never closed
  lost,    \* who lost the blocks that nobody has a pointer to
  failed,  \* auxiliary: a call of the library failed in this process
  text,    \* the text of the last encoding, and the object it is of
  got,     \* what the last load or decoding gave
  fault    \* the undefined behaviour met so far

disk == <<file, kept>>
memory == <<leaked, lost>>
client == <<text, got>>
rvars == <<size, custom, disk, call, stream, memory, failed, client, fault>>

Idle == [at |-> "idle", of |-> None]
Start == call = Idle /\ Len(lost) < MaxLost

(* The serialized form: the length of all of it in 64 bits, then the        *)
(* fields.  Objects are short enough (RuntimeAssumption) that the first     *)
(* byte is the length and the seven after it are 0.                         *)
Serialized(o) ==
  [i \in 1..(Header + Len(o)) |->
     IF i = 1 THEN Header + Len(o) ELSE IF i <= Header THEN 0 ELSE o[i - Header]]

(* A stream writes at its own position, whoever has written there since.    *)
WriteAt(f, pos, bytes) ==
  IF bytes = <<>> THEN f
  ELSE [i \in 1..(IF pos + Len(bytes) < Len(f) THEN Len(f) ELSE pos + Len(bytes)) |->
          IF i \in (pos + 1)..(pos + Len(bytes)) THEN bytes[i - pos]
          ELSE IF i <= Len(f) THEN f[i] ELSE 0]

Leak(s) == leaked' = Append(leaked, s)
Lose(who) == lost' = Append(lost, who)

-----------------------------------------------------------------------------
(* tyr_serialize_to_file                                                    *)

(* Mutant: fopen(filename, "ab").                                           *)
SaveOpensAppending(o) ==
  /\ Start /\ Len(leaked) < MaxOpen
  /\ file' = IF file = None THEN <<>> ELSE file
  /\ stream' = [pos |-> Len(file'), pending |-> <<>>]
  /\ kept' = None /\ call' = [at |-> "serialize", of |-> o]
  /\ got' = None
  /\ UNCHANGED <<size, custom, memory, failed, text, fault>>

SaveOpens(o) ==
  /\ Start /\ Len(leaked) < MaxOpen
  /\ file' = <<>>
  /\ stream' = [pos |-> 0, pending |-> <<>>]
  /\ kept' = None /\ call' = [at |-> "serialize", of |-> o]
  /\ got' = None
  /\ UNCHANGED <<size, custom, memory, failed, text, fault>>

SaveCannotOpen ==
  /\ Start
  /\ failed' = TRUE
  /\ UNCHANGED <<size, custom, disk, call, stream, memory, client, fault>>

SaveSerializes ==
  /\ call.at = "serialize" /\ call' = [call EXCEPT !.at = "write"]
  /\ UNCHANGED <<size, custom, disk, stream, memory, failed, client, fault>>

SaveSerializerFails ==
  /\ call.at = "serialize" /\ call' = Idle
  /\ Leak(stream) /\ failed' = TRUE
  /\ UNCHANGED <<size, custom, disk, stream, lost, client, fault>>

Upto(n) == {k \in Cuts \cup {n} : 0 <= k /\ k <= n}

(* fwrite takes n bytes; the first p of them are written.                   *)
Taken(p, n) ==
  LET bytes == Serialized(call.of) IN
  /\ file' = WriteAt(file, stream.pos, SubSeq(bytes, 1, p))
  /\ stream' = [pos |-> stream.pos + p, pending |-> SubSeq(bytes, p + 1, n)]

SaveWrites ==
  /\ call.at = "write" /\ call' = [call EXCEPT !.at = "close"]
  /\ \E p \in Upto(Header + size) : Taken(p, Header + size)
  /\ UNCHANGED <<size, custom, kept, memory, failed, client, fault>>

(* Mutant: what fwrite returns is not looked at.                            *)
SaveWriteFailsUnnoticed ==
  /\ call.at = "write" /\ call' = [call EXCEPT !.at = "close"]
  /\ \E n \in Upto(Header + size - 1) : \E p \in Upto(n) : Taken(p, n)
  /\ failed' = TRUE
  /\ UNCHANGED <<size, custom, kept, memory, client, fault>>

SaveWriteFails ==
  /\ call.at = "write" /\ call' = Idle
  /\ \E n \in Upto(Header + size - 1) : \E p \in Upto(n) : Taken(p, n)
  /\ Leak(stream') /\ Lose("failure") /\ failed' = TRUE
  /\ UNCHANGED <<size, custom, kept, client, fault>>

(* The C library's free, of a block from the generated code's malloc.       *)
SaveFreesForeign ==
  /\ call.at = "close" /\ custom
  /\ fault' = "free"
  /\ UNCHANGED <<size, custom, disk, call, stream, memory, failed, client>>

(* Mutant: the buffer is not freed.                                         *)
SaveReturnsUnfreed ==
  /\ call.at = "close" /\ ~custom /\ call' = Idle
  /\ file' = WriteAt(file, stream.pos, stream.pending) /\ kept' = call.of
  /\ Lose("failure")
  /\ UNCHANGED <<size, custom, stream, leaked, failed, client, fault>>

SaveReturns ==
  /\ call.at = "close" /\ ~custom /\ call' = Idle
  /\ file' = WriteAt(file, stream.pos, stream.pending) /\ kept' = call.of
  /\ UNCHANGED <<size, custom, stream, memory, failed, client, fault>>

(* fclose could not write what was held back; the save returns true.        *)
SaveFlushFails ==
  /\ call.at = "close" /\ ~custom /\ call' = Idle
  /\ \E q \in Upto(Len(stream.pending) - 1) :
       file' = WriteAt(file, stream.pos, SubSeq(stream.pending, 1, q))
  /\ failed' = TRUE
  /\ UNCHANGED <<size, custom, kept, stream, memory, client, fault>>

-----------------------------------------------------------------------------
(* tyr_deserialize_from_file                                                *)

Give(by, value) == got' = [by |-> by, value |-> value]

LoadCannotOpen ==
  /\ Start
  /\ Give("load", NULL) /\ failed' = TRUE
  /\ UNCHANGED <<size, custom, disk, call, stream, memory, text, fault>>

(* malloc fails and is not checked.                                         *)
LoadNoMemory ==
  /\ Start /\ file # None /\ Len(leaked) < MaxOpen
  /\ fault' = "null" /\ failed' = TRUE
  /\ UNCHANGED <<size, custom, disk, call, stream, memory, client>>

(* A file too short for the header leaves zeros in the rest of the length,  *)
(* of which only the first byte is ever another one.                        *)
LengthRead(f) == IF f = <<>> THEN 0 ELSE f[1]

(* What the deserializer finds where the file has ended is what malloc      *)
(* left there.                                                              *)
Fields(f) == [i \in 1..size |-> IF Header + i <= Len(f) THEN f[Header + i] ELSE Junk]

LoadReadsBeyond ==
  /\ Start /\ file # None /\ Len(leaked) < MaxOpen
  /\ LengthRead(file) < Header + size
  /\ fault' = "bounds"
  /\ UNCHANGED <<size, custom, disk, call, stream, memory, failed, client>>

LoadReturns ==
  /\ Start /\ file # None /\ Len(leaked) < MaxOpen
  /\ LengthRead(file) = Header + size
  /\ Give("load", Fields(file))
  /\ UNCHANGED <<size, custom, disk, call, stream, memory, failed, text, fault>>

(* No memory for the object, or another size in what was read.              *)
LoadDeserializerFails ==
  /\ Start /\ file # None /\ Len(leaked) < MaxOpen
  /\ LengthRead(file) = Header + size
  /\ Give("load", NULL) /\ failed' = TRUE
  /\ Leak([pos |-> 0, pending |-> <<>>]) /\ Lose("failure")
  /\ UNCHANGED <<size, custom, disk, call, stream, text, fault>>

-----------------------------------------------------------------------------
(* tyr_serialize_to_base64 and tyr_deserialize_from_base64                  *)

(* The encoder starts behind the header and takes as many bytes as the      *)
(* header says; the buffer ends before that.  It is never freed.            *)
ToText(o) ==
  /\ Start
  /\ \E j \in Foreign : text' = [chars |-> Encode(o \o j, Header + size), of |-> o]
  /\ Lose("encoding") /\ got' = None
  /\ UNCHANGED <<size, custom, disk, call, stream, leaked, failed, fault>>

ToTextFails ==
  /\ Start /\ failed' = TRUE
  /\ UNCHANGED <<size, custom, disk, call, stream, memory, client, fault>>

(* Neither calloc nor the decoder's malloc is checked.                      *)
ToTextNoMemory ==
  /\ Start /\ failed' = TRUE
  /\ fault' = "null"
  /\ UNCHANGED <<size, custom, disk, call, stream, memory, client>>

FromText ==
  /\ Start /\ text # None
  /\ IF Len(text.chars) % 4 = 0 /\ DecodedLength(text.chars) = Header + size
       THEN Give("decode", SubSeq(DecodedBytes(text.chars), 1, size)) /\ UNCHANGED <<lost, failed>>
       ELSE Give("decode", NULL) /\ Lose("failure") /\ failed' = TRUE
  /\ UNCHANGED <<size, custom, disk, call, stream, leaked, text, fault>>

FromTextNoMemory ==
  /\ Start /\ text # None /\ failed' = TRUE
  /\ fault' = "null"
  /\ UNCHANGED <<size, custom, disk, call, stream, memory, client>>

FromTextFails ==
  /\ Start /\ text # None
  /\ Give("decode", NULL) /\ Lose("failure") /\ failed' = TRUE
  /\ UNCHANGED <<size, custom, disk, call, stream, leaked, text, fault>>

-----------------------------------------------------------------------------
(* The end of a process and the start of the next: exit flushes the streams *)
(* that are open, a crash does not.                                         *)

NewProcess ==
  /\ call' = Idle /\ stream' = [pos |-> 0, pending |-> <<>>]
  /\ leaked' = <<>> /\ lost' = <<>> /\ failed' = FALSE /\ got' = None
  /\ UNCHANGED <<size, custom, text, fault>>

Crash == NewProcess /\ UNCHANGED disk

ExitProcess ==
  /\ call = Idle
  /\ file' = FoldLeft(LAMBDA f, s : WriteAt(f, s.pos, s.pending), file, leaked)
  /\ kept' = IF file' = file THEN kept ELSE None
  /\ NewProcess

-----------------------------------------------------------------------------
RInit ==
  /\ size \in {Len(c) : c \in Contents} /\ custom \in BOOLEAN
  /\ file = None /\ kept = None
  /\ call = Idle /\ stream = [pos |-> 0, pending |-> <<>>]
  /\ leaked = <<>> /\ lost = <<>> /\ failed = FALSE
  /\ text = None /\ got = None /\ fault = "none"

RNext ==
  /\ fault = "none"
  /\ \/ \E o \in {c \in Contents : Len(c) = size} : SaveOpens(o) \/ ToText(o)
     \/ SaveCannotOpen \/ SaveSerializes \/ SaveSerializerFails
     \/ SaveWrites \/ SaveWriteFails
     \/ SaveFreesForeign \/ SaveReturns \/ SaveFlushFails
     \/ LoadCannotOpen \/ LoadNoMemory \/ LoadReadsBeyond
     \/ LoadReturns \/ LoadDeserializerFails
     \/ ToTextFails \/ ToTextNoMemory \/ FromText \/ FromTextNoMemory \/ FromTextFails
     \/ Crash \/ ExitProcess

RSpec == RInit /\ [][RNext]_rvars

-----------------------------------------------------------------------------
(* Properties                                                               *)

(* The variables keep their types; the file never holds more than one       *)
(* object, whatever streams write to it.                                    *)
RTypeOK ==
  /\ custom \in BOOLEAN /\ failed \in BOOLEAN
  /\ file # None => file \in Seq(Byte) /\ Len(file) <= Header + size
  /\ kept # None => kept \in Contents /\ Len(kept) = size
  /\ call.at \in {"idle", "serialize", "write", "close"}
  /\ Len(leaked) <= MaxOpen /\ Len(lost) <= MaxLost
  /\ Range(lost) \subseteq {"failure", "encoding"}
  /\ got # None => got.by \in {"load", "decode"}
  /\ fault \in {"none", "null", "bounds", "free"}

(* From a save that returned true and could write what it had held back     *)
(* until the next save starts or the file is written by a stream left open, *)
(* over crashes and restarts, a load gives that object or NULL and does not *)
(* read beyond what it was given.                                           *)
SavedIsLoaded ==
  kept # None =>
    /\ got # None /\ got.by = "load" => got.value \in {kept, NULL}
    /\ fault # "bounds"

(* A process in which nothing failed has no stream left open and has lost   *)
(* no block but those of the encoder, which loses one at each call.         *)
LostOnlyByFailure ==
  ~failed => leaked = <<>> /\ lost \in Seq({"encoding"})

(* Whatever is behind the serializer's block, the text is a Base64 text of  *)
(* the fields and as many bytes more as the header counts for itself, as    *)
(* RFC 4648 has it, and decoding gives back the object or NULL.             *)
Base64RoundTrip ==
  text # None =>
    /\ \E j \in Foreign : text.chars = Rfc4648(text.of \o SubSeq(j, 1, Header))
    /\ (got # None /\ got.by = "decode") => got.value \in {text.of, NULL}

(* "Serializes tyr_struct_ptr to a raw byte string then encodes that in     *)
(* base64url" (Base64.h 36): the text is that of the byte string, or of its *)
(* fields without the header.                                               *)
TextIsTheStruct ==
  text # None => text.chars \in {Rfc4648(Serialized(text.of)), Rfc4648(text.of)}
=============================================================================
