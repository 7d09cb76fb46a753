--------------------------- MODULE RuntimeProofs ----------------------------
(***************************************************************************)
(* What the runtime loses, what of a save can be loaded again, how large   *)
(* the file gets, and that texts are Base64 and can be decoded, for every  *)
(* struct, every file and any number of calls.                             *)
(***************************************************************************)
EXTENDS Runtime, WellFoundedInduction, TLAPS

(* A new process has lost nothing.                                          *)
LEMMA NothingLostAtStart ==
  ASSUME NewProcess
  PROVE  LostOnlyByFailure'
BY DEF NewProcess, LostOnlyByFailure

(* Each call keeps the invariant: what it opens or allocates it gives back, *)
(* or one of the calls it makes has failed.                                 *)
LEMMA LossStep ==
  ASSUME LostOnlyByFailure, [RNext]_rvars
  PROVE  LostOnlyByFailure'
<1>1. CASE UNCHANGED rvars
  BY <1>1 DEF LostOnlyByFailure, rvars, memory
<1>2. CASE RNext
  <2>1. ASSUME NEW o, SaveOpens(o) PROVE LostOnlyByFailure'
    BY <2>1 DEF SaveOpens, LostOnlyByFailure, memory
  <2>2. ASSUME NEW o, ToText(o) PROVE LostOnlyByFailure'
    BY <2>2 DEF ToText, Lose, LostOnlyByFailure
  <2>3. CASE SaveCannotOpen
    BY <2>3 DEF SaveCannotOpen, LostOnlyByFailure
  <2>4. CASE SaveSerializes
    BY <2>4 DEF SaveSerializes, LostOnlyByFailure, memory
  <2>5. CASE SaveSerializerFails
    BY <2>5 DEF SaveSerializerFails, LostOnlyByFailure
  <2>6. CASE SaveWrites
    BY <2>6 DEF SaveWrites, LostOnlyByFailure, memory
  <2>7. CASE SaveWriteFails
    BY <2>7 DEF SaveWriteFails, LostOnlyByFailure
  <2>8. CASE SaveFreesForeign
    BY <2>8 DEF SaveFreesForeign, LostOnlyByFailure, memory
  <2>9. CASE SaveReturns
    BY <2>9 DEF SaveReturns, LostOnlyByFailure, memory
  <2>10. CASE SaveFlushFails
    BY <2>10 DEF SaveFlushFails, LostOnlyByFailure
  <2>11. CASE LoadCannotOpen \/ LoadNoMemory \/ LoadDeserializerFails
    BY <2>11 DEF LoadCannotOpen, LoadNoMemory, LoadDeserializerFails, LostOnlyByFailure
  <2>12. CASE LoadReadsBeyond \/ LoadReturns
    BY <2>12 DEF LoadReadsBeyond, LoadReturns, LostOnlyByFailure, memory
  <2>13. CASE ToTextFails \/ ToTextNoMemory \/ FromTextNoMemory \/ FromTextFails
    BY <2>13 DEF ToTextFails, ToTextNoMemory, FromTextNoMemory, FromTextFails, LostOnlyByFailure
  <2>14. CASE FromText
    BY <2>14 DEF FromText, LostOnlyByFailure
  <2>15. CASE Crash \/ ExitProcess
    BY <2>15, NothingLostAtStart DEF Crash, ExitProcess
  <2> QED
    BY <1>2, <2>1, <2>2, <2>3, <2>4, <2>5, <2>6, <2>7, <2>8, <2>9, <2>10, <2>11,
       <2>12, <2>13, <2>14, <2>15 DEF RNext
<1> QED
  BY <1>1, <1>2

(* However many objects, of fewer than 200 bytes, are saved, loaded,        *)
(* encoded and decoded, a process in which nothing failed has left no       *)
(* stream open and has lost no block but those of tyr_serialize_to_base64,  *)
(* which never frees its buffer.                                            *)
THEOREM OnlyFailureLoses == RSpec => []LostOnlyByFailure
<1>1. RInit => LostOnlyByFailure
  BY DEF RInit, LostOnlyByFailure
<1>2. LostOnlyByFailure /\ [RNext]_rvars => LostOnlyByFailure'
  BY LossStep
<1> QED
  BY <1>1, <1>2, PTL DEF RSpec

-----------------------------------------------------------------------------
(* What is saved is loaded                                                  *)

(* The serialized form is a string as long as the header says.              *)
LEMMA SerializedFacts ==
  ASSUME NEW o \in Seq(Byte)
  PROVE  /\ Serialized(o) \in Seq(Nat)
         /\ Len(Serialized(o)) = Header + Len(o)
         /\ Serialized(o)[1] = Header + Len(o)
         /\ \A i \in 1..Len(o) : Serialized(o)[Header + i] = o[i]
<1> DEFINE n == Header + Len(o)
<1>1. Len(o) \in Nat /\ n \in Nat /\ Header = 8
  BY DEF Header
<1>2. \A i \in 1..n : i > Header => i - Header \in 1..Len(o)
  BY <1>1
<1>3. \A i \in 1..Len(o) : o[i] \in Nat
  <2>1. Byte \subseteq Nat
    BY DEF Byte
  <2>2. \A i \in 1..Len(o) : o[i] \in Byte
    <3> HIDE DEF n
    <3> QED
      OBVIOUS
  <2> QED
    BY <2>1, <2>2
<1>4. Serialized(o) = [i \in 1..n |->
        IF i = 1 THEN n ELSE IF i <= Header THEN 0 ELSE o[i - Header]]
  BY DEF Serialized
<1>5. \A i \in 1..n :
        (IF i = 1 THEN n ELSE IF i <= Header THEN 0 ELSE o[i - Header]) \in Nat
  BY <1>1, <1>2, <1>3
<1> HIDE DEF n
<1>6. Serialized(o) \in [1..n -> Nat]
  BY <1>4, <1>5
<1>7. Serialized(o) \in Seq(Nat) /\ Len(Serialized(o)) = n
  BY <1>1, <1>6
<1>8. Serialized(o)[1] = n
  BY <1>1, <1>4 DEF n
<1>9. \A i \in 1..Len(o) : Serialized(o)[Header + i] = o[i]
  BY <1>1, <1>4 DEF n
<1> QED
  BY <1>7, <1>8, <1>9 DEF n

(* Writing a string to an empty file leaves that string.                    *)
LEMMA WriteToEmpty ==
  ASSUME NEW b \in Seq(Nat)
  PROVE  WriteAt(<<>>, 0, b) = b
<1>1. CASE b = <<>>
  BY <1>1 DEF WriteAt
<1>2. CASE b # <<>>
  <2>1. Len(b) \in Nat /\ Len(b) > 0 /\ Len(<<>>) = 0
    BY <1>2
  <2>2. WriteAt(<<>>, 0, b) = [i \in 1..Len(b) |-> b[i]]
    BY <1>2, <2>1 DEF WriteAt
  <2> QED
    BY <2>2
<1> QED
  BY <1>1, <1>2

(* fwrite may write a first part and hold back the rest: writing the rest   *)
(* later makes the whole.                                                   *)
LEMMA WriteInTwoParts ==
  ASSUME NEW b \in Seq(Nat), NEW p \in 0..Len(b)
  PROVE  WriteAt(WriteAt(<<>>, 0, SubSeq(b, 1, p)), p, SubSeq(b, p + 1, Len(b))) = b
<1> DEFINE first == SubSeq(b, 1, p)
           rest == SubSeq(b, p + 1, Len(b))
<1>1. /\ first \in Seq(Nat) /\ Len(first) = p
      /\ \A i \in 1..p : first[i] = b[i]
  OBVIOUS
<1>2. /\ rest \in Seq(Nat) /\ Len(rest) = Len(b) - p
      /\ \A i \in 1..(Len(b) - p) : rest[i] = b[p + i]
  OBVIOUS
<1> HIDE DEF first, rest
<1>3. WriteAt(<<>>, 0, first) = first
  BY <1>1, WriteToEmpty
<1>4. ASSUME rest = <<>> PROVE WriteAt(first, p, rest) = b
  <2>1. p = Len(b)
    BY <1>2, <1>4
  <2>2. first = b
    BY <1>1, <2>1
  <2> QED
    BY <1>4, <2>2 DEF WriteAt
<1>5. ASSUME rest # <<>> PROVE WriteAt(first, p, rest) = b
  <2>1. p + Len(rest) = Len(b) /\ ~(p + Len(rest) < Len(first))
    BY <1>1, <1>2
  <2>2. WriteAt(first, p, rest) =
          [i \in 1..Len(b) |-> IF i \in (p + 1)..Len(b) THEN rest[i - p]
                               ELSE IF i <= Len(first) THEN first[i] ELSE 0]
    BY <1>5, <2>1 DEF WriteAt
  <2>3. \A i \in 1..Len(b) :
          (IF i \in (p + 1)..Len(b) THEN rest[i - p]
           ELSE IF i <= Len(first) THEN first[i] ELSE 0) = b[i]
    <3> SUFFICES ASSUME NEW i \in 1..Len(b)
                 PROVE  (IF i \in (p + 1)..Len(b) THEN rest[i - p]
                         ELSE IF i <= Len(first) THEN first[i] ELSE 0) = b[i]
      OBVIOUS
    <3>1. CASE i \in (p + 1)..Len(b)
      <4>1. i - p \in 1..(Len(b) - p) /\ p + (i - p) = i
        BY <3>1
      <4>2. rest[i - p] = b[p + (i - p)]
        BY <1>2, <4>1
      <4> QED
        BY <3>1, <4>1, <4>2
    <3>2. CASE i \notin (p + 1)..Len(b)
      <4>1. i \in 1..p
        BY <3>2
      <4> QED
        BY <1>1, <3>2, <4>1
    <3> QED
      BY <3>1, <3>2
  <2>4. WriteAt(first, p, rest) = [i \in 1..Len(b) |-> b[i]]
    BY <2>2, <2>3
  <2> QED
    BY <2>4
<1>6. WriteAt(WriteAt(<<>>, 0, first), p, rest) = b
  BY <1>3, <1>4, <1>5
<1> QED
  BY <1>6 DEF first, rest

(* A file that holds a save that is done holds the serialized object, whole.*)
KeptIsWhole ==
  kept # None => kept \in Contents /\ Len(kept) = size /\ file = Serialized(kept)

(* While a save runs nothing else counts as saved: first its file is empty, *)
(* then the file and what the stream holds back make up the object.         *)
SaveUnderWay ==
  /\ call = [at |-> call.at, of |-> call.of]
  /\ call.at \in {"idle", "serialize", "write", "close"}
  /\ call.at # "idle" =>
       kept = None /\ got = None /\ call.of \in Contents /\ Len(call.of) = size
  /\ call.at \in {"serialize", "write"} =>
       file = <<>> /\ stream = [pos |-> 0, pending |-> <<>>]
  /\ call.at = "close" =>
       WriteAt(file, stream.pos, stream.pending) = Serialized(call.of)

SaveInvariant == KeptIsWhole /\ SaveUnderWay /\ SavedIsLoaded

(* fwrite took all of the string: what it wrote and what it held back make  *)
(* up the object.                                                           *)
LEMMA TakenWhole ==
  ASSUME NEW p \in Upto(Header + size), Taken(p, Header + size), call.of \in Contents,
         Len(call.of) = size, file = <<>>, stream = [pos |-> 0, pending |-> <<>>]
  PROVE  WriteAt(file', stream'.pos, stream'.pending) = Serialized(call.of)
<1> DEFINE b == Serialized(call.of)
<1>1. call.of \in Seq(Byte)
  BY RuntimeAssumption
<1>2. b \in Seq(Nat) /\ Len(b) = Header + size
  BY <1>1, SerializedFacts
<1>3. p \in 0..Len(b)
  <2>1. Cuts \subseteq Nat /\ Len(b) \in Nat
    BY <1>2, RuntimeAssumption
  <2> HIDE DEF b
  <2>2. p \in Cuts \cup {Len(b)} /\ 0 <= p /\ p <= Len(b)
    BY <1>2 DEF Upto
  <2> QED
    BY <2>1, <2>2
<1>4. /\ file' = WriteAt(<<>>, 0, SubSeq(b, 1, p))
      /\ stream'.pos = p
      /\ stream'.pending = SubSeq(b, p + 1, Len(b))
  <2>1. /\ file' = WriteAt(file, stream.pos, SubSeq(b, 1, p))
        /\ stream' = [pos |-> stream.pos + p, pending |-> SubSeq(b, p + 1, Header + size)]
    BY DEF Taken
  <2> HIDE DEF b
  <2>2. stream.pos = 0 /\ stream.pos + p = p
    BY <1>3, <1>2
  <2> QED
    BY <1>2, <2>1, <2>2
<1> HIDE DEF b
<1>5. WriteAt(file', stream'.pos, stream'.pending) = b
  BY <1>2, <1>3, <1>4, WriteInTwoParts
<1> QED
  BY <1>5 DEF b

(* A load of a whole object does not read beyond it, and what it reads are  *)
(* the object's fields.                                                     *)
LEMMA LoadOfWhole ==
  ASSUME NEW o \in Contents, Len(o) = size, file = Serialized(o)
  PROVE  LengthRead(file) = Header + size /\ Fields(file) = o
<1>1. o \in Seq(Byte)
  BY RuntimeAssumption
<1>2. /\ Serialized(o) \in Seq(Nat) /\ Len(Serialized(o)) = Header + size
      /\ Serialized(o)[1] = Header + size
      /\ \A i \in 1..size : Serialized(o)[Header + i] = o[i]
  BY <1>1, SerializedFacts
<1>3. size \in Nat /\ Header = 8
  BY <1>1 DEF Header
<1>4. LengthRead(file) = Header + size
  BY <1>2, <1>3 DEF LengthRead
<1>5. \A i \in 1..size : Header + i <= Len(file)
  BY <1>2, <1>3
<1>6. Fields(file) = [i \in 1..size |-> o[i]]
  BY <1>2, <1>5 DEF Fields
<1>7. o = [i \in 1..size |-> o[i]]
  BY <1>1
<1> QED
  BY <1>4, <1>6, <1>7

(* Each call of save, load, encode and decode, a crash and an exit keep it. *)
LEMMA SaveStep ==
  ASSUME SaveInvariant, [RNext]_rvars
  PROVE  SaveInvariant'
<1> USE DEF SaveInvariant
<1>1. CASE UNCHANGED rvars
  BY <1>1 DEF KeptIsWhole, SaveUnderWay, SavedIsLoaded, rvars, disk, memory, client,
              Fields, WriteAt, Serialized
<1>2. CASE RNext
  <2>1. ASSUME NEW o \in Contents, Len(o) = size, SaveOpens(o)
        PROVE  SaveInvariant'
    BY <2>1 DEF SaveOpens, KeptIsWhole, SaveUnderWay, SavedIsLoaded, memory
  <2>2. ASSUME NEW o, ToText(o) PROVE SaveInvariant'
    <3>1. /\ UNCHANGED <<size, file, kept, call, stream, fault>>
          /\ got' = None
      BY <2>2 DEF ToText, disk
    <3> QED
      BY <3>1, <1>2 DEF RNext, KeptIsWhole, SaveUnderWay, SavedIsLoaded
  <2>3. CASE SaveCannotOpen \/ ToTextFails
    <3>1. UNCHANGED <<size, file, kept, call, stream, got, fault>>
      BY <2>3 DEF SaveCannotOpen, ToTextFails, disk, client
    <3> QED
      BY <3>1 DEF KeptIsWhole, SaveUnderWay, SavedIsLoaded
  <2>4. CASE SaveSerializes
    <3>1. /\ UNCHANGED <<size, file, kept, stream, got, fault>>
          /\ call.at = "serialize" /\ call' = [at |-> "write", of |-> call.of]
      BY <2>4 DEF SaveSerializes, disk, client, SaveUnderWay
    <3> QED
      BY <3>1 DEF KeptIsWhole, SaveUnderWay, SavedIsLoaded
  <2>5. CASE SaveSerializerFails \/ SaveWriteFails \/ SaveFlushFails
    <3>1. /\ UNCHANGED <<size, kept, got, fault>>
          /\ call.at # "idle" /\ call' = Idle
      BY <2>5 DEF SaveSerializerFails, SaveWriteFails, SaveFlushFails, disk, client
    <3> QED
      BY <3>1 DEF KeptIsWhole, SaveUnderWay, SavedIsLoaded, Idle
  <2>6. CASE SaveWrites
    <3>1. /\ UNCHANGED <<size, kept, got, fault>>
          /\ call.at = "write" /\ call' = [at |-> "close", of |-> call.of]
      BY <2>6 DEF SaveWrites, client, SaveUnderWay
    <3>2. PICK p \in Upto(Header + size) : Taken(p, Header + size)
      BY <2>6 DEF SaveWrites
    <3>3. /\ call.of \in Contents /\ Len(call.of) = size
          /\ file = <<>> /\ stream = [pos |-> 0, pending |-> <<>>]
      BY <3>1 DEF SaveUnderWay
    <3>4. WriteAt(file', stream'.pos, stream'.pending) = Serialized(call.of)
      BY <3>2, <3>3, TakenWhole
    <3> QED
      BY <3>1, <3>3, <3>4 DEF KeptIsWhole, SaveUnderWay, SavedIsLoaded
  <2>7. CASE SaveFreesForeign
    <3>1. /\ UNCHANGED <<size, file, kept, call, stream, got>> /\ fault' = "free"
      BY <2>7 DEF SaveFreesForeign, disk, client
    <3> QED
      BY <3>1 DEF KeptIsWhole, SaveUnderWay, SavedIsLoaded
  <2>8. CASE SaveReturns
    <3>1. /\ UNCHANGED <<size, got, fault>>
          /\ call.at = "close" /\ call' = Idle
          /\ file' = WriteAt(file, stream.pos, stream.pending) /\ kept' = call.of
      BY <2>8 DEF SaveReturns, client
    <3>2. /\ got = None /\ call.of \in Contents /\ Len(call.of) = size
          /\ WriteAt(file, stream.pos, stream.pending) = Serialized(call.of)
      BY <3>1 DEF SaveUnderWay
    <3> QED
      BY <1>2, <3>1, <3>2 DEF RNext, KeptIsWhole, SaveUnderWay, SavedIsLoaded, Idle
  <2>9. CASE LoadCannotOpen \/ LoadDeserializerFails \/ FromText \/ FromTextFails
    <3>1. /\ UNCHANGED <<size, file, kept, call, stream, fault>>
          /\ call = Idle
          /\ got'.by = "decode" \/ got'.value = NULL
      <4>1. CASE LoadCannotOpen \/ LoadDeserializerFails \/ FromTextFails
        BY <4>1 DEF LoadCannotOpen, LoadDeserializerFails, FromTextFails, Start, Give, disk
      <4>2. CASE FromText
        <5>1. \E value : got' = [by |-> "decode", value |-> value]
          BY <4>2 DEF FromText, Give
        <5>2. UNCHANGED <<size, file, kept, call, stream, fault>> /\ call = Idle
          BY <4>2 DEF FromText, Start, disk
        <5> QED
          BY <5>1, <5>2
      <4> QED
        BY <2>9, <4>1, <4>2
    <3> QED
      BY <1>2, <3>1 DEF RNext, KeptIsWhole, SaveUnderWay, SavedIsLoaded, Idle
  <2>10. CASE LoadNoMemory \/ ToTextNoMemory \/ FromTextNoMemory
    <3>1. /\ UNCHANGED <<size, file, kept, call, stream, got>> /\ fault' = "null"
      BY <2>10 DEF LoadNoMemory, ToTextNoMemory, FromTextNoMemory, disk, client
    <3> QED
      BY <3>1 DEF KeptIsWhole, SaveUnderWay, SavedIsLoaded
  <2>11. CASE LoadReadsBeyond
    <3>1. /\ UNCHANGED <<size, file, kept, call, stream, got>>
          /\ LengthRead(file) < Header + size
      BY <2>11 DEF LoadReadsBeyond, disk, client
    <3>2. kept = None
      <4> SUFFICES ASSUME kept # None PROVE FALSE
        OBVIOUS
      <4>1. kept \in Contents /\ Len(kept) = size /\ file = Serialized(kept)
        BY DEF KeptIsWhole
      <4>2. LengthRead(file) = Header + size
        BY <4>1, LoadOfWhole
      <4>3. Header + size \in Nat
        BY <4>1, RuntimeAssumption DEF Header
      <4> QED
        BY <3>1, <4>2, <4>3
    <3> QED
      BY <3>1, <3>2 DEF KeptIsWhole, SaveUnderWay, SavedIsLoaded
  <2>12. CASE LoadReturns
    <3>1. /\ UNCHANGED <<size, file, kept, call, stream, fault>>
          /\ call = Idle
          /\ got' = [by |-> "load", value |-> Fields(file)]
      BY <2>12 DEF LoadReturns, disk, Start, Give
    <3>2. kept # None => Fields(file) = kept
      BY LoadOfWhole DEF KeptIsWhole
    <3> QED
      BY <1>2, <3>1, <3>2 DEF RNext, KeptIsWhole, SaveUnderWay, SavedIsLoaded, Idle
  <2>13. CASE Crash \/ ExitProcess
    <3>1. /\ UNCHANGED <<size, fault>> /\ call' = Idle /\ got' = None
          /\ kept' # None => kept' = kept /\ file' = file
      BY <2>13 DEF Crash, ExitProcess, NewProcess, disk
    <3> QED
      BY <1>2, <3>1 DEF RNext, KeptIsWhole, SaveUnderWay, SavedIsLoaded, Idle
  <2> QED
    BY <1>2, <2>1, <2>2, <2>3, <2>4, <2>5, <2>6, <2>7, <2>8, <2>9, <2>10, <2>11,
       <2>12, <2>13 DEF RNext
<1> QED
  BY <1>1, <1>2

(* Whatever is saved, encoded and loaded in whatever order, over crashes,   *)
(* exits and full disks: from a save that returned true and could write     *)
(* what it had held back until the next save or a stream left open writes   *)
(* the file, tyr_deserialize_from_file gives that object or NULL.  Objects  *)
(* have fewer than 200 bytes.                                               *)
THEOREM SavesAreLoaded == RSpec => []SavedIsLoaded
<1>1. RInit => SaveInvariant
  BY DEF RInit, SaveInvariant, KeptIsWhole, SaveUnderWay, SavedIsLoaded, Idle
<1>2. SaveInvariant /\ [RNext]_rvars => SaveInvariant'
  BY SaveStep
<1>3. SaveInvariant => SavedIsLoaded
  BY DEF SaveInvariant
<1> QED
  BY <1>1, <1>2, <1>3, PTL DEF RSpec

-----------------------------------------------------------------------------
(* Types, and the size of the file                                          *)

(* Induction over the natural numbers, for the set of those that have the   *)
(* property.                                                                *)
LEMMA SetInduction ==
  ASSUME NEW S, 0 \in S, \A n \in Nat : n \in S => n + 1 \in S
  PROVE  Nat \subseteq S
<1> DEFINE R == OpToRel(<, Nat)
           T == Nat \ S
<1>1. IsWellFoundedOn(R, Nat)
  BY NatLessThanWellFounded
<1>2. ASSUME T # {} PROVE FALSE
  <2>1. T \subseteq Nat
    OBVIOUS
  <2> HIDE DEF R, T
  <2>2. PICK x \in T : \A y \in T : ~(<<y, x>> \in R)
    BY <1>1, <1>2, <2>1, WFMin
  <2>3. x \in Nat /\ x # 0 /\ x - 1 \in Nat /\ x - 1 + 1 = x
    BY <2>2 DEF T
  <2>4. x - 1 \in T
    BY <2>2, <2>3 DEF T
  <2>5. <<x - 1, x>> \in R
    BY <2>3 DEF R, OpToRel
  <2> QED
    BY <2>2, <2>4, <2>5
<1> QED
  BY <1>2

(* The streams that stay within one serialized object.                      *)
Streams ==
  {s \in [pos : Nat, pending : Seq(Byte)] : s.pos + Len(s.pending) <= Header + size}

Fits(f) == f \in Seq(Byte) /\ Len(f) <= Header + size

(* A write within the object leaves a file of at most that size.            *)
LEMMA WriteFits ==
  ASSUME size \in Nat, NEW f, Fits(f), NEW pos \in Nat, NEW b \in Seq(Byte),
         pos + Len(b) <= Header + size
  PROVE  Fits(WriteAt(f, pos, b))
<1>1. CASE b = <<>>
  BY <1>1 DEF WriteAt
<1>2. CASE b # <<>>
  <2> DEFINE n == IF pos + Len(b) < Len(f) THEN Len(f) ELSE pos + Len(b)
             At(i) == IF i \in (pos + 1)..(pos + Len(b)) THEN b[i - pos]
                      ELSE IF i <= Len(f) THEN f[i] ELSE 0
  <2>1. WriteAt(f, pos, b) = [i \in 1..n |-> At(i)]
    BY <1>2 DEF WriteAt
  <2>2. /\ Len(b) \in Nat /\ Len(f) \in Nat /\ f \in Seq(Byte) /\ Len(f) <= Header + size
        /\ \A i \in 1..Len(b) : b[i] \in Byte
        /\ \A i \in 1..Len(f) : f[i] \in Byte
    <3>1. f \in Seq(Byte) /\ Len(f) <= Header + size
      BY DEF Fits
    <3> HIDE DEF Byte
    <3> QED
      BY <3>1
  <2>3. n \in Nat /\ n <= Header + size
    BY <2>2
  <2>4. ASSUME NEW i \in 1..n PROVE At(i) \in Byte
    <3>1. CASE i \in (pos + 1)..(pos + Len(b))
      <4>1. i - pos \in 1..Len(b)
        BY <2>2, <3>1
      <4> HIDE DEF n
      <4> QED
        BY <2>2, <3>1, <4>1
    <3>2. CASE i \notin (pos + 1)..(pos + Len(b)) /\ i <= Len(f)
      <4>1. i \in 1..Len(f)
        BY <2>2, <2>3, <3>2
      <4> HIDE DEF n
      <4> QED
        BY <2>2, <3>2, <4>1
    <3>3. CASE i \notin (pos + 1)..(pos + Len(b)) /\ ~(i <= Len(f))
      <4>1. 0 \in Byte
        BY DEF Byte
      <4> QED
        BY <3>3, <4>1
    <3> QED
      BY <3>1, <3>2, <3>3
  <2> HIDE DEF n, At
  <2>5. [i \in 1..n |-> At(i)] \in [1..n -> Byte]
    BY <2>4
  <2> HIDE DEF Byte
  <2>6. WriteAt(f, pos, b) \in Seq(Byte) /\ Len(WriteAt(f, pos, b)) = n
    BY <2>1, <2>3, <2>5
  <2> QED
    BY <2>3, <2>6 DEF Fits
<1> QED
  BY <1>1, <1>2 DEF Fits

(* The serialized form of an object is a string of bytes of that size.      *)
LEMMA SerializedFits ==
  ASSUME NEW o \in Contents, Len(o) = size
  PROVE  /\ size \in Nat /\ Serialized(o) \in Seq(Byte) /\ Len(Serialized(o)) = Header + size
         /\ Fits(Serialized(o))
<1>1. Len(o) \in Nat /\ Len(o) < 200 /\ Header = 8
  BY RuntimeAssumption DEF Header
<1> DEFINE n == Header + Len(o)
           At(i) == IF i = 1 THEN n ELSE IF i <= Header THEN 0 ELSE o[i - Header]
<1>2. \A i \in 1..Len(o) : o[i] \in Byte
  <2>1. o \in Seq(Byte)
    BY RuntimeAssumption
  <2> HIDE DEF Byte
  <2> QED
    BY <2>1
<1>3. n \in Byte /\ 0 \in Byte /\ n \in Nat
  <2>1. \A k \in Nat : k < 200 => 8 + k \in 0..255 /\ 8 + k \in Nat
    OBVIOUS
  <2>2. 8 + Len(o) \in 0..255 /\ 8 + Len(o) \in Nat
    BY <1>1, <2>1
  <2> QED
    BY <1>1, <2>2 DEF Byte
<1>4. ASSUME NEW i \in 1..n PROVE At(i) \in Byte
  <2>1. i > Header => i - Header \in 1..Len(o)
    BY <1>1
  <2> HIDE DEF n
  <2> QED
    BY <1>1, <1>2, <1>3, <2>1
<1>5. Serialized(o) = [i \in 1..n |-> At(i)]
  BY DEF Serialized
<1> HIDE DEF n, At
<1>6. [i \in 1..n |-> At(i)] \in [1..n -> Byte]
  BY <1>4
<1>7. Serialized(o) \in Seq(Byte) /\ Len(Serialized(o)) = n
  <2> HIDE DEF Byte
  <2> QED
    BY <1>3, <1>5, <1>6
<1> QED
  BY <1>1, <1>3, <1>7 DEF n, Fits

(* The recursion by which FoldLeft is defined, for the streams that exit    *)
(* flushes.                                                                 *)
Flushed(f, ss, n, e) ==
  e = [m \in SUBSET (1..n) |->
         IF m = {} THEN f ELSE WriteAt(e[m \ {Max(m)}], ss[Max(m)].pos, ss[Max(m)].pending)]

(* It has a solution.                                                       *)
LEMMA FlushUnfolds ==
  ASSUME NEW f, NEW ss, Len(ss) \in Nat, DOMAIN ss = 1..Len(ss)
  PROVE  \E e : /\ Flushed(f, ss, Len(ss), e)
                /\ FoldLeft(LAMBDA g, s : WriteAt(g, s.pos, s.pending), f, ss) = e[1..Len(ss)]
<1> DEFINE Solved == {n \in Nat : \E e : Flushed(f, ss, n, e)}
           Last1(e, m) == WriteAt(e[m \ {Max(m)}], ss[Max(m)].pos, ss[Max(m)].pending)
<1>1. 0 \in Solved
  <2> DEFINE e == [m \in {{}} |-> f]
  <2>1. SUBSET (1..0) = {{}}
    OBVIOUS
  <2>2. e = [m \in SUBSET (1..0) |-> IF m = {} THEN f ELSE Last1(e, m)]
    BY <2>1
  <2>3. Flushed(f, ss, 0, e)
    BY <2>2 DEF Flushed
  <2> HIDE DEF e
  <2> QED
    BY <2>3
<1>2. ASSUME NEW n \in Nat, n \in Solved PROVE n + 1 \in Solved
  <2>1. PICK e : Flushed(f, ss, n, e)
    BY <1>2
  <2> DEFINE old(m) == IF m = {} THEN f ELSE Last1(e, m)
             h == [m \in SUBSET (1..n) |-> e[m]]
             last(m) == WriteAt(e[m \ {n + 1}], ss[n + 1].pos, ss[n + 1].pending)
             g == [m \in SUBSET (1..(n + 1)) |-> IF n + 1 \in m THEN last(m) ELSE e[m]]
  <2>2. \A m \in SUBSET (1..n) : e[m] = IF m = {} THEN f ELSE Last1(e, m)
    BY <2>1 DEF Flushed
  <2>3. \A m \in SUBSET (1..(n + 1)) : g[m] = IF n + 1 \in m THEN last(m) ELSE e[m]
    OBVIOUS
  <2>4. DOMAIN g = SUBSET (1..(n + 1)) /\ g = [m \in DOMAIN g |-> g[m]]
    OBVIOUS
  <2> HIDE DEF g, last
  <2>5. ASSUME NEW m \in SUBSET (1..(n + 1)), n + 1 \notin m
        PROVE  m \in SUBSET (1..n) /\ g[m] = e[m]
    BY <2>3, <2>5
  <2>6. ASSUME NEW m \in SUBSET (1..(n + 1)), n + 1 \in m
        PROVE  Max(m) = n + 1 /\ g[m] = Last1(g, m) /\ m # {}
    <3>1. \A y \in m : y \in Nat /\ n + 1 >= y
      BY <2>6
    <3>2. ASSUME NEW x \in m, \A y \in m : x >= y PROVE x = n + 1
      BY <2>6, <3>1, <3>2
    <3>3. Max(m) = n + 1
      BY <2>6, <3>1, <3>2 DEF Max
    <3>4. m \ {n + 1} \in SUBSET (1..(n + 1)) /\ n + 1 \notin m \ {n + 1}
      OBVIOUS
    <3>5. g[m \ {n + 1}] = e[m \ {n + 1}]
      BY <2>5, <3>4
    <3>6. g[m] = last(m)
      BY <2>3, <2>6
    <3> QED
      BY <2>6, <3>3, <3>5, <3>6 DEF last
  <2>7. ASSUME NEW m \in SUBSET (1..(n + 1)), n + 1 \notin m, m # {}
        PROVE  g[m] = Last1(g, m)
    <3>1. m \in SUBSET (1..n) /\ g[m] = Last1(e, m)
      BY <2>2, <2>5, <2>7
    <3>2. m \ {Max(m)} \in SUBSET (1..(n + 1)) /\ n + 1 \notin m \ {Max(m)}
      BY <2>7
    <3>3. g[m \ {Max(m)}] = e[m \ {Max(m)}]
      BY <2>5, <3>2
    <3> QED
      BY <3>1, <3>3
  <2>8. ASSUME NEW m \in SUBSET (1..(n + 1)), m = {} PROVE g[m] = f
    BY <2>2, <2>5, <2>8
  <2>9. \A m \in SUBSET (1..(n + 1)) : g[m] = IF m = {} THEN f ELSE Last1(g, m)
    <3> HIDE DEF Last1
    <3> QED
      BY <2>6, <2>7, <2>8
  <2>10. Flushed(f, ss, n + 1, g)
    <3> HIDE DEF Last1
    <3>1. g = [m \in SUBSET (1..(n + 1)) |-> IF m = {} THEN f ELSE Last1(g, m)]
      BY <2>4, <2>9
    <3> QED
      BY <3>1 DEF Flushed, Last1
  <2> QED
    BY <2>10
<1>3. Nat \subseteq Solved
  <2> HIDE DEF Solved
  <2> QED
    BY <1>1, <1>2, SetInduction
<1>4. \E e : Flushed(f, ss, Len(ss), e)
  BY <1>3
<1>5. FoldLeft(LAMBDA g, s : WriteAt(g, s.pos, s.pending), f, ss)
        = (CHOOSE e : Flushed(f, ss, Len(ss), e))[1..Len(ss)]
  BY DEF FoldLeft, MapThenFoldSet, Flushed
<1> QED
  BY <1>4, <1>5

(* What exit writes from the streams that were left open fits as well.      *)
LEMMA FlushFits ==
  ASSUME size \in Nat, NEW f, Fits(f), NEW ss \in Seq(Streams)
  PROVE  Fits(FoldLeft(LAMBDA g, s : WriteAt(g, s.pos, s.pending), f, ss))
<1>1. Len(ss) \in Nat /\ DOMAIN ss = 1..Len(ss) /\ \A i \in 1..Len(ss) : ss[i] \in Streams
  <2> HIDE DEF Streams
  <2> QED
    OBVIOUS
<1>2. PICK e : /\ Flushed(f, ss, Len(ss), e)
               /\ FoldLeft(LAMBDA g, s : WriteAt(g, s.pos, s.pending), f, ss) = e[1..Len(ss)]
  BY <1>1, FlushUnfolds
<1>3. \A m \in SUBSET (1..Len(ss)) :
        e[m] = IF m = {} THEN f ELSE WriteAt(e[m \ {Max(m)}], ss[Max(m)].pos, ss[Max(m)].pending)
  BY <1>2 DEF Flushed
<1> DEFINE Good == {n \in Nat : n <= Len(ss) => Fits(e[1..n])}
<1>4. 0 \in Good
  <2>1. 1..0 = {} /\ 1..0 \in SUBSET (1..Len(ss))
    BY <1>1
  <2>2. e[1..0] = f
    BY <1>3, <2>1
  <2> QED
    BY <2>2
<1>5. ASSUME NEW n \in Nat, n \in Good PROVE n + 1 \in Good
  <2> SUFFICES ASSUME n + 1 <= Len(ss) PROVE Fits(e[1..(n + 1)])
    OBVIOUS
  <2> DEFINE m == 1..(n + 1)
  <2>1. Fits(e[1..n]) /\ n + 1 \in 1..Len(ss)
    BY <1>1, <1>5
  <2>2. m \in SUBSET (1..Len(ss)) /\ m # {} /\ m \ {n + 1} = 1..n
    BY <1>1
  <2>3. Max(m) = n + 1
    <3>1. n + 1 \in m /\ \A y \in m : y \in Nat /\ n + 1 >= y
      OBVIOUS
    <3> HIDE DEF m
    <3>2. ASSUME NEW x \in m, \A y \in m : x >= y PROVE x = n + 1
      BY <3>1, <3>2
    <3> QED
      BY <3>1, <3>2 DEF Max
  <2> HIDE DEF m
  <2>4. e[m] = WriteAt(e[1..n], ss[n + 1].pos, ss[n + 1].pending)
    BY <1>3, <2>2, <2>3
  <2>5. /\ ss[n + 1].pos \in Nat /\ ss[n + 1].pending \in Seq(Byte)
        /\ ss[n + 1].pos + Len(ss[n + 1].pending) <= Header + size
    <3>1. ss[n + 1] \in Streams
      BY <1>1, <2>1
    <3> QED
      BY <3>1 DEF Streams
  <2>6. Fits(e[m])
    BY <2>1, <2>4, <2>5, WriteFits
  <2> QED
    BY <2>6 DEF m
<1>6. Nat \subseteq Good
  <2> HIDE DEF Good
  <2> QED
    BY <1>4, <1>5, SetInduction
<1>7. Fits(e[1..Len(ss)])
  BY <1>1, <1>6
<1> QED
  BY <1>2, <1>7

(* The types, with what the bounds need: a call that runs counts for the    *)
(* stream and the block that it may lose, and where there are streams there *)
(* is a file.                                                               *)
RTypeInv ==
  /\ size \in Nat /\ custom \in BOOLEAN /\ failed \in BOOLEAN
  /\ file # None => Fits(file)
  /\ stream \in Streams /\ leaked \in Seq(Streams)
  /\ leaked # <<>> \/ call.at # "idle" => Fits(file)
  /\ Len(leaked) + (IF call.at = "idle" THEN 0 ELSE 1) <= MaxOpen
  /\ lost \in Seq({"failure", "encoding"})
  /\ Len(lost) + (IF call.at = "idle" THEN 0 ELSE 1) <= MaxLost
  /\ got # None => got.by \in {"load", "decode"}
  /\ fault \in {"none", "null", "bounds", "free"}

(* One more at the end.                                                     *)
LEMMA Appended ==
  ASSUME NEW S, NEW s \in Seq(S), NEW x \in S
  PROVE  Append(s, x) \in Seq(S) /\ Len(Append(s, x)) = Len(s) + 1 /\ Len(s) \in Nat
OBVIOUS

(* Where fwrite stops it leaves the file and the stream in bounds.          *)
LEMMA TakenFits ==
  ASSUME SaveInvariant, RTypeInv, call.at = "write", NEW n \in Nat, n <= Header + size,
         NEW p \in Upto(n), Taken(p, n)
  PROVE  Fits(file') /\ stream' \in Streams
<1> DEFINE b == Serialized(call.of)
<1>1. /\ call.of \in Contents /\ Len(call.of) = size
      /\ file = <<>> /\ stream.pos = 0 /\ size \in Nat
  BY DEF SaveInvariant, SaveUnderWay, RTypeInv
<1>2. b \in Seq(Byte) /\ Len(b) = Header + size
  BY <1>1, SerializedFits
<1>3. p \in Nat /\ p <= n /\ Header \in Nat
  BY RuntimeAssumption DEF Upto, Header
<1>4. /\ file' = WriteAt(file, stream.pos, SubSeq(b, 1, p))
      /\ stream' = [pos |-> stream.pos + p, pending |-> SubSeq(b, p + 1, n)]
  BY DEF Taken
<1> HIDE DEF b
<1>5. /\ SubSeq(b, 1, p) \in Seq(Byte) /\ Len(SubSeq(b, 1, p)) = p
      /\ SubSeq(b, p + 1, n) \in Seq(Byte) /\ Len(SubSeq(b, p + 1, n)) = n - p
  <2> HIDE DEF Byte
  <2> QED
    BY <1>1, <1>2, <1>3
<1>6. Fits(file')
  <2>1. Fits(<<>>)
    BY <1>1, <1>3 DEF Fits
  <2>2. 0 + Len(SubSeq(b, 1, p)) <= Header + size
    BY <1>1, <1>3, <1>5
  <2> DEFINE first == SubSeq(b, 1, p)
  <2>3. first \in Seq(Byte) /\ 0 + Len(first) <= Header + size
    BY <1>5, <2>2
  <2>4. file' = WriteAt(<<>>, 0, first)
    BY <1>1, <1>4
  <2> HIDE DEF first
  <2>5. Fits(WriteAt(<<>>, 0, first))
    BY <1>1, <2>1, <2>3, WriteFits
  <2> QED
    BY <2>4, <2>5
<1>7. stream' \in Streams
  <2>1. stream' = [pos |-> p, pending |-> SubSeq(b, p + 1, n)]
    BY <1>1, <1>3, <1>4
  <2>2. p + Len(SubSeq(b, p + 1, n)) <= Header + size
    BY <1>1, <1>3, <1>5
  <2> QED
    BY <1>3, <1>5, <2>1, <2>2 DEF Streams
<1> QED
  BY <1>6, <1>7

(* What leaves the file and the streams alone keeps the types, if a call    *)
(* that is over has room for what it lost.                                  *)
LEMMA FileUntouched ==
  ASSUME RTypeInv, UNCHANGED <<size, custom, file, stream, leaked>>,
         call'.at # "idle" => call.at # "idle",
         failed' \in BOOLEAN, fault' \in {"none", "null", "bounds", "free"},
         got' # None => got'.by \in {"load", "decode"},
         lost' \in Seq({"failure", "encoding"}),
         Len(lost') + (IF call'.at = "idle" THEN 0 ELSE 1) <= MaxLost
  PROVE  RTypeInv'
<1>1. Streams' = Streams /\ (Fits(file) => Fits(file)')
  BY DEF Streams, Fits
<1>2. stream' \in Streams' /\ leaked' \in Seq(Streams')
  BY <1>1 DEF RTypeInv
<1>3. Len(leaked') + (IF call'.at = "idle" THEN 0 ELSE 1) <= MaxOpen
  <2>1. Len(leaked) \in Nat
    BY DEF RTypeInv
  <2> QED
    BY <2>1, RuntimeAssumption DEF RTypeInv
<1> QED
  BY <1>1, <1>2, <1>3 DEF RTypeInv

(* A step of a save, or an exit, that leaves a file and streams that fit.   *)
LEMMA FileWritten ==
  ASSUME RTypeInv, UNCHANGED <<size, custom, fault>>, Fits(file'), stream' \in Streams,
         leaked' \in Seq(Streams), failed' \in BOOLEAN,
         got' # None => got'.by \in {"load", "decode"},
         lost' \in Seq({"failure", "encoding"}),
         Len(leaked') + (IF call'.at = "idle" THEN 0 ELSE 1) <= MaxOpen,
         Len(lost') + (IF call'.at = "idle" THEN 0 ELSE 1) <= MaxLost
  PROVE  RTypeInv'
<1>1. Streams' = Streams /\ Fits(file)'
  BY DEF Streams, Fits
<1>2. stream' \in Streams' /\ leaked' \in Seq(Streams')
  BY <1>1
<1> QED
  BY <1>1, <1>2 DEF RTypeInv

(* A step of a save.                                                        *)
LEMMA SaveTypes ==
  ASSUME SaveInvariant, RTypeInv,
         \/ \E o \in Contents : Len(o) = size /\ SaveOpens(o)
         \/ SaveSerializes \/ SaveSerializerFails \/ SaveWrites \/ SaveWriteFails
         \/ SaveReturns \/ SaveFlushFails
  PROVE  RTypeInv'
<1>1. /\ MaxOpen \in Nat \ {0} /\ MaxLost \in Nat /\ Header = 8 /\ size \in Nat
      /\ Len(leaked) \in Nat /\ Len(lost) \in Nat
      /\ leaked \in Seq(Streams) /\ lost \in Seq({"failure", "encoding"})
      /\ stream \in Streams /\ failed \in BOOLEAN /\ custom \in BOOLEAN
      /\ got # None => got.by \in {"load", "decode"}
      /\ call = [at |-> call.at, of |-> call.of]
  BY RuntimeAssumption DEF Header, RTypeInv, SaveInvariant, SaveUnderWay
<1>2. ASSUME call.at # "idle"
      PROVE Fits(file) /\ Len(leaked) + 1 <= MaxOpen /\ Len(lost) + 1 <= MaxLost
  BY <1>2 DEF RTypeInv
<1>3. ASSUME NEW s \in Streams PROVE /\ Append(leaked, s) \in Seq(Streams)
                                     /\ Len(Append(leaked, s)) = Len(leaked) + 1
  BY <1>1, Appended
<1>4. /\ Append(lost, "failure") \in Seq({"failure", "encoding"})
      /\ Len(Append(lost, "failure")) = Len(lost) + 1
  BY <1>1, Appended
<1>5. ASSUME NEW o \in Contents, Len(o) = size, SaveOpens(o) PROVE RTypeInv'
  <2>1. /\ call = Idle /\ Len(lost) < MaxLost /\ Len(leaked) < MaxOpen /\ file' = <<>>
        /\ stream' = [pos |-> 0, pending |-> <<>>]
        /\ call' = [at |-> "serialize", of |-> o] /\ got' = None
        /\ UNCHANGED <<size, custom, leaked, lost, failed, fault>>
    BY <1>5 DEF SaveOpens, Start, memory
  <2>2. stream' \in Streams /\ Fits(file')
    BY <1>1, <2>1 DEF Streams, Fits
  <2>3. /\ Len(leaked') + (IF call'.at = "idle" THEN 0 ELSE 1) <= MaxOpen
        /\ Len(lost') + (IF call'.at = "idle" THEN 0 ELSE 1) <= MaxLost
    BY <1>1, <2>1
  <2> QED
    BY <1>1, <2>1, <2>2, <2>3, FileWritten
<1>6. CASE SaveSerializes
  <2>1. /\ call.at = "serialize" /\ call'.at = "write"
        /\ UNCHANGED <<size, custom, file, stream, leaked, lost, failed, got, fault>>
    BY <1>1, <1>6 DEF SaveSerializes, disk, memory, client
  <2> QED
    BY <1>1, <1>2, <2>1, FileWritten
<1>7. CASE SaveSerializerFails
  <2>1. /\ call.at = "serialize" /\ call'.at = "idle" /\ leaked' = Append(leaked, stream)
        /\ failed' = TRUE
        /\ UNCHANGED <<size, custom, file, stream, lost, got, fault>>
    BY <1>7 DEF SaveSerializerFails, Leak, Idle, disk, client
  <2> QED
    BY <1>1, <1>2, <1>3, <2>1, FileWritten
<1>8. CASE SaveWrites
  <2>1. /\ call.at = "write" /\ call'.at = "close"
        /\ UNCHANGED <<size, custom, leaked, lost, failed, got, fault>>
    BY <1>1, <1>8 DEF SaveWrites, memory, client
  <2>2. Fits(file') /\ stream' \in Streams
    <3>1. PICK p \in Upto(Header + size) : Taken(p, Header + size)
      BY <1>8 DEF SaveWrites
    <3>2. Header + size \in Nat /\ Header + size <= Header + size
      BY <1>1
    <3> QED
      BY <2>1, <3>1, <3>2, TakenFits
  <2> QED
    BY <1>1, <1>2, <2>1, <2>2, FileWritten
<1>9. CASE SaveWriteFails
  <2>1. /\ call.at = "write" /\ call'.at = "idle" /\ leaked' = Append(leaked, stream')
        /\ lost' = Append(lost, "failure") /\ failed' = TRUE
        /\ UNCHANGED <<size, custom, got, fault>>
    BY <1>9 DEF SaveWriteFails, Leak, Lose, Idle, client
  <2>2. Fits(file') /\ stream' \in Streams
    <3>1. PICK n \in Upto(Header + size - 1) : \E p \in Upto(n) : Taken(p, n)
      BY <1>9 DEF SaveWriteFails
    <3>2. n \in Nat /\ n <= Header + size
      <4>1. n \in Cuts \cup {Header + size - 1} /\ 0 <= n /\ n <= Header + size - 1
        BY <3>1 DEF Upto
      <4>2. Cuts \subseteq Nat /\ Header + size - 1 \in Int
        BY <1>1, RuntimeAssumption
      <4> QED
        BY <1>1, <4>1, <4>2
    <3> QED
      BY <2>1, <3>1, <3>2, TakenFits
  <2> QED
    BY <1>1, <1>2, <1>3, <1>4, <2>1, <2>2, FileWritten
<1>10. CASE SaveReturns \/ SaveFlushFails
  <2>1. /\ call.at = "close" /\ call'.at = "idle"
        /\ UNCHANGED <<size, custom, stream, leaked, lost, got, fault>>
    BY <1>10 DEF SaveReturns, SaveFlushFails, Idle, memory, client
  <2>4. failed' \in BOOLEAN
    BY <1>1, <1>10, Zenon DEF SaveReturns, SaveFlushFails
  <2>2. /\ stream.pos \in Nat /\ stream.pending \in Seq(Byte) /\ Len(stream.pending) \in Nat
        /\ stream.pos + Len(stream.pending) <= Header + size
    BY <1>1 DEF Streams
  <2>3. Fits(file')
    <3>1. CASE SaveReturns
      <4>1. file' = WriteAt(file, stream.pos, stream.pending)
        BY <3>1 DEF SaveReturns
      <4> QED
        BY <1>1, <1>2, <2>1, <2>2, <4>1, WriteFits
    <3>2. CASE SaveFlushFails
      <4>1. PICK q \in Upto(Len(stream.pending) - 1) :
              file' = WriteAt(file, stream.pos, SubSeq(stream.pending, 1, q))
        BY <3>2 DEF SaveFlushFails
      <4>2. q \in 0..Len(stream.pending)
        <5>1. q \in Cuts \cup {Len(stream.pending) - 1} /\ 0 <= q /\ q <= Len(stream.pending) - 1
          BY <4>1 DEF Upto
        <5> QED
          BY <2>2, <5>1, RuntimeAssumption
      <4> DEFINE b == SubSeq(stream.pending, 1, q)
      <4>3. b \in Seq(Byte) /\ Len(b) = q
        <5> HIDE DEF Byte
        <5> QED
          BY <2>2, <4>2
      <4> HIDE DEF b
      <4>4. stream.pos + Len(b) <= Header + size
        BY <1>1, <2>2, <4>2, <4>3
      <4>5. file' = WriteAt(file, stream.pos, b)
        BY <4>1 DEF b
      <4> QED
        BY <1>1, <1>2, <2>1, <2>2, <4>3, <4>4, <4>5, WriteFits
    <3> QED
      BY <1>10, <3>1, <3>2
  <2> QED
    BY <1>1, <1>2, <2>1, <2>3, <2>4, FileWritten
<1> QED
  BY <1>5, <1>6, <1>7, <1>8, <1>9, <1>10

(* Every call, a crash and an exit keep the types.                          *)
LEMMA RTypeStep ==
  ASSUME SaveInvariant, RTypeInv, [RNext]_rvars
  PROVE  RTypeInv'
<1>1. /\ MaxOpen \in Nat \ {0} /\ MaxLost \in Nat /\ Header = 8 /\ size \in Nat
      /\ Len(leaked) \in Nat /\ Len(lost) \in Nat
      /\ leaked \in Seq(Streams) /\ lost \in Seq({"failure", "encoding"})
      /\ stream \in Streams /\ failed \in BOOLEAN /\ custom \in BOOLEAN
      /\ got # None => got.by \in {"load", "decode"}
      /\ fault \in {"none", "null", "bounds", "free"}
      /\ Len(leaked) + (IF call.at = "idle" THEN 0 ELSE 1) <= MaxOpen
      /\ Len(lost) + (IF call.at = "idle" THEN 0 ELSE 1) <= MaxLost
  BY RuntimeAssumption DEF Header, RTypeInv
<1>2. \A who \in {"failure", "encoding"} :
        /\ Append(lost, who) \in Seq({"failure", "encoding"})
        /\ Len(Append(lost, who)) = Len(lost) + 1
  BY <1>1, Appended
<1>3. [pos |-> 0, pending |-> <<>>] \in Streams
  BY <1>1 DEF Streams
<1>4. CASE UNCHANGED rvars
  <2>1. UNCHANGED <<size, custom, file, call, stream, leaked, lost, failed, got, fault>>
    BY <1>4 DEF rvars, disk, memory, client
  <2> QED
    BY <1>1, <2>1, FileUntouched
<1>5. ASSUME NEW o, ToText(o) PROVE RTypeInv'
  <2>1. /\ call = Idle /\ Len(lost) < MaxLost
        /\ lost' = Append(lost, "encoding") /\ got' = None
        /\ UNCHANGED <<size, custom, file, call, stream, leaked, failed, fault>>
    BY <1>5 DEF ToText, Start, Lose, disk
  <2>2. Len(lost') + (IF call'.at = "idle" THEN 0 ELSE 1) <= MaxLost
    BY <1>1, <1>2, <2>1 DEF Idle
  <2> QED
    BY <1>1, <1>2, <2>1, <2>2, FileUntouched
<1>6. CASE SaveCannotOpen \/ ToTextFails
  <2>1. /\ failed' = TRUE
        /\ UNCHANGED <<size, custom, file, call, stream, leaked, lost, got, fault>>
    BY <1>6 DEF SaveCannotOpen, ToTextFails, disk, memory, client
  <2> QED
    BY <1>1, <2>1, FileUntouched
<1>7. CASE SaveFreesForeign \/ LoadNoMemory \/ LoadReadsBeyond
           \/ ToTextNoMemory \/ FromTextNoMemory
  <2>1. /\ fault' \in {"free", "null", "bounds"} /\ failed' \in BOOLEAN
        /\ UNCHANGED <<size, custom, file, call, stream, leaked, lost, got>>
    BY <1>1, <1>7
    DEF SaveFreesForeign, LoadNoMemory, LoadReadsBeyond, ToTextNoMemory, FromTextNoMemory,
        disk, memory, client
  <2> QED
    BY <1>1, <2>1, FileUntouched
<1>8. CASE LoadCannotOpen \/ LoadReturns
  <2>1. /\ \E value : got' = [by |-> "load", value |-> value]
        /\ failed' \in BOOLEAN
        /\ UNCHANGED <<size, custom, file, call, stream, leaked, lost, fault>>
    BY <1>1, <1>8, Zenon DEF LoadCannotOpen, LoadReturns, Give, disk, memory
  <2>2. got'.by = "load"
    BY <2>1
  <2> QED
    BY <1>1, <2>1, <2>2, FileUntouched
<1>9. CASE FromText \/ FromTextFails
  <2>1. /\ call = Idle /\ Len(lost) < MaxLost
        /\ lost' = lost \/ lost' = Append(lost, "failure")
        /\ failed' \in BOOLEAN
        /\ UNCHANGED <<size, custom, file, call, stream, leaked, fault>>
    BY <1>1, <1>9, Zenon DEF FromText, FromTextFails, Start, Lose, disk
  <2>2. got'.by = "decode"
    <3>1. \E value : got' = [by |-> "decode", value |-> value]
      BY <1>9, Zenon DEF FromText, FromTextFails, Give
    <3> QED
      BY <3>1
  <2>3. /\ lost' \in Seq({"failure", "encoding"})
        /\ Len(lost') + (IF call'.at = "idle" THEN 0 ELSE 1) <= MaxLost
    BY <1>1, <1>2, <2>1 DEF Idle
  <2> QED
    BY <1>1, <2>1, <2>2, <2>3, FileUntouched
<1>10. CASE LoadDeserializerFails
  <2>1. /\ call = Idle /\ Len(lost) < MaxLost /\ Len(leaked) < MaxOpen /\ file # None
        /\ got' = [by |-> "load", value |-> NULL] /\ failed' = TRUE
        /\ leaked' = Append(leaked, [pos |-> 0, pending |-> <<>>])
        /\ lost' = Append(lost, "failure")
        /\ UNCHANGED <<size, custom, file, call, stream, fault>>
    BY <1>10 DEF LoadDeserializerFails, Start, Give, Leak, Lose, disk
  <2>2. leaked' \in Seq(Streams) /\ Len(leaked') = Len(leaked) + 1
    BY <1>1, <1>3, <2>1, Appended
  <2>3. /\ Len(leaked') + (IF call'.at = "idle" THEN 0 ELSE 1) <= MaxOpen
        /\ Len(lost') + (IF call'.at = "idle" THEN 0 ELSE 1) <= MaxLost
        /\ lost' \in Seq({"failure", "encoding"})
    BY <1>1, <1>2, <2>1, <2>2 DEF Idle
  <2>4. Fits(file')
    BY <2>1 DEF RTypeInv
  <2> QED
    BY <1>1, <2>1, <2>2, <2>3, <2>4, FileWritten
<1>11. CASE Crash \/ ExitProcess
  <2>1. /\ call'.at = "idle" /\ stream' = [pos |-> 0, pending |-> <<>>]
        /\ leaked' = <<>> /\ lost' = <<>> /\ failed' = FALSE /\ got' = None
        /\ UNCHANGED <<size, custom, fault>>
    <3>1. NewProcess
      BY <1>11, Zenon DEF Crash, ExitProcess
    <3> QED
      BY <3>1 DEF NewProcess, Idle
  <2>2. /\ leaked' \in Seq(Streams) /\ lost' \in Seq({"failure", "encoding"})
        /\ Len(leaked') + (IF call'.at = "idle" THEN 0 ELSE 1) <= MaxOpen
        /\ Len(lost') + (IF call'.at = "idle" THEN 0 ELSE 1) <= MaxLost
    BY <1>1, <2>1
  <2>3. CASE file' = file
    <3>1. Streams' = Streams /\ (Fits(file) => Fits(file)')
      BY <2>1, <2>3 DEF Streams, Fits
    <3>2. stream' \in Streams' /\ leaked' \in Seq(Streams')
      BY <1>3, <2>1, <2>2, <3>1
    <3>3. file' # None => Fits(file)'
      BY <2>3, <3>1 DEF RTypeInv
    <3>4. ~(leaked' # <<>> \/ call'.at # "idle")
      BY <2>1
    <3>5. size' \in Nat /\ custom' \in BOOLEAN /\ failed' \in BOOLEAN
          /\ fault' \in {"none", "null", "bounds", "free"} /\ got' = None
      BY <1>1, <2>1
    <3> QED
      BY <2>2, <3>2, <3>3, <3>4, <3>5 DEF RTypeInv
  <2>4. CASE file' # file
    <3>1. file' = FoldLeft(LAMBDA f, s : WriteAt(f, s.pos, s.pending), file, leaked)
      BY <1>11, <2>4 DEF Crash, ExitProcess, disk
    <3>2. leaked # <<>>
      <4> SUFFICES ASSUME leaked = <<>> PROVE FALSE
        OBVIOUS
      <4>1. Len(leaked) = 0 /\ DOMAIN leaked = 1..Len(leaked) /\ 1..0 = {}
        BY <1>1
      <4>2. PICK e : Flushed(file, leaked, Len(leaked), e) /\ file' = e[1..Len(leaked)]
        BY <3>1, <4>1, FlushUnfolds
      <4>3. e[{}] = file
        BY <4>1, <4>2 DEF Flushed
      <4> QED
        BY <2>4, <4>1, <4>2, <4>3
    <3>3. Fits(file')
      BY <1>1, <3>1, <3>2, FlushFits DEF RTypeInv
    <3> QED
      BY <1>1, <1>3, <2>1, <2>2, <3>3, FileWritten
  <2> QED
    BY <2>3, <2>4
<1>12. CASE \/ \E o \in Contents : Len(o) = size /\ SaveOpens(o)
            \/ SaveSerializes \/ SaveSerializerFails \/ SaveWrites \/ SaveWriteFails
            \/ SaveReturns \/ SaveFlushFails
  BY <1>12, SaveTypes
<1> QED
  BY <1>4, <1>5, <1>6, <1>7, <1>8, <1>9, <1>10, <1>11, <1>12 DEF RNext

(* Whatever is saved, loaded, encoded and decoded in whatever order, over   *)
(* crashes, exits and full disks: the variables keep their types, and the   *)
(* file never holds more bytes than one serialized object, though streams   *)
(* that were left open write to it at their own positions.                  *)
THEOREM RuntimeTypesCorrect == RSpec => []RTypeOK
<1>1. RInit => SaveInvariant /\ RTypeInv
  <2> SUFFICES ASSUME RInit PROVE SaveInvariant /\ RTypeInv
    OBVIOUS
  <2>1. SaveInvariant
    BY DEF RInit, SaveInvariant, KeptIsWhole, SaveUnderWay, SavedIsLoaded, Idle
  <2>2. size \in Nat
    BY RuntimeAssumption DEF RInit
  <2>3. stream \in Streams
    BY <2>2 DEF RInit, Streams, Header
  <2>4. /\ leaked \in Seq(Streams) /\ lost \in Seq({"failure", "encoding"})
        /\ leaked = <<>> /\ call.at = "idle" /\ file = None /\ got = None
        /\ fault \in {"none", "null", "bounds", "free"}
    BY DEF RInit, Idle
  <2>5. /\ Len(leaked) + (IF call.at = "idle" THEN 0 ELSE 1) <= MaxOpen
        /\ Len(lost) + (IF call.at = "idle" THEN 0 ELSE 1) <= MaxLost
    <3>1. Len(leaked) = 0 /\ Len(lost) = 0 /\ call.at = "idle"
      BY DEF RInit, Idle
    <3> QED
      BY <3>1, RuntimeAssumption
  <2>6. custom \in BOOLEAN /\ failed \in BOOLEAN
    BY DEF RInit
  <2> QED
    BY <2>1, <2>2, <2>3, <2>4, <2>5, <2>6 DEF RTypeInv
<1>2. SaveInvariant /\ RTypeInv /\ [RNext]_rvars => SaveInvariant' /\ RTypeInv'
  BY SaveStep, RTypeStep
<1>3. SaveInvariant /\ RTypeInv => RTypeOK
  <2> SUFFICES ASSUME SaveInvariant, RTypeInv PROVE RTypeOK
    OBVIOUS
  <2>1. /\ kept # None => kept \in Contents /\ Len(kept) = size
        /\ call.at \in {"idle", "serialize", "write", "close"}
    BY DEF SaveInvariant, KeptIsWhole, SaveUnderWay
  <2>2. file # None => file \in Seq(Byte) /\ Len(file) <= Header + size
    BY DEF RTypeInv, Fits
  <2>3. Len(leaked) <= MaxOpen /\ Len(lost) <= MaxLost
    <3>1. Len(leaked) \in Nat /\ Len(lost) \in Nat
      BY DEF RTypeInv
    <3> QED
      BY <3>1, RuntimeAssumption DEF RTypeInv
  <2>4. Range(lost) \subseteq {"failure", "encoding"}
    BY DEF RTypeInv, Range
  <2> QED
    BY <2>1, <2>2, <2>3, <2>4 DEF RTypeInv, RTypeOK
<1> QED
  BY <1>1, <1>2, <1>3, PTL DEF RSpec

-----------------------------------------------------------------------------
(* Texts                                                                    *)

(* Two strings, one after the other.                                        *)
LEMMA Joined ==
  ASSUME NEW S, NEW s \in Seq(S), NEW r \in Seq(S)
  PROVE  s \o r \in Seq(S) /\ Len(s \o r) = Len(s) + Len(r)
OBVIOUS

(* An element of the first.                                                 *)
LEMMA OfTheFirst ==
  ASSUME NEW S, NEW s \in Seq(S), NEW r \in Seq(S), NEW i \in Nat, 1 <= i, i <= Len(s)
  PROVE  (s \o r)[i] = s[i]
OBVIOUS

(* An element of the second.                                                *)
LEMMA OfTheSecond ==
  ASSUME NEW S, NEW s \in Seq(S), NEW r \in Seq(S), NEW i \in Nat,
         Len(s) < i, i <= Len(s) + Len(r)
  PROVE  (s \o r)[i] = r[i - Len(s)]
OBVIOUS

(* The table of the code is the alphabet of the RFC.                        *)
LEMMA AlphabetIndex ==
  ASSUME NEW i \in 0..63
  PROVE  Alphabet[i + 1] = IndexToChar(i)
<1> DEFINE U == [k \in 1..26 |-> 64 + k]
           L == [k \in 1..26 |-> 96 + k]
           D == [k \in 1..10 |-> 47 + k]
           R == <<45, 95>>
<1>1. /\ U \in Seq(Nat) /\ Len(U) = 26 /\ L \in Seq(Nat) /\ Len(L) = 26
      /\ D \in Seq(Nat) /\ Len(D) = 10 /\ R \in Seq(Nat) /\ Len(R) = 2
  OBVIOUS
<1>2. /\ \A k \in 1..26 : U[k] = 64 + k /\ L[k] = 96 + k
      /\ \A k \in 1..10 : D[k] = 47 + k
      /\ R[1] = 45 /\ R[2] = 95
  OBVIOUS
<1>3. Alphabet = U \o L \o D \o R
  BY DEF Alphabet
<1> HIDE DEF U, L, D, R
<1> DEFINE UL == U \o L
           ULD == UL \o D
           ULDR == ULD \o R
<1>4. UL \in Seq(Nat) /\ Len(UL) = 52
  <2>1. UL \in Seq(Nat) /\ Len(UL) = Len(U) + Len(L)
    BY <1>1, Joined
  <2>2. Len(U) + Len(L) = 52
    BY <1>1
  <2> HIDE DEF UL
  <2> QED
    BY <2>1, <2>2
<1>5. ULD \in Seq(Nat) /\ Len(ULD) = 62
  <2> HIDE DEF UL
  <2>1. ULD \in Seq(Nat) /\ Len(ULD) = Len(UL) + Len(D)
    BY <1>1, <1>4, Joined
  <2>2. Len(UL) + Len(D) = 62
    BY <1>1, <1>4
  <2> HIDE DEF ULD
  <2> QED
    BY <2>1, <2>2
<1> DEFINE k == i + 1
<1>6. k \in Nat /\ 1 <= k /\ k <= 64
  OBVIOUS
<1>7. Alphabet = ULDR
  BY <1>3
<1>8. ASSUME k <= 62 PROVE ULDR[k] = ULD[k]
  <2> HIDE DEF ULD, k
  <2>1. k <= Len(ULD) /\ ULD \in Seq(Nat)
    BY <1>5, <1>8
  <2> QED
    BY <1>1, <1>6, <2>1, OfTheFirst
<1>9. ASSUME k <= 52 PROVE ULD[k] = UL[k]
  <2> HIDE DEF UL, k
  <2>1. k <= Len(UL) /\ UL \in Seq(Nat)
    BY <1>4, <1>9
  <2> QED
    BY <1>1, <1>6, <2>1, OfTheFirst
<1>10. CASE i < 26
  <2>1. k <= 26 /\ k <= 52 /\ k <= 62 /\ k \in 1..26 /\ 64 + k = i + 65
    BY <1>10
  <2>2. UL[k] = U[k]
    <3> HIDE DEF k
    <3> QED
      BY <1>1, <1>6, <2>1, OfTheFirst
  <2>3. U[k] = i + 65
    <3> HIDE DEF k
    <3> QED
      BY <1>2, <2>1
  <2>4. IndexToChar(i) = i + 65
    BY <1>10 DEF IndexToChar
  <2> HIDE DEF k, UL, ULD, ULDR
  <2> QED
    BY <1>7, <1>8, <1>9, <2>1, <2>2, <2>3, <2>4 DEF k
<1>11. CASE i \in 26..51
  <2>1. /\ Len(U) < k /\ k <= Len(U) + Len(L) /\ k <= 52 /\ k <= 62
        /\ k - 26 \in 1..26 /\ 96 + (k - 26) = i + 71
    BY <1>1, <1>11
  <2>2. UL[k] = L[k - 26]
    <3> HIDE DEF k
    <3>1. UL[k] = L[k - Len(U)]
      BY <1>1, <1>6, <2>1, OfTheSecond
    <3> QED
      BY <1>1, <3>1
  <2>3. L[k - 26] = i + 71
    <3> HIDE DEF k
    <3> QED
      BY <1>2, <2>1
  <2>4. IndexToChar(i) = i + 71
    BY <1>11 DEF IndexToChar
  <2> HIDE DEF k, UL, ULD, ULDR
  <2> QED
    BY <1>7, <1>8, <1>9, <2>1, <2>2, <2>3, <2>4 DEF k
<1>12. CASE i \in 52..61
  <2>1. /\ Len(UL) < k /\ k <= Len(UL) + Len(D) /\ k <= 62
        /\ k - 52 \in 1..10 /\ 47 + (k - 52) = i - 4
    <3> HIDE DEF UL
    <3> QED
      BY <1>1, <1>4, <1>12
  <2>2. ULD[k] = D[k - 52]
    <3> HIDE DEF k, UL
    <3>1. ULD[k] = D[k - Len(UL)]
      BY <1>1, <1>4, <1>6, <2>1, OfTheSecond
    <3> QED
      BY <1>4, <3>1
  <2>3. D[k - 52] = i - 4
    <3> HIDE DEF k
    <3> QED
      BY <1>2, <2>1
  <2>4. IndexToChar(i) = i - 4
    BY <1>12 DEF IndexToChar
  <2> HIDE DEF k, UL, ULD, ULDR
  <2> QED
    BY <1>7, <1>8, <2>1, <2>2, <2>3, <2>4 DEF k
<1>13. CASE i = 62 \/ i = 63
  <2>1. /\ Len(ULD) < k /\ k <= Len(ULD) + Len(R)
        /\ (i = 62 => k - 62 = 1) /\ (i = 63 => k - 62 = 2)
    <3> HIDE DEF ULD
    <3> QED
      BY <1>1, <1>5, <1>13
  <2>2. ULDR[k] = R[k - 62]
    <3> HIDE DEF k, ULD
    <3>1. ULDR[k] = R[k - Len(ULD)]
      <4>1. ULD \in Seq(Nat) /\ R \in Seq(Nat)
        BY <1>1, <1>5
      <4> QED
        BY <1>6, <2>1, <4>1, OfTheSecond
    <3> QED
      BY <1>5, <3>1
  <2>3. (i = 62 => IndexToChar(i) = 45) /\ (i = 63 => IndexToChar(i) = 95)
    BY <1>13 DEF IndexToChar
  <2> HIDE DEF k, UL, ULD, ULDR
  <2>4. (i = 62 => ULDR[k] = 45) /\ (i = 63 => ULDR[k] = 95)
    BY <1>2, <2>1, <2>2
  <2> QED
    BY <1>7, <1>13, <2>3, <2>4 DEF k
<1> QED
  BY <1>10, <1>11, <1>12, <1>13

(* The i-th byte, counted from 0; 0 behind the last.                        *)
ByteAt(b, len, i) == IF i < len THEN b[i + 1] ELSE 0

(* Character k of a group of four stands for these bits of its 24.          *)
SextetOf(n, k) == (n \div 64 ^ (3 - k)) % 64

(* The powers that occur.                                                   *)
LEMMA Powers ==
  /\ 64 ^ 3 = 262144 /\ 64 ^ 2 = 4096 /\ 64 ^ 1 = 64 /\ 64 ^ 0 = 1
  /\ 256 ^ 2 = 65536 /\ 256 ^ 1 = 256 /\ 256 ^ 0 = 1
  /\ 2 ^ 7 = 128 /\ 2 ^ 6 = 64 /\ 2 ^ 5 = 32 /\ 2 ^ 4 = 16
  /\ 2 ^ 3 = 8 /\ 2 ^ 2 = 4 /\ 2 ^ 1 = 2 /\ 2 ^ 0 = 1
OBVIOUS

(* The sextets of three bytes.                                              *)
LEMMA Sextets ==
  ASSUME NEW x \in Byte, NEW y \in Byte, NEW z \in Byte, NEW n, n = 65536 * x + 256 * y + z
  PROVE  /\ n \in Nat
         /\ SextetOf(n, 0) = x \div 4
         /\ SextetOf(n, 1) = 16 * (x % 4) + (y \div 16)
         /\ SextetOf(n, 2) = 4 * (y % 16) + (z \div 64)
         /\ SextetOf(n, 3) = z % 64
<1>1. n \in Nat
  BY DEF Byte
<1>2. SextetOf(n, 0) = (n \div 262144) % 64
  BY Powers DEF SextetOf
<1>3. SextetOf(n, 1) = (n \div 4096) % 64
  BY Powers DEF SextetOf
<1>4. SextetOf(n, 2) = (n \div 64) % 64
  BY Powers DEF SextetOf
<1>5. SextetOf(n, 3) = n % 64
  <2>1. n \div 1 = n
    BY <1>1
  <2>2. SextetOf(n, 3) = (n \div 1) % 64
    BY Powers DEF SextetOf
  <2> QED
    BY <2>1, <2>2
<1>6. (n \div 262144) % 64 = x \div 4
  BY DEF Byte
<1>7. (n \div 4096) % 64 = 16 * (x % 4) + (y \div 16)
  <2>1. n \div 4096 = 16 * x + (y \div 16)
    BY DEF Byte
  <2>2. y \div 16 \in 0..15 /\ x % 4 \in 0..3 /\ x \div 4 \in Nat /\ x = 4 * (x \div 4) + (x % 4)
    BY DEF Byte
  <2>3. \A u \in Nat, v \in 0..3, w \in 0..15 : (16 * (4 * u + v) + w) % 64 = 16 * v + w
    OBVIOUS
  <2>4. (16 * (4 * (x \div 4) + (x % 4)) + (y \div 16)) % 64 = 16 * (x % 4) + (y \div 16)
    BY <2>2, <2>3
  <2> QED
    BY <2>1, <2>2, <2>4
<1>8. (n \div 64) % 64 = 4 * (y % 16) + (z \div 64)
  BY DEF Byte
<1>9. n % 64 = z % 64
  BY DEF Byte
<1> QED
  BY <1>1, <1>2, <1>3, <1>4, <1>5, <1>6, <1>7, <1>8, <1>9

(* A byte is the sum of its bits, and so are its parts.                     *)
LEMMA Bits ==
  ASSUME NEW a \in Byte
  PROVE  /\ a \div 4 = 32 * ((a \div 128) % 2) + 16 * ((a \div 64) % 2) + 8 * ((a \div 32) % 2)
                       + 4 * ((a \div 16) % 2) + 2 * ((a \div 8) % 2) + ((a \div 4) % 2)
         /\ a % 4 = 2 * ((a \div 2) % 2) + (a % 2)
         /\ a \div 16 = 8 * ((a \div 128) % 2) + 4 * ((a \div 64) % 2) + 2 * ((a \div 32) % 2)
                        + ((a \div 16) % 2)
         /\ a % 16 = 8 * ((a \div 8) % 2) + 4 * ((a \div 4) % 2) + 2 * ((a \div 2) % 2) + (a % 2)
         /\ a \div 64 = 2 * ((a \div 128) % 2) + ((a \div 64) % 2)
         /\ a % 64 = 32 * ((a \div 32) % 2) + 16 * ((a \div 16) % 2) + 8 * ((a \div 8) % 2)
                     + 4 * ((a \div 4) % 2) + 2 * ((a \div 2) % 2) + (a % 2)
BY DEF Byte

(* Four sextets, joined, are the three bytes again.                         *)
LEMMA SextetsJoin ==
  ASSUME NEW x \in Byte, NEW y \in Byte, NEW z \in Byte, NEW n, n = 65536 * x + 256 * y + z
  PROVE  /\ 262144 * SextetOf(n, 0) + 4096 * SextetOf(n, 1) + 64 * SextetOf(n, 2) + SextetOf(n, 3) = n
         /\ (n \div 256 ^ 2) % 256 = x /\ (n \div 256 ^ 1) % 256 = y /\ (n \div 256 ^ 0) % 256 = z
<1> DEFINE S0 == x \div 4
           S1 == 16 * (x % 4) + (y \div 16)
           S2 == 4 * (y % 16) + (z \div 64)
           S3 == z % 64
<1>1. 262144 * S0 + 4096 * S1 + 64 * S2 + S3 = 65536 * x + 256 * y + z
  BY DEF Byte
<1>2. (n \div 65536) % 256 = x /\ (n \div 256) % 256 = y /\ n % 256 = z /\ n \div 1 = n
  BY DEF Byte
<1>3. SextetOf(n, 0) = S0 /\ SextetOf(n, 1) = S1 /\ SextetOf(n, 2) = S2 /\ SextetOf(n, 3) = S3
  BY Sextets
<1> HIDE DEF S0, S1, S2, S3
<1>4. 262144 * SextetOf(n, 0) + 4096 * SextetOf(n, 1) + 64 * SextetOf(n, 2) + SextetOf(n, 3) = n
  BY <1>1, <1>3
<1> QED
  BY <1>2, <1>4, Powers

(* The bits from m on are those of the byte a, from the highest on.         *)
BitsFrom(e, m, a) ==
  /\ Bit(e, m) = (a \div 128) % 2 /\ Bit(e, m + 1) = (a \div 64) % 2
  /\ Bit(e, m + 2) = (a \div 32) % 2 /\ Bit(e, m + 3) = (a \div 16) % 2
  /\ Bit(e, m + 4) = (a \div 8) % 2 /\ Bit(e, m + 5) = (a \div 4) % 2
  /\ Bit(e, m + 6) = (a \div 2) % 2 /\ Bit(e, m + 7) = a % 2

(* Each byte of a string has eight of its bits.                             *)
LEMMA BitOf ==
  ASSUME NEW e \in Seq(Byte), NEW i \in Nat
  PROVE  ByteAt(e, Len(e), i) \in Byte /\ BitsFrom(e, 8 * i, ByteAt(e, Len(e), i))
<1> DEFINE a == ByteAt(e, Len(e), i)
<1>1. Len(e) \in Nat /\ \A k \in 1..Len(e) : e[k] \in Byte
  <2> HIDE DEF Byte
  <2> QED
    OBVIOUS
<1>2. a \in Byte
  <2>1. i < Len(e) => i + 1 \in 1..Len(e)
    BY <1>1
  <2>2. 0 \in Byte
    BY DEF Byte
  <2> HIDE DEF Byte
  <2> QED
    BY <1>1, <2>1, <2>2 DEF ByteAt
<1>3. ASSUME NEW u \in 0..7 PROVE Bit(e, 8 * i + u) = (a \div 2 ^ (7 - u)) % 2
  <2>1. (8 * i + u) \div 8 = i /\ (8 * i + u) % 8 = u
    OBVIOUS
  <2>2. 8 * i + u < 8 * Len(e) <=> i < Len(e)
    BY <1>1
  <2>3. CASE i < Len(e)
    <3>1. a = e[i + 1]
      BY <2>3 DEF ByteAt
    <3>2. Bit(e, 8 * i + u) = (e[(8 * i + u) \div 8 + 1] \div 2 ^ (7 - ((8 * i + u) % 8))) % 2
      BY <2>2, <2>3 DEF Bit
    <3> QED
      BY <2>1, <3>1, <3>2
  <2>4. CASE ~(i < Len(e))
    <3>1. a = 0 /\ Bit(e, 8 * i + u) = 0
      BY <2>2, <2>4 DEF ByteAt, Bit
    <3>2. 2 ^ (7 - u) \in {128, 64, 32, 16, 8, 4, 2, 1}
      <4>1. CASE u = 0
        <5>1. 7 - u = 7 /\ 2 ^ 7 = 128
          BY <4>1
        <5> QED
          BY <5>1, Zenon
      <4>2. CASE u = 1
        <5>1. 7 - u = 6 /\ 2 ^ 6 = 64
          BY <4>2
        <5> QED
          BY <5>1, Zenon
      <4>3. CASE u = 2
        <5>1. 7 - u = 5 /\ 2 ^ 5 = 32
          BY <4>3
        <5> QED
          BY <5>1, Zenon
      <4>4. CASE u = 3
        <5>1. 7 - u = 4 /\ 2 ^ 4 = 16
          BY <4>4
        <5> QED
          BY <5>1, Zenon
      <4>5. CASE u = 4
        <5>1. 7 - u = 3 /\ 2 ^ 3 = 8
          BY <4>5
        <5> QED
          BY <5>1, Zenon
      <4>6. CASE u = 5
        <5>1. 7 - u = 2 /\ 2 ^ 2 = 4
          BY <4>6
        <5> QED
          BY <5>1, Zenon
      <4>7. CASE u = 6
        <5>1. 7 - u = 1 /\ 2 ^ 1 = 2
          BY <4>7
        <5> QED
          BY <5>1, Zenon
      <4>8. CASE u = 7
        <5>1. 7 - u = 0 /\ 2 ^ 0 = 1
          BY <4>8
        <5> QED
          BY <5>1, Zenon
      <4> QED
        BY <4>1, <4>2, <4>3, <4>4, <4>5, <4>6, <4>7, <4>8
    <3>3. \A d \in {128, 64, 32, 16, 8, 4, 2, 1} : (0 \div d) % 2 = 0
      OBVIOUS
    <3>4. (0 \div 2 ^ (7 - u)) % 2 = 0
      BY <3>2, <3>3, Zenon
    <3> QED
      BY <3>1, <3>4
  <2> QED
    BY <2>3, <2>4
<1> HIDE DEF a
<1>4. Bit(e, 8 * i + 0) = (a \div 2 ^ (7 - 0)) % 2 /\ Bit(e, 8 * i + 1) = (a \div 2 ^ (7 - 1)) % 2
  BY <1>3
<1>5. Bit(e, 8 * i + 2) = (a \div 2 ^ (7 - 2)) % 2 /\ Bit(e, 8 * i + 3) = (a \div 2 ^ (7 - 3)) % 2
  BY <1>3
<1>6. Bit(e, 8 * i + 4) = (a \div 2 ^ (7 - 4)) % 2 /\ Bit(e, 8 * i + 5) = (a \div 2 ^ (7 - 5)) % 2
  BY <1>3
<1>7. Bit(e, 8 * i + 6) = (a \div 2 ^ (7 - 6)) % 2 /\ Bit(e, 8 * i + 7) = (a \div 2 ^ (7 - 7)) % 2
  BY <1>3
<1>8. a \div 1 = a /\ 8 * i + 0 = 8 * i
  BY <1>2 DEF Byte
<1>9. /\ Bit(e, 8 * i) = (a \div 128) % 2 /\ Bit(e, 8 * i + 1) = (a \div 64) % 2
      /\ Bit(e, 8 * i + 2) = (a \div 32) % 2 /\ Bit(e, 8 * i + 3) = (a \div 16) % 2
  BY <1>4, <1>5, <1>8, Powers
<1>10. /\ Bit(e, 8 * i + 4) = (a \div 8) % 2 /\ Bit(e, 8 * i + 5) = (a \div 4) % 2
       /\ Bit(e, 8 * i + 6) = (a \div 2) % 2 /\ Bit(e, 8 * i + 7) = a % 2
  BY <1>6, <1>7, <1>8, Powers
<1>11. BitsFrom(e, 8 * i, a)
  BY <1>9, <1>10 DEF BitsFrom
<1> QED
  BY <1>2, <1>11 DEF a

(* Three bytes in 24 bits.                                                  *)
Together(n, x, y, z) ==
  x \in Byte /\ y \in Byte /\ z \in Byte /\ n = 65536 * x + 256 * y + z

(* Group g of a string, which the code packs.                               *)
LEMMA PackedBytes ==
  ASSUME NEW e \in Seq(Byte), NEW b, \A i \in 1..Len(e) : b[i] = e[i], NEW g \in Nat
  PROVE  Together(Packed(b, Len(e), g), ByteAt(e, Len(e), 3 * g), ByteAt(e, Len(e), 3 * g + 1),
                  ByteAt(e, Len(e), 3 * g + 2))
<1>1. Len(e) \in Nat
  OBVIOUS
<1>2. ASSUME NEW i \in Nat PROVE ByteAt(b, Len(e), i) = ByteAt(e, Len(e), i) /\ ByteAt(e, Len(e), i) \in Byte
  <2>1. i < Len(e) => i + 1 \in 1..Len(e)
    BY <1>1
  <2>2. i < Len(e) => b[i + 1] = e[i + 1]
    BY <2>1
  <2> QED
    BY <2>2, BitOf DEF ByteAt
<1>3. 3 * g \in Nat /\ 3 * g + 1 \in Nat /\ 3 * g + 2 \in Nat
  OBVIOUS
<1>4. Packed(b, Len(e), g) = 65536 * ByteAt(b, Len(e), 3 * g)
        + 256 * ByteAt(b, Len(e), 3 * g + 1) + ByteAt(b, Len(e), 3 * g + 2)
  BY DEF Packed, ByteAt
<1> QED
  BY <1>2, <1>3, <1>4 DEF Together

(* The RFC's sextet from the bits.                                          *)
RfcSextet(e, k) ==
  32 * Bit(e, 6 * k) + 16 * Bit(e, 6 * k + 1) + 8 * Bit(e, 6 * k + 2)
  + 4 * Bit(e, 6 * k + 3) + 2 * Bit(e, 6 * k + 4) + Bit(e, 6 * k + 5)

(* The code cuts the sextets of the RFC out of the 24 bits.                 *)
LEMMA SameSextets ==
  ASSUME NEW e \in Seq(Byte), NEW b, \A i \in 1..Len(e) : b[i] = e[i],
         NEW g \in Nat, NEW k \in 0..3
  PROVE  /\ SextetOf(Packed(b, Len(e), g), k) = RfcSextet(e, 4 * g + k)
         /\ SextetOf(Packed(b, Len(e), g), k) \in 0..63
<1> DEFINE x == ByteAt(e, Len(e), 3 * g)
           y == ByteAt(e, Len(e), 3 * g + 1)
           z == ByteAt(e, Len(e), 3 * g + 2)
           n == Packed(b, Len(e), g)
<1>1. Together(n, x, y, z)
  BY PackedBytes
<1>2. BitsFrom(e, 24 * g, x)
  <2>1. 3 * g \in Nat /\ 8 * (3 * g) = 24 * g
    OBVIOUS
  <2>2. BitsFrom(e, 8 * (3 * g), x)
    BY <2>1, BitOf
  <2> QED
    BY <2>1, <2>2
<1>3. BitsFrom(e, 24 * g + 8, y)
  <2>1. 3 * g + 1 \in Nat /\ 8 * (3 * g + 1) = 24 * g + 8
    OBVIOUS
  <2>2. BitsFrom(e, 8 * (3 * g + 1), y)
    BY <2>1, BitOf
  <2> QED
    BY <2>1, <2>2
<1>4. BitsFrom(e, 24 * g + 16, z)
  <2>1. 3 * g + 2 \in Nat /\ 8 * (3 * g + 2) = 24 * g + 16
    OBVIOUS
  <2>2. BitsFrom(e, 8 * (3 * g + 2), z)
    BY <2>1, BitOf
  <2> QED
    BY <2>1, <2>2
<1> HIDE DEF x, y, z, n
<1>5. x \in Byte /\ y \in Byte /\ z \in Byte /\ n = 65536 * x + 256 * y + z
  BY <1>1 DEF Together
<1>6. /\ SextetOf(n, 0) = x \div 4 /\ SextetOf(n, 1) = 16 * (x % 4) + (y \div 16)
      /\ SextetOf(n, 2) = 4 * (y % 16) + (z \div 64) /\ SextetOf(n, 3) = z % 64
  BY <1>5, Sextets
<1>7. CASE k = 0
  <2> DEFINE m == 4 * g + 0
  <2>1. /\ 6 * m = 24 * g /\ 6 * m + 1 = 24 * g + 1
        /\ 6 * m + 2 = 24 * g + 2 /\ 6 * m + 3 = 24 * g + 3
        /\ 6 * m + 4 = 24 * g + 4 /\ 6 * m + 5 = 24 * g + 5
    OBVIOUS
  <2> HIDE DEF m
  <2>2. RfcSextet(e, m) = 32 * ((x \div 128) % 2) + 16 * ((x \div 64) % 2) + 8 * ((x \div 32) % 2)
          + 4 * ((x \div 16) % 2) + 2 * ((x \div 8) % 2) + ((x \div 4) % 2)
    BY <1>2, <2>1 DEF RfcSextet, BitsFrom
  <2>3. RfcSextet(e, m) = x \div 4 /\ x \div 4 \in 0..63
    <3>1. RfcSextet(e, m) = x \div 4
      BY <1>5, <2>2, Bits
    <3> QED
      BY <1>5, <3>1 DEF Byte
  <2> QED
    BY <1>6, <1>7, <2>3 DEF n, m
<1>8. CASE k = 1
  <2> DEFINE m == 4 * g + 1
  <2>1. /\ 6 * m = 24 * g + 6 /\ 6 * m + 1 = 24 * g + 7
        /\ 6 * m + 2 = 24 * g + 8 /\ 6 * m + 3 = (24 * g + 8) + 1
        /\ 6 * m + 4 = (24 * g + 8) + 2 /\ 6 * m + 5 = (24 * g + 8) + 3
    OBVIOUS
  <2> HIDE DEF m
  <2>2. RfcSextet(e, m) = 32 * ((x \div 2) % 2) + 16 * (x % 2) + 8 * ((y \div 128) % 2)
          + 4 * ((y \div 64) % 2) + 2 * ((y \div 32) % 2) + ((y \div 16) % 2)
    BY <1>2, <1>3, <2>1 DEF RfcSextet, BitsFrom
  <2>3. RfcSextet(e, m) = 16 * (x % 4) + (y \div 16) /\ 16 * (x % 4) + (y \div 16) \in 0..63
    <3>1. x % 4 = 2 * ((x \div 2) % 2) + (x % 2)
      BY <1>5, Bits
    <3>2. y \div 16 = 8 * ((y \div 128) % 2) + 4 * ((y \div 64) % 2) + 2 * ((y \div 32) % 2) + ((y \div 16) % 2)
      BY <1>5, Bits
    <3>3. RfcSextet(e, m) = 16 * (x % 4) + (y \div 16)
      BY <1>5, <2>2, <3>1, <3>2 DEF Byte
    <3> QED
      BY <1>5, <3>3 DEF Byte
  <2> QED
    BY <1>6, <1>8, <2>3 DEF n, m
<1>9. CASE k = 2
  <2> DEFINE m == 4 * g + 2
  <2>1. /\ 6 * m = (24 * g + 8) + 4 /\ 6 * m + 1 = (24 * g + 8) + 5
        /\ 6 * m + 2 = (24 * g + 8) + 6 /\ 6 * m + 3 = (24 * g + 8) + 7
        /\ 6 * m + 4 = 24 * g + 16 /\ 6 * m + 5 = (24 * g + 16) + 1
    OBVIOUS
  <2> HIDE DEF m
  <2>2. RfcSextet(e, m) = 32 * ((y \div 8) % 2) + 16 * ((y \div 4) % 2) + 8 * ((y \div 2) % 2)
          + 4 * (y % 2) + 2 * ((z \div 128) % 2) + ((z \div 64) % 2)
    BY <1>3, <1>4, <2>1 DEF RfcSextet, BitsFrom
  <2>3. RfcSextet(e, m) = 4 * (y % 16) + (z \div 64) /\ 4 * (y % 16) + (z \div 64) \in 0..63
    <3>1. y % 16 = 8 * ((y \div 8) % 2) + 4 * ((y \div 4) % 2) + 2 * ((y \div 2) % 2) + (y % 2)
      BY <1>5, Bits
    <3>2. z \div 64 = 2 * ((z \div 128) % 2) + ((z \div 64) % 2)
      BY <1>5, Bits
    <3>3. RfcSextet(e, m) = 4 * (y % 16) + (z \div 64)
      BY <1>5, <2>2, <3>1, <3>2 DEF Byte
    <3> QED
      BY <1>5, <3>3 DEF Byte
  <2> QED
    BY <1>6, <1>9, <2>3 DEF n, m
<1>10. CASE k = 3
  <2> DEFINE m == 4 * g + 3
  <2>1. /\ 6 * m = (24 * g + 16) + 2 /\ 6 * m + 1 = (24 * g + 16) + 3
        /\ 6 * m + 2 = (24 * g + 16) + 4 /\ 6 * m + 3 = (24 * g + 16) + 5
        /\ 6 * m + 4 = (24 * g + 16) + 6 /\ 6 * m + 5 = (24 * g + 16) + 7
    OBVIOUS
  <2> HIDE DEF m
  <2>2. RfcSextet(e, m) = 32 * ((z \div 32) % 2) + 16 * ((z \div 16) % 2) + 8 * ((z \div 8) % 2)
          + 4 * ((z \div 4) % 2) + 2 * ((z \div 2) % 2) + (z % 2)
    BY <1>4, <2>1 DEF RfcSextet, BitsFrom
  <2>3. RfcSextet(e, m) = z % 64 /\ z % 64 \in 0..63
    <3>1. RfcSextet(e, m) = z % 64
      BY <1>5, <2>2, Bits
    <3> QED
      BY <1>5, <3>1 DEF Byte
  <2> QED
    BY <1>6, <1>10, <2>3 DEF n, m
<1> QED
  BY <1>7, <1>8, <1>9, <1>10

(* The numbers of characters: what the code counts is what the RFC has.     *)
LEMMA Lengths ==
  ASSUME NEW len \in Nat, NEW s, s = (8 * len + 5) \div 6
  PROVE  /\ s \in Nat /\ PackedSize(len) \in Nat /\ PackedSize(len) = (s + 3) \div 4
         /\ 4 * PackedSize(len) - NumPad(len) = s /\ s <= 4 * PackedSize(len)
         /\ 8 * len <= 6 * s /\ len <= 3 * PackedSize(len)
<1> DEFINE q == len \div 3
           r == len % 3
<1>1. q \in Nat /\ r \in 0..2 /\ len = 3 * q + r
  OBVIOUS
<1>2. /\ PackedSize(len) = q + (IF r = 0 THEN 0 ELSE 1) /\ NumPad(len) = (3 - r) % 3
  BY DEF PackedSize, NumPad
<1> HIDE DEF q, r
<1>3. CASE r = 0
  <2>1. PackedSize(len) = q /\ NumPad(len) = 0
    BY <1>1, <1>2, <1>3
  <2>2. s = 4 * q
    BY <1>1, <1>3
  <2> QED
    BY <1>1, <1>3, <2>1, <2>2
<1>4. CASE r = 1
  <2>1. PackedSize(len) = q + 1 /\ NumPad(len) = 2
    BY <1>2, <1>4
  <2>2. s = 4 * q + 2
    BY <1>1, <1>4
  <2> QED
    BY <1>1, <1>4, <2>1, <2>2
<1>5. CASE r = 2
  <2>1. PackedSize(len) = q + 1 /\ NumPad(len) = 1
    BY <1>2, <1>5
  <2>2. s = 4 * q + 3
    BY <1>1, <1>5
  <2> QED
    BY <1>1, <1>5, <2>1, <2>2
<1> QED
  BY <1>1, <1>3, <1>4, <1>5

(* The text that the RFC describes, with the table of the code.             *)
Chars(e) ==
  [p \in 1..(4 * PackedSize(Len(e))) |->
     IF p <= (8 * Len(e) + 5) \div 6 THEN IndexToChar(RfcSextet(e, p - 1)) ELSE Pad]

(* A position is a group and a place in it.                                 *)
LEMMA Group ==
  ASSUME NEW m \in Nat
  PROVE  m \div 4 \in Nat /\ m % 4 \in 0..3 /\ m = 4 * (m \div 4) + (m % 4)
OBVIOUS

(* Every sextet has a character.                                            *)
LEMMA SextetRange ==
  ASSUME NEW e \in Seq(Byte), NEW m \in Nat
  PROVE  RfcSextet(e, m) \in 0..63
<1>1. m \div 4 \in Nat /\ m % 4 \in 0..3 /\ m = 4 * (m \div 4) + (m % 4)
  BY Group
<1> DEFINE g == m \div 4
           k == m % 4
<1>2. g \in Nat /\ k \in 0..3 /\ m = 4 * g + k
  BY <1>1
<1> HIDE DEF g, k
<1>3. RfcSextet(e, 4 * g + k) \in 0..63
  BY <1>2, SameSextets
<1> QED
  BY <1>2, <1>3

(* The encoder writes it, from a block that begins with the string.         *)
LEMMA EncodesChars ==
  ASSUME NEW e \in Seq(Byte), NEW b, \A i \in 1..Len(e) : b[i] = e[i]
  PROVE  Encode(b, Len(e)) = Chars(e)
<1> DEFINE n == Len(e)
           s == (8 * n + 5) \div 6
           chars == 4 * PackedSize(n)
           Coded(p) == IndexToChar(IF p - 1 >= chars - NumPad(n) THEN 64
                         ELSE (Packed(b, n, (p - 1) \div 4) \div 64 ^ (3 - ((p - 1) % 4))) % 64)
           Char(p) == IF p <= s THEN IndexToChar(RfcSextet(e, p - 1)) ELSE Pad
<1>1. n \in Nat
  OBVIOUS
<1>2. /\ Encode(b, n) = [p \in 1..chars |-> Coded(p)]
      /\ Chars(e) = [p \in 1..chars |-> Char(p)]
  BY DEF Encode, Chars
<1>3. s \in Nat /\ chars - NumPad(n) = s /\ chars \in Nat
  <2> HIDE DEF n
  <2>1. s \in Nat /\ PackedSize(n) \in Nat
    BY <1>1, Lengths
  <2>2. 4 * PackedSize(n) - NumPad(n) = s
    BY <1>1, Lengths
  <2> QED
    BY <2>1, <2>2
<1>4. ASSUME NEW p \in 1..chars PROVE Coded(p) = Char(p)
  <2>1. p \in Nat /\ p - 1 \in Nat
    BY <1>3
  <2>2. p - 1 >= chars - NumPad(n) <=> ~(p <= s)
    <3> HIDE DEF s, chars
    <3> QED
      BY <1>3, <2>1
  <2>3. CASE ~(p <= s)
    <3>1. Coded(p) = IndexToChar(64) /\ Char(p) = Pad
      BY <2>2, <2>3
    <3>2. IndexToChar(64) = Pad
      BY DEF IndexToChar
    <3> QED
      BY <3>1, <3>2
  <2>4. CASE p <= s
    <3> DEFINE g == (p - 1) \div 4
               k == (p - 1) % 4
    <3>1. Coded(p) = IndexToChar(SextetOf(Packed(b, n, g), k)) /\ Char(p) = IndexToChar(RfcSextet(e, p - 1))
      BY <2>2, <2>4 DEF SextetOf
    <3>2. g \in Nat /\ k \in 0..3 /\ p - 1 = 4 * g + k
      BY <2>1, Group
    <3> HIDE DEF g, k, Coded, Char
    <3>3. SextetOf(Packed(b, n, g), k) = RfcSextet(e, 4 * g + k)
      BY <3>2, SameSextets
    <3> QED
      BY <3>1, <3>2, <3>3
  <2> QED
    BY <2>3, <2>4
<1> HIDE DEF Coded, Char
<1> QED
  BY <1>2, <1>4

(* It is the RFC's.                                                         *)
LEMMA RfcChars ==
  ASSUME NEW e \in Seq(Byte)
  PROVE  Rfc4648(e) = Chars(e)
<1> DEFINE n == Len(e)
           s == (8 * n + 5) \div 6
           Char(p) == IF p <= s THEN IndexToChar(RfcSextet(e, p - 1)) ELSE Pad
           Described(p) == IF p <= s THEN Alphabet[RfcSextet(e, p - 1) + 1] ELSE Pad
<1>1. n \in Nat
  OBVIOUS
<1>2. /\ Rfc4648(e) = [p \in 1..(4 * ((s + 3) \div 4)) |-> Described(p)]
      /\ Chars(e) = [p \in 1..(4 * PackedSize(n)) |-> Char(p)]
  BY DEF Rfc4648, Chars, RfcSextet
<1>3. PackedSize(n) = (s + 3) \div 4 /\ PackedSize(n) \in Nat
  <2> HIDE DEF n
  <2> QED
    BY <1>1, Lengths
<1>4. ASSUME NEW p \in 1..(4 * PackedSize(n)) PROVE Described(p) = Char(p)
  <2>1. p - 1 \in Nat
    BY <1>3
  <2>2. RfcSextet(e, p - 1) \in 0..63
    BY <2>1, SextetRange
  <2>3. Alphabet[RfcSextet(e, p - 1) + 1] = IndexToChar(RfcSextet(e, p - 1))
    BY <2>2, AlphabetIndex
  <2> QED
    BY <2>3
<1> HIDE DEF Described, Char
<1> QED
  BY <1>2, <1>3, <1>4

(* The decoder's table is the inverse; no sextet is written as =.           *)
LEMMA IndexOfChar ==
  ASSUME NEW i \in 0..63
  PROVE  CharToIndex(IndexToChar(i)) = i /\ IndexToChar(i) # Pad /\ IndexToChar(i) \in Nat
BY DEF CharToIndex, IndexToChar, Pad

(* The sextets behind the last bit are 0.                                   *)
LEMMA SextetBehind ==
  ASSUME NEW e \in Seq(Byte), NEW m \in Nat, 8 * Len(e) <= 6 * m
  PROVE  RfcSextet(e, m) = 0
<1>1. Len(e) \in Nat
  OBVIOUS
<1>2. \A i \in Nat : 6 * m <= i => Bit(e, i) = 0
  BY <1>1 DEF Bit
<1>3. /\ Bit(e, 6 * m) = 0 /\ Bit(e, 6 * m + 1) = 0 /\ Bit(e, 6 * m + 2) = 0
      /\ Bit(e, 6 * m + 3) = 0 /\ Bit(e, 6 * m + 4) = 0 /\ Bit(e, 6 * m + 5) = 0
  BY <1>2
<1> QED
  BY <1>3 DEF RfcSextet

(* A text has whole groups, of characters and then of =.                    *)
LEMMA CharsShape ==
  ASSUME NEW e \in Seq(Byte), NEW s, s = (8 * Len(e) + 5) \div 6
  PROVE  /\ Len(Chars(e)) = 4 * PackedSize(Len(e)) /\ DOMAIN Chars(e) = 1..(4 * PackedSize(Len(e)))
         /\ \A p \in 1..(4 * PackedSize(Len(e))) :
              /\ p <= s => Chars(e)[p] = IndexToChar(RfcSextet(e, p - 1)) /\ Chars(e)[p] # Pad
              /\ ~(p <= s) => Chars(e)[p] = Pad
         /\ FirstPad(Chars(e)) = s + 1
<1> DEFINE t == Chars(e)
           chars == 4 * PackedSize(Len(e))
           Char(p) == IF p <= s THEN IndexToChar(RfcSextet(e, p - 1)) ELSE Pad
<1>1. s \in Nat /\ chars \in Nat /\ s <= chars
  <2> DEFINE n == Len(e)
  <2>1. n \in Nat /\ s = (8 * n + 5) \div 6
    OBVIOUS
  <2> HIDE DEF n
  <2>2. s \in Nat /\ PackedSize(n) \in Nat /\ s <= 4 * PackedSize(n)
    BY <2>1, Lengths
  <2> QED
    BY <2>2 DEF n
<1>2. t = [p \in 1..chars |-> Char(p)]
  BY DEF Chars
<1>3. ASSUME NEW p \in 1..chars
      PROVE  /\ p <= s => Char(p) = IndexToChar(RfcSextet(e, p - 1)) /\ Char(p) # Pad
             /\ ~(p <= s) => Char(p) = Pad
             /\ Char(p) \in Nat
  <2>1. p - 1 \in Nat
    BY <1>1
  <2>2. RfcSextet(e, p - 1) \in 0..63
    BY <2>1, SextetRange
  <2>3. IndexToChar(RfcSextet(e, p - 1)) # Pad /\ IndexToChar(RfcSextet(e, p - 1)) \in Nat
    BY <2>2, IndexOfChar
  <2>4. Pad \in Nat
    BY DEF Pad
  <2> QED
    BY <2>3, <2>4
<1> HIDE DEF Char
<1>4. DOMAIN t = 1..chars /\ Len(t) = chars
  <2>1. t \in [1..chars -> Nat]
    BY <1>2, <1>3
  <2> HIDE DEF t, chars
  <2> QED
    BY <1>1, <2>1
<1>5. \A p \in 1..chars : /\ p <= s => t[p] = IndexToChar(RfcSextet(e, p - 1)) /\ t[p] # Pad
                          /\ ~(p <= s) => t[p] = Pad
  BY <1>2, <1>3
<1> HIDE DEF t, chars
<1>6. FirstPad(t) = s + 1
  <2>1. CASE s = chars
    <3>1. ~\E p \in DOMAIN t : t[p] = Pad
      BY <1>1, <1>4, <1>5, <2>1
    <3> QED
      BY <1>4, <2>1, <3>1 DEF FirstPad
  <2>2. CASE s # chars
    <3> DEFINE P(p) == t[p] = Pad /\ \A q \in 1..(p - 1) : t[q] # Pad
    <3>1. s + 1 \in DOMAIN t /\ P(s + 1)
      BY <1>1, <1>4, <1>5, <2>2
    <3>2. ASSUME NEW p \in DOMAIN t, P(p) PROVE p = s + 1
      <4>1. p \in Nat /\ p > s
        BY <1>1, <1>4, <1>5, <3>2
      <4>2. s + 1 \in 1..(p - 1) => FALSE
        BY <3>1, <3>2
      <4> QED
        BY <1>1, <4>1, <4>2
    <3>3. FirstPad(t) = CHOOSE p \in DOMAIN t : P(p)
      BY <3>1 DEF FirstPad
    <3> HIDE DEF P
    <3> QED
      BY <3>1, <3>2, <3>3
  <2> QED
    BY <2>1, <2>2
<1> QED
  BY <1>4, <1>5, <1>6 DEF t, chars

(* Decoding gives the bytes back, and zeros up to a multiple of three.      *)
LEMMA DecodesChars ==
  ASSUME NEW e \in Seq(Byte)
  PROVE  DecodedBytes(Chars(e)) = [p \in 1..(3 * PackedSize(Len(e))) |-> ByteAt(e, Len(e), p - 1)]
<1> DEFINE t == Chars(e)
           n == Len(e)
           s == (8 * n + 5) \div 6
           groups == PackedSize(n)
           Index(p) == IF p < FirstPad(t) THEN CharToIndex(t[p]) ELSE 0
           Of(g) == 262144 * Index(4 * g + 1) + 4096 * Index(4 * g + 2)
                    + 64 * Index(4 * g + 3) + Index(4 * g + 4)
           Decoded(p) == (Of((p - 1) \div 3) \div 256 ^ (2 - ((p - 1) % 3))) % 256
<1>1. n \in Nat /\ groups \in Nat /\ s \in Nat /\ 8 * n <= 6 * s
  <2>1. n \in Nat
    OBVIOUS
  <2> HIDE DEF n
  <2> QED
    BY <2>1, Lengths
<1>2. /\ Len(t) = 4 * groups /\ FirstPad(t) = s + 1
      /\ \A p \in 1..(4 * groups) : p <= s => t[p] = IndexToChar(RfcSextet(e, p - 1))
  BY CharsShape
<1>3. DecodedBytes(t) = [p \in 1..(3 * groups) |-> Decoded(p)]
  <2>1. DecodedBytes(t) = [p \in 1..(3 * (Len(t) \div 4)) |-> Decoded(p)]
    BY DEF DecodedBytes
  <2>2. Len(t) \div 4 = groups
    <3> HIDE DEF t, groups
    <3> QED
      BY <1>1, <1>2
  <2> HIDE DEF Decoded
  <2> QED
    BY <2>1, <2>2
<1>4. ASSUME NEW m \in Nat, m < 4 * groups PROVE Index(m + 1) = RfcSextet(e, m)
  <2> DEFINE p == m + 1
  <2>1. p \in 1..(4 * groups) /\ p - 1 = m
    <3> HIDE DEF groups
    <3> QED
      BY <1>1, <1>4
  <2>2. CASE m < s
    <3>1. p <= s /\ p < FirstPad(t)
      <4> HIDE DEF s, t
      <4> QED
        BY <1>1, <1>2, <2>2
    <3>2. Index(p) = CharToIndex(IndexToChar(RfcSextet(e, m)))
      <4> HIDE DEF p, t, s, groups
      <4> QED
        BY <1>2, <2>1, <3>1
    <3>3. RfcSextet(e, m) \in 0..63
      BY SextetRange
    <3> HIDE DEF Index
    <3> QED
      BY <3>2, <3>3, IndexOfChar
  <2>3. CASE ~(m < s)
    <3>1. ~(p < FirstPad(t)) /\ 8 * n <= 6 * m
      <4> HIDE DEF s, t, n
      <4> QED
        BY <1>1, <1>2, <2>3
    <3>2. RfcSextet(e, m) = 0
      BY <3>1, SextetBehind
    <3> QED
      BY <3>1, <3>2
  <2> QED
    BY <2>2, <2>3
<1> HIDE DEF Index
<1>5. ASSUME NEW g \in Nat, g < groups PROVE Of(g) = Packed(e, n, g)
  <2> DEFINE N == Packed(e, n, g)
  <2>1. /\ Index(4 * g + 1) = RfcSextet(e, 4 * g + 0) /\ Index(4 * g + 2) = RfcSextet(e, 4 * g + 1)
        /\ Index(4 * g + 3) = RfcSextet(e, 4 * g + 2) /\ Index(4 * g + 4) = RfcSextet(e, 4 * g + 3)
    <3> HIDE DEF groups
    <3>1. /\ 4 * g + 0 \in Nat /\ 4 * g + 0 < 4 * groups /\ (4 * g + 0) + 1 = 4 * g + 1
          /\ 4 * g + 1 \in Nat /\ 4 * g + 1 < 4 * groups /\ (4 * g + 1) + 1 = 4 * g + 2
          /\ 4 * g + 2 \in Nat /\ 4 * g + 2 < 4 * groups /\ (4 * g + 2) + 1 = 4 * g + 3
          /\ 4 * g + 3 \in Nat /\ 4 * g + 3 < 4 * groups /\ (4 * g + 3) + 1 = 4 * g + 4
      BY <1>1, <1>5
    <3>2. Index((4 * g + 0) + 1) = RfcSextet(e, 4 * g + 0) /\ Index((4 * g + 1) + 1) = RfcSextet(e, 4 * g + 1)
      BY <1>4, <3>1
    <3>3. Index((4 * g + 2) + 1) = RfcSextet(e, 4 * g + 2) /\ Index((4 * g + 3) + 1) = RfcSextet(e, 4 * g + 3)
      BY <1>4, <3>1
    <3> QED
      BY <3>1, <3>2, <3>3
  <2>2. \A i \in 1..Len(e) : e[i] = e[i]
    OBVIOUS
  <2>3. /\ SextetOf(N, 0) = RfcSextet(e, 4 * g + 0) /\ SextetOf(N, 1) = RfcSextet(e, 4 * g + 1)
        /\ SextetOf(N, 2) = RfcSextet(e, 4 * g + 2) /\ SextetOf(N, 3) = RfcSextet(e, 4 * g + 3)
    <3>1. 0 \in 0..3 /\ 1 \in 0..3 /\ 2 \in 0..3 /\ 3 \in 0..3
      OBVIOUS
    <3> QED
      BY <2>2, <3>1, SameSextets
  <2>4. PICK x, y, z : Together(N, x, y, z)
    BY <2>2, PackedBytes
  <2> HIDE DEF N
  <2>5. 262144 * SextetOf(N, 0) + 4096 * SextetOf(N, 1) + 64 * SextetOf(N, 2) + SextetOf(N, 3) = N
    BY <2>4, SextetsJoin DEF Together
  <2> QED
    BY <2>1, <2>3, <2>5 DEF N
<1> HIDE DEF Of
<1>6. ASSUME NEW p \in 1..(3 * groups) PROVE Decoded(p) = ByteAt(e, n, p - 1)
  <2> DEFINE g == (p - 1) \div 3
             c == (p - 1) % 3
             N == Packed(e, n, g)
             x == ByteAt(e, n, 3 * g)
             y == ByteAt(e, n, 3 * g + 1)
             z == ByteAt(e, n, 3 * g + 2)
  <2>1. g \in Nat /\ c \in 0..2 /\ p - 1 = 3 * g + c /\ g < groups
    <3> HIDE DEF groups
    <3> QED
      BY <1>1
  <2>2. Decoded(p) = (N \div 256 ^ (2 - c)) % 256
    <3> HIDE DEF groups, n, c
    <3>1. Of(g) = N
      BY <1>5, <2>1
    <3> QED
      BY <3>1 DEF c
  <2>3. Together(N, x, y, z)
    <3>1. \A i \in 1..Len(e) : e[i] = e[i]
      OBVIOUS
    <3> HIDE DEF g
    <3> QED
      BY <2>1, <3>1, PackedBytes
  <2> HIDE DEF g, c, N, x, y, z, Decoded
  <2>4. (N \div 256 ^ 2) % 256 = x /\ (N \div 256 ^ 1) % 256 = y /\ (N \div 256 ^ 0) % 256 = z
    BY <2>3, SextetsJoin DEF Together
  <2>5. CASE c = 0
    <3>1. 2 - c = 2 /\ p - 1 = 3 * g
      BY <2>1, <2>5
    <3> QED
      BY <2>2, <2>4, <3>1 DEF x
  <2>6. CASE c = 1
    <3>1. 2 - c = 1 /\ p - 1 = 3 * g + 1
      BY <2>1, <2>6
    <3> QED
      BY <2>2, <2>4, <3>1 DEF y
  <2>7. CASE c = 2
    <3>1. 2 - c = 0 /\ p - 1 = 3 * g + 2
      BY <2>1, <2>7
    <3> QED
      BY <2>2, <2>4, <3>1 DEF z
  <2> QED
    BY <2>1, <2>5, <2>6, <2>7
<1> HIDE DEF Decoded
<1> QED
  BY <1>3, <1>6

(* What the text is: the encoding of an object of this type, and of what    *)
(* lay behind it.                                                           *)
TextIsEncoded ==
  text # None =>
    \E o \in Contents, j \in Foreign :
      Len(o) = size /\ text = [chars |-> Encode(o \o j, Header + size), of |-> o]

DecodedIsEncoded ==
  (text # None /\ got # None /\ got.by = "decode") => got.value \in {text.of, NULL}

TextInvariant == TextIsEncoded /\ DecodedIsEncoded

(* A function on 1..n is a sequence of that length.                         *)
LEMMA IsSequence ==
  ASSUME NEW S, NEW n \in Nat, NEW f \in [1..n -> S]
  PROVE  f \in Seq(S) /\ Len(f) = n
OBVIOUS

(* The encoder is given the fields and eight bytes of what lies behind.     *)
LEMMA EncoderInput ==
  ASSUME NEW o \in Contents, NEW j \in Foreign, Len(o) = size
  PROVE  LET e == o \o SubSeq(j, 1, Header) IN
         /\ e \in Seq(Byte) /\ Len(e) = Header + size /\ size \in Nat
         /\ \A i \in 1..Len(e) : (o \o j)[i] = e[i]
         /\ \A i \in 1..size : e[i] = o[i]
<1>1. o \in Seq(Byte) /\ j \in Seq(Byte) /\ size \in Nat /\ 8 <= Len(j)
  <2>1. o \in Seq(Byte) /\ j \in [1..10 -> Byte]
    BY RuntimeAssumption
  <2> HIDE DEF Byte
  <2>2. j \in Seq(Byte) /\ Len(j) = 10
    BY <2>1, IsSequence
  <2>3. Len(o) \in Nat
    BY <2>1
  <2> QED
    BY <2>1, <2>2, <2>3
<1> DEFINE h == SubSeq(j, 1, 8)
<1>2. h \in Seq(Byte) /\ Len(h) = 8 /\ \A i \in 1..8 : h[i] = j[i]
  <2> HIDE DEF Byte
  <2> QED
    BY <1>1
<1> HIDE DEF h
<1>3. o \o h \in Seq(Byte) /\ Len(o \o h) = Len(o) + Len(h)
  BY <1>1, <1>2, Joined
<1>4. ASSUME NEW i \in 1..Len(o) PROVE (o \o j)[i] = o[i] /\ (o \o h)[i] = o[i]
  <2> HIDE DEF Byte
  <2> QED
    BY <1>1, <1>2
<1>5. ASSUME NEW i \in Nat, i > Len(o), i <= Len(o) + 8
      PROVE  (o \o j)[i] = j[i - Len(o)] /\ (o \o h)[i] = h[i - Len(o)] /\ i - Len(o) \in 1..8
  <2>1. Len(o) \in Nat /\ i - Len(o) \in 1..8
    BY <1>1, <1>5
  <2>2. i <= Len(o) + Len(j) /\ i <= Len(o) + Len(h) /\ Len(o) < i
    <3>1. Len(j) \in Nat /\ 8 <= Len(j)
      BY <1>1
    <3>2. i <= Len(o) + Len(j)
      BY <1>5, <2>1, <3>1
    <3>3. i <= Len(o) + Len(h)
      BY <1>2, <1>5
    <3> QED
      BY <1>5, <3>2, <3>3
  <2>3. (o \o j)[i] = j[i - Len(o)]
    BY <1>1, <2>2, OfTheSecond
  <2>4. (o \o h)[i] = h[i - Len(o)]
    <3>1. h \in Seq(Byte)
      BY <1>2
    <3> QED
      BY <1>1, <2>2, <3>1, OfTheSecond
  <2> QED
    BY <2>1, <2>3, <2>4
<1>6. ASSUME NEW i \in 1..Len(o \o h) PROVE (o \o j)[i] = (o \o h)[i]
  <2>1. CASE i <= Len(o)
    BY <1>1, <1>3, <1>4, <2>1
  <2>2. CASE ~(i <= Len(o))
    <3>1. i \in Nat /\ i > Len(o) /\ i <= Len(o) + 8
      BY <1>1, <1>2, <1>3, <2>2
    <3> QED
      BY <1>2, <1>5, <3>1
  <2> QED
    BY <2>1, <2>2
<1>7. Len(o \o h) = 8 + size
  BY <1>1, <1>2, <1>3
<1> QED
  BY <1>1, <1>3, <1>4, <1>6, <1>7 DEF h, Header

(* The text is the RFC's, of the fields and those eight bytes.              *)
LEMMA TextIsBase64 ==
  ASSUME NEW o \in Contents, NEW j \in Foreign, Len(o) = size
  PROVE  Encode(o \o j, Header + size) = Rfc4648(o \o SubSeq(j, 1, Header))
<1> DEFINE e == o \o SubSeq(j, 1, Header)
           b == o \o j
<1>1. e \in Seq(Byte) /\ Len(e) = Header + size /\ \A i \in 1..Len(e) : b[i] = e[i]
  BY EncoderInput
<1> HIDE DEF e, b
<1>2. Encode(b, Len(e)) = Chars(e) /\ Rfc4648(e) = Chars(e)
  BY <1>1, EncodesChars, RfcChars
<1> QED
  BY <1>1, <1>2 DEF e, b

(* Its decoding begins with the fields.                                     *)
LEMMA TextDecodes ==
  ASSUME NEW o \in Contents, NEW j \in Foreign, Len(o) = size
  PROVE  SubSeq(DecodedBytes(Encode(o \o j, Header + size)), 1, size) = o
<1> DEFINE e == o \o SubSeq(j, 1, Header)
           b == o \o j
           n == Len(e)
           d == [p \in 1..(3 * PackedSize(n)) |-> ByteAt(e, n, p - 1)]
<1>1. /\ e \in Seq(Byte) /\ n = Header + size /\ size \in Nat
      /\ \A i \in 1..n : b[i] = e[i]
      /\ \A i \in 1..size : e[i] = o[i]
  BY EncoderInput
<1>2. Encode(b, n) = Chars(e) /\ DecodedBytes(Chars(e)) = d
  <2> HIDE DEF e, b
  <2> QED
    BY <1>1, EncodesChars, DecodesChars
<1>3. n \in Nat /\ size <= n
  <2> HIDE DEF n
  <2> QED
    BY <1>1 DEF Header
<1>4. PackedSize(n) \in Nat /\ n <= 3 * PackedSize(n)
  <2> HIDE DEF n
  <2> QED
    BY <1>3, Lengths
<1>5. \A i \in 1..size : d[i] = o[i]
  <2> SUFFICES ASSUME NEW i \in 1..size PROVE d[i] = o[i]
    OBVIOUS
  <2>1. i \in 1..(3 * PackedSize(n)) /\ i - 1 < n /\ (i - 1) + 1 = i
    <3> HIDE DEF n
    <3> QED
      BY <1>1, <1>3, <1>4
  <2>2. d[i] = ByteAt(e, n, i - 1)
    BY <2>1
  <2>3. ByteAt(e, n, i - 1) = e[i]
    <3> HIDE DEF e, n
    <3> QED
      BY <2>1 DEF ByteAt
  <2> QED
    BY <1>1, <2>2, <2>3
<1>6. o \in Seq(Byte) /\ Len(o) = size
  BY RuntimeAssumption
<1>7. d \in Seq(Byte) /\ Len(d) = 3 * PackedSize(n)
  <2>1. \A p \in 1..(3 * PackedSize(n)) : ByteAt(e, n, p - 1) \in Byte
    <3> SUFFICES ASSUME NEW p \in 1..(3 * PackedSize(n)) PROVE ByteAt(e, n, p - 1) \in Byte
      OBVIOUS
    <3>1. p - 1 \in Nat
      <4> HIDE DEF n
      <4> QED
        BY <1>4
    <3> QED
      BY <1>1, <3>1, BitOf
  <2>2. d \in [1..(3 * PackedSize(n)) -> Byte]
    <3> HIDE DEF n, e, Byte
    <3> QED
      BY <2>1
  <2> HIDE DEF d, n, Byte
  <2> QED
    BY <1>4, <2>2
<1> HIDE DEF d, n
<1>8. SubSeq(d, 1, size) \in Seq(Byte) /\ Len(SubSeq(d, 1, size)) = size
      /\ \A i \in 1..size : SubSeq(d, 1, size)[i] = d[i]
  <2>1. size <= Len(d)
    BY <1>1, <1>3, <1>4, <1>7
  <2> HIDE DEF Byte
  <2> QED
    BY <1>1, <1>7, <2>1
<1>9. SubSeq(d, 1, size) = o
  <2> DEFINE f == SubSeq(d, 1, size)
  <2>1. f \in Seq(Byte) /\ o \in Seq(Byte) /\ Len(f) = Len(o) /\ \A i \in 1..Len(o) : f[i] = o[i]
    BY <1>5, <1>6, <1>8
  <2> HIDE DEF f, Byte
  <2>2. f = o
    BY <2>1
  <2> QED
    BY <2>2 DEF f
<1> QED
  BY <1>1, <1>2, <1>9 DEF n

(* Every step keeps it.                                                     *)
LEMMA TextStep ==
  ASSUME TextInvariant, [RNext]_rvars
  PROVE  TextInvariant'
<1>1. CASE UNCHANGED rvars
  BY <1>1 DEF TextInvariant, TextIsEncoded, DecodedIsEncoded, rvars, client
<1>2. ASSUME NEW o \in Contents, Len(o) = size, SaveOpens(o) PROVE TextInvariant'
  BY <1>2 DEF TextInvariant, TextIsEncoded, DecodedIsEncoded, SaveOpens
<1>3. ASSUME NEW o \in Contents, Len(o) = size, ToText(o) PROVE TextInvariant'
  BY <1>3 DEF TextInvariant, TextIsEncoded, DecodedIsEncoded, ToText
<1>4. CASE \/ SaveCannotOpen \/ SaveSerializes \/ SaveSerializerFails
           \/ SaveWrites \/ SaveWriteFails
           \/ SaveFreesForeign \/ SaveReturns \/ SaveFlushFails
           \/ LoadNoMemory \/ LoadReadsBeyond \/ ToTextFails \/ ToTextNoMemory \/ FromTextNoMemory
  <2>1. UNCHANGED <<size, client>>
    BY <1>4 DEF SaveCannotOpen, SaveSerializes, SaveSerializerFails, SaveWrites, SaveWriteFails,
      SaveFreesForeign, SaveReturns, SaveFlushFails, LoadNoMemory, LoadReadsBeyond, ToTextFails,
      ToTextNoMemory, FromTextNoMemory
  <2> QED
    BY <2>1 DEF TextInvariant, TextIsEncoded, DecodedIsEncoded, client
<1>5. CASE LoadCannotOpen \/ LoadReturns \/ LoadDeserializerFails
  <2>1. UNCHANGED <<size, text>> /\ got'.by # "decode"
    BY <1>5 DEF LoadCannotOpen, LoadReturns, LoadDeserializerFails, Give
  <2> QED
    BY <2>1 DEF TextInvariant, TextIsEncoded, DecodedIsEncoded
<1>6. CASE FromText
  <2>1. UNCHANGED <<size, text>> /\ text # None
    BY <1>6 DEF FromText
  <2>2. PICK o \in Contents, j \in Foreign :
          Len(o) = size /\ text = [chars |-> Encode(o \o j, Header + size), of |-> o]
    BY <2>1 DEF TextInvariant, TextIsEncoded
  <2>3. SubSeq(DecodedBytes(text.chars), 1, size) = text.of
    BY <2>2, TextDecodes
  <2>4. got'.value \in {SubSeq(DecodedBytes(text.chars), 1, size), NULL}
    <3>1. \/ Give("decode", SubSeq(DecodedBytes(text.chars), 1, size)) \/ Give("decode", NULL)
      BY <1>6 DEF FromText
    <3> QED
      BY <3>1 DEF Give
  <2> QED
    BY <2>1, <2>3, <2>4 DEF TextInvariant, TextIsEncoded, DecodedIsEncoded
<1>7. CASE FromTextFails
  BY <1>7 DEF TextInvariant, TextIsEncoded, DecodedIsEncoded, FromTextFails, Give
<1>8. CASE Crash \/ ExitProcess
  BY <1>8 DEF TextInvariant, TextIsEncoded, DecodedIsEncoded, Crash, ExitProcess, NewProcess
<1> QED
  BY <1>1, <1>2, <1>3, <1>4, <1>5, <1>6, <1>7, <1>8 DEF RNext

(* For objects of any contents of fewer than 200 bytes, and whatever lies   *)
(* behind the serializer's block, the text is the Base64 text of RFC 4648   *)
(* of the fields and eight bytes more, and decoding it gives the fields or  *)
(* NULL.                                                                    *)
THEOREM TextsRoundTrip == RSpec => []Base64RoundTrip
<1>1. RInit => TextInvariant
  BY DEF RInit, TextInvariant, TextIsEncoded, DecodedIsEncoded
<1>2. TextInvariant /\ [RNext]_rvars => TextInvariant'
  BY TextStep
<1>3. TextInvariant => Base64RoundTrip
  <2> SUFFICES ASSUME TextInvariant, text # None PROVE Base64RoundTrip
    BY DEF Base64RoundTrip
  <2>1. PICK o \in Contents, j \in Foreign :
          Len(o) = size /\ text = [chars |-> Encode(o \o j, Header + size), of |-> o]
    BY DEF TextInvariant, TextIsEncoded
  <2>2. text.chars = Rfc4648(text.of \o SubSeq(j, 1, Header))
    BY <2>1, TextIsBase64
  <2> QED
    BY <2>2 DEF TextInvariant, DecodedIsEncoded, Base64RoundTrip
<1> QED
  BY <1>1, <1>2, <1>3, PTL DEF RSpec
=============================================================================
