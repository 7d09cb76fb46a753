---------------------------- MODULE FieldContract ----------------------------
(***************************************************************************)
(* What a client of a generated struct is promised, with no memory in it:  *)
(* an object is one array per field, a call that returns true has done the *)
(* whole of its work with what it was passed, and a call that returns      *)
(* false has done nothing (README.md 40-41).                               *)
(***************************************************************************)
EXTENDS Integers

CONSTANTS
  Field, Mutable,    \* the fields, and those declared mutable
  Value, Uninit,     \* what a cell holds; Uninit after it was added by a resize
  ArrayLen, ResizeLen, Index,  \* lengths, counts and indices that are passed
  ItemSettable,      \* the fields whose items may be set
  MayFail,           \* TRUE if memory may run out
  Absent,            \* there is no object
  NoField, NoValue   \* as in the call records

VARIABLES val, res

vars == <<val, res>>

Cell == Value \cup {Uninit}
Array == UNION {[0..(n - 1) -> Value] : n \in ArrayLen}
Empty == [i \in 0..(-1) |-> Uninit]

(* The answer to a call that was passed arg.  An argument that did nothing  *)
(* is not kept.                                                             *)
Responds(fn, f, arg, ok, out) ==
  res' = [fn |-> fn, field |-> f, arg |-> IF ok THEN arg ELSE NoValue,
          ok |-> ok, out |-> out]

Returns(fn, f, ok, out) == Responds(fn, f, NoValue, ok, out)
Fails(fn, f) == UNCHANGED val /\ Returns(fn, f, FALSE, NoValue)

Exists == val # Absent

(* The object has the arrays that were passed.                              *)
Create ==
  /\ ~Exists
  /\ \/ \E in \in [Field \ Mutable -> Array] :
          /\ val' = [f \in Field |-> IF f \in Mutable THEN Empty ELSE in[f]]
          /\ Responds("create", NoField, [arrays |-> in], TRUE, NoValue)
     \/ MayFail /\ Fails("create", NoField)

Destroy == Exists /\ val' = Absent /\ Returns("destroy", NoField, TRUE, NoValue)

FreeCopy == UNCHANGED val /\ Returns("free_copy", NoField, TRUE, NoValue)

OnNull(f) ==
  /\ ~Exists
  /\ \E fn \in {"set", "set_item", "set_count"} : Fails(fn, f)

Get(f) ==
  /\ Exists
  /\ \/ UNCHANGED val /\ Returns("get", f, TRUE, NoValue)
     \/ MayFail /\ f \notin Mutable /\ Fails("get", f)

GetItem(f, i) ==
  /\ Exists
  /\ IF i \in DOMAIN val[f]
       THEN UNCHANGED val /\ Responds("get_item", f, [idx |-> i], TRUE, val[f][i])
       ELSE Fails("get_item", f)

(* The field has the array that was passed.                                 *)
Set(f) ==
  /\ Exists /\ f \in Mutable
  /\ \/ \E new \in Array : /\ val' = [val EXCEPT ![f] = new]
                           /\ Responds("set", f, [array |-> new], TRUE, NoValue)
     \/ MayFail /\ Fails("set", f)

SetItem(f, i, v) ==
  /\ Exists /\ f \in ItemSettable
  /\ IF i \in DOMAIN val[f]
       THEN /\ val' = [val EXCEPT ![f][i] = v]
            /\ Responds("set_item", f, [idx |-> i, val |-> v], TRUE, NoValue)
       ELSE Fails("set_item", f)

(* The first n elements stay; elements that are new have no defined value.  *)
SetCount(f, n) ==
  /\ Exists /\ f \in Mutable
  /\ \/ /\ n # 0
        /\ \E new \in [0..(n - 1) -> Cell] :
             /\ \A i \in DOMAIN new \cap DOMAIN val[f] : new[i] = val[f][i]
             /\ val' = [val EXCEPT ![f] = new]
        /\ Responds("set_count", f, [count |-> n], TRUE, NoValue)
     \/ (MayFail \/ n = 0) /\ Fails("set_count", f)

Init ==
  /\ val = Absent
  /\ res = [fn |-> "none", field |-> NoField, arg |-> NoValue,
            ok |-> TRUE, out |-> NoValue]

Next ==
  \/ Create \/ Destroy \/ FreeCopy
  \/ \E f \in Field : OnNull(f) \/ Get(f) \/ Set(f)
  \/ \E f \in Field, i \in Index : GetItem(f, i) \/ \E v \in Value : SetItem(f, i, v)
  \/ \E f \in Field, n \in ResizeLen : SetCount(f, n)

Spec == Init /\ [][Next]_vars
=============================================================================
