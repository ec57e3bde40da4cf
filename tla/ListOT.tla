------------------------------- MODULE ListOT -------------------------------
(***************************************************************************)
(* The JSON OT functions of the root package on one JSON array of simple   *)
(* values: operations are sequences of list-insert ("li"), list-delete     *)
(* ("ld") and no-op components whose path is one array index.  Indices are *)
(* 0-based, as in the code; documents are TLA+ sequences.                  *)
(***************************************************************************)
EXTENDS Integers, Sequences, FiniteSets, SequencesExt

Insert(i, v) == [kind |-> "li", index |-> i, val |-> v]
Delete(i, v) == [kind |-> "ld", index |-> i, val |-> v]

NoOperation == <<>>
IsEmpty(op) == op = NoOperation

-----------------------------------------------------------------------------
(* Apply *)

\* Where a deletion of v addressed to index i takes place: at i when v is
\* there, else at the only other place that holds v, else at i all the same.
IndexFunc(arr, v, i) ==
  LET found == { k \in DOMAIN arr : arr[k] = v }
  IN  IF i < Len(arr) /\ arr[i + 1] = v THEN i
      ELSE IF Cardinality(found) = 1 THEN (CHOOSE k \in found : TRUE) - 1
      ELSE i

ApplyListDelete(arr, c) ==
  LET i == IndexFunc(arr, c.val, c.index)
  IN  IF i < Len(arr) THEN RemoveAt(arr, i + 1) ELSE arr

ApplyListInsert(arr, c) ==
  IF c.index > Len(arr) THEN Append(arr, c.val)
  ELSE InsertAt(arr, c.index + 1, c.val)

ApplyComponent(arr, c) ==
  IF c.index < 0 \/ c.kind = "noop" THEN arr
  ELSE IF c.kind = "li" THEN ApplyListInsert(arr, c)
  ELSE ApplyListDelete(arr, c)

Apply(arr, op) == FoldLeft(ApplyComponent, arr, op)

-----------------------------------------------------------------------------
(* Transform *)

Shift(c, by) == [c EXCEPT !.index = @ + by]

\* Mutant: an insertion moves only what was behind it.
TransformComponentForListInsert_Behind(new, base, side) ==
  IF new.kind = "li" /\ new.index = base.index
  THEN <<IF side = "right" THEN Shift(new, 1) ELSE new>>
  ELSE <<IF base.index < new.index THEN Shift(new, 1) ELSE new>>

TransformComponentForListInsert(new, base, side) ==
  IF new.kind = "li" /\ new.index = base.index
  THEN <<IF side = "right" THEN Shift(new, 1) ELSE new>>
  ELSE <<IF base.index <= new.index THEN Shift(new, 1) ELSE new>>

TransformComponentForListDelete(new, base) ==
  IF base.index < new.index THEN <<Shift(new, -1)>>
  ELSE IF base.index = new.index /\ new.kind = "ld" THEN <<>>
  ELSE <<new>>

TransformComponent(new, base, side) ==
  IF "noop" \in {new.kind, base.kind} THEN <<new>>
  ELSE IF base.kind = "li" THEN TransformComponentForListInsert(new, base, side)
  ELSE TransformComponentForListDelete(new, base)

\* What is left of component c once it was transformed in place to cs.
InPlace(c, cs) == IF cs = <<>> THEN c ELSE Head(cs)

\* More than one component on either side.  TransformMulti stops after the
\* first component of op, because no transformed component splits in two, and
\* hands back base's component; so what TransformMatrix returns for op are
\* base's components, the first of them shifted over op's first component.
TransformMatrix(op, base) ==
  IF IsEmpty(op) THEN op
  ELSE LET left  == InPlace(op[1], TransformComponent(op[1], base[1], "left"))
           right == TransformComponent(base[1], left, "right")
       IN  <<InPlace(base[1], right)>> \o Tail(base)

\* The submitted side of Transformer.Transform, the one Submit keeps.
Transform(op, base) ==
  IF IsEmpty(base) THEN op
  ELSE IF Len(op) = 1 /\ Len(base) = 1
  THEN TransformComponent(op[1], base[1], "left")
  ELSE TransformMatrix(op, base)

-----------------------------------------------------------------------------
(* Compose and invert *)

\* The one component that stands for c followed by d at the same index, as a
\* sequence that is empty when there is none.
Merge(c, d) ==
  IF c.kind = "noop" \/ (c.kind = "li" /\ d.kind = "ld" /\ c.val = d.val)
  THEN <<[c EXCEPT !.kind = "noop"]>>
  ELSE <<>>

AppendComponent(op, c) ==
  IF IsEmpty(op) \/ Last(op).index # c.index THEN Append(op, c)
  ELSE LET merged == Merge(Last(op), c)
       IN  IF merged = <<>> THEN Append(op, c) ELSE Front(op) \o merged

Compose(op, other) == FoldLeft(AppendComponent, op, other)

InvertComponent(c) ==
  [c EXCEPT !.kind = CASE c.kind = "li"   -> "ld"
                       [] c.kind = "ld"   -> "li"
                       [] c.kind = "noop" -> "noop"]

Invert(op) ==
  FoldLeft(LAMBDA inv, c : AppendComponent(inv, InvertComponent(c)),
           NoOperation, Reverse(op))
=============================================================================
