------------------------------- MODULE TextOT -------------------------------
(***************************************************************************)
(* The text subtype.  A text is a sequence of characters; an operand is an *)
(* insertion [p, i] or a deletion [p, d] of a string at offset p.  Offsets *)
(* count from 0.                                                           *)
(***************************************************************************)
EXTENDS Integers, Sequences

InsertText(p, s) == [p |-> p, i |-> s]
DeleteText(p, s) == [p |-> p, d |-> s]
IsInsert(t) == "i" \in DOMAIN t

InvertText(t) == IF IsInsert(t) THEN DeleteText(t.p, t.i) ELSE InsertText(t.p, t.d)

SubString(s, start, end) ==
  IF start < 0 \/ end < 0 \/ start >= Len(s) THEN <<>>
  ELSE SubSeq(s, start + 1, IF end > Len(s) THEN Len(s) ELSE end)

\* s with t inserted at offset at, or at its end.
Splice(s, at, t) == SubString(s, 0, at) \o t \o SubString(s, at, Len(s))

-----------------------------------------------------------------------------
(* Apply.  The string a deletion is checked against ends at offset         *)
(* Len(t.d), not at t.p + Len(t.d): a deletion at any offset but 0 fails,  *)
(* with an error or by slicing backwards.                                  *)

Deletable(s, t) ==
  /\ t.p <= Len(t.d) \/ t.p >= Len(s)
  /\ SubString(s, t.p, Len(t.d)) = t.d

CanApplyText(s, t) == IsInsert(t) \/ Deletable(s, t)

ApplyText(s, t) ==
  IF IsInsert(t) THEN Splice(s, t.p, t.i)
  ELSE SubString(s, 0, t.p) \o SubString(s, t.p + Len(t.d), Len(s))

-----------------------------------------------------------------------------
(* Merge: the one operand that stands for t followed by u, in a sequence   *)
(* that is empty when there is none.                                       *)

Touches(inner, outer, s) == outer <= inner /\ inner <= outer + Len(s)

MergeText(t, u) ==
  IF IsInsert(t) /\ IsInsert(u) /\ Touches(u.p, t.p, t.i)
  THEN <<InsertText(t.p, Splice(t.i, u.p - t.p, u.i))>>
  ELSE IF ~IsInsert(t) /\ ~IsInsert(u) /\ Touches(t.p, u.p, u.d)
  THEN <<DeleteText(u.p, Splice(u.d, t.p - u.p, t.d))>>
  ELSE <<>>

-----------------------------------------------------------------------------
(* Transform *)

\* Where offset pos goes once t is applied.  An offset behind an insertion
\* goes to the insertion's end.
TransformPosition(t, pos, insertAfter) ==
  IF IsInsert(t)
  THEN IF t.p < pos \/ (t.p = pos /\ insertAfter) THEN t.p + Len(t.i) ELSE pos
  ELSE IF pos <= t.p THEN pos
  ELSE IF pos <= t.p + Len(t.d) THEN t.p
  ELSE pos - Len(t.d)

\* A deletion over an insertion: the part before the insertion and the part
\* behind it.  A deletion that starts behind the insertion is lost.
DeleteOverInsert(new, base) ==
  LET gap  == base.p - new.p
      rest == SubString(new.d, gap, Len(new.d))
  IN  (IF gap > 0 THEN <<DeleteText(new.p, SubString(new.d, 0, gap))>> ELSE <<>>)
      \o (IF rest # <<>> THEN <<DeleteText(new.p + Len(base.i), rest)>> ELSE <<>>)

\* A deletion over a deletion; the code takes the length of new's own string
\* for that of base's.
DeleteOverDelete(new, base) ==
  LET n    == Len(new.d)
      kept == SubString(new.d, 0, base.p - new.p)
              \o (IF new.p > base.p THEN SubString(new.d, base.p + n - new.p, n) ELSE <<>>)
  IN  IF new.p >= base.p + n THEN <<DeleteText(new.p - n, new.d)>>
      ELSE IF new.p + n <= base.p THEN <<new>>
      ELSE IF kept = <<>> THEN <<>>
      ELSE <<DeleteText(TransformPosition(new, new.p, FALSE), kept)>>

TransformText(new, base, side) ==
  IF IsInsert(new) THEN <<InsertText(TransformPosition(base, new.p, side = "right"), new.i)>>
  ELSE IF IsInsert(base) THEN DeleteOverInsert(new, base)
  ELSE DeleteOverDelete(new, base)
=============================================================================
