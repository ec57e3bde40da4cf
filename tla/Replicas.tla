------------------------------ MODULE Replicas ------------------------------
(***************************************************************************)
(* Two parties edit copies of one document with the operations of JsonOT.  *)
(* Either "left" goes on alone, and what it did is composed, undone and    *)
(* compared; or each makes one component and they exchange them: each      *)
(* applies what Transform leaves of the other's.                           *)
(*                                                                         *)
(* The properties hold of every pair of kinds of component but for the     *)
(* exceptions named below, where the code does something else.             *)
(***************************************************************************)
EXTENDS JsonOT

FlatList == INSTANCE ListOT

CONSTANTS
  Docs,       \* the documents the parties start from
  Fresh,      \* the values they insert
  Strings,    \* the strings they insert into texts
  Keys,       \* the keys of objects
  MaxEdits    \* bound on the components of "left" alone

Sides == {"left", "right"}
Other(s) == IF s = "left" THEN "right" ELSE "left"

VARIABLES
  base,       \* the common document
  doc,        \* side |-> its copy
  edits,      \* side |-> the components it made, in order
  taken       \* side |-> the transformed operation it applied, or Waiting
vars == <<base, doc, edits, taken>>

Waiting == <<Err>>

-----------------------------------------------------------------------------
(* The components a party can make on its document: every position, with   *)
(* the value that is there for what it deletes or replaces.  Numbers and   *)
(* texts are edited where they have a key: an element of a list takes no   *)
(* subtype.                                                                *)

RECURSIVE Nodes(_, _)
Nodes(v, p) ==
  {[path |-> p, value |-> v]}
  \cup (IF IsArr(v) THEN UNION {Nodes(v.arr[i], Append(p, Index(i - 1))) : i \in DOMAIN v.arr}
        ELSE IF IsObj(v) THEN UNION {Nodes(v.obj[k], Append(p, Key(k))) : k \in DOMAIN v.obj}
        ELSE {})

ListEdits(p, arr) ==
  LET Place(i) == Append(p, Index(i - 1))
  IN  {ListInsert(Place(i), v) : i \in 1..(Len(arr) + 1), v \in Fresh}
      \cup {ListDelete(Place(i), arr[i]) : i \in DOMAIN arr}
      \cup {ListReplace(Place(i), v, arr[i]) : i \in DOMAIN arr, v \in Fresh}
      \cup {ListMove(Place(i), j - 1) : i \in DOMAIN arr, j \in DOMAIN arr}

ObjectEdits(p, o) ==
  LET Place(k) == Append(p, Key(k))
  IN  {ObjectInsert(Place(k), v) : k \in Keys \ DOMAIN o, v \in Fresh}
      \cup {ObjectDelete(Place(k), o[k]) : k \in DOMAIN o}
      \cup {ObjectReplace(Place(k), v, o[k]) : k \in DOMAIN o, v \in Fresh}

TextEdits(p, s) ==
  {Text(p, t, shared) : shared \in BOOLEAN, t \in
           {InsertText(i, u) : i \in 0..Len(s), u \in Strings}
           \cup {DeleteText(i - 1, SubSeq(s, i, j)) : i \in DOMAIN s, j \in DOMAIN s}}

NodeEdits(n) ==
  IF IsArr(n.value) THEN ListEdits(n.path, n.value.arr)
  ELSE IF IsObj(n.value) THEN ObjectEdits(n.path, n.value.obj)
  ELSE IF ~HasKeyPath(n.path) THEN {}
  ELSE IF IsNum(n.value) THEN {NumberAdd(n.path, 1, FALSE), NumberAdd(n.path, -2, FALSE)}
  ELSE IF IsStr(n.value) THEN TextEdits(n.path, n.value.str)
  ELSE {}

Edits(v) == UNION {NodeEdits(n) : n \in Nodes(v, <<>>)}

-----------------------------------------------------------------------------
Init ==
  /\ base \in Docs
  /\ doc = [s \in Sides |-> base]
  /\ edits = [s \in Sides |-> <<>>]
  /\ taken = [s \in Sides |-> Waiting]

\* "left" makes up to MaxEdits components alone, "right" one to its one.
MayEdit(s) ==
  IF s = "left" THEN edits["right"] = <<>> /\ Len(edits["left"]) < MaxEdits
  ELSE edits["right"] = <<>> /\ Len(edits["left"]) = 1

Edit(s) ==
  /\ MayEdit(s)
  /\ \E c \in Edits(doc[s]) :
       /\ Apply(doc[s], <<c>>) # Err
       /\ doc' = [doc EXCEPT ![s] = Apply(@, <<c>>)]
       /\ edits' = [edits EXCEPT ![s] = Append(@, c)]
  /\ UNCHANGED <<base, taken>>

\* What side s applies of the other's component.
Rebased(s) == TransformComponent(edits[Other(s)][1], edits[s][1], Other(s))

Exchanged == taken["left"] # Waiting

Exchange ==
  /\ edits["right"] # <<>> /\ ~Exchanged
  /\ taken' = [s \in Sides |-> Rebased(s)]
  /\ doc' = [s \in Sides |-> Apply(doc[s], Rebased(s))]
  /\ UNCHANGED <<base, edits>>

Next == Exchange \/ \E s \in Sides : Edit(s)

Spec == Init /\ [][Next]_vars

-----------------------------------------------------------------------------
(* Exceptions *)

\* The first element of a list is never replaced and never moved.
FromFirst(c) == c.kind \in {"lr", "lm"} /\ Last(c.path).index = 0

\* What was moved to the first place cannot be moved back.
ToFirst(c) == c.kind = "lm" /\ c.to = 0

\* Null counts as missing, in a document and in the fields of a component.
OfNull(c) == \E f \in {"old", "new"} \cap DOMAIN c : c[f] = Null
ReplacesNull(c) == c.kind = "lr" /\ OfNull(c)

\* A deletion in a text is found at offset 0 only, and so is an insertion by
\* what undoes it.
InText(c) == c.kind = "text" /\ c.operand.p # 0

IsNoop(c) == c.kind = "noop"

\* Additions to one number that were merged: the sum is refused until it was
\* written and read back.
IsSum(c) == c.kind = "na" /\ c.built

\* A component that makes no difference is not transformed (transform.go:166):
\* it may hit what the other party put in its place.
MakesNoDifference(c) == IsEquivalentToNoop(c)

SamePlace == edits["left"][1].path = edits["right"][1].path
Kinds == <<edits["left"][1].kind, edits["right"][1].kind>>

\* Text over text is not transformed when it was parsed, and transformed to
\* the wrong offset when it was not.
OnOneText == SamePlace /\ Kinds = <<"text", "text">>

\* One deletes a key, the other replaces its value: left's deletion is
\* dropped and so is right's replacement.
DeletedAndReplaced == SamePlace /\ Kinds = <<"od", "or">>

\* What deletes or replaces the very value that a subtype changed keeps the
\* old value it was made with.
StaleOldValue ==
  SamePlace /\ \E s \in Sides : /\ edits[s][1].kind \in {"od", "or"}
                                /\ IsSubType(edits[Other(s)][1])

Made == Range(edits["left"]) \cup Range(edits["right"])
Applied == Made \cup Range(taken["left"]) \cup Range(taken["right"])

-----------------------------------------------------------------------------
(* Properties *)

\* Transform (transform.go:62-95) brings two parties that each made one
\* component to the same document, whatever the two kinds and wherever in the
\* tree they meet.
Converges ==
  Exchanged /\ ~OnOneText /\ ~DeletedAndReplaced
    /\ (\A c \in Made : ~MakesNoDifference(c))
    /\ (\A c \in Applied : ~FromFirst(c) /\ ~ReplacesNull(c))
  => doc["left"] = doc["right"] /\ doc["left"] # Err

\* Compose (operation.go:378-384) merges components at one path without
\* changing what the operation does: in memory unless it merged additions, and
\* written and read back.
ComposedIsSequence ==
  LET op    == Compose(<<>>, edits["left"])
      parts == Range(op) \cup Range(edits["left"])
  IN  ~Exchanged /\ (\A c \in parts : ~IsNoop(c) /\ ~FromFirst(c) /\ ~ReplacesNull(c)) =>
        /\ Apply(base, op) = IF \E c \in Range(op) : IsSum(c) THEN Err ELSE doc["left"]
        /\ (\A c \in parts : ~OfNull(c)) => Apply(base, Parsed(op)) = doc["left"]

\* The inverse of an operation (Invert, operation.go:108-138), written and
\* read back as Rollback does, takes its document back.
UndoRestores ==
  LET op == Invert(edits["left"])
  IN  ~Exchanged /\ (\A c \in Range(edits["left"]) : CanInvert(c))
        /\ (\A c \in Range(op) \cup Range(edits["left"]) :
              ~IsNoop(c) /\ ~InText(c) /\ ~FromFirst(c) /\ ~ToFirst(c) /\ ~OfNull(c))
      => Apply(doc["left"], Parsed(op)) = base

\* An operation that was transformed can still be undone: the old values its
\* components carry are the ones the other party left behind ("new_op should
\* contain base_op's effect", transform.go:184).
RebasedUndoRestores ==
  Exchanged /\ ~OnOneText /\ ~StaleOldValue
    /\ (\A c \in Made : ~MakesNoDifference(c))
    /\ (\A c \in Applied : ~InText(c) /\ ~FromFirst(c) /\ ~ToFirst(c) /\ ~OfNull(c))
  => \A s \in Sides : Apply(doc[s], Parsed(Invert(taken[s]))) = Apply(base, edits[s])

\* Diff (diff.go:10-17) leads from any document to any other.
DiffReaches ==
  \A d \in Docs :
    LET op == Diff(d, doc["left"])
    IN  ~Exchanged /\ (\A c \in Range(op) : ~FromFirst(c) /\ ~ReplacesNull(c))
        => Apply(d, op) = doc["left"]

-----------------------------------------------------------------------------
(* ListOT, the reduction of JsonOT to one list of simple values on which    *)
(* the server is modelled.                                                  *)

IsFlat(c) == c.kind \in {"li", "ld"} /\ Len(c.path) = 1

\* One component as ListOT has it, and an operation of ListOT's as JsonOT does.
Flatten(c) ==
  IF c.kind = "li" THEN FlatList!Insert(c.path[1].index, c.new)
  ELSE FlatList!Delete(c.path[1].index, c.old)
FlattenAll(op) == [k \in DOMAIN op |-> Flatten(op[k])]
Lift(op) ==
  [k \in DOMAIN op |->
     LET p == <<Index(op[k].index)>>
     IN  CASE op[k].kind = "li"   -> ListInsert(p, op[k].val)
           [] op[k].kind = "ld"   -> ListDelete(p, op[k].val)
           [] op[k].kind = "noop" -> Noop(p)]

OnFlatList ==
  /\ IsArr(base) /\ \A i \in DOMAIN base.arr : IsSimpleValue(base.arr[i])
  /\ \A c \in Made : IsFlat(c) /\ \A f \in {"old", "new"} \cap DOMAIN c : IsSimpleValue(c[f])

\* On such a list ListOT applies, composes, inverts and transforms as JsonOT.
ListOTAgrees ==
  OnFlatList =>
    LET op   == edits["left"]
        flat == FlattenAll(op)
    IN  /\ ~Exchanged => Arr(FlatList!Apply(base.arr, flat)) = doc["left"]
        /\ Lift(FlatList!Compose(<<>>, flat)) = Compose(<<>>, op)
        /\ Lift(FlatList!Invert(flat)) = Invert(op)
        /\ Exchanged =>
             Lift(FlatList!Transform(flat, FlattenAll(edits["right"]))) = taken["right"]
=============================================================================
