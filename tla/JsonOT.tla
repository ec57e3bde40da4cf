------------------------------- MODULE JsonOT -------------------------------
(***************************************************************************)
(* The JSON operational transformation of the root package: values, paths, *)
(* the components of an operation, and how they are applied, transformed   *)
(* against one another, composed, inverted, written and read back.         *)
(*                                                                         *)
(* Values are mathematical values: what two nodes share in memory and the  *)
(* order of an object's keys are left out.                                 *)
(***************************************************************************)
EXTENDS TextOT, FiniteSets, SequencesExt

-----------------------------------------------------------------------------
(* Values *)

Null == [null |-> TRUE]
Num(n) == [num |-> n]
Str(s) == [str |-> s]
Arr(e) == [arr |-> e]
Obj(f) == [obj |-> f]

IsNull(v) == "null" \in DOMAIN v
IsNum(v) == "num" \in DOMAIN v
IsStr(v) == "str" \in DOMAIN v
IsArr(v) == "arr" \in DOMAIN v
IsObj(v) == "obj" \in DOMAIN v
IsSimpleValue(v) == IsNull(v) \/ IsNum(v) \/ IsStr(v)

\* What a call returns that fails or panics.
Err == [err |-> TRUE]

SetKey(o, k, v) ==
  Obj([j \in DOMAIN o.obj \cup {k} |-> IF j = k THEN v ELSE o.obj[j]])
DeleteKey(o, k) == Obj([j \in DOMAIN o.obj \ {k} |-> o.obj[j]])

-----------------------------------------------------------------------------
(* Paths: sequences of keys and of indices.  An index element has the key  *)
(* "", a key element the index 0.                                          *)

Key(k) == [key |-> k, index |-> 0]
Index(i) == [key |-> "", index |-> i]

\* Elements are compared by key when either has one.
SameElement(a, b) ==
  IF a.key # "" \/ b.key # "" THEN a.key = b.key ELSE a.index = b.index

IsPrefixOf(p, q) ==
  Len(p) <= Len(q) /\ \A k \in DOMAIN p : SameElement(p[k], q[k])

MaxCommonPath(p, q) == LongestCommonPrefix({p, q})

\* The index at 0-based position k moved by one.
IncreaseIndex(p, k) == IF k < Len(p) THEN [p EXCEPT ![k + 1].index = @ + 1] ELSE p
DecreaseIndex(p, k) ==
  IF k < Len(p) /\ p[k + 1].index > 0 THEN [p EXCEPT ![k + 1].index = @ - 1] ELSE p

-----------------------------------------------------------------------------
(* Components: a path and an operator *)

Noop(p) == [path |-> p, kind |-> "noop"]
ListInsert(p, v) == [path |-> p, kind |-> "li", new |-> v]
ListDelete(p, v) == [path |-> p, kind |-> "ld", old |-> v]
ListReplace(p, v, w) == [path |-> p, kind |-> "lr", new |-> v, old |-> w]
ListMove(p, i) == [path |-> p, kind |-> "lm", to |-> i]
ObjectInsert(p, v) == [path |-> p, kind |-> "oi", new |-> v]
ObjectDelete(p, v) == [path |-> p, kind |-> "od", old |-> v]
ObjectReplace(p, v, w) == [path |-> p, kind |-> "or", new |-> v, old |-> w]
\* A number that the code computed for an operand is no JSON number before the
\* operand was written and read back.
NumberAdd(p, n, built) == [path |-> p, kind |-> "na", by |-> n, built |-> built]
\* Two text components are of the same subtype object only when both were
\* built in this process; each parsed one has an object of its own.
Text(p, t, shared) == [path |-> p, kind |-> "text", operand |-> t, shared |-> shared]

IsSubType(c) == c.kind \in {"na", "text"}
OperatePathLen(c) == IF IsSubType(c) THEN Len(c.path) ELSE Len(c.path) - 1

Validates(c) ==
  IF c.kind = "lm" THEN c.path # <<>> /\ c.to >= 0 ELSE TRUE

-----------------------------------------------------------------------------
(* Apply *)

\* What stands in for a missing value that c is applied inside of.
DefaultFor(c) ==
  IF c.kind \in {"oi", "od", "or"} THEN Obj(<<>>)
  ELSE IF c.kind \in {"li", "ld", "lr", "lm"} THEN Arr(<<>>)
  ELSE Null

\* The value at path p; the rest of the path is not looked at where it meets
\* a missing one.
RECURSIVE RouteGet(_, _, _)
RouteGet(v, p, c) ==
  IF IsArr(v)
  THEN LET i == Head(p).index + 1
       IN  IF i > Len(v.arr) \/ IsNull(v.arr[i]) THEN DefaultFor(c)
           ELSE IF Len(p) = 1 THEN v.arr[i]
           ELSE RouteGet(v.arr[i], Tail(p), c)
  ELSE IF IsObj(v)
  THEN LET k == Head(p).key
       IN  IF k \notin DOMAIN v.obj THEN DefaultFor(c)
           ELSE IF Len(p) = 1 THEN v.obj[k]
           ELSE RouteGet(v.obj[k], Tail(p), c)
  ELSE Err

RECURSIVE RouteSet(_, _, _)
RouteSet(v, p, w) ==
  IF IsArr(v)
  THEN LET i     == Head(p).index + 1
           child == IF i > Len(v.arr) THEN Err
                    ELSE IF Len(p) = 1 THEN w
                    ELSE RouteSet(v.arr[i], Tail(p), w)
       IN  IF child = Err THEN Err ELSE Arr([v.arr EXCEPT ![i] = child])
  ELSE IF IsObj(v)
  THEN LET k     == Head(p).key
           node  == IF k \in DOMAIN v.obj THEN v.obj[k] ELSE Obj(<<>>)
           child == IF Len(p) = 1 THEN w ELSE RouteSet(node, Tail(p), w)
       IN  IF child = Err THEN Err ELSE SetKey(v, k, child)
  ELSE Err

\* Where an operator that names value v is applied: at index i if v is there,
\* else at the only other place of the simple value v, else at i all the same.
IndexFunc(arr, v, i) ==
  LET found == {k \in DOMAIN arr : arr[k] = v}
  IN  IF i < Len(arr) /\ arr[i + 1] = v THEN i
      ELSE IF IsSimpleValue(v) /\ Cardinality(found) = 1 THEN (CHOOSE k \in found : TRUE) - 1
      ELSE i

ApplyListInsert(arr, c, i) ==
  IF i > Len(arr) THEN Append(arr, c.new) ELSE InsertAt(arr, i + 1, c.new)

ApplyListDelete(arr, c, i) ==
  LET j == IndexFunc(arr, c.old, i)
  IN  IF j < Len(arr) THEN RemoveAt(arr, j + 1) ELSE arr

\* The first element is never replaced and never moved.
ApplyListReplace(arr, c, i) ==
  LET j == IndexFunc(arr, c.old, i)
  IN  IF j > 0 /\ j < Len(arr) /\ ~IsNull(arr[j + 1]) THEN [arr EXCEPT ![j + 1] = c.new]
      ELSE arr

ApplyListMove(arr, c, i) ==
  IF i > 0 /\ i < Len(arr) /\ i # c.to
  THEN LET rest == RemoveAt(arr, i + 1)
       IN  IF c.to > Len(rest) THEN Append(rest, arr[i + 1])
           ELSE InsertAt(rest, c.to + 1, arr[i + 1])
  ELSE arr

ApplyToArray(arr, i, c) ==
  CASE c.kind = "li" -> ApplyListInsert(arr, c, i)
    [] c.kind = "ld" -> ApplyListDelete(arr, c, i)
    [] c.kind = "lr" -> ApplyListReplace(arr, c, i)
    [] c.kind = "lm" -> ApplyListMove(arr, c, i)
    [] OTHER -> arr

\* A subtype's function on the value v, Null when there is none.
ApplySubType(v, c) ==
  IF c.kind = "na"
  THEN IF c.built THEN Err
       ELSE IF IsNull(v) THEN Num(c.by) ELSE IF IsNum(v) THEN Num(v.num + c.by) ELSE Err
  ELSE IF IsNull(v) THEN IF IsInsert(c.operand) THEN Str(c.operand.i) ELSE Null
  ELSE IF IsStr(v) /\ CanApplyText(v.str, c.operand) THEN Str(ApplyText(v.str, c.operand))
  ELSE Err

\* List operators and no-ops are errors on an object.
ApplyToObject(o, k, c) ==
  LET here == IF k \in DOMAIN o.obj THEN o.obj[k] ELSE Null
      sum  == ApplySubType(here, c)
  IN  CASE c.kind \in {"oi", "or"} -> SetKey(o, k, c.new)
        [] c.kind = "od" -> DeleteKey(o, k)
        [] IsSubType(c) -> IF sum = Err THEN Err
                           ELSE IF sum = Null THEN o
                           ELSE SetKey(o, k, sum)
        [] OTHER -> Err

RECURSIVE ApplyToValue(_, _, _)
ApplyToValue(v, p, c) ==
  IF Len(p) > 1
  THEN LET left == RouteGet(v, Front(p), c)
           sub  == IF left = Err THEN Err ELSE ApplyToValue(left, <<Last(p)>>, c)
       IN  IF sub = Err THEN Err ELSE RouteSet(v, Front(p), sub)
  ELSE IF p # <<>> /\ IsArr(v) THEN Arr(ApplyToArray(v.arr, Head(p).index, c))
  ELSE IF p # <<>> /\ IsObj(v) THEN ApplyToObject(v, Head(p).key, c)
  ELSE Err

ApplyToRootValue(v, c) ==
  CASE c.kind = "noop" -> v
    [] c.kind \in {"li", "lr", "oi", "or"} -> c.new
    [] c.kind \in {"ld", "od"} -> Null
    [] IsSubType(c) -> ApplySubType(v, c)

ApplyComponent(v, c) ==
  IF v = Err THEN Err
  ELSE IF c.path = <<>> THEN ApplyToRootValue(v, c)
  ELSE ApplyToValue(v, c.path, c)

Apply(v, op) ==
  IF \E k \in DOMAIN op : ~Validates(op[k]) THEN Err
  ELSE FoldLeft(ApplyComponent, v, op)

-----------------------------------------------------------------------------
(* Transform.  A result is a sequence of components: what takes new's      *)
(* place once base was applied.                                            *)

IsEquivalentToNoop(c) ==
  \/ c.kind = "noop"
  \/ c.kind \in {"lr", "or"} /\ c.new = c.old
  \/ c.kind = "lm" /\ c.path # <<>> /\ Last(c.path).index = c.to

IsSameOperand(a, b) == ~IsSubType(a) /\ ~IsSubType(b) /\ Len(a.path) = Len(b.path)

\* Mutant: what new removes is the old value still.
Consume_Nothing(new, common, base) == new

\* base changed something inside what new removes: new removes it changed.
Consume(new, common, base) ==
  LET inside == SubSeq(base.path, common + 1, Len(base.path))
      old    == ApplyToValue(new.old, inside, base)
  IN  IF new.kind \in {"ld", "lr", "od", "or"} /\ old # Err THEN [new EXCEPT !.old = old]
      ELSE new

At(p, k) == IF k < Len(p) THEN p[k + 1].index ELSE 0

MoveUp(c, k) == [c EXCEPT !.path = IncreaseIndex(@, k)]
MoveDown(c, k) == [c EXCEPT !.path = DecreaseIndex(@, k)]

TransformForSubType(new, base, side) ==
  IF new.kind = "text" /\ base.kind = "text" /\ new.shared /\ base.shared
  THEN LET ts == TransformText(new.operand, base.operand, side)
       IN  [k \in DOMAIN ts |-> Text(base.path, ts[k], TRUE)]
  ELSE <<new>>

TransformForListReplace(new, base, side) ==
  IF ~IsPrefixOf(base.path, new.path) THEN <<new>>
  ELSE IF ~IsSameOperand(base, new) \/ new.kind = "ld" THEN <<>>
  ELSE IF new.kind # "lr" THEN <<new>>
  ELSE IF side = "left" THEN <<ListReplace(new.path, new.new, base.new)>>
  ELSE <<>>

TransformForListInsert(new, base, side) ==
  LET k    == OperatePathLen(base)
      same == IsSameOperand(base, new)
      at   == IF Len(new.path) > k /\ At(base.path, k) <= At(new.path, k)
              THEN MoveUp(new, k) ELSE new
  IN  IF new.kind = "li" /\ same /\ IsPrefixOf(base.path, new.path)
      THEN <<IF side = "right" THEN MoveUp(new, k) ELSE new>>
      ELSE IF new.kind = "lm" /\ same /\ At(base.path, k) <= new.to
      THEN <<[at EXCEPT !.to = @ + 1]>>
      ELSE <<at>>

TransformForListDelete(new, base) ==
  LET k     == OperatePathLen(base)
      same  == IsSameOperand(base, new)
      from  == At(base.path, k)
      moved == IF new.kind = "lm" /\ same
                  /\ (from < new.to \/ (from = new.to /\ At(new.path, k) < new.to))
               THEN [new EXCEPT !.to = @ - 1] ELSE new
  IN  IF from < At(new.path, k) THEN <<MoveDown(moved, k)>>
      ELSE IF ~IsPrefixOf(base.path, new.path) THEN <<moved>>
      ELSE IF ~same \/ new.kind \in {"ld", "lm"} THEN <<>>
      ELSE IF new.kind = "lr" THEN <<ListInsert(new.path, new.new)>>
      ELSE <<new>>

TransformForListMoveWithListInsert(new, base) ==
  LET k     == OperatePathLen(base)
      taken == IF At(new.path, k) > At(base.path, k) THEN MoveDown(new, k) ELSE new
  IN  <<IF At(new.path, k) > base.to THEN MoveUp(taken, k) ELSE taken>>

\* Mutant: two moves to one target leave the order of what they moved open.
MergedTarget_NoSide(f, t, g, h, side) ==
  LET lowered == IF t > g \/ (t = g /\ t > f) THEN t - 1 ELSE t
  IN  IF t > h \/ (t = h /\ t > f) THEN lowered + 1 ELSE lowered

\* The target of a move from f to t, after a move from g to h, f # g.
MergedTarget(f, t, g, h, side) ==
  LET bumped  == IF f = h /\ g > h /\ f = t THEN t + 1 ELSE t
      lowered == IF t > g \/ (t = g /\ t > f) THEN bumped - 1 ELSE bumped
      raised  == IF t > h THEN lowered + 1 ELSE lowered
  IN  IF t # h THEN raised
      ELSE IF (h > g /\ t > f) \/ (h < g /\ t < f)
      THEN IF side = "right" THEN raised + 1 ELSE raised
      ELSE IF t > f THEN raised + 1
      ELSE IF t = g THEN raised - 1
      ELSE raised

TransformForListMoveWithListMove(new, base, side) ==
  LET k == OperatePathLen(base)
      f == At(new.path, k)
      t == new.to
      g == At(base.path, k)
      h == base.to
      taken == IF f > g THEN MoveDown(new, k) ELSE new
      put   == IF f > h \/ (f = h /\ g > h) THEN MoveUp(taken, k) ELSE taken
  IN  IF g = h THEN <<new>>
      ELSE IF f # g THEN <<[put EXCEPT !.to = MergedTarget(f, t, g, h, side)]>>
      ELSE IF t = h \/ side = "right" THEN <<>>
      ELSE <<[new EXCEPT !.path[k + 1] = Index(h), !.to = IF f = t THEN h ELSE @]>>

TransformForListMove(new, base, side) ==
  LET k     == OperatePathLen(base)
      from  == At(base.path, k)
      to    == base.to
      p     == At(new.path, k)
      taken == IF p > from THEN MoveDown(new, k) ELSE new
  IN  IF IsSameOperand(base, new) /\ new.kind = "lm"
      THEN TransformForListMoveWithListMove(new, base, side)
      ELSE IF IsSameOperand(base, new) /\ new.kind = "li"
      THEN TransformForListMoveWithListInsert(new, base)
      ELSE IF p = from THEN <<[new EXCEPT !.path[k + 1] = Index(to)]>>
      ELSE IF p > to \/ (p = to /\ from > to) THEN <<MoveUp(taken, k)>>
      ELSE <<taken>>

TransformForObjectReplace(new, base, side) ==
  IF ~IsPrefixOf(base.path, new.path) THEN <<new>>
  ELSE IF IsSameOperand(base, new) /\ new.kind \in {"or", "oi"} /\ side = "left"
  THEN <<ObjectReplace(new.path, new.new, base.new)>>
  ELSE <<>>

TransformForObjectInsert(new, base, side) ==
  IF ~IsPrefixOf(base.path, new.path) \/ new.kind \notin {"oi", "or", "od"} THEN <<new>>
  ELSE IF side = "right" THEN <<>>
  ELSE IF new.kind = "od" THEN <<new>>
  ELSE IF IsSameOperand(base, new) THEN <<ObjectReplace(base.path, new.new, base.new)>>
  ELSE <<ObjectDelete(base.path, base.new), new>>

TransformForObjectDelete(new, base, side) ==
  IF ~IsPrefixOf(base.path, new.path) THEN <<new>>
  ELSE IF IsSameOperand(base, new) /\ new.kind \in {"or", "oi"} /\ side = "left"
  THEN <<ObjectInsert(new.path, new.new)>>
  ELSE <<>>

TransformComponentOperator(new, base, side) ==
  CASE IsSubType(base)    -> TransformForSubType(new, base, side)
    [] base.kind = "lr"   -> TransformForListReplace(new, base, side)
    [] base.kind = "li"   -> TransformForListInsert(new, base, side)
    [] base.kind = "ld"   -> TransformForListDelete(new, base)
    [] base.kind = "lm"   -> TransformForListMove(new, base, side)
    [] base.kind = "or"   -> TransformForObjectReplace(new, base, side)
    [] base.kind = "oi"   -> TransformForObjectInsert(new, base, side)
    [] base.kind = "od"   -> TransformForObjectDelete(new, base, side)

TransformComponent(new, base, side) ==
  LET common == Len(MaxCommonPath(base.path, new.path))
      n      == OperatePathLen(new)
      b      == OperatePathLen(base)
  IN  IF IsEquivalentToNoop(new) \/ IsEquivalentToNoop(base) THEN <<new>>
      ELSE IF common < n /\ common < b THEN <<new>>
      ELSE IF b <= n THEN TransformComponentOperator(new, base, side)
      ELSE IF IsPrefixOf(new.path, base.path) THEN <<Consume(new, common, base)>>
      ELSE <<new>>

-----------------------------------------------------------------------------
(* Compose and invert *)

\* The component that stands for c followed by d at the same path, in a
\* sequence that is empty when there is none.  A no-op swallows what follows.
\* A replacement followed by a deletion is never merged: their values are
\* compared by identity.
Merge(c, d) ==
  LET p == c.path
      kinds == <<c.kind, d.kind>>
  IN  CASE c.kind = "noop" -> <<Noop(p)>>
        [] kinds = <<"na", "na">> -> <<NumberAdd(p, c.by + d.by, TRUE)>>
        [] kinds = <<"text", "text">> ->
             LET ts == MergeText(c.operand, d.operand)
             IN  [k \in DOMAIN ts |-> Text(p, ts[k], TRUE)]
        [] kinds \in {<<"li", "ld">>, <<"oi", "od">>} /\ c.new = d.old -> <<Noop(p)>>
        [] kinds = <<"li", "lr">> /\ c.new = d.old -> <<ListInsert(p, d.new)>>
        [] kinds = <<"lr", "lr">> /\ c.new = d.old -> <<ListReplace(p, d.new, c.old)>>
        [] kinds = <<"oi", "or">> /\ c.new = d.old -> <<ObjectInsert(p, d.new)>>
        [] kinds = <<"od", "oi">> -> <<ObjectReplace(p, d.new, c.old)>>
        [] kinds = <<"or", "od">> /\ c.new = d.old -> <<ObjectDelete(p, c.old)>>
        [] kinds = <<"or", "or">> /\ c.new = d.old -> <<ObjectReplace(p, d.new, c.old)>>
        [] OTHER -> <<>>

\* Mutant: two components are merged wherever they are.
AppendComponent_AnyPlace(op, c) ==
  LET merged == IF op # <<>> THEN Merge(Last(op), c) ELSE <<>>
  IN  IF c.kind = "lm" /\ Last(c.path).index = c.to THEN op
      ELSE IF merged = <<>> THEN Append(op, c)
      ELSE Front(op) \o merged

AppendComponent(op, c) ==
  LET merged == IF op # <<>> /\ Last(op).path = c.path THEN Merge(Last(op), c) ELSE <<>>
  IN  IF c.kind = "lm" /\ Last(c.path).index = c.to THEN op
      ELSE IF merged = <<>> THEN Append(op, c)
      ELSE Front(op) \o merged

Compose(op, other) == FoldLeft(AppendComponent, op, other)

\* Moving back to the first place is an error; a sum that was not written and
\* read back has no inverse, which panics.
CanInvert(c) == (c.kind = "lm" => Last(c.path).index # 0) /\ (c.kind = "na" => ~c.built)

InvertComponent(c) ==
  CASE c.kind = "noop" -> c
    [] c.kind = "na" -> NumberAdd(c.path, -c.by, TRUE)
    [] c.kind = "text" -> Text(c.path, InvertText(c.operand), c.shared)
    [] c.kind = "li" -> ListDelete(c.path, c.new)
    [] c.kind = "ld" -> ListInsert(c.path, c.old)
    [] c.kind = "lr" -> ListReplace(c.path, c.old, c.new)
    [] c.kind = "lm" -> ListMove(Front(c.path) \o <<Index(c.to)>>, Last(c.path).index)
    [] c.kind = "oi" -> ObjectDelete(c.path, c.new)
    [] c.kind = "od" -> ObjectInsert(c.path, c.old)
    [] c.kind = "or" -> ObjectReplace(c.path, c.old, c.new)

\* Mutant: what was done first is undone first.
Invert_InOrder(op) == Compose(<<>>, [k \in DOMAIN op |-> InvertComponent(op[k])])

Invert(op) ==
  IF \A k \in DOMAIN op : CanInvert(op[k])
  THEN Compose(<<>>, [k \in DOMAIN op |-> InvertComponent(Reverse(op)[k])])
  ELSE Err

-----------------------------------------------------------------------------
(* The JSON form of a component: the fields next to its path. *)

ToValue(c) ==
  CASE c.kind = "noop" -> <<>>
    [] c.kind \in {"li", "oi"} -> c.kind :> c.new
    [] c.kind \in {"ld", "od"} -> c.kind :> c.old
    [] c.kind = "lr" -> "li" :> c.new @@ "ld" :> c.old
    [] c.kind = "or" -> "oi" :> c.new @@ "od" :> c.old
    [] c.kind = "lm" -> "lm" :> Num(c.to)
    [] c.kind = "na" -> "na" :> Num(c.by)
    [] c.kind = "text" -> "t" :> Str("text") @@ "o" :> c.operand

\* A field that holds null counts as missing.
FromValue(p, f) ==
  LET HasKey(k) == k \in DOMAIN f /\ f[k] # Null
  IN  CASE HasKey("na") -> NumberAdd(p, f["na"].num, FALSE)
        [] ~HasKey("na") /\ HasKey("t") -> Text(p, f["o"], FALSE)
        [] HasKey("lm") -> ListMove(p, f["lm"].num)
        [] HasKey("li") /\ HasKey("ld") -> ListReplace(p, f["li"], f["ld"])
        [] HasKey("li") /\ ~HasKey("ld") -> ListInsert(p, f["li"])
        [] HasKey("ld") /\ ~HasKey("li") -> ListDelete(p, f["ld"])
        [] HasKey("oi") /\ HasKey("od") -> ObjectReplace(p, f["oi"], f["od"])
        [] HasKey("oi") /\ ~HasKey("od") -> ObjectInsert(p, f["oi"])
        [] HasKey("od") /\ ~HasKey("oi") -> ObjectDelete(p, f["od"])
        [] OTHER -> Noop(p)

\* An operation written by one party and read by another.
Parsed(op) == [k \in DOMAIN op |-> FromValue(op[k].path, ToValue(op[k]))]

-----------------------------------------------------------------------------
(* Diff *)

HasKeyPath(p) == p = <<>> \/ Last(p).key # ""

\* Mutant: an element of a list is replaced as if it had a key.
ReplaceValue_ByKey(p, from, to) == ObjectReplace(p, to, from)

ReplaceValue(p, from, to) ==
  IF HasKeyPath(p) THEN ObjectReplace(p, to, from) ELSE ListReplace(p, to, from)

\* The components from one value to another, the keys of an object in any
\* fixed order.
RECURSIVE DiffInto(_, _, _)
DiffInto(p, from, to) ==
  LET OfKey(k) ==
        IF k \notin DOMAIN to.obj THEN <<ObjectDelete(p \o <<Key(k)>>, from.obj[k])>>
        ELSE IF k \notin DOMAIN from.obj THEN <<ObjectInsert(p \o <<Key(k)>>, to.obj[k])>>
        ELSE DiffInto(p \o <<Key(k)>>, from.obj[k], to.obj[k])
      OfIndex(i) == DiffInto(p \o <<Index(i - 1)>>, from.arr[i], to.arr[i])
  IN  IF from = to THEN <<>>
      ELSE IF IsObj(from) /\ IsObj(to)
      THEN LET keys == SetToSeq(DOMAIN from.obj \cup DOMAIN to.obj)
           IN  FlattenSeq([k \in DOMAIN keys |-> OfKey(keys[k])])
      ELSE IF IsArr(from) /\ IsArr(to) /\ Len(from.arr) = Len(to.arr)
      THEN FlattenSeq([i \in DOMAIN from.arr |-> OfIndex(i)])
      ELSE IF IsNum(from) /\ IsNum(to) /\ HasKeyPath(p)
      THEN <<NumberAdd(p, to.num - from.num, FALSE)>>
      ELSE <<ReplaceValue(p, from, to)>>

Diff(from, to) == Compose(<<>>, DiffInto(<<>>, from, to))
=============================================================================
