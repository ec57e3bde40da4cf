--------------------------- MODULE ListOTTheorems ---------------------------
(***************************************************************************)
(* Theorems about the OT functions on one list, for every list of values   *)
(* of any kind, and every component that two users can make on it.         *)
(***************************************************************************)
EXTENDS ListOT, AnySeqTheorems, FiniteSetTheorems

-----------------------------------------------------------------------------
(***************************************************************************)
(* Apply, Compose and Invert fold a step over components from the first to *)
(* the last.  The fold is a function on the sets of places; below it is    *)
(* built up one place after the other.                                     *)
(***************************************************************************)

\* The step of each of the three.
Step(act, acc, c) ==
  IF act = "apply" THEN ApplyComponent(acc, c)
  ELSE IF act = "compose" THEN AppendComponent(acc, c)
  ELSE AppendComponent(acc, InvertComponent(c))

\* g is that function for the first n components of op.
Folds(act, g, start, op, n) ==
  g = [s \in SUBSET (1..n) |->
         IF s = {} THEN start ELSE Step(act, g[s \ {Max(s)}], op[Max(s)])]

\* g made to reach one component further.
Further(act, g, op, n) ==
  [s \in SUBSET (1..n + 1) |->
     IF n + 1 \in s THEN Step(act, g[s \ {n + 1}], op[n + 1]) ELSE g[s]]

\* The last place of a set that contains it is its maximum.
LEMMA LastIsMax ==
  ASSUME NEW n \in Nat, NEW s \in SUBSET (1..n + 1), n + 1 \in s
  PROVE  Max(s) = n + 1
<1>1. \A y \in s : n + 1 >= y
  OBVIOUS
<1>2. Max(s) \in s /\ \A y \in s : Max(s) >= y
  BY <1>1 DEF Max
<1>3. Max(s) \in 1..n + 1 /\ Max(s) >= n + 1
  BY <1>2
<1> QED
  BY <1>3

\* What is left of a set without a place, or without its last one.
LEMMA Smaller ==
  ASSUME NEW n \in Nat
  PROVE  /\ \A s \in SUBSET (1..n) :
              /\ s \in SUBSET (1..n + 1) /\ n + 1 \notin s
              /\ \A m : s \ {m} \in SUBSET (1..n)
         /\ \A s \in SUBSET (1..n + 1) : n + 1 \notin s => s \in SUBSET (1..n)
<1>1. \A k : (k \in 1..n => k \in 1..n + 1) /\ n + 1 \notin 1..n
  OBVIOUS
<1>2. \A k \in 1..n + 1 : k = n + 1 \/ k \in 1..n
  OBVIOUS
<1> QED
  BY <1>1, <1>2

\* The fold over no component has nothing to apply.
LEMMA FoldsNone ==
  ASSUME NEW act, NEW start, NEW op
  PROVE  LET g == [s \in SUBSET (1..0) |-> start]
         IN  Folds(act, g, start, op, 0) /\ \A h : Folds(act, h, start, op, 0) => h = g
<1> DEFINE g == [s \in SUBSET (1..0) |-> start]
<1>1. 1..0 = {} /\ SUBSET (1..0) = {{}}
  OBVIOUS
<1>2. Folds(act, g, start, op, 0)
  BY <1>1 DEF Folds
<1>3. ASSUME NEW h, Folds(act, h, start, op, 0) PROVE h = g
  <2>1. h = [s \in SUBSET (1..0) |->
               IF s = {} THEN start ELSE Step(act, h[s \ {Max(s)}], op[Max(s)])]
    BY <1>3 DEF Folds
  <2> QED
    BY <1>1, <2>1
<1> QED
  BY <1>2, <1>3

\* A fold over n components can be taken one further.
LEMMA FoldsFurther ==
  ASSUME NEW act, NEW start, NEW op, NEW n \in Nat, NEW g, Folds(act, g, start, op, n)
  PROVE  Folds(act, Further(act, g, op, n), start, op, n + 1)
<1> DEFINE f == Further(act, g, op, n)
           value(s) == IF s = {} THEN start ELSE Step(act, f[s \ {Max(s)}], op[Max(s)])
<1>1. \A s \in SUBSET (1..n + 1) :
        f[s] = IF n + 1 \in s THEN Step(act, g[s \ {n + 1}], op[n + 1]) ELSE g[s]
  BY DEF Further
<1>2. \A s \in SUBSET (1..n) :
        g[s] = IF s = {} THEN start ELSE Step(act, g[s \ {Max(s)}], op[Max(s)])
  BY DEF Folds
<1>3. \A s \in SUBSET (1..n) : s \in SUBSET (1..n + 1) /\ n + 1 \notin s
  OBVIOUS
<1> HIDE DEF f
<1>4. \A s \in SUBSET (1..n) : f[s] = g[s]
  BY <1>1, <1>3
<1>5. ASSUME NEW s \in SUBSET (1..n + 1) PROVE f[s] = value(s)
  <2>1. CASE n + 1 \in s
    <3>1. s \ {n + 1} \in SUBSET (1..n) /\ s # {}
      BY <2>1
    <3>2. Max(s) = n + 1
      BY <2>1, LastIsMax
    <3> QED
      BY <1>1, <1>4, <2>1, <3>1, <3>2
  <2>2. CASE n + 1 \notin s
    <3>1. s \in SUBSET (1..n) /\ \A m : s \ {m} \in SUBSET (1..n)
      BY <2>2, Smaller
    <3> QED
      BY <1>2, <1>4, <3>1
  <2> QED
    BY <2>1, <2>2
<1>6. f = [s \in SUBSET (1..n + 1) |-> value(s)]
  <2>1. f = [s \in SUBSET (1..n + 1) |-> f[s]]
    BY DEF f, Further
  <2> HIDE DEF value
  <2> QED
    BY <1>5, <2>1
<1> QED
  BY <1>6 DEF Folds, f

\* A fold over one component more is one over the others taken further.
LEMMA FoldsShorter ==
  ASSUME NEW act, NEW start, NEW op, NEW n \in Nat, NEW h, Folds(act, h, start, op, n + 1)
  PROVE  \E g : Folds(act, g, start, op, n) /\ h = Further(act, g, op, n)
<1> DEFINE g == [s \in SUBSET (1..n) |-> h[s]]
           value(s) == IF s = {} THEN start ELSE Step(act, g[s \ {Max(s)}], op[Max(s)])
           further(s) == IF n + 1 \in s THEN Step(act, g[s \ {n + 1}], op[n + 1]) ELSE g[s]
<1>1. /\ h = [s \in SUBSET (1..n + 1) |-> h[s]]
      /\ \A s \in SUBSET (1..n + 1) :
           h[s] = IF s = {} THEN start ELSE Step(act, h[s \ {Max(s)}], op[Max(s)])
  <2> DEFINE from(s) == IF s = {} THEN start ELSE Step(act, h[s \ {Max(s)}], op[Max(s)])
  <2>1. h = [s \in SUBSET (1..n + 1) |-> from(s)]
    BY DEF Folds
  <2> HIDE DEF from
  <2>2. h = [s \in SUBSET (1..n + 1) |-> h[s]] /\ \A s \in SUBSET (1..n + 1) : h[s] = from(s)
    BY <2>1
  <2> QED
    BY <2>2 DEF from
<1>2. \A s \in SUBSET (1..n) :
        s \in SUBSET (1..n + 1) /\ n + 1 \notin s /\ s \ {Max(s)} \in SUBSET (1..n) /\ g[s] = h[s]
  BY Smaller
<1>3. \A s \in SUBSET (1..n) : g[s] = value(s)
  <2> HIDE DEF g
  <2> QED
    BY <1>1, <1>2
<1>4. g = [s \in SUBSET (1..n) |-> value(s)]
  <2> HIDE DEF value
  <2> QED
    BY <1>3
<1>5. ASSUME NEW s \in SUBSET (1..n + 1) PROVE h[s] = further(s)
  <2> HIDE DEF g
  <2>1. CASE n + 1 \in s
    <3>1. s \ {n + 1} \in SUBSET (1..n) /\ s # {}
      BY <2>1
    <3>2. Max(s) = n + 1
      BY <2>1, LastIsMax
    <3> QED
      BY <1>1, <1>2, <2>1, <3>1, <3>2
  <2>2. CASE n + 1 \notin s
    BY <1>2, <2>2, Smaller
  <2> QED
    BY <2>1, <2>2
<1>6. h = [s \in SUBSET (1..n + 1) |-> further(s)]
  <2> HIDE DEF further
  <2> QED
    BY <1>1, <1>5
<1>7. Folds(act, g, start, op, n) /\ h = Further(act, g, op, n)
  BY <1>4, <1>6 DEF Folds, Further
<1> HIDE DEF g
<1> QED
  BY <1>7

\* There is one fold over n components.
LEMMA FoldsOnce ==
  ASSUME NEW act, NEW start, NEW op, NEW n \in Nat
  PROVE  \E g : Folds(act, g, start, op, n) /\ \A h : Folds(act, h, start, op, n) => h = g
<1> DEFINE Once(k) == \E g : Folds(act, g, start, op, k) /\ \A h : Folds(act, h, start, op, k) => h = g
           T == { k \in Nat : ~Once(k) }
<1>1. Once(0)
  BY FoldsNone
<1>2. ASSUME NEW k \in Nat, Once(k) PROVE Once(k + 1)
  <2>1. PICK g : Folds(act, g, start, op, k) /\ \A h : Folds(act, h, start, op, k) => h = g
    BY <1>2
  <2>2. Folds(act, Further(act, g, op, k), start, op, k + 1)
    BY <2>1, FoldsFurther
  <2>3. ASSUME NEW h, Folds(act, h, start, op, k + 1) PROVE h = Further(act, g, op, k)
    <3> HIDE DEF Once
    <3>1. PICK shorter : Folds(act, shorter, start, op, k) /\ h = Further(act, shorter, op, k)
      BY <2>3, FoldsShorter
    <3>2. shorter = g
      BY <2>1, <3>1
    <3> QED
      BY <3>1, <3>2
  <2> QED
    BY <2>2, <2>3
<1> HIDE DEF Once
<1>3. SUFFICES ASSUME T # {} PROVE FALSE
  <2>1. Once(n) => n \notin T
    OBVIOUS
  <2> QED
    BY <1>3 DEF Once
<1>4. PICK k \in T : \A j \in T : k <= j
  BY <1>3, LeastNat
<1>5. k \in Nat /\ k # 0 /\ ~Once(k)
  BY <1>1, <1>4
<1>6. k - 1 \in Nat /\ k - 1 \notin T /\ (k - 1) + 1 = k
  BY <1>4, <1>5
<1>7. Once(k - 1)
  BY <1>6
<1> QED
  BY <1>2, <1>5, <1>6, <1>7

\* The maximum of a nonempty set of places is one of them.
LEMMA MaxIsPlace ==
  ASSUME NEW n \in Nat, NEW s \in SUBSET (1..n), s # {}
  PROVE  Max(s) \in 1..n
<1> DEFINE T == { b \in Nat : \A y \in s : b >= y }
<1>1. T \subseteq Nat /\ n \in T
  OBVIOUS
<1>2. PICK m \in T : \A b \in T : m <= b
  <2> HIDE DEF T
  <2> QED
    BY <1>1, LeastNat
<1>3. m \in s
  <2>1. SUFFICES ASSUME m \notin s PROVE FALSE
    OBVIOUS
  <2>2. \A y \in s : y \in 1..n /\ y < m
    BY <2>1
  <2>3. PICK y \in s : y \in 1..n /\ y < m
    BY <2>2
  <2>4. m - 1 \in Nat /\ \A k \in s : m - 1 >= k
    BY <2>2, <2>3
  <2>5. m - 1 \in T /\ m - 1 < m
    BY <2>4
  <2> QED
    BY <1>2, <2>5
<1>4. Max(s) \in s
  BY <1>3 DEF Max
<1> QED
  BY <1>4

\* A fold over the first components does not look at the others.
LEMMA FoldsPrefix ==
  ASSUME NEW act, NEW start, NEW op, NEW other, NEW n \in Nat, NEW g, Folds(act, g, start, op, n),
         \A i \in 1..n : other[i] = op[i]
  PROVE  Folds(act, g, start, other, n)
<1> DEFINE value(s, o) == IF s = {} THEN start ELSE Step(act, g[s \ {Max(s)}], o[Max(s)])
<1>1. g = [s \in SUBSET (1..n) |-> value(s, op)]
  BY DEF Folds
<1>2. ASSUME NEW s \in SUBSET (1..n) PROVE value(s, op) = value(s, other)
  <2>1. s # {} => other[Max(s)] = op[Max(s)]
    BY MaxIsPlace
  <2> QED
    BY <2>1
<1>3. g = [s \in SUBSET (1..n) |-> value(s, other)]
  <2> HIDE DEF value
  <2> QED
    BY <1>1, <1>2
<1> QED
  BY <1>3 DEF Folds

\* What the fold makes of all components.
Fold(act, start, op) == (CHOOSE g : Folds(act, g, start, op, Len(op)))[1..Len(op)]

\* It is the value of any such fold.
LEMMA FoldIs ==
  ASSUME NEW act, NEW start, NEW S, NEW op \in Seq(S), NEW g, Folds(act, g, start, op, Len(op))
  PROVE  Fold(act, start, op) = g[1..Len(op)]
<1>1. Len(op) \in Nat
  OBVIOUS
<1> DEFINE chosen == CHOOSE h : Folds(act, h, start, op, Len(op))
<1>2. Folds(act, chosen, start, op, Len(op))
  OBVIOUS
<1>3. chosen = g
  <2> HIDE DEF chosen
  <2> QED
    BY <1>1, <1>2, FoldsOnce
<1> QED
  BY <1>3 DEF Fold

\* Nothing to fold.
LEMMA FoldNothing == ASSUME NEW act, NEW start PROVE Fold(act, start, <<>>) = start
<1> DEFINE g == [s \in SUBSET (1..0) |-> start]
<1>1. <<>> \in Seq({}) /\ Len(<<>>) = 0 /\ {} \in SUBSET (1..0) /\ 1..0 = {}
  OBVIOUS
<1>2. Folds(act, g, start, <<>>, 0)
  BY FoldsNone
<1>3. g[1..0] = start
  BY <1>1
<1> HIDE DEF g
<1>4. Fold(act, start, <<>>) = g[1..Len(<<>>)]
  <2>1. Folds(act, g, start, <<>>, Len(<<>>))
    BY <1>1, <1>2
  <2> QED
    BY <1>1, <2>1, FoldIs
<1> QED
  BY <1>1, <1>3, <1>4

\* The last component is folded last.
LEMMA FoldAppend ==
  ASSUME NEW act, NEW start, NEW S, NEW op \in Seq(S), NEW c \in S
  PROVE  Fold(act, start, Append(op, c)) = Step(act, Fold(act, start, op), c)
<1> DEFINE n == Len(op)
           other == Append(op, c)
<1>1. n \in Nat /\ other \in Seq(S) /\ Len(other) = n + 1
      /\ other[n + 1] = c /\ \A i \in 1..n : other[i] = op[i]
  OBVIOUS
<1> HIDE DEF other
<1>2. PICK g : Folds(act, g, start, op, n)
  BY <1>1, FoldsOnce
<1>3. Folds(act, g, start, other, n)
  BY <1>1, <1>2, FoldsPrefix
<1>4. Folds(act, Further(act, g, other, n), start, other, n + 1)
  BY <1>1, <1>3, FoldsFurther
<1>5. Fold(act, start, op) = g[1..n]
  BY <1>2, FoldIs
<1>6. Fold(act, start, other) = Further(act, g, other, n)[1..n + 1]
  BY <1>1, <1>4, FoldIs
<1>7. 1..n + 1 \in SUBSET (1..n + 1) /\ n + 1 \in 1..n + 1 /\ (1..n + 1) \ {n + 1} = 1..n
  BY <1>1
<1> HIDE DEF n
<1>8. Further(act, g, other, n)[1..n + 1] = Step(act, g[1..n], c)
  BY <1>1, <1>7 DEF Further
<1> QED
  BY <1>5, <1>6, <1>8 DEF other

\* Applying folds ApplyComponent.
LEMMA ApplyIsFold ==
  ASSUME NEW arr, NEW S, NEW op \in Seq(S)
  PROVE  Apply(arr, op) = Fold("apply", arr, op)
<1> DEFINE Is(g) == g = [s \in SUBSET (1..Len(op)) |->
                           IF s = {} THEN arr ELSE ApplyComponent(g[s \ {Max(s)}], op[Max(s)])]
<1>1. DOMAIN op = 1..Len(op) /\ Len(op) \in Nat
  OBVIOUS
<1>2. \A g : Is(g) <=> Folds("apply", g, arr, op, Len(op))
  BY DEF Folds, Step
<1>3. Apply(arr, op) = (CHOOSE g : Is(g))[1..Len(op)]
  BY <1>1 DEF Apply, FoldLeft, MapThenFoldSet
<1> HIDE DEF Is
<1>4. PICK g : Is(g)
  BY <1>1, <1>2, FoldsOnce
<1>5. Folds("apply", CHOOSE h : Is(h), arr, op, Len(op))
  BY <1>2, <1>4
<1> QED
  BY <1>3, <1>5, FoldIs

\* Composing folds AppendComponent.
LEMMA ComposeIsFold ==
  ASSUME NEW op, NEW S, NEW other \in Seq(S)
  PROVE  Compose(op, other) = Fold("compose", op, other)
<1> DEFINE Is(g) == g = [s \in SUBSET (1..Len(other)) |->
                           IF s = {} THEN op ELSE AppendComponent(g[s \ {Max(s)}], other[Max(s)])]
<1>1. DOMAIN other = 1..Len(other) /\ Len(other) \in Nat
  OBVIOUS
<1>2. \A g : Is(g) <=> Folds("compose", g, op, other, Len(other))
  BY DEF Folds, Step
<1>3. Compose(op, other) = (CHOOSE g : Is(g))[1..Len(other)]
  BY <1>1 DEF Compose, FoldLeft, MapThenFoldSet
<1> HIDE DEF Is
<1>4. PICK g : Is(g)
  BY <1>1, <1>2, FoldsOnce
<1>5. Folds("compose", CHOOSE h : Is(h), op, other, Len(other))
  BY <1>2, <1>4
<1> QED
  BY <1>3, <1>5, FoldIs

\* Inverting folds the same over the inverses, from the last to the first.
LEMMA InvertIsFold ==
  ASSUME NEW S, NEW op \in Seq(S)
  PROVE  Invert(op) = Fold("invert", <<>>, Reverse(op))
<1> DEFINE r == Reverse(op)
           Is(g) == g = [s \in SUBSET (1..Len(r)) |->
                           IF s = {} THEN <<>>
                           ELSE AppendComponent(g[s \ {Max(s)}], InvertComponent(r[Max(s)]))]
<1>1. r \in Seq(S)
  BY DEF Reverse
<1>2. DOMAIN r = 1..Len(r) /\ Len(r) \in Nat
  BY <1>1
<1> HIDE DEF r
<1>3. \A g : Is(g) <=> Folds("invert", g, <<>>, r, Len(r))
  BY DEF Folds, Step
<1>4. Invert(op) = (CHOOSE g : Is(g))[1..Len(r)]
  BY <1>2 DEF Invert, FoldLeft, MapThenFoldSet, NoOperation, r
<1> HIDE DEF Is
<1>5. PICK g : Is(g)
  BY <1>2, <1>3, FoldsOnce
<1>6. Folds("invert", CHOOSE h : Is(h), <<>>, r, Len(r))
  BY <1>3, <1>5
<1> QED
  BY <1>1, <1>4, <1>6, FoldIs DEF r

\* Applying nothing changes nothing.
LEMMA ApplyNothing == ASSUME NEW arr PROVE Apply(arr, <<>>) = arr
<1>1. <<>> \in Seq({})
  OBVIOUS
<1> QED
  BY <1>1, ApplyIsFold, FoldNothing

\* An operation is applied one component after the other, the last one last
\* (JSONOperationTransformer.Apply).
LEMMA ApplyAppend ==
  ASSUME NEW arr, NEW S, NEW op \in Seq(S), NEW c \in S
  PROVE  Apply(arr, Append(op, c)) = ApplyComponent(Apply(arr, op), c)
<1>1. Append(op, c) \in Seq(S)
  OBVIOUS
<1> QED
  <2>1. Apply(arr, Append(op, c)) = Fold("apply", arr, Append(op, c))
    BY <1>1, ApplyIsFold
  <2>2. Apply(arr, op) = Fold("apply", arr, op)
    BY ApplyIsFold
  <2>3. Fold("apply", arr, Append(op, c)) = Step("apply", Fold("apply", arr, op), c)
    BY FoldAppend
  <2> QED
    BY <2>1, <2>2, <2>3 DEF Step

\* It is composed in the same way (Compose).
LEMMA ComposeNothing == ASSUME NEW op PROVE Compose(op, <<>>) = op
<1>1. <<>> \in Seq({})
  OBVIOUS
<1> QED
  BY <1>1, ComposeIsFold, FoldNothing

\* The last component comes last.
LEMMA ComposeAppend ==
  ASSUME NEW op, NEW S, NEW other \in Seq(S), NEW c \in S
  PROVE  Compose(op, Append(other, c)) = AppendComponent(Compose(op, other), c)
<1>1. Append(other, c) \in Seq(S)
  OBVIOUS
<1> QED
  <2>1. Compose(op, Append(other, c)) = Fold("compose", op, Append(other, c))
    BY <1>1, ComposeIsFold
  <2>2. Compose(op, other) = Fold("compose", op, other)
    BY ComposeIsFold
  <2>3. Fold("compose", op, Append(other, c)) = Step("compose", Fold("compose", op, other), c)
    BY FoldAppend
  <2> QED
    BY <2>1, <2>2, <2>3 DEF Step

\* Nothing is undone by nothing (Invert).
LEMMA InvertNothing == Invert(<<>>) = <<>>
<1>1. <<>> \in Seq({}) /\ Reverse(<<>>) = <<>>
  BY DEF Reverse
<1> QED
  BY <1>1, InvertIsFold, FoldNothing

\* What was done first is undone last.
LEMMA InvertCons ==
  ASSUME NEW S, NEW op \in Seq(S), NEW c \in S
  PROVE  Invert(<<c>> \o op) = AppendComponent(Invert(op), InvertComponent(c))
<1> DEFINE long == <<c>> \o op
<1>1. /\ long \in Seq(S) /\ Len(long) = Len(op) + 1 /\ Len(op) \in Nat
      /\ long[1] = c /\ \A i \in 1..Len(op) : long[i + 1] = op[i]
  OBVIOUS
<1> HIDE DEF long
<1>2. Reverse(op) \in Seq(S) /\ Len(Reverse(op)) = Len(op)
      /\ \A i \in 1..Len(op) : Reverse(op)[i] = op[(Len(op) - i) + 1]
  BY DEF Reverse
<1>3. Reverse(long) \in Seq(S) /\ Len(Reverse(long)) = Len(op) + 1
      /\ \A i \in 1..Len(op) + 1 : Reverse(long)[i] = long[((Len(op) + 1) - i) + 1]
  BY <1>1 DEF Reverse
<1>4. Reverse(long) = Append(Reverse(op), c)
  <2>1. \A i \in 1..Len(op) + 1 : Reverse(long)[i] = Append(Reverse(op), c)[i]
    <3> SUFFICES ASSUME NEW i \in 1..Len(op) + 1
                 PROVE  Reverse(long)[i] = Append(Reverse(op), c)[i]
      OBVIOUS
    <3>1. CASE i = Len(op) + 1
      BY <1>1, <1>2, <1>3, <3>1
    <3>2. CASE i # Len(op) + 1
      <4>1. i \in 1..Len(op) /\ (Len(op) - i) + 1 \in 1..Len(op)
            /\ ((Len(op) - i) + 1) + 1 = ((Len(op) + 1) - i) + 1
        BY <1>1, <3>2
      <4>2. Reverse(long)[i] = long[((Len(op) - i) + 1) + 1]
        BY <1>3, <4>1
      <4>3. long[((Len(op) - i) + 1) + 1] = op[(Len(op) - i) + 1]
        BY <1>1, <4>1
      <4>4. Append(Reverse(op), c)[i] = op[(Len(op) - i) + 1]
        BY <1>2, <4>1
      <4> QED
        BY <4>2, <4>3, <4>4
    <3> QED
      BY <3>1, <3>2
  <2>2. Append(Reverse(op), c) \in Seq(S) /\ Len(Append(Reverse(op), c)) = Len(op) + 1
    BY <1>2
  <2> QED
    BY <1>3, <2>1, <2>2, SeqEqual
<1>5. Invert(long) = Fold("invert", <<>>, Append(Reverse(op), c))
  BY <1>1, <1>4, InvertIsFold
<1>6. Fold("invert", <<>>, Append(Reverse(op), c))
        = AppendComponent(Fold("invert", <<>>, Reverse(op)), InvertComponent(c))
  BY <1>2, FoldAppend DEF Step
<1> QED
  BY <1>5, <1>6, InvertIsFold DEF long

-----------------------------------------------------------------------------
(***************************************************************************)
(* One component                                                           *)
(***************************************************************************)

\* What a user can make on a list: an insertion at any place, the deletion of
\* what is at a place, or, composing the two, a no-op.
Made(arr, V) ==
  {Insert(i, v) : i \in 0..Len(arr), v \in V}
  \cup {Delete(i, arr[i + 1]) : i \in 0..Len(arr) - 1}
  \cup {[kind |-> "noop", index |-> i, val |-> v] : i \in Nat, v \in V}

\* r is arr with v inserted at place i, or without what is there.
Inserted(r, arr, i, v, V) ==
  /\ r \in Seq(V) /\ Len(r) = Len(arr) + 1
  /\ \A k \in 1..i : r[k] = arr[k]
  /\ r[i + 1] = v
  /\ \A k \in i + 2..Len(arr) + 1 : r[k] = arr[k - 1]
Deleted(r, arr, i, V) ==
  /\ r \in Seq(V) /\ Len(r) = Len(arr) - 1
  /\ \A k \in 1..i : r[k] = arr[k]
  /\ \A k \in i + 1..Len(arr) - 1 : r[k] = arr[k + 1]

\* An insertion moves what is at its place and behind it (ApplyListInsert).
LEMMA InsertFacts ==
  ASSUME NEW V, NEW arr \in Seq(V), NEW i \in 0..Len(arr), NEW v \in V
  PROVE  Inserted(ApplyComponent(arr, Insert(i, v)), arr, i, v, V)
<1> DEFINE front == SubSeq(arr, 1, i)
           back == SubSeq(arr, i + 1, Len(arr))
           r == ApplyComponent(arr, Insert(i, v))
<1>1. Len(arr) \in Nat /\ \A k \in 1..Len(arr) : arr[k] \in V
  OBVIOUS
<1>2. r = (front \o <<v>>) \o back
  <2>1. r = InsertAt(arr, i + 1, v)
    BY DEF ApplyComponent, ApplyListInsert, Insert
  <2>2. (i + 1) - 1 = i
    OBVIOUS
  <2> QED
    BY <2>1, <2>2 DEF InsertAt
<1>3. front \in Seq(V) /\ Len(front) = i /\ \A k \in 1..i : front[k] = arr[k]
  BY <1>1, SubSeqProperties
<1>4. /\ back \in Seq(V) /\ Len(back) = Len(arr) - i
      /\ \A k \in 1..Len(arr) - i : back[k] = arr[i + k]
  BY <1>1, SubSeqProperties
<1>5. <<v>> \in Seq(V) /\ Len(<<v>>) = 1 /\ <<v>>[1] = v
  OBVIOUS
<1> HIDE DEF front, back, r
<1>6. /\ front \o <<v>> \in Seq(V) /\ Len(front \o <<v>>) = i + 1
      /\ \A k \in 1..i : (front \o <<v>>)[k] = arr[k]
      /\ (front \o <<v>>)[i + 1] = v
  BY <1>3, <1>5
<1> DEFINE most == front \o <<v>>
<1> HIDE DEF most
<1>7. /\ most \in Seq(V) /\ Len(most) = i + 1
      /\ \A k \in 1..i : most[k] = arr[k]
      /\ most[i + 1] = v /\ r = most \o back
  BY <1>2, <1>6 DEF most
<1>8. /\ r \in Seq(V) /\ Len(r) = Len(arr) + 1
      /\ \A k \in 1..i + 1 : r[k] = most[k]
      /\ \A k \in i + 2..Len(arr) + 1 : r[k] = back[k - (i + 1)]
  BY <1>1, <1>4, <1>7
<1>9. \A k \in i + 2..Len(arr) + 1 : r[k] = arr[k - 1]
  BY <1>1, <1>4, <1>8
<1> QED
  BY <1>7, <1>8, <1>9 DEF r, Inserted

\* A deletion finds its value where it was made, and moves what is behind it
\* (ApplyListDelete and its IndexFunc).
LEMMA DeleteFacts ==
  ASSUME NEW V, NEW arr \in Seq(V), NEW i \in 0..Len(arr) - 1
  PROVE  Deleted(ApplyComponent(arr, Delete(i, arr[i + 1])), arr, i, V)
<1> DEFINE front == SubSeq(arr, 1, i)
           back == SubSeq(arr, i + 2, Len(arr))
           r == ApplyComponent(arr, Delete(i, arr[i + 1]))
<1>1. Len(arr) \in Nat /\ \A k \in 1..Len(arr) : arr[k] \in V
  OBVIOUS
<1>2. r = front \o back
  <2>1. IndexFunc(arr, arr[i + 1], i) = i
    BY <1>1 DEF IndexFunc
  <2>2. r = RemoveAt(arr, i + 1)
    BY <2>1, <1>1 DEF ApplyComponent, ApplyListDelete, Delete
  <2>3. (i + 1) - 1 = i /\ (i + 1) + 1 = i + 2
    OBVIOUS
  <2> QED
    BY <2>2, <2>3 DEF RemoveAt
<1>3. front \in Seq(V) /\ Len(front) = i /\ \A k \in 1..i : front[k] = arr[k]
  BY <1>1, SubSeqProperties
<1>4. /\ back \in Seq(V) /\ Len(back) = Len(arr) - 1 - i
      /\ \A k \in 1..Len(arr) - 1 - i : back[k] = arr[i + 1 + k]
  BY <1>1, SubSeqProperties
<1> HIDE DEF front, back, r
<1>5. /\ r \in Seq(V) /\ Len(r) = Len(arr) - 1
      /\ \A k \in 1..i : r[k] = front[k]
      /\ \A k \in i + 1..Len(arr) - 1 : r[k] = back[k - i]
  <2>1. Len(front) + Len(back) = Len(arr) - 1
    BY <1>1, <1>3, <1>4
  <2>2. r \in Seq(V) /\ Len(r) = Len(front) + Len(back)
    BY <1>2, <1>3, <1>4
  <2>3. \A k \in 1..Len(front) + Len(back) :
          r[k] = IF k <= Len(front) THEN front[k] ELSE back[k - Len(front)]
    BY <1>2, <1>3, <1>4
  <2>4. i \in Nat /\ i <= Len(arr) - 1
    BY <1>1
  <2> QED
    BY <1>1, <1>3, <2>1, <2>2, <2>3, <2>4
<1>6. \A k \in i + 1..Len(arr) - 1 : r[k] = arr[k + 1]
  BY <1>1, <1>4, <1>5
<1> QED
  BY <1>3, <1>5, <1>6 DEF r, Deleted

\* A no-op changes nothing.
LEMMA NoopFacts ==
  ASSUME NEW arr, NEW c, c.kind = "noop"
  PROVE  ApplyComponent(arr, c) = arr
  BY DEF ApplyComponent

-----------------------------------------------------------------------------
(***************************************************************************)
(* Two components: in one order and, moved, in the other                   *)
(***************************************************************************)

\* The insertion in front moves the one behind it.
LEMMA InsertInsert ==
  ASSUME NEW V, NEW arr \in Seq(V), NEW i \in 0..Len(arr), NEW j \in 0..Len(arr),
         NEW v \in V, NEW w \in V, i <= j
  PROVE  ApplyComponent(ApplyComponent(arr, Insert(i, v)), Insert(j + 1, w))
           = ApplyComponent(ApplyComponent(arr, Insert(j, w)), Insert(i, v))
<1> DEFINE a == ApplyComponent(arr, Insert(i, v))
           b == ApplyComponent(arr, Insert(j, w))
           ab == ApplyComponent(a, Insert(j + 1, w))
           ba == ApplyComponent(b, Insert(i, v))
<1>0. Len(arr) \in Nat /\ i \in Nat /\ j \in Nat
  OBVIOUS
<1>1. Inserted(a, arr, i, v, V)
  BY InsertFacts
<1>2. Inserted(b, arr, j, w, V)
  BY InsertFacts
<1> HIDE DEF a, b
<1>3. j + 1 \in 0..Len(a) /\ i \in 0..Len(b)
  BY <1>0, <1>1, <1>2 DEF Inserted, Deleted
<1>a. a \in Seq(V) /\ b \in Seq(V)
  BY <1>1, <1>2 DEF Inserted, Deleted
<1>4. Inserted(ab, a, j + 1, w, V)
  BY <1>3, <1>a, InsertFacts
<1>5. Inserted(ba, b, i, v, V)
  BY <1>3, <1>a, InsertFacts
<1> HIDE DEF ab, ba
<1> USE DEF Inserted, Deleted
<1>b. /\ ab \in Seq(V) /\ Len(ab) = Len(arr) + 2
      /\ ba \in Seq(V) /\ Len(ba) = Len(arr) + 2
  BY <1>0, <1>1, <1>2, <1>4, <1>5
<1>6. \A k \in 1..Len(ab) : ab[k] = ba[k]
  <2> SUFFICES ASSUME NEW k \in 1..Len(arr) + 2 PROVE ab[k] = ba[k]
    BY <1>b
  <2>1. CASE k <= i
    BY <1>0, <1>1, <1>2, <1>4, <1>5, <2>1
  <2>2. CASE k = i + 1
    BY <1>0, <1>1, <1>2, <1>4, <1>5, <2>2
  <2>3. CASE i + 1 < k /\ k < j + 2
    <3>1. k - 1 \in 1..j /\ k \in 1..j + 1 /\ k \in i + 2..Len(arr) + 1
      BY <1>0, <2>3
    <3> QED
      BY <1>0, <1>1, <1>2, <1>4, <1>5, <3>1
  <2>4. CASE k = j + 2
    BY <1>0, <1>1, <1>2, <1>4, <1>5, <2>4
  <2>5. CASE j + 2 < k
    <3>1. k \in j + 3..Len(arr) + 2 /\ k - 1 \in i + 2..Len(arr) + 1
          /\ k - 1 \in j + 2..Len(arr) + 1 /\ k \in i + 2..Len(arr) + 2
          /\ Len(arr) + 2 = (Len(arr) + 1) + 1 /\ (j + 1) + 2 = j + 3
      BY <1>0, <2>5
    <3>2. a[k - 1] = arr[(k - 1) - 1]
      BY <1>1, <3>1
    <3>3. b[k - 1] = arr[(k - 1) - 1]
      BY <1>2, <3>1
    <3>4. ab[k] = a[k - 1]
      BY <1>1, <1>4, <3>1
    <3>5. ba[k] = b[k - 1]
      BY <1>2, <1>5, <3>1
    <3> QED
      BY <3>2, <3>3, <3>4, <3>5
  <2>9. (k <= i) \/ (k = i + 1) \/ (i + 1 < k /\ k < j + 2) \/ (k = j + 2) \/ (j + 2 < k)
    BY <1>0
  <2> QED
    BY <2>1, <2>2, <2>3, <2>4, <2>5, <2>9
<1> QED
  <2>1. ab = ba
    <3> HIDE DEF Inserted, Deleted
    <3> QED
      BY <1>6, <1>b, SeqEqual
  <2> QED
    BY <2>1 DEF ab, ba, a, b

\* An insertion moves a deletion at its place or behind it, ...
LEMMA InsertDelete ==
  ASSUME NEW V, NEW arr \in Seq(V), NEW i \in 0..Len(arr), NEW j \in 0..Len(arr) - 1,
         NEW v \in V, i <= j
  PROVE  ApplyComponent(ApplyComponent(arr, Insert(i, v)), Delete(j + 1, arr[j + 1]))
           = ApplyComponent(ApplyComponent(arr, Delete(j, arr[j + 1])), Insert(i, v))
<1> DEFINE a == ApplyComponent(arr, Insert(i, v))
           b == ApplyComponent(arr, Delete(j, arr[j + 1]))
           ab == ApplyComponent(a, Delete(j + 1, arr[j + 1]))
           ba == ApplyComponent(b, Insert(i, v))
<1>0. Len(arr) \in Nat /\ i \in Nat /\ j \in Nat
  OBVIOUS
<1>1. Inserted(a, arr, i, v, V)
  BY InsertFacts
<1>2. Deleted(b, arr, j, V)
  BY DeleteFacts
<1> HIDE DEF a, b
<1>3. j + 1 \in 0..Len(a) - 1 /\ i \in 0..Len(b) /\ (j + 1) + 1 = j + 2 /\ a[j + 2] = arr[j + 1]
  BY <1>0, <1>1, <1>2 DEF Inserted, Deleted
<1>a. a \in Seq(V) /\ b \in Seq(V)
  BY <1>1, <1>2 DEF Inserted, Deleted
<1>4. Deleted(ab, a, j + 1, V)
  <2>1. ab = ApplyComponent(a, Delete(j + 1, a[(j + 1) + 1]))
    BY <1>3
  <2> QED
    BY <1>3, <1>a, <2>1, DeleteFacts
<1>5. Inserted(ba, b, i, v, V)
  BY <1>3, <1>a, InsertFacts
<1> HIDE DEF ab, ba
<1> USE DEF Inserted, Deleted
<1>b. /\ ab \in Seq(V) /\ Len(ab) = Len(arr)
      /\ ba \in Seq(V) /\ Len(ba) = Len(arr)
  BY <1>0, <1>1, <1>2, <1>4, <1>5
<1>6. \A k \in 1..Len(ab) : ab[k] = ba[k]
  <2> SUFFICES ASSUME NEW k \in 1..Len(arr) PROVE ab[k] = ba[k]
    BY <1>b
  <2>1. CASE k <= i
    BY <1>0, <1>1, <1>2, <1>4, <1>5, <2>1
  <2>2. CASE k = i + 1
    BY <1>0, <1>1, <1>2, <1>4, <1>5, <2>2
  <2>3. CASE i + 1 < k /\ k < j + 2
    <3>1. k - 1 \in 1..j /\ k \in 1..j + 1 /\ k \in i + 2..Len(arr) + 1 /\ k \in i + 2..Len(arr)
      BY <1>0, <2>3
    <3> QED
      BY <1>0, <1>1, <1>2, <1>4, <1>5, <3>1
  <2>4. CASE j + 2 <= k
    <3>1. k \in j + 2..Len(arr) /\ k + 1 \in i + 2..Len(arr) + 1 /\ (k + 1) - 1 = k
          /\ k \in i + 2..Len(arr) /\ k - 1 \in j + 1..Len(arr) - 1 /\ (k - 1) + 1 = k
          /\ Len(arr) = (Len(arr) + 1) - 1 /\ Len(arr) = (Len(arr) - 1) + 1 /\ (j + 1) + 1 = j + 2
      BY <1>0, <2>4
    <3>2. a[k + 1] = arr[k]
      BY <1>1, <3>1
    <3>3. b[k - 1] = arr[k]
      BY <1>2, <3>1
    <3>4. ab[k] = a[k + 1]
      BY <1>1, <1>4, <3>1
    <3>5. ba[k] = b[k - 1]
      BY <1>2, <1>5, <3>1
    <3> QED
      BY <3>2, <3>3, <3>4, <3>5
  <2>9. (k <= i) \/ (k = i + 1) \/ (i + 1 < k /\ k < j + 2) \/ (j + 2 <= k)
    BY <1>0
  <2> QED
    BY <2>1, <2>2, <2>3, <2>4, <2>9
<1> QED
  <2>1. ab = ba
    <3> HIDE DEF Inserted, Deleted
    <3> QED
      BY <1>6, <1>b, SeqEqual
  <2> QED
    BY <2>1 DEF ab, ba, a, b

\* ... and a deletion moves an insertion behind it.
LEMMA DeleteInsert ==
  ASSUME NEW V, NEW arr \in Seq(V), NEW i \in 0..Len(arr), NEW j \in 0..Len(arr) - 1,
         NEW v \in V, j < i
  PROVE  ApplyComponent(ApplyComponent(arr, Insert(i, v)), Delete(j, arr[j + 1]))
           = ApplyComponent(ApplyComponent(arr, Delete(j, arr[j + 1])), Insert(i - 1, v))
<1> DEFINE a == ApplyComponent(arr, Insert(i, v))
           b == ApplyComponent(arr, Delete(j, arr[j + 1]))
           ab == ApplyComponent(a, Delete(j, arr[j + 1]))
           ba == ApplyComponent(b, Insert(i - 1, v))
<1>0. Len(arr) \in Nat /\ i \in Nat /\ j \in Nat
  OBVIOUS
<1>1. Inserted(a, arr, i, v, V)
  BY InsertFacts
<1>2. Deleted(b, arr, j, V)
  BY DeleteFacts
<1> HIDE DEF a, b
<1>3. j \in 0..Len(a) - 1 /\ i - 1 \in 0..Len(b) /\ a[j + 1] = arr[j + 1]
  BY <1>0, <1>1, <1>2 DEF Inserted, Deleted
<1>a. a \in Seq(V) /\ b \in Seq(V)
  BY <1>1, <1>2 DEF Inserted, Deleted
<1>4. Deleted(ab, a, j, V)
  <2>1. ab = ApplyComponent(a, Delete(j, a[j + 1]))
    BY <1>3
  <2> QED
    BY <1>3, <1>a, <2>1, DeleteFacts
<1>5. Inserted(ba, b, i - 1, v, V)
  BY <1>3, <1>a, InsertFacts
<1> HIDE DEF ab, ba
<1> USE DEF Inserted, Deleted
<1>b. /\ ab \in Seq(V) /\ Len(ab) = Len(arr)
      /\ ba \in Seq(V) /\ Len(ba) = Len(arr)
  BY <1>0, <1>1, <1>2, <1>4, <1>5
<1>6. \A k \in 1..Len(ab) : ab[k] = ba[k]
  <2> SUFFICES ASSUME NEW k \in 1..Len(arr) PROVE ab[k] = ba[k]
    BY <1>b
  <2>1. CASE k <= j
    BY <1>0, <1>1, <1>2, <1>4, <1>5, <2>1
  <2>2. CASE j < k /\ k < i
    <3>1. k \in j + 1..Len(arr) /\ k + 1 \in 1..i /\ k \in 1..i - 1 /\ k \in j + 1..Len(arr) - 1
      BY <1>0, <2>2
    <3> QED
      BY <1>1, <1>2, <1>4, <1>5, <3>1
  <2>3. CASE k = i
    BY <1>0, <1>1, <1>2, <1>4, <1>5, <2>3
  <2>4. CASE i < k
    <3>1. k \in j + 1..Len(arr) /\ k + 1 \in i + 2..Len(arr) + 1 /\ (k + 1) - 1 = k
          /\ k \in i + 1..Len(arr) /\ k - 1 \in j + 1..Len(arr) - 1 /\ (k - 1) + 1 = k
          /\ Len(arr) = (Len(arr) + 1) - 1 /\ Len(arr) = (Len(arr) - 1) + 1 /\ (i - 1) + 2 = i + 1
      BY <1>0, <2>4
    <3>2. a[k + 1] = arr[k]
      BY <1>1, <3>1
    <3>3. b[k - 1] = arr[k]
      BY <1>2, <3>1
    <3>4. ab[k] = a[k + 1]
      BY <1>1, <1>4, <3>1
    <3>5. ba[k] = b[k - 1]
      BY <1>2, <1>5, <3>1
    <3> QED
      BY <3>2, <3>3, <3>4, <3>5
  <2>9. (k <= j) \/ (j < k /\ k < i) \/ (k = i) \/ (i < k)
    BY <1>0
  <2> QED
    BY <2>1, <2>2, <2>3, <2>4, <2>9
<1> QED
  <2>1. ab = ba
    <3> HIDE DEF Inserted, Deleted
    <3> QED
      BY <1>6, <1>b, SeqEqual
  <2> QED
    BY <2>1 DEF ab, ba, a, b

\* The deletion in front moves the one behind it.
LEMMA DeleteDelete ==
  ASSUME NEW V, NEW arr \in Seq(V), NEW i \in 0..Len(arr) - 1, NEW j \in 0..Len(arr) - 1, i < j
  PROVE  ApplyComponent(ApplyComponent(arr, Delete(i, arr[i + 1])), Delete(j - 1, arr[j + 1]))
           = ApplyComponent(ApplyComponent(arr, Delete(j, arr[j + 1])), Delete(i, arr[i + 1]))
<1> DEFINE a == ApplyComponent(arr, Delete(i, arr[i + 1]))
           b == ApplyComponent(arr, Delete(j, arr[j + 1]))
           ab == ApplyComponent(a, Delete(j - 1, arr[j + 1]))
           ba == ApplyComponent(b, Delete(i, arr[i + 1]))
<1>0. Len(arr) \in Nat /\ i \in Nat /\ j \in Nat
  OBVIOUS
<1>1. Deleted(a, arr, i, V)
  BY DeleteFacts
<1>2. Deleted(b, arr, j, V)
  BY DeleteFacts
<1> HIDE DEF a, b
<1>3. /\ j - 1 \in 0..Len(a) - 1 /\ i \in 0..Len(b) - 1 /\ (j - 1) + 1 = j
      /\ a[j] = arr[j + 1] /\ b[i + 1] = arr[i + 1]
  <2>1. /\ j \in i + 1..Len(arr) - 1 /\ i + 1 \in 1..j /\ (j - 1) + 1 = j
        /\ Len(arr) - 2 \in Nat /\ j - 1 <= Len(arr) - 2 /\ i <= Len(arr) - 2
    BY <1>0
  <2> QED
    BY <1>0, <1>1, <1>2, <2>1 DEF Inserted, Deleted
<1>a. a \in Seq(V) /\ b \in Seq(V)
  BY <1>1, <1>2 DEF Inserted, Deleted
<1>4. Deleted(ab, a, j - 1, V)
  <2>1. ab = ApplyComponent(a, Delete(j - 1, a[(j - 1) + 1]))
    BY <1>3
  <2> QED
    BY <1>3, <1>a, <2>1, DeleteFacts
<1>5. Deleted(ba, b, i, V)
  <2>1. ba = ApplyComponent(b, Delete(i, b[i + 1]))
    BY <1>3
  <2> QED
    BY <1>3, <1>a, <2>1, DeleteFacts
<1> HIDE DEF ab, ba
<1> USE DEF Inserted, Deleted
<1>b. /\ ab \in Seq(V) /\ Len(ab) = Len(arr) - 2
      /\ ba \in Seq(V) /\ Len(ba) = Len(arr) - 2
  BY <1>0, <1>1, <1>2, <1>4, <1>5
<1>6. \A k \in 1..Len(ab) : ab[k] = ba[k]
  <2> SUFFICES ASSUME NEW k \in 1..Len(arr) - 2 PROVE ab[k] = ba[k]
    BY <1>b
  <2>1. CASE k <= i
    BY <1>0, <1>1, <1>2, <1>4, <1>5, <2>1
  <2>2. CASE i < k /\ k < j
    <3>1. k \in 1..j - 1 /\ k \in i + 1..Len(arr) - 1 /\ k \in i + 1..Len(arr) - 2 /\ k + 1 \in 1..j
      BY <1>0, <2>2
    <3> QED
      BY <1>1, <1>2, <1>4, <1>5, <3>1
  <2>3. CASE j <= k
    <3>1. k \in j..Len(arr) - 2 /\ k + 1 \in i + 1..Len(arr) - 1
          /\ k \in i + 1..Len(arr) - 2 /\ k + 1 \in j + 1..Len(arr) - 1
      BY <1>0, <2>3
    <3> QED
      BY <1>1, <1>2, <1>4, <1>5, <3>1
  <2>9. (k <= i) \/ (i < k /\ k < j) \/ (j <= k)
    BY <1>0
  <2> QED
    BY <2>1, <2>2, <2>3, <2>9
<1> QED
  <2>1. ab = ba
    <3> HIDE DEF Inserted, Deleted
    <3> QED
      BY <1>6, <1>b, SeqEqual
  <2> QED
    BY <2>1 DEF ab, ba, a, b

-----------------------------------------------------------------------------
(***************************************************************************)
(* Convergence                                                             *)
(***************************************************************************)

\* An operation of one component does what its component does.
LEMMA ApplyOne == ASSUME NEW arr, NEW c PROVE Apply(arr, <<c>>) = ApplyComponent(arr, c)
<1>1. <<>> \in Seq({c}) /\ c \in {c} /\ Append(<<>>, c) = <<c>>
  OBVIOUS
<1>2. Apply(arr, Append(<<>>, c)) = ApplyComponent(Apply(arr, <<>>), c)
  BY <1>1, ApplyAppend
<1> QED
  BY <1>1, <1>2, ApplyNothing

\* The components a user makes are insertions, deletions and no-ops.
LEMMA MadeIs ==
  ASSUME NEW V, NEW arr \in Seq(V), NEW c \in Made(arr, V)
  PROVE  \/ c.kind = "noop"
         \/ \E i \in 0..Len(arr), v \in V : c = Insert(i, v)
         \/ \E i \in 0..Len(arr) - 1 : c = Delete(i, arr[i + 1])
  BY DEF Made

\* They leave a list of the same kind of values.
LEMMA ApplyMade ==
  ASSUME NEW V, NEW arr \in Seq(V), NEW c \in Made(arr, V)
  PROVE  ApplyComponent(arr, c) \in Seq(V)
<1>1. CASE c.kind = "noop"
  BY <1>1, NoopFacts
<1>2. ASSUME NEW i \in 0..Len(arr), NEW v \in V, c = Insert(i, v)
      PROVE  ApplyComponent(arr, c) \in Seq(V)
  <2>1. Inserted(ApplyComponent(arr, c), arr, i, v, V)
    BY <1>2, InsertFacts
  <2> QED
    BY <2>1 DEF Inserted
<1>3. ASSUME NEW i \in 0..Len(arr) - 1, c = Delete(i, arr[i + 1])
      PROVE  ApplyComponent(arr, c) \in Seq(V)
  <2>1. Deleted(ApplyComponent(arr, c), arr, i, V)
    BY <1>3, DeleteFacts
  <2> QED
    BY <2>1 DEF Deleted
<1> QED
  BY <1>1, <1>2, <1>3, MadeIs

\* The deletion of what is at a place can be made.
LEMMA DeleteIsMade ==
  ASSUME NEW V, NEW arr, NEW i \in 0..Len(arr) - 1
  PROVE  Delete(i, arr[i + 1]) \in Made(arr, V)
  BY DEF Made

\* An insertion over an insertion, from either side.
LEMMA InsertOverInsert ==
  ASSUME NEW i \in Nat, NEW j \in Nat, NEW v, NEW w, NEW side
  PROVE  TransformComponent(Insert(i, v), Insert(j, w), side)
           = IF j < i \/ (i = j /\ side = "right") THEN <<Insert(i + 1, v)>>
             ELSE <<Insert(i, v)>>
  BY DEF TransformComponent, TransformComponentForListInsert, Insert, Shift

\* An insertion over a deletion, and a deletion over an insertion.
LEMMA InsertOverDelete ==
  ASSUME NEW i \in Nat, NEW j \in Nat, NEW v, NEW w, NEW side
  PROVE  /\ TransformComponent(Insert(i, v), Delete(j, w), side)
              = IF j < i THEN <<Insert(i - 1, v)>> ELSE <<Insert(i, v)>>
         /\ TransformComponent(Delete(j, w), Insert(i, v), side)
              = IF i <= j THEN <<Delete(j + 1, w)>> ELSE <<Delete(j, w)>>
  BY DEF TransformComponent, TransformComponentForListInsert, TransformComponentForListDelete,
         Insert, Delete, Shift

\* A deletion over a deletion.
LEMMA DeleteOverDelete ==
  ASSUME NEW i \in Nat, NEW j \in Nat, NEW v, NEW w, NEW side
  PROVE  TransformComponent(Delete(i, v), Delete(j, w), side)
           = IF i = j THEN <<>> ELSE IF j < i THEN <<Delete(i - 1, v)>> ELSE <<Delete(i, v)>>
  BY DEF TransformComponent, TransformComponentForListDelete, Delete, Shift

\* Two users who each make one component on a list and apply what Transform
\* leaves of the other's come to the same list, whatever the list and wherever
\* they edit it: the submitted one is the left side (Transformer.Transform).
THEOREM ListConverges ==
  ASSUME NEW V, NEW arr \in Seq(V), NEW new \in Made(arr, V), NEW base \in Made(arr, V)
  PROVE  Apply(Apply(arr, <<base>>), Transform(<<new>>, <<base>>))
           = Apply(Apply(arr, <<new>>), TransformComponent(base, new, "right"))
<1>t. Transform(<<new>>, <<base>>) = TransformComponent(new, base, "left")
  BY DEF Transform, IsEmpty, NoOperation
<1> DEFINE Same(x, y) == Apply(Apply(arr, <<base>>), x) = Apply(Apply(arr, <<new>>), y)
<1>0. Len(arr) \in Nat /\ \A k \in 0..Len(arr) : k \in Nat /\ \A i \in 0..Len(arr) - 1 : i \in Nat
  OBVIOUS
<1>1. CASE new.kind = "noop" \/ base.kind = "noop"
  <2>1. TransformComponent(new, base, "left") = <<new>>
        /\ TransformComponent(base, new, "right") = <<base>>
    BY <1>1 DEF TransformComponent
  <2>2. \A r : new.kind = "noop" => ApplyComponent(r, new) = r
    BY NoopFacts
  <2>3. \A r : base.kind = "noop" => ApplyComponent(r, base) = r
    BY NoopFacts
  <2>4. Same(<<new>>, <<base>>)
    BY <1>1, <2>2, <2>3, ApplyOne
  <2> QED
    BY <1>t, <2>1, <2>4
<1>2. ASSUME NEW i \in 0..Len(arr), NEW v \in V, new = Insert(i, v),
             NEW j \in 0..Len(arr), NEW w \in V, base = Insert(j, w)
      PROVE  Same(TransformComponent(new, base, "left"), TransformComponent(base, new, "right"))
  <2>1. CASE i <= j
    <3>1. TransformComponent(new, base, "left") = <<Insert(i, v)>>
          /\ TransformComponent(base, new, "right") = <<Insert(j + 1, w)>>
      BY <1>0, <1>2, <2>1, InsertOverInsert
    <3> QED
      BY <1>2, <2>1, <3>1, InsertInsert, ApplyOne
  <2>2. CASE j < i
    <3>1. TransformComponent(new, base, "left") = <<Insert(i + 1, v)>>
          /\ TransformComponent(base, new, "right") = <<Insert(j, w)>>
      BY <1>0, <1>2, <2>2, InsertOverInsert
    <3>2. j <= i
      BY <1>0, <2>2
    <3> QED
      BY <1>2, <3>1, <3>2, InsertInsert, ApplyOne
  <2> QED
    BY <1>0, <2>1, <2>2
<1>3. ASSUME NEW i \in 0..Len(arr), NEW v \in V, new = Insert(i, v),
             NEW j \in 0..Len(arr) - 1, base = Delete(j, arr[j + 1])
      PROVE  Same(TransformComponent(new, base, "left"), TransformComponent(base, new, "right"))
  <2>1. CASE i <= j
    <3>1. TransformComponent(new, base, "left") = <<Insert(i, v)>>
          /\ TransformComponent(base, new, "right") = <<Delete(j + 1, arr[j + 1])>>
      BY <1>0, <1>3, <2>1, InsertOverDelete
    <3> QED
      BY <1>3, <2>1, <3>1, InsertDelete, ApplyOne
  <2>2. CASE j < i
    <3>1. TransformComponent(new, base, "left") = <<Insert(i - 1, v)>>
          /\ TransformComponent(base, new, "right") = <<Delete(j, arr[j + 1])>>
      BY <1>0, <1>3, <2>2, InsertOverDelete
    <3> QED
      BY <1>3, <2>2, <3>1, DeleteInsert, ApplyOne
  <2> QED
    BY <1>0, <2>1, <2>2
<1>4. ASSUME NEW i \in 0..Len(arr) - 1, new = Delete(i, arr[i + 1]),
             NEW j \in 0..Len(arr), NEW w \in V, base = Insert(j, w)
      PROVE  Same(TransformComponent(new, base, "left"), TransformComponent(base, new, "right"))
  <2>1. CASE j <= i
    <3>1. TransformComponent(new, base, "left") = <<Delete(i + 1, arr[i + 1])>>
          /\ TransformComponent(base, new, "right") = <<Insert(j, w)>>
      BY <1>0, <1>4, <2>1, InsertOverDelete
    <3> QED
      BY <1>4, <2>1, <3>1, InsertDelete, ApplyOne
  <2>2. CASE i < j
    <3>1. TransformComponent(new, base, "left") = <<Delete(i, arr[i + 1])>>
          /\ TransformComponent(base, new, "right") = <<Insert(j - 1, w)>>
      BY <1>0, <1>4, <2>2, InsertOverDelete
    <3> QED
      BY <1>4, <2>2, <3>1, DeleteInsert, ApplyOne
  <2> QED
    BY <1>0, <2>1, <2>2
<1>5. ASSUME NEW i \in 0..Len(arr) - 1, new = Delete(i, arr[i + 1]),
             NEW j \in 0..Len(arr) - 1, base = Delete(j, arr[j + 1])
      PROVE  Same(TransformComponent(new, base, "left"), TransformComponent(base, new, "right"))
  <2>1. CASE i = j
    <3>1. TransformComponent(new, base, "left") = <<>>
          /\ TransformComponent(base, new, "right") = <<>>
      BY <1>0, <1>5, <2>1, DeleteOverDelete
    <3> QED
      BY <1>5, <2>1, <3>1
  <2>2. CASE i < j
    <3>1. TransformComponent(new, base, "left") = <<Delete(i, arr[i + 1])>>
          /\ TransformComponent(base, new, "right") = <<Delete(j - 1, arr[j + 1])>>
      BY <1>0, <1>5, <2>2, DeleteOverDelete
    <3> QED
      BY <1>5, <2>2, <3>1, DeleteDelete, ApplyOne
  <2>3. CASE j < i
    <3>1. TransformComponent(new, base, "left") = <<Delete(i - 1, arr[i + 1])>>
          /\ TransformComponent(base, new, "right") = <<Delete(j, arr[j + 1])>>
      BY <1>0, <1>5, <2>3, DeleteOverDelete
    <3> QED
      BY <1>5, <2>3, <3>1, DeleteDelete, ApplyOne
  <2> QED
    BY <1>0, <2>1, <2>2, <2>3
<1> QED
  BY <1>t, <1>1, <1>2, <1>3, <1>4, <1>5, MadeIs

\* What Transform leaves of a component is one that a user could have made on the
\* list the other one leads to, so that it can be applied, undone and transformed
\* there in its turn; or it is nothing, when both deleted the same value.
THEOREM RebasedIsMade ==
  ASSUME NEW V, NEW arr \in Seq(V), NEW new \in Made(arr, V), NEW base \in Made(arr, V), NEW side
  PROVE  \/ TransformComponent(new, base, side) = <<>>
         \/ \E c \in Made(Apply(arr, <<base>>), V) : TransformComponent(new, base, side) = <<c>>
<1> DEFINE r == ApplyComponent(arr, base)
           cs == TransformComponent(new, base, side)
           Ok == cs = <<>> \/ \E c \in Made(r, V) : cs = <<c>>
<1>0. /\ Len(arr) \in Nat /\ \A k \in 1..Len(arr) : arr[k] \in V
      /\ \A k \in 0..Len(arr) : k \in Nat /\ \A i \in 0..Len(arr) - 1 : i \in Nat
      /\ r = Apply(arr, <<base>>)
  BY ApplyOne
<1>1. CASE base.kind = "noop"
  <2>1. cs = <<new>> /\ r = arr
    BY <1>1, NoopFacts DEF TransformComponent
  <2> QED
    BY <2>1, <1>0
<1>2. CASE new.kind = "noop"
  <2>1. cs = <<new>>
    BY <1>2 DEF TransformComponent
  <2>2. \A i, x : Insert(i, x).kind = "li" /\ Delete(i, x).kind = "ld"
    BY DEF Insert, Delete
  <2>3. new \in {[kind |-> "noop", index |-> i, val |-> v] : i \in Nat, v \in V}
    BY <1>2, <2>2 DEF Made
  <2>4. new \in Made(r, V)
    BY <2>3 DEF Made
  <2> QED
    BY <1>0, <2>1, <2>4
<1>3. ASSUME NEW j \in 0..Len(arr), NEW w \in V, base = Insert(j, w) PROVE Ok
  <2>1. Inserted(r, arr, j, w, V)
    BY <1>3, InsertFacts
  <2>2. /\ r \in Seq(V) /\ Len(r) = Len(arr) + 1
        /\ \A k \in 1..j : r[k] = arr[k]
        /\ \A k \in j + 2..Len(arr) + 1 : r[k] = arr[k - 1]
    BY <2>1 DEF Inserted
  <2> HIDE DEF r, cs
  <2>3. ASSUME NEW i \in 0..Len(arr), NEW v \in V, new = Insert(i, v) PROVE Ok
    <3>1. cs = <<Insert(i + 1, v)>> \/ cs = <<Insert(i, v)>>
      BY <1>0, <1>3, <2>3, InsertOverInsert DEF cs
    <3>2. i + 1 \in 0..Len(r) /\ i \in 0..Len(r)
      BY <1>0, <2>2
    <3>3. Insert(i + 1, v) \in Made(r, V) /\ Insert(i, v) \in Made(r, V)
      BY <3>2 DEF Made
    <3> QED
      BY <3>1, <3>3
  <2>4. ASSUME NEW i \in 0..Len(arr) - 1, new = Delete(i, arr[i + 1]) PROVE Ok
    <3>1. CASE j <= i
      <4>1. cs = <<Delete(i + 1, arr[i + 1])>>
        BY <1>0, <1>3, <2>4, <3>1, InsertOverDelete DEF cs
      <4>2. i + 2 \in j + 2..Len(arr) + 1 /\ (i + 2) - 1 = i + 1 /\ (i + 1) + 1 = i + 2
            /\ i + 1 \in 0..Len(r) - 1
        BY <1>0, <2>2, <3>1
      <4>3. r[(i + 1) + 1] = arr[i + 1]
        BY <2>2, <4>2
      <4>4. Delete(i + 1, r[(i + 1) + 1]) \in Made(r, V)
        BY <4>2, DeleteIsMade
      <4> QED
        BY <4>1, <4>3, <4>4
    <3>2. CASE i < j
      <4>1. cs = <<Delete(i, arr[i + 1])>>
        BY <1>0, <1>3, <2>4, <3>2, InsertOverDelete DEF cs
      <4>2. i + 1 \in 1..j /\ i \in 0..Len(r) - 1
        BY <1>0, <2>2, <3>2
      <4>3. r[i + 1] = arr[i + 1]
        BY <2>2, <4>2
      <4>4. Delete(i, r[i + 1]) \in Made(r, V)
        BY <4>2, DeleteIsMade
      <4> QED
        BY <4>1, <4>3, <4>4
    <3> QED
      BY <1>0, <3>1, <3>2
  <2> QED
    BY <1>2, <2>3, <2>4, MadeIs, <1>0 DEF cs, r
<1>4. ASSUME NEW j \in 0..Len(arr) - 1, base = Delete(j, arr[j + 1]) PROVE Ok
  <2>1. Deleted(r, arr, j, V)
    BY <1>4, DeleteFacts
  <2>2. /\ r \in Seq(V) /\ Len(r) = Len(arr) - 1
        /\ \A k \in 1..j : r[k] = arr[k]
        /\ \A k \in j + 1..Len(arr) - 1 : r[k] = arr[k + 1]
    BY <2>1 DEF Deleted
  <2> HIDE DEF r, cs
  <2>3. ASSUME NEW i \in 0..Len(arr), NEW v \in V, new = Insert(i, v) PROVE Ok
    <3>1. CASE j < i
      <4>1. cs = <<Insert(i - 1, v)>>
        BY <1>0, <1>4, <2>3, <3>1, InsertOverDelete DEF cs
      <4>2. i - 1 \in 0..Len(r)
        BY <1>0, <2>2, <3>1
      <4>3. Insert(i - 1, v) \in Made(r, V)
        BY <4>2 DEF Made
      <4> QED
        BY <4>1, <4>3
    <3>2. CASE i <= j
      <4>1. cs = <<Insert(i, v)>>
        BY <1>0, <1>4, <2>3, <3>2, InsertOverDelete DEF cs
      <4>2. i \in 0..Len(r)
        BY <1>0, <2>2, <3>2
      <4>3. Insert(i, v) \in Made(r, V)
        BY <4>2 DEF Made
      <4> QED
        BY <4>1, <4>3
    <3> QED
      BY <1>0, <3>1, <3>2
  <2>4. ASSUME NEW i \in 0..Len(arr) - 1, new = Delete(i, arr[i + 1]) PROVE Ok
    <3>1. CASE i = j
      BY <1>0, <1>4, <2>4, <3>1, DeleteOverDelete DEF cs
    <3>2. CASE j < i
      <4>1. cs = <<Delete(i - 1, arr[i + 1])>>
        BY <1>0, <1>4, <2>4, <3>2, DeleteOverDelete DEF cs
      <4>2. i \in j + 1..Len(arr) - 1 /\ (i - 1) + 1 = i /\ i - 1 \in 0..Len(r) - 1
        BY <1>0, <2>2, <3>2
      <4>3. r[(i - 1) + 1] = arr[i + 1]
        BY <2>2, <4>2
      <4>4. Delete(i - 1, r[(i - 1) + 1]) \in Made(r, V)
        BY <4>2, DeleteIsMade
      <4> QED
        BY <4>1, <4>3, <4>4
    <3>3. CASE i < j
      <4>1. cs = <<Delete(i, arr[i + 1])>>
        BY <1>0, <1>4, <2>4, <3>3, DeleteOverDelete DEF cs
      <4>2. i + 1 \in 1..j /\ i \in 0..Len(r) - 1
        BY <1>0, <2>2, <3>3
      <4>3. r[i + 1] = arr[i + 1]
        BY <2>2, <4>2
      <4>4. Delete(i, r[i + 1]) \in Made(r, V)
        BY <4>2, DeleteIsMade
      <4> QED
        BY <4>1, <4>3, <4>4
    <3> QED
      BY <1>0, <3>1, <3>2, <3>3
  <2> QED
    BY <1>2, <2>3, <2>4, MadeIs, <1>0 DEF cs, r
<1> HIDE DEF r, cs
<1>5. Ok
  BY <1>1, <1>2, <1>3, <1>4, MadeIs, <1>0 DEF cs, r
<1> QED
  BY <1>0, <1>5 DEF cs, r

-----------------------------------------------------------------------------
(***************************************************************************)
(* Operations of several components                                        *)
(***************************************************************************)

\* All components there are, whatever list they may fit.
Components(V) == [kind : {"li", "ld", "noop"}, index : Nat, val : V]

\* Those that can be made on a list are among them.
LEMMA MadeIsComponent ==
  ASSUME NEW V, NEW arr \in Seq(V) PROVE Made(arr, V) \subseteq Components(V)
<1> SUFFICES ASSUME NEW c \in Made(arr, V) PROVE c \in Components(V)
  OBVIOUS
<1>1. Len(arr) \in Nat /\ \A k \in 1..Len(arr) : arr[k] \in V
  OBVIOUS
<1>2. ASSUME NEW i \in 0..Len(arr), NEW v \in V, c = Insert(i, v) PROVE c \in Components(V)
  BY <1>1, <1>2 DEF Insert, Components
<1>3. ASSUME NEW i \in 0..Len(arr) - 1, c = Delete(i, arr[i + 1]) PROVE c \in Components(V)
  <2>1. i \in Nat /\ arr[i + 1] \in V
    BY <1>1
  <2> QED
    BY <1>3, <2>1 DEF Delete, Components
<1>4. CASE c \in {[kind |-> "noop", index |-> i, val |-> v] : i \in Nat, v \in V}
  BY <1>4 DEF Components
<1> QED
  BY <1>2, <1>3, <1>4 DEF Made

\* Any component leaves a list: an insertion behind the end appends, a deletion of
\* what is not there does nothing or deletes what is.
LEMMA ComponentKeeps ==
  ASSUME NEW V, NEW arr \in Seq(V), NEW c \in Components(V)
  PROVE  ApplyComponent(arr, c) \in Seq(V)
<1>1. /\ Len(arr) \in Nat /\ c.index \in Nat /\ c.val \in V
      /\ c.kind \in {"li", "ld", "noop"}
  BY DEF Components
<1>2. \A m \in Int, n \in Int : 1 <= m /\ n <= Len(arr) => SubSeq(arr, m, n) \in Seq(V)
  BY <1>1, SubSeqProperties
<1>3. CASE c.kind = "noop"
  BY <1>3 DEF ApplyComponent
<1>4. CASE c.kind = "li"
  <2>1. ApplyComponent(arr, c) = ApplyListInsert(arr, c)
    BY <1>1, <1>4 DEF ApplyComponent
  <2>2. CASE c.index > Len(arr)
    BY <1>1, <2>1, <2>2 DEF ApplyListInsert
  <2>3. CASE c.index <= Len(arr)
    <3>0. ApplyListInsert(arr, c) = InsertAt(arr, c.index + 1, c.val)
      BY <1>1, <2>3 DEF ApplyListInsert
    <3>1. ApplyListInsert(arr, c)
            = (SubSeq(arr, 1, (c.index + 1) - 1) \o <<c.val>>) \o SubSeq(arr, c.index + 1, Len(arr))
      BY <3>0 DEF InsertAt
    <3>2. SubSeq(arr, 1, (c.index + 1) - 1) \in Seq(V)
          /\ SubSeq(arr, c.index + 1, Len(arr)) \in Seq(V) /\ <<c.val>> \in Seq(V)
      BY <1>1, <1>2, <2>3
    <3> DEFINE front == SubSeq(arr, 1, (c.index + 1) - 1)
               back == SubSeq(arr, c.index + 1, Len(arr))
    <3> HIDE DEF front, back
    <3>3. (front \o <<c.val>>) \o back \in Seq(V)
      BY <3>2 DEF front, back
    <3> QED
      BY <2>1, <3>1, <3>3 DEF front, back
  <2> QED
    BY <1>1, <2>2, <2>3
<1>5. CASE c.kind = "ld"
  <2> DEFINE i == IndexFunc(arr, c.val, c.index)
             found == { k \in DOMAIN arr : arr[k] = c.val }
  <2>1. ApplyComponent(arr, c) = IF i < Len(arr) THEN RemoveAt(arr, i + 1) ELSE arr
    BY <1>1, <1>5 DEF ApplyComponent, ApplyListDelete
  <2>2. i \in Nat
    <3>1. CASE Cardinality(found) = 1
      <4>1. found # {}
        <5>1. Cardinality({}) = 0
          BY FS_EmptySet
        <5>2. found = {} => Cardinality(found) = Cardinality({})
          BY Zenon
        <5>3. Cardinality(found) # 0
          BY <3>1
        <5> QED
          BY <5>1, <5>2, <5>3, Zenon
      <4>2. (CHOOSE k \in found : TRUE) \in 1..Len(arr)
        BY <4>1
      <4> QED
        BY <1>1, <4>2 DEF IndexFunc
    <3>2. CASE Cardinality(found) # 1
      BY <1>1, <3>2 DEF IndexFunc
    <3> QED
      BY <3>1, <3>2
  <2> HIDE DEF i
  <2>3. CASE i < Len(arr)
    <3>1. RemoveAt(arr, i + 1) = SubSeq(arr, 1, (i + 1) - 1) \o SubSeq(arr, (i + 1) + 1, Len(arr))
      BY DEF RemoveAt
    <3>2. SubSeq(arr, 1, (i + 1) - 1) \in Seq(V) /\ SubSeq(arr, (i + 1) + 1, Len(arr)) \in Seq(V)
      BY <1>1, <1>2, <2>2, <2>3
    <3> DEFINE front == SubSeq(arr, 1, (i + 1) - 1)
               back == SubSeq(arr, (i + 1) + 1, Len(arr))
    <3> HIDE DEF front, back
    <3>3. front \o back \in Seq(V)
      BY <3>2 DEF front, back
    <3>4. RemoveAt(arr, i + 1) \in Seq(V)
      BY <3>1, <3>3 DEF front, back
    <3> QED
      BY <2>1, <2>3, <3>4
  <2> QED
    BY <2>1, <2>3
<1> QED
  BY <1>1, <1>3, <1>4, <1>5

\* The first k components are the first k - 1 and the k-th.
LEMMA PrefixStep ==
  ASSUME NEW S, NEW op \in Seq(S)
  PROVE  /\ SubSeq(op, 1, 0) = <<>> /\ SubSeq(op, 1, Len(op)) = op
         /\ \A k \in 1..Len(op) :
              /\ op[k] \in S /\ SubSeq(op, 1, k - 1) \in Seq(S)
              /\ SubSeq(op, 1, k) = Append(SubSeq(op, 1, k - 1), op[k])
<1>1. Len(op) \in Nat
  OBVIOUS
<1>2. SubSeq(op, 1, 0) = <<>> /\ SubSeq(op, 1, Len(op)) = op
  OBVIOUS
<1> SUFFICES ASSUME NEW k \in 1..Len(op)
             PROVE  /\ op[k] \in S /\ SubSeq(op, 1, k - 1) \in Seq(S)
                    /\ SubSeq(op, 1, k) = Append(SubSeq(op, 1, k - 1), op[k])
  BY <1>2
<1>3. /\ SubSeq(op, 1, k - 1) \in Seq(S) /\ Len(SubSeq(op, 1, k - 1)) = k - 1
      /\ \A i \in 1..k - 1 : SubSeq(op, 1, k - 1)[i] = op[i]
  BY <1>1, SubSeqProperties
<1>4. /\ SubSeq(op, 1, k) \in Seq(S) /\ Len(SubSeq(op, 1, k)) = k
      /\ \A i \in 1..k : SubSeq(op, 1, k)[i] = op[i]
  BY <1>1, SubSeqProperties
<1>5. op[k] \in S
  BY <1>1
<1>6. SubSeq(op, 1, k) = Append(SubSeq(op, 1, k - 1), op[k])
  <2> DEFINE a == SubSeq(op, 1, k - 1)
             b == SubSeq(op, 1, k)
  <2> HIDE DEF a, b
  <2>1. a \in Seq(S) /\ Len(a) = k - 1 /\ \A i \in 1..k - 1 : a[i] = op[i]
    BY <1>3 DEF a
  <2>2. b \in Seq(S) /\ Len(b) = k /\ \A i \in 1..k : b[i] = op[i]
    BY <1>4 DEF b
  <2>3. Append(a, op[k]) \in Seq(S) /\ Len(Append(a, op[k])) = k
        /\ \A i \in 1..k : Append(a, op[k])[i] = op[i]
    BY <1>5, <2>1
  <2>4. b = Append(a, op[k])
    BY <2>2, <2>3, SeqEqual
  <2> QED
    BY <2>4 DEF a, b
<1> QED
  BY <1>3, <1>5, <1>6

\* The components from the k-th on are the k-th and those from the next on.
LEMMA SuffixStep ==
  ASSUME NEW S, NEW op \in Seq(S), NEW k \in 1..Len(op)
  PROVE  /\ op[k] \in S /\ SubSeq(op, k + 1, Len(op)) \in Seq(S)
         /\ SubSeq(op, k, Len(op)) = <<op[k]>> \o SubSeq(op, k + 1, Len(op))
<1>1. Len(op) \in Nat /\ op[k] \in S
  OBVIOUS
<1> DEFINE a == SubSeq(op, k + 1, Len(op))
           b == SubSeq(op, k, Len(op))
<1>2. a \in Seq(S) /\ Len(a) = Len(op) - k /\ \A i \in 1..Len(op) - k : a[i] = op[k + i]
  BY <1>1, SubSeqProperties
<1>3. b \in Seq(S) /\ Len(b) = Len(op) - k + 1
      /\ \A i \in 1..Len(op) - k + 1 : b[i] = op[k + i - 1]
  BY <1>1, SubSeqProperties
<1> HIDE DEF a, b
<1>4. <<op[k]>> \o a \in Seq(S) /\ Len(<<op[k]>> \o a) = Len(op) - k + 1
      /\ (<<op[k]>> \o a)[1] = op[k]
      /\ \A i \in 1..Len(op) - k : (<<op[k]>> \o a)[i + 1] = a[i]
  BY <1>1, <1>2
<1>5. \A i \in 1..Len(op) - k + 1 : b[i] = (<<op[k]>> \o a)[i]
  <2> SUFFICES ASSUME NEW i \in 1..Len(op) - k + 1 PROVE b[i] = (<<op[k]>> \o a)[i]
    OBVIOUS
  <2>1. CASE i = 1
    BY <1>1, <1>3, <1>4, <2>1
  <2>2. CASE i # 1
    <3>1. i - 1 \in 1..Len(op) - k /\ (i - 1) + 1 = i /\ k + (i - 1) = k + i - 1
      BY <1>1, <2>2
    <3>2. (<<op[k]>> \o a)[i] = a[i - 1]
      BY <1>4, <3>1
    <3>3. a[i - 1] = op[k + i - 1]
      BY <1>2, <3>1
    <3> QED
      BY <1>3, <3>2, <3>3
  <2> QED
    BY <2>1, <2>2
<1>6. b = <<op[k]>> \o a
  BY <1>3, <1>4, <1>5, SeqEqual
<1> QED
  BY <1>1, <1>2, <1>6 DEF a, b

\* Induction from 0 up to n, ...
LEMMA Upwards ==
  ASSUME NEW n \in Nat, NEW G, 0 \in G, \A k \in 1..n : k - 1 \in G => k \in G
  PROVE  \A k \in 0..n : k \in G
<1> DEFINE T == { k \in 0..n : k \notin G }
<1> SUFFICES ASSUME T # {} PROVE FALSE
  OBVIOUS
<1>1. T \subseteq Nat
  OBVIOUS
<1>2. PICK k \in T : \A j \in T : k <= j
  <2> HIDE DEF T
  <2> QED
    BY <1>1, LeastNat
<1>3. k \in 1..n /\ k - 1 \in 0..n /\ ~(k <= k - 1)
  OBVIOUS
<1>4. k - 1 \in G
  BY <1>2, <1>3
<1> QED
  BY <1>3, <1>4

\* ... and from n down to 0.
LEMMA Downwards ==
  ASSUME NEW n \in Nat, NEW G, n \in G, \A k \in 1..n : k \in G => k - 1 \in G
  PROVE  \A k \in 0..n : k \in G
<1> DEFINE H == { k \in 0..n : n - k \in G }
<1>1. 0 \in H
  OBVIOUS
<1>2. ASSUME NEW k \in 1..n, k - 1 \in H PROVE k \in H
  <2>1. n - (k - 1) \in G /\ n - (k - 1) \in 1..n /\ (n - (k - 1)) - 1 = n - k
    BY <1>2
  <2> QED
    BY <2>1
<1> HIDE DEF H
<1>3. \A k \in 0..n : k \in H
  BY <1>1, <1>2, Upwards
<1> SUFFICES ASSUME NEW k \in 0..n PROVE k \in G
  OBVIOUS
<1>4. n - k \in H /\ n - (n - k) = k
  BY <1>3
<1> QED
  BY <1>4 DEF H

\* So any operation leaves a list.
LEMMA ApplyKeeps ==
  ASSUME NEW V, NEW arr \in Seq(V), NEW op \in Seq(Components(V))
  PROVE  Apply(arr, op) \in Seq(V)
<1> DEFINE Good(k) == Apply(arr, SubSeq(op, 1, k)) \in Seq(V)
           G == { k \in 0..Len(op) : Good(k) }
<1>1. Len(op) \in Nat /\ Good(0) /\ SubSeq(op, 1, Len(op)) = op
  <2>1. SubSeq(op, 1, 0) = <<>> /\ SubSeq(op, 1, Len(op)) = op
    BY PrefixStep
  <2>2. Apply(arr, <<>>) = arr
    BY ApplyNothing
  <2>3. Good(0)
    BY <2>1, <2>2, Zenon
  <2>4. Len(op) \in Nat
    OBVIOUS
  <2> HIDE DEF Good
  <2> QED
    BY <2>1, <2>3, <2>4
<1>2. ASSUME NEW k \in 1..Len(op), Good(k - 1) PROVE Good(k)
  <2>1. /\ op[k] \in Components(V) /\ SubSeq(op, 1, k - 1) \in Seq(Components(V))
        /\ SubSeq(op, 1, k) = Append(SubSeq(op, 1, k - 1), op[k])
    BY PrefixStep
  <2>2. Apply(arr, Append(SubSeq(op, 1, k - 1), op[k]))
          = ApplyComponent(Apply(arr, SubSeq(op, 1, k - 1)), op[k])
    BY <2>1, ApplyAppend
  <2> QED
    BY <1>2, <2>1, <2>2, ComponentKeeps
<1> HIDE DEF Good
<1>3. 0 \in G /\ \A k \in 1..Len(op) : k - 1 \in G => k \in G
  BY <1>1, <1>2
<1> HIDE DEF G
<1>4. \A k \in 0..Len(op) : k \in G
  BY <1>1, <1>3, Upwards
<1>5. Good(Len(op))
  BY <1>1, <1>4 DEF G
<1> QED
  BY <1>1, <1>5 DEF Good

-----------------------------------------------------------------------------
(***************************************************************************)
(* Undoing and composing                                                   *)
(***************************************************************************)

\* The inverse of one component.
LEMMA InvertOne == ASSUME NEW c PROVE Invert(<<c>>) = <<InvertComponent(c)>>
<1>1. <<>> \in Seq({c}) /\ <<c>> \o <<>> = <<c>>
  OBVIOUS
<1>2. Invert(<<c>> \o <<>>) = AppendComponent(Invert(<<>>), InvertComponent(c))
  BY <1>1, InvertCons
<1>3. AppendComponent(<<>>, InvertComponent(c)) = <<InvertComponent(c)>>
  BY DEF AppendComponent, IsEmpty, NoOperation
<1> QED
  BY <1>1, <1>2, <1>3, InvertNothing

\* An insertion is undone by the deletion of what it inserted.
LEMMA DeletesInserted ==
  ASSUME NEW V, NEW arr \in Seq(V), NEW i \in 0..Len(arr), NEW v \in V
  PROVE  ApplyComponent(ApplyComponent(arr, Insert(i, v)), Delete(i, v)) = arr
<1> DEFINE a == ApplyComponent(arr, Insert(i, v))
           ab == ApplyComponent(a, Delete(i, v))
<1>1. Inserted(a, arr, i, v, V)
  BY InsertFacts
<1> HIDE DEF a
<1>2. a \in Seq(V) /\ a[i + 1] = v /\ i \in 0..Len(a) - 1
  BY <1>1 DEF Inserted
<1>3. Deleted(ab, a, i, V)
  BY <1>2, DeleteFacts
<1> HIDE DEF ab
<1>4. ab \in Seq(V) /\ Len(ab) = Len(arr)
  BY <1>1, <1>3 DEF Inserted, Deleted
<1>5. \A k \in 1..Len(ab) : ab[k] = arr[k]
  <2> SUFFICES ASSUME NEW k \in 1..Len(arr) PROVE ab[k] = arr[k]
    BY <1>4
  <2>1. CASE k <= i
    BY <2>1, <1>1, <1>3 DEF Inserted, Deleted
  <2>2. CASE i < k
    <3>1. k \in i + 1..Len(a) - 1 /\ k + 1 \in i + 2..Len(arr) + 1 /\ (k + 1) - 1 = k
      BY <2>2, <1>1 DEF Inserted
    <3>2. ab[k] = a[k + 1]
      BY <1>3, <3>1 DEF Deleted
    <3>3. a[k + 1] = arr[k]
      BY <1>1, <3>1 DEF Inserted
    <3> QED
      BY <3>2, <3>3
  <2> QED
    BY <2>1, <2>2
<1>6. ab = arr
  BY <1>4, <1>5, SeqEqual
<1> QED
  BY <1>6 DEF ab, a

\* A deletion is undone by the insertion of what it deleted.
LEMMA InsertsDeleted ==
  ASSUME NEW V, NEW arr \in Seq(V), NEW i \in 0..Len(arr) - 1
  PROVE  ApplyComponent(ApplyComponent(arr, Delete(i, arr[i + 1])), Insert(i, arr[i + 1])) = arr
<1> DEFINE b == ApplyComponent(arr, Delete(i, arr[i + 1]))
           v == arr[i + 1]
           ba == ApplyComponent(b, Insert(i, v))
<1>1. Deleted(b, arr, i, V) /\ v \in V
  BY DeleteFacts
<1> HIDE DEF b, v
<1>2. b \in Seq(V) /\ i \in 0..Len(b)
  BY <1>1 DEF Deleted
<1>3. Inserted(ba, b, i, v, V)
  BY <1>1, <1>2, InsertFacts
<1> HIDE DEF ba
<1>4. ba \in Seq(V) /\ Len(ba) = Len(arr)
  BY <1>1, <1>3 DEF Inserted, Deleted
<1>5. \A k \in 1..Len(ba) : ba[k] = arr[k]
  <2> SUFFICES ASSUME NEW k \in 1..Len(arr) PROVE ba[k] = arr[k]
    BY <1>4
  <2>1. CASE k <= i
    BY <2>1, <1>1, <1>3 DEF Inserted, Deleted
  <2>2. CASE k = i + 1
    BY <2>2, <1>3 DEF Inserted, v
  <2>3. CASE i + 1 < k
    <3>1. k \in i + 2..Len(b) + 1 /\ k - 1 \in i + 1..Len(arr) - 1 /\ (k - 1) + 1 = k
      BY <2>3, <1>1 DEF Deleted
    <3>2. ba[k] = b[k - 1]
      BY <1>3, <3>1 DEF Inserted
    <3>3. b[k - 1] = arr[k]
      BY <1>1, <3>1 DEF Deleted
    <3> QED
      BY <3>2, <3>3
  <2> QED
    BY <2>1, <2>2, <2>3
<1>6. ba = arr
  BY <1>4, <1>5, SeqEqual
<1> QED
  BY <1>6 DEF ba, b, v

\* The inverse of a component can be made where the component was applied, and
\* takes the list back.
LEMMA ComponentUndoes ==
  ASSUME NEW V, NEW arr \in Seq(V), NEW c \in Made(arr, V)
  PROVE  /\ InvertComponent(c) \in Made(ApplyComponent(arr, c), V)
         /\ InvertComponent(c) \in Components(V) /\ InvertComponent(c).index = c.index
         /\ ApplyComponent(ApplyComponent(arr, c), InvertComponent(c)) = arr
<1> DEFINE r == ApplyComponent(arr, c)
           d == InvertComponent(c)
           Ok == d \in Made(r, V) /\ d.index = c.index /\ ApplyComponent(r, d) = arr
<1>0. Len(arr) \in Nat /\ (\A k \in 1..Len(arr) : arr[k] \in V) /\ r \in Seq(V)
  BY ApplyMade
<1>1. ASSUME c.kind = "noop" PROVE Ok
  <2>1. c \in {[kind |-> "noop", index |-> i, val |-> v] : i \in Nat, v \in V}
    BY <1>1 DEF Made, Insert, Delete
  <2>2. d = c
    BY <2>1 DEF InvertComponent
  <2>3. r = arr /\ ApplyComponent(arr, c) = arr
    BY <1>1, NoopFacts
  <2> HIDE DEF r, d
  <2> QED
    BY <2>2, <2>3
<1>2. ASSUME NEW i \in 0..Len(arr), NEW v \in V, c = Insert(i, v) PROVE Ok
  <2>1. d = Delete(i, v) /\ c.index = i /\ Delete(i, v).index = i
    BY <1>2 DEF InvertComponent, Insert, Delete
  <2>2. Inserted(r, arr, i, v, V)
    BY <1>2, InsertFacts
  <2>3. ApplyComponent(r, d) = arr
    BY <1>2, <2>1, DeletesInserted
  <2> HIDE DEF r, d
  <2>4. i \in 0..Len(r) - 1 /\ r[i + 1] = v
    BY <1>0, <2>2 DEF Inserted
  <2>5. Delete(i, r[i + 1]) \in Made(r, V)
    BY <2>4, DeleteIsMade
  <2> QED
    BY <2>1, <2>3, <2>4, <2>5
<1>3. ASSUME NEW i \in 0..Len(arr) - 1, c = Delete(i, arr[i + 1]) PROVE Ok
  <2>1. d = Insert(i, arr[i + 1]) /\ c.index = i /\ Insert(i, arr[i + 1]).index = i
    BY <1>3 DEF InvertComponent, Insert, Delete
  <2>2. Deleted(r, arr, i, V)
    BY <1>3, DeleteFacts
  <2>3. ApplyComponent(r, d) = arr
    BY <1>3, <2>1, InsertsDeleted
  <2> HIDE DEF r, d
  <2>4. i \in 0..Len(r) /\ arr[i + 1] \in V
    BY <1>0, <2>2 DEF Deleted
  <2>5. Insert(i, arr[i + 1]) \in Made(r, V)
    BY <2>4 DEF Made
  <2> QED
    BY <2>1, <2>3, <2>5
<1> HIDE DEF r, d
<1>4. Ok
  <2> HIDE DEF Ok
  <2> QED
    BY <1>1, <1>2, <1>3, MadeIs
<1>5. d \in Components(V)
  BY <1>0, <1>4, MadeIsComponent
<1> QED
  BY <1>4, <1>5 DEF r, d

\* A no-op at the end swallows what is appended at its index (Merge,
\* operation.go).
Swallows(op, c) == op # <<>> /\ Last(op).kind = "noop" /\ Last(op).index = c.index

\* Nothing else does: a component that is merged with the last one is applied
\* all the same (Append, operation.go).
LEMMA AppendApplies ==
  ASSUME NEW V, NEW arr \in Seq(V), NEW op \in Seq(Components(V)),
         NEW c \in Made(Apply(arr, op), V), ~Swallows(op, c)
  PROVE  /\ AppendComponent(op, c) \in Seq(Components(V))
         /\ Apply(arr, AppendComponent(op, c)) = ApplyComponent(Apply(arr, op), c)
<1>1. Apply(arr, op) \in Seq(V) /\ c \in Components(V)
  BY ApplyKeeps, MadeIsComponent
<1>2. CASE AppendComponent(op, c) = Append(op, c)
  <2>1. Append(op, c) \in Seq(Components(V))
    BY <1>1
  <2>2. Apply(arr, Append(op, c)) = ApplyComponent(Apply(arr, op), c)
    BY <1>1, ApplyAppend
  <2> QED
    BY <1>2, <2>1, <2>2
<1>3. CASE AppendComponent(op, c) # Append(op, c)
  <2> DEFINE d == Last(op)
             noop == [d EXCEPT !.kind = "noop"]
             front == SubSeq(op, 1, Len(op) - 1)
  <2>1. /\ op # <<>> /\ d.index = c.index /\ d.val = c.val /\ d.kind = "li" /\ c.kind = "ld"
        /\ AppendComponent(op, c) = front \o <<noop>>
    <3>1. op # <<>> /\ d.index = c.index /\ Merge(d, c) # <<>>
          /\ AppendComponent(op, c) = front \o Merge(d, c)
      BY <1>3 DEF AppendComponent, IsEmpty, NoOperation, Front
    <3>2. d.kind # "noop"
      BY <3>1 DEF Swallows
    <3>3. Merge(d, c) = <<noop>> /\ d.val = c.val /\ d.kind = "li" /\ c.kind = "ld"
      BY <3>1, <3>2 DEF Merge
    <3> QED
      BY <3>1, <3>3
  <2>2. Len(op) \in 1..Len(op) /\ d = op[Len(op)]
    BY <2>1 DEF Last
  <2>3. front \in Seq(Components(V)) /\ d \in Components(V) /\ op = Append(front, d)
    BY <2>2, PrefixStep
  <2> HIDE DEF d, front
  <2> DEFINE x == Apply(arr, front)
  <2>4. x \in Seq(V)
    BY <2>3, ApplyKeeps
  <2>5. Apply(arr, op) = ApplyComponent(x, d)
    BY <2>3, ApplyAppend
  <2>6. d.index \in Nat /\ d.val \in V /\ d = Insert(d.index, d.val)
    BY <2>1, <2>3 DEF Components, Insert
  <2> HIDE DEF x
  <2>7. d.index \in 0..Len(x) /\ c = Delete(d.index, d.val)
    <3> DEFINE y == Apply(arr, op)
    <3>1. y \in Seq(V) /\ c \in Made(y, V) /\ \A k, w : Insert(k, w).kind = "li"
      BY <1>1 DEF Insert
    <3> HIDE DEF y
    <3>2. PICK k \in 0..Len(y) - 1 : c = Delete(k, y[k + 1])
      <4>1. \/ c.kind = "noop"
            \/ \E k \in 0..Len(y), w \in V : c = Insert(k, w)
            \/ \E k \in 0..Len(y) - 1 : c = Delete(k, y[k + 1])
        BY <3>1, MadeIs
      <4> QED
        BY <2>1, <3>1, <4>1
    <3>3. c.index = k /\ c = Delete(c.index, c.val)
      BY <3>2 DEF Delete
    <3>4. Len(y) <= Len(x) + 1 /\ Len(y) \in Nat /\ Len(x) \in Nat
      <4>1. CASE d.index > Len(x)
        <5>1. y = Append(x, d.val)
          <6>1. ApplyListInsert(x, d) = Append(x, d.val)
            BY <4>1 DEF ApplyListInsert
          <6>2. ApplyComponent(x, d) = ApplyListInsert(x, d)
            BY <2>1, <2>6 DEF ApplyComponent
          <6> QED
            BY <2>5, <6>1, <6>2 DEF y
        <5> QED
          BY <2>4, <2>6, <5>1
      <4>2. CASE d.index <= Len(x)
        <5>1. Inserted(y, x, d.index, d.val, V)
          BY <2>4, <2>5, <2>6, <4>2, InsertFacts DEF y
        <5> QED
          BY <2>4, <3>1, <5>1 DEF Inserted
      <4> QED
        BY <2>4, <2>6, <4>1, <4>2
    <3> QED
      BY <2>1, <2>6, <3>2, <3>3, <3>4
  <2>8. ApplyComponent(ApplyComponent(x, d), c) = x
    BY <2>4, <2>6, <2>7, DeletesInserted
  <2>9. noop \in Components(V) /\ noop.kind = "noop"
    BY <2>3 DEF Components
  <2> HIDE DEF noop
  <2>10. front \o <<noop>> = Append(front, noop) /\ Append(front, noop) \in Seq(Components(V))
    BY <2>3, <2>9
  <2>11. Apply(arr, Append(front, noop)) = x
    <3>1. Apply(arr, Append(front, noop)) = ApplyComponent(x, noop)
      BY <2>3, <2>9, ApplyAppend DEF x
    <3> QED
      BY <2>9, <3>1, NoopFacts
  <2> QED
    BY <2>1, <2>5, <2>8, <2>10, <2>11
<1> QED
  BY <1>2, <1>3

\* An operation whose components were made one after the other.
MadeInTurn(arr, op, V) ==
  \A k \in 1..Len(op) : op[k] \in Made(Apply(arr, SubSeq(op, 1, k - 1)), V)

\* Undoing an operation takes the list back, whatever its length: the inverses are
\* made from the last component to the first. The one exception is an inverse
\* that so far ends in a no-op at the index of the component to be undone next
\* (Invert, which Rollback and GetSnapshotAt apply to each record).
THEOREM ListUndoes ==
  ASSUME NEW V, NEW arr \in Seq(V), NEW op \in Seq(Components(V)), MadeInTurn(arr, op, V),
         \A k \in 1..Len(op) : ~Swallows(Invert(SubSeq(op, k + 1, Len(op))), op[k])
  PROVE  Apply(Apply(arr, op), Invert(op)) = arr
<1> DEFINE n == Len(op)
           inv(k) == Invert(SubSeq(op, k + 1, n))
           Good(k) == /\ inv(k) \in Seq(Components(V))
                      /\ Apply(Apply(arr, op), inv(k)) = Apply(arr, SubSeq(op, 1, k))
           G == { k \in 0..n : Good(k) }
<1>0. n \in Nat /\ Apply(arr, op) \in Seq(V)
  BY ApplyKeeps
<1>1. Good(n)
  <2>1. SubSeq(op, n + 1, n) = <<>> /\ <<>> \in Seq(Components(V))
    BY <1>0
  <2>2. inv(n) = <<>>
    BY <2>1, InvertNothing
  <2>3. SubSeq(op, 1, n) = op
    BY PrefixStep
  <2>4. Apply(Apply(arr, op), <<>>) = Apply(arr, op)
    BY ApplyNothing
  <2> HIDE DEF inv, n
  <2> QED
    BY <2>1, <2>2, <2>3, <2>4
<1>2. ASSUME NEW k \in 1..n, Good(k) PROVE Good(k - 1)
  <2> DEFINE before == SubSeq(op, 1, k - 1)
             x == Apply(arr, before)
             c == op[k]
             after == SubSeq(op, k + 1, n)
  <2>1. /\ before \in Seq(Components(V)) /\ c \in Components(V)
        /\ SubSeq(op, 1, k) = Append(before, c)
    BY PrefixStep
  <2>2. after \in Seq(Components(V)) /\ SubSeq(op, k, n) = <<c>> \o after
    BY SuffixStep
  <2>3. (k - 1) + 1 = k
    BY <1>0
  <2>4. c \in Made(x, V)
    BY DEF MadeInTurn
  <2>5. ~Swallows(inv(k), c)
    OBVIOUS
  <2>6. inv(k - 1) = Invert(SubSeq(op, k, n))
    BY <2>3
  <2>7. inv(k) = Invert(after)
    OBVIOUS
  <2>8. inv(k) \in Seq(Components(V)) /\ Apply(Apply(arr, op), inv(k)) = Apply(arr, SubSeq(op, 1, k))
    BY <1>2
  <2> HIDE DEF before, c, after, inv, n
  <2>9. inv(k - 1) = AppendComponent(inv(k), InvertComponent(c))
    BY <2>1, <2>2, <2>6, <2>7, InvertCons
  <2>10. x \in Seq(V) /\ Apply(arr, SubSeq(op, 1, k)) = ApplyComponent(x, c)
    <3>1. Apply(arr, Append(before, c)) = ApplyComponent(x, c)
      BY <2>1, ApplyAppend
    <3>2. x \in Seq(V)
      BY <2>1, ApplyKeeps
    <3> QED
      BY <2>1, <3>1, <3>2
  <2> HIDE DEF x
  <2>11. /\ InvertComponent(c) \in Made(ApplyComponent(x, c), V)
         /\ InvertComponent(c).index = c.index
         /\ ApplyComponent(ApplyComponent(x, c), InvertComponent(c)) = x
    BY <2>4, <2>10, ComponentUndoes
  <2>12. ~Swallows(inv(k), InvertComponent(c))
    BY <2>5, <2>11 DEF Swallows
  <2>13. InvertComponent(c) \in Made(Apply(Apply(arr, op), inv(k)), V)
    BY <2>8, <2>10, <2>11
  <2>14. /\ AppendComponent(inv(k), InvertComponent(c)) \in Seq(Components(V))
         /\ Apply(Apply(arr, op), AppendComponent(inv(k), InvertComponent(c)))
              = ApplyComponent(Apply(Apply(arr, op), inv(k)), InvertComponent(c))
    BY <1>0, <2>8, <2>12, <2>13, AppendApplies
  <2>15. Apply(Apply(arr, op), inv(k - 1)) = x
    BY <2>8, <2>9, <2>10, <2>11, <2>14
  <2> QED
    BY <2>9, <2>14, <2>15 DEF x, before
<1> HIDE DEF Good
<1>3. Good(0)
  <2> HIDE DEF n
  <2>1. n \in G /\ \A k \in 1..n : k \in G => k - 1 \in G
    BY <1>0, <1>1, <1>2
  <2> HIDE DEF G
  <2>2. 0 \in G
    BY <1>0, <2>1, Downwards
  <2> QED
    BY <2>2 DEF G
<1>4. SubSeq(op, 0 + 1, n) = op /\ SubSeq(op, 1, 0) = <<>> /\ Apply(arr, <<>>) = arr
  BY PrefixStep, ApplyNothing
<1> QED
  BY <1>3, <1>4 DEF Good

\* No component is a no-op, and none deletes what the one before it inserted.
Plain(op) ==
  /\ \A k \in 1..Len(op) : op[k].kind # "noop"
  /\ \A k \in 1..Len(op) - 1 :
       ~ /\ op[k].kind = "li" /\ op[k + 1].kind = "ld"
         /\ op[k + 1].index = op[k].index /\ op[k + 1].val = op[k].val

\* The inverses of all components from the (k + 1)-th on, the last one first.
Backwards(op, k) ==
  [j \in 1..Len(op) - k |-> InvertComponent(op[(Len(op) + 1) - j])]

\* Inverting a plain operation merges nothing.
LEMMA PlainInverts ==
  ASSUME NEW V, NEW op \in Seq(Components(V)), Plain(op), NEW k \in 1..Len(op),
         Invert(SubSeq(op, k + 1, Len(op))) = Backwards(op, k)
  PROVE  /\ Invert(SubSeq(op, k, Len(op))) = Backwards(op, k - 1)
         /\ ~Swallows(Invert(SubSeq(op, k + 1, Len(op))), op[k])
<1> DEFINE n == Len(op)
           b == Backwards(op, k)
           c == op[k]
           d == InvertComponent(c)
<1>0. n \in Nat /\ k \in 1..n /\ \A j \in 1..n : op[j] \in Components(V)
  OBVIOUS
<1>1. \A e \in Components(V) :
        /\ InvertComponent(e) \in Components(V)
        /\ InvertComponent(e).index = e.index /\ InvertComponent(e).val = e.val
        /\ InvertComponent(e).kind = "li" => e.kind = "ld"
        /\ InvertComponent(e).kind = "ld" => e.kind = "li"
        /\ InvertComponent(e).kind = "noop" => e.kind = "noop"
  BY DEF InvertComponent, Components
<1>2. \A j \in 1..n - k : (n + 1) - j \in 1..n
  BY <1>0
<1>3. /\ b \in Seq(Components(V)) /\ Len(b) = n - k
      /\ \A j \in 1..n - k : b[j] = InvertComponent(op[(n + 1) - j])
  <2>1. \A j \in 1..n - k : InvertComponent(op[(n + 1) - j]) \in Components(V)
    BY <1>0, <1>1, <1>2
  <2>2. n - k \in Nat
    BY <1>0
  <2> QED
    BY <2>1, <2>2 DEF Backwards
<1>4. Invert(SubSeq(op, k, n)) = AppendComponent(b, d)
  <2>1. /\ SubSeq(op, k + 1, n) \in Seq(Components(V)) /\ c \in Components(V)
        /\ SubSeq(op, k, n) = <<c>> \o SubSeq(op, k + 1, n)
    BY SuffixStep
  <2> HIDE DEF b, c, n, d
  <2>2. Invert(<<c>> \o SubSeq(op, k + 1, n))
          = AppendComponent(Invert(SubSeq(op, k + 1, n)), InvertComponent(c))
    BY <2>1, InvertCons
  <2> QED
    BY <2>1, <2>2 DEF b, d, n
<1>5. ASSUME b # <<>>
      PROVE  /\ Last(b) = InvertComponent(op[k + 1]) /\ Last(b).kind # "noop"
             /\ Last(b).index = c.index => Merge(Last(b), d) = <<>>
  <2>1. n - k \in 1..n - k /\ k \in 1..n - 1 /\ k + 1 \in 1..n /\ (n + 1) - (n - k) = k + 1
    <3>1. Len(b) # 0
      BY <1>3, <1>5
    <3> HIDE DEF b, n
    <3> QED
      BY <1>0, <1>3, <3>1
  <2>2. Last(b) = InvertComponent(op[k + 1])
    <3> HIDE DEF b, n
    <3> QED
      BY <1>3, <2>1 DEF Last
  <2>3. op[k + 1] \in Components(V) /\ c \in Components(V) /\ op[k + 1].kind # "noop"
    BY <1>0, <2>1 DEF Plain
  <2>4. Last(b).kind # "noop"
    <3> HIDE DEF b
    <3> QED
      BY <1>1, <2>2, <2>3
  <2>5. ~ /\ c.kind = "li" /\ op[k + 1].kind = "ld"
          /\ op[k + 1].index = c.index /\ op[k + 1].val = c.val
    BY <2>1 DEF Plain
  <2> HIDE DEF b, c, d
  <2>6. Last(b).index = c.index => Merge(Last(b), d) = <<>>
    BY <1>1, <2>2, <2>3, <2>4, <2>5 DEF Merge, d
  <2> QED
    BY <2>2, <2>4, <2>6
<1>6. c \in Components(V) /\ d \in Components(V) /\ d.index = c.index
  BY <1>0, <1>1
<1>7. AppendComponent(b, d) = Append(b, d)
  <2> HIDE DEF b, c, d
  <2> QED
    BY <1>5, <1>6 DEF AppendComponent, IsEmpty, NoOperation
<1>8. Append(b, d) = Backwards(op, k - 1)
  <2> DEFINE e == Backwards(op, k - 1)
  <2>1. /\ e \in Seq(Components(V)) /\ Len(e) = (n - k) + 1
        /\ \A j \in 1..(n - k) + 1 : e[j] = InvertComponent(op[(n + 1) - j])
    <3>1. n - (k - 1) = (n - k) + 1 /\ (n - k) + 1 \in Nat
      BY <1>0
    <3>2. \A j \in 1..(n - k) + 1 : (n + 1) - j \in 1..n
      BY <1>0
    <3>3. \A j \in 1..(n - k) + 1 : InvertComponent(op[(n + 1) - j]) \in Components(V)
      BY <1>0, <1>1, <3>2
    <3> QED
      BY <3>1, <3>3 DEF Backwards
  <2>2. (n + 1) - ((n - k) + 1) = k
    BY <1>0
  <2>3. d = InvertComponent(op[k])
    OBVIOUS
  <2>5. n - k \in Nat
    BY <1>0
  <2> HIDE DEF b, d, e, n, c
  <2>4. /\ Append(b, d) \in Seq(Components(V)) /\ Len(Append(b, d)) = (n - k) + 1
        /\ \A j \in 1..n - k : Append(b, d)[j] = b[j]
        /\ Append(b, d)[(n - k) + 1] = d
    BY <1>3, <1>6, <2>5
  <2>6. \A j \in 1..(n - k) + 1 : Append(b, d)[j] = e[j]
    <3> SUFFICES ASSUME NEW j \in 1..(n - k) + 1 PROVE Append(b, d)[j] = e[j]
      OBVIOUS
    <3>1. CASE j = (n - k) + 1
      BY <2>1, <2>2, <2>3, <2>4, <3>1
    <3>2. CASE j # (n - k) + 1
      <4>1. j \in 1..n - k
        BY <2>5, <3>2
      <4> QED
        BY <1>3, <2>1, <2>4, <4>1
    <3> QED
      BY <3>1, <3>2
  <2>7. Append(b, d) = e
    BY <2>1, <2>4, <2>6, SeqEqual
  <2> QED
    BY <2>7 DEF e
<1>9. ~Swallows(b, c)
  <2> HIDE DEF b, c, d
  <2> QED
    BY <1>5 DEF Swallows
<1> HIDE DEF d, n
<1> QED
  BY <1>4, <1>7, <1>8, <1>9 DEF n

\* So a plain operation of any length is undone, by the inverses of its components
\* from the last to the first (Invert).
THEOREM PlainUndoes ==
  ASSUME NEW V, NEW arr \in Seq(V), NEW op \in Seq(Components(V)), MadeInTurn(arr, op, V),
         Plain(op)
  PROVE  Apply(Apply(arr, op), Invert(op)) = arr /\ Invert(op) = Backwards(op, 0)
<1> DEFINE n == Len(op)
           Good(k) == Invert(SubSeq(op, k + 1, n)) = Backwards(op, k)
           G == { k \in 0..n : Good(k) }
<1>0. n \in Nat
  OBVIOUS
<1>1. Good(n)
  <2>1. SubSeq(op, n + 1, n) = <<>>
    BY <1>0
  <2>2. n - n = 0 /\ 1..0 = {}
    BY <1>0
  <2>3. Backwards(op, n) = <<>>
    BY <2>2 DEF Backwards
  <2> QED
    BY <2>1, <2>3, InvertNothing
<1>2. \A k \in 1..n : Good(k) => Good(k - 1) /\ ~Swallows(Invert(SubSeq(op, k + 1, n)), op[k])
  <2> SUFFICES ASSUME NEW k \in 1..n, Good(k)
               PROVE  Good(k - 1) /\ ~Swallows(Invert(SubSeq(op, k + 1, n)), op[k])
    OBVIOUS
  <2>1. (k - 1) + 1 = k
    BY <1>0
  <2>2. /\ Invert(SubSeq(op, k, n)) = Backwards(op, k - 1)
        /\ ~Swallows(Invert(SubSeq(op, k + 1, n)), op[k])
    BY PlainInverts
  <2> QED
    BY <2>1, <2>2
<1>3. \A k \in 0..n : Good(k)
  <2> HIDE DEF Good, n
  <2>1. n \in G /\ \A k \in 1..n : k \in G => k - 1 \in G
    BY <1>0, <1>1, <1>2
  <2> HIDE DEF G
  <2>2. \A k \in 0..n : k \in G
    BY <1>0, <2>1, Downwards
  <2> QED
    BY <2>2 DEF G
<1>4. SubSeq(op, 0 + 1, n) = op
  BY PrefixStep
<1>5. Invert(op) = Backwards(op, 0)
  <2>1. Good(0)
    <3> HIDE DEF Good
    <3> QED
      BY <1>0, <1>3
  <2> QED
    BY <1>4, <2>1
<1>6. \A k \in 1..n : ~Swallows(Invert(SubSeq(op, k + 1, n)), op[k])
  <2> HIDE DEF Good
  <2> QED
    BY <1>0, <1>2, <1>3
<1> QED
  BY <1>5, <1>6, ListUndoes

\* So a component that was transformed over another can still be undone: it
\* leaves the list the other one made.
THEOREM RebasedUndoes ==
  ASSUME NEW V, NEW arr \in Seq(V), NEW new \in Made(arr, V), NEW base \in Made(arr, V),
         Transform(<<new>>, <<base>>) # <<>>
  PROVE  LET r  == Apply(arr, <<base>>)
             op == Transform(<<new>>, <<base>>)
         IN  Apply(Apply(r, op), Invert(op)) = r
<1>1. Transform(<<new>>, <<base>>) = TransformComponent(new, base, "left")
  BY DEF Transform, IsEmpty, NoOperation
<1>2. PICK c \in Made(Apply(arr, <<base>>), V) : Transform(<<new>>, <<base>>) = <<c>>
  BY <1>1, RebasedIsMade
<1> DEFINE r == Apply(arr, <<base>>)
<1>3. r \in Seq(V)
  BY ApplyMade, ApplyOne
<1> HIDE DEF r
<1>4. c \in Made(r, V)
  BY <1>2 DEF r
<1>5. ApplyComponent(ApplyComponent(r, c), InvertComponent(c)) = r
  BY <1>3, <1>4, ComponentUndoes
<1>6. Apply(Apply(r, <<c>>), Invert(<<c>>)) = r
  BY <1>5, ApplyOne, InvertOne
<1> QED
  BY <1>2, <1>6 DEF r

\* Composing an operation with one made on what it leaves, of any length, is doing
\* the one after the other, merged or not, as long as the composition so far
\* does not end in a no-op at the index of the component to be appended next, which
\* would swallow it (Compose and its Append, operation.go).
THEOREM ListComposes ==
  ASSUME NEW V, NEW arr \in Seq(V), NEW op \in Seq(Components(V)),
         NEW other \in Seq(Components(V)), MadeInTurn(Apply(arr, op), other, V),
         \A k \in 1..Len(other) : ~Swallows(Compose(op, SubSeq(other, 1, k - 1)), other[k])
  PROVE  Apply(arr, Compose(op, other)) = Apply(Apply(arr, op), other)
<1> DEFINE n == Len(other)
           so(k) == Compose(op, SubSeq(other, 1, k))
           Good(k) == /\ so(k) \in Seq(Components(V))
                      /\ Apply(arr, so(k)) = Apply(Apply(arr, op), SubSeq(other, 1, k))
           G == { k \in 0..n : Good(k) }
<1>0. n \in Nat /\ Apply(arr, op) \in Seq(V)
  BY ApplyKeeps
<1>1. Good(0)
  <2>1. SubSeq(other, 1, 0) = <<>>
    BY PrefixStep
  <2>2. Compose(op, <<>>) = op /\ Apply(Apply(arr, op), <<>>) = Apply(arr, op)
    BY ComposeNothing, ApplyNothing
  <2>3. so(0) = op
    BY <2>1, <2>2, Zenon
  <2> HIDE DEF so
  <2> QED
    BY <2>1, <2>2, <2>3
<1>2. ASSUME NEW k \in 1..n, Good(k - 1) PROVE Good(k)
  <2> DEFINE before == SubSeq(other, 1, k - 1)
             c == other[k]
  <2>1. /\ before \in Seq(Components(V)) /\ c \in Components(V)
        /\ SubSeq(other, 1, k) = Append(before, c)
    BY PrefixStep
  <2>2. c \in Made(Apply(Apply(arr, op), before), V)
    BY DEF MadeInTurn
  <2>3. ~Swallows(so(k - 1), c) /\ so(k - 1) = Compose(op, before)
    OBVIOUS
  <2>4. so(k - 1) \in Seq(Components(V))
        /\ Apply(arr, so(k - 1)) = Apply(Apply(arr, op), before)
    BY <1>2
  <2>5. so(k) = Compose(op, SubSeq(other, 1, k))
    OBVIOUS
  <2> HIDE DEF so, before, c
  <2>6. so(k) = AppendComponent(so(k - 1), c)
    <3>1. Compose(op, Append(before, c)) = AppendComponent(Compose(op, before), c)
      BY <2>1, ComposeAppend
    <3> QED
      BY <2>1, <2>3, <2>5, <3>1
  <2>7. c \in Made(Apply(arr, so(k - 1)), V)
    BY <2>2, <2>4
  <2>8. /\ AppendComponent(so(k - 1), c) \in Seq(Components(V))
        /\ Apply(arr, AppendComponent(so(k - 1), c)) = ApplyComponent(Apply(arr, so(k - 1)), c)
    BY <2>3, <2>4, <2>7, AppendApplies
  <2>9. Apply(Apply(arr, op), Append(before, c))
          = ApplyComponent(Apply(Apply(arr, op), before), c)
    BY <2>1, ApplyAppend
  <2> QED
    BY <2>1, <2>4, <2>6, <2>8, <2>9
<1> HIDE DEF Good
<1>3. Good(n)
  <2> HIDE DEF n
  <2>1. 0 \in G /\ \A k \in 1..n : k - 1 \in G => k \in G
    BY <1>0, <1>1, <1>2
  <2> HIDE DEF G
  <2>2. \A k \in 0..n : k \in G
    BY <1>0, <2>1, Upwards
  <2> QED
    BY <1>0, <2>2 DEF G
<1>4. SubSeq(other, 1, n) = other
  BY PrefixStep
<1> QED
  BY <1>3, <1>4 DEF Good
=============================================================================
