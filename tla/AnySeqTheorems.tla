---------------------------- MODULE AnySeqTheorems --------------------------
(***************************************************************************)
(* Facts about sequences of elements of no known type, and induction over  *)
(* their length.                                                           *)
(***************************************************************************)
EXTENDS AnySeq, SequenceTheorems, WellFoundedInduction, TLAPS

\* A sequence over any set is a sequence over its own elements.
LEMMA SeqIsSeq == ASSUME NEW S, NEW s \in Seq(S) PROVE IsSeq(s)
  BY DEF IsSeq

\* The laws of Len and application a sequence obeys, whatever its elements.
LEMMA IsSeqFacts ==
  ASSUME NEW s, IsSeq(s)
  PROVE  Len(s) \in Nat /\ DOMAIN s = 1..Len(s)
  BY DEF IsSeq

\* A log just created and a channel just opened are sequences.
LEMMA EmptyIsSeq == IsSeq(<<>>) /\ Len(<<>>) = 0 /\ DOMAIN <<>> = {}
  BY DEF IsSeq

\* Append adds one element at the end (CommitOp, Publish).
LEMMA AppendFacts ==
  ASSUME NEW s, IsSeq(s), NEW e
  PROVE  /\ IsSeq(Append(s, e))
         /\ Len(Append(s, e)) = Len(s) + 1
         /\ DOMAIN Append(s, e) = DOMAIN s \cup {Len(s) + 1}
         /\ \A i \in DOMAIN s : Append(s, e)[i] = s[i]
         /\ Append(s, e)[Len(s) + 1] = e
<1> DEFINE R == { s[i] : i \in DOMAIN s } \cup {e}
<1>1. s \in Seq(R) /\ e \in R
  BY DEF IsSeq
<1> HIDE DEF R
<1>2. Append(s, e) \in Seq(R)
  BY <1>1
<1>3. IsSeq(Append(s, e))
  BY <1>2, SeqIsSeq
<1>4. /\ Len(Append(s, e)) = Len(s) + 1
      /\ \A i \in 1..Len(s) : Append(s, e)[i] = s[i]
      /\ Append(s, e)[Len(s) + 1] = e
  BY <1>1
<1> QED
  BY <1>3, <1>4, IsSeqFacts

\* SubSeq and Tail keep to the elements of the sequence they are taken from
\* (GetOps, and the records left to go through).
LEMMA SubSeqFacts ==
  ASSUME NEW s, IsSeq(s), NEW m \in Int, NEW n \in Int, 1 <= m, n <= Len(s)
  PROVE  /\ IsSeq(SubSeq(s, m, n))
         /\ Len(SubSeq(s, m, n)) = IF m <= n THEN n - m + 1 ELSE 0
         /\ \A i \in DOMAIN SubSeq(s, m, n) :
              m + i - 1 \in DOMAIN s /\ SubSeq(s, m, n)[i] = s[m + i - 1]
<1> DEFINE R == { s[i] : i \in DOMAIN s }
<1>1. \A i \in m..n : s[i] \in R
  BY IsSeqFacts
<1> HIDE DEF R
<1>2. /\ SubSeq(s, m, n) \in Seq(R)
      /\ Len(SubSeq(s, m, n)) = IF m <= n THEN n - m + 1 ELSE 0
      /\ \A i \in 1..(n - m + 1) : SubSeq(s, m, n)[i] = s[m + i - 1]
  BY <1>1, SubSeqProperties
<1>3. IsSeq(SubSeq(s, m, n))
  BY <1>2, SeqIsSeq
<1> QED
  BY <1>2, <1>3, IsSeqFacts

\* Tail keeps to the elements of its sequence (Receive, and the submit loop).
LEMMA TailFacts ==
  ASSUME NEW s, IsSeq(s), s # <<>>
  PROVE  /\ IsSeq(Tail(s)) /\ Len(Tail(s)) = Len(s) - 1
         /\ \A i \in DOMAIN Tail(s) : i + 1 \in DOMAIN s /\ Tail(s)[i] = s[i + 1]
<1>1. PICK R : s \in Seq(R)
  BY DEF IsSeq
<1>2. /\ Tail(s) \in Seq(R)
      /\ Len(Tail(s)) = Len(s) - 1
      /\ \A i \in 1..Len(Tail(s)) : Tail(s)[i] = s[i + 1]
  BY <1>1, HeadTailProperties
<1>3. IsSeq(Tail(s))
  BY <1>2, SeqIsSeq
<1> QED
  BY <1>1, <1>2, <1>3, IsSeqFacts

\* A concatenation is the one sequence and then the other.
LEMMA ConcatFacts ==
  ASSUME NEW s, IsSeq(s), NEW t, IsSeq(t)
  PROVE  /\ IsSeq(s \o t) /\ Len(s \o t) = Len(s) + Len(t)
         /\ \A i \in DOMAIN s : (s \o t)[i] = s[i]
         /\ \A i \in DOMAIN (s \o t) :
              i \notin DOMAIN s => i - Len(s) \in DOMAIN t /\ (s \o t)[i] = t[i - Len(s)]
<1> DEFINE R == { s[i] : i \in DOMAIN s } \cup { t[i] : i \in DOMAIN t }
<1>1. s \in Seq(R) /\ t \in Seq(R)
  BY DEF IsSeq
<1> HIDE DEF R
<1>2. /\ s \o t \in Seq(R) /\ Len(s \o t) = Len(s) + Len(t)
      /\ \A i \in 1..Len(s) : (s \o t)[i] = s[i]
      /\ \A i \in 1..(Len(s) + Len(t)) :
           i \notin 1..Len(s) => (s \o t)[i] = t[i - Len(s)]
  BY <1>1
<1>3. IsSeq(s \o t)
  BY <1>2, SeqIsSeq
<1>4. DOMAIN s = 1..Len(s) /\ DOMAIN t = 1..Len(t) /\ DOMAIN (s \o t) = 1..(Len(s) + Len(t))
      /\ Len(s) \in Nat /\ Len(t) \in Nat
  BY <1>2, <1>3, IsSeqFacts
<1> QED
  BY <1>2, <1>3, <1>4

\* Two sequences in a row, one of which grows at its end ...
LEMMA ConcatAppend ==
  ASSUME NEW s, IsSeq(s), NEW t, IsSeq(t), NEW e
  PROVE  s \o Append(t, e) = Append(s \o t, e)
<1> DEFINE R == { s[i] : i \in DOMAIN s } \cup { t[i] : i \in DOMAIN t } \cup {e}
<1>1. s \in Seq(R) /\ t \in Seq(R) /\ e \in R
  BY DEF IsSeq
<1> HIDE DEF R
<1> QED
  BY <1>1

\* ... or hand an element from the one to the other, as a channel does.
LEMMA ConcatMove ==
  ASSUME NEW s, IsSeq(s), NEW t, IsSeq(t), t # <<>>
  PROVE  Append(s, Head(t)) \o Tail(t) = s \o t
<1> DEFINE R == { s[i] : i \in DOMAIN s } \cup { t[i] : i \in DOMAIN t }
<1>1. s \in Seq(R) /\ t \in Seq(R)
  BY DEF IsSeq
<1> HIDE DEF R
<1>2. /\ Head(t) \in R /\ Head(t) = t[1]
      /\ Tail(t) \in Seq(R) /\ Len(Tail(t)) = Len(t) - 1
      /\ \A i \in 1..Len(Tail(t)) : Tail(t)[i] = t[i + 1]
  BY <1>1, HeadTailProperties
<1>3. Len(t) \in Nat \ {0} /\ Len(s) \in Nat
  BY <1>1
<1> DEFINE u == Append(s, Head(t))
           v == Tail(t)
<1>4. u \in Seq(R) /\ Len(u) = Len(s) + 1 /\ u[Len(s) + 1] = t[1]
      /\ \A i \in 1..Len(s) : u[i] = s[i]
  BY <1>1, <1>2
<1> HIDE DEF u, v
<1>5. /\ v \in Seq(R) /\ Len(v) = Len(t) - 1
      /\ \A i \in 1..Len(v) : v[i] = t[i + 1]
  BY <1>2 DEF v
<1>6. /\ u \o v \in Seq(R) /\ s \o t \in Seq(R)
      /\ Len(u \o v) = Len(u) + Len(v) /\ Len(s \o t) = Len(s) + Len(t)
  BY <1>1, <1>4, <1>5, ConcatProperties
<1>7. Len(u \o v) = Len(s \o t)
  BY <1>3, <1>4, <1>5, <1>6
<1>8. ASSUME NEW i \in 1..Len(u \o v) PROVE (u \o v)[i] = (s \o t)[i]
  <2>1. i \in 1..(Len(s) + Len(t))
    BY <1>6, <1>7
  <2>2. CASE i \in 1..Len(s)
    BY <1>1, <1>3, <1>4, <1>5, <2>2
  <2>3. CASE i = Len(s) + 1
    BY <1>1, <1>3, <1>4, <1>5, <2>3
  <2>4. CASE i > Len(s) + 1
    <3>1. (u \o v)[i] = v[i - (Len(s) + 1)] /\ (s \o t)[i] = t[i - Len(s)]
      BY <1>1, <1>3, <1>4, <1>5, <2>4, <2>1
    <3> QED
      BY <1>3, <1>5, <2>4, <2>1, <3>1
  <2> QED
    BY <1>3, <2>2, <2>3, <2>4, <2>1
<1>9. u \o v = s \o t
  <2>1. \A i \in 1..Len(u \o v) : (u \o v)[i] = (s \o t)[i]
    BY <1>8
  <2> DEFINE a == u \o v
             b == s \o t
  <2>2. a \in Seq(R) /\ b \in Seq(R) /\ Len(a) = Len(b) /\ \A i \in 1..Len(a) : a[i] = b[i]
    BY <1>6, <1>7, <2>1
  <2> HIDE DEF a, b
  <2>3. a = b
    BY <2>2, SeqEqual
  <2> QED
    BY <2>3 DEF a, b
<1> QED
  BY <1>9 DEF u, v

\* A sequence is its length and its elements.
LEMMA IsSeqEqual ==
  ASSUME NEW s, IsSeq(s), NEW t, IsSeq(t), Len(s) = Len(t),
         \A i \in 1..Len(s) : s[i] = t[i]
  PROVE  s = t
<1> DEFINE R == { s[i] : i \in DOMAIN s } \cup { t[i] : i \in DOMAIN t }
<1>1. s \in Seq(R) /\ t \in Seq(R)
  BY DEF IsSeq
<1> HIDE DEF R
<1> QED
  BY <1>1, SeqEqual

\* A log's prefix is not affected by what is appended to it.
LEMMA PrefixAppend ==
  ASSUME NEW s, IsSeq(s), NEW e, NEW n \in 0..Len(s)
  PROVE  /\ SubSeq(Append(s, e), 1, n) = SubSeq(s, 1, n)
         /\ IsSeq(SubSeq(s, 1, n)) /\ Len(SubSeq(s, 1, n)) = n
         /\ \A i \in 1..n : SubSeq(s, 1, n)[i] = s[i]
<1> DEFINE m == Append(s, e)
<1>1. /\ IsSeq(m) /\ Len(m) = Len(s) + 1 /\ Len(s) \in Nat /\ n \in Nat /\ n <= Len(s)
      /\ DOMAIN s = 1..Len(s) /\ \A i \in DOMAIN s : m[i] = s[i]
  BY AppendFacts, IsSeqFacts
<1> HIDE DEF m
<1>2. ASSUME NEW t, IsSeq(t), Len(t) \in Nat, n <= Len(t)
      PROVE  /\ IsSeq(SubSeq(t, 1, n)) /\ Len(SubSeq(t, 1, n)) = n
             /\ \A i \in 1..n : SubSeq(t, 1, n)[i] = t[i]
  <2>1. 1 \in Int /\ n \in Int /\ 1 <= 1
    BY <1>1
  <2>2. Len(SubSeq(t, 1, n)) = IF 1 <= n THEN n - 1 + 1 ELSE 0
    BY <1>2, <2>1, SubSeqFacts
  <2>3. IsSeq(SubSeq(t, 1, n)) /\ Len(SubSeq(t, 1, n)) = n
    BY <1>1, <1>2, <2>1, <2>2, SubSeqFacts
  <2>4. \A i \in DOMAIN SubSeq(t, 1, n) : SubSeq(t, 1, n)[i] = t[1 + i - 1]
    BY <1>2, <2>1, SubSeqFacts
  <2>5. DOMAIN SubSeq(t, 1, n) = 1..n
    BY <2>3, IsSeqFacts
  <2>6. \A i \in 1..n : 1 + i - 1 = i
    OBVIOUS
  <2> QED
    BY <2>3, <2>4, <2>5, <2>6
<1> DEFINE a == SubSeq(m, 1, n)
           b == SubSeq(s, 1, n)
<1>3. /\ IsSeq(a) /\ IsSeq(b) /\ Len(a) = n /\ Len(b) = n
      /\ (\A i \in 1..n : a[i] = m[i]) /\ (\A i \in 1..n : b[i] = s[i])
  BY <1>1, <1>2
<1>4. \A i \in 1..n : m[i] = s[i]
  BY <1>1
<1> HIDE DEF a, b
<1>5. a = b
  BY <1>3, <1>4, IsSeqEqual
<1> QED
  BY <1>3, <1>5 DEF a, b, m

\* The elements of a sequence.
Elems(s) == { s[i] : i \in DOMAIN s }

\* What a queue holds after an element is put in ...
LEMMA ElemsAppend ==
  ASSUME NEW s, IsSeq(s), NEW e PROVE Elems(Append(s, e)) = Elems(s) \cup {e}
  BY AppendFacts DEF Elems

\* ... and after one is taken out.
LEMMA ElemsTail ==
  ASSUME NEW s, IsSeq(s), s # <<>>
  PROVE  Elems(Tail(s)) \subseteq Elems(s) /\ Head(s) \in Elems(s)
<1>1. Elems(Tail(s)) \subseteq Elems(s)
  BY TailFacts DEF Elems
<1>2. 1 \in DOMAIN s /\ Head(s) = s[1]
  <2>1. PICK R : s \in Seq(R)
    BY DEF IsSeq
  <2> QED
    BY <2>1
<1> QED
  BY <1>1, <1>2 DEF Elems

\* The elements of the shortest sequences.
LEMMA ElemsOfShort ==
  Elems(<<>>) = {} /\ \A e : Elems(<<e>>) = {e}
  BY EmptyIsSeq DEF Elems

-----------------------------------------------------------------------------
(* Induction *)

\* The least-number principle for a set, which the provers can use where an
\* induction theorem with an operator parameter is out of their reach.
LEMMA LeastNat ==
  ASSUME NEW T, T \subseteq Nat, T # {}
  PROVE  \E x \in T : \A y \in T : x <= y
<1> DEFINE R == { ss \in Nat \X Nat : ss[1] < ss[2] }
<1>1. IsWellFoundedOn(R, Nat)
  BY NatLessThanWellFounded DEF OpToRel
<1>2. \E x \in T : \A y \in T : ~ (<<y, x>> \in R)
  <2> HIDE DEF R
  <2> QED
    BY <1>1, WFMin
<1>3. PICK x \in T : \A y \in T : ~ (<<y, x>> \in R)
  BY <1>2
<1>4. \A y \in T : ~ (y < x)
  BY <1>3
<1> QED
  BY <1>4
=============================================================================
