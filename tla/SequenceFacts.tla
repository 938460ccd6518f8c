--------------------------- MODULE SequenceFacts ---------------------------
(***************************************************************************)
(* Facts about numbers and sequences that the proofs of several components *)
(* cite.                                                                   *)
(***************************************************************************)
EXTENDS Places, FiniteSetTheorems, SequenceTheorems, TLAPS

\* A set of natural numbers has a least one.  This is induction in a form without
\* an operator as a parameter: to show that all numbers have a property, take the
\* least one that does not.
LEMMA LeastNumber ==
    ASSUME NEW B \in SUBSET Nat, B # {}
    PROVE  \E m \in B : \A k \in B : m <= k
<1> DEFINE T == {0..n : n \in B}
<1>1. IsWellFoundedOn(StrictSubsetOrdering(Nat), FiniteSubsetsOf(Nat))
  BY FS_StrictSubsetOrderingWellFounded, Zenon
<1>2. T \subseteq FiniteSubsetsOf(Nat)
  <2> SUFFICES ASSUME NEW n \in B PROVE 0..n \in FiniteSubsetsOf(Nat)
    OBVIOUS
  <2>1. 0..n \subseteq Nat
    OBVIOUS
  <2>2. IsFiniteSet(0..n)
    BY FS_Interval
  <2> QED
    BY <2>1, <2>2 DEF FiniteSubsetsOf
<1>3. T # {}
  OBVIOUS
<1> HIDE DEF T
<1>4. \E x \in T : \A y \in T : ~ (<<y, x>> \in StrictSubsetOrdering(Nat))
  BY <1>1, <1>2, <1>3, WFMin, Zenon
<1> USE DEF T
<1>5. PICK m \in B : \A y \in T : ~ (<<y, 0..m>> \in StrictSubsetOrdering(Nat))
  BY <1>4, Zenon
<1>6. SUFFICES ASSUME NEW k \in B, k < m PROVE FALSE
  BY <1>6
<1>7. <<0..k, 0..m>> \notin StrictSubsetOrdering(Nat)
  BY <1>5
<1>8. 0..k \in SUBSET Nat /\ 0..m \in SUBSET Nat
  OBVIOUS
<1>9. 0..k \subseteq 0..m /\ 0..k # 0..m
  <2>1. 0..k \subseteq 0..m
    BY <1>6
  <2>2. m \in 0..m /\ m \notin 0..k
    BY <1>6
  <2> QED
    BY <2>1, <2>2
<1> QED
  BY <1>7, <1>8, <1>9 DEF StrictSubsetOrdering

-----------------------------------------------------------------------------
(* Lengths, indices and elements.                                          *)

\* A sequence written as a function is a sequence.
LEMMA FunIsSeq ==
    ASSUME NEW S, NEW n \in Nat, NEW f \in [1..n -> S]
    PROVE  f \in Seq(S) /\ Len(f) = n /\ DOMAIN f = 1..n
  BY SeqDef

\* Length, indices and elements of a sequence.
LEMMA SeqFacts ==
    ASSUME NEW S, NEW s \in Seq(S)
    PROVE  /\ Len(s) \in Nat /\ DOMAIN s = 1..Len(s)
           /\ \A k \in 1..Len(s) : s[k] \in S /\ s[k] \in Range(s)
           /\ Range(s) \subseteq S
           /\ s = << >> <=> Len(s) = 0
           /\ \A x \in Range(s) : \E k \in 1..Len(s) : s[k] = x
<1>1. /\ Len(s) \in Nat /\ DOMAIN s = 1..Len(s)
      /\ \A k \in 1..Len(s) : s[k] \in S
  BY LenProperties, ElementOfSeq
<1>2. s = << >> <=> Len(s) = 0
  BY <1>1, EmptySeq
<1> QED
  BY <1>1, <1>2 DEF Range

\* A sequence that loses its head.
LEMMA TailFacts ==
    ASSUME NEW S, NEW s \in Seq(S), s # << >>
    PROVE  /\ Len(s) \in Nat \ {0} /\ DOMAIN s = 1..Len(s) /\ Head(s) = s[1] /\ Head(s) \in S
           /\ Tail(s) \in Seq(S) /\ Len(Tail(s)) = Len(s) - 1 /\ DOMAIN Tail(s) = 1..(Len(s) - 1)
           /\ \A k \in 1..(Len(s) - 1) : Tail(s)[k] = s[k + 1]
<1>1. Len(s) \in Nat \ {0} /\ DOMAIN s = 1..Len(s)
  BY LenProperties, EmptySeq
<1>2. /\ Head(s) \in S /\ Tail(s) \in Seq(S) /\ Len(Tail(s)) = Len(s) - 1
      /\ \A k \in 1..(Len(s) - 1) : Tail(s)[k] = s[k + 1]
  BY HeadTailProperties
<1>3. DOMAIN Tail(s) = 1..(Len(s) - 1)
  BY <1>2, LenProperties
<1>4. Head(s) = s[1]
  OBVIOUS
<1> QED
  BY <1>1, <1>2, <1>3, <1>4

\* Its elements are the head and the elements of its tail.
LEMMA TailRange ==
    ASSUME NEW S, NEW s \in Seq(S), s # << >>
    PROVE  Range(s) = {Head(s)} \cup Range(Tail(s)) /\ s = <<Head(s)>> \o Tail(s)
<1>1. /\ Len(s) \in Nat \ {0} /\ DOMAIN s = 1..Len(s) /\ Head(s) = s[1] /\ Head(s) \in S
      /\ Tail(s) \in Seq(S) /\ Len(Tail(s)) = Len(s) - 1 /\ DOMAIN Tail(s) = 1..(Len(s) - 1)
      /\ \A k \in 1..(Len(s) - 1) : Tail(s)[k] = s[k + 1]
  BY TailFacts
<1> DEFINE h == <<Head(s)>>
<1>2. h \in Seq(S) /\ Len(h) = 1 /\ h[1] = Head(s) /\ Range(h) = {Head(s)}
  BY <1>1 DEF Range
<1> HIDE DEF h
<1>3. /\ h \o Tail(s) \in Seq(S) /\ Len(h \o Tail(s)) = Len(s)
      /\ \A i \in 1..Len(s) : (h \o Tail(s))[i] = IF i <= 1 THEN h[i] ELSE Tail(s)[i - 1]
  <2>1. /\ h \o Tail(s) \in Seq(S) /\ Len(h \o Tail(s)) = Len(h) + Len(Tail(s))
        /\ \A i \in 1 .. Len(h) + Len(Tail(s)) : (h \o Tail(s))[i] =
                     IF i <= Len(h) THEN h[i] ELSE Tail(s)[i - Len(h)]
    <3>1. h \in Seq(S) /\ Tail(s) \in Seq(S)
      BY <1>1, <1>2
    <3> QED
      BY <3>1, ConcatProperties
  <2>2. Len(h) + Len(Tail(s)) = Len(s)
    BY <1>1, <1>2
  <2> QED
    BY <1>2, <2>1, <2>2, Zenon
<1>4. \A i \in 1..Len(s) : (h \o Tail(s))[i] = s[i]
  <2> SUFFICES ASSUME NEW i \in 1..Len(s) PROVE (h \o Tail(s))[i] = s[i]
    OBVIOUS
  <2>1. CASE i = 1
    BY <2>1, <1>1, <1>2, <1>3
  <2>2. CASE i # 1
    <3>1. i - 1 \in 1..(Len(s) - 1) /\ (i - 1) + 1 = i /\ ~(i <= 1)
      BY <2>2, <1>1
    <3> QED
      BY <3>1, <1>1, <1>3
  <2> QED
    BY <2>1, <2>2
<1>5. h \o Tail(s) = s
  BY <1>3, <1>4, SeqEqual
<1>6. Range(h \o Tail(s)) = Range(h) \cup Range(Tail(s))
  <2>1. h \in Seq(S) /\ Tail(s) \in Seq(S)
    BY <1>1, <1>2
  <2> QED
    BY <2>1, RangeConcatenation, ZenonT(30)
<1> QED
  BY <1>2, <1>5, <1>6 DEF h

\* A sequence that gains an element.
LEMMA AppendFacts ==
    ASSUME NEW S, NEW s \in Seq(S), NEW e \in S
    PROVE  /\ Len(s) \in Nat /\ DOMAIN s = 1..Len(s)
           /\ Append(s, e) \in Seq(S) /\ Len(Append(s, e)) = Len(s) + 1
           /\ DOMAIN Append(s, e) = 1..(Len(s) + 1)
           /\ \A k \in 1..Len(s) : Append(s, e)[k] = s[k]
           /\ Append(s, e)[Len(s) + 1] = e
  BY AppendProperties, LenProperties

\* Its elements.
LEMMA AppendRange ==
    ASSUME NEW S, NEW s \in Seq(S), NEW e \in S
    PROVE  Range(Append(s, e)) = Range(s) \cup {e}
<1> DEFINE t == <<e>>
<1>1. t \in Seq(S) /\ Range(t) = {e}
  BY DEF Range
<1>2. Append(s, e) = s \o t
  BY AppendIsConcat
<1> HIDE DEF t
<1>3. Range(s \o t) = Range(s) \cup Range(t)
  BY <1>1, RangeConcatenation
<1> QED
  BY <1>1, <1>2, <1>3

\* Two sequences one behind the other.
LEMMA ConcatFacts ==
    ASSUME NEW S, NEW s \in Seq(S), NEW t \in Seq(S)
    PROVE  /\ s \o t \in Seq(S) /\ Len(s \o t) = Len(s) + Len(t)
           /\ Len(s) \in Nat /\ Len(t) \in Nat
           /\ \A k \in 1..Len(s) : (s \o t)[k] = s[k]
           /\ \A k \in 1..Len(t) : (s \o t)[Len(s) + k] = t[k]
           /\ Range(s \o t) = Range(s) \cup Range(t)
           /\ s \o t = << >> <=> s = << >> /\ t = << >>
<1>1. Len(s) \in Nat /\ Len(t) \in Nat
  BY LenProperties
<1>2. /\ s \o t \in Seq(S) /\ Len(s \o t) = Len(s) + Len(t)
      /\ \A i \in 1 .. Len(s) + Len(t) : (s \o t)[i] = IF i <= Len(s) THEN s[i] ELSE t[i - Len(s)]
  BY ConcatProperties
<1>3. \A k \in 1..Len(s) : (s \o t)[k] = s[k]
  BY <1>1, <1>2
<1>4. ASSUME NEW k \in 1..Len(t) PROVE (s \o t)[Len(s) + k] = t[k]
  <2>1. Len(s) + k \in 1..Len(s) + Len(t) /\ ~(Len(s) + k <= Len(s)) /\ (Len(s) + k) - Len(s) = k
    BY <1>1
  <2> QED
    BY <2>1, <1>2
<1>5. Range(s \o t) = Range(s) \cup Range(t)
  BY RangeConcatenation
<1>6. s \o t = << >> <=> s = << >> /\ t = << >>
  BY ConcatEqualIffEmpty
<1> QED
  BY <1>1, <1>2, <1>3, <1>4, <1>5, <1>6

\* Concatenation is associative (as a predicate, which the provers instantiate).
Associates(x, y, z) == (x \o y) \o z = x \o (y \o z)

LEMMA Assoc == \A S : \A x, y, z \in Seq(S) : Associates(x, y, z)
<1> TAKE S
<1> TAKE x, y, z \in Seq(S)
<1> QED
  BY ConcatAssociative DEF Associates

\* Concatenations are sequences.
LEMMA Closed == \A S : \A x, y \in Seq(S) : x \o y \in Seq(S)
  BY ConcatProperties

\* Nothing is the unit of concatenation.
Neutral(x) == x \o << >> = x /\ << >> \o x = x

LEMMA EmptyNeutral == \A S : \A x \in Seq(S) : Neutral(x)
  BY ConcatEmptySeq DEF Neutral

\* Moving the head of a sequence to the end of the one before it changes nothing.
LEMMA Shift ==
    ASSUME NEW S, NEW a \in Seq(S), NEW b \in Seq(S), b # << >>
    PROVE  Append(a, Head(b)) \o Tail(b) = a \o b
<1> DEFINE h == <<Head(b)>>
<1>1. Head(b) \in S /\ Tail(b) \in Seq(S) /\ h \in Seq(S)
  BY TailFacts
<1>2. b = h \o Tail(b)
  BY TailRange
<1>3. Append(a, Head(b)) = a \o h
  BY <1>1, AppendIsConcat
<1> HIDE DEF h
<1>4. Associates(a, h, Tail(b))
  BY <1>1, Assoc, Zenon
<1> QED
  BY <1>2, <1>3, <1>4, Zenon DEF Associates

\* Five sequences, read from the left or from the right.
Flattens(a, b, c, d, e) == a \o b \o c \o d \o e = a \o (b \o (c \o (d \o e)))

LEMMA Flatten ==
    ASSUME NEW S, NEW a \in Seq(S), NEW b \in Seq(S), NEW c \in Seq(S), NEW d \in Seq(S),
           NEW e \in Seq(S)
    PROVE  /\ d \o e \in Seq(S) /\ c \o (d \o e) \in Seq(S) /\ b \o (c \o (d \o e)) \in Seq(S)
           /\ a \o (b \o (c \o (d \o e))) \in Seq(S)
           /\ Flattens(a, b, c, d, e)
<1>1. d \o e \in Seq(S) /\ a \o b \in Seq(S)
  BY Closed, Zenon
<1>2. a \o b \o c \in Seq(S) /\ c \o (d \o e) \in Seq(S)
  BY <1>1, Closed, Zenon
<1>3. b \o (c \o (d \o e)) \in Seq(S)
  BY <1>2, Closed, Zenon
<1>4. a \o (b \o (c \o (d \o e))) \in Seq(S)
  BY <1>3, Closed, Zenon
<1>5. /\ Associates(a \o b \o c, d, e)
      /\ Associates(a \o b, c, d \o e)
      /\ Associates(a, b, c \o (d \o e))
  BY <1>1, <1>2, Assoc, Zenon
<1> QED
  BY <1>1, <1>2, <1>3, <1>4, <1>5, Zenon DEF Associates, Flattens

\* Two terms are equal (as a predicate, which the provers instantiate).
Same(x, y) == x = y

\* A concatenation loses its head.
LEMMA TailConcat ==
    ASSUME NEW S, NEW s \in Seq(S), NEW t \in Seq(S), s # << >>
    PROVE  Tail(s \o t) = Tail(s) \o t /\ Head(s \o t) = Head(s)
<1>1. /\ s \o t \in Seq(S) /\ Len(s \o t) = Len(s) + Len(t)
      /\ Len(s) \in Nat /\ Len(t) \in Nat
      /\ \A k \in 1..Len(s) : (s \o t)[k] = s[k]
      /\ \A k \in 1..Len(t) : (s \o t)[Len(s) + k] = t[k]
      /\ s \o t # << >>
  BY ConcatFacts
<1>2. /\ Len(s) \in Nat \ {0} /\ Head(s) = s[1]
      /\ Tail(s) \in Seq(S) /\ Len(Tail(s)) = Len(s) - 1
      /\ \A k \in 1..(Len(s) - 1) : Tail(s)[k] = s[k + 1]
  BY TailFacts
<1> DEFINE u == s \o t
           v == Tail(s)
<1>3. /\ Head(u) = u[1] /\ Tail(u) \in Seq(S) /\ Len(Tail(u)) = Len(u) - 1
      /\ \A k \in 1..(Len(u) - 1) : Tail(u)[k] = u[k + 1]
  <2>1. u \in Seq(S) /\ u # << >>
    BY <1>1
  <2> HIDE DEF u
  <2> QED
    BY <2>1, TailFacts
<1>4. /\ v \o t \in Seq(S) /\ Len(v \o t) = Len(v) + Len(t)
      /\ \A k \in 1..Len(v) : (v \o t)[k] = v[k]
      /\ \A k \in 1..Len(t) : (v \o t)[Len(v) + k] = t[k]
  <2>1. v \in Seq(S)
    BY <1>2
  <2> HIDE DEF v
  <2> QED
    BY <2>1, ConcatFacts
<1>5. Head(s \o t) = Head(s)
  BY <1>1, <1>2, <1>3
<1>6. /\ Len(u) = Len(s) + Len(t) /\ Len(v) = Len(s) - 1
      /\ \A k \in 1..(Len(s) - 1) : v[k] = s[k + 1]
      /\ \A k \in 1..Len(s) : u[k] = s[k]
      /\ \A k \in 1..Len(t) : u[Len(s) + k] = t[k]
  BY <1>1, <1>2
<1> HIDE DEF u, v
<1>7. Len(Tail(u)) = Len(v \o t)
  BY <1>1, <1>2, <1>3, <1>4, <1>6
<1>8. ASSUME NEW k \in 1..Len(Tail(u)) PROVE Tail(u)[k] = (v \o t)[k]
  <2>0. k \in 1..(Len(s) + Len(t) - 1) /\ Tail(u)[k] = u[k + 1]
    BY <1>1, <1>2, <1>3, <1>6
  <2>1. CASE k \in 1..(Len(s) - 1)
    BY <2>0, <2>1, <1>1, <1>2, <1>4, <1>6
  <2>2. CASE k \notin 1..(Len(s) - 1)
    <3>1. k - Len(v) \in 1..Len(t) /\ Len(s) + (k - Len(v)) = k + 1 /\ Len(v) + (k - Len(v)) = k
      BY <2>0, <2>2, <1>1, <1>2, <1>6
    <3>2. u[k + 1] = t[k - Len(v)] /\ (v \o t)[k] = t[k - Len(v)]
      BY <3>1, <1>4, <1>6
    <3> QED
      BY <2>0, <3>2
  <2> QED
    BY <2>1, <2>2
<1>9. Tail(u) = v \o t
  <2>1. Tail(u) \in Seq(S) /\ v \o t \in Seq(S)
    BY <1>3, <1>4
  <2> QED
    BY <2>1, <1>7, <1>8, SeqEqual
<1> QED
  BY <1>5, <1>9 DEF u, v

\* A sequence that leaves out one place.
LEMMA LeaveOutFacts ==
    ASSUME NEW S, NEW s \in Seq(S), NEW i \in 1..Len(s)
    PROVE  LET t == SubSeq(s, 1, i - 1) \o SubSeq(s, i + 1, Len(s))
           IN  /\ t \in Seq(S) /\ Len(t) = Len(s) - 1
               /\ \A k \in 1..Len(s) - 1 : t[k] = IF k < i THEN s[k] ELSE s[k + 1]
<1> DEFINE a == SubSeq(s, 1, i - 1)
           b == SubSeq(s, i + 1, Len(s))
<1>1. Len(s) \in Nat
  BY LenProperties
<1>2. a \in Seq(S) /\ Len(a) = i - 1 /\ \A k \in 1..i - 1 : a[k] = s[k]
  <2>1. \A k \in 1..i - 1 : k \in 1..Len(s) /\ s[k] \in S
    BY <1>1, ElementOfSeq
  <2> QED
    BY <1>1, <2>1
<1>3. b \in Seq(S) /\ Len(b) = Len(s) - i /\ \A k \in 1..Len(s) - i : b[k] = s[k + i]
  <2>1. \A k \in i + 1..Len(s) : k \in 1..Len(s) /\ s[k] \in S
    BY <1>1, ElementOfSeq
  <2>2. b \in Seq(S)
    BY <1>1, <2>1
  <2>3. Len(b) = Len(s) - i
    BY <1>1
  <2>4. \A k \in 1..Len(s) - i : b[k] = s[k + i]
    BY <1>1, <2>3
  <2> QED
    BY <2>2, <2>3, <2>4
<1> HIDE DEF a, b
<1>5. /\ a \o b \in Seq(S) /\ Len(a \o b) = Len(a) + Len(b)
      /\ \A k \in 1..Len(a) + Len(b) : (a \o b)[k] = IF k <= Len(a) THEN a[k] ELSE b[k - Len(a)]
  BY <1>2, <1>3, ConcatProperties
<1>6. Len(a) + Len(b) = Len(s) - 1
  BY <1>1, <1>2, <1>3
<1>7. ASSUME NEW k \in 1..Len(s) - 1
      PROVE  (a \o b)[k] = IF k < i THEN s[k] ELSE s[k + 1]
  <2>1. CASE k < i
    BY <1>1, <1>2, <1>5, <1>6, <2>1
  <2>2. CASE ~(k < i)
    <3>1. k - Len(a) \in 1..Len(s) - i /\ (k - Len(a)) + i = k + 1 /\ ~(k <= Len(a))
      BY <1>1, <1>2, <2>2
    <3>2. (a \o b)[k] = b[k - Len(a)]
      BY <1>5, <1>6, <3>1
    <3>3. b[k - Len(a)] = s[(k - Len(a)) + i]
      BY <1>3, <3>1
    <3> QED
      BY <2>2, <3>1, <3>2, <3>3
  <2> QED
    BY <2>1, <2>2
<1> QED
  BY <1>5, <1>6, <1>7 DEF a, b

\* Two finite sets with a bijection between them are equally large.
LEMMA SameSize ==
    ASSUME NEW A, NEW B, IsFiniteSet(A), NEW f \in [A -> B],
           \A x, y \in A : f[x] = f[y] => x = y,
           \A b \in B : \E a \in A : f[a] = b
    PROVE  IsFiniteSet(B) /\ Cardinality(B) = Cardinality(A)
<1>1. f \in Bijection(A, B)
  BY DEF Bijection, Injection, Surjection, IsInjective
<1>2. ExistsBijection(A, B)
  BY <1>1 DEF ExistsBijection
<1> QED
  BY <1>2, FS_Bijection

-----------------------------------------------------------------------------
(* Sequences of anything.                                                  *)

IsSequence(s) == s \in Seq(Range(s))

Distinct(s) == \A j, k \in DOMAIN s : s[j] = s[k] => j = k

\* A sequence over a larger set.
LEMMA WiderSeq ==
    ASSUME NEW S, NEW T, NEW s \in Seq(S), Range(s) \subseteq T
    PROVE  s \in Seq(T)
<1>1. Len(s) \in Nat /\ DOMAIN s = 1..Len(s)
  BY LenProperties
<1>2. s \in [1..Len(s) -> Range(s)]
  BY <1>1 DEF Range
<1>3. s \in [1..Len(s) -> T]
  BY <1>1, <1>2
<1> QED
  BY <1>1, <1>3, FunIsSeq

\* A sequence over some set is a sequence.
LEMMA SeqIsSequence ==
    ASSUME NEW S, NEW s \in Seq(S)
    PROVE  IsSequence(s) /\ Len(s) \in Nat /\ DOMAIN s = 1..Len(s) /\ (s = << >> <=> Len(s) = 0)
<1>1. s \in Seq(Range(s))
  BY WiderSeq
<1> QED
  BY <1>1, SeqFacts DEF IsSequence

\* Nothing is a sequence.
LEMMA EmptyIsSequence ==
    IsSequence(<< >>) /\ Len(<< >>) = 0 /\ Range(<< >>) = {} /\ Distinct(<< >>)
<1>1. << >> \in Seq({}) /\ DOMAIN << >> = {}
  OBVIOUS
<1>2. IsSequence(<< >>)
  BY <1>1, SeqIsSequence
<1> QED
  BY <1>1, <1>2 DEF Range, Distinct

\* A sequence that gains any element.
LEMMA AppendIsSequence ==
    ASSUME NEW s, IsSequence(s), NEW e
    PROVE  /\ IsSequence(Append(s, e)) /\ Len(s) \in Nat /\ Len(Append(s, e)) = Len(s) + 1
           /\ Range(Append(s, e)) = Range(s) \cup {e} /\ Append(s, e) # << >>
           /\ e \notin Range(s) /\ Distinct(s) => Distinct(Append(s, e))
<1> DEFINE S == Range(s) \cup {e}
           t == Append(s, e)
<1>1. s \in Seq(Range(s)) /\ Range(s) \subseteq S
  BY DEF IsSequence
<1> HIDE DEF S
<1>2. s \in Seq(S)
  BY <1>1, WiderSeq
<1>3. e \in S
  BY DEF S
<1>4. /\ Len(s) \in Nat /\ DOMAIN s = 1..Len(s) /\ t \in Seq(S)
      /\ Len(t) = Len(s) + 1
      /\ DOMAIN t = 1..(Len(s) + 1) /\ t[Len(s) + 1] = e
      /\ \A k \in 1..Len(s) : t[k] = s[k]
  BY <1>2, <1>3, AppendFacts
<1>5. Range(t) = Range(s) \cup {e}
  BY <1>2, <1>3, AppendRange
<1> HIDE DEF t
<1>6. IsSequence(t) /\ t # << >>
  <2>1. IsSequence(t) /\ (t = << >> <=> Len(t) = 0)
    BY <1>4, SeqIsSequence
  <2> QED
    BY <1>4, <2>1
<1>7. ASSUME e \notin Range(s), Distinct(s) PROVE Distinct(t)
  <2>1. \A k \in 1..Len(s) : s[k] # e
    BY <1>4, <1>7 DEF Range
  <2>2. \A k \in DOMAIN t : k \in 1..Len(s) \/ k = Len(s) + 1
    BY <1>4
  <2> QED
    BY <1>4, <1>7, <2>1, <2>2, Zenon DEF Distinct
<1> QED
  BY <1>4, <1>5, <1>6, <1>7 DEF t

\* A sequence that loses its head.
LEMMA TailIsSequence ==
    ASSUME NEW s, IsSequence(s), s # << >>
    PROVE  /\ IsSequence(Tail(s)) /\ Len(Tail(s)) \in Nat /\ Len(s) = Len(Tail(s)) + 1
           /\ Head(s) \in Range(s)
           /\ Distinct(s) => Distinct(Tail(s)) /\ Range(Tail(s)) = Range(s) \ {Head(s)}
<1> DEFINE t == Tail(s)
<1>1. /\ Len(s) \in Nat \ {0} /\ DOMAIN s = 1..Len(s) /\ Head(s) = s[1] /\ Head(s) \in Range(s)
      /\ t \in Seq(Range(s)) /\ Len(t) = Len(s) - 1 /\ DOMAIN t = 1..(Len(s) - 1)
      /\ \A k \in 1..(Len(s) - 1) : t[k] = s[k + 1]
  BY TailFacts DEF IsSequence
<1>2. Range(s) = {Head(s)} \cup Range(t)
  BY TailRange DEF IsSequence
<1> HIDE DEF t
<1>3. IsSequence(t)
  BY <1>1, SeqIsSequence
<1>4. ASSUME Distinct(s) PROVE Distinct(t) /\ Head(s) \notin Range(t)
  <2>1. \A k \in 1..(Len(s) - 1) : k + 1 \in DOMAIN s /\ k + 1 # 1 /\ 1 \in DOMAIN s
    BY <1>1
  <2>2. Head(s) \notin Range(t)
    <3>1. \A k \in 1..(Len(s) - 1) : s[k + 1] # s[1]
      BY <1>4, <2>1 DEF Distinct
    <3>2. \A k \in DOMAIN t : t[k] # Head(s)
      BY <1>1, <3>1
    <3> QED
      BY <3>2 DEF Range
  <2>3. ASSUME NEW j \in DOMAIN t, NEW k \in DOMAIN t, t[j] = t[k] PROVE j = k
    <3>1. j + 1 = k + 1
      BY <1>1, <1>4, <2>1, <2>3, SMTT(30) DEF Distinct
    <3> QED
      BY <1>1, <3>1
  <2> QED
    BY <2>2, <2>3 DEF Distinct
<1>5. Len(t) \in Nat /\ Len(s) = Len(t) + 1
  BY <1>1
<1> QED
  BY <1>1, <1>2, <1>3, <1>4, <1>5 DEF t

\* Elements that are all different are as many as their set has elements.
LEMMA DistinctSize ==
    ASSUME NEW s, IsSequence(s), Distinct(s)
    PROVE  IsFiniteSet(Range(s)) /\ Cardinality(Range(s)) = Len(s)
<1> DEFINE n == Len(s)
<1>1. n \in Nat /\ DOMAIN s = 1..n
  BY LenProperties DEF IsSequence
<1>2. IsFiniteSet(1..n) /\ Cardinality(1..n) = n
  <2>1. 1 \in Int /\ n \in Int
    BY <1>1
  <2> HIDE DEF n
  <2>2. IsFiniteSet(1..n) /\ Cardinality(1..n) = IF 1 > n THEN 0 ELSE n - 1 + 1
    BY <2>1, FS_Interval
  <2> QED
    BY <1>1, <2>2
<1>3. s \in [1..n -> Range(s)]
  BY <1>1 DEF IsSequence, Range
<1>4. \A x \in Range(s) : \E k \in 1..n : s[k] = x
  BY <1>1 DEF Range
<1>5. \A j, k \in 1..n : s[j] = s[k] => j = k
  BY <1>1 DEF Distinct
<1> DEFINE R == Range(s)
<1> HIDE DEF R
<1>6. s \in [1..n -> R] /\ \A x \in R : \E k \in 1..n : s[k] = x
  BY <1>3, <1>4 DEF R
<1>7. IsFiniteSet(R) /\ Cardinality(R) = Cardinality(1..n)
  BY <1>2, <1>5, <1>6, SameSize
<1> QED
  BY <1>2, <1>7 DEF R

\* One sequence behind the other.
LEMMA DistinctConcat ==
    ASSUME NEW s, NEW t, IsSequence(s), IsSequence(t)
    PROVE  /\ IsSequence(s \o t) /\ Range(s \o t) = Range(s) \cup Range(t)
           /\ Len(s \o t) = Len(s) + Len(t) /\ Len(s) \in Nat /\ Len(t) \in Nat
           /\ Distinct(s) /\ Distinct(t) /\ Range(s) \cap Range(t) = {} => Distinct(s \o t)
<1> DEFINE S == Range(s) \cup Range(t)
           u == s \o t
<1>1. Range(s) \subseteq S /\ Range(t) \subseteq S /\ s \in Seq(Range(s)) /\ t \in Seq(Range(t))
  BY DEF IsSequence
<1> HIDE DEF S
<1>2. s \in Seq(S) /\ t \in Seq(S)
  BY <1>1, WiderSeq
<1>3. /\ u \in Seq(S) /\ Len(u) = Len(s) + Len(t)
      /\ \A k \in 1..Len(s) : u[k] = s[k]
      /\ \A k \in 1..Len(t) : u[Len(s) + k] = t[k]
      /\ Range(u) = Range(s) \cup Range(t)
  BY <1>2, ConcatFacts
<1>4. Len(s) \in Nat /\ Len(t) \in Nat /\ DOMAIN s = 1..Len(s) /\ DOMAIN t = 1..Len(t)
  BY <1>2, LenProperties
<1> HIDE DEF u
<1>5. IsSequence(u) /\ DOMAIN u = 1..Len(s) + Len(t)
  BY <1>3, SeqIsSequence
<1>6. ASSUME Distinct(s), Distinct(t), Range(s) \cap Range(t) = {},
             NEW j \in DOMAIN u, NEW k \in DOMAIN u, u[j] = u[k]
      PROVE  j = k
  <2>1. ASSUME NEW i \in DOMAIN u, ~(i \in 1..Len(s))
        PROVE  i - Len(s) \in 1..Len(t) /\ Len(s) + (i - Len(s)) = i
    BY <1>4, <1>5, <2>1
  <2>2. ASSUME NEW i \in DOMAIN u, ~(i \in 1..Len(s))
        PROVE  u[i] = t[i - Len(s)] /\ u[i] \in Range(t)
    BY <1>3, <1>4, <2>1, <2>2 DEF Range
  <2>3. ASSUME NEW i \in 1..Len(s) PROVE u[i] = s[i] /\ u[i] \in Range(s)
    BY <1>3, <1>4 DEF Range
  <2>4. CASE j \in 1..Len(s)
    <3>1. k \in 1..Len(s)
      BY <1>6, <2>2, <2>3, <2>4
    <3> QED
      BY <1>4, <1>6, <2>3, <2>4, <3>1 DEF Distinct
  <2>5. CASE j \notin 1..Len(s)
    <3>1. k \notin 1..Len(s)
      BY <1>6, <2>2, <2>3, <2>5
    <3>2. j - Len(s) = k - Len(s)
      BY <1>4, <1>6, <2>1, <2>2, <2>5, <3>1 DEF Distinct
    <3> QED
      BY <1>4, <1>5, <3>2
  <2> QED
    BY <2>4, <2>5
<1>7. Distinct(s) /\ Distinct(t) /\ Range(s) \cap Range(t) = {} => Distinct(u)
  BY <1>6 DEF Distinct
<1> QED
  BY <1>3, <1>4, <1>5, <1>7 DEF u

-----------------------------------------------------------------------------
(* The elements at some places of a sequence.                              *)

\* f collects the elements of s at the places T, up to each place from 0 to n.
Picks(f, s, T, n) ==
    f = [k \in 0..n |-> IF k = 0 THEN << >>
                        ELSE IF k \in T THEN Append(f[k - 1], s[k]) ELSE f[k - 1]]

\* What f collects up to the place k.
LEMMA PicksAt ==
    ASSUME NEW f, NEW s, NEW T, NEW n \in Nat, Picks(f, s, T, n), NEW k \in 0..n
    PROVE  f[k] = IF k = 0 THEN << >> ELSE IF k \in T THEN Append(f[k - 1], s[k]) ELSE f[k - 1]
<1> DEFINE h(j) == IF j = 0 THEN << >> ELSE IF j \in T THEN Append(f[j - 1], s[j]) ELSE f[j - 1]
<1>1. f = [j \in 0..n |-> h(j)]
  BY DEF Picks
<1> HIDE DEF h
<1>2. f[k] = h(k)
  BY <1>1
<1> QED
  BY <1>2 DEF h

\* The first k of the places T.
UpTo(T, k) == T \cap (1..k)

\* The places T up to the next one.
LEMMA UpToNext ==
    ASSUME NEW T, NEW k \in Nat
    PROVE  UpTo(T, k + 1) = IF k + 1 \in T THEN UpTo(T, k) \cup {k + 1} ELSE UpTo(T, k)
<1>1. \A j : j \in 1..k + 1 <=> j \in 1..k \/ j = k + 1
  OBVIOUS
<1> QED
  BY <1>1 DEF UpTo

\* The recursion has a solution.
LEMMA PicksExists ==
    ASSUME NEW s, NEW T, NEW n \in Nat
    PROVE  \E f : Picks(f, s, T, n)
<1> DEFINE B == {m \in Nat : ~ \E f : Picks(f, s, T, m)}
<1> SUFFICES B = {}
  OBVIOUS
<1> SUFFICES ASSUME B # {} PROVE FALSE
  OBVIOUS
<1>1. PICK m \in B : \A k \in B : m <= k
  BY LeastNumber, B \in SUBSET Nat
<1>2. CASE m = 0
  <2> DEFINE f == [k \in 0..0 |-> << >>]
  <2>1. Picks(f, s, T, 0)
    BY DEF Picks
  <2> QED
    BY <1>2, <2>1
<1>3. CASE m # 0
  <2>1. m - 1 \in Nat /\ m - 1 \notin B
    BY <1>1, <1>3
  <2>2. PICK f : Picks(f, s, T, m - 1)
    BY <2>1
  <2> DEFINE g == [k \in 0..m |-> IF k = 0 THEN << >>
                                  ELSE IF k \in T THEN Append(f[k - 1], s[k]) ELSE f[k - 1]]
  <2>3. ASSUME NEW k \in 0..m - 1 PROVE g[k] = f[k]
    <3>1. k \in 0..m
      BY <2>1
    <3>2. f[k] = IF k = 0 THEN << >> ELSE IF k \in T THEN Append(f[k - 1], s[k]) ELSE f[k - 1]
      BY <2>1, <2>2, PicksAt
    <3> QED
      BY <3>1, <3>2
  <2>4. ASSUME NEW k \in 0..m, k # 0 PROVE g[k - 1] = f[k - 1]
    <3>1. k - 1 \in 0..m - 1
      BY <2>1, <2>4
    <3> QED
      BY <2>3, <3>1
  <2>5. Picks(g, s, T, m)
    BY <2>4 DEF Picks
  <2> QED
    BY <2>5
<1> QED
  BY <1>2, <1>3

\* ElementsAt returns the elements at the places T: as many as T has, and no other; no
\* element twice if s has none twice.
LEMMA ElementsAtFacts ==
    ASSUME NEW s, IsSequence(s), NEW T \in SUBSET (1..Len(s))
    PROVE  LET r == ElementsAt(s, T)
           IN  /\ IsSequence(r) /\ Len(r) = Cardinality(T) /\ Range(r) = {s[k] : k \in T}
               /\ Distinct(s) => Distinct(r)
<1> DEFINE n == Len(s)
           f == CHOOSE g : Picks(g, s, T, n)
<1>1. n \in Nat /\ DOMAIN s = 1..n
  BY LenProperties DEF IsSequence
<1>2. ElementsAt(s, T) = f[n]
  BY DEF ElementsAt, Picks
<1>3. Picks(f, s, T, n)
  BY <1>1, PicksExists
<1> HIDE DEF f
<1>4. /\ f[0] = << >>
      /\ \A k \in 0..n : k # 0 => f[k] = IF k \in T THEN Append(f[k - 1], s[k]) ELSE f[k - 1]
  <2>1. 0 \in 0..n
    BY <1>1
  <2> QED
    BY <1>1, <1>3, <2>1, PicksAt
<1> DEFINE Good(k) == /\ IsSequence(f[k]) /\ IsFiniteSet(UpTo(T, k))
                      /\ Len(f[k]) = Cardinality(UpTo(T, k))
                      /\ Range(f[k]) = {s[j] : j \in UpTo(T, k)}
                      /\ Distinct(s) => Distinct(f[k])
           B == {k \in 0..n : ~Good(k)}
<1>5. B = {}
  <2> SUFFICES ASSUME B # {} PROVE FALSE
    OBVIOUS
  <2>1. B \in SUBSET Nat
    BY <1>1
  <2>2. PICK m \in B : \A k \in B : m <= k
    BY <2>1, LeastNumber
  <2>3. Good(0)
    <3>1. UpTo(T, 0) = {} /\ IsFiniteSet({}) /\ Cardinality({}) = 0
      BY FS_EmptySet DEF UpTo
    <3> QED
      BY <1>4, <3>1, EmptyIsSequence
  <2>4. m # 0
    BY <2>2, <2>3
  <2> DEFINE k == m - 1
  <2>5. k \in Nat /\ k \in 0..n /\ k + 1 = m /\ m \in 0..n /\ ~(m <= k)
    BY <1>1, <2>2, <2>4
  <2>6. Good(k)
    BY <2>2, <2>5
  <2>7. UpTo(T, m) = IF m \in T THEN UpTo(T, k) \cup {m} ELSE UpTo(T, k)
    <3>1. UpTo(T, k + 1) = IF k + 1 \in T THEN UpTo(T, k) \cup {k + 1} ELSE UpTo(T, k)
      BY <2>5, UpToNext
    <3> QED
      BY <2>5, <3>1
  <2>8. f[m] = IF m \in T THEN Append(f[k], s[m]) ELSE f[k]
    BY <1>4, <2>4, <2>5
  <2> HIDE DEF k
  <2>9. Good(m)
    <3>1. CASE m \in T
      <4>1. m \notin UpTo(T, k)
        BY <2>5 DEF UpTo
      <4>2. /\ IsFiniteSet(UpTo(T, m))
            /\ Cardinality(UpTo(T, m)) = Cardinality(UpTo(T, k)) + 1
        BY <2>6, <2>7, <3>1, <4>1, FS_AddElement
      <4>3. /\ IsSequence(Append(f[k], s[m])) /\ Len(Append(f[k], s[m])) = Len(f[k]) + 1
            /\ Range(Append(f[k], s[m])) = Range(f[k]) \cup {s[m]}
            /\ s[m] \notin Range(f[k]) /\ Distinct(f[k]) => Distinct(Append(f[k], s[m]))
        BY <2>6, AppendIsSequence
      <4>5. ASSUME Distinct(s) PROVE s[m] \notin Range(f[k])
        <5>1. \A j \in UpTo(T, k) : j \in DOMAIN s /\ j # m
          BY <1>1, <4>1 DEF UpTo
        <5>2. m \in DOMAIN s
          BY <1>1, <3>1
        <5>3. \A j \in UpTo(T, k) : s[j] # s[m]
          BY <4>5, <5>1, <5>2 DEF Distinct
        <5> QED
          BY <2>6, <5>3
      <4>4. {s[j] : j \in UpTo(T, m)} = {s[j] : j \in UpTo(T, k)} \cup {s[m]}
        BY <2>7, <3>1
      <4> QED
        BY <2>6, <2>8, <3>1, <4>2, <4>3, <4>4, <4>5
    <3>2. CASE m \notin T
      BY <2>6, <2>7, <2>8, <3>2
    <3> QED
      BY <3>1, <3>2
  <2> QED
    BY <2>2, <2>9
<1>6. Good(n)
  BY <1>1, <1>5
<1>7. UpTo(T, n) = T
  BY DEF UpTo
<1> QED
  BY <1>2, <1>6, <1>7
=============================================================================
