------------------------------- MODULE SetLemmas -------------------------------
(***************************************************************************)
(* Facts about sets of numbers and sequences that the proof modules share. *)
(***************************************************************************)
EXTENDS Integers, Sequences, FiniteSets, FiniteSetTheorems, WellFoundedInduction, TLAPS

\* A non-empty set of natural numbers has a least element.
LEMMA NatMinimum ==
    ASSUME NEW S \in SUBSET Nat, S # {}
    PROVE  \E m \in S : \A n \in S : m <= n
<1> DEFINE LT == {ss \in Nat \X Nat : ss[1] < ss[2]}
<1>1. IsWellFoundedOn(LT, Nat)
    BY NatLessThanWellFounded DEF OpToRel
<1>2. PICK m \in S : \A n \in S : <<n, m>> \notin LT
    <2> HIDE DEF LT
    <2> QED BY <1>1, WFMin
<1>3. \A n \in S : m <= n
    <2> SUFFICES ASSUME NEW n \in S, n < m PROVE FALSE
        OBVIOUS
    <2>1. <<n, m>> \in Nat \X Nat /\ <<n, m>>[1] < <<n, m>>[2]
        OBVIOUS
    <2>2. <<n, m>> \in LT
        BY <2>1
    <2> QED BY <1>2, <2>2
<1> QED BY <1>3

\* A function to the naturals takes a least value on a non-empty set.
LEMMA LeastOn ==
    ASSUME NEW q, q # {}, NEW f \in [q -> Nat]
    PROVE  \E e \in q : \A d \in q : f[e] <= f[d]
<1> DEFINE S == {f[e] : e \in q}
<1>1. S \in SUBSET Nat /\ S # {}
    OBVIOUS
<1>2. \A d \in q : f[d] \in S
    OBVIOUS
<1>3. \A m \in S : \E e \in q : f[e] = m
    OBVIOUS
<1> HIDE DEF S
<1>4. PICK m \in S : \A n \in S : m <= n
    BY <1>1, NatMinimum
<1> QED BY <1>2, <1>3, <1>4

\* The intervals a batch of none, one or two numbers makes up.
LEMMA ShortIntervals ==
    \A s \in Nat : /\ s .. s - 1 = {}
                  /\ s .. s = {s}
                  /\ s .. s + 1 = {s, s + 1}
OBVIOUS

\* What Append does to the elements and the range of a sequence.
LEMMA AppendProperties ==
    ASSUME NEW S, NEW s \in Seq(S), NEW x \in S
    PROVE  /\ Append(s, x) \in Seq(S)
           /\ DOMAIN Append(s, x) = DOMAIN s \cup {Len(s) + 1}
           /\ \A n \in DOMAIN s : Append(s, x)[n] = s[n]
           /\ Append(s, x)[Len(s) + 1] = x
           /\ Len(s) + 1 \notin DOMAIN s
           /\ Len(s) \in Nat
           /\ DOMAIN s = 1 .. Len(s)
OBVIOUS

\* s has an element of A; it has one at most.
Has(s, A) == \E k \in DOMAIN s : s[k] \in A
AtMostOne(s, A) == \A j, k \in DOMAIN s : s[j] \in A /\ s[k] \in A => j = k

\* What Append, Tail and Head do to them.
LEMMA HasNothing == \A A : ~ Has(<<>>, A) /\ AtMostOne(<<>>, A)
BY DEF Has, AtMostOne

LEMMA HasAppended ==
    ASSUME NEW S, NEW s \in Seq(S), NEW x \in S, NEW A
    PROVE  /\ Append(s, x) \in Seq(S)
           /\ Has(Append(s, x), A) <=> Has(s, A) \/ x \in A
           /\ AtMostOne(s, A) /\ (x \notin A \/ ~ Has(s, A)) => AtMostOne(Append(s, x), A)
<1> DEFINE t == Append(s, x)
<1>1. /\ t \in Seq(S)
      /\ DOMAIN t = DOMAIN s \cup {Len(s) + 1}
      /\ \A n \in DOMAIN s : t[n] = s[n]
      /\ t[Len(s) + 1] = x
      /\ Len(s) + 1 \notin DOMAIN s
    BY AppendProperties
<1> HIDE DEF t
<1>2. Has(t, A) <=> Has(s, A) \/ x \in A
    BY <1>1 DEF Has
<1>3. AtMostOne(s, A) /\ (x \notin A \/ ~ Has(s, A)) => AtMostOne(t, A)
    BY <1>1 DEF Has, AtMostOne
<1> QED BY <1>1, <1>2, <1>3 DEF t

LEMMA HasRest ==
    ASSUME NEW S, NEW s \in Seq(S), s # <<>>, NEW A
    PROVE  /\ Head(s) \in S /\ Tail(s) \in Seq(S)
           /\ Head(s) \in A => Has(s, A)
           /\ Has(Tail(s), A) => Has(s, A)
           /\ AtMostOne(s, A) => AtMostOne(Tail(s), A)
           /\ AtMostOne(s, A) /\ Head(s) \in A => ~ Has(Tail(s), A)
<1> DEFINE t == Tail(s)
<1>1. /\ t \in Seq(S) /\ Len(s) \in Nat \ {0}
      /\ DOMAIN s = 1 .. Len(s) /\ DOMAIN t = 1 .. Len(s) - 1
      /\ \A n \in 1 .. Len(s) - 1 : t[n] = s[n + 1]
      /\ Head(s) = s[1] /\ s[1] \in S
    OBVIOUS
<1> HIDE DEF t
<1>2. 1 \in DOMAIN s /\ \A n \in DOMAIN t : n + 1 \in DOMAIN s /\ n + 1 # 1 /\ t[n] = s[n + 1]
    BY <1>1
<1>3. \A m, n \in DOMAIN t : m + 1 = n + 1 => m = n
    BY <1>1
<1>4. Has(t, A) => Has(s, A)
    BY <1>2 DEF Has
<1>5. AtMostOne(s, A) => AtMostOne(t, A)
    <2> SUFFICES ASSUME AtMostOne(s, A), NEW m \in DOMAIN t, NEW n \in DOMAIN t,
                        t[m] \in A, t[n] \in A
                 PROVE  m = n
        BY DEF AtMostOne
    <2>1. m + 1 = n + 1
        BY <1>2 DEF AtMostOne
    <2> QED BY <2>1, <1>3
<1>6. AtMostOne(s, A) /\ s[1] \in A => ~ Has(t, A)
    BY <1>2 DEF Has, AtMostOne
<1>7. s[1] \in A => Has(s, A)
    BY <1>2 DEF Has
<1> QED BY <1>1, <1>4, <1>5, <1>6, <1>7 DEF t


\* Among some subsets of a finite set, one is such that none of them has just
\* one element less: induction over finite sets.
LEMMA LeastSubset ==
    ASSUME NEW S, IsFiniteSet(S), NEW B \in SUBSET (SUBSET S), B # {}
    PROVE  \E T \in B : \A x \in T : T \ {x} \notin B
<1> DEFINE Sizes == {Cardinality(T) : T \in B}
<1>1. \A T \in SUBSET S : IsFiniteSet(T) /\ Cardinality(T) \in Nat
    BY FS_Subset, FS_CardinalityType
<1>2. Sizes \in SUBSET Nat /\ Sizes # {}
    BY <1>1
<1>3. PICK m \in Sizes : \A n \in Sizes : m <= n
    <2> HIDE DEF Sizes
    <2> QED BY <1>2, NatMinimum
<1>4. PICK T \in B : Cardinality(T) = m
    OBVIOUS
<1>5. ASSUME NEW x \in T, T \ {x} \in B PROVE FALSE
    <2>1. Cardinality(T \ {x}) = Cardinality(T) - 1
        BY <1>1, FS_RemoveElement
    <2>2. Cardinality(T \ {x}) \in Sizes
        BY <1>5
    <2>3. m <= m - 1 /\ m \in Nat
        BY <1>1, <1>3, <1>4, <2>1, <2>2
    <2> QED BY <2>3
<1> QED BY <1>5

================================================================================
