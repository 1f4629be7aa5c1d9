--------------------------- MODULE SequenceLemmas ---------------------------
(***************************************************************************)
(* Lemmas about the operators on sequences the models are built from: the  *)
(* elements of a sequence, sequences without repetition, the listings of a *)
(* finite set.  The sequences stand for the vectors of the code.           *)
(***************************************************************************)
EXTENDS SequencesExt, FiniteSetTheorems, SequenceTheorems, TLAPS

\* The empty sequence has no element.
LEMMA ToSetEmpty == ToSet(<<>>) = {}
  BY DEF ToSet

\* The elements of a sequence over S are in S.
LEMMA ToSetType ==
  ASSUME NEW S, NEW s \in Seq(S)
  PROVE  ToSet(s) \subseteq S
  BY DEF ToSet

\* Append adds its element, and nothing else.
LEMMA ToSetAppend ==
  ASSUME NEW S, NEW s \in Seq(S), NEW e \in S
  PROVE  /\ ToSet(Append(s, e)) = ToSet(s) \union {e}
         /\ Append(s, e) \in Seq(S)
         /\ Len(Append(s, e)) = Len(s) + 1
         /\ Append(s, e) # <<>>
<1>1. /\ Append(s, e) \in Seq(S)
      /\ Len(Append(s, e)) = Len(s) + 1
      /\ DOMAIN Append(s, e) = 1..Len(s)+1
      /\ \A i \in 1..Len(s) : Append(s, e)[i] = s[i]
      /\ Append(s, e)[Len(s) + 1] = e
  OBVIOUS
<1>2. ToSet(Append(s, e)) \subseteq ToSet(s) \union {e}
  BY <1>1 DEF ToSet
<1>3. ToSet(s) \subseteq ToSet(Append(s, e))
  BY <1>1 DEF ToSet
<1>4. e \in ToSet(Append(s, e))
  BY <1>1 DEF ToSet
<1> QED
  BY <1>1, <1>2, <1>3, <1>4

\* A sequence of one element.
LEMMA ToSetSingle ==
  ASSUME NEW e
  PROVE  ToSet(<<e>>) = {e}
  BY DEF ToSet

\* Front drops at most the last element.
LEMMA ToSetFront ==
  ASSUME NEW S, NEW s \in Seq(S), s # <<>>
  PROVE  /\ Front(s) \in Seq(S)
         /\ Len(Front(s)) = Len(s) - 1
         /\ \A i \in 1..Len(s) - 1 : Front(s)[i] = s[i]
         /\ ToSet(s) = ToSet(Front(s)) \union {s[Len(s)]}
         /\ s[Len(s)] \in S
<1>1. Len(s) \in Nat \ {0}
  OBVIOUS
<1>2. /\ Front(s) \in Seq(S)
      /\ Len(Front(s)) = Len(s) - 1
      /\ \A i \in 1..Len(s) - 1 : Front(s)[i] = s[i]
  <2> DEFINE last == Len(s) - 1
             front == SubSeq(s, 1, last)
  <2>1. last \in Nat /\ \A i \in 1..last : s[i] \in S
    BY <1>1
  <2>2. /\ front \in Seq(S)
        /\ Len(front) = IF 1 <= last THEN last - 1 + 1 ELSE 0
        /\ \A i \in 1..last - 1 + 1 : front[i] = s[1 + i - 1]
    <3> HIDE DEF last
    <3> QED
      BY <2>1, SubSeqProperties
  <2>3. Front(s) = front
    BY DEF Front
  <2> HIDE DEF last, front
  <2>4. Len(front) = last /\ \A i \in 1..last : front[i] = s[i]
    BY <2>1, <2>2
  <2> QED
    BY <2>2, <2>3, <2>4 DEF last
<1>3. ToSet(Front(s)) \subseteq ToSet(s)
  BY <1>1, <1>2 DEF ToSet
<1>4. s[Len(s)] \in ToSet(s) /\ s[Len(s)] \in S
  BY <1>1 DEF ToSet
<1>5. ASSUME NEW x \in ToSet(s)
      PROVE  x \in ToSet(Front(s)) \union {s[Len(s)]}
  <2>1. PICK i \in 1..Len(s) : x = s[i]
    BY DEF ToSet
  <2>2. CASE i = Len(s)
    BY <2>1, <2>2
  <2>3. CASE i # Len(s)
    BY <1>1, <1>2, <2>1, <2>3 DEF ToSet
  <2> QED
    BY <2>2, <2>3
<1> QED
  BY <1>2, <1>3, <1>4, <1>5

\* Appending a new element to a sequence without repetition.
LEMMA InjectiveAppend ==
  ASSUME NEW S, NEW s \in Seq(S), NEW e \in S, IsInjective(s), e \notin ToSet(s)
  PROVE  IsInjective(Append(s, e))
  BY DEF IsInjective, ToSet

\* Removing the last element of a sequence without repetition.
LEMMA InjectiveFront ==
  ASSUME NEW S, NEW s \in Seq(S), s # <<>>, IsInjective(s)
  PROVE  IsInjective(Front(s))
<1>1. /\ DOMAIN Front(s) = 1..Len(s) - 1
      /\ \A i \in 1..Len(s) - 1 : Front(s)[i] = s[i]
  BY ToSetFront
<1> QED
  BY <1>1 DEF IsInjective

\* Tail drops the first element.
LEMMA ToSetTail ==
  ASSUME NEW S, NEW s \in Seq(S), s # <<>>
  PROVE  /\ Tail(s) \in Seq(S)
         /\ Head(s) \in S
         /\ ToSet(s) = {Head(s)} \union ToSet(Tail(s))
<1> DEFINE t == Tail(s)
<1>1. /\ t \in Seq(S) /\ Head(s) \in S /\ Head(s) = s[1]
      /\ DOMAIN s = 1..Len(s) /\ Len(s) \in Nat \ {0}
      /\ DOMAIN t = 1..Len(s)-1
      /\ \A i \in 1..Len(s)-1 : t[i] = s[i+1]
  OBVIOUS
<1> HIDE DEF t
<1>2. ToSet(t) \subseteq ToSet(s) /\ Head(s) \in ToSet(s)
  BY <1>1 DEF ToSet
<1>3. ASSUME NEW i \in 1..Len(s), i # 1
      PROVE  s[i] \in ToSet(t)
  <2>1. i-1 \in 1..Len(s)-1 /\ t[i-1] = s[i]
    BY <1>1, <1>3
  <2> QED
    BY <1>1, <2>1 DEF ToSet
<1>4. ToSet(s) \subseteq {Head(s)} \union ToSet(t)
  BY <1>1, <1>3 DEF ToSet
<1> QED
  BY <1>1, <1>2, <1>4 DEF t

\* Of a sequence without repetition, the first element is not in the rest.
LEMMA InjectiveTail ==
  ASSUME NEW S, NEW s \in Seq(S), s # <<>>, IsInjective(s)
  PROVE  IsInjective(Tail(s)) /\ Head(s) \notin ToSet(Tail(s))
<1> DEFINE t == Tail(s)
<1>1. /\ Head(s) = s[1] /\ Len(s) \in Nat \ {0}
      /\ DOMAIN s = 1..Len(s) /\ DOMAIN t = 1..Len(s)-1
      /\ \A i \in 1..Len(s)-1 : t[i] = s[i+1]
  OBVIOUS
<1> HIDE DEF t
<1>2. IsInjective(t)
  BY <1>1 DEF IsInjective
<1>3. ASSUME NEW i \in 1..Len(s)-1
      PROVE  t[i] # s[1]
  BY <1>1, <1>3 DEF IsInjective
<1> QED
  BY <1>1, <1>2, <1>3 DEF ToSet, t

\* A listing of a finite set holds each of its elements once.
LEMMA ListingCovers ==
  ASSUME NEW S, IsFiniteSet(S), NEW s \in SetToSeqs(S)
  PROVE  /\ s \in Seq(S)
         /\ ToSet(s) = S
         /\ Len(s) = Cardinality(S)
         /\ IsInjective(s)
<1> DEFINE D == 1..Cardinality(S)
<1>1. Cardinality(S) \in Nat
  BY FS_CardinalityType
<1>2. s \in [D -> S] /\ \A i, j \in D : i # j => s[i] # s[j]
  BY DEF SetToSeqs
<1>3. IsFiniteSet(D) /\ Cardinality(D) = Cardinality(S)
  BY <1>1, FS_Interval
<1>4. s \in Injection(D, S)
  BY <1>2 DEF Injection, IsInjective
<1>5. s \in Surjection(D, S)
  BY <1>3, <1>4, FS_Injection
<1>6. ToSet(s) = S
  BY <1>2, <1>5 DEF ToSet, Surjection
<1>7. s \in Seq(S) /\ Len(s) = Cardinality(S)
  BY <1>1, <1>2
<1> QED
  BY <1>2, <1>6, <1>7 DEF IsInjective

\* A listing of a finite set exists, so SetToSeq gives one.
LEMMA ListingExists ==
  ASSUME NEW S, IsFiniteSet(S)
  PROVE  SetToSeq(S) \in SetToSeqs(S)
<1> DEFINE D == 1..Cardinality(S)
<1>1. PICK n \in Nat : ExistsBijection(1..n, S)
  BY FS_NatBijection
<1>2. Cardinality(S) = n
  BY <1>1, FS_CountingElements
<1>3. PICK f : f \in Bijection(D, S)
  BY <1>1, <1>2 DEF ExistsBijection
<1>4. f \in [D -> S] /\ IsInjective(f)
  BY <1>3 DEF Bijection, Injection, IsInjective
<1>5. SetToSeq(S) \in [D -> S] /\ IsInjective(SetToSeq(S))
  BY <1>4 DEF SetToSeq
<1> QED
  BY <1>5 DEF SetToSeqs, IsInjective

\* The elements of a concatenation.
LEMMA ToSetConcat ==
  ASSUME NEW S, NEW s \in Seq(S), NEW T, NEW t \in Seq(T)
  PROVE  /\ s \o t \in Seq(S \union T)
         /\ ToSet(s \o t) = ToSet(s) \union ToSet(t)
<1> DEFINE c == s \o t
<1>1. /\ c \in Seq(S \union T) /\ Len(c) = Len(s) + Len(t)
      /\ Len(s) \in Nat /\ Len(t) \in Nat
      /\ \A i \in 1..Len(s) : c[i] = s[i]
      /\ \A i \in 1..Len(t) : c[Len(s) + i] = t[i]
  OBVIOUS
<1>2. DOMAIN c = 1..Len(s) + Len(t) /\ DOMAIN s = 1..Len(s) /\ DOMAIN t = 1..Len(t)
  BY <1>1
<1> HIDE DEF c
<1>3. \A i \in DOMAIN c : c[i] \in ToSet(s) \union ToSet(t)
  <2> SUFFICES ASSUME NEW i \in DOMAIN c PROVE c[i] \in ToSet(s) \union ToSet(t)
    OBVIOUS
  <2>1. CASE i <= Len(s)
    BY <1>1, <1>2, <2>1 DEF ToSet
  <2>2. CASE i > Len(s)
    <3>1. i - Len(s) \in 1..Len(t) /\ i = Len(s) + (i - Len(s))
      BY <1>1, <1>2, <2>2
    <3> QED
      BY <1>1, <1>2, <3>1 DEF ToSet
  <2> QED
    BY <1>1, <1>2, <2>1, <2>2
<1>4. \A e \in ToSet(s) \union ToSet(t) : \E i \in DOMAIN c : c[i] = e
  <2>1. \A i \in DOMAIN s : i \in DOMAIN c /\ c[i] = s[i]
    BY <1>1, <1>2
  <2>2. \A i \in DOMAIN t : Len(s) + i \in DOMAIN c /\ c[Len(s) + i] = t[i]
    BY <1>1, <1>2
  <2> QED
    BY <2>1, <2>2 DEF ToSet
<1>5. ToSet(c) = ToSet(s) \union ToSet(t)
  BY <1>3, <1>4 DEF ToSet
<1> QED
  BY <1>1, <1>5 DEF c

\* A sequence without repetition is as long as the set of its elements.
LEMMA InjectiveLength ==
  ASSUME NEW S, NEW s \in Seq(S), IsInjective(s)
  PROVE  IsFiniteSet(ToSet(s)) /\ Cardinality(ToSet(s)) = Len(s)
<1> DEFINE D == 1..Len(s)
           T == ToSet(s)
<1>1. Len(s) \in Nat /\ DOMAIN s = D /\ s \in [D -> T]
  BY DEF ToSet
<1>2. IsFiniteSet(D) /\ Cardinality(D) = Len(s)
  BY <1>1, FS_Interval
<1>3. s \in Surjection(D, T)
  BY <1>1 DEF Surjection, ToSet
<1>4. s \in Injection(D, T)
  BY <1>1 DEF Injection, IsInjective
<1> QED
  BY <1>2, <1>3, <1>4, FS_Surjection

\* The elements of a sequence are at most as many as its indexes.
LEMMA ElementsAtMostLength ==
  ASSUME NEW S, NEW s \in Seq(S), NEW T \in SUBSET ToSet(s)
  PROVE  /\ IsFiniteSet(T) /\ Cardinality(T) \in Nat /\ Len(s) \in Nat
         /\ Cardinality(T) <= Len(s)
<1> DEFINE D == 1..Len(s)
<1>1. Len(s) \in Nat /\ s \in [D -> ToSet(s)] /\ DOMAIN s = D
  BY DEF ToSet
<1>2. IsFiniteSet(D) /\ Cardinality(D) = Len(s)
  BY <1>1, FS_Interval
<1>3. s \in Surjection(D, ToSet(s))
  BY <1>1 DEF Surjection, ToSet
<1>4. IsFiniteSet(ToSet(s)) /\ Cardinality(ToSet(s)) <= Len(s)
  BY <1>2, <1>3, FS_Surjection
<1>5. IsFiniteSet(T) /\ Cardinality(T) <= Cardinality(ToSet(s))
  BY <1>4, FS_Subset
<1>6. Cardinality(T) \in Nat /\ Cardinality(ToSet(s)) \in Nat
  BY <1>4, <1>5, FS_CardinalityType
<1> QED
  BY <1>1, <1>4, <1>5, <1>6

=============================================================================
