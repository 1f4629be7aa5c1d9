------------------------ MODULE DynModelExportProofs ------------------------
(***************************************************************************)
(* Proofs about DynModelExport, with DataBase and DynModelAlgo, for every  *)
(* number of nodes and all files and networks: the vectors the handlers    *)
(* fill are those of the files, the models exported and their connections  *)
(* are those the files ask for, and the dyd and par files agree.           *)
(*                                                                         *)
(* The inductive invariant has two halves.  DocumentsInv says, while the   *)
(* parser is at some child of some element, what a reader of the file      *)
(* would have kept of what precedes; ProcessInv says what the nodes met so *)
(* far have given, and at the end compares it with what the files ask for. *)
(* No induction over the data is needed: each vector or set is given by    *)
(* the positions passed, and a step adds one position.                     *)
(***************************************************************************)
EXTENDS DynModelExport, SequenceLemmas, WellFoundedInduction

-----------------------------------------------------------------------------
(***************************************************************************)
(* Numbers and finite sets of positions.                                   *)
(***************************************************************************)


\* A non-empty set of naturals has a least element.
LEMMA LeastNatural ==
  ASSUME NEW T \in SUBSET Nat, T # {}
  PROVE  \E m \in T : \A k \in T : m <= k
<1> DEFINE R == OpToRel(<, Nat)
<1>1. IsWellFoundedOn(R, Nat)
  BY NatLessThanWellFounded
<1>2. \A x, y \in Nat : <<x, y>> \in R <=> x < y
  BY DEF OpToRel
<1> HIDE DEF R
<1>3. PICK m \in T : \A k \in T : ~(<<k, m>> \in R)
  BY <1>1, WFMin
<1>4. ASSUME NEW k \in T
      PROVE  m <= k
  <2>1. m \in Nat /\ k \in Nat /\ ~(<<k, m>> \in R)
    BY <1>3
  <2>2. ~(k < m)
    BY <1>2, <2>1
  <2> QED
    BY <2>1, <2>2
<1> QED
  BY <1>4

-----------------------------------------------------------------------------
(***************************************************************************)
(* The elements of a sequence at the positions of a set.                   *)
(***************************************************************************)

\* The number of positions of P up to p.
UpTo(P, p) == {q \in P : q <= p}

\* A position is counted among those of its set.
LEMMA RankType ==
  ASSUME NEW P \in SUBSET Nat, IsFiniteSet(P), NEW p \in P
  PROVE  /\ IsFiniteSet(UpTo(P, p))
         /\ Cardinality(UpTo(P, p)) \in 1..Cardinality(P)
         /\ Cardinality(P) \in Nat
<1>1. UpTo(P, p) \in SUBSET P /\ p \in UpTo(P, p)
  BY DEF UpTo
<1>2. /\ IsFiniteSet(UpTo(P, p))
      /\ Cardinality(UpTo(P, p)) <= Cardinality(P)
  BY <1>1, FS_Subset
<1>3. Cardinality(UpTo(P, p)) \in Nat /\ Cardinality(P) \in Nat
  BY <1>2, FS_CardinalityType
<1>4. Cardinality(UpTo(P, p)) # 0
  BY <1>1, <1>2, FS_EmptySet
<1> QED
  BY <1>2, <1>3, <1>4

\* Positions are in the order of their ranks.
LEMMA RankStrict ==
  ASSUME NEW P \in SUBSET Nat, IsFiniteSet(P), NEW p \in P, NEW r \in P, p < r
  PROVE  Cardinality(UpTo(P, p)) < Cardinality(UpTo(P, r))
<1>1. /\ UpTo(P, p) \in SUBSET UpTo(P, r)
      /\ r \in UpTo(P, r) /\ r \notin UpTo(P, p)
  <2>1. /\ p \in Nat /\ r \in Nat /\ r <= r /\ ~(r <= p)
        /\ \A q \in P : q \in Nat /\ (q <= p => q <= r)
    OBVIOUS
  <2> QED
    BY <2>1 DEF UpTo
<1>2. /\ IsFiniteSet(UpTo(P, r))
      /\ Cardinality(UpTo(P, r)) \in Nat /\ Cardinality(UpTo(P, p)) \in Nat
  BY RankType
<1>3. /\ Cardinality(UpTo(P, p)) <= Cardinality(UpTo(P, r))
      /\ Cardinality(UpTo(P, r)) # Cardinality(UpTo(P, p))
  BY <1>1, <1>2, FS_Subset
<1> QED
  BY <1>2, <1>3

\* Two positions of the same rank are one.
LEMMA RankUnique ==
  ASSUME NEW P \in SUBSET Nat, IsFiniteSet(P), NEW p \in P, NEW r \in P,
         Cardinality(UpTo(P, p)) = Cardinality(UpTo(P, r))
  PROVE  p = r
<1>1. Cardinality(UpTo(P, p)) \in Nat /\ Cardinality(UpTo(P, r)) \in Nat
  BY RankType
<1>2. CASE p < r
  BY <1>1, <1>2, RankStrict
<1>3. CASE r < p
  BY <1>1, <1>3, RankStrict
<1> QED
  BY <1>2, <1>3

\* Every number up to that of the positions is the rank of one.
LEMMA RankOnto ==
  ASSUME NEW P \in SUBSET Nat, IsFiniteSet(P), NEW i \in 1..Cardinality(P)
  PROVE  \E p \in P : Cardinality(UpTo(P, p)) = i
<1> DEFINE T == 1..Cardinality(P)
           f == [p \in P |-> Cardinality(UpTo(P, p))]
<1>1. Cardinality(P) \in Nat
  BY FS_CardinalityType
<1>2. IsFiniteSet(T) /\ Cardinality(T) = Cardinality(P)
  BY <1>1, FS_Interval
<1>3. f \in [P -> T]
  BY RankType
<1>4. \A p, r \in P : f[p] = f[r] => p = r
  BY RankUnique
<1>5. f \in Injection(P, T)
  BY <1>3, <1>4 DEF Injection, IsInjective
<1>6. f \in Surjection(P, T)
  BY <1>2, <1>5, FS_Injection
<1>7. \E p \in P : f[p] = i
  BY <1>6 DEF Surjection
<1> QED
  BY <1>7

\* The elements picked are those at the positions.
LEMMA PickedRank ==
  ASSUME NEW s, NEW P \in SUBSET Nat, IsFiniteSet(P)
  PROVE  /\ DOMAIN Picked(s, P) = 1..Cardinality(P)
         /\ Cardinality(P) \in Nat
         /\ \A p \in P : /\ Cardinality(UpTo(P, p)) \in 1..Cardinality(P)
                         /\ Picked(s, P)[Cardinality(UpTo(P, p))] = s[p]
<1>1. \A p \in P : /\ Cardinality(UpTo(P, p)) \in 1..Cardinality(P)
                   /\ \A q \in P : Cardinality(UpTo(P, q)) = Cardinality(UpTo(P, p))
                                       => q = p
  BY RankType, RankUnique
<1>2. DOMAIN Picked(s, P) = 1..Cardinality(P)
  BY DEF Picked
<1>3. ASSUME NEW p \in P
      PROVE  Picked(s, P)[Cardinality(UpTo(P, p))] = s[p]
  <2> DEFINE i == Cardinality(UpTo(P, p))
             Position == CHOOSE q \in P : Cardinality({r \in P : r <= q}) = i
  <2>1. i \in 1..Cardinality(P)
    BY <1>1
  <2>2. Picked(s, P)[i] = s[Position]
    BY <2>1 DEF Picked
  <2>3. \A q \in P : Cardinality({r \in P : r <= q}) = i <=> q = p
    BY <1>1 DEF UpTo
  <2>4. Position = p
    BY <2>3
  <2> QED
    BY <2>2, <2>4
<1> QED
  BY <1>1, <1>2, <1>3, FS_CardinalityType

\* An element picked is at a position.
LEMMA PickedPosition ==
  ASSUME NEW s, NEW P \in SUBSET Nat, IsFiniteSet(P), NEW i \in DOMAIN Picked(s, P)
  PROVE  \E p \in P : Cardinality(UpTo(P, p)) = i /\ Picked(s, P)[i] = s[p]
  BY PickedRank, RankOnto

\* A sequence of elements, in the order of the positions.
LEMMA PickedType ==
  ASSUME NEW S, NEW s, NEW P \in SUBSET Nat, IsFiniteSet(P), \A p \in P : s[p] \in S
  PROVE  /\ Picked(s, P) \in Seq(S)
         /\ Len(Picked(s, P)) = Cardinality(P)
         /\ ToSet(Picked(s, P)) = {s[p] : p \in P}
<1> DEFINE t == Picked(s, P)
           n == Cardinality(P)
<1>1. DOMAIN t = 1..n /\ n \in Nat
  BY PickedRank
<1>2. ASSUME NEW i \in 1..n
      PROVE  \E p \in P : t[i] = s[p]
  <2>1. i \in DOMAIN Picked(s, P)
    BY <1>1
  <2> QED
    BY <2>1, PickedPosition
<1>3. \A p \in P : \E i \in 1..n : t[i] = s[p]
  BY PickedRank
<1>4. t = [i \in 1..n |-> t[i]]
  BY DEF Picked
<1> HIDE DEF t, n
<1>5. t \in [1..n -> S]
  BY <1>1, <1>2, <1>4
<1>6. t \in Seq(S) /\ Len(t) = n
  BY <1>1, <1>5
<1>7. ToSet(t) = {s[p] : p \in P}
  <2>1. ToSet(t) = {t[i] : i \in 1..n}
    BY <1>1 DEF ToSet
  <2> QED
    BY <1>2, <1>3, <2>1
<1> QED
  BY <1>6, <1>7 DEF t, n

\* What is picked, element by element.
LEMMA PickedElements ==
  ASSUME NEW s, NEW P \in SUBSET Nat, IsFiniteSet(P)
  PROVE  \A x : x \in ToSet(Picked(s, P)) <=> \E p \in P : s[p] = x
<1> DEFINE t == Picked(s, P)
           n == Cardinality(P)
<1>1. DOMAIN t = 1..n /\ n \in Nat
  BY PickedRank
<1>2. ASSUME NEW i \in 1..n
      PROVE  \E p \in P : t[i] = s[p]
  <2>1. i \in DOMAIN Picked(s, P)
    BY <1>1
  <2> QED
    BY <2>1, PickedPosition
<1>3. \A p \in P : \E i \in 1..n : t[i] = s[p]
  BY PickedRank
<1> HIDE DEF t, n
<1>4. ToSet(t) = {t[i] : i \in 1..n}
  BY <1>1 DEF ToSet
<1> QED
  BY <1>2, <1>3, <1>4 DEF t

\* Nothing is picked at no position.
LEMMA PickedNone ==
  ASSUME NEW s
  PROVE  Picked(s, {}) = <<>>
<1>1. Cardinality({}) = 0
  BY FS_EmptySet
<1>2. Picked(s, {}) \in Seq({}) /\ Len(Picked(s, {})) = 0
  BY <1>1, FS_EmptySet, PickedType
<1> QED
  BY <1>2

\* Append, position by position.
LEMMA AppendIs ==
  ASSUME NEW S, NEW s \in Seq(S), NEW x \in S
  PROVE  Append(s, x) = [i \in 1..Len(s)+1 |-> IF i <= Len(s) THEN s[i] ELSE x]
<1> DEFINE t == Append(s, x)
<1>1. /\ t \in Seq(S) /\ Len(t) = Len(s) + 1 /\ Len(s) \in Nat
      /\ \A i \in 1..Len(s) : t[i] = s[i]
      /\ t[Len(s) + 1] = x
  OBVIOUS
<1> HIDE DEF t
<1>2. t = [i \in 1..Len(s)+1 |-> t[i]]
  BY <1>1
<1>3. \A i \in 1..Len(s)+1 : t[i] = IF i <= Len(s) THEN s[i] ELSE x
  BY <1>1
<1> QED
  BY <1>2, <1>3 DEF t

\* One position more, after the others, appends its element.
LEMMA PickedNext ==
  ASSUME NEW s, NEW P \in SUBSET Nat, IsFiniteSet(P), NEW n \in Nat,
         \A p \in P : p < n, NEW Q, Q = P \union {n}
  PROVE  Picked(s, Q) = Append(Picked(s, P), s[n])
<1> DEFINE S == {s[p] : p \in Q}
           t == Picked(s, P)
           u == Picked(s, Q)
           k == Cardinality(P)
<1>1. /\ Q \in SUBSET Nat /\ IsFiniteSet(Q) /\ n \notin P
      /\ k \in Nat /\ Cardinality(Q) = k + 1
  <2>1. n \notin P /\ Q \in SUBSET Nat
    OBVIOUS
  <2>2. IsFiniteSet(Q) /\ Cardinality(Q) = k + 1
    BY <2>1, FS_AddElement
  <2> QED
    BY <2>1, <2>2, FS_CardinalityType
<1>0. (\A p \in Q : s[p] \in S) /\ \A p \in P : s[p] \in S
  OBVIOUS
<1> HIDE DEF S
<1>2. t \in Seq(S) /\ Len(t) = k
  BY <1>0, PickedType
<1>3. u \in Seq(S) /\ Len(u) = k + 1
  BY <1>0, <1>1, PickedType
<1>4. ASSUME NEW i \in 1..k
      PROVE  u[i] = t[i]
  <2>1. PICK p \in P : Cardinality(UpTo(P, p)) = i
    BY RankOnto
  <2>2. UpTo(Q, p) = UpTo(P, p)
    BY <2>1 DEF UpTo
  <2>3. t[Cardinality(UpTo(P, p))] = s[p]
    BY <2>1, PickedRank
  <2>4. u[Cardinality(UpTo(Q, p))] = s[p]
    BY <1>1, <2>1, PickedRank
  <2> QED
    BY <2>1, <2>2, <2>3, <2>4
<1>5. u[k + 1] = s[n]
  <2>1. UpTo(Q, n) = Q
    <3>1. \A q \in Q : q <= n
      OBVIOUS
    <3> QED
      BY <3>1 DEF UpTo
  <2>2. u[Cardinality(UpTo(Q, n))] = s[n]
    BY <1>1, PickedRank
  <2> QED
    BY <1>1, <2>1, <2>2
<1>6. s[n] \in S
  BY <1>0
<1> HIDE DEF t, u, k
<1>7. u = Append(t, s[n])
  BY <1>1, <1>2, <1>3, <1>4, <1>5, <1>6
<1> QED
  BY <1>7 DEF t, u

-----------------------------------------------------------------------------
(***************************************************************************)
(* The reading of the documents: what the handlers hold at each event.     *)
(***************************************************************************)

\* The document the elements of a tag are in.
DocumentOf(tag) == IF tag = "set" THEN "setting" ELSE "assembling"
Listed(document) == Contents(input[document])

\* The elements of a document the parser has passed.
Before(document) ==
    IF reading = document THEN element - 1
    ELSE IF reading = "done" \/ (document = "setting" /\ reading = "assembling")
    THEN Len(Listed(document)) ELSE 0

\* What a reader of the first elements, or of the first children, would keep.
ElementsBefore(tag, n) ==
    LET all == Listed(DocumentOf(tag))
    IN  Picked(all, {i \in 1..n : all[i].tag = tag})

ChildrenBefore(e, slot, n) ==
    LET all == Picked(e.children, {i \in 1..n : SlotOf(e.children[i]) = slot})
    IN  IF slot \in OptionalTag /\ all # <<>> THEN <<Last(all)>> ELSE all

Meant(s) == [i \in DOMAIN s |-> Meaning(s[i])]

\* The vectors hold what the parser has passed.
ContentInv ==
    /\ content = [t \in RootTag |->
                     Meant(ElementsBefore(t, Before(DocumentOf(t))))]
    /\ \A d \in {"setting", "assembling"} : \A i \in 1..Before(d) :
          \A c \in ToSet(Listed(d)[i].children) : Supported(c)

\* Where the parser is.
PositionInv ==
    /\ element \in 1..Len(Listed(reading)) + 1
    /\ child \in Nat /\ inside \in BOOLEAN
    /\ child = 0 => ~inside
    /\ child > 0 => /\ element <= Len(Listed(reading))
                    /\ child <= Len(Listed(reading)[element].children) + 1
                    /\ inside => child <= Len(Listed(reading)[element].children)

\* The current structure holds the children passed, and their slots are reset.
CurrentInv ==
    LET open == Listed(reading)[element]
    IN  /\ child = 0 => current = None
        /\ child > 0 =>
              /\ current = [id |-> open.id, lib |-> open.lib,
                            items |-> [s \in Slot |-> ChildrenBefore(open, s, child - 1)]]
              /\ \A i \in 1..child-1 : Supported(open.children[i])
              /\ inside => Supported(open.children[child])
        /\ held = [s \in Slot |-> IF inside /\ s = SlotOf(open.children[child])
                                  THEN open.children[child] ELSE None]

DocumentsInv ==
    /\ reading \in {"setting", "assembling", "done", "failed"}
    /\ reading # "failed" => ContentInv
    /\ Reading => PositionInv /\ CurrentInv

\* The files are sequences of elements of their own tags, whose children are theirs.
LEMMA FileType ==
  ASSUME input \in Inputs, NEW d \in {"setting", "assembling"}
  PROVE  /\ Listed(d) \in Seq(Element)
         /\ Listed(d) = Contents(input[d])
         /\ input[d].present \in BOOLEAN
         /\ \A i \in 1..Len(Listed(d)) :
               LET e == Listed(d)[i]
               IN  /\ e \in Element
                   /\ e.tag \in RootTag /\ DocumentOf(e.tag) = d
                   /\ \A c \in ToSet(e.children) : c.tag \in ChildTag[e.tag]
<1> DEFINE tags == IF d = "setting" THEN {"set"} ELSE AssemblingTag
           f == input[d]
<1>1. IsInput(input)
  BY InputsAssumption
<1>2. IsFile(f, tags)
  BY <1>1 DEF IsInput
<1>3. /\ f.elements \in Seq(Element) /\ f.present \in BOOLEAN
      /\ \A e \in ToSet(f.elements) :
            e.tag \in tags /\ \A c \in ToSet(e.children) : c.tag \in ChildTag[e.tag]
  BY <1>2 DEF IsFile
<1>4. Listed(d) \in Seq(Element) /\ (Listed(d) = f.elements \/ Listed(d) = <<>>)
  BY <1>3 DEF Listed, Contents
<1> HIDE DEF f
<1>5. ASSUME NEW i \in 1..Len(Listed(d))
      PROVE  /\ Listed(d)[i] \in Element
             /\ Listed(d)[i] \in ToSet(f.elements)
  BY <1>3, <1>4, <1>5 DEF ToSet
<1>6. \A t \in tags : t \in RootTag /\ DocumentOf(t) = d
  BY DEF RootTag, AssemblingTag, DocumentOf
<1> HIDE DEF tags
<1>7. /\ Listed(d) = Contents(input[d])
      /\ input[d].present \in BOOLEAN
  BY <1>3 DEF Listed, f
<1> QED
  BY <1>3, <1>4, <1>5, <1>6, <1>7

\* The children of an element.
LEMMA ChildType ==
  ASSUME NEW e \in Element
  PROVE  /\ e.children \in Seq(Child)
         /\ \A i \in 1..Len(e.children) : e.children[i] \in Child
         /\ DOMAIN e.children = 1..Len(e.children)
         /\ ToSet(e.children) = {e.children[i] : i \in 1..Len(e.children)}
<1>1. e.children \in Seq(Child)
  BY DEF Element
<1> QED
  BY <1>1 DEF ToSet

\* A child the handlers support has a slot, and is something.
LEMMA SlotType ==
  ASSUME NEW c \in Child, Supported(c)
  PROVE  SlotOf(c) \in Slot /\ c # None
<1>1. SlotOf(c) \in Slot
  BY DEF Child, Supported, SlotOf, Slot
<1>2. "tag" \in DOMAIN c
  BY DEF Child
<1>3. "tag" \notin DOMAIN None
  BY DEF None
<1> QED
  BY <1>1, <1>2, <1>3

\* Positions up to a bound.
LEMMA PositionsBefore ==
  ASSUME NEW n \in Nat, NEW P \in SUBSET (1..n)
  PROVE  /\ P \in SUBSET Nat /\ IsFiniteSet(P)
         /\ n + 1 \in Nat /\ \A p \in P : p < n + 1
<1>1. IsFiniteSet(1..n)
  BY FS_Interval
<1>2. IsFiniteSet(P)
  BY <1>1, FS_Subset
<1> QED
  BY <1>2

\* One more child: kept alone when it is optional, after the others otherwise.
LEMMA ChildrenNext ==
  ASSUME NEW e \in Element, NEW n \in Nat, n + 1 <= Len(e.children), NEW slot
  PROVE  LET c == e.children[n + 1]
             old == ChildrenBefore(e, slot, n)
         IN  ChildrenBefore(e, slot, n + 1) =
                IF slot # SlotOf(c) THEN old
                ELSE IF slot \in OptionalTag THEN <<c>> ELSE Append(old, c)
<1> DEFINE s == e.children
           c == s[n + 1]
           P == {i \in 1..n : SlotOf(s[i]) = slot}
           Q == {i \in 1..n+1 : SlotOf(s[i]) = slot}
           t == Picked(s, P)
           u == Picked(s, Q)
<1>1. /\ Len(s) \in Nat /\ \A i \in 1..Len(s) : s[i] \in Child
      /\ c \in Child /\ \A i \in P \union {n + 1} : s[i] \in Child
  BY ChildType
<1>2. /\ P \in SUBSET Nat /\ IsFiniteSet(P)
      /\ n + 1 \in Nat /\ \A p \in P : p < n + 1
  BY PositionsBefore
<1>3. ChildrenBefore(e, slot, n) =
         IF slot \in OptionalTag /\ t # <<>> THEN <<Last(t)>> ELSE t
  BY DEF ChildrenBefore
<1>4. ChildrenBefore(e, slot, n + 1) =
         IF slot \in OptionalTag /\ u # <<>> THEN <<Last(u)>> ELSE u
  BY DEF ChildrenBefore
<1>5. CASE slot # SlotOf(c)
  <2>1. Q = P
    BY <1>5
  <2> QED
    BY <1>3, <1>4, <1>5, <2>1
<1>6. CASE slot = SlotOf(c)
  <2> DEFINE m == n + 1
  <2>1. Q = P \union {m}
    BY <1>6
  <2>2. m \in Nat /\ (\A p \in P : p < m) /\ \A i \in P \union {m} : s[i] \in Child
    BY <1>1, <1>2
  <2>3. c = s[m] /\ c \in Child
    BY <1>1
  <2> HIDE DEF P, Q, s, m, c
  <2>4. t \in Seq(Child)
    BY <1>2, <2>2, PickedType
  <2>5. u = Append(t, s[m])
    BY <1>2, <2>1, <2>2, PickedNext
  <2> HIDE DEF t, u
  <2>6. u # <<>> /\ Last(u) = c /\ u = Append(t, c)
    BY <2>3, <2>4, <2>5 DEF Last
  <2>7. ChildrenBefore(e, slot, n + 1) =
           IF slot \in OptionalTag THEN <<c>> ELSE Append(t, c)
    BY <1>4, <2>6
  <2>8. slot \notin OptionalTag => ChildrenBefore(e, slot, n) = t
    BY <1>3
  <2> QED
    BY <1>6, <2>7, <2>8 DEF c, s
<1> QED
  BY <1>5, <1>6

\* Before any child, nothing is kept.
LEMMA ChildrenNone ==
  ASSUME NEW e, NEW slot
  PROVE  ChildrenBefore(e, slot, 0) = <<>>
<1>1. {i \in 1..0 : SlotOf(e.children[i]) = slot} = {}
  OBVIOUS
<1> QED
  BY <1>1, PickedNone DEF ChildrenBefore

\* After all of them, what is kept is the meaning of the element.
LEMMA ChildrenAll ==
  ASSUME NEW e \in Element
  PROVE  Meaning(e) = [id |-> e.id, lib |-> e.lib,
                       items |-> [s \in Slot |->
                                     ChildrenBefore(e, s, Len(e.children))]]
<1>1. DOMAIN e.children = 1..Len(e.children)
  BY ChildType
<1>2. \A s \in Slot : ChildrenOf(e, s) = ChildrenBefore(e, s, Len(e.children))
  BY <1>1 DEF ChildrenOf, ChildrenBefore
<1> QED
  BY <1>2 DEF Meaning

\* The elements of a tag read so far are elements of the file.
LEMMA ElementsBeforeType ==
  ASSUME input \in Inputs, NEW t \in RootTag, NEW n \in Nat,
         n <= Len(Listed(DocumentOf(t)))
  PROVE  ElementsBefore(t, n) \in Seq(Element)
<1> DEFINE s == Listed(DocumentOf(t))
           P == {i \in 1..n : s[i].tag = t}
<1>1. DocumentOf(t) \in {"setting", "assembling"}
  BY DEF DocumentOf
<1>2. \A i \in 1..Len(s) : s[i] \in Element
  BY <1>1, FileType
<1>3. Len(s) \in Nat
  BY <1>1, FileType
<1>4. P \in SUBSET Nat /\ IsFiniteSet(P)
  BY PositionsBefore
<1>5. \A p \in P : s[p] \in Element
  BY <1>2, <1>3
<1> HIDE DEF P, s
<1>6. Picked(s, P) \in Seq(Element)
  BY <1>4, <1>5, PickedType
<1> QED
  BY <1>6 DEF ElementsBefore, P, s

\* One more element: it comes after those of its tag.
LEMMA ElementsNext ==
  ASSUME input \in Inputs, NEW t \in RootTag, NEW n \in Nat,
         n + 1 <= Len(Listed(DocumentOf(t)))
  PROVE  LET e == Listed(DocumentOf(t))[n + 1]
         IN  ElementsBefore(t, n + 1) =
                IF e.tag = t THEN Append(ElementsBefore(t, n), e)
                ELSE ElementsBefore(t, n)
<1> DEFINE s == Listed(DocumentOf(t))
           e == s[n + 1]
           P == {i \in 1..n : s[i].tag = t}
           Q == {i \in 1..n+1 : s[i].tag = t}
<1>1. DocumentOf(t) \in {"setting", "assembling"}
  BY DEF DocumentOf
<1>2. /\ Len(s) \in Nat /\ \A i \in 1..Len(s) : s[i] \in Element
  BY <1>1, FileType
<1>3. /\ P \in SUBSET Nat /\ IsFiniteSet(P)
      /\ n + 1 \in Nat /\ \A p \in P : p < n + 1
  BY PositionsBefore
<1>4. \A i \in P \union {n + 1} : s[i] \in Element
  BY <1>2
<1>5. CASE e.tag # t
  <2>1. Q = P
    BY <1>5
  <2> QED
    BY <1>5, <2>1 DEF ElementsBefore
<1>6. CASE e.tag = t
  <2> DEFINE m == n + 1
  <2>1. Q = P \union {m}
    BY <1>6
  <2>2. ElementsBefore(t, n) = Picked(s, P) /\ ElementsBefore(t, n + 1) = Picked(s, Q)
    BY DEF ElementsBefore
  <2>3. m \in Nat /\ (\A p \in P : p < m) /\ \A i \in P \union {m} : s[i] \in Element
    BY <1>3, <1>4
  <2>4. e = s[m]
    OBVIOUS
  <2> HIDE DEF P, Q, s, m, e
  <2>5. Picked(s, Q) = Append(Picked(s, P), s[m])
    BY <1>3, <2>1, <2>3, PickedNext
  <2> QED
    BY <1>6, <2>2, <2>4, <2>5 DEF s, e
<1> QED
  BY <1>5, <1>6

\* The meanings of the elements, one by one.
LEMMA MeantAppend ==
  ASSUME NEW s \in Seq(Element), NEW e \in Element
  PROVE  Meant(Append(s, e)) = Append(Meant(s), Meaning(e))
<1> DEFINE t == Append(s, e)
           M == {Meaning(x) : x \in Element}
<1>1. /\ t \in Seq(Element) /\ Len(t) = Len(s) + 1 /\ Len(s) \in Nat
      /\ DOMAIN t = 1..Len(s)+1 /\ DOMAIN s = 1..Len(s)
      /\ \A i \in 1..Len(s) : t[i] = s[i] /\ s[i] \in Element
      /\ t[Len(s) + 1] = e
  OBVIOUS
<1> HIDE DEF t
<1>2. Meant(s) \in Seq(M) /\ Len(Meant(s)) = Len(s)
  BY <1>1 DEF Meant
<1>3. Meant(t) = [i \in 1..Len(s)+1 |-> Meaning(t[i])]
  BY <1>1 DEF Meant
<1>4. /\ \A i \in 1..Len(s) : Meant(s)[i] = Meaning(s[i])
      /\ Meaning(e) \in M
  BY <1>1 DEF Meant
<1> HIDE DEF M
<1> DEFINE f == Meant(s)
           x == Meaning(e)
           k == Len(s)
<1>7. f \in Seq(M) /\ Len(f) = k /\ x \in M /\ k \in Nat
  BY <1>1, <1>2, <1>4
<1>5. Append(Meant(s), Meaning(e)) =
         [i \in 1..Len(s)+1 |-> IF i <= Len(s) THEN Meant(s)[i] ELSE Meaning(e)]
  <2> HIDE DEF f, x, k
  <2>1. Append(f, x) = [i \in 1..k+1 |-> IF i <= k THEN f[i] ELSE x]
    BY <1>7, AppendIs
  <2> QED
    BY <2>1 DEF f, x, k
<1>6. \A i \in 1..Len(s)+1 :
         Meaning(t[i]) = IF i <= Len(s) THEN Meant(s)[i] ELSE Meaning(e)
  BY <1>1, <1>4
<1> QED
  BY <1>3, <1>5, <1>6 DEF t

\* The files do not change, nor what they hold.
LEMMA FilesKept ==
  ASSUME input' = input
  PROVE  /\ \A d : Listed(d)' = Listed(d)
         /\ \A t, n : ElementsBefore(t, n)' = ElementsBefore(t, n)
  BY DEF Listed, ElementsBefore, Contents

\* The invariant is that of the variables of the reading alone.
LEMMA ContentKept ==
  ASSUME ContentInv, UNCHANGED <<input, content, reading, element>>
  PROVE  ContentInv'
<1>1. \A d : Before(d)' = Before(d)
  BY FilesKept DEF Before
<1>2. \A t : ElementsBefore(t, Before(DocumentOf(t)))'
                = ElementsBefore(t, Before(DocumentOf(t)))
  BY <1>1, FilesKept
<1> QED
  BY <1>1, <1>2, FilesKept DEF ContentInv

\* Nothing is read initially.
LEMMA InitDocumentsInv ==
  ASSUME input \in Inputs, InitDocuments
  PROVE  DocumentsInv
<1> USE DEF InitDocuments
<1>1. \A d \in {"setting", "assembling"} : Before(d) = 0
  BY DEF Before
<1>2. \A t \in RootTag : Meant(ElementsBefore(t, Before(DocumentOf(t)))) = <<>>
  <2> SUFFICES ASSUME NEW t \in RootTag
               PROVE  Meant(ElementsBefore(t, 0)) = <<>>
    BY <1>1 DEF DocumentOf
  <2>1. {i \in 1..0 : Listed(DocumentOf(t))[i].tag = t} = {}
    OBVIOUS
  <2>2. ElementsBefore(t, 0) = <<>>
    BY <2>1, PickedNone DEF ElementsBefore
  <2> QED
    BY <2>2 DEF Meant
<1>3. ContentInv
  BY <1>1, <1>2 DEF ContentInv
<1>4. PositionInv
  <2>1. element \in 1..Len(Listed(reading)) + 1
    BY FileType
  <2>2. child \in Nat /\ ~(child > 0)
    OBVIOUS
  <2>3. inside \in BOOLEAN /\ ~inside
    OBVIOUS
  <2> QED
    BY <2>1, <2>2, <2>3 DEF PositionInv
<1>5. CurrentInv
  BY DEF CurrentInv, None
<1> QED
  BY <1>3, <1>4, <1>5 DEF DocumentsInv

\* Where the document is, when it is being read.
LEMMA OpenType ==
  ASSUME input \in Inputs, DocumentsInv, Parsing
  PROVE  /\ reading \in {"setting", "assembling"}
         /\ Elements = Listed(reading) /\ Elements \in Seq(Element)
         /\ element \in Nat \ {0} /\ child \in Nat
         /\ element <= Len(Elements) =>
               /\ element \in 1..Len(Elements)
               /\ Open \in Element /\ Open = Listed(reading)[element]
               /\ Open.tag \in RootTag /\ DocumentOf(Open.tag) = reading
<1>1. reading \in {"setting", "assembling"} /\ File.present
  BY DEF Parsing, Reading
<1>2. Elements = Listed(reading) /\ Elements \in Seq(Element)
  BY <1>1, FileType DEF Elements, Listed, Contents, File
<1>3. PositionInv
  BY DEF DocumentsInv, Parsing
<1>4. element \in Nat \ {0} /\ child \in Nat
  BY <1>1, <1>3, FileType DEF PositionInv
<1> QED
  BY <1>1, <1>2, <1>4, FileType DEF Open

\* A file that is not there has no element to read.
LEMMA SkipMissingInv ==
  ASSUME input \in Inputs, DocumentsInv, SkipMissing
  PROVE  DocumentsInv'
<1> USE DEF SkipMissing, position, readVars
<1>1. /\ reading \in {"setting", "assembling"} /\ ~input[reading].present
      /\ Len(Listed(reading)) = 0 /\ element = 1 /\ child = 0
      /\ ContentInv /\ PositionInv /\ CurrentInv
  <2>1. reading \in {"setting", "assembling"} /\ ~input[reading].present
    BY DEF Reading, File
  <2>2. Listed(reading) = <<>>
    BY <2>1 DEF Listed, Contents
  <2>3. ContentInv /\ PositionInv /\ CurrentInv
    BY <2>1 DEF DocumentsInv, Reading
  <2> QED
    BY <2>1, <2>2, <2>3 DEF PositionInv
<1>2. \A d \in {"setting", "assembling"} : Before(d)' = Before(d)
  BY <1>1, FilesKept DEF Before, NextFile
<1>3. ContentInv'
  BY <1>1, <1>2, FilesKept DEF ContentInv, DocumentOf
<1>4. Reading' => PositionInv' /\ CurrentInv'
  <2> SUFFICES ASSUME Reading' PROVE PositionInv' /\ CurrentInv'
    OBVIOUS
  <2>1. Len(Listed("assembling")) \in Nat /\ reading' = "assembling"
    BY FileType DEF Reading, NextFile
  <2>2. PositionInv'
    BY <1>1, <2>1, FilesKept DEF PositionInv
  <2>3. CurrentInv'
    BY <1>1, <2>1 DEF CurrentInv, PositionInv
  <2> QED
    BY <2>2, <2>3
<1> QED
  BY <1>3, <1>4 DEF DocumentsInv, NextFile

\* At the end of a file, all its elements are in the vectors.
LEMMA EndOfFileInv ==
  ASSUME input \in Inputs, DocumentsInv, EndOfFile
  PROVE  DocumentsInv'
<1> USE DEF EndOfFile, readVars
<1>1. /\ reading \in {"setting", "assembling"}
      /\ Len(Listed(reading)) \in Nat /\ element = Len(Listed(reading)) + 1
      /\ child = 0 /\ ContentInv /\ PositionInv /\ CurrentInv
  <2>1. /\ reading \in {"setting", "assembling"} /\ Elements = Listed(reading)
        /\ Elements \in Seq(Element)
    BY OpenType
  <2>2. ContentInv /\ PositionInv /\ CurrentInv
    BY <2>1 DEF DocumentsInv, Reading
  <2> QED
    BY <2>1, <2>2 DEF PositionInv
<1>2. \A d \in {"setting", "assembling"} : Before(d)' = Before(d)
  BY <1>1, FilesKept DEF Before, NextFile
<1>3. ContentInv'
  BY <1>1, <1>2, FilesKept DEF ContentInv, DocumentOf
<1>4. Reading' => PositionInv' /\ CurrentInv'
  <2> SUFFICES ASSUME Reading' PROVE PositionInv' /\ CurrentInv'
    OBVIOUS
  <2>1. Len(Listed("assembling")) \in Nat /\ reading' = "assembling"
    BY FileType DEF Reading, NextFile
  <2>2. PositionInv'
    BY <1>1, <2>1, FilesKept DEF PositionInv
  <2>3. CurrentInv'
    BY <1>1, <2>1 DEF CurrentInv, PositionInv
  <2> QED
    BY <2>2, <2>3
<1> QED
  BY <1>3, <1>4 DEF DocumentsInv, NextFile

\* Once the reading has failed, nothing is said of the vectors.
LEMMA ParserErrorInv ==
  ASSUME DocumentsInv, ParserError
  PROVE  DocumentsInv'
BY DEF DocumentsInv, ParserError, Reading

\* At the start of an element, no child of it is read, and nothing is left of
\* the one before.
LEMMA StartElementInv ==
  ASSUME input \in Inputs, DocumentsInv, StartElement
  PROVE  DocumentsInv'
<1> USE DEF StartElement, BeforeElement
<1>1. /\ reading \in {"setting", "assembling"} /\ Elements = Listed(reading)
      /\ Open \in Element /\ Open = Listed(reading)[element]
      /\ element \in 1..Len(Listed(reading))
      /\ ContentInv /\ PositionInv /\ CurrentInv
  <2>1. /\ reading \in {"setting", "assembling"} /\ Elements = Listed(reading)
        /\ Open \in Element /\ Open = Listed(reading)[element]
        /\ element \in 1..Len(Listed(reading))
    BY OpenType
  <2> QED
    BY <2>1 DEF DocumentsInv, Reading
<1>2. ContentInv'
  BY <1>1, ContentKept
<1>3. PositionInv'
  <2>1. Len(Open.children) \in Nat
    BY <1>1, ChildType
  <2> QED
    BY <1>1, <2>1, FilesKept DEF PositionInv
<1>4. CurrentInv'
  <2>1. \A s \in Slot : ChildrenBefore(Open, s, 0) = <<>>
    BY ChildrenNone
  <2>2. current' = [id |-> Open.id, lib |-> Open.lib,
                    items |-> [s \in Slot |-> ChildrenBefore(Open, s, 0)]]
    BY <2>1 DEF Empty
  <2>3. Listed(reading)' = Listed(reading)
    BY FilesKept
  <2> QED
    BY <1>1, <2>2, <2>3 DEF CurrentInv, PositionInv
<1> QED
  BY <1>1, <1>2, <1>3, <1>4 DEF DocumentsInv

\* What is known of the child a handler works on.
LEMMA InElementFacts ==
  ASSUME input \in Inputs, DocumentsInv, Parsing, child > 0
  PROVE  /\ reading \in {"setting", "assembling"}
         /\ ContentInv /\ PositionInv /\ CurrentInv
         /\ element \in 1..Len(Listed(reading))
         /\ Open \in Element /\ Open = Listed(reading)[element]
         /\ child \in 1..Len(Open.children) + 1 /\ Len(Open.children) \in Nat
         /\ inside => child \in 1..Len(Open.children)
<1>1. reading \in {"setting", "assembling"} /\ ContentInv /\ PositionInv /\ CurrentInv
  BY DEF DocumentsInv, Parsing, Reading
<1>2. Elements = Listed(reading) /\ child \in Nat
  BY OpenType
<1>3. element <= Len(Elements)
  BY <1>1, <1>2 DEF PositionInv
<1>4. /\ element \in 1..Len(Listed(reading))
      /\ Open \in Element /\ Open = Listed(reading)[element]
  BY <1>2, <1>3, OpenType
<1>5. Len(Open.children) \in Nat
  BY <1>4, ChildType
<1>6. child <= Len(Open.children) + 1
  BY <1>1, <1>4 DEF PositionInv
<1>7. inside => child <= Len(Open.children)
  BY <1>1, <1>4 DEF PositionInv
<1> QED
  BY <1>1, <1>2, <1>4, <1>5, <1>6, <1>7

\* At the start of a child, its slot holds it, and no other slot holds any.
LEMMA StartChildInv ==
  ASSUME input \in Inputs, DocumentsInv, StartChild
  PROVE  DocumentsInv'
<1> DEFINE c == Open.children[child]
<1>1. /\ InElement /\ child <= Len(Open.children) /\ Parsing /\ child > 0 /\ ~inside
      /\ UNCHANGED <<input, element, child, current, content>>
  BY DEF StartChild, InElement, Children
<1>2. /\ reading \in {"setting", "assembling"}
      /\ ContentInv /\ PositionInv /\ CurrentInv
      /\ element \in 1..Len(Listed(reading))
      /\ Open \in Element /\ Open = Listed(reading)[element]
      /\ child \in 1..Len(Open.children)
  BY <1>1, InElementFacts
<1>3. CASE ~Supported(c)
  <2>1. reading' = "failed"
    BY <1>3 DEF StartChild, Children
  <2> QED
    BY <2>1 DEF DocumentsInv, Reading
<1>4. CASE Supported(c)
  <2>1. /\ held' = [held EXCEPT ![SlotOf(c)] = c]
        /\ inside' = TRUE /\ reading' = reading
    BY <1>4 DEF StartChild, Children
  <2>2. ContentInv'
    BY <1>1, <1>2, <2>1, ContentKept
  <2>3. Listed(reading)' = Listed(reading)
    BY <1>1, <2>1, FilesKept
  <2>4. PositionInv'
    <3>1. /\ element' \in 1..Len(Listed(reading)') + 1 /\ child' \in Nat
          /\ child' # 0 /\ element' <= Len(Listed(reading)')
          /\ child' <= Len(Listed(reading)'[element'].children) + 1
          /\ child' <= Len(Listed(reading)'[element'].children)
      BY <1>1, <1>2, <2>3 DEF PositionInv
    <3> QED
      BY <2>1, <3>1 DEF PositionInv
  <2>5. SlotOf(c) \in Slot
    BY <1>2, <1>4, ChildType, SlotType
  <2>6. held' = [s \in Slot |-> IF s = SlotOf(c) THEN c ELSE None]
    BY <1>1, <1>2, <2>1, <2>5 DEF CurrentInv
  <2>7. CurrentInv'
    <3>1. /\ child > 0 /\ child # 0 /\ c = Listed(reading)[element].children[child]
          /\ Listed(reading)[element] = Open
      BY <1>1, <1>2
    <3> HIDE DEF c
    <3>2. /\ current = [id |-> Open.id, lib |-> Open.lib,
                        items |-> [s \in Slot |-> ChildrenBefore(Open, s, child - 1)]]
          /\ \A i \in 1..child-1 : Supported(Open.children[i])
      BY <1>2, <3>1 DEF CurrentInv
    <3>3. inside'
      BY <2>1
    <3> QED
      BY <1>1, <1>4, <2>1, <2>3, <2>6, <3>1, <3>2, <3>3 DEF CurrentInv
  <2> QED
    BY <1>2, <2>1, <2>2, <2>4, <2>7 DEF DocumentsInv
<1> QED
  BY <1>3, <1>4

\* The slot that is pushed is that of the child, a parameter's being the only one held.
LEMMA HeldSlot ==
  ASSUME NEW c \in Child, Supported(c),
         held = [s \in Slot |-> IF s = SlotOf(c) THEN c ELSE None]
  PROVE  /\ Held(c) = SlotOf(c) /\ SlotOf(c) \in Slot /\ held[SlotOf(c)] = c
         /\ \A s \in Slot : s \notin ResetAfter(c) => held[s] = None
<1>1. SlotOf(c) \in Slot /\ c # None /\ held[SlotOf(c)] = c
  BY SlotType
<1>2. CASE c.tag # "par"
  BY <1>1, <1>2 DEF Held, SlotOf, ResetAfter
<1>3. CASE c.tag = "par"
  <2>1. c.kind \in ParameterType /\ SlotOf(c) = c.kind /\ ParameterType \subseteq Slot
    BY <1>3 DEF Supported, SlotOf, Slot
  <2>2. \A t \in ParameterType : held[t] # None <=> t = c.kind
    BY <1>1, <2>1
  <2>3. /\ Len(ParameterOrder) = 4
        /\ \A i \in 1..4 : ParameterOrder[i] \in ParameterType
        /\ \E i \in 1..4 : ParameterOrder[i] = c.kind
        /\ \A i, j \in 1..4 : ParameterOrder[i] = ParameterOrder[j] => i = j
    BY <2>1 DEF ParameterOrder, ParameterType
  <2>4. PICK k \in 1..4 : ParameterOrder[k] = c.kind
    BY <2>3
  <2>5. {i \in 1..Len(ParameterOrder) : held[ParameterOrder[i]] # None} = {k}
    BY <2>2, <2>3, <2>4
  <2>6. Min({k}) = k
    BY DEF Min
  <2>7. SelectInSeq(ParameterOrder, LAMBDA t : held[t] # None) = k
    BY <2>5, <2>6 DEF SelectInSeq
  <2>8. Held(c) = c.kind
    BY <1>3, <2>4, <2>7 DEF Held
  <2>9. \A s \in Slot : s \notin ResetAfter(c) => held[s] = None
    BY <1>3, <2>1 DEF ResetAfter
  <2> QED
    BY <1>1, <2>1, <2>8, <2>9
<1> QED
  BY <1>2, <1>3

\* At the end of a child, the slot that is pushed is its own, and the slots are
\* empty again: for a parameter, the first type held is that of the parameter.
LEMMA EndChildInv ==
  ASSUME input \in Inputs, DocumentsInv, EndChild
  PROVE  DocumentsInv'
<1> DEFINE c == Open.children[child]
<1>1. /\ Parsing /\ inside
      /\ current' = [current EXCEPT !.items[Held(c)] = Kept(@, Held(c))]
      /\ held' = [s \in Slot |-> IF s \in ResetAfter(c) THEN None ELSE held[s]]
      /\ child' = child + 1 /\ inside' = FALSE
      /\ UNCHANGED <<input, reading, element, content>>
  BY DEF EndChild, Children
<1>2. child > 0
  <2>1. PositionInv
    BY <1>1 DEF DocumentsInv, Parsing
  <2> QED
    BY <1>1, <2>1 DEF PositionInv
<1>3. /\ reading \in {"setting", "assembling"}
      /\ ContentInv /\ PositionInv /\ CurrentInv
      /\ element \in 1..Len(Listed(reading))
      /\ Open \in Element /\ Open = Listed(reading)[element]
      /\ child \in 1..Len(Open.children) /\ Len(Open.children) \in Nat
  BY <1>1, <1>2, InElementFacts
<1>4. /\ c \in Child /\ c = Listed(reading)[element].children[child]
      /\ Supported(c)
      /\ held = [s \in Slot |-> IF s = SlotOf(c) THEN c ELSE None]
      /\ current = [id |-> Open.id, lib |-> Open.lib,
                    items |-> [s \in Slot |-> ChildrenBefore(Open, s, child - 1)]]
      /\ \A i \in 1..child-1 : Supported(Open.children[i])
  BY <1>1, <1>2, <1>3, ChildType DEF CurrentInv
<1>5. /\ Held(c) = SlotOf(c) /\ SlotOf(c) \in Slot /\ held[SlotOf(c)] = c
      /\ \A s \in Slot : s \notin ResetAfter(c) => held[s] = None
  BY <1>4, HeldSlot
<1>6. held' = [s \in Slot |-> None]
  BY <1>1, <1>5
<1>7. ContentInv'
  BY <1>1, <1>3, ContentKept
<1>8. Listed(reading)' = Listed(reading)
  BY <1>1, FilesKept
<1>9. PositionInv'
  <2>1. /\ element' \in 1..Len(Listed(reading)') + 1 /\ child' \in Nat
        /\ child' # 0 /\ element' <= Len(Listed(reading)')
        /\ child' <= Len(Listed(reading)'[element'].children) + 1
    BY <1>1, <1>3, <1>8
  <2>2. inside' \in BOOLEAN /\ ~inside'
    BY <1>1
  <2> QED
    BY <2>1, <2>2 DEF PositionInv
<1>10. \A s \in Slot : ChildrenBefore(Open, s, child) =
          IF s # SlotOf(c) THEN ChildrenBefore(Open, s, child - 1)
          ELSE IF s \in OptionalTag THEN <<c>>
          ELSE Append(ChildrenBefore(Open, s, child - 1), c)
  <2>1. child - 1 \in Nat /\ (child - 1) + 1 <= Len(Open.children)
        /\ (child - 1) + 1 = child
    BY <1>3
  <2> DEFINE n == child - 1
  <2>2. n \in Nat /\ n + 1 <= Len(Open.children) /\ child = n + 1
    BY <2>1
  <2> HIDE DEF n
  <2>3. \A s \in Slot : ChildrenBefore(Open, s, n + 1) =
          IF s # SlotOf(Open.children[n + 1]) THEN ChildrenBefore(Open, s, n)
          ELSE IF s \in OptionalTag THEN <<Open.children[n + 1]>>
          ELSE Append(ChildrenBefore(Open, s, n), Open.children[n + 1])
    BY <1>3, <2>2, ChildrenNext
  <2> QED
    BY <2>2, <2>3 DEF n
<1>11. current' = [id |-> Open.id, lib |-> Open.lib,
                   items |-> [s \in Slot |-> ChildrenBefore(Open, s, child)]]
  <2> HIDE DEF c
  <2> DEFINE F == [s \in Slot |-> ChildrenBefore(Open, s, child - 1)]
             k == SlotOf(c)
  <2>1. current' = [id |-> Open.id, lib |-> Open.lib,
                    items |-> [F EXCEPT ![k] = Kept(F[k], k)]]
    <3> HIDE DEF F
    <3> QED
      BY <1>1, <1>4, <1>5 DEF F
  <2>2. Kept(F[k], k) = ChildrenBefore(Open, k, child)
    BY <1>5, <1>10 DEF Kept
  <2>3. [F EXCEPT ![k] = Kept(F[k], k)] = [s \in Slot |-> ChildrenBefore(Open, s, child)]
    BY <1>5, <1>10, <2>2
  <2> QED
    BY <2>1, <2>3
<1>12. \A i \in 1..child : Supported(Open.children[i])
  BY <1>3, <1>4
<1>13. CurrentInv'
  <2>1. /\ child' - 1 = child /\ child' # 0 /\ Listed(reading)'[element'] = Open
    BY <1>1, <1>3, <1>8
  <2>2. ~inside'
    BY <1>1
  <2> QED
    BY <1>6, <1>11, <1>12, <2>1, <2>2 DEF CurrentInv
<1> QED
  BY <1>1, <1>3, <1>7, <1>9, <1>13 DEF DocumentsInv

\* At the end of an element, its vector has one element more, with the meaning
\* of this element.
LEMMA EndElementInv ==
  ASSUME input \in Inputs, DocumentsInv, EndElement
  PROVE  DocumentsInv'
<1> DEFINE tag == Open.tag
<1>1. /\ Parsing /\ child > Len(Open.children) /\ child > 0 /\ ~inside
      /\ content' = [content EXCEPT ![tag] = Append(@, current)]
      /\ current' = None /\ element' = element + 1 /\ child' = 0
      /\ UNCHANGED <<input, reading, inside, held>>
  BY DEF EndElement, InElement, Children
<1>2. /\ reading \in {"setting", "assembling"}
      /\ ContentInv /\ PositionInv /\ CurrentInv
      /\ element \in 1..Len(Listed(reading))
      /\ Open \in Element /\ Open = Listed(reading)[element]
      /\ child = Len(Open.children) + 1 /\ Len(Open.children) \in Nat
  BY <1>1, InElementFacts
<1>3. /\ tag \in RootTag /\ DocumentOf(tag) = reading /\ Len(Listed(reading)) \in Nat
  BY <1>2, FileType
<1>4. /\ current = Meaning(Open)
      /\ \A c \in ToSet(Open.children) : Supported(c)
      /\ held = [s \in Slot |-> None]
  <2>1. /\ child - 1 = Len(Open.children)
        /\ current = [id |-> Open.id, lib |-> Open.lib,
                      items |-> [s \in Slot |-> ChildrenBefore(Open, s, child - 1)]]
        /\ \A i \in 1..child-1 : Supported(Open.children[i])
        /\ held = [s \in Slot |-> None]
    BY <1>1, <1>2 DEF CurrentInv
  <2>2. current = Meaning(Open)
    BY <1>2, <2>1, ChildrenAll
  <2>3. ToSet(Open.children) = {Open.children[i] : i \in 1..Len(Open.children)}
    BY <1>2, ChildType
  <2> QED
    BY <2>1, <2>2, <2>3
<1>5. \A d \in {"setting", "assembling"} :
         Before(d)' = IF d = reading THEN element ELSE Before(d)
  BY <1>1, <1>2, FilesKept DEF Before
<1>6. ASSUME NEW t \in RootTag
      PROVE  content'[t] = Meant(ElementsBefore(t, Before(DocumentOf(t))))'
  <2>1. content[t] = Meant(ElementsBefore(t, Before(DocumentOf(t))))
    BY <1>2 DEF ContentInv
  <2>2. content \in [RootTag -> {content[r] : r \in RootTag}]
    BY <1>2 DEF ContentInv
  <2>3. content'[t] = IF t = tag THEN Append(content[t], current) ELSE content[t]
    BY <1>1, <1>3, <2>2
  <2>4. CASE DocumentOf(t) # reading
    <3>1. t # tag /\ Before(DocumentOf(t))' = Before(DocumentOf(t))
      BY <1>3, <1>5, <2>4 DEF DocumentOf
    <3> QED
      BY <1>1, <2>1, <2>3, <3>1, FilesKept DEF Meant
  <2>5. CASE DocumentOf(t) = reading
    <3> DEFINE n == element - 1
               old == ElementsBefore(t, n)
    <3>1. n \in Nat /\ n + 1 = element /\ n + 1 <= Len(Listed(DocumentOf(t)))
          /\ n <= Len(Listed(DocumentOf(t)))
      BY <1>2, <1>3, <2>5
    <3>2. Before(DocumentOf(t)) = n /\ Before(DocumentOf(t))' = n + 1
      BY <1>2, <1>5, <2>5, <3>1 DEF Before
    <3>3. Listed(DocumentOf(t))[n + 1] = Open
      BY <1>2, <2>5, <3>1
    <3> HIDE DEF n, tag
    <3>4. ElementsBefore(t, n + 1) = IF Open.tag = t THEN Append(old, Open) ELSE old
      BY <3>1, <3>3, ElementsNext
    <3>5. old \in Seq(Element)
      BY <3>1, ElementsBeforeType
    <3>6. ElementsBefore(t, Before(DocumentOf(t)))' = ElementsBefore(t, n + 1)
      BY <1>1, <3>2, FilesKept
    <3> HIDE DEF old
    <3>7. Meant(Append(old, Open)) = Append(Meant(old), Meaning(Open))
      BY <1>2, <3>5, MeantAppend
    <3>8. content[t] = Meant(old)
      BY <2>1, <3>2 DEF old
    <3>9. content'[t] = Meant(ElementsBefore(t, n + 1))
      BY <1>4, <2>3, <3>4, <3>7, <3>8 DEF tag
    <3> QED
      BY <3>6, <3>9 DEF Meant
  <2> QED
    BY <2>4, <2>5
<1>7. DOMAIN content' = RootTag
  BY <1>1, <1>2 DEF ContentInv
<1>8. content' = [t \in RootTag |-> Meant(ElementsBefore(t, Before(DocumentOf(t))))']
  <2>1. content' = [t \in DOMAIN content' |-> content'[t]]
    BY <1>1, <1>2 DEF ContentInv
  <2> QED
    BY <1>6, <1>7, <2>1
<1>9. \A d \in {"setting", "assembling"} : \A i \in 1..Before(d)' :
         \A c \in ToSet(Listed(d)[i].children) : Supported(c)
  <2> SUFFICES ASSUME NEW d \in {"setting", "assembling"}, NEW i \in 1..Before(d)',
                      NEW c \in ToSet(Listed(d)[i].children)
               PROVE  Supported(c)
    OBVIOUS
  <2>1. CASE d = reading /\ i = element
    BY <1>2, <1>4, <2>1
  <2>2. CASE ~(d = reading /\ i = element)
    <3>1. i \in 1..Before(d)
      BY <1>2, <1>5, <2>2 DEF Before
    <3> QED
      BY <1>2, <3>1 DEF ContentInv
  <2> QED
    BY <2>1, <2>2
<1>10. ContentInv'
  BY <1>1, <1>8, <1>9, FilesKept DEF ContentInv
<1>11. Listed(reading)' = Listed(reading)
  BY <1>1, FilesKept
<1>12. PositionInv'
  <2>1. /\ element' \in 1..Len(Listed(reading)') + 1 /\ child' \in Nat /\ ~(child' > 0)
    BY <1>1, <1>2, <1>3, <1>11
  <2>2. inside' \in BOOLEAN /\ ~inside'
    BY <1>1, <1>2 DEF PositionInv
  <2> QED
    BY <2>1, <2>2 DEF PositionInv
<1>13. CurrentInv'
  <2>1. ~inside' /\ child' = 0 /\ ~(child' > 0) /\ current' = None
        /\ held' = [s \in Slot |-> None]
    BY <1>1, <1>4
  <2> QED
    BY <2>1 DEF CurrentInv
<1> QED
  BY <1>1, <1>2, <1>10, <1>12, <1>13 DEF DocumentsInv

\* Any event of the parser.
LEMMA ReadDocumentsInv ==
  ASSUME input \in Inputs, DocumentsInv, ReadDocuments
  PROVE  DocumentsInv' /\ UNCHANGED input
<1>1. DocumentsInv'
  BY SkipMissingInv, EndOfFileInv, ParserErrorInv, StartElementInv, StartChildInv,
     EndChildInv, EndElementInv DEF ReadDocuments
<1> QED
  BY <1>1 DEF ReadDocuments, SkipMissing, EndOfFile, ParserError, StartElement,
              StartChild, EndChild, EndElement

\* What does not touch the documents.
LEMMA DocumentsKept ==
  ASSUME DocumentsInv, UNCHANGED <<input, docVars>>
  PROVE  DocumentsInv'
<1> USE DEF docVars, position, readVars
<1>1. Listed(reading)' = Listed(reading)
  BY FilesKept
<1>2. reading # "failed" => ContentInv'
  BY ContentKept DEF DocumentsInv
<1>3. Reading => PositionInv'
  BY <1>1 DEF DocumentsInv, PositionInv
<1>4. Reading => CurrentInv'
  BY <1>1 DEF DocumentsInv, CurrentInv
<1> QED
  BY <1>2, <1>3, <1>4 DEF DocumentsInv, Reading

\* What is read in the end.
LEMMA ReadToTheEnd ==
  ASSUME input \in Inputs, DocumentsInv, reading = "done"
  PROVE  /\ content = [t \in RootTag |-> Meant(ElementsOf(t))]
         /\ \A t \in RootTag : ElementsOf(t) \in Seq(Element)
         /\ \A d \in {"setting", "assembling"} : \A i \in 1..Len(Listed(d)) :
               \A c \in ToSet(Listed(d)[i].children) : Supported(c)
<1>1. ContentInv /\ \A d \in {"setting", "assembling"} : Before(d) = Len(Listed(d))
  BY DEF DocumentsInv, Before
<1>2. ASSUME NEW t \in RootTag
      PROVE  /\ ElementsOf(t) = ElementsBefore(t, Len(Listed(DocumentOf(t))))
             /\ Before(DocumentOf(t)) = Len(Listed(DocumentOf(t)))
             /\ ElementsOf(t) \in Seq(Element)
  <2>1. DocumentOf(t) \in {"setting", "assembling"}
    BY DEF DocumentOf
  <2>2. Listed(DocumentOf(t)) = Contents(IF t = "set" THEN input.setting ELSE input.assembling)
    BY DEF Listed, DocumentOf
  <2>3. /\ Len(Listed(DocumentOf(t))) \in Nat
        /\ DOMAIN Listed(DocumentOf(t)) = 1..Len(Listed(DocumentOf(t)))
    BY <2>1, FileType
  <2>4. ElementsOf(t) = ElementsBefore(t, Len(Listed(DocumentOf(t))))
    BY <2>2, <2>3 DEF ElementsOf, ElementsBefore
  <2> QED
    BY <1>1, <2>1, <2>3, <2>4, ElementsBeforeType
<1>3. content = [t \in RootTag |-> Meant(ElementsOf(t))]
  BY <1>1, <1>2 DEF ContentInv
<1> QED
  BY <1>1, <1>2, <1>3 DEF ContentInv

\* The elements of a tag are those of the file.
LEMMA ElementsOfFile ==
  ASSUME input \in Inputs, NEW t \in RootTag
  PROVE  /\ ElementsOf(t) \in Seq(Element)
         /\ ToSet(ElementsOf(t)) = {e \in ToSet(Listed(DocumentOf(t))) : e.tag = t}
<1> DEFINE s == Listed(DocumentOf(t))
           P == {i \in DOMAIN s : s[i].tag = t}
<1>1. DocumentOf(t) \in {"setting", "assembling"}
  BY DEF DocumentOf
<1>2. /\ Len(s) \in Nat /\ DOMAIN s = 1..Len(s) /\ \A i \in 1..Len(s) : s[i] \in Element
      /\ ToSet(s) = {s[i] : i \in 1..Len(s)}
  BY <1>1, FileType DEF ToSet
<1>3. P \in SUBSET Nat /\ IsFiniteSet(P) /\ \A p \in P : s[p] \in Element
  BY <1>2, PositionsBefore
<1>4. ElementsOf(t) = Picked(s, P)
  BY DEF ElementsOf, Listed, DocumentOf
<1>5. ToSet(s) = {s[i] : i \in DOMAIN s}
  BY DEF ToSet
<1>6. {e \in ToSet(s) : e.tag = t} = {s[p] : p \in P}
  BY <1>5
<1> HIDE DEF P, s
<1>7. /\ Picked(s, P) \in Seq(Element)
      /\ ToSet(Picked(s, P)) = {s[p] : p \in P}
  BY <1>3, PickedType
<1> QED
  BY <1>4, <1>6, <1>7 DEF s

\* The vectors of two files read to their ends are faithful to them.
LEMMA DocumentsInvFaithful ==
  ASSUME input \in Inputs, DocumentsInv
  PROVE  DocumentsAreFaithful
<1> SUFFICES ASSUME reading = "done" PROVE DocumentsAreFaithful!2
  BY DEF DocumentsAreFaithful
<1>1. \A t \in RootTag : content[t] = Meant(ElementsOf(t))
  BY ReadToTheEnd
<1>2. ASSUME NEW t \in RootTag, NEW e \in ToSet(ElementsOf(t)), NEW c \in ToSet(e.children)
      PROVE  Supported(c)
  <2>1. DocumentOf(t) \in {"setting", "assembling"}
    BY DEF DocumentOf
  <2>2. PICK i \in 1..Len(Listed(DocumentOf(t))) : e = Listed(DocumentOf(t))[i]
    BY <2>1, ElementsOfFile, FileType DEF ToSet
  <2> QED
    BY <2>1, <2>2, ReadToTheEnd
<1> QED
  BY <1>1, <1>2 DEF Meant

-----------------------------------------------------------------------------
(***************************************************************************)
(* The collection of the connections, from the extraction of the automatons*)
(* to the filter: what the elements handled so far have given.             *)
(***************************************************************************)

\* The positions the loops have reached, in the automatons and the nodes.
Extracted == IF pc = "extract" THEN cursor ELSE Len(Automatons) + 1
Walked == IF pc = "extract" THEN 1 ELSE IF pc = "walk" THEN cursor ELSE N + 1
Filtered == IF pc = "filter" THEN cursor
            ELSE IF pc = "done" THEN Len(Automatons) + 1 ELSE 1

WantedBefore(k) ==
    UNION {Algo!EntriesOf(Automatons[i]) :
              i \in {j \in 1..k-1 : Automatons[j].lib \in input.libraries}}

\* The models that may be given connections, and those nodes have given them.
Requested == {w.model : w \in wanted}
MetBefore(a, k) == UNION {Algo!ConnectionsOn(a, n) : n \in 1..k-1}

\* Automaton i finds each of its macros among the connections met.
Satisfied(i, connections) ==
    \A m \in ToSet(Automatons[i].connects) :
        \E c \in connections : c.id = m.connection

\* The loops, and the tables.
LoopInv ==
    \/ pc = "extract" /\ cursor \in 1..Len(Automatons) + 1
    \/ pc = "walk" /\ cursor \in 1..N + 1
    \/ pc = "filter" /\ cursor \in 1..Len(Automatons) + 1
    \/ pc = "done"

WantedInv == wanted = WantedBefore(Extracted)

\* Whether each connection of a set is in another, but for its concatenation.
Covers(kept, connections) ==
    \A c \in connections : \E d \in kept :
        Algo!Concatenation(d) = Algo!Concatenation(c)

\* Each connection met is in its model, or one with the same concatenation is.
ModelInv(a) ==
    /\ models[a] \subseteq MetBefore(a, Walked)
    /\ Covers(models[a], MetBefore(a, Walked))

\* The models are those of the connections met; a model whose connections all
\* differ has left exactly when the filter has met an automaton it misses.
ModelsInv ==
    /\ DOMAIN models \subseteq {a \in Requested : MetBefore(a, Walked) # {}}
    /\ \A a \in DOMAIN models : ModelInv(a)
    /\ \A a \in Requested :
          (pc \in {"filter", "done"} => ~Confused(a)) =>
              (a \in DOMAIN models <=>
                  /\ MetBefore(a, Walked) # {}
                  /\ \A i \in 1..Filtered-1 : Automatons[i].id = a =>
                        Satisfied(i, MetBefore(a, Walked)))

\* The two collectors.
LevelsBefore(k) == {input.level[n] : n \in 1..k-1}
ShuntsBefore(v, k) ==
    UNION {input.shunts[n] : n \in {m \in 1..k-1 : input.level[m] = v}}

CollectInv ==
    /\ nbShunts = [v \in LevelsBefore(Walked) |-> Cardinality(ShuntsBefore(v, Walked))]
    /\ linesById = UNION {input.lines[n] : n \in 1..Walked-1}

\* The writers.
StageInv ==
    /\ stage \in {"process", "dyd", "par", "written"}
    /\ stage # "process" => pc = "done"
    /\ stage \in {"par", "written"} =>
          dyd = [a \in DOMAIN models |-> writeDynamicModelMacroConnect(a)]
    /\ stage = "written" =>
          LET kept == WithModel(content["set"])
          IN  par = [i \in DOMAIN kept |-> writeDynamicModelParameterSet(kept[i])]

\* Before the end of the reading, nothing.
Untouched ==
    /\ Algo!InitModels
    /\ nbShunts = <<>> /\ linesById = {}
    /\ stage = "process"

\* The invariant while the nodes are gone through, and after.
AlgoInv == LoopInv /\ WantedInv /\ ModelsInv /\ ConnectorsAreWritten /\ CollectInv

ProcessInv == IF reading = "done" THEN AlgoInv /\ StageInv ELSE Untouched

IInv ==
    /\ input \in Inputs
    /\ DocumentsInv
    /\ ProcessInv

-----------------------------------------------------------------------------
(***************************************************************************)
(* What is read, element by element.                                       *)
(***************************************************************************)

\* Libraries of the algorithm and of this module: the same operators.
LEMMA AlgoToSet == \A s : Algo!ToSet(s) = ToSet(s)
  BY DEF Algo!ToSet, ToSet

\* The children of a slot: all of them, or the last for an optional child.
LEMMA ItemIs ==
  ASSUME NEW e \in Element, NEW slot \in Slot
  PROVE  LET all == {c \in ToSet(e.children) : SlotOf(c) = slot}
         IN  /\ Item(Meaning(e), slot) \subseteq all
             /\ slot \notin OptionalTag => Item(Meaning(e), slot) = all
             /\ all # {} => Item(Meaning(e), slot) # {}
             /\ slot \in OptionalTag =>
                   \A c, d \in Item(Meaning(e), slot) : c = d
<1> DEFINE s == e.children
           P == {i \in DOMAIN s : SlotOf(s[i]) = slot}
           t == Picked(s, P)
           all == {c \in ToSet(s) : SlotOf(c) = slot}
           kept == ChildrenOf(e, slot)
           item == Item(Meaning(e), slot)
<1>1. /\ DOMAIN s = 1..Len(s) /\ Len(s) \in Nat
      /\ \A i \in 1..Len(s) : s[i] \in Child
      /\ ToSet(s) = {s[i] : i \in 1..Len(s)}
  <2>1. s \in Seq(Child) /\ ToSet(s) = {s[i] : i \in 1..Len(s)}
    BY ChildType
  <2> HIDE DEF s
  <2>2. DOMAIN s = 1..Len(s) /\ Len(s) \in Nat /\ \A i \in 1..Len(s) : s[i] \in Child
    BY <2>1
  <2> QED
    BY <2>1, <2>2
<1>2. P \in SUBSET Nat /\ IsFiniteSet(P) /\ \A p \in P : s[p] \in Child
  BY <1>1, PositionsBefore
<1>3. {s[p] : p \in P} = all
  BY <1>1
<1>4. kept = IF slot \in OptionalTag /\ t # <<>> THEN <<Last(t)>> ELSE t
  BY DEF ChildrenOf
<1>5. item = ToSet(kept)
  BY DEF Item, Meaning
<1> SUFFICES /\ item \subseteq all
             /\ slot \notin OptionalTag => item = all
             /\ all # {} => item # {}
             /\ slot \in OptionalTag => \A c, d \in item : c = d
  OBVIOUS
<1> HIDE DEF s, P, all, kept, item
<1>6. t \in Seq(Child) /\ ToSet(t) = all
  <2> HIDE DEF t
  <2>1. Picked(s, P) \in Seq(Child)
    BY <1>2, PickedType
  <2>2. ToSet(Picked(s, P)) = {s[p] : p \in P}
    <3>1. \A x : x \in ToSet(Picked(s, P)) <=> \E p \in P : s[p] = x
      BY <1>2, PickedElements
    <3> DEFINE u == Picked(s, P)
    <3> HIDE DEF u
    <3>2. \A x : x \in ToSet(u) <=> x \in {s[p] : p \in P}
      BY <3>1 DEF u
    <3>3. ToSet(u) = {s[p] : p \in P}
      BY <3>2
    <3> QED
      BY <3>3 DEF u
  <2> QED
    BY <1>3, <2>1, <2>2 DEF t
<1> HIDE DEF t
<1>7. CASE slot \in OptionalTag /\ t # <<>>
  <2>1. kept = <<Last(t)>> /\ Last(t) \in ToSet(t)
    BY <1>4, <1>6, <1>7 DEF Last, ToSet
  <2>2. item = {Last(t)} /\ Last(t) \in all
    BY <1>5, <1>6, <2>1, ToSetSingle
  <2> QED
    BY <1>7, <2>2
<1>8. CASE slot \notin OptionalTag
  BY <1>4, <1>5, <1>6, <1>8
<1>9. CASE t = <<>>
  <2>1. ToSet(kept) = {} /\ all = {}
    BY <1>4, <1>6, <1>9, ToSetEmpty
  <2> QED
    BY <1>5, <2>1
<1> QED
  BY <1>7, <1>8, <1>9

\* The vectors once everything is read.
LEMMA ContentIs ==
  ASSUME input \in Inputs, DocumentsInv, reading = "done", NEW t \in RootTag
  PROVE  /\ ElementsOf(t) \in Seq(Element)
         /\ Len(ElementsOf(t)) \in Nat
         /\ DOMAIN ElementsOf(t) = 1..Len(ElementsOf(t))
         /\ content[t] = [i \in 1..Len(ElementsOf(t)) |-> Meaning(ElementsOf(t)[i])]
         /\ \A i \in 1..Len(ElementsOf(t)) :
               /\ ElementsOf(t)[i] \in ToSet(ElementsOf(t))
               /\ ElementsOf(t)[i] \in Element
               /\ ElementsOf(t)[i].tag = t
               /\ \A c \in ToSet(ElementsOf(t)[i].children) :
                     c \in Child /\ c.tag \in ChildTag[t] /\ Supported(c)
<1> DEFINE s == ElementsOf(t)
           d == DocumentOf(t)
<1>1. s \in Seq(Element) /\ content[t] = Meant(s)
  BY ReadToTheEnd
<1>2. DOMAIN s = 1..Len(s) /\ Len(s) \in Nat /\ ToSet(s) = {s[i] : i \in 1..Len(s)}
  BY <1>1 DEF ToSet
<1>3. content[t] = [i \in 1..Len(s) |-> Meaning(s[i])]
  BY <1>1, <1>2 DEF Meant
<1>4. d \in {"setting", "assembling"}
  BY DEF DocumentOf
<1>5. ASSUME NEW i \in 1..Len(s)
      PROVE  /\ s[i] \in Element /\ s[i] \in ToSet(s) /\ s[i].tag = t
             /\ \A c \in ToSet(s[i].children) :
                   c \in Child /\ c.tag \in ChildTag[t] /\ Supported(c)
  <2>1. s[i] \in Element /\ s[i] \in ToSet(s)
    BY <1>1, <1>2
  <2>2. s[i] \in ToSet(Listed(d)) /\ s[i].tag = t
    BY <2>1, ElementsOfFile
  <2>3. PICK k \in 1..Len(Listed(d)) : s[i] = Listed(d)[k]
    <3>1. Listed(d) \in Seq(Element)
      BY <1>4, FileType
    <3> QED
      BY <2>2, <3>1 DEF ToSet
  <2>4. \A c \in ToSet(s[i].children) : Supported(c) /\ c.tag \in ChildTag[t]
    BY <1>4, <2>2, <2>3, FileType, ReadToTheEnd
  <2>5. \A c \in ToSet(s[i].children) : c \in Child
    <3> DEFINE e == s[i]
    <3>1. e \in Element
      BY <2>1
    <3> HIDE DEF e
    <3>2. \A c \in ToSet(e.children) : c \in Child
      <4> DEFINE w == e.children
      <4>1. \A j \in 1..Len(w) : w[j] \in Child
        BY <3>1, ChildType
      <4>2. ToSet(w) = {w[j] : j \in 1..Len(w)}
        BY <3>1, ChildType
      <4> HIDE DEF w
      <4>3. \A c \in ToSet(w) : c \in Child
        BY <4>1, <4>2
      <4> QED
        BY <4>3 DEF w
    <3> QED
      BY <3>2 DEF e
  <2> QED
    BY <2>1, <2>2, <2>4, <2>5
<1> QED
  BY <1>1, <1>2, <1>3, <1>5

\* The automatons of the algorithm are those of the file.
LEMMA AutomatonIs ==
  ASSUME input \in Inputs, DocumentsInv, reading = "done"
  PROVE  LET s == ElementsOf("dynamicAutomaton")
         IN  /\ Len(Automatons) = Len(s) /\ Len(s) \in Nat
             /\ DOMAIN Automatons = 1..Len(s) /\ DOMAIN s = 1..Len(s)
             /\ \A i \in 1..Len(s) :
                   /\ Automatons[i].id = s[i].id /\ Automatons[i].lib = s[i].lib
                   /\ s[i] \in ToSet(s)
                   /\ ToSet(Automatons[i].connects) =
                         {[association |-> c.id, connection |-> c.name] :
                             c \in ToSet(s[i].children)}
<1> DEFINE t == "dynamicAutomaton"
           s == ElementsOf(t)
<1>1. t \in RootTag /\ ChildTag[t] = {"macroConnect"}
  BY DEF RootTag, AssemblingTag, ChildTag
<1>2. /\ Len(s) \in Nat /\ DOMAIN s = 1..Len(s)
      /\ content[t] = [i \in 1..Len(s) |-> Meaning(s[i])]
      /\ \A i \in 1..Len(s) :
            /\ s[i] \in ToSet(s) /\ s[i] \in Element
            /\ \A c \in ToSet(s[i].children) : c.tag \in ChildTag[t]
  BY <1>1, ContentIs
<1>3. Automatons = [i \in 1..Len(s) |->
                       [id |-> content[t][i].id, lib |-> content[t][i].lib,
                        connects |-> Connects(content[t][i])]]
  BY <1>2 DEF Automatons, EachOf
<1>4. Automatons = [i \in 1..Len(s) |->
                       [id |-> s[i].id, lib |-> s[i].lib,
                        connects |-> Connects(Meaning(s[i]))]]
  BY <1>2, <1>3 DEF Meaning
<1>5. ASSUME NEW i \in 1..Len(s)
      PROVE  ToSet(Connects(Meaning(s[i]))) =
                {[association |-> c.id, connection |-> c.name] : c \in ToSet(s[i].children)}
  <2> DEFINE e == s[i]
             kept == Meaning(e).items["macroConnect"]
  <2>1. e \in Element /\ \A c \in ToSet(e.children) : SlotOf(c) = "macroConnect"
    BY <1>1, <1>2 DEF SlotOf
  <2>2. "macroConnect" \in Slot /\ "macroConnect" \notin OptionalTag
    BY DEF Slot, VectorTag, OptionalTag
  <2> HIDE DEF e
  <2>3. ToSet(kept) = ToSet(e.children)
    <3>1. Item(Meaning(e), "macroConnect") =
             {c \in ToSet(e.children) : SlotOf(c) = "macroConnect"}
      BY <2>1, <2>2, ItemIs
    <3> QED
      BY <2>1, <3>1 DEF Item
  <2>4. ToSet(Connects(Meaning(e))) =
           {[association |-> c.id, connection |-> c.name] : c \in ToSet(kept)}
    BY DEF Connects, ToSet
  <2> QED
    BY <2>3, <2>4 DEF e
<1>6. DOMAIN Automatons = 1..Len(s) /\ Len(Automatons) = Len(s)
  BY <1>2, <1>4
<1> QED
  BY <1>2, <1>4, <1>5, <1>6

\* What a child designates, for the algorithm.
Target(c) == [type |-> TypeOf[c.tag], of |-> c.name]

\* The slots of the elements of the network.
LEMMA DesignationSlots ==
  /\ {"bus", "line", "tfo", "shunt"} \subseteq Slot
  /\ \A c : c.tag \in {"bus", "line", "tfo", "shunt"} => SlotOf(c) = c.tag
  /\ TypeOf["bus"] = "NODE" /\ TypeOf["line"] = "LINE"
  /\ TypeOf["tfo"] = "TFO" /\ TypeOf["shunt"] = "SHUNT"
  BY DEF Slot, OptionalTag, SlotOf, TypeOf

\* A single association is read as its preferred children.
LEMMA SingleTargetsIs ==
  ASSUME NEW e \in Element, \A c \in ToSet(e.children) : c.tag \in {"bus", "line", "tfo"}
  PROVE  /\ SingleTargets(Meaning(e)) = {Target(c) : c \in Preferred(e)}
         /\ \A c \in Preferred(e) : c \in ToSet(e.children)
<1> DEFINE I(slot) == Item(Meaning(e), slot)
<1>1. \A slot \in {"bus", "line", "tfo", "shunt"} : \A c \in I(slot) :
         c \in ToSet(e.children) /\ c.tag = slot
  BY DesignationSlots, ItemIs
<1>2. I("shunt") = {}
  BY <1>1
<1>3. \A slot \in {"bus", "line", "tfo"} :
         {[type |-> TypeOf[slot], of |-> c.name] : c \in I(slot)}
            = {Target(c) : c \in I(slot)}
  BY <1>1 DEF Target
<1>4. SingleTargets(Meaning(e)) =
         IF I("bus") # {} THEN {[type |-> "NODE", of |-> c.name] : c \in I("bus")}
         ELSE IF I("line") # {} THEN {[type |-> "LINE", of |-> c.name] : c \in I("line")}
         ELSE {[type |-> "TFO", of |-> c.name] : c \in I("tfo")}
  BY DEF SingleTargets
<1>5. Preferred(e) = IF I("bus") # {} THEN I("bus")
                     ELSE IF I("line") # {} THEN I("line")
                     ELSE I("tfo") \union I("shunt")
  BY DEF Preferred
<1> HIDE DEF I
<1>6. CASE I("bus") # {}
  BY <1>1, <1>3, <1>4, <1>5, <1>6, DesignationSlots
<1>7. CASE I("bus") = {} /\ I("line") # {}
  BY <1>1, <1>3, <1>4, <1>5, <1>7, DesignationSlots
<1>8. CASE I("bus") = {} /\ I("line") = {}
  <2>1. Preferred(e) = I("tfo")
    BY <1>2, <1>5, <1>8
  <2> QED
    BY <1>1, <1>3, <1>4, <1>8, <2>1, DesignationSlots
<1> QED
  BY <1>6, <1>7, <1>8

\* A multiple association is read as its shunts.
LEMMA MultipleTargetsIs ==
  ASSUME NEW e \in Element, \A c \in ToSet(e.children) : c.tag = "shunt"
  PROVE  /\ MultipleTargets(Meaning(e)) = {Target(c) : c \in Preferred(e)}
         /\ \A c \in Preferred(e) : c \in ToSet(e.children)
         /\ Preferred(e) = Item(Meaning(e), "shunt")
<1> DEFINE I(slot) == Item(Meaning(e), slot)
<1>1. \A slot \in {"bus", "line", "tfo", "shunt"} : \A c \in I(slot) :
         c \in ToSet(e.children) /\ c.tag = slot
  BY DesignationSlots, ItemIs
<1>2. I("bus") = {} /\ I("line") = {} /\ I("tfo") = {}
  BY <1>1
<1>3. MultipleTargets(Meaning(e)) = {[type |-> "SHUNT", of |-> c.name] : c \in I("shunt")}
  BY DEF MultipleTargets
<1>5. Preferred(e) = IF I("bus") # {} THEN I("bus")
                     ELSE IF I("line") # {} THEN I("line")
                     ELSE I("tfo") \union I("shunt")
  BY DEF Preferred
<1>6. I("shunt") = Item(Meaning(e), "shunt")
  OBVIOUS
<1> HIDE DEF I
<1>7. Preferred(e) = I("shunt")
  BY <1>2, <1>5
<1>8. {[type |-> "SHUNT", of |-> c.name] : c \in I("shunt")}
         = {Target(c) : c \in I("shunt")}
  BY <1>1, DesignationSlots DEF Target
<1> QED
  BY <1>1, <1>3, <1>6, <1>7, <1>8

\* The last position of an id, and what is there.
LastAt(all, id) == {k \in Algo!WithId(all, id) : \A j \in Algo!WithId(all, id) : j <= k}

\* The maps of associations hold what the file gives.
LEMMA AssociationsAre ==
  ASSUME input \in Inputs, DocumentsInv, reading = "done"
  PROVE  LET s == ElementsOf("singleAssociation")
             m == ElementsOf("multipleAssociation")
         IN  /\ Singles = [i \in 1..Len(s) |->
                              [id |-> s[i].id, targets |-> SingleTargets(Meaning(s[i]))]]
             /\ Multiples = [i \in 1..Len(m) |->
                              [id |-> m[i].id, targets |-> MultipleTargets(Meaning(m[i]))]]
             /\ \A i \in 1..Len(s) :
                   /\ SingleTargets(Meaning(s[i])) = {Target(c) : c \in Preferred(s[i])}
                   /\ \A c \in Preferred(s[i]) : c \in ToSet(s[i].children)
             /\ \A i \in 1..Len(m) :
                   /\ MultipleTargets(Meaning(m[i])) = {Target(c) : c \in Preferred(m[i])}
                   /\ \A c \in Preferred(m[i]) : c \in ToSet(m[i].children)
<1> DEFINE ts == "singleAssociation"
           tm == "multipleAssociation"
           s == ElementsOf(ts)
           m == ElementsOf(tm)
<1>1. /\ ts \in RootTag /\ tm \in RootTag
      /\ ChildTag[ts] = {"bus", "line", "tfo"} /\ ChildTag[tm] = {"shunt"}
  BY DEF RootTag, AssemblingTag, ChildTag
<1>2. /\ content[ts] = [i \in 1..Len(s) |-> Meaning(s[i])]
      /\ \A i \in 1..Len(s) :
            s[i] \in Element /\ \A c \in ToSet(s[i].children) : c.tag \in ChildTag[ts]
  BY <1>1, ContentIs
<1>3. /\ content[tm] = [i \in 1..Len(m) |-> Meaning(m[i])]
      /\ \A i \in 1..Len(m) :
            m[i] \in Element /\ \A c \in ToSet(m[i].children) : c.tag \in ChildTag[tm]
  BY <1>1, ContentIs
<1>4. Singles = [i \in 1..Len(s) |->
                    [id |-> content[ts][i].id, targets |-> SingleTargets(content[ts][i])]]
  BY <1>2 DEF Singles, EachOf
<1>5. Multiples = [i \in 1..Len(m) |->
                    [id |-> content[tm][i].id, targets |-> MultipleTargets(content[tm][i])]]
  BY <1>3 DEF Multiples, EachOf
<1>6. \A e : Meaning(e).id = e.id
  BY DEF Meaning
<1>7. Singles = [i \in 1..Len(s) |->
                    [id |-> s[i].id, targets |-> SingleTargets(Meaning(s[i]))]]
  BY <1>2, <1>4, <1>6
<1>8. Multiples = [i \in 1..Len(m) |->
                    [id |-> m[i].id, targets |-> MultipleTargets(Meaning(m[i]))]]
  BY <1>3, <1>5, <1>6
<1>9. \A i \in 1..Len(s) :
         /\ SingleTargets(Meaning(s[i])) = {Target(c) : c \in Preferred(s[i])}
         /\ \A c \in Preferred(s[i]) : c \in ToSet(s[i].children)
  BY <1>1, <1>2, SingleTargetsIs
<1>10. \A i \in 1..Len(m) :
         /\ MultipleTargets(Meaning(m[i])) = {Target(c) : c \in Preferred(m[i])}
         /\ \A c \in Preferred(m[i]) : c \in ToSet(m[i].children)
  BY <1>1, <1>3, MultipleTargetsIs
<1> QED
  BY <1>7, <1>8, <1>9, <1>10

\* What an id stands for in the algorithm is what it stands for in the file.
LEMMA TargetsAre ==
  ASSUME input \in Inputs, DocumentsInv, reading = "done", NEW id
  PROVE  /\ Algo!Targets(id) = {Target(c) : c \in UNION {Preferred(e) : e \in Resolved(id)}}
         /\ \A e \in Resolved(id) : \A c \in Preferred(e) :
               c \in ToSet(e.children) /\ c.tag \in {"bus", "line", "tfo", "shunt"}
         /\ Resolved(id) \subseteq ToSet(ElementsOf("singleAssociation"))
                                   \union ToSet(ElementsOf("multipleAssociation"))
<1> DEFINE s == ElementsOf("singleAssociation")
           m == ElementsOf("multipleAssociation")
<1>1. "singleAssociation" \in RootTag /\ "multipleAssociation" \in RootTag
      /\ ChildTag["singleAssociation"] = {"bus", "line", "tfo"}
      /\ ChildTag["multipleAssociation"] = {"shunt"}
  BY DEF RootTag, AssemblingTag, ChildTag
<1>2. /\ DOMAIN s = 1..Len(s)
      /\ \A i \in 1..Len(s) : s[i] \in ToSet(s)
           /\ \A c \in ToSet(s[i].children) : c.tag \in {"bus", "line", "tfo"}
  BY <1>1, ContentIs
<1>3. /\ DOMAIN m = 1..Len(m)
      /\ \A i \in 1..Len(m) : m[i] \in ToSet(m)
           /\ \A c \in ToSet(m[i].children) : c.tag \in {"shunt"}
  BY <1>1, ContentIs
<1>4. /\ Singles = [i \in 1..Len(s) |->
                       [id |-> s[i].id, targets |-> SingleTargets(Meaning(s[i]))]]
      /\ Multiples = [i \in 1..Len(m) |->
                       [id |-> m[i].id, targets |-> MultipleTargets(Meaning(m[i]))]]
      /\ \A i \in 1..Len(s) :
            /\ SingleTargets(Meaning(s[i])) = {Target(c) : c \in Preferred(s[i])}
            /\ \A c \in Preferred(s[i]) : c \in ToSet(s[i].children)
      /\ \A i \in 1..Len(m) :
            /\ MultipleTargets(Meaning(m[i])) = {Target(c) : c \in Preferred(m[i])}
            /\ \A c \in Preferred(m[i]) : c \in ToSet(m[i].children)
  BY AssociationsAre
<1> HIDE DEF s, m
<1>5. Algo!WithId(Singles, id) = Algo!WithId(s, id)
  BY <1>2, <1>4 DEF Algo!WithId
<1>6. Algo!WithId(Multiples, id) = Algo!WithId(m, id)
  BY <1>3, <1>4 DEF Algo!WithId
<1>7. /\ LastAt(s, id) \subseteq 1..Len(s) /\ LastAt(m, id) \subseteq 1..Len(m)
      /\ Algo!LastOf(s, id) = {s[k] : k \in LastAt(s, id)}
      /\ Algo!LastOf(m, id) = {m[k] : k \in LastAt(m, id)}
  BY <1>2, <1>3 DEF Algo!LastOf, LastAt, Algo!WithId
<1>8. /\ Algo!LastOf(Singles, id) = {Singles[k] : k \in LastAt(s, id)}
      /\ Algo!LastOf(Multiples, id) = {Multiples[k] : k \in LastAt(m, id)}
  BY <1>5, <1>6 DEF Algo!LastOf, LastAt
<1>9. Algo!Association(id) =
         IF Algo!WithId(s, id) # {} THEN {Singles[k] : k \in LastAt(s, id)}
         ELSE {Multiples[k] : k \in LastAt(m, id)}
  BY <1>5, <1>8 DEF Algo!Association, Description
<1>10. Resolved(id) =
         IF Algo!WithId(s, id) # {} THEN {s[k] : k \in LastAt(s, id)}
         ELSE {m[k] : k \in LastAt(m, id)}
  BY <1>7 DEF Resolved, s, m
<1>11. Algo!Targets(id) = UNION {a.targets : a \in Algo!Association(id)}
  BY DEF Algo!Targets
<1>12. CASE Algo!WithId(s, id) # {}
  <2>1. /\ \A k \in LastAt(s, id) : Singles[k].targets = {Target(c) : c \in Preferred(s[k])}
        /\ Resolved(id) = {s[k] : k \in LastAt(s, id)}
        /\ Algo!Association(id) = {Singles[k] : k \in LastAt(s, id)}
    BY <1>4, <1>7, <1>9, <1>10, <1>12
  <2>2. Algo!Targets(id) = {Target(c) : c \in UNION {Preferred(e) : e \in Resolved(id)}}
    BY <1>11, <2>1
  <2>3. \A e \in Resolved(id) : e \in ToSet(s)
           /\ \A c \in Preferred(e) :
                 c \in ToSet(e.children) /\ c.tag \in {"bus", "line", "tfo", "shunt"}
    BY <1>2, <1>4, <1>7, <2>1
  <2>4. \A e \in Resolved(id) : \A c \in Preferred(e) :
           c \in ToSet(e.children) /\ c.tag \in {"bus", "line", "tfo", "shunt"}
    BY <2>3
  <2>5. Resolved(id) \subseteq ToSet(s)
    BY <2>3
  <2> QED
    BY <2>2, <2>4, <2>5 DEF s
<1>13. CASE Algo!WithId(s, id) = {}
  <2>1. /\ \A k \in LastAt(m, id) : Multiples[k].targets = {Target(c) : c \in Preferred(m[k])}
        /\ Resolved(id) = {m[k] : k \in LastAt(m, id)}
        /\ Algo!Association(id) = {Multiples[k] : k \in LastAt(m, id)}
    BY <1>4, <1>7, <1>9, <1>10, <1>13
  <2>2. Algo!Targets(id) = {Target(c) : c \in UNION {Preferred(e) : e \in Resolved(id)}}
    BY <1>11, <2>1
  <2>3. \A e \in Resolved(id) : e \in ToSet(m)
           /\ \A c \in Preferred(e) :
                 c \in ToSet(e.children) /\ c.tag \in {"bus", "line", "tfo", "shunt"}
    BY <1>3, <1>4, <1>7, <2>1
  <2>4. \A e \in Resolved(id) : \A c \in Preferred(e) :
           c \in ToSet(e.children) /\ c.tag \in {"bus", "line", "tfo", "shunt"}
    BY <2>3
  <2>5. Resolved(id) \subseteq ToSet(m)
    BY <2>3
  <2> QED
    BY <2>2, <2>4, <2>5 DEF m
<1> QED
  BY <1>12, <1>13

-----------------------------------------------------------------------------
(***************************************************************************)
(* What the nodes give, all of them met, is what the files ask for.        *)
(***************************************************************************)

\* The entries of the tables, from the elements of the file.
EntriesFor(x) ==
    UNION {{[model |-> x.id, connection |-> m.name, target |-> t] :
               t \in Algo!Targets(m.id)} : m \in ToSet(x.children)}

\* The entries of an automaton are those of its macro connects.
LEMMA EntriesAre ==
  ASSUME input \in Inputs, DocumentsInv, reading = "done",
         NEW i \in 1..Len(ElementsOf("dynamicAutomaton"))
  PROVE  Algo!EntriesOf(Automatons[i]) = EntriesFor(ElementsOf("dynamicAutomaton")[i])
<1> DEFINE x == ElementsOf("dynamicAutomaton")[i]
           T == ToSet(Automatons[i].connects)
           C == ToSet(x.children)
           E(id, association, connection) ==
               {[model |-> id, connection |-> connection, target |-> t] :
                   t \in Algo!Targets(association)}
<1>1. Automatons[i].id = x.id
      /\ T = {[association |-> c.id, connection |-> c.name] : c \in C}
  BY AutomatonIs
<1>2. Algo!EntriesOf(Automatons[i])
         = UNION {E(Automatons[i].id, m.association, m.connection) : m \in T}
  BY AlgoToSet DEF Algo!EntriesOf
<1>3. EntriesFor(x) = UNION {E(x.id, m.id, m.name) : m \in C}
  BY DEF EntriesFor
<1> HIDE DEF E, T, C, x
<1>4. {E(Automatons[i].id, m.association, m.connection) : m \in T}
         = {E(x.id, m.id, m.name) : m \in C}
  <2>1. \A m \in T : \E c \in C : m.association = c.id /\ m.connection = c.name
    BY <1>1
  <2>2. \A c \in C : \E m \in T : m.association = c.id /\ m.connection = c.name
    <3> SUFFICES ASSUME NEW c \in C
                 PROVE  \E m \in T : m.association = c.id /\ m.connection = c.name
      OBVIOUS
    <3> DEFINE m == [association |-> c.id, connection |-> c.name]
    <3>1. m \in T /\ m.association = c.id /\ m.connection = c.name
      BY <1>1
    <3> QED
      BY <3>1
  <2> QED
    BY <1>1, <2>1, <2>2
<1> QED
  BY <1>2, <1>3, <1>4 DEF x

\* All the entries, once the automatons are gone through.
LEMMA WantedIs ==
  ASSUME input \in Inputs, DocumentsInv, reading = "done"
  PROVE  WantedBefore(Len(Automatons) + 1) =
            UNION {EntriesFor(x) : x \in {y \in ToSet(ElementsOf("dynamicAutomaton")) :
                                             y.lib \in input.libraries}}
<1> DEFINE s == ElementsOf("dynamicAutomaton")
           n == Len(s)
<1>1. /\ Len(Automatons) = n /\ n \in Nat
      /\ DOMAIN s = 1..n
      /\ \A i \in 1..n : Automatons[i].lib = s[i].lib
  BY AutomatonIs
<1>2. \A i \in 1..n : Algo!EntriesOf(Automatons[i]) = EntriesFor(s[i])
  BY EntriesAre
<1> HIDE DEF s, n
<1>3. 1..(Len(Automatons) + 1) - 1 = 1..n
  BY <1>1
<1>4. WantedBefore(Len(Automatons) + 1) =
         UNION {Algo!EntriesOf(Automatons[i]) :
                   i \in {j \in 1..n : Automatons[j].lib \in input.libraries}}
  BY <1>3 DEF WantedBefore
<1>5. ToSet(s) = {s[i] : i \in 1..n}
  BY <1>1 DEF ToSet
<1>6. {Algo!EntriesOf(Automatons[i]) :
                   i \in {j \in 1..n : Automatons[j].lib \in input.libraries}}
       = {EntriesFor(x) : x \in {y \in ToSet(s) : y.lib \in input.libraries}}
  BY <1>1, <1>2, <1>5
<1> QED
  BY <1>4, <1>6 DEF s

\* Every entry is that of a child of an automaton, and has a target of a type.
LEMMA WantedFrom ==
  ASSUME input \in Inputs, DocumentsInv, reading = "done",
         NEW k \in 1..Len(Automatons) + 1, NEW w \in WantedBefore(k)
  PROVE  /\ w.target.type \in Algo!Type
         /\ \E i \in 1..k-1 : Automatons[i].id = w.model
<1> DEFINE s == ElementsOf("dynamicAutomaton")
<1>1. PICK i \in 1..k-1 : w \in Algo!EntriesOf(Automatons[i])
  BY DEF WantedBefore
<1>2. i \in 1..Len(s) /\ Automatons[i].id = s[i].id
  BY <1>1, AutomatonIs
<1>3. w \in EntriesFor(s[i])
  BY <1>1, <1>2, EntriesAre
<1>4. PICK m \in ToSet(s[i].children) : \E t \in Algo!Targets(m.id) :
         w = [model |-> s[i].id, connection |-> m.name, target |-> t]
  BY <1>3 DEF EntriesFor
<1>5. PICK t \in Algo!Targets(m.id) :
         w = [model |-> s[i].id, connection |-> m.name, target |-> t]
  BY <1>4
<1>6. PICK e \in Resolved(m.id) : \E c \in Preferred(e) : t = Target(c)
  BY <1>5, TargetsAre
<1>9. PICK c \in Preferred(e) : t = Target(c)
  BY <1>6
<1>7. c.tag \in {"bus", "line", "tfo", "shunt"}
  BY <1>6, TargetsAre
<1>8. t.type \in Algo!Type
  BY <1>9, <1>7, DesignationSlots DEF Target, Algo!Type
<1> QED
  BY <1>1, <1>2, <1>5, <1>8

\* What a child of an association designates is what the nodes have for it.
LEMMA OfIs ==
  ASSUME input \in Inputs, NEW c, c.tag \in {"bus", "line", "tfo", "shunt"}, NEW x
  PROVE  x \in Of(c.tag, c.name) <=> \E n \in 1..N : x \in Algo!Elements(Target(c), n)
<1> DEFINE t == Target(c)
<1>1. t.of = c.name /\ t.type = TypeOf[c.tag]
  BY DEF Target
<1>2. IsInput(input)
  BY InputsAssumption
<1>3. DOMAIN input.first = {input.level[n] : n \in 1..N}
  BY <1>2 DEF IsInput, Node
<1>4. /\ Description.level = input.level /\ Description.first = input.first
      /\ Description.lines = input.lines /\ Description.tfos = input.tfos
      /\ Description.shunts = input.shunts
  BY DEF Description
<1> HIDE DEF t
<1>5. \A n \in 1..N : Algo!Matches(t, n) <=>
         \/ t.type \in {"NODE", "SHUNT"} /\ t.of = input.level[n]
         \/ t.type = "LINE" /\ t.of \in input.lines[n]
         \/ t.type = "TFO" /\ t.of \in input.tfos[n]
  BY <1>4 DEF Algo!Matches
<1>6. \A n \in 1..N : Algo!Elements(t, n) =
         IF ~Algo!Matches(t, n) THEN {}
         ELSE IF t.type = "NODE" THEN {input.first[t.of]}
         ELSE IF t.type = "SHUNT" THEN input.shunts[n]
         ELSE {t.of}
  BY <1>4 DEF Algo!Elements
<1>7. CASE c.tag = "bus"
  <2>1. t.type = "NODE"
    BY <1>1, <1>7, DesignationSlots
  <2>2. \A n \in 1..N : Algo!Elements(t, n) =
           IF c.name = input.level[n] THEN {input.first[c.name]} ELSE {}
    BY <1>1, <1>5, <1>6, <2>1
  <2>3. Of(c.tag, c.name) = {input.first[v] : v \in {c.name} \intersect DOMAIN input.first}
    BY <1>7 DEF Of
  <2> QED
    BY <1>3, <2>2, <2>3 DEF t
<1>8. CASE c.tag = "line"
  <2>1. t.type = "LINE"
    BY <1>1, <1>8, DesignationSlots
  <2>2. \A n \in 1..N : Algo!Elements(t, n) =
           IF c.name \in input.lines[n] THEN {c.name} ELSE {}
    BY <1>1, <1>5, <1>6, <2>1
  <2>3. Of(c.tag, c.name) = {c.name} \intersect UNION {input.lines[n] : n \in 1..N}
    BY <1>8 DEF Of, Node
  <2> QED
    BY <2>2, <2>3 DEF t
<1>9. CASE c.tag = "tfo"
  <2>1. t.type = "TFO"
    BY <1>1, <1>9, DesignationSlots
  <2>2. \A n \in 1..N : Algo!Elements(t, n) =
           IF c.name \in input.tfos[n] THEN {c.name} ELSE {}
    BY <1>1, <1>5, <1>6, <2>1
  <2>3. Of(c.tag, c.name) = {c.name} \intersect UNION {input.tfos[n] : n \in 1..N}
    BY <1>9 DEF Of, Node
  <2> QED
    BY <2>2, <2>3 DEF t
<1>10. CASE c.tag = "shunt"
  <2>1. t.type = "SHUNT"
    BY <1>1, <1>10, DesignationSlots
  <2>2. \A n \in 1..N : Algo!Elements(t, n) =
           IF c.name = input.level[n] THEN input.shunts[n] ELSE {}
    BY <1>1, <1>5, <1>6, <2>1
  <2>3. Of(c.tag, c.name) =
           UNION {input.shunts[n] : n \in {k \in 1..N : input.level[k] = c.name}}
    BY <1>10 DEF Of, Node
  <2> QED
    BY <2>2, <2>3 DEF t
<1> QED
  BY <1>7, <1>8, <1>9, <1>10

\* A connection asked for, from the elements of the file.
LEMMA AskedIs ==
  ASSUME NEW a, NEW c
  PROVE  c \in Asked(a) <=>
            \E x \in Loadable(a) : \E m \in ToSet(x.children) :
            \E e \in Resolved(m.id) : \E d \in Preferred(e) :
            \E y \in Of(d.tag, d.name) :
               c = [id |-> m.name, elementType |-> TypeOf[d.tag], element |-> y]
<1>1. c \in Asked(a) <=> \E x \in Loadable(a) : \E m \in ToSet(x.children) :
                            c \in AskedConnections(m)
  BY DEF Asked, AskedBy
<1>2. ASSUME NEW m
      PROVE  c \in AskedConnections(m) <=>
                \E e \in Resolved(m.id) : \E d \in Preferred(e) :
                \E y \in Of(d.tag, d.name) :
                   c = [id |-> m.name, elementType |-> TypeOf[d.tag], element |-> y]
  <2> DEFINE D == UNION {Preferred(e) : e \in Resolved(m.id)}
             P == UNION {{TypeOf[d.tag]} \X Of(d.tag, d.name) : d \in D}
  <2>1. AskedConnections(m) =
           {[id |-> m.name, elementType |-> x[1], element |-> x[2]] : x \in P}
    BY DEF AskedConnections
  <2>2. ASSUME NEW x \in P, c = [id |-> m.name, elementType |-> x[1], element |-> x[2]]
        PROVE  \E d \in D : \E y \in Of(d.tag, d.name) :
                  c = [id |-> m.name, elementType |-> TypeOf[d.tag], element |-> y]
    <3>1. PICK d \in D : x \in {TypeOf[d.tag]} \X Of(d.tag, d.name)
      OBVIOUS
    <3>2. x[1] = TypeOf[d.tag] /\ x[2] \in Of(d.tag, d.name)
      BY <3>1
    <3> QED
      BY <2>2, <3>2
  <2>3. ASSUME NEW d \in D, NEW y \in Of(d.tag, d.name),
               c = [id |-> m.name, elementType |-> TypeOf[d.tag], element |-> y]
        PROVE  \E x \in P : c = [id |-> m.name, elementType |-> x[1], element |-> x[2]]
    <3> DEFINE z == <<TypeOf[d.tag], y>>
    <3>1. z \in P /\ z[1] = TypeOf[d.tag] /\ z[2] = y
      OBVIOUS
    <3> HIDE DEF z, P, D
    <3> QED
      BY <2>3, <3>1
  <2> HIDE DEF P
  <2>4. c \in AskedConnections(m) <=>
           \E d \in D : \E y \in Of(d.tag, d.name) :
              c = [id |-> m.name, elementType |-> TypeOf[d.tag], element |-> y]
    BY <2>1, <2>2, <2>3
  <2> QED
    BY <2>4
<1> QED
  BY <1>1, <1>2

\* A connection met on a node.
LEMMA ConnectionIs ==
  ASSUME NEW a, NEW n, NEW c
  PROVE  c \in Algo!ConnectionsOn(a, n) <=>
            \E w \in wanted : w.model = a /\ \E y \in Algo!Elements(w.target, n) :
               c = [id |-> w.connection, elementType |-> w.target.type, element |-> y]
  BY DEF Algo!ConnectionsOn

\* The connections met on all nodes are those asked for.
LEMMA MetIsAsked ==
  ASSUME input \in Inputs, DocumentsInv, reading = "done",
         wanted = WantedBefore(Len(Automatons) + 1), NEW a
  PROVE  MetBefore(a, N + 1) = Asked(a)
<1> DEFINE A == ToSet(ElementsOf("dynamicAutomaton"))
<1>1. \A w : w \in wanted <=>
         \E x \in A : x.lib \in input.libraries /\ \E m \in ToSet(x.children) :
         \E t \in Algo!Targets(m.id) :
            w = [model |-> x.id, connection |-> m.name, target |-> t]
  BY WantedIs DEF EntriesFor
<1>2. \A id, t : t \in Algo!Targets(id) <=>
         \E e \in Resolved(id) : \E d \in Preferred(e) : t = Target(d)
  BY TargetsAre
<1>3. \A id : \A e \in Resolved(id) : \A d \in Preferred(e) :
         d.tag \in {"bus", "line", "tfo", "shunt"}
  BY TargetsAre
<1>4. \A x : x \in Loadable(a) <=> x \in A /\ x.id = a /\ x.lib \in input.libraries
  BY DEF Loadable, AutomatonsOf
<1>5. \A d : Target(d).type = TypeOf[d.tag]
  BY DEF Target
<1>6. \A c : c \in MetBefore(a, N + 1) <=> \E n \in 1..N : c \in Algo!ConnectionsOn(a, n)
  BY NAssumption DEF MetBefore
<1> HIDE DEF A
<1>7. ASSUME NEW c \in MetBefore(a, N + 1)
      PROVE  c \in Asked(a)
  <2>1. PICK n \in 1..N : c \in Algo!ConnectionsOn(a, n)
    BY <1>6
  <2>2. PICK w \in wanted : w.model = a /\ \E y \in Algo!Elements(w.target, n) :
               c = [id |-> w.connection, elementType |-> w.target.type, element |-> y]
    BY <2>1, ConnectionIs
  <2>3. PICK y \in Algo!Elements(w.target, n) :
               c = [id |-> w.connection, elementType |-> w.target.type, element |-> y]
    BY <2>2
  <2>4. PICK x \in A : x.lib \in input.libraries /\ \E m \in ToSet(x.children) :
         \E t \in Algo!Targets(m.id) :
            w = [model |-> x.id, connection |-> m.name, target |-> t]
    BY <1>1, <2>2
  <2>5. PICK m \in ToSet(x.children) : \E t \in Algo!Targets(m.id) :
            w = [model |-> x.id, connection |-> m.name, target |-> t]
    BY <2>4
  <2>11. PICK e \in Resolved(m.id) : \E d \in Preferred(e) :
            w = [model |-> x.id, connection |-> m.name, target |-> Target(d)]
    BY <1>2, <2>5
  <2>6. PICK d \in Preferred(e) :
            w = [model |-> x.id, connection |-> m.name, target |-> Target(d)]
    BY <2>11
  <2>7. x.id = a /\ w.target = Target(d) /\ w.connection = m.name
    BY <2>2, <2>6
  <2>8. x \in Loadable(a)
    BY <1>4, <2>4, <2>7
  <2>9. y \in Of(d.tag, d.name)
    BY <1>3, <2>1, <2>3, <2>6, <2>7, OfIs
  <2>10. c = [id |-> m.name, elementType |-> TypeOf[d.tag], element |-> y]
    BY <1>5, <2>3, <2>7
  <2> QED
    BY <2>5, <2>6, <2>8, <2>9, <2>10, AskedIs
<1>8. ASSUME NEW c \in Asked(a)
      PROVE  c \in MetBefore(a, N + 1)
  <2>1. PICK x \in Loadable(a) : \E m \in ToSet(x.children) :
            \E e \in Resolved(m.id) : \E d \in Preferred(e) :
            \E y \in Of(d.tag, d.name) :
               c = [id |-> m.name, elementType |-> TypeOf[d.tag], element |-> y]
    BY AskedIs
  <2>7. PICK m \in ToSet(x.children) :
            \E e \in Resolved(m.id) : \E d \in Preferred(e) :
            \E y \in Of(d.tag, d.name) :
               c = [id |-> m.name, elementType |-> TypeOf[d.tag], element |-> y]
    BY <2>1
  <2>8. PICK e \in Resolved(m.id) : \E d \in Preferred(e) :
            \E y \in Of(d.tag, d.name) :
               c = [id |-> m.name, elementType |-> TypeOf[d.tag], element |-> y]
    BY <2>7
  <2>9. PICK d \in Preferred(e) : \E y \in Of(d.tag, d.name) :
               c = [id |-> m.name, elementType |-> TypeOf[d.tag], element |-> y]
    BY <2>8
  <2>2. PICK y \in Of(d.tag, d.name) :
               c = [id |-> m.name, elementType |-> TypeOf[d.tag], element |-> y]
    BY <2>9
  <2> DEFINE w == [model |-> a, connection |-> m.name, target |-> Target(d)]
  <2>3. w \in wanted
    BY <1>1, <1>2, <1>4, <2>1, <2>2
  <2>4. PICK n \in 1..N : y \in Algo!Elements(Target(d), n)
    BY <1>3, <2>2, OfIs
  <2>5. /\ w.model = a /\ w.connection = m.name /\ w.target = Target(d)
        /\ w.target.type = TypeOf[d.tag]
    BY <1>5
  <2> HIDE DEF w
  <2>6. c \in Algo!ConnectionsOn(a, n)
    BY <2>2, <2>3, <2>4, <2>5, ConnectionIs
  <2> QED
    BY <1>6, <2>4, <2>6
<1> QED
  BY <1>7, <1>8

-----------------------------------------------------------------------------
(***************************************************************************)
(* What depends on the files and the network alone is kept by every step.  *)
(***************************************************************************)

\* What the algorithm reads of the files and of the documents.
LEMMA DescriptionKept ==
  ASSUME UNCHANGED <<input, content>>
  PROVE  /\ Description' = Description /\ Automatons' = Automatons
         /\ \A k : WantedBefore(k)' = WantedBefore(k)
<1>1. Automatons' = Automatons /\ Singles' = Singles /\ Multiples' = Multiples
  BY DEF Automatons, Singles, Multiples, EachOf
<1>2. Description' = Description
  BY <1>1 DEF Description
<1>3. \A id : Algo!Targets(id)' = Algo!Targets(id)
  BY <1>2 DEF Algo!Targets, Algo!Association
<1>4. \A a : Algo!EntriesOf(a)' = Algo!EntriesOf(a)
  BY <1>3 DEF Algo!EntriesOf
<1> QED
  BY <1>1, <1>2, <1>4 DEF WantedBefore

\* What the nodes give, for given entries.
LEMMA ConnectionsKept ==
  ASSUME UNCHANGED <<input, content, wanted>>
  PROVE  /\ \A a, n : Algo!ConnectionsOn(a, n)' = Algo!ConnectionsOn(a, n)
         /\ \A a, k : MetBefore(a, k)' = MetBefore(a, k)
         /\ Requested' = Requested
<1>1. Description' = Description
  BY DescriptionKept
<1>2. \A t, n : Algo!Elements(t, n)' = Algo!Elements(t, n)
  BY <1>1 DEF Algo!Elements, Algo!Matches
<1>3. \A a, n : Algo!ConnectionsOn(a, n)' = Algo!ConnectionsOn(a, n)
  BY <1>2 DEF Algo!ConnectionsOn
<1> QED
  BY <1>3 DEF MetBefore, Requested

\* What the files ask for.
LEMMA AskedKept ==
  ASSUME input' = input
  PROVE  /\ \A t : ElementsOf(t)' = ElementsOf(t)
         /\ \A id : Resolved(id)' = Resolved(id)
         /\ \A a : Asked(a)' = Asked(a)
         /\ \A a : Confused(a)' = Confused(a)
<1>1. \A t : ElementsOf(t)' = ElementsOf(t)
  BY DEF ElementsOf, Contents
<1>2. \A id : Resolved(id)' = Resolved(id)
  BY <1>1 DEF Resolved
<1>3. \A t, x : Of(t, x)' = Of(t, x)
  BY DEF Of
<1>4. \A m : AskedConnections(m)' = AskedConnections(m)
  BY <1>2, <1>3 DEF AskedConnections
<1>5. \A a : Loadable(a)' = Loadable(a)
  BY <1>1 DEF Loadable, AutomatonsOf
<1>6. \A a : Asked(a)' = Asked(a)
  BY <1>4, <1>5 DEF Asked
<1> QED
  BY <1>1, <1>2, <1>6 DEF Confused

-----------------------------------------------------------------------------
(***************************************************************************)
(* The insertion in a set of connections.                                  *)
(***************************************************************************)

\* Of connections with the same concatenation, one is inserted first.
LEMMA FirstExists ==
  ASSUME NEW S, S # {}, \A c \in S : c.elementType \in Algo!Type
  PROVE  Algo!FirstOf(S) \in S
<1> DEFINE R == {Algo!Rank(c) : c \in S}
<1>1. \A c \in S : Algo!Rank(c) \in Nat
  BY DEF Algo!Rank, Algo!Type
<1>2. R \in SUBSET Nat /\ R # {}
  BY <1>1
<1>3. PICK m \in R : \A k \in R : m <= k
  BY <1>2, LeastNatural
<1>4. PICK c \in S : Algo!Rank(c) = m
  BY <1>3
<1>5. \A d \in S : Algo!Rank(c) <= Algo!Rank(d)
  BY <1>3, <1>4
<1> QED
  BY <1>4, <1>5 DEF Algo!FirstOf

\* After an insertion, each connection is there or another with the same
\* concatenation is.
LEMMA InsertedCovers ==
  ASSUME NEW old, NEW M, NEW new, old \subseteq M, Covers(old, M),
         \A c \in new : c.elementType \in Algo!Type
  PROVE  /\ Algo!Inserted(old, new) \subseteq M \union new
         /\ Covers(Algo!Inserted(old, new), M \union new)
<1> DEFINE r == Algo!Inserted(old, new)
           K(c) == Algo!Concatenation(c)
<1>1. r = old \union {c \in new : /\ Algo!Alike(c, old) = {}
                                  /\ c = Algo!FirstOf(Algo!Alike(c, new))}
  BY DEF Algo!Inserted
<1>2. \A c, S : Algo!Alike(c, S) = {d \in S : K(d) = K(c)}
  BY DEF Algo!Alike
<1>3. \A c \in M : \E d \in old : K(d) = K(c)
  BY DEF Covers
<1> HIDE DEF r, K
<1>4. ASSUME NEW c \in new
      PROVE  \E d \in r : K(d) = K(c)
  <2>1. CASE Algo!Alike(c, old) # {}
    BY <1>1, <1>2, <2>1
  <2>2. CASE Algo!Alike(c, old) = {}
    <3> DEFINE S == Algo!Alike(c, new)
               d == Algo!FirstOf(S)
    <3>1. S = {x \in new : K(x) = K(c)}
      BY <1>2
    <3>2. S # {} /\ \A x \in S : x.elementType \in Algo!Type
      BY <3>1
    <3> HIDE DEF S
    <3>3. d \in S
      BY <3>2, FirstExists
    <3>4. d \in new /\ K(d) = K(c)
      BY <3>1, <3>3
    <3>5. Algo!Alike(d, new) = S /\ Algo!Alike(d, old) = {}
      BY <1>2, <2>2, <3>4 DEF S
    <3>6. d = Algo!FirstOf(Algo!Alike(d, new))
      BY <3>5
    <3> HIDE DEF d
    <3>7. d \in r
      BY <1>1, <3>4, <3>5, <3>6
    <3> QED
      BY <3>4, <3>7
  <2> QED
    BY <2>1, <2>2
<1>5. r \subseteq M \union new
  BY <1>1
<1>6. \A c \in M \union new : \E d \in r : K(d) = K(c)
  BY <1>1, <1>3, <1>4
<1> QED
  BY <1>5, <1>6 DEF Covers, r, K

-----------------------------------------------------------------------------
(***************************************************************************)
(* The steps of the algorithm.                                             *)
(***************************************************************************)

\* The automatons are counted.
LEMMA AutomatonsLength ==
  ASSUME input \in Inputs, DocumentsInv, reading = "done"
  PROVE  Len(Automatons) \in Nat /\ DOMAIN Automatons = 1..Len(Automatons)
  BY AutomatonIs

\* Before the first node, nothing is met.
LEMMA NothingMet ==
  /\ \A a : MetBefore(a, 1) = {}
  /\ WantedBefore(1) = {}
  /\ LevelsBefore(1) = {}
<1>1. 1..1-1 = {}
  OBVIOUS
<1> QED
  BY <1>1 DEF MetBefore, WantedBefore, LevelsBefore

\* One node more.
LEMMA OneMore ==
  ASSUME NEW k \in Nat \ {0}
  PROVE  /\ 1..(k + 1) - 1 = (1..k-1) \union {k}
         /\ \A a : MetBefore(a, k + 1) = MetBefore(a, k) \union Algo!ConnectionsOn(a, k)
         /\ LevelsBefore(k + 1) = LevelsBefore(k) \union {input.level[k]}
         /\ \A v : ShuntsBefore(v, k + 1) =
               ShuntsBefore(v, k) \union (IF input.level[k] = v THEN input.shunts[k] ELSE {})
<1>1. 1..(k + 1) - 1 = (1..k-1) \union {k}
  OBVIOUS
<1> DEFINE m == k + 1
<1> HIDE DEF m
<1>2. 1..m-1 = (1..k-1) \union {k}
  BY <1>1 DEF m
<1>3. \A a : MetBefore(a, m) = MetBefore(a, k) \union Algo!ConnectionsOn(a, k)
  BY <1>2 DEF MetBefore
<1>4. LevelsBefore(m) = LevelsBefore(k) \union {input.level[k]}
  BY <1>2 DEF LevelsBefore
<1>5. \A v : ShuntsBefore(v, m) =
               ShuntsBefore(v, k) \union (IF input.level[k] = v THEN input.shunts[k] ELSE {})
  BY <1>2 DEF ShuntsBefore
<1> QED
  BY <1>1, <1>3, <1>4, <1>5 DEF m

\* A step that changes neither the models nor the positions.
LEMMA ModelsKept ==
  ASSUME ModelsInv, UNCHANGED <<input, content, wanted, models>>,
         Walked' = Walked, Filtered' = Filtered,
         pc \in {"filter", "done"} => pc' \in {"filter", "done"}
  PROVE  ModelsInv'
<1>1. /\ \A a, k : MetBefore(a, k)' = MetBefore(a, k)
      /\ Requested' = Requested
  BY ConnectionsKept
<1>2. /\ Automatons' = Automatons /\ \A a : Confused(a)' = Confused(a)
  BY DescriptionKept, AskedKept
<1>3. \A a : MetBefore(a, Walked)' = MetBefore(a, Walked)
  BY <1>1
<1>4. \A a : ModelInv(a)' <=> ModelInv(a)
  BY <1>3 DEF ModelInv
<1>5. \A i, c : Satisfied(i, c)' <=> Satisfied(i, c)
  BY <1>2 DEF Satisfied
<1>6. DOMAIN models' \subseteq {a \in Requested' : MetBefore(a, Walked)' # {}}
  BY <1>1, <1>3 DEF ModelsInv
<1>7. \A a \in DOMAIN models' : ModelInv(a)'
  BY <1>4 DEF ModelsInv
<1>8. ASSUME NEW a \in Requested',
             pc' \in {"filter", "done"} => ~Confused(a)'
      PROVE  a \in DOMAIN models' <=>
                  /\ MetBefore(a, Walked)' # {}
                  /\ \A i \in 1..Filtered'-1 : Automatons'[i].id = a =>
                        Satisfied(i, MetBefore(a, Walked))'
  <2>1. \A i : Satisfied(i, MetBefore(a, Walked))' <=> Satisfied(i, MetBefore(a, Walked))
    BY <1>2, <1>3 DEF Satisfied
  <2>2. a \in DOMAIN models <=>
                  /\ MetBefore(a, Walked) # {}
                  /\ \A i \in 1..Filtered-1 : Automatons[i].id = a =>
                        Satisfied(i, MetBefore(a, Walked))
    BY <1>1, <1>2, <1>8 DEF ModelsInv
  <2> QED
    BY <1>2, <1>3, <2>1, <2>2
<1> QED
  BY <1>6, <1>7, <1>8 DEF ModelsInv

\* The collectors, when no node is gone through.
LEMMA CollectKept ==
  ASSUME CollectInv, UNCHANGED <<input, collected>>, Walked' = Walked
  PROVE  CollectInv'
<1>1. \A k : LevelsBefore(k)' = LevelsBefore(k)
  BY DEF LevelsBefore
<1>2. \A v, k : ShuntsBefore(v, k)' = ShuntsBefore(v, k)
  BY DEF ShuntsBefore
<1> QED
  BY <1>1, <1>2 DEF CollectInv, collected

\* The end of a loop: the positions reached are the same.
LEMMA EndOfLoopInv ==
  ASSUME input \in Inputs, DocumentsInv, reading = "done", AlgoInv,
         UNCHANGED <<input, docVars, collected>>,
         \/ Algo!EndOfLoop("extract", Len(Automatons), "walk")
         \/ Algo!EndOfLoop("walk", N, "filter")
         \/ Algo!EndOfLoop("filter", Len(Automatons), "done")
  PROVE  AlgoInv'
<1>1. /\ UNCHANGED <<input, content, wanted, models, usedMacroConnections, collected>>
      /\ cursor' = 1
      /\ \/ pc = "extract" /\ cursor > Len(Automatons) /\ pc' = "walk"
         \/ pc = "walk" /\ cursor > N /\ pc' = "filter"
         \/ pc = "filter" /\ cursor > Len(Automatons) /\ pc' = "done"
  BY DEF Algo!EndOfLoop, docVars, readVars
<1>2. /\ LoopInv /\ WantedInv /\ ModelsInv /\ ConnectorsAreWritten /\ CollectInv
      /\ Len(Automatons) \in Nat /\ N \in Nat /\ Automatons' = Automatons
  BY <1>1, AutomatonsLength, NAssumption, DescriptionKept DEF AlgoInv
<1>3. /\ Extracted' = Extracted /\ Walked' = Walked /\ Filtered' = Filtered
      /\ pc \in {"filter", "done"} => pc' \in {"filter", "done"}
      /\ LoopInv'
  <2> DEFINE n == Len(Automatons)
  <2>1. n \in Nat /\ N \in Nat /\ n' = n
    BY <1>2
  <2>2. LoopInv
    BY <1>2
  <2>3. CASE pc = "extract" /\ pc' = "walk" /\ cursor > n
    <3>1. cursor = n + 1 /\ 1 \in 1..N + 1
      BY <2>1, <2>2, <2>3 DEF LoopInv
    <3> HIDE DEF n
    <3> QED
      BY <1>1, <2>1, <2>3, <3>1 DEF LoopInv, Extracted, Walked, Filtered, n
  <2>4. CASE pc = "walk" /\ pc' = "filter" /\ cursor > N
    <3>1. cursor = N + 1 /\ 1 \in 1..n + 1
      BY <2>1, <2>2, <2>4 DEF LoopInv
    <3> HIDE DEF n
    <3> QED
      BY <1>1, <2>1, <2>4, <3>1 DEF LoopInv, Extracted, Walked, Filtered, n
  <2>5. CASE pc = "filter" /\ pc' = "done" /\ cursor > n
    <3>1. cursor = n + 1
      BY <2>1, <2>2, <2>5 DEF LoopInv
    <3> HIDE DEF n
    <3> QED
      BY <1>1, <2>1, <2>5, <3>1 DEF LoopInv, Extracted, Walked, Filtered, n
  <2> QED
    BY <1>1, <2>3, <2>4, <2>5
<1>4. WantedInv'
  BY <1>1, <1>2, <1>3, DescriptionKept DEF WantedInv
<1>5. ModelsInv'
  BY <1>1, <1>2, <1>3, ModelsKept
<1>6. ConnectorsAreWritten'
  BY <1>1, <1>2 DEF ConnectorsAreWritten
<1>7. CollectInv'
  BY <1>1, <1>2, <1>3, CollectKept
<1> QED
  BY <1>3, <1>4, <1>5, <1>6, <1>7 DEF AlgoInv

\* One automaton is extracted.
LEMMA ExtractInv ==
  ASSUME input \in Inputs, DocumentsInv, reading = "done", AlgoInv,
         UNCHANGED <<input, docVars, collected>>, Algo!ExtractAutomaton
  PROVE  AlgoInv'
<1>1. /\ UNCHANGED <<input, content, models, usedMacroConnections, collected, pc>>
      /\ pc = "extract" /\ cursor <= Len(Automatons) /\ cursor' = cursor + 1
      /\ wanted' = IF Automatons[cursor].lib \in input.libraries
                   THEN wanted \union Algo!EntriesOf(Automatons[cursor]) ELSE wanted
  BY DEF Algo!ExtractAutomaton, Algo!Looping, docVars, readVars, Description
<1>2. /\ LoopInv /\ WantedInv /\ ModelsInv /\ ConnectorsAreWritten /\ CollectInv
      /\ Len(Automatons) \in Nat /\ N \in Nat /\ Automatons' = Automatons
      /\ \A k : WantedBefore(k)' = WantedBefore(k)
  BY <1>1, AutomatonsLength, NAssumption, DescriptionKept DEF AlgoInv
<1>3. cursor \in Nat \ {0} /\ cursor <= Len(Automatons)
  BY <1>1, <1>2 DEF LoopInv
<1>4. LoopInv'
  BY <1>1, <1>2, <1>3 DEF LoopInv
<1>5. /\ Extracted = cursor /\ Extracted' = cursor + 1
      /\ Walked = 1 /\ Walked' = 1 /\ Filtered = 1 /\ Filtered' = 1
  BY <1>1 DEF Extracted, Walked, Filtered
<1>6. WantedInv'
  <2>1. 1..(cursor + 1) - 1 = (1..cursor-1) \union {cursor}
    BY <1>3
  <2> DEFINE m == cursor + 1
             L == {j \in 1..cursor-1 : Automatons[j].lib \in input.libraries}
             M == {j \in 1..m-1 : Automatons[j].lib \in input.libraries}
  <2>2. M = IF Automatons[cursor].lib \in input.libraries THEN L \union {cursor} ELSE L
    BY <2>1
  <2>3. WantedBefore(cursor) = UNION {Algo!EntriesOf(Automatons[i]) : i \in L}
        /\ WantedBefore(m) = UNION {Algo!EntriesOf(Automatons[i]) : i \in M}
    BY DEF WantedBefore
  <2>4. wanted = WantedBefore(cursor)
    BY <1>2, <1>5 DEF WantedInv
  <2> HIDE DEF L, M, m
  <2>5. WantedBefore(m) = IF Automatons[cursor].lib \in input.libraries
                   THEN wanted \union Algo!EntriesOf(Automatons[cursor]) ELSE wanted
    BY <2>2, <2>3, <2>4
  <2>6. wanted' = WantedBefore(m)
    BY <1>1, <2>5
  <2> QED
    BY <1>2, <1>5, <2>6 DEF WantedInv, m
<1>7. ModelsInv'
  <2>1. DOMAIN models = {} /\ \A a : MetBefore(a, Walked) = {}
    BY <1>2, <1>5, NothingMet DEF ModelsInv
  <2>2. \A a : MetBefore(a, Walked)' = {}
    <3>1. Walked' = 1 /\ 1..1-1 = {}
      BY <1>5
    <3> QED
      BY <3>1 DEF MetBefore
  <2>3. DOMAIN models' = {}
    BY <1>1, <2>1
  <2> QED
    BY <2>2, <2>3 DEF ModelsInv
<1>8. ConnectorsAreWritten'
  BY <1>1, <1>2 DEF ConnectorsAreWritten
<1>9. CollectInv'
  BY <1>1, <1>2, <1>5, CollectKept
<1> QED
  BY <1>4, <1>6, <1>7, <1>8, <1>9 DEF AlgoInv

\* Insertion adds nothing else than the new connections.
LEMMA InsertedWithin ==
  ASSUME NEW old, NEW new
  PROVE  Algo!Inserted(old, new) \subseteq old \union new
  BY DEF Algo!Inserted

\* The shunts of the nodes are not those of others.
LEMMA ShuntsFacts ==
  ASSUME input \in Inputs, NEW v, NEW k \in Nat \ {0}, k <= N
  PROVE  /\ IsFiniteSet(ShuntsBefore(v, k)) /\ IsFiniteSet(input.shunts[k])
         /\ ShuntsBefore(v, k) \intersect input.shunts[k] = {}
         /\ v \notin LevelsBefore(k) => ShuntsBefore(v, k) = {}
<1>1. IsInput(input)
  BY InputsAssumption
<1>2. /\ IsFiniteSet(ElementNames(input))
      /\ \A m, n \in 1..N : m # n => input.shunts[m] \intersect input.shunts[n] = {}
  BY <1>1 DEF IsInput, Node
<1>3. \A n \in 1..N : input.shunts[n] \subseteq ElementNames(input)
  BY DEF ElementNames, Node
<1>4. N \in Nat /\ k \in 1..N /\ \A n \in 1..k-1 : n \in 1..N /\ n # k
  BY NAssumption
<1>5. ShuntsBefore(v, k) \subseteq ElementNames(input)
  BY <1>3, <1>4 DEF ShuntsBefore
<1>6. IsFiniteSet(ShuntsBefore(v, k)) /\ IsFiniteSet(input.shunts[k])
  BY <1>2, <1>3, <1>4, <1>5, FS_Subset
<1>7. ShuntsBefore(v, k) \intersect input.shunts[k] = {}
  BY <1>2, <1>4 DEF ShuntsBefore
<1>8. v \notin LevelsBefore(k) => ShuntsBefore(v, k) = {}
  BY DEF LevelsBefore, ShuntsBefore
<1> QED
  BY <1>6, <1>7, <1>8

\* The collectors count the shunts of one more node, and have its lines.
LEMMA CollectOnInv ==
  ASSUME input \in Inputs, input' = input, CollectInv, NEW k \in Nat \ {0}, k <= N,
         Walked = k, Walked' = k + 1, CollectOn(k)
  PROVE  CollectInv'
<1> DEFINE level == input.level[k]
           m == k + 1
<1>1. /\ nbShunts = [v \in LevelsBefore(k) |-> Cardinality(ShuntsBefore(v, k))]
      /\ linesById = UNION {input.lines[n] : n \in 1..k-1}
  BY DEF CollectInv
<1>2. /\ 1..m-1 = (1..k-1) \union {k}
      /\ LevelsBefore(m) = LevelsBefore(k) \union {level}
      /\ \A v : ShuntsBefore(v, m) =
               ShuntsBefore(v, k) \union (IF level = v THEN input.shunts[k] ELSE {})
  BY OneMore
<1>3. DOMAIN nbShunts = LevelsBefore(k)
  BY <1>1
<1>4. /\ nbShunts' = [v \in LevelsBefore(m) |->
                         IF v = level THEN Counted(k) ELSE nbShunts[v]]
      /\ linesById' = linesById \union input.lines[k]
  BY <1>2, <1>3 DEF CollectOn
<1>5. linesById' = UNION {input.lines[n] : n \in 1..m-1}
  BY <1>1, <1>2, <1>4
<1>6. ASSUME NEW v \in LevelsBefore(m), v # level
      PROVE  nbShunts[v] = Cardinality(ShuntsBefore(v, m))
  BY <1>1, <1>2, <1>6
<1>7. Counted(k) = Cardinality(ShuntsBefore(level, m))
  <2> DEFINE old == ShuntsBefore(level, k)
             new == input.shunts[k]
  <2>1. /\ IsFiniteSet(old) /\ IsFiniteSet(new) /\ old \intersect new = {}
        /\ level \notin LevelsBefore(k) => old = {}
    BY ShuntsFacts
  <2>2. ShuntsBefore(level, m) = old \union new
    BY <1>2
  <2>3. Counted(k) = Cardinality(new)
                     + (IF level \in LevelsBefore(k) THEN Cardinality(old) ELSE 0)
    BY <1>1, <1>3 DEF Counted
  <2> HIDE DEF old, new, level, m
  <2>4. /\ Cardinality(old \union new)
             = Cardinality(old) + Cardinality(new) - Cardinality(old \intersect new)
        /\ Cardinality(old) \in Nat /\ Cardinality(new) \in Nat
    BY <2>1, FS_Union, FS_CardinalityType
  <2>5. Cardinality({}) = 0
    BY FS_EmptySet
  <2>9. Cardinality(old \intersect new) = 0
    BY <2>1, <2>5
  <2>6. Cardinality(old \union new) = Cardinality(new) + Cardinality(old)
    BY <2>4, <2>9
  <2>7. level \notin LevelsBefore(k) => Cardinality(old) = 0
    BY <2>1, <2>5
  <2>8. Counted(k) = Cardinality(new) + Cardinality(old)
    BY <2>3, <2>4, <2>7
  <2> QED
    BY <2>2, <2>6, <2>8
<1>8. nbShunts' = [v \in LevelsBefore(m) |-> Cardinality(ShuntsBefore(v, m))]
  BY <1>4, <1>6, <1>7
<1>9. /\ \A j : LevelsBefore(j)' = LevelsBefore(j)
      /\ \A v, j : ShuntsBefore(v, j)' = ShuntsBefore(v, j)
  BY DEF LevelsBefore, ShuntsBefore
<1>10. Walked' = m
  OBVIOUS
<1> HIDE DEF m
<1> QED
  BY <1>5, <1>8, <1>9, <1>10 DEF CollectInv

\* One node is gone through.
LEMMA WalkInv ==
  ASSUME input \in Inputs, DocumentsInv, reading = "done", AlgoInv,
         UNCHANGED <<input, docVars>>, WalkNode
  PROVE  AlgoInv'
<1> DEFINE k == cursor
           m == k + 1
           On(a) == Algo!ConnectionsOn(a, k)
           Touched == Algo!Touched(k)
<1>1. /\ UNCHANGED <<input, content, wanted, pc>>
      /\ pc = "walk" /\ k <= N /\ cursor' = m
      /\ models' = [a \in DOMAIN models \union Touched |->
                     IF a \in Touched THEN Algo!Completed(a, On(a)) ELSE models[a]]
      /\ usedMacroConnections' = usedMacroConnections \union Algo!Marked(k)
      /\ CollectOn(k)
  BY DEF WalkNode, Algo!WalkNode, Algo!Looping, docVars, readVars
<1>2. /\ LoopInv /\ WantedInv /\ ModelsInv /\ ConnectorsAreWritten /\ CollectInv
      /\ Len(Automatons) \in Nat /\ N \in Nat /\ Automatons' = Automatons
      /\ \A j : WantedBefore(j)' = WantedBefore(j)
  BY <1>1, AutomatonsLength, NAssumption, DescriptionKept DEF AlgoInv
<1>3. k \in Nat \ {0} /\ k <= N /\ m \in 1..N + 1
  BY <1>1, <1>2 DEF LoopInv
<1>4. /\ LoopInv' /\ Extracted = Len(Automatons) + 1 /\ Extracted' = Extracted
      /\ Walked = k /\ Walked' = m /\ Filtered = 1 /\ Filtered' = 1
      /\ pc \notin {"filter", "done"} /\ pc' \notin {"filter", "done"}
  BY <1>1, <1>2, <1>3 DEF LoopInv, Extracted, Walked, Filtered
<1>5. WantedInv'
  BY <1>1, <1>2, <1>4 DEF WantedInv
<1>6. \A w \in wanted : w.target.type \in Algo!Type
  BY <1>2, <1>4, WantedFrom DEF WantedInv
<1>7. \A a : \A c \in On(a) : c.elementType \in Algo!Type /\ c.id \in Algo!Marked(k)
  <2> SUFFICES ASSUME NEW a, NEW c \in On(a)
               PROVE  c.elementType \in Algo!Type /\ c.id \in Algo!Marked(k)
    OBVIOUS
  <2>1. PICK w \in wanted : \E y \in Algo!Elements(w.target, k) :
               c = [id |-> w.connection, elementType |-> w.target.type, element |-> y]
    BY ConnectionIs
  <2>2. Algo!Matches(w.target, k)
    BY <2>1 DEF Algo!Elements
  <2>3. c.id = w.connection /\ c.elementType = w.target.type
    BY <2>1
  <2>4. w.connection \in Algo!Marked(k)
    BY <2>1, <2>2 DEF Algo!Marked
  <2> QED
    BY <1>6, <2>1, <2>3, <2>4
<1>8. \A a : MetBefore(a, Walked) = MetBefore(a, k)
             /\ MetBefore(a, Walked)' = MetBefore(a, k) \union On(a)
  BY <1>1, <1>3, <1>4, ConnectionsKept, OneMore
<1>9. Touched = {a \in Requested : On(a) # {}} /\ Requested' = Requested
  BY <1>1, ConnectionsKept DEF Algo!Touched, Requested
<1>10. \A a \in Requested : a \in DOMAIN models <=> MetBefore(a, k) # {}
  <2>1. 1..Filtered-1 = {}
    BY <1>4
  <2> QED
    BY <1>2, <1>4, <1>8, <2>1 DEF ModelsInv
<1>11. /\ DOMAIN models' = DOMAIN models \union Touched
       /\ \A a \in DOMAIN models' :
             models'[a] = IF a \in Touched THEN Algo!Completed(a, On(a)) ELSE models[a]
  BY <1>1
<1>12. DOMAIN models \subseteq Requested
  BY <1>2 DEF ModelsInv
<1> HIDE DEF On, Touched, k, m
<1>13. ASSUME NEW a \in DOMAIN models'
       PROVE  ModelInv(a)'
  <2> DEFINE M == MetBefore(a, k)
  <2>1. a \in DOMAIN models => models[a] \subseteq M /\ Covers(models[a], M)
    BY <1>2, <1>8 DEF ModelsInv, ModelInv
  <2>2. MetBefore(a, Walked)' = M \union On(a)
    BY <1>8
  <2>3. models'[a] \subseteq M \union On(a) /\ Covers(models'[a], M \union On(a))
    <3>1. CASE a \in Touched
      <4> DEFINE old == IF a \in DOMAIN models THEN models[a] ELSE {}
      <4>1. old \subseteq M /\ Covers(old, M)
        <5>1. CASE a \in DOMAIN models
          BY <2>1, <5>1
        <5>2. CASE a \notin DOMAIN models
          BY <1>9, <1>10, <3>1, <5>2 DEF Covers
        <5> QED
          BY <5>1, <5>2
      <4>2. models'[a] = Algo!Inserted(old, On(a))
        BY <1>11, <3>1 DEF Algo!Completed
      <4> HIDE DEF old, M
      <4> QED
        BY <1>7, <4>1, <4>2, InsertedCovers
    <3>2. CASE a \notin Touched
      <4>1. a \in DOMAIN models /\ models'[a] = models[a] /\ On(a) = {}
        BY <1>9, <1>11, <1>12, <3>2
      <4>2. M \union On(a) = M
        BY <4>1
      <4> QED
        BY <2>1, <4>1, <4>2
    <3> QED
      BY <3>1, <3>2
  <2> HIDE DEF M
  <2> QED
    BY <2>2, <2>3 DEF ModelInv, Covers
<1>14. \A a \in Requested : a \in DOMAIN models' <=> MetBefore(a, k) \union On(a) # {}
  BY <1>9, <1>10, <1>11
<1>15. ModelsInv'
  <2>1. \A a \in DOMAIN models' : a \in Requested /\ MetBefore(a, k) \union On(a) # {}
    BY <1>9, <1>11, <1>12, <1>14
  <2>2. DOMAIN models' \subseteq {a \in Requested' : MetBefore(a, Walked)' # {}}
    BY <1>8, <1>9, <2>1
  <2>3. \A i \in 1..Filtered'-1 : FALSE
    BY <1>4
  <2>4. \A a \in Requested' : a \in DOMAIN models' <=> MetBefore(a, Walked)' # {}
    BY <1>8, <1>9, <1>14
  <2> QED
    BY <1>13, <2>2, <2>3, <2>4 DEF ModelsInv
<1>16. ConnectorsAreWritten'
  <2> SUFFICES ASSUME NEW a \in DOMAIN models', NEW c \in models'[a]
               PROVE  c.id \in usedMacroConnections'
    BY DEF ConnectorsAreWritten
  <2>1. CASE a \in DOMAIN models /\ c \in models[a]
    BY <1>1, <1>2, <2>1 DEF ConnectorsAreWritten
  <2>2. CASE ~(a \in DOMAIN models /\ c \in models[a])
    <3>1. a \in Touched
      BY <1>11, <2>2
    <3>2. c \in On(a)
      BY <1>11, <2>2, <3>1, InsertedWithin DEF Algo!Completed
    <3> QED
      BY <1>1, <1>7, <3>2
  <2> QED
    BY <2>1, <2>2
<1>17. CollectInv'
  BY <1>1, <1>2, <1>3, <1>4, CollectOnInv DEF k, m
<1> QED
  BY <1>4, <1>5, <1>15, <1>16, <1>17 DEF AlgoInv

\* All nodes met, a model whose connections differ has all those asked for.
LEMMA ModelIsAsked ==
  ASSUME input \in Inputs, DocumentsInv, reading = "done", AlgoInv,
         pc \in {"filter", "done"}
  PROVE  /\ \A a : MetBefore(a, Walked) = Asked(a)
         /\ \A a \in DOMAIN models :
               /\ models[a] \subseteq Asked(a) /\ Covers(models[a], Asked(a))
               /\ ~Confused(a) => models[a] = Asked(a)
<1>1. Walked = N + 1 /\ wanted = WantedBefore(Len(Automatons) + 1)
  BY DEF AlgoInv, WantedInv, Walked, Extracted
<1>2. \A a : MetBefore(a, Walked) = Asked(a)
  BY <1>1, MetIsAsked
<1>3. ASSUME NEW a \in DOMAIN models
      PROVE  models[a] \subseteq Asked(a) /\ Covers(models[a], Asked(a))
  BY <1>2, <1>3 DEF AlgoInv, ModelsInv, ModelInv
<1>4. ASSUME NEW a \in DOMAIN models, ~Confused(a)
      PROVE  models[a] = Asked(a)
  <2>1. ASSUME NEW c \in Asked(a)
        PROVE  c \in models[a]
    <3>1. PICK d \in models[a] : Algo!Concatenation(d) = Algo!Concatenation(c)
      BY <1>3 DEF Covers
    <3> QED
      BY <1>3, <1>4, <3>1 DEF Confused
  <2> QED
    BY <1>3, <2>1
<1> QED
  BY <1>2, <1>3, <1>4

\* One automaton is filtered.
LEMMA FilterInv ==
  ASSUME input \in Inputs, DocumentsInv, reading = "done", AlgoInv,
         UNCHANGED <<input, docVars, collected>>, Algo!FilterAutomaton
  PROVE  AlgoInv'
<1> DEFINE k == cursor
           m == k + 1
           x == Automatons[k]
           removed == x.id \in DOMAIN models /\ ~Algo!HasEvery(x)
<1>1. /\ UNCHANGED <<input, content, wanted, pc, usedMacroConnections, collected>>
      /\ pc = "filter" /\ k <= Len(Automatons) /\ cursor' = m
      /\ models' = IF removed THEN [b \in DOMAIN models \ {x.id} |-> models[b]] ELSE models
  BY DEF Algo!FilterAutomaton, Algo!Looping, docVars, readVars, Description
<1>2. /\ LoopInv /\ WantedInv /\ ModelsInv /\ ConnectorsAreWritten /\ CollectInv
      /\ Len(Automatons) \in Nat /\ N \in Nat /\ Automatons' = Automatons
      /\ \A j : WantedBefore(j)' = WantedBefore(j)
  BY <1>1, AutomatonsLength, NAssumption, DescriptionKept DEF AlgoInv
<1>3. k \in Nat \ {0} /\ k <= Len(Automatons) /\ m \in 1..Len(Automatons) + 1
  BY <1>1, <1>2 DEF LoopInv
<1>4. /\ LoopInv' /\ Extracted = Len(Automatons) + 1 /\ Extracted' = Extracted
      /\ Walked = N + 1 /\ Walked' = Walked /\ Filtered = k /\ Filtered' = m
      /\ pc \in {"filter", "done"} /\ pc' \in {"filter", "done"}
  BY <1>1, <1>2, <1>3 DEF LoopInv, Extracted, Walked, Filtered
<1>5. WantedInv'
  BY <1>1, <1>2, <1>4 DEF WantedInv
<1>6. CollectInv'
  BY <1>1, <1>2, <1>4, CollectKept
<1>7. /\ DOMAIN models' = IF removed THEN DOMAIN models \ {x.id} ELSE DOMAIN models
      /\ \A a \in DOMAIN models' : a \in DOMAIN models /\ models'[a] = models[a]
  BY <1>1
<1>8. ConnectorsAreWritten'
  BY <1>1, <1>2, <1>7 DEF ConnectorsAreWritten
<1>9. /\ \A a : MetBefore(a, Walked)' = MetBefore(a, Walked)
      /\ Requested' = Requested
      /\ \A a : Confused(a)' = Confused(a)
  BY <1>1, <1>4, ConnectionsKept, AskedKept
<1>10. \A a : MetBefore(a, Walked) = Asked(a)
  BY <1>4, ModelIsAsked
<1>11. ASSUME x.id \in DOMAIN models, ~Confused(x.id)
       PROVE  Algo!HasEvery(x) <=> Satisfied(k, Asked(x.id))
  <2>1. models[x.id] = Asked(x.id)
    BY <1>4, <1>11, ModelIsAsked
  <2> QED
    BY <2>1, AlgoToSet DEF Algo!HasEvery, Algo!HasMacro, Satisfied
<1>12. 1..m-1 = (1..k-1) \union {k}
  BY <1>3, OneMore
<1>13. \A i, c : Satisfied(i, c)' <=> Satisfied(i, c)
  BY <1>2 DEF Satisfied
<1> HIDE DEF removed, m, k
<1>14. ModelsInv'
  <2>1. DOMAIN models' \subseteq {a \in Requested' : MetBefore(a, Walked)' # {}}
    BY <1>2, <1>7, <1>9 DEF ModelsInv
  <2>2. ASSUME NEW a \in DOMAIN models'
        PROVE  ModelInv(a)'
    <3>1. ModelInv(a)
      BY <1>2, <1>7 DEF ModelsInv
    <3> QED
      BY <1>7, <1>9, <3>1 DEF ModelInv, Covers
  <2>3. ASSUME NEW a \in Requested, ~Confused(a)
        PROVE  a \in DOMAIN models' <=>
                  /\ Asked(a) # {}
                  /\ \A i \in 1..m-1 : Automatons[i].id = a => Satisfied(i, Asked(a))
    <3>1. a \in DOMAIN models <=>
                  /\ Asked(a) # {}
                  /\ \A i \in 1..k-1 : Automatons[i].id = a => Satisfied(i, Asked(a))
      BY <1>2, <1>4, <1>10, <2>3 DEF ModelsInv
    <3>2. a \in DOMAIN models' <=>
             a \in DOMAIN models /\ (x.id = a => Algo!HasEvery(x))
      BY <1>7 DEF removed
    <3>3. a \in DOMAIN models => ((x.id = a => Algo!HasEvery(x))
                                  <=> (Automatons[k].id = a => Satisfied(k, Asked(a))))
      BY <1>11, <2>3
    <3> QED
      BY <1>12, <3>1, <3>2, <3>3
  <2>4. ASSUME NEW a \in Requested', ~Confused(a)'
        PROVE  a \in DOMAIN models' <=>
                  /\ MetBefore(a, Walked)' # {}
                  /\ \A i \in 1..Filtered'-1 : Automatons'[i].id = a =>
                        Satisfied(i, MetBefore(a, Walked))'
    <3>1. MetBefore(a, Walked)' = Asked(a)
      BY <1>9, <1>10
    <3>2. \A i : Satisfied(i, MetBefore(a, Walked))' <=> Satisfied(i, Asked(a))
      BY <1>2, <3>1 DEF Satisfied
    <3> QED
      BY <1>2, <1>4, <1>9, <2>3, <2>4, <3>1, <3>2
  <2> QED
    BY <1>4, <2>1, <2>2, <2>4 DEF ModelsInv
<1> QED
  BY <1>4, <1>5, <1>6, <1>8, <1>14 DEF AlgoInv

\* Any step of the algorithm.
LEMMA ProcessKeeps ==
  ASSUME input \in Inputs, DocumentsInv, AlgoInv, Process
  PROVE  AlgoInv'
<1>1. reading = "done" /\ UNCHANGED <<input, docVars>>
  BY DEF Process
<1> QED
  BY <1>1, WalkInv, ExtractInv, FilterInv, EndOfLoopInv DEF Process

\* What is asked for is made of the names of the files and of the network.
LEMMA AskedType ==
  ASSUME input \in Inputs, DocumentsInv, reading = "done", NEW a, NEW c \in Asked(a)
  PROVE  /\ c.id \in MacroNames(input) /\ c.elementType \in Algo!Type
         /\ c.element \in ElementNames(input)
         /\ c = [id |-> c.id, elementType |-> c.elementType, element |-> c.element]
<1>1. PICK x \in Loadable(a) : \E m \in ToSet(x.children) :
            \E e \in Resolved(m.id) : \E d \in Preferred(e) :
            \E y \in Of(d.tag, d.name) :
               c = [id |-> m.name, elementType |-> TypeOf[d.tag], element |-> y]
  BY AskedIs
<1>2. PICK m \in ToSet(x.children) :
            \E e \in Resolved(m.id) : \E d \in Preferred(e) :
            \E y \in Of(d.tag, d.name) :
               c = [id |-> m.name, elementType |-> TypeOf[d.tag], element |-> y]
  BY <1>1
<1>3. PICK e \in Resolved(m.id) : \E d \in Preferred(e) :
            \E y \in Of(d.tag, d.name) :
               c = [id |-> m.name, elementType |-> TypeOf[d.tag], element |-> y]
  BY <1>2
<1>4. PICK d \in Preferred(e) : \E y \in Of(d.tag, d.name) :
               c = [id |-> m.name, elementType |-> TypeOf[d.tag], element |-> y]
  BY <1>3
<1>5. PICK y \in Of(d.tag, d.name) :
               c = [id |-> m.name, elementType |-> TypeOf[d.tag], element |-> y]
  BY <1>4
<1>6. d.tag \in {"bus", "line", "tfo", "shunt"}
  BY TargetsAre
<1>7. TypeOf[d.tag] \in Algo!Type
  BY <1>6, DesignationSlots DEF Algo!Type
<1>8. y \in ElementNames(input)
  BY <1>6 DEF Of, ElementNames
<1>9. x \in ToSet(ElementsOf("dynamicAutomaton"))
  BY DEF Loadable, AutomatonsOf
<1>10. x \in ToSet(input.assembling.elements)
  <2>1. "dynamicAutomaton" \in RootTag /\ DocumentOf("dynamicAutomaton") = "assembling"
    BY DEF RootTag, AssemblingTag, DocumentOf
  <2>2. x \in ToSet(Listed("assembling"))
    BY <1>9, <2>1, ElementsOfFile
  <2>3. Listed("assembling") = input.assembling.elements \/ Listed("assembling") = <<>>
    BY DEF Listed, Contents
  <2> QED
    BY <2>2, <2>3, ToSetEmpty
<1>11. m.name \in MacroNames(input)
  BY <1>10 DEF MacroNames
<1> QED
  BY <1>5, <1>7, <1>8, <1>11

-----------------------------------------------------------------------------
(***************************************************************************)
(* The models exported.                                                    *)
(***************************************************************************)

\* When a macro connection stands for one association, a connection made with it
\* is one its macro connects ask for.
LEMMA DistinctMacroIsAsked ==
  ASSUME NEW a, DistinctMacros(a), NEW m \in AskedBy(AutomatonsOf(a))
  PROVE  (\E c \in Asked(a) : c.id = m.name) <=> AskedConnections(m) \intersect Asked(a) # {}
<1>1. \A k : \A c \in AskedConnections(k) : c.id = k.name
  BY DEF AskedConnections
<1>2. AskedBy(Loadable(a)) \subseteq AskedBy(AutomatonsOf(a))
  BY DEF AskedBy, Loadable
<1>3. ASSUME NEW c \in Asked(a), c.id = m.name
      PROVE  c \in AskedConnections(m)
  <2>1. PICK k \in AskedBy(Loadable(a)) : c \in AskedConnections(k)
    BY DEF Asked
  <2>2. k.name = m.name
    BY <1>1, <1>3, <2>1
  <2>3. k.id = m.id
    BY <1>2, <2>1, <2>2 DEF DistinctMacros
  <2>4. AskedConnections(k) = AskedConnections(m)
    BY <2>2, <2>3 DEF AskedConnections
  <2> QED
    BY <2>1, <2>4
<1> QED
  BY <1>1, <1>3

\* Once filtered, the models are those whose macro connects all have an element
\* of the network: the automatons that have no library are counted by the
\* filter only.
LEMMA ModelsAreComplete ==
  ASSUME input \in Inputs, DocumentsInv, reading = "done", AlgoInv
  PROVE  CompleteModelsExported
<1> SUFFICES ASSUME pc = "done", NEW e \in ToSet(ElementsOf("dynamicAutomaton")),
                    ~Confused(e.id), DistinctMacros(e.id)
             PROVE  e.id \in DOMAIN models <=>
                       /\ Asked(e.id) # {}
                       /\ \A m \in AskedBy(AutomatonsOf(e.id)) :
                             AskedConnections(m) \intersect Asked(e.id) # {}
  BY DEF CompleteModelsExported
<1> DEFINE s == ElementsOf("dynamicAutomaton")
           a == e.id
<1>1. /\ Filtered = Len(Automatons) + 1 /\ Len(Automatons) = Len(s) /\ Len(s) \in Nat
      /\ \A i \in 1..Len(s) : Automatons[i].id = s[i].id
  BY AutomatonIs DEF Filtered
<1>2. 1..Filtered-1 = 1..Len(s)
  BY <1>1
<1>3. \A b : MetBefore(b, Walked) = Asked(b)
  BY ModelIsAsked
<1>4. a \in Requested <=> \E w \in wanted : w.model = a
  BY DEF Requested
<1>5. Asked(a) # {} => a \in Requested
  <2>1. Asked(a) # {} => \E n, c : c \in Algo!ConnectionsOn(a, n)
    BY <1>3 DEF MetBefore
  <2> QED
    BY <1>4, <2>1, ConnectionIs
<1>6. a \notin Requested => a \notin DOMAIN models
  BY DEF AlgoInv, ModelsInv
<1>7. a \in Requested =>
         (a \in DOMAIN models <=>
             /\ Asked(a) # {}
             /\ \A i \in 1..Len(s) : s[i].id = a => Satisfied(i, Asked(a)))
  BY <1>1, <1>2, <1>3 DEF AlgoInv, ModelsInv
<1>8. (\A i \in 1..Len(s) : s[i].id = a => Satisfied(i, Asked(a)))
         <=> \A m \in AskedBy(AutomatonsOf(a)) : \E c \in Asked(a) : c.id = m.name
  <2>1. ToSet(s) = {s[i] : i \in 1..Len(s)}
    BY AutomatonIs DEF ToSet
  <2>2. \A i \in 1..Len(s) : Satisfied(i, Asked(a)) <=>
           \A m \in ToSet(s[i].children) : \E c \in Asked(a) : c.id = m.name
    <3> SUFFICES ASSUME NEW i \in 1..Len(s)
                 PROVE  Satisfied(i, Asked(a)) <=>
                    \A m \in ToSet(s[i].children) : \E c \in Asked(a) : c.id = m.name
      OBVIOUS
    <3>1. ToSet(Automatons[i].connects) =
             {[association |-> c.id, connection |-> c.name] : c \in ToSet(s[i].children)}
      BY AutomatonIs
    <3> DEFINE Has(name) == \E c \in Asked(a) : c.id = name
               Entry(c) == [association |-> c.id, connection |-> c.name]
    <3>2. \A c : Entry(c).connection = c.name
      OBVIOUS
    <3>3. ToSet(Automatons[i].connects) = {Entry(c) : c \in ToSet(s[i].children)}
      BY <3>1
    <3>4. Satisfied(i, Asked(a)) <=>
             \A m \in ToSet(Automatons[i].connects) : Has(m.connection)
      BY DEF Satisfied
    <3> HIDE DEF Has, Entry
    <3>5. Satisfied(i, Asked(a)) <=>
             \A c \in ToSet(s[i].children) : Has(Entry(c).connection)
      BY <3>3, <3>4
    <3> QED
      BY <3>2, <3>5 DEF Has
  <2>3. AskedBy(AutomatonsOf(a)) = UNION {ToSet(y.children) : y \in {z \in ToSet(s) : z.id = a}}
    BY DEF AskedBy, AutomatonsOf
  <2> QED
    BY <2>1, <2>2, <2>3
<1>9. \A m \in AskedBy(AutomatonsOf(a)) :
         (\E c \in Asked(a) : c.id = m.name) <=> AskedConnections(m) \intersect Asked(a) # {}
  BY DistinctMacroIsAsked
<1> QED
  BY <1>5, <1>6, <1>7, <1>8, <1>9

\* An exported model has the connections asked for, and two that have the same
\* concatenation differ by their macro connection or their type.
LEMMA ModelsAreExact ==
  ASSUME input \in Inputs, DocumentsInv, reading = "done", AlgoInv
  PROVE  ConnectionsAreExact
<1> SUFFICES ASSUME pc = "done", NEW a \in DOMAIN models
             PROVE  /\ models[a] \subseteq Asked(a)
                    /\ \A c \in Asked(a) \ models[a] : \E d \in models[a] :
                          <<c.id, c.elementType>> # <<d.id, d.elementType>>
                          /\ Algo!Concatenation(c) = Algo!Concatenation(d)
  BY DEF ConnectionsAreExact
<1>1. models[a] \subseteq Asked(a) /\ Covers(models[a], Asked(a))
  BY ModelIsAsked
<1>2. ASSUME NEW c \in Asked(a), c \notin models[a]
      PROVE  \E d \in models[a] : <<c.id, c.elementType>> # <<d.id, d.elementType>>
                          /\ Algo!Concatenation(c) = Algo!Concatenation(d)
  <2>1. PICK d \in models[a] : Algo!Concatenation(d) = Algo!Concatenation(c)
    BY <1>1 DEF Covers
  <2>2. c # d /\ d \in Asked(a)
    BY <1>1, <1>2
  <2>3. ASSUME c.id = d.id, c.elementType = d.elementType
        PROVE  FALSE
    <3> DEFINE Connection(z) == [id |-> c.id, elementType |-> c.elementType, element |-> z]
    <3>1. c = Connection(c.element) /\ d = Connection(d.element)
      BY <2>2, <2>3, AskedType
    <3>2. c.id \in MacroNames(input) /\ c.elementType \in Algo!Type
          /\ c.element \in ElementNames(input) /\ d.element \in ElementNames(input)
      BY <2>2, AskedType
    <3>3. Algo!Concatenation(Connection(c.element)) = Algo!Concatenation(Connection(d.element))
      BY <2>1, <3>1
    <3>4. IsInput(input)
      BY InputsAssumption
    <3>5. c.element = d.element
      BY <3>2, <3>3, <3>4 DEF IsInput
    <3> QED
      BY <2>2, <3>1, <3>5
  <2> QED
    BY <2>1, <2>3
<1> QED
  BY <1>1, <1>2

-----------------------------------------------------------------------------
(***************************************************************************)
(* The sets of connections are finite.                                     *)
(***************************************************************************)

\* A family of finite sets over a finite set: the least counterexample would
\* have an element to take away.
LEMMA FiniteUnion ==
  ASSUME NEW I, IsFiniteSet(I), NEW F, \A i \in I : IsFiniteSet(F[i])
  PROVE  IsFiniteSet(UNION {F[i] : i \in I})
<1> DEFINE Bad(J) == J \in SUBSET I /\ IsFiniteSet(J) /\ ~IsFiniteSet(UNION {F[i] : i \in J})
           T == {n \in Nat : \E J \in SUBSET I : Bad(J) /\ Cardinality(J) = n}
<1>1. ASSUME NEW n \in T, \A k \in T : n <= k
      PROVE  FALSE
  <2>1. PICK J \in SUBSET I : Bad(J) /\ Cardinality(J) = n
    OBVIOUS
  <2>2. /\ IsFiniteSet(J) /\ ~IsFiniteSet(UNION {F[i] : i \in J})
        /\ Cardinality(J) = n /\ n \in Nat
    BY <2>1
  <2>3. J # {}
    <3>1. ASSUME J = {}
          PROVE  UNION {F[i] : i \in J} = {}
      BY <3>1
    <3> QED
      BY <2>2, <3>1, FS_EmptySet
  <2>4. PICK x \in J : TRUE
    BY <2>3
  <2> DEFINE K == J \ {x}
  <2>5. IsFiniteSet(K) /\ Cardinality(K) = n - 1 /\ K \in SUBSET I
    BY <2>2, <2>4, FS_RemoveElement
  <2>6. n # 0
    BY <2>2, <2>3, FS_EmptySet
  <2>7. n - 1 \in Nat /\ n - 1 < n
    BY <2>2, <2>6
  <2>8. n - 1 \notin T
    <3> HIDE DEF T
    <3> QED
      BY <1>1, <2>2, <2>7
  <2>9. IsFiniteSet(UNION {F[i] : i \in K})
    BY <2>5, <2>7, <2>8
  <2>10. UNION {F[i] : i \in J} = (UNION {F[i] : i \in K}) \union F[x]
    BY <2>4
  <2>11. IsFiniteSet(F[x])
    BY <2>4
  <2> HIDE DEF K
  <2>12. IsFiniteSet((UNION {F[i] : i \in K}) \union F[x])
    BY <2>9, <2>11, FS_Union
  <2> QED
    BY <2>2, <2>10, <2>12
<1>2. T \in SUBSET Nat
  OBVIOUS
<1>3. T = {}
  <2>1. ASSUME T # {} PROVE FALSE
    <3> HIDE DEF T
    <3>1. PICK n \in T : \A k \in T : n <= k
      BY <1>2, <2>1, LeastNatural
    <3> QED
      BY <1>1, <3>1
  <2> QED
    BY <2>1
<1>4. Cardinality(I) \in Nat
  BY FS_CardinalityType
<1>5. ~Bad(I)
  BY <1>3, <1>4
<1> QED
  BY <1>5

\* The image of a finite set.
LEMMA FiniteImage ==
  ASSUME NEW S, IsFiniteSet(S), NEW f
  PROVE  IsFiniteSet({f[x] : x \in S})
<1> DEFINE T == {f[x] : x \in S}
           g == [x \in S |-> f[x]]
<1>1. g \in Surjection(S, T)
  BY DEF Surjection
<1> HIDE DEF g, T
<1>2. IsFiniteSet(T)
  BY <1>1, FS_Surjection
<1> QED
  BY <1>2 DEF T

\* Two sets in one to one correspondence.
LEMMA OneToOne ==
  ASSUME NEW S, IsFiniteSet(S), NEW T, NEW f \in [S -> T],
         \A x \in T : \E i \in S : f[i] = x,
         \A i, j \in S : f[i] = f[j] => i = j
  PROVE  Cardinality(T) = Cardinality(S)
<1>1. f \in Bijection(S, T)
  BY DEF Bijection, Injection, Surjection, IsInjective
<1>2. ExistsBijection(S, T)
  BY <1>1 DEF ExistsBijection
<1> QED
  BY <1>2, FS_Bijection

\* The elements of a sequence are finitely many.
LEMMA FiniteElements ==
  ASSUME NEW S, NEW s \in Seq(S)
  PROVE  IsFiniteSet(ToSet(s))
<1>1. Len(s) \in Nat /\ ToSet(s) = {s[i] : i \in 1..Len(s)}
  BY DEF ToSet
<1>2. IsFiniteSet(1..Len(s))
  BY <1>1, FS_Interval
<1> QED
  BY <1>1, <1>2, FiniteImage

\* The macro connections and the elements that have a name are finite.
LEMMA MacroNamesFinite ==
  ASSUME input \in Inputs
  PROVE  IsFiniteSet(MacroNames(input)) /\ IsFiniteSet(ElementNames(input))
<1> DEFINE E == ToSet(input.assembling.elements)
           F == [e \in E |-> ToSet(e.children)]
           C == UNION {F[e] : e \in E}
           name == [c \in C |-> c.name]
<1>1. IsInput(input)
  BY InputsAssumption
<1>2. input.assembling.elements \in Seq(Element) /\ IsFiniteSet(ElementNames(input))
  BY <1>1 DEF IsInput, IsFile
<1>3. IsFiniteSet(E)
  BY <1>2, FiniteElements
<1>4. \A e \in E : e \in Element
  BY <1>2, ToSetType
<1>5. \A e \in E : IsFiniteSet(F[e])
  BY <1>4, ChildType, FiniteElements
<1>6. MacroNames(input) = {name[c] : c \in C}
  BY DEF MacroNames
<1> HIDE DEF E, F
<1>7. IsFiniteSet(C)
  BY <1>3, <1>5, FiniteUnion
<1> HIDE DEF C, name
<1>8. IsFiniteSet({name[c] : c \in C})
  BY <1>7, FiniteImage
<1> QED
  BY <1>2, <1>6, <1>8

\* A model is asked finitely many connections, each made of such names.
LEMMA AskedFinite ==
  ASSUME input \in Inputs, DocumentsInv, reading = "done", NEW a
  PROVE  IsFiniteSet(Asked(a))
<1> DEFINE M == MacroNames(input)
           E == ElementNames(input)
           T == Algo!Type
           One(m, t) == [e \in E |-> [id |-> m, elementType |-> t, element |-> e]]
           Ends(m, t) == {One(m, t)[e] : e \in E}
           OfMacro(m) == [t \in T |-> Ends(m, t)]
           All == [m \in M |-> UNION {OfMacro(m)[t] : t \in T}]
           R == UNION {All[m] : m \in M}
<1>1. IsFiniteSet(M) /\ IsFiniteSet(E)
  BY MacroNamesFinite
<1>2. IsFiniteSet(T)
  <2>1. T = {"NODE"} \union {"LINE"} \union {"TFO"} \union {"SHUNT"}
    BY DEF Algo!Type
  <2>2. IsFiniteSet({"NODE"}) /\ IsFiniteSet({"LINE"})
        /\ IsFiniteSet({"TFO"}) /\ IsFiniteSet({"SHUNT"})
    BY FS_Singleton
  <2>3. IsFiniteSet({"NODE"} \union {"LINE"})
    BY <2>2, FS_Union
  <2>4. IsFiniteSet({"NODE"} \union {"LINE"} \union {"TFO"})
    BY <2>2, <2>3, FS_Union
  <2>5. IsFiniteSet({"NODE"} \union {"LINE"} \union {"TFO"} \union {"SHUNT"})
    BY <2>2, <2>4, FS_Union
  <2> QED
    BY <2>1, <2>5
<1>3. Asked(a) \subseteq R
  <2> SUFFICES ASSUME NEW c \in Asked(a) PROVE c \in R
    OBVIOUS
  <2> DEFINE m == c.id
             t == c.elementType
             e == c.element
  <2>1. m \in M /\ t \in T /\ e \in E
        /\ c = [id |-> m, elementType |-> t, element |-> e]
    BY AskedType
  <2> HIDE DEF M, T, E, m, t, e
  <2>2. c \in Ends(m, t)
    BY <2>1
  <2>3. c \in OfMacro(m)[t]
    BY <2>1, <2>2
  <2> HIDE DEF OfMacro
  <2>4. c \in All[m]
    BY <2>1, <2>3
  <2> HIDE DEF All
  <2> QED
    BY <2>1, <2>4
<1> HIDE DEF M, E, T
<1>4. \A m, t : IsFiniteSet(Ends(m, t))
  <2> SUFFICES ASSUME NEW m, NEW t PROVE IsFiniteSet(Ends(m, t))
    OBVIOUS
  <2> DEFINE f == One(m, t)
  <2> HIDE DEF f
  <2>1. IsFiniteSet({f[e] : e \in E})
    BY <1>1, FiniteImage
  <2> QED
    BY <2>1 DEF f
<1> HIDE DEF Ends
<1>5. \A m : IsFiniteSet(UNION {OfMacro(m)[t] : t \in T})
  <2> SUFFICES ASSUME NEW m PROVE IsFiniteSet(UNION {OfMacro(m)[t] : t \in T})
    OBVIOUS
  <2> DEFINE f == OfMacro(m)
  <2>1. \A t \in T : IsFiniteSet(f[t])
    BY <1>4
  <2> HIDE DEF f
  <2>2. IsFiniteSet(UNION {f[t] : t \in T})
    BY <1>2, <2>1, FiniteUnion
  <2> QED
    BY <2>2 DEF f
<1>6. \A m \in M : IsFiniteSet(All[m])
  <2> HIDE DEF OfMacro
  <2> QED
    BY <1>5
<1> HIDE DEF All
<1>7. IsFiniteSet(R)
  BY <1>1, <1>6, FiniteUnion
<1> QED
  BY <1>3, <1>7, FS_Subset

-----------------------------------------------------------------------------
(***************************************************************************)
(* The writers.                                                            *)
(***************************************************************************)

\* The connections of a model in order, each once.
LEMMA OrderIs ==
  ASSUME NEW a, IsFiniteSet(models[a])
  PROVE  LET n == Cardinality(models[a])
             order == InOrder(a)
         IN  /\ n \in Nat /\ DOMAIN order = 1..n
             /\ \A i \in 1..n : order[i] \in models[a]
             /\ \A c \in models[a] : \E i \in 1..n : order[i] = c
             /\ \A i, j \in 1..n : order[i] = order[j] => i = j
<1> DEFINE S == models[a]
           n == Cardinality(S)
           order == InOrder(a)
<1>1. n \in Nat
  BY FS_CardinalityType
<1>2. order = SetToSeq(S)
  BY DEF InOrder
<1> HIDE DEF S, n, order
<1>3. order \in SetToSeqs(S)
  BY <1>2, ListingExists DEF S
<1>4. order \in Seq(S) /\ ToSet(order) = S /\ Len(order) = n /\ IsInjective(order)
  BY <1>3, ListingCovers DEF S, n
<1>5. DOMAIN order = 1..n /\ \A i \in 1..n : order[i] \in S
  BY <1>4
<1>6. \A c \in S : \E i \in 1..n : order[i] = c
  BY <1>4, <1>5 DEF ToSet
<1>7. \A i, j \in 1..n : order[i] = order[j] => i = j
  BY <1>4, <1>5 DEF IsInjective
<1> QED
  BY <1>1, <1>5, <1>6, <1>7 DEF S, n, order

\* The connectors of a model are those of its connections.
LEMMA WrittenElements ==
  ASSUME NEW a, IsFiniteSet(models[a])
  PROVE  {x.element : x \in writeDynamicModelMacroConnect(a)}
            = {c.element : c \in models[a]}
<1> DEFINE order == InOrder(a)
           n == Cardinality(models[a])
           W == writeDynamicModelMacroConnect(a)
           R(i) == [id |-> order[i].id, element |-> order[i].element,
                    index |-> IndexOf(order, i)]
<1>1. /\ DOMAIN order = 1..n
      /\ \A i \in 1..n : order[i] \in models[a]
      /\ \A c \in models[a] : \E i \in 1..n : order[i] = c
  BY OrderIs
<1>2. W = {R(i) : i \in DOMAIN order}
  BY DEF writeDynamicModelMacroConnect
<1>3. \A i : R(i).element = order[i].element
  OBVIOUS
<1> HIDE DEF order, n, R, W
<1>4. {x.element : x \in W} = {order[i].element : i \in 1..n}
  BY <1>1, <1>2, <1>3
<1>5. {order[i].element : i \in 1..n} = {c.element : c \in models[a]}
  BY <1>1
<1> QED
  BY <1>4, <1>5 DEF W

\* Those of a macro connection are as many, and have the first indexes.
OfMacroIn(connections, name) == {c \in connections : c.id = name}

\* The macro connects written for one macro connection have the indexes below
\* their number.
LEMMA WrittenIndexes ==
  ASSUME NEW a, IsFiniteSet(models[a]), NEW name
  PROVE  LET k == Cardinality(OfMacroIn(models[a], name))
             connectors == OfMacroIn(writeDynamicModelMacroConnect(a), name)
         IN  /\ Cardinality(connectors) = k /\ k \in Nat
             /\ {x.index : x \in connectors} = 0..(k - 1)
<1> DEFINE order == InOrder(a)
           n == Cardinality(models[a])
           W == writeDynamicModelMacroConnect(a)
           shunts == {x \in W : x.id = name}
           same == {c \in models[a] : c.id = name}
           P == {i \in 1..n : order[i].id = name}
           R(i) == [id |-> order[i].id, element |-> order[i].element,
                    index |-> IndexOf(order, i)]
           k == Cardinality(P)
<1>1. /\ n \in Nat /\ DOMAIN order = 1..n
      /\ \A i \in 1..n : order[i] \in models[a]
      /\ \A c \in models[a] : \E i \in 1..n : order[i] = c
      /\ \A i, j \in 1..n : order[i] = order[j] => i = j
  BY OrderIs
<1>2. P \in SUBSET Nat /\ IsFiniteSet(P)
  BY <1>1, PositionsBefore
<1>3. W = {R(i) : i \in 1..n}
  BY <1>1 DEF writeDynamicModelMacroConnect
<1>4. \A i : R(i).id = order[i].id /\ R(i).index = IndexOf(order, i)
  OBVIOUS
<1>5. k \in Nat /\ Cardinality(same) = k
  <2> DEFINE f == [i \in P |-> order[i]]
  <2>1. \A i \in P : f[i] = order[i] /\ f[i] \in same
    BY <1>1
  <2>2. \A c \in same : \E i \in P : f[i] = c
    BY <1>1
  <2>3. \A i, j \in P : f[i] = f[j] => i = j
    BY <1>1
  <2>4. f \in [P -> same]
    BY <2>1
  <2> HIDE DEF f, P, same
  <2>5. Cardinality(same) = Cardinality(P)
    BY <1>2, <2>2, <2>3, <2>4, OneToOne
  <2> QED
    BY <1>2, <2>5, FS_CardinalityType
<1>6. \A i \in P : IndexOf(order, i) = Cardinality(UpTo(P, i)) - 1
  <2> SUFFICES ASSUME NEW i \in P PROVE IndexOf(order, i) = Cardinality(UpTo(P, i)) - 1
    OBVIOUS
  <2>1. order[i].id = name /\ i \in 1..n
    OBVIOUS
  <2>2. {j \in 1..(i - 1) : order[j].id = order[i].id} = UpTo(P, i) \ {i}
    BY <1>1, <2>1 DEF UpTo
  <2>3. i \in UpTo(P, i)
    BY <1>2 DEF UpTo
  <2> HIDE DEF P
  <2>4. IsFiniteSet(UpTo(P, i))
    BY <1>2, RankType
  <2>5. Cardinality(UpTo(P, i) \ {i}) = Cardinality(UpTo(P, i)) - 1
    BY <2>3, <2>4, FS_RemoveElement
  <2> QED
    BY <2>2, <2>5 DEF IndexOf
<1>7. shunts = {R(i) : i \in P}
  <2> HIDE DEF R, W
  <2> QED
    BY <1>3, <1>4
<1> HIDE DEF P, R, order, n, W, same
<1>8. Cardinality(shunts) = k
  <2> DEFINE g == [i \in P |-> R(i)]
  <2>1. \A i, j \in P : g[i] = g[j] => i = j
    <3> SUFFICES ASSUME NEW i \in P, NEW j \in P, g[i] = g[j] PROVE i = j
      OBVIOUS
    <3>1. R(i) = R(j)
      OBVIOUS
    <3>2. Cardinality(UpTo(P, i)) - 1 = Cardinality(UpTo(P, j)) - 1
      BY <1>4, <1>6, <3>1
    <3>3. Cardinality(UpTo(P, i)) \in Nat /\ Cardinality(UpTo(P, j)) \in Nat
      BY <1>2, RankType
    <3>4. Cardinality(UpTo(P, i)) = Cardinality(UpTo(P, j))
      BY <3>2, <3>3
    <3> QED
      BY <1>2, <3>4, RankUnique
  <2>2. g \in [P -> shunts] /\ \A x \in shunts : \E i \in P : g[i] = x
    BY <1>7
  <2> HIDE DEF g, shunts
  <2> QED
    BY <1>2, <2>1, <2>2, OneToOne
<1>9. {x.index : x \in shunts} = 0..(k - 1)
  <2>1. {x.index : x \in shunts} = {Cardinality(UpTo(P, i)) - 1 : i \in P}
    BY <1>4, <1>6, <1>7
  <2>2. \A i \in P : Cardinality(UpTo(P, i)) \in 1..k
    BY <1>2, RankType
  <2>3. \A r \in 1..k : \E i \in P : Cardinality(UpTo(P, i)) = r
    BY <1>2, RankOnto
  <2> HIDE DEF k
  <2>4. \A i \in P : Cardinality(UpTo(P, i)) - 1 \in 0..(k - 1)
    BY <1>5, <2>2
  <2>5. \A r \in 0..(k - 1) : \E i \in P : Cardinality(UpTo(P, i)) - 1 = r
    <3> SUFFICES ASSUME NEW r \in 0..(k - 1)
                 PROVE  \E i \in P : Cardinality(UpTo(P, i)) - 1 = r
      OBVIOUS
    <3>1. r + 1 \in 1..k /\ r \in Nat
      BY <1>5
    <3>2. PICK i \in P : Cardinality(UpTo(P, i)) = r + 1
      BY <2>3, <3>1
    <3> QED
      BY <3>1, <3>2
  <2> QED
    BY <2>1, <2>4, <2>5
<1> HIDE DEF k
<1> QED
  BY <1>5, <1>8, <1>9 DEF same, shunts, W, OfMacroIn

\* Everything is written.
WrittenInv ==
    /\ input \in Inputs /\ DocumentsInv /\ reading = "done"
    /\ AlgoInv /\ StageInv /\ stage = "written"

\* The sets of the par file are those of the setting file, for the models kept.
LEMMA ParIs ==
  ASSUME WrittenInv
  PROVE  LET sets == WithModel(ElementsOf("set"))
         IN  /\ DOMAIN par = DOMAIN sets
             /\ \A i \in DOMAIN par :
                   /\ par[i] = writeDynamicModelParameterSet(Meaning(sets[i]))
                   /\ par[i].id = sets[i].id
                   /\ sets[i] \in Element /\ sets[i].id \in DOMAIN models
                   /\ \A c \in ToSet(sets[i].children) :
                         c \in Child /\ c.tag \in ChildTag["set"] /\ Supported(c)
<1> DEFINE s == ElementsOf("set")
           t == content["set"]
           P == {i \in 1..Len(s) : s[i].id \in DOMAIN models}
           sets == Picked(s, P)
           kept == Picked(t, P)
<1>1. /\ input \in Inputs /\ DocumentsInv /\ reading = "done"
      /\ par = [i \in DOMAIN WithModel(t) |-> writeDynamicModelParameterSet(WithModel(t)[i])]
  BY DEF WrittenInv, StageInv
<1>2. "set" \in RootTag
  BY DEF RootTag
<1>3. /\ Len(s) \in Nat /\ DOMAIN s = 1..Len(s)
      /\ t = [i \in 1..Len(s) |-> Meaning(s[i])]
      /\ \A i \in 1..Len(s) :
            /\ s[i] \in Element
            /\ \A c \in ToSet(s[i].children) :
                     c \in Child /\ c.tag \in ChildTag["set"] /\ Supported(c)
  BY <1>1, <1>2, ContentIs
<1>4. WithModel(s) = sets /\ WithModel(t) = kept
  <2>1. {i \in DOMAIN s : s[i].id \in DOMAIN models} = P
    BY <1>3
  <2>2. \A e : Meaning(e).id = e.id
    BY DEF Meaning
  <2>3. {i \in DOMAIN t : t[i].id \in DOMAIN models} = P
    BY <1>3, <2>2
  <2> QED
    BY <2>1, <2>3 DEF WithModel
<1>5. P \in SUBSET Nat /\ IsFiniteSet(P)
  BY <1>3, PositionsBefore
<1>6. \A p \in P : p \in 1..Len(s) /\ s[p].id \in DOMAIN models
  OBVIOUS
<1> HIDE DEF P, s, t
<1>7. DOMAIN sets = 1..Cardinality(P) /\ DOMAIN kept = 1..Cardinality(P)
  BY <1>5, PickedRank
<1>8. ASSUME NEW i \in DOMAIN sets
      PROVE  \E p \in P : sets[i] = s[p] /\ kept[i] = Meaning(s[p])
  <2>1. PICK p \in P : Cardinality(UpTo(P, p)) = i /\ sets[i] = s[p]
    BY <1>5, PickedPosition
  <2>2. kept[i] = t[p]
    BY <1>5, <2>1, PickedRank
  <2> QED
    BY <1>3, <1>6, <2>1, <2>2
<1>9. \A e : writeDynamicModelParameterSet(Meaning(e)).id = e.id
  BY DEF writeDynamicModelParameterSet, Meaning
<1> HIDE DEF sets, kept
<1>10. DOMAIN par = DOMAIN sets
       /\ \A i \in DOMAIN sets : par[i] = writeDynamicModelParameterSet(kept[i])
  BY <1>1, <1>4, <1>7
<1>11. ASSUME NEW i \in DOMAIN sets
       PROVE  /\ par[i] = writeDynamicModelParameterSet(Meaning(sets[i]))
              /\ par[i].id = sets[i].id
              /\ sets[i] \in Element /\ sets[i].id \in DOMAIN models
              /\ \A c \in ToSet(sets[i].children) :
                         c \in Child /\ c.tag \in ChildTag["set"] /\ Supported(c)
  <2>1. PICK p \in P : sets[i] = s[p] /\ kept[i] = Meaning(s[p])
    BY <1>8
  <2>2. p \in 1..Len(s) /\ s[p].id \in DOMAIN models
    BY <1>6
  <2> QED
    BY <1>3, <1>9, <1>10, <2>1, <2>2
<1> QED
  BY <1>4, <1>10, <1>11 DEF s

\* An element of a tag is at a position of the file, which gives its rank.
LEMMA AtPosition ==
  ASSUME input \in Inputs, NEW t \in AssemblingTag, NEW i \in DOMAIN ElementsOf(t)
  PROVE  LET all == Contents(input.assembling)
         IN  \E p \in DOMAIN all :
                /\ ElementsOf(t)[i] = all[p]
                /\ all[p].tag = t
                /\ i = Cardinality(UpTo({q \in DOMAIN all : all[q].tag = t}, p))
<1> DEFINE all == Contents(input.assembling)
           P == {q \in DOMAIN all : all[q].tag = t}
<1>1. t # "set" /\ "assembling" \in {"setting", "assembling"}
  BY DEF AssemblingTag
<1>2. ElementsOf(t) = Picked(all, P)
  BY <1>1 DEF ElementsOf
<1>3. all \in Seq(Element)
  BY <1>1, FileType
<1>4. Len(all) \in Nat /\ DOMAIN all = 1..Len(all)
  BY <1>3
<1>5. P \in SUBSET Nat /\ IsFiniteSet(P)
  BY <1>4, PositionsBefore
<1>6. \A p \in P : p \in DOMAIN all /\ all[p].tag = t
  OBVIOUS
<1> HIDE DEF all
<1> HIDE DEF P
<1>7. PICK p \in P : Cardinality(UpTo(P, p)) = i /\ Picked(all, P)[i] = all[p]
  BY <1>2, <1>5, PickedPosition
<1> QED
  BY <1>2, <1>6, <1>7 DEF P, all

\* An id that no two associations have is that of one, single or multiple.
LEMMA UniqueIs ==
  ASSUME input \in Inputs, NEW id, Unique(id),
         NEW t \in {"singleAssociation", "multipleAssociation"},
         NEW u \in {"singleAssociation", "multipleAssociation"},
         NEW i \in Algo!WithId(ElementsOf(t), id),
         NEW j \in Algo!WithId(ElementsOf(u), id)
  PROVE  t = u /\ i = j
<1> DEFINE all == Contents(input.assembling)
           P(tag) == {q \in DOMAIN all : all[q].tag = tag}
<1>1. t \in AssemblingTag /\ u \in AssemblingTag
  BY DEF AssemblingTag
<1>2. /\ i \in DOMAIN ElementsOf(t) /\ ElementsOf(t)[i].id = id
      /\ j \in DOMAIN ElementsOf(u) /\ ElementsOf(u)[j].id = id
  BY DEF Algo!WithId
<1>3. PICK p \in DOMAIN all : /\ ElementsOf(t)[i] = all[p] /\ all[p].tag = t
                              /\ i = Cardinality(UpTo(P(t), p))
  BY <1>1, <1>2, AtPosition
<1>4. PICK r \in DOMAIN all : /\ ElementsOf(u)[j] = all[r] /\ all[r].tag = u
                              /\ j = Cardinality(UpTo(P(u), r))
  BY <1>1, <1>2, AtPosition
<1>5. p \in Algo!WithId(all, id) /\ r \in Algo!WithId(all, id)
  BY <1>2, <1>3, <1>4 DEF Algo!WithId
<1>6. all[p].tag = input.assembling.elements[p].tag
      /\ all[r].tag = input.assembling.elements[r].tag
  <2>1. all = IF input.assembling.present THEN input.assembling.elements ELSE <<>>
    BY DEF Contents
  <2>2. DOMAIN all # {}
    BY <1>3
  <2> QED
    BY <2>1, <2>2
<1>7. p = r
  BY <1>3, <1>4, <1>5, <1>6 DEF Unique
<1>8. t = u
  BY <1>3, <1>4, <1>7
<1> HIDE DEF P
<1> QED
  BY <1>3, <1>4, <1>7, <1>8

\* What the collectors and the models hold in the end.
LEMMA InTheEnd ==
  ASSUME WrittenInv
  PROVE  /\ pc = "done" /\ N + 1 \in Nat \ {0}
         /\ nbShunts = [v \in LevelsBefore(N + 1) |-> Cardinality(ShuntsBefore(v, N + 1))]
         /\ linesById = UNION {input.lines[n] : n \in 1..N}
         /\ \A a \in DOMAIN models :
               /\ dyd[a] = writeDynamicModelMacroConnect(a)
               /\ IsFiniteSet(models[a]) /\ models[a] \subseteq Asked(a)
               /\ ~Confused(a) => models[a] = Asked(a)
<1>1. /\ input \in Inputs /\ DocumentsInv /\ reading = "done" /\ AlgoInv /\ pc = "done"
      /\ dyd = [a \in DOMAIN models |-> writeDynamicModelMacroConnect(a)]
  BY DEF WrittenInv, StageInv
<1>2. Walked = N + 1 /\ N \in Nat
  BY <1>1, NAssumption DEF Walked
<1>3. 1..(N + 1) - 1 = 1..N
  BY <1>2
<1>4. CollectInv
  BY <1>1 DEF AlgoInv
<1>5. /\ nbShunts = [v \in LevelsBefore(N + 1) |-> Cardinality(ShuntsBefore(v, N + 1))]
      /\ linesById = UNION {input.lines[n] : n \in 1..N}
  BY <1>2, <1>3, <1>4 DEF CollectInv
<1>6. ASSUME NEW a \in DOMAIN models
      PROVE  /\ dyd[a] = writeDynamicModelMacroConnect(a)
             /\ IsFiniteSet(models[a]) /\ models[a] \subseteq Asked(a)
             /\ ~Confused(a) => models[a] = Asked(a)
  <2>1. models[a] \subseteq Asked(a) /\ (~Confused(a) => models[a] = Asked(a))
    BY <1>1, ModelIsAsked
  <2>2. IsFiniteSet(models[a])
    BY <1>1, <2>1, AskedFinite, FS_Subset
  <2> QED
    BY <1>1, <2>1, <2>2
<1> QED
  BY <1>1, <1>2, <1>5, <1>6

\* The multiple association of an id no other association has.
LEMMA MultipleIs ==
  ASSUME WrittenInv, NEW id, Unique(id), NEW a \in Found(Multiples, id)
  PROVE  \E e \in Element :
            /\ Resolved(id) = {e}
            /\ a.targets = {Target(c) : c \in Preferred(e)}
            /\ \A c, d \in Preferred(e) : c = d
            /\ \A c \in Preferred(e) : c.tag = "shunt"
<1> DEFINE tm == "multipleAssociation"
           ts == "singleAssociation"
           m == ElementsOf(tm)
           s == ElementsOf(ts)
<1>1. input \in Inputs /\ DocumentsInv /\ reading = "done"
  BY DEF WrittenInv
<1>2. tm \in RootTag /\ ChildTag[tm] = {"shunt"}
  BY DEF RootTag, AssemblingTag, ChildTag
<1>3. /\ DOMAIN m = 1..Len(m)
      /\ \A i \in 1..Len(m) : m[i] \in Element
            /\ \A c \in ToSet(m[i].children) : c.tag \in {"shunt"}
  BY <1>1, <1>2, ContentIs
<1>4. Multiples = [i \in 1..Len(m) |->
                     [id |-> m[i].id, targets |-> MultipleTargets(Meaning(m[i]))]]
  BY <1>1, AssociationsAre
<1> HIDE DEF m, s
<1>5. Algo!WithId(Multiples, id) = Algo!WithId(m, id)
  BY <1>3, <1>4 DEF Algo!WithId
<1>6. PICK k \in Algo!WithId(m, id) : a = Multiples[k]
  BY <1>5 DEF Found
<1>7. \A i \in Algo!WithId(s, id) : FALSE
  BY <1>1, <1>6, UniqueIs DEF m, s
<1>8. \A i \in Algo!WithId(m, id) : i = k
  BY <1>1, <1>6, UniqueIs DEF m
<1>9. k \in 1..Len(m)
  BY <1>3 DEF Algo!WithId
<1>10. Resolved(id) = {m[k]}
  <2>1. Algo!WithId(s, id) = {}
    BY <1>7
  <2>2. Algo!WithId(m, id) = {k}
    BY <1>6, <1>8
  <2>4. k <= k
    BY <1>9
  <2>3. Algo!LastOf(m, id) = {m[k]}
    BY <2>2, <2>4 DEF Algo!LastOf
  <2> QED
    BY <2>1, <2>3 DEF Resolved, m, s
<1>11. m[k] \in Element /\ \A c \in ToSet(m[k].children) : c.tag = "shunt"
  BY <1>3, <1>9
<1> DEFINE e == m[k]
<1> HIDE DEF e
<1>12. /\ MultipleTargets(Meaning(e)) = {Target(c) : c \in Preferred(e)}
       /\ \A c \in Preferred(e) : c \in ToSet(e.children)
       /\ Preferred(e) = Item(Meaning(e), "shunt")
  BY <1>11, MultipleTargetsIs DEF e
<1>13. "shunt" \in OptionalTag /\ "shunt" \in Slot
  BY DEF OptionalTag, Slot
<1>14. \A c, d \in Preferred(e) : c = d
  BY <1>11, <1>12, <1>13, ItemIs DEF e
<1>15. a.targets = MultipleTargets(Meaning(e))
  BY <1>4, <1>6, <1>9 DEF e
<1> QED
  BY <1>10, <1>11, <1>12, <1>14, <1>15 DEF e

\* A count is the number of shunts of the level the association designates: the
\* collector has counted each of them once, on its own node, and the macro
\* connects have one connection per shunt.
LEMMA CountsMatch ==
  ASSUME WrittenInv
  PROVE  CountsMatchConnections
<1> SUFFICES ASSUME NEW s \in ToSet(par), NEW count \in s.counts,
                    NEW m \in AskedBy(Loadable(s.id)),
                    m.id = count.of, Unique(m.id),
                    \A k \in AskedBy(Loadable(s.id)) : k.name = m.name => k = m,
                    ~Confused(s.id)
             PROVE  LET shunts == {x \in dyd[s.id] : x.id = m.name}
                    IN  /\ count.value = Cardinality(shunts)
                        /\ {x.index : x \in shunts} = 0..(count.value - 1)
  BY DEF CountsMatchConnections
<1> DEFINE sets == WithModel(ElementsOf("set"))
<1>1. PICK i \in DOMAIN par : s = par[i]
  BY DEF ToSet
<1>2. /\ s = writeDynamicModelParameterSet(Meaning(sets[i]))
      /\ s.id \in DOMAIN models
  BY <1>1, ParIs
<1>3. PICK c : count \in CountOf(c)
  BY <1>2 DEF writeDynamicModelParameterSet
<1>4. PICK v \in (UNION {{t.of : t \in a.targets} : a \in Found(Multiples, c.id)})
                 \intersect DOMAIN nbShunts :
         count = [name |-> c.name, of |-> c.id, value |-> nbShunts[v]]
  BY <1>3 DEF CountOf
<1>5. c.id = m.id /\ count.value = nbShunts[v]
  BY <1>4
<1>6. PICK a \in Found(Multiples, m.id) : \E t \in a.targets : v = t.of
  BY <1>4, <1>5
<1>7. PICK e \in Element :
            /\ Resolved(m.id) = {e}
            /\ a.targets = {Target(d) : d \in Preferred(e)}
            /\ \A d, f \in Preferred(e) : d = f
            /\ \A d \in Preferred(e) : d.tag = "shunt"
  BY <1>6, MultipleIs
<1>8. PICK d \in Preferred(e) : v = Target(d).of
  BY <1>6, <1>7
<1>9. v = d.name /\ d.tag = "shunt" /\ Preferred(e) = {d}
  BY <1>7, <1>8 DEF Target
<1> DEFINE Sh == ShuntsBefore(v, N + 1)
           same == {x \in models[s.id] : x.id = m.name}
           f == [x \in Sh |-> [id |-> m.name, elementType |-> "SHUNT", element |-> x]]
<1>10. Of(d.tag, d.name) = Sh
  <2>1. 1..(N + 1) - 1 = 1..N
    BY NAssumption
  <2>2. Of("shunt", v) = UNION {input.shunts[n] : n \in {k \in 1..N : input.level[k] = v}}
    BY DEF Of, Node
  <2>3. Sh = UNION {input.shunts[n] : n \in {k \in 1..N : input.level[k] = v}}
    BY <2>1 DEF ShuntsBefore
  <2> QED
    BY <1>9, <2>2, <2>3
<1>11. models[s.id] = Asked(s.id) /\ IsFiniteSet(models[s.id])
       /\ dyd[s.id] = writeDynamicModelMacroConnect(s.id)
  BY <1>2, InTheEnd
<1>12. \A x : x \in same <=> \E y \in Sh : x = f[y]
  <2>1. \A x : x \in AskedConnections(m) <=> \E y \in Sh : x = f[y]
    <3>1. {Preferred(g) : g \in Resolved(m.id)} = {{d}}
      BY <1>7, <1>9
    <3>2. UNION {Preferred(g) : g \in Resolved(m.id)} = {d}
      BY <3>1
    <3>3. UNION {{TypeOf[g.tag]} \X Of(g.tag, g.name) :
                    g \in UNION {Preferred(h) : h \in Resolved(m.id)}}
             = {"SHUNT"} \X Sh
      BY <1>9, <1>10, <3>2, DesignationSlots
    <3>4. AskedConnections(m) =
             {[id |-> m.name, elementType |-> x[1], element |-> x[2]] : x \in {"SHUNT"} \X Sh}
      BY <3>3 DEF AskedConnections
    <3> DEFINE P == {"SHUNT"} \X Sh
               G(x) == [id |-> m.name, elementType |-> x[1], element |-> x[2]]
    <3>5. AskedConnections(m) = {G(x) : x \in P}
      BY <3>4
    <3> HIDE DEF Sh
    <3>6. \A x \in P : \E y \in Sh : G(x) = f[y]
      OBVIOUS
    <3>7. \A y \in Sh : \E x \in P : G(x) = f[y]
      <4> SUFFICES ASSUME NEW y \in Sh PROVE \E x \in P : G(x) = f[y]
        OBVIOUS
      <4>1. <<"SHUNT", y>> \in P /\ G(<<"SHUNT", y>>) = f[y]
        OBVIOUS
      <4> HIDE DEF G, P, f
      <4> QED
        BY <4>1
    <3> HIDE DEF G, P, f
    <3> QED
      BY <3>5, <3>6, <3>7
  <2>2. \A k, x : x \in AskedConnections(k) => x.id = k.name
    BY DEF AskedConnections
  <2>3. Asked(s.id) = UNION {AskedConnections(k) : k \in AskedBy(Loadable(s.id))}
    BY DEF Asked
  <2>4. \A x : x \in same <=> x \in AskedConnections(m)
    BY <1>11, <2>2, <2>3
  <2> HIDE DEF same, f, Sh
  <2> QED
    BY <2>1, <2>4
<1>13. Cardinality(same) = Cardinality(Sh) /\ IsFiniteSet(Sh)
  <2>1. IsFiniteSet(Sh)
    <3>1. IsInput(input)
      BY InputsAssumption DEF WrittenInv
    <3>2. IsFiniteSet(ElementNames(input))
      BY <3>1 DEF IsInput
    <3>3. 1..(N + 1) - 1 = 1..N
      BY NAssumption
    <3>5. \A n \in 1..N : input.shunts[n] \subseteq ElementNames(input)
      BY DEF ElementNames, Node
    <3>4. Sh \subseteq ElementNames(input)
      BY <3>3, <3>5 DEF ShuntsBefore
    <3> QED
      BY <3>2, <3>4, FS_Subset
  <2>2. \A x, y \in Sh : f[x] = f[y] => x = y
    <3> SUFFICES ASSUME NEW x \in Sh, NEW y \in Sh, f[x] = f[y] PROVE x = y
      OBVIOUS
    <3>1. f[x].element = x /\ f[y].element = y
      OBVIOUS
    <3> QED
      BY <3>1
  <2>3. DOMAIN f = Sh /\ f = [x \in Sh |-> f[x]]
    OBVIOUS
  <2> HIDE DEF f, same, Sh
  <2>4. f \in [Sh -> same]
    BY <1>12, <2>3
  <2>5. \A x \in same : \E y \in Sh : f[y] = x
    BY <1>12
  <2>6. Cardinality(same) = Cardinality(Sh)
    BY <2>1, <2>2, <2>4, <2>5, OneToOne
  <2> QED
    BY <2>1, <2>6
<1>14. count.value = Cardinality(Sh)
  <2>1. v \in LevelsBefore(N + 1)
    BY <1>4, InTheEnd
  <2> QED
    BY <1>5, <2>1, InTheEnd
<1> HIDE DEF Sh
<1> DEFINE shunts == {x \in dyd[s.id] : x.id = m.name}
<1>15. /\ Cardinality(shunts) = Cardinality(same)
       /\ {x.index : x \in shunts} = 0..(Cardinality(same) - 1)
  <2> DEFINE expected == {x \in writeDynamicModelMacroConnect(s.id) : x.id = m.name}
  <2>1. shunts = expected
    BY <1>11
  <2> DEFINE b == s.id
             name == m.name
             connectors == OfMacroIn(writeDynamicModelMacroConnect(b), name)
             k == Cardinality(OfMacroIn(models[b], name))
  <2>3. IsFiniteSet(models[b])
    BY <1>11
  <2>4. Cardinality(connectors) = k /\ {x.index : x \in connectors} = 0..(k - 1)
    <3> HIDE DEF b, name
    <3> QED
      BY <2>3, WrittenIndexes
  <2>5. connectors = expected /\ k = Cardinality(same)
    BY DEF OfMacroIn
  <2>2. /\ Cardinality(expected) = Cardinality(same)
        /\ {x.index : x \in expected} = 0..(Cardinality(same) - 1)
    <3> HIDE DEF connectors, k, expected, same
    <3> QED
      BY <2>4, <2>5
  <2> HIDE DEF shunts, expected, same
  <2> QED
    BY <2>1, <2>2
<1> HIDE DEF same
<1> QED
  BY <1>13, <1>14, <1>15

\* A model with transformers has a first one.
LEMMA FirstTransformer ==
  ASSUME NEW a, IsFiniteSet(models[a])
  PROVE  /\ \A x \in getTransformerComponentId(a) :
               \E c \in models[a] : c.elementType = "TFO" /\ c.element = x
         /\ (\E c \in models[a] : c.elementType = "TFO")
               => getTransformerComponentId(a) # {}
<1> DEFINE order == InOrder(a)
           n == Cardinality(models[a])
           tfos == {i \in 1..n : order[i].elementType = "TFO"}
           first == {k \in tfos : \A j \in tfos : k <= j}
<1>1. /\ n \in Nat /\ DOMAIN order = 1..n
      /\ \A i \in 1..n : order[i] \in models[a]
      /\ \A c \in models[a] : \E i \in 1..n : order[i] = c
  BY OrderIs
<1>2. getTransformerComponentId(a) = {order[i].element : i \in first}
  BY <1>1 DEF getTransformerComponentId
<1>3. \A i \in first : order[i] \in models[a] /\ order[i].elementType = "TFO"
  BY <1>1
<1>4. ASSUME \E c \in models[a] : c.elementType = "TFO"
      PROVE  first # {}
  <2>1. tfos # {} /\ tfos \in SUBSET Nat
    BY <1>1, <1>4
  <2> HIDE DEF tfos
  <2> QED
    BY <2>1, LeastNatural
<1> HIDE DEF first, order
<1> QED
  BY <1>2, <1>3, <1>4

\* The line of the single association of an id no other association has.
LEMMA SeasonLine ==
  ASSUME WrittenInv, NEW id, Unique(id), \A e \in Resolved(id) : Valid(e),
         NEW f \in Found(content["singleAssociation"], id),
         NEW c \in Item(f, "line")
  PROVE  \E e \in Resolved(id) : c \in Preferred(e) /\ c.tag = "line"
<1> DEFINE ts == "singleAssociation"
           s == ElementsOf(ts)
<1>1. input \in Inputs /\ DocumentsInv /\ reading = "done"
  BY DEF WrittenInv
<1>2. ts \in RootTag /\ ChildTag[ts] = {"bus", "line", "tfo"}
  BY DEF RootTag, AssemblingTag, ChildTag
<1>3. /\ DOMAIN s = 1..Len(s)
      /\ content[ts] = [i \in 1..Len(s) |-> Meaning(s[i])]
      /\ \A i \in 1..Len(s) : s[i] \in Element /\ s[i].tag = ts
  BY <1>1, <1>2, ContentIs
<1>4. Algo!WithId(content[ts], id) = Algo!WithId(s, id)
  <2>1. \A e : Meaning(e).id = e.id
    BY DEF Meaning
  <2> HIDE DEF s
  <2> QED
    BY <1>3, <2>1 DEF Algo!WithId
<1> HIDE DEF s
<1>5. PICK k \in Algo!WithId(s, id) : f = content[ts][k]
  BY <1>4 DEF Found
<1>6. k \in 1..Len(s)
  BY <1>3 DEF Algo!WithId
<1>7. \A i \in Algo!WithId(s, id) : i = k
  BY <1>1, <1>5, UniqueIs DEF s
<1> DEFINE e == s[k]
<1>8. f = Meaning(e) /\ e \in Element /\ e.tag = ts
  BY <1>3, <1>5, <1>6
<1>9. e \in Resolved(id)
  <2>1. k <= k
    BY <1>6
  <2>2. Algo!WithId(s, id) # {} /\ e \in Algo!LastOf(s, id)
    BY <1>5, <1>7, <2>1 DEF Algo!LastOf
  <2> QED
    BY <2>2 DEF Resolved, s
<1> HIDE DEF e
<1>10. Valid(e)
  BY <1>9
<1>11. Len(e.children) = 1
  BY <1>8, <1>10 DEF Valid
<1>12. \A x, y \in ToSet(e.children) : x = y
  <2>1. ToSet(e.children) = {e.children[i] : i \in 1..Len(e.children)}
    BY <1>8, ChildType
  <2>2. 1..Len(e.children) = {1}
    BY <1>11
  <2> QED
    BY <2>1, <2>2
<1>13. \A slot \in {"bus", "line"} : \A x \in Item(Meaning(e), slot) :
          x \in ToSet(e.children) /\ SlotOf(x) = slot
  BY <1>8, DesignationSlots, ItemIs
<1>14. c \in Item(Meaning(e), "line") /\ c \in ToSet(e.children) /\ SlotOf(c) = "line"
  BY <1>8, <1>13
<1>15. Item(Meaning(e), "bus") = {}
  BY <1>12, <1>13, <1>14
<1>16. c \in Preferred(e)
  BY <1>14, <1>15 DEF Preferred
<1>17. c.tag \in {"bus", "line", "tfo", "shunt"}
  BY <1>1, <1>9, <1>16, TargetsAre
<1>18. c.tag = "line"
  BY <1>14, <1>17, DesignationSlots
<1> QED
  BY <1>9, <1>16, <1>18

\* The references and seasons of a set are those of connections of its model.
LEMMA ReferencesMatch ==
  ASSUME WrittenInv
  PROVE  ReferencesMatchConnections
<1> DEFINE sets == WithModel(ElementsOf("set"))
<1>1. input \in Inputs /\ DocumentsInv /\ reading = "done"
  BY DEF WrittenInv
<1>2. DOMAIN par = DOMAIN sets
  BY ParIs
<1>3. ASSUME NEW i \in DOMAIN par
      PROVE  LET s == par[i]
                 connected == {x.element : x \in dyd[s.id]}
                 tfos == {c \in Asked(s.id) : c.elementType = "TFO"}
             IN  /\ s.id = sets[i].id
                 /\ \A r \in s.references : r.tag = "@TFO@" =>
                       r.component \in connected \intersect {c.element : c \in tfos}
                 /\ ~Confused(s.id) /\ tfos # {} =>
                       \A c \in ToSet(sets[i].children) : c.tag = "reference" =>
                          \E r \in s.references : r.name = c.name
                 /\ \A r \in s.seasons : \A m \in AskedBy(Loadable(s.id)) :
                       /\ m.id = r.of /\ Unique(m.id) /\ ~Confused(s.id)
                       /\ \A e \in Resolved(m.id) : Valid(e)
                       => r.line \in connected
  <2> DEFINE s == par[i]
             e == sets[i]
             a == e.id
             connected == {x.element : x \in dyd[a]}
             tfos == {c \in Asked(a) : c.elementType = "TFO"}
  <2>1. /\ s = writeDynamicModelParameterSet(Meaning(e)) /\ s.id = a
        /\ e \in Element /\ a \in DOMAIN models
        /\ \A c \in ToSet(e.children) :
              c \in Child /\ c.tag \in ChildTag["set"] /\ Supported(c)
    BY ParIs
  <2>2. Meaning(e).id = a
    BY DEF Meaning
  <2>3. /\ dyd[a] = writeDynamicModelMacroConnect(a)
        /\ IsFiniteSet(models[a]) /\ models[a] \subseteq Asked(a)
        /\ ~Confused(a) => models[a] = Asked(a)
    BY <2>1, InTheEnd
  <2>4. connected = {c.element : c \in models[a]}
    <3>1. {x.element : x \in writeDynamicModelMacroConnect(a)} = {c.element : c \in models[a]}
      <4> HIDE DEF a
      <4> QED
        BY <2>3, WrittenElements
    <3> QED
      BY <2>3, <3>1
  <2> HIDE DEF e, a
  <2>5. /\ \A r : r \in s.references <=>
               \E x \in Item(Meaning(e), "reference") : r \in ReferenceOf(a, x)
        /\ \A r : r \in s.seasons <=>
               \E x \in Item(Meaning(e), "ref") : r \in getActiveSeason(x)
    BY <2>1, <2>2 DEF writeDynamicModelParameterSet
  <2> HIDE DEF s
  <2>6. /\ \A x \in getTransformerComponentId(a) :
              \E c \in models[a] : c.elementType = "TFO" /\ c.element = x
        /\ (\E c \in models[a] : c.elementType = "TFO")
               => getTransformerComponentId(a) # {}
    BY <2>3, FirstTransformer
  <2>7. ASSUME NEW r \in s.references, r.tag = "@TFO@"
        PROVE  r.component \in connected \intersect {c.element : c \in tfos}
    <3>1. PICK x : r \in ReferenceOf(a, x)
      BY <2>5
    <3>2. PICK y \in (IF x.id = "@TFO@" THEN getTransformerComponentId(a) ELSE {x.id}) :
             r = [name |-> x.name, tag |-> x.id, component |-> y]
      BY <3>1 DEF ReferenceOf
    <3>3. x.id = "@TFO@" /\ r.component = y /\ y \in getTransformerComponentId(a)
      BY <2>7, <3>2
    <3>4. PICK c \in models[a] : c.elementType = "TFO" /\ c.element = y
      BY <2>6, <3>3
    <3> QED
      BY <2>3, <2>4, <3>3, <3>4
  <2>8. ASSUME ~Confused(a), tfos # {}, NEW c \in ToSet(e.children), c.tag = "reference"
        PROVE  \E r \in s.references : r.name = c.name
    <3>1. SlotOf(c) = "reference" /\ "reference" \in Slot /\ "reference" \notin OptionalTag
      BY <2>8 DEF SlotOf, Slot, OptionalTag, VectorTag
    <3>2. Item(Meaning(e), "reference") = {x \in ToSet(e.children) : SlotOf(x) = "reference"}
      BY <2>1, <3>1, ItemIs
    <3>3. c \in Item(Meaning(e), "reference")
      BY <3>1, <3>2
    <3>4. getTransformerComponentId(a) # {}
      BY <2>3, <2>6, <2>8
    <3>5. PICK y : y \in (IF c.id = "@TFO@" THEN getTransformerComponentId(a) ELSE {c.id})
      BY <3>4
    <3> DEFINE r == [name |-> c.name, tag |-> c.id, component |-> y]
    <3>6. r \in ReferenceOf(a, c) /\ r.name = c.name
      BY <3>5 DEF ReferenceOf
    <3> QED
      BY <2>5, <3>3, <3>6
  <2>9. ASSUME NEW r \in s.seasons, NEW m \in AskedBy(Loadable(a)),
               m.id = r.of, Unique(m.id), ~Confused(a),
               \A x \in Resolved(m.id) : Valid(x)
        PROVE  r.line \in connected
    <3>1. PICK x : r \in getActiveSeason(x)
      BY <2>5
    <3> DEFINE found == IF x.kind = "@SAISON@"
                        THEN Found(content["singleAssociation"], x.id) ELSE {}
               lines == UNION {{c.name : c \in Item(f, "line")} : f \in found}
    <3>2. PICK l \in lines \intersect linesById : r = [name |-> x.name, of |-> x.id, line |-> l]
      BY <3>1 DEF getActiveSeason
    <3>3. x.id = m.id /\ r.line = l
      BY <2>9, <3>2
    <3>4. PICK f \in Found(content["singleAssociation"], m.id) :
             \E c \in Item(f, "line") : l = c.name
      BY <3>2, <3>3
    <3>5. PICK c \in Item(f, "line") : l = c.name
      BY <3>4
    <3>6. PICK g \in Resolved(m.id) : c \in Preferred(g) /\ c.tag = "line"
      BY <2>9, SeasonLine
    <3>7. l \in Of(c.tag, c.name)
      <4>1. linesById = UNION {input.lines[n] : n \in 1..N}
        BY InTheEnd
      <4>2. l \in UNION {input.lines[n] : n \in 1..N}
        BY <3>2, <4>1
      <4> QED
        BY <3>5, <3>6, <4>2 DEF Of, Node
    <3> DEFINE z == [id |-> m.name, elementType |-> TypeOf[c.tag], element |-> l]
    <3>8. PICK y \in Loadable(a) : m \in ToSet(y.children)
      BY DEF AskedBy
    <3>9. z \in Asked(a)
      BY <3>6, <3>7, <3>8, AskedIs
    <3>10. z \in models[a] /\ z.element = l
      BY <2>3, <2>9, <3>9
    <3> HIDE DEF z
    <3> QED
      BY <2>4, <3>3, <3>10
  <2> HIDE DEF connected, tfos
  <2>10. /\ \A r \in s.references : r.tag = "@TFO@" =>
                       r.component \in connected \intersect {c.element : c \in tfos}
         /\ ~Confused(a) /\ tfos # {} =>
                       \A c \in ToSet(e.children) : c.tag = "reference" =>
                          \E r \in s.references : r.name = c.name
         /\ \A r \in s.seasons : \A m \in AskedBy(Loadable(a)) :
                       /\ m.id = r.of /\ Unique(m.id) /\ ~Confused(a)
                       /\ \A x \in Resolved(m.id) : Valid(x)
                       => r.line \in connected
    BY <2>7, <2>8, <2>9
  <2> QED
    BY <2>1, <2>10 DEF s, e, a, connected, tfos
<1> HIDE DEF sets
<1> QED
  BY <1>2, <1>3 DEF ReferencesMatchConnections, sets

-----------------------------------------------------------------------------
(***************************************************************************)
(* The inductive invariant.                                                *)
(***************************************************************************)

\* The loops start where the reading ends.
LEMMA ReadyToExtract ==
  ASSUME input \in Inputs, DocumentsInv, reading = "done", Untouched
  PROVE  AlgoInv /\ StageInv
<1>1. /\ pc = "extract" /\ cursor = 1 /\ wanted = {} /\ models = <<>>
      /\ usedMacroConnections = {}
      /\ nbShunts = <<>> /\ linesById = {} /\ stage = "process"
  BY DEF Untouched, Algo!InitModels
<1>2. Extracted = 1 /\ Walked = 1
  BY <1>1 DEF Extracted, Walked
<1>3. DOMAIN models = {}
  BY <1>1
<1>4. LoopInv
  BY <1>1, AutomatonsLength DEF LoopInv
<1>5. WantedInv
  BY <1>1, <1>2, NothingMet DEF WantedInv
<1>6. ModelsInv
  BY <1>1, <1>2, <1>3, NothingMet DEF ModelsInv
<1>7. ConnectorsAreWritten
  BY <1>3 DEF ConnectorsAreWritten
<1>8. CollectInv
  <2>1. 1..1-1 = {}
    OBVIOUS
  <2>2. UNION {input.lines[n] : n \in 1..1-1} = {}
    BY <2>1
  <2>3. [v \in LevelsBefore(1) |-> Cardinality(ShuntsBefore(v, 1))] = <<>>
    BY NothingMet
  <2> QED
    BY <1>1, <1>2, <2>2, <2>3 DEF CollectInv
<1>9. StageInv
  BY <1>1 DEF StageInv
<1> QED
  BY <1>4, <1>5, <1>6, <1>7, <1>8, <1>9 DEF AlgoInv

\* The same of the state a step of the reading leads to.
LEMMA ReadyAfter ==
  (input \in Inputs /\ DocumentsInv /\ reading = "done" /\ Untouched)'
     => (AlgoInv /\ StageInv)'
<1>1. input \in Inputs /\ DocumentsInv /\ reading = "done" /\ Untouched
         => AlgoInv /\ StageInv
  BY ReadyToExtract
<1> QED
  BY <1>1, PTL

\* It holds at the start.
LEMMA InitIInv ==
  ASSUME Init
  PROVE  IInv
<1>1. input \in Inputs /\ InitDocuments /\ Untouched
  BY DEF Init, Untouched
<1>2. DocumentsInv
  BY <1>1, InitDocumentsInv
<1>3. reading # "done"
  BY <1>1 DEF InitDocuments
<1> QED
  BY <1>1, <1>2, <1>3 DEF IInv, ProcessInv

\* A step of the reading keeps it.
LEMMA ReadIInv ==
  ASSUME IInv, Read
  PROVE  IInv'
<1>1. /\ input \in Inputs /\ DocumentsInv /\ ReadDocuments
      /\ UNCHANGED <<algoVars, collected, written, stage>>
  BY DEF IInv, Read
<1>2. Reading
  BY <1>1 DEF ReadDocuments, SkipMissing, EndOfFile, ParserError, StartElement,
              StartChild, EndChild, EndElement, BeforeElement, InElement, Parsing
<1>3. Untouched
  BY <1>2 DEF IInv, ProcessInv, Reading
<1>4. DocumentsInv' /\ input' = input
  BY <1>1, ReadDocumentsInv
<1>5. Untouched'
  BY <1>1, <1>3 DEF Untouched, Algo!InitModels, algoVars, collected
<1>6. ASSUME reading' = "done"
      PROVE  (AlgoInv /\ StageInv)'
  <2>1. (input \in Inputs /\ DocumentsInv /\ reading = "done" /\ Untouched)'
    BY <1>1, <1>4, <1>5, <1>6
  <2> QED
    BY <2>1, ReadyAfter
<1> QED
  BY <1>1, <1>4, <1>5, <1>6 DEF IInv, ProcessInv

\* What the algorithm has gathered does not change once it is over.
LEMMA AlgoKept ==
  ASSUME AlgoInv, UNCHANGED <<input, docVars, algoVars, collected>>
  PROVE  AlgoInv'
<1>1. /\ UNCHANGED <<input, content, pc, cursor, wanted, models, usedMacroConnections>>
      /\ UNCHANGED <<input, collected>>
  BY DEF docVars, readVars, algoVars
<1>2. /\ Automatons' = Automatons
      /\ \A k : WantedBefore(k)' = WantedBefore(k)
  BY <1>1, DescriptionKept
<1>3. Extracted' = Extracted /\ Walked' = Walked /\ Filtered' = Filtered
  BY <1>1, <1>2 DEF Extracted, Walked, Filtered
<1>4. LoopInv'
  BY <1>1, <1>2 DEF AlgoInv, LoopInv
<1>5. WantedInv'
  BY <1>1, <1>2, <1>3 DEF AlgoInv, WantedInv
<1>6. ModelsInv'
  BY <1>1, <1>3, ModelsKept DEF AlgoInv
<1>7. ConnectorsAreWritten'
  BY <1>1 DEF AlgoInv, ConnectorsAreWritten
<1>8. CollectInv'
  BY <1>1, <1>3, CollectKept DEF AlgoInv
<1> QED
  BY <1>4, <1>5, <1>6, <1>7, <1>8 DEF AlgoInv

\* What the writers make of what they read.
LEMMA WritersKept ==
  ASSUME UNCHANGED <<input, docVars, algoVars, collected>>
  PROVE  /\ \A a : writeDynamicModelMacroConnect(a)' = writeDynamicModelMacroConnect(a)
         /\ \A s : writeDynamicModelParameterSet(s)' = writeDynamicModelParameterSet(s)
         /\ WithModel(content["set"])' = WithModel(content["set"])
<1>1. UNCHANGED <<input, content, models, nbShunts, linesById>>
  BY DEF docVars, readVars, algoVars, collected
<1>2. \A a : InOrder(a)' = InOrder(a)
  BY <1>1 DEF InOrder
<1>3. \A a : writeDynamicModelMacroConnect(a)' = writeDynamicModelMacroConnect(a)
  BY <1>2 DEF writeDynamicModelMacroConnect
<1>4. /\ Multiples' = Multiples
      /\ \A all, id : Found(all, id)' = Found(all, id)
  BY <1>1 DEF Multiples, EachOf, Found
<1>5. /\ \A c : CountOf(c)' = CountOf(c)
      /\ \A r : getActiveSeason(r)' = getActiveSeason(r)
  BY <1>1, <1>4 DEF CountOf, getActiveSeason
<1>6. \A a, r : ReferenceOf(a, r)' = ReferenceOf(a, r)
  BY <1>2 DEF ReferenceOf, getTransformerComponentId
<1>7. \A s : writeDynamicModelParameterSet(s)' = writeDynamicModelParameterSet(s)
  BY <1>5, <1>6 DEF writeDynamicModelParameterSet
<1>8. WithModel(content["set"])' = WithModel(content["set"])
  BY <1>1 DEF WithModel
<1> QED
  BY <1>3, <1>7, <1>8

\* Every other step keeps it.
LEMMA OtherIInv ==
  ASSUME IInv,
         Process \/ EndOfProcess \/ WriteDyd \/ WritePar \/ Terminated \/ UNCHANGED vars
  PROVE  IInv'
<1>1. input \in Inputs /\ DocumentsInv /\ ProcessInv
  BY DEF IInv
<1>2. UNCHANGED <<input, docVars>>
  BY DEF Process, EndOfProcess, WriteDyd, WritePar, Terminated, vars
<1>3. input' \in Inputs /\ DocumentsInv' /\ reading' = reading
  BY <1>1, <1>2, DocumentsKept DEF docVars
<1>4. SUFFICES ProcessInv'
  BY <1>3 DEF IInv
<1>5. ASSUME UNCHANGED <<algoVars, collected>>
      PROVE  /\ \A a : writeDynamicModelMacroConnect(a)' = writeDynamicModelMacroConnect(a)
             /\ \A s : writeDynamicModelParameterSet(s)' = writeDynamicModelParameterSet(s)
             /\ WithModel(content["set"])' = WithModel(content["set"])
             /\ pc' = pc /\ models' = models
  BY <1>2, <1>5, WritersKept DEF algoVars
<1>6. CASE Process
  <2>1. reading = "done" /\ stage = "process" /\ stage' = "process"
    BY <1>6 DEF Process
  <2>2. AlgoInv'
    BY <1>1, <1>6, <2>1, ProcessKeeps DEF ProcessInv
  <2>3. StageInv'
    BY <2>1 DEF StageInv
  <2> QED
    BY <1>3, <2>1, <2>2, <2>3 DEF ProcessInv
<1>7. CASE EndOfProcess
  <2>1. /\ pc = "done" /\ stage' = "dyd"
        /\ UNCHANGED <<algoVars, collected>>
    BY <1>7 DEF EndOfProcess
  <2>2. reading = "done"
    BY <1>1, <2>1 DEF ProcessInv, Untouched, Algo!InitModels
  <2>3. AlgoInv'
    BY <1>1, <1>2, <2>1, <2>2, AlgoKept DEF ProcessInv
  <2>4. StageInv'
    BY <1>5, <2>1 DEF StageInv
  <2> QED
    BY <1>3, <2>2, <2>3, <2>4 DEF ProcessInv
<1>8. CASE WriteDyd
  <2>1. /\ stage = "dyd" /\ stage' = "par"
        /\ dyd' = [a \in DOMAIN models |-> writeDynamicModelMacroConnect(a)]
        /\ UNCHANGED <<algoVars, collected>>
    BY <1>8 DEF WriteDyd
  <2>2. reading = "done" /\ pc = "done"
    BY <1>1, <2>1 DEF ProcessInv, Untouched, StageInv
  <2>3. AlgoInv'
    BY <1>1, <1>2, <2>1, <2>2, AlgoKept DEF ProcessInv
  <2>4. StageInv'
    <3>1. dyd' = [a \in DOMAIN models' |-> writeDynamicModelMacroConnect(a)']
      BY <1>5, <2>1
    <3> QED
      BY <1>5, <2>1, <2>2, <3>1 DEF StageInv
  <2> QED
    BY <1>3, <2>2, <2>3, <2>4 DEF ProcessInv
<1>9. CASE WritePar
  <2>1. /\ stage = "par" /\ stage' = "written"
        /\ par' = [i \in DOMAIN WithModel(content["set"]) |->
                      writeDynamicModelParameterSet(WithModel(content["set"])[i])]
        /\ UNCHANGED <<algoVars, collected, dyd>>
    BY <1>9 DEF WritePar
  <2>2. reading = "done" /\ pc = "done" /\ AlgoInv
        /\ dyd = [a \in DOMAIN models |-> writeDynamicModelMacroConnect(a)]
    BY <1>1, <2>1 DEF ProcessInv, Untouched, StageInv
  <2>3. AlgoInv'
    BY <1>2, <2>1, <2>2, AlgoKept
  <2>4. StageInv'
    <3>1. dyd' = [a \in DOMAIN models' |-> writeDynamicModelMacroConnect(a)']
      BY <1>5, <2>1, <2>2
    <3>2. (LET kept == WithModel(content["set"])
           IN  par = [i \in DOMAIN kept |-> writeDynamicModelParameterSet(kept[i])])'
      BY <1>5, <2>1
    <3> QED
      BY <1>5, <2>1, <2>2, <3>1, <3>2 DEF StageInv
  <2> QED
    BY <1>3, <2>2, <2>3, <2>4 DEF ProcessInv
<1>10. CASE UNCHANGED vars
  <2>1. UNCHANGED <<algoVars, collected, dyd, par, stage>>
    BY <1>10 DEF vars, written
  <2>2. CASE reading = "done"
    <3>1. AlgoInv /\ StageInv
      BY <1>1, <2>2 DEF ProcessInv
    <3>2. AlgoInv'
      BY <1>2, <2>1, <3>1, AlgoKept
    <3>3. StageInv'
      BY <1>5, <2>1, <3>1 DEF StageInv
    <3> QED
      BY <1>3, <2>2, <3>2, <3>3 DEF ProcessInv
  <2>3. CASE reading # "done"
    <3>1. Untouched'
      BY <1>1, <2>1, <2>3 DEF ProcessInv, Untouched, Algo!InitModels, algoVars, collected
    <3> QED
      BY <1>3, <2>3, <3>1 DEF ProcessInv
  <2> QED
    BY <2>2, <2>3
<1>11. CASE Terminated
  BY <1>10, <1>11 DEF Terminated
<1> QED
  BY <1>6, <1>7, <1>8, <1>9, <1>10, <1>11

(***************************************************************************)
(* The inductive invariant holds in every reachable state, for every       *)
(* number of nodes and all files and networks.                             *)
(***************************************************************************)
THEOREM Invariance ==
  Spec => []IInv
<1>1. Init => IInv
  BY InitIInv
<1>2. IInv /\ [Next]_vars => IInv'
  BY ReadIInv, OtherIInv DEF Next
<1> QED
  BY <1>1, <1>2, PTL DEF Spec

\* The invariant in the state where both files are written.
LEMMA WhenWritten ==
  ASSUME IInv, stage = "written"
  PROVE  WrittenInv
<1>1. reading = "done"
  BY DEF IInv, ProcessInv, Untouched
<1> QED
  BY <1>1 DEF IInv, ProcessInv, WrittenInv

\* Before the end of the reading, no model is made.
LEMMA BeforeTheEnd ==
  ASSUME IInv, reading # "done"
  PROVE  pc = "extract" /\ DOMAIN models = {} /\ nbShunts = <<>> /\ linesById = {}
  BY DEF IInv, ProcessInv, Untouched, Algo!InitModels

\* The variables keep their types, the keys of the maps included.
THEOREM TypeCorrect ==
  Spec => []TypeOK
<1>1. ASSUME IInv
      PROVE  TypeOK
  <2>1. /\ input \in Inputs /\ DocumentsInv /\ ProcessInv
        /\ reading \in {"setting", "assembling", "done", "failed"}
    BY <1>1 DEF IInv, DocumentsInv
  <2>2. CASE reading # "done"
    BY <1>1, <2>1, <2>2, BeforeTheEnd DEF TypeOK, ProcessInv, Untouched
  <2>3. CASE reading = "done"
    <3>1. AlgoInv /\ StageInv
      BY <2>1, <2>3 DEF ProcessInv
    <3>2. /\ stage \in {"process", "dyd", "par", "written"}
          /\ pc \in {"extract", "walk", "filter", "done"}
      BY <3>1 DEF AlgoInv, StageInv, LoopInv
    <3>3. 1..Walked-1 \subseteq Node
      BY <3>1, NAssumption DEF AlgoInv, LoopInv, Walked, Node
    <3>4. /\ DOMAIN nbShunts \subseteq {input.level[n] : n \in Node}
          /\ linesById \subseteq UNION {input.lines[n] : n \in Node}
      <4> DEFINE W == 1..Walked-1
      <4>1. DOMAIN nbShunts = {input.level[n] : n \in W}
            /\ linesById = UNION {input.lines[n] : n \in W}
        BY <3>1 DEF AlgoInv, CollectInv, LevelsBefore
      <4>2. W \subseteq Node
        BY <3>3
      <4> HIDE DEF W
      <4> QED
        BY <4>1, <4>2
    <3>5. DOMAIN models \subseteq {a.id : a \in ToSet(Automatons)}
      <4>1. ASSUME NEW b \in DOMAIN models
            PROVE  \E a \in ToSet(Automatons) : b = a.id
        <5>1. b \in Requested
          BY <3>1 DEF AlgoInv, ModelsInv
        <5>2. PICK w \in wanted : b = w.model
          BY <5>1 DEF Requested
        <5>3. w \in WantedBefore(Extracted)
          BY <3>1, <5>2 DEF AlgoInv, WantedInv
        <5>4. PICK i \in 1..Extracted-1 : w \in Algo!EntriesOf(Automatons[i])
          BY <5>3 DEF WantedBefore
        <5>5. w.model = Automatons[i].id
          BY <5>4 DEF Algo!EntriesOf
        <5>6. i \in DOMAIN Automatons
          <6>1. Len(Automatons) \in Nat /\ DOMAIN Automatons = 1..Len(Automatons)
            BY <2>1, <2>3, AutomatonsLength
          <6> DEFINE n == Len(Automatons)
          <6>2. n \in Nat /\ DOMAIN Automatons = 1..n
            BY <6>1
          <6>3. Extracted - 1 \in Int /\ Extracted - 1 <= n
            BY <3>1, <6>2 DEF AlgoInv, LoopInv, Extracted
          <6> HIDE DEF n
          <6> QED
            BY <5>4, <6>2, <6>3
        <5> QED
          BY <5>2, <5>5, <5>6 DEF ToSet
      <4> QED
        BY <4>1
    <3> QED
      BY <2>1, <3>2, <3>4, <3>5 DEF TypeOK
  <2> QED
    BY <2>2, <2>3
<1> QED
  BY <1>1, Invariance, PTL

(***************************************************************************)
(* The vectors a reading fills are those of the files: nothing an earlier  *)
(* element or parameter has left in a handler reaches a later one.         *)
(***************************************************************************)
THEOREM DocumentsFaithful ==
  Spec => []DocumentsAreFaithful
<1>1. IInv => DocumentsAreFaithful
  BY DocumentsInvFaithful DEF IInv
<1> QED
  BY <1>1, Invariance, PTL

(***************************************************************************)
(* The models exported are those the files and the network determine,      *)
(* whatever the order of the automatons and of the nodes.                  *)
(***************************************************************************)
THEOREM ModelsComplete ==
  Spec => []CompleteModelsExported
<1>1. ASSUME IInv
      PROVE  CompleteModelsExported
  <2>1. CASE reading = "done"
    BY <1>1, <2>1, ModelsAreComplete DEF IInv, ProcessInv
  <2>2. CASE reading # "done"
    BY <1>1, <2>2, BeforeTheEnd DEF CompleteModelsExported
  <2> QED
    BY <2>1, <2>2
<1> QED
  BY <1>1, Invariance, PTL

(***************************************************************************)
(* The connections of an exported model are those the files ask for, but   *)
(* for those the order of the set takes for another one.                   *)
(***************************************************************************)
THEOREM ConnectionsExact ==
  Spec => []ConnectionsAreExact
<1>1. ASSUME IInv
      PROVE  ConnectionsAreExact
  <2>1. CASE reading = "done"
    BY <1>1, <2>1, ModelsAreExact DEF IInv, ProcessInv
  <2>2. CASE reading # "done"
    BY <1>1, <2>2, BeforeTheEnd DEF ConnectionsAreExact
  <2> QED
    BY <2>1, <2>2
<1> QED
  BY <1>1, Invariance, PTL

(***************************************************************************)
(* Every macro connect of the dyd file refers to a macro connector that is *)
(* written with it.                                                        *)
(***************************************************************************)
THEOREM ConnectorsWritten ==
  Spec => []ConnectorsAreWritten
<1>1. ASSUME IInv
      PROVE  ConnectorsAreWritten
  <2>1. CASE reading = "done"
    BY <1>1, <2>1 DEF IInv, ProcessInv, AlgoInv
  <2>2. CASE reading # "done"
    BY <1>1, <2>2, BeforeTheEnd DEF ConnectorsAreWritten
  <2> QED
    BY <2>1, <2>2
<1> QED
  BY <1>1, Invariance, PTL

(***************************************************************************)
(* The counts of the par file are those of the macro connects of the dyd   *)
(* file, although two modules of the program count apart.                  *)
(***************************************************************************)
THEOREM CountsMatched ==
  Spec => []CountsMatchConnections
<1>1. ASSUME IInv
      PROVE  CountsMatchConnections
  <2>1. CASE stage = "written"
    BY <1>1, <2>1, WhenWritten, CountsMatch
  <2>2. CASE stage # "written"
    BY <2>2 DEF CountsMatchConnections
  <2> QED
    BY <2>1, <2>2
<1> QED
  BY <1>1, Invariance, PTL

(***************************************************************************)
(* The references and the seasons of the par file name elements to which   *)
(* the dyd file connects the model.                                        *)
(***************************************************************************)
THEOREM ReferencesMatched ==
  Spec => []ReferencesMatchConnections
<1>1. ASSUME IInv
      PROVE  ReferencesMatchConnections
  <2>1. CASE stage = "written"
    BY <1>1, <2>1, WhenWritten, ReferencesMatch
  <2>2. CASE stage # "written"
    BY <2>2 DEF ReferencesMatchConnections
  <2> QED
    BY <2>1, <2>2
<1> QED
  BY <1>1, Invariance, PTL

=============================================================================
