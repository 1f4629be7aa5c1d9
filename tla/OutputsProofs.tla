---------------------------- MODULE OutputsProofs ----------------------------
(***************************************************************************)
(* Proofs about Outputs, for every set of definitions: the references of   *)
(* the files the three writers have written resolve, and an id names one   *)
(* model and one parameter set.                                            *)
(***************************************************************************)
EXTENDS Outputs, SequenceLemmas

-----------------------------------------------------------------------------
(***************************************************************************)
(* Sequences of records with an id.                                        *)
(***************************************************************************)

\* s writes the records of R; its ids are distinct; those of R and Q differ.
Writes(s, R) == s \in Seq(R) /\ ToSet(s) = R
Distinct(s) == \A i, j \in DOMAIN s : s[i].id = s[j].id => i = j
Apart(R, Q) == \A r \in R, q \in Q : r.id # q.id

\* A loop writes what it writes for each element of its container.
LEMMA EachWrites ==
  ASSUME NEW S, IsFiniteSet(S), NEW f, f = [x \in S |-> f[x]],
         NEW R, R = {f[x] : x \in S}
  PROVE  /\ Writes(Each(f), R)
         /\ (\A x, y \in S : f[x].id = f[y].id => x = y) => Distinct(Each(f))
<1> DEFINE order == SetToSeq(S)
           s == [i \in DOMAIN order |-> f[order[i]]]
<1>1. order \in Seq(S) /\ ToSet(order) = S /\ IsInjective(order)
  BY ListingExists, ListingCovers
<1>2. DOMAIN order = 1..Len(order) /\ Len(order) \in Nat
  BY <1>1
<1>3. \A i \in DOMAIN order : order[i] \in S
  BY <1>1
<1>4. Each(f) = s
  BY DEF Each
<1> HIDE DEF order
<1>5. s \in Seq(R)
  <2>1. s \in [1..Len(order) -> R]
    BY <1>2, <1>3
  <2> HIDE DEF s
  <2> QED
    BY <1>2, <2>1
<1>6. ToSet(s) = R
  <2>1. \A x \in S : \E i \in DOMAIN order : order[i] = x
    BY <1>1 DEF ToSet
  <2> QED
    BY <1>3, <2>1 DEF ToSet
<1>7. ASSUME \A x, y \in S : f[x].id = f[y].id => x = y
      PROVE  Distinct(s)
  BY <1>1, <1>3, <1>7 DEF Distinct, IsInjective
<1> QED
  BY <1>4, <1>5, <1>6, <1>7 DEF Writes

\* One record.
LEMMA OneWrites ==
  ASSUME NEW r
  PROVE  Writes(<<r>>, {r}) /\ Distinct(<<r>>)
<1>1. <<r>> \in Seq({r}) /\ DOMAIN <<r>> = {1}
  OBVIOUS
<1>2. ToSet(<<r>>) = {r}
  BY ToSetSingle
<1> QED
  BY <1>1, <1>2 DEF Writes, Distinct

\* Two loops, one after the other.
LEMMA ConcatWrites ==
  ASSUME NEW s, NEW t, NEW R, NEW Q, Writes(s, R), Writes(t, Q)
  PROVE  /\ Writes(s \o t, R \union Q)
         /\ Distinct(s) /\ Distinct(t) /\ Apart(R, Q) => Distinct(s \o t)
<1>1. s \in Seq(R) /\ t \in Seq(Q) /\ ToSet(s) = R /\ ToSet(t) = Q
  BY DEF Writes
<1>2. Writes(s \o t, R \union Q)
  <2>1. s \o t \in Seq(R \union Q)
    BY <1>1
  <2>2. ToSet(s \o t) = ToSet(s) \union ToSet(t)
    <3>1. s \in Seq(R)
      BY <1>1
    <3>2. t \in Seq(Q)
      BY <1>1
    <3> QED
      BY <3>1, <3>2, ToSetConcat, ZenonT(40)
  <2> QED
    BY <1>1, <2>1, <2>2 DEF Writes
<1>3. ASSUME Distinct(s), Distinct(t), Apart(R, Q)
      PROVE  Distinct(s \o t)
  <2> DEFINE c == s \o t
  <2>1. /\ Len(s) \in Nat /\ Len(t) \in Nat
        /\ DOMAIN s = 1..Len(s) /\ DOMAIN t = 1..Len(t)
        /\ DOMAIN c = 1..Len(s) + Len(t)
        /\ \A i \in 1..Len(s) : c[i] = s[i] /\ s[i] \in R
        /\ \A i \in 1..Len(t) : c[Len(s) + i] = t[i] /\ t[i] \in Q
    BY <1>1
  <2> HIDE DEF c
  <2>2. \A i \in DOMAIN c : i <= Len(s) \/ \E k \in 1..Len(t) : i = Len(s) + k
    <3> SUFFICES ASSUME NEW i \in DOMAIN c, ~(i <= Len(s))
                 PROVE  \E k \in 1..Len(t) : i = Len(s) + k
      OBVIOUS
    <3>1. i - Len(s) \in 1..Len(t) /\ i = Len(s) + (i - Len(s))
      BY <2>1
    <3> QED
      BY <3>1
  <2>3. \A i \in DOMAIN c : i <= Len(s) => i \in 1..Len(s)
    BY <2>1
  <2>4. SUFFICES ASSUME NEW i \in DOMAIN c, NEW j \in DOMAIN c, c[i].id = c[j].id
                 PROVE  i = j
    BY DEF Distinct, c
  <2>5. CASE i <= Len(s) /\ j <= Len(s)
    BY <1>3, <2>1, <2>3, <2>4, <2>5 DEF Distinct
  <2>6. CASE i <= Len(s) /\ ~(j <= Len(s))
    BY <1>3, <2>1, <2>2, <2>3, <2>4, <2>6 DEF Apart
  <2>7. CASE ~(i <= Len(s)) /\ j <= Len(s)
    BY <1>3, <2>1, <2>2, <2>3, <2>4, <2>7 DEF Apart
  <2>8. CASE ~(i <= Len(s)) /\ ~(j <= Len(s))
    <3>1. PICK k \in 1..Len(t), m \in 1..Len(t) : i = Len(s) + k /\ j = Len(s) + m
      BY <2>2, <2>8
    <3>2. t[k].id = t[m].id
      BY <2>1, <2>4, <3>1
    <3> QED
      BY <1>3, <2>1, <3>1, <3>2 DEF Distinct
  <2> QED
    BY <2>5, <2>6, <2>7, <2>8
<1> QED
  BY <1>2, <1>3

\* Distinct ids are as many as records.
LEMMA DistinctCount ==
  ASSUME NEW s, NEW R, Writes(s, R), Distinct(s)
  PROVE  Cardinality({r.id : r \in ToSet(s)}) = Len(s)
<1> DEFINE Id == {r.id : r \in R}
           ids == [i \in DOMAIN s |-> s[i].id]
<1>1. s \in Seq(R) /\ ToSet(s) = R /\ DOMAIN s = 1..Len(s) /\ Len(s) \in Nat
  BY DEF Writes
<1>2. ids \in Seq(Id) /\ Len(ids) = Len(s)
  <2>1. ids \in [1..Len(s) -> Id]
    BY <1>1
  <2> HIDE DEF ids, Id
  <2> QED
    BY <1>1, <2>1
<1>3. IsInjective(ids)
  BY DEF Distinct, IsInjective
<1>4. ToSet(ids) = Id
  BY <1>1 DEF ToSet
<1> HIDE DEF ids, Id
<1>5. Cardinality(Id) = Len(s)
  BY <1>2, <1>3, <1>4, InjectiveLength
<1> QED
  BY <1>1, <1>5 DEF Id

-----------------------------------------------------------------------------
\* What the writers give is a function of the definitions.
LEMMA SameInput ==
  input' = input =>
      /\ Models' = Models
      /\ Connections' = Connections
      /\ writeDynamicModelMacroConnectors' = writeDynamicModelMacroConnectors
      /\ Uses' = Uses
      /\ Sets' = Sets
      /\ MacroSets' = MacroSets
<1> SUFFICES ASSUME input' = input
             PROVE  /\ Models' = Models
      /\ Connections' = Connections
      /\ writeDynamicModelMacroConnectors' = writeDynamicModelMacroConnectors
      /\ Uses' = Uses
      /\ Sets' = Sets
      /\ MacroSets' = MacroSets
  OBVIOUS
<1>1. Models' = Models
  BY DEF Models, HvdcIds
<1>2. Connections' = Connections
  BY DEF Connections
<1>3. writeDynamicModelMacroConnectors' = writeDynamicModelMacroConnectors
  BY DEF writeDynamicModelMacroConnectors
<1>4. Uses' = Uses
  BY DEF Uses
<1>5. Sets' = Sets
  BY DEF Sets, ConstantSets, WithDiagram, WithoutDiagram, SettingSets
<1>6. MacroSets' = MacroSets
  BY DEF MacroSets, WithDiagram
<1> QED
  BY <1>1, <1>2, <1>3, <1>4, <1>5, <1>6

\* The values of a function on a finite set are finitely many.
LEMMA ImageFinite ==
  ASSUME NEW S, IsFiniteSet(S), NEW f, f = [x \in S |-> f[x]]
  PROVE  IsFiniteSet({f[x] : x \in S})
<1> DEFINE R == {f[x] : x \in S}
<1>1. f \in Surjection(S, R)
  <2>1. f \in [S -> R]
    OBVIOUS
  <2> QED
    BY <2>1 DEF Surjection
<1> QED
  BY <1>1, FS_Surjection

\* The containers of the loops are finite.
LEMMA FiniteContainers ==
  ASSUME IsDescription(input)
  PROVE  /\ IsFiniteSet(input.loads) /\ IsFiniteSet(input.svarcs)
         /\ IsFiniteSet(input.generators) /\ IsFiniteSet(input.hvdcLines)
         /\ IsFiniteSet(DOMAIN input.models) /\ IsFiniteSet(HvdcIds)
         /\ IsFiniteSet(input.busesWithDynamicModel)
         /\ IsFiniteSet(input.vscBuses)
         /\ IsFiniteSet(WithDiagram)
         /\ IsFiniteSet({getGeneratorParameterSetId(g) : g \in WithoutDiagram})
         /\ IsFiniteSet(SettingSets)
<1>1. /\ IsFiniteSet(input.loads) /\ IsFiniteSet(input.svarcs)
      /\ IsFiniteSet(input.generators) /\ IsFiniteSet(input.hvdcLines)
      /\ IsFiniteSet(DOMAIN input.models)
  BY DEF IsDescription
<1>2. IsFiniteSet(WithDiagram) /\ IsFiniteSet(WithoutDiagram) /\ IsFiniteSet(SettingSets)
  BY <1>1, FS_Subset DEF WithDiagram, WithoutDiagram, SettingSets
<1>3. IsFiniteSet(HvdcIds)
  <2> DEFINE f == [h \in input.hvdcLines |-> h.id]
  <2>1. HvdcIds = {f[h] : h \in input.hvdcLines}
    BY DEF HvdcIds
  <2>2. f = [h \in input.hvdcLines |-> f[h]]
    OBVIOUS
  <2> HIDE DEF f
  <2> QED
    BY <1>1, <2>1, <2>2, ImageFinite
<1>4. IsFiniteSet({getGeneratorParameterSetId(g) : g \in WithoutDiagram})
  <2> DEFINE f == [g \in WithoutDiagram |-> getGeneratorParameterSetId(g)]
  <2>1. {getGeneratorParameterSetId(g) : g \in WithoutDiagram} = {f[g] : g \in WithoutDiagram}
    OBVIOUS
  <2>2. f = [g \in WithoutDiagram |-> f[g]]
    OBVIOUS
  <2> HIDE DEF f
  <2>3. IsFiniteSet({f[g] : g \in WithoutDiagram})
    BY <1>2, <2>2, ImageFinite
  <2> QED
    BY <2>1, <2>3
<1>5. IsFiniteSet(input.busesWithDynamicModel)
  <2> DEFINE f == [g \in input.generators |-> g.regulatedBusId]
  <2>1. input.busesWithDynamicModel \subseteq {f[g] : g \in input.generators}
    BY DEF IsDescription
  <2>2. f = [g \in input.generators |-> f[g]]
    OBVIOUS
  <2> HIDE DEF f
  <2>3. IsFiniteSet({f[g] : g \in input.generators})
    BY <1>1, <2>2, ImageFinite
  <2> QED
    BY <2>1, <2>3, FS_Subset
<1>6. IsFiniteSet(input.vscBuses)
  <2> DEFINE f == [h \in input.hvdcLines |-> h.buses[1]]
             s == [h \in input.hvdcLines |-> h.buses[2]]
             F == {f[h] : h \in input.hvdcLines}
             S == {s[h] : h \in input.hvdcLines}
  <2>1. input.vscBuses \subseteq F \union S
    <3>1. input.vscBuses = UNION {{h.buses[e] : e \in MainEnds(h)} :
                                     h \in {x \in input.hvdcLines : x.pqProp}}
      BY DEF IsDescription
    <3>2. \A b \in input.vscBuses : \E h \in input.hvdcLines, e \in {1, 2} :
              b = h.buses[e]
      BY <3>1 DEF MainEnds
    <3> QED
      BY <3>2
  <2>2. f = [h \in input.hvdcLines |-> f[h]] /\ s = [h \in input.hvdcLines |-> s[h]]
    OBVIOUS
  <2> HIDE DEF f, s
  <2>3. IsFiniteSet(F)
    BY <1>1, <2>2, ImageFinite
  <2>4. IsFiniteSet(S)
    BY <1>1, <2>2, ImageFinite
  <2> HIDE DEF F, S
  <2> QED
    BY <2>1, <2>3, <2>4, FS_Subset, FS_Union
<1> QED
  BY <1>1, <1>2, <1>3, <1>4, <1>5, <1>6

\* The elements of the five kinds share no name.
LEMMA KindsApart ==
  ASSUME IsDescription(input)
  PROVE  LET G == {g.id : g \in input.generators}
             A == DOMAIN input.models
         IN  /\ input.loads \intersect input.svarcs = {}
             /\ input.loads \intersect G = {}
             /\ input.loads \intersect HvdcIds = {}
             /\ input.loads \intersect A = {}
             /\ input.svarcs \intersect G = {}
             /\ input.svarcs \intersect HvdcIds = {}
             /\ input.svarcs \intersect A = {}
             /\ G \intersect HvdcIds = {}
             /\ G \intersect A = {}
             /\ HvdcIds \intersect A = {}
             /\ \A g, h \in input.generators : g.id = h.id => g = h
             /\ \A g, h \in input.hvdcLines : g.id = h.id => g = h
<1> DEFINE kinds == <<input.loads, input.svarcs, {g.id : g \in input.generators},
                      {h.id : h \in input.hvdcLines}, DOMAIN input.models>>
<1>1. /\ \A i, j \in 1..5 : i # j => kinds[i] \intersect kinds[j] = {}
      /\ \A g, h \in input.generators : g.id = h.id => g = h
      /\ \A g, h \in input.hvdcLines : g.id = h.id => g = h
  BY DEF IsDescription, HaveUniqueIds
<1>2. /\ kinds[1] = input.loads /\ kinds[2] = input.svarcs
      /\ kinds[3] = {g.id : g \in input.generators}
      /\ kinds[4] = HvdcIds /\ kinds[5] = DOMAIN input.models
  BY DEF HvdcIds
<1> HIDE DEF kinds
<1>3. /\ kinds[1] \intersect kinds[2] = {} /\ kinds[1] \intersect kinds[3] = {}
      /\ kinds[1] \intersect kinds[4] = {} /\ kinds[1] \intersect kinds[5] = {}
      /\ kinds[2] \intersect kinds[3] = {} /\ kinds[2] \intersect kinds[4] = {}
      /\ kinds[2] \intersect kinds[5] = {} /\ kinds[3] \intersect kinds[4] = {}
      /\ kinds[3] \intersect kinds[5] = {} /\ kinds[4] \intersect kinds[5] = {}
  BY <1>1
<1> QED
  BY <1>1, <1>2, <1>3

-----------------------------------------------------------------------------
(***************************************************************************)
(* The dyd file: its models, loop by loop.                                 *)
(***************************************************************************)
Loads == {writeLoad(l) : l \in input.loads}
SignalNs == {[id |-> SignalN, parId |-> NoParId]}
Machines == {writeGenerator(g) : g \in input.generators}
Hvdcs == {OwnSet(h) : h \in HvdcIds}
Remotes == {writeVRRemote(b) : b \in input.busesWithDynamicModel}
VscRemotes == {writeVRRemote(b) : b \in input.vscBuses}
Automatons == {OwnSet(a) : a \in DOMAIN input.models}
Svarcs == {OwnSet(c) : c \in input.svarcs}

ModelRecords == Loads \union SignalNs \union Machines \union Hvdcs
                \union Remotes \union VscRemotes \union Automatons \union Svarcs

Unshared == input.busesWithDynamicModel \intersect input.vscBuses = {}

\* Each loop writes its models, with distinct ids.
LEMMA LoopsOfDyd ==
  ASSUME IsDescription(input)
  PROVE  LET Wrote(s, R) == Writes(s, R) /\ Distinct(s)
         IN  /\ Wrote(Each([l \in input.loads |-> writeLoad(l)]), Loads)
             /\ Wrote(writeConstantsModel, SignalNs)
             /\ Wrote(Each([g \in input.generators |-> writeGenerator(g)]), Machines)
             /\ Wrote(Each([h \in HvdcIds |-> OwnSet(h)]), Hvdcs)
             /\ Wrote(Each([b \in input.busesWithDynamicModel |-> writeVRRemote(b)]),
                      Remotes)
             /\ Wrote(Each([b \in input.vscBuses |-> writeVRRemote(b)]), VscRemotes)
             /\ Wrote(Each([a \in DOMAIN input.models |-> OwnSet(a)]), Automatons)
             /\ Wrote(Each([c \in input.svarcs |-> OwnSet(c)]), Svarcs)
<1> DEFINE Wrote(s, R) == Writes(s, R) /\ Distinct(s)
<1>1. Wrote(Each([l \in input.loads |-> writeLoad(l)]), Loads)
  <2> DEFINE f == [l \in input.loads |-> writeLoad(l)]
  <2>1. f = [l \in input.loads |-> f[l]] /\ IsFiniteSet(input.loads)
    BY FiniteContainers
  <2>2. Loads = {f[x] : x \in input.loads}
    BY DEF Loads
  <2>3. \A x, y \in input.loads : f[x].id = f[y].id => x = y
    BY DEF writeLoad, Element
  <2> HIDE DEF f
  <2>4. Wrote(Each(f), Loads)
    BY <2>1, <2>2, <2>3, EachWrites
  <2> QED
    BY <2>4 DEF f
<1>2. Wrote(writeConstantsModel, SignalNs)
  BY OneWrites DEF writeConstantsModel, SignalNs
<1>3. Wrote(Each([g \in input.generators |-> writeGenerator(g)]), Machines)
  <2> DEFINE f == [g \in input.generators |-> writeGenerator(g)]
  <2>1. f = [g \in input.generators |-> f[g]] /\ IsFiniteSet(input.generators)
    BY FiniteContainers
  <2>2. Machines = {f[x] : x \in input.generators}
    BY DEF Machines
  <2>3. \A x, y \in input.generators : f[x].id = f[y].id => x = y
    BY KindsApart DEF writeGenerator, Element
  <2> HIDE DEF f
  <2>4. Wrote(Each(f), Machines)
    BY <2>1, <2>2, <2>3, EachWrites
  <2> QED
    BY <2>4 DEF f
<1>4. Wrote(Each([h \in HvdcIds |-> OwnSet(h)]), Hvdcs)
  <2> DEFINE f == [h \in HvdcIds |-> OwnSet(h)]
  <2>1. f = [h \in HvdcIds |-> f[h]] /\ IsFiniteSet(HvdcIds)
    BY FiniteContainers
  <2>2. Hvdcs = {f[x] : x \in HvdcIds}
    BY DEF Hvdcs
  <2>3. \A x, y \in HvdcIds : f[x].id = f[y].id => x = y
    BY DEF OwnSet, Element
  <2> HIDE DEF f
  <2>4. Wrote(Each(f), Hvdcs)
    BY <2>1, <2>2, <2>3, EachWrites
  <2> QED
    BY <2>4 DEF f
<1>5. Wrote(Each([b \in input.busesWithDynamicModel |-> writeVRRemote(b)]), Remotes)
  <2> DEFINE f == [b \in input.busesWithDynamicModel |-> writeVRRemote(b)]
  <2>1. f = [b \in input.busesWithDynamicModel |-> f[b]] /\ IsFiniteSet(input.busesWithDynamicModel)
    BY FiniteContainers
  <2>2. Remotes = {f[x] : x \in input.busesWithDynamicModel}
    BY DEF Remotes
  <2>3. \A x, y \in input.busesWithDynamicModel : f[x].id = f[y].id => x = y
    BY DEF writeVRRemote, SignalNQ
  <2> HIDE DEF f
  <2>4. Wrote(Each(f), Remotes)
    BY <2>1, <2>2, <2>3, EachWrites
  <2> QED
    BY <2>4 DEF f
<1>6. Wrote(Each([b \in input.vscBuses |-> writeVRRemote(b)]), VscRemotes)
  <2> DEFINE f == [b \in input.vscBuses |-> writeVRRemote(b)]
  <2>1. f = [b \in input.vscBuses |-> f[b]] /\ IsFiniteSet(input.vscBuses)
    BY FiniteContainers
  <2>2. VscRemotes = {f[x] : x \in input.vscBuses}
    BY DEF VscRemotes
  <2>3. \A x, y \in input.vscBuses : f[x].id = f[y].id => x = y
    BY DEF writeVRRemote, SignalNQ
  <2> HIDE DEF f
  <2>4. Wrote(Each(f), VscRemotes)
    BY <2>1, <2>2, <2>3, EachWrites
  <2> QED
    BY <2>4 DEF f
<1>7. Wrote(Each([a \in DOMAIN input.models |-> OwnSet(a)]), Automatons)
  <2> DEFINE f == [a \in DOMAIN input.models |-> OwnSet(a)]
  <2>1. f = [a \in DOMAIN input.models |-> f[a]] /\ IsFiniteSet(DOMAIN input.models)
    BY FiniteContainers
  <2>2. Automatons = {f[x] : x \in DOMAIN input.models}
    BY DEF Automatons
  <2>3. \A x, y \in DOMAIN input.models : f[x].id = f[y].id => x = y
    BY DEF OwnSet, Element
  <2> HIDE DEF f
  <2>4. Wrote(Each(f), Automatons)
    BY <2>1, <2>2, <2>3, EachWrites
  <2> QED
    BY <2>4 DEF f
<1>8. Wrote(Each([c \in input.svarcs |-> OwnSet(c)]), Svarcs)
  <2> DEFINE f == [c \in input.svarcs |-> OwnSet(c)]
  <2>1. f = [c \in input.svarcs |-> f[c]] /\ IsFiniteSet(input.svarcs)
    BY FiniteContainers
  <2>2. Svarcs = {f[x] : x \in input.svarcs}
    BY DEF Svarcs
  <2>3. \A x, y \in input.svarcs : f[x].id = f[y].id => x = y
    BY DEF OwnSet, Element
  <2> HIDE DEF f
  <2>4. Wrote(Each(f), Svarcs)
    BY <2>1, <2>2, <2>3, EachWrites
  <2> QED
    BY <2>4 DEF f
<1> QED
  BY <1>1, <1>2, <1>3, <1>4, <1>5, <1>6, <1>7, <1>8

\* The ids the loops write are of different kinds, but for those of the buses.
LEMMA IdsOfDyd ==
  ASSUME IsDescription(input)
  PROVE  /\ \A r \in Loads : \E n \in input.loads : r.id = Element(n)
         /\ \A r \in SignalNs : r.id = SignalN
         /\ \A r \in Machines : \E g \in input.generators : r.id = Element(g.id)
         /\ \A r \in Hvdcs : \E n \in HvdcIds : r.id = Element(n)
         /\ \A r \in Remotes : \E n \in input.busesWithDynamicModel : r.id = SignalNQ(n)
         /\ \A r \in VscRemotes : \E n \in input.vscBuses : r.id = SignalNQ(n)
         /\ \A r \in Automatons : \E n \in DOMAIN input.models : r.id = Element(n)
         /\ \A r \in Svarcs : \E n \in input.svarcs : r.id = Element(n)
BY DEF Loads, SignalNs, Machines, Hvdcs, Remotes, VscRemotes, Automatons, Svarcs,
       writeLoad, writeGenerator, OwnSet, writeVRRemote

\* Each loop writes other ids than those before it.
LEMMA LoopsApart ==
  ASSUME IsDescription(input)
  PROVE  /\ Apart(Loads, SignalNs)
         /\ Apart(Loads \union SignalNs, Machines)
         /\ Apart(Loads \union SignalNs \union Machines, Hvdcs)
         /\ Apart(Loads \union SignalNs \union Machines \union Hvdcs, Remotes)
         /\ Unshared => Apart(Loads \union SignalNs \union Machines \union Hvdcs
                              \union Remotes, VscRemotes)
         /\ Apart(Loads \union SignalNs \union Machines \union Hvdcs \union Remotes
                  \union VscRemotes, Automatons)
         /\ Apart(Loads \union SignalNs \union Machines \union Hvdcs \union Remotes
                  \union VscRemotes \union Automatons, Svarcs)
<1>1. /\ \A n, m : Element(n) = Element(m) => n = m
      /\ \A n, m : SignalNQ(n) = SignalNQ(m) => n = m
      /\ \A n, m : Element(n) # SignalNQ(m)
      /\ \A n : Element(n) # SignalN /\ SignalNQ(n) # SignalN
  BY DEF Element, SignalNQ, SignalN, Constant
<1>2. /\ Apart(Loads, SignalNs) /\ Apart(Machines, SignalNs) /\ Apart(Hvdcs, SignalNs)
      /\ Apart(Remotes, SignalNs) /\ Apart(VscRemotes, SignalNs)
      /\ Apart(Automatons, SignalNs) /\ Apart(Svarcs, SignalNs)
  BY <1>1, IdsOfDyd DEF Apart
<1>3. /\ Apart(Loads, Remotes) /\ Apart(Machines, Remotes) /\ Apart(Hvdcs, Remotes)
      /\ Apart(Automatons, Remotes) /\ Apart(Svarcs, Remotes)
      /\ Apart(Loads, VscRemotes) /\ Apart(Machines, VscRemotes)
      /\ Apart(Hvdcs, VscRemotes) /\ Apart(Automatons, VscRemotes)
      /\ Apart(Svarcs, VscRemotes)
  BY <1>1, IdsOfDyd DEF Apart
<1>4. Unshared => Apart(Remotes, VscRemotes)
  BY <1>1, IdsOfDyd DEF Apart, Unshared
<1>5. /\ Apart(Loads, Machines) /\ Apart(Loads, Hvdcs)
      /\ Apart(Loads, Automatons) /\ Apart(Loads, Svarcs)
  BY <1>1, IdsOfDyd, KindsApart DEF Apart
<1>6. /\ Apart(Machines, Hvdcs) /\ Apart(Machines, Automatons)
      /\ Apart(Machines, Svarcs)
  BY <1>1, IdsOfDyd, KindsApart DEF Apart
<1>7. /\ Apart(Hvdcs, Automatons) /\ Apart(Hvdcs, Svarcs)
      /\ Apart(Automatons, Svarcs)
  BY <1>1, IdsOfDyd, KindsApart DEF Apart
<1> QED
  BY <1>2, <1>3, <1>4, <1>5, <1>6, <1>7 DEF Apart

\* Dyd::write writes the eight kinds of models; their ids are distinct when no
\* bus is in both maps of shared buses.
LEMMA ModelsWritten ==
  ASSUME IsDescription(input)
  PROVE  Writes(Models, ModelRecords) /\ (Unshared => Distinct(Models))
<1> DEFINE loads == Each([l \in input.loads |-> writeLoad(l)])
           machines == Each([g \in input.generators |-> writeGenerator(g)])
           hvdcs == Each([h \in HvdcIds |-> OwnSet(h)])
           remotes == Each([b \in input.busesWithDynamicModel |-> writeVRRemote(b)])
           vscs == Each([b \in input.vscBuses |-> writeVRRemote(b)])
           automatons == Each([a \in DOMAIN input.models |-> OwnSet(a)])
           svarcs == Each([c \in input.svarcs |-> OwnSet(c)])
           c1 == loads \o writeConstantsModel
           c2 == c1 \o machines
           c3 == c2 \o hvdcs
           c4 == c3 \o remotes
           c5 == c4 \o vscs
           c6 == c5 \o automatons
           c7 == c6 \o svarcs
<1>1. /\ Writes(loads, Loads) /\ Distinct(loads)
      /\ Writes(writeConstantsModel, SignalNs) /\ Distinct(writeConstantsModel)
      /\ Writes(machines, Machines) /\ Distinct(machines)
      /\ Writes(hvdcs, Hvdcs) /\ Distinct(hvdcs)
      /\ Writes(remotes, Remotes) /\ Distinct(remotes)
      /\ Writes(vscs, VscRemotes) /\ Distinct(vscs)
      /\ Writes(automatons, Automatons) /\ Distinct(automatons)
      /\ Writes(svarcs, Svarcs) /\ Distinct(svarcs)
  BY LoopsOfDyd
<1>2. Models = c7
  BY DEF Models
<1> HIDE DEF loads, machines, hvdcs, remotes, vscs, automatons, svarcs
<1>3. Writes(c1, Loads \union SignalNs) /\ Distinct(c1)
  BY <1>1, ConcatWrites, LoopsApart
<1> HIDE DEF c1
<1>4. Writes(c2, Loads \union SignalNs \union Machines) /\ Distinct(c2)
  BY <1>1, <1>3, ConcatWrites, LoopsApart
<1> HIDE DEF c2
<1>5. Writes(c3, Loads \union SignalNs \union Machines \union Hvdcs) /\ Distinct(c3)
  BY <1>1, <1>4, ConcatWrites, LoopsApart
<1> HIDE DEF c3
<1>6. /\ Writes(c4, Loads \union SignalNs \union Machines \union Hvdcs \union Remotes)
      /\ Distinct(c4)
  BY <1>1, <1>5, ConcatWrites, LoopsApart
<1> HIDE DEF c4
<1>7. /\ Writes(c5, Loads \union SignalNs \union Machines \union Hvdcs \union Remotes
                     \union VscRemotes)
      /\ Unshared => Distinct(c5)
  BY <1>1, <1>6, ConcatWrites, LoopsApart
<1> HIDE DEF c5
<1>8. /\ Writes(c6, Loads \union SignalNs \union Machines \union Hvdcs \union Remotes
                     \union VscRemotes \union Automatons)
      /\ Unshared => Distinct(c6)
  BY <1>1, <1>7, ConcatWrites, LoopsApart
<1> HIDE DEF c6
<1>9. Writes(c7, ModelRecords) /\ (Unshared => Distinct(c7))
  BY <1>1, <1>8, ConcatWrites, LoopsApart DEF ModelRecords
<1> QED
  BY <1>2, <1>9

-----------------------------------------------------------------------------
(***************************************************************************)
(* The par file: its sets, loop by loop.                                   *)
(***************************************************************************)
ConstantIds == {getGeneratorParameterSetId(g) : g \in WithoutDiagram}

LoadSets == {Plain(Constant("GenericRestorativeLoad"))}
MachineSets == {GeneratorSet(g) : g \in WithDiagram}
SharedSets == {Plain(Constant(id)) : id \in ConstantIds}
SvarcSets == {writeStaticVarCompensator(c) : c \in input.svarcs}
HvdcSets == {writeHvdcLine(h) : h \in input.hvdcLines}
RemoteSets == {RemoteSet(b) : b \in input.busesWithDynamicModel}
VscSets == {RemoteSet(b) : b \in input.vscBuses}
AutomatonSets == {Plain(Element(s)) : s \in SettingSets}

SetRecords == LoadSets \union MachineSets \union SharedSets \union SvarcSets
              \union HvdcSets \union RemoteSets \union VscSets \union AutomatonSets

\* Each loop writes its sets, with distinct ids.
LEMMA LoopsOfPar ==
  ASSUME IsDescription(input)
  PROVE  LET Wrote(s, R) == Writes(s, R) /\ Distinct(s)
             load == Plain(Constant("GenericRestorativeLoad"))
         IN  /\ Wrote(<<load>>, LoadSets)
             /\ Wrote(Each([g \in WithDiagram |-> GeneratorSet(g)]), MachineSets)
             /\ Wrote(ConstantSets, SharedSets)
             /\ Wrote(Each([c \in input.svarcs |-> writeStaticVarCompensator(c)]),
                      SvarcSets)
             /\ Wrote(Each([h \in input.hvdcLines |-> writeHvdcLine(h)]), HvdcSets)
             /\ Wrote(Each([b \in input.busesWithDynamicModel |-> RemoteSet(b)]),
                      RemoteSets)
             /\ Wrote(Each([b \in input.vscBuses |-> RemoteSet(b)]), VscSets)
             /\ Wrote(Each([s \in SettingSets |-> Plain(Element(s))]), AutomatonSets)
<1> DEFINE Wrote(s, R) == Writes(s, R) /\ Distinct(s)
<1>1. Wrote(<<Plain(Constant("GenericRestorativeLoad"))>>, LoadSets)
  BY OneWrites DEF LoadSets
<1>2. Wrote(Each([g \in WithDiagram |-> GeneratorSet(g)]), MachineSets)
  <2> DEFINE f == [g \in WithDiagram |-> GeneratorSet(g)]
  <2>1. f = [g \in WithDiagram |-> f[g]] /\ IsFiniteSet(WithDiagram)
    BY FiniteContainers
  <2>2. MachineSets = {f[x] : x \in WithDiagram}
    BY DEF MachineSets
  <2>3. \A x, y \in WithDiagram : f[x].id = f[y].id => x = y
    BY KindsApart DEF GeneratorSet, Hash, WithDiagram
  <2> HIDE DEF f
  <2>4. Wrote(Each(f), MachineSets)
    BY <2>1, <2>2, <2>3, EachWrites
  <2> QED
    BY <2>4 DEF f
<1>3. Wrote(ConstantSets, SharedSets)
  <2> DEFINE f == [id \in ConstantIds |-> Plain(Constant(id))]
  <2>1. f = [id \in ConstantIds |-> f[id]] /\ IsFiniteSet(ConstantIds)
    BY FiniteContainers DEF ConstantIds
  <2>2. SharedSets = {f[x] : x \in ConstantIds}
    BY DEF SharedSets
  <2>3. \A x, y \in ConstantIds : f[x].id = f[y].id => x = y
    BY DEF Plain, Constant
  <2> HIDE DEF f
  <2>4. Wrote(Each(f), SharedSets)
    BY <2>1, <2>2, <2>3, EachWrites
  <2> QED
    BY <2>4 DEF f, ConstantSets, ConstantIds
<1>4. Wrote(Each([c \in input.svarcs |-> writeStaticVarCompensator(c)]), SvarcSets)
  <2> DEFINE f == [c \in input.svarcs |-> writeStaticVarCompensator(c)]
  <2>1. f = [c \in input.svarcs |-> f[c]] /\ IsFiniteSet(input.svarcs)
    BY FiniteContainers
  <2>2. SvarcSets = {f[x] : x \in input.svarcs}
    BY DEF SvarcSets
  <2>3. \A x, y \in input.svarcs : f[x].id = f[y].id => x = y
    BY DEF writeStaticVarCompensator, Element
  <2> HIDE DEF f
  <2>4. Wrote(Each(f), SvarcSets)
    BY <2>1, <2>2, <2>3, EachWrites
  <2> QED
    BY <2>4 DEF f
<1>5. Wrote(Each([h \in input.hvdcLines |-> writeHvdcLine(h)]), HvdcSets)
  <2> DEFINE f == [h \in input.hvdcLines |-> writeHvdcLine(h)]
  <2>1. f = [h \in input.hvdcLines |-> f[h]] /\ IsFiniteSet(input.hvdcLines)
    BY FiniteContainers
  <2>2. HvdcSets = {f[x] : x \in input.hvdcLines}
    BY DEF HvdcSets
  <2>3. \A x, y \in input.hvdcLines : f[x].id = f[y].id => x = y
    BY KindsApart DEF writeHvdcLine, Element
  <2> HIDE DEF f
  <2>4. Wrote(Each(f), HvdcSets)
    BY <2>1, <2>2, <2>3, EachWrites
  <2> QED
    BY <2>4 DEF f
<1>6. Wrote(Each([b \in input.busesWithDynamicModel |-> RemoteSet(b)]), RemoteSets)
  <2> DEFINE f == [b \in input.busesWithDynamicModel |-> RemoteSet(b)]
  <2>1. f = [b \in input.busesWithDynamicModel |-> f[b]] /\ IsFiniteSet(input.busesWithDynamicModel)
    BY FiniteContainers
  <2>2. RemoteSets = {f[x] : x \in input.busesWithDynamicModel}
    BY DEF RemoteSets
  <2>3. \A x, y \in input.busesWithDynamicModel : f[x].id = f[y].id => x = y
    BY DEF RemoteSet, SignalNQ
  <2> HIDE DEF f
  <2>4. Wrote(Each(f), RemoteSets)
    BY <2>1, <2>2, <2>3, EachWrites
  <2> QED
    BY <2>4 DEF f
<1>7. Wrote(Each([b \in input.vscBuses |-> RemoteSet(b)]), VscSets)
  <2> DEFINE f == [b \in input.vscBuses |-> RemoteSet(b)]
  <2>1. f = [b \in input.vscBuses |-> f[b]] /\ IsFiniteSet(input.vscBuses)
    BY FiniteContainers
  <2>2. VscSets = {f[x] : x \in input.vscBuses}
    BY DEF VscSets
  <2>3. \A x, y \in input.vscBuses : f[x].id = f[y].id => x = y
    BY DEF RemoteSet, SignalNQ
  <2> HIDE DEF f
  <2>4. Wrote(Each(f), VscSets)
    BY <2>1, <2>2, <2>3, EachWrites
  <2> QED
    BY <2>4 DEF f
<1>8. Wrote(Each([s \in SettingSets |-> Plain(Element(s))]), AutomatonSets)
  <2> DEFINE f == [s \in SettingSets |-> Plain(Element(s))]
  <2>1. f = [s \in SettingSets |-> f[s]] /\ IsFiniteSet(SettingSets)
    BY FiniteContainers
  <2>2. AutomatonSets = {f[x] : x \in SettingSets}
    BY DEF AutomatonSets
  <2>3. \A x, y \in SettingSets : f[x].id = f[y].id => x = y
    BY DEF Plain, Element
  <2> HIDE DEF f
  <2>4. Wrote(Each(f), AutomatonSets)
    BY <2>1, <2>2, <2>3, EachWrites
  <2> QED
    BY <2>4 DEF f
<1> QED
  BY <1>1, <1>2, <1>3, <1>4, <1>5, <1>6, <1>7, <1>8

\* The ids the loops write are of different kinds, but for those of the buses.
LEMMA IdsOfPar ==
  /\ \A r \in LoadSets : r.id = Constant("GenericRestorativeLoad")
  /\ \A r \in MachineSets : \E g \in WithDiagram : r.id = Hash(g.id)
  /\ \A r \in SharedSets : \E s \in Suffix : r.id = Constant(s)
  /\ \A r \in SvarcSets : \E n \in input.svarcs : r.id = Element(n)
  /\ \A r \in HvdcSets : \E n \in HvdcIds : r.id = Element(n)
  /\ \A r \in RemoteSets : \E n \in input.busesWithDynamicModel : r.id = SignalNQ(n)
  /\ \A r \in VscSets : \E n \in input.vscBuses : r.id = SignalNQ(n)
  /\ \A r \in AutomatonSets : \E n \in DOMAIN input.models : r.id = Element(n)
<1>1. \A r \in SharedSets : \E s \in Suffix : r.id = Constant(s)
  BY DEF SharedSets, ConstantIds, getGeneratorParameterSetId, Plain, Suffix
<1> QED
  BY <1>1 DEF LoadSets, MachineSets, SvarcSets, HvdcSets, HvdcIds, RemoteSets,
     VscSets, AutomatonSets, GeneratorSet, Plain, writeStaticVarCompensator,
     writeHvdcLine, RemoteSet, SettingSets

\* Each loop writes other ids than those before it.
LEMMA LoopsOfParApart ==
  ASSUME IsDescription(input)
  PROVE  /\ Apart(LoadSets, MachineSets)
         /\ Apart(LoadSets \union MachineSets, SharedSets)
         /\ Apart(LoadSets \union MachineSets \union SharedSets, SvarcSets)
         /\ Apart(LoadSets \union MachineSets \union SharedSets \union SvarcSets,
                  HvdcSets)
         /\ Apart(LoadSets \union MachineSets \union SharedSets \union SvarcSets
                  \union HvdcSets, RemoteSets)
         /\ Unshared => Apart(LoadSets \union MachineSets \union SharedSets
                  \union SvarcSets \union HvdcSets \union RemoteSets, VscSets)
         /\ Apart(LoadSets \union MachineSets \union SharedSets \union SvarcSets
                  \union HvdcSets \union RemoteSets \union VscSets, AutomatonSets)
<1>1. /\ \A n, m : Element(n) = Element(m) => n = m
      /\ \A n, m : SignalNQ(n) = SignalNQ(m) => n = m
      /\ \A n, m : Constant(n) = Constant(m) => n = m
      /\ \A n, m : Element(n) # SignalNQ(m) /\ Element(n) # Hash(m)
      /\ \A n, m : SignalNQ(n) # Hash(m) /\ Element(n) # Constant(m)
      /\ \A n, m : SignalNQ(n) # Constant(m) /\ Hash(n) # Constant(m)
  BY DEF Element, SignalNQ, Hash, Constant
<1>2. "GenericRestorativeLoad" \notin Suffix
  BY DEF Suffix
<1>3. /\ Apart(LoadSets, MachineSets) /\ Apart(LoadSets, SharedSets)
      /\ Apart(LoadSets, SvarcSets) /\ Apart(LoadSets, HvdcSets)
      /\ Apart(LoadSets, RemoteSets) /\ Apart(LoadSets, VscSets)
      /\ Apart(LoadSets, AutomatonSets)
  BY <1>1, <1>2, IdsOfPar DEF Apart
<1>4. /\ Apart(MachineSets, SharedSets) /\ Apart(MachineSets, SvarcSets)
      /\ Apart(MachineSets, HvdcSets) /\ Apart(MachineSets, RemoteSets)
      /\ Apart(MachineSets, VscSets) /\ Apart(MachineSets, AutomatonSets)
  BY <1>1, IdsOfPar DEF Apart
<1>5. /\ Apart(SharedSets, SvarcSets) /\ Apart(SharedSets, HvdcSets)
      /\ Apart(SharedSets, RemoteSets) /\ Apart(SharedSets, VscSets)
      /\ Apart(SharedSets, AutomatonSets)
  BY <1>1, IdsOfPar DEF Apart
<1>6. /\ Apart(SvarcSets, RemoteSets) /\ Apart(SvarcSets, VscSets)
      /\ Apart(HvdcSets, RemoteSets) /\ Apart(HvdcSets, VscSets)
      /\ Apart(RemoteSets, AutomatonSets) /\ Apart(VscSets, AutomatonSets)
  BY <1>1, IdsOfPar DEF Apart
<1>7. Unshared => Apart(RemoteSets, VscSets)
  BY <1>1, IdsOfPar DEF Apart, Unshared
<1>8. /\ Apart(SvarcSets, HvdcSets) /\ Apart(SvarcSets, AutomatonSets)
      /\ Apart(HvdcSets, AutomatonSets)
  BY <1>1, IdsOfPar, KindsApart DEF Apart
<1> QED
  BY <1>3, <1>4, <1>5, <1>6, <1>7, <1>8 DEF Apart

\* Par::write writes the eight kinds of sets; their ids are distinct when no
\* bus is in both maps of shared buses.
LEMMA SetsWritten ==
  ASSUME IsDescription(input)
  PROVE  Writes(Sets, SetRecords) /\ (Unshared => Distinct(Sets))
<1> DEFINE loads == <<Plain(Constant("GenericRestorativeLoad"))>>
           machines == Each([g \in WithDiagram |-> GeneratorSet(g)])
           svarcs == Each([c \in input.svarcs |-> writeStaticVarCompensator(c)])
           hvdcs == Each([h \in input.hvdcLines |-> writeHvdcLine(h)])
           remotes == Each([b \in input.busesWithDynamicModel |-> RemoteSet(b)])
           vscs == Each([b \in input.vscBuses |-> RemoteSet(b)])
           automatons == Each([s \in SettingSets |-> Plain(Element(s))])
           c1 == loads \o machines
           c2 == c1 \o ConstantSets
           c3 == c2 \o svarcs
           c4 == c3 \o hvdcs
           c5 == c4 \o remotes
           c6 == c5 \o vscs
           c7 == c6 \o automatons
<1>1. /\ Writes(loads, LoadSets) /\ Distinct(loads)
      /\ Writes(machines, MachineSets) /\ Distinct(machines)
      /\ Writes(ConstantSets, SharedSets) /\ Distinct(ConstantSets)
      /\ Writes(svarcs, SvarcSets) /\ Distinct(svarcs)
      /\ Writes(hvdcs, HvdcSets) /\ Distinct(hvdcs)
      /\ Writes(remotes, RemoteSets) /\ Distinct(remotes)
      /\ Writes(vscs, VscSets) /\ Distinct(vscs)
      /\ Writes(automatons, AutomatonSets) /\ Distinct(automatons)
  BY LoopsOfPar
<1>2. Sets = c7
  BY DEF Sets
<1> HIDE DEF loads, machines, svarcs, hvdcs, remotes, vscs, automatons
<1>3. Writes(c1, LoadSets \union MachineSets) /\ Distinct(c1)
  BY <1>1, ConcatWrites, LoopsOfParApart
<1> HIDE DEF c1
<1>4. Writes(c2, LoadSets \union MachineSets \union SharedSets) /\ Distinct(c2)
  BY <1>1, <1>3, ConcatWrites, LoopsOfParApart
<1> HIDE DEF c2
<1>5. /\ Writes(c3, LoadSets \union MachineSets \union SharedSets \union SvarcSets)
      /\ Distinct(c3)
  BY <1>1, <1>4, ConcatWrites, LoopsOfParApart
<1> HIDE DEF c3
<1>6. /\ Writes(c4, LoadSets \union MachineSets \union SharedSets \union SvarcSets
                     \union HvdcSets)
      /\ Distinct(c4)
  BY <1>1, <1>5, ConcatWrites, LoopsOfParApart
<1> HIDE DEF c4
<1>7. /\ Writes(c5, LoadSets \union MachineSets \union SharedSets \union SvarcSets
                     \union HvdcSets \union RemoteSets)
      /\ Distinct(c5)
  BY <1>1, <1>6, ConcatWrites, LoopsOfParApart
<1> HIDE DEF c5
<1>8. /\ Writes(c6, LoadSets \union MachineSets \union SharedSets \union SvarcSets
                     \union HvdcSets \union RemoteSets \union VscSets)
      /\ Unshared => Distinct(c6)
  BY <1>1, <1>7, ConcatWrites, LoopsOfParApart
<1> HIDE DEF c6
<1>9. Writes(c7, SetRecords) /\ (Unshared => Distinct(c7))
  BY <1>1, <1>8, ConcatWrites, LoopsOfParApart DEF SetRecords
<1> QED
  BY <1>2, <1>9

-----------------------------------------------------------------------------
(***************************************************************************)
(* The inductive invariant: what each file holds is what its writer gives  *)
(* for the definitions, once this writer has returned, and nothing before. *)
(***************************************************************************)
Tables == {g.id : g \in WithDiagram} \union
          UNION {ConvertersOf(h) : h \in {x \in input.hvdcLines : x.diagram}}

DydInv ==
    IF stage = "dyd"
    THEN models = <<>> /\ connections = {} /\ connectors = {} /\ uses = {}
    ELSE /\ models = Models
         /\ connections = Connections
         /\ connectors = FixedConnectors \union writeDynamicModelMacroConnectors
         /\ uses = Uses

ParInv ==
    IF stage \in {"dyd", "par"} THEN sets = <<>> /\ macroSets = {}
    ELSE sets = Sets /\ macroSets = MacroSets

DiagramInv == IF stage = "done" THEN tables = Tables ELSE tables = {}

IInv ==
    /\ IsDescription(input)
    /\ stage \in {"dyd", "par", "diagrams", "done"}
    /\ DydInv
    /\ ParInv
    /\ DiagramInv

\* Before the first writer the files are empty.
LEMMA InitInvariant == Init => IInv
  BY DescriptionsAssumption DEF Init, IInv, DydInv, ParInv, DiagramInv

\* A writer fills its own file and leaves the others and the definitions.
LEMMA NextInvariant == IInv /\ [Next]_vars => IInv'
<1> SUFFICES ASSUME IInv, [Next]_vars
             PROVE  IInv'
  OBVIOUS
<1>1. input' = input
  BY DEF Next, WriteDyd, WritePar, WriteDiagrams, Terminated, vars
<1>2. /\ Models' = Models /\ Connections' = Connections
      /\ writeDynamicModelMacroConnectors' = writeDynamicModelMacroConnectors
      /\ Uses' = Uses /\ Sets' = Sets /\ MacroSets' = MacroSets
  BY <1>1, SameInput
<1>3. Tables' = Tables
  BY <1>1 DEF Tables, WithDiagram
<1>4. IsDescription(input)'
  BY <1>1 DEF IInv
<1>5. CASE WriteDyd
  BY <1>2, <1>3, <1>4, <1>5 DEF WriteDyd, IInv, DydInv, ParInv, DiagramInv
<1>6. CASE WritePar
  BY <1>2, <1>3, <1>4, <1>6 DEF WritePar, IInv, DydInv, ParInv, DiagramInv
<1>7. CASE WriteDiagrams
  <2>1. tables' = Tables
    BY <1>7 DEF WriteDiagrams, Tables
  <2> QED
    BY <1>2, <1>3, <1>4, <1>7, <2>1 DEF WriteDiagrams, IInv, DydInv, ParInv, DiagramInv
<1>8. CASE UNCHANGED vars
  BY <1>2, <1>3, <1>4, <1>8 DEF vars, IInv, DydInv, ParInv, DiagramInv
<1> QED
  BY <1>5, <1>6, <1>7, <1>8 DEF Next, Terminated

\* The files are what their writers give, in every reachable state.
LEMMA Invariant == Spec => []IInv
  BY InitInvariant, NextInvariant, PTL DEF Spec

-----------------------------------------------------------------------------
\* The names the definitions hold.
LEMMA NamesOfInput ==
  ASSUME IsDescription(input)
  PROVE  /\ input.loads \subseteq Name /\ input.svarcs \subseteq Name
         /\ HvdcIds \subseteq Name /\ DOMAIN input.models \subseteq Name
         /\ \A g \in input.generators : g.id \in Name /\ g.regulatedBusId \in Name
         /\ input.busesWithDynamicModel \subseteq Name
         /\ input.vscBuses \subseteq Name
         /\ \A h \in input.hvdcLines : \A e \in {1, 2} :
                h.id \in Name /\ h.converters[e] \in Name /\ h.buses[e] \in Name
<1>1. \A g \in input.generators : g.id \in Name /\ g.regulatedBusId \in Name
  BY DEF IsDescription, Generator
<1>2. \A h \in input.hvdcLines : \A e \in {1, 2} :
          h.id \in Name /\ h.converters[e] \in Name /\ h.buses[e] \in Name
  BY DEF IsDescription, HvdcLine
<1>3. input.busesWithDynamicModel \subseteq Name
  BY <1>1 DEF IsDescription
<1>4. input.vscBuses \subseteq Name
  <2>1. input.vscBuses = UNION {{h.buses[e] : e \in MainEnds(h)} :
                                   h \in {x \in input.hvdcLines : x.pqProp}}
    BY DEF IsDescription
  <2>2. \A h \in input.hvdcLines : \A e \in MainEnds(h) : h.buses[e] \in Name
    BY <1>2 DEF MainEnds
  <2> QED
    BY <2>1, <2>2
<1> QED
  BY <1>1, <1>2, <1>3, <1>4 DEF IsDescription, HvdcIds

\* The types of what the writers give.
LEMMA ModelsType ==
  ASSUME IsDescription(input)
  PROVE  ModelRecords \subseteq [id : ModelId, parId : ParId \union {NoParId}]
<1>1. \A n \in Name : /\ Element(n) \in ModelId /\ SignalNQ(n) \in ModelId
                      /\ Element(n) \in ParId /\ SignalNQ(n) \in ParId
                      /\ Hash(n) \in ParId
  BY DEF ModelId, ParId
<1>2. SignalN \in ModelId /\ \A s \in Suffix : Constant(s) \in ParId
  BY DEF ModelId, ParId
<1>3. \A g \in input.generators : GeneratorParId(g) \in ParId
  BY <1>1, <1>2, NamesOfInput DEF GeneratorParId, Suffix
<1>4. Constant("GenericRestorativeLoad") \in ParId
  BY DEF ParId
<1> QED
  BY <1>1, <1>2, <1>3, <1>4, NamesOfInput
     DEF ModelRecords, Loads, SignalNs, Machines, Hvdcs, Remotes, VscRemotes,
         Automatons, Svarcs, writeLoad, writeGenerator, OwnSet, writeVRRemote

\* The types of the sets, of the macro sets and of the tables.
LEMMA SetsType ==
  ASSUME IsDescription(input)
  PROVE  /\ SetRecords \subseteq
               [id : ParId, macros : SUBSET MacroId, tables : SUBSET Name]
         /\ MacroSets \subseteq MacroId
         /\ Tables \subseteq Name
<1>1. /\ \A n \in Name : Element(n) \in ParId /\ SignalNQ(n) \in ParId /\ Hash(n) \in ParId
      /\ \A s \in Suffix : Constant(s) \in ParId
      /\ Constant("GenericRestorativeLoad") \in ParId
  BY DEF ParId
<1>2. \A g : getGeneratorParameterSetId(g) \in Suffix
  BY DEF getGeneratorParameterSetId, Suffix
<1>3. "_vr" \in MacroId /\ "SVarC" \in MacroId /\ Suffix \subseteq MacroId
  BY DEF MacroId
<1>4. \A h \in input.hvdcLines : \A e \in MainEnds(h) : h.converters[e] \in Name
  BY NamesOfInput DEF MainEnds
<1>5. WithDiagram \subseteq input.generators /\ SettingSets \subseteq Name
  BY NamesOfInput DEF WithDiagram, SettingSets
<1>6. /\ LoadSets \union MachineSets \union SharedSets \union SvarcSets \subseteq
            [id : ParId, macros : SUBSET MacroId, tables : SUBSET Name]
      /\ RemoteSets \union VscSets \union AutomatonSets \subseteq
            [id : ParId, macros : SUBSET MacroId, tables : SUBSET Name]
  BY <1>1, <1>2, <1>3, <1>5, NamesOfInput
     DEF LoadSets, MachineSets, SharedSets, ConstantIds, SvarcSets, RemoteSets,
         VscSets, AutomatonSets, Plain, GeneratorSet, getMacroParameterSetId,
         writeStaticVarCompensator, RemoteSet
<1>7. HvdcSets \subseteq [id : ParId, macros : SUBSET MacroId, tables : SUBSET Name]
  BY <1>1, <1>4, NamesOfInput DEF HvdcSets, writeHvdcLine
<1>8. MacroSets \subseteq MacroId
  BY <1>2, <1>3 DEF MacroSets, getMacroParameterSetId
<1>9. Tables \subseteq Name
  BY <1>5, NamesOfInput DEF Tables, ConvertersOf
<1> QED
  BY <1>6, <1>7, <1>8, <1>9 DEF SetRecords

\* The types of the connections and connectors.
LEMMA ConnectionsType ==
  ASSUME IsDescription(input)
  PROVE  /\ Connections \subseteq ModelId \X (ModelId \union {NETWORK})
         /\ FixedConnectors \union writeDynamicModelMacroConnectors \subseteq ConnectorId
         /\ Uses \subseteq ConnectorId
<1>1. /\ \A n \in Name : Element(n) \in ModelId /\ SignalNQ(n) \in ModelId
      /\ SignalN \in ModelId
  BY DEF ModelId
<1>2. \A h \in input.hvdcLines : \A e \in MainEnds(h) : h.buses[e] \in Name
  BY NamesOfInput DEF MainEnds
<1>3. \A h \in input.hvdcLines : writeHvdcLineConnect(h) \subseteq
                                    ModelId \X (ModelId \union {NETWORK})
  BY <1>1, <1>2, NamesOfInput DEF writeHvdcLineConnect
<1>4. \A g \in input.generators : GenConnections(g) \subseteq
                                     ModelId \X (ModelId \union {NETWORK})
  BY <1>1, NamesOfInput DEF GenConnections
<1>5. Connections \subseteq ModelId \X (ModelId \union {NETWORK})
  BY <1>1, <1>3, <1>4, NamesOfInput DEF Connections, writeVRRemoteConnect
<1>6. FixedConnectors \union writeDynamicModelMacroConnectors \subseteq ConnectorId
  BY DEF writeDynamicModelMacroConnectors, ConnectorId, IsDescription
<1>7. Uses \subseteq ConnectorId
  <2>1. \A a \in DOMAIN input.models : input.models[a] \subseteq Name
    BY DEF IsDescription
  <2> QED
    BY <2>1 DEF Uses, ConnectorId
<1> QED
  BY <1>5, <1>6, <1>7

\* Files that are what their writers give are well typed.
LEMMA InvariantTyped == IInv => TypeOK
<1> SUFFICES ASSUME IInv
             PROVE  TypeOK
  OBVIOUS
<1> DEFINE M == [id : ModelId, parId : ParId \union {NoParId}]
           S == [id : ParId, macros : SUBSET MacroId, tables : SUBSET Name]
<1>1. IsDescription(input) /\ stage \in {"dyd", "par", "diagrams", "done"}
  BY DEF IInv
<1>2. Models \in Seq(M)
  <2>1. Models \in Seq(ModelRecords) /\ ModelRecords \subseteq M
    BY <1>1, ModelsWritten, ModelsType DEF Writes
  <2> HIDE DEF M
  <2> QED
    BY <2>1
<1>3. Sets \in Seq(S)
  <2>1. Sets \in Seq(SetRecords) /\ SetRecords \subseteq S
    BY <1>1, SetsWritten, SetsType DEF Writes
  <2> HIDE DEF S
  <2> QED
    BY <2>1
<1> HIDE DEF M, S
<1>4. models \in Seq(M)
  <2>1. models = <<>> \/ models = Models
    BY DEF IInv, DydInv
  <2>2. <<>> \in Seq(M)
    OBVIOUS
  <2> QED
    BY <1>2, <2>1, <2>2, Zenon
<1>5. sets \in Seq(S)
  <2>1. sets = <<>> \/ sets = Sets
    BY DEF IInv, ParInv
  <2>2. <<>> \in Seq(S)
    OBVIOUS
  <2> QED
    BY <1>3, <2>1, <2>2, Zenon
<1>6. /\ connections \in SUBSET (ModelId \X (ModelId \union {NETWORK}))
      /\ connectors \in SUBSET ConnectorId
      /\ uses \in SUBSET ConnectorId
  BY <1>1, ConnectionsType DEF IInv, DydInv
<1>7. macroSets \in SUBSET MacroId /\ tables \in SUBSET Name
  BY <1>1, SetsType DEF IInv, ParInv, DiagramInv
<1> QED
  BY <1>1, <1>4, <1>5, <1>6, <1>7 DEF TypeOK, M, S

(***************************************************************************)
(* The files hold well-formed models, connections, sets and tables.        *)
(***************************************************************************)
THEOREM TypeCorrect == Spec => []TypeOK
  BY Invariant, InvariantTyped, PTL

-----------------------------------------------------------------------------
\* Files that are what their writers give have unique ids.
LEMMA InvariantUnique == IInv => IdsUnique
<1> SUFFICES ASSUME IInv, Unshared
             PROVE  /\ Cardinality(ModelIds) = Len(models)
                    /\ Cardinality(SetIds) = Len(sets)
  BY DEF IdsUnique, Unshared
<1>1. Writes(<<>>, {}) /\ Distinct(<<>>)
  BY ToSetEmpty DEF Writes, Distinct
<1>2. \E R : Writes(models, R) /\ Distinct(models)
  BY <1>1, ModelsWritten DEF IInv, DydInv
<1>3. \E R : Writes(sets, R) /\ Distinct(sets)
  BY <1>1, SetsWritten DEF IInv, ParInv
<1>4. Cardinality({r.id : r \in ToSet(models)}) = Len(models)
  BY <1>2, DistinctCount
<1>5. Cardinality({r.id : r \in ToSet(sets)}) = Len(sets)
  BY <1>3, DistinctCount
<1> QED
  BY <1>4, <1>5 DEF ModelIds, SetIds

(***************************************************************************)
(* An id names one model and one parameter set, for every set of           *)
(* definitions that leaves no bus in both maps of shared buses.            *)
(***************************************************************************)
THEOREM UniqueIds == Spec => []IdsUnique
  BY Invariant, InvariantUnique, PTL

-----------------------------------------------------------------------------
(***************************************************************************)
(* The references between the files, from the definitions alone.           *)
(***************************************************************************)

\* The loop of Par writes the set the loop of Dyd refers to.
LEMMA ParametersWritten ==
  ASSUME IsDescription(input), NEW m \in ModelRecords
  PROVE  \/ m.parId \in {r.id : r \in SetRecords} \union {NoParId}
         \/ \E g \in input.generators : m.id = Element(g.id) /\ ForgottenFixedP(g)
         \/ \E a \in DOMAIN input.models \ input.sets : m.id = Element(a)
<1> DEFINE Ids == {r.id : r \in SetRecords}
<1>1. /\ \A r \in LoadSets \union MachineSets \union SharedSets \union SvarcSets :
            r.id \in Ids
      /\ \A r \in HvdcSets \union RemoteSets \union VscSets \union AutomatonSets :
            r.id \in Ids
  BY DEF SetRecords
<1> HIDE DEF Ids
<1>2. CASE m \in Loads
  <2>1. m.parId = Constant("GenericRestorativeLoad")
    BY <1>2 DEF Loads, writeLoad
  <2>2. /\ Plain(Constant("GenericRestorativeLoad")) \in LoadSets
        /\ Plain(Constant("GenericRestorativeLoad")).id
               = Constant("GenericRestorativeLoad")
    BY DEF LoadSets, Plain
  <2> QED
    BY <1>1, <2>1, <2>2 DEF Ids
<1>3. CASE m \in SignalNs
  BY <1>3 DEF SignalNs
<1>4. CASE m \in Machines
  <2>1. PICK g \in input.generators : m = writeGenerator(g)
    BY <1>4 DEF Machines
  <2>2. m.id = Element(g.id) /\ m.parId = GeneratorParId(g)
    BY <2>1 DEF writeGenerator
  <2>3. CASE g.diagram
    <3>1. GeneratorSet(g) \in MachineSets /\ GeneratorSet(g).id = GeneratorParId(g)
      BY <2>3 DEF MachineSets, WithDiagram, GeneratorSet, GeneratorParId
    <3> QED
      BY <1>1, <2>2, <3>1 DEF Ids
  <2>4. CASE ~g.diagram /\ ~ForgottenFixedP(g)
    <3>1. getGeneratorParameterSetId(g) \in ConstantIds
      BY <2>4 DEF ConstantIds, WithoutDiagram, WithDiagram
    <3>2. g.kind \in {"LOCAL", "REMOTE", "PROP"} /\ g.fixedP \in BOOLEAN
      BY DEF IsDescription, Generator
    <3>3. GeneratorParId(g) = Constant(getGeneratorParameterSetId(g))
      BY <2>4, <3>2 DEF GeneratorParId, getGeneratorParameterSetId, ForgottenFixedP
    <3>4. \A id \in ConstantIds : /\ Plain(Constant(id)) \in SharedSets
                                 /\ Plain(Constant(id)).id = Constant(id)
      BY DEF SharedSets, Plain
    <3> QED
      BY <1>1, <2>2, <3>1, <3>3, <3>4 DEF Ids
  <2>5. CASE ForgottenFixedP(g)
    BY <2>2, <2>5
  <2> QED
    BY <2>3, <2>4, <2>5
<1>5. CASE m \in Hvdcs
  <2>1. PICK h \in input.hvdcLines : m = OwnSet(h.id)
    BY <1>5 DEF Hvdcs, HvdcIds
  <2>2. writeHvdcLine(h) \in HvdcSets /\ writeHvdcLine(h).id = m.parId
    BY <2>1 DEF HvdcSets, writeHvdcLine, OwnSet
  <2> QED
    BY <1>1, <2>2 DEF Ids
<1>6. CASE m \in Remotes
  <2>1. PICK b \in input.busesWithDynamicModel : m = writeVRRemote(b)
    BY <1>6 DEF Remotes
  <2>2. RemoteSet(b) \in RemoteSets /\ RemoteSet(b).id = m.parId
    BY <2>1 DEF RemoteSets, RemoteSet, writeVRRemote
  <2> QED
    BY <1>1, <2>2 DEF Ids
<1>7. CASE m \in VscRemotes
  <2>1. PICK b \in input.vscBuses : m = writeVRRemote(b)
    BY <1>7 DEF VscRemotes
  <2>2. RemoteSet(b) \in VscSets /\ RemoteSet(b).id = m.parId
    BY <2>1 DEF VscSets, RemoteSet, writeVRRemote
  <2> QED
    BY <1>1, <2>2 DEF Ids
<1>8. CASE m \in Automatons
  <2>1. PICK a \in DOMAIN input.models : m = OwnSet(a)
    BY <1>8 DEF Automatons
  <2>2. m.id = Element(a) /\ m.parId = Element(a)
    BY <2>1 DEF OwnSet
  <2>3. CASE a \in input.sets
    <3>1. /\ Plain(Element(a)) \in AutomatonSets
          /\ Plain(Element(a)).id = Element(a)
      BY <2>3 DEF AutomatonSets, SettingSets, Plain
    <3> QED
      BY <1>1, <2>2, <3>1 DEF Ids
  <2> QED
    BY <2>2, <2>3
<1>9. CASE m \in Svarcs
  <2>1. PICK c \in input.svarcs : m = OwnSet(c)
    BY <1>9 DEF Svarcs
  <2>2. /\ writeStaticVarCompensator(c) \in SvarcSets
        /\ writeStaticVarCompensator(c).id = m.parId
    BY <2>1 DEF SvarcSets, writeStaticVarCompensator, OwnSet
  <2> QED
    BY <1>1, <2>2 DEF Ids
<1> QED
  BY <1>2, <1>3, <1>4, <1>5, <1>6, <1>7, <1>8, <1>9 DEF ModelRecords

\* The loops on connections meet the models the loops on models have written.
LEMMA ConnectionsWritten ==
  ASSUME IsDescription(input), NEW c \in Connections
  PROVE  {c[1], c[2]} \subseteq {r.id : r \in ModelRecords} \union {NETWORK}
<1> DEFINE Ids == {r.id : r \in ModelRecords}
<1>1. /\ \A n \in input.loads : Element(n) \in Ids
      /\ \A n \in input.svarcs : Element(n) \in Ids
      /\ \A n \in DOMAIN input.models : Element(n) \in Ids
      /\ \A g \in input.generators : Element(g.id) \in Ids
      /\ \A h \in input.hvdcLines : Element(h.id) \in Ids
      /\ \A b \in input.busesWithDynamicModel : SignalNQ(b) \in Ids
      /\ \A b \in input.vscBuses : SignalNQ(b) \in Ids
      /\ SignalN \in Ids
  <2>1. /\ \A n \in input.loads : writeLoad(n) \in Loads /\ writeLoad(n).id = Element(n)
        /\ \A n \in input.svarcs : OwnSet(n) \in Svarcs
        /\ \A n \in DOMAIN input.models : OwnSet(n) \in Automatons
        /\ \A n \in HvdcIds : OwnSet(n) \in Hvdcs
        /\ \A n : OwnSet(n).id = Element(n)
    BY DEF Loads, Svarcs, Automatons, Hvdcs, OwnSet, writeLoad
  <2>2. /\ \A g \in input.generators : /\ writeGenerator(g) \in Machines
                                       /\ writeGenerator(g).id = Element(g.id)
        /\ \A b \in input.busesWithDynamicModel : writeVRRemote(b) \in Remotes
        /\ \A b \in input.vscBuses : writeVRRemote(b) \in VscRemotes
        /\ \A b : writeVRRemote(b).id = SignalNQ(b)
        /\ \A h \in input.hvdcLines : h.id \in HvdcIds
    BY DEF Machines, Remotes, VscRemotes, HvdcIds, writeGenerator, writeVRRemote
  <2>3. SignalN \in Ids
    <3>1. /\ [id |-> SignalN, parId |-> NoParId] \in ModelRecords
          /\ [id |-> SignalN, parId |-> NoParId].id = SignalN
      BY DEF SignalNs, ModelRecords
    <3> QED
      BY <3>1
  <2>4. \A r : \/ r \in Loads \/ r \in Machines \/ r \in Hvdcs \/ r \in Remotes
              \/ r \in VscRemotes \/ r \in Automatons \/ r \in Svarcs
              => r.id \in Ids
    BY DEF ModelRecords
  <2> HIDE DEF Ids
  <2> QED
    BY <2>1, <2>2, <2>3, <2>4
<1> SUFFICES {c[1], c[2]} \subseteq Ids \union {NETWORK}
  OBVIOUS
<1> HIDE DEF Ids
<1>2. CASE c \in {<<Element(n), NETWORK>> :
                     n \in input.loads \union input.svarcs \union DOMAIN input.models}
  BY <1>1, <1>2
<1>3. ASSUME NEW h \in input.hvdcLines, c \in writeHvdcLineConnect(h)
      PROVE  {c[1], c[2]} \subseteq Ids \union {NETWORK}
  <2>1. \A e \in MainEnds(h) : h.pqProp => h.buses[e] \in input.vscBuses
    BY DEF IsDescription
  <2> QED
    BY <1>1, <1>3, <2>1 DEF writeHvdcLineConnect
<1>4. CASE c \in {writeVRRemoteConnect(b) :
                     b \in input.busesWithDynamicModel \union input.vscBuses}
  BY <1>1, <1>4 DEF writeVRRemoteConnect
<1>5. CASE c = <<SignalN, NETWORK>>
  BY <1>1, <1>5
<1>6. ASSUME NEW g \in input.generators, c \in GenConnections(g)
      PROVE  {c[1], c[2]} \subseteq Ids \union {NETWORK}
  <2>1. g.kind = "PROP" => g.regulatedBusId \in input.busesWithDynamicModel
    BY DEF IsDescription
  <2> QED
    BY <1>1, <1>6, <2>1 DEF GenConnections
<1> QED
  BY <1>2, <1>3, <1>4, <1>5, <1>6 DEF Connections

\* A connector in use is written, unless the assembling file lacks it.
LEMMA ConnectorsWritten ==
  ASSUME IsDescription(input)
  PROVE  Uses \subseteq FixedConnectors \union writeDynamicModelMacroConnectors
                       \union {Element(m) : m \in Name \ input.macroConnections}
<1>1. \A a \in DOMAIN input.models : \A m \in input.models[a] :
          m \in input.usedMacroConnections /\ m \in Name
  BY DEF IsDescription
<1> QED
  BY <1>1 DEF Uses, writeDynamicModelMacroConnectors

\* The tables of a line are those of the converters of its main ends.
LEMMA TablesOfLine ==
  ASSUME NEW h \in HvdcLine
  PROVE  ConvertersOf(h) = {h.converters[e] : e \in MainEnds(h)}
BY DEF ConvertersOf, MainEnds, HvdcLine

\* What a parameter set names is written, and every table is named by a set.
LEMMA TablesWritten ==
  ASSUME IsDescription(input)
  PROVE  /\ \A s \in SetRecords : s.tables \subseteq Tables /\ s.macros \subseteq MacroSets
         /\ \A t \in Tables : \E s \in SetRecords : t \in s.tables
<1>1. \A h \in input.hvdcLines :
         h.diagram => {h.converters[e] : e \in MainEnds(h)} \subseteq Tables
  BY TablesOfLine DEF Tables, IsDescription
<1>2. ASSUME NEW s \in SetRecords
      PROVE  s.tables \subseteq Tables /\ s.macros \subseteq MacroSets
  <2>1. CASE s \in LoadSets \union SharedSets \union AutomatonSets
    BY <2>1 DEF LoadSets, SharedSets, AutomatonSets, Plain
  <2>2. CASE s \in MachineSets
    BY <2>2 DEF MachineSets, GeneratorSet, Tables, MacroSets
  <2>3. CASE s \in SvarcSets
    BY <2>3 DEF SvarcSets, writeStaticVarCompensator, MacroSets
  <2>4. CASE s \in HvdcSets
    BY <1>1, <2>4 DEF HvdcSets, writeHvdcLine
  <2>5. CASE s \in RemoteSets \union VscSets
    BY <2>5 DEF RemoteSets, VscSets, RemoteSet, MacroSets
  <2> QED
    BY <2>1, <2>2, <2>3, <2>4, <2>5 DEF SetRecords
<1>3. ASSUME NEW t \in Tables
      PROVE  \E s \in SetRecords : t \in s.tables
  <2>1. CASE t \in {g.id : g \in WithDiagram}
    <3>1. PICK g \in WithDiagram : t = g.id
      BY <2>1
    <3>2. GeneratorSet(g) \in SetRecords /\ t \in GeneratorSet(g).tables
      BY <3>1 DEF SetRecords, MachineSets, GeneratorSet
    <3> QED
      BY <3>2
  <2>2. ASSUME NEW h \in input.hvdcLines, h.diagram, t \in ConvertersOf(h)
        PROVE  \E s \in SetRecords : t \in s.tables
    <3>1. writeHvdcLine(h) \in SetRecords
      BY DEF SetRecords, HvdcSets
    <3>2. writeHvdcLine(h).tables = ConvertersOf(h)
      BY <2>2, TablesOfLine DEF writeHvdcLine, IsDescription
    <3> QED
      BY <2>2, <3>1, <3>2
  <2> QED
    BY <2>1, <2>2 DEF Tables
<1> QED
  BY <1>2, <1>3

\* Files that are what their writers give refer to what they hold.
LEMMA InvariantResolves == IInv => ReferencesResolve
<1> SUFFICES ASSUME IInv, stage = "done"
             PROVE  /\ ParametersResolve
                    /\ ConnectionsResolve
                    /\ TablesResolve
                    /\ tables \subseteq UNION {s.tables : s \in ToSet(sets)}
  BY DEF ReferencesResolve
<1>1. IsDescription(input)
  BY DEF IInv
<1>2. models = Models /\ connections = Connections /\ uses = Uses
      /\ connectors = FixedConnectors \union writeDynamicModelMacroConnectors
  BY DEF IInv, DydInv
<1>3. sets = Sets /\ macroSets = MacroSets /\ tables = Tables
  BY DEF IInv, ParInv, DiagramInv
<1>4. ToSet(models) = ModelRecords /\ ToSet(sets) = SetRecords
  BY <1>1, <1>2, <1>3, ModelsWritten, SetsWritten DEF Writes
<1>5. ParametersResolve
  BY <1>1, <1>4, ParametersWritten DEF ParametersResolve, SetIds
<1>6. ConnectionsResolve
  BY <1>1, <1>2, <1>4, ConnectionsWritten, ConnectorsWritten
     DEF ConnectionsResolve, ModelIds
<1>7. TablesResolve
  BY <1>1, <1>3, <1>4, TablesWritten DEF TablesResolve
<1>8. tables \subseteq UNION {s.tables : s \in ToSet(sets)}
  BY <1>1, <1>3, <1>4, TablesWritten
<1> QED
  BY <1>5, <1>6, <1>7, <1>8

(***************************************************************************)
(* For every set of definitions, the references of the three files resolve *)
(* when the writers have returned, but for the exceptions the property     *)
(* states; and no table is written that no parameter set names.            *)
(***************************************************************************)
THEOREM ReferencesResolved == Spec => []ReferencesResolve
  BY Invariant, InvariantResolves, PTL

=============================================================================
