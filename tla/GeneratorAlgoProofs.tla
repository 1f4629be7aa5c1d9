------------------------- MODULE GeneratorAlgoProofs -------------------------
(***************************************************************************)
(* Proofs about GeneratorAlgo, for every number of generators, every       *)
(* network and configuration: the shared models are those the definitions  *)
(* refer to, no bus has two voltage controllers, and each generator that   *)
(* can be is defined once, whatever the order of the walk.                 *)
(***************************************************************************)
EXTENDS GeneratorAlgo, SequenceLemmas

-----------------------------------------------------------------------------
(***************************************************************************)
(* Maps.                                                                   *)
(***************************************************************************)

\* The count of a bus.
LEMMA CountFacts ==
  ASSUME NEW map, IsMap(map, Bus, {"ONE", "MULTIPLES"}), NEW b \in Bus
  PROVE  /\ IsMap(updateMapRegulatingBuses(map, b), Bus, {"ONE", "MULTIPLES"})
         /\ DOMAIN updateMapRegulatingBuses(map, b) = DOMAIN map \union {b}
         /\ updateMapRegulatingBuses(map, b)[b] =
               IF b \in DOMAIN map THEN "MULTIPLES" ELSE "ONE"
         /\ \A c \in DOMAIN map \ {b} : updateMapRegulatingBuses(map, b)[c] = map[c]
<1>1. CASE b \in DOMAIN map
  BY <1>1 DEF updateMapRegulatingBuses, IsMap
<1>2. CASE b \notin DOMAIN map
  BY <1>2 DEF updateMapRegulatingBuses, Insert, IsMap
<1> QED
  BY <1>1, <1>2

-----------------------------------------------------------------------------
(***************************************************************************)
(* The inductive invariant.                                                *)
(***************************************************************************)

\* The generators read so far and kept.
KeptBefore == {g \in Generator : g < cursor /\ IsKept(g)}

\* What buildTree has collected: each node has the kept generators of its bus,
\* once, and the count is "ONE" for buses with one regulating generator only.
ReadInv ==
    /\ pc # "read" => cursor = G + 1
    /\ \A b \in Bus :
          /\ IsInjective(nodeGenerators[b])
          /\ ToSet(nodeGenerators[b]) = {g \in KeptBefore : input.bus[g] = b}
    /\ \A g \in KeptBefore :
          /\ input.regulated[g] \in DOMAIN busMap
          /\ busMap[input.regulated[g]] = "ONE" =>
                \A h \in KeptBefore : input.regulated[h] = input.regulated[g] => h = g
    /\ \A b \in DOMAIN busMap : \E g \in KeptBefore : input.regulated[g] = b

\* The definition of a generator, and whether it gets none.
DefinitionOf(g) ==
    [id |-> g, model |-> ModelOf(g), regulatedBusId |-> input.regulated[g]]
Dropped(g) == isModelWithInvalidDiagram(ModelOf(g), g)

Visited == input.main \ unvisited
Candidates == {g \in Generator : IsKept(g) /\ input.bus[g] \in Visited /\ ~Dropped(g)}
Ids == {d.id : d \in Defined}

\* The walk: the generators of the nodes visited are defined or in the queue.
WalkInv ==
    /\ pc = "read" => /\ unvisited = input.main /\ queue = <<>>
                      /\ generators = <<>> /\ busesWithDynamicModel = <<>>
    /\ unvisited \subseteq input.main
    /\ pc = "done" => queue = <<>> /\ unvisited = {}
    /\ IsInjective(queue) /\ ToSet(queue) \intersect Ids = {}
    /\ \A g \in ToSet(queue) : IsKept(g) /\ input.bus[g] \in Visited
    /\ IsInjective(generators)
    /\ \A d \in Defined : d = DefinitionOf(d.id) /\ d.id \in Candidates
    /\ Candidates \subseteq Ids \union ToSet(queue)

IInv ==
    /\ TypeOK
    /\ ReadInv
    /\ WalkInv
    /\ SharedModelsMatch

-----------------------------------------------------------------------------
(***************************************************************************)
(* What the state stands for.                                              *)
(***************************************************************************)

\* What a network file gives.
LEMMA InputType ==
  ASSUME input \in Descriptions
  PROVE  /\ IsDescription(input)
         /\ \A g \in Generator :
               /\ input.bus[g] \in Bus /\ input.regulated[g] \in Bus
               /\ input.data[g] \in Data
         /\ input.main \in SUBSET Bus
<1>1. IsDescription(input)
  BY DescriptionsAssumption
<1> QED
  BY <1>1 DEF IsDescription

\* Reading changes no definition once the walk has begun.
LEMMA SameDefinitions ==
  ASSUME UNCHANGED <<input, nodeGenerators, busMap>>, NEW g \in Generator
  PROVE  /\ DefinitionOf(g)' = DefinitionOf(g)
         /\ Dropped(g)' <=> Dropped(g)
         /\ IsKept(g)' <=> IsKept(g)
<1>1. ModelOf(g)' = ModelOf(g)
  BY DEF ModelOf, IsOtherGeneratorConnectedBySwitches
<1>2. isModelWithInvalidDiagram(ModelOf(g), g)' <=> isModelWithInvalidDiagram(ModelOf(g), g)
  BY <1>1 DEF isModelWithInvalidDiagram
<1> QED
  BY <1>1, <1>2 DEF DefinitionOf, Dropped, IsKept

\* A model is one of the six.
LEMMA ModelType ==
  ASSUME input \in Descriptions, NEW g \in Generator
  PROVE  /\ ModelOf(g) \in Model
         /\ DefinitionOf(g) \in Definition
<1>1. input.infinite \in BOOLEAN /\ input.regulated[g] \in Bus
  BY InputType DEF IsDescription
<1>2. ModelOf(g) \in Model
  BY <1>1 DEF ModelOf, Model
<1> QED
  BY <1>1, <1>2 DEF DefinitionOf, Definition

\* The domains the steps need.
LEMMA StateType ==
  ASSUME IInv
  PROVE  /\ input \in Descriptions /\ G \in Nat /\ cursor \in 1..G+1
         /\ nodeGenerators \in [Bus -> Seq(Generator)]
         /\ \A b \in Bus : nodeGenerators[b] \in Seq(Generator)
         /\ queue \in Seq(Generator) /\ generators \in Seq(Definition)
         /\ Defined \subseteq Definition
BY GAssumption, ToSetType DEF IInv, TypeOK, Defined

-----------------------------------------------------------------------------
(***************************************************************************)
(* The steps.                                                              *)
(***************************************************************************)

\* While the network is read nothing is defined.
Reading ==
    /\ pc = "read"
    /\ unvisited = input.main /\ queue = <<>>
    /\ generators = <<>> /\ busesWithDynamicModel = <<>>

\* During the reading there is no definition.
LEMMA NothingDefined == Reading => WalkInv /\ SharedModelsMatch
<1> SUFFICES ASSUME Reading PROVE WalkInv /\ SharedModelsMatch
  OBVIOUS
<1> USE DEF Reading
<1>1. Defined = {} /\ ToSet(queue) = {} /\ Visited = {}
  BY ToSetEmpty DEF Defined, Visited
<1>2. Ids = {} /\ Candidates = {}
  BY <1>1 DEF Ids, Candidates
<1>3. IsInjective(queue) /\ IsInjective(generators)
  BY DEF IsInjective
<1>4. SharedModelsMatch
  BY <1>1 DEF SharedModelsMatch
<1> QED
  BY <1>1, <1>2, <1>3, <1>4 DEF WalkInv

\* Before the first generator is read.
LEMMA InitInv == Init => IInv
<1> SUFFICES ASSUME Init PROVE IInv
  OBVIOUS
<1> USE DEF Init
<1>1. input.main \in SUBSET Bus
  BY InputType
<1>2. TypeOK
  BY <1>1, GAssumption DEF TypeOK, IsMap
<1>3. KeptBefore = {} /\ ToSet(<<>>) = {} /\ IsInjective(<<>>)
  BY ToSetEmpty DEF KeptBefore, IsInjective, Generator
<1>4. ReadInv
  BY <1>3 DEF ReadInv
<1>5. WalkInv /\ SharedModelsMatch
  BY NothingDefined DEF Reading
<1> QED
  BY <1>2, <1>4, <1>5 DEF IInv

\* One generator read: it joins its node and the count of its bus.
LEMMA ReadGeneratorInv ==
  ASSUME IInv, ReadGenerator
  PROVE  IInv'
<1> USE DEF ReadGenerator
<1>1. /\ input \in Descriptions /\ G \in Nat /\ cursor \in Generator
      /\ cursor' = cursor + 1 /\ pc = "read" /\ pc' = "read" /\ input' = input
      /\ nodeGenerators \in [Bus -> Seq(Generator)]
      /\ input.bus[cursor] \in Bus /\ input.regulated[cursor] \in Bus
  BY StateType, InputType DEF Generator
<1>2. WalkInv' /\ SharedModelsMatch'
  <2>1. Reading'
    BY <1>1 DEF IInv, WalkInv, Reading
  <2> QED
    BY <2>1, NothingDefined, PTL
<1>3. CASE ~IsKept(cursor)
  <2>1. KeptBefore' = KeptBefore
    BY <1>1, <1>3 DEF KeptBefore, IsKept, Generator
  <2>2. TypeOK'
    BY <1>1, <1>3 DEF IInv, TypeOK, Generator
  <2>3. ReadInv'
    BY <1>1, <1>3, <2>1 DEF IInv, ReadInv
  <2> QED
    BY <1>2, <2>2, <2>3 DEF IInv
<1>4. CASE IsKept(cursor)
  <2> DEFINE b == input.bus[cursor]
             r == input.regulated[cursor]
             list == nodeGenerators[b]
  <2>1. KeptBefore' = KeptBefore \union {cursor} /\ cursor \notin KeptBefore
    BY <1>1, <1>4 DEF KeptBefore, IsKept, Generator
  <2>2. /\ list \in Seq(Generator) /\ IsInjective(list) /\ cursor \notin ToSet(list)
        /\ ToSet(list) = {g \in KeptBefore : input.bus[g] = b}
    BY <1>1, <2>1 DEF IInv, ReadInv
  <2>3. /\ Append(list, cursor) \in Seq(Generator)
        /\ ToSet(Append(list, cursor)) = ToSet(list) \union {cursor}
        /\ IsInjective(Append(list, cursor))
    BY <1>1, <2>2, ToSetAppend, InjectiveAppend
  <2>4. nodeGenerators' =
           [c \in Bus |-> IF c = b THEN Append(list, cursor) ELSE nodeGenerators[c]]
    BY <1>1, <1>4
  <2>5. \A c \in Bus :
          /\ IsInjective(nodeGenerators'[c])
          /\ ToSet(nodeGenerators'[c]) = {g \in KeptBefore' : input.bus[g] = c}
    <3> SUFFICES ASSUME NEW c \in Bus
                 PROVE  /\ IsInjective(nodeGenerators'[c])
                        /\ ToSet(nodeGenerators'[c]) =
                              {g \in KeptBefore' : input.bus[g] = c}
      OBVIOUS
    <3>1. CASE c = b
      <4>1. nodeGenerators'[c] = Append(list, cursor)
        BY <1>1, <2>4, <3>1
      <4> QED
        BY <2>1, <2>2, <2>3, <3>1, <4>1
    <3>2. CASE c # b
      <4>1. nodeGenerators'[c] = nodeGenerators[c]
        BY <2>4, <3>2
      <4> QED
        BY <2>1, <3>2, <4>1 DEF IInv, ReadInv
    <3> QED
      BY <3>1, <3>2
  <2>6. /\ IsMap(busMap', Bus, {"ONE", "MULTIPLES"})
        /\ DOMAIN busMap' = DOMAIN busMap \union {r}
        /\ busMap'[r] = IF r \in DOMAIN busMap THEN "MULTIPLES" ELSE "ONE"
        /\ \A c \in DOMAIN busMap \ {r} : busMap'[c] = busMap[c]
    <3>1. busMap' = updateMapRegulatingBuses(busMap, r)
      BY <1>4
    <3>2. IsMap(busMap, Bus, {"ONE", "MULTIPLES"}) /\ r \in Bus
      BY <1>1 DEF IInv, TypeOK
    <3>3. /\ IsMap(updateMapRegulatingBuses(busMap, r), Bus, {"ONE", "MULTIPLES"})
          /\ DOMAIN updateMapRegulatingBuses(busMap, r) = DOMAIN busMap \union {r}
          /\ updateMapRegulatingBuses(busMap, r)[r] =
                IF r \in DOMAIN busMap THEN "MULTIPLES" ELSE "ONE"
          /\ \A c \in DOMAIN busMap \ {r} :
                updateMapRegulatingBuses(busMap, r)[c] = busMap[c]
      BY <3>2, CountFacts
    <3> QED
      BY <3>1, <3>3
  <2>7. \A g \in KeptBefore' :
          /\ input.regulated[g] \in DOMAIN busMap'
          /\ busMap'[input.regulated[g]] = "ONE" =>
                \A h \in KeptBefore' : input.regulated[h] = input.regulated[g] => h = g
    <3> SUFFICES ASSUME NEW g \in KeptBefore'
                 PROVE  /\ input.regulated[g] \in DOMAIN busMap'
                        /\ busMap'[input.regulated[g]] = "ONE" =>
                              \A h \in KeptBefore' :
                                 input.regulated[h] = input.regulated[g] => h = g
      OBVIOUS
    <3>1. CASE input.regulated[g] = r
      <4>1. ASSUME busMap'[r] = "ONE"
            PROVE  \A h \in KeptBefore : input.regulated[h] # r
        BY <2>6, <4>1 DEF IInv, ReadInv
      <4> QED
        BY <2>1, <2>6, <3>1, <4>1
    <3>2. CASE input.regulated[g] # r
      BY <2>1, <2>6, <3>2 DEF IInv, ReadInv
    <3> QED
      BY <3>1, <3>2
  <2>8. \A c \in DOMAIN busMap' : \E g \in KeptBefore' : input.regulated[g] = c
    BY <2>1, <2>6 DEF IInv, ReadInv
  <2>9. TypeOK'
    <3>1. nodeGenerators' \in [Bus -> Seq(Generator)]
      BY <1>1, <2>3, <2>4
    <3> QED
      BY <1>1, <2>6, <3>1 DEF IInv, TypeOK, Generator
  <2>10. ReadInv'
    BY <1>1, <2>5, <2>7, <2>8 DEF ReadInv
  <2> QED
    BY <1>2, <2>9, <2>10 DEF IInv
<1> QED
  BY <1>3, <1>4

\* What buildTree has collected stays during the walk.
LEMMA ReadKept ==
  ASSUME IInv, UNCHANGED <<input, cursor, busMap, nodeGenerators>>,
         pc' # "read" => cursor = G + 1
  PROVE  ReadInv'
<1>1. KeptBefore' = KeptBefore
  BY DEF KeptBefore, IsKept
<1> QED
  BY <1>1 DEF IInv, ReadInv

\* When the walk has begun, all the generators have been read.
LEMMA AllRead ==
  ASSUME IInv, pc # "read"
  PROVE  KeptBefore = {g \in Generator : IsKept(g)}
BY StateType DEF IInv, ReadInv, KeptBefore, Generator

\* The loops that begin or end change no definition.
LEMMA WalkKept ==
  ASSUME IInv,
         UNCHANGED <<input, busMap, nodeGenerators, unvisited, queue, generators,
                     busesWithDynamicModel>>,
         pc' = "read" => pc = "read",
         pc' = "done" => queue = <<>> /\ unvisited = {}
  PROVE  WalkInv' /\ SharedModelsMatch'
<1>1. /\ Visited' = Visited /\ Defined' = Defined /\ ToSet(queue)' = ToSet(queue)
      /\ Ids' = Ids
  BY DEF Visited, Defined, ToSet, Ids
<1>2. Candidates' = Candidates
  BY <1>1, SameDefinitions DEF Candidates
<1>3. \A d \in Defined : d.id \in Generator /\ DefinitionOf(d.id)' = DefinitionOf(d.id)
  BY StateType, SameDefinitions DEF Definition
<1>4. \A g \in ToSet(queue) : g \in Generator /\ IsKept(g)' = IsKept(g)
  BY StateType, ToSetType DEF IsKept
<1>5. WalkInv'
  BY <1>1, <1>2, <1>3, <1>4 DEF IInv, WalkInv
<1>6. SharedModelsMatch'
  BY <1>1 DEF IInv, SharedModelsMatch, SharedDefinitions
<1> QED
  BY <1>5, <1>6

\* The end of a loop, and a step that changes nothing.
LEMMA LoopEndInv ==
  ASSUME IInv, EndOfBuild \/ EndOfWalk \/ UNCHANGED vars
  PROVE  IInv'
<1>1. /\ UNCHANGED <<input, cursor, busMap, nodeGenerators, unvisited, queue,
                     generators, busesWithDynamicModel>>
      /\ pc' \in {"read", "walk", "done"}
      /\ pc' = "read" => pc = "read"
      /\ pc' = "done" => queue = <<>> /\ unvisited = {}
      /\ pc' # "read" => cursor = G + 1
  BY StateType DEF EndOfBuild, EndOfWalk, vars, IInv, TypeOK, ReadInv, WalkInv
<1>2. TypeOK'
  BY <1>1 DEF IInv, TypeOK
<1> QED
  BY <1>1, <1>2, ReadKept, WalkKept DEF IInv

\* A node is visited: its generators are the queue.
LEMMA VisitNodeInv ==
  ASSUME IInv, VisitNode
  PROVE  IInv'
<1> USE DEF VisitNode
<1>1. PICK b \in unvisited : unvisited' = unvisited \ {b} /\ queue' = nodeGenerators[b]
  OBVIOUS
<1>2. /\ b \in Bus /\ b \in input.main /\ pc = "walk" /\ pc' = "walk" /\ queue = <<>>
      /\ UNCHANGED <<input, busMap, nodeGenerators, generators, busesWithDynamicModel>>
  BY InputType DEF IInv, TypeOK, WalkInv
<1>3. TypeOK'
  BY <1>1, <1>2, StateType DEF IInv, TypeOK
<1>4. ReadInv'
  BY <1>2, ReadKept DEF IInv, ReadInv
<1>5. /\ IsInjective(queue')
      /\ ToSet(queue') = {g \in Generator : IsKept(g) /\ input.bus[g] = b}
  BY <1>1, <1>2, AllRead DEF IInv, ReadInv
<1>6. Visited' = Visited \union {b} /\ b \notin Visited /\ Defined' = Defined /\ Ids' = Ids
  BY <1>1, <1>2 DEF Visited, Defined, Ids
<1>7. Candidates \subseteq Ids /\ Ids \subseteq Candidates
  <2>1. ToSet(queue) = {}
    BY <1>2, ToSetEmpty
  <2> QED
    BY <2>1 DEF IInv, WalkInv, Ids
<1>8. \A g \in Generator :
         /\ DefinitionOf(g)' = DefinitionOf(g)
         /\ Dropped(g)' <=> Dropped(g)
         /\ IsKept(g)' <=> IsKept(g)
  BY <1>2, SameDefinitions
<1>9. Candidates' = Candidates \union
                    {g \in Generator : IsKept(g) /\ input.bus[g] = b /\ ~Dropped(g)}
  BY <1>2, <1>6, <1>8 DEF Candidates
<1>10. ToSet(queue') \intersect Ids' = {}
  BY <1>5, <1>6, <1>7 DEF Candidates
<1>11. Candidates' \subseteq Ids' \union ToSet(queue')
  BY <1>5, <1>6, <1>7, <1>9
<1>12. \A d \in Defined' : d = DefinitionOf(d.id)' /\ d.id \in Candidates'
  BY <1>6, <1>8, <1>9 DEF IInv, WalkInv, Candidates
<1>13. \A g \in ToSet(queue') : IsKept(g)' /\ input.bus[g] \in Visited'
  BY <1>5, <1>6, <1>8
<1>14. unvisited' \subseteq input.main /\ IsInjective(generators')
  BY <1>1, <1>2 DEF IInv, WalkInv
<1>15. WalkInv'
  BY <1>2, <1>5, <1>10, <1>11, <1>12, <1>13, <1>14 DEF WalkInv, ToSet
<1>16. SharedModelsMatch'
  BY <1>2, <1>6 DEF IInv, SharedModelsMatch, SharedDefinitions
<1> QED
  BY <1>3, <1>4, <1>15, <1>16 DEF IInv

\* One generator of the queue, defined or dropped; a PROP one finds its bus in
\* the map or brings it there.
LEMMA DefineGeneratorInv ==
  ASSUME IInv, DefineGenerator
  PROVE  IInv'
<1> USE DEF DefineGenerator
<1>1. /\ pc = "walk" /\ pc' = "walk" /\ queue # <<>> /\ queue' = Tail(queue)
      /\ UNCHANGED <<input, cursor, busMap, nodeGenerators, unvisited>>
      /\ input \in Descriptions
  BY StateType
<1>2. /\ Tail(queue) \in Seq(Generator) /\ Head(queue) \in Generator
      /\ ToSet(queue) = {Head(queue)} \union ToSet(Tail(queue))
      /\ IsInjective(Tail(queue)) /\ Head(queue) \notin ToSet(Tail(queue))
  BY <1>1, StateType, ToSetTail, InjectiveTail DEF IInv, WalkInv
<1>3. PICK g \in Generator : g = Head(queue)
  BY <1>2
<1>4. ReadInv'
  BY <1>1, ReadKept DEF IInv, ReadInv
<1>5. \A h \in Generator :
         /\ DefinitionOf(h)' = DefinitionOf(h)
         /\ Dropped(h)' <=> Dropped(h)
         /\ IsKept(h)' <=> IsKept(h)
  BY <1>1, SameDefinitions
<1>6. Visited' = Visited /\ Candidates' = Candidates
  BY <1>1, <1>5 DEF Visited, Candidates
<1>7. IsKept(g) /\ input.bus[g] \in Visited /\ g \notin Ids
  BY <1>2, <1>3 DEF IInv, WalkInv
<1>8. /\ IsInjective(queue') /\ unvisited' \subseteq input'.main
      /\ \A h \in ToSet(queue') : IsKept(h)' /\ input'.bus[h] \in Visited'
  <2>1. \A h \in ToSet(Tail(queue)) :
           h \in Generator /\ IsKept(h) /\ input.bus[h] \in Visited
    BY <1>2, ToSetType DEF IInv, WalkInv
  <2> QED
    BY <1>1, <1>2, <1>5, <1>6, <2>1 DEF IInv, WalkInv
<1>9. CASE Dropped(g)
  <2>1. generators' = generators /\ busesWithDynamicModel' = busesWithDynamicModel
    BY <1>3, <1>9 DEF Dropped, IsRecorded
  <2>2. Defined' = Defined /\ Ids' = Ids
    BY <2>1 DEF Defined, Ids
  <2>3. TypeOK'
    BY <1>1, <1>2, <2>1 DEF IInv, TypeOK
  <2>4. Candidates' \subseteq Ids' \union ToSet(queue')
    BY <1>1, <1>2, <1>3, <1>6, <1>9, <2>2 DEF IInv, WalkInv, Candidates
  <2>5. ToSet(queue') \intersect Ids' = {}
    BY <1>1, <1>2, <2>2 DEF IInv, WalkInv
  <2>6. \A d \in Defined' : d = DefinitionOf(d.id)' /\ d.id \in Candidates'
    BY <1>5, <1>6, <2>2 DEF IInv, WalkInv, Candidates
  <2>7. WalkInv'
    BY <1>1, <1>8, <2>1, <2>4, <2>5, <2>6 DEF IInv, WalkInv, ToSet
  <2>8. SharedModelsMatch'
    BY <1>1, <2>1, <2>2 DEF IInv, SharedModelsMatch, SharedDefinitions
  <2> QED
    BY <1>4, <2>3, <2>7, <2>8 DEF IInv
<1>10. CASE ~Dropped(g)
  <2> DEFINE bus == input.regulated[g]
             map == busesWithDynamicModel
  <2>1. PICK new \in Definition : new = DefinitionOf(g)
    BY <1>1, ModelType
  <2>2. /\ new.id = g /\ new.model = ModelOf(g) /\ new.regulatedBusId = bus
        /\ bus \in Bus /\ IsMap(map, Bus, Generator)
    BY <1>1, <2>1, InputType DEF DefinitionOf, IInv, TypeOK
  <2>3. /\ generators' = Append(generators, new)
        /\ busesWithDynamicModel' =
              IF ModelOf(g)[1] = "PROP" THEN Insert(map, bus, g) ELSE map
    BY <1>3, <1>10, <2>1 DEF Dropped, IsRecorded, DefinitionOf, KeyOf
  <2>4. /\ generators' \in Seq(Definition) /\ IsInjective(generators')
        /\ Defined' = Defined \union {new}
    <3>1. new \notin Defined
      BY <1>7, <2>2 DEF Ids
    <3> QED
      BY <2>3, <3>1, StateType, ToSetAppend, InjectiveAppend DEF IInv, WalkInv, Defined
  <2>5. Ids' = Ids \union {g}
    BY <2>2, <2>4 DEF Ids
  <2>6. /\ IsMap(Insert(map, bus, g), Bus, Generator)
        /\ DOMAIN Insert(map, bus, g) = DOMAIN map \union {bus}
        /\ \A k \in DOMAIN map : Insert(map, bus, g)[k] = map[k]
        /\ bus \notin DOMAIN map => Insert(map, bus, g)[bus] = g
    BY <2>2 DEF Insert, IsMap
  <2>7. TypeOK'
    <3>1. IsMap(busesWithDynamicModel', Bus, Generator)
      BY <2>2, <2>3, <2>6
    <3> QED
      BY <1>1, <1>2, <2>4, <3>1 DEF IInv, TypeOK
  <2>8. Candidates' \subseteq Ids' \union ToSet(queue')
    BY <1>1, <1>2, <1>3, <1>6, <2>5 DEF IInv, WalkInv
  <2>9. ToSet(queue') \intersect Ids' = {}
    BY <1>1, <1>2, <1>3, <2>5 DEF IInv, WalkInv
  <2>10. g \in Candidates
    BY <1>7, <1>10 DEF Candidates
  <2>11. \A d \in Defined' : d = DefinitionOf(d.id)' /\ d.id \in Candidates'
    <3>1. DefinitionOf(new.id)' = DefinitionOf(g)'
      BY <2>2
    <3>2. new = DefinitionOf(new.id)' /\ new.id \in Candidates'
      BY <1>5, <1>6, <2>1, <2>2, <2>10, <3>1
    <3>3. \A d \in Defined : d = DefinitionOf(d.id)' /\ d.id \in Candidates'
      BY <1>5, <1>6 DEF IInv, WalkInv, Candidates
    <3> QED
      BY <2>4, <3>2, <3>3
  <2>12. WalkInv'
    BY <1>1, <1>8, <2>4, <2>8, <2>9, <2>11 DEF WalkInv, ToSet
  <2>13. SharedModelsMatch'
    <3>1. CASE ModelOf(g)[1] = "PROP"
      <4>1. /\ DOMAIN busesWithDynamicModel' = DOMAIN map \union {bus}
            /\ \A k \in DOMAIN map : busesWithDynamicModel'[k] = map[k]
            /\ bus \notin DOMAIN map => busesWithDynamicModel'[bus] = g
        BY <2>3, <2>6, <3>1
      <4>2. \A d \in Defined' : d.model[1] = "PROP" =>
               d.regulatedBusId \in DOMAIN busesWithDynamicModel'
        BY <2>2, <2>4, <4>1 DEF IInv, SharedModelsMatch
      <4>3. \A b \in DOMAIN map :
               \E d \in SharedDefinitions(b)' : d.id = busesWithDynamicModel'[b]
        BY <2>4, <4>1 DEF IInv, SharedModelsMatch, SharedDefinitions
      <4>4. \A b \in {bus} : b \notin DOMAIN map =>
               \E d \in SharedDefinitions(b)' : d.id = busesWithDynamicModel'[b]
        BY <2>2, <2>4, <3>1, <4>1 DEF SharedDefinitions
      <4> QED
        BY <4>1, <4>2, <4>3, <4>4 DEF SharedModelsMatch
    <3>2. CASE ModelOf(g)[1] # "PROP"
      <4>1. busesWithDynamicModel' = map
        BY <2>3, <3>2
      <4>2. \A b \in Bus : SharedDefinitions(b)' = SharedDefinitions(b)
        BY <2>2, <2>4, <3>2 DEF SharedDefinitions
      <4>3. DOMAIN map \subseteq Bus
        BY <2>2 DEF IsMap
      <4> QED
        BY <2>2, <2>4, <3>2, <4>1, <4>2, <4>3 DEF IInv, SharedModelsMatch
    <3> QED
      BY <3>1, <3>2
  <2> QED
    BY <1>4, <2>7, <2>12, <2>13 DEF IInv
<1> QED
  BY <1>9, <1>10

\* Every step keeps the invariant.
LEMMA NextInv == IInv /\ [Next]_vars => IInv'
BY ReadGeneratorInv, LoopEndInv, VisitNodeInv, DefineGeneratorInv DEF Next, Terminated

\* The invariant holds in every reachable state.
LEMMA Invariance == Spec => []IInv
BY InitInv, NextInv, PTL DEF Spec

-----------------------------------------------------------------------------
(***************************************************************************)
(* The theorems.                                                           *)
(***************************************************************************)

\* The variables of buildTree and of GeneratorDefinitionAlgorithm keep their
\* types.
THEOREM TypeCorrect == Spec => []TypeOK
BY Invariance, PTL DEF IInv

\* At any time busesWithDynamicModel_ holds exactly the buses that the PROP
\* definitions regulate, each with the generator of one of them.
THEOREM SharedModels == Spec => []SharedModelsMatch
BY Invariance, PTL DEF IInv

\* A definition that is not PROP is the only one of its bus: the count of the
\* whole network had met no other generator.
LEMMA CountedAlone == IInv => OneVoltageController
<1> SUFFICES ASSUME IInv, NEW d \in Defined, d.model[1] # "PROP"
             PROVE  /\ \A e \in Defined : e.regulatedBusId = d.regulatedBusId => e = d
                    /\ d.regulatedBusId \notin DOMAIN busesWithDynamicModel
  BY DEF OneVoltageController
<1>1. pc # "read"
  BY ToSetEmpty DEF IInv, WalkInv, Defined
<1>2. \A e \in Defined : /\ e.id \in KeptBefore /\ e = DefinitionOf(e.id)
                         /\ e.regulatedBusId = input.regulated[e.id]
  <2> SUFFICES ASSUME NEW e \in Defined
               PROVE  /\ e.id \in KeptBefore /\ e = DefinitionOf(e.id)
                      /\ e.regulatedBusId = input.regulated[e.id]
    OBVIOUS
  <2>1. e = DefinitionOf(e.id) /\ e.id \in Generator /\ IsKept(e.id)
    BY DEF IInv, WalkInv, Candidates
  <2>2. e.regulatedBusId = input.regulated[e.id]
    BY <2>1 DEF DefinitionOf
  <2> QED
    BY <1>1, <2>1, <2>2, AllRead
<1>3. busMap[input.regulated[d.id]] # "MULTIPLES"
  <2>1. d.model = ModelOf(d.id)
    BY <1>2 DEF DefinitionOf
  <2> QED
    BY <2>1 DEF ModelOf
<1>4. busMap[input.regulated[d.id]] \in {"ONE", "MULTIPLES"}
  BY <1>2 DEF IInv, TypeOK, IsMap, ReadInv
<1>5. \A h \in KeptBefore : input.regulated[h] = input.regulated[d.id] => h = d.id
  BY <1>2, <1>3, <1>4 DEF IInv, ReadInv
<1>6. \A e \in Defined : e.regulatedBusId = d.regulatedBusId => e = d
  BY <1>2, <1>5
<1>7. d.regulatedBusId \notin DOMAIN busesWithDynamicModel
  BY <1>6 DEF IInv, SharedModelsMatch, SharedDefinitions
<1> QED
  BY <1>6, <1>7

\* Two voltage controllers never act on the same bus.
THEOREM OneController == Spec => []OneVoltageController
BY Invariance, CountedAlone, PTL

\* The tests of isDiagramValid say that the diagram spans an area.
LEMMA DiagramTest ==
  ASSUME NEW r \in Data
  PROVE  isDiagramValid(r) <=> SpansAnArea(r)
<1>1. CASE r.points = <<>>
  BY <1>1 DEF isDiagramValid, SpansAnArea
<1>2. CASE r.points # <<>>
  <2> DEFINE s == r.points
             P == {s[i].p : i \in DOMAIN s}
  <2>1. s \in Seq(Point) /\ Len(s) \in Nat \ {0} /\ DOMAIN s = 1..Len(s)
    BY <1>2 DEF Data
  <2>2. IsFiniteSet(P)
    <3> DEFINE f == [i \in 1..Len(s) |-> s[i].p]
    <3>1. IsFiniteSet(1..Len(s))
      BY <2>1, FS_Interval
    <3>2. f \in Surjection(1..Len(s), P)
      BY <2>1 DEF Surjection
    <3> HIDE DEF f, P
    <3> QED
      BY <3>1, <3>2, FS_Surjection
  <2>3. s[1].p \in P /\ {s[1].p} \in SUBSET P
    BY <2>1
  <2>4. Cardinality(P) \in Nat /\ 1 <= Cardinality(P)
    <3> HIDE DEF P
    <3>1. Cardinality({s[1].p}) = 1
      BY FS_Singleton
    <3>2. Cardinality({s[1].p}) <= Cardinality(P)
      BY <2>2, <2>3, FS_Subset
    <3> QED
      BY <2>2, <3>1, <3>2, FS_CardinalityType
  <2>5. Cardinality(P) = 1 <=> P = {s[1].p}
    <3> HIDE DEF P
    <3>1. Cardinality(P) = 1 <=> \E x : P = {x}
      BY <2>2, FS_Singleton
    <3> QED
      BY <2>3, <3>1
  <2>6. Cardinality(P) > 1 <=> P # {s[1].p}
    BY <2>4, <2>5
  <2>7. P # {s[1].p} <=> \E i \in DOMAIN s : s[i].p # s[1].p
    BY <2>3
  <2>8. (\E i \in DOMAIN s : s[i].p # s[1].p) => Len(s) > 1
    BY <2>1
  <2> QED
    BY <1>2, <2>6, <2>7, <2>8 DEF isDiagramValid, SpansAnArea
<1> QED
  BY <1>1, <1>2

\* In the end the definitions are those of the candidates.
LEMMA WalkComplete == IInv => EveryUsableGeneratorDefined
<1> SUFFICES ASSUME IInv, pc = "done"
             PROVE  /\ Len(generators) = Cardinality(Defined)
                    /\ Ids = {g \in Generator :
                                 LET r == input.data[g]
                                 IN  /\ r.connected /\ r.voltageRegulationOn /\ InRange(r)
                                     /\ input.bus[g] \in input.main
                                     /\ input.infinite \/ SpansAnArea(r)}
  BY DEF EveryUsableGeneratorDefined, Ids
<1>1. Len(generators) = Cardinality(Defined)
  BY StateType, InjectiveLength DEF IInv, WalkInv, Defined
<1>2. Visited = input.main /\ ToSet(queue) = {}
  BY ToSetEmpty DEF IInv, WalkInv, Visited
<1>3. Ids = Candidates
  BY <1>2 DEF IInv, WalkInv, Ids
<1>4. ASSUME NEW g \in Generator
      PROVE  /\ IsKept(g) <=> /\ input.data[g].connected
                              /\ input.data[g].voltageRegulationOn
                              /\ InRange(input.data[g])
             /\ ~Dropped(g) <=> input.infinite \/ SpansAnArea(input.data[g])
  <2>1. input.data[g] \in Data /\ input.infinite \in BOOLEAN
    BY StateType, InputType DEF IsDescription
  <2>2. InRange(input.data[g]) <=>
           /\ input.data[g].pmin <= input.data[g].minusTargetP
           /\ input.data[g].minusTargetP <= input.data[g].pmax
    BY <2>1 DEF InRange, Data
  <2>3. ModelOf(g)[2] = ~input.infinite
    BY DEF ModelOf
  <2>4. Dropped(g) <=> ~input.infinite /\ ~isDiagramValid(input.data[g])
    BY <2>3 DEF Dropped, isModelWithInvalidDiagram
  <2> QED
    BY <2>1, <2>2, <2>4, DiagramTest DEF IsKept
<1> QED
  BY <1>1, <1>2, <1>3, <1>4 DEF Candidates

\* Whatever the order of the walk, each generator of the main component that is
\* kept and whose diagram spans an area, when one is used, is defined once.
THEOREM UsableGeneratorsDefined == Spec => []EveryUsableGeneratorDefined
BY Invariance, WalkComplete, PTL

=============================================================================
