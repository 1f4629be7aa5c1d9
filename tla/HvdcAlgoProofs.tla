---------------------------- MODULE HvdcAlgoProofs ----------------------------
(***************************************************************************)
(* Proofs about HvdcAlgo, for every number of HVDC lines, every network    *)
(* and configuration: whatever the order in which the converters are met,  *)
(* the positions, the models and the shared buses are those of the network.*)
(***************************************************************************)
EXTENDS HvdcAlgo, SequenceLemmas

-----------------------------------------------------------------------------
(***************************************************************************)
(* The inductive invariant.                                                *)
(***************************************************************************)

\* The converters of the lines read so far and kept, and those that are VSC.
KeptBefore == {c \in Converter : c[1] < cursor /\ IsKept(c[1])}
VSCBefore == {c \in KeptBefore : input.type[c[1]] = "VSC"}

\* Each bus has the converters of S that are on it, once.
Lists(lists, S) ==
    /\ lists \in [Bus -> Seq(Converter)]
    /\ \A b \in Bus : /\ IsInjective(lists[b])
                      /\ ToSet(lists[b]) = {c \in S : input.bus[c] = b}

\* The count of the converters of S, bus by bus.
Counts(map, S) ==
    /\ IsMap(map, Bus, {"ONE", "MULTIPLES"})
    /\ \A b \in DOMAIN map : \E c \in S : input.bus[c] = b
    /\ \A c \in S :
          /\ input.bus[c] \in DOMAIN map
          /\ map[input.bus[c]] = "MULTIPLES" <=>
                \E d \in S : d # c /\ input.bus[d] = input.bus[c]

ReadInv ==
    /\ pc # "read" => cursor = L + 1
    /\ Lists(nodeConverters, KeptBefore)
    /\ Counts(busMap, VSCBefore)

\* The converters met: those of the nodes visited that are not in the queue.
Visited == input.main \ unvisited
Kept == {c \in Converter : IsKept(c[1])}
Met == {c \in Kept : input.bus[c] \in Visited /\ c \notin ToSet(queue)}
MetEnds(l) == {e \in {1, 2} : <<l, e>> \in Met}

\* Each line has the definition its ends met so far call for.
LinesInv ==
    /\ DOMAIN hvdcLines = {l \in Line : MetEnds(l) # {}}
    /\ \A l \in DOMAIN hvdcLines :
          /\ Ends(hvdcLines[l].position) = MetEnds(l)
          /\ hvdcLines[l].model = computeModel(l, hvdcLines[l].position)

\* The walk: the queue holds converters of the nodes visited.
WalkInv ==
    /\ pc = "read" => /\ unvisited = input.main /\ queue = <<>>
                      /\ hvdcLines = <<>> /\ vscBusVSCDefinitionsMap = <<>>
    /\ unvisited \subseteq input.main
    /\ pc = "done" => queue = <<>> /\ unvisited = {}
    /\ IsInjective(queue)
    /\ \A c \in ToSet(queue) : c \in Kept /\ input.bus[c] \in Visited
    /\ LinesInv

IInv ==
    /\ TypeOK
    /\ ReadInv
    /\ WalkInv
    /\ SharedModelsMatch
    /\ RecordedConvertersAreRight

-----------------------------------------------------------------------------
(***************************************************************************)
(* What the state stands for.                                              *)
(***************************************************************************)

\* A converter is an end of its line.
LEMMA ConverterType ==
  /\ \A c \in Converter : c[1] \in Line /\ c[2] \in {1, 2} /\ c = <<c[1], c[2]>>
  /\ \A l \in Line, e \in {1, 2} :
        <<l, e>> \in Converter /\ <<l, e>>[1] = l /\ <<l, e>>[2] = e
BY DEF Converter

\* What a network file gives.
LEMMA InputType ==
  ASSUME input \in Descriptions
  PROVE  /\ IsDescription(input)
         /\ \A c \in Converter : input.bus[c] \in Bus
         /\ \A l \in Line : input.type[l] \in {"LCC", "VSC"}
         /\ input.main \in SUBSET Bus /\ input.infinite \in BOOLEAN
<1>1. IsDescription(input)
  BY DescriptionsAssumption
<1> QED
  BY <1>1 DEF IsDescription

\* The types that the steps below use.
LEMMA StateType ==
  ASSUME IInv
  PROVE  /\ input \in Descriptions /\ L \in Nat /\ cursor \in 1..L+1
         /\ queue \in Seq(Converter)
         /\ IsMap(hvdcLines, Line, Definition)
         /\ IsMap(vscBusVSCDefinitionsMap, Bus, VSCDefinition)
BY LAssumption DEF IInv, TypeOK

\* A model is one of the sixteen.
LEMMA ModelType ==
  ASSUME input \in Descriptions, NEW l \in Line, NEW p \in {"FIRST", "SECOND", "BOTH"}
  PROVE  computeModel(l, p) \in Model
<1>1. Emulation(l, p) \in BOOLEAN /\ input.infinite \in BOOLEAN
  BY InputType DEF Emulation
<1> QED
  BY <1>1 DEF computeModel, Model

\* An end is recorded if and only if the model is proportional, and then all
\* the ends of the position are.
LEMMA RecordedIffProp ==
  ASSUME NEW l, NEW p
  PROVE  \A e : e \in RecordedEnds(l, p) <=>
                   computeModel(l, p).law = "PQProp" /\ e \in Ends(p)
<1>1. RecordedEnds(l, p) = {} \/ RecordedEnds(l, p) = Ends(p)
  BY DEF RecordedEnds, RegulatedByMultipleVSC
<1>2. computeModel(l, p).law = "PQProp" <=> RecordedEnds(l, p) # {}
  BY DEF computeModel, RecordedEnds
<1> QED
  BY <1>1, <1>2

\* Once both ends are met no end is recorded less than before.
LEMMA RecordedStay ==
  ASSUME NEW l, NEW p \in {"FIRST", "SECOND", "BOTH"}
  PROVE  RecordedEnds(l, p) \subseteq RecordedEnds(l, "BOTH")
BY DEF RecordedEnds, RegulatedByMultipleVSC, Ends

\* Reading changes no model once the walk has begun.
LEMMA SameModels ==
  ASSUME UNCHANGED <<input, busMap>>
  PROVE  /\ \A l, p : /\ computeModel(l, p)' = computeModel(l, p)
                      /\ RecordedEnds(l, p)' = RecordedEnds(l, p)
         /\ \A b : Regulators(b)' = Regulators(b)
         /\ Kept' = Kept
<1>1. \A c : IsShared(c)' <=> IsShared(c)
  BY DEF IsShared
<1>2. \A l, p : RecordedEnds(l, p)' = RecordedEnds(l, p)
  BY <1>1 DEF RecordedEnds, RegulatedByMultipleVSC
<1>3. \A l, p : computeModel(l, p)' = computeModel(l, p)
  BY <1>2 DEF computeModel, Emulation
<1> QED
  BY <1>2, <1>3 DEF Regulators, Built, Kept, IsKept

-----------------------------------------------------------------------------
(***************************************************************************)
(* The reading.                                                            *)
(***************************************************************************)

\* A converter joins the list of its bus.
LEMMA AddToLists ==
  ASSUME NEW lists, NEW S \in SUBSET Converter, Lists(lists, S),
         NEW c \in Converter, c \notin S, input.bus[c] \in Bus
  PROVE  Lists(AddConverter(lists, c), S \union {c})
<1> DEFINE b == input.bus[c]
           new == AddConverter(lists, c)
<1>1. /\ lists \in [Bus -> Seq(Converter)] /\ b \in Bus
      /\ lists[b] \in Seq(Converter) /\ IsInjective(lists[b])
      /\ ToSet(lists[b]) = {d \in S : input.bus[d] = b} /\ c \notin ToSet(lists[b])
  BY DEF Lists
<1>2. /\ Append(lists[b], c) \in Seq(Converter)
      /\ ToSet(Append(lists[b], c)) = ToSet(lists[b]) \union {c}
      /\ IsInjective(Append(lists[b], c))
  BY <1>1, ToSetAppend, InjectiveAppend
<1>3. /\ new \in [Bus -> Seq(Converter)] /\ new[b] = Append(lists[b], c)
      /\ \A d \in Bus \ {b} : new[d] = lists[d]
  BY <1>1, <1>2 DEF AddConverter
<1> HIDE DEF new
<1>4. ASSUME NEW d \in Bus
      PROVE  IsInjective(new[d]) /\ ToSet(new[d]) = {x \in S \union {c} : input.bus[x] = d}
  <2>1. CASE d = b
    BY <1>1, <1>2, <1>3, <2>1
  <2>2. CASE d # b
    BY <1>3, <2>2 DEF Lists
  <2> QED
    BY <2>1, <2>2
<1>5. Lists(new, S \union {c})
  BY <1>3, <1>4 DEF Lists
<1> QED
  BY <1>5 DEF new

\* A converter joins the count of its bus.
LEMMA AddToCounts ==
  ASSUME NEW map, NEW S \in SUBSET Converter, Counts(map, S),
         NEW c \in Converter, c \notin S, input.bus[c] \in Bus
  PROVE  Counts(updateMapRegulatingBuses(map, input.bus[c]), S \union {c})
<1> DEFINE b == input.bus[c]
           new == updateMapRegulatingBuses(map, b)
<1>1. /\ IsMap(new, Bus, {"ONE", "MULTIPLES"})
      /\ DOMAIN new = DOMAIN map \union {b}
      /\ new[b] = IF b \in DOMAIN map THEN "MULTIPLES" ELSE "ONE"
      /\ \A d \in DOMAIN map \ {b} : new[d] = map[d]
  <2>1. IsMap(map, Bus, {"ONE", "MULTIPLES"}) /\ b \in Bus
    BY DEF Counts
  <2>2. CASE b \in DOMAIN map
    BY <2>1, <2>2 DEF updateMapRegulatingBuses, IsMap
  <2>3. CASE b \notin DOMAIN map
    BY <2>1, <2>3 DEF updateMapRegulatingBuses, Insert, IsMap
  <2> QED
    BY <2>2, <2>3
<1>2. b \in DOMAIN map <=> \E d \in S : input.bus[d] = b
  BY DEF Counts
<1> HIDE DEF new
<1>3. \A d \in DOMAIN new : \E x \in S \union {c} : input.bus[x] = d
  BY <1>1 DEF Counts
<1>4. ASSUME NEW x \in S \union {c}
      PROVE  /\ input.bus[x] \in DOMAIN new
             /\ new[input.bus[x]] = "MULTIPLES" <=>
                   \E d \in S \union {c} : d # x /\ input.bus[d] = input.bus[x]
  <2>1. CASE input.bus[x] = b
    <3>1. new[b] = "MULTIPLES" <=> \E d \in S : input.bus[d] = b
      BY <1>1, <1>2
    <3>2. (\E d \in S : input.bus[d] = b) <=>
             \E d \in S \union {c} : d # x /\ input.bus[d] = b
      BY <2>1
    <3> QED
      BY <1>1, <2>1, <3>1, <3>2
  <2>2. CASE input.bus[x] # b
    <3>1. /\ x \in S /\ input.bus[x] \in DOMAIN map
          /\ map[input.bus[x]] = "MULTIPLES" <=>
                \E d \in S : d # x /\ input.bus[d] = input.bus[x]
      BY <2>2 DEF Counts
    <3> QED
      BY <1>1, <2>2, <3>1
  <2> QED
    BY <2>1, <2>2
<1>5. Counts(new, S \union {c})
  BY <1>1, <1>3, <1>4 DEF Counts
<1> QED
  BY <1>5 DEF new

-----------------------------------------------------------------------------
(***************************************************************************)
(* The steps.                                                              *)
(***************************************************************************)

\* While the network is read nothing is defined.
Reading ==
    /\ pc = "read"
    /\ unvisited = input.main /\ queue = <<>>
    /\ hvdcLines = <<>> /\ vscBusVSCDefinitionsMap = <<>>

\* During the reading there is no definition.
LEMMA NothingDefined ==
  Reading => WalkInv /\ SharedModelsMatch /\ RecordedConvertersAreRight
<1> SUFFICES ASSUME Reading
             PROVE  WalkInv /\ SharedModelsMatch /\ RecordedConvertersAreRight
  OBVIOUS
<1> USE DEF Reading
<1>1. ToSet(queue) = {} /\ Visited = {} /\ DOMAIN hvdcLines = {}
  BY ToSetEmpty DEF Visited
<1>2. \A l : MetEnds(l) = {}
  BY <1>1 DEF MetEnds, Met
<1>3. IsInjective(queue)
  BY DEF IsInjective
<1>4. SharedModelsMatch /\ RecordedConvertersAreRight
  BY <1>1 DEF SharedModelsMatch, RecordedConvertersAreRight
<1> QED
  BY <1>1, <1>2, <1>3, <1>4 DEF WalkInv, LinesInv

\* Before the first line is read.
LEMMA InitInv == Init => IInv
<1> SUFFICES ASSUME Init PROVE IInv
  OBVIOUS
<1> USE DEF Init
<1>1. input.main \in SUBSET Bus
  BY InputType
<1>2. TypeOK
  BY <1>1, LAssumption DEF TypeOK, IsMap
<1>3. KeptBefore = {} /\ VSCBefore = {}
  BY ConverterType, LAssumption DEF KeptBefore, VSCBefore, Line
<1>4. Lists(nodeConverters, {})
  BY ToSetEmpty DEF Lists, IsInjective
<1>5. Counts(busMap, {})
  BY DEF Counts, IsMap
<1>6. ReadInv
  BY <1>3, <1>4, <1>5 DEF ReadInv
<1>7. WalkInv /\ SharedModelsMatch /\ RecordedConvertersAreRight
  BY NothingDefined DEF Reading
<1> QED
  BY <1>2, <1>6, <1>7 DEF IInv

\* One line read: its two converters, one after the other, join the list and,
\* for a VSC line, the count of their buses.
LEMMA ReadLineInv ==
  ASSUME IInv, ReadLine
  PROVE  IInv'
<1> USE DEF ReadLine
<1>1. /\ input \in Descriptions /\ L \in Nat /\ cursor \in Line
      /\ cursor' = cursor + 1 /\ pc = "read" /\ pc' = "read"
      /\ UNCHANGED <<input, unvisited, queue, hvdcLines, vscBusVSCDefinitionsMap>>
  BY StateType DEF Line
<1>2. PICK l \in Line : l = cursor
  BY <1>1
<1> DEFINE c1 == <<l, 1>>
           c2 == <<l, 2>>
<1>3. /\ c1 \in Converter /\ c1[1] = l /\ c2 \in Converter /\ c2[1] = l /\ c1 # c2
      /\ input.bus[c1] \in Bus /\ input.bus[c2] \in Bus
      /\ \A c \in Converter : c[1] = l => c \in {c1, c2}
  BY <1>1, ConverterType, InputType
<1> HIDE DEF c1, c2
<1>4. WalkInv' /\ SharedModelsMatch' /\ RecordedConvertersAreRight'
  <2>1. Reading'
    BY <1>1 DEF IInv, WalkInv, Reading
  <2> QED
    BY <2>1, NothingDefined, PTL
<1>5. /\ KeptBefore \in SUBSET Converter /\ VSCBefore \in SUBSET Converter
      /\ c1 \notin KeptBefore /\ c2 \notin KeptBefore
      /\ c1 \notin VSCBefore /\ c2 \notin VSCBefore
  BY <1>1, <1>2, <1>3 DEF KeptBefore, VSCBefore, Line
<1>6. \A c \in Converter : c[1] < cursor' <=> c[1] < cursor \/ c \in {c1, c2}
  <2>1. \A k \in Line : k < cursor + 1 <=> k < cursor \/ k = l
    BY <1>1, <1>2 DEF Line
  <2> QED
    BY <1>1, <1>3, <2>1, ConverterType
<1>7. KeptBefore' = IF IsKept(l) THEN (KeptBefore \union {c1}) \union {c2} ELSE KeptBefore
  BY <1>1, <1>3, <1>6 DEF KeptBefore, IsKept
<1>8. VSCBefore' = IF IsKept(l) /\ input.type[l] = "VSC"
                   THEN (VSCBefore \union {c1}) \union {c2} ELSE VSCBefore
  BY <1>1, <1>3, <1>7 DEF VSCBefore
<1>9. Lists(nodeConverters', KeptBefore')
  <2> DEFINE one == AddConverter(nodeConverters, c1)
             two == AddConverter(one, c2)
  <2>1. Lists(nodeConverters, KeptBefore)
    BY DEF IInv, ReadInv
  <2>2. CASE IsKept(l)
    <3>1. Lists(one, KeptBefore \union {c1})
      BY <1>3, <1>5, <2>1, AddToLists
    <3>2. c2 \notin KeptBefore \union {c1} /\ KeptBefore \union {c1} \in SUBSET Converter
      BY <1>3, <1>5
    <3>3. nodeConverters' = two
      BY <1>2, <2>2 DEF c1, c2
    <3> HIDE DEF one
    <3>4. Lists(two, (KeptBefore \union {c1}) \union {c2})
      BY <1>3, <3>1, <3>2, AddToLists
    <3> QED
      BY <1>7, <2>2, <3>3, <3>4
  <2>3. CASE ~IsKept(l)
    BY <1>2, <1>7, <2>1, <2>3
  <2> QED
    BY <2>2, <2>3
<1>10. Counts(busMap', VSCBefore')
  <2> DEFINE one == updateMapRegulatingBuses(busMap, input.bus[c1])
             two == updateMapRegulatingBuses(one, input.bus[c2])
  <2>1. Counts(busMap, VSCBefore)
    BY DEF IInv, ReadInv
  <2>2. CASE IsKept(l) /\ input.type[l] = "VSC"
    <3>1. Counts(one, VSCBefore \union {c1})
      BY <1>3, <1>5, <2>1, AddToCounts
    <3>2. c2 \notin VSCBefore \union {c1} /\ VSCBefore \union {c1} \in SUBSET Converter
      BY <1>3, <1>5
    <3>3. busMap' = two
      BY <1>2, <2>2 DEF c1, c2
    <3> HIDE DEF one
    <3>4. Counts(two, (VSCBefore \union {c1}) \union {c2})
      BY <1>3, <3>1, <3>2, AddToCounts
    <3> QED
      BY <1>8, <2>2, <3>3, <3>4
  <2>3. CASE ~(IsKept(l) /\ input.type[l] = "VSC")
    <3>1. busMap' = busMap
      BY <1>2, <2>3
    <3> QED
      BY <1>8, <2>1, <2>3, <3>1
  <2> QED
    BY <2>2, <2>3
<1>11. ReadInv'
  BY <1>1, <1>9, <1>10 DEF ReadInv, Lists, Counts
<1>12. TypeOK'
  BY <1>1, <1>9, <1>10 DEF IInv, TypeOK, Lists, Counts, Line
<1> QED
  BY <1>4, <1>11, <1>12 DEF IInv

\* What buildTree has collected stays during the walk.
LEMMA ReadKept ==
  ASSUME IInv, UNCHANGED <<input, cursor, busMap, nodeConverters>>,
         pc' # "read" => cursor = L + 1
  PROVE  ReadInv'
<1>1. KeptBefore' = KeptBefore
  BY DEF KeptBefore, IsKept
<1>2. VSCBefore' = VSCBefore
  BY <1>1 DEF VSCBefore
<1> QED
  BY <1>1, <1>2 DEF IInv, ReadInv, Lists, Counts, IsMap

\* When the walk has begun, all the lines have been read.
LEMMA AllRead ==
  ASSUME IInv, pc # "read"
  PROVE  KeptBefore = Kept /\ VSCBefore = {c \in Kept : input.type[c[1]] = "VSC"}
<1>1. \A c \in Converter : c[1] < cursor
  BY StateType, ConverterType DEF IInv, ReadInv, Line
<1> QED
  BY <1>1 DEF KeptBefore, VSCBefore, Kept

\* As long as the converters met and the definitions stay, so do the invariants.
LEMMA SameDefinitions ==
  ASSUME IInv, UNCHANGED <<input, busMap, hvdcLines, vscBusVSCDefinitionsMap>>, Met' = Met
  PROVE  LinesInv' /\ SharedModelsMatch' /\ RecordedConvertersAreRight'
<1>1. \A l : MetEnds(l)' = MetEnds(l)
  BY DEF MetEnds
<1>2. \A l \in DOMAIN hvdcLines :
         computeModel(l, hvdcLines[l].position)' = computeModel(l, hvdcLines[l].position)
  BY SameModels
<1>3. SharedModelsMatch'
  BY DEF IInv, SharedModelsMatch
<1>4. RecordedConvertersAreRight'
  BY SameModels DEF IInv, RecordedConvertersAreRight
<1> QED
  BY <1>1, <1>2, <1>3, <1>4 DEF IInv, WalkInv, LinesInv

\* The end of a loop, and a step that changes nothing.
LEMMA LoopEndInv ==
  ASSUME IInv, EndOfBuild \/ EndOfWalk \/ UNCHANGED vars
  PROVE  IInv'
<1>1. /\ UNCHANGED <<input, cursor, busMap, nodeConverters, unvisited, queue,
                     hvdcLines, vscBusVSCDefinitionsMap>>
      /\ pc' \in {"read", "walk", "done"}
      /\ pc' = "read" => pc = "read"
      /\ pc' = "done" => queue = <<>> /\ unvisited = {}
      /\ pc' # "read" => cursor = L + 1
  BY StateType DEF EndOfBuild, EndOfWalk, vars, IInv, TypeOK, ReadInv, WalkInv
<1>2. TypeOK'
  BY <1>1 DEF IInv, TypeOK
<1>3. Visited' = Visited /\ Met' = Met /\ Kept' = Kept /\ ToSet(queue)' = ToSet(queue)
  BY <1>1 DEF Visited, Met, Kept, IsKept, ToSet
<1>4. WalkInv' /\ SharedModelsMatch' /\ RecordedConvertersAreRight'
  BY <1>1, <1>3, SameDefinitions DEF IInv, WalkInv
<1> QED
  BY <1>1, <1>2, <1>4, ReadKept DEF IInv

\* A node is visited: its converters are the queue, none is met yet.
LEMMA VisitNodeInv ==
  ASSUME IInv, VisitNode
  PROVE  IInv'
<1> USE DEF VisitNode
<1>1. PICK b \in unvisited : unvisited' = unvisited \ {b} /\ queue' = nodeConverters[b]
  OBVIOUS
<1>2. /\ b \in Bus /\ b \in input.main /\ pc = "walk" /\ pc' = "walk" /\ queue = <<>>
      /\ UNCHANGED <<input, cursor, busMap, nodeConverters, hvdcLines,
                     vscBusVSCDefinitionsMap>>
  BY InputType DEF IInv, TypeOK, WalkInv
<1>3. /\ IsInjective(queue') /\ queue' \in Seq(Converter)
      /\ ToSet(queue') = {c \in Kept : input.bus[c] = b}
  BY <1>1, <1>2, AllRead DEF IInv, ReadInv, Lists
<1>4. TypeOK'
  BY <1>1, <1>2, <1>3 DEF IInv, TypeOK
<1>5. ReadInv'
  BY <1>2, ReadKept DEF IInv, ReadInv
<1>6. /\ Visited' = Visited \union {b} /\ b \notin Visited /\ Kept' = Kept
      /\ ToSet(queue) = {}
  BY <1>1, <1>2, ToSetEmpty, SameModels DEF Visited
<1>7. Met' = Met
  BY <1>2, <1>3, <1>6 DEF Met, ToSet
<1>8. /\ \A c \in ToSet(queue') : c \in Kept' /\ input'.bus[c] \in Visited'
      /\ unvisited' \subseteq input'.main
  BY <1>1, <1>2, <1>3, <1>6 DEF IInv, WalkInv
<1>9. WalkInv' /\ SharedModelsMatch' /\ RecordedConvertersAreRight'
  BY <1>2, <1>3, <1>7, <1>8, SameDefinitions DEF WalkInv, ToSet
<1> QED
  BY <1>4, <1>5, <1>9 DEF IInv

\* m is map with the ends E of the line of c: each bus of the new map keeps its
\* id or gets that of an end on it.
Extends(m, map, c, E) ==
    /\ IsMap(m, Bus, VSCDefinition)
    /\ DOMAIN m = DOMAIN map \union {input.bus[<<c[1], e>>] : e \in E}
    /\ \A b \in DOMAIN m :
          \/ b \in DOMAIN map /\ m[b].id = map[b].id
          \/ \E e \in E : b = input.bus[<<c[1], e>>] /\ m[b].id = <<c[1], e>>

RecordEnd(map, c, e, ends) ==
    IF e \in ends THEN Insert(map, KeyOf(<<c[1], e>>), Entry(c, e)) ELSE map

\* The record of one end of a line.
LEMMA OneRecord ==
  ASSUME NEW map, IsMap(map, Bus, VSCDefinition), input \in Descriptions,
         NEW c \in Converter, NEW e \in {1, 2}, NEW ends
  PROVE  Extends(RecordEnd(map, c, e, ends), map, c, ends \intersect {e})
<1> DEFINE x == <<c[1], e>>
           m == RecordEnd(map, c, e, ends)
<1>1. /\ x \in Converter /\ KeyOf(x) = input.bus[x] /\ KeyOf(x) \in Bus
      /\ Entry(c, e) \in VSCDefinition /\ Entry(c, e).id = x
  BY ConverterType, InputType DEF KeyOf, Entry, VSCDefinition
<1>2. CASE e \notin ends
  <2>1. ends \intersect {e} = {} /\ m = map
    BY <1>2 DEF RecordEnd
  <2> HIDE DEF m
  <2>2. Extends(m, map, c, ends \intersect {e})
    BY <2>1 DEF Extends
  <2> QED
    BY <2>2 DEF m
<1>3. CASE e \in ends
  <2>1. m = Insert(map, KeyOf(x), Entry(c, e)) /\ ends \intersect {e} = {e}
    BY <1>3 DEF RecordEnd
  <2>2. /\ IsMap(m, Bus, VSCDefinition)
        /\ DOMAIN m = DOMAIN map \union {KeyOf(x)}
        /\ \A b \in DOMAIN m : m[b] = IF b \in DOMAIN map THEN map[b] ELSE Entry(c, e)
    BY <1>1, <2>1 DEF Insert, IsMap
  <2> HIDE DEF m
  <2>3. DOMAIN m = DOMAIN map \union {input.bus[<<c[1], d>>] : d \in {e}}
    BY <1>1, <2>2
  <2>4. \A b \in DOMAIN m : \/ b \in DOMAIN map /\ m[b].id = map[b].id
                            \/ b = input.bus[<<c[1], e>>] /\ m[b].id = <<c[1], e>>
    BY <1>1, <2>2
  <2>5. Extends(m, map, c, ends \intersect {e})
    BY <2>1, <2>2, <2>3, <2>4 DEF Extends
  <2> QED
    BY <2>5 DEF m
<1> QED
  BY <1>2, <1>3

\* The record of the main ends of a line.
LEMMA RecordExtends ==
  ASSUME NEW map, IsMap(map, Bus, VSCDefinition), input \in Descriptions,
         NEW c \in Converter, NEW ends \in SUBSET {1, 2}
  PROVE  Extends(Record(map, c, ends), map, c, ends)
<1> DEFINE m1 == RecordEnd(map, c, 1, ends)
           m2 == RecordEnd(m1, c, 2, ends)
<1>1. Extends(m1, map, c, ends \intersect {1})
  BY OneRecord
<1>2. Record(map, c, ends) = m2
  BY DEF Record, RecordEnd
<1> HIDE DEF m1
<1>3. Extends(m2, m1, c, ends \intersect {2})
  <2>1. IsMap(m1, Bus, VSCDefinition)
    BY <1>1 DEF Extends
  <2> QED
    BY <2>1, OneRecord
<1> HIDE DEF m2
<1>4. Extends(m2, map, c, ends)
  <2>1. ends = (ends \intersect {1}) \union (ends \intersect {2})
    OBVIOUS
  <2>2. DOMAIN m2 = DOMAIN map \union {input.bus[<<c[1], e>>] : e \in ends}
    BY <1>1, <1>3, <2>1 DEF Extends
  <2>3. ASSUME NEW b \in DOMAIN m2
        PROVE  \/ b \in DOMAIN map /\ m2[b].id = map[b].id
               \/ \E e \in ends : b = input.bus[<<c[1], e>>] /\ m2[b].id = <<c[1], e>>
    BY <1>1, <1>3 DEF Extends
  <2> QED
    BY <1>3, <2>2, <2>3 DEF Extends
<1> QED
  BY <1>2, <1>4

\* The converters the shared buses are for.
PropEnds == {c \in Converter :
                /\ c[1] \in DOMAIN hvdcLines
                /\ hvdcLines[c[1]].model.law = "PQProp"
                /\ c[2] \in Ends(hvdcLines[c[1]].position)}

\* In terms of the ends computeModel returns.
LEMMA PropEndsRecorded ==
  LinesInv =>
    PropEnds = {c \in Converter :
                   /\ c[1] \in DOMAIN hvdcLines
                   /\ c[2] \in RecordedEnds(c[1], hvdcLines[c[1]].position)}
<1> SUFFICES ASSUME LinesInv, NEW c \in Converter, c[1] \in DOMAIN hvdcLines
             PROVE  /\ hvdcLines[c[1]].model.law = "PQProp"
                    /\ c[2] \in Ends(hvdcLines[c[1]].position)
                    <=> c[2] \in RecordedEnds(c[1], hvdcLines[c[1]].position)
  BY DEF PropEnds
<1>1. hvdcLines[c[1]].model = computeModel(c[1], hvdcLines[c[1]].position)
  BY DEF LinesInv
<1> QED
  BY <1>1, RecordedIffProp

\* A converter is met: its line gets a definition, or the definition of both
\* ends, and its recorded ends join the map.
LEMMA DefineConverterInv ==
  ASSUME IInv, DefineConverter
  PROVE  IInv'
<1> USE DEF DefineConverter
<1>1. /\ pc = "walk" /\ pc' = "walk" /\ queue # <<>> /\ queue' = Tail(queue)
      /\ UNCHANGED <<input, cursor, busMap, nodeConverters, unvisited>>
      /\ input \in Descriptions
  BY StateType
<1>2. /\ Tail(queue) \in Seq(Converter) /\ Head(queue) \in Converter
      /\ ToSet(queue) = {Head(queue)} \union ToSet(Tail(queue))
      /\ IsInjective(Tail(queue)) /\ Head(queue) \notin ToSet(Tail(queue))
  BY <1>1, StateType, ToSetTail, InjectiveTail DEF IInv, WalkInv
<1>3. PICK c \in Converter : c = Head(queue)
  BY <1>2
<1>4. PICK l \in Line : l = c[1]
  BY ConverterType
<1>5. PICK p \in {"FIRST", "SECOND", "BOTH"} : p = PositionOn(c)
  BY DEF PositionOn
<1> DEFINE ends == RecordedEnds(l, p)
<1>6. /\ hvdcLines' = Assign(hvdcLines, l, [position |-> p, model |-> computeModel(l, p)])
      /\ vscBusVSCDefinitionsMap' = Record(vscBusVSCDefinitionsMap, c, ends)
  BY <1>3, <1>4, <1>5
<1>7. /\ IsMap(hvdcLines', Line, Definition)
      /\ DOMAIN hvdcLines' = DOMAIN hvdcLines \union {l}
      /\ hvdcLines'[l].position = p /\ hvdcLines'[l].model = computeModel(l, p)
      /\ \A k \in DOMAIN hvdcLines \ {l} : hvdcLines'[k] = hvdcLines[k]
  <2>1. [position |-> p, model |-> computeModel(l, p)] \in Definition
    BY <1>1, ModelType DEF Definition
  <2>2. IsMap(hvdcLines, Line, Definition)
    BY StateType
  <2> QED
    BY <1>6, <2>1, <2>2 DEF Assign, IsMap
<1>8. /\ Met' = Met \union {c} /\ c \notin Met /\ c \in Kept
      /\ Kept' = Kept /\ Visited' = Visited
  <2>1. Kept' = Kept /\ Visited' = Visited
    BY <1>1, SameModels DEF Visited
  <2>2. c \in Kept /\ input.bus[c] \in Visited /\ c \in ToSet(queue)
    BY <1>2, <1>3 DEF IInv, WalkInv
  <2>3. ToSet(queue') = ToSet(Tail(queue)) /\ c \notin ToSet(Tail(queue))
    BY <1>1, <1>2, <1>3
  <2>4. ToSet(queue)' = ToSet(Tail(queue))
    BY <1>1 DEF ToSet
  <2> QED
    BY <1>1, <1>2, <1>3, <2>1, <2>2, <2>3, <2>4 DEF Met
<1>9. /\ MetEnds(l)' = MetEnds(l) \union {c[2]} /\ c[2] \notin MetEnds(l)
      /\ \A k \in Line \ {l} : MetEnds(k)' = MetEnds(k)
  BY <1>4, <1>8, ConverterType DEF MetEnds
<1>10. Ends(p) = MetEnds(l)'
  <2>1. c[2] \in {1, 2} /\ MetEnds(l) \in SUBSET {1, 2}
    BY ConverterType DEF MetEnds
  <2>2. l \in DOMAIN hvdcLines <=> MetEnds(l) # {}
    BY DEF IInv, WalkInv, LinesInv
  <2> QED
    BY <1>4, <1>5, <1>9, <2>1, <2>2 DEF PositionOn, Ends
<1>11. LinesInv'
  <2>1. DOMAIN hvdcLines' = {k \in Line : MetEnds(k)' # {}}
    BY <1>7, <1>9 DEF IInv, WalkInv, LinesInv
  <2>2. \A k, q : computeModel(k, q)' = computeModel(k, q)
    BY <1>1, SameModels
  <2>3. \A k \in DOMAIN hvdcLines' :
           /\ Ends(hvdcLines'[k].position) = MetEnds(k)'
           /\ hvdcLines'[k].model = computeModel(k, hvdcLines'[k].position)
    BY <1>7, <1>9, <1>10, <2>1 DEF IInv, WalkInv, LinesInv
  <2>4. \A k \in DOMAIN hvdcLines' :
           /\ Ends(hvdcLines[k].position)' = Ends(hvdcLines'[k].position)
           /\ computeModel(k, hvdcLines[k].position)' =
                 computeModel(k, hvdcLines'[k].position)
    BY <1>1, <2>2 DEF Ends
  <2> QED
    BY <2>1, <2>3, <2>4 DEF LinesInv
<1>12. Extends(vscBusVSCDefinitionsMap', vscBusVSCDefinitionsMap, c, ends)
  <2>1. ends \in SUBSET {1, 2}
    BY DEF RecordedEnds, RegulatedByMultipleVSC, Ends
  <2>2. IsMap(vscBusVSCDefinitionsMap, Bus, VSCDefinition)
    BY StateType
  <2> HIDE DEF ends
  <2>3. Extends(Record(vscBusVSCDefinitionsMap, c, ends), vscBusVSCDefinitionsMap, c, ends)
    BY <1>1, <2>1, <2>2, RecordExtends
  <2> QED
    BY <1>6, <2>3
<1>13. SharedModelsMatch'
  <2>1. PropEnds' = PropEnds \union {<<l, e>> : e \in ends}
    <3>1. \A x \in Converter :
             x \in PropEnds <=>
                /\ x[1] \in DOMAIN hvdcLines
                /\ x[2] \in RecordedEnds(x[1], hvdcLines[x[1]].position)
      BY PropEndsRecorded DEF IInv, WalkInv
    <3>2. \A x \in Converter :
             x \in PropEnds' <=>
                /\ x[1] \in DOMAIN hvdcLines'
                /\ x[2] \in RecordedEnds(x[1], hvdcLines'[x[1]].position)
      <4>1. \A x \in Converter :
               x \in PropEnds' <=>
                  /\ x[1] \in DOMAIN hvdcLines'
                  /\ hvdcLines'[x[1]].model.law = "PQProp"
                  /\ x[2] \in Ends(hvdcLines'[x[1]].position)
        BY DEF PropEnds, Ends
      <4>2. \A k \in DOMAIN hvdcLines' :
               hvdcLines'[k].model = computeModel(k, hvdcLines'[k].position)
        BY <1>7 DEF IInv, WalkInv, LinesInv
      <4> QED
        BY <4>1, <4>2, RecordedIffProp
    <3>3. \A x \in Converter :
             x \in PropEnds' <=>
                \/ x[1] # l /\ x \in PropEnds
                \/ x[1] = l /\ x[2] \in ends
      BY <1>7, <3>1, <3>2
    <3>4. \A x \in Converter : x[1] = l /\ x \in PropEnds => x[2] \in ends
      <4>1. ASSUME l \in DOMAIN hvdcLines
            PROVE  RecordedEnds(l, hvdcLines[l].position) \subseteq ends
        <5>1. p = "BOTH" /\ hvdcLines[l].position \in {"FIRST", "SECOND", "BOTH"}
          BY <1>4, <1>5, <4>1, StateType DEF PositionOn, IsMap, Definition
        <5> QED
          BY <5>1, RecordedStay
      <4> QED
        BY <3>1, <4>1
    <3>5. ends \subseteq {1, 2}
      BY DEF RecordedEnds, RegulatedByMultipleVSC, Ends
    <3>6. /\ \A e \in ends : <<l, e>> \in Converter /\ <<l, e>>[1] = l /\ <<l, e>>[2] = e
          /\ \A x \in Converter : x[1] = l => x = <<l, x[2]>>
      BY <3>5, ConverterType
    <3>7. PropEnds \subseteq Converter /\ PropEnds' \subseteq Converter
      BY DEF PropEnds, Converter, Line
    <3> HIDE DEF ends
    <3> QED
      BY <3>3, <3>4, <3>6, <3>7
  <2>2. DOMAIN vscBusVSCDefinitionsMap = {input.bus[x] : x \in PropEnds}
    BY DEF IInv, SharedModelsMatch, PropEnds
  <2>3. DOMAIN vscBusVSCDefinitionsMap' =
           DOMAIN vscBusVSCDefinitionsMap \union {input.bus[<<l, e>>] : e \in ends}
    BY <1>4, <1>12 DEF Extends
  <2> HIDE DEF ends
  <2>4. DOMAIN vscBusVSCDefinitionsMap' = {input.bus[x] : x \in PropEnds'}
    BY <2>1, <2>2, <2>3
  <2> QED
    BY <1>1, <2>4 DEF SharedModelsMatch, PropEnds
<1>14. RecordedConvertersAreRight'
  <2>1. \A b \in DOMAIN vscBusVSCDefinitionsMap' :
           LET x == vscBusVSCDefinitionsMap'[b].id
           IN  x \in Regulators(b) /\ x[1] \in DOMAIN hvdcLines'
    <3> SUFFICES ASSUME NEW b \in DOMAIN vscBusVSCDefinitionsMap',
                        NEW x, x = vscBusVSCDefinitionsMap'[b].id
                 PROVE  x \in Regulators(b) /\ x[1] \in DOMAIN hvdcLines'
      OBVIOUS
    <3>1. CASE /\ b \in DOMAIN vscBusVSCDefinitionsMap
               /\ x = vscBusVSCDefinitionsMap[b].id
      BY <1>7, <3>1 DEF IInv, RecordedConvertersAreRight
    <3>2. CASE \E e \in ends : b = input.bus[<<l, e>>] /\ x = <<l, e>>
      <4>1. PICK e \in ends : b = input.bus[<<l, e>>] /\ x = <<l, e>>
        BY <3>2
      <4>2. e \in {1, 2} /\ input.type[l] # "LCC"
        BY DEF RecordedEnds, RegulatedByMultipleVSC, Ends
      <4>3. x \in Converter /\ x[1] = l /\ input.type[l] = "VSC"
        <5>1. <<l, e>> \in Converter /\ <<l, e>>[1] = l
          BY <4>2, ConverterType
        <5>2. input.type[l] \in {"LCC", "VSC"}
          BY <1>1, InputType
        <5> QED
          BY <4>1, <4>2, <5>1, <5>2
      <4>4. l \in Built
        BY <1>4, <1>8 DEF Built, Kept, IsKept
      <4> QED
        BY <1>7, <4>1, <4>3, <4>4 DEF Regulators
    <3> HIDE DEF ends
    <3> QED
      BY <1>4, <1>12, <3>1, <3>2 DEF Extends
  <2>2. \A b : Regulators(b)' = Regulators(b)
    BY <1>1, SameModels
  <2> QED
    BY <2>1, <2>2 DEF RecordedConvertersAreRight
<1>15. TypeOK'
  BY <1>1, <1>2, <1>7, <1>12 DEF IInv, TypeOK, Extends
<1>16. WalkInv'
  <2>1. \A x \in ToSet(queue') : x \in Kept /\ input.bus[x] \in Visited
    BY <1>1, <1>2 DEF IInv, WalkInv
  <2>2. IsInjective(queue') /\ unvisited' \subseteq input'.main
    BY <1>1, <1>2 DEF IInv, WalkInv
  <2> QED
    BY <1>1, <1>8, <1>11, <2>1, <2>2 DEF WalkInv, ToSet
<1>17. ReadInv'
  BY <1>1, ReadKept DEF IInv, ReadInv
<1> QED
  BY <1>11, <1>13, <1>14, <1>15, <1>16, <1>17 DEF IInv

\* Every step keeps the invariant.
LEMMA NextInv == IInv /\ [Next]_vars => IInv'
BY ReadLineInv, LoopEndInv, VisitNodeInv, DefineConverterInv DEF Next, Terminated

\* The invariant holds in every reachable state.
LEMMA Invariance == Spec => []IInv
BY InitInv, NextInv, PTL DEF Spec

-----------------------------------------------------------------------------
(***************************************************************************)
(* The theorems.                                                           *)
(***************************************************************************)

\* The variables of buildTree and of HVDCDefinitionAlgorithm keep their types.
THEOREM TypeCorrect == Spec => []TypeOK
BY Invariance, PTL DEF IInv

\* At any time vscBusVSCDefinitionsMap holds exactly the buses that the lines
\* with a proportional model regulate at their main ends.
THEOREM SharedModels == Spec => []SharedModelsMatch
BY Invariance, PTL DEF IInv

\* The converter recorded for a bus is a VSC of this bus whose line is defined.
THEOREM RecordedConverters == Spec => []RecordedConvertersAreRight
BY Invariance, PTL DEF IInv

\* At the end of the walk the ends met are those in the main component.
LEMMA AllMet ==
  ASSUME IInv, pc = "done"
  PROVE  /\ DOMAIN hvdcLines = {l \in Built : MainEnds(l) # {}}
         /\ \A l \in DOMAIN hvdcLines :
               /\ l \in Built /\ l \in Line
               /\ hvdcLines[l].position \in {"FIRST", "SECOND", "BOTH"}
               /\ Ends(hvdcLines[l].position) = MainEnds(l)
               /\ hvdcLines[l].model = computeModel(l, hvdcLines[l].position)
<1>1. Visited = input.main /\ ToSet(queue) = {} /\ LinesInv
  BY ToSetEmpty DEF IInv, WalkInv, Visited
<1>2. \A l \in Line : MetEnds(l) = IF l \in Built THEN MainEnds(l) ELSE {}
  BY <1>1, ConverterType DEF MetEnds, Met, Kept, IsKept, Built, MainEnds, InMain
<1>3. DOMAIN hvdcLines = {l \in Built : MainEnds(l) # {}}
  BY <1>1, <1>2 DEF LinesInv, Built
<1>4. ASSUME NEW l \in DOMAIN hvdcLines
      PROVE  hvdcLines[l].position \in {"FIRST", "SECOND", "BOTH"}
  BY StateType DEF IsMap, Definition
<1> QED
  BY <1>1, <1>2, <1>3, <1>4 DEF LinesInv, Built

\* Whatever the order of the walk, in the end the lines defined are those with
\* an end in the main component, with the positions of these ends.
THEOREM Positions == Spec => []PositionsAreRight
<1>1. IInv => PositionsAreRight
  BY AllMet DEF PositionsAreRight
<1> QED
  BY <1>1, Invariance, PTL

\* The count of a bus tells whether another VSC converter regulates it.
LEMMA SharedIffRegulated ==
  ASSUME IInv, pc = "done", NEW c \in Converter, c[1] \in Built, input.type[c[1]] = "VSC"
  PROVE  IsShared(c) <=> Regulators(input.bus[c]) \ {c} # {}
<1>1. Counts(busMap, VSCBefore) /\ VSCBefore = {d \in Kept : input.type[d[1]] = "VSC"}
  BY AllRead DEF IInv, ReadInv
<1>2. Kept = {d \in Converter : d[1] \in Built}
  BY ConverterType DEF Kept, IsKept, Built
<1>3. \A b : Regulators(b) = {d \in VSCBefore : input.bus[d] = b}
  BY <1>1, <1>2 DEF Regulators
<1>4. /\ c \in VSCBefore /\ input.bus[c] \in DOMAIN busMap
      /\ busMap[input.bus[c]] = "MULTIPLES" <=>
            \E d \in VSCBefore : d # c /\ input.bus[d] = input.bus[c]
  BY <1>1, <1>2 DEF Counts
<1> QED
  BY <1>3, <1>4 DEF IsShared

\* The models at the end of the walk.
LEMMA WalkModels == IInv => ModelsAreRight
<1> SUFFICES ASSUME IInv, pc = "done", NEW l \in DOMAIN hvdcLines
             PROVE  LET model == hvdcLines[l].model
                        shares == \E e \in MainEnds(l) :
                                     Regulators(input.bus[<<l, e>>]) \ {<<l, e>>} # {}
                    IN  /\ model.law = "PTanPhi" <=> input.type[l] = "LCC"
                        /\ model.law = "PQProp" <=> input.type[l] = "VSC" /\ shares
                        /\ model.dangling <=> MainEnds(l) # {1, 2}
                        /\ model.emulation => MainEnds(l) = {1, 2} /\ l \in input.control
  BY DEF ModelsAreRight
<1> DEFINE p == hvdcLines[l].position
           shares == \E e \in MainEnds(l) :
                        Regulators(input.bus[<<l, e>>]) \ {<<l, e>>} # {}
<1>1. /\ l \in Built /\ l \in Line /\ p \in {"FIRST", "SECOND", "BOTH"}
      /\ Ends(p) = MainEnds(l) /\ hvdcLines[l].model = computeModel(l, p)
  BY AllMet
<1>2. input.type[l] \in {"LCC", "VSC"}
  BY <1>1, StateType, InputType
<1> HIDE DEF p
<1>3. input.type[l] = "VSC" =>
         (shares <=> \E e \in Ends(p) : IsShared(<<l, e>>))
  <2> SUFFICES ASSUME input.type[l] = "VSC"
               PROVE  shares <=> \E e \in Ends(p) : IsShared(<<l, e>>)
    OBVIOUS
  <2>1. \A e \in MainEnds(l) :
           IsShared(<<l, e>>) <=> Regulators(input.bus[<<l, e>>]) \ {<<l, e>>} # {}
    <3> SUFFICES ASSUME NEW e \in MainEnds(l)
                 PROVE  IsShared(<<l, e>>) <=>
                           Regulators(input.bus[<<l, e>>]) \ {<<l, e>>} # {}
      OBVIOUS
    <3>1. <<l, e>> \in Converter /\ <<l, e>>[1] = l
      BY <1>1, ConverterType DEF MainEnds
    <3> QED
      BY <1>1, <3>1, SharedIffRegulated
  <2> QED
    BY <1>1, <2>1
<1>4. RecordedEnds(l, p) # {} <=>
         input.type[l] = "VSC" /\ \E e \in Ends(p) : IsShared(<<l, e>>)
  BY <1>2 DEF RecordedEnds, RegulatedByMultipleVSC
<1>5. computeModel(l, p).law = "PTanPhi" <=> input.type[l] = "LCC"
  BY <1>2 DEF computeModel
<1>6. computeModel(l, p).law = "PQProp" <=> input.type[l] = "VSC" /\ shares
  <2>1. computeModel(l, p).law = "PQProp" <=> RecordedEnds(l, p) # {}
    BY DEF computeModel, RecordedEnds
  <2> QED
    BY <1>3, <1>4, <2>1
<1>7. p = "BOTH" <=> MainEnds(l) = {1, 2}
  BY <1>1 DEF Ends
<1>8. computeModel(l, p).dangling <=> MainEnds(l) # {1, 2}
  BY <1>7 DEF computeModel
<1>9. computeModel(l, p).emulation => MainEnds(l) = {1, 2} /\ l \in input.control
  BY <1>7 DEF computeModel, Emulation
<1> QED
  BY <1>1, <1>5, <1>6, <1>8, <1>9

\* Whatever the order of the walk, in the end the model of a line is the one
\* its type, its main ends and the other converters of their buses call for.
THEOREM Models == Spec => []ModelsAreRight
BY Invariance, WalkModels, PTL

=============================================================================
