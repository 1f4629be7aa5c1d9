------------------------------ MODULE HvdcAlgo ------------------------------
(***************************************************************************)
(* The HVDC lines, from the reading of the network to their definitions:   *)
(* NetworkManager::buildTree keeps the lines whose converters are both     *)
(* connected and counts, bus by bus, how many VSC converters regulate it;  *)
(* HVDCDefinitionAlgorithm, called on each node of the main connex         *)
(* component, meets the converters one after the other: the definition of  *)
(* a line is made when its first converter is met and revised when the     *)
(* second is, which tells that both ends are in the component.             *)
(***************************************************************************)
EXTENDS Naturals, FiniteSets, SequencesExt

CONSTANTS
    L,            \* the number of HVDC lines, numbered in reading order
    Bus,          \* the bus ids
    Descriptions  \* the networks and configurations considered

Line == 1..L
Converter == Line \X {1, 2}

(***************************************************************************)
(* A description gives                                                     *)
(*   type         the converter type of each line, "LCC" or "VSC"          *)
(*   bus          the bus of each converter; a VSC regulates its own bus   *)
(*                (external: ServiceManagerInterface::getRegulatedBus)     *)
(*   connected    the converters initially connected                       *)
(*   control      the lines with an active power control extension         *)
(*   main         the buses of the main connex component                   *)
(*   infinite     useInfiniteReactivelimits                                *)
(***************************************************************************)
IsDescription(d) ==
    /\ d.type \in [Line -> {"LCC", "VSC"}]
    /\ d.bus \in [Converter -> Bus]
    /\ d.connected \in SUBSET Converter
    /\ d.control \in SUBSET Line
    /\ d.main \in SUBSET Bus
    /\ d.infinite \in BOOLEAN

ASSUME LAssumption == L \in Nat
ASSUME DescriptionsAssumption == \A d \in Descriptions : IsDescription(d)

VARIABLES
    input,                   \* the description, read-only
    pc,                      \* "read", "walk" or "done"
    cursor,                  \* the next line buildTree reads
    busMap,                  \* mapBusVSCConvertersBusId_
    nodeConverters,          \* Node::converters of each bus
    unvisited,               \* the nodes of the main component still to walk
    queue,                   \* the rest of the loop on the current node
    hvdcLines,               \* the definitions, by line
    vscBusVSCDefinitionsMap  \* the VSC definition recorded for shared buses

vars == <<input, pc, cursor, busMap, nodeConverters, unvisited, queue,
          hvdcLines, vscBusVSCDefinitionsMap>>

\* The sixteen values of HVDCModel, by the parts of their names.
Model == [law : {"PTanPhi", "PQProp", "PV"}, dangling : BOOLEAN,
          diagram : BOOLEAN, emulation : BOOLEAN]
Definition == [position : {"FIRST", "SECOND", "BOTH"}, model : Model]

\* A VSCDefinition: its id and the converter its qMax, qMin and points are of.
VSCDefinition == [id : Converter, limits : Converter]

\* A map whose keys are in K and values in V.
IsMap(map, K, V) == DOMAIN map \subseteq K /\ map \in [DOMAIN map -> V]

TypeOK ==
    /\ input \in Descriptions
    /\ pc \in {"read", "walk", "done"}
    /\ cursor \in 1..L+1
    /\ IsMap(busMap, Bus, {"ONE", "MULTIPLES"})
    /\ nodeConverters \in [Bus -> Seq(Converter)]
    /\ unvisited \in SUBSET Bus
    /\ queue \in Seq(Converter)
    /\ IsMap(hvdcLines, Line, Definition)
    /\ IsMap(vscBusVSCDefinitionsMap, Bus, VSCDefinition)

Init ==
    /\ input \in Descriptions
    /\ pc = "read"
    /\ cursor = 1
    /\ busMap = <<>>
    /\ nodeConverters = [b \in Bus |-> <<>>]
    /\ unvisited = input.main
    /\ queue = <<>>
    /\ hvdcLines = <<>>
    /\ vscBusVSCDefinitionsMap = <<>>

-----------------------------------------------------------------------------
\* unordered_map::insert, which leaves the value of a key already present.
Insert(map, key, value) ==
    [k \in DOMAIN map \union {key} |-> IF k \in DOMAIN map THEN map[k] ELSE value]

\* The assignment of the value of a key.
Assign(map, key, value) ==
    [k \in DOMAIN map \union {key} |-> IF k = key THEN value ELSE map[k]]

updateMapRegulatingBuses(map, b) ==
    IF b \in DOMAIN map THEN [map EXCEPT ![b] = "MULTIPLES"]
    ELSE Insert(map, b, "ONE")

\* The lines buildTree keeps.
IsKept(l) == \A e \in {1, 2} : <<l, e>> \in input.connected

\* A converter joins those of the node of its bus.
AddConverter(lists, c) == [lists EXCEPT ![input.bus[c]] = Append(@, c)]

\* One iteration of the loop of buildTree on the HVDC lines.
ReadLine ==
    /\ pc = "read"
    /\ cursor <= L
    /\ cursor' = cursor + 1
    /\ LET first == input.bus[<<cursor, 1>>]
           second == input.bus[<<cursor, 2>>]
       IN  IF IsKept(cursor)
           THEN /\ busMap' =
                      IF input.type[cursor] = "VSC"
                      THEN updateMapRegulatingBuses(
                              updateMapRegulatingBuses(busMap, first), second)
                      ELSE busMap
                /\ nodeConverters' =
                      AddConverter(AddConverter(nodeConverters, <<cursor, 1>>),
                                   <<cursor, 2>>)
           ELSE UNCHANGED <<busMap, nodeConverters>>
    /\ UNCHANGED <<input, pc, unvisited, queue, hvdcLines,
                   vscBusVSCDefinitionsMap>>

\* The network is built: process() will walk the main component.
EndOfBuild ==
    /\ pc = "read"
    /\ cursor > L
    /\ pc' = "walk"
    /\ UNCHANGED <<input, cursor, busMap, nodeConverters, unvisited, queue,
                   hvdcLines, vscBusVSCDefinitionsMap>>

(***************************************************************************)
(* The algorithm is called on a node: mainConnexNodes_ is in the order of  *)
(* the depth-first search, which may be any.                               *)
(***************************************************************************)
VisitNode ==
    /\ pc = "walk"
    /\ queue = <<>>
    /\ \E b \in unvisited :
          /\ unvisited' = unvisited \ {b}
          /\ queue' = nodeConverters[b]
    /\ UNCHANGED <<input, pc, cursor, busMap, nodeConverters, hvdcLines,
                   vscBusVSCDefinitionsMap>>

\* The position when a converter is met; faulty variant: the definition of a
\* line already met is not revised to BOTH.
LastEnd(c) == IF c[2] = 1 THEN "FIRST" ELSE "SECOND"
PositionOn(c) ==
    IF c[1] \in DOMAIN hvdcLines THEN "BOTH"
    ELSE IF c[2] = 1 THEN "FIRST" ELSE "SECOND"

\* The ends a position says are in the main component.
Ends(position) ==
    IF position = "FIRST" THEN {1}
    ELSE IF position = "SECOND" THEN {2} ELSE {1, 2}

(***************************************************************************)
(* getBusRegulatedByMultipleVSC: the ends whose buses are to be recorded,  *)
(* all those of the position as soon as one needs it; faulty variant: only *)
(* those that need it.                                                     *)
(***************************************************************************)
IsShared(c) ==
    input.bus[c] \in DOMAIN busMap /\ busMap[input.bus[c]] = "MULTIPLES"
OnlyShared(l, position) ==
    {e \in Ends(position) : IsShared(<<l, e>>)}
RegulatedByMultipleVSC(l, position) ==
    IF \E e \in Ends(position) : IsShared(<<l, e>>) THEN Ends(position) ELSE {}

\* The ends to record: none for an LCC line.
RecordedEnds(l, position) ==
    IF input.type[l] = "LCC" THEN {} ELSE RegulatedByMultipleVSC(l, position)

\* Faulty variant of computeModel: the emulation of dangling lines.
EmulationWhenControlled(l, position) ==
    input.type[l] = "VSC" /\ l \in input.control
Emulation(l, position) ==
    position = "BOTH" /\ input.type[l] = "VSC" /\ l \in input.control

computeModel(l, position) ==
    [law |-> IF input.type[l] = "LCC" THEN "PTanPhi"
             ELSE IF RecordedEnds(l, position) = {} THEN "PV" ELSE "PQProp",
     dangling |-> position # "BOTH",
     diagram |-> ~input.infinite,
     emulation |-> Emulation(l, position)]

\* The key of a record.
KeyOf(c) == input.bus[c]

(***************************************************************************)
(* What the transform inserts when converter c is met: the end e is given  *)
(* its own id, but the qMax, qMin and points of c.  Keys already in the    *)
(* map keep their value, and the first end is inserted first.  Faulty      *)
(* variant: both ends are given the id of c.                               *)
(***************************************************************************)
OwnEntry(c, e) == [id |-> c, limits |-> c]
Entry(c, e) == [id |-> <<c[1], e>>, limits |-> c]
Record(map, c, ends) ==
    LET with(m, e) ==
            IF e \in ends THEN Insert(m, KeyOf(<<c[1], e>>), Entry(c, e)) ELSE m
    IN  with(with(map, 1), 2)

(***************************************************************************)
(* One iteration of the loop of operator() on the converters of the node,  *)
(* with getOrCreateHvdcLineDefinition.  The converter is one of the two of *)
(* its line, so the branch that logs HvdcLineBadInitialization is dead.    *)
(***************************************************************************)
DefineConverter ==
    /\ pc = "walk"
    /\ queue # <<>>
    /\ LET c == Head(queue)
           position == PositionOn(c)
           definition == [position |-> position,
                          model |-> computeModel(c[1], position)]
       IN  /\ hvdcLines' = Assign(hvdcLines, c[1], definition)
           /\ vscBusVSCDefinitionsMap' =
                 Record(vscBusVSCDefinitionsMap, c,
                        RecordedEnds(c[1], position))
    /\ queue' = Tail(queue)
    /\ UNCHANGED <<input, pc, cursor, busMap, nodeConverters, unvisited>>

EndOfWalk ==
    /\ pc = "walk"
    /\ queue = <<>>
    /\ unvisited = {}
    /\ pc' = "done"
    /\ UNCHANGED <<input, cursor, busMap, nodeConverters, unvisited, queue,
                   hvdcLines, vscBusVSCDefinitionsMap>>

Terminated == pc = "done" /\ UNCHANGED vars

Next ==
    \/ ReadLine
    \/ EndOfBuild
    \/ VisitNode
    \/ DefineConverter
    \/ EndOfWalk
    \/ Terminated

Spec == Init /\ [][Next]_vars

-----------------------------------------------------------------------------
InMain(c) == input.bus[c] \in input.main
MainEnds(l) == {e \in {1, 2} : InMain(<<l, e>>)}
Built == {l \in Line : {<<l, 1>>, <<l, 2>>} \subseteq input.connected}

\* The VSC converters of the network that regulate a bus.
Regulators(b) ==
    {c \in Converter :
        input.bus[c] = b /\ input.type[c[1]] = "VSC" /\ c[1] \in Built}

(***************************************************************************)
(* Whatever the order in which the converters are met, in the end the      *)
(* lines defined are those with an end in the main component, and their    *)
(* positions tell exactly which ends are there.                            *)
(***************************************************************************)
PositionsAreRight ==
    pc = "done" =>
        /\ DOMAIN hvdcLines = {l \in Built : MainEnds(l) # {}}
        /\ \A l \in DOMAIN hvdcLines :
              Ends(hvdcLines[l].position) = MainEnds(l)

(***************************************************************************)
(* Whatever this order, the model of a line is in the end the one its type,*)
(* its ends and the other converters on their buses call for: proportional *)
(* regulation if and only if another VSC regulates the bus of one of its   *)
(* main ends, emulation only between two ends of the main component.       *)
(***************************************************************************)
ModelsAreRight ==
    pc = "done" =>
        \A l \in DOMAIN hvdcLines :
            LET model == hvdcLines[l].model
                shares == \E e \in MainEnds(l) :
                              Regulators(input.bus[<<l, e>>]) \ {<<l, e>>} # {}
            IN  /\ model.law = "PTanPhi" <=> input.type[l] = "LCC"
                /\ model.law = "PQProp" <=> input.type[l] = "VSC" /\ shares
                /\ model.dangling <=> MainEnds(l) # {1, 2}
                /\ model.emulation => /\ MainEnds(l) = {1, 2}
                                      /\ l \in input.control

(***************************************************************************)
(* Dyd writes one Model_Signal_NQ for each bus of the map and connects     *)
(* each line with a proportional model to those of its main ends: at any   *)
(* time the map holds exactly the buses these lines refer to.              *)
(***************************************************************************)
SharedModelsMatch ==
    DOMAIN vscBusVSCDefinitionsMap =
        {input.bus[x] : x \in {c \in Converter :
            /\ c[1] \in DOMAIN hvdcLines
            /\ hvdcLines[c[1]].model.law = "PQProp"
            /\ c[2] \in Ends(hvdcLines[c[1]].position)}}

(***************************************************************************)
(* The parameters of a shared model refer to a converter by its id: it is  *)
(* a VSC of the bus, and its line has a definition.                        *)
(***************************************************************************)
RecordedConvertersAreRight ==
    \A b \in DOMAIN vscBusVSCDefinitionsMap :
        LET c == vscBusVSCDefinitionsMap[b].id
        IN  c \in Regulators(b) /\ c[1] \in DOMAIN hvdcLines

(***************************************************************************)
(* What Algo.h says of vscBusVSCDefinitionsMap: each bus is mapped to the  *)
(* definition of one of its VSC, that is one with the limits of that VSC.  *)
(***************************************************************************)
MappedToOneOfTheirVSC ==
    \A b \in DOMAIN vscBusVSCDefinitionsMap :
        \E c \in Regulators(b) :
            vscBusVSCDefinitionsMap[b] = [id |-> c, limits |-> c]

============================================================================
