---------------------------- MODULE GeneratorAlgo ----------------------------
(***************************************************************************)
(* The generators, from the reading of the network to their definitions:   *)
(* NetworkManager::buildTree keeps those that regulate a voltage and       *)
(* counts, bus by bus, how many regulate it; GeneratorDefinitionAlgorithm, *)
(* called later on each node of the main connex component, chooses a model *)
(* from this count and fills busesWithDynamicModel with the buses that     *)
(* need a model shared by several generators.                              *)
(*                                                                         *)
(* The two loops see different sets of generators: the count covers the    *)
(* whole network and ignores the diagrams, the definitions do not.         *)
(***************************************************************************)
EXTENDS Integers, SequencesExt

CONSTANTS
    G,            \* the number of generators, numbered in reading order
    Bus,          \* the bus ids
    Descriptions  \* the networks and configurations considered

Generator == 1..G

(***************************************************************************)
(* A description gives                                                     *)
(*   bus, regulated   the connection bus and the regulated bus             *)
(*   data             the attributes of each generator; minusTargetP is    *)
(*                    the opposite of targetP, which the code compares     *)
(*   switched         getBusesConnectedBySwitch of each bus (external)     *)
(*   main             the buses of the main connex component               *)
(*   infinite         useInfiniteReactivelimits                            *)
(* Ids are abstract and powers are integers: doubleEquals is equality.     *)
(***************************************************************************)
Point == [p : Int, qmin : Int, qmax : Int]
Data == [connected : BOOLEAN, voltageRegulationOn : BOOLEAN,
         minusTargetP : Int, pmin : Int, pmax : Int, qmin : Int, qmax : Int,
         points : Seq(Point)]

IsDescription(d) ==
    /\ d.bus \in [Generator -> Bus]
    /\ d.regulated \in [Generator -> Bus]
    /\ d.data \in [Generator -> Data]
    /\ d.switched \in [Bus -> SUBSET Bus]
    /\ d.main \in SUBSET Bus
    /\ d.infinite \in BOOLEAN

ASSUME GAssumption == G \in Nat
ASSUME DescriptionsAssumption == \A d \in Descriptions : IsDescription(d)

VARIABLES
    input,                 \* the description, read-only
    pc,                    \* "read", "walk" or "done"
    cursor,                \* the next generator buildTree reads
    busMap,                \* mapBusGeneratorsBusId_
    nodeGenerators,        \* Node::generators of each bus
    unvisited,             \* the nodes of the main component still to walk
    queue,                 \* the rest of the loop on the current node
    generators,            \* generators_, the definitions
    busesWithDynamicModel  \* the generator recorded for each shared bus

vars == <<input, pc, cursor, busMap, nodeGenerators, unvisited, queue,
          generators, busesWithDynamicModel>>

\* The six values of ModelType: how the voltage is held, and whether the
\* model is one with a diagram.
Model == {"LOCAL", "REMOTE", "PROP"} \X BOOLEAN
Definition == [id : Generator, model : Model, regulatedBusId : Bus]

\* A map whose keys are in K and values in V.
IsMap(map, K, V) == DOMAIN map \subseteq K /\ map \in [DOMAIN map -> V]

TypeOK ==
    /\ input \in Descriptions
    /\ pc \in {"read", "walk", "done"}
    /\ cursor \in 1..G+1
    /\ IsMap(busMap, Bus, {"ONE", "MULTIPLES"})
    /\ nodeGenerators \in [Bus -> Seq(Generator)]
    /\ unvisited \in SUBSET Bus
    /\ queue \in Seq(Generator)
    /\ generators \in Seq(Definition)
    /\ IsMap(busesWithDynamicModel, Bus, Generator)

Init ==
    /\ input \in Descriptions
    /\ pc = "read"
    /\ cursor = 1
    /\ busMap = <<>>
    /\ nodeGenerators = [b \in Bus |-> <<>>]
    /\ unvisited = input.main
    /\ queue = <<>>
    /\ generators = <<>>
    /\ busesWithDynamicModel = <<>>

-----------------------------------------------------------------------------
\* unordered_map::insert, which leaves the value of a key already present.
Insert(map, key, value) ==
    [k \in DOMAIN map \union {key} |-> IF k \in DOMAIN map THEN map[k] ELSE value]

(***************************************************************************)
(* The count of updateMapRegulatingBuses; faulty variant: the second       *)
(* generator met does not change the entry.                                *)
(***************************************************************************)
CountOnce(map, b) == Insert(map, b, "ONE")
updateMapRegulatingBuses(map, b) ==
    IF b \in DOMAIN map THEN [map EXCEPT ![b] = "MULTIPLES"]
    ELSE Insert(map, b, "ONE")

\* The generators buildTree keeps.
IsKept(g) ==
    LET r == input.data[g]
    IN  /\ r.connected
        /\ r.voltageRegulationOn
        /\ r.pmin <= r.minusTargetP /\ r.minusTargetP <= r.pmax

\* One iteration of the loop of buildTree on the generators.
ReadGenerator ==
    /\ pc = "read"
    /\ cursor <= G
    /\ cursor' = cursor + 1
    /\ IF IsKept(cursor)
       THEN /\ busMap' =
                  updateMapRegulatingBuses(busMap, input.regulated[cursor])
            /\ nodeGenerators' =
                  [nodeGenerators EXCEPT ![input.bus[cursor]] =
                      Append(@, cursor)]
       ELSE UNCHANGED <<busMap, nodeGenerators>>
    /\ UNCHANGED <<input, pc, unvisited, queue, generators,
                   busesWithDynamicModel>>

\* The network is built: process() will walk the main component.
EndOfBuild ==
    /\ pc = "read"
    /\ cursor > G
    /\ pc' = "walk"
    /\ UNCHANGED <<input, cursor, busMap, nodeGenerators, unvisited, queue,
                   generators, busesWithDynamicModel>>

(***************************************************************************)
(* The algorithm is called on a node: mainConnexNodes_ is in the order of  *)
(* the depth-first search, which may be any.                               *)
(***************************************************************************)
VisitNode ==
    /\ pc = "walk"
    /\ queue = <<>>
    /\ \E b \in unvisited :
          /\ unvisited' = unvisited \ {b}
          /\ queue' = nodeGenerators[b]
    /\ UNCHANGED <<input, pc, cursor, busMap, nodeGenerators, generators,
                   busesWithDynamicModel>>

\* Faulty variant: a curve whose points all have the same p is accepted.
FlatAccepted(r) ==
    IF r.points = <<>> THEN r.pmin # r.pmax /\ r.qmin # r.qmax
    ELSE Len(r.points) > 1 /\ \E i \in DOMAIN r.points :
            r.points[i].qmin # r.points[i].qmax
isDiagramValid(r) ==
    IF r.points = <<>> THEN r.pmin # r.pmax /\ r.qmin # r.qmax
    ELSE /\ Len(r.points) > 1
         /\ \E i \in DOMAIN r.points : r.points[i].qmin # r.points[i].qmax
         /\ \E i \in DOMAIN r.points : r.points[i].p # r.points[1].p

isModelWithInvalidDiagram(model, g) ==
    model[2] /\ ~isDiagramValid(input.data[g])

IsOtherGeneratorConnectedBySwitches(b) ==
    \E other \in input.switched[b] : nodeGenerators[other] # <<>>

ModelOf(g) ==
    LET b == input.bus[g]
        alone == Len(nodeGenerators[b]) = 1
        kind == IF \/ alone /\ IsOtherGeneratorConnectedBySwitches(b)
                   \/ busMap[input.regulated[g]] = "MULTIPLES"
                THEN "PROP"
                ELSE IF input.regulated[g] = b THEN "LOCAL" ELSE "REMOTE"
    IN  <<kind, ~input.infinite>>

\* Whether a generator is recorded as one of a shared bus; faulty variant:
\* the validity of its diagram is not tested first.
RecordInvalid(model, g) == model[1] = "PROP"
IsRecorded(model, g) ==
    model[1] = "PROP" /\ ~isModelWithInvalidDiagram(model, g)

\* The key of the record.
KeyOf(g) == input.regulated[g]

\* One iteration of the loop of operator() on the generators of the node.
DefineGenerator ==
    /\ pc = "walk"
    /\ queue # <<>>
    /\ LET g == Head(queue)
           model == ModelOf(g)
       IN  /\ busesWithDynamicModel' =
                 IF IsRecorded(model, g)
                 THEN Insert(busesWithDynamicModel, KeyOf(g), g)
                 ELSE busesWithDynamicModel
           /\ generators' =
                 IF isModelWithInvalidDiagram(model, g) THEN generators
                 ELSE Append(generators,
                             [id |-> g, model |-> model,
                              regulatedBusId |-> input.regulated[g]])
    /\ queue' = Tail(queue)
    /\ UNCHANGED <<input, pc, cursor, busMap, nodeGenerators, unvisited>>

EndOfWalk ==
    /\ pc = "walk"
    /\ queue = <<>>
    /\ unvisited = {}
    /\ pc' = "done"
    /\ UNCHANGED <<input, cursor, busMap, nodeGenerators, unvisited, queue,
                   generators, busesWithDynamicModel>>

Terminated == pc = "done" /\ UNCHANGED vars

Next ==
    \/ ReadGenerator
    \/ EndOfBuild
    \/ VisitNode
    \/ DefineGenerator
    \/ EndOfWalk
    \/ Terminated

Spec == Init /\ [][Next]_vars

-----------------------------------------------------------------------------
Defined == ToSet(generators)
SharedDefinitions(b) ==
    {d \in Defined : d.regulatedBusId = b /\ d.model[1] = "PROP"}

(***************************************************************************)
(* Dyd and Par write one Model_Signal_NQ for each bus of the map and       *)
(* connect every PROP generator to that of its regulated bus: at any time  *)
(* the map holds exactly the buses PROP definitions refer to, each with a  *)
(* generator that is one of them, whose parameters can be exported.        *)
(***************************************************************************)
SharedModelsMatch ==
    /\ \A d \in Defined : d.model[1] = "PROP" =>
          d.regulatedBusId \in DOMAIN busesWithDynamicModel
    /\ \A b \in DOMAIN busesWithDynamicModel :
          \E d \in SharedDefinitions(b) : d.id = busesWithDynamicModel[b]

(***************************************************************************)
(* Two voltage controllers never act on the same bus: a definition that    *)
(* holds the voltage by itself, locally or remotely, is the only one that  *)
(* regulates its bus, and no shared model is written for that bus.         *)
(***************************************************************************)
OneVoltageController ==
    \A d \in Defined : d.model[1] # "PROP" =>
        /\ \A e \in Defined : e.regulatedBusId = d.regulatedBusId => e = d
        /\ d.regulatedBusId \notin DOMAIN busesWithDynamicModel

(***************************************************************************)
(* The definitions do not depend on the order of the walk: in the end each *)
(* generator of the main component that buildTree has kept and whose       *)
(* diagram, when one is used, spans an area is defined exactly once.       *)
(***************************************************************************)
SpansAnArea(r) ==
    LET P == {r.points[i].p : i \in DOMAIN r.points}
    IN  IF r.points = <<>> THEN r.pmin # r.pmax /\ r.qmin # r.qmax
        ELSE /\ Cardinality(P) > 1
             /\ \E i \in DOMAIN r.points : r.points[i].qmin # r.points[i].qmax

InRange(r) == r.minusTargetP \in r.pmin..r.pmax

EveryUsableGeneratorDefined ==
    pc = "done" =>
        /\ Len(generators) = Cardinality(Defined)
        /\ {d.id : d \in Defined} =
              {g \in Generator :
                  LET r == input.data[g]
                  IN  /\ r.connected /\ r.voltageRegulationOn /\ InRange(r)
                      /\ input.bus[g] \in input.main
                      /\ input.infinite \/ SpansAnArea(r)}

============================================================================
