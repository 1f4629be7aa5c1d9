------------------------------- MODULE Context -------------------------------
(***************************************************************************)
(* Context: the constructor, which picks where the slack node comes from,  *)
(* and process(), which walks the network, filters the dynamic models,     *)
(* checks that the slack node is in the main connex component, recomputes  *)
(* it if it may, and walks the main component to define the models.        *)
(*                                                                         *)
(* The algorithms that only collect elements of the node they are given    *)
(* are abstracted to what process() reads of their results: generators to  *)
(* the nodes that give at least one definition, dynamic models to the      *)
(* macro connections each automaton has obtained.                          *)
(***************************************************************************)
EXTENDS Connexity

CONSTANTS
    NoNode,       \* the null NodePtr
    Descriptions, \* the network files and configurations considered
    Automaton,    \* the dynamic automatons of the assembling file
    Required      \* the macro connections each automaton asks for

\* What DynModelAlgorithm may give an automaton.
Connection == UNION {{a} \X Required[a] : a \in Automaton}

(***************************************************************************)
(* A description is what the IIDM file and the configuration determine:    *)
(*   neighbours   the neighbour table buildTree fills                      *)
(*   voltage      the nominal voltage of each node                         *)
(*   slack        the node IIDM designates, or NoNode                      *)
(*   automatic    Configuration::isAutomaticSlackBusOn                     *)
(*   regulating   the nodes where GeneratorDefinitionAlgorithm defines a   *)
(*                generator                                                *)
(*   connections  the macro connections DynModelAlgorithm makes on a node, *)
(*                as pairs of an automaton and a macro connection          *)
(***************************************************************************)
IsDescription(d) ==
    /\ d.neighbours \in Networks
    /\ d.voltage \in [Node -> Nat]
    /\ d.slack \in Node \union {NoNode}
    /\ d.automatic \in BOOLEAN
    /\ d.regulating \in SUBSET Node
    /\ d.connections \in [Node -> SUBSET Connection]

(***************************************************************************)
(* process() dereferences the slack node after the walk: a network without *)
(* any node is outside the model.                                          *)
(***************************************************************************)
ASSUME NotEmpty == N > 0 /\ NoNode \notin Node
ASSUME DescriptionsAssumption == \A d \in Descriptions : IsDescription(d)

VARIABLES
    input,            \* the description, read-only
    pc,               \* where process() is
    cursor,           \* position in the map of nodes, or in mainConnexNodes
    slackNode,
    slackNodeOrigin,
    mainConnexNodes,
    dynamicModels,    \* the connections of dynamicModels_.models
    generators,       \* the nodes generators_ has a definition on
    result            \* what process() returned

vars == <<input, pc, cursor, slackNode, slackNodeOrigin, mainConnexNodes,
          dynamicModels, generators, result>>

TypeOK ==
    /\ input \in Descriptions
    /\ pc \in {"walk", "filter", "check", "recompute", "walkMain", "returned"}
    /\ cursor \in 1..N+1
    /\ slackNode \in Node \union {NoNode}
    \* process() dereferences slackNode_ without a test
    /\ slackNode = NoNode => pc \in {"walk", "recompute"} /\ cursor = 1
    /\ slackNodeOrigin \in {"FILE", "ALGORITHM"}
    /\ mainConnexNodes \in Seq(Node)
    /\ dynamicModels \in SUBSET Connection
    /\ generators \in SUBSET Node
    /\ result \in {"none", "ready", "refused"}

-----------------------------------------------------------------------------
(***************************************************************************)
(* SlackNodeAlgorithm: nominal voltage first, then number of neighbours,   *)
(* compared strictly, so that the first of equals is kept.                 *)
(***************************************************************************)
Degree(n) == Len(input.neighbours[n])

\* Faulty variant: the voltage is not given priority over the degree.
LessDegreeFirst(m, n) ==
    \/ Degree(m) < Degree(n)
    \/ Degree(m) = Degree(n) /\ input.voltage[m] < input.voltage[n]
Less(m, n) ==
    \/ input.voltage[m] < input.voltage[n]
    \/ input.voltage[m] = input.voltage[n] /\ Degree(m) < Degree(n)

SlackAfter(current, n) ==
    IF current = NoNode THEN n
    ELSE IF Less(current, n) THEN n ELSE current

(***************************************************************************)
(* The orders in which the depth-first search of MainConnexComponent-      *)
(* Algorithm may list a component: ConnexAlgo shows that the group holds   *)
(* each node of the component once; it starts with the node given.         *)
(***************************************************************************)
Groups ==
    [nb \in Networks |->
        [n \in Node |-> {g \in SetToSeqs(Component(nb, n)) : g[1] = n}]]

\* Faulty variant: mainConnexity keeps the last group instead of the largest.
KeepLast(main, group) == group
KeepLargest(main, group) == IF Len(main) < Len(group) THEN group ELSE main

\* Whether the slack node is that of the file.
FromFile == input.slack # NoNode /\ ~input.automatic

\* The constructor.
Init ==
    /\ input \in Descriptions
    /\ pc = "walk"
    /\ cursor = 1
    /\ IF FromFile
       THEN slackNode = input.slack /\ slackNodeOrigin = "FILE"
       ELSE slackNode = NoNode /\ slackNodeOrigin = "ALGORITHM"
    /\ mainConnexNodes = <<>>
    /\ dynamicModels = {}
    /\ generators = {}
    /\ result = "none"

(***************************************************************************)
(* One node of NetworkManager::walkNodes: the callbacks the constructor    *)
(* has registered, in their order of registration.                         *)
(***************************************************************************)
WalkNode ==
    /\ pc = "walk"
    /\ cursor <= N
    /\ slackNode' = IF slackNodeOrigin = "ALGORITHM"
                    THEN SlackAfter(slackNode, cursor) ELSE slackNode
    /\ \E group \in Groups[input.neighbours][cursor] :
          mainConnexNodes' = KeepLargest(mainConnexNodes, group)
    /\ dynamicModels' = dynamicModels \union input.connections[cursor]
    /\ cursor' = cursor + 1
    /\ pc' = IF cursor = N THEN "filter" ELSE "walk"
    /\ UNCHANGED <<input, slackNodeOrigin, generators, result>>

\* The automatons that kept a connection of every macro they ask for.
Connected(a) == \A m \in Required[a] : <<a, m>> \in dynamicModels

(***************************************************************************)
(* filterPartiallyConnectedDynamicModels erases the other models.          *)
(***************************************************************************)
FilterModels ==
    /\ pc = "filter"
    /\ dynamicModels' = {c \in dynamicModels : Connected(c[1])}
    /\ pc' = "check"
    /\ UNCHANGED <<input, cursor, slackNode, slackNodeOrigin,
                   mainConnexNodes, generators, result>>

checkConnexity == slackNode \in ToSet(mainConnexNodes)

\* The slack node is in the main component: go on with the main callbacks.
AcceptSlack ==
    /\ pc = "check"
    /\ checkConnexity
    /\ pc' = "walkMain"
    /\ cursor' = 1
    /\ UNCHANGED <<input, slackNode, slackNodeOrigin, mainConnexNodes,
                   dynamicModels, generators, result>>

\* Whether a slack node outside the main component ends process(); faulty
\* variant: the origin of the slack node is not looked at.
NeverRefused == FALSE
SlackIsImposed == slackNodeOrigin = "FILE"

\* The file imposes a slack node outside the main component: error.
RefuseSlack ==
    /\ pc = "check"
    /\ ~checkConnexity
    /\ SlackIsImposed
    /\ result' = "refused"
    /\ pc' = "returned"
    /\ UNCHANGED <<input, cursor, slackNode, slackNodeOrigin,
                   mainConnexNodes, dynamicModels, generators>>

\* What the recomputation starts from; faulty variant: slackNode_ not reset.
NotReset == slackNode
Reset == NoNode

\* The algorithm chose a node outside the main component: start again.
ResetSlack ==
    /\ pc = "check"
    /\ ~checkConnexity
    /\ ~SlackIsImposed
    /\ slackNode' = Reset
    /\ pc' = "recompute"
    /\ cursor' = 1
    /\ UNCHANGED <<input, slackNodeOrigin, mainConnexNodes, dynamicModels,
                   generators, result>>

\* One node of the for_each over mainConnexNodes_.
RecomputeSlack ==
    /\ pc = "recompute"
    /\ slackNode' = SlackAfter(slackNode, mainConnexNodes[cursor])
    /\ IF cursor = Len(mainConnexNodes)
       THEN pc' = "walkMain" /\ cursor' = 1
       ELSE cursor' = cursor + 1 /\ UNCHANGED pc
    /\ UNCHANGED <<input, slackNodeOrigin, mainConnexNodes, dynamicModels,
                   generators, result>>

\* The node walkNodesMain presents; faulty variant: the nodes of the whole
\* network are walked.
AnyNode == cursor
MainNode == mainConnexNodes[cursor]

(***************************************************************************)
(* One node of walkNodesMain.  Loads, HVDC lines and static var            *)
(* compensators are collected by the same call and not read by process().  *)
(***************************************************************************)
WalkMainNode ==
    /\ pc = "walkMain"
    /\ cursor <= Len(mainConnexNodes)
    /\ generators' = generators \union (input.regulating \intersect {MainNode})
    /\ cursor' = cursor + 1
    /\ UNCHANGED <<input, pc, slackNode, slackNodeOrigin, mainConnexNodes,
                   dynamicModels, result>>

\* What process() returns.
Verdict == IF generators = {} THEN "refused" ELSE "ready"

\* The end of process().
Conclude ==
    /\ pc = "walkMain"
    /\ cursor > Len(mainConnexNodes)
    /\ result' = Verdict
    /\ pc' = "returned"
    /\ UNCHANGED <<input, cursor, slackNode, slackNodeOrigin,
                   mainConnexNodes, dynamicModels, generators>>

Terminated == pc = "returned" /\ UNCHANGED vars

Next ==
    \/ WalkNode
    \/ FilterModels
    \/ AcceptSlack
    \/ RefuseSlack
    \/ ResetSlack
    \/ RecomputeSlack
    \/ WalkMainNode
    \/ Conclude
    \/ Terminated

Spec == Init /\ [][Next]_vars

-----------------------------------------------------------------------------
MainNodes == ToSet(mainConnexNodes)

(***************************************************************************)
(* Once the check has been passed, whether directly or by recomputing it,  *)
(* the slack node is in the main connex component.                         *)
(***************************************************************************)
SlackInMainComponent ==
    pc = "walkMain" \/ result = "ready" => slackNode \in MainNodes

(***************************************************************************)
(* A slack node chosen by the algorithm has the highest voltage of the     *)
(* main component, and the most connected nodes among those of that        *)
(* voltage, although it may have been chosen among all the nodes.  The     *)
(* exception is a slack node with parallel lines or loops, which the code  *)
(* counts one by one, where the comment of SlackNodeAlgorithm speaks of    *)
(* connected nodes: no node of that voltage has more lines.                *)
(***************************************************************************)
ConnectedNodes(n) == Cardinality(ToSet(input.neighbours[n]) \ {n})
HasRepeatedNeighbours(n) == ConnectedNodes(n) < Degree(n)

SlackIsBest ==
    (pc = "walkMain" \/ result = "ready") /\ slackNodeOrigin = "ALGORITHM" =>
        \A n \in MainNodes :
            \/ input.voltage[n] < input.voltage[slackNode]
            \/ /\ input.voltage[n] = input.voltage[slackNode]
               /\ \/ ConnectedNodes(n) <= ConnectedNodes(slackNode)
                  \/ HasRepeatedNeighbours(slackNode) /\ Degree(n) <= Degree(slackNode)

(***************************************************************************)
(* process() never replaces a slack node the user has asked to take from   *)
(* the network file.                                                       *)
(***************************************************************************)
FileSlackKept ==
    [][slackNodeOrigin = "FILE" => slackNode' = slackNode]_vars

(***************************************************************************)
(* process() accepts a network exactly when an imposed slack node is in    *)
(* its largest component and a generator is defined there.                 *)
(***************************************************************************)
VerdictIsRight ==
    pc = "returned" =>
        (result = "ready" <=>
            /\ input.slack # NoNode /\ ~input.automatic =>
                  input.slack \in MainNodes
            /\ input.regulating \intersect MainNodes # {})

(***************************************************************************)
(* The walk, which runs the algorithm among the other callbacks, leaves in *)
(* mainConnexNodes_ what MainConnex promises, and nothing changes it later.*)
(***************************************************************************)
Walk == INSTANCE MainConnex WITH
            neighbours <- input.neighbours,
            cursor <- IF pc = "walk" THEN cursor ELSE N + 1,
            main <- MainNodes

MainComponentFound == Walk!Init /\ [][Walk!Next]_(Walk!vars)

============================================================================
