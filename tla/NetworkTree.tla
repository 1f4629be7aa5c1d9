----------------------------- MODULE NetworkTree -----------------------------
(***************************************************************************)
(* NetworkManager::buildTree: the nodes, voltage level by voltage level,   *)
(* with the elements that hang on them and the switches between them, then *)
(* the lines and the transformers, which link nodes of any level.          *)
(*                                                                         *)
(* The loop on generators is in GeneratorAlgo and the loop on HVDC lines   *)
(* in HvdcAlgo: neither reads or writes what is modelled here, but for the *)
(* nodes, which they need as the loop on loads does.                       *)
(***************************************************************************)
EXTENDS Naturals, FiniteSets, SequencesExt

CONSTANTS
    N,            \* the number of buses; a bus id is its rank in nodes_
    NoNode,       \* no bus id, or the null pointer to a node
    Descriptions  \* the network files considered

Node == 1..N

Ends(k) == [1..k -> Node]

(***************************************************************************)
(* A network file gives, in the order of the interface of Dynawo (external)*)
(*   levels   the voltage levels, each with its buses, shunts, loads,      *)
(*            switches and static var compensators                         *)
(*   lines, twoWindings, threeWindings   the branches, with their end      *)
(*            buses and the set of their connected ends                    *)
(*   slack    the bus the file designates, if any; it may not exist        *)
(* The elements of a level are on its buses, each bus is in one level.     *)
(***************************************************************************)
Shunt == [bus : Node]
Load == [bus : Node, connected : BOOLEAN]
Switch == [ends : Ends(2), open : BOOLEAN]
Svarc == [bus : Node, connected : BOOLEAN, standBy : BOOLEAN,
          reactiveControl : BOOLEAN]
Level == [buses : Seq(Node), shunts : Seq(Shunt), loads : Seq(Load),
          switches : Seq(Switch), svarcs : Seq(Svarc)]
Branch(k) == [ends : Ends(k), connected : SUBSET (1..k)]

LevelOnItsBuses(v) ==
    /\ IsInjective(v.buses)
    /\ \A e \in ToSet(v.shunts) \union ToSet(v.loads) \union ToSet(v.svarcs) :
          e.bus \in ToSet(v.buses)
    /\ \A s \in ToSet(v.switches) : ToSet(s.ends) \subseteq ToSet(v.buses)

IsDescription(d) ==
    /\ d.levels \in Seq(Level)
    /\ \A i \in DOMAIN d.levels : LevelOnItsBuses(d.levels[i])
    /\ \A n \in Node : \E i \in DOMAIN d.levels :
          n \in ToSet(d.levels[i].buses)
    /\ \A i, j \in DOMAIN d.levels :
          i # j => ToSet(d.levels[i].buses) \intersect
                       ToSet(d.levels[j].buses) = {}
    /\ d.lines \in Seq(Branch(2))
    /\ d.twoWindings \in Seq(Branch(2))
    /\ d.threeWindings \in Seq(Branch(3))

ASSUME NAssumption == N \in Nat /\ NoNode \notin Node
ASSUME DescriptionsAssumption == \A d \in Descriptions : IsDescription(d)

VARIABLES
    input,       \* the network file, read-only
    stage,       \* the loop buildTree is in
    level,       \* the voltage level of the outer loop
    item,        \* the next element of the loop
    shuntsMap,   \* the local map of the shunts of each bus of the level
    nodes,       \* the keys of nodes_
    slackNode,   \* slackNode_
    neighbours,  \* Node::neighbours
    elements,    \* Node::shunts, loads, svarcs, lines and tfos, by position
                 \* in the loop they are read by
    lines,       \* lines_, which owns the lines
    tfos         \* tfos_, which owns the transformers

vars == <<input, stage, level, item, shuntsMap, nodes, slackNode, neighbours,
          elements, lines, tfos>>

\* The loops inside that on voltage levels, then those that follow it.
LevelStage == {"shunts", "buses", "loads", "switches", "svarcs"}
BranchStage == {"lines", "twoWindings", "threeWindings"}

\* An element is known by the loop that reads it, its level if it has one,
\* and its position.
Element == (LevelStage \union BranchStage) \X Nat \X Nat
Kind == {"shunts", "loads", "svarcs", "lines", "tfos"}

TypeOK ==
    /\ input \in Descriptions
    /\ stage \in LevelStage \union BranchStage \union {"done"}
    /\ level \in Nat
    /\ stage \in LevelStage => level \in DOMAIN input.levels
    /\ item \in Nat \ {0}
    /\ shuntsMap \in [Node -> Seq(Element)]
    /\ nodes \in SUBSET Node
    /\ slackNode \in nodes \union {NoNode}
    /\ neighbours \in [Node -> Seq(Node)]
    /\ elements \in [Kind -> [Node -> Seq(Element)]]
    /\ lines \in Seq(Element)
    /\ tfos \in Seq(Element)

Nothing == [n \in Node |-> <<>>]

\* The loops on the levels are not entered when there is none.
FirstStage == IF input.levels = <<>> THEN "lines" ELSE "shunts"

Init ==
    /\ input \in Descriptions
    /\ stage = FirstStage
    /\ level = 1
    /\ item = 1
    /\ shuntsMap = Nothing
    /\ nodes = {}
    /\ slackNode = NoNode
    /\ neighbours = Nothing
    /\ elements = [k \in Kind |-> Nothing]
    /\ lines = <<>>
    /\ tfos = <<>>

-----------------------------------------------------------------------------
\* The elements of the current loop and, while there is one, the next.
Items == IF stage \in LevelStage THEN input.levels[level][stage]
         ELSE input[stage]
Reading(s) == stage = s /\ item <= Len(Items)
Current == Items[item]
Id == <<stage, IF stage \in LevelStage THEN level ELSE 0, item>>

\* Faulty variant: the loads are read before the buses.
LoadsFirst ==
    [shunts |-> "loads", loads |-> "buses", buses |-> "switches",
     switches |-> "svarcs"]
Following ==
    [shunts |-> "buses", buses |-> "loads", loads |-> "switches",
     switches |-> "svarcs"]

\* A loop has ended: go to the next one, or to the next voltage level.
EndOfLoop ==
    /\ stage # "done"
    /\ item > Len(Items)
    /\ item' = 1
    /\ IF stage = "svarcs" /\ level < Len(input.levels)
       THEN stage' = "shunts" /\ level' = level + 1
       ELSE /\ UNCHANGED level
            /\ stage' = CASE stage = "svarcs" -> "lines"
                          [] stage = "lines" -> "twoWindings"
                          [] stage = "twoWindings" -> "threeWindings"
                          [] stage = "threeWindings" -> "done"
                          [] OTHER -> Following[stage]
    \* shuntsMap is local to the loop on levels
    /\ shuntsMap' = IF stage = "svarcs" THEN Nothing ELSE shuntsMap
    /\ UNCHANGED <<input, nodes, slackNode, neighbours, elements, lines, tfos>>

\* A shunt is kept even when it is disconnected.
ReadShunt ==
    /\ Reading("shunts")
    /\ shuntsMap' = [shuntsMap EXCEPT ![Current.bus] = Append(@, Id)]
    /\ item' = item + 1
    /\ UNCHANGED <<input, stage, level, nodes, slackNode, neighbours, elements,
                   lines, tfos>>

\* The slack node once bus b is read.
SlackAfter(b) == IF input.slack = b THEN b ELSE slackNode

\* Node::build, with the shunts met on the bus.
ReadBus ==
    /\ Reading("buses")
    /\ nodes' = nodes \union {Current}
    /\ elements' = [elements EXCEPT !["shunts"][Current] = shuntsMap[Current]]
    /\ slackNode' = SlackAfter(Current)
    /\ item' = item + 1
    /\ UNCHANGED <<input, stage, level, shuntsMap, neighbours, lines, tfos>>

\* A disconnected load is ignored.
ReadLoad ==
    /\ Reading("loads")
    /\ elements' = IF Current.connected
                   THEN [elements EXCEPT !["loads"][Current.bus] =
                            Append(@, Id)]
                   ELSE elements
    /\ item' = item + 1
    /\ UNCHANGED <<input, stage, level, shuntsMap, nodes, slackNode,
                   neighbours, lines, tfos>>

\* n->neighbours.push_back(m)
Push(nb, n, m) == [nb EXCEPT ![n] = Append(@, m)]

\* Both ends of a link; faulty variant: the second end is not told.
LinkOneWay(nb, n, m) == Push(nb, n, m)
Link(nb, n, m) == Push(Push(nb, n, m), m, n)

\* The nodes of a closed switch are neighbours.
ReadSwitch ==
    /\ Reading("switches")
    /\ neighbours' = IF Current.open THEN neighbours
                     ELSE Link(neighbours, Current.ends[1], Current.ends[2])
    /\ item' = item + 1
    /\ UNCHANGED <<input, stage, level, shuntsMap, nodes, slackNode, elements,
                   lines, tfos>>

\* A compensator without one of the two IIDM extensions is ignored.
ReadSvarc ==
    /\ Reading("svarcs")
    /\ elements' = IF /\ Current.connected
                      /\ Current.standBy
                      /\ Current.reactiveControl
                   THEN [elements EXCEPT !["svarcs"][Current.bus] =
                            Append(@, Id)]
                   ELSE elements
    /\ item' = item + 1
    /\ UNCHANGED <<input, stage, level, shuntsMap, nodes, slackNode,
                   neighbours, lines, tfos>>

\* Whether a branch is built; faulty variant: one connected end is enough.
OneEndConnected(b) == b.connected # {}
IsKept(b) == b.connected = DOMAIN b.ends

\* The ends of a branch get a reference to it, an end once per occurrence.
Refer(kind, ends) ==
    [elements EXCEPT ![kind] =
        [n \in Node |-> @[n] \o [i \in 1..Cardinality(
                                    {e \in DOMAIN ends : ends[e] = n}) |-> Id]]]

\* Line::build on a line connected at both ends.
ReadLine ==
    /\ Reading("lines")
    /\ IF IsKept(Current)
       THEN /\ neighbours' =
                  Link(neighbours, Current.ends[1], Current.ends[2])
            /\ elements' = Refer("lines", Current.ends)
            /\ lines' = Append(lines, Id)
       ELSE UNCHANGED <<neighbours, elements, lines>>
    /\ item' = item + 1
    /\ UNCHANGED <<input, stage, level, shuntsMap, nodes, slackNode, tfos>>

\* Tfo::build with two nodes.
ReadTwoWindings ==
    /\ Reading("twoWindings")
    /\ IF IsKept(Current)
       THEN /\ neighbours' =
                  Link(neighbours, Current.ends[1], Current.ends[2])
            /\ elements' = Refer("tfos", Current.ends)
            /\ tfos' = Append(tfos, Id)
       ELSE UNCHANGED <<neighbours, elements, tfos>>
    /\ item' = item + 1
    /\ UNCHANGED <<input, stage, level, shuntsMap, nodes, slackNode, lines>>

\* Tfo::build with three nodes: each gets the two others as neighbours.
PushBoth(nb, n, m, p) == Push(Push(nb, n, m), n, p)
LinkThree(nb, n, m, p) ==
    PushBoth(PushBoth(PushBoth(nb, n, m, p), m, n, p), p, n, m)

ReadThreeWindings ==
    /\ Reading("threeWindings")
    /\ IF IsKept(Current)
       THEN /\ neighbours' = LinkThree(neighbours, Current.ends[1],
                                       Current.ends[2], Current.ends[3])
            /\ elements' = Refer("tfos", Current.ends)
            /\ tfos' = Append(tfos, Id)
       ELSE UNCHANGED <<neighbours, elements, tfos>>
    /\ item' = item + 1
    /\ UNCHANGED <<input, stage, level, shuntsMap, nodes, slackNode, lines>>

Terminated == stage = "done" /\ UNCHANGED vars

Next ==
    \/ EndOfLoop
    \/ ReadShunt
    \/ ReadBus
    \/ ReadLoad
    \/ ReadSwitch
    \/ ReadSvarc
    \/ ReadLine
    \/ ReadTwoWindings
    \/ ReadThreeWindings
    \/ Terminated

Spec == Init /\ [][Next]_vars

-----------------------------------------------------------------------------
(***************************************************************************)
(* buildTree takes nodes_[id] or nodes_.at(id) without a test: whenever a  *)
(* loop uses an element, the nodes of its buses have been created, by this *)
(* voltage level or, for a branch, by any level.                           *)
(***************************************************************************)
BusesUsed(s, e) ==
    IF s \in {"loads", "svarcs"} THEN {e.bus} ELSE ToSet(e.ends)

NodesExist ==
    \A s \in (LevelStage \union BranchStage) \ {"shunts", "buses"} :
        Reading(s) => BusesUsed(s, Current) \subseteq nodes

(***************************************************************************)
(* What the search of the main component relies on: the neighbours of the  *)
(* nodes created are created nodes, and neighbourhood is symmetric.        *)
(***************************************************************************)
Graph == INSTANCE Connexity WITH Networks <- {}

NeighboursAreNetwork ==
    /\ Graph!IsNetwork(neighbours)
    /\ \A n \in Node : neighbours[n] # <<>> => n \in nodes

(***************************************************************************)
(* What makes these two inductive: the buses of the levels already read,   *)
(* and those the loop on buses has passed, have their nodes.               *)
(***************************************************************************)
BusesRead ==
    /\ stage \in LevelStage =>
          \A v \in 1..level-1 : ToSet(input.levels[v].buses) \subseteq nodes
    /\ stage = "buses" =>
          \A i \in 1..item-1 : input.levels[level].buses[i] \in nodes
    /\ stage \in {"loads", "switches", "svarcs"} =>
          ToSet(input.levels[level].buses) \subseteq nodes
    /\ stage \in BranchStage \union {"done"} => nodes = Node

IInv ==
    /\ TypeOK
    /\ BusesRead
    /\ NeighboursAreNetwork

(***************************************************************************)
(* In the end the tree is that of the file, whatever the order of levels:  *)
(* m is met in the neighbours of n as many times as a closed switch or a   *)
(* branch connected at all its ends leads from n to m; the vectors of n    *)
(* and those that own the branches refer to exactly the elements of the    *)
(* file that are kept; the slack node is that of the file, if it exists.   *)
(***************************************************************************)
Times(x, s) == Cardinality({i \in DOMAIN s : s[i] = x})

ElementsOf(s) ==
    IF s \in BranchStage THEN {<<s, 0, i>> : i \in DOMAIN input[s]}
    ELSE UNION {{<<s, v, i>> : i \in DOMAIN input.levels[v][s]} :
                   v \in DOMAIN input.levels}

Data(id) == IF id[2] = 0 THEN input[id[1]][id[3]]
            ELSE input.levels[id[2]][id[1]][id[3]]

Kept(kind) ==
    CASE kind = "shunts" -> ElementsOf("shunts")
      [] kind = "loads" -> {e \in ElementsOf("loads") : Data(e).connected}
      [] kind = "svarcs" -> {e \in ElementsOf("svarcs") :
                                /\ Data(e).connected
                                /\ Data(e).standBy
                                /\ Data(e).reactiveControl}
      [] kind = "lines" -> {e \in ElementsOf("lines") :
                               Cardinality(Data(e).connected) = 2}
      [] kind = "tfos" -> {e \in ElementsOf("twoWindings") :
                              Cardinality(Data(e).connected) = 2}
                          \union {e \in ElementsOf("threeWindings") :
                                     Cardinality(Data(e).connected) = 3}

\* The ends of an element, as a sequence of nodes.
EndsOf(e) ==
    IF e[1] \in {"shunts", "loads", "svarcs"} THEN <<Data(e).bus>>
    ELSE Data(e).ends

ClosedSwitches == {e \in ElementsOf("switches") : ~Data(e).open}
Links == Kept("lines") \union Kept("tfos") \union ClosedSwitches

\* The pairs of ends of the elements of E that lead from n to m.
Hops(E, n, m) ==
    {x \in E \X (1..3) \X (1..3) :
        /\ {x[2], x[3]} \subseteq DOMAIN EndsOf(x[1])
        /\ x[2] # x[3]
        /\ EndsOf(x[1])[x[2]] = n
        /\ EndsOf(x[1])[x[3]] = m}

\* Vector s has the elements of E that are on n, an element once per end.
Holds(s, n, E) ==
    /\ ToSet(s) \subseteq E
    /\ \A e \in E : Times(e, s) = Times(n, EndsOf(e))

\* Vector s owns the elements of E.
Owns(s, E) == IsInjective(s) /\ ToSet(s) = E

TreeMatchesFile ==
    stage = "done" =>
        /\ nodes = Node
        /\ slackNode = IF input.slack \in Node THEN input.slack ELSE NoNode
        /\ \A n, m \in Node :
              Times(m, neighbours[n]) = Cardinality(Hops(Links, n, m))
        /\ \A kind \in Kind, n \in Node :
              Holds(elements[kind][n], n, Kept(kind))
        /\ Owns(lines, Kept("lines"))
        /\ Owns(tfos, Kept("tfos"))

(***************************************************************************)
(* What makes it inductive: the same of the elements read so far.  A node  *)
(* has all its shunts from the start, those of the current level are in    *)
(* shuntsMap until then.                                                   *)
(***************************************************************************)
Rank == [shunts |-> 1, buses |-> 2, loads |-> 3, switches |-> 4, svarcs |-> 5,
         lines |-> 6, twoWindings |-> 7, threeWindings |-> 8, done |-> 9]

Passed(e) == Rank[e[1]] < Rank[stage] \/ (e[1] = stage /\ e[3] < item)

IsRead(e) ==
    IF e[1] \in LevelStage /\ stage \in LevelStage
    THEN e[2] < level \/ (e[2] = level /\ Passed(e))
    ELSE Passed(e)

ReadAmong(E) == {e \in E : IsRead(e)}

SlackInv == slackNode = IF input.slack \in nodes THEN input.slack ELSE NoNode

LinksInv ==
    \A n, m \in Node :
        /\ IsFiniteSet(Hops(ReadAmong(Links), n, m))
        /\ Times(m, neighbours[n]) =
              Cardinality(Hops(ReadAmong(Links), n, m))

VectorsInv ==
    \A kind \in Kind \ {"shunts"}, n \in Node :
        Holds(elements[kind][n], n, ReadAmong(Kept(kind)))

LevelShunts == {e \in ReadAmong(Kept("shunts")) : e[2] = level}

ShuntsInv ==
    /\ \A n \in nodes : Holds(elements["shunts"][n], n, Kept("shunts"))
    /\ stage \in LevelStage =>
          \A n \in Node : Holds(shuntsMap[n], n, LevelShunts)

OwnersInv ==
    /\ Owns(lines, ReadAmong(Kept("lines")))
    /\ Owns(tfos, ReadAmong(Kept("tfos")))

TreeInv == SlackInv /\ LinksInv /\ VectorsInv /\ ShuntsInv /\ OwnersInv

============================================================================
