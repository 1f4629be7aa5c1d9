-------------------------- MODULE NetworkTreeProofs --------------------------
(***************************************************************************)
(* Proofs about NetworkTree, for every network file: the tree is well      *)
(* typed, no loop meets a bus without a node, the neighbours it builds are *)
(* a network in the sense of Connexity, which is what the proofs about the *)
(* search of the main component assume, and in the end the tree is that of *)
(* the file.                                                               *)
(***************************************************************************)
EXTENDS NetworkTree, SequenceLemmas

-----------------------------------------------------------------------------
(***************************************************************************)
(* Neighbour tables.                                                       *)
(***************************************************************************)
Tables == [Node -> Seq(Node)]

\* m is in the neighbours of n, as Connexity has it.
Leads(nb, n, m) == m \in ToSet(nb[n])

\* push_back adds one directed link, and keeps the table well formed.
LEMMA PushLinks ==
  ASSUME NEW nb \in Tables, NEW n \in Node, NEW m \in Node
  PROVE  /\ Push(nb, n, m) \in Tables
         /\ \A x, y \in Node : Leads(Push(nb, n, m), x, y) <=>
                                   Leads(nb, x, y) \/ (x = n /\ y = m)
<1> DEFINE s == nb[n]
           t == Append(s, m)
<1>1. s \in Seq(Node)
  BY DEF Tables
<1>2. t \in Seq(Node) /\ ToSet(t) = ToSet(s) \union {m}
  <2> HIDE DEF s
  <2>1. /\ t \in Seq(Node)
        /\ DOMAIN t = 1..Len(s) + 1
        /\ DOMAIN s = 1..Len(s)
        /\ \A i \in 1..Len(s) : t[i] = s[i]
        /\ t[Len(s) + 1] = m
        /\ Len(s) \in Nat
    BY <1>1
  <2> HIDE DEF t
  <2>2. ToSet(t) \subseteq ToSet(s) \union {m}
    BY <2>1 DEF ToSet
  <2>3. ToSet(s) \union {m} \subseteq ToSet(t)
    BY <2>1 DEF ToSet
  <2> QED
    BY <2>1, <2>2, <2>3
<1>3. Push(nb, n, m) = [x \in Node |-> IF x = n THEN t ELSE nb[x]]
  BY DEF Push, Tables
<1> HIDE DEF t
<1> QED
  BY <1>2, <1>3 DEF Tables, Leads, s

\* A table whose links go both ways.
BothWays(nb) ==
    nb \in Tables /\ \A x, y \in Node : Leads(nb, x, y) =>
                                            Leads(nb, y, x)

\* A network in the sense of Connexity is a table whose links go both ways.
LEMMA NetworkIsBothWays ==
  ASSUME NEW nb
  PROVE  Graph!IsNetwork(nb) <=> BothWays(nb)
BY DEF Graph!IsNetwork, Graph!Linked, Graph!ToSet, Graph!Node, BothWays, Leads,
       ToSet, Tables, Node

\* No node gets neighbours but those that are linked.
LEMMA PushGrows ==
  ASSUME NEW nb \in Tables, NEW n \in Node, NEW m \in Node, NEW x \in Node,
         Push(nb, n, m)[x] # <<>>
  PROVE  nb[x] # <<>> \/ x = n
BY DEF Push, Tables

\* A line, a switch or a transformer of two windings keeps a network one.
LEMMA LinkNetwork ==
  ASSUME NEW nb, Graph!IsNetwork(nb), NEW n \in Node, NEW m \in Node
  PROVE  /\ Graph!IsNetwork(Link(nb, n, m))
         /\ \A x \in Node : Link(nb, n, m)[x] # <<>> =>
                                nb[x] # <<>> \/ x \in {n, m}
<1> DEFINE half == Push(nb, n, m)
           full == Push(half, m, n)
<1>1. BothWays(nb)
  BY NetworkIsBothWays
<1>2. /\ half \in Tables
      /\ \A x, y \in Node : Leads(half, x, y) <=>
                                Leads(nb, x, y) \/ (x = n /\ y = m)
  BY <1>1, PushLinks DEF BothWays
<1>3. \A x \in Node : half[x] # <<>> => nb[x] # <<>> \/ x = n
  BY <1>1, PushGrows DEF BothWays
<1> HIDE DEF half
<1>4. /\ full \in Tables
      /\ \A x, y \in Node : Leads(full, x, y) <=>
                                Leads(half, x, y) \/ (x = m /\ y = n)
  BY <1>2, PushLinks
<1>5. \A x \in Node : full[x] # <<>> => half[x] # <<>> \/ x = m
  BY <1>2, PushGrows
<1> HIDE DEF full
<1>6. BothWays(full)
  BY <1>1, <1>2, <1>4 DEF BothWays
<1>7. full = Link(nb, n, m)
  BY DEF full, half, Link
<1> QED
  BY <1>3, <1>5, <1>6, <1>7, NetworkIsBothWays

\* The table nc is nb with links from n to the nodes of S.
Adds(nb, nc, n, S) ==
    /\ nc \in Tables
    /\ \A x, y \in Node :
          Leads(nc, x, y) <=> Leads(nb, x, y) \/ (x = n /\ y \in S)
    /\ \A x \in Node : nc[x] # <<>> => nb[x] # <<>> \/ x = n

\* Two pushes on the same node.
LEMMA PushBothLinks ==
  ASSUME NEW nb \in Tables, NEW n \in Node, NEW m \in Node, NEW p \in Node
  PROVE  Adds(nb, PushBoth(nb, n, m, p), n, {m, p})
<1> DEFINE half == Push(nb, n, m)
           full == Push(half, n, p)
<1>1. /\ half \in Tables
      /\ \A x, y \in Node : Leads(half, x, y) <=>
                                Leads(nb, x, y) \/ (x = n /\ y = m)
  BY PushLinks
<1>2. \A x \in Node : half[x] # <<>> => nb[x] # <<>> \/ x = n
  BY PushGrows
<1> HIDE DEF half
<1>3. /\ full \in Tables
      /\ \A x, y \in Node : Leads(full, x, y) <=>
                                Leads(half, x, y) \/ (x = n /\ y = p)
  BY <1>1, PushLinks
<1>4. \A x \in Node : full[x] # <<>> => half[x] # <<>> \/ x = n
  BY <1>1, PushGrows
<1> HIDE DEF full
<1>5. full = PushBoth(nb, n, m, p)
  BY DEF full, half, PushBoth
<1> QED
  BY <1>1, <1>2, <1>3, <1>4, <1>5 DEF Adds

\* A transformer of three windings keeps a network one.
LEMMA LinkThreeNetwork ==
  ASSUME NEW nb, Graph!IsNetwork(nb),
         NEW n \in Node, NEW m \in Node, NEW p \in Node
  PROVE  /\ Graph!IsNetwork(LinkThree(nb, n, m, p))
         /\ \A x \in Node : LinkThree(nb, n, m, p)[x] # <<>> =>
                                nb[x] # <<>> \/ x \in {n, m, p}
<1> DEFINE one == PushBoth(nb, n, m, p)
           two == PushBoth(one, m, n, p)
           three == PushBoth(two, p, n, m)
<1>1. BothWays(nb)
  BY NetworkIsBothWays
<1>2. nb \in Tables
  BY <1>1 DEF BothWays
<1>3. Adds(nb, one, n, {m, p})
  BY <1>2, PushBothLinks
<1>4. one \in Tables
  BY <1>3 DEF Adds
<1> HIDE DEF one
<1>5. Adds(one, two, m, {n, p})
  BY <1>4, PushBothLinks
<1>6. two \in Tables
  BY <1>5 DEF Adds
<1> HIDE DEF two
<1>7. Adds(two, three, p, {n, m})
  BY <1>6, PushBothLinks
<1> HIDE DEF three
<1>8. BothWays(three)
  BY <1>1, <1>3, <1>5, <1>7 DEF BothWays, Adds
<1>9. three = LinkThree(nb, n, m, p)
  BY DEF three, two, one, LinkThree
<1> QED
  BY <1>3, <1>5, <1>7, <1>8, <1>9, NetworkIsBothWays DEF Adds

-----------------------------------------------------------------------------
(***************************************************************************)
(* The element a loop is at.                                               *)
(***************************************************************************)

\* The file the tree is built from is well formed.
LEMMA InputDescription ==
  ASSUME TypeOK
  PROVE  IsDescription(input)
BY DescriptionsAssumption DEF TypeOK

\* The identity of an element is one.
LEMMA IdType ==
  ASSUME TypeOK, stage # "done"
  PROVE  Id \in Element
<1>1. level \in Nat /\ item \in Nat /\ stage \in LevelStage \union BranchStage
  BY DEF TypeOK
<1> QED
  BY <1>1 DEF Id, Element

\* The level that is read.
LEMMA LevelType ==
  ASSUME TypeOK, stage \in LevelStage
  PROVE  /\ level \in DOMAIN input.levels
         /\ input.levels[level] \in Level
         /\ LevelOnItsBuses(input.levels[level])
         /\ Items = input.levels[level][stage]
<1>1. level \in DOMAIN input.levels
  BY DEF TypeOK
<1>2. /\ input.levels \in Seq(Level)
      /\ \A i \in DOMAIN input.levels : LevelOnItsBuses(input.levels[i])
  BY InputDescription DEF IsDescription
<1> QED
  BY <1>1, <1>2 DEF Items

\* A loop reads elements of the kind it is for, on buses of the level.
LEMMA CurrentInLevel ==
  ASSUME TypeOK
  PROVE  /\ Reading("shunts") => Current.bus \in Node
         /\ Reading("buses") =>
               /\ item \in DOMAIN input.levels[level].buses
               /\ Current = input.levels[level].buses[item]
               /\ Current \in Node
         /\ Reading("loads") \/ Reading("svarcs") =>
               /\ Current.bus \in Node
               /\ Current.bus \in ToSet(input.levels[level].buses)
         /\ Reading("switches") =>
               /\ DOMAIN Current.ends = 1..2
               /\ Current.ends[1] \in Node /\ Current.ends[2] \in Node
               /\ ToSet(Current.ends) \subseteq
                      ToSet(input.levels[level].buses)
<1> DEFINE v == input.levels[level]
<1>1. item \in Nat \ {0}
  BY DEF TypeOK
<1>2. ASSUME stage \in LevelStage
      PROVE  v \in Level /\ LevelOnItsBuses(v) /\ Items = v[stage]
  BY <1>2, LevelType
<1> HIDE DEF v
<1>3. CASE Reading("shunts")
  <2>1. v.shunts \in Seq(Shunt) /\ Items = v.shunts /\ item <= Len(v.shunts)
    BY <1>2, <1>3 DEF Reading, LevelStage, Level
  <2>2. Current \in Shunt
    BY <1>1, <2>1 DEF Current
  <2> QED
    BY <1>3, <2>2 DEF Shunt, Reading
<1>4. CASE Reading("buses")
  <2>1. v.buses \in Seq(Node) /\ Items = v.buses /\ item <= Len(v.buses)
    BY <1>2, <1>4 DEF Reading, LevelStage, Level
  <2>2. item \in DOMAIN v.buses /\ Current = v.buses[item] /\ Current \in Node
    BY <1>1, <2>1 DEF Current
  <2> QED
    BY <1>4, <2>2 DEF v, Reading
<1>5. CASE Reading("loads")
  <2>1. v.loads \in Seq(Load) /\ Items = v.loads /\ item <= Len(v.loads)
    BY <1>2, <1>5 DEF Reading, LevelStage, Level
  <2>2. Current \in Load /\ Current \in ToSet(v.loads)
    BY <1>1, <2>1 DEF Current, ToSet
  <2>3. Current.bus \in ToSet(v.buses)
    BY <1>2, <1>5, <2>2 DEF LevelOnItsBuses, Reading, LevelStage
  <2> QED
    BY <1>5, <2>2, <2>3 DEF Load, v, Reading
<1>6. CASE Reading("svarcs")
  <2>1. v.svarcs \in Seq(Svarc) /\ Items = v.svarcs /\ item <= Len(v.svarcs)
    BY <1>2, <1>6 DEF Reading, LevelStage, Level
  <2>2. Current \in Svarc /\ Current \in ToSet(v.svarcs)
    BY <1>1, <2>1 DEF Current, ToSet
  <2>3. Current.bus \in ToSet(v.buses)
    BY <1>2, <1>6, <2>2 DEF LevelOnItsBuses, Reading, LevelStage
  <2> QED
    BY <1>6, <2>2, <2>3 DEF Svarc, v, Reading
<1>7. CASE Reading("switches")
  <2>1. /\ v.switches \in Seq(Switch)
        /\ Items = v.switches
        /\ item <= Len(v.switches)
    BY <1>2, <1>7 DEF Reading, LevelStage, Level
  <2>2. Current \in Switch /\ Current \in ToSet(v.switches)
    BY <1>1, <2>1 DEF Current, ToSet
  <2>3. ToSet(Current.ends) \subseteq ToSet(v.buses)
    BY <1>2, <1>7, <2>2 DEF LevelOnItsBuses, Reading, LevelStage
  <2> QED
    BY <1>7, <2>2, <2>3 DEF Switch, Ends, v, Reading
<1> QED
  BY <1>3, <1>4, <1>5, <1>6, <1>7

\* The loops on branches read branches, of two or three ends.
LEMMA CurrentBranch ==
  ASSUME TypeOK
  PROVE  /\ Reading("lines") \/ Reading("twoWindings") =>
               Current \in Branch(2)
         /\ Reading("threeWindings") => Current \in Branch(3)
<1>1. item \in Nat \ {0}
  BY DEF TypeOK
<1>2. /\ input.lines \in Seq(Branch(2))
      /\ input.twoWindings \in Seq(Branch(2))
      /\ input.threeWindings \in Seq(Branch(3))
  BY InputDescription DEF IsDescription
<1>3. CASE Reading("lines")
  <2>1. Items = input.lines /\ item <= Len(input.lines)
    BY <1>3 DEF Reading, Items, LevelStage
  <2> QED
    BY <1>1, <1>2, <1>3, <2>1 DEF Current, Reading
<1>4. CASE Reading("twoWindings")
  <2>1. Items = input.twoWindings /\ item <= Len(input.twoWindings)
    BY <1>4 DEF Reading, Items, LevelStage
  <2> QED
    BY <1>1, <1>2, <1>4, <2>1 DEF Current, Reading
<1>5. CASE Reading("threeWindings")
  <2>1. Items = input.threeWindings /\ item <= Len(input.threeWindings)
    BY <1>5 DEF Reading, Items, LevelStage
  <2> QED
    BY <1>1, <1>2, <1>5, <2>1 DEF Current, Reading
<1> QED
  BY <1>3, <1>4, <1>5

-----------------------------------------------------------------------------
(***************************************************************************)
(* The vectors of elements of the nodes.                                   *)
(***************************************************************************)
Vectors == [Kind -> [Node -> Seq(Element)]]

\* One vector of one node is replaced.
LEMMA SetVector ==
  ASSUME NEW v \in Vectors, NEW k \in Kind, NEW n \in Node,
         NEW s \in Seq(Element)
  PROVE  [v EXCEPT ![k][n] = s] \in Vectors
<1>1. [v[k] EXCEPT ![n] = s] \in [Node -> Seq(Element)]
  BY DEF Vectors
<1>2. [v EXCEPT ![k][n] = s] = [v EXCEPT ![k] = [v[k] EXCEPT ![n] = s]]
  BY DEF Vectors
<1> QED
  BY <1>1, <1>2 DEF Vectors

\* An element is pushed on one vector of one node.
LEMMA PushVector ==
  ASSUME NEW v \in Vectors, NEW k \in Kind, NEW n \in Node,
         NEW e \in Element
  PROVE  [v EXCEPT ![k][n] = Append(@, e)] \in Vectors
<1>1. Append(v[k][n], e) \in Seq(Element)
  BY DEF Vectors
<1>2. [v EXCEPT ![k][n] = Append(@, e)] =
          [v EXCEPT ![k][n] = Append(v[k][n], e)]
  BY DEF Vectors
<1> HIDE DEF Element
<1> QED
  BY <1>1, <1>2, SetVector

\* The ends of a branch get as many references to it as their occurrences.
LEMMA ReferType ==
  ASSUME TypeOK, stage # "done", NEW kind \in Kind, NEW k \in Nat,
         NEW ends \in Ends(k)
  PROVE  Refer(kind, ends) \in Vectors
<1> DEFINE times(n) == Cardinality({e \in DOMAIN ends : ends[e] = n})
           refs(n) == [i \in 1..times(n) |-> Id]
           row == [n \in Node |-> elements[kind][n] \o refs(n)]
<1>1. elements \in Vectors
  BY DEF TypeOK, Vectors
<1>2. ASSUME NEW n \in Node
      PROVE  elements[kind][n] \o refs(n) \in Seq(Element)
  <2>1. times(n) \in Nat
    <3>1. IsFiniteSet(1..k)
      BY FS_Interval
    <3>2. {e \in DOMAIN ends : ends[e] = n} \subseteq 1..k
      BY DEF Ends
    <3> QED
      BY <3>1, <3>2, FS_Subset, FS_CardinalityType
  <2> HIDE DEF times
  <2>2. refs(n) \in Seq(Element)
    BY <2>1, IdType
  <2>3. elements[kind][n] \in Seq(Element)
    BY <1>1 DEF Vectors
  <2> HIDE DEF refs
  <2> QED
    BY <2>2, <2>3
<1> HIDE DEF refs
<1>3. row \in [Node -> Seq(Element)]
  BY <1>2
<1>4. Refer(kind, ends) = [elements EXCEPT ![kind] = row]
  BY <1>1 DEF Refer, Vectors, refs
<1> HIDE DEF row
<1> QED
  BY <1>1, <1>3, <1>4 DEF Vectors

-----------------------------------------------------------------------------
(***************************************************************************)
(* The inductive invariant.                                                *)
(***************************************************************************)

\* The state before the first loop satisfies the invariant.
LEMMA InitInv == Init => IInv
<1> SUFFICES ASSUME Init
             PROVE  IInv
  OBVIOUS
<1>1. IsDescription(input)
  BY DescriptionsAssumption DEF Init
<1>2. input.levels \in Seq(Level)
  BY <1>1 DEF IsDescription
<1>3. stage = FirstStage /\ level = 1
  BY DEF Init
<1>4. input.levels # <<>> => stage = "shunts" /\ 1 \in DOMAIN input.levels
  BY <1>2, <1>3 DEF FirstStage
<1>5. input.levels = <<>> => stage = "lines" /\ Node = {}
  BY <1>1, <1>3 DEF FirstStage, IsDescription
<1>6. Nothing \in [Node -> Seq(Element)] /\ Nothing \in [Node -> Seq(Node)]
  BY DEF Nothing
<1>7. TypeOK
  <2>1. stage \in LevelStage \union BranchStage
    BY <1>4, <1>5 DEF LevelStage, BranchStage
  <2>2. stage \in LevelStage => level \in DOMAIN input.levels
    BY <1>3, <1>4, <1>5 DEF LevelStage
  <2>3. elements \in [Kind -> [Node -> Seq(Element)]]
    BY <1>6 DEF Init
  <2> QED
    BY <1>6, <2>1, <2>2, <2>3 DEF Init, TypeOK
<1>8. BusesRead
  <2>1. CASE input.levels = <<>>
    BY <1>5, <2>1 DEF BusesRead, LevelStage, Init
  <2>2. CASE input.levels # <<>>
    BY <1>3, <1>4, <2>2 DEF BusesRead, BranchStage
  <2> QED
    BY <2>1, <2>2
<1>9. NeighboursAreNetwork
  <2>1. \A n \in Node : Nothing[n] = <<>>
    BY DEF Nothing
  <2>2. BothWays(Nothing)
    BY <1>6, <2>1 DEF BothWays, Tables, Leads, ToSet
  <2> QED
    BY <2>1, <2>2, NetworkIsBothWays DEF NeighboursAreNetwork, Init
<1> QED
  BY <1>7, <1>8, <1>9 DEF IInv

\* A step that changes none of stage, level and nodes, and is not in the loop
\* on buses, keeps what is known of the buses read.
LEMMA BusesReadKept ==
  ASSUME IInv, UNCHANGED <<input, stage, level, nodes>>, stage # "buses"
  PROVE  BusesRead'
BY DEF IInv, BusesRead

\* A step that does not touch the neighbours nor remove nodes.
LEMMA NeighboursKept ==
  ASSUME IInv, UNCHANGED neighbours, nodes \subseteq nodes'
  PROVE  NeighboursAreNetwork'
BY DEF IInv, NeighboursAreNetwork

\* The ends of a branch, once every level is read.
LEMMA BranchEnds ==
  ASSUME IInv, NEW k \in Nat, NEW ends \in Ends(k), stage \in BranchStage
  PROVE  nodes = Node /\ \A e \in 1..k : ends[e] \in Node
BY DEF IInv, BusesRead, Ends

\* The end of a loop keeps the invariant.
LEMMA EndOfLoopInv ==
  ASSUME IInv, EndOfLoop
  PROVE  IInv'
<1> USE DEF IInv
<1>1. input.levels \in Seq(Level) /\ level \in Nat
  BY InputDescription DEF IsDescription, TypeOK
<1>2. NeighboursAreNetwork'
  BY NeighboursKept DEF EndOfLoop
<1>3. Nothing \in [Node -> Seq(Element)]
  BY DEF Nothing
<1>4. shuntsMap' \in [Node -> Seq(Element)]
  BY <1>3 DEF EndOfLoop, TypeOK
<1>5. /\ input' \in Descriptions /\ item' \in Nat \ {0}
      /\ nodes' \in SUBSET Node /\ slackNode' \in nodes' \union {NoNode}
      /\ neighbours' \in [Node -> Seq(Node)]
      /\ elements' \in [Kind -> [Node -> Seq(Element)]]
      /\ lines' \in Seq(Element) /\ tfos' \in Seq(Element)
  BY DEF EndOfLoop, TypeOK
<1>6. CASE stage = "svarcs"
  <2>1. /\ level \in DOMAIN input.levels
        /\ \A v \in 1..level : ToSet(input.levels[v].buses) \subseteq nodes
    <3>1. level \in DOMAIN input.levels
      BY <1>6 DEF TypeOK, LevelStage
    <3>2. \A v \in 1..level-1 : ToSet(input.levels[v].buses) \subseteq nodes
      BY <1>6 DEF BusesRead, LevelStage
    <3>3. ToSet(input.levels[level].buses) \subseteq nodes
      BY <1>6 DEF BusesRead
    <3>4. \A v \in 1..level : v \in 1..level-1 \/ v = level
      BY <1>1
    <3> QED
      BY <3>1, <3>2, <3>3, <3>4
  <2>2. CASE level < Len(input.levels)
    <3>1. stage' = "shunts" /\ level' = level + 1 /\ input' = input
          /\ nodes' = nodes
      BY <1>6, <2>2 DEF EndOfLoop
    <3>2. level' \in DOMAIN input.levels /\ level' - 1 = level
      BY <1>1, <2>2, <3>1
    <3>3. TypeOK'
      BY <1>4, <1>5, <3>1, <3>2 DEF TypeOK, LevelStage
    <3>4. BusesRead'
      BY <2>1, <3>1, <3>2 DEF BusesRead, BranchStage
    <3> QED
      BY <1>2, <3>3, <3>4
  <2>3. CASE ~(level < Len(input.levels))
    <3>1. stage' = "lines" /\ level' = level /\ input' = input
          /\ nodes' = nodes
      BY <1>6, <2>3 DEF EndOfLoop
    <3>2. TypeOK'
      BY <1>1, <1>4, <1>5, <3>1 DEF TypeOK, LevelStage, BranchStage
    <3>3. level = Len(input.levels)
      BY <1>1, <2>1, <2>3
    <3>4. Node \subseteq nodes
      <4>1. \A n \in Node : \E i \in DOMAIN input.levels :
                n \in ToSet(input.levels[i].buses)
        BY InputDescription DEF IsDescription
      <4> QED
        BY <1>1, <2>1, <3>3, <4>1
    <3>5. nodes' = Node
      BY <3>1, <3>4 DEF TypeOK
    <3>6. BusesRead'
      BY <3>1, <3>5 DEF BusesRead, LevelStage
    <3> QED
      BY <1>2, <3>2, <3>6
  <2> QED
    BY <2>2, <2>3
<1>7. CASE stage \in LevelStage \ {"svarcs"}
  <2>1. stage' = Following[stage] /\ level' = level /\ input' = input
        /\ nodes' = nodes /\ item' = 1
    BY <1>7 DEF EndOfLoop, LevelStage
  <2>2. /\ stage = "shunts" => stage' = "buses"
        /\ stage = "buses" => stage' = "loads"
        /\ stage = "loads" => stage' = "switches"
        /\ stage = "switches" => stage' = "svarcs"
    BY <2>1 DEF Following
  <2>3. TypeOK'
    BY <1>4, <1>5, <1>7, <2>1, <2>2 DEF TypeOK, LevelStage
  <2>4. \A v \in 1..level-1 : ToSet(input.levels[v].buses) \subseteq nodes
    BY <1>7 DEF BusesRead
  <2>5. stage # "shunts" =>
            ToSet(input.levels[level].buses) \subseteq nodes
    <3>1. CASE stage = "buses"
      <4>1. Items = input.levels[level].buses /\ item > Len(Items)
            /\ item \in Nat
        BY <3>1 DEF Items, LevelStage, EndOfLoop, TypeOK
      <4>2. input.levels[level].buses \in Seq(Node)
        BY <1>7, LevelType DEF Level
      <4>3. \A i \in DOMAIN input.levels[level].buses :
                input.levels[level].buses[i] \in nodes
        BY <3>1, <4>1, <4>2 DEF BusesRead
      <4> QED
        BY <4>3 DEF ToSet
    <3>2. CASE stage \in {"loads", "switches"}
      BY <3>2 DEF BusesRead
    <3> QED
      BY <1>7, <3>1, <3>2 DEF LevelStage
  <2>6. BusesRead'
    BY <1>7, <2>1, <2>2, <2>4, <2>5 DEF BusesRead, LevelStage, BranchStage
  <2> QED
    BY <1>2, <2>3, <2>6
<1>8. CASE stage \in BranchStage
  <2>1. stage' \in BranchStage \union {"done"} /\ level' = level
        /\ input' = input /\ nodes' = nodes
    BY <1>8 DEF EndOfLoop, BranchStage
  <2>2. TypeOK'
    BY <1>1, <1>4, <1>5, <2>1 DEF TypeOK, LevelStage, BranchStage
  <2>3. BusesRead'
    BY <1>8, <2>1 DEF BusesRead, LevelStage, BranchStage
  <2> QED
    BY <1>2, <2>2, <2>3
<1> QED
  BY <1>6, <1>7, <1>8 DEF EndOfLoop, TypeOK

\* Reading a shunt.
LEMMA ReadShuntInv ==
  ASSUME IInv, ReadShunt
  PROVE  IInv'
<1> USE DEF IInv
<1>1. stage = "shunts" /\ Current.bus \in Node /\ Id \in Element
  BY CurrentInLevel, IdType DEF ReadShunt, Reading
<1>2. shuntsMap' \in [Node -> Seq(Element)]
  <2>1. Append(shuntsMap[Current.bus], Id) \in Seq(Element)
    BY <1>1 DEF TypeOK
  <2> QED
    BY <1>1, <2>1 DEF ReadShunt, TypeOK
<1>3. TypeOK'
  BY <1>2 DEF ReadShunt, TypeOK
<1>4. BusesRead' /\ NeighboursAreNetwork'
  BY <1>1, BusesReadKept, NeighboursKept DEF ReadShunt
<1> QED
  BY <1>3, <1>4

\* Reading a bus: one more node.
LEMMA ReadBusInv ==
  ASSUME IInv, ReadBus
  PROVE  IInv'
<1> USE DEF IInv
<1>1. /\ stage = "buses" /\ Current \in Node
      /\ item \in DOMAIN input.levels[level].buses
      /\ Current = input.levels[level].buses[item]
  BY CurrentInLevel DEF ReadBus, Reading
<1>2. elements' \in Vectors
  <2>1. elements \in Vectors /\ shuntsMap[Current] \in Seq(Element)
    BY <1>1 DEF TypeOK, Vectors
  <2> HIDE DEF Element
  <2> QED
    BY <1>1, <2>1, SetVector DEF ReadBus, Kind
<1>3. /\ nodes' \in SUBSET Node
      /\ slackNode' \in nodes' \union {NoNode}
  BY <1>1 DEF ReadBus, TypeOK, SlackAfter
<1>4. TypeOK'
  BY <1>2, <1>3 DEF ReadBus, TypeOK, Vectors
<1>5. BusesRead'
  <2>1. item \in Nat /\ item' = item + 1 /\ nodes' = nodes \union {Current}
    BY DEF ReadBus, TypeOK
  <2>2. \A i \in 1..item : i \in 1..item-1 \/ i = item
    BY <2>1
  <2>3. \A i \in 1..item'-1 : input.levels[level].buses[i] \in nodes'
    BY <1>1, <2>1, <2>2 DEF BusesRead
  <2> QED
    BY <1>1, <2>1, <2>3 DEF ReadBus, BusesRead, BranchStage
<1>6. NeighboursAreNetwork'
  BY NeighboursKept DEF ReadBus
<1> QED
  BY <1>4, <1>5, <1>6

\* Reading a load.
LEMMA ReadLoadInv ==
  ASSUME IInv, ReadLoad
  PROVE  IInv'
<1> USE DEF IInv
<1>1. stage = "loads" /\ Current.bus \in Node /\ Id \in Element
  BY CurrentInLevel, IdType DEF ReadLoad, Reading
<1>2. elements' \in Vectors
  <2>1. elements \in Vectors
    BY DEF TypeOK, Vectors
  <2> HIDE DEF Element
  <2> QED
    BY <1>1, <2>1, PushVector DEF ReadLoad, Kind
<1>3. TypeOK'
  BY <1>2 DEF ReadLoad, TypeOK, Vectors
<1>4. BusesRead' /\ NeighboursAreNetwork'
  BY <1>1, BusesReadKept, NeighboursKept DEF ReadLoad
<1> QED
  BY <1>3, <1>4

\* Reading a static var compensator.
LEMMA ReadSvarcInv ==
  ASSUME IInv, ReadSvarc
  PROVE  IInv'
<1> USE DEF IInv
<1>1. stage = "svarcs" /\ Current.bus \in Node /\ Id \in Element
  BY CurrentInLevel, IdType DEF ReadSvarc, Reading
<1>2. elements' \in Vectors
  <2>1. elements \in Vectors
    BY DEF TypeOK, Vectors
  <2> HIDE DEF Element
  <2> QED
    BY <1>1, <2>1, PushVector DEF ReadSvarc, Kind
<1>3. TypeOK'
  BY <1>2, SMTT(20) DEF ReadSvarc, TypeOK, Vectors
<1>4. BusesRead' /\ NeighboursAreNetwork'
  BY <1>1, BusesReadKept, NeighboursKept DEF ReadSvarc
<1> QED
  BY <1>3, <1>4

\* Reading a switch: its buses are of the level, which has all its nodes.
LEMMA ReadSwitchInv ==
  ASSUME IInv, ReadSwitch
  PROVE  IInv'
<1> USE DEF IInv
<1> DEFINE a == Current.ends[1]
           b == Current.ends[2]
<1>1. /\ stage = "switches" /\ a \in Node /\ b \in Node
      /\ DOMAIN Current.ends = 1..2
      /\ ToSet(Current.ends) \subseteq ToSet(input.levels[level].buses)
  BY CurrentInLevel DEF ReadSwitch, Reading
<1>2. a \in nodes /\ b \in nodes
  BY <1>1 DEF BusesRead, ToSet
<1>3. Graph!IsNetwork(neighbours)
  BY DEF NeighboursAreNetwork
<1> HIDE DEF a, b
<1>4. /\ Graph!IsNetwork(Link(neighbours, a, b))
      /\ \A x \in Node : Link(neighbours, a, b)[x] # <<>> =>
                             neighbours[x] # <<>> \/ x \in {a, b}
  BY <1>1, <1>3, LinkNetwork
<1>5. neighbours' = neighbours \/ neighbours' = Link(neighbours, a, b)
  BY DEF ReadSwitch, a, b
<1>6. NeighboursAreNetwork'
  BY <1>2, <1>4, <1>5 DEF NeighboursAreNetwork, ReadSwitch
<1>7. neighbours' \in [Node -> Seq(Node)]
  BY <1>6, NetworkIsBothWays DEF NeighboursAreNetwork, BothWays, Tables
<1>8. TypeOK'
  BY <1>7 DEF ReadSwitch, TypeOK
<1>9. BusesRead'
  BY <1>1, BusesReadKept DEF ReadSwitch
<1> QED
  BY <1>6, <1>8, <1>9

\* Reading a line: every level has been read.
LEMMA ReadLineInv ==
  ASSUME IInv, ReadLine
  PROVE  IInv'
<1> USE DEF IInv
<1> DEFINE a == Current.ends[1]
           b == Current.ends[2]
<1>1. stage = "lines" /\ Current.ends \in Ends(2) /\ Id \in Element
  BY CurrentBranch, IdType DEF ReadLine, Reading, Branch
<1>2. nodes = Node /\ a \in Node /\ b \in Node
  BY <1>1, BranchEnds DEF BranchStage
<1>3. Refer("lines", Current.ends) \in Vectors
  BY <1>1, ReferType DEF Kind
<1>4. elements' \in Vectors
  BY <1>3 DEF ReadLine, TypeOK, Vectors
<1>5. Graph!IsNetwork(neighbours)
  BY DEF NeighboursAreNetwork
<1>6. neighbours' = neighbours \/ neighbours' = Link(neighbours, a, b)
  BY DEF ReadLine
<1> HIDE DEF a, b
<1>7. Graph!IsNetwork(neighbours')
  BY <1>2, <1>5, <1>6, LinkNetwork
<1>8. NeighboursAreNetwork'
  BY <1>2, <1>7, NetworkIsBothWays DEF NeighboursAreNetwork, ReadLine
<1>9. neighbours' \in [Node -> Seq(Node)]
  BY <1>7, NetworkIsBothWays DEF BothWays, Tables
<1>10. lines' \in Seq(Element)
  <2>1. lines' = lines \/ lines' = Append(lines, Id)
    BY DEF ReadLine
  <2>2. lines \in Seq(Element)
    BY DEF TypeOK
  <2> QED
    BY <1>1, <2>1, <2>2
<1>11. TypeOK'
  <2>1. /\ UNCHANGED <<input, stage, level, shuntsMap, nodes, slackNode, tfos>>
        /\ item' = item + 1
    BY DEF ReadLine
  <2> QED
    BY <1>4, <1>9, <1>10, <2>1 DEF TypeOK, Vectors
<1>12. BusesRead'
  BY <1>1, BusesReadKept DEF ReadLine
<1> QED
  BY <1>8, <1>11, <1>12

\* Reading a transformer of two windings.
LEMMA ReadTwoWindingsInv ==
  ASSUME IInv, ReadTwoWindings
  PROVE  IInv'
<1> USE DEF IInv
<1> DEFINE a == Current.ends[1]
           b == Current.ends[2]
<1>1. stage = "twoWindings" /\ Current.ends \in Ends(2) /\ Id \in Element
  BY CurrentBranch, IdType DEF ReadTwoWindings, Reading, Branch
<1>2. nodes = Node /\ a \in Node /\ b \in Node
  BY <1>1, BranchEnds DEF BranchStage
<1>3. Refer("tfos", Current.ends) \in Vectors
  BY <1>1, ReferType DEF Kind
<1>4. elements' \in Vectors
  BY <1>3 DEF ReadTwoWindings, TypeOK, Vectors
<1>5. Graph!IsNetwork(neighbours)
  BY DEF NeighboursAreNetwork
<1>6. neighbours' = neighbours \/ neighbours' = Link(neighbours, a, b)
  BY DEF ReadTwoWindings
<1> HIDE DEF a, b
<1>7. Graph!IsNetwork(neighbours')
  BY <1>2, <1>5, <1>6, LinkNetwork
<1>8. NeighboursAreNetwork'
  BY <1>2, <1>7, NetworkIsBothWays DEF NeighboursAreNetwork, ReadTwoWindings
<1>9. neighbours' \in [Node -> Seq(Node)]
  BY <1>7, NetworkIsBothWays DEF BothWays, Tables
<1>10. tfos' \in Seq(Element)
  <2>1. tfos' = tfos \/ tfos' = Append(tfos, Id)
    BY DEF ReadTwoWindings
  <2>2. tfos \in Seq(Element)
    BY DEF TypeOK
  <2> QED
    BY <1>1, <2>1, <2>2
<1>11. TypeOK'
  <2>1. /\ UNCHANGED <<input, stage, level, shuntsMap, nodes, slackNode, lines>>
        /\ item' = item + 1
    BY DEF ReadTwoWindings
  <2> QED
    BY <1>4, <1>9, <1>10, <2>1 DEF TypeOK, Vectors
<1>12. BusesRead'
  BY <1>1, BusesReadKept DEF ReadTwoWindings
<1> QED
  BY <1>8, <1>11, <1>12

\* Reading a transformer of three windings.
LEMMA ReadThreeWindingsInv ==
  ASSUME IInv, ReadThreeWindings
  PROVE  IInv'
<1> USE DEF IInv
<1> DEFINE a == Current.ends[1]
           b == Current.ends[2]
           c == Current.ends[3]
<1>1. stage = "threeWindings" /\ Current.ends \in Ends(3) /\ Id \in Element
  BY CurrentBranch, IdType DEF ReadThreeWindings, Reading, Branch
<1>2. nodes = Node /\ a \in Node /\ b \in Node /\ c \in Node
  BY <1>1, BranchEnds DEF BranchStage
<1>3. Refer("tfos", Current.ends) \in Vectors
  BY <1>1, ReferType DEF Kind
<1>4. elements' \in Vectors
  BY <1>3 DEF ReadThreeWindings, TypeOK, Vectors
<1>5. Graph!IsNetwork(neighbours)
  BY DEF NeighboursAreNetwork
<1>6. neighbours' = neighbours \/ neighbours' = LinkThree(neighbours, a, b, c)
  BY DEF ReadThreeWindings
<1> HIDE DEF a, b, c
<1>7. Graph!IsNetwork(neighbours')
  BY <1>2, <1>5, <1>6, LinkThreeNetwork
<1>8. NeighboursAreNetwork'
  BY <1>2, <1>7, NetworkIsBothWays DEF NeighboursAreNetwork, ReadThreeWindings
<1>9. neighbours' \in [Node -> Seq(Node)]
  BY <1>7, NetworkIsBothWays DEF BothWays, Tables
<1>10. tfos' \in Seq(Element)
  <2>1. tfos' = tfos \/ tfos' = Append(tfos, Id)
    BY DEF ReadThreeWindings
  <2>2. tfos \in Seq(Element)
    BY DEF TypeOK
  <2> QED
    BY <1>1, <2>1, <2>2
<1>11. TypeOK'
  <2>1. /\ UNCHANGED <<input, stage, level, shuntsMap, nodes, slackNode, lines>>
        /\ item' = item + 1
    BY DEF ReadThreeWindings
  <2> QED
    BY <1>4, <1>9, <1>10, <2>1 DEF TypeOK, Vectors
<1>12. BusesRead'
  BY <1>1, BusesReadKept DEF ReadThreeWindings
<1> QED
  BY <1>8, <1>11, <1>12

-----------------------------------------------------------------------------
(***************************************************************************)
(* IInv holds in every reachable state, whatever the network file.         *)
(***************************************************************************)
THEOREM Invariance == Spec => []IInv
<1>1. IInv /\ [Next]_vars => IInv'
  <2> SUFFICES ASSUME IInv, [Next]_vars
               PROVE  IInv'
    OBVIOUS
  <2>1. CASE EndOfLoop
    BY <2>1, EndOfLoopInv
  <2>2. CASE ReadShunt
    BY <2>2, ReadShuntInv
  <2>3. CASE ReadBus
    BY <2>3, ReadBusInv
  <2>4. CASE ReadLoad
    BY <2>4, ReadLoadInv
  <2>5. CASE ReadSwitch
    BY <2>5, ReadSwitchInv
  <2>6. CASE ReadSvarc
    BY <2>6, ReadSvarcInv
  <2>7. CASE ReadLine
    BY <2>7, ReadLineInv
  <2>8. CASE ReadTwoWindings
    BY <2>8, ReadTwoWindingsInv
  <2>9. CASE ReadThreeWindings
    BY <2>9, ReadThreeWindingsInv
  <2>10. CASE UNCHANGED vars
    <3>1. TypeOK'
      BY <2>10 DEF vars, IInv, TypeOK
    <3>2. BusesRead'
      BY <2>10 DEF vars, IInv, BusesRead
    <3>3. NeighboursAreNetwork'
      BY <2>10 DEF vars, IInv, NeighboursAreNetwork
    <3> QED
      BY <3>1, <3>2, <3>3 DEF IInv
  <2> QED
    BY <2>1, <2>2, <2>3, <2>4, <2>5, <2>6, <2>7, <2>8, <2>9, <2>10
       DEF Next, Terminated
<1> QED
  BY <1>1, InitInv, PTL DEF Spec

(***************************************************************************)
(* The tree is well typed: its vectors hold nodes and elements only, and   *)
(* the slack node, if any, is a node of it.                                *)
(***************************************************************************)
THEOREM TypeCorrect == Spec => []TypeOK
<1>1. IInv => TypeOK
  BY DEF IInv
<1> QED
  BY <1>1, Invariance, PTL

(***************************************************************************)
(* At any time the neighbours built by buildTree satisfy IsNetwork, which  *)
(* is NetworksAssumption of Connexity: the theorems of MainConnexProofs    *)
(* apply to every tree, during the walk that follows.                      *)
(***************************************************************************)
THEOREM TreeIsNetwork == Spec => []NeighboursAreNetwork
<1>1. IInv => NeighboursAreNetwork
  BY DEF IInv
<1> QED
  BY <1>1, Invariance, PTL

(***************************************************************************)
(* nodes_[id] and nodes_.at(id) are only used with the id of a node that   *)
(* has been created: no null node is made, no exception is thrown.         *)
(***************************************************************************)
THEOREM LookupsSucceed == Spec => []NodesExist
<1>1. IInv => NodesExist
  <2> SUFFICES ASSUME IInv,
                      NEW s \in (LevelStage \union BranchStage)
                                     \ {"shunts", "buses"},
                      Reading(s)
               PROVE  BusesUsed(s, Current) \subseteq nodes
    BY DEF NodesExist
  <2> USE DEF IInv
  <2>1. CASE s \in {"loads", "svarcs"}
    <3>1. Current.bus \in ToSet(input.levels[level].buses)
      BY <2>1, CurrentInLevel
    <3>2. ToSet(input.levels[level].buses) \subseteq nodes
      BY <2>1 DEF BusesRead, Reading
    <3> QED
      BY <2>1, <3>1, <3>2 DEF BusesUsed
  <2>2. CASE s = "switches"
    <3>1. ToSet(Current.ends) \subseteq ToSet(input.levels[level].buses)
      BY <2>2, CurrentInLevel
    <3>2. ToSet(input.levels[level].buses) \subseteq nodes
      BY <2>2 DEF BusesRead, Reading
    <3> QED
      BY <2>2, <3>1, <3>2 DEF BusesUsed
  <2>3. CASE s \in BranchStage
    <3>1. nodes = Node
      BY <2>3 DEF BusesRead, Reading
    <3>2. Current.ends \in Ends(2) \/ Current.ends \in Ends(3)
      BY <2>3, CurrentBranch DEF Branch, BranchStage
    <3>3. ToSet(Current.ends) \subseteq Node
      BY <3>2 DEF ToSet, Ends
    <3> QED
      BY <2>3, <3>1, <3>3 DEF BusesUsed, BranchStage
  <2> QED
    BY <2>1, <2>2, <2>3 DEF LevelStage
<1> QED
  BY <1>1, Invariance, PTL

-----------------------------------------------------------------------------
(***************************************************************************)
(* Occurrences in a sequence.                                              *)
(***************************************************************************)
\* A condition counted as a number.
One(p) == IF p THEN 1 ELSE 0

\* The positions of x in s.
At(x, s) == {i \in DOMAIN s : s[i] = x}

\* A sequence has a finite number of occurrences.
LEMMA TimesType ==
  ASSUME NEW S, NEW s \in Seq(S), NEW x
  PROVE  /\ IsFiniteSet(At(x, s))
         /\ Times(x, s) = Cardinality(At(x, s))
         /\ Times(x, s) \in Nat
<1>1. IsFiniteSet(1..Len(s)) /\ At(x, s) \in SUBSET (1..Len(s))
  BY FS_Interval DEF At
<1>2. IsFiniteSet(At(x, s))
  BY <1>1, FS_Subset
<1>3. Times(x, s) = Cardinality(At(x, s))
  BY DEF Times, At
<1> QED
  BY <1>2, <1>3, FS_CardinalityType

\* What is not in a sequence has no occurrence in it.
LEMMA TimesOutside ==
  ASSUME NEW S, NEW s \in Seq(S), NEW x, x \notin ToSet(s)
  PROVE  Times(x, s) = 0
<1>1. At(x, s) = {}
  BY DEF At, ToSet
<1> QED
  BY <1>1, TimesType, FS_EmptySet

\* Append adds one occurrence of its element.
LEMMA TimesAppend ==
  ASSUME NEW S, NEW s \in Seq(S), NEW e \in S, NEW x
  PROVE  Times(x, Append(s, e)) = Times(x, s) + One(x = e)
<1> DEFINE t == Append(s, e)
           k == Len(s) + 1
<1>1. /\ t \in Seq(S) /\ DOMAIN t = 1..k /\ k \in Nat /\ DOMAIN s = 1..(k - 1)
      /\ k \in 1..k /\ k \notin 1..(k - 1) /\ 1..k = 1..(k - 1) \union {k}
      /\ \A i \in 1..(k - 1) : t[i] = s[i]
      /\ t[k] = e
  OBVIOUS
<1> HIDE DEF t, k
<1>2. Times(x, t) = Cardinality(At(x, t)) /\ Times(x, s) = Cardinality(At(x, s))
      /\ IsFiniteSet(At(x, s)) /\ Times(x, s) \in Nat
  BY <1>1, TimesType
<1>3. CASE x = e
  <2>1. At(x, t) = At(x, s) \union {k} /\ k \notin At(x, s)
    BY <1>1, <1>3 DEF At
  <2>2. Cardinality(At(x, t)) = Cardinality(At(x, s)) + 1
    BY <1>2, <2>1, FS_AddElement
  <2> QED
    BY <1>2, <1>3, <2>2 DEF One, t
<1>4. CASE x # e
  <2>1. At(x, t) = At(x, s)
    BY <1>1, <1>4 DEF At
  <2> QED
    BY <1>2, <1>4, <2>1 DEF One, t
<1> QED
  BY <1>3, <1>4

\* A sequence repeated: k occurrences of its one element.
Copies(e, k) == [i \in 1..k |-> e]

\* Copies add as many occurrences of their element, and no other element.
LEMMA TimesCopies ==
  ASSUME NEW S, NEW s \in Seq(S), NEW e \in S, NEW k \in Nat
  PROVE  /\ s \o Copies(e, k) \in Seq(S)
         /\ \A x : Times(x, s \o Copies(e, k)) =
                       Times(x, s) + (IF x = e THEN k ELSE 0)
         /\ ToSet(s \o Copies(e, k)) \subseteq ToSet(s) \union {e}
<1> DEFINE c == Copies(e, k)
           t == s \o c
           l == Len(s)
<1>1. c \in Seq(S) /\ Len(c) = k /\ \A i \in 1..k : c[i] = e
  BY DEF Copies
<1> HIDE DEF c
<1>2. /\ t \in Seq(S) /\ Len(t) = l + k /\ l \in Nat /\ Len(s) = l
      /\ \A i \in 1..l : t[i] = s[i]
      /\ \A i \in 1..k : t[l + i] = c[i]
  BY <1>1
<1> HIDE DEF t, l
<1>3. DOMAIN t = 1..(l + k) /\ DOMAIN s = 1..l
  BY <1>2
<1>4. \A i \in (l + 1)..(l + k) : t[i] = e
  <2> SUFFICES ASSUME NEW i \in (l + 1)..(l + k) PROVE t[i] = e
    OBVIOUS
  <2>1. i - l \in 1..k /\ l + (i - l) = i
    BY <1>2
  <2> QED
    BY <1>1, <1>2, <2>1
<1>5. ToSet(t) \subseteq ToSet(s) \union {e}
  BY <1>2, <1>3, <1>4 DEF ToSet
<1>6. ASSUME NEW x
      PROVE  Times(x, t) = Times(x, s) + (IF x = e THEN k ELSE 0)
  <2>1. /\ Times(x, t) = Cardinality(At(x, t))
        /\ Times(x, s) = Cardinality(At(x, s))
        /\ IsFiniteSet(At(x, s)) /\ Times(x, s) \in Nat
    BY <1>2, TimesType
  <2>2. CASE x = e
    <3> DEFINE new == (l + 1)..(l + k)
    <3>1. At(x, t) = At(x, s) \union new /\ At(x, s) \intersect new = {}
      BY <1>2, <1>3, <1>4, <2>2 DEF At
    <3>2. IsFiniteSet(new) /\ Cardinality(new) = k
      <4>1. l + 1 \in Int /\ l + k \in Int
        BY <1>2
      <4>2. IsFiniteSet(new)
            /\ Cardinality(new) =
                  IF l + 1 > l + k THEN 0 ELSE (l + k) - (l + 1) + 1
        BY <4>1, FS_Interval
      <4> QED
        BY <1>2, <4>2
    <3> HIDE DEF new
    <3>3. Cardinality(At(x, s) \intersect new) = 0
      BY <3>1, FS_EmptySet
    <3>4. Cardinality(At(x, t)) =
              Cardinality(At(x, s)) + Cardinality(new)
                  - Cardinality(At(x, s) \intersect new)
      BY <2>1, <3>1, <3>2, FS_Union
    <3>5. Cardinality(At(x, t)) = Cardinality(At(x, s)) + k
      BY <2>1, <3>2, <3>3, <3>4
    <3> QED
      BY <2>1, <2>2, <3>5
  <2>3. CASE x # e
    <3>1. At(x, t) = At(x, s)
      BY <1>2, <1>3, <1>4, <2>3 DEF At
    <3> QED
      BY <2>1, <2>3, <3>1
  <2> QED
    BY <2>2, <2>3
<1> QED
  BY <1>2, <1>5, <1>6 DEF t, c

-----------------------------------------------------------------------------
(***************************************************************************)
(* Vectors of elements: what a loop adds to what they hold.                *)
(***************************************************************************)

\* A vector that gets an element once per end of it on the node.
LEMMA HoldsCopies ==
  ASSUME NEW n \in Node, NEW s \in Seq(Element), NEW E, Holds(s, n, E),
         NEW e \in Element, e \notin E,
         NEW k \in Nat, k = Times(n, EndsOf(e))
  PROVE  Holds(s \o Copies(e, k), n, E \union {e})
<1> DEFINE t == s \o Copies(e, k)
<1>1. /\ \A x : Times(x, t) = Times(x, s) + (IF x = e THEN k ELSE 0)
      /\ ToSet(t) \subseteq ToSet(s) \union {e}
  <2> HIDE DEF Element
  <2> QED
    BY TimesCopies
<1> HIDE DEF t
<1>2. ToSet(s) \subseteq E /\ \A f \in E : Times(f, s) = Times(n, EndsOf(f))
  BY DEF Holds
<1>3. Times(e, s) = 0
  <2> HIDE DEF Element
  <2> QED
    BY <1>2, TimesOutside
<1>4. Times(e, t) = Times(n, EndsOf(e))
  BY <1>1, <1>3
<1>5. ASSUME NEW f \in E
      PROVE  Times(f, t) = Times(n, EndsOf(f))
  <2>1. f # e /\ Times(f, s) \in Nat
    <3> HIDE DEF Element
    <3> QED
      BY <1>5, TimesType
  <2>2. Times(f, t) = Times(f, s)
    BY <1>1, <2>1
  <2> QED
    BY <1>2, <2>2
<1>6. ToSet(t) \subseteq E \union {e}
  BY <1>1, <1>2
<1> QED
  BY <1>4, <1>5, <1>6 DEF Holds, t

\* A vector that gets an element of its node.
LEMMA HoldsAppend ==
  ASSUME NEW n \in Node, NEW s \in Seq(Element), NEW E, Holds(s, n, E),
         NEW e \in Element, e \notin E, Times(n, EndsOf(e)) = 1
  PROVE  Holds(Append(s, e), n, E \union {e})
<1>1. ToSet(s) \subseteq E /\ \A f \in E : Times(f, s) = Times(n, EndsOf(f))
  BY DEF Holds
<1> HIDE DEF Element
<1>2. ToSet(Append(s, e)) = ToSet(s) \union {e}
  BY ToSetAppend
<1>3. Times(e, s) = 0
  BY <1>1, TimesOutside
<1>4. \A x : Times(x, Append(s, e)) = Times(x, s) + One(x = e)
  BY TimesAppend
<1>5. Times(e, Append(s, e)) = Times(n, EndsOf(e))
  BY <1>3, <1>4 DEF One
<1>6. ASSUME NEW f \in E
      PROVE  Times(f, Append(s, e)) = Times(n, EndsOf(f))
  <2>1. f # e /\ Times(f, s) \in Nat
    BY <1>6, TimesType
  <2>2. Times(f, Append(s, e)) = Times(f, s)
    BY <1>4, <2>1 DEF One
  <2> QED
    BY <1>1, <2>2
<1> QED
  BY <1>1, <1>2, <1>5, <1>6 DEF Holds

\* A vector that does not get an element of another node.
LEMMA HoldsOutside ==
  ASSUME NEW n \in Node, NEW s \in Seq(Element), NEW E, Holds(s, n, E),
         NEW e \in Element, e \notin E, Times(n, EndsOf(e)) = 0
  PROVE  Holds(s, n, E \union {e})
<1>1. ToSet(s) \subseteq E /\ \A f \in E : Times(f, s) = Times(n, EndsOf(f))
  BY DEF Holds
<1>2. Times(e, s) = 0
  <2> HIDE DEF Element
  <2> QED
    BY <1>1, TimesOutside
<1> QED
  BY <1>1, <1>2 DEF Holds

\* An empty vector holds no element.
LEMMA HoldsNone == \A n \in Node : Holds(<<>>, n, {})
BY ToSetEmpty DEF Holds

\* A vector of branches gets one more.
LEMMA OwnsAppend ==
  ASSUME NEW s \in Seq(Element), NEW E, Owns(s, E),
         NEW e \in Element, e \notin E
  PROVE  Owns(Append(s, e), E \union {e})
<1> HIDE DEF Element
<1> QED
  BY ToSetAppend, InjectiveAppend DEF Owns

-----------------------------------------------------------------------------
(***************************************************************************)
(* Neighbours: what a branch or a switch adds to the counts of links.      *)
(***************************************************************************)
\* Table nb has the links of the elements of E, each as many times as it is.
Counts(nb, E) ==
    \A n, m \in Node :
        /\ IsFiniteSet(Hops(E, n, m))
        /\ Times(m, nb[n]) = Cardinality(Hops(E, n, m))

\* x under a condition.
If(p, x) == IF p THEN {x} ELSE {}

\* One more element under a condition.
LEMMA AddIf ==
  ASSUME NEW S, IsFiniteSet(S), NEW p, NEW x, x \notin S
  PROVE  /\ IsFiniteSet(S \union If(p, x))
         /\ Cardinality(S \union If(p, x)) = Cardinality(S) + One(p)
         /\ Cardinality(S) \in Nat
<1>1. Cardinality(S) \in Nat
  BY FS_CardinalityType
<1>2. CASE p
  <2>1. S \union If(p, x) = S \union {x} /\ One(p) = 1
    BY <1>2 DEF If, One
  <2>2. IsFiniteSet(S \union {x}) /\ Cardinality(S \union {x}) = Cardinality(S) + 1
    BY FS_AddElement
  <2> QED
    BY <1>1, <2>1, <2>2
<1>3. CASE ~p
  <2>1. S \union If(p, x) = S /\ One(p) = 0
    BY <1>3 DEF If, One
  <2>2. IsFiniteSet(S \union If(p, x))
        /\ Cardinality(S \union If(p, x)) = Cardinality(S)
    BY <2>1, Zenon
  <2>3. Cardinality(S) = Cardinality(S) + One(p)
    BY <1>1, <2>1
  <2> QED
    BY <1>1, <2>2, <2>3, Zenon
<1> QED
  BY <1>1, <1>2, <1>3

\* push_back adds one to the count of one link.
LEMMA PushTimes ==
  ASSUME NEW nb \in Tables, NEW a \in Node, NEW b \in Node
  PROVE  /\ Push(nb, a, b) \in Tables
         /\ \A n, m \in Node :
               Times(m, Push(nb, a, b)[n]) =
                   Times(m, nb[n]) + One(a = n /\ b = m)
<1>1. Push(nb, a, b) \in Tables
  BY DEF Push, Tables
<1>2. ASSUME NEW n \in Node, NEW m \in Node
      PROVE  Times(m, Push(nb, a, b)[n]) = Times(m, nb[n]) + One(a = n /\ b = m)
  <2>1. nb[n] \in Seq(Node) /\ Times(m, nb[n]) \in Nat
    <3>1. nb[n] \in Seq(Node)
      BY DEF Tables
    <3> QED
      BY <3>1, TimesType
  <2>2. CASE a = n
    <3>1. Push(nb, a, b)[n] = Append(nb[n], b)
      BY <2>2 DEF Push, Tables
    <3>2. Times(m, Append(nb[n], b)) = Times(m, nb[n]) + One(m = b)
      BY <2>1, TimesAppend
    <3> QED
      BY <2>2, <3>1, <3>2 DEF One
  <2>3. CASE a # n
    <3>1. Push(nb, a, b)[n] = nb[n]
      BY <2>3 DEF Push, Tables
    <3> QED
      BY <2>1, <2>3, <3>1 DEF One
  <2> QED
    BY <2>2, <2>3
<1> QED
  BY <1>1, <1>2


\* The pair <<i, j>> of ends of e, if it leads from n to m.
Hop(e, ends, n, m, i, j) == If(ends[i] = n /\ ends[j] = m, <<e, i, j>>)

\* The pairs of ends of one element of two ends that lead from n to m.
LEMMA HopsOfTwo ==
  ASSUME NEW e, NEW ends \in Ends(2), EndsOf(e) = ends,
         NEW n \in Node, NEW m \in Node
  PROVE  Hops({e}, n, m) = Hop(e, ends, n, m, 1, 2) \union Hop(e, ends, n, m, 2, 1)
<1>1. DOMAIN ends = {1, 2}
  BY DEF Ends
<1>2. Hops({e}, n, m) =
          {x \in {e} \X (1..3) \X (1..3) :
              /\ {x[2], x[3]} \subseteq {1, 2}
              /\ x[2] # x[3]
              /\ ends[x[2]] = n
              /\ ends[x[3]] = m}
  BY <1>1 DEF Hops
<1> QED
  BY <1>2 DEF Hop, If


\* The same of an element of three ends.
LEMMA HopsOfThree ==
  ASSUME NEW e, NEW ends \in Ends(3), EndsOf(e) = ends,
         NEW n \in Node, NEW m \in Node
  PROVE  Hops({e}, n, m) =
             Hop(e, ends, n, m, 1, 2) \union Hop(e, ends, n, m, 1, 3) \union
             Hop(e, ends, n, m, 2, 1) \union Hop(e, ends, n, m, 2, 3) \union
             Hop(e, ends, n, m, 3, 1) \union Hop(e, ends, n, m, 3, 2)
<1>1. DOMAIN ends = {1, 2, 3}
  BY DEF Ends
<1>2. Hops({e}, n, m) =
          {x \in {e} \X (1..3) \X (1..3) :
              /\ {x[2], x[3]} \subseteq {1, 2, 3}
              /\ x[2] # x[3]
              /\ ends[x[2]] = n
              /\ ends[x[3]] = m}
  BY <1>1 DEF Hops
<1> QED
  BY <1>2, SMTT(20) DEF Hop, If

\* A pair of ends of e is not among those counted before e.
LEMMA HopIsNew ==
  ASSUME NEW E, NEW e, e \notin E, NEW n, NEW m, NEW i, NEW j
  PROVE  <<e, i, j>> \notin Hops(E, n, m)
BY DEF Hops

\* The pairs of S are as many as the times m is in the neighbours of n.
PushCounts(nb, S, n, m) ==
    IsFiniteSet(S) /\ Times(m, nb[n]) = Cardinality(S)

\* The directed link between two ends is pushed, and counted.
LEMMA PushCounted ==
  ASSUME NEW nb \in Tables, NEW e, NEW ends, NEW i, NEW j,
         ends[i] \in Node, ends[j] \in Node,
         NEW n \in Node, NEW m \in Node,
         NEW S, PushCounts(nb, S, n, m), <<e, i, j>> \notin S
  PROVE  /\ Push(nb, ends[i], ends[j]) \in Tables
         /\ PushCounts(Push(nb, ends[i], ends[j]),
                       S \union Hop(e, ends, n, m, i, j), n, m)
<1> DEFINE p == ends[i] = n /\ ends[j] = m
<1>1. /\ Push(nb, ends[i], ends[j]) \in Tables
      /\ Times(m, Push(nb, ends[i], ends[j])[n]) = Times(m, nb[n]) + One(p)
  <2> DEFINE a == ends[i]
             b == ends[j]
  <2>1. a \in Node /\ b \in Node
    OBVIOUS
  <2> HIDE DEF a, b
  <2>2. /\ Push(nb, a, b) \in Tables
        /\ Times(m, Push(nb, a, b)[n]) = Times(m, nb[n]) + One(a = n /\ b = m)
    BY <2>1, PushTimes
  <2> QED
    BY <2>2 DEF a, b
<1>2. p \in BOOLEAN
  OBVIOUS
<1> HIDE DEF p
<1>3. /\ IsFiniteSet(S \union If(p, <<e, i, j>>))
      /\ Cardinality(S \union If(p, <<e, i, j>>)) = Cardinality(S) + One(p)
  BY AddIf DEF PushCounts
<1>4. Hop(e, ends, n, m, i, j) = If(p, <<e, i, j>>)
  BY DEF Hop, p
<1> QED
  BY <1>1, <1>3, <1>4 DEF PushCounts

\* A link between two nodes counts for each of its directions.
LEMMA LinkCounts ==
  ASSUME NEW nb \in Tables, NEW E, Counts(nb, E), NEW e, e \notin E,
         NEW ends \in Ends(2), EndsOf(e) = ends
  PROVE  Counts(Link(nb, ends[1], ends[2]), E \union {e})
<1> SUFFICES ASSUME NEW n \in Node, NEW m \in Node
             PROVE  PushCounts(Link(nb, ends[1], ends[2]),
                               Hops(E \union {e}, n, m), n, m)
  BY DEF Counts, PushCounts
<1> DEFINE H(i, j) == Hop(e, ends, n, m, i, j)
           S0 == Hops(E, n, m)
           S1 == S0 \union H(1, 2)
           S2 == S1 \union H(2, 1)
           nb1 == Push(nb, ends[1], ends[2])
           nb2 == Push(nb1, ends[2], ends[1])
<1>1. ends[1] \in Node /\ ends[2] \in Node
  BY DEF Ends
<1>2. PushCounts(nb, S0, n, m)
  BY DEF Counts, PushCounts
<1>3. <<e, 1, 2>> \notin S0 /\ <<e, 2, 1>> \notin S1
  BY HopIsNew DEF Hop, If
<1>4. nb1 \in Tables /\ PushCounts(nb1, S1, n, m)
  BY <1>1, <1>2, <1>3, PushCounted
<1> HIDE DEF nb1, S1
<1>5. PushCounts(nb2, S2, n, m)
  BY <1>1, <1>3, <1>4, PushCounted
<1>6. S2 = Hops(E \union {e}, n, m)
  <2>1. Hops({e}, n, m) = H(1, 2) \union H(2, 1)
    BY HopsOfTwo
  <2>2. Hops(E \union {e}, n, m) = Hops(E, n, m) \union Hops({e}, n, m)
    BY DEF Hops
  <2>3. S0 = Hops(E, n, m)
    BY DEF S0
  <2> HIDE DEF H, S0
  <2> QED
    BY <2>1, <2>2, <2>3 DEF S1
<1>7. nb2 = Link(nb, ends[1], ends[2])
  BY DEF Link, nb1
<1> QED
  BY <1>5, <1>6, <1>7

\* Three nodes linked together count for each pair of them.
LEMMA LinkThreeCounts ==
  ASSUME NEW nb \in Tables, NEW E, Counts(nb, E), NEW e, e \notin E,
         NEW ends \in Ends(3), EndsOf(e) = ends
  PROVE  Counts(LinkThree(nb, ends[1], ends[2], ends[3]), E \union {e})
<1> SUFFICES ASSUME NEW n \in Node, NEW m \in Node
             PROVE  PushCounts(LinkThree(nb, ends[1], ends[2], ends[3]),
                               Hops(E \union {e}, n, m), n, m)
  BY DEF Counts, PushCounts
<1> DEFINE H(i, j) == Hop(e, ends, n, m, i, j)
           S0 == Hops(E, n, m)
           S1 == S0 \union H(1, 2)
           S2 == S1 \union H(1, 3)
           S3 == S2 \union H(2, 1)
           S4 == S3 \union H(2, 3)
           S5 == S4 \union H(3, 1)
           S6 == S5 \union H(3, 2)
           nb1 == Push(nb, ends[1], ends[2])
           nb2 == Push(nb1, ends[1], ends[3])
           nb3 == Push(nb2, ends[2], ends[1])
           nb4 == Push(nb3, ends[2], ends[3])
           nb5 == Push(nb4, ends[3], ends[1])
           nb6 == Push(nb5, ends[3], ends[2])
<1>1. ends[1] \in Node /\ ends[2] \in Node /\ ends[3] \in Node
  BY DEF Ends
<1>2. PushCounts(nb, S0, n, m)
  BY DEF Counts, PushCounts
<1>3. \A i, j : <<e, i, j>> \notin S0
  BY HopIsNew
<1>4. /\ <<e, 1, 2>> \notin S0 /\ <<e, 1, 3>> \notin S1
      /\ <<e, 2, 1>> \notin S2 /\ <<e, 2, 3>> \notin S3
      /\ <<e, 3, 1>> \notin S4 /\ <<e, 3, 2>> \notin S5
  <2> HIDE DEF S0
  <2> QED
    BY <1>3 DEF Hop, If
<1>5. S6 = Hops(E \union {e}, n, m)
  <2>1. Hops({e}, n, m) = H(1, 2) \union H(1, 3) \union H(2, 1) \union H(2, 3)
                              \union H(3, 1) \union H(3, 2)
    BY HopsOfThree
  <2>2. Hops(E \union {e}, n, m) = Hops(E, n, m) \union Hops({e}, n, m)
    BY DEF Hops
  <2>3. S0 = Hops(E, n, m)
    BY DEF S0
  <2> HIDE DEF H, S0
  <2> QED
    BY <2>1, <2>2, <2>3
<1>6. nb6 = LinkThree(nb, ends[1], ends[2], ends[3])
  BY DEF LinkThree, PushBoth
<1> HIDE DEF S0, S1, S2, S3, S4, S5, S6, nb1, nb2, nb3, nb4, nb5, nb6
<1>7. nb1 \in Tables /\ PushCounts(nb1, S1, n, m)
  BY <1>1, <1>2, <1>4, PushCounted DEF nb1, S1
<1>8. nb2 \in Tables /\ PushCounts(nb2, S2, n, m)
  BY <1>1, <1>4, <1>7, PushCounted DEF nb2, S2
<1>9. nb3 \in Tables /\ PushCounts(nb3, S3, n, m)
  BY <1>1, <1>4, <1>8, PushCounted DEF nb3, S3
<1>10. nb4 \in Tables /\ PushCounts(nb4, S4, n, m)
  BY <1>1, <1>4, <1>9, PushCounted DEF nb4, S4
<1>11. nb5 \in Tables /\ PushCounts(nb5, S5, n, m)
  BY <1>1, <1>4, <1>10, PushCounted DEF nb5, S5
<1>12. nb6 \in Tables /\ PushCounts(nb6, S6, n, m)
  BY <1>1, <1>4, <1>11, PushCounted DEF nb6, S6
<1> QED
  BY <1>5, <1>6, <1>12


-----------------------------------------------------------------------------
(***************************************************************************)
(* The elements of the file and those that have been read.                 *)
(***************************************************************************)
\* Only an element of a level has a level.
FileElements == {e \in Element : e[1] \in BranchStage <=> e[2] = 0}

\* The file does not change: nor do its elements and their ends.
LEMMA SameFile ==
  ASSUME input' = input
  PROVE  /\ Links' = Links
         /\ \A k \in Kind : Kept(k)' = Kept(k)
         /\ \A e : EndsOf(e)' = EndsOf(e)
<1>1. \A e : Data(e)' = Data(e)
  BY DEF Data
<1>2. \A e : EndsOf(e)' = EndsOf(e)
  BY <1>1 DEF EndsOf
<1>3. \A s : ElementsOf(s)' = ElementsOf(s)
  BY DEF ElementsOf
<1>4. \A k \in Kind : Kept(k)' = Kept(k)
  BY <1>1, <1>3 DEF Kept, Kind
<1>5. ClosedSwitches' = ClosedSwitches
  BY <1>1, <1>3 DEF ClosedSwitches
<1>6. Links' = Links
  BY <1>4, <1>5 DEF Links, Kind
<1> QED
  BY <1>2, <1>4, <1>6

\* What is said of vectors and links only depends on the file.
LEMMA SameMeaning ==
  ASSUME input' = input
  PROVE  /\ \A s, n, E : Holds(s, n, E)' <=> Holds(s, n, E)
         /\ \A E, n, m : Hops(E, n, m)' = Hops(E, n, m)
<1>1. \A e : EndsOf(e)' = EndsOf(e)
  BY SameFile
<1> QED
  BY <1>1 DEF Holds, Hops

\* An element is known by its loop, its level if it has one, its position.
LEMMA ElementsType ==
  ASSUME TypeOK, NEW s \in LevelStage \union BranchStage, NEW e \in ElementsOf(s)
  PROVE  /\ e \in FileElements
         /\ e[1] = s
         /\ s \in LevelStage => /\ e[2] \in DOMAIN input.levels
                               /\ e[3] \in DOMAIN input.levels[e[2]][s]
         /\ s \in BranchStage => e[2] = 0 /\ e[3] \in DOMAIN input[s]
<1>1. /\ input.levels \in Seq(Level)
      /\ input.lines \in Seq(Branch(2))
      /\ input.twoWindings \in Seq(Branch(2))
      /\ input.threeWindings \in Seq(Branch(3))
  BY InputDescription DEF IsDescription
<1>2. CASE s \in BranchStage
  <2>1. PICK i \in DOMAIN input[s] : e = <<s, 0, i>>
    BY <1>2 DEF ElementsOf
  <2>2. DOMAIN input[s] \subseteq Nat
    BY <1>1, <1>2 DEF BranchStage
  <2> QED
    BY <1>2, <2>1, <2>2 DEF FileElements, Element, LevelStage, BranchStage
<1>3. CASE s \in LevelStage
  <2>1. s \notin BranchStage
    BY <1>3 DEF LevelStage, BranchStage
  <2>2. PICK v \in DOMAIN input.levels : \E i \in DOMAIN input.levels[v][s] :
            e = <<s, v, i>>
    BY <2>1 DEF ElementsOf
  <2>3. PICK i \in DOMAIN input.levels[v][s] : e = <<s, v, i>>
    BY <2>2
  <2>4. v \in Nat \ {0} /\ input.levels[v] \in Level
    BY <1>1
  <2>5. DOMAIN input.levels[v][s] \subseteq Nat
    BY <1>3, <2>4 DEF Level, LevelStage
  <2> QED
    BY <1>3, <2>1, <2>3, <2>4, <2>5 DEF FileElements, Element
<1> QED
  BY <1>2, <1>3

\* What is kept is in the file, and read by the loops for it.
LEMMA KeptType ==
  ASSUME TypeOK
  PROVE  /\ Links \subseteq FileElements
         /\ \A k \in Kind : Kept(k) \subseteq FileElements
<1>1. \A s \in LevelStage \union BranchStage : ElementsOf(s) \subseteq FileElements
  BY ElementsType
<1>2. \A k \in Kind : Kept(k) \subseteq FileElements
  BY <1>1 DEF Kept, Kind, LevelStage, BranchStage
<1>3. ClosedSwitches \subseteq FileElements
  BY <1>1 DEF ClosedSwitches, LevelStage
<1> QED
  BY <1>2, <1>3 DEF Links, Kind

\* A loop reads one element more.
Advance == /\ Reading(stage)
           /\ stage # "done"
           /\ UNCHANGED <<input, stage, level>>
           /\ item' = item + 1

\* That one, which had not been read, is then the only one more.
LEMMA ReadNext ==
  ASSUME TypeOK, Advance
  PROVE  /\ Id \in FileElements
         /\ ~IsRead(Id)
         /\ \A e \in FileElements : IsRead(e)' <=> IsRead(e) \/ e = Id
<1>1. /\ stage \in LevelStage \union BranchStage
      /\ level \in Nat /\ item \in Nat
      /\ stage \in LevelStage => level # 0
  <2>1. input.levels \in Seq(Level)
    BY InputDescription DEF IsDescription
  <2> QED
    BY <2>1 DEF TypeOK, Advance
<1>2. \A s \in LevelStage \union BranchStage : Rank[s] \in Nat
  BY DEF Rank, LevelStage, BranchStage
<1>3. Id \in FileElements
  BY <1>1 DEF Id, FileElements, Element, LevelStage, BranchStage
<1>4. ~IsRead(Id)
  BY <1>1, <1>2 DEF IsRead, Passed, Id
<1>5. ASSUME NEW e \in FileElements
      PROVE  IsRead(e)' <=> IsRead(e) \/ e = Id
  <2>1. /\ e = <<e[1], e[2], e[3]>> /\ e[1] \in LevelStage \union BranchStage
        /\ e[2] \in Nat /\ e[3] \in Nat /\ (e[1] \in BranchStage <=> e[2] = 0)
    BY DEF FileElements, Element
  <2>2. e = Id <=> /\ e[1] = stage /\ e[3] = item
                   /\ e[2] = IF stage \in LevelStage THEN level ELSE 0
    BY <2>1 DEF Id
  <2>3. e[3] < item + 1 <=> e[3] < item \/ e[3] = item
    BY <1>1, <2>1
  <2>4. Passed(e)' <=> Passed(e) \/ (e[1] = stage /\ e[3] = item)
    BY <2>3 DEF Passed, Advance
  <2>5. stage \in LevelStage \/ stage \in BranchStage
    BY <1>1
  <2>6. LevelStage \intersect BranchStage = {}
    BY DEF LevelStage, BranchStage
  <2>7. IsRead(e)' <=>
            IF e[1] \in LevelStage /\ stage \in LevelStage
            THEN e[2] < level \/ (e[2] = level /\ Passed(e)')
            ELSE Passed(e)'
    BY DEF IsRead, Advance
  <2> QED
    BY <2>1, <2>2, <2>4, <2>5, <2>6, <2>7 DEF IsRead
<1> QED
  BY <1>3, <1>4, <1>5

\* What has been read among some elements then gets at most that one.
LEMMA ReadGrows ==
  ASSUME TypeOK, Advance, NEW E, E \subseteq FileElements
  PROVE  /\ Id \notin ReadAmong(E)
         /\ ReadAmong(E)' = IF Id \in E THEN ReadAmong(E) \union {Id}
                            ELSE ReadAmong(E)
<1>1. /\ ~IsRead(Id)
      /\ \A e \in E : IsRead(e)' <=> IsRead(e) \/ e = Id
  BY ReadNext
<1> QED
  BY <1>1 DEF ReadAmong


\* The element a loop is at is the one its identity stands for.
LEMMA CurrentData ==
  ASSUME TypeOK, stage # "done", Reading(stage)
  PROVE  /\ \A s \in LevelStage \union BranchStage :
               Id \in ElementsOf(s) <=> s = stage
         /\ Data(Id) = Current
         /\ Id[1] = stage
<1>1. /\ input.levels \in Seq(Level)
      /\ input.lines \in Seq(Branch(2))
      /\ input.twoWindings \in Seq(Branch(2))
      /\ input.threeWindings \in Seq(Branch(3))
  BY InputDescription DEF IsDescription
<1>2. /\ stage \in LevelStage \union BranchStage /\ item \in Nat \ {0}
      /\ item <= Len(Items)
      /\ stage \in LevelStage => level \in DOMAIN input.levels
  BY DEF TypeOK, Reading
<1>3. LevelStage \intersect BranchStage = {}
  BY DEF LevelStage, BranchStage
<1>4. Id[1] = stage
  BY DEF Id
<1>5. Id \in ElementsOf(stage) /\ Data(Id) = Current
  <2>1. CASE stage \in BranchStage
    <3>1. Items = input[stage] /\ Id = <<stage, 0, item>>
      BY <1>3, <2>1 DEF Items, Id
    <3>2. item \in DOMAIN input[stage]
      BY <1>1, <1>2, <2>1, <3>1 DEF BranchStage
    <3> QED
      BY <2>1, <3>1, <3>2 DEF ElementsOf, Data, Current
  <2>2. CASE stage \in LevelStage
    <3>1. Items = input.levels[level][stage] /\ Id = <<stage, level, item>>
      BY <2>2 DEF Items, Id
    <3>2. input.levels[level] \in Level /\ level # 0
      BY <1>1, <1>2, <2>2
    <3>3. item \in DOMAIN input.levels[level][stage]
      BY <1>2, <2>2, <3>1, <3>2 DEF LevelStage, Level
    <3>4. Id \in ElementsOf(stage)
      BY <1>2, <1>3, <2>2, <3>1, <3>3 DEF ElementsOf
    <3> QED
      BY <3>1, <3>2, <3>4 DEF Data, Current
  <2> QED
    BY <1>2, <2>1, <2>2
<1>6. \A s \in LevelStage \union BranchStage : Id \in ElementsOf(s) => s = stage
  BY <1>4, ElementsType
<1> QED
  BY <1>4, <1>5, <1>6

\* A branch all of whose ends are connected.
LEMMA FullBranch ==
  ASSUME NEW k \in Nat, NEW b \in Branch(k)
  PROVE  Cardinality(b.connected) = k <=> IsKept(b)
<1>1. DOMAIN b.ends = 1..k /\ b.connected \in SUBSET (1..k)
  BY DEF Branch, Ends
<1>2. IsFiniteSet(1..k) /\ Cardinality(1..k) = k
  BY FS_Interval
<1>3. Cardinality(b.connected) = k => b.connected = 1..k
  BY <1>1, <1>2, FS_Subset
<1> QED
  BY <1>1, <1>2, <1>3 DEF IsKept

\* The element a loop is at is kept as the loop decides.
LEMMA CurrentKept ==
  ASSUME TypeOK, stage # "done", Reading(stage)
  PROVE  /\ Id \in Kept("shunts") <=> stage = "shunts"
         /\ Id \in Kept("loads") <=> stage = "loads" /\ Current.connected
         /\ Id \in Kept("svarcs") <=> /\ stage = "svarcs"
                                      /\ Current.connected
                                      /\ Current.standBy
                                      /\ Current.reactiveControl
         /\ Id \in Kept("lines") <=> stage = "lines" /\ IsKept(Current)
         /\ Id \in Kept("tfos") <=>
               stage \in {"twoWindings", "threeWindings"} /\ IsKept(Current)
         /\ Id \in Links <=>
               \/ stage \in BranchStage /\ IsKept(Current)
               \/ stage = "switches" /\ ~Current.open
         /\ EndsOf(Id) = IF stage \in {"shunts", "loads", "svarcs"}
                         THEN <<Current.bus>> ELSE Current.ends
<1>1. /\ \A s \in LevelStage \union BranchStage :
               Id \in ElementsOf(s) <=> s = stage
      /\ Data(Id) = Current
      /\ Id[1] = stage
  BY CurrentData
<1>2. /\ stage = "lines" => (Cardinality(Current.connected) = 2 <=> IsKept(Current))
      /\ stage = "twoWindings" =>
            (Cardinality(Current.connected) = 2 <=> IsKept(Current))
      /\ stage = "threeWindings" =>
            (Cardinality(Current.connected) = 3 <=> IsKept(Current))
  BY CurrentBranch, FullBranch
<1>3. Id \in Kept("shunts") <=> stage = "shunts"
  BY <1>1 DEF Kept, LevelStage
<1>4. Id \in Kept("loads") <=> stage = "loads" /\ Current.connected
  BY <1>1 DEF Kept, LevelStage
<1>5. Id \in Kept("svarcs") <=> /\ stage = "svarcs"
                               /\ Current.connected
                               /\ Current.standBy
                               /\ Current.reactiveControl
  BY <1>1 DEF Kept, LevelStage
<1>6. Id \in Kept("lines") <=> stage = "lines" /\ IsKept(Current)
  BY <1>1, <1>2 DEF Kept, BranchStage
<1>7. Id \in Kept("tfos") <=>
          stage \in {"twoWindings", "threeWindings"} /\ IsKept(Current)
  BY <1>1, <1>2 DEF Kept, BranchStage
<1>8. Id \in ClosedSwitches <=> stage = "switches" /\ ~Current.open
  BY <1>1 DEF ClosedSwitches, LevelStage
<1>9. EndsOf(Id) = IF stage \in {"shunts", "loads", "svarcs"}
                   THEN <<Current.bus>> ELSE Current.ends
  BY <1>1 DEF EndsOf
<1>10. Id \in Links <=>
           \/ stage \in BranchStage /\ IsKept(Current)
           \/ stage = "switches" /\ ~Current.open
  BY <1>6, <1>7, <1>8 DEF Links, BranchStage
<1> QED
  BY <1>3, <1>4, <1>5, <1>6, <1>7, <1>9, <1>10

\* What has been read among the kept elements after a loop has read one more.
LEMMA ReadKept ==
  ASSUME TypeOK, Advance
  PROVE  /\ Id \in Element
         /\ \A k \in Kind : /\ Id \notin ReadAmong(Kept(k))
                            /\ ReadAmong(Kept(k))' =
                                  IF Id \in Kept(k)
                                  THEN ReadAmong(Kept(k)) \union {Id}
                                  ELSE ReadAmong(Kept(k))
         /\ Id \notin ReadAmong(Links)
         /\ ReadAmong(Links)' = IF Id \in Links
                                THEN ReadAmong(Links) \union {Id}
                                ELSE ReadAmong(Links)
<1>1. /\ Links' = Links /\ Links \subseteq FileElements
      /\ \A k \in Kind : Kept(k)' = Kept(k) /\ Kept(k) \subseteq FileElements
  BY SameFile, KeptType DEF Advance
<1>2. ASSUME NEW E, E \subseteq FileElements
      PROVE  /\ Id \notin ReadAmong(E)
             /\ ReadAmong(E)' = IF Id \in E THEN ReadAmong(E) \union {Id}
                                ELSE ReadAmong(E)
  BY <1>2, ReadGrows
<1>3. Id \in Element
  BY ReadNext DEF FileElements
<1> QED
  BY <1>1, <1>2, <1>3


\* Going to the next loop reads no element.
LEMMA EndOfLoopReads ==
  ASSUME TypeOK, EndOfLoop, NEW s \in LevelStage \union BranchStage,
         NEW e \in ElementsOf(s)
  PROVE  IsRead(e)' <=> IsRead(e)
<1>1. /\ input.levels \in Seq(Level)
      /\ input.lines \in Seq(Branch(2))
      /\ input.twoWindings \in Seq(Branch(2))
      /\ input.threeWindings \in Seq(Branch(3))
  BY InputDescription DEF IsDescription
<1>2. /\ e[1] = s
      /\ s \in LevelStage => /\ e[2] \in DOMAIN input.levels
                            /\ e[3] \in DOMAIN input.levels[e[2]][s]
      /\ s \in BranchStage => e[2] = 0 /\ e[3] \in DOMAIN input[s]
  BY ElementsType
<1>3. /\ stage \in LevelStage \union BranchStage
      /\ level \in Nat /\ item \in Nat /\ item > Len(Items) /\ item' = 1
      /\ stage \in LevelStage => level \in DOMAIN input.levels
  BY DEF TypeOK, EndOfLoop
<1>4. e[3] \in Nat \ {0} /\ (s \in LevelStage => e[2] \in Nat)
  <2>1. CASE s \in BranchStage
    BY <1>1, <1>2, <2>1 DEF BranchStage, LevelStage
  <2>2. CASE s \in LevelStage
    <3>1. input.levels[e[2]] \in Level /\ e[2] \in Nat
      BY <1>1, <1>2, <2>2
    <3> DEFINE v == input.levels[e[2]]
    <3>2. v \in Level
      BY <3>1
    <3>3. e[3] \in DOMAIN v[s]
      BY <1>2, <2>2
    <3> HIDE DEF v
    <3>4. DOMAIN v[s] \subseteq Nat \ {0}
      BY <2>2, <3>2 DEF LevelStage, Level
    <3> QED
      BY <3>1, <3>3, <3>4
  <2> QED
    BY <2>1, <2>2
<1>5. s = stage /\ (s \in LevelStage => e[2] = level) => e[3] < item
  <2>1. CASE s = stage /\ s \in BranchStage
    <3>1. Items = input[s]
      BY <2>1 DEF Items, BranchStage, LevelStage
    <3>2. e[3] <= Len(input[s]) /\ Len(input[s]) \in Nat
      BY <1>1, <1>2, <2>1 DEF BranchStage
    <3> QED
      BY <1>3, <1>4, <3>1, <3>2
  <2>2. CASE s = stage /\ s \in LevelStage /\ e[2] = level
    <3>1. Items = input.levels[level][s] /\ input.levels[level] \in Level
      BY <1>1, <1>3, <2>2 DEF Items
    <3>2. DOMAIN Items = 1..Len(Items) /\ Len(Items) \in Nat
      BY <2>2, <3>1 DEF LevelStage, Level
    <3>3. e[3] \in DOMAIN Items
      BY <1>2, <2>2, <3>1
    <3> QED
      BY <1>3, <1>4, <3>2, <3>3
  <2> QED
    BY <2>1, <2>2
<1>6. CASE stage = "svarcs" /\ level < Len(input.levels)
  <2>1. stage' = "shunts" /\ level' = level + 1
    BY <1>6 DEF EndOfLoop
  <2>2. CASE s \in LevelStage
    <3>1. e[2] = level => Passed(e)
      BY <1>2, <1>5, <1>6, <2>2 DEF Passed, Rank, LevelStage
    <3>2. ~(Passed(e)')
      BY <1>2, <1>3, <1>4, <2>1, <2>2 DEF Passed, Rank, LevelStage
    <3>3. IsRead(e)' <=> e[2] < level + 1
      BY <1>2, <2>1, <2>2, <3>2 DEF IsRead, LevelStage
    <3>4. IsRead(e) <=> e[2] < level \/ e[2] = level
      BY <1>2, <1>6, <2>2, <3>1 DEF IsRead, LevelStage
    <3> QED
      BY <1>3, <1>4, <2>2, <3>3, <3>4
  <2>3. CASE s \in BranchStage
    BY <1>2, <1>6, <2>1, <2>3 DEF IsRead, Passed, Rank, LevelStage, BranchStage
  <2> QED
    BY <2>2, <2>3
<1>7. CASE stage = "svarcs" /\ ~(level < Len(input.levels))
  <2>1. stage' = "lines"
    BY <1>7 DEF EndOfLoop
  <2>2. CASE s \in LevelStage
    <3>1. e[2] = level => Passed(e)
      BY <1>2, <1>5, <1>7, <2>2 DEF Passed, Rank, LevelStage
    <3>2. e[2] < level \/ e[2] = level
      <4>1. e[2] <= Len(input.levels) /\ level <= Len(input.levels)
            /\ Len(input.levels) \in Nat
        BY <1>1, <1>2, <1>3, <1>7, <2>2 DEF LevelStage
      <4> QED
        BY <1>3, <1>4, <1>7, <2>2, <4>1
    <3>3. IsRead(e)
      BY <1>2, <1>7, <2>2, <3>1, <3>2 DEF IsRead, LevelStage
    <3>4. IsRead(e)'
      BY <1>2, <2>1, <2>2 DEF IsRead, Passed, Rank, LevelStage
    <3> QED
      BY <3>3, <3>4
  <2>3. CASE s \in BranchStage
    BY <1>2, <1>3, <1>4, <1>7, <2>1, <2>3
       DEF IsRead, Passed, Rank, LevelStage, BranchStage
  <2> QED
    BY <2>2, <2>3
<1>8. CASE stage \in LevelStage \ {"svarcs"}
  <2>1. /\ level' = level
        /\ stage = "shunts" => stage' = "buses"
        /\ stage = "buses" => stage' = "loads"
        /\ stage = "loads" => stage' = "switches"
        /\ stage = "switches" => stage' = "svarcs"
    BY <1>8 DEF EndOfLoop, Following, LevelStage
  <2>2. stage' \in LevelStage
    BY <1>8, <2>1 DEF LevelStage
  <2>3. CASE s \in LevelStage
    <3>1. e[2] = level => (Passed(e)' <=> Passed(e))
      BY <1>2, <1>3, <1>4, <1>5, <1>8, <2>1, <2>3 DEF Passed, Rank, LevelStage
    <3> QED
      BY <1>2, <1>8, <2>1, <2>2, <2>3, <3>1 DEF IsRead
  <2>4. CASE s \in BranchStage
    BY <1>2, <1>8, <2>1, <2>4 DEF IsRead, Passed, Rank, LevelStage, BranchStage
  <2> QED
    BY <2>3, <2>4
<1>9. CASE stage \in BranchStage
  <2>1. /\ stage = "lines" => stage' = "twoWindings"
        /\ stage = "twoWindings" => stage' = "threeWindings"
        /\ stage = "threeWindings" => stage' = "done"
    BY <1>9 DEF EndOfLoop, BranchStage
  <2>2. CASE s \in LevelStage
    BY <1>2, <1>9, <2>1, <2>2 DEF IsRead, Passed, Rank, LevelStage, BranchStage
  <2>3. CASE s \in BranchStage
    BY <1>2, <1>3, <1>4, <1>5, <1>9, <2>1, <2>3
       DEF IsRead, Passed, Rank, LevelStage, BranchStage
  <2> QED
    BY <2>2, <2>3
<1> QED
  BY <1>3, <1>6, <1>7, <1>8, <1>9

\* So what has been read among the kept elements is the same.
LEMMA EndOfLoopKept ==
  ASSUME TypeOK, EndOfLoop
  PROVE  /\ \A k \in Kind : ReadAmong(Kept(k))' = ReadAmong(Kept(k))
         /\ ReadAmong(Links)' = ReadAmong(Links)
<1>1. /\ Links' = Links
      /\ \A k \in Kind : Kept(k)' = Kept(k)
  BY SameFile DEF EndOfLoop
<1>2. /\ \A k \in Kind : \A e \in Kept(k) :
            \E s \in LevelStage \union BranchStage : e \in ElementsOf(s)
      /\ \A e \in ClosedSwitches : e \in ElementsOf("switches")
  BY DEF Kept, Kind, ClosedSwitches, LevelStage, BranchStage
<1>3. \A e \in Links : \E s \in LevelStage \union BranchStage : e \in ElementsOf(s)
  BY <1>2 DEF Links, Kind, LevelStage
<1>4. /\ \A k \in Kind : \A e \in Kept(k) : IsRead(e)' <=> IsRead(e)
      /\ \A e \in Links : IsRead(e)' <=> IsRead(e)
  BY <1>2, <1>3, EndOfLoopReads
<1> QED
  BY <1>1, <1>4 DEF ReadAmong


-----------------------------------------------------------------------------
(***************************************************************************)
(* The vectors of the nodes.                                               *)
(***************************************************************************)
\* The vectors that get their elements one by one.
Others == Kind \ {"shunts"}

\* What is to prove of the vectors after a step.
LEMMA VectorsNext ==
  ASSUME input' = input,
         \A k \in Others, n \in Node :
             Holds(elements'[k][n], n, ReadAmong(Kept(k))')
  PROVE  VectorsInv'
<1>1. \A s, n, E : Holds(s, n, E)' <=> Holds(s, n, E)
  BY SameMeaning
<1> QED
  BY <1>1 DEF VectorsInv, Others

\* The element read is not kept, or is not in these vectors.
LEMMA SameVectors ==
  ASSUME TypeOK, Advance, VectorsInv,
         \A k \in Others : Id \notin Kept(k) /\ elements'[k] = elements[k]
  PROVE  VectorsInv'
<1>1. \A k \in Others : ReadAmong(Kept(k))' = ReadAmong(Kept(k))
  BY ReadKept DEF Others
<1>2. \A k \in Others, n \in Node : Holds(elements[k][n], n, ReadAmong(Kept(k)))
  BY DEF VectorsInv, Others
<1>3. \A k \in Others, n \in Node :
          Holds(elements'[k][n], n, ReadAmong(Kept(k))')
  BY <1>1, <1>2
<1> QED
  BY <1>3, VectorsNext DEF Advance

\* A vector of elements, of a node.
LEMMA VectorType ==
  ASSUME TypeOK, NEW k \in Kind, NEW n \in Node
  PROVE  elements[k][n] \in Seq(Element) /\ shuntsMap[n] \in Seq(Element)
BY DEF TypeOK

\* The occurrences of a node in a sequence of one.
LEMMA TimesOne ==
  ASSUME NEW b \in Node, NEW n
  PROVE  Times(n, <<b>>) = One(b = n)
<1>1. At(n, <<b>>) = If(b = n, 1)
  BY DEF At, If
<1>2. Times(n, <<b>>) = Cardinality(At(n, <<b>>))
  BY DEF Times, At
<1>3. Times(n, <<b>>) = Cardinality(If(b = n, 1))
  BY <1>1, <1>2
<1> QED
  BY <1>3, FS_EmptySet, FS_Singleton DEF If, One

\* The element read is pushed on the vector of its node.
LEMMA PushedVector ==
  ASSUME TypeOK, Advance, VectorsInv, NEW k \in Others, NEW b \in Node,
         EndsOf(Id) = <<b>>,
         \A j \in Others : Id \in Kept(j) <=> j = k,
         elements' = [elements EXCEPT ![k][b] = Append(@, Id)]
  PROVE  VectorsInv'
<1>1. ASSUME NEW j \in Others, NEW n \in Node
      PROVE  Holds(elements'[j][n], n, ReadAmong(Kept(j))')
  <2> DEFINE E == ReadAmong(Kept(j))
  <2>1. /\ Id \in Element /\ Id \notin E
        /\ E' = IF j = k THEN E \union {Id} ELSE E
    BY ReadKept DEF Others
  <2>2. Holds(elements[j][n], n, E) /\ elements[j][n] \in Seq(Element)
    BY VectorType DEF VectorsInv, Others
  <2>3. Times(n, EndsOf(Id)) = One(b = n)
    BY TimesOne
  <2>4. elements'[j][n] = IF j = k /\ n = b THEN Append(elements[j][n], Id)
                          ELSE elements[j][n]
    BY DEF TypeOK, Others
  <2> HIDE DEF E
  <2>5. CASE j = k /\ n = b
    <3>1. Times(n, EndsOf(Id)) = 1
      BY <2>3, <2>5 DEF One
    <3>2. Holds(Append(elements[j][n], Id), n, E \union {Id})
      BY <2>1, <2>2, <3>1, HoldsAppend
    <3> QED
      BY <2>1, <2>4, <2>5, <3>2 DEF E
  <2>6. CASE j = k /\ n # b
    <3>1. Times(n, EndsOf(Id)) = 0
      BY <2>3, <2>6 DEF One
    <3>2. Holds(elements[j][n], n, E \union {Id})
      BY <2>1, <2>2, <3>1, HoldsOutside
    <3> QED
      BY <2>1, <2>4, <2>6, <3>2 DEF E
  <2>7. CASE j # k
    BY <2>1, <2>2, <2>4, <2>7 DEF E
  <2> QED
    BY <2>5, <2>6, <2>7
<1> QED
  BY <1>1, VectorsNext DEF Advance

\* The branch read is referred to by the vectors of its ends.
LEMMA ReferredVectors ==
  ASSUME TypeOK, Advance, VectorsInv, NEW k \in Others,
         NEW d \in Nat, NEW ends \in Ends(d), EndsOf(Id) = ends,
         \A j \in Others : Id \in Kept(j) <=> j = k,
         elements' = Refer(k, ends)
  PROVE  VectorsInv'
<1>1. ASSUME NEW j \in Others, NEW n \in Node
      PROVE  Holds(elements'[j][n], n, ReadAmong(Kept(j))')
  <2> DEFINE E == ReadAmong(Kept(j))
  <2>1. /\ Id \in Element /\ Id \notin E
        /\ E' = IF j = k THEN E \union {Id} ELSE E
    BY ReadKept DEF Others
  <2>2. Holds(elements[j][n], n, E) /\ elements[j][n] \in Seq(Element)
    BY VectorType DEF VectorsInv, Others
  <2>3. ends \in Seq(Node)
    BY DEF Ends
  <2>4. Times(n, ends) \in Nat
    BY <2>3, TimesType
  <2>5. elements'[j][n] = IF j = k
                          THEN elements[j][n] \o Copies(Id, Times(n, ends))
                          ELSE elements[j][n]
    BY DEF Refer, Copies, Times, TypeOK, Others
  <2> HIDE DEF E
  <2>6. CASE j = k
    <3>1. Holds(elements[j][n] \o Copies(Id, Times(n, ends)), n, E \union {Id})
      BY <2>1, <2>2, <2>4, HoldsCopies
    <3> QED
      BY <2>1, <2>5, <2>6, <3>1 DEF E
  <2>7. CASE j # k
    BY <2>1, <2>2, <2>5, <2>7 DEF E
  <2> QED
    BY <2>6, <2>7
<1> QED
  BY <1>1, VectorsNext DEF Advance


-----------------------------------------------------------------------------
(***************************************************************************)
(* The shunts.                                                             *)
(***************************************************************************)

\* What is to prove of the shunts after a step.
LEMMA ShuntsNext ==
  ASSUME input' = input,
         \A n \in nodes' : Holds(elements'["shunts"][n], n, Kept("shunts")),
         stage' \in LevelStage =>
             \A n \in Node : Holds(shuntsMap'[n], n, LevelShunts')
  PROVE  ShuntsInv'
<1>1. /\ \A s, n, E : Holds(s, n, E)' <=> Holds(s, n, E)
      /\ Kept("shunts")' = Kept("shunts")
  BY SameMeaning, SameFile DEF Kind
<1> QED
  BY <1>1 DEF ShuntsInv

\* The element read is not a shunt, and no bus is read.
LEMMA SameShunts ==
  ASSUME ShuntsInv, UNCHANGED <<input, level, nodes, shuntsMap>>,
         elements'["shunts"] = elements["shunts"],
         ReadAmong(Kept("shunts"))' = ReadAmong(Kept("shunts")),
         stage' \in LevelStage => stage \in LevelStage
  PROVE  ShuntsInv'
<1>1. LevelShunts' = LevelShunts
  BY DEF LevelShunts
<1>2. /\ \A n \in nodes' : Holds(elements'["shunts"][n], n, Kept("shunts"))
      /\ stage' \in LevelStage =>
             \A n \in Node : Holds(shuntsMap'[n], n, LevelShunts')
  BY <1>1 DEF ShuntsInv
<1> QED
  BY <1>2, ShuntsNext

\* A shunt is pushed on the vector of its bus in shuntsMap.
LEMMA ReadShuntShunts ==
  ASSUME TypeOK, ShuntsInv, ReadShunt
  PROVE  ShuntsInv'
<1> DEFINE b == Current.bus
           E == LevelShunts
<1>1. Advance /\ stage = "shunts" /\ b \in Node
  BY CurrentInLevel DEF ReadShunt, Advance, Reading
<1>2. Id \in Kept("shunts") /\ EndsOf(Id) = <<b>> /\ Id[2] = level
  BY <1>1, CurrentKept DEF Advance, Id, LevelStage
<1>3. Id \in Element /\ Id \notin E /\ E' = E \union {Id}
  <2>1. /\ Id \in Element /\ Id \notin ReadAmong(Kept("shunts"))
        /\ ReadAmong(Kept("shunts"))' = ReadAmong(Kept("shunts")) \union {Id}
    BY <1>1, <1>2, ReadKept DEF Kind
  <2> QED
    BY <1>1, <1>2, <2>1 DEF LevelShunts, Advance
<1>4. ASSUME NEW n \in Node
      PROVE  Holds(shuntsMap'[n], n, LevelShunts')
  <2>1. Holds(shuntsMap[n], n, E) /\ shuntsMap[n] \in Seq(Element)
    BY <1>1, VectorType DEF ShuntsInv, LevelStage, Kind
  <2>2. Times(n, EndsOf(Id)) = One(b = n)
    BY <1>1, <1>2, TimesOne
  <2>3. shuntsMap'[n] = IF n = b THEN Append(shuntsMap[n], Id) ELSE shuntsMap[n]
    BY DEF ReadShunt, TypeOK
  <2> HIDE DEF E, b
  <2>4. CASE n = b
    <3>1. Times(n, EndsOf(Id)) = 1
      BY <2>2, <2>4 DEF One
    <3>2. Holds(Append(shuntsMap[n], Id), n, E \union {Id})
      BY <1>3, <2>1, <3>1, HoldsAppend
    <3> QED
      BY <1>3, <2>3, <2>4, <3>2 DEF E
  <2>5. CASE n # b
    <3>1. Times(n, EndsOf(Id)) = 0
      BY <2>2, <2>5 DEF One
    <3>2. Holds(shuntsMap[n], n, E \union {Id})
      BY <1>3, <2>1, <3>1, HoldsOutside
    <3> QED
      BY <1>3, <2>3, <2>5, <3>2 DEF E
  <2> QED
    BY <2>4, <2>5
<1>5. \A n \in nodes' : Holds(elements'["shunts"][n], n, Kept("shunts"))
  BY DEF ShuntsInv, ReadShunt
<1> QED
  BY <1>4, <1>5, ShuntsNext DEF ReadShunt

\* The shunts of a bus are those of the voltage level that has it.
LEMMA ShuntsOfBus ==
  ASSUME TypeOK, Reading("buses"), NEW e \in Kept("shunts")
  PROVE  IF e[2] = level THEN e \in LevelShunts
         ELSE EndsOf(e) = <<Data(e).bus>> /\ Data(e).bus \in Node \ {Current}
<1>1. e \in ElementsOf("shunts") /\ stage = "buses"
  BY DEF Kept, Reading
<1>2. /\ e[1] = "shunts" /\ e[2] \in DOMAIN input.levels
      /\ e[3] \in DOMAIN input.levels[e[2]].shunts
  BY <1>1, ElementsType DEF LevelStage
<1>3. CASE e[2] = level
  BY <1>1, <1>2, <1>3 DEF LevelShunts, ReadAmong, IsRead, Passed, Rank, LevelStage
<1>4. CASE e[2] # level
  <2>1. /\ input.levels \in Seq(Level)
        /\ \A i \in DOMAIN input.levels : LevelOnItsBuses(input.levels[i])
        /\ \A i, j \in DOMAIN input.levels :
              i # j => ToSet(input.levels[i].buses) \intersect
                           ToSet(input.levels[j].buses) = {}
    BY InputDescription DEF IsDescription
  <2> DEFINE v == input.levels[e[2]]
  <2>2. v \in Level /\ LevelOnItsBuses(v) /\ e[2] # 0
    BY <1>2, <2>1
  <2>3. Data(e) = v.shunts[e[3]]
    BY <1>2, <2>2 DEF Data
  <2>4. e[3] \in DOMAIN v.shunts
    BY <1>2
  <2>5. level \in DOMAIN input.levels /\ Current \in ToSet(input.levels[level].buses)
    BY <1>1, CurrentInLevel DEF TypeOK, LevelStage, ToSet
  <2>6. ToSet(v.buses) \intersect ToSet(input.levels[level].buses) = {}
    BY <1>2, <1>4, <2>1, <2>5
  <2> HIDE DEF v
  <2>7. Data(e) \in Shunt /\ Data(e) \in ToSet(v.shunts)
    BY <2>2, <2>3, <2>4 DEF Level, ToSet
  <2>8. Data(e).bus \in Node /\ Data(e).bus \in ToSet(v.buses)
    BY <2>2, <2>7 DEF Shunt, LevelOnItsBuses
  <2>9. EndsOf(e) = <<Data(e).bus>>
    BY <1>2 DEF EndsOf
  <2> QED
    BY <1>4, <2>5, <2>6, <2>8, <2>9
<1> QED
  BY <1>3, <1>4

\* A node gets the shunts met on its bus: all those of the file.
LEMMA ReadBusShunts ==
  ASSUME TypeOK, ShuntsInv, ReadBus
  PROVE  ShuntsInv'
<1> DEFINE b == Current
           s == shuntsMap[b]
<1>1. Advance /\ Reading("buses") /\ stage = "buses" /\ b \in Node
  BY CurrentInLevel DEF ReadBus, Advance, Reading
<1>2. Holds(s, b, LevelShunts) /\ s \in Seq(Element)
  BY <1>1, VectorType DEF ShuntsInv, LevelStage, Kind
<1>3. Holds(s, b, Kept("shunts"))
  <2>1. LevelShunts \subseteq Kept("shunts")
    BY DEF LevelShunts, ReadAmong
  <2>2. ToSet(s) \subseteq LevelShunts
        /\ \A e \in LevelShunts : Times(e, s) = Times(b, EndsOf(e))
    BY <1>2 DEF Holds
  <2>3. ASSUME NEW e \in Kept("shunts"), e \notin LevelShunts
        PROVE  Times(e, s) = Times(b, EndsOf(e))
    <3>1. EndsOf(e) = <<Data(e).bus>> /\ Data(e).bus \in Node \ {b}
      BY <1>1, <2>3, ShuntsOfBus
    <3>2. Times(b, EndsOf(e)) = 0
      BY <3>1, TimesOne DEF One
    <3>3. Times(e, s) = 0
      <4> HIDE DEF s, Element
      <4> QED
        BY <1>2, <2>2, <2>3, TimesOutside
    <3> QED
      BY <3>2, <3>3
  <2> QED
    BY <2>1, <2>2, <2>3 DEF Holds
<1>4. /\ nodes' = nodes \union {b}
      /\ \A n \in Node : elements'["shunts"][n] =
                           IF n = b THEN s ELSE elements["shunts"][n]
      /\ nodes \subseteq Node
  BY DEF ReadBus, TypeOK, Kind
<1>5. \A n \in nodes' : Holds(elements'["shunts"][n], n, Kept("shunts"))
  BY <1>1, <1>3, <1>4 DEF ShuntsInv
<1>6. LevelShunts' = LevelShunts
  <2>1. ReadAmong(Kept("shunts"))' = ReadAmong(Kept("shunts"))
    BY <1>1, CurrentKept, ReadKept DEF Kind, Advance
  <2> QED
    BY <1>1, <2>1 DEF LevelShunts, Advance
<1>7. \A n \in Node : Holds(shuntsMap'[n], n, LevelShunts')
  BY <1>1, <1>6 DEF ShuntsInv, ReadBus, LevelStage
<1> QED
  BY <1>1, <1>5, <1>7, ShuntsNext DEF Advance

\* The map of shunts is local to the loop on levels.
LEMMA EndOfLoopShunts ==
  ASSUME TypeOK, ShuntsInv, EndOfLoop
  PROVE  ShuntsInv'
<1>1. ReadAmong(Kept("shunts"))' = ReadAmong(Kept("shunts"))
  BY EndOfLoopKept DEF Kind
<1>2. CASE stage = "svarcs" /\ level < Len(input.levels)
  <2>1. level' = level + 1 /\ level \in Nat
    BY <1>2 DEF EndOfLoop, TypeOK
  <2>2. \A e \in ReadAmong(Kept("shunts")) : e[2] # level + 1
    <3> SUFFICES ASSUME NEW e \in ReadAmong(Kept("shunts")) PROVE e[2] # level + 1
      OBVIOUS
    <3>1. e \in ElementsOf("shunts") /\ IsRead(e)
      BY DEF ReadAmong, Kept
    <3>2. e[1] = "shunts"
      BY <3>1, ElementsType DEF LevelStage
    <3>3. e[2] < level \/ e[2] = level
      BY <1>2, <3>1, <3>2 DEF IsRead, LevelStage
    <3> QED
      BY <2>1, <3>3
  <2>3. LevelShunts' = {}
    BY <1>1, <2>1, <2>2 DEF LevelShunts
  <2>4. \A n \in Node : shuntsMap'[n] = <<>>
    BY <1>2 DEF EndOfLoop, Nothing
  <2>5. \A n \in Node : Holds(shuntsMap'[n], n, LevelShunts')
    BY <2>3, <2>4, HoldsNone
  <2>6. \A n \in nodes' : Holds(elements'["shunts"][n], n, Kept("shunts"))
    BY DEF EndOfLoop, ShuntsInv
  <2> QED
    BY <2>5, <2>6, ShuntsNext DEF EndOfLoop
<1>3. CASE stage = "svarcs" /\ ~(level < Len(input.levels))
  <2>1. stage' \notin LevelStage
    BY <1>3 DEF EndOfLoop, LevelStage
  <2>2. \A n \in nodes' : Holds(elements'["shunts"][n], n, Kept("shunts"))
    BY DEF EndOfLoop, ShuntsInv
  <2> QED
    BY <2>1, <2>2, ShuntsNext DEF EndOfLoop
<1>4. CASE stage # "svarcs"
  <2>1. /\ UNCHANGED <<input, level, nodes, shuntsMap, elements>>
        /\ stage' \in LevelStage => stage \in LevelStage
    BY <1>4 DEF EndOfLoop, TypeOK, LevelStage, BranchStage
  <2> QED
    BY <1>1, <2>1, SameShunts
<1> QED
  BY <1>2, <1>3, <1>4


-----------------------------------------------------------------------------
(***************************************************************************)
(* The links and the owners of the branches.                               *)
(***************************************************************************)

\* What is to prove of the neighbours after a step.
LEMMA LinksNext ==
  ASSUME input' = input, Counts(neighbours', ReadAmong(Links)')
  PROVE  LinksInv'
<1>1. \A E, n, m : Hops(E, n, m)' = Hops(E, n, m)
  BY SameMeaning
<1> QED
  BY <1>1 DEF LinksInv, Counts

\* The element read is no link.
LEMMA SameLinks ==
  ASSUME TypeOK, Advance, LinksInv, Id \notin Links, UNCHANGED neighbours
  PROVE  LinksInv'
<1>1. ReadAmong(Links)' = ReadAmong(Links)
  BY ReadKept
<1>2. Counts(neighbours, ReadAmong(Links))
  BY DEF LinksInv, Counts
<1>3. Counts(neighbours', ReadAmong(Links)')
  BY <1>1, <1>2
<1> QED
  BY <1>3, LinksNext DEF Advance

\* The element read links two nodes.
LEMMA TwoLinked ==
  ASSUME TypeOK, Advance, LinksInv, Id \in Links,
         NEW ends \in Ends(2), EndsOf(Id) = ends,
         neighbours' = Link(neighbours, ends[1], ends[2])
  PROVE  LinksInv'
<1> DEFINE E == ReadAmong(Links)
<1>1. E' = E \union {Id} /\ Id \notin E
  BY ReadKept
<1>2. Counts(neighbours, E) /\ neighbours \in Tables
  BY DEF LinksInv, Counts, TypeOK, Tables
<1> HIDE DEF E
<1>3. Counts(neighbours', E \union {Id})
  BY <1>1, <1>2, LinkCounts
<1> QED
  BY <1>1, <1>3, LinksNext DEF E, Advance

\* The element read links three nodes.
LEMMA ThreeLinked ==
  ASSUME TypeOK, Advance, LinksInv, Id \in Links,
         NEW ends \in Ends(3), EndsOf(Id) = ends,
         neighbours' = LinkThree(neighbours, ends[1], ends[2], ends[3])
  PROVE  LinksInv'
<1> DEFINE E == ReadAmong(Links)
<1>1. E' = E \union {Id} /\ Id \notin E
  BY ReadKept
<1>2. Counts(neighbours, E) /\ neighbours \in Tables
  BY DEF LinksInv, Counts, TypeOK, Tables
<1> HIDE DEF E
<1>3. Counts(neighbours', E \union {Id})
  BY <1>1, <1>2, LinkThreeCounts
<1> QED
  BY <1>1, <1>3, LinksNext DEF E, Advance

\* The element read is no branch that is kept.
LEMMA SameOwners ==
  ASSUME TypeOK, Advance, OwnersInv, UNCHANGED <<lines, tfos>>,
         Id \notin Kept("lines"), Id \notin Kept("tfos")
  PROVE  OwnersInv'
<1>1. /\ ReadAmong(Kept("lines"))' = ReadAmong(Kept("lines"))
      /\ ReadAmong(Kept("tfos"))' = ReadAmong(Kept("tfos"))
  BY ReadKept DEF Kind
<1> QED
  BY <1>1 DEF OwnersInv, Owns

\* A line that is kept is owned.
LEMMA LineOwned ==
  ASSUME TypeOK, Advance, OwnersInv, tfos' = tfos, lines' = Append(lines, Id),
         Id \in Kept("lines"), Id \notin Kept("tfos")
  PROVE  OwnersInv'
<1>1. /\ ReadAmong(Kept("lines"))' = ReadAmong(Kept("lines")) \union {Id}
      /\ ReadAmong(Kept("tfos"))' = ReadAmong(Kept("tfos"))
      /\ Id \in Element /\ Id \notin ReadAmong(Kept("lines"))
  BY ReadKept DEF Kind
<1>2. lines \in Seq(Element)
  BY DEF TypeOK
<1>3. Owns(lines', ReadAmong(Kept("lines"))')
  BY <1>1, <1>2, OwnsAppend DEF OwnersInv
<1>4. Owns(tfos', ReadAmong(Kept("tfos"))')
  BY <1>1 DEF OwnersInv
<1> QED
  BY <1>3, <1>4 DEF OwnersInv, Owns

\* A transformer that is kept is owned.
LEMMA TfoOwned ==
  ASSUME TypeOK, Advance, OwnersInv, lines' = lines, tfos' = Append(tfos, Id),
         Id \in Kept("tfos"), Id \notin Kept("lines")
  PROVE  OwnersInv'
<1>1. /\ ReadAmong(Kept("tfos"))' = ReadAmong(Kept("tfos")) \union {Id}
      /\ ReadAmong(Kept("lines"))' = ReadAmong(Kept("lines"))
      /\ Id \in Element /\ Id \notin ReadAmong(Kept("tfos"))
  BY ReadKept DEF Kind
<1>2. tfos \in Seq(Element)
  BY DEF TypeOK
<1>3. Owns(tfos', ReadAmong(Kept("tfos"))')
  BY <1>1, <1>2, OwnsAppend DEF OwnersInv
<1>4. Owns(lines', ReadAmong(Kept("lines"))')
  BY <1>1 DEF OwnersInv
<1> QED
  BY <1>3, <1>4 DEF OwnersInv, Owns

-----------------------------------------------------------------------------
(***************************************************************************)
(* The steps keep TreeInv.                                                 *)
(***************************************************************************)

\* At first nothing has been read.
LEMMA InitTree == Init => TreeInv
<1> SUFFICES ASSUME Init PROVE TreeInv
  OBVIOUS
<1>1. TypeOK
  BY InitInv DEF IInv
<1>2. /\ stage = (IF input.levels = <<>> THEN "lines" ELSE "shunts")
      /\ level = 1 /\ item = 1
  BY DEF Init, FirstStage
<1>3. ASSUME NEW s \in LevelStage \union BranchStage, NEW e \in ElementsOf(s)
      PROVE  ~IsRead(e)
  <2>1. /\ e[1] = s /\ e \in FileElements
        /\ s \in LevelStage => /\ e[2] \in DOMAIN input.levels
                              /\ e[3] \in DOMAIN input.levels[e[2]][s]
        /\ s \in BranchStage => e[3] \in DOMAIN input[s]
    BY <1>1, ElementsType
  <2>2. /\ input.levels \in Seq(Level)
        /\ input.lines \in Seq(Branch(2))
        /\ input.twoWindings \in Seq(Branch(2))
        /\ input.threeWindings \in Seq(Branch(3))
    BY <1>1, InputDescription DEF IsDescription
  <2>3. CASE s \in BranchStage
    <3>1. ~(e[3] < 1)
      BY <2>1, <2>2, <2>3 DEF BranchStage
    <3> QED
      BY <1>2, <2>1, <2>3, <3>1
         DEF IsRead, Passed, Rank, LevelStage, BranchStage
  <2>4. CASE s \in LevelStage
    <3>1. stage = "shunts" /\ ~(e[2] < 1)
      BY <1>2, <2>1, <2>2, <2>4
    <3> DEFINE v == input.levels[e[2]]
    <3>2. v \in Level /\ e[3] \in DOMAIN v[s]
      BY <2>1, <2>2, <2>4
    <3> HIDE DEF v
    <3>3. ~(e[3] < 1)
      BY <2>4, <3>2 DEF Level, LevelStage
    <3> QED
      BY <1>2, <2>1, <2>4, <3>1, <3>3 DEF IsRead, Passed, Rank, LevelStage
  <2> QED
    BY <2>3, <2>4
<1>4. \A k \in Kind : \A e \in Kept(k) : ~IsRead(e)
  BY <1>3 DEF Kept, Kind, LevelStage, BranchStage
<1>5. \A e \in Links : ~IsRead(e)
  BY <1>3, <1>4 DEF Links, ClosedSwitches, Kind, LevelStage
<1>6. ReadAmong(Links) = {} /\ \A k \in Kind : ReadAmong(Kept(k)) = {}
  BY <1>4, <1>5 DEF ReadAmong
<1>7. SlackInv
  BY DEF SlackInv, Init
<1>8. LinksInv
  <2>1. \A n, m : Hops({}, n, m) = {}
    BY DEF Hops
  <2>2. \A n \in Node : neighbours[n] = <<>> /\ <<>> \in Seq(Node)
    BY DEF Init, Nothing
  <2>3. \A n, m \in Node : Times(m, neighbours[n]) = 0
    BY <2>2, ToSetEmpty, TimesOutside
  <2> QED
    BY <1>6, <2>1, <2>3, FS_EmptySet DEF LinksInv
<1>9. VectorsInv
  <2>1. \A k \in Kind, n \in Node : elements[k][n] = <<>>
    BY DEF Init, Nothing
  <2> QED
    BY <1>6, <2>1, HoldsNone DEF VectorsInv
<1>10. ShuntsInv
  <2>1. \A n \in Node : shuntsMap[n] = <<>>
    BY DEF Init, Nothing
  <2>2. LevelShunts = {}
    BY <1>6 DEF LevelShunts, Kind
  <2>3. nodes = {}
    BY DEF Init
  <2> QED
    BY <2>1, <2>2, <2>3, HoldsNone DEF ShuntsInv
<1>11. OwnersInv
  <2>1. lines = <<>> /\ tfos = <<>> /\ IsInjective(<<>>)
    BY DEF Init, IsInjective
  <2> QED
    BY <1>6, <2>1, ToSetEmpty DEF OwnersInv, Owns, Kind
<1> QED
  BY <1>7, <1>8, <1>9, <1>10, <1>11 DEF TreeInv

\* The end of a loop reads nothing.
LEMMA EndOfLoopTree ==
  ASSUME IInv, TreeInv, EndOfLoop
  PROVE  TreeInv'
<1> USE DEF IInv, TreeInv
<1>1. UNCHANGED <<input, nodes, slackNode, neighbours, elements, lines, tfos>>
  BY DEF EndOfLoop
<1>2. /\ \A k \in Kind : ReadAmong(Kept(k))' = ReadAmong(Kept(k))
      /\ ReadAmong(Links)' = ReadAmong(Links)
  BY EndOfLoopKept
<1>3. SlackInv'
  BY <1>1 DEF SlackInv
<1>4. LinksInv'
  <2>1. Counts(neighbours, ReadAmong(Links))
    BY DEF LinksInv, Counts
  <2>2. Counts(neighbours', ReadAmong(Links)')
    BY <1>1, <1>2, <2>1
  <2> QED
    BY <1>1, <2>2, LinksNext
<1>5. VectorsInv'
  <2>1. \A k \in Others, n \in Node :
            Holds(elements[k][n], n, ReadAmong(Kept(k)))
    BY DEF VectorsInv, Others
  <2>2. \A k \in Others, n \in Node :
            Holds(elements'[k][n], n, ReadAmong(Kept(k))')
    BY <1>1, <1>2, <2>1 DEF Others
  <2> QED
    BY <1>1, <2>2, VectorsNext
<1>6. ShuntsInv'
  BY EndOfLoopShunts
<1>7. OwnersInv'
  BY <1>1, <1>2 DEF OwnersInv, Owns, Kind
<1> QED
  BY <1>3, <1>4, <1>5, <1>6, <1>7

\* A step that reads an element that no branch keeps: no link, no owner.
LEMMA LocalStep ==
  ASSUME TypeOK, Advance, LinksInv, OwnersInv, UNCHANGED <<neighbours, lines, tfos>>,
         stage \in {"shunts", "buses", "loads", "svarcs"}
  PROVE  LinksInv' /\ OwnersInv'
<1>1. Id \notin Links /\ Id \notin Kept("lines") /\ Id \notin Kept("tfos")
  BY CurrentKept DEF Advance, BranchStage
<1> QED
  BY <1>1, SameLinks, SameOwners

\* Reading a shunt only concerns shuntsMap.
LEMMA ReadShuntTree ==
  ASSUME IInv, TreeInv, ReadShunt
  PROVE  TreeInv'
<1> USE DEF IInv, TreeInv
<1>1. /\ Advance /\ stage = "shunts"
      /\ UNCHANGED <<input, nodes, slackNode, neighbours, elements, lines, tfos>>
  BY DEF ReadShunt, Advance, Reading
<1>2. SlackInv'
  BY <1>1 DEF SlackInv
<1>3. LinksInv' /\ OwnersInv'
  BY <1>1, LocalStep
<1>4. VectorsInv'
  BY <1>1, CurrentKept, SameVectors DEF Advance, Others, Kind
<1>5. ShuntsInv'
  BY ReadShuntShunts
<1> QED
  BY <1>2, <1>3, <1>4, <1>5

\* Reading a bus: its node gets its shunts, the slack node is found.
LEMMA ReadBusTree ==
  ASSUME IInv, TreeInv, ReadBus
  PROVE  TreeInv'
<1> USE DEF IInv, TreeInv
<1>1. /\ Advance /\ stage = "buses"
      /\ UNCHANGED <<input, neighbours, lines, tfos>>
      /\ nodes' = nodes \union {Current}
      /\ slackNode' = IF input.slack = Current THEN Current ELSE slackNode
      /\ elements' =
            [elements EXCEPT !["shunts"][Current] = shuntsMap[Current]]
  BY DEF ReadBus, Advance, Reading, SlackAfter
<1>2. SlackInv'
  BY <1>1 DEF SlackInv
<1>3. LinksInv' /\ OwnersInv'
  BY <1>1, LocalStep
<1>4. VectorsInv'
  <2>1. \A k \in Others : elements'[k] = elements[k]
    BY <1>1 DEF TypeOK, Others
  <2> QED
    BY <1>1, <2>1, CurrentKept, SameVectors DEF Advance, Others, Kind
<1>5. ShuntsInv'
  BY ReadBusShunts
<1> QED
  BY <1>2, <1>3, <1>4, <1>5

\* Reading a load: its node refers to it when it is connected.
LEMMA ReadLoadTree ==
  ASSUME IInv, TreeInv, ReadLoad
  PROVE  TreeInv'
<1> USE DEF IInv, TreeInv
<1>1. /\ Advance /\ stage = "loads" /\ Current.bus \in Node
      /\ UNCHANGED <<input, nodes, level, shuntsMap, slackNode, neighbours,
                     lines, tfos>>
      /\ elements' = IF Current.connected
                     THEN [elements EXCEPT !["loads"][Current.bus] =
                              Append(@, Id)]
                     ELSE elements
  BY CurrentInLevel DEF ReadLoad, Advance, Reading
<1>2. SlackInv'
  BY <1>1 DEF SlackInv
<1>3. LinksInv' /\ OwnersInv'
  BY <1>1, LocalStep
<1>4. /\ Id \in Kept("loads") <=> Current.connected
      /\ \A j \in Kind \ {"loads"} : Id \notin Kept(j)
      /\ EndsOf(Id) = <<Current.bus>>
  BY <1>1, CurrentKept DEF Advance, Kind
<1>5. VectorsInv'
  <2>1. CASE Current.connected
    BY <1>1, <1>4, <2>1, PushedVector DEF Others, Kind
  <2>2. CASE ~Current.connected
    BY <1>1, <1>4, <2>2, SameVectors DEF Others, Kind
  <2> QED
    BY <2>1, <2>2
<1>6. ShuntsInv'
  <2>1. elements'["shunts"] = elements["shunts"]
    BY <1>1 DEF TypeOK, Kind
  <2>2. ReadAmong(Kept("shunts"))' = ReadAmong(Kept("shunts"))
    BY <1>1, <1>4, ReadKept DEF Kind
  <2> QED
    BY <1>1, <2>1, <2>2, SameShunts DEF Advance
<1> QED
  BY <1>2, <1>3, <1>5, <1>6

\* Reading a compensator: the same, under three conditions.
LEMMA ReadSvarcTree ==
  ASSUME IInv, TreeInv, ReadSvarc
  PROVE  TreeInv'
<1> USE DEF IInv, TreeInv
<1> DEFINE kept == /\ Current.connected
                   /\ Current.standBy
                   /\ Current.reactiveControl
<1>1. /\ Advance /\ stage = "svarcs" /\ Current.bus \in Node
      /\ UNCHANGED <<input, nodes, level, shuntsMap, slackNode, neighbours,
                     lines, tfos>>
      /\ elements' = IF kept
                     THEN [elements EXCEPT !["svarcs"][Current.bus] =
                              Append(@, Id)]
                     ELSE elements
  BY CurrentInLevel DEF ReadSvarc, Advance, Reading
<1>2. SlackInv'
  BY <1>1 DEF SlackInv
<1>3. LinksInv' /\ OwnersInv'
  BY <1>1, LocalStep
<1>4. /\ Id \in Kept("svarcs") <=> kept
      /\ \A j \in Kind \ {"svarcs"} : Id \notin Kept(j)
      /\ EndsOf(Id) = <<Current.bus>>
  BY <1>1, CurrentKept DEF Advance, Kind
<1> HIDE DEF kept
<1>5. VectorsInv'
  <2>1. CASE kept
    BY <1>1, <1>4, <2>1, PushedVector DEF Others, Kind
  <2>2. CASE ~kept
    BY <1>1, <1>4, <2>2, SameVectors DEF Others, Kind
  <2> QED
    BY <2>1, <2>2
<1>6. ShuntsInv'
  <2>1. elements'["shunts"] = elements["shunts"]
    BY <1>1 DEF TypeOK, Kind
  <2>2. ReadAmong(Kept("shunts"))' = ReadAmong(Kept("shunts"))
    BY <1>1, <1>4, ReadKept DEF Kind
  <2> QED
    BY <1>1, <2>1, <2>2, SameShunts DEF Advance
<1> QED
  BY <1>2, <1>3, <1>5, <1>6

\* The ends of a switch.
LEMMA SwitchEnds ==
  ASSUME TypeOK, Reading("switches")
  PROVE  Current.ends \in Ends(2)
<1> DEFINE v == input.levels[level]
<1>1. v \in Level /\ Items = v.switches /\ stage = "switches"
  BY LevelType DEF Reading, LevelStage
<1> HIDE DEF v
<1>2. v.switches \in Seq(Switch) /\ item \in Nat \ {0} /\ item <= Len(v.switches)
  BY <1>1 DEF Level, TypeOK, Reading
<1>3. Current \in Switch
  BY <1>1, <1>2 DEF Current
<1> QED
  BY <1>3 DEF Switch

\* Reading a switch: a closed one is a link.
LEMMA ReadSwitchTree ==
  ASSUME IInv, TreeInv, ReadSwitch
  PROVE  TreeInv'
<1> USE DEF IInv, TreeInv
<1> DEFINE ends == Current.ends
<1>1. /\ Advance /\ stage = "switches" /\ Reading("switches")
      /\ UNCHANGED <<input, nodes, level, shuntsMap, slackNode, elements,
                     lines, tfos>>
      /\ neighbours' = IF Current.open THEN neighbours
                       ELSE Link(neighbours, ends[1], ends[2])
  BY DEF ReadSwitch, Advance, Reading
<1>2. ends \in Ends(2)
  BY <1>1, SwitchEnds
<1>3. /\ Id \in Links <=> ~Current.open
      /\ \A j \in Kind : Id \notin Kept(j)
      /\ EndsOf(Id) = ends
  BY <1>1, CurrentKept DEF Advance, Kind, BranchStage
<1> HIDE DEF ends
<1>4. SlackInv'
  BY <1>1 DEF SlackInv
<1>5. LinksInv'
  <2>1. CASE Current.open
    BY <1>1, <1>3, <2>1, SameLinks
  <2>2. CASE ~Current.open
    BY <1>1, <1>2, <1>3, <2>2, TwoLinked
  <2> QED
    BY <2>1, <2>2
<1>6. VectorsInv' /\ OwnersInv'
  BY <1>1, <1>3, SameVectors, SameOwners DEF Others, Kind
<1>7. ShuntsInv'
  <2>1. ReadAmong(Kept("shunts"))' = ReadAmong(Kept("shunts"))
    BY <1>1, <1>3, ReadKept DEF Kind
  <2> QED
    BY <1>1, <2>1, SameShunts DEF Advance
<1> QED
  BY <1>4, <1>5, <1>6, <1>7

\* Reading a line: a link, two references and an owner, or nothing.
LEMMA ReadLineTree ==
  ASSUME IInv, TreeInv, ReadLine
  PROVE  TreeInv'
<1> USE DEF IInv, TreeInv
<1> DEFINE ends == Current.ends
<1>1. Advance /\ Reading("lines") /\ stage = "lines"
  BY DEF ReadLine, Advance, Reading
<1>2. ends \in Ends(2) /\ EndsOf(Id) = ends
  BY <1>1, CurrentBranch, CurrentKept DEF Advance, Branch
<1>3. /\ Id \in Links <=> IsKept(Current)
      /\ Id \in Kept("lines") <=> IsKept(Current)
      /\ \A j \in Kind \ {"lines"} : Id \notin Kept(j)
  BY <1>1, CurrentKept DEF Advance, Kind, BranchStage
<1>4. /\ UNCHANGED <<input, level, nodes, shuntsMap, slackNode, stage, tfos>>
      /\ IF IsKept(Current)
         THEN /\ neighbours' = Link(neighbours, ends[1], ends[2])
              /\ elements' = Refer("lines", ends)
              /\ lines' = Append(lines, Id)
         ELSE UNCHANGED <<neighbours, elements, lines>>
  BY DEF ReadLine
<1> HIDE DEF ends
<1>5. SlackInv'
  BY <1>4 DEF SlackInv
<1>6. ShuntsInv'
  <2>1. elements'["shunts"] = elements["shunts"]
    BY <1>4 DEF Refer, TypeOK, Kind
  <2>2. ReadAmong(Kept("shunts"))' = ReadAmong(Kept("shunts"))
    BY <1>1, <1>3, ReadKept DEF Kind
  <2> QED
    BY <1>4, <2>1, <2>2, SameShunts
<1>7. CASE IsKept(Current)
  <2>1. LinksInv'
    BY <1>1, <1>2, <1>3, <1>4, <1>7, TwoLinked
  <2>2. VectorsInv'
    BY <1>1, <1>2, <1>3, <1>4, <1>7, ReferredVectors DEF Others, Kind
  <2>3. OwnersInv'
    BY <1>1, <1>3, <1>4, <1>7, LineOwned DEF Kind
  <2> QED
    BY <1>5, <1>6, <2>1, <2>2, <2>3
<1>8. CASE ~IsKept(Current)
  <2>1. LinksInv'
    BY <1>1, <1>3, <1>4, <1>8, SameLinks
  <2>2. VectorsInv'
    BY <1>1, <1>3, <1>4, <1>8, SameVectors DEF Others, Kind
  <2>3. OwnersInv'
    BY <1>1, <1>3, <1>4, <1>8, SameOwners DEF Kind
  <2> QED
    BY <1>5, <1>6, <2>1, <2>2, <2>3
<1> QED
  BY <1>7, <1>8

\* Reading a transformer of two windings: the same.
LEMMA ReadTwoWindingsTree ==
  ASSUME IInv, TreeInv, ReadTwoWindings
  PROVE  TreeInv'
<1> USE DEF IInv, TreeInv
<1> DEFINE ends == Current.ends
<1>1. Advance /\ Reading("twoWindings") /\ stage = "twoWindings"
  BY DEF ReadTwoWindings, Advance, Reading
<1>2. ends \in Ends(2) /\ EndsOf(Id) = ends
  BY <1>1, CurrentBranch, CurrentKept DEF Advance, Branch
<1>3. /\ Id \in Links <=> IsKept(Current)
      /\ Id \in Kept("tfos") <=> IsKept(Current)
      /\ \A j \in Kind \ {"tfos"} : Id \notin Kept(j)
  BY <1>1, CurrentKept DEF Advance, Kind, BranchStage
<1>4. /\ UNCHANGED <<input, level, nodes, shuntsMap, slackNode, stage, lines>>
      /\ IF IsKept(Current)
         THEN /\ neighbours' = Link(neighbours, ends[1], ends[2])
              /\ elements' = Refer("tfos", ends)
              /\ tfos' = Append(tfos, Id)
         ELSE UNCHANGED <<neighbours, elements, tfos>>
  BY DEF ReadTwoWindings
<1> HIDE DEF ends
<1>5. SlackInv'
  BY <1>4 DEF SlackInv
<1>6. ShuntsInv'
  <2>1. elements'["shunts"] = elements["shunts"]
    BY <1>4 DEF Refer, TypeOK, Kind
  <2>2. ReadAmong(Kept("shunts"))' = ReadAmong(Kept("shunts"))
    BY <1>1, <1>3, ReadKept DEF Kind
  <2> QED
    BY <1>4, <2>1, <2>2, SameShunts
<1>7. CASE IsKept(Current)
  <2>1. LinksInv'
    BY <1>1, <1>2, <1>3, <1>4, <1>7, TwoLinked
  <2>2. VectorsInv'
    BY <1>1, <1>2, <1>3, <1>4, <1>7, ReferredVectors DEF Others, Kind
  <2>3. OwnersInv'
    BY <1>1, <1>3, <1>4, <1>7, TfoOwned DEF Kind
  <2> QED
    BY <1>5, <1>6, <2>1, <2>2, <2>3
<1>8. CASE ~IsKept(Current)
  <2>1. LinksInv'
    BY <1>1, <1>3, <1>4, <1>8, SameLinks
  <2>2. VectorsInv'
    BY <1>1, <1>3, <1>4, <1>8, SameVectors DEF Others, Kind
  <2>3. OwnersInv'
    BY <1>1, <1>3, <1>4, <1>8, SameOwners DEF Kind
  <2> QED
    BY <1>5, <1>6, <2>1, <2>2, <2>3
<1> QED
  BY <1>7, <1>8

\* Reading a transformer of three windings: three links.
LEMMA ReadThreeWindingsTree ==
  ASSUME IInv, TreeInv, ReadThreeWindings
  PROVE  TreeInv'
<1> USE DEF IInv, TreeInv
<1> DEFINE ends == Current.ends
<1>1. Advance /\ Reading("threeWindings") /\ stage = "threeWindings"
  BY DEF ReadThreeWindings, Advance, Reading
<1>2. ends \in Ends(3) /\ EndsOf(Id) = ends
  BY <1>1, CurrentBranch, CurrentKept DEF Advance, Branch
<1>3. /\ Id \in Links <=> IsKept(Current)
      /\ Id \in Kept("tfos") <=> IsKept(Current)
      /\ \A j \in Kind \ {"tfos"} : Id \notin Kept(j)
  BY <1>1, CurrentKept DEF Advance, Kind, BranchStage
<1>4. /\ UNCHANGED <<input, level, nodes, shuntsMap, slackNode, stage, lines>>
      /\ IF IsKept(Current)
         THEN /\ neighbours' = LinkThree(neighbours, ends[1], ends[2], ends[3])
              /\ elements' = Refer("tfos", ends)
              /\ tfos' = Append(tfos, Id)
         ELSE UNCHANGED <<neighbours, elements, tfos>>
  BY DEF ReadThreeWindings
<1> HIDE DEF ends
<1>5. SlackInv'
  BY <1>4 DEF SlackInv
<1>6. ShuntsInv'
  <2>1. elements'["shunts"] = elements["shunts"]
    BY <1>4 DEF Refer, TypeOK, Kind
  <2>2. ReadAmong(Kept("shunts"))' = ReadAmong(Kept("shunts"))
    BY <1>1, <1>3, ReadKept DEF Kind
  <2> QED
    BY <1>4, <2>1, <2>2, SameShunts
<1>7. CASE IsKept(Current)
  <2>1. LinksInv'
    BY <1>1, <1>2, <1>3, <1>4, <1>7, ThreeLinked
  <2>2. VectorsInv'
    BY <1>1, <1>2, <1>3, <1>4, <1>7, ReferredVectors DEF Others, Kind
  <2>3. OwnersInv'
    BY <1>1, <1>3, <1>4, <1>7, TfoOwned DEF Kind
  <2> QED
    BY <1>5, <1>6, <2>1, <2>2, <2>3
<1>8. CASE ~IsKept(Current)
  <2>1. LinksInv'
    BY <1>1, <1>3, <1>4, <1>8, SameLinks
  <2>2. VectorsInv'
    BY <1>1, <1>3, <1>4, <1>8, SameVectors DEF Others, Kind
  <2>3. OwnersInv'
    BY <1>1, <1>3, <1>4, <1>8, SameOwners DEF Kind
  <2> QED
    BY <1>5, <1>6, <2>1, <2>2, <2>3
<1> QED
  BY <1>7, <1>8

-----------------------------------------------------------------------------
(***************************************************************************)
(* TreeInv holds in every reachable state, whatever the network file.      *)
(***************************************************************************)
THEOREM TreeInvariance == Spec => []TreeInv
<1>1. IInv /\ TreeInv /\ [Next]_vars => TreeInv'
  <2> SUFFICES ASSUME IInv, TreeInv, [Next]_vars
               PROVE  TreeInv'
    OBVIOUS
  <2>1. CASE UNCHANGED vars
    <3>1. UNCHANGED <<input, stage, level, item, shuntsMap, nodes, slackNode,
                      neighbours, elements, lines, tfos>>
      BY <2>1 DEF vars
    <3>2. /\ Links' = Links
          /\ \A k \in Kind : Kept(k)' = Kept(k)
          /\ \A e : IsRead(e)' <=> IsRead(e)
      BY <3>1, SameFile DEF IsRead, Passed
    <3>3. /\ ReadAmong(Links)' = ReadAmong(Links)
          /\ \A k \in Kind : ReadAmong(Kept(k))' = ReadAmong(Kept(k))
      BY <3>2 DEF ReadAmong
    <3>4. SlackInv'
      BY <3>1 DEF TreeInv, SlackInv
    <3>5. Counts(neighbours', ReadAmong(Links)')
      <4>1. Counts(neighbours, ReadAmong(Links))
        BY DEF TreeInv, LinksInv, Counts
      <4> QED
        BY <3>1, <3>3, <4>1
    <3>6. LinksInv'
      BY <3>1, <3>5, LinksNext
    <3>7. \A k \in Others, n \in Node :
              Holds(elements'[k][n], n, ReadAmong(Kept(k))')
      <4>1. \A k \in Others, n \in Node :
                Holds(elements[k][n], n, ReadAmong(Kept(k)))
        BY DEF TreeInv, VectorsInv, Others
      <4> QED
        BY <3>1, <3>3, <4>1 DEF Others
    <3>8. VectorsInv'
      BY <3>1, <3>7, VectorsNext
    <3>9. ShuntsInv'
      BY <3>1, <3>3, SameShunts DEF TreeInv, Kind
    <3>10. OwnersInv'
      BY <3>1, <3>3 DEF TreeInv, OwnersInv, Owns, Kind
    <3> QED
      BY <3>4, <3>6, <3>8, <3>9, <3>10 DEF TreeInv
  <2> QED
    BY <2>1, EndOfLoopTree, ReadShuntTree, ReadBusTree, ReadLoadTree,
       ReadSwitchTree, ReadSvarcTree, ReadLineTree, ReadTwoWindingsTree,
       ReadThreeWindingsTree
       DEF Next, Terminated
<1> QED
  BY <1>1, Invariance, InitTree, PTL DEF Spec

(***************************************************************************)
(* The tree that buildTree leaves is that of the file: its nodes, slack    *)
(* node, neighbours with their multiplicity, vectors of elements and       *)
(* owners, whatever the order of the levels and of their elements.         *)
(***************************************************************************)
THEOREM TreeIsThatOfFile == Spec => []TreeMatchesFile
<1>1. IInv /\ TreeInv => TreeMatchesFile
  <2> SUFFICES ASSUME IInv, TreeInv, stage = "done"
               PROVE  /\ nodes = Node
                      /\ slackNode = IF input.slack \in Node THEN input.slack
                                     ELSE NoNode
                      /\ \A n, m \in Node : Times(m, neighbours[n]) =
                                               Cardinality(Hops(Links, n, m))
                      /\ \A kind \in Kind, n \in Node :
                            Holds(elements[kind][n], n, Kept(kind))
                      /\ Owns(lines, Kept("lines"))
                      /\ Owns(tfos, Kept("tfos"))
    BY DEF TreeMatchesFile
  <2> USE DEF IInv, TreeInv
  <2>1. nodes = Node
    BY DEF BusesRead
  <2>2. \A e \in FileElements : IsRead(e)
    BY DEF IsRead, Passed, Rank, FileElements, Element, LevelStage, BranchStage
  <2>3. /\ ReadAmong(Links) = Links
        /\ \A k \in Kind : ReadAmong(Kept(k)) = Kept(k)
    BY <2>2, KeptType DEF ReadAmong
  <2>4. slackNode = IF input.slack \in Node THEN input.slack ELSE NoNode
    BY <2>1 DEF SlackInv
  <2>5. \A n, m \in Node : Times(m, neighbours[n]) =
                               Cardinality(Hops(Links, n, m))
    BY <2>3 DEF LinksInv
  <2>6. \A kind \in Kind, n \in Node :
            Holds(elements[kind][n], n, Kept(kind))
    BY <2>1, <2>3 DEF VectorsInv, ShuntsInv
  <2>7. Owns(lines, Kept("lines")) /\ Owns(tfos, Kept("tfos"))
    BY <2>3 DEF OwnersInv, Kind
  <2> QED
    BY <2>1, <2>4, <2>5, <2>6, <2>7
<1> QED
  BY <1>1, Invariance, TreeInvariance, PTL

============================================================================
