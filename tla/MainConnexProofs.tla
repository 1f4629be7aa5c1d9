-------------------------- MODULE MainConnexProofs --------------------------
(***************************************************************************)
(* Proofs about the two modules that implement MainConnex.                 *)
(*                                                                         *)
(* ConnexAlgo, for every number of nodes and every network: the inductive  *)
(* invariant SearchInv, the safety properties it implies, and the safety   *)
(* part of the refinement of MainConnex.                                   *)
(*                                                                         *)
(* Context, for every network that is not empty and every configuration:   *)
(* the slack node process() ends with, the networks it accepts, and the    *)
(* refinement of MainConnex by its walk.  Context takes for the search the *)
(* groups it may end with; that ConnexAlgo ends with one of them is proved *)
(* between the two.                                                        *)
(***************************************************************************)
EXTENDS ConnexAlgo, Context, SequenceLemmas

-----------------------------------------------------------------------------
(***************************************************************************)
(* Connex components.                                                      *)
(***************************************************************************)

\* The component of a node is a set of nodes that contains it.
LEMMA ComponentSelf ==
  ASSUME NEW nb, NEW s \in Node
  PROVE  s \in Component(nb, s) /\ Component(nb, s) \subseteq Node
  BY DEF Component

\* A component is closed under neighbourhood.
LEMMA ComponentClosed ==
  ASSUME NEW nb, NEW s \in Node
  PROVE  Closed(nb, Component(nb, s))
<1> SUFFICES ASSUME NEW n \in Component(nb, s), NEW m \in Node, Linked(nb, n, m),
                    NEW S \in SUBSET Node, s \in S, Closed(nb, S)
             PROVE  m \in S
  BY DEF Closed, Component
<1>1. n \in S
  BY DEF Component
<1> QED
  BY <1>1 DEF Closed

\* A component is the least closed set around its node.
LEMMA ComponentLeast ==
  ASSUME NEW nb, NEW s \in Node, NEW S \in SUBSET Node, s \in S, Closed(nb, S)
  PROVE  Component(nb, s) \subseteq S
  BY DEF Component

\* The component of a member of a component lies in that component.
LEMMA ComponentOfMember ==
  ASSUME NEW nb, NEW s \in Node, NEW t \in Component(nb, s)
  PROVE  Component(nb, t) \subseteq Component(nb, s)
  BY ComponentSelf, ComponentClosed, ComponentLeast

\* Components are finite: the network has N nodes.
LEMMA ComponentFinite ==
  ASSUME NEW nb, NEW s \in Node
  PROVE  IsFiniteSet(Component(nb, s))
<1>1. IsFiniteSet(Node)
  BY NAssumption, FS_Interval DEF Node
<1> QED
  BY <1>1, ComponentSelf, FS_Subset

-----------------------------------------------------------------------------
(***************************************************************************)
(* The inductive invariant.                                                *)
(***************************************************************************)

\* The table the algorithm reads is a symmetric table over the nodes.
LEMMA NetworkType ==
  ASSUME SearchTypeOK
  PROVE  /\ \A n \in Node : neighbours[n] \in Seq(Node)
         /\ \A n, m \in Node :
               Linked(neighbours, n, m) => Linked(neighbours, m, n)
         /\ N \in Nat
  BY NAssumption, NetworksAssumption DEF SearchTypeOK, IsNetwork

\* A search has its starting node in its group.
LEMMA StartIsInGroup ==
  ASSUME SearchTypeOK, GroupInv, Searching
  PROVE  presented \in ToSet(group) /\ ToSet(group) \subseteq Node
<1>1. group \in Seq(Node) /\ group # <<>> /\ group[1] = presented
  BY DEF SearchTypeOK, GroupInv, Searching
<1>2. 1 \in DOMAIN group /\ ToSet(group) \subseteq Node
  BY <1>1, ToSetType
<1> QED
  BY <1>1, <1>2 DEF ToSet

\* Nothing marked, nothing found: the invariant holds initially.
LEMMA InitSearchInv ==
  ASSUME SearchInit
  PROVE  SearchInv
<1> USE NAssumption, ToSetEmpty DEF SearchInit
<1>1. SearchTypeOK
  BY DEF SearchTypeOK, Node
<1>2. WalkInv
  BY DEF WalkInv, Earlier, Closed
<1>3. GroupInv
  BY DEF GroupInv, Searching
<1>4. FrontierInv
  BY <1>1, NetworkType DEF FrontierInv
<1>5. NoNodeTwice
  BY FS_EmptySet DEF NoNodeTwice
<1>6. OneCallPerNode
  BY DEF OneCallPerNode, IsInjective
<1>7. LargestInv
  BY DEF LargestInv, Earlier
<1> QED
  BY <1>1, <1>2, <1>3, <1>4, <1>5, <1>6, <1>7 DEF SearchInv

\* The early return of operator() on a marked node preserves the invariant: the
\* component of that node has been seen.
LEMMA SkipProcessedSearch ==
  ASSUME SearchInv, SkipProcessed
  PROVE  SearchInv'
<1> USE DEF SearchInv, SkipProcessed, Presents, Searching
<1>1. SearchTypeOK'
  BY NAssumption DEF SearchTypeOK
<1>2. Earlier' = Earlier /\ presented \in Earlier
  BY ToSetEmpty DEF Earlier
<1>3. WalkInv'
  <2>1. 1..presented \subseteq Earlier
    BY <1>2 DEF WalkInv, SearchTypeOK
  <2> QED
    BY <1>2, <2>1 DEF WalkInv, Closed, SearchTypeOK
<1>4. GroupInv'
  BY ToSetEmpty DEF GroupInv
<1>5. FrontierInv'
  BY DEF FrontierInv
<1>6. NoNodeTwice'
  BY DEF NoNodeTwice
<1>7. OneCallPerNode'
  BY DEF OneCallPerNode
<1>8. LargestInv'
  BY <1>2 DEF LargestInv
<1> QED
  BY <1>1, <1>3, <1>4, <1>5, <1>6, <1>7, <1>8

\* The beginning of a search preserves the invariant.
LEMMA StartSearch ==
  ASSUME SearchInv, Start
  PROVE  SearchInv'
<1> USE DEF SearchInv, Start, Presents, Searching, MarkStart
<1>1. presented \in Node /\ ToSet(group) = {} /\ ToSet(stack) = {}
  BY ToSetEmpty, NAssumption DEF SearchTypeOK, Node, FrontierInv
<1>2. ToSet(group') = {presented} /\ ToSet(stack') = {presented}
  BY ToSetSingle
<1>3. SearchTypeOK'
  BY <1>1 DEF SearchTypeOK
<1>4. Earlier' = Earlier
  BY <1>1, <1>2 DEF Earlier
<1>5. WalkInv'
  BY <1>4 DEF WalkInv, Closed
<1>6. GroupInv'
  BY <1>1, <1>2, ComponentSelf DEF GroupInv
<1>7. FrontierInv'
  <2>1. position[presented] = 1
    BY <1>1 DEF FrontierInv
  <2> QED
    BY <1>1, <1>2, <2>1 DEF FrontierInv
<1>8. NoNodeTwice'
  BY <1>2, FS_Singleton DEF NoNodeTwice
<1>9. OneCallPerNode'
  BY DEF OneCallPerNode, IsInjective
<1>10. LargestInv'
  BY <1>4 DEF LargestInv
<1> QED
  BY <1>3, <1>5, <1>6, <1>7, <1>8, <1>9, <1>10

\* What the active call of updateConnexGroup reads while it has a next node.
LEMMA ActiveStep ==
  ASSUME SearchInv, stack # <<>>, HasNext
  PROVE  /\ Active \in ToSet(stack)
         /\ Active \in ToSet(group)
         /\ Active \in Node
         /\ Candidate \in Node
         /\ position[Active] \in 1..Len(neighbours[Active])
         /\ Linked(neighbours, Active, Candidate)
<1> USE DEF SearchInv, SearchTypeOK
<1>1. Active \in ToSet(stack) /\ Active \in Node
  BY ToSetFront DEF Active
<1>2. Active \in ToSet(group)
  BY <1>1 DEF FrontierInv
<1>3. position[Active] \in 1..Len(neighbours[Active])
  BY <1>1, NetworkType DEF FrontierInv, HasNext
<1>4. Candidate \in Node /\ Linked(neighbours, Active, Candidate)
  BY <1>1, <1>3, NetworkType DEF Candidate, Linked, ToSet
<1> QED
  BY <1>1, <1>2, <1>3, <1>4

\* Entering an unmarked neighbour preserves the invariant: it is linked to the
\* active node, hence in the component of the starting node.
LEMMA DiscoverSearch ==
  ASSUME SearchInv, Discover
  PROVE  SearchInv'
<1> USE DEF Discover, Call
<1>a. SearchTypeOK
  BY DEF SearchInv
<1>b. /\ Active \in ToSet(stack) /\ Active \in ToSet(group)
      /\ Active \in Node /\ Candidate \in Node
      /\ position[Active] \in 1..Len(neighbours[Active])
      /\ Linked(neighbours, Active, Candidate)
  BY ActiveStep
<1>c. Candidate \notin ToSet(group) /\ Candidate \notin ToSet(stack)
  BY DEF SearchInv, GroupInv, FrontierInv
<1>d. group # <<>>
  BY <1>b, ToSetEmpty
<1>e. /\ ToSet(group') = ToSet(group) \union {Candidate}
      /\ group' \in Seq(Node)
      /\ Len(group') = Len(group) + 1
      /\ group' # <<>>
  BY <1>a, <1>b, ToSetAppend, ZenonT(40) DEF SearchTypeOK
<1>f. /\ ToSet(stack') = ToSet(stack) \union {Candidate}
      /\ stack' \in Seq(Node)
      /\ Len(stack') = Len(stack) + 1
      /\ stack' # <<>>
  BY <1>a, <1>b, ToSetAppend, ZenonT(40) DEF SearchTypeOK
<1>1. SearchTypeOK'
  BY <1>a, <1>b, <1>e, <1>f, SMTT(20) DEF SearchTypeOK
<1>2. Earlier' = Earlier
  BY <1>e, <1>c DEF Earlier, SearchInv, GroupInv
<1>3. WalkInv'
  BY <1>2 DEF SearchInv, WalkInv, Closed
<1>4. GroupInv'
  <2>1. presented \in Node
    BY <1>d, StartIsInGroup DEF SearchInv, Searching
  <2>2. Candidate \in Component(neighbours, presented)
    BY <1>b, <2>1, ComponentClosed DEF SearchInv, GroupInv, Closed
  <2> QED
    BY <1>a, <1>d, <1>e, <2>2 DEF SearchTypeOK, SearchInv, GroupInv, Searching
<1>5. FrontierInv'
  <2>1. ASSUME NEW n \in Node
        PROVE  /\ position'[n] \in 1..Len(neighbours[n]) + 1
               /\ n \notin markedNodes' => position'[n] = 1
    <3>1. CASE n = Active
      <4>1. Active \in markedNodes
        BY <1>b DEF SearchInv, GroupInv
      <4> QED
        BY <1>a, <1>b, <3>1, <4>1, NetworkType, SMTT(20) DEF SearchTypeOK
    <3>2. CASE n # Active
      BY <1>a, <3>2 DEF SearchTypeOK, SearchInv, FrontierInv
    <3> QED
      BY <3>1, <3>2
  <2>2. ASSUME NEW n \in ToSet(group')
        PROVE  /\ \A i \in 1..position'[n] - 1 : neighbours[n][i] \in markedNodes'
               /\ n \notin ToSet(stack') =>
                     position'[n] = Len(neighbours[n]) + 1
    <3>1. CASE n = Candidate
      <4>1. position'[n] = 1
        BY <1>a, <1>b, <1>c, <3>1 DEF SearchTypeOK, SearchInv, FrontierInv
      <4> QED
        BY <1>f, <3>1, <4>1
    <3>2. CASE n = Active
      <4>1. position'[n] = position[n] + 1
        BY <1>a, <1>b, <3>2 DEF SearchTypeOK
      <4>2. \A i \in 1..position[n] - 1 : neighbours[n][i] \in markedNodes
        BY <1>b, <3>2 DEF SearchInv, FrontierInv
      <4>3. neighbours[n][position[n]] \in markedNodes'
        BY <3>2 DEF Candidate
      <4> QED
        BY <1>b, <1>f, <3>2, <4>1, <4>2, <4>3
    <3>3. CASE n # Candidate /\ n # Active
      <4>1. n \in ToSet(group) /\ position'[n] = position[n]
        BY <1>a, <1>e, <3>3, ToSetType DEF SearchTypeOK
      <4> QED
        BY <1>f, <4>1 DEF SearchInv, FrontierInv
    <3> QED
      BY <3>1, <3>2, <3>3
  <2> QED
    BY <1>e, <1>f, <2>1, <2>2 DEF SearchInv, FrontierInv
<1>6. NoNodeTwice'
  <2>1. IsFiniteSet(ToSet(group))
    <3>1. ToSet(group) \subseteq Node
      BY <1>a, ToSetType DEF SearchTypeOK
    <3>2. IsFiniteSet(Node)
      BY NAssumption, FS_Interval DEF Node
    <3> QED
      BY <3>1, <3>2, FS_Subset
  <2>2. Cardinality(ToSet(group')) = Cardinality(ToSet(group)) + 1
    BY <1>c, <1>e, <2>1, FS_AddElement
  <2> QED
    BY <1>e, <2>2 DEF SearchInv, NoNodeTwice
<1>7. OneCallPerNode'
  BY <1>a, <1>b, <1>c, <1>e, <1>f, InjectiveAppend
     DEF SearchTypeOK, SearchInv, OneCallPerNode
<1>8. LargestInv'
  BY <1>2 DEF SearchInv, LargestInv
<1> QED
  BY <1>1, <1>3, <1>4, <1>5, <1>6, <1>7, <1>8 DEF SearchInv

\* Passing a marked neighbour preserves the invariant.
LEMMA IgnoreSearch ==
  ASSUME SearchInv, Ignore
  PROVE  SearchInv'
<1> USE DEF Ignore, PassMarked
<1>a. SearchTypeOK
  BY DEF SearchInv
<1>b. /\ Active \in ToSet(group) /\ Active \in Node
      /\ position[Active] \in 1..Len(neighbours[Active])
  BY ActiveStep
<1>1. SearchTypeOK'
  BY <1>a, <1>b DEF SearchTypeOK
<1>2. Earlier' = Earlier
  BY DEF Earlier
<1>3. WalkInv'
  BY <1>2 DEF SearchInv, WalkInv, Closed
<1>4. GroupInv'
  BY DEF SearchInv, GroupInv, Searching
<1>5. FrontierInv'
  <2>1. ASSUME NEW n \in Node
        PROVE  /\ position'[n] \in 1..Len(neighbours[n]) + 1
               /\ n \notin markedNodes' => position'[n] = 1
    <3>1. CASE n = Active
      BY <1>a, <1>b, <3>1, NetworkType, SMTT(20) DEF SearchTypeOK, SearchInv, GroupInv
    <3>2. CASE n # Active
      BY <1>a, <3>2 DEF SearchTypeOK, SearchInv, FrontierInv
    <3> QED
      BY <3>1, <3>2
  <2>2. ASSUME NEW n \in ToSet(group)
        PROVE  /\ \A i \in 1..position'[n] - 1 : neighbours[n][i] \in markedNodes
               /\ n \notin ToSet(stack) =>
                     position'[n] = Len(neighbours[n]) + 1
    <3>1. CASE n = Active
      <4>1. position'[n] = position[n] + 1
        BY <1>a, <1>b, <3>1 DEF SearchTypeOK
      <4>2. \A i \in 1..position[n] - 1 : neighbours[n][i] \in markedNodes
        BY <1>b, <3>1 DEF SearchInv, FrontierInv
      <4>3. neighbours[n][position[n]] \in markedNodes
        BY <3>1 DEF Candidate
      <4>4. n \in ToSet(stack)
        BY <3>1, ActiveStep
      <4> QED
        BY <1>b, <3>1, <4>1, <4>2, <4>3, <4>4
    <3>2. CASE n # Active
      <4>1. position'[n] = position[n]
        BY <1>a, <3>2, ToSetType DEF SearchTypeOK
      <4> QED
        BY <4>1 DEF SearchInv, FrontierInv
    <3> QED
      BY <3>1, <3>2
  <2> QED
    BY <2>1, <2>2 DEF SearchInv, FrontierInv
<1>6. NoNodeTwice'
  BY DEF SearchInv, NoNodeTwice
<1>7. OneCallPerNode'
  BY DEF SearchInv, OneCallPerNode
<1>8. LargestInv'
  BY <1>2 DEF SearchInv, LargestInv
<1> QED
  BY <1>1, <1>3, <1>4, <1>5, <1>6, <1>7, <1>8 DEF SearchInv

\* The return of a call, whose vector is exhausted, preserves the invariant.
LEMMA ReturnSearch ==
  ASSUME SearchInv, Return
  PROVE  SearchInv'
<1> USE DEF Return
<1>a. SearchTypeOK
  BY DEF SearchInv
<1>b. /\ stack' \in Seq(Node)
      /\ Len(stack') = Len(stack) - 1
      /\ ToSet(stack) = ToSet(stack') \union {Active}
      /\ Active \in Node
  BY <1>a, ToSetFront DEF SearchTypeOK, Active
<1>c. group # <<>>
  BY <1>b, ToSetEmpty DEF SearchInv, FrontierInv
<1>1. SearchTypeOK'
  BY <1>a, <1>b DEF SearchTypeOK
<1>2. Earlier' = Earlier
  BY DEF Earlier
<1>3. WalkInv'
  BY <1>2 DEF SearchInv, WalkInv, Closed
<1>4. GroupInv'
  BY DEF SearchInv, GroupInv, Searching
<1>5. FrontierInv'
  <2>1. position[Active] = Len(neighbours[Active]) + 1
    BY <1>a, <1>b, NetworkType DEF SearchInv, FrontierInv, HasNext
  <2> QED
    BY <1>b, <2>1 DEF SearchInv, FrontierInv
<1>6. NoNodeTwice'
  BY DEF SearchInv, NoNodeTwice
<1>7. OneCallPerNode'
  BY <1>a, <1>b, InjectiveFront DEF SearchTypeOK, SearchInv, OneCallPerNode
<1>8. LargestInv'
  BY <1>2 DEF SearchInv, LargestInv
<1> QED
  BY <1>1, <1>3, <1>4, <1>5, <1>6, <1>7, <1>8 DEF SearchInv

\* A finished search has collected a closed set: a neighbour it left out was
\* marked by an earlier search, whose nodes have no neighbour outside it.
LEMMA FinishedGroupClosed ==
  ASSUME SearchInv, stack = <<>>
  PROVE  Closed(neighbours, ToSet(group))
<1> SUFFICES ASSUME NEW n \in ToSet(group), NEW m \in Node,
                    Linked(neighbours, n, m)
             PROVE  m \in ToSet(group)
  BY DEF Closed
<1>1. n \in Node /\ n \in markedNodes
  BY ToSetType DEF SearchInv, SearchTypeOK, GroupInv
<1>2. PICK i \in 1..Len(neighbours[n]) : m = neighbours[n][i]
  BY <1>1, NetworkType DEF SearchInv, Linked, ToSet
<1>3. position[n] = Len(neighbours[n]) + 1
  BY ToSetEmpty DEF SearchInv, FrontierInv
<1>4. m \in markedNodes
  BY <1>1, <1>2, <1>3, NetworkType DEF SearchInv, FrontierInv
<1>5. CASE m \in Earlier
  <2>1. Linked(neighbours, m, n)
    BY <1>1, NetworkType DEF SearchInv
  <2>2. n \in Earlier
    BY <1>1, <1>5, <2>1 DEF SearchInv, WalkInv, Closed
  <2> QED
    BY <2>2 DEF Earlier
<1> QED
  BY <1>4, <1>5 DEF Earlier

(***************************************************************************)
(* The inductive invariant gives the property GroupIsComponent.            *)
(***************************************************************************)
LEMMA FinishedGroup ==
  ASSUME SearchInv, Searching, stack = <<>>
  PROVE  /\ presented \in Node
         /\ ToSet(group) = Component(neighbours, presented)
<1>1. presented \in ToSet(group) /\ ToSet(group) \subseteq Node
  BY StartIsInGroup DEF SearchInv
<1>2. Component(neighbours, presented) \subseteq ToSet(group)
  BY <1>1, FinishedGroupClosed, ComponentLeast
<1> QED
  BY <1>1, <1>2 DEF SearchInv, GroupInv

\* The end of a search preserves the invariant: the group is a component, and
\* the main component stays at least as large as all those met.
LEMMA FinishSearch ==
  ASSUME SearchInv, Finish
  PROVE  SearchInv'
<1> USE DEF Finish, Beats
<1>a. SearchTypeOK
  BY DEF SearchInv
<1>b. /\ presented \in Node
      /\ ToSet(group) = Component(neighbours, presented)
      /\ presented \in ToSet(group)
  BY FinishedGroup, StartIsInGroup DEF SearchInv
<1>c. ToSet(group') = {}
  BY ToSetEmpty
<1>d. Earlier' = markedNodes /\ markedNodes = Earlier \union ToSet(group)
  BY <1>c DEF Earlier, SearchInv, GroupInv
<1>1. SearchTypeOK'
  BY <1>a, <1>b, NAssumption DEF SearchTypeOK, Node
<1>2. WalkInv'
  <2>1. 1..presented \subseteq markedNodes
    BY <1>b, <1>d DEF SearchInv, WalkInv, Node
  <2>2. Closed(neighbours, markedNodes)
    BY <1>d, FinishedGroupClosed DEF SearchInv, WalkInv, Closed
  <2> QED
    BY <1>b, <1>d, <2>1, <2>2 DEF WalkInv, Closed, Node
<1>3. GroupInv'
  BY <1>c DEF GroupInv, Searching
<1>4. FrontierInv'
  BY <1>c, ToSetEmpty DEF SearchInv, FrontierInv
<1>5. NoNodeTwice'
  BY <1>c, FS_EmptySet DEF SearchInv, NoNodeTwice
<1>6. OneCallPerNode'
  BY DEF SearchInv, OneCallPerNode
<1>7. LargestInv'
  <2>1. /\ Len(group) = Cardinality(ToSet(group))
        /\ Len(group) \in Nat /\ Len(mainConnexity) \in Nat
    BY <1>a DEF SearchInv, NoNodeTwice, SearchTypeOK
  <2>2. Len(mainConnexity') >= Len(mainConnexity)
        /\ Len(mainConnexity') >= Len(group)
    BY <2>1
  <2>3. ASSUME NEW n \in Earlier'
        PROVE  Cardinality(Component(neighbours, n)) <= Len(mainConnexity')
    <3>1. n \in Node
      BY <1>a, <1>d DEF SearchTypeOK
    <3>2. /\ IsFiniteSet(Component(neighbours, n))
          /\ Cardinality(Component(neighbours, n)) \in Nat
      BY <3>1, ComponentFinite, FS_CardinalityType
    <3>3. CASE n \in Earlier
      <4>1. Cardinality(Component(neighbours, n)) <= Len(mainConnexity)
        BY <3>3 DEF SearchInv, LargestInv
      <4> QED
        BY <2>1, <2>2, <3>2, <4>1
    <3>4. CASE n \in ToSet(group)
      <4>1. Component(neighbours, n) \subseteq ToSet(group)
        BY <1>b, <3>4, ComponentOfMember
      <4>2. IsFiniteSet(ToSet(group))
        BY <1>b, ComponentFinite
      <4>3. Cardinality(Component(neighbours, n)) <= Len(group)
        BY <2>1, <4>1, <4>2, FS_Subset
      <4> QED
        BY <2>1, <2>2, <3>2, <4>3
    <3> QED
      BY <1>d, <3>3, <3>4
  <2>4. mainConnexity' # <<>> =>
           \E n \in Earlier' :
              ToSet(mainConnexity') = Component(neighbours, n)
    <3>1. CASE mainConnexity' = group
      BY <1>b, <1>d, <3>1
    <3>2. CASE mainConnexity' = mainConnexity
      BY <1>d, <3>2 DEF SearchInv, LargestInv
    <3> QED
      BY <3>1, <3>2
  <2> QED
    BY <2>3, <2>4 DEF LargestInv
<1> QED
  BY <1>1, <1>2, <1>3, <1>4, <1>5, <1>6, <1>7 DEF SearchInv

\* A step that changes nothing preserves the invariant.
LEMMA StutterSearch ==
  ASSUME SearchInv, UNCHANGED searchVars
  PROVE  SearchInv'
  BY DEF searchVars, SearchInv, SearchTypeOK, WalkInv, GroupInv, FrontierInv,
         NoNodeTwice,
         OneCallPerNode, LargestInv, Earlier, Searching, Closed

(***************************************************************************)
(* The inductive invariant holds in every reachable state of every network.*)
(***************************************************************************)
THEOREM SearchInvariance == SearchSpec => []SearchInv
<1>1. SearchInit => SearchInv
  BY InitSearchInv
<1>2. SearchInv /\ [SearchNext]_searchVars => SearchInv'
  BY SkipProcessedSearch, StartSearch, DiscoverSearch, IgnoreSearch,
     ReturnSearch, FinishSearch, StutterSearch DEF SearchNext, SearchTerminated
<1> QED
  BY <1>1, <1>2, PTL DEF SearchSpec

\* The variables keep their types.
THEOREM SearchTypeCorrect == SearchSpec => []SearchTypeOK
<1>1. SearchInv => SearchTypeOK
  BY DEF SearchInv
<1> QED
  BY <1>1, SearchInvariance, PTL

(***************************************************************************)
(* What updateConnexGroup returns with is the component of the node it was *)
(* started from.                                                           *)
(***************************************************************************)
THEOREM GroupCorrect == SearchSpec => []GroupIsComponent
<1>1. SearchInv => GroupIsComponent
  BY FinishedGroup DEF GroupIsComponent
<1> QED
  BY <1>1, SearchInvariance, PTL

\* The vectors that are compared and swapped hold no node twice.
THEOREM GroupsHaveNoDuplicate == SearchSpec => []NoNodeTwice
<1>1. SearchInv => NoNodeTwice
  BY DEF SearchInv
<1> QED
  BY <1>1, SearchInvariance, PTL

\* The depth of the recursion is bounded by the size of the group.
THEOREM RecursionBounded == SearchSpec => []OneCallPerNode
<1>1. SearchInv => OneCallPerNode
  BY DEF SearchInv
<1> QED
  BY <1>1, SearchInvariance, PTL

-----------------------------------------------------------------------------
(***************************************************************************)
(* Refinement of MainConnex.                                               *)
(***************************************************************************)

\* Both modules speak of the same components.
LEMMA SearchSameComponent ==
  ASSUME NEW nb, NEW s
  PROVE  Abstract!Component(nb, s) = Component(nb, s)
  BY DEF Abstract!Component, Component, Abstract!Closed, Closed,
         Abstract!Linked, Linked, Abstract!Node, Node, Abstract!ToSet, ToSet

\* Cardinality is that of the library in both modules.
LEMMA SearchSameCardinality ==
  ASSUME NEW S
  PROVE  Abstract!Cardinality(S) = Cardinality(S)
  BY DEF Abstract!Cardinality, Cardinality

\* Skipping a marked node is a step of MainConnex that keeps main: the node's
\* component is no larger than the main one.
LEMMA SkipProcessedRefines ==
  ASSUME SearchInv, SkipProcessed
  PROVE  Abstract!Process
<1> USE DEF SkipProcessed, Presents, Searching
<1>1. presented \in Earlier
  BY ToSetEmpty DEF Earlier
<1>2. presented \in Node
  BY <1>1 DEF SearchInv, SearchTypeOK, Earlier
<1>3. Cardinality(Component(neighbours, presented))
        <= Cardinality(ToSet(mainConnexity))
  BY <1>1 DEF SearchInv, LargestInv, NoNodeTwice
<1>4. /\ Cardinality(Component(neighbours, presented)) \in Nat
      /\ Cardinality(ToSet(mainConnexity)) \in Nat
  BY <1>2, ComponentFinite, FS_CardinalityType DEF SearchInv, SearchTypeOK, NoNodeTwice
<1>5. ~(Cardinality(ToSet(mainConnexity))
          < Cardinality(Component(neighbours, presented)))
  BY <1>3, <1>4
<1> QED
  BY <1>5, SearchSameComponent, SearchSameCardinality DEF Abstract!Process

\* The end of a search is the step of MainConnex on its starting node.
LEMMA FinishRefines ==
  ASSUME SearchInv, Finish
  PROVE  Abstract!Process
<1> USE DEF Finish, Beats
<1>1. presented \in Node /\ ToSet(group) = Component(neighbours, presented)
  BY FinishedGroup
<1>2. presented <= N
  BY <1>1, NAssumption DEF Node
<1>3. Beats <=> Cardinality(ToSet(mainConnexity))
                  < Cardinality(Component(neighbours, presented))
  BY <1>1 DEF SearchInv, NoNodeTwice
<1>4. ToSet(mainConnexity') =
         IF Cardinality(ToSet(mainConnexity))
              < Cardinality(Component(neighbours, presented))
         THEN Component(neighbours, presented) ELSE ToSet(mainConnexity)
  BY <1>1, <1>3
<1> QED
  BY <1>2, <1>4, SearchSameComponent, SearchSameCardinality DEF Abstract!Process

(***************************************************************************)
(* Every behaviour of the depth-first search is, seen through the set of   *)
(* nodes of mainConnexity, a behaviour of MainConnex (safety part): the    *)
(* algorithm ends with the largest component of the network, the first met *)
(* among those of that size.                                               *)
(***************************************************************************)
THEOREM SearchRefines ==
  SearchSpec => Abstract!Init /\ [][Abstract!Next]_(Abstract!vars)
<1>1. SearchInit => Abstract!Init
  BY ToSetEmpty DEF SearchInit, Abstract!Init
<1>2. SearchInv /\ [SearchNext]_searchVars => [Abstract!Next]_(Abstract!vars)
  <2> SUFFICES ASSUME SearchInv, [SearchNext]_searchVars
               PROVE  Abstract!Next \/ UNCHANGED Abstract!vars
    OBVIOUS
  <2> USE DEF Abstract!vars, Abstract!Next
  <2>1. CASE SkipProcessed
    BY <2>1, SkipProcessedRefines
  <2>2. CASE Start
    BY <2>2 DEF Start
  <2>3. CASE Discover
    BY <2>3 DEF Discover
  <2>4. CASE Ignore
    BY <2>4 DEF Ignore
  <2>5. CASE Return
    BY <2>5 DEF Return
  <2>6. CASE Finish
    BY <2>6, FinishRefines
  <2>7. CASE UNCHANGED searchVars
    BY <2>7 DEF searchVars
  <2> QED
    BY <2>1, <2>2, <2>3, <2>4, <2>5, <2>6, <2>7 DEF SearchNext, SearchTerminated
<1> QED
  BY <1>1, <1>2, SearchInvariance, PTL DEF SearchSpec

-----------------------------------------------------------------------------
(***************************************************************************)
(* What Context takes for the search.                                      *)
(***************************************************************************)

\* The group a search ends with is one of those Context chooses from.
GroupIsListed ==
    Searching /\ stack = <<>> => group \in Groups[neighbours][presented]

(***************************************************************************)
(* MainConnexComponentAlgorithm ends, on each node it searches from, with  *)
(* a listing of the component that starts with this node: the groups that  *)
(* WalkNode of Context compares are those the recursion may give it.       *)
(***************************************************************************)
THEOREM SearchListsGroups == SearchSpec => []GroupIsListed
<1>1. ASSUME SearchInv
      PROVE  GroupIsListed
  <2> SUFFICES ASSUME Searching, stack = <<>>
               PROVE  group \in Groups[neighbours][presented]
    BY DEF GroupIsListed
  <2> DEFINE C == Component(neighbours, presented)
             D == 1..Cardinality(C)
  <2>1. presented \in Node /\ ToSet(group) = C /\ group[1] = presented
    BY <1>1, FinishedGroup DEF SearchInv, GroupInv
  <2>2. /\ neighbours \in Networks /\ group \in Seq(Node)
        /\ Len(group) = Cardinality(C)
    BY <1>1, <2>1 DEF SearchInv, SearchTypeOK, NoNodeTwice
  <2>3. DOMAIN group = D /\ C = {group[i] : i \in D}
    BY <2>1, <2>2 DEF ToSet
  <2>4. group \in Surjection(D, C)
    BY <2>2, <2>3 DEF Surjection
  <2>5. IsFiniteSet(D) /\ Cardinality(D) = Cardinality(C)
    <3>1. Cardinality(C) \in Nat
      BY <2>2
    <3> QED
      BY <3>1, FS_Interval
  <2> HIDE DEF C, D
  <2>6. group \in Injection(D, C)
    BY <2>4, <2>5, FS_SurjSameCardinalityImpliesInj
  <2>7. group \in [D -> C] /\ \A i, j \in D : i # j => group[i] # group[j]
    BY <2>6 DEF Injection, IsInjective
  <2>8. group \in SetToSeqs(C)
    BY <2>7 DEF SetToSeqs, D
  <2> QED
    BY <2>1, <2>2, <2>8 DEF Groups, C
<1> QED
  BY <1>1, SearchInvariance, PTL

-----------------------------------------------------------------------------
(***************************************************************************)
(* The inductive invariant.                                                *)
(***************************************************************************)

\* Of the nodes of S, m has the highest voltage, then the most neighbours.
Best(d, m, S) ==
    /\ m \in S
    /\ \A n \in S :
          \/ d.voltage[n] < d.voltage[m]
          \/ /\ d.voltage[n] = d.voltage[m]
             /\ Len(d.neighbours[n]) <= Len(d.neighbours[m])

\* The nodes of the main component visited so far.
MainBefore == {mainConnexNodes[i] : i \in 1..cursor-1}

\* The vector of the main component lists a component of the network, as soon as
\* one node has been walked.
MainInv ==
    IF pc = "walk" /\ cursor = 1 THEN mainConnexNodes = <<>>
    ELSE \E n \in Node : mainConnexNodes \in Groups[input.neighbours][n]

\* Where the slack node comes from.
OriginInv ==
    /\ slackNodeOrigin = "FILE" <=> FromFile
    /\ slackNodeOrigin = "FILE" => slackNode = input.slack /\ slackNode \in Node

\* What a slack node of the algorithm is the best of.
SlackInv ==
    slackNodeOrigin = "ALGORITHM" =>
        /\ pc \in {"walk", "recompute"} /\ cursor = 1 => slackNode = NoNode
        /\ pc = "walk" /\ cursor > 1 => Best(input, slackNode, 1..cursor-1)
        /\ pc \in {"filter", "check"} => Best(input, slackNode, Node)
        /\ pc = "recompute" /\ cursor > 1 => Best(input, slackNode, MainBefore)
        /\ pc = "walkMain" \/ result = "ready" => Best(input, slackNode, MainNodes)

\* Where process() is.
ControlInv ==
    /\ pc = "walk" => cursor <= N
    /\ pc = "recompute" =>
          slackNodeOrigin = "ALGORITHM" /\ cursor \in 1..Len(mainConnexNodes)
    /\ pc = "walkMain" =>
          /\ cursor \in 1..Len(mainConnexNodes)+1
          /\ slackNode \in MainNodes
          /\ generators = input.regulating \intersect MainBefore
    /\ pc \notin {"walkMain", "returned"} => generators = {}
    /\ pc # "returned" => result = "none"
    /\ result = "ready" => slackNode \in MainNodes

IInv ==
    /\ TypeOK
    /\ MainInv
    /\ OriginInv
    /\ SlackInv
    /\ ControlInv
    /\ VerdictIsRight

-----------------------------------------------------------------------------
(***************************************************************************)
(* Networks and their components.                                          *)
(***************************************************************************)

\* The component of a node is a finite set of nodes that contains it.
LEMMA ComponentNodes ==
  ASSUME NEW nb, NEW n \in Node
  PROVE  /\ n \in Component(nb, n)
         /\ Component(nb, n) \subseteq Node
         /\ IsFiniteSet(Component(nb, n))
         /\ Cardinality(Component(nb, n)) \in 0..N
<1>1. n \in Component(nb, n) /\ Component(nb, n) \in SUBSET Node
  BY DEF Component
<1>2. IsFiniteSet(Node) /\ Cardinality(Node) = N
  BY NAssumption, FS_Interval DEF Node
<1> QED
  BY <1>1, <1>2, FS_Subset, FS_CardinalityType, NAssumption

\* The description is one, over networks.
LEMMA InputType ==
  ASSUME input \in Descriptions
  PROVE  /\ IsDescription(input)
         /\ input.neighbours \in Networks
         /\ \A n \in Node : input.voltage[n] \in Nat /\ Degree(n) \in Nat
         /\ \A n \in Node : Len(input.neighbours[n]) \in Nat
         /\ input.slack \in Node \union {NoNode}
<1>1. IsDescription(input) /\ IsNetwork(input.neighbours)
  BY DescriptionsAssumption, NetworksAssumption DEF IsDescription
<1>2. \A n \in Node : input.neighbours[n] \in Seq(Node)
  BY <1>1 DEF IsNetwork
<1> QED
  BY <1>1, <1>2 DEF IsDescription, Degree

\* The group of a node lists its component, from that node on.
LEMMA GroupListsComponent ==
  ASSUME input \in Descriptions, NEW n \in Node,
         NEW g \in Groups[input.neighbours][n]
  PROVE  /\ g \in Seq(Node)
         /\ ToSet(g) = Component(input.neighbours, n)
         /\ Len(g) = Cardinality(ToSet(g))
         /\ Len(g) \in 1..N
<1> DEFINE c == Component(input.neighbours, n)
<1>1. g \in SetToSeqs(c)
  BY InputType DEF Groups
<1>2. IsFiniteSet(c) /\ c \subseteq Node /\ n \in c /\ Cardinality(c) \in 0..N
  BY ComponentNodes
<1> HIDE DEF c
<1>3. g \in Seq(c) /\ ToSet(g) = c /\ Len(g) = Cardinality(c)
  BY <1>1, <1>2, ListingCovers
<1>4. Cardinality(c) # 0
  <2>1. c # {}
    BY <1>2
  <2> QED
    BY <1>2, <2>1, FS_EmptySet
<1>5. g \in Seq(Node)
  BY <1>2, <1>3, SeqMonotonic
<1> QED
  BY <1>2, <1>3, <1>4, <1>5, NAssumption DEF c

\* The vector of the main component, as soon as it is not empty.
LEMMA MainNodesFacts ==
  ASSUME IInv, pc # "walk" \/ cursor # 1
  PROVE  /\ mainConnexNodes \in Seq(Node)
         /\ Len(mainConnexNodes) \in 1..N
         /\ Len(mainConnexNodes) = Cardinality(MainNodes)
         /\ MainNodes = {mainConnexNodes[i] : i \in 1..Len(mainConnexNodes)}
         /\ MainNodes \subseteq Node
<1>1. PICK n \in Node : mainConnexNodes \in Groups[input.neighbours][n]
  BY DEF IInv, MainInv
<1>2. /\ mainConnexNodes \in Seq(Node)
      /\ Len(mainConnexNodes) \in 1..N
      /\ Len(mainConnexNodes) = Cardinality(MainNodes)
  BY <1>1, GroupListsComponent DEF IInv, TypeOK, MainNodes
<1>3. DOMAIN mainConnexNodes = 1..Len(mainConnexNodes)
  BY <1>2
<1>4. MainNodes = {mainConnexNodes[i] : i \in 1..Len(mainConnexNodes)}
  BY <1>3 DEF MainNodes, ToSet
<1>5. MainNodes \subseteq Node
  BY <1>2, ToSetType DEF MainNodes
<1> QED
  BY <1>2, <1>4, <1>5

\* The comparison of SlackNodeAlgorithm keeps the best of the nodes presented.
LEMMA BestAfter ==
  ASSUME input \in Descriptions, NEW S \in SUBSET Node, NEW n \in Node,
         NEW current, IF current = NoNode THEN S = {} ELSE Best(input, current, S)
  PROVE  Best(input, SlackAfter(current, n), S \union {n})
<1>1. \A m \in Node : /\ input.voltage[m] \in Nat /\ Degree(m) \in Nat
                      /\ Degree(m) = Len(input.neighbours[m])
  BY InputType DEF Degree
<1>2. CASE current = NoNode
  BY <1>1, <1>2 DEF SlackAfter, Best
<1>3. CASE current # NoNode
  <2>1. current \in Node
    BY <1>3 DEF Best
  <2> QED
    BY <1>1, <1>3, <2>1 DEF SlackAfter, Best, Less
<1> QED
  BY <1>2, <1>3

-----------------------------------------------------------------------------
(***************************************************************************)
(* The steps.                                                              *)
(***************************************************************************)

\* What the constructor leaves.
LEMMA InitInv == Init => IInv
<1> SUFFICES ASSUME Init PROVE IInv
  OBVIOUS
<1> USE DEF Init
<1>1. /\ input.slack \in Node \union {NoNode}
      /\ 1 \in 1..N+1 /\ 1 <= N
  BY InputType, NAssumption, NotEmpty
<1>2. TypeOK
  BY <1>1 DEF TypeOK, FromFile
<1>3. OriginInv
  BY <1>1 DEF OriginInv, FromFile
<1>4. MainInv /\ SlackInv /\ ControlInv /\ VerdictIsRight
  BY <1>1 DEF MainInv, SlackInv, ControlInv, VerdictIsRight
<1> QED
  BY <1>2, <1>3, <1>4 DEF IInv

\* One node of the walk: the slack node is the best of those presented so far.
LEMMA WalkNodeInv ==
  ASSUME IInv, WalkNode
  PROVE  IInv'
<1> USE DEF WalkNode
<1>1. /\ cursor \in Node /\ cursor \in Nat /\ input \in Descriptions /\ N \in Nat
      /\ pc = "walk" /\ pc' \in {"walk", "filter"} /\ cursor' = cursor + 1
      /\ pc' = "walk" <=> cursor # N
  BY NAssumption DEF IInv, TypeOK, Node
<1>2. PICK g \in Groups[input.neighbours][cursor] :
         mainConnexNodes' = KeepLargest(mainConnexNodes, g)
  OBVIOUS
<1>3. g \in Seq(Node) /\ Len(g) \in 1..N
  BY <1>1, GroupListsComponent
<1>4. MainInv'
  <2>1. mainConnexNodes = <<>> => mainConnexNodes' = g
    <3>1. Len(<<>>) = 0 /\ 0 < Len(g)
      BY <1>3
    <3> QED
      BY <1>2, <3>1 DEF KeepLargest
  <2>2. \E n \in Node : mainConnexNodes' \in Groups[input.neighbours][n]
    <3>1. CASE mainConnexNodes' = g
      BY <1>1, <3>1
    <3>2. CASE mainConnexNodes' # g
      <4>1. mainConnexNodes' = mainConnexNodes
        BY <1>2, <3>2 DEF KeepLargest
      <4>2. ~(pc = "walk" /\ cursor = 1)
        BY <2>1, <3>2 DEF IInv, MainInv
      <4> QED
        BY <4>1, <4>2 DEF IInv, MainInv
    <3> QED
      BY <3>1, <3>2
  <2>3. ~(pc' = "walk" /\ cursor' = 1) /\ input' = input
    BY <1>1, NotEmpty DEF Node
  <2> QED
    BY <2>2, <2>3 DEF MainInv
<1>5. OriginInv'
  BY DEF IInv, OriginInv, FromFile
<1>6. slackNodeOrigin = "ALGORITHM" => Best(input, slackNode', 1..cursor)
  <2>1. slackNodeOrigin = "ALGORITHM" =>
           IF slackNode = NoNode THEN 1..cursor-1 = {}
           ELSE Best(input, slackNode, 1..cursor-1)
    <3>1. CASE cursor = 1
      BY <1>1, <3>1 DEF IInv, SlackInv
    <3>2. CASE cursor # 1
      BY <1>1, <3>2, NotEmpty DEF IInv, SlackInv, Best, TypeOK, Node
    <3> QED
      BY <3>1, <3>2
  <2>2. 1..cursor-1 \in SUBSET Node /\ 1..cursor = (1..cursor-1) \union {cursor}
    BY <1>1 DEF Node
  <2> QED
    BY <1>1, <2>1, <2>2, BestAfter
<1>7. slackNode' \in Node
  BY <1>1, <1>5, <1>6 DEF OriginInv, Best, Node, IInv, TypeOK
<1>8. SlackInv'
  BY <1>1, <1>6 DEF IInv, SlackInv, ControlInv, Best, Node
<1>9. TypeOK'
  <2>1. mainConnexNodes' \in Seq(Node)
    BY <1>2, <1>3 DEF KeepLargest, IInv, TypeOK
  <2>2. dynamicModels' \in SUBSET Connection
    BY <1>1, InputType DEF IInv, TypeOK, IsDescription
  <2>3. cursor' \in 1..N+1
    BY <1>1 DEF Node
  <2>4. slackNode' # NoNode
    BY <1>7, NotEmpty
  <2> QED
    BY <1>1, <1>7, <2>1, <2>2, <2>3, <2>4 DEF IInv, TypeOK
<1>10. ControlInv' /\ VerdictIsRight'
  BY <1>1 DEF IInv, ControlInv, VerdictIsRight, Node
<1> QED
  BY <1>4, <1>5, <1>8, <1>9, <1>10 DEF IInv

\* The filter of the dynamic models leaves the slack node alone.
LEMMA FilterModelsInv ==
  ASSUME IInv, FilterModels
  PROVE  IInv'
<1> USE DEF FilterModels
<1>1. TypeOK'
  BY DEF IInv, TypeOK
<1>2. MainInv' /\ OriginInv' /\ SlackInv' /\ ControlInv' /\ VerdictIsRight'
  BY DEF IInv, MainInv, OriginInv, FromFile, SlackInv, ControlInv, VerdictIsRight
<1> QED
  BY <1>1, <1>2 DEF IInv

\* The slack node is accepted: the best of all the nodes is that of the main ones.
LEMMA AcceptSlackInv ==
  ASSUME IInv, AcceptSlack
  PROVE  IInv'
<1> USE DEF AcceptSlack
<1>1. /\ MainNodes \subseteq Node /\ Len(mainConnexNodes) \in 1..N
      /\ slackNode \in MainNodes /\ slackNode # NoNode
  BY MainNodesFacts, NotEmpty DEF checkConnexity, MainNodes
<1>2. TypeOK'
  BY <1>1, NAssumption DEF IInv, TypeOK
<1>3. MainInv' /\ OriginInv'
  BY DEF IInv, MainInv, OriginInv, FromFile
<1>4. MainBefore' = {}
  <2>1. 1..cursor'-1 = {}
    OBVIOUS
  <2> QED
    BY <2>1 DEF MainBefore
<1>5. generators = {}
  BY DEF IInv, ControlInv
<1>6. SlackInv'
  <2>1. slackNodeOrigin = "ALGORITHM" => Best(input, slackNode, MainNodes)
    BY <1>1 DEF IInv, SlackInv, Best
  <2>2. pc' = "walkMain" /\ UNCHANGED <<input, slackNode, slackNodeOrigin>>
        /\ MainNodes' = MainNodes
    BY DEF MainNodes
  <2> QED
    BY <2>1, <2>2 DEF SlackInv
<1>7. ControlInv' /\ VerdictIsRight'
  BY <1>1, <1>4, <1>5 DEF IInv, ControlInv, VerdictIsRight, MainNodes
<1> QED
  BY <1>2, <1>3, <1>6, <1>7 DEF IInv

\* The imposed slack node is refused.
LEMMA RefuseSlackInv ==
  ASSUME IInv, RefuseSlack
  PROVE  IInv'
<1> USE DEF RefuseSlack
<1>1. FromFile /\ slackNode = input.slack /\ slackNode \notin MainNodes
  BY DEF IInv, OriginInv, SlackIsImposed, checkConnexity, MainNodes
<1>2. TypeOK'
  BY DEF IInv, TypeOK
<1>3. MainInv' /\ OriginInv' /\ SlackInv' /\ ControlInv'
  BY DEF IInv, MainInv, OriginInv, FromFile, SlackInv, ControlInv, SlackIsImposed
<1>4. VerdictIsRight'
  BY <1>1 DEF VerdictIsRight, FromFile, MainNodes
<1> QED
  BY <1>2, <1>3, <1>4 DEF IInv

\* The slack node of the algorithm is outside of the main component.
LEMMA ResetSlackInv ==
  ASSUME IInv, ResetSlack
  PROVE  IInv'
<1> USE DEF ResetSlack
<1>1. slackNodeOrigin = "ALGORITHM" /\ slackNode' = NoNode
  BY DEF IInv, TypeOK, SlackIsImposed, Reset
<1>2. Len(mainConnexNodes) \in 1..N
  BY MainNodesFacts
<1>3. TypeOK'
  BY <1>1, NAssumption DEF IInv, TypeOK
<1>4. MainInv' /\ OriginInv'
  BY <1>1 DEF IInv, MainInv, OriginInv, FromFile
<1>5. SlackInv' /\ ControlInv' /\ VerdictIsRight'
  BY <1>1, <1>2 DEF IInv, SlackInv, ControlInv, VerdictIsRight
<1> QED
  BY <1>3, <1>4, <1>5 DEF IInv

\* One more node of the main component is before the cursor.
LEMMA MainBeforeNext ==
  ASSUME IInv, pc \in {"recompute", "walkMain"}, cursor <= Len(mainConnexNodes)
  PROVE  /\ cursor \in 1..N /\ mainConnexNodes[cursor] \in Node
         /\ MainBefore \in SUBSET Node
         /\ MainBefore \union {mainConnexNodes[cursor]} =
               {mainConnexNodes[i] : i \in 1..cursor}
<1>1. /\ mainConnexNodes \in Seq(Node) /\ Len(mainConnexNodes) \in 1..N
      /\ cursor \in 1..Len(mainConnexNodes)
  BY MainNodesFacts, NAssumption DEF IInv, ControlInv, TypeOK
<1>2. \A i \in 1..cursor : mainConnexNodes[i] \in Node
  BY <1>1, NAssumption
<1> QED
  BY <1>1, <1>2, NAssumption DEF MainBefore

\* One node of the recomputation, up to the last one of the main component.
LEMMA RecomputeSlackInv ==
  ASSUME IInv, RecomputeSlack
  PROVE  IInv'
<1> USE DEF RecomputeSlack
<1> DEFINE node == mainConnexNodes[cursor]
<1>1. /\ slackNodeOrigin = "ALGORITHM" /\ cursor \in 1..Len(mainConnexNodes)
      /\ input \in Descriptions /\ slackNode' = SlackAfter(slackNode, node)
      /\ Len(mainConnexNodes) \in 1..N /\ N \in Nat
  BY MainNodesFacts, NAssumption DEF IInv, ControlInv, TypeOK
<1>2. /\ node \in Node /\ MainBefore \in SUBSET Node
      /\ MainBefore \union {node} = {mainConnexNodes[i] : i \in 1..cursor}
  BY <1>1, MainBeforeNext
<1>3. IF slackNode = NoNode THEN MainBefore = {}
      ELSE Best(input, slackNode, MainBefore)
  <2>1. CASE cursor = 1
    BY <1>1, <2>1 DEF IInv, SlackInv, MainBefore
  <2>2. CASE cursor # 1
    BY <1>1, <1>2, <2>2, NotEmpty DEF IInv, SlackInv, Best
  <2> QED
    BY <2>1, <2>2
<1>4. Best(input, slackNode', {mainConnexNodes[i] : i \in 1..cursor})
  BY <1>1, <1>2, <1>3, BestAfter
<1>5. slackNode' \in Node /\ slackNode' # NoNode
  BY <1>1, <1>2, <1>4, NotEmpty DEF Best
<1>6. MainInv' /\ OriginInv'
  BY <1>1 DEF IInv, MainInv, OriginInv, FromFile
<1>7. CASE cursor = Len(mainConnexNodes)
  <2>1. /\ pc' = "walkMain" /\ cursor' = 1
        /\ MainNodes = {mainConnexNodes[i] : i \in 1..cursor}
    BY <1>7, MainNodesFacts
  <2>2. MainBefore' = {} /\ generators = {}
    <3>1. 1..cursor'-1 = {}
      BY <2>1
    <3> QED
      BY <3>1 DEF MainBefore, IInv, ControlInv
  <2>3. TypeOK'
    BY <1>1, <1>5, <2>1 DEF IInv, TypeOK
  <2>4. Best(input, slackNode', MainNodes) /\ slackNode' \in MainNodes
    BY <1>4, <2>1 DEF Best
  <2>5. MainNodes' = MainNodes /\ result' = "none" /\ input' = input
        /\ generators' = {} /\ mainConnexNodes' = mainConnexNodes
    BY <2>2 DEF MainNodes, IInv, ControlInv
  <2>6. SlackInv'
    BY <2>1, <2>4, <2>5 DEF SlackInv
  <2>7. ControlInv' /\ VerdictIsRight'
    BY <1>1, <2>1, <2>2, <2>4, <2>5 DEF ControlInv, VerdictIsRight
  <2> QED
    BY <1>6, <2>3, <2>6, <2>7 DEF IInv
<1>8. CASE cursor # Len(mainConnexNodes)
  <2>1. /\ pc' = "recompute" /\ cursor' = cursor + 1
        /\ MainBefore' = {mainConnexNodes[i] : i \in 1..cursor}
    BY <1>1, <1>8 DEF MainBefore
  <2>2. TypeOK'
    BY <1>1, <1>5, <1>8, <2>1 DEF IInv, TypeOK
  <2>3. SlackInv' /\ ControlInv' /\ VerdictIsRight'
    BY <1>1, <1>4, <1>8, <2>1 DEF IInv, SlackInv, ControlInv, VerdictIsRight
  <2> QED
    BY <1>6, <2>2, <2>3 DEF IInv
<1> QED
  BY <1>7, <1>8

\* One node of walkNodesMain.
LEMMA WalkMainNodeInv ==
  ASSUME IInv, WalkMainNode
  PROVE  IInv'
<1> USE DEF WalkMainNode
<1>1. /\ cursor \in 1..Len(mainConnexNodes) /\ cursor' \in 1..Len(mainConnexNodes)+1
      /\ Len(mainConnexNodes) \in 1..N /\ N \in Nat
      /\ slackNode \in MainNodes /\ MainNodes \subseteq Node
  BY MainNodesFacts, NAssumption DEF IInv, ControlInv
<1>2. MainBefore' = MainBefore \union {MainNode}
  BY <1>1, MainBeforeNext DEF MainBefore, MainNode
<1>3. generators' = input.regulating \intersect MainBefore'
  BY <1>2 DEF IInv, ControlInv
<1>4. input.regulating \subseteq Node /\ slackNode # NoNode
  BY <1>1, InputType, NotEmpty DEF IInv, TypeOK, IsDescription
<1>5. TypeOK'
  BY <1>1, <1>3, <1>4 DEF IInv, TypeOK
<1>6. MainInv' /\ OriginInv' /\ SlackInv'
  BY DEF IInv, MainInv, OriginInv, FromFile, SlackInv, MainNodes
<1>7. ControlInv' /\ VerdictIsRight'
  BY <1>1, <1>3 DEF IInv, ControlInv, VerdictIsRight, MainNodes
<1> QED
  BY <1>5, <1>6, <1>7 DEF IInv

\* The end: all the nodes of the main component have been walked.
LEMMA ConcludeInv ==
  ASSUME IInv, Conclude
  PROVE  IInv'
<1> USE DEF Conclude
<1>1. /\ cursor - 1 = Len(mainConnexNodes) /\ slackNode \in MainNodes
      /\ generators = input.regulating \intersect MainBefore
  BY MainNodesFacts, NAssumption DEF IInv, ControlInv
<1>2. generators = input.regulating \intersect MainNodes
  BY <1>1, MainNodesFacts DEF MainBefore
<1>3. FromFile => input.slack \in MainNodes
  BY <1>1 DEF IInv, OriginInv
<1>4. TypeOK'
  BY DEF IInv, TypeOK, Verdict
<1>5. MainInv' /\ OriginInv' /\ SlackInv' /\ ControlInv'
  BY <1>1 DEF IInv, MainInv, OriginInv, FromFile, SlackInv, ControlInv, Verdict, MainNodes
<1>6. VerdictIsRight'
  BY <1>2, <1>3 DEF VerdictIsRight, Verdict, FromFile, MainNodes
<1> QED
  BY <1>4, <1>5, <1>6 DEF IInv

\* A step that changes nothing.
LEMMA StutterInv ==
  ASSUME IInv, UNCHANGED vars
  PROVE  IInv'
<1> USE DEF vars
<1>1. TypeOK'
  BY DEF IInv, TypeOK
<1>2. MainInv' /\ OriginInv' /\ SlackInv'
  BY DEF IInv, MainInv, OriginInv, FromFile, SlackInv, MainNodes, MainBefore
<1>3. ControlInv' /\ VerdictIsRight'
  BY DEF IInv, ControlInv, VerdictIsRight, MainNodes, MainBefore
<1> QED
  BY <1>1, <1>2, <1>3 DEF IInv

\* Every step of process() keeps the invariant.
LEMMA NextInv == IInv /\ [Next]_vars => IInv'
BY WalkNodeInv, FilterModelsInv, AcceptSlackInv, RefuseSlackInv, ResetSlackInv,
   RecomputeSlackInv, WalkMainNodeInv, ConcludeInv, StutterInv DEF Next, Terminated

-----------------------------------------------------------------------------
(***************************************************************************)
(* The results.                                                            *)
(***************************************************************************)

\* The invariant holds in every reachable state.
LEMMA Invariance == Spec => []IInv
BY InitInv, NextInv, PTL DEF Spec

\* The pointers process() dereferences are set where it does.
THEOREM TypeCorrect == Spec => []TypeOK
<1>1. IInv => TypeOK
  BY DEF IInv
<1> QED
  BY <1>1, Invariance, PTL

(***************************************************************************)
(* The slack node is in the main component when process() has passed its   *)
(* check, whether it was imposed, chosen, or chosen again.                 *)
(***************************************************************************)
THEOREM SlackIsInMainComponent == Spec => []SlackInMainComponent
<1>1. IInv => SlackInMainComponent
  BY DEF IInv, ControlInv, SlackInMainComponent
<1> QED
  BY <1>1, Invariance, PTL

\* A node has at most as many connected nodes as neighbours.
LEMMA ConnectedNodesAtMostDegree ==
  ASSUME input \in Descriptions, NEW n \in Node
  PROVE  /\ ConnectedNodes(n) \in Nat /\ Degree(n) \in Nat
         /\ ConnectedNodes(n) <= Degree(n)
<1>1. input.neighbours[n] \in Seq(Node)
  BY DescriptionsAssumption, NetworksAssumption DEF IsDescription, IsNetwork
<1>2. ToSet(input.neighbours[n]) \ {n} \subseteq ToSet(input.neighbours[n])
  OBVIOUS
<1> QED
  BY <1>1, <1>2, ElementsAtMostLength DEF ConnectedNodes, Degree

(***************************************************************************)
(* A slack node of the algorithm is the best node of the main component,   *)
(* even when it was chosen among the nodes of the whole network; when its  *)
(* neighbours are repeated, only their number is the greatest.             *)
(***************************************************************************)
THEOREM ChosenSlackIsBest == Spec => []SlackIsBest
<1>1. ASSUME IInv, pc = "walkMain" \/ result = "ready", slackNodeOrigin = "ALGORITHM",
             NEW n \in MainNodes
      PROVE  \/ input.voltage[n] < input.voltage[slackNode]
             \/ /\ input.voltage[n] = input.voltage[slackNode]
                /\ \/ ConnectedNodes(n) <= ConnectedNodes(slackNode)
                   \/ HasRepeatedNeighbours(slackNode) /\ Degree(n) <= Degree(slackNode)
  <2>1. \/ input.voltage[n] < input.voltage[slackNode]
        \/ /\ input.voltage[n] = input.voltage[slackNode]
           /\ Degree(n) <= Degree(slackNode)
    BY <1>1 DEF IInv, SlackInv, Best, Degree
  <2>2. input \in Descriptions /\ n \in Node /\ slackNode \in Node
    <3>1. MainNodes \subseteq Node
      BY <1>1 DEF IInv, TypeOK, MainNodes, ToSet
    <3> QED
      BY <1>1, <3>1 DEF IInv, TypeOK, SlackInv, Best
  <2>3. /\ ConnectedNodes(n) <= Degree(n)
        /\ {ConnectedNodes(n), ConnectedNodes(slackNode), Degree(n), Degree(slackNode)} \subseteq Nat
    BY <2>2, ConnectedNodesAtMostDegree
  <2> QED
    BY <2>1, <2>3 DEF HasRepeatedNeighbours
<1>2. IInv => SlackIsBest
  BY <1>1 DEF SlackIsBest
<1> QED
  BY <1>2, Invariance, PTL

(***************************************************************************)
(* process() never replaces the slack node the network file imposes.       *)
(***************************************************************************)
THEOREM ImposedSlackIsKept == Spec => FileSlackKept
<1>1. IInv /\ [Next]_vars => [slackNodeOrigin = "FILE" => slackNode' = slackNode]_vars
  <2> SUFFICES ASSUME IInv, [Next]_vars, slackNodeOrigin = "FILE"
               PROVE  slackNode' = slackNode
    OBVIOUS
  <2>1. IInv'
    BY NextInv
  <2>2. UNCHANGED <<input, slackNodeOrigin>>
    BY DEF Next, WalkNode, FilterModels, AcceptSlack, RefuseSlack, ResetSlack,
           RecomputeSlack, WalkMainNode, Conclude, Terminated, vars
  <2> QED
    BY <2>1, <2>2 DEF IInv, OriginInv
<1> QED
  BY <1>1, Invariance, PTL DEF Spec, FileSlackKept

(***************************************************************************)
(* process() accepts the networks whose imposed slack node, if any, is in  *)
(* the main component and where a generator is defined there, no others.   *)
(***************************************************************************)
THEOREM VerdictsAreRight == Spec => []VerdictIsRight
<1>1. IInv => VerdictIsRight
  BY DEF IInv
<1> QED
  BY <1>1, Invariance, PTL

\* Both modules speak of the same components and cardinalities.
LEMMA SameComponent ==
  ASSUME NEW nb, NEW n
  PROVE  Walk!Component(nb, n) = Component(nb, n)
BY DEF Walk!Component, Component, Walk!Closed, Closed, Walk!Linked, Linked,
       Walk!Node, Node, Walk!ToSet, ToSet

\* MainConnex counts as Context does.
LEMMA SameCardinality ==
  ASSUME NEW S
  PROVE  Walk!Cardinality(S) = Cardinality(S)
BY DEF Walk!Cardinality, Cardinality

\* The callback of the main component on one node: KeepLargest compares vectors
\* as MainConnex compares components.
LEMMA WalkNodeRefines ==
  ASSUME IInv, WalkNode
  PROVE  Walk!Process
<1> USE DEF WalkNode
<1> DEFINE component == Component(input.neighbours, cursor)
<1>1. /\ cursor \in Node /\ input \in Descriptions /\ pc = "walk"
      /\ N \in Nat /\ cursor \in 1..N
  BY NAssumption DEF IInv, TypeOK, Node
<1>2. PICK g \in Groups[input.neighbours][cursor] :
         mainConnexNodes' = KeepLargest(mainConnexNodes, g)
  OBVIOUS
<1>3. ToSet(g) = component /\ Len(g) = Cardinality(component)
  BY <1>1, GroupListsComponent
<1>4. Len(mainConnexNodes) = Cardinality(MainNodes)
  <2>1. CASE cursor = 1
    <3>1. mainConnexNodes = <<>> /\ MainNodes = {}
      BY <1>1, <2>1, ToSetEmpty DEF IInv, MainInv, MainNodes
    <3>2. Cardinality({}) = 0 /\ Len(<<>>) = 0
      BY FS_EmptySet
    <3> QED
      BY <3>1, <3>2
  <2>2. CASE cursor # 1
    BY <2>2, MainNodesFacts
  <2> QED
    BY <2>1, <2>2
<1>5. MainNodes' = IF Cardinality(MainNodes) < Cardinality(component)
                   THEN component ELSE MainNodes
  BY <1>2, <1>3, <1>4 DEF KeepLargest, MainNodes
<1>6. (IF pc' = "walk" THEN cursor' ELSE N + 1) = cursor + 1
  BY <1>1
<1> QED
  BY <1>1, <1>5, <1>6, SameComponent, SameCardinality DEF Walk!Process

(***************************************************************************)
(* The walk of Context implements MainConnex: whatever the other callbacks *)
(* and the later stages of process() do, mainConnexNodes_ ends with the    *)
(* largest component, the first met among those of that size.              *)
(***************************************************************************)
THEOREM WalkFindsMainComponent == Spec => MainComponentFound
<1>1. Init => Walk!Init
  <2> SUFFICES ASSUME Init PROVE Walk!Init
    OBVIOUS
  <2>1. input.neighbours \in Networks /\ MainNodes = {}
    BY InputType, ToSetEmpty DEF Init, MainNodes
  <2> QED
    BY <2>1 DEF Init, Walk!Init
<1>2. IInv /\ [Next]_vars => [Walk!Next]_(Walk!vars)
  <2> SUFFICES ASSUME IInv, [Next]_vars
               PROVE  Walk!Next \/ UNCHANGED Walk!vars
    OBVIOUS
  <2>1. CASE WalkNode
    BY <2>1, WalkNodeRefines DEF Walk!Next
  <2>2. CASE ~WalkNode
    <3>1. /\ UNCHANGED <<input, mainConnexNodes>>
          /\ \/ pc # "walk" /\ pc' # "walk"
             \/ UNCHANGED <<pc, cursor>>
      BY <2>2 DEF Next, FilterModels, AcceptSlack, RefuseSlack, ResetSlack,
                  RecomputeSlack, WalkMainNode, Conclude, Terminated, vars
    <3> QED
      BY <3>1 DEF Walk!vars, MainNodes
  <2> QED
    BY <2>1, <2>2
<1> QED
  BY <1>1, <1>2, Invariance, PTL DEF Spec, MainComponentFound

=============================================================================
