----------------------------- MODULE ConnexAlgo -----------------------------
(***************************************************************************)
(* MainConnexComponentAlgorithm (Algo.cpp) driven by walkNodes: one        *)
(* depth-first search per node that no earlier search has marked, written  *)
(* as the recursive updateConnexGroup.  The recursion is modelled by its   *)
(* call stack: an activation iterates over the neighbours of one node, and *)
(* no node has two activations, so an activation is the node it iterates   *)
(* for, and its iterator is position[node].                                *)
(***************************************************************************)
EXTENDS Connexity

VARIABLES
    neighbours,     \* Node::neighbours, fixed once buildTree has returned
    presented,      \* the position of walkNodes in the map of nodes
    markedNodes,    \* nodes already put in a group
    group,          \* the local ConnexGroup of operator(), <<>> outside it
    stack,          \* the pending calls of updateConnexGroup, last one active
    position,       \* the iterator of each call, as an index in neighbours
    mainConnexity   \* the largest group so far, owned by Context

searchVars == <<neighbours, presented, markedNodes, group, stack, position,
                mainConnexity>>

SearchTypeOK ==
    /\ neighbours \in Networks
    /\ presented \in 1..N+1
    /\ markedNodes \in SUBSET Node
    /\ group \in Seq(Node)
    /\ stack \in Seq(Node)
    /\ position \in [Node -> Nat]
    /\ mainConnexity \in Seq(Node)

\* operator() is running: its local group holds at least the starting node.
Searching == group # <<>>

\* The node whose neighbours the innermost call iterates over.
Active == stack[Len(stack)]

HasNext == position[Active] <= Len(neighbours[Active])

\* The node the innermost call looks at.
Candidate == neighbours[Active][position[Active]]

\* walkNodes has a node to present.
Presents == ~Searching /\ presented <= N

SearchInit ==
    /\ neighbours \in Networks
    /\ presented = 1
    /\ markedNodes = {}
    /\ group = <<>>
    /\ stack = <<>>
    /\ position = [n \in Node |-> 1]
    /\ mainConnexity = <<>>

-----------------------------------------------------------------------------
(***************************************************************************)
(* operator() on a node that an earlier search has marked: early return.   *)
(***************************************************************************)
SkipProcessed ==
    /\ Presents
    /\ presented \in markedNodes
    /\ presented' = presented + 1
    /\ UNCHANGED <<neighbours, markedNodes, group, stack, position,
                   mainConnexity>>

\* The nodes Start marks; faulty variant: the insertion is forgotten.
MarkStartForgotten == markedNodes
MarkStart == markedNodes \union {presented}

(***************************************************************************)
(* operator() on a new node: mark it, put it in a new group, and call      *)
(* updateConnexGroup on its neighbours.                                    *)
(***************************************************************************)
Start ==
    /\ Presents
    /\ presented \notin markedNodes
    /\ markedNodes' = MarkStart
    /\ group' = <<presented>>
    /\ stack' = <<presented>>
    /\ UNCHANGED <<neighbours, presented, position, mainConnexity>>

\* The call stack once the recursive call on n's neighbours is made; faulty
\* variant: only the direct neighbours of the starting node are collected.
CallForgotten(n) == stack
Call(n) == Append(stack, n)

(***************************************************************************)
(* updateConnexGroup meets a node no group has: mark it, add it to the     *)
(* group and recurse on its neighbours.                                    *)
(***************************************************************************)
Discover ==
    /\ stack # <<>>
    /\ HasNext
    /\ Candidate \notin markedNodes
    /\ markedNodes' = markedNodes \union {Candidate}
    /\ group' = Append(group, Candidate)
    /\ stack' = Call(Candidate)
    /\ position' = [position EXCEPT ![Active] = @ + 1]
    /\ UNCHANGED <<neighbours, presented, mainConnexity>>

\* Where the iterator goes after a marked node; faulty variant: nowhere.
StayOnMarked(p) == p
PassMarked(p) == p + 1

\* updateConnexGroup meets a node some group already has.
Ignore ==
    /\ stack # <<>>
    /\ HasNext
    /\ Candidate \in markedNodes
    /\ position' = [position EXCEPT ![Active] = PassMarked(@)]
    /\ UNCHANGED <<neighbours, presented, markedNodes, group, stack,
                   mainConnexity>>

\* updateConnexGroup reaches the end of the vector and returns to its caller.
Return ==
    /\ stack # <<>>
    /\ ~HasNext
    /\ stack' = Front(stack)
    /\ UNCHANGED <<neighbours, presented, markedNodes, group, position,
                   mainConnexity>>

\* When group replaces the main component; faulty variant: also on equality.
BeatsOrEquals == Len(mainConnexity) <= Len(group)
Beats == Len(mainConnexity) < Len(group)

(***************************************************************************)
(* The outermost call has returned: operator() keeps the group if it is    *)
(* strictly larger, its local group dies, and walkNodes moves on.          *)
(***************************************************************************)
Finish ==
    /\ Searching
    /\ stack = <<>>
    /\ mainConnexity' = IF Beats THEN group ELSE mainConnexity
    /\ group' = <<>>
    /\ presented' = presented + 1
    /\ UNCHANGED <<neighbours, markedNodes, stack, position>>

\* walkNodes has presented every node.
Done == ~Searching /\ presented = N + 1

SearchTerminated == Done /\ UNCHANGED searchVars

SearchNext ==
    \/ SkipProcessed
    \/ Start
    \/ Discover
    \/ Ignore
    \/ Return
    \/ Finish
    \/ SearchTerminated

(***************************************************************************)
(* The algorithm is sequential code that nothing can suspend: some step is *)
(* always taken while one is possible.                                     *)
(***************************************************************************)
SearchSpec ==
    SearchInit /\ [][SearchNext]_searchVars /\ WF_searchVars(SearchNext)

-----------------------------------------------------------------------------
(***************************************************************************)
(* When the outermost updateConnexGroup returns, the group is exactly the  *)
(* connex component of the node operator() was called on, although nodes   *)
(* marked by earlier searches were never entered.                          *)
(***************************************************************************)
GroupIsComponent ==
    Searching /\ stack = <<>> =>
        ToSet(group) = Component(neighbours, presented)

(***************************************************************************)
(* No node is put twice in a group, so that comparing the sizes of the     *)
(* vectors (mainConnexity_.size() < group.size()) compares components, and *)
(* walkNodesMain calls the algorithms of the main component once per node. *)
(***************************************************************************)
NoNodeTwice ==
    /\ Len(group) = Cardinality(ToSet(group))
    /\ Len(mainConnexity) = Cardinality(ToSet(mainConnexity))

(***************************************************************************)
(* The recursion of updateConnexGroup is never deeper than the group: a    *)
(* node has at most one pending call.                                      *)
(***************************************************************************)
OneCallPerNode ==
    /\ IsInjective(stack)
    /\ Len(stack) <= Len(group)

(***************************************************************************)
(* The inductive invariant behind the properties above, in named parts.    *)
(* Earlier is what the finished searches marked.                           *)
(***************************************************************************)
Earlier == markedNodes \ ToSet(group)

\* The walk has marked all it presented, and whole components only.
WalkInv ==
    /\ 1..presented-1 \subseteq Earlier
    /\ Closed(neighbours, Earlier)

\* The running search stays in the component of its starting node.
GroupInv ==
    /\ Searching => group[1] = presented
    /\ ToSet(group) \subseteq markedNodes
    /\ ToSet(group) \subseteq Component(neighbours, presented)

\* Every iterator is in its vector, and all it has passed is marked; a node
\* of the group whose call has returned has been iterated to the end.
FrontierInv ==
    /\ ToSet(stack) \subseteq ToSet(group)
    /\ \A n \in Node :
          /\ position[n] \in 1..Len(neighbours[n]) + 1
          /\ n \notin markedNodes => position[n] = 1
    /\ \A n \in ToSet(group) :
          /\ \A i \in 1..position[n] - 1 : neighbours[n][i] \in markedNodes
          /\ n \notin ToSet(stack) => position[n] = Len(neighbours[n]) + 1

\* The main component is a component, and none met so far is larger.
LargestInv ==
    /\ mainConnexity # <<>> =>
          \E n \in Earlier : ToSet(mainConnexity) = Component(neighbours, n)
    /\ \A n \in Earlier :
          Cardinality(Component(neighbours, n)) <= Len(mainConnexity)

SearchInv ==
    /\ SearchTypeOK
    /\ WalkInv
    /\ GroupInv
    /\ FrontierInv
    /\ NoNodeTwice
    /\ OneCallPerNode
    /\ LargestInv

-----------------------------------------------------------------------------
(***************************************************************************)
(* The search implements the one-step description of MainConnex.           *)
(***************************************************************************)
Abstract == INSTANCE MainConnex WITH
                cursor <- presented, main <- ToSet(mainConnexity)

\* Property form of the refinement, for TLC.
ImplementsMainConnex == Abstract!Spec

\* Each search ends and the walk presents every node.
Termination == <>Done

============================================================================
