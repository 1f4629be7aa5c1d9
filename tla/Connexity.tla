----------------------------- MODULE Connexity -----------------------------
(***************************************************************************)
(* The network graph as the algorithms of DFL::algo see it: the nodes that *)
(* NetworkManager stores in the ordered map nodes_, each with the vector   *)
(* of its neighbours.  A node is represented by its rank in that map, so   *)
(* that walkNodes visits 1, 2, ..., N.  A neighbour occurs in the vector   *)
(* once per line, transformer or closed switch that leads to it.           *)
(***************************************************************************)
EXTENDS Naturals, FiniteSets, SequencesExt

CONSTANTS
    N,        \* the number of nodes of the network
    Networks  \* the neighbour tables the network may have

Node == 1..N

\* m is a neighbour of n in the neighbour table nb.
Linked(nb, n, m) == m \in ToSet(nb[n])

(***************************************************************************)
(* Line::build, Tfo::build and the switches of buildTree always push each  *)
(* end on the neighbours of the other one: the tables are symmetric.       *)
(***************************************************************************)
IsNetwork(nb) ==
    /\ nb \in [Node -> Seq(Node)]
    /\ \A n, m \in Node : Linked(nb, n, m) => Linked(nb, m, n)

ASSUME NAssumption == N \in Nat
ASSUME NetworksAssumption == \A nb \in Networks : IsNetwork(nb)

-----------------------------------------------------------------------------
(***************************************************************************)
(* The reference definition of a connex component, independent of any      *)
(* traversal: the nodes that belong to every set that contains s and is    *)
(* closed under neighbourhood.                                             *)
(***************************************************************************)
Closed(nb, S) == \A n \in S, m \in Node : Linked(nb, n, m) => m \in S

Component(nb, s) ==
    LET closed == {S \in SUBSET Node : s \in S /\ Closed(nb, S)}
    IN  {n \in Node : \A S \in closed : n \in S}

============================================================================
