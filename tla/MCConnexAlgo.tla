---------------------------- MODULE MCConnexAlgo ----------------------------
(***************************************************************************)
(* Instances of ConnexAlgo for TLC: every undirected graph on N nodes,     *)
(* each with its neighbours in increasing order, in decreasing order, and  *)
(* with every line doubled and a line that closes on its own node.         *)
(***************************************************************************)
EXTENDS ConnexAlgo

CONSTANT MCN

Pairs == {e \in SUBSET (1..MCN) : Cardinality(e) = 2}

Adjacent(edges, n) == {m \in 1..MCN : {n, m} \in edges /\ n # m}

Ascending(edges) ==
    [n \in 1..MCN |-> SetToSortSeq(Adjacent(edges, n), <)]

Descending(edges) ==
    [n \in 1..MCN |-> SetToSortSeq(Adjacent(edges, n), >)]

Doubled(edges) ==
    [n \in 1..MCN |-> Ascending(edges)[n] \o <<n>> \o Ascending(edges)[n]]

MCNetworks ==
    UNION {{Ascending(edges), Descending(edges), Doubled(edges)} :
              edges \in SUBSET Pairs}

============================================================================
