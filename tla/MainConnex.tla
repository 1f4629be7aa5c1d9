----------------------------- MODULE MainConnex -----------------------------
(***************************************************************************)
(* What MainConnexComponentAlgorithm promises to Context, whatever way the *)
(* components are explored: when walkNodes has presented the nodes         *)
(* 1..cursor-1, main is the largest of their connex components and, among  *)
(* components of that size, the one met first.                             *)
(***************************************************************************)
EXTENDS Connexity

VARIABLES
    neighbours,  \* the network
    cursor,      \* the next node walkNodes presents to the algorithm
    main         \* the nodes of the main connex component found so far

vars == <<neighbours, cursor, main>>

Init ==
    /\ neighbours \in Networks
    /\ cursor = 1
    /\ main = {}

\* One call of the algorithm, on the node the walk has reached.
Process ==
    /\ cursor <= N
    /\ cursor' = cursor + 1
    /\ LET component == Component(neighbours, cursor)
       IN  main' = IF Cardinality(main) < Cardinality(component)
                   THEN component ELSE main
    /\ UNCHANGED neighbours

Next == Process

Spec == Init /\ [][Next]_vars /\ WF_vars(Next)

============================================================================
