------------------------------ MODULE MCContext ------------------------------
(***************************************************************************)
(* Instances of Context for TLC.  The graphs include an isolated node      *)
(* beside a main component, two components of the same size, and nodes     *)
(* linked by parallel lines; the voltages leave ties.                      *)
(***************************************************************************)
EXTENDS Context

MCN == 4

\* The neighbour table of a list of lines, as Line::build fills it.
Table(lines) ==
    [n \in 1..MCN |->
        LET touching == SelectSeq(lines, LAMBDA l : n \in {l[1], l[2]})
        IN  [i \in DOMAIN touching |->
                IF touching[i][1] = n THEN touching[i][2] ELSE touching[i][1]]]

MCNetworks ==
    {Table(lines) : lines \in {
        <<>>,
        << <<1, 2>> >>,
        << <<3, 4>> >>,
        << <<1, 2>>, <<3, 4>> >>,
        << <<1, 3>>, <<2, 4>>, <<2, 4>> >>,
        << <<2, 3>>, <<3, 4>> >>,
        << <<1, 2>>, <<2, 3>>, <<1, 3>> >>,
        << <<1, 4>>, <<4, 2>>, <<2, 3>> >>,
        << <<1, 2>>, <<1, 2>>, <<1, 4>>, <<4, 3>> >>}}

MCRequired == [a \in {"tapChangers", "shuntControl"} |->
                  IF a = "tapChangers" THEN {"bus", "transformer"} ELSE {"bus"}]

\* No element, all of them on one node, or spread over two nodes.
Nothing == [n \in 1..MCN |-> {}]
MCConnections ==
    {Nothing,
     [Nothing EXCEPT ![2] = {<<"tapChangers", "bus">>}],
     [Nothing EXCEPT ![1] = {<<"tapChangers", "bus">>,
                             <<"shuntControl", "bus">>},
                     ![3] = {<<"tapChangers", "transformer">>}]}

MCDescriptions ==
    [neighbours : MCNetworks,
     voltage : {<<1, 1, 1, 1>>, <<2, 1, 1, 1>>, <<1, 2, 1, 2>>,
                <<1, 1, 1, 2>>, <<1, 1, 2, 1>>},
     slack : {2, 4, NoNode},
     automatic : BOOLEAN,
     regulating : {{}, {1}, {2, 4}},
     connections : MCConnections]

============================================================================
