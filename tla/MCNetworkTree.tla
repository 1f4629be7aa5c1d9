---------------------------- MODULE MCNetworkTree ----------------------------
(***************************************************************************)
(* Instances of NetworkTree for TLC: three buses in one voltage level or   *)
(* two, in either order, with a switch that may close on its own bus; the  *)
(* branches include parallel lines, a line and a transformer with two ends *)
(* on one bus, and every set of connected ends.                            *)
(***************************************************************************)
EXTENDS NetworkTree

MCN == 3

At(b) == [bus |-> b]
LoadAt(b, on) == [bus |-> b, connected |-> on]
SvarcAt(b, on, standBy, control) ==
    [bus |-> b, connected |-> on, standBy |-> standBy,
     reactiveControl |-> control]

Empty == [buses |-> <<>>, shunts |-> <<>>, loads |-> <<>>, switches |-> <<>>,
          svarcs |-> <<>>]

\* A level with two buses and a switch, and one with a single bus.
Pair(b, c, ends, open) ==
    [Empty EXCEPT
        !.buses = <<b, c>>,
        !.shunts = <<At(c), At(c)>>,
        !.loads = <<LoadAt(b, TRUE), LoadAt(b, FALSE), LoadAt(c, TRUE)>>,
        !.switches = <<[ends |-> ends, open |-> open]>>]
Single(b, standBy, control) ==
    [Empty EXCEPT
        !.buses = <<b>>,
        !.shunts = <<At(b)>>,
        !.svarcs = <<SvarcAt(b, TRUE, standBy, control),
                     SvarcAt(b, standBy, TRUE, TRUE)>>]

MCLevels ==
    {<<Pair(3, 1, e, o), Single(2, s, c)>> :
        e \in {<<1, 3>>, <<3, 3>>}, o \in BOOLEAN,
        s \in BOOLEAN, c \in BOOLEAN}
    \union
    {<<Single(3, TRUE, TRUE), Empty, Pair(1, 2, <<2, 1>>, o)>> : o \in BOOLEAN}

Line(b, c, on) == [ends |-> <<b, c>>, connected |-> on]
Tfo(b, c, d, on) == [ends |-> <<b, c, d>>, connected |-> on]

MCLines == {<<>>, <<Line(1, 2, {1, 2}), Line(2, 1, {1, 2})>>} \union
           {<<Line(1, 1, {1, 2}), Line(2, 3, on)>> : on \in SUBSET {1, 2}}

MCDescriptions ==
    [levels : MCLevels,
     lines : MCLines,
     twoWindings : {<<>>} \union
                   {<<Line(1, 3, on)>> : on \in {{2}, {1, 2}}},
     threeWindings : {<<Tfo(3, 1, 2, on)>> : on \in {{1, 2}, {1, 2, 3}}}
                     \union {<<Tfo(2, 2, 1, {1, 2, 3})>>},
     slack : {NoNode, 2, 4}]

============================================================================
