------------------------------ MODULE MCMainTest ------------------------------
(***************************************************************************)
(* Two tests that compare their result, one of them expected to fail, a    *)
(* third that only asks for the help and a fourth without environment; and *)
(* dictionaries of one to three lines.                                     *)
(***************************************************************************)
EXTENDS MainTest

MCTestOf ==
    LET Launch(willFail) == [asks |-> "run", environment |-> TRUE,
                             compares |-> TRUE, willFail |-> willFail]
        Plain(asks, environment) ==
            [asks |-> asks, environment |-> environment, compares |-> FALSE,
             willFail |-> ~environment]
    IN  [launch |-> Launch(FALSE), hvdc |-> Launch(FALSE),
         node_breaker |-> Launch(TRUE),
         help |-> Plain("help", TRUE), varEnv |-> Plain("run", FALSE)]

\* Lines: a comment, with a sign or not; definitions, indented or not, of A, B
\* and AB; one whose key is in two words; a key without message.
Line(head, message) ==
    [head |-> head, sign |-> TRUE, tab |-> FALSE, message |-> message,
     continued |-> FALSE]

A == Line(<<"A">>, "a")
B == Line(<<"B">>, "b")
AB == Line(<<"AB">>, "ab")

Common == {<<[A EXCEPT !.head = <<"//">>, !.sign = FALSE], A, Line(<<"//", "B">>, "x"), B>>}
Unusual ==
    {A, [A EXCEPT !.message = "", !.tab = TRUE], [A EXCEPT !.message = ""],
     [A EXCEPT !.tab = TRUE], [A EXCEPT !.continued = TRUE], B, AB,
     Line(<<"A", "B">>, "other"), Line(<<>>, "a"),
     [AB EXCEPT !.head = <<"A", "B">>, !.sign = FALSE]}

MCDictionaries == {Common, {<<l>> : l \in Unusual}, Unusual \X Unusual}

\* The unusual dictionaries matter to the first launch of one test only.
Focus ==
    \/ lines \in Common
    \/ /\ launches <= 1 /\ test = "launch"
       /\ \A t \in Compared : reference[t] = Absent
=============================================================================
