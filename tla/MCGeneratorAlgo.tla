--------------------------- MODULE MCGeneratorAlgo ---------------------------
(***************************************************************************)
(* Instances of GeneratorAlgo for TLC: three generators on two buses, of   *)
(* which the first is, without loss of generality, on bus A; they regulate *)
(* these buses or a third one.  The data are a curve or limits that give a *)
(* diagram, a curve that does not, and a generator that is not kept.       *)
(***************************************************************************)
EXTENDS GeneratorAlgo

CONSTANTS A, B, C

MCG == 3
MCBus == {A, B, C}

Base == [connected |-> TRUE, voltageRegulationOn |-> TRUE, minusTargetP |-> 1,
         pmin |-> 0, pmax |-> 1, qmin |-> 0, qmax |-> 1, points |-> <<>>]
Curve(p) == << [p |-> 0, qmin |-> 1, qmax |-> 1],
               [p |-> p, qmin |-> 0, qmax |-> 1] >>

MCData ==
    {[Base EXCEPT !.points = Curve(1)],
     [Base EXCEPT !.points = Curve(0)],
     [Base EXCEPT !.minusTargetP = 2]}

\* More data, for the first generator only.
MCMoreData == MCData \union
    {Base,
     [Base EXCEPT !.qmin = 1],
     [Base EXCEPT !.points = SubSeq(Curve(1), 2, 2)],
     [Base EXCEPT !.connected = FALSE]}

MCSwitched == {[b \in MCBus |-> {}],
               [b \in MCBus |-> IF b = A THEN {B}
                              ELSE IF b = B THEN {A} ELSE {}]}

MCDescriptions ==
    {d \in [bus : [1..MCG -> {A, B}],
            regulated : [1..MCG -> MCBus],
            data : MCMoreData \X MCData \X MCData,
            switched : MCSwitched,
            main : {{A}, {A, B}},
            infinite : BOOLEAN] :
        /\ d.bus[1] = A
        \* an island has no closed switch towards the other bus
        /\ d.main = {A} => d.switched[A] = {}}

============================================================================
