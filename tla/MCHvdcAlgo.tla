----------------------------- MODULE MCHvdcAlgo -----------------------------
(***************************************************************************)
(* Instances of HvdcAlgo for TLC: three lines between three buses, the     *)
(* first line with its first end, without loss of generality, on bus A.    *)
(***************************************************************************)
EXTENDS HvdcAlgo

CONSTANTS A, B, C

MCL == 3
MCBus == {A, B, C}
MCConverter == (1..MCL) \X {1, 2}

MCDescriptions ==
    {d \in [type : {<<"VSC", "VSC", "VSC">>, <<"VSC", "VSC", "LCC">>},
            bus : [MCConverter -> MCBus],
            connected : {MCConverter, MCConverter \ {<<2, 1>>},
                         MCConverter \ {<<3, 2>>}},
            control : {{}, {1, 3}},
            main : {{A, B}, {A, B, C}},
            infinite : {TRUE}] :
        d.bus[<<1, 1>>] = A}
    \union
    \* a finite reactive limit only changes the flag of the model
    [type : {<<"VSC", "VSC", "LCC">>},
     bus : [MCConverter -> {A, C}],
     connected : {MCConverter},
     control : {{1, 3}},
     main : {{A}, {A, C}},
     infinite : {FALSE}]

============================================================================
