------------------------------ MODULE MCOutputs ------------------------------
(***************************************************************************)
(* Instances of Outputs for TLC: two generators and an HVDC line that may  *)
(* regulate the same bus, one automaton whose connector or set may be      *)
(* missing, with or without a load and a compensator.                      *)
(***************************************************************************)
EXTENDS Outputs

MCName == {"load", "svarc", "g1", "g2", "line", "c1", "c2", "b1", "b2", "pst",
           "bank", "macro"}

MCGenerators(id) ==
    [id : {id}, kind : {"LOCAL", "REMOTE", "PROP"}, diagram : BOOLEAN,
     regulatedBusId : {"b1", "b2"}, fixedP : BOOLEAN]

MCLine ==
    [id : {"line"}, converters : {<<"c1", "c2">>}, buses : {<<"b1", "b2">>},
     position : {"FIRST", "SECOND", "BOTH"}, diagram : BOOLEAN,
     pqProp : BOOLEAN]

Complete(gens, lines, others, macros, settings) ==
    [loads |-> others \intersect {"load"},
     svarcs |-> others \intersect {"svarc"},
     generators |-> gens,
     hvdcLines |-> lines,
     busesWithDynamicModel |->
        {g.regulatedBusId : g \in {x \in gens : x.kind = "PROP"}},
     vscBuses |-> UNION {{h.buses[e] : e \in MainEnds(h)} :
                            h \in {x \in lines : x.pqProp}},
     models |-> IF "pst" \in others THEN [a \in {"pst"} |-> {"macro"}] ELSE <<>>,
     usedMacroConnections |-> {"macro"},
     macroConnections |-> macros,
     sets |-> settings]

MCDescriptions ==
    {Complete({g, h}, {l}, {"load", "svarc"}, {}, {}) :
        g \in MCGenerators("g1"), h \in MCGenerators("g2"), l \in MCLine}
    \union
    {Complete({g}, {}, others, macros, settings) :
        g \in MCGenerators("g1"), others \in SUBSET {"load", "svarc", "pst"},
        macros \in {{}, {"macro"}}, settings \in {{}, {"pst", "bank"}}}

============================================================================
