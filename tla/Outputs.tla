------------------------------- MODULE Outputs -------------------------------
(***************************************************************************)
(* The writers of the inputs of Dynawo: Dyd::write, Par::write and         *)
(* Diagram::write, called in this order by Context::exportOutputs on the   *)
(* definitions the algorithms have made.  The three files refer to one     *)
(* another by ids that each writer composes on its own: a model to its     *)
(* parameter set, a parameter set to macro sets and to tables, a           *)
(* connection to models and connectors.                                    *)
(*                                                                         *)
(* Only ids are modelled, as pairs of a prefix and a name: the values of   *)
(* parameters and variables are left out, and so is the collision of the   *)
(* hashes of two ids.                                                      *)
(***************************************************************************)
EXTENDS Naturals, SequencesExt

CONSTANTS
    Name,         \* the names of elements, buses and automatons
    Descriptions  \* the definitions considered

Generator == [id : Name, kind : {"LOCAL", "REMOTE", "PROP"},
              diagram : BOOLEAN, regulatedBusId : Name, fixedP : BOOLEAN]
HvdcLine == [id : Name, converters : [{1, 2} -> Name], buses : [{1, 2} -> Name],
             position : {"FIRST", "SECOND", "BOTH"}, diagram : BOOLEAN,
             pqProp : BOOLEAN]

(***************************************************************************)
(* The ends of a line in the main component, the first of which is the     *)
(* first terminal of the model.                                            *)
(***************************************************************************)
MainEnds(h) == IF h.position = "BOTH" THEN {1, 2}
               ELSE IF h.position = "SECOND" THEN {2} ELSE {1}

(***************************************************************************)
(* A description gives                                                     *)
(*   loads, svarcs           the ids of the loads and compensators         *)
(*   generators, hvdcLines   the definitions; fixedP: targetP is null      *)
(*   busesWithDynamicModel, vscBuses   the keys of the two maps of shared  *)
(*                           buses; GeneratorAlgo and HvdcAlgo show that   *)
(*                           they are those the definitions refer to       *)
(*   models                  the macro connections of each dynamic model   *)
(*   usedMacroConnections    those DynModelAlgorithm has met; DynModelAlgo *)
(*                           shows that the models use no other            *)
(*   macroConnections        those the assembling file defines             *)
(*   sets                    the sets of the setting file                  *)
(* The definitions are sets, as their order only shows in that of files.   *)
(* Ids are unique: elements of a network and automatons share no id.       *)
(***************************************************************************)
HaveUniqueIds(d) ==
    LET kinds == <<d.loads, d.svarcs, {g.id : g \in d.generators},
                   {h.id : h \in d.hvdcLines}, DOMAIN d.models>>
    IN  /\ \A i, j \in 1..5 : i # j => kinds[i] \intersect kinds[j] = {}
        /\ \A g, h \in d.generators : g.id = h.id => g = h
        /\ \A g, h \in d.hvdcLines : g.id = h.id => g = h

IsDescription(d) ==
    /\ IsFiniteSet(d.loads) /\ IsFiniteSet(d.svarcs) /\ IsFiniteSet(d.generators)
    /\ IsFiniteSet(d.hvdcLines) /\ IsFiniteSet(DOMAIN d.models)
    /\ d.loads \in SUBSET Name /\ d.svarcs \in SUBSET Name
    /\ d.generators \in SUBSET Generator
    /\ d.hvdcLines \in SUBSET HvdcLine
    /\ HaveUniqueIds(d)
    /\ d.busesWithDynamicModel =
          {g.regulatedBusId : g \in {x \in d.generators : x.kind = "PROP"}}
    /\ d.vscBuses = UNION {{h.buses[e] : e \in MainEnds(h)} :
                              h \in {x \in d.hvdcLines : x.pqProp}}
    /\ d.usedMacroConnections \in SUBSET Name
    /\ \A a \in DOMAIN d.models :
          a \in Name /\ d.models[a] \subseteq d.usedMacroConnections
    /\ d.macroConnections \in SUBSET Name
    /\ d.sets \in SUBSET Name

ASSUME DescriptionsAssumption == \A d \in Descriptions : IsDescription(d)

VARIABLES
    input,       \* the definitions, read-only
    stage,       \* the writer to call next
    models,      \* the models of the dyd file, with their parId
    connections, \* the pairs of models it connects
    connectors,  \* its macro connectors
    uses,        \* the macro connectors used by its macro connects
    sets,        \* the parameter sets of the par file
    macroSets,   \* its macro parameter sets
    tables       \* the elements with a file in the directory of diagrams

vars == <<input, stage, models, connections, connectors, uses, sets,
          macroSets, tables>>

\* The ids of the models and of the parameter sets.
Element(n) == <<"", n>>
Constant(s) == <<"constant", s>>
SignalNQ(bus) == <<"Model_Signal_NQ_", bus>>
Hash(n) == <<"hash", n>>
NETWORK == Constant("NETWORK")
SignalN == Constant("Model_Signal_N")
NoParId == Constant("")

Suffix == {"signalNGenerator", "propSignalNGenerator", "remoteVControl",
           "signalNGeneratorFixedP", "propSignalNGeneratorFixedP",
           "remoteSignalNFixedP"}
MacroId == {"_vr", "SVarC"} \union Suffix

ModelId == {SignalN} \union UNION {{Element(n), SignalNQ(n)} : n \in Name}
ParId == {Constant(s) : s \in Suffix \union {"GenericRestorativeLoad"}}
             \union UNION {{Element(n), SignalNQ(n), Hash(n)} : n \in Name}

FixedConnectors ==
    {Constant(c) : c \in {"LOAD_NETWORK_CONNECTOR", "GEN_NETWORK_CONNECTOR",
                          "GEN_SIGNALN_CONNECTOR",
                          "StaticVarCompensatorMacroConnector"}}
ConnectorId == FixedConnectors \union {Element(m) : m \in Name}

TypeOK ==
    /\ IsDescription(input)
    /\ stage \in {"dyd", "par", "diagrams", "done"}
    /\ models \in Seq([id : ModelId, parId : ParId \union {NoParId}])
    /\ connections \in SUBSET (ModelId \X (ModelId \union {NETWORK}))
    /\ connectors \in SUBSET ConnectorId
    /\ uses \in SUBSET ConnectorId
    /\ sets \in Seq([id : ParId, macros : SUBSET MacroId, tables : SUBSET Name])
    /\ macroSets \in SUBSET MacroId
    /\ tables \in SUBSET Name

Init ==
    /\ input \in Descriptions
    /\ stage = "dyd"
    /\ models = <<>>
    /\ connections = {}
    /\ connectors = {}
    /\ uses = {}
    /\ sets = <<>>
    /\ macroSets = {}
    /\ tables = {}

-----------------------------------------------------------------------------
(***************************************************************************)
(* Dyd::write.                                                             *)
(***************************************************************************)

\* writeGenerator; the models without diagram share constant sets.
GeneratorParId(g) ==
    IF g.diagram THEN Hash(g.id)
    ELSE IF g.kind = "PROP" THEN Constant("propSignalNGenerator")
    ELSE IF g.kind = "REMOTE" THEN Constant("remoteVControl")
    ELSE IF g.fixedP THEN Constant("signalNGeneratorFixedP")
    ELSE Constant("signalNGenerator")

writeGenerator(g) == [id |-> Element(g.id), parId |-> GeneratorParId(g)]

\* The model of a shared bus.
writeVRRemote(bus) == [id |-> SignalNQ(bus), parId |-> SignalNQ(bus)]

\* writeHvdcLine, writeDynamicModel and writeSVarC.
OwnSet(n) == [id |-> Element(n), parId |-> Element(n)]

writeLoad(l) ==
    [id |-> Element(l), parId |-> Constant("GenericRestorativeLoad")]

writeConstantsModel == <<[id |-> SignalN, parId |-> NoParId]>>

\* What a loop writes for the elements of a container, in the order of this
\* container; Write gives what it writes for each.
Each(Write) ==
    LET order == SetToSeq(DOMAIN Write) IN [i \in DOMAIN order |-> Write[order[i]]]

HvdcIds == {h.id : h \in input.hvdcLines}

Models ==
    Each([l \in input.loads |-> writeLoad(l)])
    \o writeConstantsModel
    \o Each([g \in input.generators |-> writeGenerator(g)])
    \o Each([h \in HvdcIds |-> OwnSet(h)])
    \o Each([b \in input.busesWithDynamicModel |-> writeVRRemote(b)])
    \o Each([b \in input.vscBuses |-> writeVRRemote(b)])
    \o Each([a \in DOMAIN input.models |-> OwnSet(a)])
    \o Each([c \in input.svarcs |-> OwnSet(c)])

\* The connections by addConnect, and the second model of macro connects.
writeVRRemoteConnect(bus) == <<SignalNQ(bus), NETWORK>>

GenConnections(g) ==
    {<<Element(g.id), NETWORK>>, <<Element(g.id), SignalN>>} \union
    IF g.kind = "PROP"
    THEN {<<Element(g.id), SignalNQ(g.regulatedBusId)>>} ELSE {}

writeHvdcLineConnect(h) ==
    {<<Element(h.id), NETWORK>>} \union
    IF h.pqProp THEN {<<Element(h.id), SignalNQ(h.buses[e])>> :
                         e \in MainEnds(h)} ELSE {}

Connections ==
    {<<Element(n), NETWORK>> :
        n \in input.loads \union input.svarcs \union DOMAIN input.models}
    \union (UNION {writeHvdcLineConnect(h) : h \in input.hvdcLines})
    \union {writeVRRemoteConnect(b) :
               b \in input.busesWithDynamicModel \union input.vscBuses}
    \union {<<SignalN, NETWORK>>}
    \union (UNION {GenConnections(g) : g \in input.generators})

\* A macro connection that is used and not defined is skipped with a warning.
writeDynamicModelMacroConnectors ==
    {Element(m) : m \in input.usedMacroConnections
                           \intersect input.macroConnections}

Uses ==
    (UNION {{Element(m) : m \in input.models[a]} : a \in DOMAIN input.models})
    \union {c \in FixedConnectors :
        \/ c = Constant("LOAD_NETWORK_CONNECTOR") /\ input.loads # {}
        \/ c = Constant("StaticVarCompensatorMacroConnector")
              /\ input.svarcs # {}
        \/ c \in {Constant("GEN_NETWORK_CONNECTOR"),
                  Constant("GEN_SIGNALN_CONNECTOR")} /\ input.generators # {}}

WriteDyd ==
    /\ stage = "dyd"
    /\ models' = Models
    /\ connections' = Connections
    /\ connectors' = FixedConnectors \union writeDynamicModelMacroConnectors
    /\ uses' = Uses
    /\ stage' = "par"
    /\ UNCHANGED <<input, sets, macroSets, tables>>

-----------------------------------------------------------------------------
(***************************************************************************)
(* Par::write.                                                             *)
(***************************************************************************)
getGeneratorParameterSetId(g) ==
    IF g.kind = "PROP"
    THEN IF g.fixedP THEN "propSignalNGeneratorFixedP" ELSE "propSignalNGenerator"
    ELSE IF g.kind = "REMOTE"
    THEN IF g.fixedP THEN "remoteSignalNFixedP" ELSE "remoteVControl"
    ELSE IF g.fixedP THEN "signalNGeneratorFixedP" ELSE "signalNGenerator"

\* The macro sets are those ids behind a prefix that is left out here.
getMacroParameterSetId(g) == getGeneratorParameterSetId(g)

Plain(id) == [id |-> id, macros |-> {}, tables |-> {}]

\* Par::writeGenerator, for a model with a diagram.
GeneratorSet(g) == [id |-> Hash(g.id), macros |-> {getMacroParameterSetId(g)},
                    tables |-> {g.id}]

WithDiagram == {g \in input.generators : g.diagram}
WithoutDiagram == input.generators \ WithDiagram

\* writeConstantGeneratorsSets, once per id; faulty variant: hasParametersSet
\* is not asked first.
ConstantSetsRepeated ==
    Each([g \in WithoutDiagram |-> Plain(Constant(getGeneratorParameterSetId(g)))])
ConstantSets ==
    Each([id \in {getGeneratorParameterSetId(g) : g \in WithoutDiagram} |->
             Plain(Constant(id))])

\* The tables of writeHdvcLine are those of the converters of the main ends.
writeHvdcLine(h) ==
    [id |-> Element(h.id), macros |-> {},
     tables |-> IF h.diagram THEN {h.converters[e] : e \in MainEnds(h)} ELSE {}]

RemoteSet(bus) == [id |-> SignalNQ(bus), macros |-> {"_vr"}, tables |-> {}]

writeStaticVarCompensator(s) ==
    [id |-> Element(s), macros |-> {"SVarC"}, tables |-> {}]

\* writeDynamicModelParameterSet leaves the sets of absent models out.
SettingSets == input.sets \intersect DOMAIN input.models

Sets ==
    <<Plain(Constant("GenericRestorativeLoad"))>>
    \o Each([g \in WithDiagram |-> GeneratorSet(g)])
    \o ConstantSets
    \o Each([c \in input.svarcs |-> writeStaticVarCompensator(c)])
    \o Each([h \in input.hvdcLines |-> writeHvdcLine(h)])
    \o Each([b \in input.busesWithDynamicModel |-> RemoteSet(b)])
    \o Each([b \in input.vscBuses |-> RemoteSet(b)])
    \o Each([s \in SettingSets |-> Plain(Element(s))])

\* A macro set is added with the first set that needs it.
MacroSets ==
    {getMacroParameterSetId(g) : g \in WithDiagram}
    \union (IF input.svarcs # {} THEN {"SVarC"} ELSE {})
    \union (IF input.busesWithDynamicModel \union input.vscBuses # {}
            THEN {"_vr"} ELSE {})

WritePar ==
    /\ stage = "par"
    /\ sets' = Sets
    /\ macroSets' = MacroSets
    /\ stage' = "diagrams"
    /\ UNCHANGED <<input, models, connections, connectors, uses, tables>>

-----------------------------------------------------------------------------
(***************************************************************************)
(* Diagram::write: one file per generator and converter with a diagram.    *)
(* The converters written; faulty variant: the first one of any line.      *)
(***************************************************************************)
FirstConverter(h) == {h.converters[1]}
ConvertersOf(h) ==
    (IF h.position \in {"FIRST", "BOTH"} THEN {h.converters[1]} ELSE {})
    \union (IF h.position \in {"SECOND", "BOTH"} THEN {h.converters[2]} ELSE {})

WriteDiagrams ==
    /\ stage = "diagrams"
    /\ tables' = {g.id : g \in WithDiagram} \union
                 UNION {ConvertersOf(h) :
                           h \in {x \in input.hvdcLines : x.diagram}}
    /\ stage' = "done"
    /\ UNCHANGED <<input, models, connections, connectors, uses, sets,
                   macroSets>>

Terminated == stage = "done" /\ UNCHANGED vars

Next ==
    \/ WriteDyd
    \/ WritePar
    \/ WriteDiagrams
    \/ Terminated

Spec == Init /\ [][Next]_vars

-----------------------------------------------------------------------------
ModelIds == {m.id : m \in ToSet(models)}
SetIds == {s.id : s \in ToSet(sets)}

(***************************************************************************)
(* A generator whose model has no diagram, regulates with others or        *)
(* remotely, and has a null target: Dyd gives it the set of a generator    *)
(* that compensates, Par writes only the one of a fixed power, which the   *)
(* comments of Constants.h say such a generator uses.                      *)
(***************************************************************************)
ForgottenFixedP(g) == g.fixedP /\ ~g.diagram /\ g.kind # "LOCAL"

\* Every model of the dyd file finds its parameters in the par file: but for
\* those generators and for automatons the setting file has no set for.
ParametersResolve ==
    \A m \in ToSet(models) :
        \/ m.parId \in SetIds \union {NoParId}
        \/ \E g \in input.generators : m.id = Element(g.id) /\ ForgottenFixedP(g)
        \/ \E a \in DOMAIN input.models \ input.sets : m.id = Element(a)

\* Every connection is between models of the dyd file or with the network, by
\* a connector of this file unless the assembling file has no such one.
ConnectionsResolve ==
    /\ \A c \in connections : {c[1], c[2]} \subseteq ModelIds \union {NETWORK}
    /\ uses \subseteq connectors \union
           {Element(m) : m \in Name \ input.macroConnections}

\* Every table and macro set a parameter set names is written.
TablesResolve ==
    \A s \in ToSet(sets) : s.tables \subseteq tables /\ s.macros \subseteq macroSets

(***************************************************************************)
(* When the three writers have returned, no reference of their files is    *)
(* left without what it refers to, but for the exceptions stated above;    *)
(* and no parameter set or table is written for nothing.                   *)
(***************************************************************************)
ReferencesResolve ==
    stage = "done" =>
        /\ ParametersResolve
        /\ ConnectionsResolve
        /\ TablesResolve
        /\ tables \subseteq UNION {s.tables : s \in ToSet(sets)}

(***************************************************************************)
(* An id names one model and one parameter set, as long as no bus is       *)
(* regulated both by several generators and by several converters: the     *)
(* two loops on shared buses would then use the same id.                   *)
(***************************************************************************)
IdsUnique ==
    input.busesWithDynamicModel \intersect input.vscBuses = {} =>
        /\ Cardinality(ModelIds) = Len(models)
        /\ Cardinality(SetIds) = Len(sets)

============================================================================
