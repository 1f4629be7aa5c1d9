---------------------------- MODULE DynModelAlgo ----------------------------
(***************************************************************************)
(* The dynamic models of the assembling file: DynModelAlgorithm resolves,  *)
(* at its construction, what each macro connect of an automaton is to be   *)
(* connected to, then collects the connections on each node of the network *)
(* walkNodes presents; Context::filterPartiallyConnectedDynamicModels      *)
(* finally removes the models that miss some of them.                      *)
(*                                                                         *)
(* This module has the steps; DynModelExport runs them between the reading *)
(* of the documents and the writing of the files.                          *)
(***************************************************************************)
EXTENDS Naturals, SequencesExt

CONSTANT N \* the number of nodes

Node == 1..N

(***************************************************************************)
(* input gives the network,                                                *)
(*   level, first       the voltage level of each node, and the first node *)
(*                      of each voltage level (VoltageLevel::nodes)        *)
(*   lines, tfos        the lines and transformers of each node            *)
(*   shunts             the shunts of each node                            *)
(*   libraries          the libraries that can be loaded                   *)
(* and the vectors of the assembling document,                             *)
(*   automatons         [id, lib, connects], the latter a sequence of      *)
(*                      [association, connection]                          *)
(*   singles, multiples the associations [id, targets], no target being    *)
(*                      what a document without schema may give            *)
(***************************************************************************)
VARIABLES
    input,   \* read-only here
    pc,      \* "extract", "walk", "filter" or "done"
    cursor,  \* position in the automatons or in the map of nodes
    wanted,  \* the entries of the four macroConnectBy... tables
    models,  \* dynamicModels_.models: the connections of each model
    usedMacroConnections

modelVars == <<pc, cursor, wanted, models, usedMacroConnections>>

\* What an association designates: the first node of a voltage level, a line or
\* a transformer by its name, or the shunts of a voltage level.
Type == {"NODE", "LINE", "TFO", "SHUNT"}

InitModels ==
    /\ pc = "extract"
    /\ cursor = 1
    /\ wanted = {}
    /\ models = <<>>
    /\ usedMacroConnections = {}

-----------------------------------------------------------------------------
\* The loop on m elements goes to its next one, or is over.
Looping(stage, m) == pc = stage /\ cursor <= m /\ cursor' = cursor + 1
EndOfLoop(stage, m, following) ==
    /\ pc = stage /\ cursor > m
    /\ pc' = following
    /\ cursor' = 1
    /\ UNCHANGED <<wanted, models, usedMacroConnections>>

(***************************************************************************)
(* The maps of associations: an id given twice is that of the last one.    *)
(* Single associations come first, an id in neither map is left out.       *)
(***************************************************************************)
WithId(all, id) == {i \in DOMAIN all : all[i].id = id}
LastOf(all, id) ==
    {all[i] : i \in {k \in WithId(all, id) : \A j \in WithId(all, id) : j <= k}}

Association(id) ==
    IF WithId(input.singles, id) # {} THEN LastOf(input.singles, id)
    ELSE LastOf(input.multiples, id)

Targets(id) == UNION {a.targets : a \in Association(id)}

\* The entries of an automaton.
EntriesOf(a) ==
    UNION {{[model |-> a.id, connection |-> m.connection, target |-> t] :
               t \in Targets(m.association)} : m \in ToSet(a.connects)}

\* One automaton in extractDynModels.
ExtractAutomaton ==
    /\ Looping("extract", Len(input.automatons))
    /\ LET a == input.automatons[cursor]
       IN  wanted' = IF a.lib \in input.libraries THEN wanted \union EntriesOf(a)
                     ELSE wanted
    /\ UNCHANGED <<pc, models, usedMacroConnections>>

-----------------------------------------------------------------------------
\* Whether a target is looked up on node n, and the elements it has there: for
\* a bus, the first node of the voltage level, whatever the node presented.
Matches(t, n) ==
    \/ t.type \in {"NODE", "SHUNT"} /\ t.of = input.level[n]
    \/ t.type = "LINE" /\ t.of \in input.lines[n]
    \/ t.type = "TFO" /\ t.of \in input.tfos[n]

Elements(t, n) ==
    IF ~Matches(t, n) THEN {}
    ELSE IF t.type = "NODE" THEN {input.first[t.of]}
    ELSE IF t.type = "SHUNT" THEN input.shunts[n]
    ELSE {t.of}

(***************************************************************************)
(* The connections of a model are a set ordered by the concatenation of an *)
(* id, the number of a type and an element: of two with the same           *)
(* concatenation only the first inserted is kept, a node inserting its own *)
(* by kind of table, as operator() does.                                   *)
(***************************************************************************)
Number(type) == CASE type = "NODE" -> "0" [] type = "LINE" -> "1"
                  [] type = "TFO" -> "2" [] type = "SHUNT" -> "3"
Concatenation(c) == c.id \o Number(c.elementType) \o c.element

Alike(c, connections) ==
    {d \in connections : Concatenation(d) = Concatenation(c)}

Rank(c) == CASE c.elementType = "NODE" -> 1 [] c.elementType = "SHUNT" -> 2
             [] c.elementType = "LINE" -> 3 [] c.elementType = "TFO" -> 4

FirstOf(connections) ==
    CHOOSE c \in connections : \A d \in connections : Rank(c) <= Rank(d)

Inserted(old, new) ==
    old \union {c \in new : Alike(c, old) = {} /\ c = FirstOf(Alike(c, new))}

\* The connections that node n gives model a.
ConnectionsOn(a, n) ==
    UNION {{[id |-> w.connection, elementType |-> w.target.type, element |-> e] :
               e \in Elements(w.target, n)} : w \in {v \in wanted : v.model = a}}

Touched(n) ==
    {a \in {w.model : w \in wanted} : ConnectionsOn(a, n) # {}}

\* addMacroConnectionToModelDefinitions; faulty variant: the model made for an
\* earlier node is made again.
MadeAgain(a, new) == Inserted({}, new)
Completed(a, new) ==
    Inserted(IF a \in DOMAIN models THEN models[a] ELSE {}, new)

\* The macro connections a node marks as used; faulty variant: none on shunts.
MarkedUnlessShunt(n) ==
    {w.connection : w \in {v \in wanted : /\ Matches(v.target, n)
                                          /\ v.target.type # "SHUNT"}}
Marked(n) == {w.connection : w \in {v \in wanted : Matches(v.target, n)}}

\* operator() on one node of walkNodes.
WalkNode ==
    /\ Looping("walk", N)
    /\ models' = [a \in DOMAIN models \union Touched(cursor) |->
                     IF a \in Touched(cursor)
                     THEN Completed(a, ConnectionsOn(a, cursor))
                     ELSE models[a]]
    /\ usedMacroConnections' = usedMacroConnections \union Marked(cursor)
    /\ UNCHANGED <<pc, wanted>>

-----------------------------------------------------------------------------
(***************************************************************************)
(* Whether a model has some connection of each macro connect it asks for;  *)
(* faulty variant: of one of them.                                         *)
(***************************************************************************)
HasMacro(a, m) == \E c \in models[a.id] : c.id = m.connection
HasSome(a) == \E m \in ToSet(a.connects) : HasMacro(a, m)
HasEvery(a) == \A m \in ToSet(a.connects) : HasMacro(a, m)

\* One automaton in filterPartiallyConnectedDynamicModels.
FilterAutomaton ==
    /\ Looping("filter", Len(input.automatons))
    /\ LET a == input.automatons[cursor]
       IN  models' = IF a.id \in DOMAIN models /\ ~HasEvery(a)
                     THEN [b \in DOMAIN models \ {a.id} |-> models[b]]
                     ELSE models
    /\ UNCHANGED <<pc, wanted, usedMacroConnections>>

============================================================================
