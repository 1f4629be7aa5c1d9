--------------------------- MODULE DynModelExport ---------------------------
(***************************************************************************)
(* Automatons from their XML files to the dyd and par files: the documents *)
(* are read (DataBase), each node of the network is given to the algorithm *)
(* of dynamic models (DynModelAlgo) and to the two collectors Par reads,   *)
(* the models that stay are written by Dyd, then the sets of the setting   *)
(* file by Par.                                                            *)
(***************************************************************************)
EXTENDS DataBase, FiniteSets

CONSTANTS
    N,      \* the number of nodes
    Inputs  \* the files and networks considered

ASSUME NAssumption == N \in Nat

VARIABLES
    pc, cursor, wanted, models, usedMacroConnections, \* of DynModelAlgo
    nbShunts,   \* ShuntCounterDefinitions: shunts by voltage level met
    linesById,  \* LinesByIdDefinitions: the lines met
    dyd,        \* the macro connects of the dyd file, by model
    par,        \* the sets of the par file
    stage       \* "process", "dyd", "par" or "written"

algoVars == <<pc, cursor, wanted, models, usedMacroConnections>>
collected == <<nbShunts, linesById>>
written == <<dyd, par>>
vars == <<input, docVars, algoVars, collected, written, stage>>

-----------------------------------------------------------------------------
(***************************************************************************)
(* What the algorithms read of the documents.                              *)
(***************************************************************************)
Item(e, slot) == ToSet(e.items[slot])

\* Of several children the bus is looked at first, then the line.
SingleTargets(e) ==
    LET Typed(slot, type) == {[type |-> type, of |-> c.name] : c \in Item(e, slot)}
    IN  IF Item(e, "bus") # {} THEN Typed("bus", "NODE")
        ELSE IF Item(e, "line") # {} THEN Typed("line", "LINE")
        ELSE Typed("tfo", "TFO")

MultipleTargets(e) == {[type |-> "SHUNT", of |-> c.name] : c \in Item(e, "shunt")}

Connects(e) ==
    [i \in DOMAIN e.items["macroConnect"] |->
        [association |-> e.items["macroConnect"][i].id,
         connection |-> e.items["macroConnect"][i].name]]

EachOf(tag, Read(_)) == [i \in DOMAIN content[tag] |-> Read(content[tag][i])]

Automatons == EachOf("dynamicAutomaton",
    LAMBDA e : [id |-> e.id, lib |-> e.lib, connects |-> Connects(e)])
Singles == EachOf("singleAssociation",
    LAMBDA e : [id |-> e.id, targets |-> SingleTargets(e)])
Multiples == EachOf("multipleAssociation",
    LAMBDA e : [id |-> e.id, targets |-> MultipleTargets(e)])

Description == [level |-> input.level, first |-> input.first,
                lines |-> input.lines, tfos |-> input.tfos,
                shunts |-> input.shunts, libraries |-> input.libraries,
                automatons |-> Automatons, singles |-> Singles,
                multiples |-> Multiples]

Algo == INSTANCE DynModelAlgo WITH input <- Description

Node == 1..N

(***************************************************************************)
(* The files and networks read: a shunt is on one node, a voltage level    *)
(* has a first node when it has one.  What is said of concatenations is    *)
(* what holds of all strings: two different ends give different results.   *)
(***************************************************************************)
ElementNames(i) ==
    {i.first[v] : v \in DOMAIN i.first}
    \union UNION {i.lines[n] \union i.tfos[n] \union i.shunts[n] : n \in Node}

MacroNames(i) ==
    {c.name : c \in UNION {ToSet(e.children) : e \in ToSet(i.assembling.elements)}}

IsInput(i) ==
    /\ IsFile(i.setting, {"set"}) /\ IsFile(i.assembling, AssemblingTag)
    /\ DOMAIN i.first = {i.level[n] : n \in Node}
    /\ IsFiniteSet(ElementNames(i))
    /\ \A m, n \in Node : m # n => i.shunts[m] \intersect i.shunts[n] = {}
    /\ \A m \in MacroNames(i), t \in Algo!Type, x, y \in ElementNames(i) :
          LET Connection(z) == [id |-> m, elementType |-> t, element |-> z]
          IN  Algo!Concatenation(Connection(x)) = Algo!Concatenation(Connection(y))
                  => x = y

ASSUME InputsAssumption == \A i \in Inputs : IsInput(i)

(***************************************************************************)
(* What the collected structures may hold.                                 *)
(***************************************************************************)
TypeOK ==
    /\ reading \in {"setting", "assembling", "done", "failed"}
    /\ stage \in {"process", "dyd", "par", "written"}
    /\ pc \in {"extract", "walk", "filter", "done"}
    /\ DOMAIN models \subseteq {a.id : a \in ToSet(Automatons)}
    /\ DOMAIN nbShunts \subseteq {input.level[n] : n \in Node}
    /\ linesById \subseteq UNION {input.lines[n] : n \in Node}

Init ==
    /\ input \in Inputs
    /\ InitDocuments
    /\ Algo!InitModels
    /\ nbShunts = <<>>
    /\ linesById = {}
    /\ dyd = <<>>
    /\ par = <<>>
    /\ stage = "process"

\* The constructor of the data base, before Context registers its algorithms.
Read == ReadDocuments /\ UNCHANGED <<algoVars, collected, written, stage>>

-----------------------------------------------------------------------------
\* ShuntCounterAlgorithm; faulty variant: the last node of a level counts alone.
CountedLast(n) == Cardinality(input.shunts[n])
Counted(n) ==
    LET level == input.level[n]
    IN  Cardinality(input.shunts[n])
            + (IF level \in DOMAIN nbShunts THEN nbShunts[level] ELSE 0)

CollectOn(n) ==
    /\ nbShunts' = [v \in DOMAIN nbShunts \union {input.level[n]} |->
                       IF v = input.level[n] THEN Counted(n) ELSE nbShunts[v]]
    /\ linesById' = linesById \union input.lines[n]

\* The callbacks of a node run one after the other before the next node.
WalkNode == Algo!WalkNode /\ CollectOn(cursor)

Process ==
    /\ reading = "done" /\ stage = "process"
    /\ UNCHANGED <<input, docVars, written, stage>>
    /\ \/ WalkNode
       \/ Algo!ExtractAutomaton /\ UNCHANGED collected
       \/ Algo!FilterAutomaton /\ UNCHANGED collected
       \/ /\ \/ Algo!EndOfLoop("extract", Len(Automatons), "walk")
             \/ Algo!EndOfLoop("walk", N, "filter")
             \/ Algo!EndOfLoop("filter", Len(Automatons), "done")
          /\ UNCHANGED collected

EndOfProcess ==
    /\ stage = "process" /\ pc = "done"
    /\ stage' = "dyd"
    /\ UNCHANGED <<input, docVars, algoVars, collected, written>>

-----------------------------------------------------------------------------
(***************************************************************************)
(* The writers.  Sets of connections are gone through in the order of      *)
(* their concatenations, for which any order stands here.                  *)
(***************************************************************************)
InOrder(a) == SetToSeq(models[a])

\* The index of a connection among those of the same macro connection.
IndexOf(order, i) == Cardinality({j \in 1..(i - 1) : order[j].id = order[i].id})

writeDynamicModelMacroConnect(a) ==
    {[id |-> InOrder(a)[i].id, element |-> InOrder(a)[i].element,
      index |-> IndexOf(InOrder(a), i)] : i \in DOMAIN InOrder(a)}

WriteDyd ==
    /\ stage = "dyd"
    /\ dyd' = [a \in DOMAIN models |-> writeDynamicModelMacroConnect(a)]
    /\ stage' = "par"
    /\ UNCHANGED <<input, docVars, algoVars, collected, par>>

Found(all, id) ==
    LET given == Algo!WithId(all, id)
    IN  {all[i] : i \in {k \in given : \A j \in given : k <= j}}

\* A count is the number of shunts of the voltage level of its association;
\* this map of associations keeps the first of an id.
CountOf(c) ==
    LET levels == UNION {{t.of : t \in a.targets} : a \in Found(Multiples, c.id)}
    IN  {[name |-> c.name, of |-> c.id, value |-> nbShunts[v]] :
            v \in levels \intersect DOMAIN nbShunts}

\* The first transformer of the model; faulty variant: its first connection.
AnyComponentId(a) == {Head(InOrder(a)).element}
getTransformerComponentId(a) ==
    LET tfos == {i \in DOMAIN InOrder(a) : InOrder(a)[i].elementType = "TFO"}
    IN  {InOrder(a)[i].element : i \in {k \in tfos : \A j \in tfos : k <= j}}

ReferenceOf(a, r) ==
    {[name |-> r.name, tag |-> r.id, component |-> id] :
        id \in IF r.id = "@TFO@" THEN getTransformerComponentId(a) ELSE {r.id}}

\* The season is that of the line the first association of the id designates.
getActiveSeason(r) ==
    LET found == IF r.kind = "@SAISON@"
                 THEN Found(content["singleAssociation"], r.id) ELSE {}
        lines == UNION {{c.name : c \in Item(e, "line")} : e \in found}
    IN  {[name |-> r.name, of |-> r.id, line |-> l] : l \in lines \intersect linesById}

writeDynamicModelParameterSet(s) ==
    [id |-> s.id,
     counts |-> UNION {CountOf(c) : c \in Item(s, "count")},
     parameters |-> UNION {{p.name : p \in Item(s, t)} : t \in ParameterType},
     references |-> UNION {ReferenceOf(s.id, r) : r \in Item(s, "reference")},
     seasons |-> UNION {getActiveSeason(r) : r \in Item(s, "ref")}]

\* The sets of a model that is exported.
WithModel(sets) == Picked(sets, {i \in DOMAIN sets : sets[i].id \in DOMAIN models})

WritePar ==
    /\ stage = "par"
    /\ LET kept == WithModel(content["set"])
       IN  par' = [i \in DOMAIN kept |-> writeDynamicModelParameterSet(kept[i])]
    /\ stage' = "written"
    /\ UNCHANGED <<input, docVars, algoVars, collected, dyd>>

Terminated == (stage = "written" \/ reading = "failed") /\ UNCHANGED vars

Next ==
    \/ Read
    \/ Process
    \/ EndOfProcess
    \/ WriteDyd
    \/ WritePar
    \/ Terminated

Spec == Init /\ [][Next]_vars

-----------------------------------------------------------------------------
(***************************************************************************)
(* What the files ask for, read from the elements of the files.            *)
(***************************************************************************)
AutomatonsOf(a) == {x \in ToSet(ElementsOf("dynamicAutomaton")) : x.id = a}
Loadable(a) == {x \in AutomatonsOf(a) : x.lib \in input.libraries}
AskedBy(automatons) == UNION {ToSet(x.children) : x \in automatons}

\* The association an id stands for: the last single one, else the last one.
Resolved(id) ==
    LET singles == ElementsOf("singleAssociation")
    IN  IF Algo!WithId(singles, id) # {} THEN Algo!LastOf(singles, id)
        ELSE Algo!LastOf(ElementsOf("multipleAssociation"), id)

\* An id that no two associations have.
Unique(id) ==
    LET associations == {i \in Algo!WithId(Contents(input.assembling), id) :
                            input.assembling.elements[i].tag
                                \in {"singleAssociation", "multipleAssociation"}}
    IN  \A i, j \in associations : i = j

\* The elements of the network an association designates, with their type.
Of(tag, name) ==
    CASE tag = "bus" -> {input.first[v] : v \in {name} \intersect DOMAIN input.first}
      [] tag = "line" -> {name} \intersect UNION {input.lines[n] : n \in Node}
      [] tag = "tfo" -> {name} \intersect UNION {input.tfos[n] : n \in Node}
      [] tag = "shunt" -> UNION {input.shunts[n] :
                                    n \in {k \in Node : input.level[k] = name}}

TypeOf == [bus |-> "NODE", line |-> "LINE", tfo |-> "TFO", shunt |-> "SHUNT"]

Preferred(e) ==
    IF Item(Meaning(e), "bus") # {} THEN Item(Meaning(e), "bus")
    ELSE IF Item(Meaning(e), "line") # {} THEN Item(Meaning(e), "line")
    ELSE Item(Meaning(e), "tfo") \union Item(Meaning(e), "shunt")

\* The connections a macro connect asks for, and those of the model a.
AskedConnections(m) ==
    {[id |-> m.name, elementType |-> x[1], element |-> x[2]] :
        x \in UNION {{TypeOf[c.tag]} \X Of(c.tag, c.name) :
                        c \in UNION {Preferred(e) : e \in Resolved(m.id)}}}

Asked(a) == UNION {AskedConnections(m) : m \in AskedBy(Loadable(a))}

\* Whether two of them are one for the set of connections of the code.
Confused(a) == \E c, d \in Asked(a) :
                   c # d /\ Algo!Concatenation(c) = Algo!Concatenation(d)

\* The macro connects of a model that share a macro connection share their
\* association.
DistinctMacros(a) ==
    \A k, m \in AskedBy(AutomatonsOf(a)) : k.name = m.name => k.id = m.id

(***************************************************************************)
(* From the files to the definitions: a model is exported exactly when     *)
(* each macro connect of each automaton of its id, those whose library is  *)
(* missing included, has a connection to an element of the network that a  *)
(* loadable automaton asks for.  It takes macro connections that stand for *)
(* one association each, which is all the filter of Context looks at.      *)
(***************************************************************************)
CompleteModelsExported ==
    pc = "done" =>
        \A e \in ToSet(ElementsOf("dynamicAutomaton")) :
            ~Confused(e.id) /\ DistinctMacros(e.id) =>
                (e.id \in DOMAIN models <=>
                    /\ Asked(e.id) # {}
                    /\ \A m \in AskedBy(AutomatonsOf(e.id)) :
                          AskedConnections(m) \intersect Asked(e.id) # {})

(***************************************************************************)
(* Models with partial connectivity are removed (Context.h:129): no macro  *)
(* connect of an exported model is without an element.  The code does not  *)
(* keep to it: the filter asks for the macro connection only, which        *)
(* another macro connect of the model may have connected.                  *)
(***************************************************************************)
NoPartialModel ==
    pc = "done" =>
        \A a \in DOMAIN models : \A m \in AskedBy(Loadable(a)) : AskedConnections(m) # {}

(***************************************************************************)
(* An exported model is connected to the elements its automatons ask for,  *)
(* those met on later nodes included, and to nothing else; the one way to  *)
(* lose a connection is another with the same concatenation of id, type    *)
(* and element, which the order of the set takes for the same.             *)
(***************************************************************************)
ConnectionsAreExact ==
    pc = "done" =>
        \A a \in DOMAIN models :
            /\ models[a] \subseteq Asked(a)
            /\ \A c \in Asked(a) \ models[a] : \E d \in models[a] :
                  <<c.id, c.elementType>> # <<d.id, d.elementType>>
                  /\ Algo!Concatenation(c) = Algo!Concatenation(d)

(***************************************************************************)
(* Dyd writes the macro connectors of usedMacroConnections only: every     *)
(* connection of a model refers to one of them.                            *)
(***************************************************************************)
ConnectorsAreWritten ==
    \A a \in DOMAIN models : \A c \in models[a] : c.id \in usedMacroConnections

(***************************************************************************)
(* The number of shunts a set of the par file gives an automaton is the    *)
(* number of macro connects to shunts the dyd file has for it, and they    *)
(* have the indexes below that number, although one comes from a collector *)
(* and a map of associations of Par, the others from DynModelAlgorithm and *)
(* its own map.  It takes an id that is that of one association, and one   *)
(* macro connection per association: else the two files may disagree.      *)
(***************************************************************************)
CountsMatchConnections ==
    stage = "written" =>
        \A s \in ToSet(par) : \A count \in s.counts :
            \A m \in AskedBy(Loadable(s.id)) :
                (/\ m.id = count.of /\ Unique(m.id)
                 /\ \A k \in AskedBy(Loadable(s.id)) : k.name = m.name => k = m
                 /\ ~Confused(s.id))
                => LET shunts == {x \in dyd[s.id] : x.id = m.name}
                   IN  /\ count.value = Cardinality(shunts)
                       /\ {x.index : x \in shunts} = 0..(count.value - 1)

(***************************************************************************)
(* What a set of the par file refers to is what its model is connected to  *)
(* in the dyd file: a reference to the transformer is written exactly when *)
(* the model has one and names one of them, and a season is that of a line *)
(* the model is connected to when it is asked for by the same association, *)
(* one the schema accepts.  The sets are those of the exported models, in  *)
(* the order of the setting file.                                          *)
(***************************************************************************)
ReferencesMatchConnections ==
    stage = "written" =>
        LET sets == WithModel(ElementsOf("set"))
        IN  /\ DOMAIN par = DOMAIN sets
            /\ \A i \in DOMAIN par :
                  LET s == par[i]
                      connected == {x.element : x \in dyd[s.id]}
                      tfos == {c \in Asked(s.id) : c.elementType = "TFO"}
                  IN  /\ s.id = sets[i].id
                      /\ \A r \in s.references : r.tag = "@TFO@" =>
                            r.component \in
                                connected \intersect {c.element : c \in tfos}
                      /\ ~Confused(s.id) /\ tfos # {} =>
                            \A c \in ToSet(sets[i].children) :
                                c.tag = "reference" =>
                                    \E r \in s.references : r.name = c.name
                      /\ \A r \in s.seasons : \A m \in AskedBy(Loadable(s.id)) :
                            /\ m.id = r.of /\ Unique(m.id) /\ ~Confused(s.id)
                            /\ \A e \in Resolved(m.id) : Valid(e)
                            => r.line \in connected

============================================================================
