-------------------------- MODULE MCDynModelExport --------------------------
(***************************************************************************)
(* Instances of DynModelExport for TLC: three nodes in two voltage levels, *)
(* a line, a transformer and shunts, and files of the automatons "pst" and *)
(* "bank".  The ids are such that the connection of macro "C" to node "1B" *)
(* and that of macro "C0" to line "B" have the same concatenation.         *)
(***************************************************************************)
EXTENDS DynModelExport

NewChild(tag, id, name, kind) ==
    [tag |-> tag, id |-> id, name |-> name, kind |-> kind, origData |-> "IIDM"]
Parent(tag, id, lib, children) ==
    [tag |-> tag, id |-> id, lib |-> lib, children |-> children]
File_(elements) == [present |-> TRUE, xsd |-> TRUE, illFormed |-> FALSE,
                    elements |-> elements]
Absent == [present |-> FALSE, xsd |-> FALSE, illFormed |-> FALSE, elements |-> <<>>]

Single(id, tag, name) ==
    Parent("singleAssociation", id, "", <<NewChild(tag, "", name, "")>>)
Shunts(id, level) ==
    Parent("multipleAssociation", id, "", <<NewChild("shunt", "", level, "")>>)
Ask(a, c) == NewChild("macroConnect", a, c, "")

MCAssociation == {"onBus", "onLine", "onNothing", "onTfo", "onShunts", "unknown"}

\* The macro connects of the first automaton: one or two, same macro or not.
MCRequests ==
    {<<Ask(a, "C")>> : a \in MCAssociation} \union
    {<<Ask(a, "C"), Ask(b, c)>> :
        a \in MCAssociation, b \in MCAssociation, c \in {"C", "C0"}}

MCAssociations ==
    <<Single("onBus", "bus", "V"), Single("onLine", "line", "B"),
      Single("onNothing", "line", "X"), Single("onTfo", "tfo", "T"),
      Shunts("onShunts", "V")>>

\* Ids given twice: two multiple associations, or one of each kind.
MCRepeated == {<<>>, <<Shunts("onShunts", "W")>>, <<Shunts("onBus", "V")>>}

MCOthers ==
    {<<Parent("dynamicAutomaton", "bank", "Bank", <<Ask("onShunts", "C")>>)>>,
     <<Parent("dynamicAutomaton", "bank", "Bank",
              <<Ask("onBus", "C0"), Ask("onShunts", "C")>>)>>,
     \* a second automaton of the same id, and of another library
     <<Parent("dynamicAutomaton", "pst", "Bank", <<Ask("onTfo", "C0")>>)>>}

MCAssemblings ==
    {File_(a \o r \o <<Parent("dynamicAutomaton", "pst", "Pst", q)>> \o o) :
        a \in {MCAssociations}, r \in MCRepeated, q \in MCRequests, o \in MCOthers}

MCSetting ==
    File_(<<Parent("set", "pst", "",
              <<NewChild("par", "", "p1", "BOOL"), NewChild("par", "", "p2", "DOUBLE"),
                NewChild("count", "onShunts", "nbShunts", ""),
                NewChild("reference", "@TFO@", "r1", "DOUBLE"),
                NewChild("ref", "onLine", "season", "@SAISON@")>>),
            Parent("set", "bank", "",
              <<NewChild("count", "onShunts", "nbShuntsHV", ""),
                NewChild("par", "", "p3", "INT")>>)>>)

MCNetworks ==
    [level : {<<"V", "V", "W">>}, first : {[V |-> "1B", W |-> "n3"]},
     lines : {<<{}, {"B"}, {"B"}>>}, tfos : {<<{"T"}, {}, {"T"}>>},
     shunts : {<<{}, {}, {}>>, <<{"s1"}, {"s2"}, {}>>},
     libraries : {{"Pst", "Bank"}, {"Pst"}}]

With(n, setting, assembling) ==
    [level |-> n.level, first |-> n.first, lines |-> n.lines, tfos |-> n.tfos,
     shunts |-> n.shunts, libraries |-> n.libraries,
     setting |-> setting, assembling |-> assembling]

(***************************************************************************)
(* Files with a fault: absent, ill formed, not of the schema or beyond it, *)
(* read with their schema or without.                                      *)
(***************************************************************************)
MCSmall == MCAssociations \o <<Parent("dynamicAutomaton", "pst", "Pst",
                                      <<Ask("both", "C"), Ask("onBus", "C0")>>)>>
MCFaulty ==
    {Parent("singleAssociation", "both", "", c) :
        c \in {<<>>, <<NewChild("line", "", "B", ""), NewChild("bus", "", "W", "")>>}}
    \union {Parent("multipleAssociation", "both", "", <<>>)}

MCBadSets ==
    {Parent("set", "pst", "", <<NewChild("par", "", "p1", "STRING"), c>>) :
        c \in {NewChild("count", "onShunts", "nbLines", ""),
               NewChild("par", "", "p2", "FLOAT"),
               [NewChild("reference", "@TFO@", "r1", "INT") EXCEPT !.origData = "PAR"]}}

MCFaults(n) ==
    {With(n, s, a) :
        s \in {Absent, [MCSetting EXCEPT !.illFormed = TRUE], [MCSetting EXCEPT !.xsd = FALSE]}
              \union {[File_(<<b>>) EXCEPT !.xsd = x] : b \in MCBadSets, x \in BOOLEAN},
        a \in {Absent}
              \union {[File_(MCSmall \o <<b>>) EXCEPT !.xsd = x] :
                         b \in MCFaulty, x \in BOOLEAN}}

MCInputs ==
    {With(n, MCSetting, a) : n \in MCNetworks, a \in MCAssemblings}
    \union UNION {MCFaults(n) : n \in MCNetworks}

============================================================================
