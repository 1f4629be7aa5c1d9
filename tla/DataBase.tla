------------------------------ MODULE DataBase ------------------------------
(***************************************************************************)
(* The reading of the dynamic data base: DynamicDataBaseManager parses the *)
(* setting file, then the assembling file.  The SAX parser calls back a    *)
(* handler at the start and at the end of each element; the handlers fill  *)
(* one "current" structure per kind of element, which they push to a       *)
(* vector at the end of the element.                                       *)
(*                                                                         *)
(* Attributes are names; those no operation reads are left out (the value  *)
(* of a parameter, the variables of a connection).  The parser is external.*)
(***************************************************************************)
EXTENDS Naturals, SequencesExt

(***************************************************************************)
(* An element of a document below its root: a tag, an id, a library for an *)
(* automaton, and its children.  A child has an id, a name (a voltage      *)
(* level, an element, a macro connection or a parameter, by its tag) and a *)
(* kind (the type of a parameter or a reference, the tag of a ref).        *)
(***************************************************************************)
AssemblingTag == {"macroConnection", "singleAssociation",
                  "multipleAssociation", "dynamicAutomaton"}
RootTag == AssemblingTag \union {"set"}
ParameterType == {"BOOL", "DOUBLE", "INT", "STRING"}

\* The children that are kept in an optional, those kept in a vector, and the
\* slots of an element: one per kind of child, and one per type of parameter.
OptionalTag == {"bus", "line", "tfo", "shunt"}
VectorTag == {"connection", "macroConnect", "count", "ref", "reference"}
Slot == OptionalTag \union VectorTag \union ParameterType

\* The children an element may have; the handlers ignore any other.
ChildTag == [macroConnection |-> {"connection"},
             singleAssociation |-> {"bus", "line", "tfo"},
             multipleAssociation |-> {"shunt"},
             dynamicAutomaton |-> {"macroConnect"},
             set |-> {"par", "count", "ref", "reference"}]

Child == [tag : OptionalTag \union VectorTag \union {"par"},
          id : STRING, name : STRING, kind : STRING, origData : STRING]

Element == [tag : RootTag, id : STRING, lib : STRING, children : Seq(Child)]

IsFile(f, tags) ==
    /\ f \in [present : BOOLEAN, xsd : BOOLEAN, illFormed : BOOLEAN,
              elements : Seq(Element)]
    /\ \A e \in ToSet(f.elements) :
          e.tag \in tags /\ \A c \in ToSet(e.children) : c.tag \in ChildTag[e.tag]

VARIABLES
    input,    \* the files, read-only
    reading,  \* the document being read, "done" or "failed"
    element,  \* where the parser is: the element of the document,
    child,    \* the child of this element, and
    inside,   \* whether that child is started
    current,  \* the current structure of the element being read, or None
    held,     \* the current structure of the child being read, by slot
    content   \* the vectors of the documents, by tag

None == <<>>
Empty == [s \in Slot |-> <<>>]

position == <<element, child, inside>>
readVars == <<current, held, content>>
docVars == <<reading, position, readVars>>

Reading == reading \in {"setting", "assembling"}
File == input[reading]

InitDocuments ==
    /\ reading = "setting"
    /\ element = 1 /\ child = 0 /\ inside = FALSE
    /\ current = None
    /\ held = [s \in Slot |-> None]
    /\ content = [t \in RootTag |-> <<>>]

-----------------------------------------------------------------------------
\* The parser goes through the elements below the root, and the children of
\* each; `child` is 0 outside an element, `inside` tells a child is open.
Elements == File.elements
Open == Elements[element]
Children == Open.children

Parsing == Reading /\ File.present
BeforeElement == Parsing /\ element <= Len(Elements) /\ child = 0
InElement == Parsing /\ child > 0 /\ ~inside

(***************************************************************************)
(* What the two schemas require of an element; they leave the names of     *)
(* counts and the origin of references free, and no id has to be unique.   *)
(***************************************************************************)
Valid(e) ==
    /\ e.tag \in {"singleAssociation", "multipleAssociation"} =>
          Len(e.children) = 1
    /\ e.children # <<>>
    /\ \A c \in ToSet(e.children) :
          c.tag \in {"par", "reference"} => c.kind \in ParameterType

Conforms == \A e \in ToSet(Elements) : Valid(e)

\* A schema is used when it is found; what it refuses, the parser reports.
Refused == File.xsd /\ ~Conforms

\* No file is only a warning: the document stays empty.
NextFile == IF reading = "setting" THEN "assembling" ELSE "done"

SkipMissing ==
    /\ Reading /\ ~File.present
    /\ reading' = NextFile
    /\ UNCHANGED <<input, position, readVars>>

EndOfFile ==
    /\ Parsing /\ element > Len(Elements) /\ ~Refused /\ ~File.illFormed
    /\ reading' = NextFile
    /\ element' = 1
    /\ UNCHANGED <<input, child, inside, readVars>>

\* ParserException, at any event: the program exits.
ParserError ==
    /\ Parsing /\ (Refused \/ File.illFormed)
    /\ reading' = "failed"
    /\ UNCHANGED <<input, position, readVars>>

-----------------------------------------------------------------------------
(***************************************************************************)
(* The handlers.                                                           *)
(***************************************************************************)

\* onStart makes the current structure, onStartElement reads its attributes.
StartElement ==
    /\ BeforeElement
    /\ current' = [id |-> Open.id, lib |-> Open.lib, items |-> Empty]
    /\ child' = 1
    /\ UNCHANGED <<input, reading, element, inside, held, content>>

\* What CountHandler, ReferenceHandler and ParameterHandler throw on.
Supported(c) ==
    /\ c.tag = "count" => c.name \in {"nbShunts", "nbShuntsLV", "nbShuntsHV"}
    /\ c.tag = "reference" => c.origData = "IIDM"
    /\ c.tag \in {"reference", "par"} => c.kind \in ParameterType

SlotOf(c) == IF c.tag = "par" THEN c.kind ELSE c.tag

StartChild ==
    /\ InElement /\ child <= Len(Children)
    /\ LET c == Children[child]
       IN  IF Supported(c)
           THEN /\ held' = [held EXCEPT ![SlotOf(c)] = c]
                /\ inside' = TRUE
                /\ UNCHANGED reading
           ELSE /\ reading' = "failed"
                /\ UNCHANGED <<held, inside>>
    /\ UNCHANGED <<input, element, child, current, content>>

(***************************************************************************)
(* The slot pushed at the end of a child.  There is one optional per type  *)
(* of parameter, tested in this order.                                     *)
(***************************************************************************)
ParameterOrder == <<"BOOL", "DOUBLE", "INT", "STRING">>
Held(c) ==
    IF c.tag # "par" THEN c.tag
    ELSE ParameterOrder[SelectInSeq(ParameterOrder, LAMBDA t : held[t] # None)]

\* The slots reset with it; faulty variant: the parameters are left.
ResetOwnTag(c) == {c.tag}
ResetAfter(c) == IF c.tag = "par" THEN ParameterType ELSE {c.tag}

Kept(old, slot) ==
    IF slot \in OptionalTag THEN <<held[slot]>> ELSE Append(old, held[slot])

EndChild ==
    /\ Parsing /\ inside
    /\ LET c == Children[child]
           slot == Held(c)
       IN  /\ current' = [current EXCEPT !.items[slot] = Kept(@, slot)]
           /\ held' = [s \in Slot |-> IF s \in ResetAfter(c) THEN None
                                      ELSE held[s]]
    /\ child' = child + 1
    /\ inside' = FALSE
    /\ UNCHANGED <<input, reading, element, content>>

EndElement ==
    /\ InElement /\ child > Len(Children)
    /\ content' = [content EXCEPT ![Open.tag] = Append(@, current)]
    /\ current' = None
    /\ element' = element + 1
    /\ child' = 0
    /\ UNCHANGED <<input, reading, inside, held>>

ReadDocuments ==
    \/ SkipMissing
    \/ EndOfFile
    \/ ParserError
    \/ StartElement
    \/ StartChild
    \/ EndChild
    \/ EndElement

-----------------------------------------------------------------------------
\* The elements of s at the positions of P, in order.
Picked(s, P) ==
    LET Position(i) == CHOOSE p \in P : Cardinality({q \in P : q <= p}) = i
    IN  [i \in 1..Cardinality(P) |-> s[Position(i)]]

(***************************************************************************)
(* What a child of a document is for a reader of the file: the last of its *)
(* tag for the optional children, all of its slot in order for the others. *)
(***************************************************************************)
ChildrenOf(e, slot) ==
    LET all == Picked(e.children,
                      {i \in DOMAIN e.children : SlotOf(e.children[i]) = slot})
    IN  IF slot \in OptionalTag /\ all # <<>> THEN <<Last(all)>> ELSE all

Meaning(e) ==
    [id |-> e.id, lib |-> e.lib, items |-> [s \in Slot |-> ChildrenOf(e, s)]]

Contents(file) == IF file.present THEN file.elements ELSE <<>>
ElementsOf(tag) ==
    LET all == Contents(IF tag = "set" THEN input.setting ELSE input.assembling)
    IN  Picked(all, {i \in DOMAIN all : all[i].tag = tag})

(***************************************************************************)
(* Once both files are read, each vector holds the elements of its tag in  *)
(* the order of the file with their own children only: nothing an earlier  *)
(* element or an earlier parameter has left in a handler.  A file that     *)
(* holds what the handlers do not support is never read to its end.        *)
(***************************************************************************)
DocumentsAreFaithful ==
    reading = "done" =>
        /\ \A t \in RootTag :
              content[t] = [i \in DOMAIN ElementsOf(t) |-> Meaning(ElementsOf(t)[i])]
        /\ \A t \in RootTag : \A e \in ToSet(ElementsOf(t)) :
              \A c \in ToSet(e.children) : Supported(c)

============================================================================
