----------------------------- MODULE LintIncludes -----------------------------
(***************************************************************************)
(* The included headers of a file: _IncludeState, CheckIncludeLine and the *)
(* two checks made at the end of a file.                                   *)
(*                                                                         *)
(* The name of a header is the token that follows #include; Headers tells  *)
(* what the code reads of a name: whether it is between angle brackets     *)
(* (system), has an extension of C++ headers (cppExtension), is in the     *)
(* list of standard headers (standard), has no directory (bare), is a      *)
(* source (source) or matches the pattern of third parties (thirdParty),   *)
(* its path without suffix and extension (module), the first component of  *)
(* its base name (component) and its rank in the alphabetical order.       *)
(***************************************************************************)
EXTENDS LintNesting

CONSTANTS
    Headers,   \* what the code reads of each name
    Templates  \* the header that a word such as vector<> asks for

NoHeader == 0 \* the rank of the empty string

\* include_list, _section and _last_header.
InitIncludes == [includeList |-> << <<>> >>, section |-> 0, lastHeader |-> NoHeader]

\* _INITIAL_SECTION is 0.
MyHSection == 1
CSection == 2
CppSection == 3
OtherHSection == 4

Included(includes) == FlattenSeq(includes.includeList)

\* The last list for what follows a directive: a new one after #if, an empty
\* one after #else; the faulty variant keeps what the other branch includes.
ListAfterIf(lists, line) ==
    IF Begins(line, IfDirectives) THEN Append(lists, <<>>) ELSE lists
ListAfter(lists, line) ==
    IF Begins(line, ElseDirectives) THEN Append(Front(lists), <<>>) ELSE ListAfterIf(lists, line)

ResetSection(includes, line) ==
    [includeList |-> ListAfter(includes.includeList, line), section |-> 0, lastHeader |-> NoHeader]

(***************************************************************************)
(* _ClassifyInclude.                                                       *)
(***************************************************************************)
ClassifyInclude(file, h) ==
    IF h.system /\ ~h.cppExtension THEN (IF h.standard THEN "C++ system" ELSE "C system")
    ELSE IF h.module = file.module THEN "likely mine"
    ELSE IF h.component = file.component THEN "possibly mine" ELSE "other"

(***************************************************************************)
(* CheckNextIncludeOrder: the next section; a system header that comes too *)
(* late leaves it.                                                         *)
(***************************************************************************)
SectionOf(type, section) ==
    CASE type = "C system" -> CSection
      [] type = "C++ system" -> CppSection
      [] type = "other" -> OtherHSection
      [] OTHER -> IF section <= MyHSection THEN MyHSection ELSE OtherHSection

TooLate(type, section) == SectionOf(type, section) < section

CheckNextIncludeOrder(includes, type) ==
    LET section == includes.section
        next == SectionOf(type, section)
    IN  IF TooLate(type, section) THEN [includes EXCEPT !.lastHeader = NoHeader]
        ELSE [includes EXCEPT !.section = next,
                              !.lastHeader = IF next = section THEN @ ELSE NoHeader]

FindHeader(includes, name) ==
    SelectInSeq(Included(includes), LAMBDA f : f.name = name)

(***************************************************************************)
(* CheckIncludeLine, on line i which includes name: the errors, and the    *)
(* state after.                                                            *)
(***************************************************************************)
CheckIncludeLine(includes, file, elided, i, name) ==
    LET h == Headers[name]
        Fault(on, category) == IF on THEN <<Error(Number(i), category, 4)>> ELSE <<>>
        subdir == Fault(h.bare /\ ~h.thirdParty, "build/include_subdir")
        type == ClassifyInclude(file, h)
        noted == [includes EXCEPT !.includeList = Append(Front(@),
                     Append(Last(@), [name |-> name, line |-> Number(i)]))]
        placed == CheckNextIncludeOrder(noted, type)
        unsorted == placed.lastHeader > h.rank /\ i > 1 /\ Begins(elided[i - 1], {"#include"})
    IN  IF FindHeader(includes, name) > 0 \/ h.source
        THEN [errors |-> subdir \o Fault(TRUE, "build/include"), includes |-> includes]
        ELSE IF h.thirdParty THEN [errors |-> subdir, includes |-> includes]
        ELSE [errors |-> subdir \o Fault(TooLate(type, includes.section), "build/include_order")
                            \o Fault(unsorted, "build/include_alpha"),
              includes |-> [placed EXCEPT !.lastHeader = h.rank]]

\* What CheckLanguage makes of the includes and directives of line i.
CheckIncludes(includes, file, clean, i) ==
    LET line == Stripped(clean.elided[i])
    IN  IF Begins(line, {"#include"}) /\ Len(line) > 1
        THEN CheckIncludeLine(includes, file, clean.elided, i, line[2])
        ELSE [errors |-> <<>>,
              includes |-> IF Begins(line, IfDirectives \union ElseDirectives \union {"#endif"})
                           THEN ResetSection(includes, line) ELSE includes]

-----------------------------------------------------------------------------
(***************************************************************************)
(* CheckHeaderFileIncluded, for a source with its header beside it; the    *)
(* line is that of the first include, -1 standing for None.                *)
(***************************************************************************)
CheckHeaderFileIncluded(includes, file) ==
    LET all == Included(includes)
    IN  IF file.test \/ file.ownHeader = "" \/ \E f \in ToSet(all) : f.name = file.ownHeader
        THEN <<>>
        ELSE <<Error(IF all = <<>> THEN -1 ELSE all[1].line, "build/include", 5)>>

(***************************************************************************)
(* CheckForIncludeWhatYouUse: the includes of the header of a source,      *)
(* which UpdateIncludeState reads, count as its own; a source whose header *)
(* is not found is left alone.                                             *)
(***************************************************************************)
CheckForIncludeWhatYouUse(includes, file, elided, isSource, headerIncludes) ==
    LET names == {f.name : f \in ToSet(Included(includes))}
        own == {n \in names \intersect DOMAIN headerIncludes : Headers[n].module = file.module}
        known == names \union UNION {headerIncludes[n] : n \in own}
        lines == {i \in DOMAIN elided : ~Begins(elided[i], {"#if", "#define"})}
        UsesOf(w) == {i \in lines : w \in ToSet(elided[i])}
        missing == {w \in DOMAIN Templates : UsesOf(w) # {} /\ Templates[w] \notin known}
        LastUse(w) == CHOOSE i \in UsesOf(w) : \A j \in UsesOf(w) : j <= i
    IN  IF own = {} /\ isSource THEN <<>>
        ELSE LET sorted == SetToSortSeq(missing, LAMBDA v, w : LastUse(v) < LastUse(w))
             IN  [w \in DOMAIN sorted |->
                    Error(Number(LastUse(sorted[w])), "build/include_what_you_use", 4)]

============================================================================
