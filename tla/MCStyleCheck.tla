----------------------------- MODULE MCStyleCheck -----------------------------
(***************************************************************************)
(* Families of jobs, one for what each part of the check reads: one file,  *)
(* with pieces of text, blocks, includes, a header guard or a function;    *)
(* calls on several files, for the options, the marks and the wrapper.     *)
(***************************************************************************)
EXTENDS StyleCheck

\* What is read of the names of headers.
Header(module, component, rank) ==
    [system |-> FALSE, cppExtension |-> TRUE, standard |-> FALSE, bare |-> FALSE,
     source |-> FALSE, thirdParty |-> FALSE, unapproved |-> FALSE,
     module |-> module, component |-> component, rank |-> rank]

MCHeaders ==
    [n \in {"a.h", "b.h", "map", "mutex", "stdio.h", "b.cpp", "lua.h", "a_c.h"} |->
        CASE n = "a.h" -> Header("a", "a", 1)
          [] n = "b.h" -> Header("b", "b", 3)
          [] n = "map" -> [Header("map", "map", 4) EXCEPT !.system = TRUE, !.standard = TRUE,
                                                          !.cppExtension = FALSE]
          [] n = "mutex" -> [Header("mutex", "mutex", 5) EXCEPT
                                !.system = TRUE, !.standard = TRUE, !.cppExtension = FALSE,
                                !.unapproved = TRUE]
          [] n = "stdio.h" -> [Header("stdio", "stdio", 6) EXCEPT !.system = TRUE,
                                                                  !.cppExtension = FALSE]
          [] n = "b.cpp" -> [Header("b", "b", 3) EXCEPT !.source = TRUE]
          [] n = "lua.h" -> [Header("lua", "lua", 7) EXCEPT !.thirdParty = TRUE, !.bare = TRUE]
          [] n = "a_c.h" -> [Header("a_c", "a", 2) EXCEPT !.bare = TRUE]]

MCTemplates == [w \in {"map<>"} |-> "map"]

-----------------------------------------------------------------------------
Level0(component, config) == [component |-> component, config |-> config]
Option(name, val) == [name |-> name, val |-> val]

\* A source a.cpp at the top of the repository, without configuration.
Source(text) ==
    [exists |-> TRUE, text |-> text, ext |-> "cpp", path |-> <<"REPO", "A_CPP">>,
     top |-> <<"REPO">>, levels |-> <<Level0("a.cpp", <<>>)>>, module |-> "a",
     component |-> "a", test |-> FALSE, ownHeader |-> "", inHead |-> TRUE,
     status |-> <<>>, listed |-> "a.cpp"]

ByHand(files, options, names) ==
    [tool |-> "cpplint", python |-> 3, files |-> files, directories |-> [d \in {} |-> {}],
     options |-> options, names |-> names, modes |-> {}, roots |-> 0, filter |-> <<>>]

ByWrapper(files, python, modes) ==
    [ByHand(files, <<>>, <<>>) EXCEPT !.tool = "wrapper", !.python = python,
                                      !.modes = modes, !.roots = 1]

OneFile(text) == ByHand([n \in {"a.cpp"} |-> Source(text)], <<>>, <<"a.cpp">>)

\* The lines of up to n pieces: code, strings, comments and raw strings that
\* hold the marks of one another, and the ends of those of several lines.
Pieces ==
    {<<"x">>, <<DQ, "x", DQ>>, <<DQ, "//", DQ>>, <<DQ, "/*", DQ>>, <<DQ, SQ, DQ>>,
     <<SQ, DQ, SQ>>, <<"/*", "x", "*/">>, <<"/*", DQ, "*/">>, <<"/*", SQ, "*/">>,
     <<"//", SQ>>, <<"//", "/*">>, <<"R(", DQ, ")R">>, <<"R(", "//", ")R">>,
     <<"/*">>, <<"*/">>, <<"R(">>, <<")R">>}
Piecewise(n) == UNION {{FlattenSeq(p) : p \in [1..k -> Pieces]} : k \in 0..n}

\* A raw string ends after it starts.
PiecesOf(n) ==
    {t \in Piecewise(n) : \A i \in DOMAIN t : t[i] = ")R" =>
        \E j \in 1..i : t[j] = "R(" /\ \A k \in j..i-1 : t[k] # ")R"}
LinesOfPieces ==
    {<<first, second>> : first \in PiecesOf(1), second \in PiecesOf(1)}
        \union {<<<<"R(">>, <<")R">> \o rest>> : rest \in PiecesOf(1)}

Heads == {<<"class", "C", "{">>, <<"class", "C">>, <<"namespace", "n", "{">>,
          <<"{">>, <<"}">>, <<"#if">>, <<"#else">>, <<"#endif">>}
OtherHeads ==
    {<<"class", "C", ";">>, <<" ", "class", "C", ";">>, <<" ", "class", "C", "{">>,
     <<"template", "<", "class", "T", ">">>, <<"extern", DQ, DQ, "{">>, <<"f", "(", ")", "{">>,
     <<"asm", "(">>, <<")", ";">>, <<"asm", "{">>, <<"}", "//", "namespace", "n">>,
     <<"#define", "M", "\\">>}

IncludeLines ==
    {<<"#include", "b.h">>, <<"#include", "map">>, <<"#if">>, <<"#else">>, <<"#endif">>}
AllIncludeLines == {<<"#include", n>> : n \in DOMAIN MCHeaders} \union {<<"map<>">>}

\* A source with its header.
SourceJobs(lines) ==
    {ByHand([n \in {"a.cpp", "a.h"} |->
                IF n = "a.cpp" THEN [Source(t) EXCEPT !.ownHeader = "a.h"]
                ELSE Source(<<<<"#include", "b.h">>>>)], <<>>, <<"a.cpp">>) :
        t \in [1..lines -> AllIncludeLines]}

\* Functions of up to nine lines.
Functions ==
    {<<head>> \o [i \in 1..n |-> <<" ", "x", ";">>] \o <<end>> :
        head \in {<<"f", "(", ")", "{">>, <<"TEST", "(", "f", ")", "{">>, <<"MACRO", "(", ")", "{">>},
        n \in 0..9, end \in {<<"}">>, <<"}", "//", "NOLINT">>}}

-----------------------------------------------------------------------------
\* Calls by hand on two files, one in a directory below the other's, or on one
\* that is missing there, with every combination of configurations and options.
Minus == <<Filter("-", "build/include"), Filter("-", "legal")>>
Plus == <<Filter("+", "legal/copyright")>>
Unsigned == <<Filter("", "legal")>>

TopConfigs ==
    {<<>>, <<Option("noparent", TRUE), Option("filter", Minus), Option("linelength", 2)>>,
     <<Option("filter", Minus), Option("filter", Plus), Option("root", <<"SOURCES">>)>>,
     <<Option("filter", Unsigned)>>,
     <<Option("exclude_files", {"sub", "a.cpp"})>>, <<Option("headers", {"h"})>>}
SubConfigs ==
    {<<>>, <<Option("filter", Plus), Option("linelength", 12)>>, <<Option("unreadable", TRUE)>>,
     <<Option("extensions", {"h", "cpp"})>>,
     <<Option("noparent", TRUE), Option("extensions", {"h"}), Option("headers", {"h", "cpp"})>>}
Options ==
    {<<>>, <<Option("filter", Minus)>>, <<Option("verbose", 5), Option("linelength", 3)>>,
     <<Option("recursive", TRUE), Option("exclude", {"a.cpp"})>>, <<Option("invalid", TRUE)>>,
     <<Option("help", TRUE)>>, <<Option("filter", Unsigned)>>}

Clean == <<<<"//", "Copyright">>, <<>>>>
Dirty == <<<<"\t", "x", "x">>, <<>>>>

TwoFiles(a, b, top, sub) ==
    [n \in {"a.cpp", "b.cpp", "missing.cpp", "dir"} |->
        CASE n = "a.cpp" -> [Source(a) EXCEPT !.levels = <<Level0(n, top)>>]
          [] n = "b.cpp" -> [Source(b) EXCEPT !.levels = <<Level0(n, sub), Level0("sub", top)>>]
          [] n = "missing.cpp" -> [Source(<<>>) EXCEPT !.exists = FALSE,
                                      !.levels = <<Level0(n, sub), Level0("sub", top)>>]
          [] n = "dir" -> [Source(<<>>) EXCEPT !.exists = FALSE]]

ConfiguredJobs ==
    {[ByHand(TwoFiles(texts[1], texts[2], top, sub), options, names) EXCEPT
         !.directories = [d \in {"dir"} |-> {"a.cpp", "b.cpp"}]] :
        texts \in {<<Clean, Dirty>>, <<Dirty, Clean>>, <<Clean, Clean>>},
        top \in TopConfigs, sub \in SubConfigs, options \in Options,
        names \in {<<"a.cpp", "b.cpp">>, <<"b.cpp", "a.cpp">>,
                   <<"missing.cpp", "a.cpp">>, <<"dir">>, <<>>}}

\* Two files in a row, the first with every sequence of lines with marks.
MarkLines ==
    {<<"\t">>, <<"\t", "//", "NOLINT">>, <<"//", "NOLINTNEXTLINE">>,
     <<"//", "NOLINTNEXTLINE", "(", "whitespace/tab", ")">>,
     <<"\t", "//", "NOLINT", "(", "build/include", ")">>,
     <<"//", "NOLINT", "(", "readability/unknown", ")">>,
     <<"//", "NOLINT", "(", "readability/streams", ")">>,
     <<"/*", "LINT_KERNEL_FILE">>, <<"NOLINT", "*/">>, <<"short", "x", "\r">>,
     <<"unsigned", "short", "port", "NUL">>, <<"MACRO", "(", ")", "{">>, <<"f", "(", ")">>,
     <<"{">>, <<"x">>, <<"}">>, <<"}", "//", "NOLINT">>}
MarkedJobs(lines) ==
    {ByHand(TwoFiles(Append(t, <<>>), <<<<"\t">>, <<"replacement">>>>, <<>>, <<>>),
            <<>>, <<"a.cpp", "b.cpp">>) : t \in [1..lines -> MarkLines]}

\* Headers, with every sequence of lines of a guard.
Guards ==
    {<<"#ifndef", "SOURCES_A_H_">>, <<"#ifndef", "A_H_", "//", "NOLINT">>, <<"#define", "SOURCES_A_H_">>,
     <<"#define", "A_H__">>, <<"#ifndef", "A_H__">>, <<"#endif", "//", "A_H_">>,
     <<"#endif", "//", "A_H__">>, <<"#endif", "/*", "A_H_", "*/">>, <<"#pragma", "once">>,
     <<"//", "NOLINTNEXTLINE">>, <<"//", "NOLINT", "(", "build/header_guard", ")">>}
GuardJobs(lines) ==
    {ByHand([n \in {"a.h"} |-> [Source(Append(t, <<>>)) EXCEPT
                !.ext = "h", !.path = <<"REPO", "SOURCES", "A_H">>]],
            options, <<"a.h">>) :
        t \in [1..lines -> Guards], options \in {<<>>, <<Option("root", <<"SOURCES">>)>>}}

\* The wrapper, on what git lists.
WrapperFiles(status, text) ==
    [n \in {"a.cpp", "b.h", "old -> a.cpp", "c.txt"} |->
        CASE n = "a.cpp" -> [Source(text) EXCEPT !.status = status,
                                !.listed = IF status = <<"R", " ">> THEN "old -> a.cpp" ELSE n]
          [] n = "b.h" -> [Source(Dirty) EXCEPT !.ext = "h", !.status = <<"M", " ">>, !.listed = n,
                              !.levels = <<Level0(n, <<Option("linelength", 2)>>)>>]
          [] n = "old -> a.cpp" -> [Source(<<>>) EXCEPT !.exists = FALSE, !.inHead = FALSE]
          [] n = "c.txt" -> [Source(Dirty) EXCEPT !.ext = "txt", !.status = <<"M", " ">>]]

WrapperJobs ==
    {[ByWrapper(WrapperFiles(status, text), python, modes) EXCEPT !.filter = filter, !.roots = roots] :
        status \in {<<>>, <<"M", " ">>, <<"?", "?">>, <<"R", " ">>, <<" ", "D">>},
        text \in {Clean, Dirty}, python \in {2, 3}, roots \in {1, 2},
        modes \in {{"modified"}, {"all"}, {"modified", "all"}, {"help"}, {"invalid"}},
        filter \in {<<>>, Minus, <<Filter("-", "")>>}}

OneFileJobs(texts) == {OneFile(t) : t \in texts}

\* In families, so that no large set is built.
MCJobs ==
    {OneFileJobs([1..1 -> PiecesOf(3)]), OneFileJobs(LinesOfPieces),
     OneFileJobs(Functions), ConfiguredJobs, WrapperJobs}
        \union {OneFileJobs([1..n -> Heads]) : n \in 2..4}
        \union {OneFileJobs([1..n -> Heads \union OtherHeads]) : n \in 1..3}
        \union {OneFileJobs([1..n -> IncludeLines]) : n \in 1..5}
        \union {SourceJobs(n) : n \in 1..3}
        \union {MarkedJobs(n) : n \in 1..3}
        \union {GuardJobs(n) : n \in 1..3}
=============================================================================
