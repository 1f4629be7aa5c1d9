------------------------------ MODULE LintChecks ------------------------------
(***************************************************************************)
(* How cpplint.py reports an error, and the checks of a file that look at  *)
(* more than one place of it or that settings govern: suppressions,        *)
(* copyright, header guard, length of functions and of lines, ends of      *)
(* lines and of the file.                                                  *)
(*                                                                         *)
(* lint is the state of the module cpplint: its globals, the attributes of *)
(* _cpplint_state, the file under way and, in raised, every error found.   *)
(***************************************************************************)
EXTENDS LintIncludes

CONSTANTS
    NormalTrigger, \* _NORMAL_TRIGGER
    TestTrigger,   \* _TEST_TRIGGER
    Macros         \* the names written in capitals

\* The categories of _ERROR_CATEGORIES and _LEGACY_ERROR_CATEGORIES in use.
ErrorCategories ==
    {"build/class", "build/c++11", "build/header_guard", "build/include",
     "build/include_alpha", "build/include_order", "build/include_subdir",
     "build/include_what_you_use", "build/namespaces", "legal/copyright",
     "readability/casting", "readability/fn_size", "readability/multiline_comment",
     "readability/multiline_string", "readability/namespace", "readability/nolint",
     "readability/nul", "readability/utf8", "runtime/int",
     "runtime/indentation_namespace", "whitespace/ending_newline", "whitespace/indent",
     "whitespace/line_length", "whitespace/newline", "whitespace/tab"}
LegacyErrorCategories == {"readability/streams", "readability/function"}

AnyCategory == "*"

-----------------------------------------------------------------------------
(***************************************************************************)
(* _ShouldPrintError and Error: the last filter that is a prefix of the    *)
(* category decides.                                                       *)
(***************************************************************************)
IsErrorSuppressedByNolint(lint, e) ==
    \/ e.category \in lint.globalSuppressions
    \/ {<<e.category, e.line>>, <<AnyCategory, e.line>>} \intersect lint.suppressions # {}

Filtered(filters, category) ==
    LET that == SelectLastInSeq(filters, LAMBDA f : IsPrefix(f.prefix, category))
    IN  that > 0 /\ filters[that].sign = "-"

ShouldPrintError(lint, e) ==
    /\ ~IsErrorSuppressedByNolint(lint, e)
    /\ e.confidence >= lint.verboseLevel
    /\ ~Filtered(lint.filters, e.category)

Report(lint, e) ==
    LET printed == ShouldPrintError(lint, e)
    IN  [lint EXCEPT !.errorCount = @ + (IF printed THEN 1 ELSE 0),
                     !.raised = @ \union {[file |-> lint.file, error |-> e, printed |-> printed]}]

ReportAll(lint, errors) == FoldLeft(Report, lint, errors)
ReportIf(on, lint, e) == IF on THEN Report(lint, e) ELSE lint

(***************************************************************************)
(* ParseNolintSuppressions, of the first marker of a line.                 *)
(***************************************************************************)
Nolint == {"NOLINT", "NOLINTNEXTLINE"}

SuppressedLine(marker, number) == IF marker = "NOLINTNEXTLINE" THEN number + 1 ELSE number

ParseNolintSuppressions(lint, raw, number) ==
    LET at == First(raw, Nolint)
        named == at + 3 <= Len(raw) /\ raw[at + 1] = "(" /\ raw[at + 3] = ")"
        category == IF named THEN raw[at + 2] ELSE AnyCategory
        line == SuppressedLine(raw[at], number)
    IN  IF at = 0 THEN lint
        ELSE IF category \in ErrorCategories \union {AnyCategory}
        THEN [lint EXCEPT !.suppressions = @ \union {<<category, line>>}]
        ELSE ReportIf(category \notin LegacyErrorCategories, lint,
                      Error(number, "readability/nolint", 5))

\* ProcessGlobalSuppresions, and ResetNolintSuppressions.
GlobalMarks ==
    [m \in {"LINT_C_FILE", "LINT_KERNEL_FILE"} |->
        IF m = "LINT_C_FILE" THEN "readability/casting" ELSE "whitespace/tab"]

GlobalSuppressions(lines) ==
    {GlobalMarks[m] : m \in DOMAIN GlobalMarks \intersect UNION {ToSet(l) : l \in ToSet(lines)}}

\* Faulty variant: the global suppressions outlive the file.
ResetOfLines(lint) == [lint EXCEPT !.suppressions = {}]
ResetNolintSuppressions(lint) ==
    [lint EXCEPT !.suppressions = {}, !.globalSuppressions = {}]

-----------------------------------------------------------------------------
(***************************************************************************)
(* CheckForCopyright, CheckForBadCharacters and CheckForNewlineAtEOF look  *)
(* at the lines with their markers, the last two after                     *)
(* RemoveMultiLineComments.                                                *)
(***************************************************************************)
CheckForCopyright(lines) ==
    IF \E i \in DOMAIN lines \intersect 2..11 : "Copyright" \in ToSet(lines[i])
    THEN <<>> ELSE <<Error(0, "legal/copyright", 5)>>

CheckForBadCharacters(lines) ==
    FlattenSeq([i \in DOMAIN lines |->
        (IF "replacement" \in ToSet(lines[i]) THEN <<Error(Number(i), "readability/utf8", 5)>> ELSE <<>>)
        \o (IF "NUL" \in ToSet(lines[i]) THEN <<Error(Number(i), "readability/nul", 5)>> ELSE <<>>)])

CheckForNewlineAtEOF(lines) ==
    IF lines[Len(lines) - 1] = <<>> THEN <<>>
    ELSE <<Error(Len(lines) - 2, "whitespace/ending_newline", 5)>>

\* The end of ProcessFile: errors on lines with CR when only some have it.
CheckLineEnds(crlf, lf) ==
    IF crlf = <<>> \/ lf = <<>> THEN <<>>
    ELSE [n \in DOMAIN crlf |-> Error(crlf[n], "whitespace/newline", 1)]

-----------------------------------------------------------------------------
(***************************************************************************)
(* GetHeaderGuardCPPVariable.  A path is the sequence of its components,   *)
(* already in the letters of a variable; top is the path of the topmost    *)
(* directory with .git, which RepositoryName removes.                      *)
(***************************************************************************)
RepositoryName(file) ==
    IF IsPrefix(file.top, file.path) THEN From(file.path, Len(file.top) + 1) ELSE file.path

\* The path without root, tried on the name in the repository, then on the
\* full path.
FixupPathFromRoot(file, root) ==
    LET name == RepositoryName(file)
        Strips(path) == IsPrefix(root, path) /\ Len(root) < Len(path)
    IN  IF root = <<>> THEN name
        ELSE IF Strips(name) THEN From(name, Len(root) + 1)
        ELSE IF Strips(file.path) THEN From(file.path, Len(root) + 1)
        ELSE name

GetHeaderGuardCPPVariable(file, root) ==
    FoldLeft(LAMBDA s, c : s \o c \o "_", "", FixupPathFromRoot(file, root))

(***************************************************************************)
(* CheckForHeaderGuard, on the lines without raw strings.  It reads the    *)
(* suppressions of the guard's lines itself, before the lines are          *)
(* processed.                                                              *)
(***************************************************************************)
HeaderGuardWaived(lines) ==
    \E i \in DOMAIN lines :
        \/ \E k \in DOMAIN lines[i] :
              IsPrefix(<<"//", "NOLINT", "(", "build/header_guard", ")">>, From(lines[i], k))
        \/ IsPrefix(<<"#pragma", "once">>, Stripped(lines[i]))

\* The first line that starts with a directive and has an argument, or 0.
Directive(lines, name) ==
    SelectInSeq(lines, LAMBDA l : Begins(l, {name}) /\ Len(Stripped(l)) >= 2)

CheckForHeaderGuard(lint, file, lines) ==
    LET var == GetHeaderGuardCPPVariable(file, lint.root)
        ifndef == Directive(lines, "#ifndef")
        define == Directive(lines, "#define")
        guard == Stripped(lines[ifndef])[2]
        last == SelectLastInSeq(lines, LAMBDA l : l # <<>> /\ l[1] = "#endif")
        endif == IF last = 0 THEN 1 ELSE last
        Ends(mark, v) == last > 0 /\ IsPrefix(<<"#endif", mark, v>>, lines[endif])
        commented == \E i \in 2..(Len(lines) - 1) : InLineComment(lines[i])
        Marked(v) == \/ Ends("//", v)
                     \/ ~commented /\ Ends("/*", v) /\ "*/" \in ToSet(lines[endif])
        Guard(i, confidence) == Error(Number(i), "build/header_guard", confidence)
        named == IF guard = var THEN lint
                 ELSE Report(ParseNolintSuppressions(lint, lines[ifndef], Number(ifndef)),
                             Guard(ifndef, IF guard = var \o "_" THEN 0 ELSE 5))
        ended == ParseNolintSuppressions(named, lines[endif], Number(endif))
    IN  IF HeaderGuardWaived(lines) THEN lint
        ELSE IF ifndef = 0 \/ define = 0 THEN Report(lint, Guard(1, 5))
        ELSE IF Stripped(lines[define])[2] # guard THEN Report(lint, Guard(1, 5))
        ELSE IF Marked(var) THEN ended
        ELSE Report(ended, Guard(endif, IF Marked(var \o "_") THEN 0 ELSE 5))

-----------------------------------------------------------------------------
(***************************************************************************)
(* _FunctionState and CheckForFunctionLengths, on lines without comments.  *)
(***************************************************************************)
NoFunction == [inAFunction |-> FALSE, linesInFunction |-> 0, test |-> FALSE]
TestMacros == {"TEST", "TEST_F"}

\* The level of a function of n lines: the power of two by which it exceeds
\* the base, at most 5.
Level(n, base) == Max({k \in 0..5 : k = 0 \/ base * 2^k <= n})

CheckFunction(function, verboseLevel, number) ==
    LET base == IF function.test THEN TestTrigger ELSE NormalTrigger
        n == function.linesInFunction
    IN  IF function.inAFunction /\ n > base * 2^verboseLevel
        THEN <<Error(number, "readability/fn_size", Level(n, base))>> ELSE <<>>

Words(tokens) ==
    ToSet(tokens) \intersect {"{", "}", ";", ")", "[", "]", "=", "<", ">", ",", DQ, SQ} = {}

\* The name before the first ( of an unindented line of words, or "".
FunctionName(line) ==
    LET open == First(line, {"("})
    IN  IF open > 1 /\ ~Indented(line) /\ Words(Upto(line, open - 1)) THEN line[open - 1] ELSE ""

CheckForFunctionLengths(function, lines, i, verboseLevel) ==
    LET name == FunctionName(lines[i])
        body == FirstLine(lines, i, LAMBDA l : First(l, {";", "}", "{"}) > 0)
        trivial == body > 0 /\ First(lines[body], {";", "}"}) > 0
        Stays(errors) == [function |-> function, errors |-> errors]
    IN  IF name # "" /\ (name \in TestMacros \/ name \notin Macros)
        THEN IF body = 0 THEN Stays(<<Error(Number(i), "readability/fn_size", 5)>>)
             ELSE IF trivial THEN Stays(<<>>)
             ELSE [function |-> [inAFunction |-> TRUE, linesInFunction |-> 0,
                                 test |-> name \in TestMacros],
                   errors |-> <<>>]
        ELSE IF lines[i] = <<"}">>
        THEN [function |-> [function EXCEPT !.inAFunction = FALSE],
              errors |-> CheckFunction(function, verboseLevel, Number(i))]
        ELSE IF Blank(lines[i]) \/ ~function.inAFunction THEN Stays(<<>>)
        ELSE [function |-> [function EXCEPT !.linesInFunction = @ + 1], errors |-> <<>>]

-----------------------------------------------------------------------------
(***************************************************************************)
(* The checks of one line that warn of what the others do not see, or that *)
(* settings govern.  The width of a line is its number of tokens.          *)
(***************************************************************************)
CheckForMultilineCommentsAndStrings(line, i) ==
    (IF Count(line, "/*") > Count(line, "*/")
     THEN <<Error(Number(i), "readability/multiline_comment", 5)>> ELSE <<>>)
    \o (IF Count(line, DQ) % 2 = 1
        THEN <<Error(Number(i), "readability/multiline_string", 5)>> ELSE <<>>)

\* A long line is allowed for an include, a guard, or a comment of one word.
MayBeLong(lint, file, line) ==
    \/ line[1] = "#include"
    \/ /\ file.ext \in lint.headers
       /\ LET var == GetHeaderGuardCPPVariable(file, lint.root)
          IN  \E start \in {<<"#ifndef", var>>, <<"#define", var>>, <<"#endif", "//", var>>} :
                 IsPrefix(start, line)
    \/ Begins(line, {"//"}) /\ Len(Stripped(line)) <= 2

CheckStyle(lint, file, line, i) ==
    (IF "\t" \in ToSet(line) THEN <<Error(Number(i), "whitespace/tab", 1)>> ELSE <<>>)
    \o (IF Len(line) > lint.lineLength /\ ~MayBeLong(lint, file, line)
        THEN <<Error(Number(i), "whitespace/line_length", 2)>> ELSE <<>>)

\* The C types, on a line that is not an include: short is allowed for a port.
CheckTypes(line, i) ==
    LET At(tokens) == {k \in DOMAIN line : IsPrefix(tokens, From(line, k))}
        wrong == IF At(<<"short", "port">>) # {} THEN At(<<"unsigned", "short", "port">>) = {}
                 ELSE At(<<"short">>) # {} \/ \E k \in At(<<"long">>) : k \notin At(<<"long", "double">>)
    IN  IF wrong /\ ~Begins(line, {"#include"}) THEN <<Error(Number(i), "runtime/int", 4)>> ELSE <<>>

FlagCxx11Features(line, i) ==
    IF Begins(line, {"#include"}) /\ Len(Stripped(line)) > 1 /\ Headers[Stripped(line)[2]].unapproved
    THEN <<Error(Number(i), "build/c++11", 5)>> ELSE <<>>

============================================================================
