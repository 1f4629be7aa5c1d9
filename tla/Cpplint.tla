-------------------------------- MODULE Cpplint --------------------------------
(***************************************************************************)
(* One process of cpplint.py: the command line, then each file in turn,    *)
(* with the configurations above it, line by line.  The globals outlive    *)
(* the files.  What there is to lint is a parameter of a behaviour, job,   *)
(* a record of files, directories and commands.                            *)
(*                                                                         *)
(* A file is a record: exists, text (the lines between its ends of line),  *)
(* ext, path and top (see LintChecks), levels (its own name and those of   *)
(* its directories upwards, each with the options of the CPPLINT.cfg       *)
(* beside it), and what LintIncludes reads of a file.                      *)
(***************************************************************************)
EXTENDS LintChecks

CONSTANT Jobs \* families of what there may be to lint, with the commands that do it

VARIABLES
    job,       \* an element of one of Jobs
    command,   \* the options and the names given to the process
    lint,      \* the globals (see LintChecks)
    filenames, \* the files left
    phase,     \* where the process is
    clean,     \* the CleansedLines of the file
    line,      \* the position of the next line
    nesting, function, includes, \* the states of the file
    linted,    \* the files whose every line was processed
    returned   \* the status of the process, once it has ended

cpplintVars == <<command, lint, filenames, phase, clean, line, nesting, function,
                 includes, linted, returned>>

Filter(sign, prefix) == [sign |-> sign, prefix |-> prefix]
DefaultFilters == <<Filter("-", "build/include_alpha")>>

InitLint ==
    [filters |-> DefaultFilters, backup |-> DefaultFilters, verboseLevel |-> 1,
     errorCount |-> 0, lineLength |-> 80, extensions |-> {},
     headers |-> {"h", "hh", "hpp", "hxx"}, root |-> <<>>,
     suppressions |-> {}, globalSuppressions |-> {}, file |-> "", raised |-> {}]

NoLines == CleansedLines(<<>>)

\* The modules are loaded: no line is read yet.
LoadCpplint ==
    /\ lint = InitLint /\ filenames = <<>>
    /\ clean = NoLines /\ line = 1
    /\ nesting = InitNesting /\ function = NoFunction /\ includes = InitIncludes
    /\ linted = {} /\ returned = 0

-----------------------------------------------------------------------------
(***************************************************************************)
(* The options that the command line and the configurations share; each    *)
(* one assigns a global.                                                   *)
(***************************************************************************)
GetAllExtensions(l) ==
    IF l.extensions = {} THEN l.headers \union {"c", "cc", "cpp", "cxx"} ELSE l.extensions

ProcessHppHeadersOption(l, extensions) ==
    [l EXCEPT !.headers = extensions, !.extensions = @ \union extensions]

SetOption(l, option) ==
    CASE option.name = "linelength" -> [l EXCEPT !.lineLength = option.val]
      [] option.name = "extensions" -> [l EXCEPT !.extensions = option.val]
      [] option.name = "headers" -> ProcessHppHeadersOption(l, option.val)
      [] option.name = "root" -> [l EXCEPT !.root = option.val]
      [] option.name = "verbose" -> [l EXCEPT !.verboseLevel = option.val]
      [] OTHER -> l

Signed(filters) == \A f \in ToSet(filters) : f.sign \in {"+", "-"}
AddFilters(l, filters) == [l EXCEPT !.filters = @ \o filters]
BackupFilters(l) == [l EXCEPT !.backup = l.filters]
RestoreFilters(l) == [l EXCEPT !.filters = l.backup]

Given(name) == {o \in ToSet(command.options) : o.name = name}

End(status) ==
    /\ phase' = "end" /\ returned' = status
    /\ UNCHANGED <<job, command, filenames, clean, line, nesting, function, includes, linted>>

(***************************************************************************)
(* ParseArguments.  An option that is not known, or no name, ends with a   *)
(* message and 1, --help and the like with 0; a filter without sign is not *)
(* caught.  --recursive replaces directories by their files and keeps the  *)
(* names with an extension of the command line, in the order of a set;     *)
(* configurations are read later.                                          *)
(***************************************************************************)
Refused == Given("invalid") # {} \/ (Given("help") = {} /\ command.names = <<>>)

CommandFilters ==
    LET last == SelectLastInSeq(command.options, LAMBDA o : o.name = "filter")
    IN  IF last = 0 THEN <<>> ELSE command.options[last].val

ExpandDirectories(names, l) ==
    LET Files(n) == IF n \in DOMAIN job.directories THEN job.directories[n] ELSE {n}
    IN  {f \in UNION {Files(n) : n \in names} : job.files[f].ext \in GetAllExtensions(l)}

Selections(l) ==
    IF Given("recursive") = {} THEN {command.names}
    ELSE SetToSeqs(ExpandDirectories(ToSet(command.names), l))

EndAtArguments ==
    /\ phase = "arguments"
    /\ Refused \/ Given("help") # {} \/ ~Signed(CommandFilters)
    /\ End(IF Refused \/ Given("help") = {} THEN 1 ELSE 0)
    /\ UNCHANGED lint

ParseArguments ==
    /\ phase = "arguments"
    /\ ~Refused /\ Given("help") = {} /\ Signed(CommandFilters)
    /\ LET set == FoldLeft(SetOption, lint, command.options)
           excludes == UNION {o.val : o \in Given("exclude")}
       IN  /\ lint' = [AddFilters(set, CommandFilters) EXCEPT !.errorCount = 0]
           /\ \E selection \in Selections(set) :
                 filenames' = SelectSeq(selection, LAMBDA f : f \notin excludes)
    /\ phase' = "next"
    /\ UNCHANGED <<job, command, clean, line, nesting, function, includes, linted, returned>>

-----------------------------------------------------------------------------
(***************************************************************************)
(* ProcessConfigOverrides, from the file upwards: the filters are added    *)
(* from the top down at the end, the other options take effect at once.    *)
(***************************************************************************)
ConfigOption(read, option, component) ==
    CASE read.excluded -> read
      [] option.name \in {"noparent", "unreadable"} -> [read EXCEPT !.looking = FALSE]
      [] option.name = "filter" -> [read EXCEPT !.filters = option.val \o @]
      [] option.name = "exclude_files" -> [read EXCEPT !.excluded = component \in option.val]
      [] OTHER -> [read EXCEPT !.lint = SetOption(@, option)]

ConfigFile(read, level) ==
    IF ~read.looking \/ read.excluded THEN read
    ELSE FoldLeft(LAMBDA r, o : ConfigOption(r, o, level.component), read, level.config)

ProcessConfigOverrides(l, file) ==
    FoldLeft(ConfigFile, [lint |-> l, filters |-> <<>>, looking |-> TRUE, excluded |-> FALSE],
             file.levels)

(***************************************************************************)
(* The start of ProcessFile.  Faulty variant: the filters are not restored *)
(* when the file is left out.                                              *)
(***************************************************************************)
File == job.files[Head(filenames)]
Overrides == ProcessConfigOverrides([BackupFilters(lint) EXCEPT !.file = Head(filenames)], File)

LeftUnrestored(l) == l
LeftOut(l) == RestoreFilters(l)

\* The file is excluded, before any filter is added, cannot be read, or has no
\* valid extension.
LeaveOutFile ==
    /\ phase = "next" /\ filenames # <<>>
    /\ \/ Overrides.excluded /\ lint' = LeftOut(Overrides.lint)
       \/ /\ ~Overrides.excluded /\ Signed(Overrides.filters)
          /\ ~File.exists \/ File.ext \notin GetAllExtensions(Overrides.lint)
          /\ lint' = LeftOut(AddFilters(Overrides.lint, Overrides.filters))
    /\ filenames' = Tail(filenames)
    /\ UNCHANGED <<job, command, phase, clean, line, nesting, function, includes, linted, returned>>

\* A filter without sign in a configuration is not caught either.
EndAtFilter ==
    /\ phase = "next" /\ filenames # <<>>
    /\ ~Overrides.excluded /\ ~Signed(Overrides.filters)
    /\ lint' = AddFilters(Overrides.lint, Overrides.filters)
    /\ End(1)

OpenFile ==
    /\ phase = "next" /\ filenames # <<>>
    /\ ~Overrides.excluded /\ Signed(Overrides.filters)
    /\ File.exists /\ File.ext \in GetAllExtensions(Overrides.lint)
    /\ lint' = AddFilters(Overrides.lint, Overrides.filters)
    /\ phase' = "data"
    /\ UNCHANGED <<job, command, filenames, clean, line, nesting, function, includes, linted, returned>>

-----------------------------------------------------------------------------
(***************************************************************************)
(* ProcessFileData: what comes before the lines.                           *)
(***************************************************************************)
FirstMarker == <<"//", "marker", "so", "line", "numbers", "and", "indices", "both",
                 "start", "at", "1">>
LastMarker == <<"//", "marker", "so", "line", "numbers", "end", "in", "a", "known", "way">>
WithCR(text) == {i \in 1..Len(text) - 1 : text[i] # <<>> /\ Last(text[i]) = "\r"}
LinesOf(text) ==
    [i \in DOMAIN text |-> IF i \in WithCR(text) THEN SelectSeq(text[i], LAMBDA t : t # "\r")
                           ELSE text[i]]

BeginFile ==
    /\ phase = "data"
    /\ LET lines == <<FirstMarker>> \o LinesOf(File.text) \o <<LastMarker>>
           removed == RemoveMultiLineComments(lines)
           cleansed == CleansedLines(removed.lines)
           looked == ReportAll(ResetNolintSuppressions(lint), CheckForCopyright(lines))
           suppressing == [looked EXCEPT !.globalSuppressions = @ \union GlobalSuppressions(lines)]
           commented == ReportIf(removed.unended > 0, suppressing,
                            Error(removed.unended, "readability/multiline_comment", 5))
       IN  /\ clean' = cleansed
           /\ lint' = IF File.ext \in lint.headers
                      THEN CheckForHeaderGuard(commented, File, cleansed.withoutRaw)
                      ELSE commented
    /\ line' = 1
    /\ nesting' = InitNesting /\ function' = NoFunction /\ includes' = InitIncludes
    /\ phase' = "lines"
    /\ UNCHANGED <<job, command, filenames, linted, returned>>

(***************************************************************************)
(* ProcessLine, then FlagCxx11Features.  Inside inline assembly the checks *)
(* that follow the namespaces are skipped.                                 *)
(***************************************************************************)
ProcessLine ==
    /\ phase = "lines"
    /\ LET marked == ParseNolintSuppressions(lint, clean.raw[line], Number(line))
           updated == Update(nesting, clean.elided, clean.raw, line)
           blocks == updated.errors
                        \o CheckForNamespaceIndentation(updated.nesting, clean.elided, line)
           lengths == CheckForFunctionLengths(function, clean.lines, line, lint.verboseLevel)
           read == CheckIncludes(includes, File, clean, line)
           rest == lengths.errors
                        \o CheckForMultilineCommentsAndStrings(clean.elided[line], line)
                        \o CheckStyle(lint, File, clean.withoutRaw[line], line)
                        \o read.errors \o CheckTypes(clean.elided[line], line)
           flags == FlagCxx11Features(clean.elided[line], line)
           asm == InAsmBlock(updated.nesting)
       IN  /\ nesting' = updated.nesting
           /\ lint' = ReportAll(marked, blocks \o (IF asm THEN <<>> ELSE rest) \o flags)
           /\ function' = IF asm THEN function ELSE lengths.function
           /\ includes' = IF asm THEN includes ELSE read.includes
    /\ line' = line + 1
    /\ phase' = IF line = Len(clean.raw) THEN "finish" ELSE "lines"
    /\ UNCHANGED <<job, command, filenames, clean, linted, returned>>

(***************************************************************************)
(* The end of ProcessFileData and of ProcessFile.                          *)
(***************************************************************************)
HeaderIncludes ==
    [n \in {m \in DOMAIN job.files : job.files[m].exists} |->
        {l[2] : l \in {k \in ToSet(job.files[n].text) : Begins(k, {"#include"})}}]

FinishFile ==
    /\ phase = "finish"
    /\ LET isSource == File.ext \in GetAllExtensions(lint) \ lint.headers
           crlf == WithCR(File.text)
           lf == 1..Len(File.text) - 1 \ crlf
           errors == CheckCompletedBlocks(nesting)
                        \o CheckForIncludeWhatYouUse(includes, File, clean.elided, isSource,
                                                     HeaderIncludes)
                        \o (IF isSource THEN CheckHeaderFileIncluded(includes, File) ELSE <<>>)
                        \o CheckForBadCharacters(clean.raw)
                        \o CheckForNewlineAtEOF(clean.raw)
                        \o CheckLineEnds(SetToSortSeq(crlf, <), SetToSeq(lf))
       IN  lint' = RestoreFilters(ReportAll(lint, errors))
    /\ linted' = linted \union {Head(filenames)}
    /\ filenames' = Tail(filenames)
    /\ phase' = "next"
    /\ UNCHANGED <<job, command, clean, line, nesting, function, includes, returned>>

\* The end of main.
EndOfFiles ==
    /\ phase = "next" /\ filenames = <<>>
    /\ End(IF lint.errorCount > 0 THEN 1 ELSE 0)
    /\ UNCHANGED lint

CpplintNext ==
    \/ EndAtArguments
    \/ ParseArguments
    \/ LeaveOutFile
    \/ EndAtFilter
    \/ OpenFile
    \/ BeginFile
    \/ ProcessLine
    \/ FinishFile
    \/ EndOfFiles

================================================================================
