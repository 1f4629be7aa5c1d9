------------------------------ MODULE StyleCheck ------------------------------
(***************************************************************************)
(* The check of the style of the sources: cpplint.py called by hand on     *)
(* some files, or the target cpplint of the build, where                   *)
(* cpplint-wrapper.py asks git for the files and starts one process of     *)
(* cpplint.py for each.                                                    *)
(*                                                                         *)
(* A job tells the tool ("cpplint" or "wrapper"), the version of Python,   *)
(* the options and names of a call by hand, and the modes, filters and     *)
(* number of directories the wrapper is given.  For git a file is in HEAD  *)
(* or not, and has a status (<<>> when it is not listed) and the name it   *)
(* is listed by, which for a renamed file is that of no file.              *)
(***************************************************************************)
EXTENDS Cpplint

CONSTANT ExitModulus \* the number of statuses a process may end with

VARIABLES
    stage,      \* where the check is
    todo,       \* the files the wrapper has not given to cpplint
    exitStatus, \* the sum of the statuses
    exit        \* the status of the check, or -1

wrapperVars == <<stage, todo, exitStatus, exit>>
vars == <<job, cpplintVars, wrapperVars>>

NoCommand == [options |-> <<>>, names |-> <<>>]

Init ==
    /\ \E family \in Jobs : job \in family
    /\ LoadCpplint
    /\ phase = "arguments"
    /\ IF job.tool = "cpplint"
       THEN /\ stage = "process"
            /\ command = [options |-> job.options, names |-> job.names]
       ELSE stage = "wrapper" /\ command = NoCommand
    /\ todo = <<>> /\ exitStatus = 0 /\ exit = -1

-----------------------------------------------------------------------------
(***************************************************************************)
(* The files of git.  With Python 3 a status is made of numbers, equal to  *)
(* no letter: nothing is filtered, and no name is that of a renamed file.  *)
(***************************************************************************)
FilterGitStatus(file) ==
    job.python = 3 \/ ToSet(file.status) \intersect {"!", "D", "?"} = {}

FilterFilename(file) == file.ext \in {"cpp", "h", "hpp", "hxx"}

FilterGitName(name) ==
    LET file == job.files[name]
    IN  IF job.python = 2 /\ file.status[1] \in {"R", "C"} THEN name ELSE file.listed

AllFiles == {n \in DOMAIN job.files : job.files[n].inHead /\ FilterFilename(job.files[n])}

ModifiedFiles ==
    {FilterGitName(n) : n \in {m \in DOMAIN job.files :
        /\ job.files[m].status # <<>>
        /\ FilterGitStatus(job.files[m]) /\ FilterFilename(job.files[m])}}

(***************************************************************************)
(* main of the wrapper.  With Python 3 usage raises, whatever the status.  *)
(***************************************************************************)
Usable == Cardinality(job.modes \intersect {"modified", "all"}) = 1 /\ job.roots = 1
          /\ job.modes \subseteq {"modified", "all"}

EndAtUsage ==
    /\ stage = "wrapper" /\ ~Usable
    /\ exit' = IF job.modes = {"help"} /\ job.python = 2 THEN 0 ELSE 1
    /\ stage' = "exited"
    /\ UNCHANGED <<job, cpplintVars, todo, exitStatus>>

SelectFiles ==
    /\ stage = "wrapper" /\ Usable
    /\ todo' = SetToSeq(IF "all" \in job.modes THEN AllFiles ELSE ModifiedFiles)
    /\ stage' = "files"
    /\ UNCHANGED <<job, cpplintVars, exitStatus, exit>>

\* A new process: only the histories raised and linted go on.
StartCpplint ==
    /\ stage = "files" /\ todo # <<>>
    /\ command' = [options |-> IF job.filter = <<>> THEN <<>>
                               ELSE <<[name |-> "filter", val |-> job.filter]>>,
                   names |-> <<Head(todo)>>]
    /\ lint' = [InitLint EXCEPT !.raised = lint.raised]
    /\ phase' = "arguments"
    /\ todo' = Tail(todo)
    /\ stage' = "process"
    /\ UNCHANGED <<job, filenames, clean, line, nesting, function, includes, linted, returned,
                   exitStatus, exit>>

\* Faulty variant: the status of the last file is that of the check.
LastStatus(sum, status) == status
SumOfStatuses(sum, status) == sum + status

EndCpplint ==
    /\ stage = "process" /\ phase = "end"
    /\ IF job.tool = "wrapper"
       THEN /\ exitStatus' = SumOfStatuses(exitStatus, returned)
            /\ stage' = "files"
            /\ UNCHANGED exit
       ELSE /\ exit' = returned
            /\ stage' = "exited"
            /\ UNCHANGED exitStatus
    /\ UNCHANGED <<job, cpplintVars, todo>>

EndWrapper ==
    /\ stage = "files" /\ todo = <<>>
    /\ exit' = exitStatus % ExitModulus
    /\ stage' = "exited"
    /\ UNCHANGED <<job, cpplintVars, todo, exitStatus>>

Exited == stage = "exited" /\ UNCHANGED vars

Next ==
    \/ EndAtUsage
    \/ SelectFiles
    \/ StartCpplint
    \/ stage = "process" /\ CpplintNext /\ UNCHANGED wrapperVars
    \/ EndCpplint
    \/ EndWrapper
    \/ Exited

Spec == Init /\ [][Next]_vars

-----------------------------------------------------------------------------
(***************************************************************************)
(* The files asked for, by hand or as git lists them, that are sources of  *)
(* C++ by their extension.                                                 *)
(***************************************************************************)
Requested ==
    IF job.tool = "cpplint"
    THEN UNION {IF n \in DOMAIN job.directories /\ Given("recursive") # {}
                THEN job.directories[n] ELSE {n} : n \in ToSet(job.names)}
    ELSE {n \in DOMAIN job.files :
            /\ job.files[n].ext \in {"cpp", "h", "hpp", "hxx"}
            /\ IF "all" \in job.modes THEN job.files[n].inHead ELSE job.files[n].status # <<>>}

\* What puts a file aside: it is missing, or a directory without --recursive, a
\* configuration above it or an option excludes it, or some list of extensions of
\* the check lacks its own.
OptionsAbove(file) == UNION {ToSet(l.config) : l \in ToSet(file.levels)}
AllOptions == ToSet(job.options) \union UNION {OptionsAbove(job.files[n]) : n \in DOMAIN job.files}
Extensions == {o.val : o \in {p \in AllOptions : p.name \in {"extensions", "headers"}}}

PutAside(n) ==
    LET file == job.files[n]
    IN  \/ ~file.exists
        \/ \E o \in ToSet(job.options) : o.name = "exclude" /\ n \in o.val
        \/ \E l \in ToSet(file.levels), o \in OptionsAbove(file) :
              o.name = "exclude_files" /\ l.component \in o.val
        \/ \E e \in Extensions \union {InitLint.headers \union {"c", "cc", "cpp", "cxx"}} :
              file.ext \notin e

\* What git lists and the wrapper does not pass on.
LostByWrapper(n) ==
    LET status == ToSet(job.files[n].status)
    IN  /\ job.tool = "wrapper" /\ "modified" \in job.modes
        /\ IF job.python = 3 THEN status \intersect {"R", "C"} # {}
           ELSE status \intersect {"!", "D", "?"} # {}

HelpAsked == "help" \in job.modes \/ \E o \in ToSet(job.options) : o.name = "help"

(***************************************************************************)
(* A check that succeeds has linted every file it was asked for and has    *)
(* printed no error, whatever the file, its place among the others, and    *)
(* the process it was linted by.  The exceptions are the files put aside,  *)
(* those the wrapper loses, and a number of files with errors that the     *)
(* status of a process cannot hold (cpplint.py main, cpplint-wrapper.py    *)
(* main).                                                                  *)
(***************************************************************************)
SuccessMeansClean ==
    stage = "exited" /\ exit = 0 /\ ~HelpAsked =>
        \/ exitStatus >= ExitModulus
        \/ \A n \in Requested :
              \/ PutAside(n) \/ LostByWrapper(n)
              \/ n \in linted /\ \A r \in lint.raised : r.file = n => ~r.printed

(***************************************************************************)
(* The options a file is under: those of its directory and of the ones     *)
(* above, up to the first that says noparent or cannot be read.            *)
(***************************************************************************)
Stops(level) == \E o \in ToSet(level.config) : o.name \in {"noparent", "unreadable"}
OptionsOf(file) ==
    LET stop == SelectInSeq(file.levels, Stops)
        seen == IF stop = 0 THEN file.levels ELSE Upto(file.levels, stop)
    IN  FlattenSeq([l \in DOMAIN seen |-> seen[l].config])

\* The nearest filter of a file that concerns a category decides, the first
\* line of a configuration before the next; then the command line.
Decision(file, category) ==
    LET lines == SelectSeq(OptionsOf(file), LAMBDA o : o.name = "filter")
        at == SelectInSeq(lines, LAMBDA o : \E f \in ToSet(o.val) : IsPrefix(f.prefix, category))
    IN  Filtered(IF at > 0 THEN lines[at].val ELSE DefaultFilters \o CommandFilters, category)

\* What the configurations of a file say of an option, and those of the files the
\* process may have read before; the command line comes first.
Values(file, name) == {o.val : o \in {p \in ToSet(OptionsOf(file)) : p.name = name}}
ValuesInProcess(name) ==
    UNION {Values(job.files[n], name) :
              n \in IF job.tool = "wrapper" THEN {Head(filenames)} ELSE DOMAIN job.files}
CommandValue(name, default) ==
    LET last == SelectLastInSeq(command.options, LAMBDA o : o.name = name)
    IN  IF last = 0 THEN default ELSE command.options[last].val

Respects(value, name, default) ==
    /\ Cardinality(Values(File, name)) = 1 => value \in Values(File, name)
    /\ ValuesInProcess(name) = {} => value = CommandValue(name, default)

(***************************************************************************)
(* A file is linted with the filters of its own configurations and of the  *)
(* command line, those nearest to it first, never with what an earlier     *)
(* file of the process left behind: the filters are restored whichever way *)
(* ProcessFile returns.  Its line length, root and extensions are those of *)
(* its configurations, else of the command line.  The exceptions are       *)
(* nested configurations that differ, of which the topmost wins, not the   *)
(* nested one as the usage says; and what a configuration of an earlier    *)
(* file of the process has set, as nothing but the filters is restored;    *)
(* the extensions also follow the headers, when these are given.           *)
(***************************************************************************)
SettingsOfFile ==
    stage = "process" /\ phase = "data" =>
        /\ \A c \in ErrorCategories : Filtered(lint.filters, c) <=> Decision(File, c)
        /\ Respects(lint.lineLength, "linelength", InitLint.lineLength)
        /\ Respects(lint.root, "root", InitLint.root)
        /\ {o \in AllOptions : o.name = "headers"} = {}
              => Respects(lint.extensions, "extensions", InitLint.extensions)

-----------------------------------------------------------------------------
(***************************************************************************)
(* An error is printed if and only if it should be: its category passes    *)
(* the filters, it is sure enough, no mark puts the category aside for the *)
(* whole file, and no NOLINT of the same file, on its line or on the one   *)
(* before with NOLINTNEXTLINE, names its category or none.  The exceptions *)
(* are the marks that cpplint.py does not see, in a comment of several     *)
(* lines it has removed, and the errors it raises before it reads the      *)
(* marks: an unended comment, and a guard marked by the line before.       *)
(***************************************************************************)
MarkedAt(text, i) ==
    LET at == First(text[i], Nolint)
        named == at + 3 <= Len(text[i]) /\ text[i][at + 1] = "("
    IN  IF at = 0 THEN {}
        ELSE {[line |-> IF text[i][at] = "NOLINT" THEN i ELSE i + 1,
               category |-> IF named THEN text[i][at + 2] ELSE AnyCategory,
               next |-> text[i][at] = "NOLINTNEXTLINE",
               seen |-> clean.raw[i + 1] = LinesOf(text)[i]]}

NolintRespected ==
    stage = "process" /\ phase = "next" /\ lint.file \in linted =>
        LET file == job.files[lint.file]
            marks == UNION {MarkedAt(file.text, i) : i \in DOMAIN file.text}
            For(e) == {m \in marks : m.line = e.line /\ m.category \in {e.category, AnyCategory}}
            Wanted(e) == ~Decision(file, e.category) /\ e.confidence >= lint.verboseLevel
            TooEarly(e, m) == \/ e.category = "readability/multiline_comment"
                              \/ e.category = "build/header_guard" /\ m.next
        IN  \A r \in lint.raised : r.file = lint.file =>
               IF r.printed
               THEN /\ Wanted(r.error)
                    /\ r.error.category \notin GlobalSuppressions(file.text)
                    /\ \A m \in For(r.error) : ~m.seen \/ TooEarly(r.error, m)
               ELSE \/ ~Wanted(r.error)
                    \/ For(r.error) # {}
                    \/ r.error.category \in GlobalSuppressions(file.text)

(***************************************************************************)
(* What the checks read is the code: outside the comments and strings of a *)
(* line, what is left is what a compiler reads there, or an error says     *)
(* that the results may be bogus.  The exceptions are files that no        *)
(* compiler reads and, because strings are collapsed before comments are   *)
(* removed, a quote or an apostrophe in a C comment.                      *)
(***************************************************************************)
Linted == SubSeq(clean.elided, 2, Len(clean.elided) - 1)

CodeIsWhatIsLinted ==
    stage = "process" /\ phase = "finish" =>
        \/ \E r \in lint.raised :
              r.file = lint.file /\ r.error.category \in {"readability/multiline_comment",
                                                          "readability/multiline_string"}
        \/ LET read == Compiled(LinesOf(File.text))
               Readable(l) == /\ l.mode \notin Quotes /\ ~l.quoted
                              /\ ToSet(l.code) \intersect {"*/", ")R"} = {}
           IN  (\A l \in ToSet(read) : Readable(l))
                  => \A i \in DOMAIN read : Bare(Linted[i]) = Bare(read[i].code)

(***************************************************************************)
(* The lines of the first branch of every conditional, which cpplint.py    *)
(* keeps, in a file whose conditionals are closed.                         *)
(***************************************************************************)
FirstBranch(lines) ==
    LET Read(done, l) ==
            CASE Begins(l, IfDirectives) -> [done EXCEPT !.open = Append(@, TRUE)]
              [] Begins(l, ElseDirectives) -> [done EXCEPT !.open = Append(Front(@), FALSE)]
              [] Begins(l, {"#endif"}) -> [done EXCEPT !.open = Front(@)]
              [] OTHER -> [done EXCEPT !.lines = IF FALSE \in ToSet(done.open) THEN @
                                                 ELSE Append(@, l)]
    IN  FoldLeft(Read, [open |-> <<>>, lines |-> <<>>], lines).lines

Closed(lines) ==
    LET Conditionals(n) ==
            Cardinality({i \in 1..n : Begins(lines[i], IfDirectives)})
                - Cardinality({i \in 1..n : Begins(lines[i], {"#endif"})})
    IN  /\ Conditionals(Len(lines)) = 0
        /\ \A i \in DOMAIN lines :
              Conditionals(i) >= (IF Begins(lines[i], ElseDirectives) THEN 1 ELSE 0)

\* The head of a class is followed by its body or by a semicolon.
Declared(tokens) ==
    \A i \in 1..Len(tokens) - 2 : tokens[i] = "class" => tokens[i + 2] \in {"{", ";"}

Depth(tokens) ==
    FoldLeft(LAMBDA d, t : IF t = "{" THEN d + 1 ELSE IF t = "}" /\ d > 0 THEN d - 1 ELSE d,
             0, tokens)

(***************************************************************************)
(* The blocks cpplint.py holds open are the braces the code has opened,    *)
(* through namespaces, classes, functions and conditionals: what it says   *)
(* of indentation and of blocks never closed is about the right block.     *)
(***************************************************************************)
BlocksMatchBraces ==
    stage = "process" /\ phase = "finish" /\ Closed(Linted) =>
        LET code == FlattenSeq(FirstBranch(Linted))
        IN  Declared(code) =>
               Cardinality({b \in DOMAIN nesting.stack : nesting.stack[b].seenOpenBrace})
                   = Depth(code)

(***************************************************************************)
(* A header is reported as already included only when the two includes can *)
(* be compiled together, neither being in a branch that excludes the       *)
(* other; conditionals inside conditionals are left out: the list of the   *)
(* outer branch is not emptied.                                            *)
(***************************************************************************)
\* The branch of line i: the line of the conditional it is in and the number of
\* its branch, or <<0, 0>>.
BranchOf(lines, i) ==
    LET opened == {k \in 1..i : Begins(lines[k], IfDirectives)}
        start == Max(opened)
        Between(directives) == {k \in start..i : Begins(lines[k], directives)}
    IN  IF opened = {} \/ Between({"#endif"}) # {} THEN <<0, 0>>
        ELSE <<start, Cardinality(Between(ElseDirectives))>>

Flat(lines) ==
    \A i, j \in DOMAIN lines :
        i < j /\ Begins(lines[i], IfDirectives) /\ Begins(lines[j], IfDirectives) =>
            \E k \in i..j : Begins(lines[k], {"#endif"})

DuplicatesTogether ==
    stage = "process" /\ phase = "finish" /\ Flat(Linted) =>
        \A r \in lint.raised : r.file = lint.file /\ r.error.category = "build/include" =>
            LET i == r.error.line
                Excludes(b, c) == b[1] = c[1] /\ b[2] # c[2]
            IN  \/ Headers[Stripped(Linted[i])[2]].source
                \/ \E j \in 1..i - 1 :
                      /\ Stripped(Linted[j]) = Stripped(Linted[i])
                      /\ ~Excludes(BranchOf(Linted, i), BranchOf(Linted, j))

================================================================================
