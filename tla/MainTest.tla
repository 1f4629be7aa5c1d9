------------------------------- MODULE MainTest -------------------------------
(***************************************************************************)
(* The launcher as its developers run it: the build generates the keys of  *)
(* the dictionary; the tests of src/tests/main launch the program, each in *)
(* its own output directory, and compare the network Dynawo leaves there   *)
(* with a reference (TestMain.cmake, diff.py); updateMainReference.py      *)
(* makes references of the results; the program changes in between.  The   *)
(* directories are never emptied: a launch finds what earlier ones left,   *)
(* whatever the point they were interrupted at.                            *)
(*                                                                         *)
(* A test tells the request its command line makes, whether its            *)
(* environment is set, whether its result is compared, and whether it is   *)
(* expected to fail (WILL_FAIL).  A result or a reference is Absent,       *)
(* Truncated or a natural number, the value the program then computed.     *)
(***************************************************************************)
EXTENDS Launcher, Integers, SequencesExt, FiniteSets

CONSTANTS
    Symbols,      \* of Dictionary
    Dictionaries, \* the dictionaries considered
    Test,         \* the tests
    TestOf,       \* [Test -> [asks, environment, compares, willFail]]
    Values,       \* the results a version of the program may compute
    ExitModulus,  \* the number of statuses a process may end with
    MaxLaunches   \* bound on the number of launches

INSTANCE Dictionary

(***************************************************************************)
(* A test compares the result of a simulation: its command line gives a    *)
(* network and a configuration.  A status holds at least 0 and 1.          *)
(***************************************************************************)
ASSUME TestsAssumption ==
    /\ Test # {} /\ IsFiniteSet(Test)
    /\ \A t \in Test :
          /\ TestOf[t] \in [asks : {"invalid", "help", "version", "run"},
                            environment : BOOLEAN, compares : BOOLEAN,
                            willFail : BOOLEAN]
          /\ TestOf[t].compares => TestOf[t].asks = "run"
ASSUME ValuesAssumption == Values \subseteq Nat /\ ExitModulus \in Nat \ {0, 1}

VARIABLES
    lines,     \* the dictionary of the build, installed as it is
    messages,  \* what generateMessages.py read of it
    texts,     \* Dico::messages_
    task,      \* "build", "broken", "idle", "launch", "compare" or "update"
    test,      \* the test being run, or the last one
    verdict,   \* of each test since the program changed
    directory, \* the files of the output directory of each test
    result,    \* results/<test>/outputs/finalState/outputIIDM.xml
    reference, \* reference/<test>/outputIIDM.xml
    program,   \* the value the present program computes
    walk,      \* the results updateMainReference.py has still to look at
    updated,   \* the last task was an update that looked at all of them
    launches

launchVars == vars
testVars == <<lines, messages, texts, task, test, verdict, directory, result,
              reference, program, walk, updated, launches>>
allVars == <<launchVars, testVars>>

Absent == -1
Truncated == -2
Compared == {t \in Test : TestOf[t].compares}

InitTests ==
    /\ \E family \in Dictionaries : lines \in family
    /\ messages = <<>> /\ texts = <<>>
    /\ task = "build"
    /\ test = CHOOSE t \in Test : TRUE
    /\ verdict = [t \in Test |-> "none"]
    /\ directory = [t \in Test |-> [kind \in Kind |-> "absent"]]
    /\ result = [t \in Compared |-> Absent]
    /\ reference \in [Compared -> {Absent} \union Values]
    /\ program \in Values
    /\ walk = <<>> /\ updated = FALSE /\ launches = 0
    /\ Init /\ files = [kind \in Kind |-> "absent"]

-----------------------------------------------------------------------------
\* The target dicokeys, then the compilation.
Build ==
    /\ task = "build"
    /\ messages' = _parse(lines)
    /\ task' = IF Compiles(messages') THEN "idle" ELSE "broken"
    /\ UNCHANGED <<launchVars, lines, texts, test, verdict, directory, result,
                   reference, program, walk, updated, launches>>

\* A developer changes what the program computes: the verdicts are of no use.
ChangeProgram ==
    /\ task = "idle" /\ launches < MaxLaunches
    /\ program' \in Values \ {program}
    /\ verdict' = [t \in Test |-> "none"]
    /\ UNCHANGED <<launchVars, lines, messages, texts, task, test, directory,
                   result, reference, walk, updated, launches>>

\* ctest, or a test asked for alone, starts the program.
StartTest(t) ==
    /\ task = "idle" /\ launches < MaxLaunches
    /\ launches' = launches + 1
    /\ test' = t /\ task' = "launch" /\ updated' = FALSE
    /\ texts' = <<>>
    /\ verdict' = [verdict EXCEPT ![t] = "none"]
    /\ stage' = "options" /\ request' = "none" /\ exit' = "running"
    /\ filepath' = "empty" /\ dico' = "none"
    /\ accepted' = FALSE /\ jobEntry' = FALSE /\ simulated' = FALSE /\ step' = 1
    /\ files' = directory[t]
    /\ UNCHANGED <<lines, messages, directory, result, reference, program, walk>>

(***************************************************************************)
(* A step of main for this test.  Dynawo (external) writes the result when *)
(* its simulation ends; one that fails may already have written it.        *)
(***************************************************************************)
LaunchStep ==
    /\ task = "launch" /\ exit = "running" /\ Next
    /\ request' \in {"none", TestOf[test].asks}
    /\ stage = "environment" /\ ~TestOf[test].environment => exit' = "failure"
    /\ stage = "network" /\ dico = "none" => (dico' = "none" <=> Throws(lines))
    /\ texts' = IF dico = "none" /\ dico' = "dictionary"
                THEN Loaded(lines, {m.key : m \in ToSet(messages)}) ELSE texts
    /\ IF stage = "simulate" /\ test \in Compared
       THEN \E file \in IF simulated' THEN {program}
                        ELSE {result[test], Truncated, program} :
               result' = [result EXCEPT ![test] = file]
       ELSE UNCHANGED result
    /\ UNCHANGED <<lines, messages, task, test, verdict, directory, reference,
                   program, walk, updated, launches>>

\* ctest inverts the verdict of a test that is expected to fail.
Verdict(passes) == IF passes # TestOf[test].willFail THEN "passed" ELSE "failed"

\* What was written in full is, for later launches, of another one.
Aged(contents) ==
    [kind \in Kind |-> IF contents[kind] = "new" THEN "old" ELSE contents[kind]]

\* TestMain.cmake goes on only after EXIT_SUCCESS.
EndLaunch ==
    /\ task = "launch" /\ exit # "running"
    /\ directory' = [directory EXCEPT ![test] = Aged(files)]
    /\ IF exit = "success" /\ TestOf[test].compares
       THEN task' = "compare" /\ UNCHANGED verdict
       ELSE /\ task' = "idle"
            /\ verdict' = [verdict EXCEPT ![test] = Verdict(exit = "success")]
    /\ UNCHANGED <<launchVars, lines, messages, texts, test, result, reference,
                   program, walk, updated, launches>>

(***************************************************************************)
(* OutputIIDMCloseEnough (external) raises on a file it cannot read, and   *)
(* otherwise returns a number of differences, which diff.py exits with.    *)
(***************************************************************************)
Readable(file) == file \in Values
CloseEnough(t) == Readable(result[t]) /\ Readable(reference[t])
Differences(t) ==
    IF result[t] > reference[t] THEN result[t] - reference[t]
    ELSE reference[t] - result[t]

\* The status of diff.py; faulty variant: a missing reference is not checked.
StatusOrUnchecked(t) ==
    IF ~CloseEnough(t) THEN (IF reference[t] = Absent THEN 0 ELSE 1)
    ELSE Differences(t) % ExitModulus
DiffStatus(t) == IF CloseEnough(t) THEN Differences(t) % ExitModulus ELSE 1

Compare ==
    /\ task = "compare"
    /\ verdict' = [verdict EXCEPT ![test] = Verdict(DiffStatus(test) = 0)]
    /\ task' = "idle"
    /\ UNCHANGED <<launchVars, lines, messages, texts, test, directory, result,
                   reference, program, walk, updated, launches>>

-----------------------------------------------------------------------------
\* updateMainReference.py looks at the results in the order of os.walk.
StartUpdate ==
    /\ task = "idle"
    /\ walk' \in SetToSeqs({t \in Compared : result[t] # Absent})
    /\ task' = "update" /\ updated' = FALSE
    /\ UNCHANGED <<launchVars, lines, messages, texts, test, verdict, directory,
                   result, reference, program, launches>>

\* What is left after a result without reference; faulty variant: nothing.
StopThere(rest) == <<>>
Continue(rest) == rest

\* A file that cannot be read, or a copy that fails, ends the script.
UpdateReference ==
    /\ task = "update" /\ walk # <<>>
    /\ LET t == Head(walk)
       IN  \/ /\ reference[t] = Absent
              /\ walk' = Continue(Tail(walk))
              /\ UNCHANGED <<task, reference>>
           \/ /\ reference[t] # Absent /\ CloseEnough(t)
              /\ reference' = IF Differences(t) > 0
                              THEN [reference EXCEPT ![t] = result[t]] ELSE reference
              /\ walk' = Tail(walk)
              /\ UNCHANGED task
           \/ /\ reference[t] # Absent
              /\ \/ ~CloseEnough(t) /\ UNCHANGED reference
                 \/ /\ CloseEnough(t) /\ Differences(t) > 0
                    /\ reference' = [reference EXCEPT ![t] = Truncated]
              /\ walk' = <<>> /\ task' = "idle"
    /\ UNCHANGED <<launchVars, lines, messages, texts, test, verdict, directory,
                   result, program, updated, launches>>

EndUpdate ==
    /\ task = "update" /\ walk = <<>>
    /\ task' = "idle" /\ updated' = TRUE
    /\ UNCHANGED <<launchVars, lines, messages, texts, test, verdict, directory,
                   result, reference, program, walk, launches>>

Broken == task = "broken" /\ UNCHANGED allVars

NextTask ==
    \/ Build
    \/ ChangeProgram
    \/ \E t \in Test : StartTest(t)
    \/ LaunchStep
    \/ EndLaunch
    \/ Compare
    \/ StartUpdate
    \/ UpdateReference
    \/ EndUpdate
    \/ Broken

SpecTests == InitTests /\ [][NextTask]_allVars

-----------------------------------------------------------------------------
(***************************************************************************)
(* A launch changes no file of its directory as long as the network is not *)
(* accepted: what an earlier launch wrote outlives a refusal.              *)
(***************************************************************************)
RefusalLeavesOutputs ==
    task = "launch" /\ ~accepted => files = directory[test]

(***************************************************************************)
(* A test that passes without being expected to fail has compared with its *)
(* reference a result of the present program, although its directory may   *)
(* hold the result of an earlier version, and a program that fails leaves  *)
(* it there.  "Close enough" is up to the modulus of exit statuses: 256    *)
(* differences are none.                                                   *)
(***************************************************************************)
PassedTestsCompared ==
    [][\A t \in Compared :
          verdict'[t] = "passed" /\ verdict[t] # "passed" /\ ~TestOf[t].willFail =>
              /\ result[t] = program /\ Readable(reference[t])
              /\ Differences(t) % ExitModulus = 0]_allVars

(***************************************************************************)
(* After an update that goes to its end, no result that has a reference    *)
(* differs from it, in whatever order the results were met and whatever    *)
(* tests have none: running the same program again passes the tests.       *)
(***************************************************************************)
UpdateMakesTestsPass ==
    updated => \A t \in Compared :
        Readable(result[t]) /\ reference[t] # Absent => result[t] = reference[t]

(***************************************************************************)
(* Each key the code may use has, at run time, the message that stands     *)
(* beside it in the dictionary, although two programs read that file with  *)
(* two grammars.  The exceptions are where these differ: a message after a *)
(* tabulation, which Dico keeps, and a second line whose words make the    *)
(* same key once its blanks are removed.                                   *)
(***************************************************************************)
Spells(l, key) == l.sign /\ FoldLeft(LAMBDA a, w : a \o w, "", l.head) = key

MessagesFollowDictionary ==
    dico = "dictionary" =>
        \A l \in ToSet(lines) :
            Defines(l) /\ ~l.tab
            /\ Cardinality({i \in DOMAIN lines : Spells(lines[i], l.head[1])}) = 1
            => Message(texts, l.head[1]) = l.message

=============================================================================
