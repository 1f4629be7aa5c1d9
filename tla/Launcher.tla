------------------------------- MODULE Launcher -------------------------------
(***************************************************************************)
(* One execution of main: the options, the configuration, the log, the     *)
(* environment, the dictionary, the construction and the processing of the *)
(* context, the export of the input files of Dynawo and the simulation.    *)
(* Any step that calls a library may throw, and main then ends with        *)
(* EXIT_FAILURE.  The output directory may hold the files of an earlier    *)
(* execution that completed or was interrupted at any point.               *)
(***************************************************************************)
EXTENDS Naturals, Sequences

VARIABLES
    stage,     \* the next step of main, or "end"
    request,   \* what Options::parse returned
    filepath,  \* Dico::filepath_
    dico,      \* the file the Dico singleton was built from, or "none"
    accepted,  \* process() returned true
    jobEntry,  \* jobEntry_ is set
    files,     \* the files of the output directory, by kind
    step,      \* position in Files while exporting
    simulated, \* the simulation ran to its end
    exit       \* the exit status, or "running"

vars == <<stage, request, filepath, dico, accepted, jobEntry, files,
          step, simulated, exit>>

\* The kinds of files exportOutputs writes for Dynawo, in this order: the
\* dynamic models, the copied constant parameters, the parameters, the diagrams.
Files == <<"dyd", "constants", "par", "diagrams">>
Kind == {Files[i] : i \in DOMAIN Files}

Stages ==
    <<"options", "configuration", "log", "environment", "dictionary",
      "network", "context", "process", "job", "export", "simulate">>
Stage == {Stages[i] : i \in DOMAIN Stages} \union {"end"}

\* The contents of a file: missing, left by another execution, truncated by a
\* failure, or written in full by this one.
Content == {"absent", "old", "truncated", "new"}

TypeOK ==
    /\ stage \in Stage
    /\ request \in {"none", "invalid", "help", "version", "run"}
    /\ filepath \in {"empty", "dictionary"}
    /\ dico \in {"none", "empty", "dictionary"}
    /\ accepted \in BOOLEAN
    /\ jobEntry \in BOOLEAN
    /\ files \in [Kind -> Content]
    /\ step \in 1..Len(Files)+1
    /\ simulated \in BOOLEAN
    /\ exit \in {"running", "success", "failure"}
    /\ stage = "end" <=> exit # "running"

Init ==
    /\ stage = "options"
    /\ request = "none"
    /\ filepath = "empty"
    /\ dico = "none"
    /\ accepted = FALSE
    /\ jobEntry = FALSE
    /\ files \in [Kind -> Content \ {"new"}]
    /\ step = 1
    /\ simulated = FALSE
    /\ exit = "running"

-----------------------------------------------------------------------------
\* A use of MESS: instance() builds the singleton at the first call, from the
\* path configured by then.
UseDico == dico' = IF dico = "none" THEN filepath ELSE dico

End(status) == stage' = "end" /\ exit' = status
GoTo(next) == stage' = next /\ UNCHANGED exit

(***************************************************************************)
(* Options::parse: a parse that fails ends like a request for help.        *)
(***************************************************************************)
ParseOptions ==
    /\ stage = "options"
    /\ \E r \in {"invalid", "help", "version", "run"} :
          /\ request' = r
          /\ IF r = "run" THEN GoTo("configuration") ELSE End("success")
    /\ UNCHANGED <<filepath, dico, accepted, jobEntry, files, step,
                   simulated>>

(***************************************************************************)
(* The constructor of Configuration: a file that cannot be read calls      *)
(* std::exit; an unknown ActivePowerCompensation is told with MESS.        *)
(***************************************************************************)
ReadConfiguration ==
    /\ stage = "configuration"
    /\ \/ End("failure") /\ UNCHANGED dico
       \/ GoTo("log") /\ (UseDico \/ UNCHANGED dico)
    /\ UNCHANGED <<request, filepath, accepted, jobEntry, files, step,
                   simulated>>

\* Log::init creates the output directory, which may fail.
InitLog ==
    /\ stage = "log"
    /\ End("failure") \/ GoTo("environment")
    /\ UNCHANGED <<request, filepath, dico, accepted, jobEntry,
                   files, step, simulated>>

\* A missing variable calls std::exit; a missing dictionary returns.
ReadEnvironment ==
    /\ stage = "environment"
    /\ End("failure") \/ GoTo("dictionary")
    /\ UNCHANGED <<request, filepath, dico, accepted, jobEntry,
                   files, step, simulated>>

\* Dico::configure, then initializeDynawo, which loads the Dynawo dictionaries.
ConfigureDictionary ==
    /\ stage = "dictionary"
    /\ filepath' = "dictionary"
    /\ End("failure") \/ GoTo("network")
    /\ UNCHANGED <<request, dico, accepted, jobEntry, files, step,
                   simulated>>

\* Both outcomes write a message: the first one of the execution, unless the
\* configuration was told of.  The dictionary is then read, and a line of it
\* without message throws, which leaves the singleton to be built.
CheckNetworkFile ==
    /\ stage = "network"
    /\ \/ UseDico /\ (End("failure") \/ GoTo("context"))
       \/ dico = "none" /\ UNCHANGED dico /\ End("failure")
    /\ UNCHANGED <<request, filepath, accepted, jobEntry, files,
                   step, simulated>>

\* The constructor of Context reads the network and the dynamic data base: it
\* may throw, or call std::exit when a document is not valid.
BuildContext ==
    /\ stage = "context"
    /\ End("failure") \/ GoTo("process")
    /\ UNCHANGED <<request, filepath, dico, accepted, jobEntry,
                   files, step, simulated>>

\* What follows a refusal; faulty variant: the outputs are written all the same.
ExportAnyway == "job"
AfterRefusal == "end"

\* process() returns true, or false, or throws.
ProcessContext ==
    /\ stage = "process"
    /\ \/ accepted' = TRUE /\ GoTo("job")
       \/ /\ UNCHANGED accepted
          /\ IF AfterRefusal = "end" THEN End("failure") ELSE GoTo(AfterRefusal)
    /\ UNCHANGED <<request, filepath, dico, jobEntry, files, step,
                   simulated>>

\* Job::write builds the job in memory.
WriteJob ==
    /\ stage = "job"
    /\ jobEntry' = TRUE
    /\ GoTo("export")
    /\ UNCHANGED <<request, filepath, dico, accepted, files, step,
                   simulated>>

(***************************************************************************)
(* The rest of exportOutputs, one kind of files at a time.  A failure that *)
(* throws leaves the file as it was, truncated, or even complete; Diagram  *)
(* does not test the state of its stream, so that it fails silently.  The  *)
(* other files are written by libraries (external), assumed to throw.      *)
(* Faulty variant: an existing file is left as it is.                      *)
(***************************************************************************)
KeepExisting(kind) == IF files[kind] = "absent" THEN "new" ELSE files[kind]
Written(kind) == "new"

\* What follows a file.
NextStage == IF step = Len(Files) THEN "simulate" ELSE "export"

ExportFile ==
    /\ stage = "export"
    /\ LET kind == Files[step]
           failed == {files[kind], "truncated"}
       IN  \/ /\ \E c \in {Written(kind)} \union
                         (IF kind = "diagrams" THEN failed ELSE {}) :
                    files' = [files EXCEPT ![kind] = c]
              /\ step' = step + 1
              /\ GoTo(NextStage)
           \/ /\ \E c \in failed \union {"new"} :
                    files' = [files EXCEPT ![kind] = c]
              /\ UNCHANGED step
              /\ End("failure")
    /\ UNCHANGED <<request, filepath, dico, accepted, jobEntry,
                   simulated>>

\* The status after an exception of Dynawo; faulty variant: it is swallowed.
Swallowed == "success"
OnError == "failure"

\* execute(): Dynawo ends, or throws.
Execute ==
    /\ stage = "simulate"
    /\ \/ simulated' = TRUE /\ End("success")
       \/ UNCHANGED simulated /\ End(OnError)
    /\ UNCHANGED <<request, filepath, dico, accepted, jobEntry,
                   files, step>>

Terminated == stage = "end" /\ UNCHANGED vars

Next ==
    \/ ParseOptions
    \/ ReadConfiguration
    \/ InitLog
    \/ ReadEnvironment
    \/ ConfigureDictionary
    \/ CheckNetworkFile
    \/ BuildContext
    \/ ProcessContext
    \/ WriteJob
    \/ ExportFile
    \/ Execute
    \/ Terminated

Spec == Init /\ [][Next]_vars

-----------------------------------------------------------------------------
(***************************************************************************)
(* Dynawo reads the files of the output directory: it is only started on   *)
(* models and parameters written in full by this execution for an accepted *)
(* network, never on a mixture with the files of another one.  Nothing     *)
(* such holds of the diagrams.                                             *)
(***************************************************************************)
SimulationOnCompleteInputs ==
    stage = "simulate" \/ simulated =>
        /\ accepted /\ jobEntry
        /\ \A kind \in Kind \ {"diagrams"} : files[kind] = "new"

(***************************************************************************)
(* EXIT_SUCCESS tells the caller that a simulation that was asked for ran  *)
(* to its end.                                                             *)
(***************************************************************************)
SuccessMeansSimulated ==
    exit = "success" /\ request = "run" => simulated

(***************************************************************************)
(* What Dico.h says of configure: it is called before the first call of    *)
(* instance(), so that the singleton is never built without a path.        *)
(***************************************************************************)
ConfiguredBeforeInstance == dico # "empty"

=============================================================================
