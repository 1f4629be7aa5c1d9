---------------------------- MODULE MainTestProofs ----------------------------
(***************************************************************************)
(* Proofs about Launcher and MainTest, for every set of tests, values and  *)
(* dictionaries: a simulation reads complete files, success means a        *)
(* simulation, a refused network leaves the outputs of earlier launches, a *)
(* test that passes has compared a result of the present program, and an   *)
(* update that ends has made references of all results.                    *)
(***************************************************************************)
EXTENDS MainTest, SequenceLemmas

-----------------------------------------------------------------------------
(***************************************************************************)
(* One launch.  Each stage knows what the earlier ones have established:   *)
(* the export starts on an accepted network, and the files before step are *)
(* those of this launch, but for the diagrams, whose failures are silent.  *)
(***************************************************************************)
ExportInv ==
    /\ stage \in {"job", "export", "simulate"} => accepted
    /\ stage \in {"export", "simulate"} => jobEntry
    /\ stage \in Stage \ {"export", "simulate", "end"} => step = 1
    /\ stage = "export" =>
          /\ step \in DOMAIN Files
          /\ \A i \in 1..step-1 : Files[i] # "diagrams" => files[Files[i]] = "new"
    /\ ~simulated \/ exit = "success"
    /\ request = "none" <=> stage = "options"

LauncherInv ==
    /\ TypeOK
    /\ ExportInv
    /\ SimulationOnCompleteInputs
    /\ SuccessMeansSimulated

\* The kinds of files, listed.
LEMMA KindValue ==
  /\ Kind = {"dyd", "constants", "par", "diagrams"}
  /\ Len(Files) = 4 /\ DOMAIN Files = 1..4
  /\ Files[1] = "dyd" /\ Files[2] = "constants" /\ Files[3] = "par" /\ Files[4] = "diagrams"
<1>1. /\ Len(Files) = 4 /\ DOMAIN Files = 1..4
      /\ Files[1] = "dyd" /\ Files[2] = "constants" /\ Files[3] = "par" /\ Files[4] = "diagrams"
  BY DEF Files
<1>2. 1..4 = {1, 2, 3, 4}
  OBVIOUS
<1> QED
  BY <1>1, <1>2 DEF Kind

\* The stages of main, listed.
LEMMA StageValue ==
  Stage = {"options", "configuration", "log", "environment", "dictionary", "network",
           "context", "process", "job", "export", "simulate", "end"}
<1>1. DOMAIN Stages = 1..11
  BY DEF Stages
<1>2. 1..11 = {1, 2, 3, 4, 5, 6, 7, 8, 9, 10, 11}
  OBVIOUS
<1> QED
  BY <1>1, <1>2 DEF Stage, Stages

\* At the start of a launch.
LEMMA LauncherInit == Init => LauncherInv
<1> SUFFICES ASSUME Init PROVE LauncherInv
  OBVIOUS
<1>1. files \in [Kind -> Content]
  <2>1. files \in [Kind -> Content \ {"new"}]
    BY DEF Init
  <2> QED
    BY <2>1
<1> USE DEF Init
<1>2. TypeOK
  <2>1. stage \in Stage /\ stage # "end" /\ exit = "running"
    BY StageValue
  <2>2. step \in 1..Len(Files)+1
    BY KindValue
  <2> QED
    BY <1>1, <2>1, <2>2 DEF TypeOK
<1>3. ExportInv
  BY KindValue, StageValue DEF ExportInv
<1>4. SimulationOnCompleteInputs /\ SuccessMeansSimulated
  BY DEF SimulationOnCompleteInputs, SuccessMeansSimulated
<1> QED
  BY <1>2, <1>3, <1>4 DEF LauncherInv

\* The steps before the export: each changes the stage, and files not at all.
LEMMA EarlyStep ==
  ASSUME LauncherInv,
         \/ ParseOptions \/ ReadConfiguration \/ InitLog \/ ReadEnvironment
         \/ ConfigureDictionary \/ CheckNetworkFile \/ BuildContext
         \/ ProcessContext \/ WriteJob
  PROVE  LauncherInv' /\ files' = files /\ simulated' = simulated
<1> USE KindValue, StageValue DEF LauncherInv
<1>1. files' = files /\ step' = step /\ simulated' = simulated
  BY DEF ParseOptions, ReadConfiguration, InitLog, ReadEnvironment,
         ConfigureDictionary, CheckNetworkFile, BuildContext, ProcessContext, WriteJob
<1>2. TypeOK'
  BY <1>1 DEF TypeOK, ParseOptions, ReadConfiguration, InitLog, ReadEnvironment,
         ConfigureDictionary, CheckNetworkFile, BuildContext, ProcessContext,
         WriteJob, UseDico, End, GoTo, AfterRefusal
<1>3. ExportInv' /\ SimulationOnCompleteInputs' /\ SuccessMeansSimulated'
  BY <1>1 DEF TypeOK, ExportInv, SimulationOnCompleteInputs, SuccessMeansSimulated,
         ParseOptions, ReadConfiguration, InitLog, ReadEnvironment,
         ConfigureDictionary, CheckNetworkFile, BuildContext, ProcessContext,
         WriteJob, UseDico, End, GoTo, AfterRefusal
<1> QED
  BY <1>1, <1>2, <1>3

\* A file written: after the last one, all but the diagrams are of this launch.
LEMMA ExportStep ==
  ASSUME LauncherInv, ExportFile
  PROVE  LauncherInv'
<1> USE KindValue, StageValue DEF LauncherInv
<1> DEFINE kind == Files[step]
<1>1. /\ step \in 1..4 /\ kind \in Kind /\ accepted /\ jobEntry /\ stage = "export"
      /\ ~simulated /\ exit = "running" /\ request # "none"
  BY DEF ExportFile, ExportInv, TypeOK
<1>2. PICK c \in Content : files' = [files EXCEPT ![kind] = c]
  BY <1>1 DEF ExportFile, Content, TypeOK, Written
<1>3. files' \in [Kind -> Content]
  BY <1>1, <1>2 DEF TypeOK
<1>4. UNCHANGED <<request, filepath, dico, accepted, jobEntry, simulated>>
  BY DEF ExportFile
<1>5. CASE step' = step + 1 /\ GoTo(NextStage)
           /\ (kind # "diagrams" => files'[kind] = "new")
  <2>1. TypeOK'
    BY <1>1, <1>3, <1>4, <1>5 DEF TypeOK, GoTo, NextStage
  <2>2. \A i \in 1..step : Files[i] # "diagrams" => files'[Files[i]] = "new"
    BY <1>1, <1>2, <1>5 DEF ExportInv, TypeOK
  <2>3. ExportInv'
    BY <1>1, <1>4, <1>5, <2>2 DEF ExportInv, GoTo, NextStage
  <2>4. SimulationOnCompleteInputs'
    BY <1>1, <1>4, <1>5, <2>2 DEF SimulationOnCompleteInputs, GoTo, NextStage
  <2>5. SuccessMeansSimulated'
    BY <1>1, <1>5 DEF SuccessMeansSimulated, GoTo
  <2> QED
    BY <2>1, <2>3, <2>4, <2>5
<1>6. CASE step' = step /\ End("failure")
  <2>1. TypeOK'
    BY <1>1, <1>3, <1>4, <1>6 DEF TypeOK, End
  <2>2. ExportInv' /\ SimulationOnCompleteInputs' /\ SuccessMeansSimulated'
    BY <1>1, <1>4, <1>6
       DEF ExportInv, SimulationOnCompleteInputs, SuccessMeansSimulated, End
  <2> QED
    BY <2>1, <2>2
<1>7. \/ step' = step + 1 /\ GoTo(NextStage) /\ (kind # "diagrams" => files'[kind] = "new")
      \/ step' = step /\ End("failure")
  BY <1>1, <1>3 DEF ExportFile, TypeOK, Written
<1> QED
  BY <1>5, <1>6, <1>7

\* The simulation, and the end.
LEMMA LateStep ==
  ASSUME LauncherInv, Execute \/ UNCHANGED vars
  PROVE  LauncherInv' /\ files' = files
<1> USE KindValue, StageValue DEF LauncherInv
<1>1. CASE Execute
  <2>1. /\ stage = "simulate" /\ exit = "running" /\ stage' = "end"
        /\ UNCHANGED <<request, filepath, dico, accepted, jobEntry, files, step>>
    BY <1>1 DEF Execute, TypeOK, End
  <2>2. simulated = FALSE
    BY <2>1 DEF TypeOK, ExportInv
  <2>3. CASE simulated' = TRUE /\ exit' = "success"
    <3>1. TypeOK'
      BY <2>1, <2>3 DEF TypeOK
    <3>2. ExportInv' /\ SimulationOnCompleteInputs' /\ SuccessMeansSimulated'
      BY <2>1, <2>3 DEF TypeOK, ExportInv, SimulationOnCompleteInputs, SuccessMeansSimulated
    <3> QED
      BY <2>1, <3>1, <3>2
  <2>4. CASE simulated' = FALSE /\ exit' = "failure"
    <3>1. TypeOK'
      BY <2>1, <2>4 DEF TypeOK
    <3>2. ExportInv' /\ SimulationOnCompleteInputs' /\ SuccessMeansSimulated'
      BY <2>1, <2>4 DEF TypeOK, ExportInv, SimulationOnCompleteInputs, SuccessMeansSimulated
    <3> QED
      BY <2>1, <3>1, <3>2
  <2> QED
    BY <1>1, <2>2, <2>3, <2>4 DEF Execute, End, OnError
<1>2. CASE UNCHANGED vars
  BY <1>2 DEF vars, TypeOK, ExportInv, SimulationOnCompleteInputs,
              SuccessMeansSimulated
<1> QED
  BY <1>1, <1>2

\* Every step of main preserves the invariant; the network stays accepted, no
\* file is touched before it is, and only Dynawo ends a simulation.
LEMMA LauncherNext ==
  ASSUME LauncherInv, [Next]_vars
  PROVE  /\ LauncherInv'
         /\ accepted => accepted'
         /\ ~accepted' => files' = files
         /\ simulated' /\ ~simulated => stage = "simulate"
<1>1. CASE ExportFile
  <2>1. accepted /\ accepted' = accepted /\ simulated' = simulated
    BY <1>1 DEF ExportFile, LauncherInv, ExportInv
  <2> QED
    BY <1>1, <2>1, ExportStep
<1>2. CASE Execute
  BY <1>2, LateStep DEF Execute
<1>3. CASE UNCHANGED vars
  BY <1>3, LateStep DEF vars
<1>4. CASE \/ ParseOptions \/ ReadConfiguration \/ InitLog \/ ReadEnvironment
           \/ ConfigureDictionary \/ CheckNetworkFile \/ BuildContext
           \/ ProcessContext \/ WriteJob
  <2>1. LauncherInv' /\ files' = files /\ simulated' = simulated
    BY <1>4, EarlyStep
  <2>2. accepted => accepted'
    BY <1>4 DEF ParseOptions, ReadConfiguration, InitLog, ReadEnvironment,
         ConfigureDictionary, CheckNetworkFile, BuildContext, ProcessContext, WriteJob
  <2> QED
    BY <2>1, <2>2
<1> QED
  BY <1>1, <1>2, <1>3, <1>4 DEF Next, Terminated

(***************************************************************************)
(* One execution of main by itself, from any content of the directory: the *)
(* simulation only starts on models and parameters this execution has      *)
(* written in full for an accepted network.                                *)
(***************************************************************************)
THEOREM LaunchOnCompleteInputs == Spec => []SimulationOnCompleteInputs
<1>1. Init => LauncherInv
  BY LauncherInit
<1>2. LauncherInv /\ [Next]_vars => LauncherInv'
  BY LauncherNext
<1>3. LauncherInv => SimulationOnCompleteInputs
  BY DEF LauncherInv
<1> QED
  BY <1>1, <1>2, <1>3, PTL DEF Spec

(***************************************************************************)
(* ... and main only ends with EXIT_SUCCESS, when a simulation was asked   *)
(* for, if it ran to its end.                                              *)
(***************************************************************************)
THEOREM LaunchSuccessMeansSimulated == Spec => []SuccessMeansSimulated
<1>1. Init => LauncherInv
  BY LauncherInit
<1>2. LauncherInv /\ [Next]_vars => LauncherInv'
  BY LauncherNext
<1>3. LauncherInv => SuccessMeansSimulated
  BY DEF LauncherInv
<1> QED
  BY <1>1, <1>2, <1>3, PTL DEF Spec

-----------------------------------------------------------------------------
(***************************************************************************)
(* The launches of the tests.  The files a launch finds are those of the   *)
(* same test, none of which is its own; its result is that of the present  *)
(* program as soon as its simulation has ended, and still is when it is    *)
(* compared; an update has equal results and references behind it.         *)
(***************************************************************************)
File == Values \union {Absent, Truncated}

TestsTypeOK ==
    /\ task \in {"build", "broken", "idle", "launch", "compare", "update"}
    /\ test \in Test
    /\ verdict \in [Test -> {"none", "passed", "failed"}]
    /\ directory \in [Test -> [Kind -> Content \ {"new"}]]
    /\ result \in [Compared -> File]
    /\ reference \in [Compared -> File]
    /\ program \in Values
    /\ walk \in Seq(Compared)
    /\ updated \in BOOLEAN

ResultIsOfProgram ==
    /\ task = "launch" => request \in {"none", TestOf[test].asks}
    /\ task = "launch" /\ test \in Compared /\ simulated => result[test] = program
    /\ task = "compare" => test \in Compared /\ result[test] = program

\* A result that has a reference is equal to it.
UpToDate(t) == Readable(result[t]) /\ reference[t] # Absent => result[t] = reference[t]

UpdateInv ==
    /\ task \in {"launch", "compare", "update"} => ~updated
    /\ task = "update" => \A t \in Compared : t \notin ToSet(walk) => UpToDate(t)
    /\ updated => \A t \in Compared : UpToDate(t)

TestsInv ==
    /\ TestsTypeOK
    /\ LauncherInv
    /\ RefusalLeavesOutputs
    /\ ResultIsOfProgram
    /\ UpdateInv

\* The tests that compare a result are finitely many, and run the launcher.
LEMMA ComparedFacts ==
  /\ Compared \subseteq Test
  /\ \A t \in Compared : TestOf[t].compares /\ TestOf[t].asks = "run"
  /\ \A S \in SUBSET Compared : IsFiniteSet(S)
<1>1. Compared \in SUBSET Test
  BY DEF Compared
<1>2. IsFiniteSet(Compared)
  BY <1>1, FS_Subset, TestsAssumption
<1>3. \A t \in Compared : TestOf[t].compares /\ TestOf[t].asks = "run"
  BY TestsAssumption DEF Compared
<1> QED
  BY <1>1, <1>2, <1>3, FS_Subset

\* Before the first build the directories hold nothing.
LEMMA TestsInit == InitTests => TestsInv
<1> SUFFICES ASSUME InitTests PROVE TestsInv
  OBVIOUS
<1> USE DEF InitTests
<1>1. LauncherInv
  BY LauncherInit
<1>2. TestsTypeOK
  <2>1. test \in Test
    BY TestsAssumption
  <2>2. directory \in [Test -> [Kind -> Content \ {"new"}]]
    BY DEF Content
  <2>3. result \in [Compared -> File] /\ reference \in [Compared -> File]
    BY DEF File
  <2>4. walk \in Seq(Compared)
    OBVIOUS
  <2> QED
    BY <2>1, <2>2, <2>3, <2>4 DEF TestsTypeOK
<1>3. RefusalLeavesOutputs /\ ResultIsOfProgram /\ UpdateInv
  BY DEF RefusalLeavesOutputs, ResultIsOfProgram, UpdateInv
<1> QED
  BY <1>1, <1>2, <1>3 DEF TestsInv

\* A launch starts as main does, on the files earlier launches left.
LEMMA StartTestStep ==
  ASSUME TestsInv, NEW t \in Test, StartTest(t)
  PROVE  TestsInv'
<1> USE DEF StartTest
<1>1. TestsTypeOK'
  BY DEF TestsInv, TestsTypeOK
<1>2. LauncherInv'
  <2>1. files' \in [Kind -> Content \ {"new"}]
    BY DEF TestsInv, TestsTypeOK
  <2>2. Init'
    BY <2>1 DEF Init
  <2> QED
    BY <2>2, LauncherInit, PTL
<1>3. RefusalLeavesOutputs' /\ ResultIsOfProgram' /\ UpdateInv'
  BY DEF RefusalLeavesOutputs, ResultIsOfProgram, UpdateInv
<1> QED
  BY <1>1, <1>2, <1>3 DEF TestsInv

\* A step of main, and the result Dynawo may leave.
LEMMA LaunchStepStep ==
  ASSUME TestsInv, LaunchStep
  PROVE  TestsInv'
<1> USE DEF LaunchStep
<1>1. /\ LauncherInv'
      /\ accepted => accepted'
      /\ ~accepted' => files' = files
      /\ simulated' /\ ~simulated => stage = "simulate"
  BY LauncherNext DEF TestsInv
<1>2. ~simulated /\ ~updated
  BY DEF TestsInv, UpdateInv, LauncherInv, ExportInv
<1>3. result' \in [Compared -> File]
  <2>1. CASE stage = "simulate" /\ test \in Compared
    <3>1. PICK file \in File : result' = [result EXCEPT ![test] = file]
      BY <2>1 DEF TestsInv, TestsTypeOK, File
    <3> QED
      BY <3>1 DEF TestsInv, TestsTypeOK
  <2>2. CASE ~(stage = "simulate" /\ test \in Compared)
    BY <2>2 DEF TestsInv, TestsTypeOK
  <2> QED
    BY <2>1, <2>2
<1>4. TestsTypeOK'
  BY <1>3 DEF TestsInv, TestsTypeOK
<1>5. RefusalLeavesOutputs'
  BY <1>1 DEF TestsInv, RefusalLeavesOutputs
<1>6. ResultIsOfProgram'
  <2>1. ASSUME test \in Compared, simulated'
        PROVE  result'[test] = program
    <3>1. stage = "simulate"
      BY <1>1, <1>2, <2>1
    <3> QED
      BY <2>1, <3>1 DEF TestsInv, TestsTypeOK
  <2> QED
    BY <2>1 DEF TestsInv, ResultIsOfProgram
<1>7. UpdateInv'
  BY <1>2 DEF UpdateInv
<1> QED
  BY <1>1, <1>4, <1>5, <1>6, <1>7 DEF TestsInv

\* The verdict given is one.
LEMMA VerdictType ==
  ASSUME NEW passes \in BOOLEAN
  PROVE  Verdict(passes) \in {"passed", "failed"}
BY DEF Verdict

\* The end of a launch that does not fail hands over a result of the program.
LEMMA EndLaunchStep ==
  ASSUME TestsInv, EndLaunch
  PROVE  TestsInv'
<1> USE DEF EndLaunch
<1>1. UNCHANGED launchVars /\ UNCHANGED <<test, result, reference, program, walk, updated>>
  OBVIOUS
<1>2. LauncherInv'
  BY <1>1, LateStep DEF TestsInv, launchVars
<1>3. directory' \in [Test -> [Kind -> Content \ {"new"}]]
  <2>1. files \in [Kind -> Content] /\ test \in Test
    BY DEF TestsInv, TestsTypeOK, LauncherInv, TypeOK
  <2>2. Aged(files) \in [Kind -> Content \ {"new"}]
    BY <2>1 DEF Aged, Content
  <2> QED
    BY <2>1, <2>2 DEF TestsInv, TestsTypeOK
<1>4. verdict' \in [Test -> {"none", "passed", "failed"}]
  BY VerdictType DEF TestsInv, TestsTypeOK
<1>5. TestsTypeOK'
  BY <1>1, <1>3, <1>4 DEF TestsInv, TestsTypeOK
<1>6. CASE exit = "success" /\ TestOf[test].compares
  <2>1. test \in Compared /\ TestOf[test].asks = "run"
    BY <1>6, ComparedFacts DEF Compared, TestsInv, TestsTypeOK
  <2>2. request # "none"
    BY <1>6 DEF TestsInv, LauncherInv, ExportInv, TypeOK
  <2>3. simulated
    BY <1>6, <2>1, <2>2 DEF TestsInv, ResultIsOfProgram, LauncherInv, SuccessMeansSimulated
  <2>4. ResultIsOfProgram'
    BY <1>1, <1>6, <2>1, <2>3 DEF TestsInv, ResultIsOfProgram
  <2>5. RefusalLeavesOutputs' /\ UpdateInv'
    BY <1>1, <1>6 DEF TestsInv, RefusalLeavesOutputs, UpdateInv
  <2> QED
    BY <1>2, <1>5, <2>4, <2>5 DEF TestsInv
<1>7. CASE ~(exit = "success" /\ TestOf[test].compares)
  <2>1. RefusalLeavesOutputs' /\ ResultIsOfProgram' /\ UpdateInv'
    BY <1>1, <1>7 DEF TestsInv, RefusalLeavesOutputs, ResultIsOfProgram, UpdateInv
  <2> QED
    BY <1>2, <1>5, <2>1 DEF TestsInv
<1> QED
  BY <1>6, <1>7

\* The tasks that leave results, references and directories alone.
LEMMA QuietStep ==
  ASSUME TestsInv,
         Build \/ ChangeProgram \/ Compare \/ Broken \/ UNCHANGED allVars
  PROVE  TestsInv'
<1>1. /\ UNCHANGED launchVars
      /\ UNCHANGED <<test, directory, result, reference, walk, updated>>
  BY DEF Build, ChangeProgram, Compare, Broken, allVars, testVars
<1>2. LauncherInv'
  BY <1>1, LateStep DEF TestsInv, launchVars
<1>3. program' \in Values /\ verdict' \in [Test -> {"none", "passed", "failed"}]
  BY VerdictType
     DEF Build, ChangeProgram, Compare, Broken, allVars, testVars, TestsInv, TestsTypeOK
<1>4. TestsTypeOK'
  BY <1>1, <1>3
     DEF Build, ChangeProgram, Compare, Broken, allVars, testVars, TestsInv, TestsTypeOK
<1>5. RefusalLeavesOutputs' /\ ResultIsOfProgram' /\ UpdateInv'
  <2>1. CASE task' \in {"idle", "broken"}
    BY <1>1, <2>1 DEF TestsInv, RefusalLeavesOutputs, ResultIsOfProgram, UpdateInv,
                      UpToDate, launchVars, vars
  <2>2. CASE UNCHANGED allVars
    BY <2>2 DEF TestsInv, RefusalLeavesOutputs, ResultIsOfProgram, UpdateInv,
                UpToDate, allVars, testVars, launchVars, vars
  <2> QED
    BY <2>1, <2>2 DEF Build, ChangeProgram, Compare, Broken
<1> QED
  BY <1>2, <1>4, <1>5 DEF TestsInv

\* At first, all the results are still to be looked at; in the end, none is.
LEMMA UpdateBounds ==
  ASSUME TestsInv, StartUpdate \/ EndUpdate
  PROVE  TestsInv'
<1>1. /\ UNCHANGED launchVars
      /\ UNCHANGED <<test, verdict, directory, result, reference, program>>
  BY DEF StartUpdate, EndUpdate
<1>2. LauncherInv'
  BY <1>1, LateStep DEF TestsInv, launchVars
<1>3. CASE StartUpdate
  <2> DEFINE S == {t \in Compared : result[t] # Absent}
  <2>1. walk' \in Seq(S) /\ ToSet(walk)' = S
    BY <1>3, ComparedFacts, ListingCovers DEF StartUpdate, ToSet
  <2>2. walk' \in Seq(Compared)
    BY <2>1
  <2>3. TestsTypeOK'
    BY <1>1, <1>3, <2>2 DEF StartUpdate, TestsInv, TestsTypeOK
  <2>4. \A t \in Compared : t \notin S => UpToDate(t)'
    BY <1>1, ValuesAssumption DEF UpToDate, Readable, Absent
  <2>5. RefusalLeavesOutputs' /\ ResultIsOfProgram' /\ UpdateInv'
    BY <1>3, <2>1, <2>4 DEF StartUpdate, RefusalLeavesOutputs, ResultIsOfProgram, UpdateInv
  <2> QED
    BY <1>2, <2>3, <2>5 DEF TestsInv
<1>4. CASE EndUpdate
  <2>1. TestsTypeOK'
    BY <1>1, <1>4 DEF EndUpdate, TestsInv, TestsTypeOK
  <2>2. \A t \in Compared : UpToDate(t)'
    BY <1>1, <1>4 DEF EndUpdate, TestsInv, UpdateInv, UpToDate, ToSet
  <2>3. RefusalLeavesOutputs' /\ ResultIsOfProgram' /\ UpdateInv'
    BY <1>4, <2>2 DEF EndUpdate, RefusalLeavesOutputs, ResultIsOfProgram, UpdateInv
  <2> QED
    BY <1>2, <2>1, <2>3 DEF TestsInv
<1> QED
  BY <1>3, <1>4

\* One result looked at: it is copied, equal already, without reference, or the
\* script ends there.
LEMMA UpdateReferenceStep ==
  ASSUME TestsInv, UpdateReference
  PROVE  TestsInv'
<1>1. /\ UNCHANGED launchVars
      /\ UNCHANGED <<test, verdict, directory, result, program, updated>>
      /\ task = "update" /\ walk # <<>> /\ ~updated
  BY DEF UpdateReference, TestsInv, UpdateInv
<1>2. LauncherInv'
  BY <1>1, LateStep DEF TestsInv, launchVars
<1>3. walk \in Seq(Compared) /\ Head(walk) \in Compared /\ Tail(walk) \in Seq(Compared)
  BY <1>1 DEF TestsInv, TestsTypeOK
<1>4. PICK head \in Compared : head = Head(walk)
  BY <1>3
<1>5. \A t \in ToSet(walk) : t = head \/ t \in ToSet(Tail(walk))
  BY <1>1, <1>3, <1>4, ToSetTail
<1>6. CASE task' = "update" /\ walk' = Tail(walk) /\ UpToDate(head)'
           /\ \E file \in File : reference' \in {reference, [reference EXCEPT ![head] = file]}
  <2>1. PICK file \in File : reference' \in {reference, [reference EXCEPT ![head] = file]}
    BY <1>6
  <2>2. TestsTypeOK'
    BY <1>1, <1>3, <1>6, <2>1 DEF TestsInv, TestsTypeOK
  <2>3. \A t \in Compared : t \notin ToSet(walk)' => UpToDate(t)'
    <3> SUFFICES ASSUME NEW t \in Compared, t \notin ToSet(Tail(walk)), t # head
                 PROVE  UpToDate(t)'
      BY <1>6 DEF ToSet
    <3>1. UpToDate(t)
      BY <1>1, <1>5 DEF TestsInv, UpdateInv
    <3>2. reference'[t] = reference[t]
      BY <2>1, <1>4 DEF TestsInv, TestsTypeOK
    <3> QED
      BY <1>1, <3>1, <3>2 DEF UpToDate, Readable
  <2>4. RefusalLeavesOutputs' /\ ResultIsOfProgram' /\ UpdateInv'
    BY <1>1, <1>6, <2>3 DEF RefusalLeavesOutputs, ResultIsOfProgram, UpdateInv
  <2> QED
    BY <1>2, <2>2, <2>4 DEF TestsInv
<1>7. CASE /\ task' = "idle" /\ walk' = <<>>
           /\ \E file \in File : reference' \in {reference, [reference EXCEPT ![head] = file]}
  <2>1. TestsTypeOK'
    BY <1>1, <1>4, <1>7 DEF TestsInv, TestsTypeOK
  <2>2. RefusalLeavesOutputs' /\ ResultIsOfProgram' /\ UpdateInv'
    BY <1>1, <1>7 DEF RefusalLeavesOutputs, ResultIsOfProgram, UpdateInv
  <2> QED
    BY <1>2, <2>1, <2>2 DEF TestsInv
<1>8. CASE reference[head] = Absent /\ UNCHANGED <<task, reference>> /\ walk' = Tail(walk)
  <2>1. UpToDate(head)'
    BY <1>8 DEF UpToDate
  <2>2. Absent \in File
    BY DEF File
  <2> QED
    BY <1>1, <1>6, <1>8, <2>1, <2>2
<1>9. CASE /\ CloseEnough(head) /\ walk' = Tail(walk) /\ UNCHANGED task
           /\ reference' = IF Differences(head) > 0
                           THEN [reference EXCEPT ![head] = result[head]] ELSE reference
  <2>1. result[head] \in Nat /\ reference[head] \in Nat /\ result[head] \in File
    BY <1>9, ValuesAssumption DEF CloseEnough, Readable, File
  <2>2. reference'[head] = result[head]
    BY <1>4, <1>9, <2>1 DEF Differences, TestsInv, TestsTypeOK
  <2>3. UpToDate(head)'
    BY <1>1, <2>2 DEF UpToDate
  <2> QED
    BY <1>1, <1>6, <1>9, <2>1, <2>3
<1>10. CASE task' = "idle" /\ walk' = <<>>
           /\ reference' \in {reference, [reference EXCEPT ![head] = Truncated]}
  BY <1>7, <1>10 DEF File
<1> QED
  BY <1>4, <1>8, <1>9, <1>10 DEF UpdateReference, Continue

\* Every step of the tests keeps the invariant.
LEMMA TestsNext == TestsInv /\ [NextTask]_allVars => TestsInv'
BY StartTestStep, LaunchStepStep, EndLaunchStep, QuietStep, UpdateBounds,
   UpdateReferenceStep DEF NextTask

\* The invariant holds in every reachable state of the tests.
LEMMA TestsAlways == SpecTests => []TestsInv
BY TestsInit, TestsNext, PTL DEF SpecTests

(***************************************************************************)
(* Whatever earlier launches left in the directory of a test, at whatever  *)
(* point they were interrupted: the simulation only reads models and       *)
(* parameters of this launch.                                              *)
(***************************************************************************)
THEOREM TestsOnCompleteInputs == SpecTests => []SimulationOnCompleteInputs
<1>1. TestsInv => SimulationOnCompleteInputs
  BY DEF TestsInv, LauncherInv
<1> QED
  BY <1>1, TestsAlways, PTL

(***************************************************************************)
(* A launch of a test that ends with EXIT_SUCCESS has run its simulation.  *)
(***************************************************************************)
THEOREM TestsSuccessMeansSimulated == SpecTests => []SuccessMeansSimulated
<1>1. TestsInv => SuccessMeansSimulated
  BY DEF TestsInv, LauncherInv
<1> QED
  BY <1>1, TestsAlways, PTL

(***************************************************************************)
(* As long as the network is not accepted, the directory of the test is    *)
(* what the earlier launches left.                                         *)
(***************************************************************************)
THEOREM RefusedLaunchesLeaveOutputs == SpecTests => []RefusalLeavesOutputs
<1>1. TestsInv => RefusalLeavesOutputs
  BY DEF TestsInv
<1> QED
  BY <1>1, TestsAlways, PTL

(***************************************************************************)
(* An update that ends leaves no result that differs from its reference.   *)
(***************************************************************************)
THEOREM UpdatesMakeTestsPass == SpecTests => []UpdateMakesTestsPass
<1>1. TestsInv => UpdateMakesTestsPass
  BY DEF TestsInv, UpdateInv, UpToDate, UpdateMakesTestsPass
<1> QED
  BY <1>1, TestsAlways, PTL

(***************************************************************************)
(* A test passes, when it is not expected to fail, on a result of the      *)
(* present program compared with its reference, whatever results of other  *)
(* versions its directory has held.                                        *)
(***************************************************************************)
THEOREM PassedTestsHaveCompared == SpecTests => PassedTestsCompared
<1> DEFINE Fair(t) == /\ result[t] = program /\ Readable(reference[t])
                      /\ Differences(t) % ExitModulus = 0
           Passes(t) == verdict'[t] = "passed" /\ verdict[t] # "passed"
                        /\ ~TestOf[t].willFail
<1>1. ASSUME TestsInv, NextTask, NEW t \in Compared, Passes(t)
      PROVE  Fair(t)
  <2>1. t \in Test /\ verdict \in [Test -> {"none", "passed", "failed"}]
    BY <1>1, ComparedFacts DEF TestsInv, TestsTypeOK
  <2>2. CASE Compare
    <3>1. t = test /\ Verdict(DiffStatus(test) = 0) = "passed"
      BY <1>1, <2>1, <2>2 DEF Compare
    <3>2. DiffStatus(t) = 0
      <4>1. (DiffStatus(t) = 0) # TestOf[t].willFail
        BY <3>1 DEF Verdict
      <4> QED
        BY <1>1, <2>1, <4>1, TestsAssumption
    <3>3. result[t] = program
      BY <1>1, <2>2, <3>1 DEF Compare, TestsInv, ResultIsOfProgram
    <3> QED
      BY <3>2, <3>3 DEF DiffStatus, CloseEnough
  <2>3. CASE EndLaunch
    <3>1. t = test /\ ~(exit = "success" /\ TestOf[test].compares)
                  /\ Verdict(exit = "success") = "passed"
      BY <1>1, <2>1, <2>3 DEF EndLaunch
    <3>2. exit # "success" /\ (exit = "success") # TestOf[t].willFail
      BY <1>1, <3>1, ComparedFacts DEF Verdict
    <3> QED
      BY <1>1, <2>1, <3>2, TestsAssumption
  <2>4. CASE \/ Build \/ ChangeProgram \/ LaunchStep \/ StartUpdate \/ UpdateReference
             \/ EndUpdate \/ Broken \/ \E u \in Test : StartTest(u)
    BY <1>1, <2>1, <2>4 DEF Build, ChangeProgram, LaunchStep, StartUpdate,
       UpdateReference, EndUpdate, Broken, StartTest, allVars, testVars
  <2> QED
    BY <1>1, <2>2, <2>3, <2>4 DEF NextTask
<1>2. TestsInv /\ [NextTask]_allVars =>
         [\A t \in Compared : Passes(t) => Fair(t)]_allVars
  BY <1>1
<1> QED
  BY <1>2, TestsAlways, PTL DEF SpecTests, PassedTestsCompared

=============================================================================
