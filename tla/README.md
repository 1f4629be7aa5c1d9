# Formal models of Dynaflow Launcher

Dynaflow Launcher reads a network (an IIDM file) and a configuration, finds the
main connex component of the network, chooses a model for each of its elements,
writes the input files of Dynawo and runs the simulation. This directory holds
TLA+ models of that program, the TLC configurations that check them on small
instances, and theorems checked by TLAPS. Two tools kept beside the program are
modelled with it: the generation and comparison scripts of its build and tests, and
the style check of its sources. Paths of C++ files are relative to `src/sources/`,
the others to the root of the repository.

Contents: 1. the system, 2. the plan, 3. the modules and the code, 4. the runs,
5. fairness, 6. the proofs, 7. where the code and its comments disagree,
8. what is not modelled.

## 1. The system

The launcher is sequential: one `main`, no thread, no message. What makes it hard
to get right is elsewhere: its algorithms are callbacks run node by node, in an
order the network decides, and they leave state behind them (marks, counts, maps
of shared buses) that later callbacks and later components rely on; three files
that refer to one another are written by code that shares no id; and any step
may throw. The scripts around it are sequential too, and hard for another reason:
they keep files and globals from one call to the next.

| Component | Code | State it keeps | Operations | Talks to |
| --- | --- | --- | --- | --- |
| Program | `main.cpp`, `Common/src/{Options,Log,Dico}.cpp`, `Inputs/src/Configuration.cpp` | the Dico singleton, the output directory, the exit status | `main`, `Options::parse`, `Dico::configure`, `Dico::message`, `Log::init` | constructs and calls Context |
| Orchestration | `Context.cpp`, `Context.h` | slack node and its origin, main component, the results of all algorithms | constructor, `process`, `filterPartiallyConnectedDynamicModels`, `walkNodesMain`, `exportOutputs`, `execute` | registers callbacks on NetworkManager; calls the writers and Dynawo |
| Network | `Inputs/src/{NetworkManager,Node}.cpp` | `nodes_`, neighbours, elements of each node, counts of regulators by bus | `buildTree`, `walkNodes` | reads the Dynawo data interface; calls the callbacks |
| Main component | `MainConnexComponentAlgorithm`, `Algo/src/Algo.cpp:48-76` | marked nodes, largest group so far | one call per node, recursive search | writes `mainConnexNodes_` of Context |
| Slack node | `SlackNodeAlgorithm`, `Algo.cpp:32-44` | best node so far | one call per node | writes `slackNode_` |
| Generators | `GeneratorDefinitionAlgorithm`, `Algo.cpp:80-203` | definitions, buses with a shared model | one call per node of the main component | reads the counts of NetworkManager; its results go to Dyd, Par, Diagram |
| HVDC lines | `HVDCDefinitionAlgorithm`, `Algo.cpp:221-376` | definitions by line, buses with a shared model | one call per node of the main component | as above |
| Dynamic models | `DynModelAlgorithm`, `Algo.cpp:380-635` | tables of what each association designates, models, used macro connections | constructor, one call per node, filter of Context | reads the assembling file; its results go to Dyd, Par |
| Collectors | loads, static var compensators, shunt counters, lines by id | vectors and maps copied from the nodes | one call per node | results go to Dyd and Par |
| Writers | `Outputs/src/{Dyd,Par,Diagram,Job}.cpp` | none; each composes the ids it refers to | one `write` each | refer to one another through files |
| Dictionary keys | `Common/scripts/generateMessages.py`, `Dico.cpp` | the generated enum, the map of messages | generate; construct Dico | the same file read by two grammars |
| Tests | `cmake/TestMain.cmake`, `tests/main/CMakeLists.txt`, `scripts/{diff,updateMainReference}.py` | output directories and references, from one launch to the next | one test, one update | launch the program |
| Style checks | `cpplint/cpplint.py`, `cpplint/cpplint-wrapper.py` | globals of the module, suppressions, stack of blocks, include lists | command line, one file, one line; the wrapper starts a process per file | read the sources and what git lists |
| Data base documents | `Inputs/src/{AssemblingXmlDocument,SettingXmlDocument,DynamicDataBaseManager}.cpp` | the structures of two XML files | SAX handlers | read by DynModelAlgorithm and the writers |

Behaviours that are hard, with the properties that matter there (the full list,
line by line, is under `hazards` in `PROJECT.json`):

- the recursive search relies on marks that earlier searches have left: a group
  must be a whole component, hold each node once, and its recursion must end;
- the slack node is chosen during the walk that finds the main component, hence
  before it is known whether it lies there; it is then accepted, recomputed or
  refused;
- generators and VSC converters are counted on the whole network at reading, and
  defined on the main component only, after a filter: a model shared by several
  regulators must exist exactly when a definition refers to it;
- the converters of an HVDC line are met in any order; its definition is made at
  the first and revised at the second, and so are the records of shared buses;
- a dynamic model is completed node after node and removed at the end if it
  misses a connection;
- a failure may come at any step, in a directory that may hold the files of an
  earlier execution, complete or not;
- the ids of `dyd`, `par` and diagram files must agree although three writers
  compose them;
- the documents of the dynamic data base are rebuilt by callbacks of a parser that
  share one current structure per kind of element, and two maps of the same
  associations are built from them with opposite conventions;
- the output directory of a test is never emptied: a result may be that of an
  earlier version of the program;
- `cpplint.py` sees the text of a file through passes that remove strings and
  comments one after the other, follows blocks and includes with stacks it saves and
  restores at conditionals, and keeps its settings in globals from file to file.

## 2. The plan

The most important behaviour comes first: what everything else is computed on
(the graph and its main component), then the choices made on it, then the files.

| Step | Modules | Status |
| --- | --- | --- |
| 1 | `Connexity`, `MainConnex` (abstract), `ConnexAlgo` (implements it), first part of `MainConnexProofs` | checked and proved |
| 2 | `Context` (uses `MainConnex` as what the search promises), second part of `MainConnexProofs` | checked and proved |
| 3 | `GeneratorAlgo`, `GeneratorAlgoProofs` | checked and proved |
| 4 | `HvdcAlgo`, `HvdcAlgoProofs` | checked and proved |
| 5 | `DataBase`, `DynModelAlgo`, and `DynModelExport`, which composes them with `Dyd` and `Par`; `DynModelExportProofs` | checked and proved |
| 6 | `Launcher`, `Dictionary`, and `MainTest`, which composes them with the tests; `MainTestProofs` | checked; proved but for the dictionary |
| 7 | `NetworkTree`, `NetworkTreeProofs` (establishes the assumption of `Connexity`) | checked and proved |
| 8 | `Outputs`, `OutputsProofs` | checked and proved |
| 9 | `LintText`, `LintNesting`, `LintIncludes`, `LintChecks`, `Cpplint`, and `StyleCheck`, which adds the wrapper | checked |
| 10 | `SequenceLemmas`, on which the proofs of steps 1 to 8 rest | proved |
| 11 | contents of the diagrams (order of their rows) | planned |
| 12 | an abstract specification of the whole preparation (a network and a configuration to accepted outputs), implemented by `Context` with the algorithms | planned |

How the modules compose:

```
NetworkTree --TreeIsNetwork--> Connexity <-- ConnexAlgo --implements--> MainConnex
                                   ^                                       ^
                                   +---------------- Context --uses--------+
GeneratorAlgo, HvdcAlgo, DynModelExport --their invariants are assumptions of--> Outputs

DataBase --documents--> DynModelExport --steps of--> DynModelAlgo
                              +-- then the writers Dyd and Par, for dynamic models

Launcher: the order and the failures of all of these, as steps of main
Launcher + Dictionary --> MainTest: builds, launches, comparisons, updates

LintText <-- LintNesting <-- LintIncludes <-- LintChecks <-- Cpplint <-- StyleCheck
(text)       (blocks)        (includes)       (errors)       (process)   (wrapper)
```

## 3. The modules and the code

`map` in `PROJECT.json` gives the lines of each definition. In every module the
variable `input` is what the files determine: it is chosen in `Init` among
`Descriptions` and never changes. `IsDescription` says what a well-formed one is.
Definitions introduced as faulty variants are not used by the specifications: each
is a plausible error in the definition that follows it, and breaks the property
`PROJECT.json` pairs it with. `TypeOK`, where a module has one, says what its
variables hold; it is proved in `MainConnexProofs`, `NetworkTreeProofs`,
`GeneratorAlgoProofs`, `HvdcAlgoProofs`, `OutputsProofs` and `DynModelExportProofs`,
and the runs check the properties that say more. The specification of `ConnexAlgo` is
`SearchSpec`, with `SearchTypeOK` and so on, because `MainConnexProofs` speaks of it and
of `Context` together.

**Connexity, MainConnex, ConnexAlgo.** A node is its rank in the ordered map
`nodes_`, so that `walkNodes` presents 1, 2, ..., N. `ConnexAlgo` has the
recursion of `updateConnexGroup` as a stack: since no node has two pending calls
(`OneCallPerNode`), a call is the node it iterates for, and its iterator is
`position[node]`. `SkipProcessed`, `Start`, `Discover`, `Ignore`, `Return`,
`Finish` are the early return, the first call, the recursive call, the neighbour
already marked, the end of a loop and the comparison with the largest group.
`Component` is defined without any traversal, as the intersection of the closed
sets that contain a node. `MainConnex` processes a node in one step and keeps the
largest component, the first of its size.

**NetworkTree.** `buildTree` loop by loop and element by element: `EndOfLoop`
goes to the next loop, or to the next voltage level; one action per kind of
element. The loops on generators and HVDC lines, which share only the nodes with
the others, are in `GeneratorAlgo` and `HvdcAlgo`. `Line::build` and `Tfo::build`
are the `Link` and `LinkThree` of the neighbour table and the `Refer` of the
vectors of the nodes.

**Context.** The constructor is `Init` (where the slack node comes from), a node
of `walkNodes` with all its callbacks is `WalkNode`, then `FilterModels`,
`AcceptSlack`, `RefuseSlack` or `ResetSlack`, `RecomputeSlack`, `WalkMainNode`
and `Conclude` are the rest of `process`. The group found at each node is any listing
without repetition of the component of that node (`Groups`): `SearchListsGroups` proves
that the search of `ConnexAlgo` ends with one of them. Collectors whose
results `process` does not read are left out.

**GeneratorAlgo.** Reading, with the count of regulators by bus
(`updateMapRegulatingBuses`), then the walk: `DefineGenerator` is one round of the
loop of `operator()`, including the test on the diagram, the choice of the model
and the record for a shared bus. A node of the walk is any unvisited node of the
main component: its order depends on the search. Powers are integers and
`doubleEquals` is equality.

**HvdcAlgo.** Reading and walk as above; a model is described by its law and its
three flags (sixteen values of `HVDCModel`); a `VSCDefinition` is the id of a
converter and the converter its limits are those of. A VSC regulates its own bus
(external). Powers and droops are left out.

**DataBase.** One action per event of the parser: start and end of an element, start
and end of a child. `current` and `held` are the structures the handlers fill
for the element and the child being read, `content` the vectors they push to; a value a
handler refuses, a document the schema or the parser refuses and a missing file are the
ways the reading ends.
The setting file is read first, then the assembling file. What the schema accepts is
`Valid`; without a schema beside the file, only the handlers refuse. What a file means
is stated by positions (`Picked`), without the parser: `DocumentsAreFaithful` compares
the vectors with it.

**DynModelAlgo.** `ExtractAutomaton` resolves the associations of one automaton,
`WalkNode` connects what is on one node, `FilterAutomaton` removes one incomplete
model. A set of connections is ordered as `MacroConnection::operator<` orders it, by
a concatenation of strings: of two connections with the same one, the first inserted
is kept (`Inserted`).

**DynModelExport.** The documents as `DataBase` leaves them are the input of
`DynModelAlgo`; beside it run `ShuntCounterAlgorithm` and `LinesByIdAlgorithm`; then
`WriteDyd` writes the models and `WritePar`, for each set of a model that is left, its
counts, references and seasons, from a map of associations of its own. `IsInput` says
which files and networks are considered: elements of the tags their schemas know, finitely
many names, a shunt on one node only, and, of concatenation, the one thing the
properties need, which holds of all strings (with the same beginning, different ends give
different results). `AskedConnections` says what a macro connect asks for from the files
and the network alone, without the tables of the algorithm.

**Launcher.** One step of `main` per action; `End("failure")` is an exception or
an early return. The Dico singleton is what it was built from. The output
directory is a content per kind of file: absent, left by another execution,
truncated, or written by this one.

**Dictionary.** A line is what its two readers tell apart. `_parse` is the
pattern of `generateMessages.py`, `Compiles` what the compiler requires of the
enumerators it generates (a message that ends with a backslash takes in the next
one), `Loaded` the substrings of Dico's constructor, which `Throws` on a key without
message.

**MainTest.** The build generates the keys (`Build`), a test launches the program
in its directory (`StartTest`, `EndLaunch` around the steps of `Launcher`) and
compares the network left there when its command says so (`Compare`); a test marked `WILL_FAIL`
passes when its command fails. `updateMainReference.py` looks at the
results in any order (`os.walk`) and stops at the first error. A result is a value, absent or
truncated; `ChangeProgram` gives the program another value to compute, and what the
directories hold becomes that of another execution. Exit statuses are taken modulo
`ExitModulus` (256). The comparison itself, `iidmDiff` of Dynawo, is external.

**LintText, LintNesting, LintIncludes, LintChecks.** The operators of `cpplint.py` on
lines of tokens: `CleansedLines` with its passes; `NestingState` with `CheckEnd` of
its blocks and `CloseExpression`; `_IncludeState` with the order of includes and the
two checks at the end of a file; `Error` with its suppressions and filters, and the
checks that look at more than a line or depend on settings. Numbers of lines are
Python's, the markers put before and after a file included.

**Cpplint.** One process: `ParseArguments`, then for each file the configurations
above it (`ProcessConfigOverrides`), `LeaveOutFile` or `OpenFile`, `BeginFile`, a
`ProcessLine` per line, `FinishFile`. `lint` holds the globals that outlive a file.

**StyleCheck.** The wrapper around it, in Python 2 or 3: which files it takes from
git, one process for each and root directory, the sum of their statuses. Without it,
`cpplint.py` called by hand.

The operators of these five modules were compared with runs of `cpplint.py`: on
24,033 programs of one file the errors are the same, line and category, but for one
error that the code reports at no line (`None`) and the model at line -1; on 1,890
calls with configurations and options, the exit status and the errors are the same.

**Outputs.** One action per writer. A file is the ids it holds and those it refers
to; an id is a prefix with a name, hashes are without collision, values are left
out. The containers of definitions are finite sets, each written by one loop (`Each`)
in some order, and elements share no id (`HaveUniqueIds`). What the algorithms
guarantee on the definitions is in `IsDescription`: the
shared buses are those definitions refer to (`SharedModelsMatch` of
`GeneratorAlgo` and `HvdcAlgo`), models use known macro connections
(`ConnectorsAreWritten` of `DynModelExport`).

## 4. The runs

| Run | Question | Bounds, and why they are enough |
| --- | --- | --- |
| `connex` | Does the search find whole components, without a node twice, with bounded recursion, and implement `MainConnex`? Does it end? Is `SearchInv`, on which the proofs rest, an invariant? | All 64 graphs on 4 nodes, each in 3 neighbour tables (increasing, decreasing, doubled with loops). Four nodes give two components of the same size, a cycle, and searches that meet marks of earlier ones. The theorems cover every size. |
| `network` | Does `buildTree` build the tree of the file, without a failing lookup? | 3 buses in two or three voltage levels, an empty one included, in either order; parallel lines, branches on a single bus, every set of connected ends of a line; an unknown slack bus. `NodesExist` and `NeighboursAreNetwork` are proved for any file. |
| `context` | Which slack node, which networks are accepted, what reaches the outputs? | 9 graphs on 4 nodes with an isolated node, equal components and parallel lines; 5 voltage tables with ties; the slack node of the file inside, outside or absent; no, one or two regulating nodes; models complete or not. |
| `generators` | Do the shared models, the definitions and the diagrams agree for every order of the walk? | 3 generators on 2 buses regulating 3: one alone, two together and the third excluded by its diagram, its island or its limits is the smallest case where the counts and the definitions differ. |
| `hvdc` | Are positions, models and shared buses independent of the order in which converters are met? | 3 lines between 3 buses, all placements: a bus shared by several lines, both ends of a line shared, both ends on one bus. Emulation, LCC and disconnected ends included. |
| `dynmodels` | Do the handlers keep what the documents say? Are the models kept complete, their connections exact, their connectors written? Do the dyd and par files agree on counts and references? | Two automatons with 1 or 2 macro connects over 6 associations, on 3 nodes in 2 voltage levels with a line, a transformer and shunts; ids given twice, a missing library, ids whose concatenations are equal: the smallest case where connections of one model come from two nodes and two connects share a macro connection. Documents absent, ill formed, refused by the schema or only by a handler. |
| `launcher` | What does a failure leave behind? What does success mean, for a launch, a test, an update? Does each key have its message? | Four tests: one that compares, one that compares and is expected to fail, one that asks for the help, one without environment; two launches of the program with a failure at every step, three values (two versions that differ and a difference that the exit status loses, with `ExitModulus` 2), results and references absent or truncated. Dictionaries of one or two unusual lines are combined with the first launch of one test only (`Focus`): the later launches do not read them otherwise. |
| `style` | What does the success of a style check mean? With which settings is a file checked? Are strings, comments, blocks, includes and suppressions told apart? | Families of small jobs, since what the parts of `cpplint.py` read of a file is disjoint: up to three pieces of strings and comments on a line or on two, up to four heads of blocks and conditionals, five includes, three marks, three lines of a guard, and functions of up to nine lines with triggers of 1 and 2; calls on two files and a directory with 6 x 5 configurations and 7 options; the wrapper on five statuses of git. An error in a saved and restored stack shows with one conditional and its branches. |
| `outputs` | Do the references between the files resolve, and are ids unique? | 2 generators of any kind with an HVDC line at any position, on 2 buses, or one generator with an automaton whose connector or set may be missing. A reference involves at most two elements. |
| `hvdc_map`, `dico`, `dynmodels_partial` | Does what a comment says hold? | Violated: section 7. |

What the properties say, in a line each: `GroupIsComponent` a group is a
component when its search ends; `OneCallPerNode` the recursion is never deeper than
the group; `ImplementsMainConnex` the largest component is kept, the first of its
size; `NodesExist` no untested lookup fails; `NeighboursAreNetwork` neighbourhood is
symmetric; `TreeMatchesFile` with the multiplicity the file gives;
`SlackInMainComponent`, `SlackIsBest`, `FileSlackKept` on the slack node;
`VerdictIsRight` what `process` accepts; `MainComponentFound` what it hands on;
`SharedModelsMatch` a shared model is written if and only if a definition refers to
it; `OneVoltageController` no two controllers on a bus; `EveryUsableGeneratorDefined`
none lost or doubled; `PositionsAreRight`, `ModelsAreRight`,
`RecordedConvertersAreRight` on the revision of HVDC lines; `DocumentsAreFaithful`
the documents hold what the files say, or the program has stopped;
`CompleteModelsExported`, `ConnectionsAreExact`, `ConnectorsAreWritten` on
dynamic models; `CountsMatchConnections`, `ReferencesMatchConnections` the dyd and
par files agree on them; `ReferencesResolve`, `IdsUnique` on files;
`SimulationOnCompleteInputs`, `SuccessMeansSimulated` on a launch,
`RefusalLeavesOutputs` on what it leaves when the network is refused;
`PassedTestsCompared` a test that passes has compared a result of the present
program; `UpdateMakesTestsPass` after an update to its end; `MessagesFollowDictionary`
each key has its message; `SuccessMeansClean` a style check that succeeds has linted
every file and printed nothing; `SettingsOfFile` with the filters of the file and no
other, and with its line length, root and extensions; `NolintRespected` an error is
hidden exactly where its file says;
`CodeIsWhatIsLinted`, `BlocksMatchBraces`, `DuplicatesTogether` what is checked is the
code, its braces, and includes that may be compiled together. Where the code departs
from one of them in a stated way, the property names the exception, and section 7
says what it is.

No run disables the detection of deadlocks: each module says by `Terminated` (or
`Done`) where the program stops, so that a loop left before its end is an error.

## 5. Fairness

Only `ConnexAlgo` and `MainConnex` state fairness: weak fairness of the whole
next-state relation. The code is a sequential function that waits for nothing, so
that it cannot stop while it has an instruction to execute; no fairness between
actions is assumed, since at most one is possible at a time. `Termination` needs
nothing else: it is the bound on the recursion and on the iterators. The other
modules have safety properties only: their loops go over lists that do not grow, and
the programs that may never end in `MainTest` (Dynawo, a test nobody starts) are
external.

## 6. The proofs

`MainConnexProofs`, first of the search, for every `N` and every set of networks
(`NAssumption`: N is a natural number; `NetworksAssumption`: neighbour tables are
symmetric and within the nodes).

- `SearchInvariance`: `SearchInv` is inductive. `GroupIsComponent` alone is not: that a
  finished group is closed under neighbourhood needs that every neighbour an
  iterator has passed is marked (`FrontierInv`), and that a marked neighbour is in
  the group rather than left by an earlier search needs that what earlier searches
  marked is closed (`WalkInv`), hence, by symmetry, holds no neighbour of the
  group. `GroupInv` gives the other inclusion: the group stays in the component.
  `LargestInv` says of the main component what the refinement needs.
- `GroupCorrect`, `RecursionBounded`: `GroupIsComponent` and `OneCallPerNode` of the
  run `connex`, from `SearchInv`; so do `SearchTypeCorrect` and `GroupsHaveNoDuplicate`
  (no group holds a node twice, so that sizes of vectors are sizes of components).
- `SearchRefines`: each step is a step of `MainConnex` or a stutter (the safety part
  of `ImplementsMainConnex`; its fairness is only model-checked).

Component facts (a component contains its start, is closed, is the least such set,
is the component of each of its nodes) are lemmas of the same module, proved from
the definition by intersection.

Then of `Context`, for every `N` greater than 0, every set of networks and
configurations (`NetworksAssumption` as above).

- `SearchListsGroups` joins the two: the group a search ends with is in the `Groups` of
  `Context`. What is proved of the walk of `Context`, whatever group of that set it
  takes, is therefore proved of the search it runs.
- `IInv` adds to `TypeOK` what each stage of `process` knows: `MainInv`, the vector of
  the main component lists a component; `SlackInv`, of which nodes a chosen slack node
  is the best so far; `OriginInv` and `ControlInv`, where it comes from and where the
  loops are. `SlackIsBest` is not inductive: that the best node of the whole network,
  if it is in the main component, is the best there needs the invariant of the first
  walk, and a second walk needs its own. It speaks of connected nodes where the code
  counts neighbours: the first are at most as many (`ConnectedNodesAtMostDegree`), and
  as many when none is repeated and none is the node itself.
- `SlackIsInMainComponent`, `ChosenSlackIsBest`, `ImposedSlackIsKept`,
  `VerdictsAreRight` follow; `WalkFindsMainComponent` is the refinement of
  `MainConnex`: each step of `Context` maps to a step of it or a stutter.

`NetworkTreeProofs`, for every `N` and every set of network files
(`DescriptionsAssumption`: the buses are distinct, each in one voltage level, and
the elements of a level are on its buses).

- `Invariance`: `IInv` = `TypeOK` with `BusesRead` (the buses of the levels
  already read, and those the current loop has passed, have nodes) and
  `NeighboursAreNetwork`. `BusesRead` is what carries `NodesExist` through the
  loops on levels, and what makes a branch, whose ends may be in any level, safe.
- `TypeCorrect`, `LookupsSucceed`, `TreeIsNetwork`: from it. `TreeIsNetwork`
  establishes what `NetworksAssumption` assumes of each neighbour table.
- `TreeInvariance`, then `TreeIsThatOfFile` (`TreeMatchesFile`): in a final state the
  property is that of the whole file, so `TreeInv` says the same of the elements read
  so far (`IsRead`, from the stage, the level and the item). `LinksInv` counts pairs of
  ends, one per `push_back` of `Link` or `LinkThree`; `VectorsInv` counts references;
  `ShuntsInv` is by node for the buses read and by level for the local map, and needs
  that a bus is in one level only (`ShuntsOfBus`). `EndOfLoopReads` is the argument that no
  change of loop or of level skips an element.

`GeneratorAlgoProofs` and `HvdcAlgoProofs`, for every number of elements, any network
and configuration, and every order of the walk.

- Both invariants have `ReadInv`, what the counts and vectors hold once some of the
  elements are read, and `WalkInv`, what is defined once some of the nodes are visited
  and part of the current one: neither `SharedModelsMatch` nor the final statements
  can do without, since a definition depends on the count of the whole network.
- `SharedModels` holds at any time; in `HvdcAlgo` a definition is revised when the
  second converter is met, and `LinesInv` says what it is from the set of ends met:
  the order in which they were met is lost, which is what `Positions` and `Models`
  state of the end of the walk.
- `OneController`: a bus counted once has one kept generator, so that a local
  controller excludes any other; `UsableGeneratorsDefined` counts the definitions of
  each generator.

`DynModelExportProofs`, for every number of nodes, all files and all networks
(`NAssumption`; `InputsAssumption`: each of `Inputs` satisfies `IsInput`).

- `Invariance`: `IInv` has two halves. `DocumentsInv` follows the parser: `ContentInv`,
  each vector holds the elements of its tag before the current one; `PositionInv`, where
  the parser is; `CurrentInv`, the current structure is what the children already
  ended mean and a handler holds nothing but the child that is open. Without
  the last part `DocumentsAreFaithful` is not inductive: what an earlier parameter left
  in a handler would be pushed for the next one.
- `ProcessInv` follows the algorithm, the collectors and the writers once the documents
  are read: `WantedInv`, the tables hold the entries of the automatons already
  extracted; `ModelsInv`, the connections of a model cover exactly those requested on
  the nodes already walked, up to their concatenations, and the models missing are
  those filtered; `CollectInv`, the counts and lines of these nodes; `StageInv`, what
  each file holds is what its writer gives. A model is completed node after node, so that
  neither `CompleteModelsExported` nor `ConnectionsAreExact` holds before the end.
- `DocumentsFaithful`, `ModelsComplete`, `ConnectionsExact`, `ConnectorsWritten` follow,
  from the fact that what the tables request and the walk meets is what the files ask
  for (`MetIsAsked`). The filter asks for macro connections only; when each of them
  stands for one association, it asks for macro connects (`DistinctMacroIsAsked`).
- `CountsMatched`: the shunts of a level are the union of those of its nodes, each on
  one node, which is what the counter adds up; the macro connects of one macro
  connection are in bijection with them, and have as many indexes.
  `ReferencesMatched`: the first transformer, like the line of a season, is one of the
  connections of the model.
- Neither a vector nor a selection of one is described by induction: `Picked` gives the
  element at each position, and the positions are those of a finite set of numbers.

`MainTestProofs`, for every finite set of tests, all values and dictionaries
(`TestsAssumption`: a test that compares asks for a simulation; `ValuesAssumption`:
an exit status is cut to some modulus greater than 1).

- `LauncherInv` says what each stage of `main` leaves to the next: the files before the
  one being exported are of this launch, but for the diagrams. `LaunchOnCompleteInputs`
  and `LaunchSuccessMeansSimulated` are about one execution from any content of the
  directory; `TestsInv` carries the same through builds, launches and updates, with
  `ResultIsOfProgram` and `UpdateInv` (what an update has passed has its reference).
- `RefusedLaunchesLeaveOutputs`, `UpdatesMakeTestsPass` are invariants,
  `PassedTestsHaveCompared` is an action property.

`OutputsProofs`, for every set of definitions (`DescriptionsAssumption`: finite
containers, unique ids, and the shared buses the definitions refer to).

- `IInv`: what each file holds is what its writer gives for the definitions. The rest
  is about these sequences: `EachWrites` and `ConcatWrites` say what a loop and two
  loops in a row write, `ModelsWritten` and `SetsWritten` put the eight loops of each
  file together, and `ParametersWritten`, `ConnectionsWritten`, `TablesWritten` match
  one loop of a writer with one of another.
- `ReferencesResolved`, `UniqueIds`: from it.

`SequenceLemmas` has what these proofs keep needing of sequences: their elements,
those without repetition, the listings of a finite set.

Only model-checked:

- `Termination` and every fairness condition (liveness is out of reach of the prover);
- `MessagesFollowDictionary`: the patterns of `Dictionary` select and trim the lines of a
  file; what they compute for any sequence of lines is by induction over data;
- the six properties of `StyleCheck`: its operators recurse over text.

## 7. Where the code and its comments disagree

| Run | The code | The comment |
| --- | --- | --- |
| `hvdc_map` | when both ends of a line are recorded, the entry of the other end's bus has its id with the limits of the converter being met (`Algo.cpp:373`) | `Algo.h:517` "mapping of buses that have multiple VSC connected and one of their VSC" |
| `dico` | an unknown `ActivePowerCompensation` makes the constructor of Configuration use a message, and so build the singleton, before `Dico::configure` (`Configuration.cpp:64`, `main.cpp:75,95`) | `Dico.h:67` "MUST be called before the first call of instance()" |
| `dynmodels_partial` | the filter of dynamic models looks for the macro connection of each macro connect, whatever its association (`Context.cpp:134`): of two connects of one macro connection, one without element is not seen | `Context.h:129` "Remove models definitions with partial connectivity" |

Noticed while modelling, without a run:

- `Algo.h:68` speaks of the number of connected nodes where `Algo.cpp:39` counts
  entries of `neighbours`, in which a node counts once per parallel line.
  `SlackIsBest` is stated with connected nodes; its exception is a slack node with
  parallel lines, for which only the number of entries is the greatest.
- Dyd gives proportional and remote generators a set that does not depend on their
  target, Par writes one that does (`Dyd.cpp:291`, `Par.cpp:95`), where `Constants.h:69`
  says "PAR id for generators using prop signal N with fixed P". `ReferencesResolve`
  names these generators as its exception (`ForgottenFixedP`).
- `Par.cpp:258` keeps the first multiple association of an id, `Algo.cpp:470` the
  last; `CountsMatchConnections` needs that ids are not repeated.
- `Algo.cpp:519`: two macro connections with the same concatenation are one;
  `ConnectionsAreExact` states it as the only loss.
- `Diagram.cpp:33` sorts the points of the map of shared buses while the tables are
  written from the definitions of the lines.
- A bus regulated both by several generators and by several VSC gets two models with
  the id `Model_Signal_NQ_<bus>` (`Dyd.cpp:131-138`; `IdsUnique` excludes that case).
- A failed parse of the options ends with `EXIT_SUCCESS` (`main.cpp`).
- Dictionary: a line `KEY =` is an empty message for `generateMessages.py` and an
  exception for Dico (`Dico.cpp:60-61`); Dico keeps a tabulation before a message and
  reads `KEY ONE = x` as the key `KEYONE`; a message that ends with a backslash makes
  a comment of the generated header swallow the next enumerator.
- Tests: `diff.py:53` exits with the number of differences, of which a process keeps a
  byte, so that 256 differences pass; a test with `WILL_FAIL` passes on any failure, a
  missing reference included; `updateMainReference.py:34` splits the absolute path at
  its first "results", and copies the stale result of a test whose launch failed.
- `cpplint-wrapper.py` also exits with a sum cut to a byte. In Python 2 it drops
  untracked files, although its usage says "track and untracked files" (line 84); in
  Python 3 it loses renamed files, and the usage itself raises.
- `cpplint.py`, configurations: filters are restored after a file, but a line length,
  extensions or a root set by one stay for the next files, and the topmost
  configuration wins (the usage says otherwise, lines 253-254); `SettingsOfFile` leaves
  both out; the `filter` lines of
  one configuration apply in reverse order; `headers=` without `extensions=` replaces
  the valid extensions; `--recursive` filters extensions before any configuration is
  read; a directory without it is skipped in silence.
- `cpplint.py`, text: a quote in a C comment breaks the removal of strings and
  comments; `NOLINT` is ignored in the inner lines of a comment of several lines;
  the marker lines put around a file are checked with it, so that a short enough
  `linelength` makes every file fail at line 0; `CheckForBadCharacters` sees blanked
  lines, contrary to the comment at 6194; nested conditionals make includes that are
  never compiled together duplicates.

## 8. What is not modelled

- Values: powers but for those the choice of a model compares, parameters and
  variables of the files, rows of tables, formatting. No property is about them yet.
- The job: `Job::write` fills one structure and refers to the files by name.
- `LoadDefinitionAlgorithm` and `StaticVarCompensatorAlgorithm`: each copies what is on
  a node; `NetworkTree` shows what is there.
- A network without nodes: `process` would dereference a null slack node
  (assumption `NotEmpty` of `Context`).
- Dynawo, the IIDM reader and the file system: external. `Launcher` lets each of
  them fail; `GeneratorAlgo` takes the buses connected by switches from a table.
- Switches that connect buses electrically are only tested for a bus with one
  generator (`Algo.cpp:105`), and the count of regulating VSC is kept by regulated bus
  and read by connection bus (`NetworkManager.cpp:239`): a VSC that regulates another
  bus is outside the models.
- `cpplint.py`: the checks that match a regular expression on one line and keep
  nothing (spacing, casts, braces, names of functions). What they report only adds
  errors of other categories. Escapes in strings and delimiters of raw strings.
- Build files other than those of the tests, and launch scripts: commands without
  state of their own.
