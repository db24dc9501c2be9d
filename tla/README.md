# TLA+ models of Liger

Liger is an environment for building and running optimisation workflows. A workflow is a chain
of operators of the Tigon library, drawn in a Qt designer and executed on a background thread.
This directory holds TLA+ models of the parts of Liger in which steps of several actors can
interleave, the TLC configurations that check them, and theorems about them checked by TLAPS.
Paths below are relative to the repository; `src/src/...` in `PROJECT.json` is the same tree
under the directory that holds the checkout.

## 1. The system

### 1.1 Components

| component | code | state it keeps | operations |
|---|---|---|---|
| run control | `plugins/designer/iengine/iengine.cpp`, `plugins/qtigon/engine/qtigonengine.cpp` | engine status, three progress channels (a `QFutureInterface` pointer and a `QFutureWatcher` each), pause points, one-second timer, node lists, log managers, `m_result` | `loadDesign`, `start`, `pause`, `resume`, `exit`, `finished`, the counters' slots, `run`/`engine_loop` on a pool thread |
| Run/Pause/Stop actions | `plugins/designer/ldesigner/ldesignerwidget.cpp`, `plugins/designer/designeditorplugin.cpp` | which actions are enabled | `runDesign`, `pauseDesign`, `stopDesign`, `engineStarted/Paused/Finished` slots |
| progress manager | `plugins/coreplugin/progressmanager/` | the task widgets, each watching a copy of the future | `addTask`, `cancel`, `close`, removal of finished tasks |
| Tigon engine | `libs/tigon/Engine/` | list of flows, index of the current one | `loadFlowFromFile`, `addFlow`, `clearFlow`, `setCurrentIndex`, `evaluateFlow` |
| operator chain | `libs/tigon/Representation/PSets/`, `libs/tigon/Operators/` | one shared `IPSetPrivate` (sets, tag registry, counters, error state), per operator the sets it looked up | `evaluate` along the chain, `appendOutputSet`, `clearOutputSets`, tag operations, budget and iteration counters |
| non-dominated archive | `IPSet::updateNonDominatedArchive`, `IPSet::updateVectors`, `IMappingOperations` | one tagged set, the ideal, anti-ideal and nadir vector of the problem | insert a solution, drop what it dominates, raise or recompute the vectors |
| comparison and selection | `libs/tigon/Utils/Dominance/`, `Utils/DominanceUtils.cpp`, `Operators/Fitness/`, `Operators/Filtrations/` | counts and lists of one ranking, costs, permutation and index of the tournaments | compare, rank, crowd, keep elites, pick parents |
| evolutionary algorithms | `libs/tigon/Algorithms/`, `libs/tigon/Operators/*`, `libs/tigon/Utils/*` | a list of operators with their tags; local state | ranking, selection, breeding, merging, indicators |
| parallel evaluation | `Operators/Evaluators/Evaluator.cpp`, `Representation/Mappings/IMapping.cpp` | per solution which functions are evaluated and their outputs; one static mutex; futures | `evaluateNode`, `parallelEvaluate`, `evaluate` |
| MATLAB sessions | `libs/matlabplugin/` | free and handed-out engines, one mutex, a "was used" flag | `aquireEngine`, `releaseEngine`, `emptyPool`, `MatlabFunction::evaluate` |
| e-mail notifier | `plugins/emailnotifier/` | whether it is connected to the engine's signals, dialog settings | connect on Run, disconnect on Stop or after sending, each before the designer's slot of the same click |
| designer document and scene | `plugins/designer/ldesigner/`, `plugins/designer/iengine/*port*` | nodes, ports, links, undo stack | edit, save, reload |
| visualisation | `plugins/visualisation/` | copies of the sets of the running flow | refresh on `dataUpdated` |
| application shell | `libs/extensionsystem`, `libs/aggregation`, `libs/utils`, `plugins/coreplugin`, `plugins/texteditor`, `src/app` | plug-ins, editors, settings (derived from Qt Creator) | plug-in life cycle, editing |
| third-party code | `libs/eigen`, `botan`, `fann`, `csdp`, `libavoid`, `json`, `tinyxml2` | - | - |

### 1.2 How they interact

The GUI thread owns the designer, the run control, the progress manager and the notifier. Pressing
Run calls `LDesignerWidget::runDesign`: it clears the engine, loads the workflow and calls
`IEngine::start`, which creates the progress channels and hands `IEngine::run` to the global thread
pool. The pool thread reads and writes the same `IEngine` fields without a lock, evaluates the flow,
and talks back only through posted events: counter signals (queued connections, because the receiver
lives on the GUI thread) and the `finished()`/`canceled()` signals of the future watchers. `pause()`
and `exit()` block the GUI thread until the pool thread has called `reportFinished()` on every
channel. Within an evaluation the pool thread may start one thread per solution, and each of these
one thread per parallelizable function; functions that are not parallelizable (MATLAB functions
among them) take turns under one static mutex. `MatlabPool` is a singleton with a mutex of its own
and does not rely on that order.

### 1.3 What is hard

* `IEngine::run` tests `m_engineStatus` and assigns it later; `exit()` and `pause()` look at the
  same variable on another thread. Between `start()` and the assignment the engine is neither
  running nor idle.
* Events are handled long after they were posted: a watcher's `finished()` from an earlier run,
  or a counter, can arrive during a later one.
* A user stop deletes objects (interfaces, flows) that the pool thread may be using.
* A failed evaluation leaves the flow in an error state, and counters posted before the failure
  are still handled after it.
* Engines of the MATLAB pool must come back on every path, must not be shared and must not be
  used after `emptyPool()`, which takes no lock.
* Raw pointers to sets are cached by operators and by the tag registry, and operators find each
  other's sets by tags only.
* The mutex of the parallel evaluation is locked and unlocked by hand around calls that throw, and
  exceptions reach the evaluator through futures, whose destructors wait.

### 1.4 What makes each component correct

* Run control: one loop executes at a time; no thread touches freed or unloaded objects; Run is
  offered only when nothing executes; a channel is finished by the run that owns it; after Stop
  nothing executes; pauses are not early; when everything is quiet the display, the timer and
  the status agree; the GUI always gets its event loop back; a run ends.
* MATLAB pool: an engine belongs to one thread; at most `m_maxUnlocked` idle sessions; idle
  sessions are clean; nothing is deleted twice or used after deletion.
* Operator chain and algorithms: registry and sets' own tags agree; no deleted set is read; parents
  come from this generation's selection; only evaluated solutions are ranked; the population keeps
  its size; elites survive; selected solutions are not varied; destruction leaves nothing behind.
* Parallel evaluation: functions that are not parallelizable exclude each other; the evaluation
  returns, and no thread outlives it; it leaves outputs, marks, vectors and budget as the serial one
  does, from the same inputs;
  what is marked evaluated has been computed and is not computed again.
* Archive: whatever the order of arrival, it is the non-dominated part of what was reported; a
  report that returns early has removed nothing; the vectors bound and attain what they summarise.
* Comparison and selection: the relation is lexicographic in violation, priorities and dominance;
  ranks are the layers of the relation and ranking ends; what is preferred is not dearer; no elite is
  worse than a solution left out; the best elite becomes a parent.
* Notifier: each pause and each end of a run is announced once, except an end by Stop. Node lists: the engine never updates
  a node that was deleted.

## 2. Modules

| module | models |
|---|---|
| `EngineControl` | run control, Run/Pause/Stop, the progress channels and the posted events |
| `RunLifecycle` | what run control promises: the abstract specification `EngineControl` implements |
| `MCEngineControl` | the workflows TLC runs `EngineControl` with |
| `Workbench` | `EngineControl` composed with the document's nodes and the e-mail notifier |
| `MCWorkbench` | `Workbench` with the workflows of `MCEngineControl` |
| `EngineControlProofs` | types and safety of `EngineControl` for every instance; its steps are steps of `RunLifecycle` |
| `WorkbenchProofs` | `Workbench` implements `EngineControl`; node lists and announcements are right |
| `RunLifecycleProofs` | the abstract specification keeps Run and execution apart |
| `MatlabPool` | the MATLAB session pool and the evaluations that use it |
| `TaggedSets` | the sets of a flow and their tag registry, as pure operators |
| `OperatorFlow` | a chain of operators evaluated generation after generation over `TaggedSets` |
| `OperatorFlowProofs` | types, registry, inputs, ranking, parents, elites and population are right for any chain, tags and population |
| `AlgorithmWiring` | which operators and tags NSGA-II, SMS-EMOA and MOGA consist of |
| `MCOperatorFlow` | the three algorithms TLC runs `OperatorFlow` with |
| `ParallelEvaluation` | one parallel evaluation of a set: evaluator, threads, mutex, futures |
| `MCParallelEvaluation` | which function feeds which in the problems TLC evaluates |
| `ParallelEvaluationProofs` | exclusion, joining and agreement with the serial evaluation for every set and problem |
| `Archive` | the update of the non-dominated archive and of the problem's vectors |
| `MCArchive` | the solutions TLC reports to `Archive` |
| `ArchiveProofs` | exactness of archive and vectors for any solutions and order |
| `Ranking` | comparison, ranking, crowding, elitism and tournaments of one generation |
| `MCRanking` | the problems and objective vectors TLC runs `Ranking` with |
| `RankingProofs` | relation, ranks, costs, elites and parents are right for any set and problem |
| `MatlabPoolProofs` | safety of the pool for every number of threads, engines and any limit |

### 2.1 `EngineControl`

State. `status` is `m_engineStatus`. A channel is one of iteration, budget and time; `live[c]`
says that its interface pointer is not null and `fut[c]` is the state of the future its watcher
watches (finished, paused, cancelled). `queue` holds the events posted to the GUI thread, oldest
first. `gui` is the GUI thread's place: in its event loop (`idle`), in `loadDesign`, between
`loadDesign` and `start`, in the waits of `pause()` or of `exit()`. `pc[w]` is the place of the
pool thread of the w-th `QtConcurrent::run` call; a channel name as value means "about to report
this channel finished". `runOffered`, `nodeState` and `timer` are what the user sees. `loaded`,
`hasFlow`, `flow` and `dangling` are the master end node pointer, the current flow, its counters
and error state, and the threads whose local flow pointer was deleted by `clearFlow()`.

Actions. Every slot is cut only where the GUI thread can be overtaken: at a wait, and between
`loadDesign` and `start` (both read fields the pool thread writes). A worker is cut between its
shared reads and writes: the test of the status (`Enter`), the assignment (`Claim`), the fetch
of the flow (`Fetch`), the head of the loop (`Loop`), the evaluation (`Eval`), and each
`reportFinished()` (`Report`). `Deliver` takes the oldest posted event and runs its slot whole.

External code. Qt's part is modelled from how the sources use it: `Post`, `Discard` (setting a
watcher's future takes the old future's call-outs out of the queue), `Cancel`, `Deliver`,
`DeliverNothing` (a paused future delivers no finished or cancelled event; a counter without
its channel is dropped). A slot left in the queue after `Discard` stays as a `removed` event.

User. `Prompt = TRUE` says that the user does not act while a worker is in the short stretches
of `run()` outside the loop (a few instructions each); `Drained = TRUE` says in addition that
the user acts after the GUI has handled what was posted. `Prompt = FALSE` is the real system
with a fast user: the run `engine_stop_race` shows what goes wrong. TLC also shows, without
`Drained` and with workflows that use different channels, that a `finished()` event left over
from an earlier run unloads the design of the new one; see section 5.

Data. A workflow is the set of channels it uses, its two limits and its pause points. One
evaluation spends one unit of budget. Progress values, the time estimate, logs and messages are
left out. A message box is a return to the event loop in which the user cannot press
the actions, so it adds no behaviour.

### 2.2 `RunLifecycle`

Four variables: Run is offered, something executes, the offered run is a paused one, the work
done. `EngineControl` implements it with `offered <- runOffered`, `busy <-` some worker is
between being queued and leaving the loop, `paused <- runOffered /\ status = "PAUSED"`, and
`progress <- flow.iter + flow.spent`. Fairness of `Halt` and `Settle` (a run ends, its end is
shown) is implied by the fairness of the threads and the event loop.

### 2.3 `MatlabPool`

`unlocked` is the list of free engines in order of return, `locked` the ones handed out,
`deleted` the freed objects, `dirty` and `away` the engines with variables in their workspace
and with a changed directory. `Lock` is `getInstance()` plus the wait for the mutex; the bodies
of `aquireEngine` and `releaseEngine` are one action each because they hold the mutex; they are
separate from `Lock` because `emptyPool()` takes no lock and may fall between. `Evaluate` and
`Throw` are the evaluation and the exception path past `releaseEngine()`. `ShutdownIdle = TRUE`
says that the plug-in is shut down only when no thread evaluates.

### 2.4 `TaggedSets`, `OperatorFlow`, `AlgorithmWiring`

State. `reg` holds the registered sets (`m_sets`), the list of sets of every tag (`m_tags`) and
every set's own tags; `maps` the solutions of every set and `done` the solutions whose functions
are all evaluated. `outs` and `ins` are the pointers an operator cached (`m_outputSets`,
`m_inputSets`), `creator` the operators with `m_setsCreator`, `later` the reduction's
`isFirstIteration` cleared, `failed` the shared error state. `chain` is the loaded flow; `at` and
`phase` say whose turn it is and which part of it.

Actions. A turn is `updateSets()` (look the sets up by tags and tag them further) and then one
action for the operator's `evaluateNode()`, by its kind: initialise, evaluate, rank, score, elite,
reduce, pool, children, filtered, vary, truncate, merge. `EvaluateThrows` is an exception part way
through a set: a `TException` leaves the error state behind, other exceptions do not. `StartUnload`
and `Destroy` are the destruction of the flow, operator by operator.

Data. A solution is an identity and whether it is evaluated. Costs are left open: ranks, winners
of tournaments and elites within a rank are any that the code could find. A tag that is absent and
a tag without sets are the same; the order of `m_sets` is dropped, the order of a tag's list kept.
The three mutation operators, which have the same tags, are one. NSGA-III has the wiring of
NSGA-II. Additional user tags, extra initial solutions, clones of registries and the shuffling of
looked-up sets (only `RandSetReplacement` asks for it) are left out. The loops over sets and tags are
all `ForEach`, a recursive function from the loop's counter to the registry after that many rounds.

Wiring. What a flow does depends on how its operators' tags fit together, which nothing in the code
checks. The conditions the properties need are predicates of a chain: `KeepsApart` (no operator takes
for input what it takes for one of its outputs), `RanksEvaluated` (the evaluator comes directly
before the ranking and finds every set the ranking may find), `BreedsSelected` (breeders come directly
after a selection and look for its tags only), `VariesBred` (variation follows breeding and finds
nothing but what was bred). `Generation` says what a generation consists of: some operator selects,
from the ranks made of the population or, a mating pool, from the population itself; a breeder that
reads the selection follows; only bred sets are varied and truncated; and the last operator merges
what was selected and bred into the population that the first one made. Each of the tags used
for this names the sets of exactly the makers meant (`Names`), so no other set can be found by it.
`Refills` says that selection and breeding together make at least as many solutions as the
population has. `MCOperatorFlow` has TLC evaluate them all (`WellWired`)
for NSGA-II, SMS-EMOA and MOGA; for a new algorithm they can be read off its tags.

### 2.5 `ParallelEvaluation`

State. Per solution the place of its thread in `parallelEvaluate()` (`pc`), the loop index `at`,
the functions marked evaluated (`m_isFuncEvaluated`), their outputs (`none`, `plain`, `negated`),
the threads of its parallelizable functions (`task`, the futures in `evalThreads`) and `evalCount`.
`mutex` is `ms_mutex`. The evaluator has its place `main`, the result it fetches next, its local
`evalCount` and the spent budget, and `bounds` are the solutions that entered ideal and nadir.
`fed` is a history: the form in which each function found the outputs it reads.

Actions. `Skip`, `Fetch` (which samples uncertain inputs under the mutex and reads connected
outputs), `Launch`, `Lock`,
`Evaluate`, `EvaluateThrows`, `StartCollecting`, `PassOver`, `Collect`, `Return` follow the two
loops; `ReturnError` and `Unwind` are the early ends, which wait for the futures they destroy.
`TaskReturns` and `TaskThrows` are a parallelizable function on its thread. `Get`, `GetThrows`,
`Leave`, `Finish` are the evaluator. A step is cut where another thread can matter: at the mutex
and at futures. Functions may be evaluated before the start, as in solutions that survive.

Data. An output is what its sign tells: whether it was computed and whether it was negated.
A parameter connected to the output of an earlier function (`Connected`; `Problem.cpp:1774-1885`
makes the connections by name, taken to be unique) is that output element itself
(`IMapping.cpp:1266-1280`), so `FetchInputs` reads the form the element has at that moment, also
while the task that writes it runs. `Scalarised` are the solutions whose `m_isScalarised` is set
before the evaluation; nothing in `parallelEvaluate()` resets it. Perturbed outputs, output bounds,
the cost of single-objective problems and logging are left out. `SerialCost`, `Minimised` and the
other clauses of `AgreesWithSerial` are what the serial branch (`IMapping::evaluate()` and the rest
of `evaluateNode()`) does: a function reads the finished, negated outputs of earlier ones, and each
new output resets the flag of its solution. A result -1 (`ReturnError`) is where the serial branch
throws, so what is compared is an evaluation that finishes.

### 2.6 `Workbench`

`Workbench` EXTENDS `EngineControl`: each of its actions is an action of `EngineControl` with what
the slots do to the rest of the GUI. `nodes` is `m_processNodes`, an entry being the position of a
node in the document or `Freed`; `edited` says that the document is modified. `links` counts the
notifier's connections to `enginePaused` and `engineFinished`. `mails`, `began` and `stopped` are
history variables: what was sent since the last click of Run, whether that click started or resumed
a workflow, and whether a click of Stop ended it.

The Run and Stop actions have two slots each. The notifier's are connected when the plug-ins are
loaded (`emailnotifier.cpp:83-86`), the designer's when the editor is first opened
(`designeditorw.cpp:312`, `415-416`), and Qt calls slots in the order of their connection. So
`ClickRun` connects the notifier first (`ConnectEngine`), also when the engine is running and
`runDesign()` returns at once, when it resumes, and when the load is refused afterwards; and
`ClickStop` disconnects it first (`DisconnectEngine`), before `exit()` waits for anything
(`GuiExit`, `GuiWait`) or emits `engineFinished` (`StopNodes`, or at once when the engine is idle).
`exit()` called by the cross of a task finds the notifier connected.

`LoadNodes` is the part of `runDesign()` around the load: `removeAllNodes()` (which removes
`m_processNodes[0]`, then `[1]` of what is left, and so on), save and reload, registration up to the
first refused node. `EmitFinished` is the emission of `engineFinished`, in `exit()` and in the slot
of a posted event; the first of several duplicate connections to be called removes the others.
`UserEdit` is `del()`; `Careful = TRUE` says that it happens between runs.

Data. `selected`, what the user wants to be notified of, does not change during a session, and the
notifier is configured. Sending runs on another thread and is not modelled. `reload()` handles posted
events (`processEvents`) before the nodes are read; as Run is handled only with an idle engine, that
is the same as handling them before the click, which is modelled.

### 2.7 `Archive`

State. `archive` is the tagged set in its order, `created` whether it exists, `ideal`, `antiIdeal`
and `nadir` the problem's vectors, `seen` a history of what was reported. While a report is handled,
`pc`, `imap`, `at`, `ret` and `newNadir` are the locals of `updateIdealNadirVec()` and of the
functions it calls. Actions: `Arrive` (a solution is reported), `Reject`, `Drop` and `Pass` (one
entry of the walk, from the end of the archive to its beginning, in which removals shift the rest),
`Insert`, then `Raise` (the nadir grows by one solution) or `Scan` and `DefineNadir` (it is computed
anew, because something was removed).

Data. A solution has a decision vector (a constant) and an objective vector (any); those in `Failed`
have objectives that could not be evaluated, which makes them incomparable. Only the evaluator's
parallel branch reports these (`Parallel`). The archive is kept for problems of algorithms that ask
for it (`KeepArchive`).

### 2.8 `Ranking`

One generation's selection, from an unordered set to parents. `problem` says which relation
`evaluateNode()` chooses (goals, their priorities, constraint violations, weak or strong dominance)
and which ranking (layers by peeling, or MOGA's counts). `row`, `domCount`, `dominatedBy`, `mark` and
`ranks` are the ranking's loops, `cDist`, `rank` and `objective` the crowding's, `order` and `at` the
tournaments'. `Preferred` is `preferability()`, its recursion over priorities written as a recursive
function; `Levels` are the priorities that are still to come, `Level` the goals of one. `SortedBy`
gives every order an unstable sort may return of entries that differ (what is sorted are indices),
`Orders` every permutation, `Whole` the ranks copied so far.

Data. Costs are whole numbers: `Unit` is the cost 1.0 and is chosen so that the crowding distances
of the values used are exact (an assumption that the runs need and the proofs do not). Only the order of objective values matters to the relation.

## 3. Runs

| run | question | expected |
|---|---|---|
| `workbench` | one workflow with a pause point, three starts or resumes, refused starts and edits, user events interleaved with undelivered events: are the run control, the node lists and the notifier right together | holds |
| `engine_designs` | three workflows (iteration limit with a pause point; both limits with time estimate and a budget pause; no limit at all), three starts; crashes, Stop, pauses, liveness and the refinement | holds |
| `engine_stop_race` | does Stop terminate the execution when it is pressed right after Run | violated |
| `engine_failed_flow` | is a workflow that hit an error never executed again | violated |
| `matlab_pool` | three threads, four engines, two kept | holds |
| `operator_flow` | NSGA-II, SMS-EMOA and MOGA, any number of generations, failures and destruction | holds |
| `parallel_evaluation` | does a parallel evaluation without errors end, and end as the serial one from the same inputs | holds |
| `parallel_errors` | after exceptions and missing mappings, has everything ended that was started | holds |
| `parallel_throw` | does the evaluation return when a function that is not parallelizable throws | violated |
| `parallel_sign` | are all evaluated outputs in minimised form | violated |
| `archive` | are archive and vectors exact after reports in any order | holds |
| `ranking` | are relation, ranks, costs, elites and parents what their definitions say, and does ranking end | holds |

Bounds. `MaxRuns = 3` covers start, pause, resume and a second start, and the overlap of the events
of two earlier runs with a third. Limits of two iterations and two units of budget let a pause point
be reached before, at and after the end of a run. Three threads and a limit of two free engines let
the pool be over-full, full and empty; four engine identities are one more than can be in use, so a
deleted engine is always distinguishable from a live one. A population of three is odd, so the merge
has to cut, and allows up to three ranks; it needs at most eight sets and ten solutions, so the
identities never run out. In SMS-EMOA's first generation the reduction passes the population over
and the one child is dropped by the merge; later generations replace one solution, so both cases
occur. Three solutions give the mutex a queue and the evaluator results out of order; one function
under the mutex (with sampled inputs) and one parallelizable and maximised are all kinds of
functions, and the errors run adds one without a mapping. The second function reads an output of the
first, across the two kinds: in `parallel_evaluation` from the mutex to a task, in `parallel_errors`
from a task to the mutex. In `workbench` a document of two nodes is
the smallest whose refused load leaves one node and loses one; two connections are the smallest
number of duplicates, and `MaxLinks` caps the count there. In `archive` four solutions over two
objectives of three values allow chains of dominance, a new solution that drops two others, repeated
reports, two solutions with one decision vector, and one that was not evaluated. In `ranking` five
solutions and four vectors give ranks with several equal solutions, up to three ranks, a cut inside
a rank (the elite ratio of 60 per cent keeps three) and an odd number of contestants, so one
competes alone; the ten problems have zero to two goals on the same, different and unused
priorities, with and without violations, strong dominance and both rankings. The tournaments'
permutations are explored for the problem with violations. `CHECK_DEADLOCK` is off: a session ends
when the user stops acting or `MaxRuns` is used up, the pool when the engine identities are, a flow
when it is destroyed or has failed, an evaluation and a ranking when they are over; the archive's
reports are bounded only by the values, its walk always ends.

Fairness. The GUI event loop keeps handling events and waits end when their condition holds (weak
fairness of `GuiStep`); the pool schedules queued functions and `evaluate()` returns (weak fairness
of each worker). Nothing is assumed of the user. `RunEnds` is checked for workflows with an
iteration limit: with a budget limit alone a run that failed and was resumed never spends anything
and does not end (section 5). In `ParallelEvaluation` threads are scheduled and functions return or
throw (weak fairness of each thread, of its tasks and of the evaluator). `Ranking` is one loop of
the pool thread (weak fairness of `Next`). Weak fairness is enough for the mutex: each thread takes
it a bounded number of times, so it is free for good in the end, unless somebody keeps it.

## 4. Proofs

* `EngineControlProofs`: `EngineTypes`, `Spec => []TypeOK` for every set of workflows and every
  `MaxRuns`, with no assumption on the user. `TypeOK` is not inductive: `start()` uses pool
  thread `result + 1`, which exists because `UserRun` was allowed only below the bound and
  nothing starts a run while the GUI thread is between the click and `start()`. The invariant is
  therefore `TypeOK /\ RoomToStart`.
  The same module proves `EngineNeverCrashes`, `EngineOffersRunWhenQuiet`, `EngineFinishedByOwner`,
  `EngineQuietConsistent` and `EngineStopTerminates` for every set of workflows and every `MaxRuns`,
  under `Orderly`: the user acts only while no worker is entering or leaving `run()` (`Prompt`), and
  either the events of a run are handled before the next starts (`Drained`) or all workflows use the
  same channels. Neither half can be dropped: `engine_stop_race` violates `StopTerminates` without
  `Prompt`, and section 5 says what fails without the other. One inductive invariant, `ControlInv`,
  serves all five. Each part is there because another needs it. `Threads`: only the last worker is
  alive; this is what makes "Run is offered" a statement about one thread. `Statuses`: what the
  status, which both threads write, is for each place of the GUI and the worker; without it Stop and
  Pause could take the wrong branch. `Open`: an executing run has finished none of its channels.
  `Kept`: nothing it uses has been deleted or unloaded. `Events`: no `finished()` of an earlier run
  is in the queue while a run executes; this is where `Orderly` enters. `Display`: what is shown
  while Run is offered. `Pending`: a run that has ended and does not look ended will, because a
  report or an event is still to come; `QuietConsistent` rests on it.
  `EnginePausesInTime` proves the action property `PauseNotEarly` (under `Prompt` and `Drained`) with
  `CountsReached`: a counter on its way never exceeds what the flow has reached.
  `EngineFollowsLifecycle` is the safety part of the refinement: under the mapping of
  `EngineControl` initial states are initial states of `RunLifecycle` and every step is one of its
  steps or a stutter, for every instance (under `Orderly`).
* `RunLifecycleProofs`: `OfferedMeansQuiet`; with the refinement it is the reason `runDesign()` may
  delete the flows.
* `MatlabPoolProofs`: types, exclusive use, bound and uniqueness of free engines, cleanliness
  and single deletion, for all constants with `ShutdownIdle`. The four state properties are proved
  together with `HoldsWhileUsing` (a thread has an engine exactly from acquisition to the end
  of release), without which `releaseEngine` could append "no engine" to the free list.
* `WorkbenchProofs`: `DeskRunsEngine`, every step of the workbench is a step of `EngineControl` or
  leaves its variables alone, so that everything proved of the run control holds in the workbench.
  `NotAnnouncedTwice`, each kind of mail is sent at most once per click of Run, for every user: the
  invariant is `MailsSpent`, as long as a wanted signal is connected, no mail of its kind has been
  sent since the last click. `WorkflowAnnouncedOnce` is all of `AnnouncedOnce`, under `Orderly`:
  one mail for a pause or an end, none for an end by Stop. `NoticeInv` adds that the notifier is
  connected from the click of Run until the mail it is wanted for has been sent or Stop is clicked,
  `StoppedInv` what a click of Stop leaves behind, and `ControlInv` that a quiet engine has gone
  through one of the two ends.
  `NodesShownExist` is `ShownNodesExist` for a careful user and needs neither `Prompt` nor `Drained`:
  `NodesInv` says that the lists hold no freed node, and are empty once something was edited.
* `ArchiveProofs`: `ArchiveIsExact`, `NothingLost` and `VectorsAreExact` for any solutions, values
  and order of reports. `ArchiveInv` says where the walk is (`Places`), that archived solutions are
  pairwise incomparable (`Antichain`), that everything reported is covered by an archived solution
  or by the one at hand (`Covered`), that the entries behind the index are incomparable with the new
  one (`Passed`), and that after a removal there is a reported solution worse than the new one that
  no archived solution is better than (`Removed`); with the transitivity of dominance that excludes
  an early return after a removal. `VectorInv` adds the bounds of everything seen (`SeenBounds`) and
  that the nadir is exact when the archive is the old one (`NadirKept`).
* `ParallelEvaluationProofs`: types, `SerialExclusive` and `NothingRunsOn` for any number of
  solutions and functions and any functions that throw or lack a mapping. The argument: a thread
  inside a function that is not parallelizable has the mutex (`HolderInside`); a thread ends only
  when its tasks have (`TasksBehind`, which needs that a collecting thread has joined every task
  behind its index); the evaluator leaves only when the threads have ended (`ResultsSeen`).
  `AtFunction` keeps the loop indices in range and makes the types inductive.
  `EvaluationKeepsFinished` proves the action property `FinishedOutputsStay` with `FreshInv`: the
  function a thread is at, and every function whose task is not collected yet, is not marked, which
  needs that tasks exist only behind the index of the launching loop. `EvaluationComputesMarked`:
  what is marked has been computed, if no parallelizable function throws; `OutputsInv` follows the
  tasks, whose end without an exception is the only thing the collecting loop may rely on.
  `EvaluationAgreesWithSerial`: outputs, connected inputs, marks, vectors and budget of an evaluation
  that finishes are those of the serial one, for any set, interleaving and number of functions, under
  `WellBehaved`: nothing parallelizable throws, every function has a mapping, maximised outputs are
  parallelizable, no parallelizable function feeds another one, and no solution holds a scalarised
  cost. Each of the five excludes one observation of section 5. The fourth is what the order of the
  threads could otherwise show in: `FedInv` says that an output is in its final form when it is read
  and that it stays so, because a function that feeds others is evaluated by the thread that later
  reads it.
  `SerialInv` says of each solution that its thread is faithful so far (`Faithful`: its marks, its
  outputs in their final form and its count, by `Cardinality`) and of the evaluator that it has
  added up exactly the solutions before its index and entered all of them into the vectors
  (`CostInv`).

* `OperatorFlowProofs`: for every chain of operators, every set of tags and any population. The loops
  over sets and tags are handled by one induction (`Upto`, on a set of natural numbers, from the
  library's theorem that they are well-founded), which first shows that a loop's recursive function
  exists (`Rounds`) and then what its rounds preserve. `Sound`, the registry invariant, is kept by
  `removeSet`, `appendSet` and `tagSet`, hence by the loops. `RegistryAlwaysAgrees` (`TagsAgree`) and
  `FlowLeavesNothing` (`NothingLeft`) need no assumption on the wiring. The second rests on `Owned`:
  every set belongs to a creator that still stands and will find it, by tag or because it knows it.
  `InputsAlwaysOutliveClear`, under `KeepsApart`: a set carries the output tags of one of the
  creators and beyond them only additional ones (`Labelled`), and what an operator looked up is exact
  while it works (`Looked`). `RankingSeesEvaluated`, under `RanksEvaluated`: the evaluator leaves what
  it found evaluated to the next operator (`Evaluated`), and what the ranking looks for was made by
  some operator before it and still stands (`Supply`); an evaluation that throws starts the generation
  anew. `ParentsAlwaysSelected`, under `BreedsSelected`: what the breeder looks up is the list that
  the selection just before it made, element by element, because new sets are appended to the lists
  of their tags in the order of their creation and nothing else carries the tags (`Chosen`).
  `SelectedAlwaysUntouched`, under `KeepsApart` and `VariesBred`: a selection's sets are its own and
  stand until it clears them itself (`OwnOuts`); what was bred shares no solution with them until
  the flow goes on to something else than variation (`Cloned`: the clones are identities that no
  remaining set holds, `BreedsFresh`), and variation finds bred sets only.
  The last three are about what the sets hold and need a `Generation` in the chain. `TypesAlwaysOK`
  (`TypeOK`) rests on `Typed` and `Sized`: the sets an operator reads are there when its turn comes,
  since they were made earlier in the chain and nobody has cleared them, and the merge writes into
  the places of the population, whose number never changes, so no draw goes past its end.
  `ElitesAlwaysSurvive` rests on `KinInv`: there is one population (`OneMain`) and one selected set
  (`Single`); the merge finds the latter first under its tag, since the bred sets are appended to the
  tag's list after it in every generation, also in one that began again after a failure (`Ordered`);
  so what the merge cuts off is bred, and from the merge to the next selection nothing touches
  either set (`Survive`). `PopulationAlwaysKept`, under `Refills` too, rests on `FullInv`: the
  population repeats no solution (`Distinct`); the ranks divide it among them (`Parted`); elitism
  selects half of it, the reduction all but one, and neither selects a solution twice, while a pool
  may (`Picked`); what is bred is new, in sets that share nothing, and enough to fill the population
  together with what was selected (`Cohort`). So the merge finds a different solution for every
  place: with fewer it would leave old solutions where they are, next to their selected selves.
  While the flow is deleted populations only disappear (`Kept`). None of these parts is inductive
  alone: the merged population repeats nothing because the selection does not, the selection because
  the ranks share nothing, and these because the population that was ranked repeated nothing.
  The lemmas they rest on say what the operators on lists do for all lists: concatenation of the
  looked-up sets (`FlattenIs`), the members of ranks, elites and chunks (`RanksIs`, `ElitesIs`,
  `ChunksCover`), and the order and the number of a union's solutions (`UnionIs`, `ListedFirst`).

* `RankingProofs`: for any number of solutions and objectives, any goals, priorities, violations,
  elite ratio and permutations. `Upto`, the same induction as above, is used on the priorities, the
  ranks, the sorted solutions and the rounds; `Recursion` and `WholeUnfolds` show with it that the
  two recursive functions exist. `RelationAlwaysLexicographic` unfolds `preferability()` level by
  level (`PreferredDescends`); `BetterChains`, its transitivity, is what everything else needs.
  `RanksAreAlwaysLayers` rests on `RankInv`: while the solutions are compared, a count says by how
  many of those met so far a solution is dominated (`Counted`); while they are peeled, a solution in
  a rank is marked with it and another counts who dominates it and has no rank, one of the last rank
  among them (`Marked`); the ranks so far are layers (`Layered`). `PeelingNeverStalls` is the safety
  half of `RankingEnds`: the solution dominated by fewest of those that are left is dominated by
  none. `PreferredIsAlwaysCheaper` rests on `CostInv`: the shares of all objectives together are
  never more than one rank (`ShareRange`, `Gathered`), so costs of different ranks do not overlap;
  with MOGA's counts it is transitivity that orders the costs. `ElitesAlwaysBest` rests on `Closed`:
  with an elite, all that are better are elites, since the ranks that fit are the first ones
  (`FittingRanks`). `BestAlwaysBreeds` rests on `ElitesInv`: a round meets every elite once, and the
  first round is always played to its end.

Only model-checked: liveness and the fairness part of the refinement, which are out of the provers'
reach (`GuiResponsive`, `RunEnds`, `EvaluationReturns`, `RankingEnds`, and `ImplementsLifecycle` as
far as it says that a run ends). Every invariant and every other action property that a run checks
is a theorem, under the assumptions named with it. Conversely, not every invariant has a run of its own: types of
`EngineControl`, `MatlabPool`, `ParallelEvaluation` and `Archive` are proved; `FinishedByOwner` and
`QuietConsistent` are checked for one workflow with undelivered events, which includes the histories
without.

## 5. What the models say about the code

Disagreements between the code and what it says of itself are listed as findings in `PROJECT.json`,
each with the run that exhibits it: Stop pressed before the pool thread has assigned `RUNNING`; a
failed workflow executed again after pause and resume; `ms_mutex` left locked by a function that
throws; maximised outputs not negated by the branch of `parallelEvaluate()` under the mutex.
Observed while fixing the constants and bounds of the passing runs, without a run of its own:

* `emptyPool()` deletes the engines of the locked pool too, of which its comment says that it is
  left untouched. `DeletedOnce` fails without `ShutdownIdle`.
* `parallelEvaluate()` waits for the futures of parallelizable functions and never calls `get()`:
  a function that threw is marked evaluated and counted. `MarkedIsComputed` fails as soon as
  `MayThrow` contains a parallelizable function.
* A parameter connected to an output of a parallelizable function is read when the later function is
  launched, while the task of the first may still run or, with a maximised output, before the
  collecting loop negates it: the later function computes from an old, half-written or wrongly signed
  value. The code knows (`IMapping.cpp:1032`: "add interwoven sysetem handling for parallel
  evaluate"). `AgreesWithSerial` fails in `ParallelEval.cfg` with `Parallel = {1, 2}`.
* `evaluate()` resets `m_isScalarised` with every new output (`IMapping.cpp:1020`),
  `parallelEvaluate()` never does. A solution evaluated again in parallel keeps it, also through
  `clone()` (1216), and `Scalarization.cpp:78` and `GeneralizedDecomposition.cpp:88` then keep the
  cost of the old outputs. `AgreesWithSerial` fails with any unevaluated solution in `Scalarised`.
* `applyEvaluationUncertainty()` samples output distributions in the collecting loop outside the mutex
  (`IMapping.cpp:1102`), although 884-888 say that sampling is not thread-safe and the other calls of
  `parallelEvaluate()` hold it. Perturbed outputs are not modelled.
* A solution without a mapping (result -1) still enters the ideal and nadir vectors in a parallel
  evaluation, and an exception leaves `evaluateNode()` before any of the budget is counted.
* Ordered tournaments wrap their index at the number of wanted solutions
  (`TournamentFiltrationForDirection.cpp:178`) instead of at the size of the input.
* Without `Drained`, `NoCrash`, `RunOfferedWhenQuiet` and `GuiResponsive` fail when two workflows
  use different channels: `setFuture()` detaches a watcher only if the new workflow uses that
  channel, so the `finished()` event of the other one arrives during the new run and unloads it.
* Without `Drained`, `PauseNotEarly` fails even for one workflow: a counter of a stopped run is
  handled after the next start and is compared with the new pause points.
* With a budget limit only and a budget pause point, a run that failed and was resumed spins.
* A MATLAB session stays in the locked pool when `evaluate()` throws; `MatlabPool.h:46` makes its
  user responsible for the release. `resetEngine()` clears variables only, so the working directory
  set by one function is there for the next (`MatlabEngineX.cpp:72`).
* `removeAllNodes()` removes every other node. With `Careful = FALSE`, `ShownNodesExist` fails in
  five steps: a start is refused, the user deletes a node, and Stop (or the next Run) updates the
  freed node. Deleting a node while a workflow executes or is paused fails likewise, as `del()`
  tells the engine nothing; the pool thread reads the end node the same way.
* A click of Stop never sends the "finished" mail, as the notifier disconnects itself before `exit()`
  emits `engineFinished`; it rests on the order in which two plug-ins connect their slots, which no
  code states (the mutant `StayConnected` has the other order). A workflow ended by the cross of its
  task in the progress bar is announced. A `finished()` event that is still posted when a
  workflow is stopped, handled after the next click of Run was refused, sends a mail for a workflow
  that never began: the notifier was connected before the load was refused. The text of a mail is
  read when the pool thread sends it (`m_text`), and may by then be that of a later event. Settings
  saved in an earlier session are not enough for a mail: `m_isConfiged` is set only by the dialog.
* An unevaluated solution, which only the parallel branch reports, is incomparable with all others:
  it stays in the archive and enters the vectors.
* Epsilon dominance in the walk has no caller, and would break it: with a tolerance, dominance is not
  transitive and a rejected solution may have removed others (the mutant of `NoLostRemoval`).
  `MOEADNeighbourhoodUpdate.cpp:155` changes objectives of archived objects in place, but
  MOEA/D keeps no archive.
* With strong dominance the relation prefers less than the lexicographic order, but it is transitive
  all the same (`BetterChains`), so ranking ends. A priority
  below one, which the dialog does not offer, would make `preferability()` recurse on no objectives.
* The crowding of solutions with the same objectives can be as dear as a whole rank: a tie in a
  tournament can then pick a dominated solution (`PreferredIsCheaper` is not strict for this reason).

## 6. Not modelled, and the plan

Next modules, in order: `ProgressTasks` (life time of `FutureProgress` against `pause()` and
`exit()`), and the wiring of ParEGO and MOEA/D for `OperatorFlow`.
Theorems are left to state only with new modules; liveness stays with the runs.

Hazards seen and left out of the list in `PROJECT.json`, because nothing that is modelled meets
them: indices accepted one past the end (`IPSet.cpp:245`), clones of registries whose tag lists
point to the original's sets (`IPSetPrivate.cpp:76`), `appendSet()` of a registered set
(`IPSet.cpp:223`), pointers of closed task widgets (`iengine.cpp:357`), timers that are not deleted
(`iengine.cpp:294`), connections of sink nodes made once per load and foreign exceptions
(`qtigonengine.cpp:123`, `228`), a budget rate divided by zero (`qtigonengine.cpp:251`), the log
read after an error (`qtigonengine.cpp:343`), a flow kept after an unreadable file
(`TigonEngine.cpp:118`), upper bounds only (`TigonEngine.cpp:163`). The GUI thread reads the sets of
the running flow without a lock (`qviznode.cpp:496`), and its const
queries insert absent tags: any model of it finds the race in one step.

Left out: plug-in loading, editors and settings (derived from Qt Creator), drawing and visualisation
(no state that several actors change), numerical algorithms (floating point), the SMTP client
(network I/O), file formats, third-party libraries. More than nine tenths of the repository's lines
are these.
