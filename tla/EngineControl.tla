---------------------------- MODULE EngineControl ----------------------------
(***************************************************************************)
(* Run control of the designer: IEngine (designer/iengine/iengine.cpp) as  *)
(* specialised by QTigonEngine (qtigon/engine/qtigonengine.cpp), driven by *)
(* the Run/Pause/Stop actions of LDesignerWidget.                          *)
(*                                                                         *)
(* Two kinds of threads share the engine object without a lock:            *)
(*   - the GUI thread, whose event loop handles user actions and the       *)
(*     events posted to it, and which BLOCKS in pause() and exit() until   *)
(*     the worker has reported every progress channel finished;            *)
(*   - one pool thread per QtConcurrent::run(run), i.e. per start/resume.  *)
(* A progress channel is a QFutureInterface with the QFutureWatcher whose  *)
(* canceled() and finished() signals come back to the GUI thread as posted *)
(* events.                                                                 *)
(***************************************************************************)
EXTENDS Integers, Sequences

CONSTANTS
    Designs,     \* the workflows a user may run: what the master end node says
    MaxRuns,     \* bound: calls of QtConcurrent::run in one session
    Prompt,      \* TRUE: the user acts only while no worker is between states
    Drained      \* TRUE: ... and only when the posted events have been handled

Channel == {"iteration", "budget", "time"}
Counted == {"iteration", "budget"}
Worker  == 1 .. MaxRuns

(* What start() reads off the master end node and the engine. *)
Design == [uses         : SUBSET Channel,
           maxIteration : Nat,
           budget       : Nat,
           pauseBy      : SUBSET Counted,
           points       : [Counted -> Seq(Nat)]]

ASSUME DesignsAssumption == Designs \subseteq Design /\ Designs # {}
ASSUME MaxRunsAssumption == MaxRuns \in Nat
ASSUME UserAssumption == Prompt \in BOOLEAN /\ Drained \in BOOLEAN

VARIABLES
    status,      \* m_engineStatus
    live,        \* live[c]: the progress interface pointer of c is not null
    fut,         \* fut[c]: the future the watcher of c watches
    queue,       \* events posted to the GUI thread, oldest first
    gui,         \* where the GUI thread is: in its event loop or in a slot
    runOffered,  \* Run is enabled and Pause is not (else the reverse)
    nodeState,   \* process state last shown on the nodes
    timer,       \* m_timer is active
    loaded,      \* m_masterEndNode and the node lists are set
    design,      \* the design of the loaded nodes
    pausePts,    \* m_pauseByIter, m_pauseByBudget
    hasFlow,     \* m_engine has a current flow
    flow,        \* the counters of the current flow
    dangling,    \* workers whose local flow pointer was deleted by clearFlow
    pc,          \* pc[w]: where pool thread w is in run()/engine_loop()
    result       \* m_result: the last run handed to the pool (0: none)

guiVars  == <<gui, runOffered, nodeState, timer>>
flowVars == <<hasFlow, flow>>
vars == <<status, live, fut, queue, gui, runOffered, nodeState, timer, loaded,
          design, pausePts, hasFlow, flow, dangling, pc, result>>
-----------------------------------------------------------------------------
Status    == {"IDLE", "RUNNING", "PAUSED"}
Future    == [finished : BOOLEAN, paused : BOOLEAN, canceled : BOOLEAN]
Event     == [kind : {"count", "canceled", "finished", "removed"},
              ch : Channel, n : Nat]
GuiPc     == {"idle", "load", "start", "pause", "exit", "wait", "join"}
\* A channel name as program counter: about to report that channel finished.
WorkerPc  == {"none", "queued", "claim", "fetch", "loop", "eval", "crashed",
              "done"} \cup Channel
NodeState == {"NODE_UNDEFINED", "NODE_RUNNING", "NODE_IN_QUEUE", "NODE_DONE"}

TypeOK ==
    /\ status     \in Status
    /\ live       \in [Channel -> BOOLEAN]
    /\ fut        \in [Channel -> Future]
    /\ queue      \in Seq(Event)
    /\ gui        \in GuiPc
    /\ runOffered \in BOOLEAN
    /\ nodeState  \in NodeState
    /\ timer      \in BOOLEAN
    /\ loaded     \in BOOLEAN
    /\ design     \in Design
    /\ pausePts   \in [Counted -> Seq(Nat)]
    /\ hasFlow    \in BOOLEAN
    /\ flow       \in [iter : Nat, spent : Nat, failed : BOOLEAN]
    /\ dangling   \subseteq Worker
    /\ pc         \in [Worker -> WorkerPc]
    /\ result     \in 0 .. MaxRuns

NewFuture == [finished |-> FALSE, paused |-> FALSE, canceled |-> FALSE]
NewFlow   == [iter |-> 0, spent |-> 0, failed |-> FALSE]

Init ==
    /\ status = "IDLE"
    /\ live = [c \in Channel |-> FALSE]
    /\ fut = [c \in Channel |-> NewFuture]
    /\ queue = <<>>
    /\ gui = "idle"
    /\ runOffered = TRUE
    /\ nodeState = "NODE_UNDEFINED"
    /\ timer = FALSE
    /\ loaded = FALSE
    /\ design \in Designs
    /\ pausePts = [c \in Counted |-> <<>>]
    /\ hasFlow = FALSE
    /\ flow = NewFlow
    /\ dangling = {}
    /\ pc = [w \in Worker |-> "none"]
    /\ result = 0
-----------------------------------------------------------------------------
(* Every slot visits the channels in the order iteration, budget, time.    *)
Rank == [iteration |-> 1, budget |-> 2, time |-> 3]
First(S) == CHOOSE c \in S : \A d \in S : Rank[c] <= Rank[d]
Following == [iteration |-> "budget", budget |-> "time", time |-> "done"]

Post(q, k, c, n) == Append(q, [kind |-> k, ch |-> c, n |-> n])

\* bug: the watcher is not detached from its previous future
DiscardNothing(q, S) == q

(* setFuture(): the watchers of S leave their futures, so the events these *)
(* posted are taken out of the queue; the slot stays, as in Qt.            *)
Discard(q, S) ==
    [i \in DOMAIN q |-> IF q[i].kind \in {"canceled", "finished"} /\ q[i].ch \in S
                        THEN [q[i] EXCEPT !.kind = "removed"] ELSE q[i]]

\* IPSet::isTerminate
IsTerminate ==
    \/ design.budget = 0 /\ design.maxIteration = 0
    \/ design.budget > 0 /\ flow.spent >= design.budget
    \/ design.maxIteration > 0 /\ flow.iter >= design.maxIteration

InLoop(w)  == pc[w] \in {"loop", "eval"}
Active(w)  == pc[w] \in {"queued", "claim", "fetch", "loop", "eval"}
Crashed    == \E w \in Worker : pc[w] = "crashed"
Settled(w) == pc[w] \in {"none", "loop", "eval", "done"}

(* A user action is handled between two posted events. With Prompt a user  *)
(* never hits the few instructions in which a worker enters or leaves run(). *)
UserActs == /\ gui = "idle"
            /\ Prompt => \A w \in Worker : Settled(w)
            /\ Drained => queue = <<>>
-----------------------------------------------------------------------------
\* bug: start() and resume() keep using the futures of the previous run
LaunchSameFutures(S) ==
    /\ live' = [c \in Channel |-> live[c] \/ c \in S]
    /\ UNCHANGED fut
    /\ queue' = Discard(queue, S)
    /\ timer' = (timer \/ "time" \in S)
    /\ result' = result + 1
    /\ pc' = [pc EXCEPT ![result + 1] = "queued"]
    /\ nodeState' = IF loaded THEN "NODE_RUNNING" ELSE nodeState
    /\ runOffered' = FALSE

(* Each used channel gets a new future, and run() is handed to the pool.   *)
Launch(S) ==
    /\ live' = [c \in Channel |-> live[c] \/ c \in S]
    /\ fut' = [c \in Channel |-> IF c \in S THEN NewFuture ELSE fut[c]]
    /\ queue' = Discard(queue, S)
    /\ timer' = (timer \/ "time" \in S)
    /\ result' = result + 1
    /\ pc' = [pc EXCEPT ![result + 1] = "queued"]
    /\ nodeState' = IF loaded THEN "NODE_RUNNING" ELSE nodeState
    /\ runOffered' = FALSE

\* bug: resuming reloads the flow, as runDesign() does for a new run
ResumeReloads ==
    /\ status = "PAUSED"
    /\ Launch({c \in Channel : live[c]})
    /\ flow' = NewFlow
    /\ UNCHANGED <<status, gui, loaded, design, pausePts, hasFlow, dangling>>

\* IEngine::resume, from LDesignerWidget::runDesign
Resume ==
    /\ status = "PAUSED"
    /\ Launch({c \in Channel : live[c]})
    /\ UNCHANGED <<status, gui, loaded, design, pausePts, flowVars, dangling>>

\* LDesignerWidget::runDesign; result < MaxRuns is the bound of the model
UserRun ==
    /\ UserActs /\ runOffered /\ result < MaxRuns
    /\ \/ Resume
       \/ /\ status = "IDLE"
          /\ gui' = "load"
          /\ UNCHANGED <<status, live, fut, queue, runOffered, nodeState, timer,
                         loaded, design, pausePts, flowVars, dangling, pc, result>>

(* removeAllNodes() deletes the flows; loadDesign() reads nodes and flow,  *)
(* and fails at a second master node or at an unreadable file.             *)
GuiLoad ==
    /\ gui = "load"
    /\ dangling' = dangling \cup {w \in Worker : InLoop(w)}
    /\ flow' = NewFlow
    /\ loaded' \in BOOLEAN
    /\ design' \in Designs
    /\ \/ gui' = "start" /\ hasFlow' = TRUE
       \/ gui' = "idle" /\ hasFlow' \in BOOLEAN
    /\ UNCHANGED <<status, live, fut, queue, runOffered, nodeState, timer,
                   pausePts, pc, result>>

\* IEngine::start
GuiStart ==
    /\ gui = "start"
    /\ gui' = "idle"
    /\ IF status = "IDLE" /\ loaded /\ design.uses \cap Counted # {}
       THEN /\ Launch(design.uses)
            /\ pausePts' = [c \in Counted |-> IF c \in design.pauseBy
                                              THEN design.points[c] ELSE pausePts[c]]
       ELSE UNCHANGED <<live, fut, queue, timer, result, pc, nodeState,
                        runOffered, pausePts>>
    /\ UNCHANGED <<status, loaded, design, flowVars, dangling>>
-----------------------------------------------------------------------------
\* IEngine::pause up to its first wait
BeginPause == status = "RUNNING" /\ status' = "PAUSED" /\ gui' = "pause"

UserPause ==
    /\ UserActs /\ ~runOffered
    /\ BeginPause
    /\ UNCHANGED <<live, fut, queue, runOffered, nodeState, timer, loaded, design,
                   pausePts, flowVars, dangling, pc, result>>

\* bug: pause() marks the channels paused without waitForFinished()
GuiPauseNoWait ==
    /\ gui = "pause"
    /\ gui' = "idle"
    /\ fut' = [c \in Channel |-> [fut[c] EXCEPT !.paused = @ \/ live[c]]]
    /\ timer' = (timer /\ ~live["time"])
    /\ nodeState' = IF loaded THEN "NODE_IN_QUEUE" ELSE nodeState
    /\ runOffered' = TRUE
    /\ UNCHANGED <<status, live, queue, loaded, design, pausePts, flowVars,
                   dangling, pc, result>>

(* The rest of pause(): wait for each channel in turn, then show the state. *)
(* A future that is paused delivers nothing to its watcher any more.       *)
GuiPause ==
    /\ gui = "pause"
    /\ LET todo == {c \in Channel : live[c] /\ ~fut[c].paused} IN
       \/ /\ todo # {}
          /\ fut[First(todo)].finished
          /\ fut' = [fut EXCEPT ![First(todo)].paused = TRUE]
          /\ UNCHANGED guiVars
       \/ /\ todo = {}
          /\ gui' = "idle"
          /\ timer' = (timer /\ ~live["time"])
          /\ nodeState' = IF loaded THEN "NODE_IN_QUEUE" ELSE nodeState
          /\ runOffered' = TRUE
          /\ UNCHANGED fut
    /\ UNCHANGED <<status, live, queue, loaded, design, pausePts, flowVars,
                   dangling, pc, result>>
-----------------------------------------------------------------------------
\* IEngine::finished, with the slots connected to engineFinished
Finished ==
    /\ status' = "IDLE"
    /\ timer' = (timer /\ ~live["time"])
    /\ nodeState' = IF loaded THEN "NODE_DONE" ELSE nodeState
    /\ loaded' = FALSE
    /\ runOffered' = TRUE
    /\ gui' = "idle"

\* bug: exit() of a running engine does not wait for the worker
ExitNoWait ==
    \/ /\ status \in {"RUNNING", "IDLE"}
       /\ Finished
       /\ UNCHANGED live
    \/ /\ status = "PAUSED"
       /\ status' = "IDLE"
       /\ live' = [c \in Channel |-> FALSE]
       /\ timer' = (timer /\ ~live["time"])
       /\ gui' = "join"
       /\ UNCHANGED <<nodeState, loaded, runOffered>>

\* bug: exit() unloads the design before it waits for the worker
ExitUnloadsFirst ==
    \/ /\ status = "RUNNING"
       /\ status' = "IDLE"
       /\ gui' = "exit"
       /\ loaded' = FALSE
       /\ UNCHANGED <<live, timer, nodeState, runOffered>>
    \/ /\ status = "PAUSED"
       /\ status' = "IDLE"
       /\ live' = [c \in Channel |-> FALSE]
       /\ timer' = (timer /\ ~live["time"])
       /\ gui' = "join"
       /\ UNCHANGED <<nodeState, loaded, runOffered>>
    \/ /\ status = "IDLE"
       /\ Finished
       /\ UNCHANGED live

\* IEngine::exit up to its first wait, one disjunct per engine status
Exit ==
    \/ /\ status = "RUNNING"
       /\ status' = "IDLE"
       /\ gui' = "exit"
       /\ UNCHANGED <<live, timer, nodeState, loaded, runOffered>>
    \/ /\ status = "PAUSED"
       /\ status' = "IDLE"
       /\ live' = [c \in Channel |-> FALSE]
       /\ timer' = (timer /\ ~live["time"])
       /\ gui' = "join"
       /\ UNCHANGED <<nodeState, loaded, runOffered>>
    \/ /\ status = "IDLE"
       /\ Finished
       /\ UNCHANGED live

UserStop ==
    /\ UserActs
    /\ Exit
    /\ UNCHANGED <<fut, queue, design, pausePts, flowVars, dangling, pc, result>>

\* reportCanceled() of QFutureInterface, or cancel() of the future it shares
Cancel(c) ==
    /\ fut' = [fut EXCEPT ![c].canceled = TRUE, ![c].paused = FALSE]
    /\ queue' = IF fut[c].canceled THEN queue ELSE Post(queue, "canceled", c, 0)

(* The rest of exit() for a running engine: per channel report it canceled, *)
(* wait until the worker reports it finished, delete the interface.        *)
GuiExit ==
    /\ gui = "exit"
    /\ LET todo == {c \in Channel : live[c]} IN
       \/ todo # {} /\ Cancel(First(todo)) /\ gui' = "wait"
       \/ todo = {} /\ gui' = "join" /\ UNCHANGED <<fut, queue>>
    /\ UNCHANGED <<status, live, runOffered, nodeState, timer, loaded, design,
                   pausePts, flowVars, dangling, pc, result>>

GuiWait ==
    /\ gui = "wait"
    /\ LET c == First({d \in Channel : live[d]}) IN
       /\ fut[c].finished
       /\ live' = [live EXCEPT ![c] = FALSE]
       /\ timer' = (timer /\ c # "time")
    /\ gui' = "exit"
    /\ UNCHANGED <<status, fut, queue, runOffered, nodeState, loaded, design,
                   pausePts, flowVars, dangling, pc, result>>

\* m_result.waitForFinished(), then the tail of exit()
GuiJoin ==
    /\ gui = "join"
    /\ result > 0 => pc[result] = "done"
    /\ Finished
    /\ UNCHANGED <<live, fut, queue, design, pausePts, flowVars, dangling, pc,
                   result>>

\* FutureProgress::cancel, the cross on a task's progress bar
UserCancelTask(c) ==
    /\ UserActs
    /\ live[c] /\ ~fut[c].canceled /\ (fut[c].finished => fut[c].paused)
    /\ Cancel(c)
    /\ UNCHANGED <<status, live, guiVars, loaded, design, pausePts, flowVars,
                   dangling, pc, result>>
-----------------------------------------------------------------------------
(* The event loop hands the oldest posted event to its slot.               *)
DeliverNothing(e) ==
    /\ \/ e.kind = "removed"
       \/ e.kind \in {"canceled", "finished"} /\ fut[e.ch].paused
       \/ e.kind = "count" /\ ~live[e.ch]
    /\ UNCHANGED <<status, live, guiVars, loaded, pausePts>>

\* bug: pauses one count before the pause point
DeliverCountEarly(e) ==
    /\ e.kind = "count" /\ live[e.ch]
    /\ IF pausePts[e.ch] # <<>> /\ e.n + 1 >= Head(pausePts[e.ch])
       THEN /\ pausePts' = [pausePts EXCEPT ![e.ch] = Tail(@)]
            /\ IF status = "RUNNING" THEN BeginPause ELSE UNCHANGED <<status, gui>>
       ELSE UNCHANGED <<pausePts, status, gui>>
    /\ UNCHANGED <<live, runOffered, nodeState, timer, loaded>>

\* receivedIterationCount, receivedBudgetCount
DeliverCount(e) ==
    /\ e.kind = "count" /\ live[e.ch]
    /\ IF pausePts[e.ch] # <<>> /\ e.n >= Head(pausePts[e.ch])
       THEN /\ pausePts' = [pausePts EXCEPT ![e.ch] = Tail(@)]
            /\ IF status = "RUNNING" THEN BeginPause ELSE UNCHANGED <<status, gui>>
       ELSE UNCHANGED <<pausePts, status, gui>>
    /\ UNCHANGED <<live, runOffered, nodeState, timer, loaded>>

DeliverCanceled(e) ==
    /\ e.kind = "canceled" /\ ~fut[e.ch].paused
    /\ Exit
    /\ UNCHANGED pausePts

DeliverFinished(e) ==
    /\ e.kind = "finished" /\ ~fut[e.ch].paused
    /\ Finished
    /\ UNCHANGED <<live, pausePts>>

Deliver ==
    /\ gui = "idle" /\ queue # <<>>
    /\ queue' = Tail(queue)
    /\ \/ DeliverNothing(Head(queue))
       \/ DeliverCount(Head(queue))
       \/ DeliverCanceled(Head(queue))
       \/ DeliverFinished(Head(queue))
    /\ UNCHANGED <<fut, design, flowVars, dangling, pc, result>>
-----------------------------------------------------------------------------
Go(w, to) == pc' = [pc EXCEPT ![w] = to]

\* IEngine::run: the test of m_engineStatus, and the assignment that follows
Enter(w) ==
    /\ pc[w] = "queued"
    /\ Go(w, IF status = "RUNNING" THEN "iteration" ELSE "claim")
    /\ UNCHANGED <<status, live, fut, queue, guiVars, loaded, design, pausePts,
                   flowVars, dangling, result>>

Claim(w) ==
    /\ pc[w] = "claim"
    /\ status' = "RUNNING"
    /\ Go(w, "fetch")
    /\ UNCHANGED <<live, fut, queue, guiVars, loaded, design, pausePts, flowVars,
                   dangling, result>>

\* QTigonEngine::engine_loop: the prologue dereferences the current flow
Fetch(w) ==
    /\ pc[w] = "fetch"
    /\ Go(w, IF hasFlow THEN "loop" ELSE "crashed")
    /\ UNCHANGED <<status, live, fut, queue, guiVars, loaded, design, pausePts,
                   flowVars, dangling, result>>

(* The head of the while loop. An iteration count is kept only when it is  *)
(* limited: nobody reads it otherwise.                                     *)
Loop(w) ==
    /\ pc[w] = "loop"
    /\ \/ w \in dangling /\ Go(w, "crashed") /\ UNCHANGED <<flow, queue>>
       \/ /\ w \notin dangling /\ (IsTerminate \/ status # "RUNNING")
          /\ Go(w, "iteration")
          /\ UNCHANGED <<flow, queue>>
       \/ /\ w \notin dangling /\ ~IsTerminate /\ status = "RUNNING"
          /\ Go(w, "eval")
          /\ IF design.maxIteration > 0
             THEN /\ flow' = [flow EXCEPT !.iter = @ + 1]
                  /\ queue' = Post(queue, "count", "iteration", flow.iter + 1)
             ELSE UNCHANGED <<flow, queue>>
    /\ UNCHANGED <<status, live, fut, guiVars, loaded, design, pausePts, hasFlow,
                   dangling, result>>

\* bug: an exception leaves run() without reporting the channels finished
EvalNoReport(w) ==
    /\ pc[w] = "eval"
    /\ \/ /\ w \notin dangling /\ loaded
          /\ Go(w, "loop")
          /\ LET spent == IF flow.failed THEN flow.spent ELSE flow.spent + 1 IN
             IF design.budget > 0
             THEN /\ flow' = [flow EXCEPT !.spent = spent]
                  /\ queue' = Post(queue, "count", "budget", spent)
             ELSE UNCHANGED <<flow, queue>>
       \/ /\ w \notin dangling /\ loaded /\ ~flow.failed
          /\ Go(w, "done")
          /\ \E bad \in BOOLEAN : flow' = [flow EXCEPT !.failed = bad]
          /\ UNCHANGED queue
    /\ UNCHANGED <<status, live, fut, guiVars, loaded, design, pausePts, hasFlow,
                   dangling, result>>

(* The body: flow->evaluate() and the reads of m_masterEndNode around it.  *)
(* A TException leaves the flow in an error state in which evaluate() does *)
(* nothing; any other exception does not. Both end the loop.               *)
Eval(w) ==
    /\ pc[w] = "eval"
    /\ \/ /\ w \in dangling \/ ~loaded
          /\ Go(w, "crashed")
          /\ UNCHANGED <<flow, queue>>
       \/ /\ w \notin dangling /\ loaded
          /\ Go(w, "loop")
          /\ LET spent == IF flow.failed THEN flow.spent ELSE flow.spent + 1 IN
             IF design.budget > 0
             THEN /\ flow' = [flow EXCEPT !.spent = spent]
                  /\ queue' = Post(queue, "count", "budget", spent)
             ELSE UNCHANGED <<flow, queue>>
       \/ /\ w \notin dangling /\ loaded /\ ~flow.failed
          /\ Go(w, "iteration")
          /\ \E bad \in BOOLEAN : flow' = [flow EXCEPT !.failed = bad]
          /\ UNCHANGED queue
    /\ UNCHANGED <<status, live, fut, guiVars, loaded, design, pausePts, hasFlow,
                   dangling, result>>

\* bug: a worker that was paused or interrupted returns without reporting
ReportOnlyRunning(w) ==
    /\ pc[w] \in Channel
    /\ Go(w, IF status = "RUNNING" THEN Following[pc[w]] ELSE "done")
    /\ IF status = "RUNNING" /\ live[pc[w]] /\ ~fut[pc[w]].finished
       THEN /\ fut' = [fut EXCEPT ![pc[w]].finished = TRUE]
            /\ queue' = Post(queue, "finished", pc[w], 0)
       ELSE UNCHANGED <<fut, queue>>
    /\ UNCHANGED <<status, live, guiVars, loaded, design, pausePts, flowVars,
                   dangling, result>>

\* reportFinished() on each channel, after the loop and when run() is busy
Report(w) ==
    /\ pc[w] \in Channel
    /\ Go(w, Following[pc[w]])
    /\ IF live[pc[w]] /\ ~fut[pc[w]].finished
       THEN /\ fut' = [fut EXCEPT ![pc[w]].finished = TRUE]
            /\ queue' = Post(queue, "finished", pc[w], 0)
       ELSE UNCHANGED <<fut, queue>>
    /\ UNCHANGED <<status, live, guiVars, loaded, design, pausePts, flowVars,
                   dangling, result>>
-----------------------------------------------------------------------------
UserStep == \/ UserRun \/ UserPause \/ UserStop
            \/ \E c \in Channel : UserCancelTask(c)
GuiStep  == GuiLoad \/ GuiStart \/ GuiPause \/ GuiExit \/ GuiWait \/ GuiJoin
            \/ Deliver
RunStep(w) == Enter(w) \/ Claim(w) \/ Fetch(w) \/ Loop(w) \/ Eval(w) \/ Report(w)

(* A crash of one thread ends the process. *)
Next == /\ ~Crashed
        /\ UserStep \/ GuiStep \/ \E w \in Worker : RunStep(w)

(* The event loop keeps running, pool threads are scheduled and evaluate() *)
(* returns. Nothing is assumed of the user.                                *)
Fairness == WF_vars(GuiStep /\ ~Crashed)
            /\ \A w \in Worker : WF_vars(RunStep(w) /\ ~Crashed)

Spec == Init /\ [][Next]_vars /\ Fairness
-----------------------------------------------------------------------------
(* No pool thread dereferences a deleted flow or a null master end node.   *)
NoCrash == ~Crashed

(* The Run action is offered only when no workflow is executing or about   *)
(* to: starting over removeAllNodes()/clearFlow() is safe.                 *)
RunOfferedWhenQuiet ==
    gui = "idle" /\ runOffered => \A w \in Worker : ~Active(w)

(* A channel of the current run is reported finished by the worker of that *)
(* run, after it left the loop, and not by an earlier worker.              *)
FinishedByOwner ==
    \A c \in design.uses :
        result > 0 /\ live[c] /\ fut[c].finished => ~Active(result)

(* IEngine::exit terminates the execution process: when the slot is done,  *)
(* no thread executes the workflow or is about to.                         *)
StopTerminates ==
    [][GuiJoin \/ (UserStop /\ gui' = "idle") => \A w \in Worker : ~Active(w)']_vars

(* A pause by count happens only once the flow reached the pause point.    *)
PauseNotEarly ==
    [][\A c \in Counted :
         status = "RUNNING" /\ status' = "PAUSED" /\ pausePts'[c] # pausePts[c]
         => Head(pausePts[c]) <= (IF c = "iteration" THEN flow.iter ELSE flow.spent)]_vars

(* When nothing is left to happen without the user, the display, the timer *)
(* and the engine status tell the same story.                              *)
Quiet == gui = "idle" /\ queue = <<>> /\ \A w \in Worker : pc[w] \in {"none", "done"}
QuietConsistent ==
    Quiet => /\ runOffered /\ ~timer /\ status # "RUNNING"
             /\ status = "PAUSED" => loaded /\ nodeState = "NODE_IN_QUEUE"
             /\ status = "IDLE" => nodeState \in {"NODE_UNDEFINED", "NODE_DONE"}

(* errorHandling(): a flow that hit an error "needs to be terminated": no   *)
(* worker executes it again.                                               *)
FailedNotExecuted == \A w \in Worker : InLoop(w) => ~flow.failed

(* A slot that blocks the GUI thread always gets back to the event loop.   *)
GuiResponsive == gui # "idle" ~> gui = "idle"

(* A run ends: Run is offered again, without any action of the user.       *)
RunEnds == ~runOffered ~> runOffered

(* The threads, futures and events implement the run life cycle.           *)
Lifecycle == INSTANCE RunLifecycle WITH
                 offered  <- runOffered,
                 busy     <- \E w \in Worker : Active(w),
                 paused   <- runOffered /\ status = "PAUSED",
                 progress <- flow.iter + flow.spent
ImplementsLifecycle == Lifecycle!Spec
=============================================================================
