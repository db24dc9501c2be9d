-------------------------- MODULE EngineControlProofs --------------------------
(***************************************************************************)
(* Type correctness of the run control for every set of workflows and any  *)
(* number of runs, whatever the user does; and its safety for a user who   *)
(* acts while no worker is entering or leaving run(): no crash, Run        *)
(* offered only when nothing executes, channels finished by the run that   *)
(* owns them, Stop that stops, a consistent display, and the steps of the  *)
(* abstract run life cycle.                                                *)
(***************************************************************************)
EXTENDS EngineControl, TLAPS

(* A run is loaded only when there is a pool thread left to give it to.    *)
RoomToStart == gui \in {"load", "start"} => result < MaxRuns

TypeInv == TypeOK /\ RoomToStart

LEMMA FirstInSet ==
    ASSUME NEW S, S \subseteq Channel, S # {}
    PROVE  First(S) \in S
  <1> DEFINE least(c) == \A d \in S : Rank[c] <= Rank[d]
  <1>1. Rank["iteration"] = 1 /\ Rank["budget"] = 2 /\ Rank["time"] = 3
    BY DEF Rank
  <1>2. \E c \in S : least(c)
    <2>1. CASE "iteration" \in S
      BY <1>1, <2>1 DEF Channel
    <2>2. CASE "iteration" \notin S /\ "budget" \in S
      BY <1>1, <2>2 DEF Channel
    <2>3. CASE S = {"time"}
      BY <1>1, <2>3 DEF Channel
    <2>4. QED
      BY <2>1, <2>2, <2>3 DEF Channel
  <1>3. QED
    BY <1>2 DEF First

LEMMA PostTyped ==
    ASSUME NEW q \in Seq(Event), NEW c \in Channel, NEW n \in Nat,
           NEW k \in {"count", "canceled", "finished", "removed"}
    PROVE  Post(q, k, c, n) \in Seq(Event)
  <1>1. [kind |-> k, ch |-> c, n |-> n] \in Event
    BY DEF Event
  <1>2. QED
    BY <1>1 DEF Post

LEMMA DiscardTyped ==
    ASSUME NEW q \in Seq(Event), NEW S
    PROVE  Discard(q, S) \in Seq(Event)
  <1>1. Len(q) \in Nat /\ DOMAIN q = 1 .. Len(q)
    OBVIOUS
  <1>2. ASSUME NEW e \in Event
        PROVE  [e EXCEPT !.kind = "removed"] \in Event
    BY DEF Event
  <1>3. Discard(q, S) \in [1 .. Len(q) -> Event]
    BY <1>1, <1>2 DEF Discard
  <1>4. QED
    BY <1>1, <1>3

LEMMA LaunchTyped ==
    ASSUME TypeInv, NEW S \in SUBSET Channel, Launch(S), result < MaxRuns
    PROVE  /\ live' \in [Channel -> BOOLEAN]
           /\ fut' \in [Channel -> Future]
           /\ queue' \in Seq(Event)
           /\ timer' \in BOOLEAN
           /\ result' \in 0 .. MaxRuns
           /\ pc' \in [Worker -> WorkerPc]
           /\ nodeState' \in NodeState
           /\ runOffered' \in BOOLEAN
  <1> USE MaxRunsAssumption DEF TypeInv
  <1>1. NewFuture \in Future
    BY DEF NewFuture, Future
  <1>2. fut' \in [Channel -> Future]
    BY <1>1 DEF Launch, TypeOK
  <1>3. queue' \in Seq(Event)
    BY DiscardTyped DEF Launch, TypeOK
  <1>4. live' \in [Channel -> BOOLEAN]
    BY DEF Launch, TypeOK
  <1>5. timer' \in BOOLEAN
    BY DEF Launch, TypeOK
  <1>6. result' \in 0 .. MaxRuns
    BY DEF Launch, TypeOK
  <1>7. pc' \in [Worker -> WorkerPc]
    BY DEF Launch, TypeOK, Worker, WorkerPc
  <1>8. nodeState' \in NodeState /\ runOffered' \in BOOLEAN
    BY DEF Launch, TypeOK, NodeState
  <1>9. QED
    BY <1>2, <1>3, <1>4, <1>5, <1>6, <1>7, <1>8

LEMMA CancelTyped ==
    ASSUME TypeInv, NEW c \in Channel, Cancel(c)
    PROVE  fut' \in [Channel -> Future] /\ queue' \in Seq(Event)
  <1>1. fut' \in [Channel -> Future]
    BY DEF TypeInv, TypeOK, Cancel, Future
  <1>2. Post(queue, "canceled", c, 0) \in Seq(Event)
    BY PostTyped DEF TypeInv, TypeOK
  <1>3. QED
    BY <1>1, <1>2 DEF TypeInv, TypeOK, Cancel

LEMMA InitTypes == Init => TypeInv
  <1> SUFFICES ASSUME Init PROVE TypeInv
    OBVIOUS
  <1>1. queue \in Seq(Event) /\ pausePts \in [Counted -> Seq(Nat)]
    <2>1. <<>> \in Seq(Event) /\ <<>> \in Seq(Nat)
      OBVIOUS
    <2>2. QED
      BY <2>1 DEF Init
  <1>2. design \in Design
    BY DesignsAssumption DEF Init
  <1>3. /\ fut \in [Channel -> Future]
        /\ flow \in [iter : Nat, spent : Nat, failed : BOOLEAN]
    BY DEF Init, NewFuture, NewFlow, Future
  <1>4. live \in [Channel -> BOOLEAN] /\ runOffered \in BOOLEAN /\ timer \in BOOLEAN
        /\ loaded \in BOOLEAN /\ hasFlow \in BOOLEAN
    BY DEF Init
  <1>5. /\ status \in Status /\ gui \in GuiPc /\ nodeState \in NodeState
        /\ pc \in [Worker -> WorkerPc] /\ dangling \subseteq Worker
    BY DEF Init, Status, GuiPc, NodeState, WorkerPc
  <1>6. result \in 0 .. MaxRuns /\ RoomToStart
    BY MaxRunsAssumption DEF Init, RoomToStart
  <1>7. QED
    BY <1>1, <1>2, <1>3, <1>4, <1>5, <1>6 DEF TypeInv, TypeOK

(* Running: a workflow is loaded, started, resumed.                        *)
LEMMA RunTypes ==
    ASSUME TypeInv, UserRun \/ GuiLoad \/ GuiStart
    PROVE  TypeInv'
  <1>1. CASE UserRun /\ Resume
    <2>1. /\ Launch({c \in Channel : live[c]})
          /\ UNCHANGED <<status, gui, loaded, design, pausePts, hasFlow, flow, dangling>>
          /\ gui = "idle" /\ result < MaxRuns
      BY <1>1 DEF UserRun, UserActs, Resume, flowVars
    <2>2. {c \in Channel : live[c]} \in SUBSET Channel
      OBVIOUS
    <2>3. QED
      BY <2>1, <2>2, LaunchTyped DEF TypeInv, TypeOK, RoomToStart
  <1>2. CASE UserRun /\ gui' = "load" /\ ~Resume
    <2>1. /\ result < MaxRuns
          /\ UNCHANGED <<status, live, fut, queue, runOffered, nodeState, timer,
                         loaded, design, pausePts, hasFlow, flow, dangling, pc, result>>
      BY <1>2 DEF UserRun, flowVars
    <2>2. QED
      BY <1>2, <2>1 DEF TypeInv, TypeOK, RoomToStart, GuiPc
  <1>3. CASE GuiLoad
    <2>1. NewFlow \in [iter : Nat, spent : Nat, failed : BOOLEAN]
      BY DEF NewFlow
    <2>2. design' \in Design
      BY <1>3, DesignsAssumption DEF GuiLoad
    <2>3. gui' \in GuiPc /\ RoomToStart' /\ hasFlow' \in BOOLEAN
      BY <1>3 DEF GuiLoad, GuiPc, TypeInv, RoomToStart
    <2>4. QED
      BY <1>3, <2>1, <2>2, <2>3 DEF GuiLoad, TypeInv, TypeOK
  <1>4. CASE GuiStart
    <2>1. gui' = "idle" /\ UNCHANGED <<status, loaded, design, hasFlow, flow, dangling>>
      BY <1>4 DEF GuiStart, flowVars
    <2>2. result < MaxRuns
      BY <1>4 DEF GuiStart, TypeInv, RoomToStart
    <2>3. CASE /\ Launch(design.uses)
               /\ pausePts' = [c \in Counted |-> IF c \in design.pauseBy
                                          THEN design.points[c] ELSE pausePts[c]]
      <3>1. design.uses \in SUBSET Channel
            /\ design.points \in [Counted -> Seq(Nat)]
        BY DEF TypeInv, TypeOK, Design
      <3>2. pausePts' \in [Counted -> Seq(Nat)]
        BY <2>3, <3>1 DEF TypeInv, TypeOK
      <3>3. QED
        BY <2>1, <2>2, <2>3, <3>1, <3>2, LaunchTyped
        DEF TypeInv, TypeOK, RoomToStart, GuiPc
    <2>4. CASE UNCHANGED <<live, fut, queue, timer, result, pc, nodeState,
                           runOffered, pausePts>>
      BY <2>1, <2>4 DEF TypeInv, TypeOK, RoomToStart, GuiPc
    <2>5. QED
      BY <1>4, <2>3, <2>4 DEF GuiStart
  <1>5. QED
    BY <1>1, <1>2, <1>3, <1>4 DEF UserRun

(* Pausing.                                                                *)
LEMMA PauseTypes ==
    ASSUME TypeInv, UserPause \/ GuiPause
    PROVE  TypeInv'
  <1>1. CASE UserPause
    BY <1>1 DEF UserPause, BeginPause, TypeInv, TypeOK, RoomToStart, Status, GuiPc,
                flowVars
  <1>2. CASE GuiPause
    <2>1. /\ gui = "pause"
          /\ UNCHANGED <<status, live, queue, loaded, design, pausePts, hasFlow, flow,
                         dangling, pc, result>>
      BY <1>2 DEF GuiPause, flowVars
    <2>2. /\ fut' \in [Channel -> Future]
          /\ gui' \in {"pause", "idle"}
          /\ runOffered' \in BOOLEAN
          /\ timer' \in BOOLEAN
          /\ nodeState' \in NodeState
      <3> DEFINE todo == {c \in Channel : live[c] /\ ~fut[c].paused}
      <3>1. CASE /\ fut' = [fut EXCEPT ![First(todo)].paused = TRUE]
                 /\ UNCHANGED guiVars
        <4> HIDE DEF todo
        <4>1. fut' \in [Channel -> Future]
          BY <3>1 DEF TypeInv, TypeOK, Future
        <4>2. QED
          BY <2>1, <3>1, <4>1 DEF TypeInv, TypeOK, guiVars
      <3>2. CASE /\ gui' = "idle"
                 /\ timer' = (timer /\ ~live["time"])
                 /\ nodeState' = IF loaded THEN "NODE_IN_QUEUE" ELSE nodeState
                 /\ runOffered' = TRUE
                 /\ UNCHANGED fut
        <4>1. timer' \in BOOLEAN
          BY <3>2 DEF TypeInv, TypeOK
        <4>2. QED
          BY <3>2, <4>1 DEF TypeInv, TypeOK, NodeState
      <3>3. QED
        BY <1>2, <3>1, <3>2 DEF GuiPause
    <2>3. QED
      BY <2>1, <2>2 DEF TypeInv, TypeOK, RoomToStart, GuiPc
  <1>3. QED
    BY <1>1, <1>2

LEMMA FinishedTyped ==
    ASSUME TypeInv, Finished
    PROVE  /\ status' \in Status /\ timer' \in BOOLEAN /\ nodeState' \in NodeState
           /\ loaded' \in BOOLEAN /\ runOffered' \in BOOLEAN /\ gui' = "idle"
  <1>1. timer' \in BOOLEAN
    BY DEF Finished, TypeInv, TypeOK
  <1>2. QED
    BY <1>1 DEF Finished, TypeInv, TypeOK, Status, NodeState

LEMMA ExitTyped ==
    ASSUME TypeInv, Exit
    PROVE  /\ status' \in Status /\ timer' \in BOOLEAN /\ nodeState' \in NodeState
           /\ loaded' \in BOOLEAN /\ runOffered' \in BOOLEAN
           /\ gui' \in {"idle", "exit", "join"}
           /\ live' \in [Channel -> BOOLEAN]
  <1>1. CASE Finished /\ UNCHANGED live
    BY <1>1, FinishedTyped DEF TypeInv, TypeOK
  <1>2. CASE status = "RUNNING" /\ status' = "IDLE" /\ gui' = "exit"
             /\ UNCHANGED <<live, timer, nodeState, loaded, runOffered>>
    BY <1>2 DEF TypeInv, TypeOK, Status
  <1>3. CASE /\ status' = "IDLE"
             /\ live' = [c \in Channel |-> FALSE]
             /\ timer' = (timer /\ ~live["time"])
             /\ gui' = "join"
             /\ UNCHANGED <<nodeState, loaded, runOffered>>
    <2>1. timer' \in BOOLEAN /\ live' \in [Channel -> BOOLEAN]
      BY <1>3 DEF TypeInv, TypeOK
    <2>2. QED
      BY <1>3, <2>1 DEF TypeInv, TypeOK, Status
  <1>4. QED
    BY <1>1, <1>2, <1>3 DEF Exit

(* Stopping, and cancelling a task.                                        *)
LEMMA StopTypes ==
    ASSUME TypeInv,
           UserStop \/ GuiExit \/ GuiWait \/ GuiJoin
           \/ \E c \in Channel : UserCancelTask(c)
    PROVE  TypeInv'
  <1>1. CASE UserStop
    <2>1. UNCHANGED <<fut, queue, design, pausePts, hasFlow, flow, dangling, pc, result>>
      BY <1>1 DEF UserStop, flowVars
    <2>2. QED
      BY <1>1, <2>1, ExitTyped DEF UserStop, TypeInv, TypeOK, RoomToStart, GuiPc
  <1>2. CASE GuiExit
    <2> DEFINE todo == {c \in Channel : live[c]}
    <2>1. UNCHANGED <<status, live, runOffered, nodeState, timer, loaded, design,
                      pausePts, hasFlow, flow, dangling, pc, result>>
      BY <1>2 DEF GuiExit, flowVars
    <2>2. CASE todo # {} /\ Cancel(First(todo)) /\ gui' = "wait"
      <3>1. First(todo) \in Channel
        BY <2>2, FirstInSet
      <3>2. fut' \in [Channel -> Future] /\ queue' \in Seq(Event)
        <4> HIDE DEF todo
        <4>1. QED
          BY <2>2, <3>1, CancelTyped
      <3>3. QED
        BY <2>1, <2>2, <3>2 DEF TypeInv, TypeOK, RoomToStart, GuiPc
    <2>3. CASE gui' = "join" /\ UNCHANGED <<fut, queue>>
      BY <2>1, <2>3 DEF TypeInv, TypeOK, RoomToStart, GuiPc
    <2>4. QED
      BY <1>2, <2>2, <2>3 DEF GuiExit
  <1>3. CASE GuiWait
    <2>1. /\ UNCHANGED <<status, fut, queue, runOffered, nodeState, loaded, design,
                         pausePts, hasFlow, flow, dangling, pc, result>>
          /\ gui' = "exit"
      BY <1>3 DEF GuiWait, flowVars
    <2>2. PICK c : live' = [live EXCEPT ![c] = FALSE] /\ timer' = (timer /\ c # "time")
      BY <1>3 DEF GuiWait
    <2>3. live' \in [Channel -> BOOLEAN]
      BY <2>2 DEF TypeInv, TypeOK
    <2>4. timer' \in BOOLEAN
      BY <2>2 DEF TypeInv, TypeOK
    <2>5. QED
      BY <2>1, <2>3, <2>4 DEF TypeInv, TypeOK, RoomToStart, GuiPc
  <1>4. CASE GuiJoin
    <2>1. UNCHANGED <<live, fut, queue, design, pausePts, hasFlow, flow, dangling, pc,
                      result>>
      BY <1>4 DEF GuiJoin, flowVars
    <2>2. QED
      BY <1>4, <2>1, FinishedTyped DEF GuiJoin, TypeInv, TypeOK, RoomToStart, GuiPc
  <1>5. ASSUME NEW c \in Channel, UserCancelTask(c)
        PROVE  TypeInv'
    <2>1. UNCHANGED <<status, live, gui, runOffered, nodeState, timer, loaded, design,
                      pausePts, hasFlow, flow, dangling, pc, result>>
      BY <1>5 DEF UserCancelTask, guiVars, flowVars
    <2>2. QED
      BY <1>5, <2>1, CancelTyped DEF UserCancelTask, TypeInv, TypeOK, RoomToStart
  <1>6. QED
    BY <1>1, <1>2, <1>3, <1>4, <1>5

(* Delivery of a posted event.                                             *)
LEMMA DeliverTypes ==
    ASSUME TypeInv, Deliver
    PROVE  TypeInv'
  <1> DEFINE e == Head(queue)
  <1>1. e \in Event /\ Tail(queue) \in Seq(Event)
    BY DEF Deliver, TypeInv, TypeOK
  <1>2. /\ gui = "idle"
        /\ queue' = Tail(queue)
        /\ UNCHANGED <<fut, design, hasFlow, flow, dangling, pc, result>>
    BY DEF Deliver, flowVars
  <1> HIDE DEF e
  <1>3. CASE DeliverNothing(e)
    BY <1>1, <1>2, <1>3 DEF DeliverNothing, TypeInv, TypeOK, RoomToStart, guiVars
  <1>4. CASE DeliverCount(e)
    <2>1. UNCHANGED <<live, runOffered, nodeState, timer, loaded>>
      BY <1>4 DEF DeliverCount
    <2>2. status' \in Status /\ gui' \in {"idle", "pause"}
      BY <1>2, <1>4 DEF DeliverCount, BeginPause, TypeInv, TypeOK, Status
    <2>3. pausePts' \in [Counted -> Seq(Nat)]
      <3>1. CASE /\ pausePts[e.ch] # <<>>
                 /\ pausePts' = [pausePts EXCEPT ![e.ch] = Tail(@)]
        <4>1. ASSUME e.ch \in Counted PROVE Tail(pausePts[e.ch]) \in Seq(Nat)
          BY <3>1, <4>1 DEF TypeInv, TypeOK
        <4>2. QED
          BY <3>1, <4>1 DEF TypeInv, TypeOK
      <3>2. CASE UNCHANGED pausePts
        BY <3>2 DEF TypeInv, TypeOK
      <3>3. QED
        BY <1>4, <3>1, <3>2 DEF DeliverCount
    <2>4. QED
      BY <1>1, <1>2, <2>1, <2>2, <2>3 DEF TypeInv, TypeOK, RoomToStart, GuiPc
  <1>5. CASE DeliverCanceled(e)
    <2>1. Exit /\ UNCHANGED pausePts
      BY <1>5 DEF DeliverCanceled
    <2>2. QED
      BY <1>1, <1>2, <2>1, ExitTyped DEF TypeInv, TypeOK, RoomToStart, GuiPc
  <1>6. CASE DeliverFinished(e)
    <2>1. Finished /\ UNCHANGED <<live, pausePts>>
      BY <1>6 DEF DeliverFinished
    <2>2. QED
      BY <1>1, <1>2, <2>1, FinishedTyped DEF TypeInv, TypeOK, RoomToStart, GuiPc
  <1>7. QED
    BY <1>3, <1>4, <1>5, <1>6 DEF Deliver, e

(* The steps of a pool thread in run() and engine_loop().                  *)
LEMMA RunStepTypes ==
    ASSUME TypeInv, NEW w \in Worker, RunStep(w)
    PROVE  TypeInv'
  <1> DEFINE Untouched == UNCHANGED <<live, gui, runOffered, nodeState, timer, loaded,
                                      design, pausePts, hasFlow, dangling, result>>
  <1>1. ASSUME NEW to \in WorkerPc, Go(w, to)
        PROVE  pc' \in [Worker -> WorkerPc]
    BY <1>1 DEF Go, TypeInv, TypeOK
  <1>2. CASE Enter(w) \/ Claim(w) \/ Fetch(w)
    <2>1. Untouched /\ UNCHANGED <<fut, queue, flow>> /\ status' \in Status
      BY <1>2 DEF Enter, Claim, Fetch, guiVars, flowVars, TypeInv, TypeOK, Status
    <2>2. \E to \in {"iteration", "claim", "fetch", "loop", "crashed"} : Go(w, to)
      BY <1>2 DEF Enter, Claim, Fetch
    <2>3. pc' \in [Worker -> WorkerPc]
      BY <1>1, <2>2 DEF WorkerPc, Channel
    <2>4. QED
      BY <2>1, <2>3 DEF TypeInv, TypeOK, RoomToStart
  <1>3. CASE Loop(w)
    <2>1. Untouched /\ UNCHANGED <<fut, status>>
      BY <1>3 DEF Loop, guiVars
    <2>2. \E to \in {"crashed", "iteration", "eval"} : Go(w, to)
      BY <1>3 DEF Loop
    <2>3. pc' \in [Worker -> WorkerPc]
      BY <1>1, <2>2 DEF WorkerPc, Channel
    <2>4. flow' \in [iter : Nat, spent : Nat, failed : BOOLEAN] /\ queue' \in Seq(Event)
      <3>1. CASE UNCHANGED <<flow, queue>>
        BY <3>1 DEF TypeInv, TypeOK
      <3>2. CASE /\ flow' = [flow EXCEPT !.iter = @ + 1]
                 /\ queue' = Post(queue, "count", "iteration", flow.iter + 1)
        <4>1. flow.iter + 1 \in Nat /\ "iteration" \in Channel
          BY DEF TypeInv, TypeOK, Channel
        <4>2. queue' \in Seq(Event)
          BY <3>2, <4>1, PostTyped DEF TypeInv, TypeOK
        <4>3. flow' \in [iter : Nat, spent : Nat, failed : BOOLEAN]
          BY <3>2, <4>1 DEF TypeInv, TypeOK
        <4>4. QED
          BY <4>2, <4>3
      <3>3. QED
        BY <1>3, <3>1, <3>2 DEF Loop
    <2>5. QED
      BY <2>1, <2>3, <2>4 DEF TypeInv, TypeOK, RoomToStart
  <1>4. CASE Eval(w)
    <2>1. Untouched /\ UNCHANGED <<fut, status>>
      BY <1>4 DEF Eval, guiVars
    <2>2. \E to \in {"crashed", "iteration", "loop"} : Go(w, to)
      BY <1>4 DEF Eval
    <2>3. pc' \in [Worker -> WorkerPc]
      BY <1>1, <2>2 DEF WorkerPc, Channel
    <2>4. flow' \in [iter : Nat, spent : Nat, failed : BOOLEAN] /\ queue' \in Seq(Event)
      <3> DEFINE spent == IF flow.failed THEN flow.spent ELSE flow.spent + 1
      <3>1. CASE UNCHANGED <<flow, queue>>
        BY <3>1 DEF TypeInv, TypeOK
      <3>2. CASE /\ flow' = [flow EXCEPT !.spent = spent]
                 /\ queue' = Post(queue, "count", "budget", spent)
        <4>1. spent \in Nat /\ "budget" \in Channel
          BY DEF TypeInv, TypeOK, Channel
        <4>2. queue' \in Seq(Event)
          <5> HIDE DEF spent
          <5>1. QED
            BY <3>2, <4>1, PostTyped DEF TypeInv, TypeOK
        <4>3. flow' \in [iter : Nat, spent : Nat, failed : BOOLEAN]
          <5> HIDE DEF spent
          <5>1. QED
            BY <3>2, <4>1 DEF TypeInv, TypeOK
        <4>4. QED
          BY <4>2, <4>3
      <3>3. CASE /\ \E bad \in BOOLEAN : flow' = [flow EXCEPT !.failed = bad]
                 /\ UNCHANGED queue
        BY <3>3 DEF TypeInv, TypeOK
      <3>4. QED
        BY <1>4, <3>1, <3>2, <3>3 DEF Eval
    <2>5. QED
      BY <2>1, <2>3, <2>4 DEF TypeInv, TypeOK, RoomToStart
  <1>5. CASE Report(w)
    <2>1. Untouched /\ UNCHANGED <<status, flow>> /\ pc[w] \in Channel
      BY <1>5 DEF Report, guiVars, flowVars
    <2>2. Go(w, Following[pc[w]]) /\ Following[pc[w]] \in WorkerPc
      BY <1>5, <2>1 DEF Report, Following, Channel, WorkerPc
    <2>3. pc' \in [Worker -> WorkerPc]
      BY <1>1, <2>2
    <2>4. fut' \in [Channel -> Future] /\ queue' \in Seq(Event)
      <3>1. CASE UNCHANGED <<fut, queue>>
        BY <3>1 DEF TypeInv, TypeOK
      <3>2. CASE /\ fut' = [fut EXCEPT ![pc[w]].finished = TRUE]
                 /\ queue' = Post(queue, "finished", pc[w], 0)
        <4>1. queue' \in Seq(Event)
          BY <2>1, <3>2, PostTyped DEF TypeInv, TypeOK
        <4>2. fut' \in [Channel -> Future]
          BY <2>1, <3>2 DEF TypeInv, TypeOK, Future
        <4>3. QED
          BY <4>1, <4>2
      <3>3. QED
        BY <1>5, <3>1, <3>2 DEF Report
    <2>5. QED
      BY <2>1, <2>3, <2>4 DEF TypeInv, TypeOK, RoomToStart
  <1>6. QED
    BY <1>2, <1>3, <1>4, <1>5 DEF RunStep

LEMMA NextTypes == TypeInv /\ [Next]_vars => TypeInv'
  <1> SUFFICES ASSUME TypeInv, [Next]_vars
               PROVE  TypeInv'
    OBVIOUS
  <1>1. CASE UserStep
    BY <1>1, RunTypes, PauseTypes, StopTypes DEF UserStep
  <1>2. CASE GuiStep
    BY <1>2, RunTypes, PauseTypes, StopTypes, DeliverTypes DEF GuiStep
  <1>3. ASSUME NEW w \in Worker, RunStep(w)
        PROVE  TypeInv'
    BY <1>3, RunStepTypes
  <1>4. CASE UNCHANGED vars
    BY <1>4 DEF vars, guiVars, flowVars, TypeInv, TypeOK, RoomToStart
  <1>5. QED
    BY <1>1, <1>2, <1>3, <1>4 DEF Next

(* The state of the run control keeps its types whatever the user does and *)
(* however the threads interleave, and run() is never handed to the pool   *)
(* more often than the model has pool threads.                             *)
THEOREM EngineTypes == Spec => []TypeOK
  <1>1. TypeInv => TypeOK
    BY DEF TypeInv
  <1>2. QED
    BY <1>1, InitTypes, NextTypes, PTL DEF Spec
-----------------------------------------------------------------------------
(* What keeps a finished() event of an earlier run out of a later one:     *)
(* the events are handled before the next run, or every workflow uses the  *)
(* same channels, so that starting a run detaches all the watchers.        *)
SameChannels == \A d, e \in Designs : d.uses = e.uses
Orderly      == Prompt /\ (Drained \/ SameChannels)

(* The place of the pool thread that was started last.                     *)
Current   == IF result = 0 THEN "none" ELSE pc[result]
Entering  == Current \in {"queued", "claim"}
Looping   == Current \in {"fetch", "loop", "eval"}
Executing == Entering \/ Looping

(* The threads of earlier runs have ended.                                 *)
Threads ==
    /\ \A w \in Worker : w > result => pc[w] = "none"
    /\ \A w \in Worker : w < result => pc[w] = "done"
    /\ Current # "crashed" /\ (result > 0 => Current # "none")

(* The status, which both threads write, against where the threads are.    *)
Statuses ==
    /\ Entering => status # "RUNNING" /\ gui = "idle"
    /\ Looping /\ gui = "idle" => status = "RUNNING"
    /\ gui = "pause" => status = "PAUSED"
    /\ gui \in {"load", "start", "exit", "wait", "join"} => status = "IDLE"
    /\ gui \in {"load", "start"} => runOffered /\ Current \in {"none", "done"}
    /\ gui = "join" => ~Executing
    /\ gui \in {"exit", "wait"} => Current # "fetch"

(* A run that executes has not finished a channel.                         *)
Open == Executing =>
    \A c \in design.uses : live[c] /\ ~fut[c].finished /\ ~fut[c].paused

(* What the worker and a resumed run need is there.                        *)
Kept ==
    /\ dangling = {}
    /\ Executing \/ status # "IDLE" => loaded /\ hasFlow /\ design.uses # {}
    /\ status # "IDLE" => \A c \in design.uses : live[c]
    /\ gui = "start" => hasFlow
    /\ gui \in {"exit", "wait", "join"} => loaded

NoEvent(k) == \A i \in DOMAIN queue : queue[i].kind # k

(* No end of an earlier run is still to be delivered during a later one.   *)
Events ==
    /\ Executing => NoEvent("finished")
    /\ Executing /\ Current \notin {"loop", "eval"} => NoEvent("canceled")
    /\ Drained /\ gui \in {"load", "start"} => queue = <<>>
    /\ ~Drained => /\ \A c \in Channel : live[c] => c \in design.uses
                   /\ \A i \in DOMAIN queue :
                         queue[i].kind \in {"canceled", "finished"}
                         => queue[i].ch \in design.uses

(* What the user sees.                                                     *)
Display ==
    /\ timer => live["time"]
    /\ runOffered => ~Executing /\ ~timer /\ status # "RUNNING"
    /\ runOffered /\ status = "PAUSED" => nodeState = "NODE_IN_QUEUE"
    /\ runOffered /\ status = "IDLE" /\ gui \in {"idle", "load", "start"}
       => nodeState \in {"NODE_UNDEFINED", "NODE_DONE"}

(* The end of channel c is still to be shown: the worker will report it,   *)
(* or the event is posted.                                                 *)
EndComes(c) ==
    /\ ~fut[c].paused
    /\ \/ live[c] /\ ~fut[c].finished /\ Current \in Channel /\ Rank[Current] <= Rank[c]
       \/ \E i \in DOMAIN queue : queue[i].kind = "finished" /\ queue[i].ch = c

(* A run that has ended and is not shown as ended will be.                 *)
Pending == gui = "idle" /\ ~runOffered /\ ~Executing =>
              status = "RUNNING" /\ \E c \in Channel : EndComes(c)

Safe == /\ design \in Designs
        /\ Threads /\ Statuses /\ Open /\ Kept /\ Events /\ Display /\ Pending

ControlInv == TypeInv /\ Safe

Reached(f, c) == IF c = "iteration" THEN f.iter ELSE f.spent

(* A counter on its way to the GUI thread is one the flow has reached.     *)
CountsReached ==
    Drained => \A i \in DOMAIN queue :
                  queue[i].kind = "count" => /\ queue[i].ch \in Counted
                                             /\ queue[i].n <= Reached(flow, queue[i].ch)
-----------------------------------------------------------------------------
(* What taking an event and detaching the watchers do to the queue.        *)
LEMMA Taken ==
    ASSUME NEW q \in Seq(Event), q # <<>>
    PROVE  /\ \A i \in DOMAIN Tail(q) : i + 1 \in DOMAIN q /\ Tail(q)[i] = q[i + 1]
           /\ \A i \in DOMAIN q :
                 q[i] = Head(q) \/ \E j \in DOMAIN Tail(q) : Tail(q)[j] = q[i]
           /\ \E i \in DOMAIN q : q[i] = Head(q)
  <1>1. /\ Len(Tail(q)) = Len(q) - 1 /\ Len(q) \in Nat \ {0} /\ Head(q) = q[1]
        /\ DOMAIN q = 1 .. Len(q) /\ DOMAIN Tail(q) = 1 .. Len(Tail(q))
        /\ \A i \in 1 .. (Len(q) - 1) : Tail(q)[i] = q[i + 1]
    OBVIOUS
  <1>2. ASSUME NEW i \in DOMAIN q, i # 1
        PROVE  i - 1 \in DOMAIN Tail(q) /\ Tail(q)[i - 1] = q[i]
    BY <1>1, <1>2
  <1>3. ASSUME NEW i \in DOMAIN Tail(q)
        PROVE  i + 1 \in DOMAIN q /\ Tail(q)[i] = q[i + 1]
    BY <1>1, <1>3
  <1>4. \A i \in DOMAIN q : q[i] = Head(q) \/ \E j \in DOMAIN Tail(q) : Tail(q)[j] = q[i]
    <2>1. q[1] = Head(q)
      BY <1>1
    <2>2. QED
      BY <1>2, <2>1
  <1>5. 1 \in DOMAIN q
    BY <1>1
  <1>6. QED
    BY <1>1, <1>3, <1>4, <1>5

LEMMA Detached ==
    ASSUME NEW q \in Seq(Event), NEW S
    PROVE  /\ DOMAIN Discard(q, S) = DOMAIN q
           /\ \A i \in DOMAIN q :
                 LET e == Discard(q, S)[i] IN
                 /\ e.ch = q[i].ch /\ e.n = q[i].n
                 /\ e.kind = IF q[i].kind \in {"canceled", "finished"} /\ q[i].ch \in S
                             THEN "removed" ELSE q[i].kind
  <1>1. \A i \in DOMAIN q : q[i] \in Event
    OBVIOUS
  <1>2. QED
    BY <1>1 DEF Discard, Event

(* The threads.                                                            *)
LEMMA CurrentIs ==
    ASSUME TypeInv, Threads, NEW w \in Worker, pc[w] \notin {"none", "done"}
    PROVE  w = result /\ result > 0 /\ Current = pc[w]
  <1>1. w \in Nat /\ w > 0 /\ result \in Nat
    BY MaxRunsAssumption DEF Worker, TypeInv, TypeOK
  <1>2. ~(w > result) /\ ~(w < result)
    BY DEF Threads
  <1>3. QED
    BY <1>1, <1>2 DEF Current

LEMMA ActiveIsExecuting ==
    ASSUME TypeInv, Threads
    PROVE  Executing <=> \E w \in Worker : Active(w)
  <1>1. ASSUME NEW w \in Worker, Active(w)
        PROVE  Executing
    BY <1>1, CurrentIs DEF Active, Executing, Entering, Looping
  <1>2. ASSUME Executing
        PROVE  result \in Worker /\ Active(result)
    <2>1. result # 0
      BY <1>2 DEF Executing, Entering, Looping, Current
    <2>2. result \in Worker
      BY <2>1, MaxRunsAssumption DEF Worker, TypeInv, TypeOK
    <2>3. QED
      BY <1>2, <2>1, <2>2 DEF Executing, Entering, Looping, Current, Active
  <1>3. QED
    BY <1>1, <1>2

LEMMA ThreadsUntouched ==
    ASSUME Threads, UNCHANGED <<pc, result>>
    PROVE  Threads' /\ Current' = Current
  BY DEF Threads, Current

LEMMA ThreadMoves ==
    ASSUME TypeInv, Threads, NEW w \in Worker, pc[w] \notin {"none", "done"},
           NEW to, to \notin {"none", "crashed"}, Go(w, to), result' = result
    PROVE  Threads' /\ Current' = to /\ Current = pc[w]
  <1>1. w = result /\ result > 0 /\ Current = pc[w]
    BY CurrentIs
  <1>2. pc' = [pc EXCEPT ![result] = to] /\ pc \in [Worker -> WorkerPc] /\ result \in Worker
    BY <1>1 DEF Go, TypeInv, TypeOK
  <1>3. Current' = to
    BY <1>1, <1>2 DEF Current
  <1>4. QED
    BY <1>1, <1>2, <1>3 DEF Threads

LEMMA ThreadStarts ==
    ASSUME TypeInv, Threads, Current \in {"none", "done"}, result < MaxRuns,
           result' = result + 1, pc' = [pc EXCEPT ![result + 1] = "queued"]
    PROVE  Threads' /\ Current' = "queued"
  <1>1. result \in Nat /\ result + 1 \in Worker /\ pc \in [Worker -> WorkerPc]
    BY MaxRunsAssumption DEF Worker, TypeInv, TypeOK
  <1>2. Current' = "queued"
    BY <1>1 DEF Current
  <1>3. ASSUME NEW v \in Worker, v > result + 1
        PROVE  pc'[v] = "none"
    BY <1>1, <1>3 DEF Threads, Worker
  <1>4. ASSUME NEW v \in Worker, v < result + 1
        PROVE  pc'[v] = "done"
    <2>1. CASE v < result
      BY <1>1, <2>1 DEF Threads, Worker
    <2>2. CASE v = result
      BY <1>1, <2>2 DEF Threads, Current, Worker
    <2>3. QED
      BY <1>1, <1>4, <2>1, <2>2 DEF Worker
  <1>5. QED
    BY <1>1, <1>2, <1>3, <1>4 DEF Threads
-----------------------------------------------------------------------------
(* The steps of a pool thread up to the loop.                              *)
LEMMA EntrySafe ==
    ASSUME ControlInv, NEW w \in Worker, Enter(w) \/ Claim(w) \/ Fetch(w)
    PROVE  Safe'
  <1> USE DEF Executing, Entering, Looping
  <1>1. /\ UNCHANGED <<live, fut, queue, gui, runOffered, nodeState, timer, loaded, design,
                       pausePts, hasFlow, flow, dangling, result>>
        /\ pc[w] \notin {"none", "done"}
    BY DEF Enter, Claim, Fetch, guiVars, flowVars
  <1>2. CASE Enter(w)
    <2>1. Current = "queued"
      BY <1>1, <1>2, CurrentIs DEF ControlInv, Safe, Enter
    <2>2. status # "RUNNING" /\ Go(w, "claim") /\ status' = status
      BY <1>2, <2>1 DEF Enter, ControlInv, Safe, Statuses
    <2>3. Threads' /\ Current' = "claim"
      BY <1>1, <2>2, ThreadMoves DEF ControlInv, Safe
    <2>4. Statuses' /\ Open' /\ Kept'
      BY <1>1, <2>1, <2>2, <2>3 DEF ControlInv, Safe, Statuses, Open, Kept
    <2>5. Events' /\ Display' /\ Pending'
      BY <1>1, <2>1, <2>2, <2>3 DEF ControlInv, Safe, Events, Display, Pending, NoEvent
    <2>6. QED
      BY <1>1, <2>3, <2>4, <2>5 DEF ControlInv, Safe
  <1>3. CASE Claim(w)
    <2>1. Current = "claim" /\ Go(w, "fetch") /\ status' = "RUNNING"
      BY <1>1, <1>3, CurrentIs DEF ControlInv, Safe, Claim
    <2>2. Threads' /\ Current' = "fetch"
      BY <1>1, <2>1, ThreadMoves DEF ControlInv, Safe
    <2>3. Statuses' /\ Open' /\ Kept'
      BY <1>1, <2>1, <2>2 DEF ControlInv, Safe, Statuses, Open, Kept
    <2>4. Events' /\ Display' /\ Pending'
      BY <1>1, <2>1, <2>2 DEF ControlInv, Safe, Events, Display, Pending, NoEvent
    <2>5. QED
      BY <1>1, <2>2, <2>3, <2>4 DEF ControlInv, Safe
  <1>4. CASE Fetch(w)
    <2>1. Current = "fetch" /\ status' = status
      BY <1>1, <1>4, CurrentIs DEF ControlInv, Safe, Fetch, flowVars
    <2>2. Go(w, "loop")
      BY <1>4, <2>1 DEF ControlInv, Safe, Fetch, Kept
    <2>3. Threads' /\ Current' = "loop"
      BY <1>1, <2>2, ThreadMoves DEF ControlInv, Safe
    <2>4. Statuses' /\ Open' /\ Kept'
      BY <1>1, <2>1, <2>3 DEF ControlInv, Safe, Statuses, Open, Kept
    <2>5. Events' /\ Display' /\ Pending'
      BY <1>1, <2>1, <2>3 DEF ControlInv, Safe, Events, Display, Pending, NoEvent
    <2>6. QED
      BY <1>1, <2>3, <2>4, <2>5 DEF ControlInv, Safe
  <1>5. QED
    BY <1>2, <1>3, <1>4

(* A counter is posted from the loop: no end of a run.                     *)
LEMMA CountKeepsEvents ==
    ASSUME TypeInv, NEW c, NEW n, queue' = Post(queue, "count", c, n)
    PROVE  /\ NoEvent("finished") => NoEvent("finished")'
           /\ \A i \in DOMAIN queue' : queue'[i].kind \in {"canceled", "finished"}
                 => i \in DOMAIN queue /\ queue'[i] = queue[i]
  <1>1. queue \in Seq(Event)
    BY DEF TypeInv, TypeOK
  <1>2. /\ DOMAIN queue' = DOMAIN queue \cup {Len(queue) + 1}
        /\ \A i \in DOMAIN queue : queue'[i] = queue[i]
        /\ queue'[Len(queue) + 1] = [kind |-> "count", ch |-> c, n |-> n]
    BY <1>1 DEF Post
  <1>3. queue'[Len(queue) + 1].kind = "count"
    BY <1>2
  <1>4. QED
    BY <1>2, <1>3 DEF NoEvent

(* The worker leaves the loop: every channel of the run is still open.     *)
LEMMA LeavingSafe ==
    ASSUME ControlInv, Looping, Threads', Current' = "iteration",
           UNCHANGED <<status, live, fut, gui, runOffered, nodeState, timer, loaded, design,
                       queue, hasFlow, dangling, result>>
    PROVE  Safe'
  <1> USE DEF Executing, Entering, Looping
  <1>1. Statuses' /\ Open' /\ Kept'
    BY DEF ControlInv, Safe, Statuses, Open, Kept
  <1>2. Events' /\ Display'
    BY DEF ControlInv, Safe, Events, Display, NoEvent
  <1>3. Pending'
    <2> SUFFICES ASSUME gui = "idle", ~runOffered
                 PROVE  status = "RUNNING" /\ \E c \in Channel : EndComes(c)'
      BY DEF Pending
    <2>1. status = "RUNNING"
      BY DEF ControlInv, Safe, Statuses
    <2>2. PICK c \in design.uses : live[c] /\ ~fut[c].finished /\ ~fut[c].paused
      BY DEF ControlInv, Safe, Kept, Open
    <2>3. c \in Channel
      BY DEF ControlInv, TypeInv, TypeOK, Design
    <2>4. Rank["iteration"] <= Rank[c] /\ "iteration" \in Channel
      BY <2>3 DEF Rank, Channel
    <2>5. EndComes(c)'
      BY <2>2, <2>4 DEF EndComes
    <2>6. QED
      BY <2>1, <2>3, <2>5
  <1>4. QED
    BY <1>1, <1>2, <1>3 DEF ControlInv, Safe

(* The worker goes on in the loop, perhaps after it has posted a counter.  *)
LEMMA LoopingSafe ==
    ASSUME ControlInv, Looping, Threads', Current' \in {"loop", "eval"},
           queue' = queue \/ \E c, n : queue' = Post(queue, "count", c, n),
           UNCHANGED <<status, live, fut, gui, runOffered, nodeState, timer, loaded, design,
                       hasFlow, dangling, result>>
    PROVE  Safe'
  <1> USE DEF Executing, Entering, Looping
  <1>1. Statuses' /\ Open' /\ Kept'
    BY DEF ControlInv, Safe, Statuses, Open, Kept
  <1>2. /\ NoEvent("finished") => NoEvent("finished")'
        /\ \A i \in DOMAIN queue' : queue'[i].kind \in {"canceled", "finished"}
              => i \in DOMAIN queue /\ queue'[i] = queue[i]
    BY CountKeepsEvents DEF ControlInv, NoEvent
  <1>3. Events'
    BY <1>2 DEF ControlInv, Safe, Events, Statuses
  <1>4. Display' /\ Pending'
    BY DEF ControlInv, Safe, Display, Pending
  <1>5. QED
    BY <1>1, <1>3, <1>4 DEF ControlInv, Safe

LEMMA LoopSafe ==
    ASSUME ControlInv, NEW w \in Worker, Loop(w) \/ Eval(w)
    PROVE  Safe'
  <1>1. /\ UNCHANGED <<status, live, fut, gui, runOffered, nodeState, timer, loaded, design,
                       hasFlow, dangling, result>>
        /\ pc[w] \in {"loop", "eval"}
    BY DEF Loop, Eval, guiVars
  <1>2. Current = pc[w] /\ Looping
    BY <1>1, CurrentIs DEF ControlInv, Safe, Looping
  <1>3. w \notin dangling /\ loaded
    BY <1>2 DEF ControlInv, Safe, Kept, Executing
  <1>4. \/ Go(w, "iteration") /\ queue' = queue
        \/ /\ \E to \in {"loop", "eval"} : Go(w, to)
           /\ queue' = queue \/ \E c, n : queue' = Post(queue, "count", c, n)
    <2>1. CASE Loop(w)
      BY <1>3, <2>1 DEF Loop
    <2>2. CASE Eval(w)
      BY <1>3, <2>2 DEF Eval
    <2>3. QED
      BY <2>1, <2>2
  <1>5. CASE Go(w, "iteration") /\ queue' = queue
    <2>1. Threads' /\ Current' = "iteration"
      BY <1>1, <1>5, ThreadMoves DEF ControlInv, Safe
    <2>2. QED
      BY <1>1, <1>2, <1>5, <2>1, LeavingSafe
  <1>6. ASSUME NEW to \in {"loop", "eval"}, Go(w, to),
               queue' = queue \/ \E c, n : queue' = Post(queue, "count", c, n)
        PROVE  Safe'
    <2>1. Threads' /\ Current' = to
      BY <1>1, <1>6, ThreadMoves DEF ControlInv, Safe
    <2>2. QED
      BY <1>1, <1>2, <1>6, <2>1, LoopingSafe
  <1>7. QED
    BY <1>4, <1>5, <1>6

(* The worker reports a channel finished; the run is over by then.         *)
LEMMA ReportSafe ==
    ASSUME ControlInv, NEW w \in Worker, Report(w)
    PROVE  Safe'
  <1> USE DEF Executing, Entering, Looping
  <1>1. /\ UNCHANGED <<status, live, gui, runOffered, nodeState, timer, loaded, design,
                       pausePts, hasFlow, flow, dangling, result>>
        /\ pc[w] \in Channel /\ Go(w, Following[pc[w]])
    BY DEF Report, guiVars, flowVars
  <1>2. /\ pc[w] \notin {"none", "done", "queued", "claim", "fetch", "loop", "eval"}
        /\ Following[pc[w]] \in {"budget", "time", "done"}
    BY <1>1 DEF Channel, Following
  <1>3. Threads' /\ Current' = Following[pc[w]] /\ Current = pc[w]
    BY <1>1, <1>2, ThreadMoves DEF ControlInv, Safe
  <1>4. \/ queue' = Post(queue, "finished", pc[w], 0) /\ live[pc[w]] /\ ~fut[pc[w]].finished
        \/ queue' = queue /\ ~(live[pc[w]] /\ ~fut[pc[w]].finished)
    BY DEF Report
  <1>5. /\ \A c \in Channel : fut'[c].paused = fut[c].paused
        /\ \A c \in Channel : c # pc[w] => fut'[c] = fut[c]
    BY <1>1 DEF Report, ControlInv, TypeInv, TypeOK, Future
  <1>6. /\ DOMAIN queue \subseteq DOMAIN queue'
        /\ \A i \in DOMAIN queue : queue'[i] = queue[i]
        /\ queue' # queue => \E i \in DOMAIN queue' : /\ queue'[i].kind = "finished"
                                                      /\ queue'[i].ch = pc[w]
        /\ \A i \in DOMAIN queue' : i \in DOMAIN queue \/ (live[pc[w]] /\ queue'[i].ch = pc[w])
    <2>1. CASE queue' = queue
      BY <2>1
    <2>2. CASE queue' = Post(queue, "finished", pc[w], 0) /\ live[pc[w]]
      <3>1. queue \in Seq(Event)
        BY DEF ControlInv, TypeInv, TypeOK
      <3>2. /\ DOMAIN queue' = DOMAIN queue \cup {Len(queue) + 1}
            /\ \A i \in DOMAIN queue : queue'[i] = queue[i]
            /\ queue'[Len(queue) + 1] = [kind |-> "finished", ch |-> pc[w], n |-> 0]
        BY <2>2, <3>1 DEF Post
      <3>3. queue'[Len(queue) + 1].ch = pc[w] /\ queue'[Len(queue) + 1].kind = "finished"
        BY <3>2
      <3>4. QED
        BY <2>2, <3>2, <3>3
    <2>3. QED
      BY <1>4, <2>1, <2>2
  <1>7. Statuses' /\ Open' /\ Kept'
    BY <1>1, <1>2, <1>3 DEF ControlInv, Safe, Statuses, Open, Kept
  <1>8. Events' /\ Display'
    <2>1. ~(gui \in {"load", "start"})
      BY <1>2, <1>3 DEF ControlInv, Safe, Statuses
    <2>2. Events'
      BY <1>1, <1>2, <1>3, <1>6, <2>1 DEF ControlInv, Safe, Events
    <2>3. QED
      BY <1>1, <1>2, <1>3, <2>2 DEF ControlInv, Safe, Display
  <1>9. Pending'
    <2> SUFFICES ASSUME gui = "idle", ~runOffered
                 PROVE  status = "RUNNING" /\ \E c \in Channel : EndComes(c)'
      BY <1>1 DEF Pending
    <2>1. PICK c \in Channel : status = "RUNNING" /\ EndComes(c)
      BY <1>2, <1>3 DEF ControlInv, Safe, Pending
    <2>2. CASE \E i \in DOMAIN queue : queue[i].kind = "finished" /\ queue[i].ch = c
      BY <1>5, <1>6, <2>1, <2>2 DEF EndComes
    <2>3. CASE /\ live[c] /\ ~fut[c].finished /\ Current \in Channel
               /\ Rank[Current] <= Rank[c]
      <3>1. CASE c = pc[w]
        <4>1. queue' # queue
          <5>1. queue \in Seq(Event)
            BY DEF ControlInv, TypeInv, TypeOK
          <5>2. Post(queue, "finished", pc[w], 0) # queue
            BY <5>1 DEF Post
          <5>3. QED
            BY <1>4, <2>3, <3>1, <5>2
        <4>2. QED
          BY <1>5, <1>6, <2>1, <3>1, <4>1 DEF EndComes
      <3>2. CASE c # pc[w]
        <4>1. Current' \in Channel /\ Rank[Current'] <= Rank[c]
          BY <1>1, <1>3, <2>3, <3>2 DEF Rank, Channel, Following
        <4>2. QED
          BY <1>1, <1>5, <2>1, <2>3, <3>2, <4>1 DEF EndComes
      <3>3. QED
        BY <3>1, <3>2
    <2>4. QED
      BY <2>1, <2>2, <2>3 DEF EndComes
  <1>10. QED
    BY <1>1, <1>3, <1>7, <1>8, <1>9 DEF ControlInv, Safe
-----------------------------------------------------------------------------
(* With Prompt the last worker is not entering or leaving run() either.    *)
LEMMA SettledCurrent ==
    ASSUME ControlInv, \A w \in Worker : pc[w] \in {"none", "loop", "eval", "done"}
    PROVE  Current \in {"none", "loop", "eval", "done"}
  <1>1. result # 0 => result \in Worker
    BY MaxRunsAssumption DEF ControlInv, TypeInv, TypeOK, Worker
  <1>2. QED
    BY <1>1 DEF Current

(* Where Run is offered and the workers have settled, none is left.        *)
LEMMA RunFindsNoWorker ==
    ASSUME ControlInv, Orderly, UserRun
    PROVE  Current \in {"none", "done"} /\ ~Executing /\ gui = "idle" /\ runOffered
           /\ (Drained => queue = <<>>) /\ result < MaxRuns
  <1>1. /\ gui = "idle" /\ runOffered /\ (Drained => queue = <<>>) /\ result < MaxRuns
        /\ \A w \in Worker : pc[w] \in {"none", "loop", "eval", "done"}
    BY DEF UserRun, UserActs, Orderly, Settled
  <1>2. ~Executing
    BY <1>1 DEF ControlInv, Safe, Display
  <1>3. QED
    BY <1>1, <1>2, SettledCurrent DEF Executing, Looping

(* A run starts with channels of its own and without old events.           *)
LEMMA LaunchSafe ==
    ASSUME ControlInv, NEW S \in SUBSET Channel, Launch(S), result < MaxRuns,
           Current \in {"none", "done"}, gui' = "idle", status # "RUNNING",
           UNCHANGED <<status, loaded, design, hasFlow, flow, dangling>>,
           loaded, hasFlow, design.uses # {}, design.uses \subseteq S,
           \A c \in S : live[c] \/ c \in design.uses,
           Drained => queue = <<>>
    PROVE  Safe'
  <1> USE DEF Executing, Entering, Looping
  <1>1. /\ live' = [c \in Channel |-> live[c] \/ c \in S]
        /\ fut' = [c \in Channel |-> IF c \in S THEN NewFuture ELSE fut[c]]
        /\ queue' = Discard(queue, S)
        /\ timer' = (timer \/ "time" \in S)
        /\ runOffered' = FALSE
    BY DEF Launch
  <1>2. Threads' /\ Current' = "queued"
    BY ThreadStarts DEF Launch, ControlInv, Safe
  <1>3. design.uses \subseteq Channel
    BY DEF ControlInv, TypeInv, TypeOK, Design
  <1>4. \A c \in design.uses : live'[c] /\ ~fut'[c].finished /\ ~fut'[c].paused
    BY <1>1, <1>3 DEF NewFuture
  <1>5. Statuses' /\ Open' /\ Kept'
    BY <1>2, <1>4 DEF ControlInv, Safe, Statuses, Open, Kept
  <1>6. /\ DOMAIN queue' = DOMAIN queue
        /\ \A i \in DOMAIN queue :
              /\ queue'[i].ch = queue[i].ch
              /\ queue'[i].kind = IF queue[i].kind \in {"canceled", "finished"}
                                    /\ queue[i].ch \in S
                                  THEN "removed" ELSE queue[i].kind
    BY <1>1, Detached DEF ControlInv, TypeInv, TypeOK
  <1>7. NoEvent("finished")' /\ NoEvent("canceled")'
    <2>1. CASE Drained
      BY <1>6, <2>1 DEF NoEvent
    <2>2. CASE ~Drained
      <3>1. \A i \in DOMAIN queue : queue[i].kind \in {"canceled", "finished"}
                                    => queue[i].ch \in S
        BY <2>2 DEF ControlInv, Safe, Events
      <3>2. QED
        BY <1>6, <3>1 DEF NoEvent
    <2>3. QED
      BY <2>1, <2>2
  <1>8. Events'
    <2>1. ~Drained => /\ \A c \in Channel : live'[c] => c \in design.uses
                      /\ \A i \in DOMAIN queue' :
                            queue'[i].kind \in {"canceled", "finished"}
                            => queue'[i].ch \in design.uses
      BY <1>1, <1>6 DEF ControlInv, Safe, Events
    <2>2. QED
      BY <1>7, <2>1 DEF Events
  <1>9. Display' /\ Pending'
    BY <1>1, <1>2 DEF ControlInv, Safe, Display, Pending, Channel
  <1>10. QED
    BY <1>2, <1>5, <1>8, <1>9 DEF ControlInv, Safe

LEMMA RunSafe ==
    ASSUME ControlInv, Orderly, UserRun
    PROVE  Safe'
  <1>1. /\ Current \in {"none", "done"} /\ ~Executing /\ gui = "idle" /\ runOffered
        /\ (Drained => queue = <<>>) /\ result < MaxRuns
    BY RunFindsNoWorker
  <1>2. CASE Resume
    <2> DEFINE S == {c \in Channel : live[c]}
    <2>1. /\ Launch(S) /\ status = "PAUSED"
          /\ UNCHANGED <<status, gui, loaded, design, hasFlow, flow, dangling>>
      BY <1>2 DEF Resume, flowVars
    <2>2. loaded /\ hasFlow /\ design.uses # {} /\ design.uses \subseteq S
      BY <2>1 DEF ControlInv, Safe, Kept, TypeInv, TypeOK, Design
    <2>3. S \in SUBSET Channel /\ \A c \in S : live[c]
      OBVIOUS
    <2> HIDE DEF S
    <2>4. QED
      BY <1>1, <2>1, <2>2, <2>3, LaunchSafe
  <1>3. CASE ~Resume
    <2>1. /\ status = "IDLE" /\ gui' = "load"
          /\ UNCHANGED <<status, live, fut, queue, runOffered, nodeState, timer, loaded,
                         design, pausePts, hasFlow, flow, dangling, pc, result>>
      BY <1>3 DEF UserRun, flowVars
    <2>2. Threads' /\ Current' = Current
      BY <2>1, ThreadsUntouched DEF ControlInv, Safe
    <2>3. Statuses' /\ Open' /\ Kept'
      BY <1>1, <2>1, <2>2
      DEF ControlInv, Safe, Statuses, Open, Kept, Executing, Entering, Looping
    <2>4. Events' /\ Display' /\ Pending'
      BY <1>1, <2>1, <2>2 DEF ControlInv, Safe, Events, NoEvent, Display, Pending,
                              Executing, Entering, Looping
    <2>5. QED
      BY <2>1, <2>2, <2>3, <2>4 DEF ControlInv, Safe
  <1>4. QED
    BY <1>2, <1>3

LEMMA LoadSafe ==
    ASSUME ControlInv, Orderly, GuiLoad
    PROVE  Safe'
  <1> USE DEF Executing, Entering, Looping
  <1>1. /\ UNCHANGED <<status, live, fut, queue, runOffered, nodeState, timer, pausePts, pc,
                       result>>
        /\ gui = "load" /\ design' \in Designs
        /\ (gui' = "start" /\ hasFlow' = TRUE) \/ gui' = "idle"
    BY DEF GuiLoad
  <1>2. Threads' /\ Current' = Current /\ Current \in {"none", "done"}
        /\ status = "IDLE" /\ runOffered
    BY <1>1, ThreadsUntouched DEF ControlInv, Safe, Statuses
  <1>3. dangling' = {}
    <2>1. \A w \in Worker : ~InLoop(w)
      <3> SUFFICES ASSUME NEW w \in Worker, InLoop(w) PROVE FALSE
        OBVIOUS
      <3>1. Current = pc[w]
        BY CurrentIs DEF ControlInv, Safe, InLoop
      <3>2. QED
        BY <1>2, <3>1 DEF InLoop
    <2>2. QED
      BY <2>1 DEF GuiLoad, ControlInv, Safe, Kept
  <1>4. Statuses' /\ Open' /\ Kept'
    BY <1>1, <1>2, <1>3 DEF ControlInv, Safe, Statuses, Open, Kept
  <1>5. ~Drained => design'.uses = design.uses
    BY <1>1 DEF ControlInv, Safe, Orderly, SameChannels
  <1>6. Events'
    BY <1>1, <1>2, <1>5 DEF ControlInv, Safe, Events, NoEvent
  <1>7. Display' /\ Pending'
    BY <1>1, <1>2 DEF ControlInv, Safe, Display, Pending
  <1>8. QED
    BY <1>1, <1>2, <1>4, <1>6, <1>7 DEF ControlInv, Safe

LEMMA StartSafe ==
    ASSUME ControlInv, GuiStart
    PROVE  Safe'
  <1>1. /\ gui = "start" /\ gui' = "idle"
        /\ UNCHANGED <<status, loaded, design, hasFlow, flow, dangling>>
    BY DEF GuiStart, flowVars
  <1>2. /\ status = "IDLE" /\ runOffered /\ Current \in {"none", "done"} /\ hasFlow
        /\ (Drained => queue = <<>>) /\ result < MaxRuns
    BY <1>1 DEF ControlInv, Safe, Statuses, Kept, Events, TypeInv, RoomToStart
  <1>3. CASE Launch(design.uses) /\ loaded /\ design.uses # {}
    <2>1. design.uses \in SUBSET Channel
      BY DEF ControlInv, TypeInv, TypeOK, Design
    <2>2. QED
      BY <1>1, <1>2, <1>3, <2>1, LaunchSafe
  <1>4. CASE UNCHANGED <<live, fut, queue, timer, result, pc, nodeState, runOffered,
                         pausePts>>
    <2>1. Threads' /\ Current' = Current
      BY <1>4, ThreadsUntouched DEF ControlInv, Safe
    <2>2. Statuses' /\ Open' /\ Kept'
      BY <1>1, <1>2, <1>4, <2>1
      DEF ControlInv, Safe, Statuses, Open, Kept, Executing, Entering, Looping
    <2>3. Events' /\ Display' /\ Pending'
      BY <1>1, <1>2, <1>4, <2>1 DEF ControlInv, Safe, Events, NoEvent, Display, Pending,
                                    Executing, Entering, Looping
    <2>4. QED
      BY <1>1, <2>1, <2>2, <2>3 DEF ControlInv, Safe
  <1>5. QED
    BY <1>3, <1>4 DEF GuiStart
-----------------------------------------------------------------------------
(* Events are taken from the queue, none is posted.                        *)
NoNewEvent == \A i \in DOMAIN queue' : \E j \in DOMAIN queue : queue'[i] = queue[j]

LEMMA NoNewKinds ==
    ASSUME ControlInv, NoNewEvent, UNCHANGED <<pc, result, design>>, \/ UNCHANGED live
                                                                   \/ \A c \in Channel : live'[c] => live[c],
           gui' \notin {"load", "start"}
    PROVE  Events'
  <1>1. Current' = Current
    BY ThreadsUntouched DEF ControlInv, Safe
  <1>2. \A k : NoEvent(k) => NoEvent(k)'
    BY DEF NoEvent, NoNewEvent
  <1>3. Executing' = Executing
    BY <1>1 DEF Executing, Entering, Looping
  <1>4. ~Drained => /\ \A c \in Channel : live'[c] => c \in design.uses
                    /\ \A i \in DOMAIN queue' :
                          queue'[i].kind \in {"canceled", "finished"}
                          => queue'[i].ch \in design.uses
    BY DEF ControlInv, Safe, Events, NoNewEvent
  <1>5. QED
    BY <1>1, <1>2, <1>3, <1>4 DEF ControlInv, Safe, Events

(* A run that is over is shown as over.                                    *)
LEMMA FinishedSafe ==
    ASSUME ControlInv, gui \in {"idle", "join"}, ~Executing, Finished, NoNewEvent,
           UNCHANGED <<live, fut, design, hasFlow, flow, dangling, pc, result>>
    PROVE  Safe'
  <1> USE DEF Executing, Entering, Looping
  <1>1. Threads' /\ Current' = Current
    BY ThreadsUntouched DEF ControlInv, Safe
  <1>2. /\ status' = "IDLE" /\ runOffered' = TRUE /\ gui' = "idle"
        /\ timer' = (timer /\ ~live["time"])
        /\ nodeState' = IF loaded THEN "NODE_DONE" ELSE nodeState
    BY DEF Finished
  <1>3. loaded \/ nodeState \in {"NODE_UNDEFINED", "NODE_DONE"}
    BY DEF ControlInv, Safe, Kept, Display, Pending, TypeInv, TypeOK, Status
  <1>4. Statuses' /\ Open' /\ Kept'
    BY <1>1, <1>2 DEF ControlInv, Safe, Statuses, Open, Kept
  <1>5. Events'
    BY <1>2, NoNewKinds
  <1>6. Display' /\ Pending'
    BY <1>1, <1>2, <1>3 DEF ControlInv, Safe, Display, Pending
  <1>7. QED
    BY <1>1, <1>4, <1>5, <1>6 DEF ControlInv, Safe

LEMMA ExitSafe ==
    ASSUME ControlInv, gui = "idle", ~Entering, Current # "fetch", Exit, NoNewEvent,
           UNCHANGED <<fut, design, hasFlow, flow, dangling, pc, result>>
    PROVE  Safe'
  <1>1. Threads' /\ Current' = Current
    BY ThreadsUntouched DEF ControlInv, Safe
  <1>2. CASE status = "RUNNING" /\ status' = "IDLE" /\ gui' = "exit"
             /\ UNCHANGED <<live, timer, nodeState, loaded, runOffered>>
    <2>1. Statuses' /\ Open' /\ Kept'
      BY <1>1, <1>2
      DEF ControlInv, Safe, Statuses, Open, Kept, Executing, Entering, Looping
    <2>2. Events'
      BY <1>2, NoNewKinds
    <2>3. Display' /\ Pending'
      BY <1>1, <1>2
      DEF ControlInv, Safe, Display, Pending, Executing, Entering, Looping
    <2>4. QED
      BY <1>1, <2>1, <2>2, <2>3 DEF ControlInv, Safe
  <1>3. CASE /\ status = "PAUSED" /\ status' = "IDLE"
             /\ live' = [c \in Channel |-> FALSE]
             /\ timer' = (timer /\ ~live["time"])
             /\ gui' = "join"
             /\ UNCHANGED <<nodeState, loaded, runOffered>>
    <2>1. ~Executing
      BY <1>3 DEF ControlInv, Safe, Statuses, Executing
    <2>2. Statuses' /\ Open' /\ Kept'
      BY <1>1, <1>3, <2>1
      DEF ControlInv, Safe, Statuses, Open, Kept, Executing, Entering, Looping
    <2>3. Events'
      BY <1>3, NoNewKinds
    <2>4. Display' /\ Pending'
      BY <1>1, <1>3, <2>1
      DEF ControlInv, Safe, Display, Pending, Executing, Entering, Looping
    <2>5. QED
      BY <1>1, <2>2, <2>3, <2>4 DEF ControlInv, Safe
  <1>4. CASE status = "IDLE" /\ Finished /\ UNCHANGED live
    <2>1. ~Executing
      BY <1>4 DEF ControlInv, Safe, Statuses, Executing
    <2>2. QED
      BY <1>4, <2>1, FinishedSafe
  <1>5. QED
    BY <1>2, <1>3, <1>4 DEF Exit

LEMMA StopSafe ==
    ASSUME ControlInv, Orderly, UserStop
    PROVE  Safe' /\ gui = "idle" /\ ~Entering /\ Current # "fetch"
  <1>1. /\ gui = "idle" /\ Exit
        /\ UNCHANGED <<fut, queue, design, hasFlow, flow, dangling, pc, result>>
        /\ \A w \in Worker : pc[w] \in {"none", "loop", "eval", "done"}
    BY DEF UserStop, UserActs, Orderly, Settled, flowVars
  <1>2. ~Entering /\ Current # "fetch"
    BY <1>1, SettledCurrent DEF Entering
  <1>3. NoNewEvent
    BY <1>1 DEF NoNewEvent
  <1>4. QED
    BY <1>1, <1>2, <1>3, ExitSafe

LEMMA JoinSafe ==
    ASSUME ControlInv, GuiJoin
    PROVE  Safe'
  <1>1. /\ gui = "join" /\ Finished
        /\ UNCHANGED <<live, fut, queue, design, hasFlow, flow, dangling, pc, result>>
    BY DEF GuiJoin, flowVars
  <1>2. ~Executing /\ NoNewEvent
    BY <1>1 DEF ControlInv, Safe, Statuses, NoNewEvent
  <1>3. QED
    BY <1>1, <1>2, FinishedSafe

(* exit() waits: a channel of a run that executes is not finished.         *)
LEMMA WaitSafe ==
    ASSUME ControlInv, GuiWait
    PROVE  Safe'
  <1> USE DEF Executing, Entering, Looping
  <1>1. /\ gui = "wait" /\ gui' = "exit"
        /\ UNCHANGED <<status, fut, queue, runOffered, nodeState, loaded, design, pausePts,
                       hasFlow, flow, dangling, pc, result>>
    BY DEF GuiWait, flowVars
  <1>2. PICK c : /\ fut[c].finished
                 /\ live' = [live EXCEPT ![c] = FALSE]
                 /\ timer' = (timer /\ c # "time")
    BY DEF GuiWait
  <1>3. Threads' /\ Current' = Current
    BY <1>1, ThreadsUntouched DEF ControlInv, Safe
  <1>4. /\ \A d \in Channel : d # c => live'[d] = live[d]
        /\ \A d \in Channel : live'[d] => live[d]
    BY <1>2 DEF ControlInv, TypeInv, TypeOK
  <1>5. Open'
    <2> SUFFICES ASSUME Executing, NEW d \in design.uses
                 PROVE  live'[d] /\ ~fut[d].finished /\ ~fut[d].paused
      BY <1>1, <1>3 DEF Open
    <2>1. live[d] /\ ~fut[d].finished /\ ~fut[d].paused
      BY DEF ControlInv, Safe, Open
    <2>2. d # c /\ d \in Channel
      BY <1>2, <2>1 DEF ControlInv, TypeInv, TypeOK, Design
    <2>3. QED
      BY <1>4, <2>1, <2>2
  <1>6. Statuses' /\ Kept'
    BY <1>1, <1>3 DEF ControlInv, Safe, Statuses, Kept
  <1>7. Events'
    BY <1>1, <1>4, NoNewKinds DEF NoNewEvent
  <1>8. Display' /\ Pending'
    BY <1>1, <1>2, <1>3, <1>4 DEF ControlInv, Safe, Display, Pending, Channel
  <1>9. QED
    BY <1>1, <1>3, <1>5, <1>6, <1>7, <1>8 DEF ControlInv, Safe

(* A channel is cancelled while the worker is in the loop or has left it.  *)
LEMMA CancelSafe ==
    ASSUME ControlInv, NEW c \in Channel, live[c], Cancel(c),
           ~Entering, Current # "fetch",
           gui' = gui \/ (gui = "exit" /\ gui' = "wait"), gui \notin {"load", "start"},
           UNCHANGED <<status, live, runOffered, nodeState, timer, loaded, design, hasFlow,
                       flow, dangling, pc, result>>
    PROVE  Safe'
  <1> USE DEF Executing, Entering, Looping
  <1>1. Threads' /\ Current' = Current
    BY ThreadsUntouched DEF ControlInv, Safe
  <1>2. \A d \in Channel : /\ ~fut[d].finished => ~fut'[d].finished
                           /\ ~fut[d].paused => ~fut'[d].paused
    BY DEF Cancel, ControlInv, TypeInv, TypeOK, Future
  <1>3. design.uses \subseteq Channel
    BY DEF ControlInv, TypeInv, TypeOK, Design
  <1>4. /\ DOMAIN queue \subseteq DOMAIN queue'
        /\ \A i \in DOMAIN queue : queue'[i] = queue[i]
        /\ \A i \in DOMAIN queue' :
              i \in DOMAIN queue \/ (queue'[i].kind = "canceled" /\ queue'[i].ch = c)
    <2>1. CASE queue' = queue
      BY <2>1
    <2>2. CASE queue' = Post(queue, "canceled", c, 0)
      <3>1. queue \in Seq(Event)
        BY DEF ControlInv, TypeInv, TypeOK
      <3>2. /\ DOMAIN queue' = DOMAIN queue \cup {Len(queue) + 1}
            /\ \A i \in DOMAIN queue : queue'[i] = queue[i]
            /\ queue'[Len(queue) + 1] = [kind |-> "canceled", ch |-> c, n |-> 0]
        BY <2>2, <3>1 DEF Post
      <3>3. queue'[Len(queue) + 1].kind = "canceled" /\ queue'[Len(queue) + 1].ch = c
        BY <3>2
      <3>4. QED
        BY <3>2, <3>3
    <2>3. QED
      BY <2>1, <2>2 DEF Cancel
  <1>5. Statuses' /\ Open' /\ Kept'
    <2>1. Statuses'
      BY <1>1 DEF ControlInv, Safe, Statuses
    <2>2. Open'
      BY <1>1, <1>2, <1>3 DEF ControlInv, Safe, Open
    <2>3. Kept'
      BY <1>1 DEF ControlInv, Safe, Kept
    <2>4. QED
      BY <2>1, <2>2, <2>3
  <1>6. Events'
    <2>1. NoEvent("finished") => NoEvent("finished")'
      BY <1>4 DEF NoEvent
    <2>2. ~Drained => /\ \A d \in Channel : live'[d] => d \in design'.uses
                      /\ \A i \in DOMAIN queue' :
                            queue'[i].kind \in {"canceled", "finished"}
                            => queue'[i].ch \in design'.uses
      BY <1>4 DEF ControlInv, Safe, Events
    <2>3. QED
      BY <1>1, <2>1, <2>2 DEF ControlInv, Safe, Events
  <1>7. Display'
    BY <1>1 DEF ControlInv, Safe, Display
  <1>8. Pending'
    <2> SUFFICES ASSUME gui = "idle", ~runOffered, ~Executing
                 PROVE  status = "RUNNING" /\ \E d \in Channel : EndComes(d)'
      BY <1>1 DEF Pending
    <2>1. PICK d \in Channel : status = "RUNNING" /\ EndComes(d)
      BY DEF ControlInv, Safe, Pending
    <2>2. ~fut'[d].paused /\ (~fut[d].finished => ~fut'[d].finished)
      BY <1>2, <2>1 DEF EndComes
    <2>3. EndComes(d)'
      BY <1>1, <1>4, <2>1, <2>2 DEF EndComes
    <2>4. QED
      BY <2>1, <2>3
  <1>9. QED
    BY <1>1, <1>5, <1>6, <1>7, <1>8 DEF ControlInv, Safe

LEMMA CancelsSafe ==
    ASSUME ControlInv, Orderly, GuiExit \/ \E c \in Channel : UserCancelTask(c)
    PROVE  Safe'
  <1>1. CASE GuiExit
    <2> DEFINE todo == {c \in Channel : live[c]}
    <2>1. /\ gui = "exit"
          /\ UNCHANGED <<status, live, runOffered, nodeState, timer, loaded, design,
                         hasFlow, flow, dangling, pc, result>>
      BY <1>1 DEF GuiExit, flowVars
    <2>2. ~Entering /\ Current # "fetch" /\ status = "IDLE"
      BY <2>1 DEF ControlInv, Safe, Statuses
    <2>3. CASE todo # {} /\ Cancel(First(todo)) /\ gui' = "wait"
      <3>1. First(todo) \in todo
        BY <2>3, FirstInSet
      <3>2. First(todo) \in Channel /\ live[First(todo)]
        BY <3>1
      <3> HIDE DEF todo
      <3>3. QED
        BY <2>1, <2>2, <2>3, <3>2, CancelSafe
    <2>4. CASE todo = {} /\ gui' = "join" /\ UNCHANGED <<fut, queue>>
      <3>1. ~Executing
        <4> SUFFICES ASSUME Executing PROVE FALSE
          OBVIOUS
        <4>1. PICK c \in design.uses : live[c]
          BY DEF ControlInv, Safe, Open, Kept
        <4>2. c \in todo
          BY <4>1 DEF ControlInv, TypeInv, TypeOK, Design
        <4>3. QED
          BY <2>4, <4>2
      <3>2. Threads' /\ Current' = Current
        BY <2>1, ThreadsUntouched DEF ControlInv, Safe
      <3>3. Statuses' /\ Open' /\ Kept'
        BY <2>1, <2>2, <2>4, <3>1, <3>2
        DEF ControlInv, Safe, Statuses, Open, Kept, Executing, Entering, Looping
      <3>4. Events'
        BY <2>1, <2>4, NoNewKinds DEF NoNewEvent
      <3>5. Display' /\ Pending'
        BY <2>1, <2>4, <3>1, <3>2
        DEF ControlInv, Safe, Display, Pending, Executing, Entering, Looping
      <3>6. QED
        BY <2>1, <3>2, <3>3, <3>4, <3>5 DEF ControlInv, Safe
    <2>5. QED
      BY <1>1, <2>3, <2>4 DEF GuiExit
  <1>2. ASSUME NEW c \in Channel, UserCancelTask(c)
        PROVE  Safe'
    <2>1. /\ gui = "idle" /\ gui' = gui /\ live[c] /\ Cancel(c)
          /\ UNCHANGED <<status, live, runOffered, nodeState, timer, loaded, design,
                         hasFlow, flow, dangling, pc, result>>
          /\ \A w \in Worker : pc[w] \in {"none", "loop", "eval", "done"}
      BY <1>2 DEF UserCancelTask, UserActs, Orderly, Settled, guiVars, flowVars
    <2>2. ~Entering /\ Current # "fetch"
      BY <2>1, SettledCurrent DEF Entering
    <2>3. QED
      BY <2>1, <2>2, CancelSafe
  <1>3. QED
    BY <1>1, <1>2

(* Pausing begins, on a click or at a pause point.                         *)
LEMMA BeginPauseSafe ==
    ASSUME ControlInv, gui = "idle", BeginPause, NoNewEvent,
           UNCHANGED <<live, fut, runOffered, nodeState, timer, loaded, design, hasFlow,
                       flow, dangling, pc, result>>
    PROVE  Safe'
  <1>1. Threads' /\ Current' = Current
    BY ThreadsUntouched DEF ControlInv, Safe
  <1>2. Statuses' /\ Open' /\ Kept'
    BY <1>1 DEF ControlInv, Safe, Statuses, Open, Kept, BeginPause, Executing, Entering,
                Looping
  <1>3. Events'
    BY NoNewKinds DEF BeginPause
  <1>4. Display' /\ Pending'
    BY <1>1 DEF ControlInv, Safe, Display, Pending, BeginPause, Executing, Entering, Looping
  <1>5. QED
    BY <1>1, <1>2, <1>3, <1>4 DEF ControlInv, Safe

(* pause() waits: it ends when the run has finished its channels.          *)
LEMMA PauseSafe ==
    ASSUME ControlInv, GuiPause
    PROVE  Safe'
  <1> USE DEF Executing, Entering, Looping
  <1> DEFINE todo == {c \in Channel : live[c] /\ ~fut[c].paused}
  <1>1. /\ gui = "pause" /\ status = "PAUSED"
        /\ UNCHANGED <<status, live, queue, loaded, design, pausePts, hasFlow, flow,
                       dangling, pc, result>>
    BY DEF GuiPause, flowVars, ControlInv, Safe, Statuses
  <1>2. Threads' /\ Current' = Current
    BY <1>1, ThreadsUntouched DEF ControlInv, Safe
  <1>3. CASE /\ fut[First(todo)].finished
             /\ fut' = [fut EXCEPT ![First(todo)].paused = TRUE]
             /\ UNCHANGED guiVars
    <2> DEFINE f == First(todo)
    <2>1. fut[f].finished /\ fut' = [fut EXCEPT ![f].paused = TRUE]
      BY <1>3
    <2> HIDE DEF todo, f
    <2>2. \A c \in Channel : c # f => fut'[c] = fut[c]
      BY <2>1 DEF ControlInv, TypeInv, TypeOK
    <2>3. Open'
      BY <1>1, <1>2, <2>1, <2>2 DEF ControlInv, Safe, Open, TypeInv, TypeOK, Design
    <2>4. Statuses' /\ Kept'
      BY <1>1, <1>2, <1>3 DEF ControlInv, Safe, Statuses, Kept, guiVars
    <2>5. Events'
      BY <1>1, <1>3, NoNewKinds DEF NoNewEvent, guiVars
    <2>6. Display' /\ Pending'
      BY <1>1, <1>2, <1>3 DEF ControlInv, Safe, Display, Pending, guiVars
    <2>7. QED
      BY <1>1, <1>2, <2>3, <2>4, <2>5, <2>6 DEF ControlInv, Safe
  <1>4. CASE /\ todo = {}
             /\ gui' = "idle"
             /\ timer' = (timer /\ ~live["time"])
             /\ nodeState' = IF loaded THEN "NODE_IN_QUEUE" ELSE nodeState
             /\ runOffered' = TRUE
             /\ UNCHANGED fut
    <2>1. ~Executing
      <3> SUFFICES ASSUME Executing PROVE FALSE
        OBVIOUS
      <3>1. PICK c \in design.uses : live[c] /\ ~fut[c].paused
        BY DEF ControlInv, Safe, Open, Kept
      <3>2. c \in todo
        BY <3>1 DEF ControlInv, TypeInv, TypeOK, Design
      <3>3. QED
        BY <1>4, <3>2
    <2>2. Statuses' /\ Open' /\ Kept'
      BY <1>1, <1>2, <1>4, <2>1 DEF ControlInv, Safe, Statuses, Open, Kept
    <2>3. Events'
      BY <1>1, <1>4, NoNewKinds DEF NoNewEvent
    <2>4. Display' /\ Pending'
      BY <1>1, <1>2, <1>4, <2>1 DEF ControlInv, Safe, Display, Pending, Kept
    <2>5. QED
      BY <1>1, <1>2, <2>2, <2>3, <2>4 DEF ControlInv, Safe
  <1>5. QED
    BY <1>3, <1>4 DEF GuiPause

(* An event that is not an end to be shown is taken from the queue.        *)
LEMMA DropSafe ==
    ASSUME ControlInv, gui = "idle", queue # <<>>, queue' = Tail(queue),
           Head(queue).kind = "finished" => fut[Head(queue).ch].paused,
           UNCHANGED <<status, live, fut, gui, runOffered, nodeState, timer, loaded, design,
                       hasFlow, flow, dangling, pc, result>>
    PROVE  Safe'
  <1> USE DEF Executing, Entering, Looping
  <1>1. queue \in Seq(Event)
    BY DEF ControlInv, TypeInv, TypeOK
  <1>2. /\ \A i \in DOMAIN queue' : \E j \in DOMAIN queue : queue'[i] = queue[j]
        /\ \A i \in DOMAIN queue :
              queue[i] = Head(queue) \/ \E j \in DOMAIN queue' : queue'[j] = queue[i]
    BY <1>1, Taken
  <1>3. Threads' /\ Current' = Current
    BY ThreadsUntouched DEF ControlInv, Safe
  <1>4. Statuses' /\ Open' /\ Kept'
    BY <1>3 DEF ControlInv, Safe, Statuses, Open, Kept
  <1>5. Events'
    BY <1>2, NoNewKinds DEF NoNewEvent
  <1>6. Display'
    BY <1>3 DEF ControlInv, Safe, Display
  <1>7. Pending'
    <2> SUFFICES ASSUME ~runOffered, ~Executing
                 PROVE  status = "RUNNING" /\ \E c \in Channel : EndComes(c)'
      BY <1>3 DEF Pending
    <2>1. PICK c \in Channel : status = "RUNNING" /\ EndComes(c)
      BY DEF ControlInv, Safe, Pending
    <2>2. CASE \E i \in DOMAIN queue : queue[i].kind = "finished" /\ queue[i].ch = c
      <3>1. PICK i \in DOMAIN queue : queue[i].kind = "finished" /\ queue[i].ch = c
        BY <2>2
      <3>2. ~fut[c].paused
        BY <2>1 DEF EndComes
      <3>3. queue[i] # Head(queue)
        BY <3>1, <3>2
      <3>4. QED
        BY <1>2, <2>1, <3>1, <3>2, <3>3 DEF EndComes
    <2>3. CASE live[c] /\ ~fut[c].finished /\ Current \in Channel /\ Rank[Current] <= Rank[c]
      BY <1>3, <2>1, <2>3 DEF EndComes
    <2>4. QED
      BY <2>1, <2>2, <2>3 DEF EndComes
  <1>8. QED
    BY <1>3, <1>4, <1>5, <1>6, <1>7 DEF ControlInv, Safe

LEMMA DeliverSafe ==
    ASSUME ControlInv, Deliver
    PROVE  Safe'
  <1> DEFINE e == Head(queue)
  <1>1. /\ gui = "idle" /\ queue # <<>> /\ queue' = Tail(queue)
        /\ UNCHANGED <<fut, design, hasFlow, flow, dangling, pc, result>>
        /\ queue \in Seq(Event)
    BY DEF Deliver, flowVars, ControlInv, TypeInv, TypeOK
  <1>2. NoNewEvent
    BY <1>1, Taken DEF NoNewEvent
  <1>3. PICK i \in DOMAIN queue : queue[i] = e
    BY <1>1, Taken
  <1> HIDE DEF e
  <1>4. CASE DeliverNothing(e)
    BY <1>1, <1>4, DropSafe DEF DeliverNothing, guiVars, e
  <1>5. CASE DeliverCount(e) /\ BeginPause
    BY <1>1, <1>2, <1>5, BeginPauseSafe DEF DeliverCount
  <1>6. CASE DeliverCount(e) /\ UNCHANGED <<status, gui>>
    BY <1>1, <1>6, DropSafe DEF DeliverCount, e
  <1>7. CASE DeliverCanceled(e)
    <2>1. ~NoEvent("canceled")
      BY <1>3, <1>7 DEF DeliverCanceled, NoEvent
    <2>2. ~Entering /\ Current # "fetch"
      BY <2>1 DEF ControlInv, Safe, Events, Executing, Entering, Looping
    <2>3. QED
      BY <1>1, <1>2, <1>7, <2>2, ExitSafe DEF DeliverCanceled
  <1>8. CASE DeliverFinished(e)
    <2>1. ~NoEvent("finished")
      BY <1>3, <1>8 DEF DeliverFinished, NoEvent
    <2>2. ~Executing
      BY <2>1 DEF ControlInv, Safe, Events
    <2>3. QED
      BY <1>1, <1>2, <1>8, <2>2, FinishedSafe DEF DeliverFinished
  <1>9. DeliverCount(e) => BeginPause \/ UNCHANGED <<status, gui>>
    BY DEF DeliverCount
  <1>10. QED
    BY <1>4, <1>5, <1>6, <1>7, <1>8, <1>9 DEF Deliver, e
-----------------------------------------------------------------------------
LEMMA InitControl == Init => ControlInv
  <1> SUFFICES ASSUME Init PROVE ControlInv
    OBVIOUS
  <1>1. result = 0 /\ Current = "none" /\ status = "IDLE" /\ gui = "idle" /\ queue = <<>>
    BY DEF Init, Current
  <1>2. \A w \in Worker : ~(w < result) /\ pc[w] = "none"
    BY <1>1 DEF Init, Worker
  <1>3. Threads
    BY <1>1, <1>2 DEF Threads
  <1>4. Statuses /\ Open /\ Kept
    BY <1>1 DEF Init, Statuses, Open, Kept, Executing, Entering, Looping
  <1>5. Events /\ Display /\ Pending
    BY <1>1 DEF Init, Events, NoEvent, Display, Pending, Executing, Entering, Looping
  <1>6. QED
    BY <1>3, <1>4, <1>5, InitTypes DEF Init, ControlInv, Safe

LEMMA NextControl ==
    ASSUME Orderly
    PROVE  ControlInv /\ [Next]_vars => ControlInv'
  <1> SUFFICES ASSUME ControlInv, [Next]_vars
               PROVE  Safe'
    BY NextTypes DEF ControlInv
  <1>1. CASE UserRun \/ GuiLoad \/ GuiStart
    BY <1>1, RunSafe, LoadSafe, StartSafe
  <1>2. CASE UserPause
    <2>1. /\ gui = "idle" /\ BeginPause
          /\ UNCHANGED <<live, fut, queue, runOffered, nodeState, timer, loaded, design,
                         hasFlow, flow, dangling, pc, result>>
      BY <1>2 DEF UserPause, UserActs, flowVars
    <2>2. QED
      BY <2>1, BeginPauseSafe DEF NoNewEvent
  <1>3. CASE GuiPause
    BY <1>3, PauseSafe
  <1>4. CASE UserStop \/ GuiWait \/ GuiJoin
    BY <1>4, StopSafe, WaitSafe, JoinSafe
  <1>5. CASE GuiExit \/ \E c \in Channel : UserCancelTask(c)
    BY <1>5, CancelsSafe
  <1>6. CASE Deliver
    BY <1>6, DeliverSafe
  <1>7. ASSUME NEW w \in Worker, RunStep(w)
        PROVE  Safe'
    BY <1>7, EntrySafe, LoopSafe, ReportSafe DEF RunStep
  <1>8. CASE UNCHANGED vars
    <2>1. UNCHANGED <<status, live, fut, queue, gui, runOffered, nodeState, timer, loaded,
                      design, hasFlow, flow, dangling, pc, result>>
      BY <1>8 DEF vars, guiVars, flowVars
    <2>2. QED
      BY <2>1 DEF ControlInv, Safe, Threads, Current, Statuses, Open, Kept, Events, NoEvent,
                  Display, Pending, EndComes, Executing, Entering, Looping
  <1>9. QED
    BY <1>1, <1>2, <1>3, <1>4, <1>5, <1>6, <1>7, <1>8 DEF Next, UserStep, GuiStep

LEMMA ControlInvariant ==
    ASSUME Orderly
    PROVE  Spec => []ControlInv
  BY InitControl, NextControl, PTL DEF Spec
-----------------------------------------------------------------------------
(* No pool thread dereferences a flow that clearFlow() deleted, a flow     *)
(* that is not there or a null master end node.                            *)
THEOREM EngineNeverCrashes ==
    ASSUME Orderly
    PROVE  Spec => []NoCrash
  <1>1. ControlInv => NoCrash
    <2> SUFFICES ASSUME ControlInv, NEW w \in Worker, pc[w] = "crashed"
                 PROVE  FALSE
      BY DEF NoCrash, Crashed
    <2>1. Current = "crashed"
      BY CurrentIs DEF ControlInv, Safe
    <2>2. QED
      BY <2>1 DEF ControlInv, Safe, Threads
  <1>2. QED
    BY <1>1, ControlInvariant, PTL

(* runDesign() may delete the flows: no worker executes one, or is about   *)
(* to, while the GUI thread can start a run.                               *)
THEOREM EngineOffersRunWhenQuiet ==
    ASSUME Orderly
    PROVE  Spec => []RunOfferedWhenQuiet
  <1>1. ControlInv => RunOfferedWhenQuiet
    BY ActiveIsExecuting DEF ControlInv, Safe, Display, RunOfferedWhenQuiet
  <1>2. QED
    BY <1>1, ControlInvariant, PTL

(* No worker of an earlier run finishes a channel of a run that executes:  *)
(* pause() and exit() wait for the right one.                              *)
THEOREM EngineFinishedByOwner ==
    ASSUME Orderly
    PROVE  Spec => []FinishedByOwner
  <1>1. ControlInv => FinishedByOwner
    <2> SUFFICES ASSUME ControlInv, NEW c \in design.uses, fut[c].finished,
                        result > 0, Active(result)
                 PROVE  FALSE
      BY DEF FinishedByOwner
    <2>1. Executing
      BY MaxRunsAssumption DEF Active, Executing, Entering, Looping, Current,
                               ControlInv, TypeInv, TypeOK
    <2>2. QED
      BY <2>1 DEF ControlInv, Safe, Open
  <1>2. QED
    BY <1>1, ControlInvariant, PTL

LEMMA QuietIsConsistent == ControlInv => QuietConsistent
  <1> SUFFICES ASSUME ControlInv, Quiet
               PROVE  /\ runOffered /\ ~timer /\ status # "RUNNING"
                      /\ status = "PAUSED" => loaded /\ nodeState = "NODE_IN_QUEUE"
                      /\ status = "IDLE" => nodeState \in {"NODE_UNDEFINED", "NODE_DONE"}
    BY DEF QuietConsistent
  <1>1. Current \in {"none", "done"}
    <2>1. result # 0 => result \in Worker
      BY MaxRunsAssumption DEF ControlInv, TypeInv, TypeOK, Worker
    <2>2. QED
      BY <2>1 DEF Quiet, Current
  <1>2. runOffered
    <2>1. \A c \in Channel : ~EndComes(c)
      BY <1>1 DEF Quiet, EndComes, Channel
    <2>2. QED
      BY <1>1, <2>1 DEF ControlInv, Safe, Pending, Quiet, Executing, Entering, Looping
  <1>3. QED
    BY <1>2 DEF ControlInv, Safe, Display, Kept, Quiet

(* Whatever ended a run, the display, the timer and the status agree once  *)
(* nothing is left to happen without the user.                             *)
THEOREM EngineQuietConsistent ==
    ASSUME Orderly
    PROVE  Spec => []QuietConsistent
  BY QuietIsConsistent, ControlInvariant, PTL

(* When the slot of Stop is done, nothing executes or is about to.         *)
THEOREM EngineStopTerminates ==
    ASSUME Orderly
    PROVE  Spec => StopTerminates
  <1>1. ControlInv /\ ControlInv' /\ [Next]_vars =>
           [GuiJoin \/ (UserStop /\ gui' = "idle") => \A w \in Worker : ~Active(w)']_vars
    <2> SUFFICES ASSUME ControlInv, GuiJoin \/ (UserStop /\ gui' = "idle"),
                        NEW w \in Worker, Active(w)'
                 PROVE  FALSE
      OBVIOUS
    <2>1. ~Executing
      <3>1. CASE GuiJoin
        BY <3>1 DEF GuiJoin, ControlInv, Safe, Statuses
      <3>2. CASE UserStop /\ gui' = "idle"
        <4>1. status = "IDLE" /\ gui = "idle"
          BY <3>2 DEF UserStop, UserActs, Exit
        <4>2. ~Entering
          BY <3>2, StopSafe
        <4>3. QED
          BY <4>1, <4>2 DEF ControlInv, Safe, Statuses, Executing
      <3>3. QED
        BY <3>1, <3>2
    <2>2. pc' = pc
      BY DEF GuiJoin, UserStop
    <2>3. Active(w)
      BY <2>2 DEF Active
    <2>4. QED
      BY <2>1, <2>3, ActiveIsExecuting DEF ControlInv, Safe
  <1>2. QED
    BY <1>1, ControlInvariant, PTL DEF StopTerminates, Spec
-----------------------------------------------------------------------------
(* Counters that were posted before, or of a count the flow has reached.   *)
LEMMA CountsKept ==
    ASSUME CountsReached,
           \A i \in DOMAIN queue : queue[i].n \in Nat,
           flow.iter \in Nat, flow.spent \in Nat, flow'.iter \in Nat, flow'.spent \in Nat,
           flow.iter <= flow'.iter, flow.spent <= flow'.spent,
           \A i \in DOMAIN queue' : queue'[i].kind = "count" =>
              \/ \E j \in DOMAIN queue : /\ queue[j].kind = "count"
                                         /\ queue[j].ch = queue'[i].ch
                                         /\ queue[j].n = queue'[i].n
              \/ queue'[i].ch \in Counted /\ queue'[i].n = Reached(flow', queue'[i].ch)
    PROVE  CountsReached'
  <1> SUFFICES ASSUME Drained, NEW i \in DOMAIN queue', queue'[i].kind = "count"
               PROVE  queue'[i].ch \in Counted /\ queue'[i].n <= Reached(flow', queue'[i].ch)
    BY DEF CountsReached
  <1>1. ASSUME NEW j \in DOMAIN queue, queue[j].kind = "count",
               queue[j].ch = queue'[i].ch, queue[j].n = queue'[i].n
        PROVE  queue'[i].ch \in Counted /\ queue'[i].n <= Reached(flow', queue'[i].ch)
    <2>1. queue[j].ch \in Counted /\ queue[j].n <= Reached(flow, queue[j].ch)
      BY <1>1 DEF CountsReached
    <2>2. queue[j].n \in Nat
      OBVIOUS
    <2>3. QED
      BY <1>1, <2>1, <2>2 DEF Reached
  <1>2. ASSUME queue'[i].ch \in Counted, queue'[i].n = Reached(flow', queue'[i].ch)
        PROVE  queue'[i].n <= Reached(flow', queue'[i].ch)
    BY <1>2 DEF Reached
  <1>3. QED
    BY <1>1, <1>2

LEMMA InitCounts == Init => CountsReached
  BY DEF Init, CountsReached

LEMMA NextCounts ==
    ASSUME Orderly
    PROVE  CountsReached /\ ControlInv /\ ControlInv' /\ [Next]_vars => CountsReached'
  <1> SUFFICES ASSUME CountsReached, ControlInv, ControlInv', [Next]_vars
               PROVE  CountsReached'
    OBVIOUS
  <1>1. /\ queue \in Seq(Event)
        /\ \A i \in DOMAIN queue : queue[i].n \in Nat
        /\ flow \in [iter : Nat, spent : Nat, failed : BOOLEAN]
        /\ flow' \in [iter : Nat, spent : Nat, failed : BOOLEAN]
    <2>1. queue \in Seq(Event)
      BY DEF ControlInv, TypeInv, TypeOK
    <2>2. \A i \in DOMAIN queue : queue[i] \in Event
      BY <2>1
    <2>3. QED
      BY <2>1, <2>2 DEF ControlInv, TypeInv, TypeOK, Event
  <1>2. ASSUME NoNewEvent, UNCHANGED flow
        PROVE  CountsReached'
    BY <1>1, <1>2, CountsKept DEF NoNewEvent
  <1>3. ASSUME NEW S, queue' = Discard(queue, S), UNCHANGED flow
        PROVE  CountsReached'
    <2>1. /\ DOMAIN queue' = DOMAIN queue
          /\ \A i \in DOMAIN queue :
                /\ queue'[i].ch = queue[i].ch /\ queue'[i].n = queue[i].n
                /\ queue'[i].kind = "count" => queue[i].kind = "count"
      <3>1. \A i \in DOMAIN queue :
               queue'[i].kind = IF queue[i].kind \in {"canceled", "finished"}
                                   /\ queue[i].ch \in S
                                THEN "removed" ELSE queue[i].kind
        BY <1>1, <1>3, Detached
      <3>2. QED
        BY <1>1, <1>3, <3>1, Detached
    <2>2. QED
      BY <1>1, <1>3, <2>1, CountsKept
  <1>4. ASSUME NEW k \in {"canceled", "finished"}, NEW c, queue' = Post(queue, k, c, 0),
               UNCHANGED flow
        PROVE  CountsReached'
    <2>1. /\ DOMAIN queue' = DOMAIN queue \cup {Len(queue) + 1}
          /\ \A i \in DOMAIN queue : queue'[i] = queue[i]
          /\ queue'[Len(queue) + 1].kind = k
      BY <1>1, <1>4 DEF Post
    <2>2. QED
      BY <1>1, <1>4, <2>1, CountsKept
  <1>5. ASSUME NEW c \in Counted, queue' = Post(queue, "count", c, Reached(flow', c)),
               flow.iter <= flow'.iter, flow.spent <= flow'.spent
        PROVE  CountsReached'
    <2>1. /\ DOMAIN queue' = DOMAIN queue \cup {Len(queue) + 1}
          /\ \A i \in DOMAIN queue : queue'[i] = queue[i]
          /\ queue'[Len(queue) + 1].ch = c
          /\ queue'[Len(queue) + 1].n = Reached(flow', c)
          /\ Reached(flow', c) \in Nat
      BY <1>1, <1>5 DEF Post, Reached
    <2>2. queue'[Len(queue) + 1].n = Reached(flow', queue'[Len(queue) + 1].ch)
      BY <2>1
    <2>3. QED
      BY <1>1, <1>5, <2>1, <2>2, CountsKept
  <1>6. CASE UserRun \/ GuiStart
    <2>1. \/ \E S : queue' = Discard(queue, S) /\ UNCHANGED flow
          \/ UNCHANGED <<queue, flow>>
      BY <1>6 DEF UserRun, Resume, GuiStart, Launch, flowVars
    <2>2. QED
      BY <1>2, <1>3, <2>1 DEF NoNewEvent
  <1>7. CASE GuiLoad
    <2>1. queue' = queue /\ (Drained => queue = <<>>)
      BY <1>7 DEF GuiLoad, ControlInv, Safe, Events
    <2>2. QED
      BY <2>1 DEF CountsReached
  <1>8. CASE GuiExit \/ \E c \in Channel : UserCancelTask(c)
    <2>1. /\ UNCHANGED flow
          /\ queue' = queue \/ \E c : queue' = Post(queue, "canceled", c, 0)
      BY <1>8 DEF GuiExit, UserCancelTask, Cancel, flowVars
    <2>2. QED
      BY <1>2, <1>4, <2>1 DEF NoNewEvent
  <1>9. CASE Deliver
    BY <1>1, <1>2, <1>9, Taken DEF Deliver, flowVars, NoNewEvent
  <1>10. CASE UserPause \/ GuiPause \/ UserStop \/ GuiWait \/ GuiJoin \/ UNCHANGED vars
    <2>1. UNCHANGED <<queue, flow>>
      BY <1>10 DEF UserPause, GuiPause, UserStop, GuiWait, GuiJoin, vars, flowVars
    <2>2. QED
      BY <1>2, <2>1 DEF NoNewEvent
  <1>11. ASSUME NEW w \in Worker, RunStep(w)
         PROVE  CountsReached'
    <2>1. CASE Enter(w) \/ Claim(w) \/ Fetch(w)
      <3>1. UNCHANGED <<queue, flow>>
        BY <2>1 DEF Enter, Claim, Fetch, flowVars
      <3>2. QED
        BY <1>2, <3>1 DEF NoNewEvent
    <2>2. CASE Loop(w)
      <3>1. CASE UNCHANGED <<flow, queue>>
        BY <1>2, <3>1 DEF NoNewEvent
      <3>2. CASE /\ flow' = [flow EXCEPT !.iter = @ + 1]
                 /\ queue' = Post(queue, "count", "iteration", flow.iter + 1)
        <4>1. /\ flow'.iter = flow.iter + 1 /\ flow'.spent = flow.spent
              /\ Reached(flow', "iteration") = flow.iter + 1 /\ "iteration" \in Counted
          BY <1>1, <3>2 DEF Reached, Counted
        <4>2. queue' = Post(queue, "count", "iteration", Reached(flow', "iteration"))
          BY <3>2, <4>1
        <4>3. flow.iter <= flow'.iter /\ flow.spent <= flow'.spent
          BY <1>1, <4>1
        <4>4. QED
          BY <1>5, <4>1, <4>2, <4>3
      <3>3. QED
        BY <2>2, <3>1, <3>2 DEF Loop
    <2>3. CASE Eval(w)
      <3> DEFINE spent == IF flow.failed THEN flow.spent ELSE flow.spent + 1
      <3>1. CASE UNCHANGED <<flow, queue>>
        BY <1>2, <3>1 DEF NoNewEvent
      <3>2. CASE /\ flow' = [flow EXCEPT !.spent = spent]
                 /\ queue' = Post(queue, "count", "budget", spent)
        <4>1. spent \in Nat /\ flow.spent <= spent
          BY <1>1
        <4> HIDE DEF spent
        <4>2. /\ flow'.iter = flow.iter /\ flow'.spent = spent
              /\ Reached(flow', "budget") = spent /\ "budget" \in Counted
          BY <1>1, <3>2 DEF Reached, Counted
        <4>3. queue' = Post(queue, "count", "budget", Reached(flow', "budget"))
          BY <3>2, <4>2
        <4>4. flow.iter <= flow'.iter /\ flow.spent <= flow'.spent
          BY <1>1, <4>1, <4>2
        <4>5. QED
          BY <1>5, <4>2, <4>3, <4>4
      <3>3. CASE /\ \E bad \in BOOLEAN : flow' = [flow EXCEPT !.failed = bad]
                 /\ UNCHANGED queue
        <4>1. flow'.iter = flow.iter /\ flow'.spent = flow.spent
          BY <1>1, <3>3
        <4>2. QED
          BY <3>3, <4>1 DEF CountsReached, Reached
      <3>4. QED
        BY <2>3, <3>1, <3>2, <3>3 DEF Eval
    <2>4. CASE Report(w)
      <3>1. UNCHANGED flow /\ (queue' = queue \/ queue' = Post(queue, "finished", pc[w], 0))
        BY <2>4 DEF Report, flowVars
      <3>2. QED
        BY <1>2, <1>4, <3>1 DEF NoNewEvent
    <2>5. QED
      BY <1>11, <2>1, <2>2, <2>3, <2>4 DEF RunStep
  <1>12. QED
    BY <1>6, <1>7, <1>8, <1>9, <1>10, <1>11 DEF Next, UserStep, GuiStep

(* A pause point is compared with a count the flow has reached: no counter *)
(* of an earlier run is taken for one of this run.                         *)
THEOREM EnginePausesInTime ==
    ASSUME Prompt, Drained
    PROVE  Spec => PauseNotEarly
  <1>1. Orderly
    BY DEF Orderly
  <1>2. CountsReached /\ ControlInv /\ [Next]_vars =>
           [\A c \in Counted :
               status = "RUNNING" /\ status' = "PAUSED" /\ pausePts'[c] # pausePts[c]
               => Head(pausePts[c]) <= (IF c = "iteration" THEN flow.iter ELSE flow.spent)]_vars
    <2> SUFFICES ASSUME CountsReached, ControlInv, Next, NEW c \in Counted,
                        status = "RUNNING", status' = "PAUSED", pausePts'[c] # pausePts[c]
                 PROVE  Head(pausePts[c]) <= Reached(flow, c)
      BY DEF Reached
    <2>1. \/ Deliver /\ DeliverCount(Head(queue))
          \/ pausePts' = pausePts \/ status' = status
      BY DEF Next, UserStep, GuiStep, UserRun, Resume, GuiLoad, GuiStart, UserPause, GuiPause,
             UserStop, UserCancelTask, GuiExit, GuiWait, GuiJoin, RunStep, Enter, Claim, Fetch,
             Loop, Eval, Report, Deliver, DeliverNothing, DeliverCanceled, DeliverFinished
    <2> DEFINE e == Head(queue)
    <2>2. /\ queue \in Seq(Event) /\ queue # <<>> /\ DeliverCount(e)
          /\ pausePts \in [Counted -> Seq(Nat)] /\ flow.iter \in Nat /\ flow.spent \in Nat
      BY <2>1 DEF Deliver, ControlInv, TypeInv, TypeOK
    <2>3. PICK i \in DOMAIN queue : queue[i] = e
      BY <2>2, Taken
    <2> HIDE DEF e
    <2>4. /\ e.kind = "count" /\ e.n >= Head(pausePts[e.ch])
          /\ pausePts[e.ch] # <<>>
          /\ pausePts' = [pausePts EXCEPT ![e.ch] = Tail(@)]
      BY <2>2 DEF DeliverCount
    <2>5. e.ch = c
      BY <2>2, <2>4
    <2>6. e.n <= Reached(flow, c) /\ e.n \in Nat
      <3>1. e.n <= Reached(flow, e.ch)
        BY <2>3, <2>4 DEF CountsReached
      <3>2. e \in Event
        BY <2>2, <2>3
      <3>3. QED
        BY <2>5, <3>1, <3>2 DEF Event
    <2>7. Head(pausePts[c]) \in Nat
      BY <2>2, <2>4, <2>5
    <2>8. QED
      BY <2>2, <2>4, <2>5, <2>6, <2>7 DEF Reached
  <1>3. Spec => []CountsReached
    BY <1>1, InitCounts, NextCounts, ControlInvariant, PTL DEF Spec
  <1>4. QED
    BY <1>1, <1>2, <1>3, ControlInvariant, PTL DEF PauseNotEarly, Spec
-----------------------------------------------------------------------------
(* What the run life cycle shows of a state, besides runOffered.           *)
Paused   == runOffered /\ status = "PAUSED"
Progress == flow.iter + flow.spent

LEMMA BusyIsExecuting ==
    /\ ControlInv => (Executing <=> \E w \in Worker : Active(w))
    /\ (ControlInv => (Executing <=> \E w \in Worker : Active(w)))'
  <1>1. ControlInv => (Executing <=> \E w \in Worker : Active(w))
    BY ActiveIsExecuting DEF ControlInv, Safe
  <1>2. QED
    BY <1>1, PTL

(* A step is a step of the life cycle when it is one of the shown values.  *)
LEMMA LifecycleSteps ==
    ASSUME ControlInv, ControlInv', Progress \in Nat,
           \/ /\ runOffered /\ ~Executing /\ ~Paused /\ Progress' = 0
              /\ runOffered' /\ ~Executing' /\ ~Paused'
           \/ /\ runOffered /\ ~Executing /\ Progress' = Progress
              /\ ~runOffered' /\ Executing' /\ ~Paused'
           \/ /\ Executing /\ Progress' \in {Progress + 1, Progress + 2}
              /\ runOffered' = runOffered /\ Executing' /\ (Paused' <=> Paused)
           \/ /\ Executing /\ ~Executing' /\ Progress' = Progress
              /\ runOffered' = runOffered /\ (Paused' <=> Paused)
           \/ /\ ~runOffered /\ ~Executing /\ Progress' = Progress
              /\ runOffered' /\ ~Executing'
           \/ /\ Paused /\ ~Paused' /\ Progress' = Progress
              /\ runOffered' = runOffered /\ (Executing' <=> Executing)
           \/ /\ runOffered' = runOffered /\ (Paused' <=> Paused)
              /\ (Executing' <=> Executing) /\ Progress' = Progress
    PROVE  [Lifecycle!Next]_(Lifecycle!vars)
  <1>1. Executing <=> \E w \in Worker : Active(w)
    BY BusyIsExecuting
  <1>2. Executing' <=> (\E w \in Worker : Active(w))'
    BY BusyIsExecuting
  <1>3. runOffered \in BOOLEAN /\ runOffered' \in BOOLEAN
    BY DEF ControlInv, TypeInv, TypeOK
  <1> USE <1>1, <1>2, <1>3 DEF Paused, Progress, Lifecycle!vars, Lifecycle!Next
  <1>4. CASE /\ runOffered /\ ~Executing /\ ~Paused /\ Progress' = 0
             /\ runOffered' /\ ~Executing' /\ ~Paused'
    BY <1>4 DEF Lifecycle!Load
  <1>5. CASE /\ runOffered /\ ~Executing /\ Progress' = Progress
             /\ ~runOffered' /\ Executing' /\ ~Paused'
    BY <1>5 DEF Lifecycle!Start
  <1>6. CASE /\ Executing /\ Progress' \in {Progress + 1, Progress + 2}
             /\ runOffered' = runOffered /\ Executing' /\ (Paused' <=> Paused)
    BY <1>6 DEF Lifecycle!Work
  <1>7. CASE /\ Executing /\ ~Executing' /\ Progress' = Progress
             /\ runOffered' = runOffered /\ (Paused' <=> Paused)
    BY <1>7 DEF Lifecycle!Halt
  <1>8. CASE /\ ~runOffered /\ ~Executing /\ Progress' = Progress
             /\ runOffered' /\ ~Executing'
    BY <1>8 DEF Lifecycle!Settle
  <1>9. CASE /\ Paused /\ ~Paused' /\ Progress' = Progress
             /\ runOffered' = runOffered /\ (Executing' <=> Executing)
    BY <1>9 DEF Lifecycle!Abandon
  <1>10. CASE /\ runOffered' = runOffered /\ (Paused' <=> Paused)
              /\ (Executing' <=> Executing) /\ Progress' = Progress
    BY <1>10
  <1>11. QED
    BY <1>4, <1>5, <1>6, <1>7, <1>8, <1>9, <1>10

LEMMA CurrentMoves ==
    ASSUME ControlInv, NEW w \in Worker, pc[w] \notin {"none", "done"},
           NEW to, Go(w, to), result' = result
    PROVE  Current = pc[w] /\ Current' = to
  <1>1. w = result /\ result > 0 /\ Current = pc[w] /\ pc \in [Worker -> WorkerPc]
    BY CurrentIs DEF ControlInv, Safe, TypeInv, TypeOK
  <1>2. QED
    BY <1>1 DEF Go, Current

LEMMA StartLifecycle ==
    ASSUME ControlInv, ControlInv', Orderly, UserRun \/ GuiLoad \/ GuiStart
    PROVE  [Lifecycle!Next]_(Lifecycle!vars)
  <1> USE DEF Executing, Entering, Looping, Paused, Progress
  <1>1. Progress \in Nat
    BY DEF ControlInv, TypeInv, TypeOK
  <1>2. ASSUME NEW S, Launch(S), UNCHANGED flow, result < MaxRuns, runOffered, ~Executing
        PROVE  [Lifecycle!Next]_(Lifecycle!vars)
    <2>1. result + 1 \in Worker /\ pc \in [Worker -> WorkerPc] /\ result \in Nat
      BY <1>2, MaxRunsAssumption DEF ControlInv, TypeInv, TypeOK, Worker
    <2>2. Current' = "queued" /\ ~runOffered'
      BY <1>2, <2>1 DEF Launch, Current
    <2>3. QED
      BY <1>1, <1>2, <2>2, LifecycleSteps
  <1>3. ASSUME UNCHANGED <<status, runOffered, pc, result, flow>>
        PROVE  [Lifecycle!Next]_(Lifecycle!vars)
    <2>1. Current' = Current
      BY <1>3 DEF Current
    <2>2. QED
      BY <1>1, <1>3, <2>1, LifecycleSteps
  <1>4. CASE UserRun
    <2>1. runOffered /\ ~Executing /\ result < MaxRuns
      BY <1>4, RunFindsNoWorker
    <2>2. QED
      BY <1>2, <1>3, <1>4, <2>1 DEF UserRun, Resume, flowVars
  <1>5. CASE GuiLoad
    <2>1. /\ gui = "load" /\ flow' = NewFlow
          /\ UNCHANGED <<status, runOffered, pc, result>>
      BY <1>5 DEF GuiLoad
    <2>2. runOffered /\ status = "IDLE" /\ Current' = Current /\ ~Executing
      BY <2>1 DEF ControlInv, Safe, Statuses, Display, Current
    <2>3. Progress' = 0
      BY <2>1 DEF NewFlow
    <2>4. QED
      BY <1>1, <2>1, <2>2, <2>3, LifecycleSteps
  <1>6. CASE GuiStart
    <2>1. runOffered /\ ~Executing /\ result < MaxRuns
      BY <1>6 DEF GuiStart, ControlInv, Safe, Statuses, Display, TypeInv, RoomToStart
    <2>2. QED
      BY <1>2, <1>3, <1>6, <2>1 DEF GuiStart, flowVars
  <1>7. QED
    BY <1>4, <1>5, <1>6

(* Showing that a run is over settles it; a pause that is shown, too.      *)
LEMMA FinishedLifecycle ==
    ASSUME ControlInv, ControlInv', UNCHANGED <<flow, pc, result>>, runOffered',
           status' = status \/ status' = "IDLE"
    PROVE  [Lifecycle!Next]_(Lifecycle!vars)
  <1> USE DEF Executing, Entering, Looping, Paused, Progress
  <1>1. Progress \in Nat /\ Progress' = Progress /\ Current' = Current
    BY DEF ControlInv, TypeInv, TypeOK, Current
  <1>2. ~Executing /\ ~Executing'
    BY <1>1 DEF ControlInv, Safe, Display
  <1>3. runOffered' = TRUE /\ runOffered \in BOOLEAN
    BY DEF ControlInv, TypeInv, TypeOK
  <1>4. QED
    BY <1>1, <1>2, <1>3, LifecycleSteps

LEMMA GuiLifecycle ==
    ASSUME ControlInv, ControlInv',
           \/ UserPause \/ UserStop \/ (\E c \in Channel : UserCancelTask(c))
           \/ GuiPause \/ GuiExit \/ GuiWait \/ GuiJoin \/ Deliver
    PROVE  [Lifecycle!Next]_(Lifecycle!vars)
  <1> USE DEF Executing, Entering, Looping, Paused, Progress
  <1>1. Progress \in Nat
    BY DEF ControlInv, TypeInv, TypeOK
  <1>2. UNCHANGED <<flow, pc, result>> /\ Progress' = Progress /\ Current' = Current
    BY DEF UserPause, UserStop, UserCancelTask, GuiPause, GuiExit, GuiWait, GuiJoin,
           Deliver, flowVars, Current
  <1>3. \/ UNCHANGED <<runOffered, status>>
        \/ ~runOffered /\ UNCHANGED runOffered
        \/ status = "RUNNING" /\ UNCHANGED runOffered
        \/ status' = "IDLE" /\ UNCHANGED runOffered
        \/ runOffered' /\ (status' = status \/ status' = "IDLE")
    <2>1. CASE UserPause
      BY <2>1 DEF UserPause
    <2>2. CASE UserStop
      BY <2>2 DEF UserStop, Exit, Finished
    <2>3. CASE \/ (\E c \in Channel : UserCancelTask(c)) \/ GuiExit \/ GuiWait
      BY <2>3 DEF UserCancelTask, GuiExit, GuiWait, guiVars
    <2>4. CASE GuiPause \/ GuiJoin
      BY <2>4 DEF GuiPause, GuiJoin, Finished, guiVars
    <2>5. CASE Deliver
      BY <2>5 DEF Deliver, DeliverNothing, DeliverCount, DeliverCanceled, DeliverFinished,
                  BeginPause, Exit, Finished, guiVars
    <2>6. QED
      BY <2>1, <2>2, <2>3, <2>4, <2>5
  <1>4. CASE runOffered' /\ (status' = status \/ status' = "IDLE")
    BY <1>2, <1>4, FinishedLifecycle
  <1>5. CASE /\ UNCHANGED runOffered
             /\ (status' = status \/ ~runOffered \/ status' = "IDLE")
    BY <1>1, <1>2, <1>5, LifecycleSteps
  <1>6. CASE status = "RUNNING" /\ UNCHANGED runOffered
    <2>1. ~runOffered
      BY <1>6 DEF ControlInv, Safe, Display
    <2>2. QED
      BY <1>5, <1>6, <2>1
  <1>7. QED
    BY <1>3, <1>4, <1>5, <1>6

LEMMA WorkerLifecycle ==
    ASSUME ControlInv, ControlInv', NEW w \in Worker, RunStep(w)
    PROVE  [Lifecycle!Next]_(Lifecycle!vars)
  <1> USE DEF Executing, Entering, Looping, Paused, Progress
  <1>1. /\ flow.iter \in Nat /\ flow.spent \in Nat /\ Progress \in Nat
        /\ flow \in [iter : Nat, spent : Nat, failed : BOOLEAN]
    BY DEF ControlInv, TypeInv, TypeOK
  <1>2. UNCHANGED <<runOffered, result>>
    BY DEF RunStep, Enter, Claim, Fetch, Loop, Eval, Report, guiVars
  <1>3. Executing \/ Executing' => ~runOffered
    BY <1>2 DEF ControlInv, Safe, Display
  <1>4. ASSUME UNCHANGED <<status, flow>>, Executing <=> Executing'
        PROVE  [Lifecycle!Next]_(Lifecycle!vars)
    BY <1>1, <1>2, <1>4, LifecycleSteps
  <1>5. CASE Enter(w) \/ Claim(w) \/ Fetch(w)
    <2>1. /\ pc[w] \in {"queued", "claim", "fetch"} /\ UNCHANGED flow
          /\ \/ pc[w] = "queued" /\ Go(w, IF status = "RUNNING" THEN "iteration" ELSE "claim")
             \/ Go(w, "fetch")
             \/ Go(w, IF hasFlow THEN "loop" ELSE "crashed")
      BY <1>5 DEF Enter, Claim, Fetch, flowVars
    <2>2. /\ Current = pc[w]
          /\ \/ pc[w] = "queued" /\ Current' = IF status = "RUNNING" THEN "iteration" ELSE "claim"
             \/ Current' = "fetch"
             \/ Current' = IF hasFlow THEN "loop" ELSE "crashed"
      BY <1>2, <2>1, CurrentMoves
    <2>3. Executing /\ Executing'
      BY <2>1, <2>2 DEF ControlInv, Safe, Threads, Statuses
    <2>4. QED
      BY <1>1, <1>2, <1>3, <2>1, <2>3, LifecycleSteps
  <1>6. CASE Loop(w) \/ Eval(w)
    <2>1. PICK to \in {"loop", "eval", "iteration", "crashed"} :
             Go(w, to) /\ pc[w] \in {"loop", "eval"}
      BY <1>6 DEF Loop, Eval
    <2>2. Executing /\ Current' = to
      BY <1>2, <2>1, CurrentMoves
    <2>3. to # "crashed"
      BY <2>2 DEF ControlInv, Safe, Threads
    <2>4. CASE to = "iteration"
      <3>1. Progress' = Progress
        BY <1>1, <1>6, <2>1, <2>4 DEF Loop, Eval, Go, ControlInv, TypeInv, TypeOK
      <3>2. QED
        BY <1>1, <1>2, <1>3, <2>2, <2>4, <3>1, LifecycleSteps
    <2>5. CASE to # "iteration"
      <3>1. Executing'
        BY <2>1, <2>2, <2>3, <2>5
      <3>2. Progress' \in {Progress, Progress + 1}
        <4>1. \/ UNCHANGED flow
              \/ flow' = [flow EXCEPT !.iter = @ + 1]
              \/ flow' = [flow EXCEPT !.spent = IF flow.failed THEN @ ELSE @ + 1]
              \/ \E bad \in BOOLEAN : flow' = [flow EXCEPT !.failed = bad]
          BY <1>6 DEF Loop, Eval
        <4>2. QED
          BY <1>1, <4>1
      <3>3. QED
        BY <1>1, <1>2, <1>3, <2>2, <3>1, <3>2, LifecycleSteps
    <2>6. QED
      BY <2>4, <2>5
  <1>7. CASE Report(w)
    <2>1. PICK c \in Channel : Go(w, Following[c]) /\ pc[w] = c
      BY <1>7 DEF Report
    <2>2. Current = c /\ Current' = Following[c] /\ UNCHANGED <<status, flow>>
      BY <1>2, <1>7, <2>1, CurrentMoves DEF Report, flowVars, Channel
    <2>3. QED
      BY <1>4, <2>2 DEF Following, Channel
  <1>8. QED
    BY <1>5, <1>6, <1>7 DEF RunStep

(* The threads, the futures and the events together implement the run life *)
(* cycle that LDesignerWidget shows its user: every step of theirs is a    *)
(* step of RunLifecycle or changes nothing of what it tells.               *)
THEOREM EngineFollowsLifecycle ==
    ASSUME Orderly
    PROVE  Spec => Lifecycle!Init /\ [][Lifecycle!Next]_(Lifecycle!vars)
  <1>1. Init => Lifecycle!Init
    BY DEF Init, NewFlow, Lifecycle!Init, Active
  <1>2. ControlInv /\ ControlInv' /\ [Next]_vars => [Lifecycle!Next]_(Lifecycle!vars)
    <2> SUFFICES ASSUME ControlInv, ControlInv', [Next]_vars
                 PROVE  [Lifecycle!Next]_(Lifecycle!vars)
      OBVIOUS
    <2>1. CASE UNCHANGED vars
      BY <2>1 DEF vars, Lifecycle!vars, Active, flowVars, guiVars
    <2>2. CASE Next
      BY <2>2, StartLifecycle, GuiLifecycle, WorkerLifecycle DEF Next, UserStep, GuiStep
    <2>3. QED
      BY <2>1, <2>2
  <1>3. QED
    BY <1>1, <1>2, ControlInvariant, PTL DEF Spec
=============================================================================
