--------------------------- MODULE WorkbenchProofs ---------------------------
(***************************************************************************)
(* The workbench only adds to the run control: each of its steps is a step *)
(* of EngineControl or leaves EngineControl's variables alone. However     *)
(* often Run is clicked, an event is announced once; and a careful user    *)
(* never makes the engine show a state at a deleted node.                  *)
(***************************************************************************)
EXTENDS Workbench, EngineControlProofs

deskAll == <<vars, deskVars>>

LEMMA StepIsEngineStep == [DeskNext]_deskAll => [Next]_vars
  <1> SUFFICES ASSUME [DeskNext]_deskAll
               PROVE  [Next]_vars
    OBVIOUS
  <1>1. CASE UNCHANGED deskAll
    BY <1>1 DEF deskAll
  <1>2. CASE DeskNext /\ (ClickRun \/ ClickStop)
    <2>1. UNCHANGED vars \/ UserRun \/ UserStop
      BY <1>2 DEF ClickRun, ClickStop
    <2>2. QED
      BY <1>2, <2>1 DEF DeskNext, Next, UserStep
  <1>3. CASE DeskNext /\ (LoadNodes \/ StartNodes \/ PauseNodes)
    BY <1>3 DEF DeskNext, LoadNodes, StartNodes, PauseNodes, Next, GuiStep
  <1>4. CASE DeskNext /\ (StopNodes \/ DeliverNodes)
    BY <1>4 DEF DeskNext, StopNodes, DeliverNodes, Next, GuiStep
  <1>5. CASE DeskNext /\ UserEdit
    BY <1>5 DEF UserEdit
  <1>6. CASE DeskNext /\ (UserPause \/ \E c \in Channel : UserCancelTask(c))
    BY <1>6 DEF DeskNext, Next, UserStep
  <1>7. CASE DeskNext /\ (GuiExit \/ GuiWait)
    BY <1>7 DEF DeskNext, Next, GuiStep
  <1>8. CASE DeskNext /\ \E w \in Worker : RunStep(w)
    BY <1>8 DEF DeskNext, Next
  <1>9. QED
    BY <1>1, <1>2, <1>3, <1>4, <1>5, <1>6, <1>7, <1>8 DEF DeskNext

(* The workbench implements the run control: all that is proved of the     *)
(* steps of EngineControl holds with the notifier and the document around. *)
THEOREM DeskRunsEngine == DeskSpec => Init /\ [][Next]_vars
  <1>1. DeskInit => Init
    BY DEF DeskInit
  <1>2. QED
    BY <1>1, StepIsEngineStep, PTL DEF DeskSpec, deskAll
-----------------------------------------------------------------------------
(* Once a mail of a kind has been sent, no connection for that kind is     *)
(* left until the next click of Run.                                       *)
MailsSpent == \A s \in Signal : s \in selected /\ links[s] > 0 => mails[s] = 0

MailInv ==
    /\ links \in [Signal -> Nat]
    /\ mails \in [Signal -> Nat]
    /\ AtMostOneMail
    /\ MailsSpent

LEMMA CapTyped == ASSUME NEW n \in Nat PROVE Capped(n) \in Nat /\ Capped(n) <= n
  BY SizeAssumption DEF Capped

LEMMA ConnectMails ==
    ASSUME MailInv, ConnectEngine
    PROVE  MailInv'
  BY CapTyped DEF MailInv, ConnectEngine, AtMostOneMail, MailsSpent

LEMMA DisconnectMails ==
    ASSUME MailInv, DisconnectEngine
    PROVE  MailInv'
  BY DEF MailInv, DisconnectEngine, AtMostOneMail, MailsSpent

LEMMA MailOnce ==
    ASSUME MailInv, NEW s \in Signal, mails' = Mail(s), selected' = selected,
           links' = LinksLeft(s)
    PROVE  MailInv'
  <1>1. mails' \in [Signal -> Nat] /\ links' \in [Signal -> Nat]
    BY CapTyped DEF MailInv, Mail, LinksLeft
  <1>2. \A t \in Signal : mails'[t] <= 1
    <2> SUFFICES ASSUME NEW t \in Signal PROVE mails'[t] <= 1
      OBVIOUS
    <2>1. CASE t = s /\ s \in selected /\ links[s] > 0
      <3>1. mails[s] = 0
        BY <2>1 DEF MailInv, MailsSpent
      <3>2. mails'[s] = Capped(0 + 1)
        BY <2>1, <3>1 DEF MailInv, Mail
      <3>3. QED
        BY <2>1, <3>2, CapTyped
    <2>2. CASE ~(t = s /\ s \in selected /\ links[s] > 0)
      BY <2>2 DEF MailInv, Mail, AtMostOneMail
    <2>3. QED
      BY <2>1, <2>2
  <1>3. ASSUME NEW t \in Signal, t \in selected, links'[t] > 0
        PROVE  mails'[t] = 0
    <2>1. t # s /\ links'[t] = links[t]
      BY <1>3 DEF MailInv, LinksLeft
    <2>2. mails'[t] = mails[t]
      BY <2>1 DEF MailInv, Mail
    <2>3. QED
      BY <1>3, <2>1, <2>2 DEF MailInv, MailsSpent
  <1>4. QED
    BY <1>1, <1>2, <1>3 DEF MailInv, AtMostOneMail, MailsSpent

LEMMA MailsKept ==
    ASSUME MailInv, UNCHANGED <<links, mails, selected>>
    PROVE  MailInv'
  BY DEF MailInv, AtMostOneMail, MailsSpent

LEMMA FinishedMails ==
    ASSUME MailInv, EmitFinished
    PROVE  MailInv'
  BY MailOnce DEF EmitFinished, Signal

LEMMA MailStep == MailInv /\ [DeskNext]_deskAll => MailInv'
  <1> SUFFICES ASSUME MailInv, [DeskNext]_deskAll
               PROVE  MailInv'
    OBVIOUS
  <1>1. CASE UNCHANGED deskAll
    BY <1>1, MailsKept DEF deskAll, deskVars
  <1>2. CASE ClickRun
    BY <1>2, ConnectMails DEF ClickRun
  <1>3. CASE LoadNodes
    BY <1>3, MailsKept DEF LoadNodes
  <1>4. CASE StartNodes
    BY <1>4, MailsKept DEF StartNodes
  <1>5. CASE PauseNodes
    <2>1. CASE UNCHANGED deskVars
      BY <2>1, MailsKept DEF deskVars
    <2>2. CASE ~ UNCHANGED deskVars
      BY <1>5, <2>2, MailOnce DEF PauseNodes, Signal
    <2>3. QED
      BY <2>1, <2>2
  <1>6. CASE ClickStop
    BY <1>6, DisconnectMails DEF ClickStop
  <1>7. CASE StopNodes
    BY <1>7, FinishedMails DEF StopNodes
  <1>8. CASE DeliverNodes
    BY <1>8, FinishedMails, MailsKept DEF DeliverNodes, deskVars
  <1>9. CASE UserEdit
    BY <1>9, MailsKept DEF UserEdit
  <1>10. CASE UNCHANGED deskVars
    BY <1>10, MailsKept DEF deskVars
  <1>11. QED
    BY <1>1, <1>2, <1>3, <1>4, <1>5, <1>6, <1>7, <1>8, <1>9, <1>10 DEF DeskNext

(* However often Run, Pause and Stop are clicked and whatever events are   *)
(* still posted, each kind of mail is sent at most once per click of Run.  *)
THEOREM NotAnnouncedTwice == DeskSpec => []AtMostOneMail
  <1>1. DeskInit => MailInv
    BY DEF DeskInit, MailInv, AtMostOneMail, MailsSpent
  <1>2. MailInv => AtMostOneMail
    BY DEF MailInv
  <1>3. QED
    BY <1>1, <1>2, MailStep, PTL DEF DeskSpec, deskAll
-----------------------------------------------------------------------------
(* A run that ended took its nodes off the lists, and only then are nodes  *)
(* edited: no pointer to a deleted node is ever kept.                      *)
NodesInv ==
    /\ nodes \in Seq(Nat)
    /\ \A i \in DOMAIN nodes : nodes[i] # Freed
    /\ edited => nodes = <<>>
    /\ runOffered /\ status = "IDLE" /\ began /\ gui = "idle" => nodes = <<>>
    /\ gui = "load" => ~began
    /\ gui = "pause" => status # "IDLE"

(* From a click of Run on, the notifier is connected until what it waits   *)
(* for has been announced, unless the user clicks Stop: then the end of    *)
(* the run comes after the notifier has been disconnected.                 *)
Listens(s) == links[s] > 0
Told(s)    == s \in selected => mails[s] = 1
Untold(s)  == s \in selected => mails[s] = 0
ListensTo  == \A s \in Signal : Listens(s)

StoppedInv == stopped =>
    /\ status = "IDLE" /\ gui \notin {"load", "start", "pause"}
    /\ ~runOffered => gui \in {"exit", "wait", "join"}
    /\ ~Listens("engineFinished") /\ Untold("engineFinished")

NoticeInv ==
    /\ ~runOffered => began /\ (stopped \/ ListensTo)
    /\ gui = "pause" => ~runOffered
    /\ gui \in {"load", "start"} => ~began /\ ListensTo
    /\ runOffered /\ status = "PAUSED"
       => began /\ Listens("engineFinished") /\ Told("enginePaused")
    /\ gui \in {"exit", "wait", "join"} => began /\ (stopped \/ Listens("engineFinished"))
    /\ began /\ runOffered /\ status = "IDLE" /\ gui = "idle"
       => stopped \/ Told("engineFinished")
    /\ StoppedInv
-----------------------------------------------------------------------------
LEMMA HalfOfNodes ==
    ASSUME nodes \in Seq(Nat), \A i \in DOMAIN nodes : nodes[i] # Freed
    PROVE  /\ removeAllNodes \in Seq(Nat)
           /\ \A i \in DOMAIN removeAllNodes : removeAllNodes[i] # Freed
           /\ nodes = <<>> => removeAllNodes = <<>>
  <1> DEFINE h == Len(nodes) \div 2
  <1>1. h \in Nat /\ Len(nodes) \in Nat /\ \A i \in 1 .. h : 2 * i \in 1 .. Len(nodes)
    OBVIOUS
  <1>2. (nodes = <<>> => h = 0) /\ removeAllNodes = [i \in 1 .. h |-> nodes[2 * i]]
    BY DEF removeAllNodes
  <1> HIDE DEF h
  <1>3. \A i \in 1 .. h : nodes[2 * i] \in Nat /\ nodes[2 * i] # Freed
    BY <1>1
  <1>4. removeAllNodes \in [1 .. h -> Nat] /\ DOMAIN removeAllNodes = 1 .. h
    BY <1>2, <1>3
  <1>5. removeAllNodes \in Seq(Nat)
    BY <1>1, <1>4
  <1>6. nodes = <<>> => removeAllNodes = <<>>
    BY <1>2, <1>4, <1>5
  <1>7. QED
    BY <1>2, <1>3, <1>4, <1>5, <1>6

LEMMA LoadedNodes ==
    ASSUME NEW kept \in Seq(Nat), \A i \in DOMAIN kept : kept[i] # Freed, NEW n \in Nat,
           NEW q, q = kept \o [i \in 1 .. n |-> i]
    PROVE  q \in Seq(Nat) /\ \A i \in DOMAIN q : q[i] # Freed
  <1> DEFINE r == [i \in 1 .. n |-> i]
  <1>1. r \in [1 .. n -> Nat] /\ DOMAIN r = 1 .. n /\ \A i \in 1 .. n : r[i] = i
    OBVIOUS
  <1>2. r \in Seq(Nat) /\ Len(r) = n
    BY <1>1
  <1>3. q = kept \o r
    OBVIOUS
  <1> HIDE DEF r
  <1>4. q \in Seq(Nat) /\ Len(q) = Len(kept) + n /\ DOMAIN q = 1 .. Len(q)
    BY <1>2, <1>3
  <1>5. ASSUME NEW i \in DOMAIN q
        PROVE  q[i] # Freed
    <2>1. CASE i <= Len(kept)
      <3>1. i \in DOMAIN kept /\ q[i] = kept[i]
        BY <1>2, <1>3, <1>4, <2>1
      <3>2. QED
        BY <3>1
    <2>2. CASE i > Len(kept)
      <3>1. q[i] = r[i - Len(kept)] /\ i - Len(kept) \in 1 .. n
        BY <1>2, <1>3, <1>4, <2>2
      <3>2. QED
        BY <1>1, <3>1 DEF Freed
    <2>3. QED
      BY <1>4, <2>1, <2>2
  <1>6. QED
    BY <1>4, <1>5

LEMMA NodesKept ==
    ASSUME NodesInv, UNCHANGED <<nodes, edited>>,
           runOffered' /\ status' = "IDLE" /\ began' /\ gui' = "idle"
           => runOffered /\ status = "IDLE" /\ began /\ gui = "idle",
           gui' = "load" => ~began',
           gui' = "pause" => status' # "IDLE"
    PROVE  NodesInv'
  BY DEF NodesInv

LEMMA NodesUnloaded ==
    ASSUME NodesInv, nodes' = unloadDesign, gui' \notin {"load", "pause"}
    PROVE  NodesInv'
  <1>1. nodes' = <<>> /\ <<>> \in Seq(Nat)
    BY DEF unloadDesign
  <1>2. QED
    BY <1>1 DEF NodesInv

LEMMA ExitOrFinished ==
    ASSUME Exit
    PROVE  /\ gui' \in {"idle", "exit", "join"} /\ status' = "IDLE"
           /\ status # "IDLE" => gui' # "idle"
  BY DEF Exit, Finished

LEMMA NodesStep ==
    ASSUME Careful
    PROVE  NodesInv /\ [DeskNext]_deskAll => NodesInv'
  <1> SUFFICES ASSUME NodesInv, [DeskNext]_deskAll
               PROVE  NodesInv'
    OBVIOUS
  <1>1. CASE UNCHANGED deskAll
    BY <1>1 DEF deskAll, deskVars, vars, guiVars, NodesInv
  <1>2. CASE ClickRun
    <2>1. /\ UNCHANGED <<nodes, edited>> /\ status' = status
          /\ gui' = "load" \/ status \in {"RUNNING", "PAUSED"}
          /\ gui = "idle" /\ gui' \in {"idle", "load"} /\ (gui' = "load" => ~began')
      BY <1>2 DEF ClickRun, UserRun, UserActs, Resume, ConnectEngine, vars, guiVars
    <2>2. QED
      BY <2>1, NodesKept
  <1>3. CASE LoadNodes
    <2>1. PICK n \in 0 .. Size :
             nodes' = (IF edited THEN [i \in DOMAIN removeAllNodes |-> Freed]
                       ELSE removeAllNodes) \o [i \in 1 .. n |-> i]
      BY <1>3 DEF LoadNodes
    <2>2. /\ removeAllNodes \in Seq(Nat)
          /\ \A i \in DOMAIN removeAllNodes : removeAllNodes[i] # Freed
          /\ edited => removeAllNodes = <<>>
      BY HalfOfNodes DEF NodesInv
    <2>3. edited => [i \in DOMAIN removeAllNodes |-> Freed] = <<>>
      BY <2>2
    <2>4. nodes' = removeAllNodes \o [i \in 1 .. n |-> i] /\ n \in Nat
      <3> DEFINE new == [i \in 1 .. n |-> i]
                 gone == [i \in DOMAIN removeAllNodes |-> Freed]
      <3>1. n \in Nat
        BY SizeAssumption
      <3>2. nodes' = (IF edited THEN gone ELSE removeAllNodes) \o new
        BY <2>1
      <3>3. edited => gone = removeAllNodes
        BY <2>2, <2>3
      <3> HIDE DEF new, gone
      <3>4. nodes' = removeAllNodes \o new
        BY <3>2, <3>3
      <3>5. QED
        BY <3>1, <3>4 DEF new
    <2>5. nodes' \in Seq(Nat) /\ \A i \in DOMAIN nodes' : nodes'[i] # Freed
      BY <2>2, <2>4, LoadedNodes
    <2>6. /\ edited' = FALSE /\ gui' \in {"idle", "start"} /\ ~began'
      BY <1>3 DEF LoadNodes, GuiLoad, NodesInv
    <2>7. QED
      BY <2>5, <2>6 DEF NodesInv
  <1>4. CASE StartNodes
    <2>1. UNCHANGED <<nodes, edited>> /\ gui' = "idle" /\ (began' <=> result' # result)
      BY <1>4 DEF StartNodes, GuiStart
    <2>2. runOffered' => ~began'
      BY <1>4, <2>1 DEF StartNodes, GuiStart, Launch
    <2>3. QED
      BY <2>1, <2>2, NodesKept
  <1>5. CASE PauseNodes
    <2>1. /\ UNCHANGED <<nodes, edited>> /\ status' = status
          /\ gui = "pause" /\ gui' \in {"idle", "pause"}
      BY <1>5 DEF PauseNodes, GuiPause, deskVars
    <2>2. status # "IDLE"
      BY <2>1 DEF NodesInv
    <2>3. QED
      BY <2>1, <2>2, NodesKept
  <1>6. CASE ClickStop
    <2>1. CASE status = "IDLE"
      BY <1>6, <2>1, NodesUnloaded, ExitOrFinished DEF ClickStop, UserStop
    <2>2. CASE status # "IDLE"
      <3>1. UNCHANGED <<nodes, edited>>
        BY <1>6, <2>2 DEF ClickStop
      <3>2. QED
        BY <1>6, <2>2, <3>1, NodesKept, ExitOrFinished DEF ClickStop, UserStop
    <2>3. QED
      BY <2>1, <2>2
  <1>7. CASE StopNodes
    BY <1>7, NodesUnloaded DEF StopNodes, GuiJoin, Finished, EmitFinished
  <1>8. CASE DeliverNodes
    <2> DEFINE e == Head(queue)
    <2>1. CASE EndsRun(e) /\ EmitFinished
      <3>1. gui' = "idle"
        BY <1>8, <2>1 DEF DeliverNodes, Deliver, EndsRun, DeliverNothing, DeliverCount,
                          DeliverCanceled, DeliverFinished, Exit, Finished
      <3>2. QED
        BY <2>1, <3>1, NodesUnloaded DEF EmitFinished
    <2>2. CASE ~EndsRun(e) /\ UNCHANGED deskVars
      <3>1. /\ gui = "idle"
            /\ \/ UNCHANGED <<status, gui, runOffered>>
               \/ status' = "PAUSED" /\ gui' = "pause"
               \/ Exit /\ status # "IDLE"
        BY <1>8, <2>2 DEF DeliverNodes, Deliver, EndsRun, DeliverNothing, DeliverCount,
                          DeliverCanceled, DeliverFinished, BeginPause, guiVars
      <3>2. QED
        BY <2>2, <3>1, NodesKept, ExitOrFinished DEF deskVars
    <2>3. QED
      BY <1>8, <2>1, <2>2 DEF DeliverNodes
  <1>9. CASE UserEdit
    <2>1. /\ runOffered /\ status = "IDLE" /\ began /\ gui = "idle"
          /\ UNCHANGED <<status, gui, runOffered, began>>
          /\ \E d \in 1 .. Size :
                nodes' = [i \in DOMAIN nodes |-> IF nodes[i] = d THEN Freed ELSE nodes[i]]
      BY <1>9 DEF UserEdit, UserActs, vars, guiVars
    <2>2. nodes = <<>> /\ nodes' = <<>>
      <3>1. nodes = <<>>
        BY <2>1 DEF NodesInv
      <3>2. nodes' = <<>>
        BY <2>1, <3>1
      <3>3. QED
        BY <3>1, <3>2
    <2>3. QED
      BY <2>1, <2>2 DEF NodesInv
  <1>10. CASE UNCHANGED deskVars /\ UserPause
    BY <1>10, NodesKept DEF deskVars, UserPause, BeginPause
  <1>11. CASE UNCHANGED deskVars /\ (GuiExit \/ GuiWait)
    BY <1>11, NodesKept DEF deskVars, GuiExit, GuiWait
  <1>12. CASE UNCHANGED deskVars /\ \E c \in Channel : UserCancelTask(c)
    BY <1>12, NodesKept DEF deskVars, UserCancelTask, UserActs, guiVars
  <1>13. ASSUME UNCHANGED deskVars, NEW w \in Worker, RunStep(w)
         PROVE  NodesInv'
    <2>1. UNCHANGED <<nodes, edited, began, gui, runOffered>>
      BY <1>13 DEF deskVars, RunStep, Enter, Claim, Fetch, Loop, Eval, Report, guiVars
    <2>2. status' = status \/ status' = "RUNNING"
      BY <1>13 DEF RunStep, Enter, Claim, Fetch, Loop, Eval, Report
    <2>3. QED
      BY <2>1, <2>2 DEF NodesInv
  <1>14. QED
    BY <1>1, <1>2, <1>3, <1>4, <1>5, <1>6, <1>7, <1>8, <1>9, <1>10, <1>11, <1>12, <1>13
    DEF DeskNext

(* For a user who edits the document only after a run that has ended,      *)
(* updateProcessNodeStatus() never meets a deleted node, whatever order    *)
(* the engine's threads take.                                              *)
THEOREM NodesShownExist ==
    ASSUME Careful
    PROVE  DeskSpec => ShownNodesExist
  <1>1. DeskInit => NodesInv
    <2> SUFFICES ASSUME DeskInit PROVE NodesInv
      OBVIOUS
    <2>1. nodes = <<>> /\ nodes \in Seq(Nat) /\ edited = FALSE /\ began = FALSE
      <3>1. <<>> \in Seq(Nat)
        OBVIOUS
      <3>2. QED
        BY <3>1 DEF DeskInit
    <2>2. gui = "idle"
      BY DEF DeskInit, Init
    <2>3. QED
      BY <2>1, <2>2 DEF NodesInv
  <1>2. NodesInv /\ [DeskNext]_deskAll
        => [Shown => \A i \in DOMAIN nodes : nodes[i] # Freed]_deskAll
    BY DEF NodesInv
  <1>3. QED
    BY <1>1, <1>2, NodesStep, PTL DEF DeskSpec, ShownNodesExist, deskAll
-----------------------------------------------------------------------------
(* What telling the user does: when the notifier still listens, or has told *)
(* already, the user who asked has been told.                              *)
LEMMA TellOnce ==
    ASSUME MailInv, NEW s \in Signal, Listens(s) \/ Told(s), mails' = Mail(s),
           selected' = selected
    PROVE  Told(s)'
  <1>1. CASE s \in selected /\ links[s] > 0
    <2>1. mails[s] = 0
      BY <1>1 DEF MailInv, MailsSpent
    <2>2. mails'[s] = Capped(1)
      BY <1>1, <2>1 DEF MailInv, Mail
    <2>3. Capped(1) = 1
      BY SizeAssumption DEF Capped
    <2>4. QED
      BY <2>2, <2>3 DEF Told
  <1>2. CASE ~(s \in selected /\ links[s] > 0)
    BY <1>2 DEF Mail, Told, Listens
  <1>3. QED
    BY <1>1, <1>2

LEMMA ConnectListens ==
    ASSUME MailInv, ConnectEngine
    PROVE  ListensTo'
  <1>1. ASSUME NEW s \in Signal
        PROVE  Capped(links[s] + 1) > 0
    BY SizeAssumption DEF Capped, MailInv
  <1>2. QED
    BY <1>1 DEF ConnectEngine, Listens, ListensTo

(* The end of a run is told to whoever waits for it; a user who stopped it *)
(* does not.                                                               *)
LEMMA FinishedTold ==
    ASSUME ControlInv, MailInv, NoticeInv, Finished, EmitFinished,
           gui \in {"idle", "join"}, status # "RUNNING" \/ ~runOffered
    PROVE  NoticeInv'
  <1>1. /\ runOffered' = TRUE /\ gui' = "idle" /\ status' = "IDLE"
        /\ mails' = Mail("engineFinished") /\ UNCHANGED <<began, stopped, selected>>
        /\ links' = LinksLeft("engineFinished")
    BY DEF Finished, EmitFinished
  <1>2. "engineFinished" \in Signal
    BY DEF Signal
  <1>3. began => stopped \/ Listens("engineFinished") \/ Told("engineFinished")
    <2>1. status \in Status /\ (gui = "join" => status = "IDLE")
      BY DEF ControlInv, Safe, Statuses, TypeInv, TypeOK
    <2>2. QED
      BY <1>2, <2>1 DEF NoticeInv, ListensTo, Status
  <1>4. began => stopped \/ Told("engineFinished")'
    BY <1>1, <1>2, <1>3, TellOnce
  <1>5. stopped => ~Listens("engineFinished")' /\ Untold("engineFinished")'
    <2> SUFFICES ASSUME stopped
                 PROVE  ~Listens("engineFinished")' /\ Untold("engineFinished")'
      OBVIOUS
    <2>1. ~Listens("engineFinished") /\ Untold("engineFinished")
      BY DEF NoticeInv, StoppedInv
    <2>2. mails' = mails
      BY <1>1, <2>1 DEF Mail, Listens
    <2>3. ~(links'["engineFinished"] > 0)
      BY <1>1, <1>2, <2>1 DEF LinksLeft, Listens, MailInv
    <2>4. QED
      BY <1>1, <2>1, <2>2, <2>3 DEF Listens, Untold
  <1>6. QED
    BY <1>1, <1>4, <1>5 DEF NoticeInv, StoppedInv

LEMMA NoticeKept ==
    ASSUME NoticeInv,
           UNCHANGED <<links, mails, stopped, selected, began, runOffered>>,
           gui' = "pause" => gui = "pause" \/ ~runOffered,
           gui' \in {"load", "start"} => gui \in {"load", "start"},
           runOffered /\ status' = "PAUSED" => status = "PAUSED",
           gui' \in {"exit", "wait", "join"}
           => gui \in {"exit", "wait", "join"} \/ status = "PAUSED" \/ ~runOffered,
           runOffered /\ status' = "IDLE" /\ gui' = "idle" => status = "IDLE" /\ gui = "idle",
           stopped => /\ status' = "IDLE"
                      /\ gui' = gui \/ {gui, gui'} \subseteq {"exit", "wait", "join"}
    PROVE  NoticeInv'
  <1>1. \A s : /\ Listens(s)' = Listens(s) /\ Told(s)' = Told(s)
               /\ Untold(s)' = Untold(s)
    BY DEF Listens, Told, Untold
  <1>2. "engineFinished" \in Signal
    BY DEF Signal
  <1>3. ListensTo' = ListensTo
    BY <1>1 DEF ListensTo
  <1>4. StoppedInv'
    BY <1>1 DEF NoticeInv, StoppedInv
  <1>5. QED
    BY <1>1, <1>2, <1>3, <1>4 DEF NoticeInv, ListensTo

(* exit() of a running or paused engine begins at a click of Stop, which   *)
(* disconnects the notifier, or at the cross of a task, which does not.    *)
LEMMA ExitNotice ==
    ASSUME ControlInv, MailInv, NoticeInv, Exit, status # "IDLE", gui = "idle",
           \/ DisconnectEngine
           \/ UNCHANGED <<links, mails, stopped, selected, began>>
    PROVE  NoticeInv'
  <1>1. \/ status = "RUNNING" /\ status' = "IDLE" /\ gui' = "exit" /\ UNCHANGED runOffered
        \/ status = "PAUSED" /\ status' = "IDLE" /\ gui' = "join" /\ UNCHANGED runOffered
    BY DEF Exit
  <1>2. runOffered => status # "RUNNING"
    BY DEF ControlInv, Safe, Display
  <1>3. ~stopped
    BY DEF NoticeInv, StoppedInv
  <1>4. CASE UNCHANGED <<links, mails, stopped, selected, began>>
    BY <1>1, <1>2, <1>3, <1>4, NoticeKept
  <1>5. CASE DisconnectEngine
    <2>1. /\ stopped' /\ UNCHANGED <<mails, selected, began>>
          /\ links' = [s \in Signal |-> 0]
      BY <1>5 DEF DisconnectEngine
    <2>2. "engineFinished" \in Signal
      BY DEF Signal
    <2>3. began /\ Listens("engineFinished")
      BY <1>1, <1>2, <1>3, <2>2 DEF NoticeInv, ListensTo
    <2>4. Untold("engineFinished")'
      BY <2>1, <2>2, <2>3 DEF MailInv, MailsSpent, Listens, Untold
    <2>5. ~Listens("engineFinished")'
      BY <2>1, <2>2 DEF Listens
    <2>6. QED
      BY <1>1, <2>1, <2>3, <2>4, <2>5 DEF NoticeInv, StoppedInv
  <1>6. QED
    BY <1>4, <1>5

LEMMA NoticeStep ==
    ASSUME ControlInv, ControlInv', MailInv, NoticeInv, [DeskNext]_deskAll
    PROVE  NoticeInv'
  <1>0. stopped => status = "IDLE" /\ gui \notin {"load", "start", "pause"}
    BY DEF NoticeInv, StoppedInv
  <1>1. CASE UNCHANGED deskAll
    <2>1. UNCHANGED <<links, mails, stopped, selected, began, runOffered, gui, status>>
      BY <1>1 DEF deskAll, deskVars, vars, guiVars
    <2>2. QED
      BY <1>0, <2>1, NoticeKept
  <1>2. CASE ClickRun
    <2>1. runOffered /\ status # "RUNNING" /\ gui = "idle" /\ UserRun
      BY <1>2 DEF ClickRun, UserActs, ControlInv, Safe, Display
    <2>2. ListensTo' /\ ~stopped' /\ (began' <=> result' # result)
      BY <1>2, ConnectListens DEF ClickRun, ConnectEngine
    <2>3. CASE status = "PAUSED"
      <3>1. /\ ~runOffered' /\ status' = "PAUSED" /\ gui' = "idle" /\ result' = result + 1
        BY <2>1, <2>3 DEF UserRun, Resume, Launch
      <3>2. began'
        BY <2>2, <3>1 DEF ControlInv, TypeInv, TypeOK
      <3>3. QED
        BY <2>2, <3>1, <3>2 DEF NoticeInv, StoppedInv
    <2>4. CASE status = "IDLE"
      <3>1. gui' = "load" /\ UNCHANGED <<status, runOffered, result>>
        BY <2>1, <2>4 DEF UserRun, Resume
      <3>2. QED
        BY <2>1, <2>2, <2>4, <3>1 DEF NoticeInv, StoppedInv
    <2>5. QED
      BY <2>1, <2>3, <2>4 DEF UserRun, Resume
  <1>3. CASE LoadNodes
    <2>1. /\ gui = "load" /\ UNCHANGED <<status, runOffered>> /\ gui' \in {"idle", "start"}
          /\ UNCHANGED <<began, links, mails, stopped, selected>>
      BY <1>3 DEF LoadNodes, GuiLoad
    <2>2. runOffered /\ status = "IDLE"
      BY <2>1 DEF ControlInv, Safe, Statuses
    <2>3. ~began /\ ListensTo /\ ~stopped
      BY <1>0, <2>1 DEF NoticeInv
    <2>4. ListensTo'
      BY <2>1, <2>3 DEF ListensTo, Listens
    <2>5. QED
      BY <2>1, <2>2, <2>3, <2>4 DEF NoticeInv, StoppedInv
  <1>4. CASE StartNodes
    <2>1. /\ gui' = "idle" /\ gui = "start" /\ UNCHANGED status
          /\ UNCHANGED <<links, mails, stopped, selected>>
          /\ began' <=> result' # result
          /\ ~runOffered' \/ UNCHANGED <<result, runOffered>>
      BY <1>4 DEF StartNodes, GuiStart, Launch
    <2>2. runOffered /\ status = "IDLE"
      BY <2>1 DEF ControlInv, Safe, Statuses
    <2>3. result' # result \/ UNCHANGED <<result, runOffered>>
      BY <1>4 DEF StartNodes, GuiStart, Launch, ControlInv, TypeInv, TypeOK
    <2>4. ListensTo /\ ~stopped
      BY <1>0, <2>1 DEF NoticeInv
    <2>5. ListensTo'
      BY <2>1, <2>4 DEF ListensTo, Listens
    <2>6. QED
      BY <2>1, <2>2, <2>3, <2>4, <2>5 DEF NoticeInv, StoppedInv
  <1>5. CASE PauseNodes
    <2>1. CASE gui' = "idle" /\ mails' = Mail("enginePaused")
                             /\ links' = LinksLeft("enginePaused")
                             /\ UNCHANGED <<nodes, edited, began, stopped, selected>>
      <3>1. gui = "pause" /\ status = "PAUSED" /\ status' = status
        BY <1>5 DEF PauseNodes, GuiPause, ControlInv, Safe, Statuses
      <3>2. began /\ ~stopped /\ \A s \in Signal : Listens(s)
        BY <1>0, <3>1 DEF NoticeInv, ListensTo
      <3>3. "enginePaused" \in Signal /\ "engineFinished" \in Signal
        BY DEF Signal
      <3>4. Told("enginePaused")'
        BY <2>1, <3>2, <3>3, TellOnce
      <3>5. Listens("engineFinished")'
        BY <2>1, <3>2, <3>3 DEF LinksLeft, Listens, MailInv
      <3>6. runOffered'
        BY <1>5, <2>1, <3>1 DEF PauseNodes, GuiPause, guiVars
      <3>7. QED
        BY <2>1, <3>1, <3>2, <3>4, <3>5, <3>6 DEF NoticeInv, StoppedInv
    <2>2. CASE gui' = "pause" /\ UNCHANGED deskVars
      <3>1. /\ gui = "pause" /\ UNCHANGED <<status, runOffered>>
        BY <1>5, <2>2 DEF PauseNodes, GuiPause, guiVars
      <3>2. QED
        BY <1>0, <2>2, <3>1, NoticeKept DEF deskVars
    <2>3. QED
      BY <1>5, <2>1, <2>2 DEF PauseNodes
  <1>6. CASE ClickStop
    <2>1. gui = "idle" /\ Exit
      BY <1>6 DEF ClickStop, UserStop, UserActs
    <2>2. CASE status = "IDLE"
      <3>1. /\ runOffered' = TRUE /\ gui' = "idle" /\ status' = "IDLE"
            /\ UNCHANGED <<mails, selected, began>>
            /\ stopped' <=> stopped \/ ~runOffered
            /\ links' = [s \in Signal |-> 0]
        BY <1>6, <2>1, <2>2 DEF Exit, Finished, ClickStop, DisconnectEngine
      <3>2. "engineFinished" \in Signal
        BY DEF Signal
      <3>3. began => stopped' \/ Told("engineFinished")
        BY <2>1, <2>2, <3>1 DEF NoticeInv
      <3>4. stopped \/ ~runOffered => Untold("engineFinished")
        BY <3>2 DEF NoticeInv, StoppedInv, ListensTo, Listens, Untold, MailInv, MailsSpent
      <3>5. /\ ~Listens("engineFinished")' /\ Told("engineFinished")' = Told("engineFinished")
            /\ Untold("engineFinished")' = Untold("engineFinished")
        BY <3>1, <3>2 DEF Listens, Told, Untold
      <3>6. QED
        BY <3>1, <3>3, <3>4, <3>5 DEF NoticeInv, StoppedInv
    <2>3. CASE status # "IDLE"
      BY <1>6, <2>1, <2>3, ExitNotice DEF ClickStop
    <2>4. QED
      BY <2>2, <2>3
  <1>7. CASE StopNodes
    <2>1. gui = "join" /\ Finished /\ EmitFinished
      BY <1>7 DEF StopNodes, GuiJoin
    <2>2. status # "RUNNING"
      BY <2>1 DEF ControlInv, Safe, Statuses
    <2>3. QED
      BY <2>1, <2>2, FinishedTold
  <1>8. CASE DeliverNodes
    <2> DEFINE e == Head(queue)
    <2>1. CASE EndsRun(e) /\ EmitFinished
      <3>1. Finished /\ gui = "idle"
        BY <1>8, <2>1 DEF DeliverNodes, Deliver, EndsRun, DeliverNothing, DeliverCount,
                          DeliverCanceled, DeliverFinished, Exit
      <3>2. runOffered => status # "RUNNING"
        BY DEF ControlInv, Safe, Display
      <3>3. QED
        BY <2>1, <3>1, <3>2, FinishedTold
    <2>2. CASE ~EndsRun(e) /\ UNCHANGED deskVars
      <3>1. /\ gui = "idle"
            /\ \/ UNCHANGED <<status, gui, runOffered>>
               \/ status = "RUNNING" /\ BeginPause /\ UNCHANGED runOffered
               \/ Exit /\ status # "IDLE"
        BY <1>8, <2>2 DEF DeliverNodes, Deliver, EndsRun, DeliverNothing, DeliverCount,
                          DeliverCanceled, DeliverFinished, BeginPause, guiVars
      <3>2. runOffered => status # "RUNNING"
        BY DEF ControlInv, Safe, Display
      <3>3. QED
        BY <1>0, <2>2, <3>1, <3>2, NoticeKept, ExitNotice DEF deskVars, BeginPause
    <2>3. QED
      BY <1>8, <2>1, <2>2 DEF DeliverNodes
  <1>9. CASE UserEdit
    <2>1. UNCHANGED <<links, mails, stopped, selected, began, runOffered, gui, status>>
      BY <1>9 DEF UserEdit, vars, guiVars
    <2>2. QED
      BY <1>0, <2>1, NoticeKept
  <1>10. CASE UNCHANGED deskVars /\ UserPause
    <2>1. /\ ~runOffered /\ UNCHANGED runOffered /\ gui' = "pause"
          /\ status = "RUNNING" /\ status' = "PAUSED"
      BY <1>10 DEF UserPause, BeginPause
    <2>2. QED
      BY <1>0, <1>10, <2>1, NoticeKept DEF deskVars
  <1>11. CASE UNCHANGED deskVars /\ (GuiExit \/ GuiWait)
    <2>1. /\ gui \in {"exit", "wait"} /\ gui' \in {"exit", "wait", "join"}
          /\ UNCHANGED <<status, runOffered>>
      BY <1>11 DEF GuiExit, GuiWait
    <2>2. QED
      BY <1>0, <1>11, <2>1, NoticeKept DEF deskVars
  <1>12. CASE UNCHANGED deskVars /\ \E c \in Channel : UserCancelTask(c)
    BY <1>0, <1>12, NoticeKept DEF deskVars, UserCancelTask, UserActs, guiVars
  <1>13. ASSUME UNCHANGED deskVars, NEW w \in Worker, RunStep(w)
         PROVE  NoticeInv'
    <2>1. /\ UNCHANGED <<links, mails, stopped, selected, began, gui, runOffered>>
          /\ status' = status \/ status' = "RUNNING"
      BY <1>13 DEF deskVars, RunStep, Enter, Claim, Fetch, Loop, Eval, Report, guiVars
    <2>2. stopped => status' # "RUNNING"
      BY <2>1 DEF NoticeInv, StoppedInv, ControlInv, Safe, Statuses, Display
    <2>3. QED
      BY <1>0, <2>1, <2>2, NoticeKept
  <1>14. QED
    BY <1>1, <1>2, <1>3, <1>4, <1>5, <1>6, <1>7, <1>8, <1>9, <1>10, <1>11, <1>12, <1>13
    DEF DeskNext

(* When the pause or the end of a run that the last click started is shown *)
(* for good, the user who asked for it has been sent one mail of it; none  *)
(* if the user stopped it, since the notifier is disconnected before       *)
(* exit() is called.                                                       *)
THEOREM WorkflowAnnouncedOnce ==
    ASSUME Orderly
    PROVE  DeskSpec => []AnnouncedOnce
  <1>1. DeskInit => Init /\ MailInv /\ NoticeInv
    BY DEF DeskInit, Init, MailInv, AtMostOneMail, MailsSpent, NoticeInv, StoppedInv
  <1>2. ControlInv /\ [DeskNext]_deskAll => ControlInv'
    BY NextControl, StepIsEngineStep
  <1>3. ControlInv /\ MailInv /\ NoticeInv => AnnouncedOnce
    <2> SUFFICES ASSUME ControlInv, MailInv, NoticeInv
                 PROVE  AnnouncedOnce
      OBVIOUS
    <2>1. AtMostOneMail
      BY DEF MailInv
    <2>2. ASSUME Quiet, began
          PROVE  \/ status = "PAUSED" /\ Told("enginePaused")
                 \/ status = "IDLE" /\ ~stopped /\ Told("engineFinished")
                 \/ status = "IDLE" /\ stopped /\ Untold("engineFinished")
      <3>1. QuietConsistent
        BY QuietIsConsistent
      <3>2. runOffered /\ status \in {"IDLE", "PAUSED"} /\ gui = "idle"
        BY <2>2, <3>1 DEF QuietConsistent, Quiet, ControlInv, TypeInv, TypeOK, Status
      <3>3. QED
        BY <2>2, <3>2 DEF NoticeInv, StoppedInv
    <2>3. QED
      BY <2>1, <2>2 DEF AnnouncedOnce, Told, Untold
  <1>4. ControlInv /\ ControlInv' /\ MailInv /\ NoticeInv /\ [DeskNext]_deskAll => NoticeInv'
    BY NoticeStep
  <1>5. QED
    BY <1>1, <1>2, <1>3, <1>4, InitControl, MailStep, PTL DEF DeskSpec, deskAll
=============================================================================
