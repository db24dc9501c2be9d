------------------------------ MODULE Workbench ------------------------------
(***************************************************************************)
(* EngineControl together with the two parts of the GUI that follow it:    *)
(*   - the node objects of the open document (designer/ldesigner), which   *)
(*     the engine keeps pointers to in m_processNodes and tells their      *)
(*     state (updateProcessNodeStatus);                                    *)
(*   - the e-mail notifier (emailnotifier.cpp), which connects itself to   *)
(*     the engine's signals at every click of Run and disconnects itself   *)
(*     at every click of Stop.                                             *)
(* All of it happens on the GUI thread, inside the steps of EngineControl. *)
(* The notifier hears of a click before the designer does: its slots are   *)
(* connected when the plug-ins are loaded (extensionsInitialized), the     *)
(* designer's when the editor is first opened (DesignEditorW::setupActions), *)
(* and Qt calls the slots of a signal in the order of their connection.    *)
(***************************************************************************)
EXTENDS EngineControl

CONSTANTS
    Size,        \* number of nodes of the document
    MaxLinks,    \* bound: duplicate connections that are told apart
    Careful      \* TRUE: nodes are edited only after a run that has ended

ASSUME SizeAssumption == Size \in Nat \ {0} /\ MaxLinks \in Nat \ {0}
ASSUME CarefulAssumption == Careful \in BOOLEAN

Signal == {"enginePaused", "engineFinished"}
Freed  == 0      \* a pointer to a node that was deleted

VARIABLES
    nodes,       \* m_processNodes: positions in the document, or Freed
    edited,      \* the document is modified since it was read
    began,       \* the last click of Run started or resumed a workflow
    links,       \* how often the notifier is connected to each signal
    mails,       \* mails of each kind sent since the last click of Run
    stopped,     \* a click of Stop ended the workflow of that click of Run
    selected     \* what the user wants to be notified of (rigid)

deskVars == <<nodes, edited, began, links, mails, stopped, selected>>

DeskInit ==
    /\ Init
    /\ nodes = <<>>
    /\ edited = FALSE
    /\ began = FALSE
    /\ links = [s \in Signal |-> 0]
    /\ mails = [s \in Signal |-> 0]
    /\ stopped = FALSE
    /\ selected \in SUBSET Signal
-----------------------------------------------------------------------------
Capped(n) == IF n > MaxLinks THEN MaxLinks ELSE n

(* connectEngine(): one more connection to each signal, before the engine  *)
(* is started or resumed. A new click of Run: the counts start again.      *)
ConnectEngine ==
    /\ links' = [s \in Signal |-> Capped(links[s] + 1)]
    /\ mails' = [s \in Signal |-> 0]
    /\ stopped' = FALSE
    /\ began' = (result' # result)
    /\ UNCHANGED selected

\* bug: called after the designer's slot, the notifier still hears of the end
StayConnected ==
    /\ stopped' = (stopped \/ ~runOffered \/ status # "IDLE")
    /\ UNCHANGED <<links, began, mails, selected>>

(* disconnectEngine(): all connections go, before exit() is called.        *)
DisconnectEngine ==
    /\ links' = [s \in Signal |-> 0]
    /\ stopped' = (stopped \/ ~runOffered \/ status # "IDLE")
    /\ UNCHANGED <<began, mails, selected>>

(* sendNotificationsWhenFinished(), ...WhenPaused(): the first of several  *)
(* duplicate connections to be called removes all of them.                 *)
Mail(s) ==
    IF s \in selected /\ links[s] > 0
    THEN [mails EXCEPT ![s] = Capped(@ + 1)] ELSE mails
LinksLeft(s) == IF s \in selected THEN [links EXCEPT ![s] = 0] ELSE links

(* removeAllNodes(): the loop removes the entry at i and then increments i. *)
removeAllNodes == [i \in 1 .. Len(nodes) \div 2 |-> nodes[2 * i]]

\* bug: the lists are not cleared when a workflow has finished
KeepNodes == nodes

unloadDesign == <<>>

(* engineFinished() is emitted: the engine unloads the design, and the     *)
(* notifier is called as often as it is connected.                         *)
EmitFinished ==
    /\ nodes' = unloadDesign
    /\ mails' = Mail("engineFinished")
    /\ links' = LinksLeft("engineFinished")
    /\ UNCHANGED <<edited, began, stopped, selected>>
-----------------------------------------------------------------------------
(* runDesign() returns at once when the engine is running, but the         *)
(* notifier has connected itself already.                                  *)
ClickRun ==
    /\ UserActs /\ runOffered
    /\ IF status = "RUNNING" THEN UNCHANGED vars ELSE UserRun
    /\ ConnectEngine
    /\ UNCHANGED <<nodes, edited>>

(* runDesign(): save() and reload() replace the nodes of a modified        *)
(* document; loadDesign() registers its nodes up to the first it refuses.  *)
LoadNodes ==
    /\ GuiLoad
    /\ LET kept == IF edited THEN [i \in DOMAIN removeAllNodes |-> Freed]
                             ELSE removeAllNodes IN
       \E n \in 0 .. Size :
          /\ gui' = "start" => n = Size
          /\ loaded' => n > 0
          /\ nodes' = kept \o [i \in 1 .. n |-> i]
    /\ edited' = FALSE
    /\ UNCHANGED <<began, links, mails, stopped, selected>>

StartNodes ==
    /\ GuiStart
    /\ began' = (result' # result)
    /\ UNCHANGED <<nodes, edited, links, mails, stopped, selected>>

\* enginePaused() is emitted at the end of pause()
PauseNodes ==
    /\ GuiPause
    /\ \/ /\ gui' = "idle"
          /\ mails' = Mail("enginePaused")
          /\ links' = LinksLeft("enginePaused")
          /\ UNCHANGED <<nodes, edited, began, stopped, selected>>
       \/ gui' = "pause" /\ UNCHANGED deskVars

(* exit() of an idle engine emits engineFinished() at once: the design is  *)
(* unloaded, and the notifier is not connected any more.                   *)
ClickStop ==
    /\ UserStop
    /\ DisconnectEngine
    /\ nodes' = IF status = "IDLE" THEN unloadDesign ELSE nodes
    /\ UNCHANGED edited

\* the end of exit(), called by stopDesign() or by receivedCanceled()
StopNodes == GuiJoin /\ EmitFinished

(* The posted event at hand ends in finished(). *)
EndsRun(e) ==
    /\ ~fut[e.ch].paused
    /\ e.kind = "finished" \/ (e.kind = "canceled" /\ status = "IDLE")

DeliverNodes ==
    /\ Deliver
    /\ \/ EndsRun(Head(queue)) /\ EmitFinished
       \/ ~EndsRun(Head(queue)) /\ UNCHANGED deskVars

(* LDesignerWidget::del: the user deletes a node and puts another in its   *)
(* place. The engine is not told, and nothing in the code prevents it      *)
(* during a run or after a Run that was refused.                           *)
UserEdit ==
    /\ UserActs
    /\ Careful => runOffered /\ status = "IDLE" /\ began
    /\ edited' = TRUE
    /\ \E d \in 1 .. Size :
          nodes' = [i \in DOMAIN nodes |-> IF nodes[i] = d THEN Freed ELSE nodes[i]]
    /\ UNCHANGED <<vars, began, links, mails, stopped, selected>>

DeskNext ==
    /\ ~Crashed
    /\ \/ ClickRun \/ LoadNodes \/ StartNodes \/ PauseNodes
       \/ ClickStop \/ StopNodes \/ DeliverNodes \/ UserEdit
       \/ /\ \/ UserPause \/ GuiExit \/ GuiWait
             \/ \E c \in Channel : UserCancelTask(c)
             \/ \E w \in Worker : RunStep(w)
          /\ UNCHANGED deskVars

DeskSpec == DeskInit /\ [][DeskNext]_<<vars, deskVars>>
-----------------------------------------------------------------------------
(* updateProcessNodeStatus() dereferences every registered node, at every  *)
(* start, resume, pause and end. However a run ended, a node the user      *)
(* deletes afterwards is not among them, nor one that reload() replaced.   *)
Shown == \/ result' # result
         \/ GuiPause /\ gui' = "idle"
         \/ GuiJoin
         \/ UserStop /\ status = "IDLE"
         \/ Deliver /\ EndsRun(Head(queue))
ShownNodesExist ==
    [][Shown => \A i \in DOMAIN nodes : nodes[i] # Freed]_<<vars, deskVars>>

(* Between two clicks of Run each kind of mail is sent at most once,       *)
(* however often the notifier is connected and the signal emitted.         *)
AtMostOneMail == \A s \in Signal : mails[s] <= 1

(* And when everything is quiet, the pause or the end of the workflow that *)
(* the last click started has been announced to a user who asked for it,   *)
(* unless the user stopped it: an end by Stop is never announced, however  *)
(* many signals were posted or emitted before and after the click.         *)
AnnouncedOnce ==
    /\ AtMostOneMail
    /\ Quiet /\ began =>
          LET s == IF status = "PAUSED" THEN "enginePaused" ELSE "engineFinished" IN
          s \in selected => mails[s] = IF status = "IDLE" /\ stopped THEN 0 ELSE 1
=============================================================================
