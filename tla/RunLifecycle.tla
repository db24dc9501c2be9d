----------------------------- MODULE RunLifecycle -----------------------------
(***************************************************************************)
(* What the run control promises its user, with no threads, futures or     *)
(* events: a workflow is executed by one run at a time; Run is offered     *)
(* only when nothing executes; a paused run keeps its progress and is      *)
(* either continued or abandoned; a run that was started ends.             *)
(***************************************************************************)
EXTENDS Naturals

VARIABLES
    offered,    \* the user may press Run
    busy,       \* the workflow is being executed, or about to be
    paused,     \* pressing Run continues the suspended run
    progress    \* work done by the current run

vars == <<offered, busy, paused, progress>>

TypeOK == /\ offered \in BOOLEAN
          /\ busy \in BOOLEAN
          /\ paused \in BOOLEAN
          /\ progress \in Nat

Init == offered = TRUE /\ busy = FALSE /\ paused = FALSE /\ progress = 0

(* A new workflow is loaded; the progress of the previous run is given up. *)
Load == /\ offered /\ ~busy /\ ~paused
        /\ progress' = 0
        /\ UNCHANGED <<offered, busy, paused>>

(* Run starts the loaded workflow or continues the paused one.             *)
Start == /\ offered /\ ~busy
         /\ offered' = FALSE /\ busy' = TRUE /\ paused' = FALSE
         /\ UNCHANGED progress

Work == /\ busy
        /\ progress' \in {progress + 1, progress + 2}
        /\ UNCHANGED <<offered, busy, paused>>

Halt == /\ busy
        /\ busy' = FALSE
        /\ UNCHANGED <<offered, paused, progress>>

(* The user is shown that the run is over or suspended.                    *)
Settle == /\ ~offered /\ ~busy
          /\ offered' = TRUE
          /\ paused' \in BOOLEAN
          /\ UNCHANGED <<busy, progress>>

Abandon == /\ paused
           /\ paused' = FALSE
           /\ UNCHANGED <<offered, busy, progress>>

Next == Load \/ Start \/ Work \/ Halt \/ Settle \/ Abandon

Spec == Init /\ [][Next]_vars /\ WF_vars(Halt) /\ WF_vars(Settle)
-----------------------------------------------------------------------------
(* Nothing executes while Run is offered, and only an offered run can be   *)
(* a paused one.                                                           *)
OfferedIsQuiet == (offered => ~busy) /\ (paused => offered)
=============================================================================
