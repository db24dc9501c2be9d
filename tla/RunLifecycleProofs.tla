-------------------------- MODULE RunLifecycleProofs --------------------------
(***************************************************************************)
(* What every implementation of the run life cycle may rely on.            *)
(***************************************************************************)
EXTENDS RunLifecycle, TLAPS

LEMMA InitQuiet == Init => OfferedIsQuiet
  BY DEF Init, OfferedIsQuiet

LEMMA NextQuiet == OfferedIsQuiet /\ [Next]_vars => OfferedIsQuiet'
  <1> SUFFICES ASSUME OfferedIsQuiet, [Next]_vars
               PROVE  OfferedIsQuiet'
    OBVIOUS
  <1>1. CASE Load \/ Start \/ Settle \/ Abandon
    BY <1>1 DEF Load, Start, Settle, Abandon, OfferedIsQuiet
  <1>2. CASE Work \/ Halt
    BY <1>2 DEF Work, Halt, OfferedIsQuiet
  <1>3. CASE UNCHANGED vars
    BY <1>3 DEF vars, OfferedIsQuiet
  <1>4. QED
    BY <1>1, <1>2, <1>3 DEF Next

(* While Run is offered nothing executes, and a paused run is offered to   *)
(* be continued: LDesignerWidget::runDesign may reload or resume.          *)
THEOREM OfferedMeansQuiet == Spec => []OfferedIsQuiet
  BY InitQuiet, NextQuiet, PTL DEF Spec
=============================================================================
