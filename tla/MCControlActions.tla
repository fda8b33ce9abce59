-------------------------- MODULE MCControlActions --------------------------
(* Model checking of ControlActions: the API handles what it was sent, and  *)
(* the desktop reports and reconnects.                                      *)
EXTENDS ControlActions

FairSpec == ControlSpec /\ WF_controlVars(Api) /\ WF_controlVars(Desktop)
=============================================================================
