----------------------------- MODULE MCQtiImsCall -----------------------------
(***************************************************************************)
(* Small instances of QtiImsCall: two calls, so that one can be active     *)
(* while another waits or is on hold.                                      *)
(***************************************************************************)
EXTENDS QtiImsCall

MCCallIds == {1, 2}
MCSwapStates == {"ACTIVE", "HOLDING", "INCOMING"}
MCTwoStates == {"ACTIVE", "HOLDING"}
==============================================================================
