---------------------------- MODULE MCQtiCallModem ----------------------------
(***************************************************************************)
(* Small instances of QtiCallModem: two calls, so that there is one to     *)
(* swap with.                                                              *)
(***************************************************************************)
EXTENDS QtiCallModem

MCCallIds == {1, 2}
MCStates == {"ACTIVE", "HOLDING", "INCOMING", "WAITING", "OTHER"}
==============================================================================
