------------------------------- MODULE MCQtiIms -------------------------------
(***************************************************************************)
(* Small instances of QtiIms.  Of the states the code translates as they   *)
(* are, two are enough to tell an older report from a newer one.           *)
(***************************************************************************)
EXTENDS QtiIms

MCReported == {"REGISTERED", "NOT_REGISTERED", "INVALID"}
MCTwoReported == {"REGISTERED", "INVALID"}
==============================================================================
