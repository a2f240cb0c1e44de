---------------------------- MODULE MCQtiRadioExt ----------------------------
(***************************************************************************)
(* Small instances of QtiRadioExt.  MCCodes has two response methods, so   *)
(* that a response may come under the serial of a request but of another   *)
(* kind.                                                                   *)
(***************************************************************************)
EXTENDS QtiRadioExt

MCCodes == {1, 2}
MCOneCode == {1}
==============================================================================
