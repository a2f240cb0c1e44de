----------------------------- MODULE MCQtiImsSms -----------------------------
(***************************************************************************)
(* Small instances of QtiImsSms.                                           *)
(***************************************************************************)
EXTENDS QtiImsSms
==============================================================================
