------------------------------ MODULE MCQtiSlot ------------------------------
(***************************************************************************)
(* Small instances of QtiSlot.                                             *)
(***************************************************************************)
EXTENDS QtiSlot
==============================================================================
