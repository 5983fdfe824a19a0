------------------------------ MODULE MCSlots ------------------------------
(***************************************************************************)
(* Instances of Slots for TLC.                                             *)
(***************************************************************************)
EXTENDS Slots
=============================================================================
