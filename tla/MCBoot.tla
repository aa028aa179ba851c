------------------------------- MODULE MCBoot -------------------------------
(***************************************************************************)
(* Instances of Boot for TLC.                                              *)
(***************************************************************************)
EXTENDS Boot, TLC
=============================================================================
