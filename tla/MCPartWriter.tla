---------------------------- MODULE MCPartWriter ----------------------------
(***************************************************************************)
(* Instances of PartWriter for TLC.                                        *)
(***************************************************************************)
EXTENDS PartWriter, TLC
=============================================================================
