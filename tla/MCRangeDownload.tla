-------------------------- MODULE MCRangeDownload ---------------------------
(***************************************************************************)
(* Instances of RangeDownload for TLC.                                     *)
(***************************************************************************)
EXTENDS RangeDownload, TLC
=============================================================================
