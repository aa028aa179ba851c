----------------------------- MODULE MCUploader -----------------------------
(***************************************************************************)
(* Instances of Uploader for TLC.                                          *)
(***************************************************************************)
EXTENDS Uploader, TLC
=============================================================================
