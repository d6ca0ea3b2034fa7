------------------------------ MODULE MCDocs ------------------------------
(***************************************************************************)
(* Instances of CircleDocs for TLC.                                        *)
(***************************************************************************)
EXTENDS CircleDocs
===========================================================================
