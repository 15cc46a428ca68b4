------------------------------ MODULE MCProject -----------------------------
(***************************************************************************)
(* CliProject over the workflows of MCGraphs.                              *)
(***************************************************************************)
EXTENDS CliProject, MCGraphs
=============================================================================
