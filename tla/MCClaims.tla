------------------------------ MODULE MCClaims ------------------------------
(***************************************************************************)
(* DocumentedClaims over the constants of the project runs.                *)
(***************************************************************************)
EXTENDS DocumentedClaims, MCProject
=============================================================================
