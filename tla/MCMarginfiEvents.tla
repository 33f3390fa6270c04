-------------------------- MODULE MCMarginfiEvents --------------------------
(***************************************************************************)
(* MarginfiEvents on the instance of MCMarginfi.                           *)
(***************************************************************************)
EXTENDS MCMarginfi, MarginfiEvents
=============================================================================
