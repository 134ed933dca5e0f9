----------------------------- MODULE MCHandler -----------------------------
(***************************************************************************)
(* Instances of Handler.tla for TLC: all constants are given in the        *)
(* configuration.  One unit of time stands for two minutes and more.       *)
(***************************************************************************)
EXTENDS Handler
=============================================================================
