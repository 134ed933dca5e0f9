----------------------------- MODULE MCService -----------------------------
(* Instances of Service.tla for TLC. *)
EXTENDS Service
=============================================================================
