----------------------------- MODULE MCRequests -----------------------------
(***************************************************************************)
(* Instances of Requests.tla for TLC.                                      *)
(***************************************************************************)
EXTENDS Requests

MCProc == Request \cup Registrar \cup {Stopper}
=============================================================================
