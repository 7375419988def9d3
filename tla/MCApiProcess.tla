---------------------------- MODULE MCApiProcess ----------------------------
(* TLC instance of ApiProcess. *)
EXTENDS ApiProcess
=============================================================================
