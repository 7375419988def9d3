----------------------------- MODULE MCArchiver -----------------------------
(* TLC instance of Archiver. *)
EXTENDS Archiver
=============================================================================
