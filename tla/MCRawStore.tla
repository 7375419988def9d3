----------------------------- MODULE MCRawStore -----------------------------
(* TLC instance of RawStore. *)
EXTENDS RawStore
=============================================================================
