---- MODULE MCApiServer ----
(* Small instances of ApiServer. *)
EXTENDS ApiServer
============================
