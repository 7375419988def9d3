------------------------------ MODULE MCWsHub ------------------------------
(* TLC instance of WsHub. *)
EXTENDS WsHub
=============================================================================
