-------------------------- MODULE MCGatewayRuntime --------------------------
(* TLC instance of GatewayRuntime. *)
EXTENDS GatewayRuntime
=============================================================================
