-------------------------- MODULE MCLegacyCollector --------------------------
(* An instance of LegacyCollector for TLC; the bounds are in the cfg. *)
EXTENDS LegacyCollector
=============================================================================
