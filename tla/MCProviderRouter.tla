-------------------------- MODULE MCProviderRouter --------------------------
(* Instances of ProviderRouter for TLC. *)
EXTENDS ProviderRouter
=============================================================================
