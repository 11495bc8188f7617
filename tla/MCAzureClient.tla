-------------------------- MODULE MCAzureClient ----------------------------
(* Instances of AzureClient for TLC. *)
EXTENDS AzureClient
=============================================================================
