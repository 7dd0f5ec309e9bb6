------------------------------- MODULE MCAbd --------------------------------
(* The register store with its history, for TLC. *)
EXTENDS AbdHistory, MCDsClient
=============================================================================
