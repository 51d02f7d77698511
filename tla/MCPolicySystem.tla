--------------------------- MODULE MCPolicySystem ---------------------------
(***************************************************************************)
(* Instances of PolicySystem for TLC.                                      *)
(***************************************************************************)
EXTENDS MCPolicyService, PolicySystem

==============================================================================
