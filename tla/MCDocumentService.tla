-------------------------- MODULE MCDocumentService --------------------------
(* Instances of DocumentService for TLC. *)
EXTENDS DocumentService, TLC
Symmetry == Permutations(Handlers) \cup Permutations(Policies)
SomeStatuses == {"active", "cancelled"}
==============================================================================
