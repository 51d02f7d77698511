------------------------- MODULE MCPolicyDeployment -------------------------
(***************************************************************************)
(* Instances of PolicyDeployment for TLC.                                  *)
(***************************************************************************)
EXTENDS PolicyDeployment

\* A creation and the submission that follows it.
FirstEvents ==
  {[type |-> "created", id |-> p, occurred_at |-> 1] : p \in Policies}
    \cup {[type |-> Service!EventType("submitted"), id |-> p,
           occurred_at |-> 2] : p \in Policies}

==============================================================================
