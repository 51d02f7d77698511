--------------------------- MODULE MCPolicyService ---------------------------
(***************************************************************************)
(* Instances of PolicyService for TLC.                                     *)
(***************************************************************************)
EXTENDS PolicyService, TLC

HandlerSymmetry == Permutations(Handlers)
Symmetry == Permutations(Handlers) \cup Permutations(Policies)
              \cup Permutations(Numbers)

\* The operations the router serves, without the two reads that change nothing.
RoutedOps == {"create", "update", "delete", "submit", "activate", "cancel"}
WriteOps == RoutedOps \cup {"reject", "expire"}
AllOps == WriteOps \cup {"get", "history"}
DraftOps == {"create", "submit", "update"}

\* One caller's own words, and none.
CallerReasons == {"", "moving abroad"}

\* And words that only the database refuses.
AnyReasons == CallerReasons \cup {"NUL"}

==============================================================================
