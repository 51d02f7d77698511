------------------------------ MODULE MCHttpApi ------------------------------
(***************************************************************************)
(* Instances of HttpApi for TLC.                                           *)
(***************************************************************************)
EXTENDS HttpApi, TLC

\* All but the history, which is served like get.
HttpOps == Routed \ {"history"}
\* One caller's own words, none, and words that only the database refuses.
AnyReasons == {"", "moving abroad", "NUL"}
Symmetry == Permutations(Handlers) \cup Permutations(Policies)

==============================================================================
