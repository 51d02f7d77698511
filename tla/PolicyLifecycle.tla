--------------------------- MODULE PolicyLifecycle ---------------------------
(***************************************************************************)
(* What the policy service promises for each policy, seen from outside: a  *)
(* policy is created once, in draft; its status moves along the edges of   *)
(* the transition table, and each such move adds, in the same step, one    *)
(* audit row that is later than every earlier row of that policy; a draft  *)
(* may also be soft-cancelled, which leaves no row.                        *)
(***************************************************************************)
EXTENDS Integers, Lifecycle

CONSTANTS Policies,  \* policy ids
          Times,     \* instants an audit row may carry
          Reasons    \* reasons an audit row may carry

VARIABLES status,    \* status of each policy, "" before it is created
          trail      \* audit rows

vars == <<status, trail>>

AuditRow == [id : Policies, from_status : PolicyStatus,
             to_status : PolicyStatus, reason : Reasons, occurred_at : Times]

TypeOK == /\ status \in [Policies -> PolicyStatus \cup {""}]
          /\ trail \subseteq AuditRow

Init == /\ status = [p \in Policies |-> ""]
        /\ trail = {}

Create(p) == /\ status[p] = ""
             /\ status' = [status EXCEPT ![p] = "draft"]
             /\ UNCHANGED trail

\* The row the trail gains names the edge and is its policy's latest.
Fire(p, edge, row) ==
  /\ row \in AuditRow
  /\ row.id = p /\ row.from_status = edge.from /\ row.to_status = edge.to
  /\ edge.event = "cancel" => row.reason # ""
  /\ \A a \in trail : a.id = p => a.occurred_at < row.occurred_at
  /\ status' = [status EXCEPT ![p] = edge.to]
  /\ trail' = trail \cup {row}

Discard(p) == /\ status[p] = "draft"
              /\ status' = [status EXCEPT ![p] = "terminated"]
              /\ UNCHANGED trail

Next == \E p \in Policies :
          \/ Create(p)
          \/ Discard(p)
          \/ \E edge \in transitionTable :
               /\ edge.from = status[p]
               /\ \E row \in trail' : Fire(p, edge, row)

Spec == Init /\ [][Next]_vars

==============================================================================
