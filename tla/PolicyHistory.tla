---------------------------- MODULE PolicyHistory ----------------------------
(***************************************************************************)
(* What the policy service promises of each policy to callers that do not  *)
(* wait for each other: less than PolicyLifecycle, because a write that    *)
(* was decided on an old copy may take effect late.                        *)
(*                                                                         *)
(* The status moves forward only together with an audit row, along an edge *)
(* that leaves a status the policy has had before the row's time.  Without *)
(* a row it only goes back, to a status the policy has had, or to          *)
(* terminated.  The history itself is never rewritten.                     *)
(***************************************************************************)
EXTENDS Integers, Lifecycle

CONSTANTS Policies,  \* policy ids
          Times,     \* instants an audit row may carry
          Reasons    \* reasons an audit row may carry

VARIABLES status,    \* status of each policy, "" before it is created
          trail      \* audit rows

vars == <<status, trail>>

AuditRow == [id : Policies, from_status : PolicyStatus,
             to_status : PolicyStatus, reason : Reasons, occurred_at : Times]

Init == /\ status = [p \in Policies |-> ""]
        /\ trail = {}

Created(p) == status[p] # ""

\* The rows that brought p to s.
Cause(p, s) == {a \in trail : a.id = p /\ a.to_status = s}

Create(p) == /\ ~Created(p)
             /\ status' = [status EXCEPT ![p] = "draft"]
             /\ UNCHANGED trail

\* A transition, perhaps from a status that was left meanwhile.
Fire(p, edge, row) ==
  /\ Created(p)
  /\ row \in AuditRow
  /\ row.id = p /\ row.from_status = edge.from /\ row.to_status = edge.to
  /\ edge.event = "cancel" => row.reason # ""
  /\ \/ edge.from = "draft"
     \/ \E a \in Cause(p, edge.from) : a.occurred_at < row.occurred_at
  /\ status' = [status EXCEPT ![p] = edge.to]
  /\ trail' = trail \cup {row}

\* An old copy is written back.
Restore(p, s) ==
  /\ Created(p)
  /\ s = "draft" \/ Cause(p, s) # {}
  /\ status' = [status EXCEPT ![p] = s]
  /\ UNCHANGED trail

\* A soft cancellation.
Discard(p) == /\ Created(p)
              /\ status' = [status EXCEPT ![p] = "terminated"]
              /\ UNCHANGED trail

Next == \E p \in Policies :
          \/ Create(p)
          \/ Discard(p)
          \/ \E s \in PolicyStatus : Restore(p, s)
          \/ \E edge \in transitionTable : \E row \in trail' : Fire(p, edge, row)

Spec == Init /\ [][Next]_vars

==============================================================================
