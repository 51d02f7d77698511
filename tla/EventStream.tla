----------------------------- MODULE EventStream -----------------------------
(***************************************************************************)
(* What the stream POLICY_EVENTS promises to those who read it: it holds   *)
(* only events the service has offered, each at most maxRetries times and  *)
(* perhaps never, in no particular order, and what the service takes for   *)
(* published is in it.  The order of the stream is not part of the promise,*)
(* so the stream is the number of copies of each offered event.            *)
(***************************************************************************)
EXTENDS Integers

CONSTANTS Events,     \* committed creations and transitions
          maxRetries  \* attempts per event

VARIABLES copies,    \* how often each offered event is in the stream
          confirmed  \* the events the service has logged as published

vars == <<copies, confirmed>>

Init == /\ copies = [e \in {} |-> 0]
        /\ confirmed = {}

\* A publisher takes charge of an event.
Offer(e) ==
  /\ e \notin DOMAIN copies
  /\ copies' = [f \in DOMAIN copies \cup {e} |-> IF f = e THEN 0 ELSE copies[f]]
  /\ UNCHANGED confirmed

\* A copy is appended, whatever was appended before it.
Deliver(e) ==
  /\ e \in DOMAIN copies
  /\ copies[e] < maxRetries
  /\ copies' = [copies EXCEPT ![e] = @ + 1]
  /\ UNCHANGED confirmed

Confirm(e) ==
  /\ e \in DOMAIN copies
  /\ copies[e] > 0
  /\ confirmed' = confirmed \cup {e}
  /\ UNCHANGED copies

Next == \E e \in Events : Offer(e) \/ Deliver(e) \/ Confirm(e)

Spec == Init /\ [][Next]_vars

==============================================================================
