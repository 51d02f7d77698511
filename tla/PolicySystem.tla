---------------------------- MODULE PolicySystem ----------------------------
(***************************************************************************)
(* The service together with the stream its events go to, and what a       *)
(* consumer of the stream can conclude about the policies.                 *)
(*                                                                         *)
(* The publisher is here only what EventStream promises of it: an event    *)
(* that was handed over arrives late, in any order, up to maxRetries       *)
(* times, or never.  (EventPublisher is shown to keep that promise, and    *)
(* PolicyDeployment, which has it in the stream's place, to implement this *)
(* module.)  An event is also lost when the process ends, or the answer to *)
(* the COMMIT is lost, before the hand-over: PolicyService's Fail.         *)
(*                                                                         *)
(* A consumer knows of each event its type, its policy and its CloudEvent  *)
(* time, which has whole seconds.                                          *)
(***************************************************************************)
EXTENDS PolicyService

CONSTANTS maxRetries,      \* attempts per event
          TicksPerSecond   \* readings of the clock that share a second

ASSUME SystemAssumption == maxRetries \in Nat \ {0} /\ TicksPerSecond \in Nat \ {0}

VARIABLE copies  \* the stream: how often it holds each event handed over

Stream == INSTANCE EventStream WITH Events <- PublishedEvent, confirmed <- {}

systemVars == <<vars, copies>>

SystemInit == Init /\ Stream!Init

\* A step of a handler; PublishAsync offers the event it hands over.
ServiceStep ==
  /\ Next
  /\ \/ events' = events /\ UNCHANGED copies
     \/ \E e \in events' \ events : Stream!Offer(e)

\* The broker appends a copy of an event.
StreamStep == /\ \E e \in DOMAIN copies : Stream!Deliver(e)
              /\ UNCHANGED vars

SystemNext == ServiceStep \/ StreamStep

SystemSpec == SystemInit /\ [][SystemNext]_systemVars

\* For callers that wait, as in SerialSpec.
SystemSerialSpec ==
  SystemInit /\ [][SystemNext /\ OneWriterPerPolicy']_systemVars

------------------------------------------------------------------------------
(* What a consumer sees *)

\* The events of p that have arrived.
Heard(p) == {e \in DOMAIN copies : e.id = p /\ copies[e] > 0}

\* The time of the CloudEvent.
\* Mutant: a layout with 03 for the hour: the time begins again after half a day
\* (here, of two seconds).
CloudTime_TwelveHours(e) == (e.occurred_at \div TicksPerSecond) % 2

CloudTime(e) == e.occurred_at \div TicksPerSecond

\* The newest events of p a consumer has: more than one if seconds are shared.
Newest(p) ==
  {e \in Heard(p) : \A f \in Heard(p) : CloudTime(f) <= CloudTime(e)}

\* The type under which a policy is announced when it gets a status.
Told(status) == IF status = "draft" THEN "created" ELSE EventType(status)

\* Nothing about p was lost or is still on its way.
AllHeard(p) ==
  /\ \E e \in Heard(p) : e.type = "created"
  /\ \A a \in RowsOf(p) : \E e \in Heard(p) : /\ e.type = EventType(a.to_status)
                                              /\ e.occurred_at = a.occurred_at

------------------------------------------------------------------------------
(* Properties *)

\* What is in the stream is in the database: what NoPhantomEvents says of the
\* events handed over, where a reader of the stream needs it.
StreamIsCommitted ==
  \A e \in DOMAIN copies :
    copies[e] > 0 =>
      \/ e.type = "created" /\ Stored(e.id)
      \/ \E a \in RowsOf(e.id) : /\ EventType(a.to_status) = e.type
                                 /\ a.occurred_at = e.occurred_at

\* A consumer that has missed nothing finds the status of the policy among its
\* newest events, however late and in whatever order they came; it is the only
\* one there if no other transition shares its second.  (The soft cancellation
\* of a draft is not announced.)
NewestTellsStatus ==
  \A p \in Policies :
    AllHeard(p) /\ policies[p].status # "terminated" =>
      \E e \in Newest(p) : e.type = Told(policies[p].status)

\* The transition table leads from the one event to the other.
Linked(e, f) ==
  \E edge \in transitionTable :
    Told(edge.from) = e.type /\ EventType(edge.to) = f.type

\* A lost event can be noticed: of two events of different seconds the later
\* follows the earlier in the transition table if and only if no transition of
\* the policy was committed between them.
LossIsVisible ==
  \A p \in Policies : \A e, f \in Heard(p) :
    CloudTime(e) < CloudTime(f) =>
      (Linked(e, f) <=> \A a \in RowsOf(p) : \/ a.occurred_at <= e.occurred_at
                                             \/ a.occurred_at >= f.occurred_at)

==============================================================================
