------------------------------ MODULE Lifecycle ------------------------------
(***************************************************************************)
(* The policy state machine of internal/domain: the statuses, the events,  *)
(* the transition table, the reason codes of the audit log and the event   *)
(* type each new status is announced under.  Pure data and functions; the  *)
(* modules that move policies around EXTEND it.                            *)
(***************************************************************************)

\* PolicyStatus constants (policy.go).
PolicyStatus == {"draft", "submitted", "active", "rejected", "amended",
                 "cancelled", "expired", "suspended", "terminated"}

\* Event constants (state_machine.go).
Event == {"submit", "activate", "reject", "amend", "confirm", "cancel",
          "expire"}

\* ReasonCode, the controlled vocabulary of the audit log.  The service also
\* stores the caller's own words for a cancellation or a rejection.
ReasonCode == {"UNDERWRITER_APPROVED", "UNDERWRITER_REJECTED",
               "CUSTOMER_REQUEST", "NON_PAYMENT", "REGULATORY"}

Edge(f, e, t) == [from |-> f, event |-> e, to |-> t]

\* transitionTable as the set of its edges.
\* Mutant: a draft can be activated.
transitionTable_Shortcut ==
  {Edge("draft", "submit", "submitted"),
   Edge("draft", "activate", "active"),
   Edge("submitted", "activate", "active"),
   Edge("submitted", "reject", "rejected"),
   Edge("active", "amend", "amended"),
   Edge("active", "cancel", "cancelled"),
   Edge("active", "expire", "expired"),
   Edge("amended", "confirm", "active")}

transitionTable ==
  {Edge("draft", "submit", "submitted"),
   Edge("submitted", "activate", "active"),
   Edge("submitted", "reject", "rejected"),
   Edge("active", "amend", "amended"),
   Edge("active", "cancel", "cancelled"),
   Edge("active", "expire", "expired"),
   Edge("amended", "confirm", "active")}

\* Transition(current, event): the edges it can return the target of.  Empty
\* stands for ErrInvalidTransition; the table is a map, so there is at most one.
Transition(current, event) ==
  {edge \in transitionTable : edge.from = current /\ edge.event = event}

\* The reason applyTransition receives for each event, given the caller's.
ReasonFor(event, reason) ==
  CASE event = "activate"                -> "UNDERWRITER_APPROVED"
    [] event = "reject" /\ reason = ""   -> "UNDERWRITER_REJECTED"
    [] event = "expire"                  -> "REGULATORY"
    [] event = "submit"                  -> ""
    [] OTHER                             -> reason

\* The eventType switch at the end of applyTransition; Create uses "created".
EventType(status) == IF status = "active" THEN "activated" ELSE status

==============================================================================
