------------------------- MODULE PolicyServiceProofs -------------------------
(***************************************************************************)
(* Safety of PolicyService for every number of handlers, policies and      *)
(* requests.  IInv is the inductive invariant: besides the tables it says  *)
(* what each handler in flight holds, because what a handler writes was    *)
(* decided on a row that may have changed since.                           *)
(*                                                                         *)
(* First come the theorems for any callers (Spec), up to PolicyHistory;    *)
(* then those for callers that wait (SerialSpec), up to PolicyLifecycle.   *)
(***************************************************************************)
EXTENDS PolicyService, TLAPS

\* Where the status s of policy p came from, for one who sees it at time t.
Explained(p, s, t) ==
  \/ s \in {"draft", "terminated"}
  \/ \E a \in RowsOf(p) : a.to_status = s /\ a.occurred_at < t

\* What a handler that will overwrite its row holds: a copy whose status had a
\* cause when it was read, stamped after that.
WriteReady(h) ==
  /\ call[h].id \in Policies /\ call[h].op \in {"update", "delete"}
  /\ mem[h].status # ""
  /\ Explained(call[h].id, mem[h].status, mem[h].updated_at)

\* What a handler inside applyTransition holds: an edge of the table for the
\* event it was called with, from a status that had a cause.
TransitionReady(h) ==
  /\ call[h].id \in Policies
  /\ [from |-> from[h], event |-> call[h].op, to |-> mem[h].status]
       \in transitionTable
  /\ call[h].op = "cancel" => call[h].reason # ""
  /\ Explained(call[h].id, from[h], mem[h].updated_at)

\* What a handler that is past its write left in the tables.
Written(h) ==
  /\ call[h].id \in Policies
  /\ call[h].op = "create" => Stored(call[h].id)
  /\ call[h].op \in TransitionOps =>
       /\ Entry(h) \in audit_log
       /\ mem[h].status \in PolicyStatus
       /\ [from |-> from[h], event |-> call[h].op, to |-> mem[h].status]
            \in transitionTable

HandlerOK(h) ==
  /\ pc[h] = "called" => call[h] \in Request
  /\ pc[h] = "insert" => call[h].op = "create" /\ mem[h].status = "draft"
  /\ pc[h] = "write" => WriteReady(h)
  /\ pc[h] \in {"tx", "updated", "audited"} =>
       call[h].op \in TransitionOps /\ TransitionReady(h)
  /\ pc[h] = "committed" => Written(h)

\* Nothing carries a time the clock has not reached.
StampsPast ==
  /\ \A a \in audit_log : a.occurred_at <= now
  /\ \A h \in Handlers : mem[h].updated_at <= now

RowsExplained ==
  \A p \in Policies : Stored(p) => Explained(p, policies[p].status, now + 1)

HistoryExplained ==
  \A a \in audit_log : Explained(a.id, a.from_status, a.occurred_at)

IInv == /\ TypeOK
        /\ \A h \in Handlers : HandlerOK(h)
        /\ StampsPast
        /\ RowsExplained
        /\ HistoryExplained
        /\ AuditRowsLegal
        /\ NoPhantomEvents

------------------------------------------------------------------------------
(* The values that go into the tables *)

LEMMA TableTypes ==
  \A edge \in transitionTable :
    /\ edge.from \in PolicyStatus /\ edge.to \in PolicyStatus
    /\ edge.event \in Event
    /\ edge.from \notin {"", "terminated"}
<1> TAKE edge \in transitionTable
<1>1. edge.from \in {"draft", "submitted", "active", "amended"}
  BY DEF transitionTable, Edge
<1>2. edge.to \in {"submitted", "active", "rejected", "amended", "cancelled",
                  "expired"}
  BY DEF transitionTable, Edge
<1>3. edge.event \in Event
  BY DEF transitionTable, Edge, Event
<1>4. QED
  BY <1>1, <1>2, <1>3 DEF PolicyStatus

LEMMA RequestIsCall == \A r \in Request : r \in Call
BY DEF Request, Call

LEMMA ReasonTypes ==
  ASSUME NEW e, NEW r \in Reasons \cup {""}
  PROVE  ReasonFor(e, r) \in AuditReason
BY DEF ReasonFor, AuditReason, ReasonCode

\* A cancellation carries the reason of its caller.
LEMMA CancelReason == \A r : ReasonFor("cancel", r) = r
BY DEF ReasonFor

\* The fields of rows that are typed, and of rows that are changed.
LEMMA RowTypes ==
  \A r \in Policy : /\ r.status \in PolicyStatus \cup {""}
                    /\ r.updated_at \in Nat
BY DEF Policy, Time

LEMMA RowStamped ==
  ASSUME NEW r \in Policy, NEW t \in Nat
  PROVE  /\ [r EXCEPT !.updated_at = t] \in Policy
         /\ [r EXCEPT !.updated_at = t].updated_at = t
         /\ [r EXCEPT !.updated_at = t].status = r.status
BY DEF Policy, Time

LEMMA RowMoved ==
  ASSUME NEW r \in Policy, NEW s \in PolicyStatus
  PROVE  /\ [r EXCEPT !.status = s] \in Policy
         /\ [r EXCEPT !.status = s].status = s
BY DEF Policy

LEMMA RowEdited ==
  ASSUME NEW r \in Policy, NEW f \in Fields
  PROVE  /\ [r EXCEPT !.fields = f] \in Policy
         /\ [r EXCEPT !.fields = f].status = r.status
BY DEF Policy

LEMMA Times ==
  ASSUME TypeOK
  PROVE  /\ now \in Nat /\ now + 1 \in Nat
         /\ \A h \in Handlers : mem[h] \in Policy /\ mem[h].updated_at \in Nat
         /\ \A a \in audit_log : a.occurred_at \in Nat
<1>1. \A a \in AuditRow : a.occurred_at \in Nat
  BY DEF AuditRow, Time
<1>2. \A h \in Handlers : mem[h] \in Policy
  BY DEF TypeOK
<1>3. now \in Nat
  BY DEF TypeOK, Time
<1>4. now + 1 \in Nat
  BY <1>3
<1>5. QED
  BY <1>1, <1>2, <1>3, <1>4, RowTypes DEF TypeOK

\* Two conjuncts of TypeOK by a name of their own.
LockType == lock \in [Policies -> Handlers \cup {None}]
FromType == from \in [Handlers -> PolicyStatus \cup {""}]

------------------------------------------------------------------------------
(* Initially *)

\* The bound on the requests is a number.
LEMMA RequestsCounted == MaxRequests \in Nat
BY ServiceAssumption, Zenon

LEMMA InitIInv == Init => IInv
<1> SUFFICES ASSUME Init PROVE IInv
  OBVIOUS
<1>1. TypeOK
  <2>1. ZeroPolicy \in Policy
    BY DEF ZeroPolicy, Policy, Time
  <2>2. NoCall \in Call
    BY DEF NoCall, Call
  <2>3. 0 \in 0 .. MaxRequests /\ 0 \in Time
    BY RequestsCounted DEF Time
  <2>4. QED
    BY <2>1, <2>2, <2>3 DEF Init, TypeOK, Location, Answer
<1>2. \A h \in Handlers : HandlerOK(h)
  BY DEF Init, HandlerOK
<1>3. StampsPast /\ RowsExplained /\ HistoryExplained
  <2>1. StampsPast
    <3>1. /\ \A h \in Handlers : mem[h].updated_at = 0
          /\ audit_log = {} /\ now = 0
      BY DEF Init, ZeroPolicy
    <3>2. QED
      BY <3>1 DEF StampsPast
  <2>2. RowsExplained
    BY DEF Init, RowsExplained, Stored, ZeroPolicy
  <2>3. HistoryExplained
    BY DEF Init, HistoryExplained
  <2>4. QED
    BY <2>1, <2>2, <2>3
<1>4. AuditRowsLegal /\ NoPhantomEvents
  BY DEF Init, AuditRowsLegal, NoPhantomEvents
<1>5. QED
  BY <1>1, <1>2, <1>3, <1>4 DEF IInv

------------------------------------------------------------------------------
(* What the steps of one handler leave to the others *)

\* The tables only gain: rows of the audit log stay, stored policies stay.
TablesGrow == /\ audit_log \subseteq audit_log'
              /\ \A p \in Policies : Stored(p) => Stored(p)'

LEMMA ExplainedStable ==
  ASSUME TablesGrow, NEW p, NEW s, NEW t, Explained(p, s, t)
  PROVE  Explained(p, s, t)'
BY DEF TablesGrow, Explained, RowsOf

LEMMA OthersKept ==
  ASSUME NEW k \in Handlers, HandlerOK(k), TablesGrow,
         pc'[k] = pc[k], call'[k] = call[k], mem'[k] = mem[k],
         from'[k] = from[k]
  PROVE  HandlerOK(k)'
<1>1. pc[k] = "write" => WriteReady(k)'
  BY ExplainedStable DEF HandlerOK, WriteReady
<1>2. pc[k] \in {"tx", "updated", "audited"} => TransitionReady(k)'
  BY ExplainedStable DEF HandlerOK, TransitionReady
<1>3. pc[k] = "committed" => Written(k)'
  BY DEF HandlerOK, Written, TablesGrow, Entry
<1>4. QED
  BY <1>1, <1>2, <1>3 DEF HandlerOK, Request

\* What is published stays true, because the tables only gain.
LEMMA EventsKept ==
  ASSUME TypeOK, NoPhantomEvents, TablesGrow, events' = events
  PROVE  NoPhantomEvents'
<1>1. \A e \in events : e.id \in Policies
  BY DEF TypeOK, PublishedEvent
<1>2. QED
  BY <1>1 DEF NoPhantomEvents, TablesGrow, RowsOf

\* The parts of IInv that are about the tables, in a step that leaves them
\* alone while the clock may advance.
LEMMA TablesUntouched ==
  ASSUME IInv, UNCHANGED <<policies, audit_log>>, now' >= now,
         now' \in Nat,
         \A h \in Handlers : mem'[h].updated_at <= now'
  PROVE  /\ StampsPast' /\ RowsExplained' /\ HistoryExplained'
         /\ AuditRowsLegal' /\ TablesGrow
<1>1. TypeOK
  BY DEF IInv
<1>2. now \in Nat /\ \A a \in audit_log : a.occurred_at \in Nat
  BY <1>1, Times
<1>3. StampsPast'
  <2>1. \A a \in audit_log : a.occurred_at <= now
    BY DEF IInv, StampsPast
  <2>2. \A a \in audit_log : a.occurred_at <= now'
    BY <1>2, <2>1
  <2>3. QED
    BY <2>2 DEF StampsPast
<1>4. TablesGrow
  BY DEF TablesGrow, Stored
<1>5. RowsExplained'
  <2> SUFFICES ASSUME NEW p \in Policies, Stored(p)'
               PROVE  Explained(p, policies[p].status, now + 1)'
    BY DEF RowsExplained
  <2>1. Explained(p, policies[p].status, now + 1)
    BY DEF IInv, RowsExplained, Stored
  <2>2. \A a \in audit_log : a.occurred_at < now + 1 => a.occurred_at < now' + 1
    BY <1>2
  <2>3. QED
    BY <2>1, <2>2 DEF Explained, RowsOf
<1>6. HistoryExplained'
  BY <1>4, ExplainedStable DEF IInv, HistoryExplained
<1>7. AuditRowsLegal'
  BY DEF IInv, AuditRowsLegal
<1>8. QED
  BY <1>3, <1>4, <1>5, <1>6, <1>7

------------------------------------------------------------------------------
(* The three kinds of steps a handler takes in its own memory *)

LEMMA ReceiveStep ==
  ASSUME IInv, NEW h \in Handlers, Receive(h)
  PROVE  IInv'
<1>1. PICK r \in Request : call' = [call EXCEPT ![h] = r]
  BY DEF Receive
<1>2. TypeOK'
  <2>1. r \in Call
    BY RequestIsCall
  <2>2. received' \in 0 .. MaxRequests
    <3>1. /\ received \in 0 .. MaxRequests /\ received < MaxRequests
          /\ received' = received + 1
      BY DEF Receive, IInv, TypeOK
    <3>2. QED
      BY <3>1, RequestsCounted
  <2>3. call' \in [Handlers -> Call]
    BY <1>1, <2>1 DEF IInv, TypeOK
  <2>4. /\ pc' \in [Handlers -> Location]
        /\ reply' \in [Handlers -> Answer]
    BY DEF Receive, IInv, TypeOK, Goto, Location, Answer
  <2>5. QED
    BY <2>2, <2>3, <2>4 DEF Receive, IInv, TypeOK, tables
<1>3. TablesGrow
  BY DEF TablesGrow, Receive, tables, Stored
<1>4. \A k \in Handlers : HandlerOK(k)'
  <2> TAKE k \in Handlers
  <2>1. CASE k = h
    BY <1>1, <2>1 DEF Receive, IInv, TypeOK, Goto, HandlerOK
  <2>2. CASE k # h
    BY <1>1, <1>3, <2>2, OthersKept DEF Receive, IInv, TypeOK, Goto
  <2>3. QED
    BY <2>1, <2>2
<1>5. /\ UNCHANGED <<policies, audit_log, events>>
      /\ now' >= now /\ now' \in Nat
      /\ \A k \in Handlers : mem'[k].updated_at <= now'
  <2>1. UNCHANGED <<policies, audit_log, events, now, mem>>
    BY DEF Receive, tables
  <2>2. now \in Nat /\ \A k \in Handlers : mem[k].updated_at <= now
    BY Times DEF IInv, StampsPast
  <2>3. QED
    BY <2>1, <2>2
<1>6. QED
  BY <1>2, <1>4, <1>5, TablesUntouched, EventsKept DEF IInv

\* A handler answers and forgets: Finish with any answer, and possibly an event
\* that is no phantom.
LEMMA FinishStep ==
  ASSUME IInv, NEW h \in Handlers, NEW answer \in Answer, Finish(h, answer),
         UNCHANGED <<policies, audit_log, now, received>>,
         LockType', events' \subseteq PublishedEvent, NoPhantomEvents'
  PROVE  IInv'
<1>1. TypeOK'
  <2>1. ZeroPolicy \in Policy /\ NoCall \in Call
    BY DEF ZeroPolicy, Policy, Time, NoCall, Call
  <2>2. QED
    BY <2>1 DEF IInv, TypeOK, LockType, Finish, Goto, Location
<1>2. TablesGrow
  BY DEF TablesGrow, Stored
<1>3. \A k \in Handlers : HandlerOK(k)'
  <2> TAKE k \in Handlers
  <2>1. CASE k = h
    BY <2>1 DEF Finish, IInv, TypeOK, Goto, HandlerOK
  <2>2. CASE k # h
    BY <1>2, <2>2, OthersKept DEF Finish, IInv, TypeOK, Goto
  <2>3. QED
    BY <2>1, <2>2
<1>4. \A k \in Handlers : mem'[k].updated_at <= now'
  <2> TAKE k \in Handlers
  <2>1. CASE k = h
    <3>1. mem'[k].updated_at = 0
      BY <2>1 DEF Finish, IInv, TypeOK, ZeroPolicy
    <3>2. now' = now /\ now \in Nat
      BY Times DEF IInv
    <3>3. QED
      BY <3>1, <3>2
  <2>2. CASE k # h
    BY <2>2 DEF Finish, IInv, TypeOK, StampsPast
  <2>3. QED
    BY <2>1, <2>2
<1>5. QED
  BY <1>1, <1>3, <1>4, Times, TablesUntouched DEF IInv

\* A handler stamps the copy it is going to write; what is left is to show that
\* it holds what its next location asks for.
LEMMA PrepareStep ==
  ASSUME IInv, NEW h \in Handlers, NEW copy \in Policy, NEW to \in Location,
         Prepare(h, copy, to),
         FromType',
         \A k \in Handlers : k # h => from'[k] = from[k],
         HandlerOK(h)'
  PROVE  IInv'
<1>1. now' = now + 1 /\ now \in Nat /\ now' \in Nat /\ now <= now'
  <2>1. now' = now + 1 /\ now \in Nat
    BY Times DEF Prepare, IInv
  <2>2. QED
    BY <2>1
<1>2. /\ [copy EXCEPT !.updated_at = now + 1] \in Policy
      /\ [copy EXCEPT !.updated_at = now + 1].updated_at = now'
  BY <1>1, RowStamped
<1>3. TypeOK'
  <2>1. mem' \in [Handlers -> Policy]
    BY <1>2 DEF Prepare, IInv, TypeOK
  <2>2. QED
    BY <1>1, <2>1 DEF Prepare, IInv, TypeOK, FromType, Goto, tables, Time
<1>4. TablesGrow
  BY DEF TablesGrow, Prepare, tables, Stored
<1>5. \A k \in Handlers : HandlerOK(k)'
  <2> TAKE k \in Handlers
  <2>1. CASE k # h
    BY <1>4, <2>1, OthersKept DEF Prepare, IInv, TypeOK, Goto
  <2>2. QED
    BY <2>1
<1>6. \A k \in Handlers : mem'[k].updated_at <= now'
  <2> TAKE k \in Handlers
  <2>1. CASE k = h
    <3>1. mem'[k].updated_at = now'
      BY <1>2, <2>1 DEF Prepare, IInv, TypeOK
    <3>2. QED
      BY <1>1, <3>1
  <2>2. CASE k # h
    <3>1. mem'[k] = mem[k]
      BY <2>2 DEF Prepare, IInv, TypeOK
    <3>2. mem[k].updated_at <= now /\ mem[k].updated_at \in Nat
      BY Times DEF IInv, StampsPast
    <3>3. QED
      BY <1>1, <3>1, <3>2
  <2>3. QED
    BY <2>1, <2>2
<1>7. QED
  <2>1. UNCHANGED <<policies, audit_log, events>> /\ now' >= now /\ now' \in Nat
    BY <1>1 DEF Prepare, tables
  <2>2. QED
    BY <1>3, <1>5, <1>6, <2>1, TablesUntouched, EventsKept DEF IInv

------------------------------------------------------------------------------
(* Every action keeps IInv: the actions in memory *)

LEMMA ReadsId ==
  ASSUME IInv, NEW h \in Handlers, Reads(h)
  PROVE  /\ call[h].id \in Policies /\ Row(h) \in Policy
         /\ call[h].op # "create"
         /\ call[h].op = "cancel" => call[h].reason # ""
         /\ call[h].op = "update" => call[h].fields \in Fields \cup BadFields
<1>1. call[h] \in Request /\ call[h].op # "create"
  BY DEF IInv, HandlerOK, Reads
<1>2. /\ call[h].id \in Policies
      /\ call[h].op = "update" => call[h].fields \in Fields \cup BadFields
  BY <1>1 DEF Request
<1>3. QED
  BY <1>1, <1>2 DEF Reads, Row, IInv, TypeOK

LEMMA CreateStep ==
  ASSUME IInv, NEW h \in Handlers, Create(h)
  PROVE  IInv'
<1> DEFINE copy == [ZeroPolicy EXCEPT !.status = "draft",
                                      !.number = call[h].number,
                                      !.fields = call[h].fields]
<1>1. /\ copy \in Policy /\ copy.status = "draft"
      /\ [copy EXCEPT !.updated_at = now + 1].status = "draft"
  <2>1. call[h] \in Call
    BY DEF IInv, TypeOK
  <2>2. copy \in Policy /\ copy.status = "draft"
    BY <2>1 DEF Create, ZeroPolicy, Policy, Call, Time, PolicyStatus
  <2>3. now + 1 \in Nat
    BY Times DEF IInv
  <2>4. QED
    BY <2>2, <2>3, RowStamped
<1>2. Prepare(h, copy, "insert") /\ from' = from
  BY DEF Create
<1>3. HandlerOK(h)'
  BY <1>1, <1>2 DEF Prepare, Create, Goto, IInv, TypeOK, HandlerOK
<1>4. FromType' /\ "insert" \in Location
  BY <1>2 DEF FromType, IInv, TypeOK, Location
<1> HIDE DEF copy
<1>5. QED
  BY <1>1, <1>2, <1>3, <1>4, PrepareStep

\* Update and Cancel prepare to write a copy of the row back: with the status
\* that was read, or terminated.
LEMMA PrepareWriteStep ==
  ASSUME IInv, NEW h \in Handlers, NEW copy \in Policy,
         Reads(h), call[h].op \in {"update", "delete"}, Stored(call[h].id),
         copy.status \in {Row(h).status, "terminated"},
         Prepare(h, copy, "write"), from' = from
  PROVE  IInv'
<1>1. call[h].id \in Policies /\ Row(h).status # ""
  BY ReadsId DEF Stored, Row
<1>2. /\ call'[h] = call[h] /\ pc'[h] = "write"
      /\ mem'[h] = [copy EXCEPT !.updated_at = now + 1]
  BY DEF Prepare, Goto, IInv, TypeOK
<1>3. mem'[h].status = copy.status /\ mem'[h].updated_at = now + 1
  BY <1>2, Times, RowStamped DEF IInv
<1>4. Explained(call[h].id, Row(h).status, now + 1)
  BY <1>1 DEF IInv, RowsExplained, Row
<1>5. UNCHANGED <<policies, audit_log>>
  BY DEF Prepare, tables
<1>6. WriteReady(h)'
  BY <1>1, <1>2, <1>3, <1>4, <1>5 DEF WriteReady, Explained, RowsOf
<1>7. HandlerOK(h)'
  BY <1>2, <1>6 DEF HandlerOK
<1>8. FromType' /\ "write" \in Location
  BY DEF FromType, IInv, TypeOK, Location
<1>9. QED
  BY <1>7, <1>8, PrepareStep

LEMMA StartUpdateStep ==
  ASSUME IInv, NEW h \in Handlers, StartUpdate(h)
  PROVE  IInv'
<1>1. Row(h) \in Policy
  BY ReadsId DEF StartUpdate
<1>2. call[h].fields \in Fields
  BY DEF StartUpdate
<1>3. QED
  BY <1>1, <1>2, RowEdited, PrepareWriteStep DEF StartUpdate

LEMMA StartCancelStep ==
  ASSUME IInv, NEW h \in Handlers, StartCancel(h)
  PROVE  IInv'
<1>1. Row(h) \in Policy
  BY ReadsId DEF StartCancel
<1>2. "terminated" \in PolicyStatus
  BY DEF PolicyStatus
<1>3. Stored(call[h].id)
  BY DEF StartCancel, Stored, Row
<1>4. QED
  BY <1>1, <1>2, <1>3, RowMoved, PrepareWriteStep DEF StartCancel

LEMMA StartTransitionStep ==
  ASSUME IInv, NEW h \in Handlers, StartTransition(h)
  PROVE  IInv'
<1>1. PICK edge \in Transition(Row(h).status, call[h].op) :
        /\ from' = [from EXCEPT ![h] = edge.from]
        /\ Prepare(h, [Row(h) EXCEPT !.status = edge.to], "tx")
  BY DEF StartTransition
<1>2. /\ edge \in transitionTable
      /\ edge.from = Row(h).status /\ edge.event = call[h].op
  BY DEF Transition
<1>3. /\ edge.from \in PolicyStatus /\ edge.to \in PolicyStatus
      /\ edge.from # ""
  BY <1>2, TableTypes
<1> DEFINE copy == [Row(h) EXCEPT !.status = edge.to]
<1>4. call[h].id \in Policies /\ copy \in Policy /\ copy.status = edge.to
  BY <1>3, ReadsId, RowMoved DEF StartTransition
<1>5. Prepare(h, copy, "tx")
  BY <1>1
<1> HIDE DEF copy
<1>6. /\ call'[h] = call[h] /\ pc'[h] = "tx" /\ from'[h] = edge.from
      /\ mem'[h] = [copy EXCEPT !.updated_at = now + 1]
  BY <1>1, <1>5 DEF Prepare, Goto, IInv, TypeOK
<1>7. mem'[h].status = edge.to /\ mem'[h].updated_at = now + 1
  BY <1>4, <1>6, Times, RowStamped DEF IInv
<1>8. Explained(call[h].id, edge.from, now + 1)
  BY <1>2, <1>3, <1>4 DEF IInv, RowsExplained, Row, Stored
<1>9. UNCHANGED <<policies, audit_log>>
  BY <1>5 DEF Prepare, tables
<1>10. edge = [from |-> edge.from, event |-> edge.event, to |-> edge.to]
  BY <1>2 DEF transitionTable, Edge
<1>11. TransitionReady(h)'
  <2>1. Explained(call[h].id, from[h], mem[h].updated_at)'
    BY <1>6, <1>7, <1>8, <1>9 DEF Explained, RowsOf
  <2>2. call[h].op = "cancel" => call[h].reason # ""
    BY ReadsId DEF StartTransition
  <2>3. QED
    BY <1>2, <1>4, <1>6, <1>7, <1>10, <2>1, <2>2 DEF TransitionReady
<1>12. HandlerOK(h)'
  BY <1>6, <1>11 DEF HandlerOK, StartTransition
<1>13. FromType' /\ "tx" \in Location
       /\ \A k \in Handlers : k # h => from'[k] = from[k]
  BY <1>1, <1>3 DEF FromType, IInv, TypeOK, Location
<1>14. QED
  BY <1>4, <1>5, <1>12, <1>13, PrepareStep

\* The steps that answer: at once, on a conflict, after the write, on a failure.
LEMMA QuietAnswer ==
  ASSUME IInv, NEW h \in Handlers, NEW answer \in Answer, Finish(h, answer),
         UNCHANGED <<policies, audit_log, events, now, received>>, LockType'
  PROVE  IInv'
<1>1. TablesGrow
  BY DEF TablesGrow, Stored
<1>2. events' \subseteq PublishedEvent
  BY DEF IInv, TypeOK
<1>3. QED
  BY <1>1, <1>2, EventsKept, FinishStep DEF IInv

LEMMA AnswerSteps ==
  ASSUME IInv, NEW h \in Handlers,
         AnswerAtOnce(h) \/ InsertConflict(h) \/ Fail(h)
  PROVE  IInv'
<1>1. PICK answer \in Answer : Finish(h, answer)
  BY DEF AnswerAtOnce, ReadMissing, Get, RefuseArguments, RefuseStatus,
     InsertConflict, Fail, Answer
<1>2. UNCHANGED <<policies, audit_log, events, now, received>>
  BY DEF AnswerAtOnce, InsertConflict, Fail, tables
<1>3. LockType'
  BY DEF AnswerAtOnce, InsertConflict, Fail, tables, IInv, TypeOK, LockType
<1>4. QED
  BY <1>1, <1>2, <1>3, QuietAnswer

\* An event that tells of what is in the tables joins the others.
LEMMA TrueEventAdded ==
  ASSUME NoPhantomEvents, UNCHANGED <<policies, audit_log>>,
         NEW e, events' = events \cup {e},
         \/ e.type = "created" /\ Stored(e.id)
         \/ \E a \in RowsOf(e.id) : /\ EventType(a.to_status) = e.type
                                   /\ a.occurred_at = e.occurred_at
  PROVE  NoPhantomEvents'
<1>1. \A p : Stored(p)' = Stored(p) /\ RowsOf(p)' = RowsOf(p)
  BY DEF Stored, RowsOf
<1>2. \A f \in events' :
        \/ f.type = "created" /\ Stored(f.id)
        \/ \E a \in RowsOf(f.id) : /\ EventType(a.to_status) = f.type
                                  /\ a.occurred_at = f.occurred_at
  <2> TAKE f \in events'
  <2>1. CASE f \in events
    BY <2>1 DEF NoPhantomEvents
  <2>2. CASE f = e
    BY <2>2
  <2>3. QED
    BY <2>1, <2>2
<1>3. QED
  BY <1>1, <1>2 DEF NoPhantomEvents

\* The event of a handler that has committed is in the tables already.
LEMMA RespondStep ==
  ASSUME IInv, NEW h \in Handlers, Respond(h)
  PROVE  IInv'
<1>1. Written(h) /\ TypeOK /\ mem[h] \in Policy
  BY DEF Respond, IInv, HandlerOK, TypeOK
<1>2. /\ UNCHANGED <<policies, audit_log, now, received>> /\ LockType'
      /\ Finish(h, "ok")
  BY DEF Respond, tables, IInv, TypeOK, LockType
<1>3. NoPhantomEvents /\ UNCHANGED <<policies, audit_log>>
  BY <1>2 DEF IInv
<1>4. CASE call[h].op \notin Announced
  <2>1. events' = events
    BY <1>4 DEF Respond
  <2>2. QED
    BY <1>2, <2>1, QuietAnswer DEF Answer
<1>5. CASE call[h].op \in Announced
  <2>1. events' = events \cup {Announcement(h)}
    BY <1>5 DEF Respond
  <2>2. /\ Announcement(h).id = call[h].id
        /\ Announcement(h).type = AnnouncedType(h)
        /\ Announcement(h).occurred_at = mem[h].updated_at
    BY DEF Announcement
  <2>3. Announcement(h) \in PublishedEvent
    <3>1. AnnouncedType(h) \in {"created"} \cup {EventType(s) : s \in PolicyStatus}
      BY <1>1, <1>5 DEF AnnouncedType, Announced, Written
    <3>2. mem[h].updated_at \in Time /\ call[h].id \in Policies
      BY <1>1, RowTypes DEF Written, Time
    <3>3. QED
      BY <3>1, <3>2 DEF Announcement, PublishedEvent
  <2>4. CASE call[h].op = "create"
    <3>1. AnnouncedType(h) = "created" /\ Stored(call[h].id)
      BY <1>1, <2>4 DEF AnnouncedType, Written
    <3>2. Announcement(h).type = "created" /\ Stored(Announcement(h).id)
      BY <2>2, <3>1
    <3>3. NoPhantomEvents'
      BY <1>3, <2>1, <3>2, TrueEventAdded
    <3>4. QED
      BY <1>1, <1>2, <2>1, <2>3, <3>3, FinishStep DEF TypeOK, Answer
  <2>5. CASE call[h].op # "create"
    <3>1. /\ AnnouncedType(h) = EventType(mem[h].status)
          /\ Entry(h) \in audit_log
      BY <1>1, <1>5, <2>5 DEF AnnouncedType, Announced, Written
    <3>2. /\ Entry(h).id = call[h].id /\ Entry(h).to_status = mem[h].status
          /\ Entry(h).occurred_at = mem[h].updated_at
      BY DEF Entry
    <3>3. /\ Entry(h) \in RowsOf(Announcement(h).id)
          /\ EventType(Entry(h).to_status) = Announcement(h).type
          /\ Entry(h).occurred_at = Announcement(h).occurred_at
      BY <2>2, <3>1, <3>2 DEF RowsOf
    <3>4. NoPhantomEvents'
      BY <1>3, <2>1, <3>3, TrueEventAdded
    <3>5. QED
      BY <1>1, <1>2, <2>1, <2>3, <3>4, FinishStep DEF TypeOK, Answer
  <2>6. QED
    BY <2>4, <2>5
<1>6. QED
  BY <1>4, <1>5

------------------------------------------------------------------------------
(* Every action keeps IInv: the statements *)

\* What a statement that changes rows, and neither the clock, the copies in
\* memory nor the events, has to establish.
LEMMA StatementStep ==
  ASSUME IInv, NEW h \in Handlers, TypeOK', TablesGrow,
         UNCHANGED <<mem, from, events, now>>,
         \A k \in Handlers : k # h => pc'[k] = pc[k] /\ call'[k] = call[k],
         HandlerOK(h)', RowsExplained',
         \A a \in audit_log' \ audit_log :
           /\ a.occurred_at <= now
           /\ Explained(a.id, a.from_status, a.occurred_at)
           /\ \E edge \in transitionTable :
                /\ edge.from = a.from_status /\ edge.to = a.to_status
                /\ edge.event = "cancel" => a.reason # ""
  PROVE  IInv'
<1>1. \A k \in Handlers : HandlerOK(k)'
  <2> TAKE k \in Handlers
  <2>1. CASE k # h
    BY <2>1, OthersKept DEF IInv
  <2>2. QED
    BY <2>1
<1>2. StampsPast'
  BY DEF IInv, StampsPast
<1>3. HistoryExplained'
  <2> SUFFICES ASSUME NEW a \in audit_log'
               PROVE  Explained(a.id, a.from_status, a.occurred_at)'
    BY DEF HistoryExplained
  <2>1. Explained(a.id, a.from_status, a.occurred_at)
    BY DEF IInv, HistoryExplained
  <2>2. QED
    BY <2>1, ExplainedStable
<1>4. AuditRowsLegal'
  BY DEF IInv, AuditRowsLegal
<1>5. NoPhantomEvents'
  BY EventsKept DEF IInv
<1>6. QED
  BY <1>1, <1>2, <1>3, <1>4, <1>5 DEF IInv

\* TxUpdate and TxAudit change nothing anybody else can read.
LEMMA InsideTxStep ==
  ASSUME IInv, NEW h \in Handlers, TxUpdate(h) \/ TxAudit(h)
  PROVE  IInv'
<1>1. TypeOK'
  <2>1. pc' \in [Handlers -> Location]
    BY DEF TxUpdate, TxAudit, Goto, IInv, TypeOK, Location
  <2>2. LockType'
    BY DEF TxUpdate, TxAudit, tables, IInv, TypeOK, LockType
  <2>3. UNCHANGED <<policies, audit_log, call, mem, from, reply, events, now,
                    received>>
    BY DEF TxUpdate, TxAudit, tables
  <2>4. QED
    BY <2>1, <2>2, <2>3 DEF IInv, TypeOK, LockType
<1>2. /\ UNCHANGED <<policies, audit_log, call, mem, from, events, now>>
      /\ \A k \in Handlers : k # h => pc'[k] = pc[k]
      /\ pc[h] \in {"tx", "updated"} /\ pc'[h] \in {"updated", "audited"}
  BY DEF TxUpdate, TxAudit, IInv, TypeOK, Goto, tables
<1>3. TablesGrow
  BY <1>2 DEF TablesGrow, Stored
<1>4. HandlerOK(h)'
  <2>1. call[h].op \in TransitionOps /\ TransitionReady(h)
    BY <1>2 DEF IInv, HandlerOK
  <2>2. TransitionReady(h)'
    BY <1>2, <2>1 DEF TransitionReady, Explained, RowsOf
  <2>3. QED
    BY <1>2, <2>1, <2>2 DEF HandlerOK
<1>5. RowsExplained'
  BY <1>2 DEF IInv, RowsExplained, Explained, RowsOf, Stored
<1>6. QED
  BY <1>1, <1>2, <1>3, <1>4, <1>5, StatementStep

LEMMA InsertStep ==
  ASSUME IInv, NEW h \in Handlers, Insert(h)
  PROVE  IInv'
<1>1. PICK p \in Policies : /\ ~Stored(p)
                            /\ policies' = [policies EXCEPT ![p] = mem[h]]
                            /\ call' = [call EXCEPT ![h].id = p]
  BY DEF Insert
<1>2. call[h].op = "create" /\ mem[h].status = "draft" /\ call[h] \in Call
  BY DEF Insert, IInv, HandlerOK, TypeOK
<1>3. /\ UNCHANGED <<audit_log, lock, mem, from, reply, events, now, received>>
      /\ pc' = [pc EXCEPT ![h] = "committed"]
  BY DEF Insert, Goto
<1>4. [call[h] EXCEPT !.id = p] \in Call
  BY <1>2 DEF Call
<1>5. /\ call'[h].op = "create" /\ call'[h].id = p
      /\ \A k \in Handlers : k # h => call'[k] = call[k] /\ pc'[k] = pc[k]
      /\ pc'[h] = "committed"
  BY <1>1, <1>2, <1>3, <1>4 DEF IInv, TypeOK, Call
<1>6. TypeOK'
  BY <1>1, <1>3, <1>4 DEF IInv, TypeOK, Location
<1>7. TablesGrow
  BY <1>1, <1>2, <1>3 DEF TablesGrow, Stored, IInv, TypeOK
<1>8. policies'[p].status = "draft"
  BY <1>1, <1>2 DEF IInv, TypeOK
<1>9. HandlerOK(h)'
  BY <1>5, <1>8 DEF HandlerOK, Written, Stored, TransitionOps
<1>10. RowsExplained'
  <2> SUFFICES ASSUME NEW q \in Policies, Stored(q)'
               PROVE  Explained(q, policies[q].status, now + 1)'
    BY DEF RowsExplained
  <2>1. CASE q = p
    BY <1>8, <2>1 DEF Explained
  <2>2. CASE q # p
    <3>1. policies'[q] = policies[q]
      BY <1>1, <2>2 DEF IInv, TypeOK
    <3>2. QED
      BY <1>3, <3>1 DEF IInv, RowsExplained, Stored, Explained, RowsOf
  <2>3. QED
    BY <2>1, <2>2
<1>11. QED
  BY <1>3, <1>5, <1>6, <1>7, <1>9, <1>10, StatementStep

\* Both ways to move an existing row: its new status is explained.
LEMMA RowsExplainedStep ==
  ASSUME IInv, NEW p \in Policies, TablesGrow, now' = now,
         \A q \in Policies : q # p => policies'[q] = policies[q],
         Explained(p, policies[p].status, now + 1)'
  PROVE  RowsExplained'
<1> SUFFICES ASSUME NEW q \in Policies, Stored(q)', q # p
             PROVE  Explained(q, policies[q].status, now + 1)'
  BY DEF RowsExplained
<1>1. Explained(q, policies[q].status, now + 1)
  BY DEF IInv, RowsExplained, Stored
<1>2. QED
  BY <1>1 DEF Explained, RowsOf, TablesGrow

LEMMA WriteRowStep ==
  ASSUME IInv, NEW h \in Handlers, WriteRow(h)
  PROVE  IInv'
<1>1. WriteReady(h)
  BY DEF WriteRow, IInv, HandlerOK
<1> PICK p \in Policies : p = call[h].id
  BY <1>1 DEF WriteReady
<1>2. /\ UNCHANGED <<audit_log, lock, call, mem, from, reply, events, now,
                     received>>
      /\ pc' = [pc EXCEPT ![h] = "committed"]
      /\ policies' = [policies EXCEPT ![p] = mem[h]]
  BY DEF WriteRow, Goto
<1>3. TypeOK'
  BY <1>1, <1>2 DEF IInv, TypeOK, Location
<1>4. /\ policies'[p] = mem[h]
      /\ \A q \in Policies : q # p => policies'[q] = policies[q]
      /\ pc'[h] = "committed" /\ \A k \in Handlers : k # h => pc'[k] = pc[k]
  BY <1>1, <1>2 DEF IInv, TypeOK
<1>5. TablesGrow
  BY <1>1, <1>2, <1>4 DEF TablesGrow, Stored, WriteReady
<1>6. HandlerOK(h)'
  BY <1>1, <1>2, <1>4 DEF HandlerOK, Written, WriteReady, TransitionOps
<1>7. Explained(p, mem[h].status, now + 1)
  <2>1. now \in Nat /\ mem[h].updated_at \in Nat /\ mem[h].updated_at <= now
    BY Times DEF IInv, StampsPast
  <2>2. \A a \in audit_log : a.occurred_at \in Nat
    BY Times DEF IInv
  <2>3. \A a \in audit_log :
          a.occurred_at < mem[h].updated_at => a.occurred_at < now + 1
    BY <2>1, <2>2
  <2>4. QED
    BY <1>1, <2>3 DEF WriteReady, Explained, RowsOf
<1>8. RowsExplained'
  <2>1. Explained(p, policies[p].status, now + 1)'
    BY <1>2, <1>4, <1>7 DEF Explained, RowsOf
  <2>2. QED
    BY <1>2, <1>4, <1>5, <2>1, RowsExplainedStep
<1>9. QED
  BY <1>2, <1>3, <1>4, <1>5, <1>6, <1>8, StatementStep

LEMMA TxCommitStep ==
  ASSUME IInv, NEW h \in Handlers, TxCommit(h)
  PROVE  IInv'
<1>1. TransitionReady(h) /\ call[h].op \in TransitionOps
  BY DEF TxCommit, IInv, HandlerOK
<1> PICK p \in Policies : p = call[h].id
  BY <1>1 DEF TransitionReady
<1>2. PICK edge \in transitionTable :
        /\ edge.from = from[h] /\ edge.event = call[h].op
        /\ edge.to = mem[h].status
  BY <1>1 DEF TransitionReady
<1>3. /\ from[h] \in PolicyStatus /\ mem[h].status \in PolicyStatus
      /\ mem[h].status # ""
  BY <1>2, TableTypes DEF PolicyStatus
<1>4. /\ UNCHANGED <<call, mem, from, reply, events, now, received>>
      /\ pc' = [pc EXCEPT ![h] = "committed"]
      /\ audit_log' = audit_log \cup {Entry(h)}
      /\ lock' = [lock EXCEPT ![p] = None]
      /\ policies' = [policies EXCEPT ![p].status = mem[h].status,
                                      ![p].updated_at = mem[h].updated_at]
  BY DEF TxCommit, Goto, SetStatus
<1>5. /\ Entry(h).id = p /\ Entry(h).from_status = from[h]
      /\ Entry(h).to_status = mem[h].status
      /\ Entry(h).occurred_at = mem[h].updated_at
      /\ call[h].op = "cancel" => Entry(h).reason # ""
  BY <1>1, CancelReason DEF Entry, TransitionReady
<1>6. mem[h].updated_at \in Nat /\ mem[h].updated_at <= now /\ now \in Nat
  BY Times DEF IInv, StampsPast
<1>7. Entry(h) \in AuditRow
  <2>1. ReasonFor(call[h].op, call[h].reason) \in AuditReason
    <3>1. call[h].reason \in Reasons \cup {""}
      BY DEF IInv, TypeOK, Call
    <3>2. QED
      BY <3>1, ReasonTypes
  <2>2. QED
    BY <1>3, <1>6, <2>1 DEF Entry, AuditRow, Time
<1>8. /\ policies'[p] \in Policy /\ policies'[p].status = mem[h].status
      /\ \A q \in Policies : q # p => policies'[q] = policies[q]
      /\ policies' \in [Policies -> Policy]
  <2>1. policies[p] \in Policy
    BY DEF IInv, TypeOK
  <2> DEFINE moved == [policies[p] EXCEPT !.status = mem[h].status]
             row == [moved EXCEPT !.updated_at = mem[h].updated_at]
  <2>2. moved \in Policy /\ moved.status = mem[h].status
    BY <1>3, <2>1, RowMoved
  <2> HIDE DEF moved
  <2>3. row \in Policy /\ row.status = mem[h].status
    BY <1>6, <2>2, RowStamped
  <2>4. policies' = [policies EXCEPT ![p] = row]
    BY <1>4 DEF IInv, TypeOK, moved
  <2> HIDE DEF row
  <2>5. QED
    BY <2>3, <2>4 DEF IInv, TypeOK
<1>9. TypeOK'
  <2>1. audit_log' \subseteq AuditRow
    BY <1>4, <1>7 DEF IInv, TypeOK
  <2>2. lock' \in [Policies -> Handlers \cup {None}]
    BY <1>4 DEF IInv, TypeOK
  <2>3. pc' \in [Handlers -> Location]
    BY <1>4 DEF IInv, TypeOK, Location
  <2>4. QED
    BY <1>4, <1>8, <2>1, <2>2, <2>3 DEF IInv, TypeOK
<1>10. TablesGrow
  BY <1>3, <1>4, <1>8 DEF TablesGrow, Stored
<1>11. pc'[h] = "committed" /\ \A k \in Handlers : k # h => pc'[k] = pc[k]
  BY <1>4 DEF IInv, TypeOK
<1>12. HandlerOK(h)'
  <2>1. Entry(h)' = Entry(h) /\ call'[h] = call[h] /\ mem'[h] = mem[h]
    BY <1>4 DEF Entry
  <2>2. Written(h)'
    <3>1. [from |-> from'[h], event |-> call'[h].op, to |-> mem'[h].status]
            \in transitionTable
      BY <1>1, <1>4 DEF TransitionReady
    <3>2. QED
      BY <1>1, <1>3, <1>4, <2>1, <3>1 DEF Written, TransitionOps
  <2>3. QED
    BY <1>11, <2>2 DEF HandlerOK
<1>13. RowsExplained'
  <2>1. Entry(h).occurred_at < now + 1
    <3>1. mem[h].updated_at < now + 1
      BY <1>6
    <3>2. QED
      BY <1>5, <3>1
  <2>2. Explained(p, policies[p].status, now + 1)'
    BY <1>4, <1>5, <1>8, <2>1 DEF Explained, RowsOf
  <2>3. QED
    BY <1>4, <1>8, <1>10, <2>2, RowsExplainedStep
<1>14. /\ Entry(h).occurred_at <= now
       /\ Explained(p, Entry(h).from_status, Entry(h).occurred_at)
       /\ \E e \in transitionTable :
            /\ e.from = Entry(h).from_status /\ e.to = Entry(h).to_status
            /\ e.event = "cancel" => Entry(h).reason # ""
  BY <1>1, <1>2, <1>5, <1>6 DEF TransitionReady
<1>15. \A a \in audit_log' \ audit_log : a = Entry(h)
  BY <1>4
<1>16. QED
  BY <1>4, <1>5, <1>9, <1>10, <1>11, <1>12, <1>13, <1>14, <1>15, StatementStep

------------------------------------------------------------------------------
(* The theorems *)

LEMMA NextIInv == IInv /\ [Next]_vars => IInv'
<1> SUFFICES ASSUME IInv, [Next]_vars PROVE IInv'
  OBVIOUS
<1>1. CASE UNCHANGED vars
  <2>1. /\ UNCHANGED <<policies, audit_log, lock, pc, call, mem, from, reply>>
        /\ UNCHANGED <<events, now, received>>
    BY <1>1 DEF vars
  <2>2. TypeOK'
    BY <2>1 DEF IInv, TypeOK
  <2>3. \A p : Stored(p)' = Stored(p) /\ RowsOf(p)' = RowsOf(p)
    BY <2>1 DEF Stored, RowsOf
  <2>4. \A p, s, t : Explained(p, s, t)' = Explained(p, s, t)
    BY <2>3 DEF Explained
  <2>5. \A h \in Handlers : HandlerOK(h)'
    <3> TAKE h \in Handlers
    <3>1. HandlerOK(h)
      BY DEF IInv
    <3>2. WriteReady(h)' = WriteReady(h)
      BY <2>1, <2>3, <2>4 DEF WriteReady
    <3>3. TransitionReady(h)' = TransitionReady(h)
      BY <2>1, <2>4 DEF TransitionReady
    <3>4. Written(h)' = Written(h)
      BY <2>1, <2>3 DEF Written, Entry
    <3>5. QED
      BY <2>1, <3>1, <3>2, <3>3, <3>4 DEF HandlerOK
  <2>6. StampsPast'
    BY <2>1 DEF IInv, StampsPast
  <2>7. RowsExplained' /\ HistoryExplained' /\ AuditRowsLegal'
    BY <2>1, <2>3, <2>4
       DEF IInv, RowsExplained, HistoryExplained, AuditRowsLegal
  <2>8. NoPhantomEvents'
    BY <2>1, <2>3 DEF IInv, NoPhantomEvents
  <2>9. QED
    BY <2>2, <2>5, <2>6, <2>7, <2>8 DEF IInv
<1>2. CASE Next
  <2> PICK h \in Handlers : Receive(h) \/ Progress(h) \/ Fail(h)
    BY <1>2 DEF Next
  <2>1. CASE Receive(h)
    BY <2>1, ReceiveStep
  <2>2. CASE Create(h)
    BY <2>2, CreateStep
  <2>3. CASE StartUpdate(h)
    BY <2>3, StartUpdateStep
  <2>4. CASE StartCancel(h)
    BY <2>4, StartCancelStep
  <2>5. CASE StartTransition(h)
    BY <2>5, StartTransitionStep
  <2>6. CASE AnswerAtOnce(h) \/ InsertConflict(h) \/ Fail(h)
    BY <2>6, AnswerSteps
  <2>7. CASE Insert(h)
    BY <2>7, InsertStep
  <2>8. CASE WriteRow(h)
    BY <2>8, WriteRowStep
  <2>9. CASE TxUpdate(h) \/ TxAudit(h)
    BY <2>9, InsideTxStep
  <2>10. CASE TxCommit(h)
    BY <2>10, TxCommitStep
  <2>11. CASE Respond(h)
    BY <2>11, RespondStep
  <2>12. QED
    BY <2>1, <2>2, <2>3, <2>4, <2>5, <2>6, <2>7, <2>8, <2>9, <2>10, <2>11
    DEF Progress, RefusedByTable
<1>3. QED
  BY <1>1, <1>2

\* The inductive invariant holds in every behaviour of the service.
THEOREM Invariance == Spec => []IInv
<1>1. Init => IInv
  BY InitIInv
<1>2. IInv /\ [Next]_vars => IInv'
  BY NextIInv
<1>3. QED
  BY <1>1, <1>2, PTL DEF Spec

\* Every variable stays in its type.
THEOREM TypeCorrect == Spec => []TypeOK
<1>1. IInv => TypeOK
  BY DEF IInv
<1>2. QED
  BY <1>1, Invariance, PTL

\* Every audit row is a move the transition table allows, and a cancellation has
\* a reason, although applyTransition decides on a row it read before its
\* transaction began.
THEOREM AuditRowsAreLegal == Spec => []AuditRowsLegal
<1>1. IInv => AuditRowsLegal
  BY DEF IInv
<1>2. QED
  BY <1>1, Invariance, PTL

\* The status of every row is explained by Create, by Cancel or by the audit log,
\* whichever stale copies PolicyRepo.Update wrote back.
THEOREM StatusIsExplained == Spec => []StatusExplained
<1>1. IInv => StatusExplained
  BY DEF IInv, StatusExplained, RowsExplained, Explained, Stored
<1>2. QED
  BY <1>1, Invariance, PTL

\* Every audit row but those that leave draft has an earlier row that led to it.
THEOREM HistoryIsCausal == Spec => []HistoryCausal
<1>1. IInv => HistoryCausal
  <2> SUFFICES ASSUME IInv, NEW a \in audit_log, a.from_status # "draft"
               PROVE  \E b \in RowsOf(a.id) : /\ b.to_status = a.from_status
                                              /\ b.occurred_at < a.occurred_at
    BY DEF HistoryCausal
  <2>1. a.from_status # "terminated"
    BY TableTypes DEF IInv, AuditRowsLegal
  <2>2. QED
    BY <2>1 DEF IInv, HistoryExplained, Explained
<1>2. QED
  BY <1>1, Invariance, PTL

\* No event is handed over for a creation or a transition that is not committed.
THEOREM NoPhantoms == Spec => []NoPhantomEvents
<1>1. IInv => NoPhantomEvents
  BY DEF IInv
<1>2. QED
  BY <1>1, Invariance, PTL

\* Whoever is told that a creation or a transition succeeded finds its row, its
\* audit row and its event.
THEOREM AnsweredIsRecorded == Spec => AnsweredOkIsRecorded
<1> DEFINE AllRecorded ==
      \A h \in Handlers :
        /\ pc[h] # "idle" /\ pc'[h] = "idle" /\ reply'[h] = "ok"
        /\ call[h].op \in Announced
        => Recorded(h)
<1>1. IInv /\ [Next]_vars => [AllRecorded]_vars
  <2> SUFFICES ASSUME IInv, Next, NEW h \in Handlers,
                      pc[h] # "idle", pc'[h] = "idle", reply'[h] = "ok",
                      call[h].op \in Announced
               PROVE  Recorded(h)
    OBVIOUS
  <2>1. PICK k \in Handlers : Receive(k) \/ Progress(k) \/ Fail(k)
    BY DEF Next
  <2>2. k = h
    BY <2>1 DEF IInv, TypeOK, Receive, Progress, RefusedByTable, Fail, Create,
       StartUpdate, StartCancel, StartTransition, Prepare, AnswerAtOnce,
       ReadMissing, Get, RefuseArguments, RefuseStatus, Insert, InsertConflict,
       WriteRow, TxUpdate, TxAudit, TxCommit, Respond, Finish, Goto
  <2>3. Respond(h)
    <3>1. AnswerAtOnce(h) \/ InsertConflict(h) \/ Fail(h) \/ Respond(h)
      BY <2>1, <2>2 DEF IInv, TypeOK, Receive, Progress, RefusedByTable, Create,
         StartUpdate, StartCancel, StartTransition, Prepare, Insert, WriteRow,
         TxUpdate, TxAudit, TxCommit, Goto
    <3>2. ~Fail(h) /\ ~InsertConflict(h)
      BY DEF IInv, TypeOK, Fail, InsertConflict, Finish
    <3>3. ~AnswerAtOnce(h)
      BY DEF IInv, TypeOK, AnswerAtOnce, ReadMissing, Get, RefuseArguments,
         RefuseStatus, Finish, Announced, TransitionOps
    <3>4. QED
      BY <3>1, <3>2, <3>3
  <2>4. Written(h)
    BY <2>3 DEF Respond, IInv, HandlerOK
  <2>5. Announcement(h) \in events'
    BY <2>3 DEF Respond
  <2>6. CASE call[h].op = "create"
    BY <2>4, <2>5, <2>6 DEF Recorded, Written
  <2>7. CASE call[h].op # "create"
    <3>1. /\ Entry(h) \in audit_log
          /\ [from |-> from[h], event |-> call[h].op, to |-> mem[h].status]
               \in transitionTable
      BY <2>4, <2>7 DEF Written, Announced
    <3>2. /\ Entry(h).id = call[h].id /\ Entry(h).from_status = from[h]
          /\ Entry(h).to_status = mem[h].status
          /\ Entry(h).occurred_at = mem[h].updated_at
      BY DEF Entry
    <3>3. QED
      BY <2>5, <2>7, <3>1, <3>2 DEF Recorded, RowsOf
  <2>8. QED
    BY <2>6, <2>7
<1>2. QED
  BY <1>1, Invariance, PTL DEF Spec, AnsweredOkIsRecorded

------------------------------------------------------------------------------
(* Facts about the transition table and about single steps *)

LEMMA EdgesLeaveDraft == \A edge \in transitionTable : edge.to \notin {"", "draft"}
<1> TAKE edge \in transitionTable
<1>1. edge.to \in {"submitted", "active", "rejected", "amended", "cancelled",
                  "expired"}
  BY DEF transitionTable, Edge
<1>2. QED
  BY <1>1

LEMMA ZeroFields == ZeroPolicy.status = "" /\ ZeroPolicy.updated_at = 0
BY DEF ZeroPolicy

------------------------------------------------------------------------------
(* What one step leaves alone *)

\* What a step of h leaves to the other handlers.
OthersAlone(h) ==
  \A k \in Handlers : k # h =>
    pc'[k] = pc[k] /\ call'[k] = call[k] /\ mem'[k] = mem[k] /\ from'[k] = from[k]

LEMMA AloneFinish ==
  ASSUME TypeOK, NEW h \in Handlers, NEW answer, Finish(h, answer)
  PROVE  OthersAlone(h) /\ pc'[h] = "idle"
BY DEF TypeOK, Finish, Goto, OthersAlone

LEMMA AlonePrepare ==
  ASSUME TypeOK, NEW h \in Handlers, NEW copy, NEW to, Prepare(h, copy, to),
         from' = from \/ \E f : from' = [from EXCEPT ![h] = f]
  PROVE  /\ OthersAlone(h) /\ pc'[h] = to /\ call' = call
         /\ mem'[h] = [copy EXCEPT !.updated_at = now + 1]
         /\ now' = now + 1 /\ UNCHANGED <<policies, audit_log>>
BY DEF TypeOK, Prepare, Goto, OthersAlone, tables

LEMMA AloneWrites ==
  ASSUME TypeOK, NEW h \in Handlers,
         \/ Insert(h) \/ WriteRow(h) \/ TxUpdate(h) \/ TxAudit(h) \/ TxCommit(h)
  PROVE  OthersAlone(h) /\ now' = now /\ mem' = mem /\ from' = from
<1>1. now' = now /\ mem' = mem /\ from' = from
  BY DEF Insert, WriteRow, TxUpdate, TxAudit, TxCommit
<1>2. \A k \in Handlers : k # h => pc'[k] = pc[k]
  BY DEF TypeOK, Insert, WriteRow, TxUpdate, TxAudit, TxCommit, Goto
<1>3. \A k \in Handlers : k # h => call'[k] = call[k]
  BY DEF TypeOK, Insert, WriteRow, TxUpdate, TxAudit, TxCommit
<1>4. QED
  BY <1>1, <1>2, <1>3 DEF OthersAlone

\* Every step belongs to one handler.
LEMMA ActsAlone ==
  ASSUME TypeOK, NEW h \in Handlers, Receive(h) \/ Progress(h) \/ Fail(h)
  PROVE  OthersAlone(h)
<1>1. CASE Receive(h)
  BY <1>1 DEF Receive, Goto, TypeOK, OthersAlone
<1>2. CASE \E answer : Finish(h, answer)
  BY <1>2, AloneFinish
<1>3. CASE \E copy, to : /\ Prepare(h, copy, to)
                         /\ from' = from \/ \E f : from' = [from EXCEPT ![h] = f]
  BY <1>3, AlonePrepare
<1>4. CASE Insert(h) \/ WriteRow(h) \/ TxUpdate(h) \/ TxAudit(h) \/ TxCommit(h)
  BY <1>4, AloneWrites
<1>5. AnswerAtOnce(h) \/ InsertConflict(h) \/ Respond(h) \/ Fail(h)
      => \E answer : Finish(h, answer)
  BY DEF AnswerAtOnce, ReadMissing, Get, RefuseArguments, RefuseStatus,
         InsertConflict, Respond, Fail
<1>6. Create(h) \/ StartUpdate(h) \/ StartCancel(h) \/ StartTransition(h)
      => \E copy, to : /\ Prepare(h, copy, to)
                       /\ from' = from \/ \E f : from' = [from EXCEPT ![h] = f]
  BY DEF Create, StartUpdate, StartCancel, StartTransition
<1>7. QED
  BY <1>1, <1>2, <1>3, <1>4, <1>5, <1>6 DEF Progress, RefusedByTable

------------------------------------------------------------------------------
(* The steps that write, and what they are to a policy *)

LEMMA CommitWrites ==
  ASSUME IInv, NEW h \in Handlers, TxCommit(h),
         NEW p \in Policies, p = call[h].id
  PROVE  /\ policies'[p].status = mem[h].status
         /\ policies'[p].updated_at = mem[h].updated_at
         /\ \A q \in Policies : q # p => policies'[q] = policies[q]
         /\ RowsOf(p)' = RowsOf(p) \cup {Entry(h)}
         /\ \A q \in Policies : q # p => RowsOf(q)' = RowsOf(q)
<1>1. policies[p] \in Policy
  BY DEF IInv, TypeOK
<1>2. /\ policies'[p].status = mem[h].status
      /\ policies'[p].updated_at = mem[h].updated_at
  BY <1>1 DEF TxCommit, SetStatus, Policy, IInv, TypeOK
<1>3. \A q \in Policies : q # p => policies'[q] = policies[q]
  BY DEF TxCommit, SetStatus, IInv, TypeOK
<1> DEFINE e == Entry(h)
<1>4. audit_log' = audit_log \cup {e} /\ e.id = p
  BY DEF TxCommit, Entry
<1> HIDE DEF e
<1>5. /\ RowsOf(p)' = RowsOf(p) \cup {e}
      /\ \A q \in Policies : q # p => RowsOf(q)' = RowsOf(q)
  BY <1>4 DEF RowsOf
<1>6. QED
  BY <1>2, <1>3, <1>5 DEF e

LEMMA OnlyThreeWrite ==
  ASSUME Next
  PROVE  \/ UNCHANGED <<policies, audit_log>>
         \/ \E h \in Handlers : Insert(h) \/ WriteRow(h) \/ TxCommit(h)
<1>1. PICK h \in Handlers : Receive(h) \/ Progress(h) \/ Fail(h)
  BY DEF Next
<1>2. CASE Insert(h) \/ WriteRow(h) \/ TxCommit(h)
  BY <1>2
<1>3. CASE ~(Insert(h) \/ WriteRow(h) \/ TxCommit(h))
  BY <1>1, <1>3 DEF Receive, Progress, RefusedByTable, Fail, Create,
     StartUpdate, StartCancel, StartTransition, Prepare, AnswerAtOnce,
     InsertConflict, TxUpdate, TxAudit, Respond, tables
<1>4. QED
  BY <1>2, <1>3

\* h gives p a status and a time, and leaves the other policies alone.
Gives(h, p) ==
  /\ policies'[p].status = mem[h].status
  /\ policies'[p].updated_at = mem[h].updated_at
  /\ mem[h].status # ""
  /\ \A q \in Policies : q # p => policies'[q] = policies[q]

Creates(h, p) == /\ ~Stored(p) /\ mem[h].status = "draft"
                 /\ audit_log' = audit_log

Rewrites(h, p) == /\ pc[h] = "write" /\ p = call[h].id
                  /\ audit_log' = audit_log

Moves(h, p) == /\ pc[h] = "audited" /\ p = call[h].id
               /\ audit_log' = audit_log \cup {Entry(h)}

LEMMA WhatIsWritten ==
  ASSUME IInv, NEW h \in Handlers,
         Insert(h) \/ WriteRow(h) \/ TxCommit(h)
  PROVE  \E p \in Policies :
           Gives(h, p) /\ (Creates(h, p) \/ Rewrites(h, p) \/ Moves(h, p))
<1>1. TypeOK /\ HandlerOK(h)
  BY DEF IInv
<1>2. CASE Insert(h)
  <2>1. PICK p \in Policies :
          ~Stored(p) /\ policies' = [policies EXCEPT ![p] = mem[h]]
    BY <1>2 DEF Insert
  <2>2. policies'[p] = mem[h] /\ \A q \in Policies : q # p => policies'[q] = policies[q]
    BY <1>1, <2>1 DEF TypeOK
  <2>3. mem[h].status = "draft" /\ audit_log' = audit_log
    BY <1>1, <1>2 DEF Insert, HandlerOK
  <2>4. QED
    BY <2>1, <2>2, <2>3 DEF Gives, Creates
<1>3. CASE WriteRow(h)
  <2>1. PICK p \in Policies : p = call[h].id
    BY <1>1, <1>3 DEF WriteRow, HandlerOK, WriteReady
  <2>2. policies' = [policies EXCEPT ![p] = mem[h]]
    BY <1>3, <2>1 DEF WriteRow
  <2>3. policies'[p] = mem[h] /\ \A q \in Policies : q # p => policies'[q] = policies[q]
    BY <1>1, <2>2 DEF TypeOK
  <2>4. /\ mem[h].status # "" /\ pc[h] = "write" /\ audit_log' = audit_log
    BY <1>1, <1>3 DEF WriteRow, HandlerOK, WriteReady
  <2>5. QED
    BY <2>1, <2>3, <2>4 DEF Gives, Rewrites
<1>4. CASE TxCommit(h)
  <2>1. PICK p \in Policies : p = call[h].id
    BY <1>1, <1>4 DEF TxCommit, HandlerOK, TransitionReady
  <2>2. /\ policies'[p].status = mem[h].status
        /\ policies'[p].updated_at = mem[h].updated_at
        /\ \A q \in Policies : q # p => policies'[q] = policies[q]
    BY <1>4, <2>1, CommitWrites
  <2>3. pc[h] = "audited" /\ audit_log' = audit_log \cup {Entry(h)}
    BY <1>4 DEF TxCommit
  <2>4. mem[h].status # ""
    <3>1. [from |-> from[h], event |-> call[h].op, to |-> mem[h].status]
            \in transitionTable
      BY <1>1, <2>3 DEF HandlerOK, TransitionReady
    <3>2. QED
      BY <3>1, EdgesLeaveDraft
  <2>5. QED
    BY <2>1, <2>2, <2>3, <2>4 DEF Gives, Moves
<1>5. QED
  BY <1>2, <1>3, <1>4

LEMMA StatusGiven ==
  ASSUME NEW h \in Handlers, NEW p \in Policies, Gives(h, p)
  PROVE  StatusOf' = [StatusOf EXCEPT ![p] = mem[h].status]
BY DEF Gives, StatusOf

------------------------------------------------------------------------------
(* No cover without approval *)

\* Every audit row is of an operation the service has, with its reason.
RowsByOperation ==
  \A a \in audit_log : \E edge \in transitionTable :
    /\ edge.event \in TransitionOps
    /\ edge.from = a.from_status /\ edge.to = a.to_status
    /\ edge.event = "activate" => a.reason = "UNDERWRITER_APPROVED"

LEMMA RowsByOperationStep == IInv /\ RowsByOperation /\ [Next]_vars => RowsByOperation'
<1> SUFFICES ASSUME IInv, RowsByOperation, [Next]_vars PROVE RowsByOperation'
  OBVIOUS
<1>1. CASE UNCHANGED audit_log
  BY <1>1 DEF RowsByOperation
<1>2. CASE \E h \in Handlers : Insert(h) \/ WriteRow(h) \/ TxCommit(h)
  <2>1. PICK h \in Handlers : Insert(h) \/ WriteRow(h) \/ TxCommit(h)
    BY <1>2
  <2>2. PICK p \in Policies :
          Gives(h, p) /\ (Creates(h, p) \/ Rewrites(h, p) \/ Moves(h, p))
    BY <2>1, WhatIsWritten
  <2>3. CASE Creates(h, p) \/ Rewrites(h, p)
    BY <2>3 DEF Creates, Rewrites, RowsByOperation
  <2>4. CASE Moves(h, p)
    <3> DEFINE e == Entry(h)
               edge == [from |-> from[h], event |-> call[h].op,
                        to |-> mem[h].status]
    <3>1. call[h].op \in TransitionOps /\ edge \in transitionTable
      BY <2>4 DEF IInv, HandlerOK, TransitionReady, Moves
    <3>2. /\ e.from_status = from[h] /\ e.to_status = mem[h].status
          /\ e.reason = ReasonFor(call[h].op, call[h].reason)
      BY DEF Entry
    <3>3. call[h].op = "activate" => e.reason = "UNDERWRITER_APPROVED"
      BY <3>2 DEF ReasonFor
    <3>4. /\ edge.event = call[h].op /\ edge.from = from[h]
          /\ edge.to = mem[h].status
      OBVIOUS
    <3>5. audit_log' = audit_log \cup {e}
      BY <2>4 DEF Moves
    <3> HIDE DEF e, edge
    <3>6. QED
      BY <3>1, <3>2, <3>3, <3>4, <3>5 DEF RowsByOperation
  <2>5. QED
    BY <2>2, <2>3, <2>4
<1>3. QED
  BY <1>1, <1>2, OnlyThreeWrite DEF vars

\* Every audit row is an edge of the transition table that one of the operations
\* takes, and an approval is recorded with the underwriter's reason.
THEOREM RowsAreByOperation == Spec => []RowsByOperation
<1>1. Init => RowsByOperation
  BY DEF Init, RowsByOperation
<1>2. QED
  BY <1>1, RowsByOperationStep, Invariance, PTL DEF Spec

\* The only operation that leads to each of three statuses.
LEMMA OneWayThere ==
  ASSUME NEW edge \in transitionTable, edge.event \in TransitionOps
  PROVE  /\ edge.to \in {"cancelled", "expired"} => edge.from = "active"
         /\ edge.to = "active" =>
              edge.from = "submitted" /\ edge.event = "activate"
BY DEF transitionTable, Edge, TransitionOps

\* A policy is active, cancelled or expired only after it was submitted and then
\* approved by an underwriter, although Update writes back statuses it read long
\* ago.
THEOREM CoverIsApproved == Spec => []CoverWasApproved
<1>1. IInv /\ RowsByOperation => CoverWasApproved
  <2> SUFFICES ASSUME IInv, RowsByOperation, NEW p \in Policies,
                      policies[p].status \in {"active", "cancelled", "expired"}
               PROVE  \E a, b \in RowsOf(p) :
                        /\ a.to_status = "submitted" /\ b.to_status = "active"
                        /\ b.reason = "UNDERWRITER_APPROVED"
                        /\ a.occurred_at < b.occurred_at
    BY DEF CoverWasApproved
  <2>1. PICK r \in RowsOf(p) : r.to_status = policies[p].status
    BY DEF IInv, RowsExplained, Explained, Stored
  <2>2. PICK b \in RowsOf(p) : b.to_status = "active"
    <3>1. CASE r.to_status = "active"
      BY <3>1
    <3>2. CASE r.to_status \in {"cancelled", "expired"}
      <4>1. r.from_status = "active" /\ r \in audit_log /\ r.id = p
        BY <3>2, OneWayThere DEF RowsByOperation, RowsOf
      <4>2. QED
        BY <4>1 DEF IInv, HistoryExplained, Explained
    <3>3. QED
      BY <2>1, <3>1, <3>2
  <2>3. /\ b.from_status = "submitted" /\ b.reason = "UNDERWRITER_APPROVED"
        /\ b \in audit_log /\ b.id = p
    BY <2>2, OneWayThere DEF RowsByOperation, RowsOf
  <2>4. PICK a \in RowsOf(p) : a.to_status = "submitted"
                               /\ a.occurred_at < b.occurred_at
    BY <2>3 DEF IInv, HistoryExplained, Explained
  <2>5. QED
    BY <2>2, <2>3, <2>4
<1>2. QED
  BY <1>1, Invariance, RowsAreByOperation, PTL

------------------------------------------------------------------------------
(* The row locks *)

\* A locked row is locked by a transaction that is open on it.
LocksHeld ==
  \A p \in Policies : lock[p] # None =>
    /\ lock[p] \in Handlers
    /\ pc[lock[p]] \in {"updated", "audited"}
    /\ call[lock[p]].id = p

\* A step of a handler outside its transaction.
LEMMA LocksLeftAlone ==
  ASSUME LocksHeld, NEW h \in Handlers, OthersAlone(h), lock' = lock,
         pc[h] \notin {"updated", "audited"}
  PROVE  LocksHeld'
BY DEF LocksHeld, OthersAlone

\* Steps in a transaction, and the ends it can have.
LEMMA LocksTaken ==
  ASSUME IInv, LocksHeld, NEW h \in Handlers,
         TxUpdate(h) \/ TxAudit(h) \/ TxCommit(h) \/ Fail(h), OthersAlone(h)
  PROVE  LocksHeld'
<1>1. /\ lock \in [Policies -> Handlers \cup {None}] /\ pc \in [Handlers -> Location]
      /\ \A p \in Policies : lock[p] = h => call[h].id = p
  <2>1. lock \in [Policies -> Handlers \cup {None}] /\ pc \in [Handlers -> Location]
    BY DEF IInv, TypeOK
  <2>2. h # None
    BY ServiceAssumption
  <2>3. QED
    BY <2>1, <2>2 DEF LocksHeld
<1>2. CASE TxUpdate(h)
  <2>1. /\ pc'[h] = "updated" /\ call' = call
        /\ lock' = [lock EXCEPT ![call[h].id] = h]
    BY <1>1, <1>2 DEF TxUpdate, Goto
  <2>2. \A p \in Policies : lock[p] # h
    BY <1>1, <1>2, ServiceAssumption DEF TxUpdate
  <2>3. \A p \in Policies : lock'[p] = IF p = call[h].id THEN h ELSE lock[p]
    BY <1>1, <2>1
  <2>4. QED
    BY <2>1, <2>2, <2>3 DEF LocksHeld, OthersAlone
<1>3. CASE TxAudit(h)
  <2>1. pc'[h] = "audited" /\ call' = call /\ lock' = lock
    BY <1>1, <1>3 DEF TxAudit, Goto, tables
  <2>2. QED
    BY <2>1 DEF LocksHeld, OthersAlone
<1>4. CASE TxCommit(h) \/ Fail(h)
  <2>1. \A p \in Policies : lock'[p] \in {None, lock[p]}
    BY <1>1, <1>4 DEF TxCommit, Fail
  <2>2. \A p \in Policies : lock[p] = h => lock'[p] = None
    BY <1>1, <1>4 DEF TxCommit, Fail
  <2>3. QED
    BY <2>1, <2>2 DEF LocksHeld, OthersAlone
<1>5. QED
  BY <1>2, <1>3, <1>4

LEMMA LocksHeldStep == IInv /\ LocksHeld /\ [Next]_vars => LocksHeld'
<1> SUFFICES ASSUME IInv, LocksHeld, [Next]_vars PROVE LocksHeld'
  OBVIOUS
<1>1. CASE UNCHANGED vars
  BY <1>1 DEF vars, LocksHeld
<1>2. CASE Next
  <2>1. PICK h \in Handlers : Receive(h) \/ Progress(h) \/ Fail(h)
    BY <1>2 DEF Next
  <2>2. OthersAlone(h)
    BY <2>1, ActsAlone DEF IInv
  <2>3. CASE TxUpdate(h) \/ TxAudit(h) \/ TxCommit(h) \/ Fail(h)
    BY <2>2, <2>3, LocksTaken
  <2>4. CASE ~(TxUpdate(h) \/ TxAudit(h) \/ TxCommit(h) \/ Fail(h))
    <3>1. lock' = lock /\ pc[h] \notin {"updated", "audited"}
      BY <2>1, <2>4 DEF Receive, Progress, RefusedByTable, Create, StartUpdate,
         StartCancel, StartTransition, Prepare, Reads, AnswerAtOnce,
         ReadMissing, Get, RefuseArguments, RefuseStatus, Insert,
         InsertConflict, WriteRow, Respond, tables
    <3>2. QED
      BY <2>2, <3>1, LocksLeftAlone
  <2>5. QED
    BY <2>3, <2>4
<1>3. QED
  BY <1>1, <1>2

\* Whoever waits for a row waits for a handler that can go on: the service cannot
\* deadlock on its row locks, and no failure leaves one behind.
THEOREM LockHoldersAlwaysGoOn == Spec => []LockHoldersGoOn
<1>1. Init => LocksHeld
  BY DEF Init, LocksHeld
<1>2. IInv /\ LocksHeld => LockHoldersGoOn
  <2> SUFFICES ASSUME IInv, LocksHeld, NEW h \in Handlers, Waits(h)
               PROVE  /\ lock[call[h].id] # h
                      /\ pc[lock[call[h].id]] \in {"updated", "audited"}
                      /\ call[lock[call[h].id]].id = call[h].id
    BY DEF LockHoldersGoOn
  <2>1. call[h].id \in Policies
    BY DEF Waits, IInv, HandlerOK, WriteReady, TransitionReady
  <2>2. QED
    BY <2>1 DEF Waits, LocksHeld
<1>3. QED
  BY <1>1, <1>2, LocksHeldStep, Invariance, PTL DEF Spec

------------------------------------------------------------------------------
(* The service implements PolicyHistory, whoever calls it *)

\* Where a handler holds what it decided on a row it has read.
Deciding == {"write", "tx", "updated", "audited"}

\* A policy that a handler is about to change is there.
DecidingStored == \A h \in Handlers : pc[h] \in Deciding => Stored(call[h].id)

LEMMA StoredStays ==
  ASSUME IInv, Next, NEW p \in Policies, Stored(p)
  PROVE  Stored(p)'
<1>1. CASE UNCHANGED <<policies, audit_log>>
  BY <1>1 DEF Stored
<1>2. CASE \E h \in Handlers : Insert(h) \/ WriteRow(h) \/ TxCommit(h)
  <2>1. PICK h \in Handlers, q \in Policies : Gives(h, q)
    BY <1>2, WhatIsWritten
  <2>2. QED
    BY <2>1 DEF Gives, Stored
<1>3. QED
  BY <1>1, <1>2, OnlyThreeWrite

\* A handler decides only about a policy it has just found.
LEMMA BeginsDeciding ==
  ASSUME IInv, NEW h \in Handlers, Receive(h) \/ Progress(h) \/ Fail(h),
         pc'[h] \in Deciding, pc[h] \notin Deciding
  PROVE  Stored(call[h].id) /\ call' = call
<1>1. TypeOK
  BY DEF IInv
<1>2. StartUpdate(h) \/ StartCancel(h) \/ StartTransition(h)
  BY <1>1 DEF Receive, Progress, RefusedByTable, Fail, Create, Prepare,
     AnswerAtOnce, ReadMissing, Get, RefuseArguments, RefuseStatus, Insert,
     InsertConflict, WriteRow, TxUpdate, TxAudit, TxCommit, Respond, Finish,
     Goto, Deciding, TypeOK
<1>3. call' = call
  BY <1>2 DEF StartUpdate, StartCancel, StartTransition, Prepare
<1>4. CASE StartUpdate(h) \/ StartCancel(h)
  BY <1>3, <1>4 DEF StartUpdate, StartCancel, Row, Stored
<1>5. CASE StartTransition(h)
  <2>1. PICK edge \in transitionTable : edge.from = Row(h).status
    BY <1>5 DEF StartTransition, Transition
  <2>2. QED
    BY <1>3, <2>1, TableTypes DEF Row, Stored
<1>6. QED
  BY <1>2, <1>3, <1>4, <1>5

\* While it decides, it stays with that policy.
LEMMA KeepsDeciding ==
  ASSUME IInv, NEW h \in Handlers, Receive(h) \/ Progress(h) \/ Fail(h),
         pc'[h] \in Deciding, pc[h] \in Deciding
  PROVE  call' = call
BY DEF IInv, TypeOK, Receive, Progress, RefusedByTable, Fail, Create,
   StartUpdate, StartCancel, StartTransition, Prepare, AnswerAtOnce,
   ReadMissing, Get, RefuseArguments, RefuseStatus, Insert, InsertConflict,
   WriteRow, TxUpdate, TxAudit, TxCommit, Respond, Finish, Goto, Deciding, Reads

LEMMA DecidingId ==
  ASSUME IInv, NEW h \in Handlers, pc[h] \in Deciding
  PROVE  call[h].id \in Policies
BY DEF IInv, HandlerOK, WriteReady, TransitionReady, Deciding

LEMMA DecidingStep == IInv /\ DecidingStored /\ [Next]_vars => DecidingStored'
<1> SUFFICES ASSUME IInv, DecidingStored, [Next]_vars PROVE DecidingStored'
  OBVIOUS
<1>1. CASE UNCHANGED vars
  BY <1>1 DEF vars, DecidingStored, Stored
<1>2. CASE Next
  <2> SUFFICES ASSUME NEW k \in Handlers, pc'[k] \in Deciding
               PROVE  Stored(call[k].id)'
    BY DEF DecidingStored, Deciding
  <2>1. PICK h \in Handlers : Receive(h) \/ Progress(h) \/ Fail(h)
    BY <1>2 DEF Next
  <2>2. /\ Stored(call[k].id) /\ call'[k] = call[k]
        /\ call[k].id \in Policies
    <3>1. CASE k # h
      <4>1. pc[k] \in Deciding /\ call'[k] = call[k]
        BY <2>1, <3>1, ActsAlone DEF IInv, OthersAlone
      <4>2. QED
        BY <4>1, DecidingId DEF DecidingStored
    <3>2. CASE k = h /\ pc[h] \in Deciding
      BY <2>1, <3>2, KeepsDeciding, DecidingId DEF DecidingStored
    <3>3. CASE k = h /\ pc[h] \notin Deciding
      <4>1. Stored(call[h].id) /\ call' = call
        BY <2>1, <3>3, BeginsDeciding
      <4>2. call[h].id \in Policies
        <5>1. IInv'
          BY <1>2, NextIInv
        <5>2. pc'[h] \in Deciding => call'[h].id \in Policies
          BY <5>1 DEF IInv, HandlerOK, WriteReady, TransitionReady, Deciding
        <5>3. QED
          BY <3>3, <4>1, <5>2
      <4>3. QED
        BY <3>3, <4>1, <4>2
    <3>4. QED
      BY <3>1, <3>2, <3>3
  <2>3. QED
    BY <1>2, <2>2, StoredStays DEF Stored
<1>3. QED
  BY <1>1, <1>2

LEMMA HistoryTable == History!transitionTable = transitionTable
BY DEF transitionTable, Edge, History!transitionTable, History!Edge

LEMMA HistoryRows == AuditRow = History!AuditRow
BY DEF AuditRow, History!AuditRow, PolicyStatus, History!PolicyStatus

LEMMA HistoryStatus == History!PolicyStatus = PolicyStatus
BY DEF PolicyStatus, History!PolicyStatus

\* COMMIT moves the policy on, from a status it has had.
LEMMA CommitGoesOn ==
  ASSUME IInv, IInv', DecidingStored, NEW h \in Handlers, NEW p \in Policies,
         Gives(h, p), Moves(h, p)
  PROVE  History!Next
<1> DEFINE e == Entry(h)
           edge == [from |-> from[h], event |-> call[h].op, to |-> mem[h].status]
<1>1. /\ e.id = p /\ e.from_status = from[h] /\ e.to_status = mem[h].status
      /\ e.reason = ReasonFor(call[h].op, call[h].reason)
      /\ e.occurred_at = mem[h].updated_at
  BY DEF Entry, Moves
<1>2. TransitionReady(h) /\ History!Created(p)
  BY DEF IInv, HandlerOK, Moves, DecidingStored, Deciding, Stored, History!Created,
         StatusOf
<1>3. edge \in History!transitionTable /\ edge.event = call[h].op
  BY <1>2, HistoryTable DEF TransitionReady
<1>4. edge.event = "cancel" => e.reason # ""
  BY <1>1, <1>2, CancelReason DEF TransitionReady
<1>5. audit_log' = audit_log \cup {e}
  BY DEF Moves
<1>6. e \in History!AuditRow
  BY <1>5, HistoryRows DEF IInv, TypeOK
<1>7. StatusOf' = [StatusOf EXCEPT ![p] = mem[h].status]
  BY StatusGiven
<1>8. edge.from = from[h] /\ edge.to = mem[h].status
  OBVIOUS
<1>9. \/ from[h] = "draft"
      \/ \E a \in History!Cause(p, from[h]) : a.occurred_at < e.occurred_at
  <2>1. from[h] # "terminated"
    BY <1>3, <1>8, HistoryTable, TableTypes
  <2>2. QED
    BY <1>1, <1>2, <2>1 DEF TransitionReady, Explained, RowsOf, History!Cause,
       Moves
<1> HIDE DEF e, edge
<1>10. History!Fire(p, edge, e)
  BY <1>1, <1>2, <1>4, <1>5, <1>6, <1>7, <1>8, <1>9 DEF History!Fire
<1>11. e \in audit_log'
  BY <1>5
<1>12. QED
  BY <1>3, <1>10, <1>11 DEF History!Next

\* A write without a transaction discards the policy or brings back a status it
\* has had.
LEMMA RewriteGoesBack ==
  ASSUME IInv, DecidingStored, NEW h \in Handlers, NEW p \in Policies,
         Gives(h, p), Rewrites(h, p)
  PROVE  History!Next
<1>1. WriteReady(h) /\ History!Created(p)
  BY DEF IInv, HandlerOK, Rewrites, DecidingStored, Deciding, Stored,
         History!Created, StatusOf
<1>2. StatusOf' = [StatusOf EXCEPT ![p] = mem[h].status] /\ audit_log' = audit_log
  BY StatusGiven DEF Rewrites
<1>3. CASE mem[h].status = "terminated"
  <2>1. History!Discard(p)
    BY <1>1, <1>2, <1>3 DEF History!Discard
  <2>2. QED
    BY <2>1 DEF History!Next
<1>4. CASE mem[h].status # "terminated"
  <2>1. mem[h].status = "draft" \/ History!Cause(p, mem[h].status) # {}
    BY <1>1, <1>4 DEF WriteReady, Explained, RowsOf, History!Cause, Rewrites
  <2>2. History!Restore(p, mem[h].status)
    BY <1>1, <1>2, <2>1 DEF History!Restore
  <2>3. mem[h].status \in History!PolicyStatus
    BY <1>1, RowTypes, HistoryStatus DEF WriteReady, IInv, TypeOK
  <2>4. QED
    BY <2>2, <2>3 DEF History!Next
<1>5. QED
  BY <1>3, <1>4

LEMMA StepOfHistory ==
  ASSUME IInv, IInv', DecidingStored, Next
  PROVE  History!Next \/ UNCHANGED <<StatusOf, audit_log>>
<1>1. CASE UNCHANGED <<policies, audit_log>>
  BY <1>1 DEF StatusOf
<1>2. CASE \E h \in Handlers : Insert(h) \/ WriteRow(h) \/ TxCommit(h)
  <2>1. PICK h \in Handlers, p \in Policies :
          Gives(h, p) /\ (Creates(h, p) \/ Rewrites(h, p) \/ Moves(h, p))
    BY <1>2, WhatIsWritten
  <2>2. CASE Creates(h, p)
    <3>1. StatusOf' = [StatusOf EXCEPT ![p] = "draft"] /\ StatusOf[p] = ""
      BY <2>1, <2>2, StatusGiven DEF Creates, Stored, StatusOf
    <3>2. History!Create(p)
      BY <2>2, <3>1 DEF Creates, History!Create, History!Created
    <3>3. QED
      BY <3>2 DEF History!Next
  <2>3. QED
    BY <2>1, <2>2, RewriteGoesBack, CommitGoesOn
<1>3. QED
  BY <1>1, <1>2, OnlyThreeWrite

\* The service implements PolicyHistory for callers who do not wait for each
\* other: no interleaving moves a status forward without its audit row, or back
\* to where it never was.
THEOREM KeepsHistory == Spec => HistoryKept
<1>1. Init => History!Init /\ DecidingStored
  <2> SUFFICES ASSUME Init PROVE History!Init /\ DecidingStored
    OBVIOUS
  <2>1. \A p \in Policies : policies[p] = ZeroPolicy
    BY DEF Init
  <2>2. StatusOf = [p \in Policies |-> ""]
    BY <2>1, ZeroFields DEF StatusOf
  <2>3. QED
    BY <2>2 DEF Init, History!Init, DecidingStored, Deciding
<1>2. IInv /\ IInv' /\ DecidingStored /\ [Next]_vars => [History!Next]_(History!vars)
  <2> SUFFICES ASSUME IInv, IInv', DecidingStored, [Next]_vars
               PROVE  History!Next \/ UNCHANGED <<StatusOf, audit_log>>
    BY DEF History!vars
  <2>1. CASE UNCHANGED vars
    BY <2>1 DEF vars, StatusOf
  <2>2. CASE Next
    BY <2>2, StepOfHistory
  <2>3. QED
    BY <2>1, <2>2
<1>3. QED
  BY <1>1, <1>2, DecidingStep, Invariance, PTL DEF Spec, HistoryKept, History!Spec

------------------------------------------------------------------------------
(* Callers that wait (SerialSpec).                                         *)
(*                                                                         *)
(* What a caller gains by waiting is that the row a handler has read is    *)
(* still the same when the handler writes (Faithful).  Everything else     *)
(* follows from it: the edge taken leaves the status the policy has, and   *)
(* the new audit row is its latest.  Hence PolicyLifecycle is implemented. *)

\* The row is still the one that was read, and what is to be written is later
\* than anything the database has of that policy.
Faithful(h) ==
  pc[h] \in Deciding =>
    /\ Stored(call[h].id)
    /\ pc[h] = "write" =>
         \/ mem[h].status = policies[call[h].id].status
         \/ mem[h].status = "terminated" /\ policies[call[h].id].status = "draft"
    /\ pc[h] # "write" => from[h] = policies[call[h].id].status
    /\ policies[call[h].id].updated_at < mem[h].updated_at
    /\ \A a \in RowsOf(call[h].id) : a.occurred_at < mem[h].updated_at

\* updated_at is never older than the history, nor ahead of the clock.
RowsDated ==
  \A p \in Policies :
    /\ policies[p].updated_at <= now
    /\ \A a \in RowsOf(p) : a.occurred_at <= policies[p].updated_at

SerialInv == /\ IInv /\ OneWriterPerPolicy /\ RowsDated /\ HistoryIsPath
             /\ \A h \in Handlers : Faithful(h)

\* The part of HistoryIsPath that is about p.
PathOf(p) ==
  /\ \A a \in RowsOf(p) :
       LET earlier == {b \in RowsOf(p) : b.occurred_at < a.occurred_at}
       IN  \/ earlier = {} /\ a.from_status = "draft"
           \/ \E b \in earlier :
                /\ b.to_status = a.from_status
                /\ \A c \in earlier : c.occurred_at <= b.occurred_at
  /\ RowsOf(p) # {} =>
       \E a \in RowsOf(p) : /\ a.to_status = policies[p].status
                            /\ \A b \in RowsOf(p) : b.occurred_at <= a.occurred_at

LEMMA PathByPolicy == HistoryIsPath <=> \A p \in Policies : PathOf(p)
BY DEF HistoryIsPath, PathOf

------------------------------------------------------------------------------
(* Callers that wait *)

LEMMA Stamps ==
  ASSUME IInv
  PROVE  /\ now \in Nat
         /\ \A p \in Policies : policies[p].updated_at \in Nat
         /\ \A h \in Handlers : mem[h].updated_at \in Nat
                                /\ mem[h].updated_at <= now
         /\ \A a \in audit_log : a.occurred_at \in Nat /\ a.occurred_at <= now
<1>1. \A p \in Policies : policies[p] \in Policy
  BY DEF IInv, TypeOK
<1>2. QED
  BY <1>1, Times, RowTypes DEF IInv, StampsPast

\* A policy that is not there, or still a draft, has no history.
LEMMA DraftHasNoRows ==
  ASSUME IInv, NEW p \in Policies, PathOf(p),
         policies[p].status \in {"", "draft"}
  PROVE  RowsOf(p) = {}
<1>1. \A a \in audit_log : a.to_status \notin {"", "draft"}
  BY EdgesLeaveDraft DEF IInv, AuditRowsLegal
<1>2. QED
  BY <1>1 DEF PathOf, RowsOf

LEMMA InitSerialInv == Init => SerialInv
<1> SUFFICES ASSUME Init PROVE SerialInv
  OBVIOUS
<1>1. /\ \A h \in Handlers : pc[h] = "idle"
      /\ audit_log = {} /\ now = 0
      /\ \A p \in Policies : policies[p].updated_at = 0
  BY DEF Init, ZeroPolicy
<1>2. OneWriterPerPolicy
  BY <1>1 DEF OneWriterPerPolicy, Mutating
<1>3. RowsDated /\ HistoryIsPath
  BY <1>1 DEF RowsDated, HistoryIsPath, RowsOf
<1>4. \A h \in Handlers : Faithful(h)
  BY <1>1 DEF Faithful, Deciding
<1>5. QED
  BY <1>2, <1>3, <1>4, InitIInv DEF SerialInv

\* A step that writes nothing keeps SerialInv if it keeps the copy of h.
LEMMA QuietStep ==
  ASSUME SerialInv, IInv', OneWriterPerPolicy', NEW h \in Handlers,
         UNCHANGED <<policies, audit_log>>, now' = now \/ now' = now + 1,
         OthersAlone(h), Faithful(h)'
  PROVE  SerialInv'
<1>1. \A p : RowsOf(p)' = RowsOf(p) /\ Stored(p)' = Stored(p)
  BY DEF RowsOf, Stored
<1>2. RowsDated'
  <2>1. now \in Nat /\ \A p \in Policies : policies[p].updated_at \in Nat
    BY Stamps DEF SerialInv
  <2>2. \A p \in Policies : policies[p].updated_at <= now'
    BY <2>1 DEF SerialInv, RowsDated
  <2>3. QED
    BY <1>1, <2>2 DEF SerialInv, RowsDated
<1>3. HistoryIsPath'
  <2>1. \A p \in Policies : PathOf(p)
    BY PathByPolicy DEF SerialInv
  <2>2. \A p \in Policies : PathOf(p)'
    BY <1>1, <2>1 DEF PathOf
  <2>3. QED
    BY <2>2 DEF HistoryIsPath, PathOf
<1>4. ASSUME NEW k \in Handlers, k # h
      PROVE  Faithful(k)'
  <2>1. /\ pc'[k] = pc[k] /\ call'[k] = call[k]
        /\ mem'[k] = mem[k] /\ from'[k] = from[k] /\ Faithful(k)
    BY <1>4 DEF OthersAlone, SerialInv
  <2>2. QED
    BY <1>1, <2>1 DEF Faithful
<1>5. QED
  BY <1>2, <1>3, <1>4 DEF SerialInv

\* Reading a row and stamping the copy.
LEMMA DecideStep ==
  ASSUME SerialInv, IInv', OneWriterPerPolicy', NEW h \in Handlers,
         StartUpdate(h) \/ StartCancel(h) \/ StartTransition(h)
  PROVE  SerialInv'
<1>1. call[h].id \in Policies /\ Row(h) \in Policy
  BY ReadsId DEF SerialInv, StartUpdate, StartCancel, StartTransition
<1>2. PICK copy \in Policy, to \in {"write", "tx"} :
        /\ Prepare(h, copy, to)
        /\ from' = from \/ \E f : from' = [from EXCEPT ![h] = f]
        /\ to = "write" =>
             \/ copy.status = Row(h).status
             \/ copy.status = "terminated" /\ Row(h).status = "draft"
        /\ to = "tx" => from'[h] = Row(h).status
        /\ Row(h).status # ""
  <2>1. CASE StartUpdate(h)
    <3>1. [Row(h) EXCEPT !.fields = call[h].fields] \in Policy
          /\ [Row(h) EXCEPT !.fields = call[h].fields].status = Row(h).status
      BY <1>1, <2>1, RowEdited DEF StartUpdate
    <3>2. QED
      BY <2>1, <3>1 DEF StartUpdate, Stored, Row
  <2>2. CASE StartCancel(h)
    <3>1. "terminated" \in PolicyStatus
      BY DEF PolicyStatus
    <3>2. [Row(h) EXCEPT !.status = "terminated"] \in Policy
          /\ [Row(h) EXCEPT !.status = "terminated"].status = "terminated"
      BY <1>1, <3>1, RowMoved
    <3>3. QED
      BY <2>2, <3>2 DEF StartCancel
  <2>3. CASE StartTransition(h)
    <3>1. PICK edge \in Transition(Row(h).status, call[h].op) :
            /\ from' = [from EXCEPT ![h] = edge.from]
            /\ Prepare(h, [Row(h) EXCEPT !.status = edge.to], "tx")
      BY <2>3 DEF StartTransition
    <3>2. edge \in transitionTable /\ edge.from = Row(h).status
      BY DEF Transition
    <3>3. edge.to \in PolicyStatus /\ edge.from # ""
      BY <3>2, TableTypes
    <3>4. [Row(h) EXCEPT !.status = edge.to] \in Policy
      BY <1>1, <3>3, RowMoved
    <3>5. from'[h] = edge.from
      BY <3>1 DEF SerialInv, IInv, TypeOK
    <3>6. QED
      BY <3>1, <3>2, <3>3, <3>4, <3>5
  <2>4. QED
    BY <2>1, <2>2, <2>3
<1>3. /\ OthersAlone(h) /\ pc'[h] = to /\ call' = call
      /\ mem'[h] = [copy EXCEPT !.updated_at = now + 1]
      /\ now' = now + 1 /\ UNCHANGED <<policies, audit_log>>
  BY <1>2, AlonePrepare DEF SerialInv, IInv
<1>4. mem'[h].status = copy.status /\ mem'[h].updated_at = now + 1
  <2>1. now + 1 \in Nat /\ copy \in Policy
    BY <1>2, Times DEF SerialInv, IInv
  <2>2. /\ [copy EXCEPT !.updated_at = now + 1].status = copy.status
        /\ [copy EXCEPT !.updated_at = now + 1].updated_at = now + 1
    BY <2>1, RowStamped, Zenon
  <2>3. QED
    BY <1>3, <2>2
<1>5. Faithful(h)'
  <2>1. policies'[call'[h].id] = Row(h) /\ RowsOf(call[h].id)' = RowsOf(call[h].id)
    BY <1>3 DEF Row, RowsOf
  <2>2. /\ now \in Nat /\ policies[call[h].id].updated_at \in Nat
        /\ policies[call[h].id].updated_at <= now
        /\ \A a \in RowsOf(call[h].id) :
             a.occurred_at \in Nat /\ a.occurred_at <= now
    BY <1>1, Stamps DEF SerialInv, RowsDated, RowsOf
  <2>3. /\ policies[call[h].id].updated_at < now + 1
        /\ \A a \in RowsOf(call[h].id) : a.occurred_at < now + 1
    BY <2>2
  <2>4. Stored(call[h].id)'
    BY <1>2, <1>3 DEF Stored, Row
  <2>5. /\ policies'[call'[h].id].updated_at < mem'[h].updated_at
        /\ \A a \in RowsOf(call[h].id)' : a.occurred_at < mem'[h].updated_at
    BY <1>4, <2>1, <2>3 DEF Row
  <2>6. /\ pc'[h] = "write" =>
             \/ mem'[h].status = policies'[call'[h].id].status
             \/ /\ mem'[h].status = "terminated"
                /\ policies'[call'[h].id].status = "draft"
        /\ pc'[h] # "write" => from'[h] = policies'[call'[h].id].status
    BY <1>2, <1>3, <1>4, <2>1
  <2>7. QED
    BY <2>4, <2>5, <2>6 DEF Faithful
<1>6. QED
  BY <1>3, <1>5, QuietStep

LEMMA ServingStep ==
  ASSUME SerialInv, IInv', OneWriterPerPolicy', NEW h \in Handlers,
         \/ Receive(h) \/ Create(h) \/ AnswerAtOnce(h) \/ InsertConflict(h)
         \/ TxUpdate(h) \/ TxAudit(h) \/ Respond(h) \/ Fail(h)
  PROVE  SerialInv'
<1>1. TypeOK
  BY DEF SerialInv, IInv
<1>2. CASE Receive(h)
  <2>1. OthersAlone(h) /\ pc'[h] = "called"
    BY <1>1, <1>2 DEF Receive, Goto, TypeOK, OthersAlone
  <2>2. QED
    BY <1>2, <2>1, QuietStep DEF Receive, tables, Faithful, Deciding
<1>3. CASE Create(h)
  <2>1. /\ OthersAlone(h) /\ pc'[h] = "insert" /\ now' = now + 1
        /\ UNCHANGED <<policies, audit_log>>
    BY <1>1, <1>3, AlonePrepare DEF Create
  <2>2. QED
    BY <2>1, QuietStep DEF Faithful, Deciding
<1>4. CASE AnswerAtOnce(h) \/ InsertConflict(h) \/ Respond(h) \/ Fail(h)
  <2>1. \E answer : Finish(h, answer)
    BY <1>4 DEF AnswerAtOnce, ReadMissing, Get, RefuseArguments, RefuseStatus,
                InsertConflict, Respond, Fail
  <2>2. OthersAlone(h) /\ pc'[h] = "idle"
    BY <1>1, <2>1, AloneFinish
  <2>3. now' = now /\ UNCHANGED <<policies, audit_log>>
    BY <1>4 DEF AnswerAtOnce, InsertConflict, Respond, Fail, tables
  <2>4. QED
    BY <2>2, <2>3, QuietStep DEF Faithful, Deciding
<1>5. CASE TxUpdate(h) \/ TxAudit(h)
  <2>1. OthersAlone(h) /\ now' = now /\ mem' = mem /\ from' = from
    BY <1>1, <1>5, AloneWrites
  <2>2. /\ UNCHANGED <<policies, audit_log>> /\ call' = call
        /\ pc[h] \in {"tx", "updated"} /\ pc'[h] \in {"updated", "audited"}
    BY <1>1, <1>5 DEF TxUpdate, TxAudit, Goto, tables, TypeOK
  <2>3. Faithful(h)'
    BY <2>1, <2>2 DEF SerialInv, Faithful, Deciding, Stored, RowsOf
  <2>4. QED
    BY <2>1, <2>2, <2>3, QuietStep
<1>6. QED
  BY <1>2, <1>3, <1>4, <1>5

\* A write of h to p is not in the way of the others, whose policies are other
\* ones.
LEMMA WriteStep ==
  ASSUME SerialInv, IInv', OneWriterPerPolicy',
         NEW h \in Handlers, NEW p \in Policies,
         pc'[h] = "committed", OthersAlone(h), now' = now,
         \A q \in Policies : q # p => policies'[q] = policies[q],
         \A q \in Policies : q # p => RowsOf(q)' = RowsOf(q),
         \A k \in Handlers : k # h /\ pc[k] \in Deciding =>
           call[k].id \in Policies /\ call[k].id # p,
         policies'[p].updated_at = mem[h].updated_at,
         \A a \in RowsOf(p)' : a.occurred_at <= mem[h].updated_at,
         PathOf(p)'
  PROVE  SerialInv'
<1>1. RowsDated'
  <2>1. mem[h].updated_at <= now
    BY Stamps DEF SerialInv
  <2>2. QED
    BY <2>1 DEF SerialInv, RowsDated
<1>2. HistoryIsPath'
  <2>1. \A q \in Policies : PathOf(q)
    BY PathByPolicy DEF SerialInv
  <2>2. \A q \in Policies : PathOf(q)'
    BY <2>1 DEF PathOf
  <2>3. QED
    BY <2>2 DEF HistoryIsPath, PathOf
<1>3. ASSUME NEW k \in Handlers
      PROVE  Faithful(k)'
  <2>1. CASE k = h
    BY <2>1 DEF Faithful, Deciding
  <2>2. CASE k # h
    <3>1. /\ pc'[k] = pc[k] /\ call'[k] = call[k]
          /\ mem'[k] = mem[k] /\ from'[k] = from[k] /\ Faithful(k)
      BY <2>2 DEF OthersAlone, SerialInv
    <3>2. CASE pc[k] \notin Deciding
      BY <3>1, <3>2 DEF Faithful
    <3>3. CASE pc[k] \in Deciding
      <4>1. PICK q \in Policies : q = call[k].id /\ q # p
        BY <2>2, <3>3
      <4>2. policies'[q] = policies[q] /\ RowsOf(q)' = RowsOf(q)
        BY <4>1
      <4>3. Stored(q)' = Stored(q)
        BY <4>2 DEF Stored
      <4>4. q = call'[k].id
        BY <3>1, <4>1
      <4>5. /\ Stored(q)
            /\ pc[k] = "write" =>
                 \/ mem[k].status = policies[q].status
                 \/ mem[k].status = "terminated" /\ policies[q].status = "draft"
            /\ pc[k] # "write" => from[k] = policies[q].status
            /\ policies[q].updated_at < mem[k].updated_at
            /\ \A a \in RowsOf(q) : a.occurred_at < mem[k].updated_at
        BY <3>1, <3>3, <4>1 DEF Faithful
      <4>6. /\ Stored(q)'
            /\ pc'[k] = "write" =>
                 \/ mem'[k].status = policies'[q].status
                 \/ mem'[k].status = "terminated" /\ policies'[q].status = "draft"
            /\ pc'[k] # "write" => from'[k] = policies'[q].status
            /\ policies'[q].updated_at < mem'[k].updated_at
            /\ \A a \in RowsOf(q)' : a.occurred_at < mem'[k].updated_at
        BY <3>1, <4>2, <4>3, <4>5
      <4>7. QED
        BY <4>4, <4>6 DEF Faithful
    <3>4. QED
      BY <3>2, <3>3
  <2>3. QED
    BY <2>1, <2>2
<1>4. QED
  BY <1>1, <1>2, <1>3 DEF SerialInv

\* Where a handler is deciding it has a policy, and it is the only one.
LEMMA DecidesAlone ==
  ASSUME SerialInv, NEW h \in Handlers, pc[h] \in Deciding
  PROVE  /\ call[h].id \in Policies
         /\ \A k \in Handlers : k # h /\ pc[k] \in Deciding =>
              call[k].id \in Policies /\ call[k].id # call[h].id
<1>1. ASSUME NEW k \in Handlers, pc[k] \in Deciding
      PROVE  call[k].id \in Policies /\ Mutating(k)
  <2>1. HandlerOK(k)
    BY DEF SerialInv, IInv
  <2>2. call[k].id \in Policies
    BY <1>1, <2>1 DEF HandlerOK, Deciding, WriteReady, TransitionReady
  <2>3. call[k].op \in {"update", "delete"} \cup TransitionOps
    BY <1>1, <2>1 DEF HandlerOK, Deciding, WriteReady
  <2>4. QED
    BY <1>1, <2>2, <2>3 DEF Mutating, TransitionOps, Deciding
<1>2. None \notin Policies
  BY ServiceAssumption
<1>3. QED
  BY <1>1, <1>2 DEF SerialInv, OneWriterPerPolicy

LEMMA InsertKeeps ==
  ASSUME SerialInv, IInv', OneWriterPerPolicy', NEW h \in Handlers, Insert(h)
  PROVE  SerialInv'
<1>1. PICK p \in Policies : ~Stored(p) /\ policies' = [policies EXCEPT ![p] = mem[h]]
  BY DEF Insert
<1>2. audit_log' = audit_log /\ pc'[h] = "committed"
  BY DEF Insert, Goto, SerialInv, IInv, TypeOK
<1>3. OthersAlone(h) /\ now' = now
  BY AloneWrites DEF SerialInv, IInv
<1>4. policies'[p] = mem[h] /\ \A q \in Policies : q # p => policies'[q] = policies[q]
  BY <1>1 DEF SerialInv, IInv, TypeOK
<1>5. \A q : RowsOf(q)' = RowsOf(q)
  BY <1>2 DEF RowsOf
<1>6. RowsOf(p) = {}
  BY <1>1, PathByPolicy, DraftHasNoRows DEF SerialInv, Stored
<1>7. PathOf(p)'
  BY <1>5, <1>6 DEF PathOf
<1>8. ASSUME NEW k \in Handlers, pc[k] \in Deciding
      PROVE  call[k].id \in Policies /\ call[k].id # p
  BY <1>1, <1>8, DecidesAlone DEF SerialInv, Faithful
<1>9. QED
  BY <1>2, <1>3, <1>4, <1>5, <1>6, <1>7, <1>8, WriteStep

LEMMA WriteRowKeeps ==
  ASSUME SerialInv, IInv', OneWriterPerPolicy', NEW h \in Handlers, WriteRow(h)
  PROVE  SerialInv'
<1>0. PICK p \in Policies : p = call[h].id
  BY DecidesAlone DEF WriteRow, Deciding
<1>1. /\ pc[h] = "write" /\ pc'[h] = "committed" /\ audit_log' = audit_log
      /\ policies' = [policies EXCEPT ![p] = mem[h]]
  BY <1>0 DEF WriteRow, Goto, SerialInv, IInv, TypeOK
<1>2. OthersAlone(h) /\ now' = now
  BY AloneWrites DEF SerialInv, IInv
<1>3. \A k \in Handlers : k # h /\ pc[k] \in Deciding =>
        call[k].id \in Policies /\ call[k].id # p
  BY <1>0, <1>1, DecidesAlone DEF Deciding
<1>4. policies'[p] = mem[h] /\ \A q \in Policies : q # p => policies'[q] = policies[q]
  BY <1>1, <1>3 DEF SerialInv, IInv, TypeOK
<1>5. \A q : RowsOf(q)' = RowsOf(q)
  BY <1>1 DEF RowsOf
<1>6. /\ \/ mem[h].status = policies[p].status
         \/ mem[h].status = "terminated" /\ policies[p].status = "draft"
      /\ \A a \in RowsOf(p) : a.occurred_at < mem[h].updated_at
      /\ PathOf(p)
  BY <1>0, <1>1, PathByPolicy DEF SerialInv, Faithful, Deciding
<1>7. PathOf(p)'
  <2>1. CASE mem[h].status = policies[p].status
    BY <1>4, <1>5, <1>6, <2>1 DEF PathOf
  <2>2. CASE policies[p].status = "draft"
    <3>1. RowsOf(p) = {}
      BY <1>3, <1>6, <2>2, DraftHasNoRows DEF SerialInv
    <3>2. QED
      BY <1>5, <3>1 DEF PathOf
  <2>3. QED
    BY <1>6, <2>1, <2>2
<1>8. \A a \in RowsOf(p)' : a.occurred_at <= mem[h].updated_at
  <2>1. \A a \in RowsOf(p) : a.occurred_at < mem[h].updated_at
    BY <1>6
  <2>2. \A a \in RowsOf(p) : a.occurred_at \in Nat
    BY Stamps DEF RowsOf, SerialInv
  <2>3. mem[h].updated_at \in Nat
    BY Stamps DEF SerialInv
  <2>4. QED
    BY <1>5, <2>1, <2>2, <2>3
<1>9. QED
  BY <1>1, <1>2, <1>3, <1>4, <1>5, <1>7, <1>8, WriteStep

\* The row that COMMIT adds goes on where the history of its policy ended.
LEMMA PathGrows ==
  ASSUME SerialInv, NEW h \in Handlers, pc[h] = "audited", NEW p \in Policies,
         p = call[h].id, RowsOf(p)' = RowsOf(p) \cup {Entry(h)},
         policies'[p].status = mem[h].status
  PROVE  PathOf(p)'
<1> DEFINE e == Entry(h)
<1>1. /\ e.from_status = from[h] /\ e.to_status = mem[h].status
      /\ e.occurred_at = mem[h].updated_at
  BY DEF Entry
<1>2. /\ from[h] = policies[p].status
      /\ \A a \in RowsOf(p) : a.occurred_at < mem[h].updated_at
  BY DEF SerialInv, Faithful, Deciding
<1>3. /\ mem[h].updated_at \in Nat
      /\ \A a \in RowsOf(p) : a.occurred_at \in Nat
  BY Stamps DEF SerialInv, RowsOf
<1>4. PathOf(p)
  BY PathByPolicy DEF SerialInv
<1> HIDE DEF e
<1>5. RowsOf(p)' = RowsOf(p) \cup {e}
  BY DEF e
<1>6. \A a \in RowsOf(p) :
        {b \in RowsOf(p)' : b.occurred_at < a.occurred_at}
          = {b \in RowsOf(p) : b.occurred_at < a.occurred_at}
  BY <1>1, <1>2, <1>3, <1>5
<1>7. {b \in RowsOf(p)' : b.occurred_at < e.occurred_at} = RowsOf(p)
  BY <1>1, <1>2, <1>3, <1>5
<1>8. \A b \in RowsOf(p)' : b.occurred_at <= e.occurred_at
  BY <1>1, <1>2, <1>3, <1>5
<1>9. ASSUME NEW a \in RowsOf(p)'
      PROVE  LET earlier == {b \in RowsOf(p)' : b.occurred_at < a.occurred_at}
             IN  \/ earlier = {} /\ a.from_status = "draft"
                 \/ \E b \in earlier :
                      /\ b.to_status = a.from_status
                      /\ \A c \in earlier : c.occurred_at <= b.occurred_at
  <2>1. CASE a \in RowsOf(p)
    <3> DEFINE old == {b \in RowsOf(p) : b.occurred_at < a.occurred_at}
    <3>1. \/ old = {} /\ a.from_status = "draft"
          \/ \E b \in old : /\ b.to_status = a.from_status
                            /\ \A c \in old : c.occurred_at <= b.occurred_at
      BY <1>4, <2>1 DEF PathOf
    <3>2. {b \in RowsOf(p)' : b.occurred_at < a.occurred_at} = old
      BY <1>6, <2>1
    <3> HIDE DEF old
    <3>3. QED
      BY <3>1, <3>2
  <2>2. CASE a = e
    <3>1. CASE RowsOf(p) = {}
      <4>1. e.from_status = "draft"
        <5>1. TransitionReady(h)
          BY DEF SerialInv, IInv, HandlerOK
        <5>2. Explained(p, from[h], mem[h].updated_at) /\ from[h] # "terminated"
          BY <5>1, TableTypes DEF TransitionReady
        <5>3. QED
          BY <1>1, <3>1, <5>2 DEF Explained
      <4>2. QED
        BY <1>7, <2>2, <3>1, <4>1
    <3>2. CASE RowsOf(p) # {}
      <4>1. PICK b \in RowsOf(p) : /\ b.to_status = policies[p].status
                                   /\ \A c \in RowsOf(p) :
                                        c.occurred_at <= b.occurred_at
        BY <1>4, <3>2 DEF PathOf
      <4>2. QED
        BY <1>1, <1>2, <1>7, <2>2, <4>1
    <3>3. QED
      BY <3>1, <3>2
  <2>3. QED
    BY <1>5, <2>1, <2>2
<1>10. QED
  BY <1>1, <1>5, <1>8, <1>9 DEF PathOf

LEMMA TxCommitKeeps ==
  ASSUME SerialInv, IInv', OneWriterPerPolicy', NEW h \in Handlers, TxCommit(h)
  PROVE  SerialInv'
<1>1. PICK p \in Policies : p = call[h].id
  BY DecidesAlone DEF TxCommit, Deciding
<1>2. pc[h] = "audited" /\ pc'[h] = "committed"
  BY DEF TxCommit, Goto, SerialInv, IInv, TypeOK
<1>3. /\ policies'[p].status = mem[h].status
      /\ policies'[p].updated_at = mem[h].updated_at
      /\ \A q \in Policies : q # p => policies'[q] = policies[q]
      /\ RowsOf(p)' = RowsOf(p) \cup {Entry(h)}
      /\ \A q \in Policies : q # p => RowsOf(q)' = RowsOf(q)
  BY <1>1, CommitWrites DEF SerialInv
<1>4. OthersAlone(h) /\ now' = now
  BY AloneWrites DEF SerialInv, IInv
<1>5. \A k \in Handlers : k # h /\ pc[k] \in Deciding =>
        call[k].id \in Policies /\ call[k].id # p
  BY <1>1, <1>2, DecidesAlone DEF Deciding
<1>6. PathOf(p)'
  BY <1>1, <1>2, <1>3, PathGrows
<1>7. \A a \in RowsOf(p)' : a.occurred_at <= mem[h].updated_at
  <2> DEFINE e == Entry(h)
  <2>1. \A a \in RowsOf(p) : a.occurred_at < mem[h].updated_at
    BY <1>1, <1>2 DEF SerialInv, Faithful, Deciding
  <2>2. /\ mem[h].updated_at \in Nat
        /\ \A a \in RowsOf(p) : a.occurred_at \in Nat
    BY Stamps DEF RowsOf, SerialInv
  <2>3. e.occurred_at = mem[h].updated_at /\ RowsOf(p)' = RowsOf(p) \cup {e}
    BY <1>3 DEF Entry
  <2> HIDE DEF e
  <2>4. QED
    BY <2>1, <2>2, <2>3
<1>8. QED
  BY <1>2, <1>3, <1>4, <1>5, <1>6, <1>7, WriteStep

LEMMA NextSerialInv ==
  SerialInv /\ [Next /\ OneWriterPerPolicy']_vars => SerialInv'
<1> SUFFICES ASSUME SerialInv, [Next /\ OneWriterPerPolicy']_vars
             PROVE  SerialInv'
  OBVIOUS
<1>1. IInv'
  BY NextIInv DEF SerialInv
<1>2. CASE UNCHANGED vars
  <2>1. UNCHANGED <<policies, audit_log, pc, call, mem, from, now>>
    BY <1>2 DEF vars
  <2>2. OneWriterPerPolicy' /\ RowsDated'
    BY <2>1 DEF SerialInv, OneWriterPerPolicy, Mutating, RowsDated, RowsOf
  <2>3. HistoryIsPath'
    BY <2>1 DEF SerialInv, HistoryIsPath, RowsOf
  <2>4. \A h \in Handlers : Faithful(h)'
    BY <2>1 DEF SerialInv, Faithful, Stored, RowsOf
  <2>5. QED
    BY <1>1, <2>2, <2>3, <2>4 DEF SerialInv
<1>3. CASE Next /\ OneWriterPerPolicy'
  <2>1. PICK h \in Handlers : Receive(h) \/ Progress(h) \/ Fail(h)
    BY <1>3 DEF Next
  <2>2. CASE StartUpdate(h) \/ StartCancel(h) \/ StartTransition(h)
    BY <1>1, <1>3, <2>2, DecideStep
  <2>3. CASE \/ Receive(h) \/ Create(h) \/ AnswerAtOnce(h) \/ InsertConflict(h)
             \/ TxUpdate(h) \/ TxAudit(h) \/ Respond(h) \/ Fail(h)
    BY <1>1, <1>3, <2>3, ServingStep
  <2>4. CASE Insert(h) \/ WriteRow(h) \/ TxCommit(h)
    BY <1>1, <1>3, <2>4, InsertKeeps, WriteRowKeeps, TxCommitKeeps
  <2>5. QED
    BY <2>1, <2>2, <2>3, <2>4 DEF Progress, RefusedByTable
<1>4. QED
  BY <1>2, <1>3

\* For callers that wait, a copy in hand is true to the database.
THEOREM SerialInvariance == SerialSpec => []SerialInv
<1>1. Init => SerialInv
  BY InitSerialInv
<1>2. SerialInv /\ [Next /\ OneWriterPerPolicy']_vars => SerialInv'
  BY NextSerialInv
<1>3. QED
  BY <1>1, <1>2, PTL DEF SerialSpec

\* The history of a policy leads from draft to its status.
THEOREM HistoryIsAPath == SerialSpec => []HistoryIsPath
<1>1. SerialInv => HistoryIsPath
  BY DEF SerialInv
<1>2. QED
  BY <1>1, SerialInvariance, PTL

------------------------------------------------------------------------------
(* updated_at *)

\* A row that is not there has the zero time.
BlankIsZero == \A p \in Policies : ~Stored(p) => policies[p].updated_at = 0

LEMMA NextBlankIsZero ==
  SerialInv /\ BlankIsZero /\ [Next /\ OneWriterPerPolicy']_vars => BlankIsZero'
<1> SUFFICES ASSUME SerialInv, BlankIsZero, [Next]_vars
             PROVE  BlankIsZero'
  OBVIOUS
<1>1. CASE UNCHANGED policies
  BY <1>1 DEF BlankIsZero, Stored
<1>2. CASE \E h \in Handlers : Insert(h) \/ WriteRow(h) \/ TxCommit(h)
  <2>1. PICK h \in Handlers, p \in Policies : Gives(h, p)
    BY <1>2, WhatIsWritten DEF SerialInv
  <2>2. QED
    BY <2>1 DEF Gives, BlankIsZero, Stored
<1>3. QED
  BY <1>1, <1>2, OnlyThreeWrite DEF vars

LEMMA UpdatedAtStep ==
  ASSUME SerialInv, BlankIsZero, Next, NEW p \in Policies
  PROVE  policies[p].updated_at <= policies'[p].updated_at
<1>1. policies[p].updated_at \in Nat
  BY Stamps DEF SerialInv
<1>2. CASE policies'[p] = policies[p]
  BY <1>1, <1>2
<1>3. CASE policies'[p] # policies[p]
  <2>1. PICK h \in Handlers : Insert(h) \/ WriteRow(h) \/ TxCommit(h)
    BY <1>3, OnlyThreeWrite
  <2>2. PICK q \in Policies :
          Gives(h, q) /\ (Creates(h, q) \/ Rewrites(h, q) \/ Moves(h, q))
    BY <2>1, WhatIsWritten DEF SerialInv
  <2>3. q = p /\ policies'[p].updated_at = mem[h].updated_at
    BY <1>3, <2>2 DEF Gives
  <2>4. mem[h].updated_at \in Nat
    BY Stamps DEF SerialInv
  <2>5. CASE Creates(h, p)
    BY <2>3, <2>4, <2>5 DEF Creates, BlankIsZero
  <2>6. CASE Rewrites(h, p) \/ Moves(h, p)
    <3>1. policies[p].updated_at < mem[h].updated_at
      BY <2>6 DEF Rewrites, Moves, SerialInv, Faithful, Deciding
    <3>2. QED
      BY <1>1, <2>3, <2>4, <3>1
  <2>7. QED
    BY <2>2, <2>3, <2>5, <2>6
<1>4. QED
  BY <1>2, <1>3

\* updated_at never goes back and is never older than the history.
THEOREM UpdatedAtNeverBack == SerialSpec => UpdatedAtAdvances
<1>1. Init => BlankIsZero
  <2> SUFFICES ASSUME Init, NEW p \in Policies PROVE policies[p].updated_at = 0
    BY DEF BlankIsZero
  <2>1. policies[p] = ZeroPolicy
    BY DEF Init
  <2>2. QED
    BY <2>1, ZeroFields
<1>2. /\ SerialInv /\ SerialInv' /\ BlankIsZero
      /\ [Next /\ OneWriterPerPolicy']_vars
      => [\A p \in Policies :
            /\ policies[p].updated_at <= policies'[p].updated_at
            /\ \A a \in RowsOf(p)' : a.occurred_at <= policies'[p].updated_at]_vars
  BY UpdatedAtStep DEF SerialInv, RowsDated
<1>3. QED
  BY <1>1, <1>2, NextBlankIsZero, SerialInvariance, PTL
     DEF SerialSpec, UpdatedAtAdvances

------------------------------------------------------------------------------
(* The service implements PolicyLifecycle *)

LEMMA SameTable == Promise!transitionTable = transitionTable
BY DEF transitionTable, Edge, Promise!transitionTable, Promise!Edge

LEMMA SameRows == AuditRow = Promise!AuditRow
BY DEF AuditRow, Promise!AuditRow, PolicyStatus, Promise!PolicyStatus

\* COMMIT is a move of the abstract policy: the row names the edge, and is the
\* latest of its policy.
LEMMA CommitFires ==
  ASSUME SerialInv, IInv', NEW h \in Handlers, NEW p \in Policies,
         Gives(h, p), Moves(h, p)
  PROVE  Promise!Next
<1> DEFINE e == Entry(h)
           edge == [from |-> from[h], event |-> call[h].op, to |-> mem[h].status]
<1>1. /\ e.id = p /\ e.from_status = from[h] /\ e.to_status = mem[h].status
      /\ e.reason = ReasonFor(call[h].op, call[h].reason)
      /\ e.occurred_at = mem[h].updated_at
  BY DEF Entry, Moves
<1>2. TransitionReady(h)
  BY DEF SerialInv, IInv, HandlerOK, Moves
<1>3. edge \in Promise!transitionTable /\ edge.event = call[h].op
  BY <1>2, SameTable DEF TransitionReady
<1>4. edge.event = "cancel" => e.reason # ""
  BY <1>1, <1>2, CancelReason DEF TransitionReady
<1>5. audit_log' = audit_log \cup {e}
  BY DEF Moves
<1>6. e \in Promise!AuditRow
  BY <1>5, SameRows DEF IInv, TypeOK
<1>7. /\ from[h] = policies[p].status
      /\ \A a \in RowsOf(p) : a.occurred_at < mem[h].updated_at
  BY DEF Moves, SerialInv, Faithful, Deciding
<1>8. StatusOf' = [StatusOf EXCEPT ![p] = mem[h].status]
  BY StatusGiven
<1>9. edge.from = StatusOf[p] /\ edge.from = from[h] /\ edge.to = mem[h].status
  BY <1>7 DEF StatusOf
<1> HIDE DEF e, edge
<1>10. \A a \in audit_log : a.id = p => a.occurred_at < e.occurred_at
  BY <1>1, <1>7 DEF RowsOf
<1>11. Promise!Fire(p, edge, e)
  BY <1>1, <1>4, <1>5, <1>6, <1>8, <1>9, <1>10 DEF Promise!Fire
<1>12. QED
  BY <1>3, <1>5, <1>9, <1>11 DEF Promise!Next

LEMMA StepIsPromised ==
  ASSUME SerialInv, IInv', Next
  PROVE  Promise!Next \/ UNCHANGED <<StatusOf, audit_log>>
<1>1. CASE UNCHANGED <<policies, audit_log>>
  BY <1>1 DEF StatusOf
<1>2. CASE \E h \in Handlers : Insert(h) \/ WriteRow(h) \/ TxCommit(h)
  <2>1. PICK h \in Handlers : Insert(h) \/ WriteRow(h) \/ TxCommit(h)
    BY <1>2
  <2>2. PICK p \in Policies :
          Gives(h, p) /\ (Creates(h, p) \/ Rewrites(h, p) \/ Moves(h, p))
    BY <2>1, WhatIsWritten DEF SerialInv
  <2>3. StatusOf' = [StatusOf EXCEPT ![p] = mem[h].status]
    BY <2>2, StatusGiven
  <2>4. StatusOf[p] = policies[p].status
    BY DEF StatusOf
  <2>5. CASE Creates(h, p)
    <3>1. Promise!Create(p)
      BY <2>3, <2>4, <2>5 DEF Creates, Stored, Promise!Create
    <3>2. QED
      BY <3>1 DEF Promise!Next
  <2>6. CASE Rewrites(h, p)
    <3>1. \/ mem[h].status = policies[p].status
          \/ mem[h].status = "terminated" /\ policies[p].status = "draft"
      BY <2>6 DEF Rewrites, SerialInv, Faithful, Deciding
    <3>2. CASE mem[h].status = policies[p].status
      BY <2>3, <2>4, <2>6, <3>2 DEF StatusOf, Rewrites
    <3>3. CASE mem[h].status = "terminated" /\ policies[p].status = "draft"
      <4>1. Promise!Discard(p)
        BY <2>3, <2>4, <2>6, <3>3 DEF Rewrites, Promise!Discard
      <4>2. QED
        BY <4>1 DEF Promise!Next
    <3>4. QED
      BY <3>1, <3>2, <3>3
  <2>7. CASE Moves(h, p)
    BY <2>2, <2>7, CommitFires
  <2>8. QED
    BY <2>2, <2>5, <2>6, <2>7
<1>3. QED
  BY <1>1, <1>2, OnlyThreeWrite

\* For callers that wait the service implements PolicyLifecycle.
THEOREM KeepsPromise == SerialSpec => LifecycleKept
<1>1. Init => Promise!Init
  <2> SUFFICES ASSUME Init PROVE Promise!Init
    OBVIOUS
  <2>1. \A p \in Policies : policies[p] = ZeroPolicy
    BY DEF Init
  <2>2. \A p \in Policies : policies[p].status = ""
    BY <2>1, ZeroFields
  <2>3. StatusOf = [p \in Policies |-> ""]
    BY <2>2 DEF StatusOf
  <2>4. QED
    BY <2>3 DEF Init, Promise!Init
<1>2. SerialInv /\ SerialInv' /\ [Next /\ OneWriterPerPolicy']_vars
      => [Promise!Next]_(Promise!vars)
  <2> SUFFICES ASSUME SerialInv, SerialInv', [Next]_vars
               PROVE  Promise!Next \/ UNCHANGED <<StatusOf, audit_log>>
    BY DEF Promise!vars
  <2>1. CASE UNCHANGED vars
    BY <2>1 DEF vars, StatusOf
  <2>2. CASE Next
    BY <2>2, StepIsPromised DEF SerialInv
  <2>3. QED
    BY <2>1, <2>2
<1>3. QED
  BY <1>1, <1>2, SerialInvariance, PTL DEF SerialSpec, LifecycleKept, Promise!Spec

------------------------------------------------------------------------------
(* What the documentation says, for callers that wait *)

\* What a step does to a status.
LEMMA StatusMoves ==
  ASSUME SerialInv, Next, NEW p \in Policies
  PROVE  LET s == policies[p].status
             t == policies'[p].status
         IN  \/ t = s
             \/ s = "" /\ t = "draft"
             \/ s = "draft" /\ t = "terminated"
             \/ \E edge \in transitionTable : edge.from = s /\ edge.to = t
<1>1. CASE policies'[p] = policies[p]
  BY <1>1
<1>2. CASE policies'[p] # policies[p]
  <2>1. PICK h \in Handlers : Insert(h) \/ WriteRow(h) \/ TxCommit(h)
    BY <1>2, OnlyThreeWrite
  <2>2. PICK q \in Policies :
          Gives(h, q) /\ (Creates(h, q) \/ Rewrites(h, q) \/ Moves(h, q))
    BY <2>1, WhatIsWritten DEF SerialInv
  <2>3. q = p /\ policies'[p].status = mem[h].status
    BY <1>2, <2>2 DEF Gives
  <2>4. CASE Creates(h, p)
    BY <2>3, <2>4 DEF Creates, Stored
  <2>5. CASE Rewrites(h, p)
    BY <2>3, <2>5 DEF Rewrites, SerialInv, Faithful, Deciding
  <2>6. CASE Moves(h, p)
    <3> DEFINE edge == [from |-> from[h], event |-> call[h].op,
                        to |-> mem[h].status]
    <3>1. edge \in transitionTable
      BY <2>6 DEF SerialInv, IInv, HandlerOK, TransitionReady, Moves
    <3>2. edge.from = policies[p].status /\ edge.to = policies'[p].status
      BY <2>3, <2>6 DEF Moves, SerialInv, Faithful, Deciding
    <3> HIDE DEF edge
    <3>3. QED
      BY <3>1, <3>2
  <2>7. QED
    BY <2>2, <2>3, <2>4, <2>5, <2>6
<1>3. QED
  BY <1>1, <1>2

\* No edge leaves a final status, and none leads to terminated.
LEMMA EndsOfTable ==
  \A edge \in transitionTable :
    /\ edge.from \notin {"rejected", "cancelled", "expired"}
    /\ edge.to # "terminated"
<1> TAKE edge \in transitionTable
<1>1. edge.from \in {"draft", "submitted", "active", "amended"}
  BY DEF transitionTable, Edge
<1>2. edge.to \in {"submitted", "active", "rejected", "amended", "cancelled",
                  "expired"}
  BY DEF transitionTable, Edge
<1>3. QED
  BY <1>1, <1>2

\* "Terminal states cannot transition" is true for callers that wait: a policy
\* that is rejected, cancelled or expired stays so, whatever fails.
THEOREM TerminalStaysFinal == SerialSpec => TerminalIsFinal
<1> DEFINE Final ==
      \A p \in Policies :
        policies[p].status \in {"rejected", "cancelled", "expired"} =>
          policies'[p].status = policies[p].status
<1>1. SerialInv /\ [Next /\ OneWriterPerPolicy']_vars => [Final]_vars
  BY StatusMoves, EndsOfTable
<1>2. QED
  BY <1>1, SerialInvariance, PTL DEF SerialSpec, TerminalIsFinal

\* "Only draft policies can be cancelled via this endpoint" is true for callers
\* that wait.
THEOREM OnlyDraftsAreTerminated == SerialSpec => OnlyDraftTerminated
<1> DEFINE FromDraft ==
      \A p \in Policies :
        policies'[p].status = "terminated" =>
          policies[p].status \in {"draft", "terminated"}
<1>1. SerialInv /\ [Next /\ OneWriterPerPolicy']_vars => [FromDraft]_vars
  BY StatusMoves, EndsOfTable
<1>2. QED
  BY <1>1, SerialInvariance, PTL DEF SerialSpec, OnlyDraftTerminated

==============================================================================
