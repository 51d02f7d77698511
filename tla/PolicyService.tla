---------------------------- MODULE PolicyService ----------------------------
(***************************************************************************)
(* domain.PolicyService over its PostgreSQL tables, called by concurrent   *)
(* request handlers.                                                       *)
(*                                                                         *)
(* A handler goroutine reads the policy into memory, decides on what it    *)
(* read, and writes back in a later statement; between the two any other   *)
(* handler may run.  Create, Update and Cancel write with one autocommit   *)
(* statement; a lifecycle event writes the status and an audit row in one  *)
(* READ COMMITTED transaction whose UPDATE takes the row lock.  After a    *)
(* successful commit the domain event is handed to the publisher and the   *)
(* caller is answered.                                                     *)
(*                                                                         *)
(* Any statement may fail, the answer to a statement may be lost after it  *)
(* took effect, and the process may die between any two steps: Fail(h).    *)
(* Handlers share no memory, so the death of the process is a Fail of each *)
(* of its handlers.  The clock is one monotone clock that ticks between    *)
(* any two readings; skew between replicas is not modelled.  actor_id is   *)
(* carried along unread and is left out.                                   *)
(***************************************************************************)
EXTENDS Integers, FiniteSets, Lifecycle

CONSTANTS Handlers,     \* request-handling goroutines, of one or more replicas
          Policies,     \* policy ids, uuid.New() hands out unused ones
          Numbers,      \* policy numbers callers may ask for
          Fields,       \* valid holder, product and dates of a request
          BadFields,    \* the same, refused by Policy.Validate
          None,         \* no policy, no number, no fields
          Ops,          \* the operations callers use
          Reasons,      \* reasons callers give
          Unstorable,   \* of these, what only the database refuses
          MaxRequests   \* bound on the requests of one behaviour

ServiceOps == {"create", "get", "history", "update", "delete"}
TransitionOps == {"submit", "activate", "reject", "cancel", "expire"}

ASSUME ServiceAssumption ==
  /\ Ops \subseteq ServiceOps \cup TransitionOps
  /\ None \notin Handlers \cup Policies \cup Numbers \cup Fields \cup BadFields
  /\ Fields \cap BadFields = {}
  /\ Unstorable \subseteq (Numbers \cup Fields \cup Reasons) \ {None, ""}
  /\ MaxRequests \in Nat

\* uuids do not run out: a number that is free leaves an id that is free.
ASSUME EnoughIds == /\ IsFiniteSet(Policies) /\ IsFiniteSet(Numbers)
                    /\ Cardinality(Numbers) <= Cardinality(Policies)

VARIABLES
  policies,   \* table policies; a row with status "" is not there
  audit_log,  \* table policy_audit_log
  lock,       \* the handler whose open transaction locks the row, or None
  pc,         \* where each handler is
  call,       \* the arguments each handler was called with
  mem,        \* the *Policy each handler works on
  from,       \* applyTransition's from
  reply,      \* the last answer of each handler
  events,     \* what was handed to PublishAsync
  now,        \* the last reading of the clock
  received    \* requests received so far

tables == <<policies, audit_log, lock>>
vars == <<policies, audit_log, lock, pc, call, mem, from, reply, events, now,
          received>>

ZeroPolicy == [status |-> "", number |-> None, fields |-> None,
               updated_at |-> 0]
NoCall == [op |-> "", id |-> None, number |-> None, fields |-> None,
           reason |-> ""]

Stored(p) == policies[p].status # ""

------------------------------------------------------------------------------
(* Types *)

\* Readings of the clock; 0 is the zero time of a row that is not there.
Time == Nat

Policy == [status : PolicyStatus \cup {""}, number : Numbers \cup {None},
           fields : Fields \cup {None}, updated_at : Time]

\* Reasons that reach the audit log.
AuditReason == Reasons \cup ReasonCode \cup {""}

AuditRow == [id : Policies, from_status : PolicyStatus,
             to_status : PolicyStatus, reason : AuditReason,
             occurred_at : Time]

Call == [op : Ops \cup {""}, id : Policies \cup {None},
         number : Numbers \cup {None},
         fields : Fields \cup BadFields \cup {None}, reason : Reasons \cup {""}]

PublishedEvent == [type : {"created"} \cup {EventType(s) : s \in PolicyStatus},
                   id : Policies, occurred_at : Time]

Location == {"idle", "called", "insert", "tx", "updated", "audited", "write",
             "committed"}

Answer == {"", "ok", "not_found", "conflict", "invalid", "error"}

TypeOK ==
  /\ policies \in [Policies -> Policy]
  /\ audit_log \subseteq AuditRow
  /\ lock \in [Policies -> Handlers \cup {None}]
  /\ pc \in [Handlers -> Location]
  /\ call \in [Handlers -> Call]
  /\ mem \in [Handlers -> Policy]
  /\ from \in [Handlers -> PolicyStatus \cup {""}]
  /\ reply \in [Handlers -> Answer]
  /\ events \subseteq PublishedEvent
  /\ now \in Time
  /\ received \in 0 .. MaxRequests

------------------------------------------------------------------------------
Init ==
  /\ policies = [p \in Policies |-> ZeroPolicy]
  /\ audit_log = {}
  /\ lock = [p \in Policies |-> None]
  /\ pc = [h \in Handlers |-> "idle"]
  /\ call = [h \in Handlers |-> NoCall]
  /\ mem = [h \in Handlers |-> ZeroPolicy]
  /\ from = [h \in Handlers |-> ""]
  /\ reply = [h \in Handlers |-> ""]
  /\ events = {}
  /\ now = 0
  /\ received = 0

\* The operations that announce themselves, and the event type of each.
Announced == {"create"} \cup TransitionOps

AnnouncedType(h) ==
  IF call[h].op = "create" THEN "created" ELSE EventType(mem[h].status)

Announcement(h) == [type |-> AnnouncedType(h), id |-> call[h].id,
                    occurred_at |-> mem[h].updated_at]

Goto(h, to) == pc' = [pc EXCEPT ![h] = to]

\* The handler answers and its goroutine, with its local variables, is gone.
Finish(h, answer) ==
  /\ Goto(h, "idle")
  /\ call' = [call EXCEPT ![h] = NoCall]
  /\ mem' = [mem EXCEPT ![h] = ZeroPolicy]
  /\ from' = [from EXCEPT ![h] = ""]
  /\ reply' = [reply EXCEPT ![h] = answer]

\* The requests of each kind: what the router and the service's callers pass.
Request ==
  [op : Ops \cap {"create"}, id : {None}, number : Numbers,
   fields : Fields \cup BadFields, reason : {""}]
  \cup
  [op : Ops \cap {"update"}, id : Policies, number : {None},
   fields : Fields \cup BadFields, reason : {""}]
  \cup
  [op : Ops \cap {"reject", "cancel"}, id : Policies, number : {None},
   fields : {None}, reason : Reasons]
  \cup
  [op : Ops \ {"create", "update", "reject", "cancel"}, id : Policies,
   number : {None}, fields : {None}, reason : {""}]

\* A caller's request reaches an idle handler.
Receive(h) ==
  /\ pc[h] = "idle"
  /\ received < MaxRequests
  /\ received' = received + 1
  /\ \E r \in Request : call' = [call EXCEPT ![h] = r]
  /\ reply' = [reply EXCEPT ![h] = ""]
  /\ Goto(h, "called")
  /\ UNCHANGED <<tables, mem, from, events, now>>

------------------------------------------------------------------------------
(* Reading, deciding and stamping, in the handler's own memory *)

\* Every operation but Create begins with GetByID; CancelActive refuses an
\* empty reason before it.
Reads(h) == /\ pc[h] = "called"
            /\ call[h].op # "create"
            /\ ~(call[h].op = "cancel" /\ call[h].reason = "")

\* The row GetByID returns.
Row(h) == policies[call[h].id]

\* UpdatedAt = time.Now() on the copy the handler is about to write, and on.
Prepare(h, copy, to) ==
  /\ now' = now + 1
  /\ mem' = [mem EXCEPT ![h] = [copy EXCEPT !.updated_at = now + 1]]
  /\ Goto(h, to)
  /\ UNCHANGED <<tables, call, reply, events, received>>

\* Create: Validate, then the INSERT.  The id is drawn when the row is
\* inserted: nothing sees it earlier.
Create(h) ==
  /\ pc[h] = "called" /\ call[h].op = "create"
  /\ call[h].fields \in Fields
  /\ Prepare(h, [ZeroPolicy EXCEPT !.status = "draft",
                                   !.number = call[h].number,
                                   !.fields = call[h].fields], "insert")
  /\ UNCHANGED from

\* Update: everything but the status comes from the request; the status is the
\* one just read, and it is not looked at.
\* Mutant: Validate is not called.
StartUpdate_Unvalidated(h) ==
  /\ Reads(h) /\ call[h].op = "update" /\ Stored(call[h].id)
  /\ Prepare(h, [Row(h) EXCEPT !.fields = call[h].fields], "write")
  /\ UNCHANGED from

StartUpdate(h) ==
  /\ Reads(h) /\ call[h].op = "update" /\ Stored(call[h].id)
  /\ call[h].fields \in Fields
  /\ Prepare(h, [Row(h) EXCEPT !.fields = call[h].fields], "write")
  /\ UNCHANGED from

\* Cancel: the soft cancellation of a draft.
\* Mutants: the status is not checked; the wrong status is written.
StartCancel_AnyStatus(h) ==
  /\ Reads(h) /\ call[h].op = "delete" /\ Stored(call[h].id)
  /\ Prepare(h, [Row(h) EXCEPT !.status = "terminated"], "write")
  /\ UNCHANGED from

StartCancel_Cancelled(h) ==
  /\ Reads(h) /\ call[h].op = "delete" /\ Row(h).status = "draft"
  /\ Prepare(h, [Row(h) EXCEPT !.status = "cancelled"], "write")
  /\ UNCHANGED from

StartCancel(h) ==
  /\ Reads(h) /\ call[h].op = "delete" /\ Row(h).status = "draft"
  /\ Prepare(h, [Row(h) EXCEPT !.status = "terminated"], "write")
  /\ UNCHANGED from

\* applyTransition: the read and the table lookup, outside the transaction.
\* Mutant: UpdatedAt, and with it occurred_at, stays the one just read.
StartTransition_OldStamp(h) ==
  /\ Reads(h) /\ call[h].op \in TransitionOps
  /\ \E edge \in Transition(Row(h).status, call[h].op) :
       /\ from' = [from EXCEPT ![h] = edge.from]
       /\ mem' = [mem EXCEPT ![h] = [Row(h) EXCEPT !.status = edge.to]]
  /\ Goto(h, "tx")
  /\ UNCHANGED <<tables, call, reply, events, now, received>>

StartTransition(h) ==
  /\ Reads(h) /\ call[h].op \in TransitionOps
  /\ \E edge \in Transition(Row(h).status, call[h].op) :
       /\ from' = [from EXCEPT ![h] = edge.from]
       /\ Prepare(h, [Row(h) EXCEPT !.status = edge.to], "tx")

\* The calls answered from what was read: ErrPolicyNotFound; GetByID and
\* ListHistory; ErrReasonRequired and the errors of Validate; ErrCannotCancel
\* and ErrInvalidTransition.
ReadMissing(h) ==
  /\ Reads(h) /\ ~Stored(call[h].id)
  /\ Finish(h, "not_found")

Get(h) ==
  /\ Reads(h) /\ Stored(call[h].id) /\ call[h].op \in {"get", "history"}
  /\ Finish(h, "ok")

RefuseArguments(h) ==
  /\ \/ /\ pc[h] = "called" /\ call[h].op = "create"
        /\ call[h].fields \in BadFields
     \/ /\ Reads(h) /\ Stored(call[h].id) /\ call[h].op = "update"
        /\ call[h].fields \in BadFields
     \/ /\ pc[h] = "called" /\ call[h].op = "cancel" /\ call[h].reason = ""
  /\ Finish(h, "invalid")

RefuseStatus(h) ==
  /\ Reads(h) /\ Stored(call[h].id)
  /\ \/ call[h].op = "delete" /\ Row(h).status # "draft"
     \/ /\ call[h].op \in TransitionOps
        /\ Transition(Row(h).status, call[h].op) = {}
  /\ Finish(h, "conflict")

AnswerAtOnce(h) ==
  /\ ReadMissing(h) \/ Get(h) \/ RefuseArguments(h) \/ RefuseStatus(h)
  /\ UNCHANGED <<tables, events, now, received>>

------------------------------------------------------------------------------
(* Writing to the tables *)

\* What Validate accepts and PostgreSQL does not: dates that are equal once they
\* are cut to microseconds (chk_policy_dates), a NUL byte in a text, a number too
\* long for its index.
RowRefused(h) == {call[h].number, call[h].fields} \cap Unstorable # {}
ReasonRefused(h) == call[h].reason \in Unstorable

NumberTaken(n) == \E p \in Policies : Stored(p) /\ policies[p].number = n

\* PolicyRepo.Create under the UNIQUE constraint on policy_number; the second
\* case is SQLSTATE 23505, ErrPolicyNumberTaken.  (A CHECK comes before it.)
\* Mutant: the column is not unique.
Insert_NotUnique(h) ==
  /\ pc[h] = "insert" /\ ~RowRefused(h)
  /\ \E p \in Policies :
       /\ ~Stored(p)
       /\ policies' = [policies EXCEPT ![p] = mem[h]]
       /\ call' = [call EXCEPT ![h].id = p]
  /\ Goto(h, "committed")
  /\ UNCHANGED <<audit_log, lock, mem, from, reply, events, now, received>>

Insert(h) ==
  /\ pc[h] = "insert" /\ ~RowRefused(h)
  /\ ~NumberTaken(mem[h].number)
  /\ \E p \in Policies :
       /\ ~Stored(p)
       /\ policies' = [policies EXCEPT ![p] = mem[h]]
       /\ call' = [call EXCEPT ![h].id = p]
  /\ Goto(h, "committed")
  /\ UNCHANGED <<audit_log, lock, mem, from, reply, events, now, received>>

InsertConflict(h) ==
  /\ pc[h] = "insert" /\ ~RowRefused(h)
  /\ NumberTaken(mem[h].number)
  /\ Finish(h, "conflict")
  /\ UNCHANGED <<tables, events, now, received>>

\* PolicyRepo.Update: one autocommit statement that waits for the row lock and
\* overwrites the row with the copy in memory, the status included.
WriteRow(h) ==
  /\ pc[h] = "write" /\ ~RowRefused(h)
  /\ lock[call[h].id] = None
  /\ policies' = [policies EXCEPT ![call[h].id] = mem[h]]
  /\ Goto(h, "committed")
  /\ UNCHANGED <<audit_log, lock, call, mem, from, reply, events, now,
                 received>>

SetStatus(h) ==
  policies' = [policies EXCEPT ![call[h].id].status = mem[h].status,
                               ![call[h].id].updated_at = mem[h].updated_at]

\* BEGIN; UPDATE policies ... WHERE id = $3 waits for the row lock and keeps it.
\* Mutant: the UPDATE goes through the pool and not through the transaction.
TxUpdate_Autocommit(h) ==
  /\ pc[h] = "tx"
  /\ lock[call[h].id] = None
  /\ SetStatus(h)
  /\ Goto(h, "updated")
  /\ UNCHANGED <<audit_log, lock, call, mem, from, reply, events, now,
                 received>>

TxUpdate(h) ==
  /\ pc[h] = "tx"
  /\ lock[call[h].id] = None
  /\ lock' = [lock EXCEPT ![call[h].id] = h]
  /\ Goto(h, "updated")
  /\ UNCHANGED <<policies, audit_log, call, mem, from, reply, events, now,
                 received>>

\* AuditLogRepo.Insert in the same transaction; nobody sees the row yet.
\* Mutant: the event is handed over here.
TxAudit_Announced(h) ==
  /\ pc[h] = "updated" /\ ~ReasonRefused(h)
  /\ Goto(h, "audited")
  /\ events' = events \cup {Announcement(h)}
  /\ UNCHANGED <<tables, call, mem, from, reply, now, received>>

TxAudit(h) ==
  /\ pc[h] = "updated" /\ ~ReasonRefused(h)
  /\ Goto(h, "audited")
  /\ UNCHANGED <<tables, call, mem, from, reply, events, now, received>>

\* The audit row the transaction of h holds.
Entry(h) == [id |-> call[h].id, from_status |-> from[h],
             to_status |-> mem[h].status,
             reason |-> ReasonFor(call[h].op, call[h].reason),
             occurred_at |-> mem[h].updated_at]

\* COMMIT: both writes become visible at once and the lock is released.
\* Mutant: the UPDATE sets the status only.
TxCommit_Untouched(h) ==
  /\ pc[h] = "audited"
  /\ policies' = [policies EXCEPT ![call[h].id].status = mem[h].status]
  /\ audit_log' = audit_log \cup {Entry(h)}
  /\ lock' = [lock EXCEPT ![call[h].id] = None]
  /\ Goto(h, "committed")
  /\ UNCHANGED <<call, mem, from, reply, events, now, received>>

TxCommit(h) ==
  /\ pc[h] = "audited"
  /\ SetStatus(h)
  /\ audit_log' = audit_log \cup {Entry(h)}
  /\ lock' = [lock EXCEPT ![call[h].id] = None]
  /\ Goto(h, "committed")
  /\ UNCHANGED <<call, mem, from, reply, events, now, received>>

------------------------------------------------------------------------------
(* After the write *)

\* PublishAsync, for the operations that announce themselves, and the answer.
Respond(h) ==
  /\ pc[h] = "committed"
  /\ events' = events \cup
       IF call[h].op \in Announced
       THEN {Announcement(h)}
       ELSE {}
  /\ Finish(h, "ok")
  /\ UNCHANGED <<tables, now, received>>

\* Mutants: no deferred Rollback; the error of Commit is dropped.
Fail_NoRollback(h) ==
  /\ pc[h] # "idle"
  /\ Finish(h, "error")
  /\ UNCHANGED <<tables, events, now, received>>

Fail_CommitErrorDropped(h) ==
  /\ pc[h] # "idle"
  /\ lock' = [p \in Policies |-> IF lock[p] = h THEN None ELSE lock[p]]
  /\ Finish(h, IF pc[h] = "audited" THEN "ok" ELSE "error")
  /\ UNCHANGED <<policies, audit_log, events, now, received>>

\* A statement fails, its answer is lost, or the process dies: an open
\* transaction is rolled back, a committed one stays, and no event goes out.
Fail(h) ==
  /\ pc[h] # "idle"
  /\ lock' = [p \in Policies |-> IF lock[p] = h THEN None ELSE lock[p]]
  /\ Finish(h, "error")
  /\ UNCHANGED <<policies, audit_log, events, now, received>>

\* The database refuses what the caller sent, before it looks for a row lock or
\* for the number; no handler has a code of its own for that.
RefusedByTable(h) ==
  /\ \/ pc[h] \in {"insert", "write"} /\ RowRefused(h)
     \/ pc[h] = "updated" /\ ReasonRefused(h)
  /\ Fail(h)

------------------------------------------------------------------------------
\* What a handler does by itself once it has a request.
Progress(h) ==
  \/ Create(h) \/ StartUpdate(h) \/ StartCancel(h) \/ StartTransition(h)
  \/ AnswerAtOnce(h)
  \/ Insert(h) \/ InsertConflict(h) \/ WriteRow(h)
  \/ TxUpdate(h) \/ TxAudit(h) \/ TxCommit(h)
  \/ RefusedByTable(h) \/ Respond(h)

Next == \E h \in Handlers : Receive(h) \/ Progress(h) \/ Fail(h)

Spec == Init /\ [][Next]_vars

\* A goroutine that can run does run, and PostgreSQL answers.  Requests and
\* failures need not happen.
FairSpec == Spec /\ \A h \in Handlers : WF_vars(Progress(h))

\* Callers that wait: at most one request in flight that may change a given
\* policy.  Nothing in the service enforces this; SerialSpec is what it
\* guarantees to callers who do.
Mutating(h) == pc[h] # "idle" /\ call[h].op \notin {"get", "history"}

OneWriterPerPolicy ==
  \A h, k \in Handlers :
    /\ Mutating(h) /\ Mutating(k)
    /\ call[h].id # None /\ call[h].id = call[k].id
    => h = k

SerialSpec == Init /\ [][Next /\ OneWriterPerPolicy']_vars

------------------------------------------------------------------------------
(* Properties of every interleaving *)

RowsOf(p) == {a \in audit_log : a.id = p}

\* Every audit row records a move the transition table allows, and a
\* cancellation says why (state_machine.go transitionTable; CancelActive).  The
\* move was decided outside the transaction that records it.
AuditRowsLegal ==
  \A a \in audit_log :
    \E edge \in transitionTable :
      /\ edge.from = a.from_status /\ edge.to = a.to_status
      /\ edge.event = "cancel" => a.reason # ""

\* The status of a stored policy is the one Create or Cancel gives it, or one
\* the audit log says it moved to, whatever stale copies were written back.
StatusExplained ==
  \A p \in Policies :
    \/ policies[p].status \in {"", "draft", "terminated"}
    \/ \E a \in RowsOf(p) : a.to_status = policies[p].status

\* A policy leaves a status other than draft only after the audit log has an
\* earlier row that brought it there: no row of the history is without a cause.
HistoryCausal ==
  \A a \in audit_log :
    \/ a.from_status = "draft"
    \/ \E b \in RowsOf(a.id) : /\ b.to_status = a.from_status
                              /\ b.occurred_at < a.occurred_at

\* AC-4, "no phantom events on rollback" (applyTransition): what was handed to
\* the publisher is in the database, whichever statement failed.
NoPhantomEvents ==
  \A e \in events :
    \/ e.type = "created" /\ Stored(e.id)
    \/ \E a \in RowsOf(e.id) : /\ EventType(a.to_status) = e.type
                              /\ a.occurred_at = e.occurred_at

\* A lifecycle call is answered with success only if its own audit row is
\* committed and its own event is handed over; a creation, only if its row is
\* there and it is announced (applyTransition, Create).
Recorded(h) ==
  /\ Announcement(h) \in events'
  /\ call[h].op = "create" => Stored(call[h].id)
  /\ call[h].op # "create" =>
       \E a \in RowsOf(call[h].id) :
         /\ a.occurred_at = mem[h].updated_at
         /\ [from |-> a.from_status, event |-> call[h].op, to |-> a.to_status]
              \in transitionTable

AnsweredOkIsRecorded ==
  [][\A h \in Handlers :
       /\ pc[h] # "idle" /\ pc'[h] = "idle" /\ reply'[h] = "ok"
       /\ call[h].op \in Announced
       => Recorded(h)]_vars

\* No cover without approval: a policy is active, cancelled or expired only if
\* its history shows that it was submitted and, later, that an underwriter
\* approved it (Activate), whichever stale copies were written in between.
CoverWasApproved ==
  \A p \in Policies :
    policies[p].status \in {"active", "cancelled", "expired"} =>
      \E a, b \in RowsOf(p) : /\ a.to_status = "submitted"
                              /\ b.to_status = "active"
                              /\ b.reason = "UNDERWRITER_APPROVED"
                              /\ a.occurred_at < b.occurred_at

\* Nobody waits for a row in vain or in a circle: a handler that waits for the
\* row lock waits for a transaction that is open on that row and that itself has
\* nothing left to wait for (the deferred Rollback of applyTransition).
Waits(h) == pc[h] \in {"write", "tx"} /\ lock[call[h].id] # None

LockHoldersGoOn ==
  \A h \in Handlers : Waits(h) =>
    LET k == lock[call[h].id]
    IN  k # h /\ pc[k] \in {"updated", "audited"} /\ call[k].id = call[h].id

\* Whoever calls, and however they overlap, the service implements
\* PolicyHistory: the status moves on with its audit row or not at all, and a
\* stale copy brings back only what has been.
StatusOf == [p \in Policies |-> policies[p].status]
History == INSTANCE PolicyHistory
             WITH Times <- Time, Reasons <- AuditReason,
                  status <- StatusOf, trail <- audit_log
HistoryKept == History!Spec

\* Every request is answered, however the row locks were taken and whichever
\* transactions were rolled back on the way.
Answered == \A h \in Handlers : pc[h] # "idle" ~> pc[h] = "idle"

------------------------------------------------------------------------------
(* Properties for callers that wait (SerialSpec) *)

\* The history of a policy, ordered by occurred_at as ListByPolicy orders it, is
\* a path of the state machine that starts in draft and ends in the status of
\* the row, unless the draft was soft-cancelled.
HistoryIsPath ==
  \A p \in Policies :
    /\ \A a \in RowsOf(p) :
         LET earlier == {b \in RowsOf(p) : b.occurred_at < a.occurred_at}
         IN  \/ earlier = {} /\ a.from_status = "draft"
             \/ \E b \in earlier :
                  /\ b.to_status = a.from_status
                  /\ \A c \in earlier : c.occurred_at <= b.occurred_at
    /\ RowsOf(p) # {} =>
         \E a \in RowsOf(p) :
           /\ a.to_status = policies[p].status
           /\ \A b \in RowsOf(p) : b.occurred_at <= a.occurred_at

\* updated_at never goes back and is never older than the history.
UpdatedAtAdvances ==
  [][\A p \in Policies :
       /\ policies[p].updated_at <= policies'[p].updated_at
       /\ \A a \in RowsOf(p)' : a.occurred_at <= policies'[p].updated_at]_vars

\* The service implements PolicyLifecycle: the status column is the status, the
\* audit table the trail.
Promise == INSTANCE PolicyLifecycle
             WITH Times <- Time, Reasons <- AuditReason,
                  status <- StatusOf, trail <- audit_log
LifecycleKept == Promise!Spec

------------------------------------------------------------------------------
(* What the documentation says and the service does not keep *)

\* "Terminal states cannot transition" (state_machine_test.go:50): a policy that
\* is rejected, cancelled or expired stays so.
TerminalIsFinal ==
  [][\A p \in Policies :
       policies[p].status \in {"rejected", "cancelled", "expired"} =>
         policies'[p].status = policies[p].status]_vars

\* "only draft policies can be cancelled via this endpoint" (ErrCannotCancel,
\* policy_service.go:16): only a draft becomes terminated.
OnlyDraftTerminated ==
  [][\A p \in Policies :
       policies'[p].status = "terminated" =>
         policies[p].status \in {"draft", "terminated"}]_vars

==============================================================================
