-------------------------- MODULE PolicySystemProofs --------------------------
(***************************************************************************)
(* Theorems about PolicySystem: that the stream holds only what is         *)
(* committed, for any callers, and what a consumer of the stream can       *)
(* conclude, for callers that wait.                                        *)
(*                                                                         *)
(* The latter goes from the events back to the policies.  It rests on      *)
(* three facts about one policy: it is announced as created once, before   *)
(* its first transition; its rows have different times; and the edges the  *)
(* service uses never lead back, so that later rows have a higher rank.    *)
(***************************************************************************)
EXTENDS PolicySystem, PolicyServiceProofs

------------------------------------------------------------------------------
(* The stream *)

\* An event enters the stream through a hand-over, and a hand-over is kept.
Committed == IInv /\ DOMAIN copies \subseteq events

LEMMA EventsGrow ==
  ASSUME Next
  PROVE  events \subseteq events'
<1>1. PICK h \in Handlers : Receive(h) \/ Progress(h) \/ Fail(h)
  BY DEF Next
<1>2. UNCHANGED events \/ Respond(h)
  BY <1>1 DEF Receive, Progress, RefusedByTable, Fail, Create, StartUpdate,
     StartCancel, StartTransition, Prepare, AnswerAtOnce, Insert,
     InsertConflict, WriteRow, TxUpdate, TxAudit, TxCommit
<1>3. QED
  BY <1>2 DEF Respond

\* What the publisher holds, or has sent, was handed over by a handler, whatever
\* failed on the way.
THEOREM CommittedAlways == SystemSpec => []Committed
<1>1. SystemInit => Committed
  BY InitIInv DEF SystemInit, Committed, Stream!Init
<1>2. Committed /\ [SystemNext]_systemVars => Committed'
  <2> SUFFICES ASSUME Committed, [SystemNext]_systemVars PROVE Committed'
    OBVIOUS
  <2>1. CASE ServiceStep
    <3>1. IInv'
      BY <2>1, NextIInv DEF ServiceStep, Committed
    <3>2. CASE events' = events /\ UNCHANGED copies
      BY <3>1, <3>2 DEF Committed
    <3>3. CASE \E e \in events' \ events : Stream!Offer(e)
      <4>1. PICK e \in events' : Stream!Offer(e)
        BY <3>3
      <4>2. DOMAIN copies' = DOMAIN copies \cup {e}
        BY <4>1 DEF Stream!Offer
      <4>3. events \subseteq events'
        BY <2>1, EventsGrow DEF ServiceStep
      <4>4. QED
        BY <3>1, <4>2, <4>3 DEF Committed
    <3>4. QED
      BY <2>1, <3>2, <3>3 DEF ServiceStep
  <2>2. CASE StreamStep
    <3>1. UNCHANGED vars /\ DOMAIN copies' = DOMAIN copies
      BY <2>2 DEF StreamStep, Stream!Deliver
    <3>2. IInv' /\ events' = events
      BY <3>1, NextIInv DEF Committed, vars
    <3>3. QED
      BY <3>1, <3>2 DEF Committed
  <2>3. CASE UNCHANGED systemVars
    <3>1. UNCHANGED vars /\ copies' = copies
      BY <2>3 DEF systemVars
    <3>2. IInv' /\ events' = events
      BY <3>1, NextIInv DEF Committed, vars
    <3>3. QED
      BY <3>1, <3>2 DEF Committed
  <2>4. QED
    BY <2>1, <2>2, <2>3 DEF SystemNext
<1>3. QED
  BY <1>1, <1>2, PTL DEF SystemSpec

\* Every copy in the stream is of a committed creation or transition.
LEMMA StreamOfCommitted == SystemSpec => []StreamIsCommitted
<1>1. Committed => StreamIsCommitted
  BY DEF Committed, IInv, NoPhantomEvents, StreamIsCommitted
<1>2. QED
  BY <1>1, CommittedAlways, PTL

------------------------------------------------------------------------------
(* The same for the service with its stream *)

\* What holds of the service holds of it with a stream at its side.
LEMMA StreamAddsNothing == SystemSerialSpec => SerialSpec /\ SystemSpec
<1>1. SystemInit => Init
  BY DEF SystemInit
<1>2. [SystemNext /\ OneWriterPerPolicy']_systemVars
      => [Next /\ OneWriterPerPolicy']_vars
  BY DEF SystemNext, ServiceStep, StreamStep, systemVars
<1>3. [SystemNext /\ OneWriterPerPolicy']_systemVars => [SystemNext]_systemVars
  OBVIOUS
<1>4. QED
  BY <1>1, <1>2, <1>3, PTL DEF SystemSerialSpec, SerialSpec, SystemSpec

------------------------------------------------------------------------------
(* The invariant of the properties that go back from the events *)

\* The edges the service has operations for, and how far along they lead.
UsedEdges == {edge \in transitionTable : edge.event \in TransitionOps}

UsedStatus == {"draft", "submitted", "active", "rejected", "cancelled", "expired"}

Rank(status) == CASE status = "draft" -> 0
                  [] status = "submitted" -> 1
                  [] status \in {"active", "rejected"} -> 2
                  [] OTHER -> 3

RowsUsed == \A a \in audit_log : \E edge \in UsedEdges :
              edge.from = a.from_status /\ edge.to = a.to_status

\* The rows of one policy are as far along as they are late.
RowsRanked ==
  \A a, b \in audit_log :
    a.id = b.id => /\ a.occurred_at = b.occurred_at => a = b
                   /\ a.occurred_at < b.occurred_at =>
                        Rank(a.to_status) < Rank(b.to_status)

AnnouncedOnce ==
  \A e, f \in events :
    e.type = "created" /\ f.type = "created" /\ e.id = f.id => e = f

AnnouncedFirst ==
  \A e \in events : e.type = "created" =>
    /\ Stored(e.id)
    /\ e.occurred_at <= policies[e.id].updated_at
    /\ \A a \in RowsOf(e.id) : e.occurred_at < a.occurred_at

\* What the handler that created a policy finds when it announces it.
Unannounced(h) ==
  pc[h] = "committed" /\ call[h].op = "create" =>
    /\ RowsOf(call[h].id) = {}
    /\ policies[call[h].id].updated_at = mem[h].updated_at
    /\ \A e \in events : e.type = "created" => e.id # call[h].id

StreamInv == /\ SerialInv /\ RowsUsed /\ RowsRanked /\ AnnouncedOnce /\ AnnouncedFirst
             /\ \A h \in Handlers : Unannounced(h)

------------------------------------------------------------------------------
(* The transition table *)

LEMMA UsedRank ==
  ASSUME NEW edge \in UsedEdges
  PROVE  /\ edge.from \in UsedStatus /\ edge.to \in UsedStatus
         /\ edge.to # "draft"
         /\ Rank(edge.to) \in Nat /\ Rank(edge.from) \in Nat
         /\ Rank(edge.from) < Rank(edge.to)
<1>1. edge \in {Edge("draft", "submit", "submitted"),
               Edge("submitted", "activate", "active"),
               Edge("submitted", "reject", "rejected"),
               Edge("active", "cancel", "cancelled"),
               Edge("active", "expire", "expired")}
  BY DEF UsedEdges, transitionTable, Edge, TransitionOps
<1>2. \/ edge.from = "draft" /\ edge.to = "submitted"
      \/ edge.from = "submitted" /\ edge.to \in {"active", "rejected"}
      \/ edge.from = "active" /\ edge.to \in {"cancelled", "expired"}
  BY <1>1 DEF Edge
<1>3. QED
  BY <1>2 DEF UsedStatus, Rank

LEMMA TableRank ==
  ASSUME NEW edge \in transitionTable,
         edge.from \in UsedStatus, edge.to \in UsedStatus
  PROVE  Rank(edge.to) = Rank(edge.from) + 1
<1>1. \/ edge.from = "draft" /\ edge.to = "submitted"
      \/ edge.from = "submitted" /\ edge.to \in {"active", "rejected"}
      \/ edge.from = "active" /\ edge.to \in {"amended", "cancelled", "expired"}
      \/ edge.from = "amended" /\ edge.to = "active"
  BY DEF transitionTable, Edge
<1>2. QED
  BY <1>1 DEF UsedStatus, Rank

LEMMA RankNat == \A s : Rank(s) \in Nat
BY DEF Rank

\* Different statuses are announced under different types, none as created.
LEMMA TypesTell ==
  ASSUME NEW s \in UsedStatus
  PROVE  /\ s # "draft" => EventType(s) # "created" /\ Told(s) = EventType(s)
         /\ Told("draft") = "created"
         /\ \A t \in PolicyStatus :
              s # "draft" /\ EventType(t) = EventType(s) => t = s
         /\ \A t \in PolicyStatus : Told(t) = Told(s) => t = s
BY DEF UsedStatus, PolicyStatus, EventType, Told

------------------------------------------------------------------------------
(* The steps *)

LEMMA Quietly ==
  ASSUME TypeOK, NEW h \in Handlers,
         Receive(h) \/ Progress(h) \/ Fail(h),
         ~(Insert(h) \/ WriteRow(h) \/ TxCommit(h))
  PROVE  /\ UNCHANGED <<policies, audit_log>>
         /\ events' = events \/ Respond(h)
         /\ pc'[h] # "committed"
<1>1. /\ UNCHANGED <<policies, audit_log>>
      /\ events' = events \/ Respond(h)
  BY DEF Receive, Progress, RefusedByTable, Fail, Create, StartUpdate,
     StartCancel, StartTransition, Prepare, AnswerAtOnce, InsertConflict,
     TxUpdate, TxAudit, Respond, tables
<1>2. CASE \E answer : Finish(h, answer)
  BY <1>1, <1>2 DEF TypeOK, Finish, Goto
<1>3. CASE \E copy : \E to \in {"insert", "write", "tx"} : Prepare(h, copy, to)
  BY <1>1, <1>3 DEF TypeOK, Prepare, Goto
<1>4. CASE Receive(h) \/ TxUpdate(h) \/ TxAudit(h)
  BY <1>1, <1>4 DEF TypeOK, Receive, TxUpdate, TxAudit, Goto
<1>5. AnswerAtOnce(h) \/ InsertConflict(h) \/ Respond(h) \/ Fail(h)
      => \E answer : Finish(h, answer)
  BY DEF AnswerAtOnce, ReadMissing, Get, RefuseArguments, RefuseStatus,
         InsertConflict, Respond, Fail
<1>6. Create(h) \/ StartUpdate(h) \/ StartCancel(h) \/ StartTransition(h)
      => \E copy : \E to \in {"insert", "write", "tx"} : Prepare(h, copy, to)
  BY DEF Create, StartUpdate, StartCancel, StartTransition
<1>7. QED
  BY <1>2, <1>3, <1>4, <1>5, <1>6 DEF Progress, RefusedByTable

LEMMA InitStreamInv == Init => StreamInv
<1> SUFFICES ASSUME Init PROVE StreamInv
  OBVIOUS
<1>1. audit_log = {} /\ events = {} /\ \A h \in Handlers : pc[h] = "idle"
  BY DEF Init
<1>2. RowsUsed /\ RowsRanked /\ AnnouncedOnce /\ AnnouncedFirst
  BY <1>1 DEF RowsUsed, RowsRanked, AnnouncedOnce, AnnouncedFirst
<1>3. \A h \in Handlers : Unannounced(h)
  BY <1>1 DEF Unannounced
<1>4. QED
  BY <1>2, <1>3, InitSerialInv DEF StreamInv

\* The row COMMIT adds is further along than every row of its policy.
LEMMA MoveIsFurther ==
  ASSUME StreamInv, NEW h \in Handlers, NEW p \in Policies, Moves(h, p)
  PROVE  /\ \E edge \in UsedEdges : /\ edge.from = from[h]
                                    /\ edge.to = mem[h].status
         /\ \A a \in RowsOf(p) : Rank(a.to_status) < Rank(mem[h].status)
<1>1. TransitionReady(h) /\ call[h].op \in TransitionOps
  BY DEF StreamInv, SerialInv, IInv, HandlerOK, Moves
<1>2. PICK edge \in UsedEdges : edge.from = from[h] /\ edge.to = mem[h].status
  <2> DEFINE edge == [from |-> from[h], event |-> call[h].op, to |-> mem[h].status]
  <2>1. edge \in transitionTable /\ edge.event \in TransitionOps
    BY <1>1 DEF TransitionReady
  <2>2. edge.from = from[h] /\ edge.to = mem[h].status
    OBVIOUS
  <2> HIDE DEF edge
  <2>3. QED
    BY <2>1, <2>2 DEF UsedEdges
<1>3. ASSUME NEW a \in RowsOf(p)
      PROVE  Rank(a.to_status) < Rank(mem[h].status)
  <2>1. PathOf(p)
    BY PathByPolicy DEF StreamInv, SerialInv
  <2>2. PICK b \in RowsOf(p) : /\ b.to_status = policies[p].status
                               /\ \A c \in RowsOf(p) : c.occurred_at <= b.occurred_at
    BY <1>3, <2>1 DEF PathOf
  <2>3. from[h] = policies[p].status
    BY DEF Moves, StreamInv, SerialInv, Faithful, Deciding
  <2>4. /\ a \in audit_log /\ b \in audit_log /\ a.id = b.id
        /\ a.occurred_at \in Nat /\ b.occurred_at \in Nat
        /\ a.occurred_at <= b.occurred_at
    BY <2>2, Stamps DEF RowsOf, StreamInv, SerialInv
  <2>5. a = b \/ Rank(a.to_status) < Rank(b.to_status)
    BY <2>4 DEF StreamInv, RowsRanked
  <2>6. Rank(b.to_status) < Rank(mem[h].status)
    BY <1>2, <2>2, <2>3, UsedRank
  <2>7. QED
    BY <2>5, <2>6, RankNat
<1>4. QED
  BY <1>2, <1>3

LEMMA RowsKeepRank ==
  ASSUME StreamInv, NEW h \in Handlers, NEW p \in Policies, Moves(h, p)
  PROVE  RowsUsed' /\ RowsRanked'
<1> DEFINE e == Entry(h)
<1>1. /\ e.id = p /\ e.from_status = from[h] /\ e.to_status = mem[h].status
      /\ e.occurred_at = mem[h].updated_at /\ audit_log' = audit_log \cup {e}
  BY DEF Entry, Moves
<1> HIDE DEF e
<1>2. RowsUsed'
  BY <1>1, MoveIsFurther DEF RowsUsed, StreamInv
<1>3. \A a \in audit_log : a.id = p =>
        /\ a.occurred_at \in Nat /\ e.occurred_at \in Nat
        /\ a.occurred_at < e.occurred_at
        /\ Rank(a.to_status) < Rank(e.to_status)
  <2>1. \A a \in RowsOf(p) : a.occurred_at < mem[h].updated_at
    BY DEF Moves, StreamInv, SerialInv, Faithful, Deciding
  <2>2. QED
    BY <1>1, <2>1, Stamps, MoveIsFurther DEF RowsOf, StreamInv, SerialInv
<1>4. RowsRanked'
  <2> SUFFICES ASSUME NEW a \in audit_log \cup {e}, NEW b \in audit_log \cup {e},
                      a.id = b.id
               PROVE  /\ a.occurred_at = b.occurred_at => a = b
                      /\ a.occurred_at < b.occurred_at =>
                           Rank(a.to_status) < Rank(b.to_status)
    BY <1>1 DEF RowsRanked
  <2>1. CASE a \in audit_log /\ b \in audit_log
    BY <2>1 DEF StreamInv, RowsRanked
  <2>2. CASE a \in audit_log /\ b = e
    BY <1>1, <1>3, <2>2
  <2>3. CASE a = e /\ b \in audit_log
    BY <1>1, <1>3, <2>3
  <2>4. CASE a = e /\ b = e
    <3>1. e.occurred_at \in Nat
      BY <1>1, Stamps DEF StreamInv, SerialInv
    <3>2. QED
      BY <2>4, <3>1
  <2>5. QED
    BY <2>1, <2>2, <2>3, <2>4
<1>5. QED
  BY <1>2, <1>4

\* A write that announces nothing.
LEMMA WriteKeepsFirst ==
  ASSUME StreamInv, NEW h \in Handlers, NEW p \in Policies, Gives(h, p),
         Creates(h, p) \/ Rewrites(h, p) \/ Moves(h, p), events' = events
  PROVE  AnnouncedFirst'
<1> SUFFICES ASSUME NEW e \in events, e.type = "created"
             PROVE  /\ Stored(e.id)'
                    /\ e.occurred_at <= policies'[e.id].updated_at
                    /\ \A a \in RowsOf(e.id)' : e.occurred_at < a.occurred_at
  BY DEF AnnouncedFirst
<1>1. e \in PublishedEvent
  BY DEF StreamInv, SerialInv, IInv, TypeOK
<1>2. PICK q \in Policies : q = e.id
  BY <1>1 DEF PublishedEvent
<1>3. e.occurred_at \in Nat /\ policies[q].updated_at \in Nat
      /\ mem[h].updated_at \in Nat
  BY <1>1, Stamps DEF PublishedEvent, Time, StreamInv, SerialInv
<1>4. /\ Stored(q) /\ e.occurred_at <= policies[q].updated_at
      /\ \A a \in RowsOf(q) : e.occurred_at < a.occurred_at
  BY <1>2 DEF StreamInv, AnnouncedFirst
<1>5. Stored(q)'
  BY <1>4 DEF Gives, Stored
<1>6. CASE q # p
  <2>1. policies'[q] = policies[q]
    BY <1>6 DEF Gives
  <2>2. RowsOf(q)' = RowsOf(q)
    BY <1>6 DEF Creates, Rewrites, Moves, Entry, RowsOf
  <2>3. QED
    BY <1>2, <1>4, <1>5, <2>1, <2>2
<1>7. CASE q = p
  <2>1. Rewrites(h, p) \/ Moves(h, p)
    BY <1>4, <1>7 DEF Creates
  <2>2. policies[p].updated_at < mem[h].updated_at
    BY <2>1 DEF Rewrites, Moves, StreamInv, SerialInv, Faithful, Deciding
  <2>3. e.occurred_at < mem[h].updated_at
    BY <1>3, <1>4, <1>7, <2>2
  <2>4. e.occurred_at <= policies'[q].updated_at
    <3>1. policies'[q].updated_at = mem[h].updated_at
      BY <1>7 DEF Gives
    <3>2. QED
      BY <1>3, <2>3, <3>1
  <2>5. \A a \in RowsOf(q)' : \/ a \in RowsOf(q)
                              \/ a.occurred_at = mem[h].updated_at
    BY <2>1 DEF Rewrites, Moves, Entry, RowsOf
  <2>6. QED
    BY <1>2, <1>4, <1>5, <2>3, <2>4, <2>5
<1>8. QED
  BY <1>6, <1>7

\* Whoever created a policy and has not announced it yet is alone with it.
LEMMA CreatorAlone ==
  ASSUME StreamInv, NEW h \in Handlers, NEW k \in Handlers, k # h,
         pc[k] = "committed", call[k].op = "create", Mutating(h)
  PROVE  call[k].id \in Policies /\ Stored(call[k].id) /\ call[h].id # call[k].id
<1>1. Written(k)
  BY DEF StreamInv, SerialInv, IInv, HandlerOK
<1>2. call[k].id \in Policies /\ Stored(call[k].id)
  BY <1>1 DEF Written
<1>3. Mutating(k)
  BY DEF Mutating
<1>4. QED
  BY <1>2, <1>3, ServiceAssumption DEF StreamInv, SerialInv, OneWriterPerPolicy

\* A creator that stays where it is keeps what it has.
LEMMA UnannouncedKept ==
  ASSUME NEW k \in Handlers, Unannounced(k), NEW q, q = call[k].id,
         pc'[k] = "committed" => pc[k] = "committed",
         call'[k] = call[k], mem'[k] = mem[k],
         RowsOf(q)' = RowsOf(q), policies'[q] = policies[q],
         \A e \in events' : e.type = "created" /\ e.id = q => e \in events
  PROVE  Unannounced(k)'
<1>1. pc'[k] = "committed" /\ call'[k].op = "create" =>
        /\ RowsOf(q)' = {} /\ policies'[q].updated_at = mem'[k].updated_at
        /\ \A e \in events' : e.type = "created" => e.id # q
  BY DEF Unannounced
<1>2. q = call'[k].id
  OBVIOUS
<1> HIDE DEF RowsOf
<1>3. QED
  BY <1>1, <1>2 DEF Unannounced

LEMMA WriteKeepsUnannounced ==
  ASSUME StreamInv, NEW h \in Handlers, NEW p \in Policies, Gives(h, p),
         Insert(h) \/ WriteRow(h) \/ TxCommit(h),
         Creates(h, p) \/ Rewrites(h, p) \/ Moves(h, p),
         NEW k \in Handlers
  PROVE  Unannounced(k)'
<1>1. OthersAlone(h) /\ events' = events /\ TypeOK
  BY ActsAlone DEF StreamInv, SerialInv, IInv, Progress, Insert, WriteRow, TxCommit
<1>2. CASE k = h
  <2>1. CASE Insert(h)
    <3>1. PICK q \in Policies : /\ ~Stored(q)
                                /\ policies' = [policies EXCEPT ![q] = mem[h]]
                                /\ call' = [call EXCEPT ![h].id = q]
      BY <2>1 DEF Insert
    <3>2. /\ call'[h].id = q /\ policies'[q] = mem[h] /\ mem' = mem
          /\ audit_log' = audit_log
      <4>1. policies'[q] = mem[h]
        BY <1>1, <3>1 DEF TypeOK
      <4>2. call \in [Handlers -> Call]
        BY <1>1 DEF TypeOK
      <4>3. call'[h].id = q
        BY <3>1, <4>2 DEF Call
      <4>4. QED
        BY <2>1, <4>1, <4>3 DEF Insert
    <3>3. RowsOf(q) = {}
      BY <3>1, PathByPolicy, DraftHasNoRows DEF StreamInv, SerialInv, Stored
    <3>4. RowsOf(q)' = {}
      BY <3>2, <3>3 DEF RowsOf
    <3>5. \A e \in events : e.type = "created" => e.id # q
      BY <3>1 DEF StreamInv, AnnouncedFirst
    <3>6. RowsOf(call[h].id)' = {}
      BY <3>2, <3>4 DEF RowsOf
    <3>7. QED
      BY <1>1, <1>2, <3>2, <3>5, <3>6 DEF Unannounced
  <2>2. CASE WriteRow(h) \/ TxCommit(h)
    <3>1. call[h].op # "create" /\ call' = call
      BY <2>2 DEF WriteRow, TxCommit, StreamInv, SerialInv, IInv, HandlerOK,
                  WriteReady, TransitionOps
    <3>2. QED
      BY <1>2, <3>1 DEF Unannounced
  <2>3. QED
    BY <2>1, <2>2
<1>3. CASE k # h
  <2>1. /\ pc'[k] = pc[k] /\ call'[k] = call[k] /\ mem'[k] = mem[k]
        /\ Unannounced(k)
    BY <1>1, <1>3 DEF OthersAlone, StreamInv
  <2>2. CASE pc[k] = "committed" /\ call[k].op = "create"
    <3>1. Mutating(h) \/ Creates(h, p)
      BY DEF Mutating, Rewrites, Moves, StreamInv, SerialInv, IInv, HandlerOK,
             WriteReady, TransitionOps
    <3>2. PICK q \in Policies : q = call[k].id /\ Stored(q)
      <4>1. Written(k)
        BY <2>2 DEF StreamInv, SerialInv, IInv, HandlerOK
      <4>2. QED
        BY <2>2, <4>1 DEF Written
    <3>3. q # p
      <4>1. CASE Creates(h, p)
        BY <3>2, <4>1 DEF Creates
      <4>2. CASE Rewrites(h, p) \/ Moves(h, p)
        <5>1. Mutating(h) /\ call[h].id = p
          BY <4>2 DEF Mutating, Rewrites, Moves, StreamInv, SerialInv, IInv,
                      HandlerOK, WriteReady, TransitionOps
        <5>2. QED
          BY <1>3, <2>2, <3>2, <5>1, CreatorAlone
      <4>3. QED
        BY <4>1, <4>2
    <3>4. policies'[q] = policies[q] /\ RowsOf(q)' = RowsOf(q)
      <4>1. policies'[q] = policies[q]
        BY <3>3 DEF Gives
      <4>2. RowsOf(q)' = RowsOf(q)
        BY <3>3 DEF Creates, Rewrites, Moves, Entry, RowsOf
      <4>3. QED
        BY <4>1, <4>2
    <3>5. QED
      BY <1>1, <2>1, <3>2, <3>4, UnannouncedKept
  <2>3. CASE ~(pc[k] = "committed" /\ call[k].op = "create")
    BY <2>1, <2>3 DEF Unannounced
  <2>4. QED
    BY <2>2, <2>3
<1>4. QED
  BY <1>2, <1>3

LEMMA WriteKeepsStream ==
  ASSUME StreamInv, SerialInv', NEW h \in Handlers,
         Insert(h) \/ WriteRow(h) \/ TxCommit(h)
  PROVE  StreamInv'
<1>1. PICK p \in Policies :
        Gives(h, p) /\ (Creates(h, p) \/ Rewrites(h, p) \/ Moves(h, p))
  BY WhatIsWritten DEF StreamInv, SerialInv
<1>2. events' = events
  BY DEF Insert, WriteRow, TxCommit
<1>3. RowsUsed' /\ RowsRanked'
  <2>1. CASE Moves(h, p)
    BY <2>1, RowsKeepRank
  <2>2. CASE audit_log' = audit_log
    BY <2>2 DEF StreamInv, RowsUsed, RowsRanked
  <2>3. QED
    BY <1>1, <2>1, <2>2 DEF Creates, Rewrites
<1>4. AnnouncedOnce' /\ AnnouncedFirst'
  BY <1>1, <1>2, WriteKeepsFirst DEF StreamInv, AnnouncedOnce
<1>5. \A k \in Handlers : Unannounced(k)'
  BY <1>1, WriteKeepsUnannounced
<1>6. QED
  BY <1>3, <1>4, <1>5 DEF StreamInv

\* A step that does not write: it may announce what was written.
LEMMA SpeakKeepsStream ==
  ASSUME StreamInv, SerialInv', NEW h \in Handlers,
         Receive(h) \/ Progress(h) \/ Fail(h),
         ~(Insert(h) \/ WriteRow(h) \/ TxCommit(h))
  PROVE  StreamInv'
<1>1. /\ OthersAlone(h) /\ TypeOK
      /\ UNCHANGED <<policies, audit_log>>
      /\ events' = events \/ Respond(h)
      /\ pc'[h] # "committed"
  BY Quietly, ActsAlone DEF StreamInv, SerialInv, IInv
<1>2. RowsUsed' /\ RowsRanked'
  BY <1>1 DEF StreamInv, RowsUsed, RowsRanked
<1>3. \A q : /\ RowsOf(q)' = RowsOf(q) /\ Stored(q)' = Stored(q)
             /\ policies'[q] = policies[q]
  BY <1>1 DEF RowsOf, Stored
<1>4. \A e \in events' : e.type = "created" => e \in events \/
        /\ e = Announcement(h) /\ pc[h] = "committed"
        /\ call[h].op = "create" /\ Respond(h)
  <2> SUFFICES ASSUME NEW e \in events', e.type = "created", e \notin events
               PROVE  /\ e = Announcement(h) /\ pc[h] = "committed"
                      /\ call[h].op = "create" /\ Respond(h)
    OBVIOUS
  <2>1. /\ Respond(h) /\ pc[h] = "committed" /\ e = Announcement(h)
        /\ call[h].op \in Announced
    BY <1>1 DEF Respond
  <2>2. CASE call[h].op \in TransitionOps
    <3>1. Written(h)
      BY <2>1 DEF StreamInv, SerialInv, IInv, HandlerOK
    <3>2. PICK edge \in transitionTable : edge.to = mem[h].status
      <4> DEFINE edge == [from |-> from[h], event |-> call[h].op, to |-> mem[h].status]
      <4>1. edge \in transitionTable /\ edge.to = mem[h].status
        BY <2>2, <3>1 DEF Written
      <4> HIDE DEF edge
      <4>2. QED
        BY <4>1
    <3>3. mem[h].status # "created"
      BY <3>2, TableTypes DEF PolicyStatus
    <3>4. e.type = EventType(mem[h].status)
      BY <2>1, <2>2 DEF Announcement, AnnouncedType, TransitionOps
    <3>5. QED
      BY <3>3, <3>4 DEF EventType
  <2>3. QED
    BY <2>1, <2>2 DEF Announced
<1>5. CASE Respond(h) /\ call[h].op = "create"
  <2> DEFINE a == Announcement(h)
  <2>1. /\ a.id = call[h].id /\ a.occurred_at = mem[h].updated_at
        /\ pc[h] = "committed" /\ pc'[h] = "idle"
    BY <1>1, <1>5, AloneFinish DEF Announcement, Respond
  <2>2. Unannounced(h) /\ Written(h)
    BY <2>1 DEF StreamInv, SerialInv, IInv, HandlerOK
  <2>3. PICK p \in Policies : p = call[h].id /\ Stored(p)
    BY <1>5, <2>2 DEF Written
  <2>4. /\ RowsOf(p) = {} /\ policies[p].updated_at = mem[h].updated_at
        /\ \A e \in events : e.type = "created" => e.id # p
    BY <1>5, <2>1, <2>2, <2>3 DEF Unannounced
  <2>5. mem[h].updated_at \in Nat
    BY Stamps DEF StreamInv, SerialInv
  <2> HIDE DEF a
  <2>6. \A e \in events' : e.type = "created" => e \in events \/ e = a
    BY <1>4 DEF a
  <2>7. AnnouncedOnce'
    <3> SUFFICES ASSUME NEW e \in events', NEW f \in events',
                        e.type = "created", f.type = "created", e.id = f.id
                 PROVE  e = f
      BY DEF AnnouncedOnce
    <3>1. (e \in events \/ e = a) /\ (f \in events \/ f = a)
      BY <2>6
    <3>2. QED
      BY <2>1, <2>3, <2>4, <3>1 DEF StreamInv, AnnouncedOnce
  <2>8. AnnouncedFirst'
    <3> SUFFICES ASSUME NEW e \in events', e.type = "created"
                 PROVE  /\ Stored(e.id)'
                        /\ e.occurred_at <= policies'[e.id].updated_at
                        /\ \A b \in RowsOf(e.id)' : e.occurred_at < b.occurred_at
      BY DEF AnnouncedFirst
    <3>1. CASE e \in events
      BY <1>3, <3>1 DEF StreamInv, AnnouncedFirst
    <3>2. CASE e = a
      <4>1. Stored(p)' /\ RowsOf(p)' = {}
        BY <1>3, <2>3, <2>4
      <4>2. e.id = p /\ e.occurred_at = policies[p].updated_at
            /\ policies[p].updated_at \in Nat
        BY <2>1, <2>3, <2>4, <2>5, <3>2
      <4>3. QED
        BY <1>3, <4>1, <4>2
    <3>3. QED
      BY <2>6, <3>1, <3>2
  <2>9. ASSUME NEW k \in Handlers
        PROVE  Unannounced(k)'
    <3>1. CASE k = h
      BY <2>1, <3>1 DEF Unannounced
    <3>2. CASE k # h
      <4>1. /\ pc'[k] = pc[k] /\ call'[k] = call[k] /\ mem'[k] = mem[k]
            /\ Unannounced(k)
        BY <1>1, <3>2 DEF OthersAlone, StreamInv
      <4>2. CASE pc[k] = "committed" /\ call[k].op = "create"
        <5>1. PICK q : q = call[k].id
          OBVIOUS
        <5>2. q # p
          <6>1. Mutating(h)
            BY <1>5, <2>1 DEF Mutating
          <6>2. QED
            BY <2>3, <3>2, <4>2, <5>1, <6>1, CreatorAlone
        <5>3. \A e \in events' : e.type = "created" /\ e.id = q => e \in events
          BY <2>1, <2>3, <2>6, <5>2
        <5>4. RowsOf(q)' = RowsOf(q) /\ policies'[q] = policies[q]
          BY <1>3
        <5>5. QED
          BY <4>1, <5>1, <5>3, <5>4, UnannouncedKept
      <4>3. CASE ~(pc[k] = "committed" /\ call[k].op = "create")
        BY <4>1, <4>3 DEF Unannounced
      <4>4. QED
        BY <4>2, <4>3
    <3>3. QED
      BY <3>1, <3>2
  <2>10. QED
    BY <1>2, <2>7, <2>8, <2>9 DEF StreamInv
<1>6. CASE ~(Respond(h) /\ call[h].op = "create")
  <2>1. \A e \in events' : e.type = "created" => e \in events
    BY <1>4, <1>6
  <2>2. AnnouncedOnce'
    BY <2>1 DEF StreamInv, AnnouncedOnce
  <2>3. AnnouncedFirst'
    <3> SUFFICES ASSUME NEW e \in events', e.type = "created"
                 PROVE  /\ Stored(e.id)'
                        /\ e.occurred_at <= policies'[e.id].updated_at
                        /\ \A b \in RowsOf(e.id)' : e.occurred_at < b.occurred_at
      BY DEF AnnouncedFirst
    <3>1. QED
      BY <1>3, <2>1 DEF StreamInv, AnnouncedFirst
  <2>4. ASSUME NEW k \in Handlers
        PROVE  Unannounced(k)'
    <3>1. CASE k = h
      BY <1>1, <3>1 DEF Unannounced
    <3>2. CASE k # h
      <4>1. /\ pc'[k] = pc[k] /\ call'[k] = call[k] /\ mem'[k] = mem[k]
            /\ Unannounced(k)
        BY <1>1, <3>2 DEF OthersAlone, StreamInv
      <4>2. PICK q : q = call[k].id
        OBVIOUS
      <4>3. RowsOf(q)' = RowsOf(q) /\ policies'[q] = policies[q]
        BY <1>3
      <4>4. QED
        BY <2>1, <4>1, <4>2, <4>3, UnannouncedKept
    <3>3. QED
      BY <3>1, <3>2
  <2>5. QED
    BY <1>2, <2>2, <2>3, <2>4 DEF StreamInv
<1>7. QED
  BY <1>5, <1>6

LEMMA NextStreamInv ==
  StreamInv /\ SerialInv' /\ [Next /\ OneWriterPerPolicy']_vars => StreamInv'
<1> SUFFICES ASSUME StreamInv, SerialInv', [Next]_vars PROVE StreamInv'
  OBVIOUS
<1>1. CASE UNCHANGED vars
  <2>1. RowsUsed' /\ RowsRanked' /\ AnnouncedOnce' /\ AnnouncedFirst'
    BY <1>1 DEF vars, StreamInv, RowsUsed, RowsRanked, AnnouncedOnce,
                AnnouncedFirst, Stored, RowsOf
  <2>2. \A h \in Handlers : Unannounced(h)'
    BY <1>1 DEF vars, StreamInv, Unannounced, RowsOf
  <2>3. QED
    BY <2>1, <2>2 DEF StreamInv
<1>2. CASE Next
  <2>1. PICK h \in Handlers : Receive(h) \/ Progress(h) \/ Fail(h)
    BY <1>2 DEF Next
  <2>2. QED
    BY <2>1, WriteKeepsStream, SpeakKeepsStream
<1>3. QED
  BY <1>1, <1>2

\* For callers that wait, policies are announced once and first, and their
\* histories lead one way.
THEOREM StreamInvariance == SerialSpec => []StreamInv
BY InitStreamInv, NextStreamInv, SerialInvariance, PTL DEF SerialSpec

------------------------------------------------------------------------------
(* What a consumer can conclude *)

\* What a consumer has heard of p is the creation or a row.
LEMMA HeardIs ==
  ASSUME StreamInv, Committed, NEW p \in Policies, NEW e \in Heard(p)
  PROVE  /\ e \in events /\ e.id = p /\ e.occurred_at \in Nat
         /\ e.type # "created" =>
              \E a \in RowsOf(p) : /\ EventType(a.to_status) = e.type
                                   /\ a.occurred_at = e.occurred_at
         /\ e.type = "created" =>
              \A a \in RowsOf(p) : e.occurred_at < a.occurred_at
<1>1. e \in events /\ e.id = p
  BY DEF Heard, Committed
<1>2. e \in PublishedEvent
  BY <1>1 DEF StreamInv, SerialInv, IInv, TypeOK
<1>3. e.occurred_at \in Nat
  BY <1>2 DEF PublishedEvent, Time
<1>4. e.type # "created" =>
        \E a \in RowsOf(p) : /\ EventType(a.to_status) = e.type
                             /\ a.occurred_at = e.occurred_at
  BY <1>1 DEF StreamInv, SerialInv, IInv, NoPhantomEvents
<1>5. e.type = "created" => \A a \in RowsOf(p) : e.occurred_at < a.occurred_at
  BY <1>1 DEF StreamInv, AnnouncedFirst
<1>6. QED
  BY <1>1, <1>3, <1>4, <1>5

LEMMA RowIs ==
  ASSUME StreamInv, NEW p \in Policies, NEW a \in RowsOf(p)
  PROVE  /\ a \in audit_log /\ a.id = p /\ a.occurred_at \in Nat
         /\ a.to_status \in UsedStatus /\ a.to_status # "draft"
         /\ a.from_status \in UsedStatus
         /\ Rank(a.from_status) < Rank(a.to_status)
<1>1. a \in audit_log /\ a.id = p
  BY DEF RowsOf
<1>2. a.occurred_at \in Nat
  BY <1>1, Stamps DEF StreamInv, SerialInv
<1>3. PICK edge \in UsedEdges : edge.from = a.from_status /\ edge.to = a.to_status
  BY <1>1 DEF StreamInv, RowsUsed
<1>4. QED
  BY <1>1, <1>2, <1>3, UsedRank

LEMMA TimeKeepsOrder ==
  ASSUME NEW e, NEW f, e.occurred_at \in Nat, f.occurred_at \in Nat
  PROVE  /\ e.occurred_at <= f.occurred_at => CloudTime(e) <= CloudTime(f)
         /\ CloudTime(e) < CloudTime(f) => e.occurred_at < f.occurred_at
<1> DEFINE x == e.occurred_at
           y == f.occurred_at
<1>1. \A m, n \in Nat : /\ m <= n => (m \div TicksPerSecond) <= (n \div TicksPerSecond)
                        /\ (m \div TicksPerSecond) \in Nat
  BY SystemAssumption
<1>2. CloudTime(e) = x \div TicksPerSecond /\ CloudTime(f) = y \div TicksPerSecond
  BY DEF CloudTime
<1>3. x \in Nat /\ y \in Nat
  OBVIOUS
<1> HIDE DEF x, y
<1>4. x <= y => CloudTime(e) <= CloudTime(f)
  BY <1>1, <1>2, <1>3
<1>5. y <= x => CloudTime(f) <= CloudTime(e)
  BY <1>1, <1>2, <1>3
<1>6. CloudTime(e) \in Nat /\ CloudTime(f) \in Nat
  BY <1>1, <1>2, <1>3
<1>7. CloudTime(e) < CloudTime(f) => x < y
  BY <1>3, <1>5, <1>6
<1>8. QED
  BY <1>4, <1>7 DEF x, y

LEMMA NewestTells == StreamInv /\ Committed => NewestTellsStatus
<1> SUFFICES ASSUME StreamInv, Committed, NEW p \in Policies,
                    AllHeard(p), policies[p].status # "terminated"
             PROVE  \E e \in Newest(p) : e.type = Told(policies[p].status)
  BY DEF NewestTellsStatus
<1>1. PICK born \in Heard(p) : born.type = "created"
  BY DEF AllHeard
<1>2. born \in events /\ born.id = p /\ born.occurred_at \in Nat
      /\ \A a \in RowsOf(p) : born.occurred_at < a.occurred_at
  BY <1>1, HeardIs
<1>3. \A f \in Heard(p) :
        \/ f = born
        \/ \E a \in RowsOf(p) : /\ EventType(a.to_status) = f.type
                                /\ a.occurred_at = f.occurred_at
  BY <1>1, <1>2, HeardIs DEF StreamInv, AnnouncedOnce
<1>4. Stored(p)
  BY <1>1, <1>2 DEF StreamInv, AnnouncedFirst
<1>5. CASE RowsOf(p) = {}
  <2>1. policies[p].status = "draft"
    BY <1>4, <1>5 DEF StreamInv, SerialInv, IInv, RowsExplained, Explained
  <2>2. CloudTime(born) <= CloudTime(born)
    BY <1>2, TimeKeepsOrder
  <2>3. born \in Newest(p)
    BY <1>3, <1>5, <2>2 DEF Newest
  <2>4. QED
    BY <1>1, <2>1, <2>3 DEF Told
<1>6. CASE RowsOf(p) # {}
  <2>1. PICK a \in RowsOf(p) : /\ a.to_status = policies[p].status
                               /\ \A b \in RowsOf(p) : b.occurred_at <= a.occurred_at
    BY <1>6, PathByPolicy DEF PathOf, StreamInv, SerialInv
  <2>2. PICK e \in Heard(p) : /\ e.type = EventType(a.to_status)
                              /\ e.occurred_at = a.occurred_at
    BY DEF AllHeard
  <2>3. a.occurred_at \in Nat /\ a.to_status # "draft"
    BY RowIs
  <2>4. ASSUME NEW f \in Heard(p)
        PROVE  CloudTime(f) <= CloudTime(e)
    <3>1. f.occurred_at \in Nat
      BY HeardIs
    <3>2. f.occurred_at <= e.occurred_at
      BY <1>2, <1>3, <2>1, <2>2, <2>3, <3>1
    <3>3. QED
      BY <2>2, <2>3, <3>1, <3>2, TimeKeepsOrder
  <2>5. e \in Newest(p)
    BY <2>4 DEF Newest
  <2>6. e.type = Told(policies[p].status)
    BY <2>1, <2>2, <2>3 DEF Told
  <2>7. QED
    BY <2>5, <2>6
<1>7. QED
  BY <1>5, <1>6

\* The status an event of p brought p to.
Brought(p, e, s) ==
  \/ /\ e.type = "created" /\ s = "draft"
     /\ \A a \in RowsOf(p) : e.occurred_at < a.occurred_at
  \/ \E a \in RowsOf(p) : /\ a.to_status = s /\ e.type = EventType(s)
                          /\ a.occurred_at = e.occurred_at

LEMMA BroughtBy ==
  ASSUME StreamInv, Committed, NEW p \in Policies, NEW e \in Heard(p)
  PROVE  \E s \in UsedStatus :
           /\ Brought(p, e, s) /\ Told(s) = e.type
           /\ \A a \in RowsOf(p) : e.occurred_at < a.occurred_at =>
                Rank(s) < Rank(a.to_status)
<1>1. CASE e.type = "created"
  <2>1. Brought(p, e, "draft")
    BY <1>1, HeardIs DEF Brought
  <2>2. \A a \in RowsOf(p) : Rank("draft") < Rank(a.to_status)
    BY RowIs DEF Rank, UsedStatus
  <2>3. "draft" \in UsedStatus /\ Told("draft") = "created"
    BY DEF UsedStatus, Told
  <2>4. QED
    BY <1>1, <2>1, <2>2, <2>3
<1>2. CASE e.type # "created"
  <2>1. PICK a \in RowsOf(p) : /\ EventType(a.to_status) = e.type
                               /\ a.occurred_at = e.occurred_at
    BY <1>2, HeardIs
  <2>2. a.to_status \in UsedStatus /\ a.to_status # "draft" /\ a \in audit_log
        /\ a.id = p
    BY RowIs
  <2>3. Brought(p, e, a.to_status)
    BY <2>1 DEF Brought
  <2>4. Told(a.to_status) = e.type
    BY <2>1, <2>2 DEF Told
  <2>5. \A b \in RowsOf(p) : e.occurred_at < b.occurred_at =>
          Rank(a.to_status) < Rank(b.to_status)
    BY <2>1, <2>2, RowIs DEF StreamInv, RowsRanked
  <2>6. QED
    BY <2>2, <2>3, <2>4, <2>5
<1>3. QED
  BY <1>1, <1>2

LEMMA LossShows == StreamInv /\ Committed => LossIsVisible
<1> SUFFICES ASSUME StreamInv, Committed, NEW p \in Policies,
                    NEW e \in Heard(p), NEW f \in Heard(p),
                    CloudTime(e) < CloudTime(f)
             PROVE  Linked(e, f) <=>
                      \A a \in RowsOf(p) : \/ a.occurred_at <= e.occurred_at
                                           \/ a.occurred_at >= f.occurred_at
  BY DEF LossIsVisible
<1>1. e.occurred_at \in Nat /\ f.occurred_at \in Nat
      /\ e.occurred_at < f.occurred_at
  BY HeardIs, TimeKeepsOrder
<1>2. PICK s \in UsedStatus :
        /\ Brought(p, e, s) /\ Told(s) = e.type
        /\ \A a \in RowsOf(p) : e.occurred_at < a.occurred_at =>
             Rank(s) < Rank(a.to_status)
  BY BroughtBy
<1>3. PICK b \in RowsOf(p) : /\ EventType(b.to_status) = f.type
                             /\ b.occurred_at = f.occurred_at
  <2>1. CASE f.type # "created"
    BY <2>1, HeardIs
  <2>2. CASE f.type = "created"
    <3>1. \A a \in RowsOf(p) : f.occurred_at < a.occurred_at
      BY <2>2, HeardIs
    <3>2. e.type = "created" => e = f
      BY <2>2, HeardIs DEF StreamInv, AnnouncedOnce
    <3>3. e.type # "created" =>
            \E a \in RowsOf(p) : a.occurred_at = e.occurred_at
      BY HeardIs
    <3>4. QED
      BY <1>1, <3>1, <3>2, <3>3
  <2>3. QED
    BY <2>1, <2>2
<1>4. /\ b.to_status \in UsedStatus /\ b.to_status # "draft"
      /\ b.from_status \in UsedStatus /\ b \in audit_log /\ b.id = p
  BY RowIs
<1>5. ASSUME \A a \in RowsOf(p) : \/ a.occurred_at <= e.occurred_at
                                  \/ a.occurred_at >= f.occurred_at
      PROVE  Linked(e, f)
  <2> DEFINE earlier == {c \in RowsOf(p) : c.occurred_at < b.occurred_at}
  <2>1. \/ earlier = {} /\ b.from_status = "draft"
        \/ \E c \in earlier : /\ c.to_status = b.from_status
                              /\ \A d \in earlier : d.occurred_at <= c.occurred_at
    BY PathByPolicy DEF PathOf, StreamInv, SerialInv
  <2>2. \A c \in earlier : c \in RowsOf(p) /\ c.occurred_at <= e.occurred_at
                           /\ c.occurred_at \in Nat
    BY <1>1, <1>3, <1>5, RowIs
  <2>3. \A c \in RowsOf(p) : c.occurred_at = e.occurred_at => c \in earlier
    BY <1>1, <1>3
  <2> HIDE DEF earlier
  <2>4. b.from_status = s
    <3>1. CASE e.type = "created" /\ s = "draft"
               /\ \A a \in RowsOf(p) : e.occurred_at < a.occurred_at
      <4>1. earlier = {}
        BY <1>1, <2>2, <3>1
      <4>2. QED
        BY <2>1, <3>1, <4>1
    <3>2. CASE \E a \in RowsOf(p) : a.to_status = s /\ a.occurred_at = e.occurred_at
      <4>1. PICK a \in RowsOf(p) : a.to_status = s /\ a.occurred_at = e.occurred_at
        BY <3>2
      <4>2. a \in earlier
        BY <2>3, <4>1
      <4>3. PICK c \in earlier : /\ c.to_status = b.from_status
                                 /\ \A d \in earlier : d.occurred_at <= c.occurred_at
        BY <2>1, <4>2
      <4>4. c.occurred_at = a.occurred_at
        BY <1>1, <2>2, <4>1, <4>2, <4>3
      <4>5. c = a
        BY <2>2, <4>4, RowIs DEF StreamInv, RowsRanked
      <4>6. QED
        BY <4>1, <4>3, <4>5
    <3>3. QED
      BY <1>2, <3>1, <3>2 DEF Brought
  <2>5. PICK edge \in UsedEdges :
          edge.from = b.from_status /\ edge.to = b.to_status
    BY <1>4 DEF StreamInv, RowsUsed
  <2>6. edge \in transitionTable /\ Told(edge.from) = e.type
        /\ EventType(edge.to) = f.type
    BY <1>2, <1>3, <2>4, <2>5 DEF UsedEdges
  <2>7. QED
    BY <2>6 DEF Linked
<1>6. ASSUME Linked(e, f), NEW a \in RowsOf(p),
             ~(a.occurred_at <= e.occurred_at), ~(a.occurred_at >= f.occurred_at)
      PROVE  FALSE
  <2>1. PICK edge \in transitionTable :
          Told(edge.from) = e.type /\ EventType(edge.to) = f.type
    BY <1>6 DEF Linked
  <2>2. edge.from = s /\ edge.to = b.to_status
    <3>1. edge.from \in PolicyStatus /\ edge.to \in PolicyStatus
      BY TableTypes
    <3>2. QED
      BY <1>2, <1>3, <1>4, <2>1, <3>1, TypesTell
  <2>3. Rank(b.to_status) = Rank(s) + 1
    BY <1>4, <2>2, TableRank
  <2>4. a.occurred_at \in Nat /\ a \in audit_log /\ a.id = p
    BY RowIs
  <2>5. e.occurred_at < a.occurred_at /\ a.occurred_at < b.occurred_at
    BY <1>1, <1>3, <1>6, <2>4
  <2>6. Rank(s) < Rank(a.to_status)
    BY <1>2, <2>5
  <2>7. Rank(a.to_status) < Rank(b.to_status)
    BY <1>4, <2>4, <2>5 DEF StreamInv, RowsRanked
  <2>8. QED
    BY <2>3, <2>6, <2>7, RankNat
<1>7. QED
  BY <1>5, <1>6

\* A consumer that has missed nothing finds the status of the policy among its
\* newest events, in whatever order and how often they came.
THEOREM NewestTellsTheStatus == SystemSerialSpec => []NewestTellsStatus
BY NewestTells, StreamInvariance, CommittedAlways, StreamAddsNothing, PTL

\* Of two events of different seconds the later follows the earlier in the
\* transition table if and only if nothing was committed between them.
THEOREM LossIsNoticed == SystemSerialSpec => []LossIsVisible
BY LossShows, StreamInvariance, CommittedAlways, StreamAddsNothing, PTL

==============================================================================
