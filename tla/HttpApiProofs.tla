---------------------------- MODULE HttpApiProofs ----------------------------
(***************************************************************************)
(* Theorems about HttpApi, for any handlers, policies, numbers and fields  *)
(* and any number of requests, in every deployment.                        *)
(*                                                                         *)
(* That a success tells of a write is harder than it looks: a write that   *)
(* puts back exactly what is there would change nothing.  It never does,   *)
(* because no two copies carry the same stamp (StampsFresh).               *)
(***************************************************************************)
EXTENDS HttpApi, PolicyServiceProofs

\* Where a handler holds a copy it has yet to write.
InHand == {"insert", "write", "tx", "updated", "audited"}

\* The stamp of such a copy is on no row and on no other such copy.
StampsFresh ==
  /\ \A p \in Policies : policies[p].updated_at <= now
  /\ \A h \in Handlers : pc[h] \in InHand =>
       /\ \A p \in Policies : policies[p].updated_at # mem[h].updated_at
       /\ \A k \in Handlers : k # h /\ pc[k] \in InHand =>
            mem[k].updated_at # mem[h].updated_at

\* The service works on what was decoded from the request of h.
AsAsked(h) == /\ call[h].fields = request[h].call.fields
              /\ call[h].number = request[h].call.number
              /\ call[h].reason = request[h].call.reason

\* A request that is served has passed the checks, the service works on it, and
\* past its write it has changed the tables.
Serving ==
  \A h \in Handlers :
    /\ request[h] # NoRequest => Admitted(request[h])
    /\ pc[h] # "idle" => AsAsked(h)
    /\ pc[h] = "committed" => wrote[h] /\ Writes(call[h].op)

HttpInv == IInv /\ HttpTypeOK /\ StampsFresh /\ Serving

------------------------------------------------------------------------------
(* Status codes *)

LEMMA Successes ==
  ASSUME NEW c
  PROVE  StatusCode(c, "ok") \in {200, 201, 204}
BY DEF StatusCode, Success

LEMMA Refusals ==
  ASSUME NEW c
  PROVE  /\ c.op # "create" => StatusCode(c, "not_found") = 404
         /\ c.op \notin {"get", "history", "update"} =>
              StatusCode(c, "conflict") = 409
         /\ c.op = "create" => StatusCode(c, "invalid") = 400
         /\ c.op = "update" /\ c.fields \notin Incomplete =>
              StatusCode(c, "invalid") = 400
         /\ c.op = "cancel" => StatusCode(c, "invalid") = 422
         /\ StatusCode(c, "error") = 500
BY DEF StatusCode

LEMMA DocumentCodes ==
  ASSUME NEW h, Document(h)
  PROVE  \E c \in {200, 201, 404, 409} : AnswerWith(h, c)
<1> DEFINE status == policies[request[h].call.id].status
           eligible == status \in {"active", "amended"}
<1>1. \/ AnswerWith(h, 404) \/ AnswerWith(h, 200)
      \/ AnswerWith(h, IF eligible THEN 201 ELSE 409)
  BY DEF Document
<1>2. (IF eligible THEN 201 ELSE 409) \in {201, 409}
  OBVIOUS
<1> HIDE DEF eligible
<1>3. QED
  BY <1>1, <1>2

LEMMA NoCode == 0 \in Code
BY DEF Code

LEMMA CodesTyped ==
  ASSUME NEW c, NEW answer
  PROVE  StatusCode(c, answer) \in Code
BY DEF StatusCode, Success, Code

------------------------------------------------------------------------------
(* The steps of the service, seen from outside *)

\* What a step of h leaves alone.
LEMMA ProgressFrame ==
  ASSUME IInv, NEW h \in Handlers, Progress(h) \/ Fail(h)
  PROVE  /\ pc[h] # "idle" /\ pc'[h] # "called"
         /\ \A k \in Handlers : k # h =>
              pc'[k] = pc[k] /\ call'[k] = call[k] /\ mem'[k] = mem[k]
         /\ pc'[h] # "idle" => /\ call'[h].op = call[h].op
                               /\ call'[h].fields = call[h].fields
                               /\ call'[h].number = call[h].number
                               /\ call'[h].reason = call[h].reason
<1> USE DEF IInv, TypeOK, Location
<1>1. CASE Create(h) \/ StartUpdate(h) \/ StartCancel(h)
  BY <1>1 DEF Create, StartUpdate, StartCancel, Reads, Prepare, Goto
<1>2. CASE StartTransition(h)
  BY <1>2 DEF StartTransition, Reads, Prepare, Goto
<1>3. CASE AnswerAtOnce(h)
  BY <1>3 DEF AnswerAtOnce, ReadMissing, Get, RefuseArguments, RefuseStatus,
     Reads, Finish, Goto
<1>4. CASE Insert(h)
  <2>1. PICK p \in Policies : call' = [call EXCEPT ![h].id = p]
    BY <1>4 DEF Insert
  <2>2. call[h] \in Call
    OBVIOUS
  <2>3. /\ call'[h].op = call[h].op /\ call'[h].fields = call[h].fields
        /\ call'[h].number = call[h].number /\ call'[h].reason = call[h].reason
    BY <2>1, <2>2 DEF Call
  <2>4. QED
    BY <1>4, <2>1, <2>3 DEF Insert, Goto
<1>5. CASE InsertConflict(h) \/ Respond(h) \/ Fail(h)
  BY <1>5 DEF InsertConflict, Respond, Fail, Finish, Goto
<1>6. CASE WriteRow(h) \/ TxUpdate(h) \/ TxAudit(h) \/ TxCommit(h)
  BY <1>6 DEF WriteRow, TxUpdate, TxAudit, TxCommit, Goto
<1>7. QED
  BY <1>1, <1>2, <1>3, <1>4, <1>5, <1>6 DEF Progress, RefusedByTable

\* The three statements that change a row put the handler's own stamp on it.
LEMMA WritesStamp ==
  ASSUME IInv, NEW h \in Handlers, Insert(h) \/ WriteRow(h) \/ TxCommit(h)
  PROVE  /\ pc[h] \in {"insert", "write", "audited"} /\ pc'[h] = "committed"
         /\ now' = now /\ mem' = mem
         /\ \E p \in Policies :
              /\ policies'[p].updated_at = mem[h].updated_at
              /\ \A q \in Policies : q # p => policies'[q] = policies[q]
<1> USE DEF IInv, TypeOK
<1>1. mem[h] \in Policy /\ \A p \in Policies : policies[p] \in Policy
  OBVIOUS
<1>2. CASE Insert(h)
  BY <1>2 DEF Insert, Goto
<1>3. CASE WriteRow(h)
  <2>1. call[h].id \in Policies
    BY <1>3 DEF WriteRow, HandlerOK, WriteReady
  <2>2. QED
    BY <1>3, <2>1 DEF WriteRow, Goto
<1>4. CASE TxCommit(h)
  <2>1. call[h].id \in Policies
    BY <1>4 DEF TxCommit, HandlerOK, TransitionReady
  <2>2. policies[call[h].id] \in Policy
    BY <2>1
  <2>3. policies'[call[h].id].updated_at = mem[h].updated_at
    BY <1>4, <2>1, <2>2 DEF TxCommit, SetStatus, Policy
  <2>4. \A q \in Policies : q # call[h].id => policies'[q] = policies[q]
    BY <1>4, <2>1 DEF TxCommit, SetStatus
  <2>5. QED
    BY <1>4, <2>1, <2>3, <2>4 DEF TxCommit, Goto
<1>5. QED
  BY <1>2, <1>3, <1>4

\* All other steps leave the rows alone and do not arrive at "committed".
LEMMA OthersDoNotWrite ==
  ASSUME IInv, NEW h \in Handlers, Progress(h) \/ Fail(h),
         ~(Insert(h) \/ WriteRow(h) \/ TxCommit(h))
  PROVE  policies' = policies /\ pc'[h] # "committed"
<1> USE DEF IInv, TypeOK, tables
<1>1. CASE Create(h) \/ StartUpdate(h) \/ StartCancel(h)
  BY <1>1 DEF Create, StartUpdate, StartCancel, Prepare, Goto
<1>2. CASE StartTransition(h)
  BY <1>2 DEF StartTransition, Prepare, Goto
<1>3. CASE AnswerAtOnce(h)
  BY <1>3 DEF AnswerAtOnce, ReadMissing, Get, RefuseArguments, RefuseStatus,
     Finish, Goto
<1>4. CASE InsertConflict(h) \/ Respond(h) \/ Fail(h)
  BY <1>4 DEF InsertConflict, Respond, Fail, Finish, Goto
<1>5. CASE TxUpdate(h) \/ TxAudit(h)
  BY <1>5 DEF TxUpdate, TxAudit, Goto
<1>6. QED
  BY <1>1, <1>2, <1>3, <1>4, <1>5 DEF Progress, RefusedByTable

\* A step that makes no new copy keeps the stamps apart.
LEMMA FreshKept ==
  ASSUME IInv, StampsFresh, NEW h \in Handlers, now' = now,
         \A k \in Handlers : k # h => pc'[k] = pc[k] /\ mem'[k] = mem[k],
         pc'[h] \in InHand => pc[h] \in InHand /\ mem'[h] = mem[h],
         \A p \in Policies :
           \/ policies'[p].updated_at = policies[p].updated_at
           \/ /\ policies'[p].updated_at = mem[h].updated_at
              /\ pc[h] \in InHand /\ pc'[h] \notin InHand
  PROVE  StampsFresh'
<1>1. mem[h].updated_at <= now
  BY DEF IInv, StampsPast
<1>2. ASSUME NEW p \in Policies
      PROVE  policies'[p].updated_at <= now'
  <2>1. policies[p].updated_at <= now
    BY DEF StampsFresh
  <2>2. policies'[p].updated_at <= now
    BY <1>1, <2>1, Zenon
  <2>3. QED
    BY <2>2, Zenon
<1>3. ASSUME NEW k \in Handlers, pc'[k] \in InHand
      PROVE  pc[k] \in InHand /\ mem'[k] = mem[k]
  BY <1>3, Zenon
<1>4. ASSUME NEW k \in Handlers, pc'[k] \in InHand, NEW p \in Policies
      PROVE  policies'[p].updated_at # mem'[k].updated_at
  <2>1. pc[k] \in InHand /\ mem'[k] = mem[k]
    BY <1>3, <1>4
  <2>2. policies[p].updated_at # mem[k].updated_at
    BY <2>1 DEF StampsFresh
  <2>3. pc[h] \in InHand /\ k # h => mem[h].updated_at # mem[k].updated_at
    BY <2>1 DEF StampsFresh
  <2>4. QED
    BY <1>4, <2>1, <2>2, <2>3, Zenon
<1>5. ASSUME NEW k \in Handlers, pc'[k] \in InHand,
             NEW l \in Handlers, l # k, pc'[l] \in InHand
      PROVE  mem'[l].updated_at # mem'[k].updated_at
  <2>1. /\ pc[k] \in InHand /\ mem'[k] = mem[k]
        /\ pc[l] \in InHand /\ mem'[l] = mem[l]
    BY <1>3, <1>5
  <2>2. QED
    BY <1>5, <2>1 DEF StampsFresh
<1>6. QED
  BY <1>2, <1>4, <1>5 DEF StampsFresh

\* The steps that make a copy stamp it with a new reading of the clock.
LEMMA FreshPrepared ==
  ASSUME IInv, StampsFresh, NEW h \in Handlers, NEW copy \in Policy, NEW to,
         Prepare(h, copy, to)
  PROVE  StampsFresh'
<1>1. /\ now \in Nat /\ now' = now + 1 /\ policies' = policies
      /\ mem'[h].updated_at = now + 1
      /\ \A k \in Handlers : k # h => pc'[k] = pc[k] /\ mem'[k] = mem[k]
  BY DEF Prepare, Goto, tables, IInv, TypeOK, Policy, Time
<1>2. /\ \A k \in Handlers : mem[k].updated_at \in Nat /\ mem[k].updated_at <= now
      /\ \A p \in Policies : policies[p].updated_at \in Nat
                             /\ policies[p].updated_at <= now
  BY DEF IInv, TypeOK, StampsPast, StampsFresh, Policy, Time
<1>3. \A p \in Policies : policies'[p].updated_at <= now'
  BY <1>1, <1>2
<1>4. ASSUME NEW k \in Handlers, pc'[k] \in InHand, NEW p \in Policies
      PROVE  policies'[p].updated_at # mem'[k].updated_at
  <2>1. CASE k = h
    BY <1>1, <1>2, <2>1
  <2>2. CASE k # h
    BY <1>1, <1>4, <2>2 DEF StampsFresh
  <2>3. QED
    BY <2>1, <2>2
<1>5. ASSUME NEW k \in Handlers, pc'[k] \in InHand,
             NEW l \in Handlers, l # k, pc'[l] \in InHand
      PROVE  mem'[l].updated_at # mem'[k].updated_at
  <2>1. CASE k = h
    BY <1>1, <1>2, <1>5, <2>1
  <2>2. CASE l = h
    BY <1>1, <1>2, <1>5, <2>2
  <2>3. CASE k # h /\ l # h
    BY <1>1, <1>5, <2>3 DEF StampsFresh
  <2>4. QED
    BY <2>1, <2>2, <2>3
<1>6. QED
  BY <1>3, <1>4, <1>5 DEF StampsFresh

\* Every step of the service keeps the stamps apart.
LEMMA FreshStep ==
  ASSUME IInv, StampsFresh, NEW h \in Handlers, Progress(h) \/ Fail(h)
  PROVE  StampsFresh'
<1>1. CASE Create(h)
  <2> DEFINE copy == [ZeroPolicy EXCEPT !.status = "draft",
                                        !.number = call[h].number,
                                        !.fields = call[h].fields]
  <2>1. call[h] \in Call
    BY DEF IInv, TypeOK
  <2>2. copy \in Policy
    BY <1>1, <2>1 DEF Create, ZeroPolicy, Policy, Call, Time, PolicyStatus
  <2>3. Prepare(h, copy, "insert")
    BY <1>1 DEF Create
  <2> HIDE DEF copy
  <2>4. QED
    BY <2>2, <2>3, FreshPrepared
<1>2. CASE StartUpdate(h)
  <2> DEFINE copy == [Row(h) EXCEPT !.fields = call[h].fields]
  <2>1. copy \in Policy
    BY <1>2, ReadsId, RowEdited DEF StartUpdate
  <2>2. Prepare(h, copy, "write")
    BY <1>2 DEF StartUpdate
  <2> HIDE DEF copy
  <2>3. QED
    BY <2>1, <2>2, FreshPrepared
<1>3. CASE StartCancel(h)
  <2> DEFINE copy == [Row(h) EXCEPT !.status = "terminated"]
  <2>1. copy \in Policy
    BY <1>3, ReadsId, RowMoved DEF StartCancel, PolicyStatus
  <2>2. Prepare(h, copy, "write")
    BY <1>3 DEF StartCancel
  <2> HIDE DEF copy
  <2>3. QED
    BY <2>1, <2>2, FreshPrepared
<1>4. CASE StartTransition(h)
  <2>1. PICK edge \in Transition(Row(h).status, call[h].op) :
          Prepare(h, [Row(h) EXCEPT !.status = edge.to], "tx")
    BY <1>4 DEF StartTransition
  <2> DEFINE copy == [Row(h) EXCEPT !.status = edge.to]
  <2>2. edge.to \in PolicyStatus
    BY <2>1, TableTypes DEF Transition
  <2>3. copy \in Policy
    BY <1>4, <2>2, ReadsId, RowMoved DEF StartTransition
  <2>4. Prepare(h, copy, "tx")
    BY <2>1
  <2> HIDE DEF copy
  <2>5. QED
    BY <2>3, <2>4, FreshPrepared
<1>5. CASE Insert(h) \/ WriteRow(h) \/ TxCommit(h)
  <2>1. /\ pc[h] \in InHand /\ pc'[h] \notin InHand /\ now' = now /\ mem' = mem
        /\ \A p \in Policies :
             \/ policies'[p].updated_at = policies[p].updated_at
             \/ policies'[p].updated_at = mem[h].updated_at
    BY <1>5, WritesStamp DEF InHand
  <2>2. \A k \in Handlers : k # h => pc'[k] = pc[k] /\ mem'[k] = mem[k]
    BY ProgressFrame
  <2>3. QED
    BY <2>1, <2>2, FreshKept
<1>6. CASE AnswerAtOnce(h) \/ InsertConflict(h) \/ Respond(h) \/ Fail(h)
  <2>1. now' = now /\ policies' = policies
    BY <1>6 DEF AnswerAtOnce, InsertConflict, Respond, Fail, tables
  <2>2. pc'[h] \notin InHand
    BY <1>6 DEF AnswerAtOnce, ReadMissing, Get, RefuseArguments, RefuseStatus,
       InsertConflict, Respond, Fail, Finish, Goto, IInv, TypeOK, InHand
  <2>3. \A k \in Handlers : k # h => pc'[k] = pc[k] /\ mem'[k] = mem[k]
    BY ProgressFrame
  <2>4. QED
    BY <2>1, <2>2, <2>3, FreshKept
<1>7. CASE TxUpdate(h) \/ TxAudit(h)
  <2>1. now' = now /\ policies' = policies /\ mem' = mem /\ pc[h] \in InHand
    BY <1>7 DEF TxUpdate, TxAudit, tables, InHand
  <2>2. \A k \in Handlers : k # h => pc'[k] = pc[k] /\ mem'[k] = mem[k]
    BY ProgressFrame
  <2>3. QED
    BY <2>1, <2>2, FreshKept
<1>8. QED
  BY <1>1, <1>2, <1>3, <1>4, <1>5, <1>6, <1>7 DEF Progress, RefusedByTable

\* A request that is received has no copy yet, one that is finished has none left.
LEMMA FreshOutside ==
  ASSUME IInv, StampsFresh, NEW h \in Handlers, policies' = policies, now' = now,
         \A k \in Handlers : k # h => pc'[k] = pc[k] /\ mem'[k] = mem[k],
         pc'[h] \notin InHand
  PROVE  StampsFresh'
BY FreshKept

------------------------------------------------------------------------------
(* The state of the API through a step *)

\* The service answers what it has written.
LEMMA CommittedAnswers ==
  ASSUME IInv, NEW h \in Handlers, pc[h] = "committed", Progress(h)
  PROVE  Respond(h) /\ pc'[h] = "idle"
<1>1. Respond(h)
  BY DEF Progress, RefusedByTable, Create, StartUpdate, StartCancel,
     StartTransition, Reads, AnswerAtOnce, ReadMissing, Get, RefuseArguments,
     RefuseStatus, Insert, InsertConflict, WriteRow, TxUpdate, TxAudit, TxCommit
<1>2. QED
  BY <1>1 DEF Respond, Finish, Goto, IInv, TypeOK

\* The checks a request passed stay passed: the deployment does not change.
LEMMA AdmittedStable ==
  ASSUME config' = config, NEW k, request'[k] = request[k]
  PROVE  Admitted(request[k])' = Admitted(request[k])
BY DEF Admitted, Authenticated, Registered, Permitted, Decoded, Reasoned

\* What a goroutine has answered is forgotten.
LEMMA AnswerKeeps ==
  ASSUME HttpInv, NEW h \in Handlers, NEW c \in Code, AnswerWith(h, c),
         pc'[h] = "idle",
         \A k \in Handlers : k # h => pc'[k] = pc[k] /\ call'[k] = call[k],
         config' = config, fault' \in [Handlers -> BOOLEAN],
         others' \in 0 .. MaxOthers
  PROVE  HttpTypeOK' /\ Serving'
<1>1. /\ NoRequest \in [route : Ops \cup {"", "list"} \cup DocumentRoutes,
                         token : Token, garbled : BOOLEAN, call : Call]
      /\ NoRequest.route \notin Ops
  BY HttpAssumption DEF NoRequest, NoToken, Token, NoCall, Call, Routed
<1>2. /\ request' \in
           [Handlers -> [route : Ops \cup {"", "list"} \cup DocumentRoutes,
                         token : Token, garbled : BOOLEAN, call : Call]]
      /\ request'[h] = NoRequest /\ ~wrote'[h]
      /\ code' \in [Handlers -> Code] /\ wrote' \in [Handlers -> BOOLEAN]
      /\ \A k \in Handlers : k # h => request'[k] = request[k] /\ wrote'[k] = wrote[k]
  BY <1>1 DEF AnswerWith, HttpInv, HttpTypeOK
<1>3. HttpTypeOK'
  <2>1. \A k \in Handlers :
          /\ pc'[k] # "idle" <=> request'[k].route \in Ops
          /\ pc'[k] # "idle" => call'[k].op = request'[k].route
          /\ wrote'[k] => pc'[k] = "committed"
    <3> TAKE k \in Handlers
    <3>1. CASE k = h
      BY <1>1, <1>2, <3>1
    <3>2. CASE k # h
      BY <1>2, <3>2 DEF HttpInv, HttpTypeOK
    <3>3. QED
      BY <3>1, <3>2
  <2>2. config' \in [auth : BOOLEAN, database : BOOLEAN, documents : BOOLEAN]
    BY DEF HttpInv, HttpTypeOK
  <2>3. QED
    BY <1>2, <2>1, <2>2 DEF HttpTypeOK
<1>4. Serving'
  <2> SUFFICES ASSUME NEW k \in Handlers
               PROVE  /\ request'[k] # NoRequest => Admitted(request[k])'
                      /\ pc'[k] # "idle" => AsAsked(k)'
                      /\ pc'[k] = "committed" =>
                           wrote'[k] /\ Writes(call'[k].op)
    BY DEF Serving, Writes
  <2>1. CASE k = h
    BY <1>2, <2>1
  <2>2. CASE k # h
    BY <1>2, <2>2, AdmittedStable DEF HttpInv, Serving, AsAsked
  <2>3. QED
    BY <2>1, <2>2
<1>5. QED
  BY <1>3, <1>4

\* Between two statements of the service, what is known of the request follows
\* the tables: this is where the stamps matter.
LEMMA CarryKeeps ==
  ASSUME HttpInv, NEW h \in Handlers, Progress(h), pc'[h] # "idle", Carry(h),
         UNCHANGED <<config, fault, others>>
  PROVE  HttpTypeOK' /\ Serving'
<1>1. /\ pc[h] # "idle" /\ pc[h] # "committed" /\ ~wrote[h]
      /\ call'[h].op = call[h].op /\ call'[h].fields = call[h].fields
      /\ call'[h].number = call[h].number /\ call'[h].reason = call[h].reason
      /\ \A k \in Handlers : k # h => pc'[k] = pc[k] /\ call'[k] = call[k]
  BY ProgressFrame, CommittedAnswers DEF HttpInv, HttpTypeOK
<1>2. /\ UNCHANGED <<request, code, config, fault, others>>
      /\ wrote' \in [Handlers -> BOOLEAN]
      /\ wrote'[h] <=> policies' # policies
      /\ \A k \in Handlers : k # h => wrote'[k] = wrote[k]
  BY <1>1 DEF Carry, HttpInv, HttpTypeOK
<1>3. wrote'[h] => pc'[h] = "committed"
  BY <1>2, OthersDoNotWrite, WritesStamp DEF HttpInv
<1>4. pc'[h] = "committed" => wrote'[h] /\ Writes(call'[h].op)
  <2> SUFFICES ASSUME pc'[h] = "committed"
               PROVE  wrote'[h] /\ Writes(call[h].op)
    BY <1>1 DEF Writes
  <2>1. Insert(h) \/ WriteRow(h) \/ TxCommit(h)
    BY OthersDoNotWrite DEF HttpInv
  <2>2. pc[h] \in {"insert", "write", "audited"}
    BY <2>1, WritesStamp DEF HttpInv
  <2>3. PICK p \in Policies : policies'[p].updated_at = mem[h].updated_at
    BY <2>1, WritesStamp DEF HttpInv
  <2>4. policies[p].updated_at # mem[h].updated_at
    BY <2>2 DEF HttpInv, StampsFresh, InHand
  <2>5. wrote'[h]
    BY <1>2, <2>3, <2>4
  <2>6. call[h].op \in {"create", "update", "delete"} \cup TransitionOps
    BY <2>2 DEF HttpInv, IInv, HandlerOK, WriteReady
  <2>7. call[h].op \in Routed
    BY <1>1, HttpAssumption DEF HttpInv, HttpTypeOK
  <2>8. QED
    BY <2>5, <2>6, <2>7 DEF Writes, TransitionOps, Routed
<1>5. HttpTypeOK'
  <2>1. \A k \in Handlers :
          /\ pc'[k] # "idle" <=> request'[k].route \in Ops
          /\ pc'[k] # "idle" => call'[k].op = request'[k].route
          /\ wrote'[k] => pc'[k] = "committed"
    <3> TAKE k \in Handlers
    <3>1. CASE k = h
      BY <1>1, <1>2, <1>3, <3>1 DEF HttpInv, HttpTypeOK
    <3>2. CASE k # h
      BY <1>1, <1>2, <3>2 DEF HttpInv, HttpTypeOK
    <3>3. QED
      BY <3>1, <3>2
  <2>2. QED
    BY <1>2, <2>1 DEF HttpInv, HttpTypeOK
<1>6. Serving'
  <2> SUFFICES ASSUME NEW k \in Handlers
               PROVE  /\ request'[k] # NoRequest => Admitted(request[k])'
                      /\ pc'[k] # "idle" => AsAsked(k)'
                      /\ pc'[k] = "committed" =>
                           wrote'[k] /\ Writes(call'[k].op)
    BY DEF Serving, Writes
  <2>1. request'[k] # NoRequest => Admitted(request[k])'
    BY <1>2, AdmittedStable DEF HttpInv, Serving
  <2>2. CASE k = h
    BY <1>1, <1>2, <1>4, <2>1, <2>2 DEF HttpInv, Serving, AsAsked
  <2>3. CASE k # h
    BY <1>1, <1>2, <2>1, <2>3 DEF HttpInv, Serving, AsAsked
  <2>4. QED
    BY <2>2, <2>3
<1>7. QED
  BY <1>5, <1>6

LEMMA OthersCounted ==
  ASSUME HttpTypeOK, CountOther
  PROVE  others' \in 0 .. MaxOthers
<1>1. others \in 0 .. MaxOthers /\ others < MaxOthers /\ others' = others + 1
  BY DEF HttpTypeOK, CountOther
<1>2. MaxOthers \in Nat
  BY HttpAssumption
<1>3. QED
  BY <1>1, <1>2

\* Steps that leave the service and the requests in service alone.
LEMMA UnservedKeeps ==
  ASSUME HttpInv, NEW h \in Handlers, NEW c \in Code, CountOther,
         AnswerUnserved(h, c)
  PROVE  HttpTypeOK' /\ Serving'
<1>1. UNCHANGED <<pc, call, config, request, wrote>>
  BY DEF AnswerUnserved, vars
<1>2. code' \in [Handlers -> Code] /\ fault' \in [Handlers -> BOOLEAN]
  BY DEF AnswerUnserved, HttpInv, HttpTypeOK
<1>3. others' \in 0 .. MaxOthers
  BY OthersCounted DEF HttpInv
<1>4. HttpTypeOK'
  BY <1>1, <1>2, <1>3 DEF HttpInv, HttpTypeOK
<1>5. \A r : Admitted(r)' = Admitted(r)
  BY <1>1 DEF Admitted, Authenticated, Registered, Permitted, Decoded, Reasoned
<1>6. Serving'
  BY <1>1, <1>5 DEF HttpInv, Serving, AsAsked, Writes
<1>7. QED
  BY <1>4, <1>6

\* A request enters service only when it passes every check.
LEMMA AdmitKeeps ==
  ASSUME HttpInv, NEW h \in Handlers,
         NEW r \in [route : Ops \cup {"", "list"} \cup DocumentRoutes,
                    token : Token, garbled : BOOLEAN, call : Call],
         Admit(h, r), others' \in 0 .. MaxOthers,
         pc'[h] # "committed",
         pc'[h] # "idle" <=> r.route \in Ops,
         pc'[h] # "idle" => /\ call'[h].op = r.route
                            /\ call'[h].fields = r.call.fields
                            /\ call'[h].number = r.call.number
                            /\ call'[h].reason = r.call.reason,
         \A k \in Handlers : k # h => pc'[k] = pc[k] /\ call'[k] = call[k]
  PROVE  HttpTypeOK' /\ Serving'
<1>1. /\ request' \in
           [Handlers -> [route : Ops \cup {"", "list"} \cup DocumentRoutes,
                         token : Token, garbled : BOOLEAN, call : Call]]
      /\ request'[h] = r /\ Admitted(r) /\ pc[h] = "idle"
      /\ \A k \in Handlers : k # h => request'[k] = request[k]
      /\ config' = config /\ wrote' = wrote /\ ~wrote[h]
      /\ fault' \in [Handlers -> BOOLEAN]
  BY DEF Admit, Free, HttpInv, HttpTypeOK
<1>2. code' \in [Handlers -> Code]
  <2>1. 0 \in Code
    BY NoCode
  <2>2. code \in [Handlers -> Code]
    BY DEF HttpInv, HttpTypeOK
  <2>3. code' = [code EXCEPT ![h] = 0]
    BY DEF Admit
  <2>4. QED
    BY <2>1, <2>2, <2>3
<1>3. HttpTypeOK'
  <2>1. \A k \in Handlers :
          /\ pc'[k] # "idle" <=> request'[k].route \in Ops
          /\ pc'[k] # "idle" => call'[k].op = request'[k].route
          /\ wrote'[k] => pc'[k] = "committed"
    <3> TAKE k \in Handlers
    <3>1. CASE k = h
      BY <1>1, <3>1
    <3>2. CASE k # h
      BY <1>1, <3>2 DEF HttpInv, HttpTypeOK
    <3>3. QED
      BY <3>1, <3>2
  <2>2. QED
    BY <1>1, <1>2, <2>1 DEF HttpInv, HttpTypeOK
<1>4. Serving'
  <2> SUFFICES ASSUME NEW k \in Handlers
               PROVE  /\ request'[k] # NoRequest => Admitted(request[k])'
                      /\ pc'[k] # "idle" => AsAsked(k)'
                      /\ pc'[k] = "committed" =>
                           wrote'[k] /\ Writes(call'[k].op)
    BY DEF Serving, Writes
  <2>1. CASE k = h
    BY <1>1, <2>1 DEF AsAsked, Admitted, Authenticated, Registered, Permitted,
       Decoded, Reasoned
  <2>2. CASE k # h
    BY <1>1, <2>2, AdmittedStable DEF HttpInv, Serving, AsAsked
  <2>3. QED
    BY <2>1, <2>2
<1>5. QED
  BY <1>3, <1>4

------------------------------------------------------------------------------
(* Every step keeps HttpInv *)

LEMMA InitHttpInv == HttpInit => HttpInv
<1> SUFFICES ASSUME HttpInit PROVE HttpInv
  OBVIOUS
<1>1. IInv
  BY InitIInv DEF HttpInit
<1>2. HttpTypeOK
  <2>1. /\ NoRequest \in [route : Ops \cup {"", "list"} \cup DocumentRoutes,
                           token : Token, garbled : BOOLEAN, call : Call]
        /\ NoRequest.route \notin Ops
    BY HttpAssumption DEF NoRequest, NoToken, Token, NoCall, Call, Routed
  <2>2. 0 \in 0 .. MaxOthers
    BY HttpAssumption
  <2>3. 0 \in Code
    BY NoCode
  <2>4. QED
    BY <2>1, <2>2, <2>3 DEF HttpInit, Init, HttpTypeOK
<1>3. StampsFresh
  <2>1. /\ \A p \in Policies : policies[p].updated_at = 0
        /\ now = 0 /\ \A h \in Handlers : pc[h] \notin InHand
    BY DEF HttpInit, Init, ZeroPolicy, InHand
  <2>2. QED
    BY <2>1 DEF StampsFresh
<1>4. Serving
  BY DEF HttpInit, Init, Serving
<1>5. QED
  BY <1>1, <1>2, <1>3, <1>4 DEF HttpInv

LEMMA TokensPresented == \A t \in Presented : t \in Token
<1>1. NoToken \in Token
  BY DEF Token, NoToken
<1>2. QED
  BY <1>1 DEF Presented

LEMMA OperateKeeps ==
  ASSUME HttpInv, NEW h \in Handlers, Operate(h)
  PROVE  HttpInv'
<1>1. PICK t \in Presented, g \in BOOLEAN :
        Admit(h, [route |-> call'[h].op, token |-> t, garbled |-> g,
                  call |-> call'[h]])
  BY DEF Operate
<1>2. PICK c \in Request : call' = [call EXCEPT ![h] = c]
  BY DEF Operate, Receive
<1>3. /\ pc'[h] = "called" /\ call'[h] = c
      /\ \A k \in Handlers : k # h => /\ pc'[k] = pc[k] /\ call'[k] = call[k]
                                      /\ mem'[k] = mem[k]
      /\ policies' = policies /\ now' = now
  BY <1>2 DEF Operate, Receive, Goto, tables, HttpInv, IInv, TypeOK
<1>4. c \in Call /\ c.op \in Ops
  BY RequestIsCall DEF Request
<1> DEFINE r == [route |-> c.op, token |-> t, garbled |-> g, call |-> c]
<1>5. r \in [route : Ops \cup {"", "list"} \cup DocumentRoutes,
             token : Token, garbled : BOOLEAN, call : Call]
  BY <1>4, TokensPresented
<1>6. Admit(h, r)
  BY <1>1, <1>3
<1>7. /\ r.route = c.op /\ r.call.fields = c.fields
      /\ r.call.number = c.number /\ r.call.reason = c.reason
  OBVIOUS
<1> HIDE DEF r
<1>8. others' \in 0 .. MaxOthers
  BY DEF Operate, HttpInv, HttpTypeOK
<1>9. HttpTypeOK' /\ Serving'
  BY <1>3, <1>4, <1>5, <1>6, <1>7, <1>8, AdmitKeeps
<1>10. IInv'
  BY NextIInv DEF Operate, Next, HttpInv
<1>11. StampsFresh'
  BY <1>3, FreshOutside DEF InHand, HttpInv
<1>12. QED
  BY <1>9, <1>10, <1>11 DEF HttpInv

\* Steps that leave the service alone keep what is about the service.
LEMMA ServiceAlone ==
  ASSUME HttpInv, UNCHANGED vars
  PROVE  IInv' /\ StampsFresh'
<1>1. IInv'
  BY NextIInv DEF HttpInv
<1>2. UNCHANGED <<policies, pc, mem, now>>
  BY DEF vars
<1>3. StampsFresh'
  BY <1>2 DEF HttpInv, StampsFresh
<1>4. QED
  BY <1>1, <1>3

LEMMA QueryKeeps ==
  ASSUME HttpInv, NEW h \in Handlers, Query(h)
  PROVE  HttpInv'
<1>1. PICK r \in Queries(Presented) : Admit(h, r)
  BY DEF Query
<1>2. /\ r \in [route : Ops \cup {"", "list"} \cup DocumentRoutes,
               token : Token, garbled : BOOLEAN, call : Call]
      /\ r.route \in {"list"} \cup DocumentRoutes
  <2>1. PICK route \in {"list"} \cup DocumentRoutes, t \in Presented,
             g \in BOOLEAN, p \in Policies :
          r = [route |-> route, token |-> t, garbled |-> g,
               call |-> [NoCall EXCEPT !.id = p]]
    BY <1>1 DEF Queries
  <2>2. [NoCall EXCEPT !.id = p] \in Call
    BY DEF NoCall, Call
  <2>3. t \in Token
    BY TokensPresented
  <2>4. QED
    BY <2>1, <2>2, <2>3
<1>3. r.route \notin Ops
  BY <1>2, HttpAssumption DEF DocumentRoutes, Routed
<1>4. UNCHANGED <<pc, call>> /\ pc[h] = "idle"
  BY <1>1 DEF Query, vars, Admit, Free
<1>5. others' \in 0 .. MaxOthers
  BY OthersCounted DEF Query, HttpInv
<1>6. HttpTypeOK' /\ Serving'
  BY <1>1, <1>2, <1>3, <1>4, <1>5, AdmitKeeps
<1>7. QED
  BY <1>6, ServiceAlone DEF Query, HttpInv

\* The queries answer, well or not.
LEMMA QueryAnswers ==
  ASSUME HttpInv, NEW h \in Handlers, List(h) \/ Document(h) \/ QueryFails(h)
  PROVE  HttpInv'
<1>1. /\ pc[h] = "idle" /\ UNCHANGED vars
      /\ UNCHANGED <<config, others>> /\ fault' \in [Handlers -> BOOLEAN]
  BY HttpAssumption
  DEF List, Document, QueryFails, DocumentRoutes, Routed, HttpInv, HttpTypeOK
<1>2. PICK c \in Code : AnswerWith(h, c)
  <2>1. \A c \in {0, 200, 201, 404, 409, 500} : c \in Code
    BY DEF Code
  <2>2. CASE List(h)
    BY <2>1, <2>2 DEF List
  <2>3. CASE Document(h)
    BY <2>1, <2>3, DocumentCodes
  <2>4. CASE QueryFails(h)
    BY <2>1, <2>4 DEF QueryFails
  <2>5. QED
    BY <2>2, <2>3, <2>4
<1>3. UNCHANGED <<pc, call>> /\ others' \in 0 .. MaxOthers
  BY <1>1 DEF vars, HttpInv, HttpTypeOK
<1>4. HttpTypeOK' /\ Serving'
  BY <1>1, <1>2, <1>3, AnswerKeeps
<1>5. QED
  BY <1>1, <1>4, ServiceAlone DEF HttpInv

LEMMA NullCreateKeeps ==
  ASSUME HttpInv, NEW h \in Handlers, NullCreate(h)
  PROVE  HttpInv'
<1>1. /\ Finish(h, "ok") /\ UNCHANGED <<events, now, received>>
      /\ UNCHANGED <<policies, audit_log, lock>>
      /\ UNCHANGED <<config, fault, others>>
  BY DEF NullCreate, tables
<1>2. /\ pc'[h] = "idle"
      /\ \A k \in Handlers : k # h => /\ pc'[k] = pc[k] /\ call'[k] = call[k]
                                      /\ mem'[k] = mem[k]
  BY <1>1 DEF Finish, Goto, HttpInv, IInv, TypeOK
<1>3. IInv'
  BY <1>1, QuietAnswer DEF Answer, HttpInv, IInv, TypeOK, LockType
<1>4. StampsFresh'
  BY <1>1, <1>2, FreshOutside DEF InHand, HttpInv
<1>5. HttpTypeOK' /\ Serving'
  BY <1>1, <1>2, CodesTyped, AnswerKeeps DEF NullCreate, HttpInv, HttpTypeOK
<1>6. QED
  BY <1>3, <1>4, <1>5 DEF HttpInv

LEMMA ServiceKeeps ==
  ASSUME HttpInv, NEW h \in Handlers, ServiceStep(h) \/ ServiceFails(h)
  PROVE  HttpInv'
<1>1. Progress(h) \/ Fail(h)
  BY DEF ServiceStep, ServiceFails
<1>2. IInv'
  BY <1>1, NextIInv DEF Next, HttpInv
<1>3. StampsFresh'
  BY <1>1, FreshStep DEF HttpInv
<1>4. \A k \in Handlers : k # h => pc'[k] = pc[k] /\ call'[k] = call[k]
  BY <1>1, ProgressFrame DEF HttpInv
<1>5. HttpTypeOK' /\ Serving'
  <2>1. CASE ServiceStep(h) /\ pc'[h] = "idle"
    BY <1>4, <2>1, CodesTyped, AnswerKeeps DEF ServiceStep, HttpInv, HttpTypeOK
  <2>2. CASE ServiceStep(h) /\ pc'[h] # "idle"
    BY <2>2, CarryKeeps DEF ServiceStep
  <2>3. CASE ServiceFails(h)
    <3>1. pc'[h] = "idle"
      BY <2>3 DEF ServiceFails, Fail, Finish, Goto, HttpInv, IInv, TypeOK
    <3>2. PICK c \in Code : AnswerWith(h, c)
      BY <2>3, CodesTyped DEF ServiceFails, Code
    <3>3. /\ config' = config /\ fault' \in [Handlers -> BOOLEAN]
          /\ others' \in 0 .. MaxOthers
      BY <2>3 DEF ServiceFails, HttpInv, HttpTypeOK
    <3>4. QED
      BY <1>4, <3>1, <3>2, <3>3, AnswerKeeps
  <2>4. QED
    BY <2>1, <2>2, <2>3
<1>6. QED
  BY <1>2, <1>3, <1>5 DEF HttpInv

LEMMA NextHttpInv == HttpInv /\ [HttpNext]_httpVars => HttpInv'
<1> SUFFICES ASSUME HttpInv, [HttpNext]_httpVars PROVE HttpInv'
  OBVIOUS
<1>1. CASE UNCHANGED httpVars
  <2>1. UNCHANGED vars /\ UNCHANGED <<config, request, code, wrote, fault, others>>
    BY <1>1 DEF httpVars
  <2>2. UNCHANGED <<pc, call>>
    BY <2>1 DEF vars
  <2>3. HttpTypeOK'
    BY <2>1, <2>2 DEF HttpInv, HttpTypeOK
  <2>4. \A r : Admitted(r)' = Admitted(r)
    BY <2>1 DEF Admitted, Authenticated, Registered, Permitted, Decoded,
       Reasoned
  <2>5. Serving'
    BY <2>1, <2>2, <2>4 DEF HttpInv, Serving, AsAsked, Writes
  <2>6. QED
    BY <2>1, <2>3, <2>5, ServiceAlone DEF HttpInv
<1>2. CASE HttpNext
  <2> PICK h \in Handlers :
        \/ Healthz(h) \/ Refuse(h) \/ Operate(h) \/ Query(h)
        \/ ServiceStep(h) \/ NullCreate(h) \/ ServiceFails(h)
        \/ List(h) \/ Document(h) \/ QueryFails(h)
    BY <1>2 DEF HttpNext
  <2>1. CASE Healthz(h) \/ Refuse(h)
    <3>1. PICK c \in Code : CountOther /\ AnswerUnserved(h, c)
      BY <2>1 DEF Healthz, Refuse, Code
    <3>2. HttpTypeOK' /\ Serving'
      BY <3>1, UnservedKeeps
    <3>3. UNCHANGED vars
      BY <3>1 DEF AnswerUnserved
    <3>4. QED
      BY <3>2, <3>3, ServiceAlone DEF HttpInv
  <2>2. CASE Operate(h) \/ Query(h)
    BY <2>2, OperateKeeps, QueryKeeps
  <2>3. CASE ServiceStep(h) \/ ServiceFails(h)
    BY <2>3, ServiceKeeps
  <2>4. CASE NullCreate(h)
    BY <2>4, NullCreateKeeps
  <2>5. CASE List(h) \/ Document(h) \/ QueryFails(h)
    BY <2>5, QueryAnswers
  <2>6. QED
    BY <2>1, <2>2, <2>3, <2>4, <2>5
<1>3. QED
  BY <1>1, <1>2

------------------------------------------------------------------------------
(* The theorems *)

\* The inductive invariant holds in every behaviour of the API.
THEOREM HttpInvariance == HttpSpec => []HttpInv
<1>1. HttpInit => HttpInv
  BY InitHttpInv
<1>2. HttpInv /\ [HttpNext]_httpVars => HttpInv'
  BY NextHttpInv
<1>3. QED
  BY <1>1, <1>2, PTL DEF HttpSpec

\* What the API keeps of a request is typed and agrees with where the service is.
THEOREM HttpTypeCorrect == HttpSpec => []HttpTypeOK
<1>1. HttpInv => HttpTypeOK
  BY DEF HttpInv
<1>2. QED
  BY <1>1, HttpInvariance, PTL

\* The invariant of PolicyService holds behind the API, the null repositories
\* included: so do the theorems of PolicyServiceProofs that follow from it.
THEOREM ServiceInvariantBehindApi == HttpSpec => []IInv
<1>1. HttpInv => IInv
  BY DEF HttpInv
<1>2. QED
  BY <1>1, HttpInvariance, PTL

\* Which steps answer a request, and with what.
LEMMA AnswerCases ==
  ASSUME HttpInv, HttpNext, NEW h \in Handlers, Answers(h)
  PROVE  \/ ServiceStep(h) /\ pc'[h] = "idle"
         \/ NullCreate(h) \/ ServiceFails(h) \/ List(h) \/ Document(h)
         \/ QueryFails(h)
<1>1. PICK k \in Handlers :
        \/ Healthz(k) \/ Refuse(k) \/ Operate(k) \/ Query(k)
        \/ ServiceStep(k) \/ NullCreate(k) \/ ServiceFails(k)
        \/ List(k) \/ Document(k) \/ QueryFails(k)
  BY DEF HttpNext
<1>2. request' # request /\ request[h] # NoRequest /\ request'[h] = NoRequest
  BY DEF Answers
<1>3. ~Healthz(k) /\ ~Refuse(k)
  BY <1>2 DEF Healthz, Refuse, AnswerUnserved
<1>4. ~Operate(k) /\ ~Query(k)
  <2>1. \A r : Admit(k, r) => FALSE
    <3> SUFFICES ASSUME NEW r, Admit(k, r) PROVE FALSE
      OBVIOUS
    <3>1. request[k] = NoRequest /\ request' = [request EXCEPT ![k] = r]
      BY DEF Admit, Free
    <3>2. k # h /\ request'[h] = request[h]
      BY <1>2, <3>1 DEF HttpInv, HttpTypeOK
    <3>3. QED
      BY <1>2, <3>2
  <2>2. QED
    BY <2>1 DEF Operate, Query
<1>5. \A c : AnswerWith(k, c) => k = h
  BY <1>2 DEF AnswerWith, HttpInv, HttpTypeOK
<1>6. ServiceStep(k) => k = h /\ pc'[k] = "idle"
  BY <1>2, <1>5 DEF ServiceStep, Carry
<1>7. NullCreate(k) \/ ServiceFails(k) \/ List(k) \/ QueryFails(k) => k = h
  BY <1>5 DEF NullCreate, ServiceFails, List, QueryFails
<1>8. Document(k) => k = h
  BY <1>5 DEF Document
<1>9. QED
  BY <1>1, <1>3, <1>4, <1>6, <1>7, <1>8

\* The codes of the answers of the service when nothing fails.
LEMMA ServiceCodes ==
  ASSUME HttpInv, NEW h \in Handlers, ServiceStep(h), pc'[h] = "idle"
  PROVE  /\ code'[h] \in {200, 201, 204, 400, 404, 409, 422, 500}
         /\ wrote[h] => code'[h] \in {200, 201, 204}
         /\ code'[h] \in {200, 201, 204} /\ Writes(call[h].op) => wrote[h]
         /\ code'[h] = 500 => RefusedByTable(h)
<1>1. /\ Progress(h) /\ code'[h] = StatusCode(call[h], reply'[h])
      /\ pc[h] # "idle" /\ call[h].op \in Routed
  BY HttpAssumption, ProgressFrame
  DEF ServiceStep, AnswerWith, HttpInv, HttpTypeOK
<1>2. AnswerAtOnce(h) \/ InsertConflict(h) \/ RefusedByTable(h) \/ Respond(h)
  BY <1>1 DEF Progress, Create, StartUpdate, StartCancel, StartTransition,
     Prepare, Insert, WriteRow, TxUpdate, TxAudit, TxCommit, Goto, HttpInv,
     IInv, TypeOK
<1>3. wrote[h] <=> pc[h] = "committed"
  BY <1>1 DEF HttpInv, HttpTypeOK, Serving
<1>4. CASE Respond(h)
  <2>1. pc[h] = "committed" /\ reply'[h] = "ok"
    BY <1>4 DEF Respond, Finish, HttpInv, IInv, TypeOK
  <2>2. QED
    BY <1>1, <1>3, <2>1, Successes
<1>5. CASE InsertConflict(h)
  <2>1. pc[h] = "insert" /\ reply'[h] = "conflict" /\ call[h].op = "create"
    BY <1>5 DEF InsertConflict, Finish, HttpInv, IInv, TypeOK, HandlerOK
  <2>2. code'[h] = 409
    BY <1>1, <2>1, Refusals
  <2>3. QED
    BY <1>3, <2>1, <2>2
<1>6. CASE AnswerAtOnce(h)
  <2>1. ~wrote[h]
    BY <1>3, <1>6 DEF AnswerAtOnce, ReadMissing, Get, RefuseArguments,
       RefuseStatus, Reads
  <2>2. CASE ReadMissing(h)
    <3>1. reply'[h] = "not_found" /\ call[h].op # "create"
      BY <2>2 DEF ReadMissing, Reads, Finish, HttpInv, IInv, TypeOK
    <3>2. code'[h] = 404
      BY <1>1, <3>1, Refusals
    <3>3. QED
      BY <2>1, <3>2
  <2>3. CASE Get(h)
    <3>1. reply'[h] = "ok" /\ ~Writes(call[h].op)
      BY <2>3 DEF Get, Finish, Writes, HttpInv, IInv, TypeOK
    <3>2. QED
      BY <1>1, <2>1, <3>1, Successes
  <2>4. CASE RefuseArguments(h)
    <3>1. reply'[h] = "invalid" /\ call[h].op \in {"create", "update", "cancel"}
      BY <2>4 DEF RefuseArguments, Finish, HttpInv, IInv, TypeOK
    <3>2. call[h].fields \notin Incomplete
      <4>1. request[h].route \in Ops /\ NoRequest.route \notin Ops
        BY <1>1, HttpAssumption DEF HttpInv, HttpTypeOK, NoRequest, Routed
      <4>2. Admitted(request[h]) /\ call[h].fields = request[h].call.fields
        BY <1>1, <4>1 DEF HttpInv, Serving, AsAsked
      <4>3. QED
        BY <4>2 DEF Admitted, Decoded
    <3>3. code'[h] \in {400, 422}
      BY <1>1, <3>1, <3>2, Refusals
    <3>4. QED
      BY <2>1, <3>3
  <2>5. CASE RefuseStatus(h)
    <3>1. reply'[h] = "conflict" /\ call[h].op \in {"delete"} \cup TransitionOps
      BY <2>5 DEF RefuseStatus, Finish, HttpInv, IInv, TypeOK
    <3>2. code'[h] = 409
      BY <1>1, <3>1, Refusals DEF TransitionOps
    <3>3. QED
      BY <2>1, <3>2
  <2>6. QED
    BY <1>6, <2>2, <2>3, <2>4, <2>5 DEF AnswerAtOnce
<1>7. CASE RefusedByTable(h)
  <2>1. pc[h] # "committed" /\ Finish(h, "error")
    BY <1>7 DEF RefusedByTable, Fail
  <2>2. reply'[h] = "error"
    BY <2>1 DEF Finish, HttpInv, IInv, TypeOK
  <2>3. QED
    BY <1>1, <1>3, <1>7, <2>1, <2>2, Refusals
<1>8. QED
  BY <1>2, <1>4, <1>5, <1>6, <1>7

\* What the table refuses, the caller sent.
LEMMA RefusedIsAsked ==
  ASSUME HttpInv, NEW h \in Handlers, RefusedByTable(h)
  PROVE  {request[h].call.number, request[h].call.fields, request[h].call.reason}
           \cap Unstorable # {}
<1>1. pc[h] # "idle" /\ (RowRefused(h) \/ ReasonRefused(h))
  BY DEF RefusedByTable
<1>2. /\ call[h].number = request[h].call.number
      /\ call[h].fields = request[h].call.fields
      /\ call[h].reason = request[h].call.reason
  BY <1>1 DEF HttpInv, Serving, AsAsked
<1>3. QED
  BY <1>1, <1>2 DEF RowRefused, ReasonRefused

\* The three kinds of steps that answer, by what the caller may conclude.
LEMMA AnswerMeans ==
  ASSUME HttpInv, HttpNext, NEW h \in Handlers, Answers(h)
  PROVE  /\ code'[h] \in 400 .. 499 => ~wrote[h]
         /\ config.database /\ Writes(request[h].route)
            /\ code'[h] \in 200 .. 299 => wrote[h]
         /\ code'[h] = 500 =>
              \/ fault'[h] \/ RepositoryRefuses(request[h])
              \/ ~config.database /\ pc[h] \in {"write", "updated"}
<1>1. \A c : AnswerWith(h, c) => code'[h] = c
  BY DEF AnswerWith, HttpInv, HttpTypeOK
<1>2. CASE ServiceStep(h) /\ pc'[h] = "idle"
  <2>1. call[h].op = request[h].route
    BY <1>2, ProgressFrame DEF ServiceStep, HttpInv, HttpTypeOK
  <2>2. /\ code'[h] \in {200, 201, 204, 400, 404, 409, 422, 500}
        /\ wrote[h] => code'[h] \in {200, 201, 204}
        /\ code'[h] \in {200, 201, 204} /\ Writes(request[h].route) => wrote[h]
        /\ code'[h] = 500 => RefusedByTable(h)
    BY <1>2, <2>1, ServiceCodes
  <2>3. ASSUME RefusedByTable(h)
        PROVE  \/ RepositoryRefuses(request[h])
               \/ ~config.database /\ pc[h] \in {"write", "updated"}
    BY <1>2, <2>3, RefusedIsAsked
    DEF RefusedByTable, ServiceStep, RepositoryRefuses
  <2>4. QED
    BY <2>2, <2>3
<1>3. CASE NullCreate(h)
  <2>1. ~config.database /\ ~wrote[h]
    BY <1>3 DEF NullCreate, HttpInv, HttpTypeOK
  <2>2. code'[h] \in {200, 201, 204}
    BY <1>1, <1>3, Successes DEF NullCreate
  <2>3. QED
    BY <2>1, <2>2
<1>4. CASE ServiceFails(h)
  <2>1. fault'[h]
    BY <1>4 DEF ServiceFails, HttpInv, HttpTypeOK
  <2>2. reply'[h] = "error"
    BY <1>4 DEF ServiceFails, Fail, Finish, HttpInv, IInv, TypeOK
  <2>3. code'[h] \in {0, 500}
    BY <1>1, <1>4, <2>2, Refusals DEF ServiceFails
  <2>4. QED
    BY <2>1, <2>3
<1>5. CASE List(h) \/ Document(h) \/ QueryFails(h)
  <2>1. ~wrote[h] /\ ~Writes(request[h].route)
    BY <1>5, HttpAssumption
    DEF List, Document, QueryFails, DocumentRoutes, Routed, Writes, HttpInv,
        HttpTypeOK
  <2>2. CASE List(h)
    BY <1>1, <2>1, <2>2 DEF List, RepositoryRefuses
  <2>3. CASE Document(h)
    <3>1. code'[h] \in {200, 201, 404, 409}
      BY <1>1, <2>3, DocumentCodes
    <3>2. QED
      BY <2>1, <3>1
  <2>4. CASE QueryFails(h)
    <3>1. fault'[h]
      BY <2>4 DEF QueryFails, HttpInv, HttpTypeOK
    <3>2. code'[h] \in {0, 500}
      BY <1>1, <2>4 DEF QueryFails
    <3>3. QED
      BY <2>1, <3>1, <3>2
  <2>5. QED
    BY <1>5, <2>2, <2>3, <2>4
<1>6. QED
  BY <1>2, <1>3, <1>4, <1>5, AnswerCases

\* A step after which a request has written served that request already.
LEMMA WritingIsServed ==
  ASSUME HttpTypeOK, HttpNext, NEW h \in Handlers, wrote'[h]
  PROVE  wrote[h] \/ request'[h] = request[h]
<1>1. PICK k \in Handlers :
        \/ Healthz(k) \/ Refuse(k) \/ Operate(k) \/ Query(k)
        \/ ServiceStep(k) \/ NullCreate(k) \/ ServiceFails(k)
        \/ List(k) \/ Document(k) \/ QueryFails(k)
  BY DEF HttpNext
<1>2. CASE Healthz(k) \/ Refuse(k)
  BY <1>2 DEF Healthz, Refuse, AnswerUnserved
<1>3. CASE Operate(k) \/ Query(k)
  BY <1>3 DEF Operate, Query, Admit
<1>4. ASSUME NEW c, AnswerWith(k, c)
      PROVE  request'[h] = request[h]
  BY <1>4 DEF AnswerWith, HttpTypeOK
<1>5. CASE ServiceStep(k)
  BY <1>4, <1>5 DEF ServiceStep, Carry
<1>6. CASE NullCreate(k) \/ ServiceFails(k) \/ List(k) \/ QueryFails(k)
  BY <1>4, <1>6 DEF NullCreate, ServiceFails, List, QueryFails
<1>7. CASE Document(k)
  BY <1>4, <1>7, DocumentCodes
<1>8. QED
  BY <1>1, <1>2, <1>3, <1>5, <1>6, <1>7

\* A 2xx means the write is committed and a 4xx that there was none: a caller is
\* in doubt only after a 500 or a broken connection.
THEOREM AnswersTellEffects == HttpSpec => AnswerTellsEffect
<1> DEFINE Telling ==
      \A h \in Handlers :
        Answers(h) =>
          /\ code'[h] \in 400 .. 499 => ~wrote[h]
          /\ /\ config.database /\ Writes(request[h].route)
             /\ code'[h] \in 200 .. 299
             => wrote[h]
<1>1. HttpInv /\ [HttpNext]_httpVars => [Telling]_httpVars
  <2> SUFFICES ASSUME HttpInv, HttpNext PROVE Telling
    OBVIOUS
  <2>1. QED
    BY AnswerMeans
<1>2. QED
  BY <1>1, HttpInvariance, PTL DEF HttpSpec, AnswerTellsEffect

\* With authentication no policy changes and no attestation is made but for a
\* token with policy:write, and no reading route answers but to one with
\* policy:read.
THEOREM ScopesAreKept == HttpSpec => ScopesKept
<1> DEFINE Kept ==
      \A h \in Handlers :
        config.auth =>
          /\ Changes(h) => /\ request[h].token.valid
                           /\ "policy:write" \in request[h].token.scopes
          /\ Shows(h) => /\ request[h].token.valid
                         /\ "policy:read" \in request[h].token.scopes
<1>1. HttpInv /\ [HttpNext]_httpVars => [Kept]_httpVars
  <2> SUFFICES ASSUME HttpInv, HttpNext, NEW h \in Handlers, config.auth
               PROVE  /\ Changes(h) =>
                           /\ request[h].token.valid
                           /\ "policy:write" \in request[h].token.scopes
                      /\ Shows(h) =>
                           /\ request[h].token.valid
                           /\ "policy:read" \in request[h].token.scopes
    OBVIOUS
  <2>1. ASSUME request[h] # NoRequest
        PROVE  /\ request[h].token.valid
               /\ ScopeOf(request[h].route) \in request[h].token.scopes
    BY <2>1 DEF HttpInv, Serving, Admitted, Authenticated, Permitted
  <2>2. ASSUME wrote'[h]
        PROVE  request[h] # NoRequest /\ Writes(request[h].route)
    <3>1. HttpInv' /\ ~Writes(NoRequest.route)
      BY NextHttpInv DEF Writes, NoRequest
    <3>2. /\ pc'[h] = "committed" /\ Writes(call'[h].op)
          /\ call'[h].op = request'[h].route
      BY <2>2, <3>1 DEF HttpInv, HttpTypeOK, Serving
    <3>3. request'[h] # NoRequest /\ Writes(request'[h].route)
      BY <3>1, <3>2
    <3>4. wrote[h] \/ request'[h] = request[h]
      BY <2>2, WritingIsServed DEF HttpInv
    <3>5. CASE request'[h] = request[h]
      BY <3>3, <3>5
    <3>6. CASE wrote[h]
      <4>1. Writes(call[h].op) /\ call[h].op = request[h].route
        BY <3>6 DEF HttpInv, HttpTypeOK, Serving
      <4>2. QED
        BY <3>1, <4>1
    <3>7. QED
      BY <3>4, <3>5, <3>6
  <2>3. Changes(h) => /\ request[h] # NoRequest
                      /\ ScopeOf(request[h].route) = "policy:write"
    BY <2>2 DEF Changes, Answers, Writes, ScopeOf
  <2>4. Shows(h) => /\ request[h] # NoRequest
                    /\ ScopeOf(request[h].route) = "policy:read"
    BY DEF Shows, Answers, ScopeOf
  <2>5. QED
    BY <2>1, <2>3, <2>4
<1>2. QED
  BY <1>1, HttpInvariance, PTL DEF HttpSpec, ScopesKept

------------------------------------------------------------------------------
(* Policy numbers *)

\* Rows that are there have numbers of their own.
Numbered ==
  /\ \A p \in Policies : ~Stored(p) => policies[p].number = None
  /\ \A p, q \in Policies :
       policies[p].number = policies[q].number /\ policies[p].number # None
       => p = q

\* The number a handler holds is the one it was asked for, or its row's.
HoldsNumber(h) ==
  /\ pc[h] # "idle" /\ call[h].op = "create" =>
       call[h].number \in Numbers /\ request[h].call.number = call[h].number
  /\ pc[h] = "insert" => mem[h].number = call[h].number
  /\ pc[h] = "write" =>
       Stored(call[h].id) /\ mem[h].number = policies[call[h].id].number
  /\ pc[h] = "committed" /\ call[h].op = "create" =>
       policies[call[h].id].number = call[h].number

NumberInv == HttpInv /\ Numbered /\ \A h \in Handlers : HoldsNumber(h)

\* A row stays, and keeps its number.
RowsStay ==
  \A q \in Policies :
    Stored(q) => Stored(q)' /\ policies'[q].number = policies[q].number

LEMMA RowNumbers ==
  ASSUME NEW r \in Policy
  PROVE  /\ \A f : [r EXCEPT !.fields = f].number = r.number
         /\ \A t : [r EXCEPT !.updated_at = t].number = r.number
         /\ \A t : [r EXCEPT !.updated_at = t].status = r.status
         /\ \A s : [r EXCEPT !.status = s].number = r.number
BY DEF Policy

LEMMA NumbersUnchanged ==
  ASSUME Numbered,
         \A q \in Policies : /\ Stored(q) => Stored(q)'
                             /\ policies'[q].number = policies[q].number
  PROVE  Numbered' /\ RowsStay
BY DEF Numbered, RowsStay

\* The INSERT adds a number that was free; the other writes leave all alone.
LEMMA NumbersWritten ==
  ASSUME NumberInv, NEW h \in Handlers, Insert(h) \/ WriteRow(h) \/ TxCommit(h)
  PROVE  Numbered' /\ RowsStay
<1>1. TypeOK /\ HandlerOK(h) /\ HoldsNumber(h) /\ Numbered
  BY DEF NumberInv, HttpInv, IInv
<1>2. mem[h] \in Policy /\ \A p \in Policies : policies[p] \in Policy
  BY <1>1 DEF TypeOK
<1>3. CASE Insert(h)
  <2>1. PICK p \in Policies :
          ~Stored(p) /\ policies' = [policies EXCEPT ![p] = mem[h]]
    BY <1>3 DEF Insert
  <2>2. policies'[p] = mem[h] /\ \A q \in Policies : q # p => policies'[q] = policies[q]
    BY <1>1, <2>1 DEF TypeOK
  <2>3. /\ mem[h].number \in Numbers /\ mem[h].status = "draft"
        /\ \A q \in Policies : Stored(q) => policies[q].number # mem[h].number
    BY <1>1, <1>3 DEF Insert, HandlerOK, HoldsNumber, NumberTaken
  <2>4. mem[h].number # None
    BY <2>3, ServiceAssumption
  <2>5. \A q \in Policies : policies[q].number # mem[h].number
    BY <1>1, <2>3, <2>4 DEF Numbered
  <2>6. RowsStay
    BY <2>1, <2>2 DEF RowsStay, Stored
  <2>7. Numbered'
    BY <1>1, <2>2, <2>3, <2>5 DEF Numbered, Stored
  <2>8. QED
    BY <2>6, <2>7
<1>4. CASE WriteRow(h)
  <2>1. PICK p \in Policies : p = call[h].id
    BY <1>1, <1>4 DEF WriteRow, HandlerOK, WriteReady
  <2>2. policies'[p] = mem[h] /\ \A q \in Policies : q # p => policies'[q] = policies[q]
    BY <1>1, <1>4, <2>1 DEF WriteRow, TypeOK
  <2>3. mem[h].number = policies[p].number /\ mem[h].status # ""
    BY <1>1, <1>4, <2>1 DEF WriteRow, HandlerOK, WriteReady, HoldsNumber
  <2>4. \A q \in Policies : /\ Stored(q) => Stored(q)'
                            /\ policies'[q].number = policies[q].number
    BY <2>2, <2>3 DEF Stored
  <2>5. QED
    BY <1>1, <2>4, NumbersUnchanged
<1>5. CASE TxCommit(h)
  <2>1. PICK p \in Policies : p = call[h].id
    BY <1>1, <1>5 DEF TxCommit, HandlerOK, TransitionReady
  <2>2. mem[h].status # ""
    <3> DEFINE edge == [from |-> from[h], event |-> call[h].op, to |-> mem[h].status]
    <3>1. edge \in transitionTable /\ edge.to = mem[h].status
      BY <1>1, <1>5 DEF TxCommit, HandlerOK, TransitionReady
    <3> HIDE DEF edge
    <3>2. QED
      BY <3>1, TableTypes DEF PolicyStatus
  <2>3. /\ policies'[p].status = mem[h].status
        /\ policies'[p].number = policies[p].number
        /\ \A q \in Policies : q # p => policies'[q] = policies[q]
    <3>1. policies[p] \in Policy
      BY <1>2
    <3>2. QED
      BY <1>1, <1>5, <2>1, <3>1 DEF TxCommit, SetStatus, Policy, TypeOK
  <2>4. \A q \in Policies : /\ Stored(q) => Stored(q)'
                            /\ policies'[q].number = policies[q].number
    BY <2>2, <2>3 DEF Stored
  <2>5. QED
    BY <1>1, <2>4, NumbersUnchanged
<1>6. QED
  BY <1>3, <1>4, <1>5

\* A handler that does not move keeps what it holds.
LEMMA HoldsStill ==
  ASSUME NumberInv, RowsStay, NEW k \in Handlers,
         pc'[k] = pc[k], call'[k] = call[k], mem'[k] = mem[k],
         pc[k] # "idle" => request'[k] = request[k]
  PROVE  HoldsNumber(k)'
<1>1. HandlerOK(k) /\ HoldsNumber(k)
  BY DEF NumberInv, HttpInv, IInv
<1>2. pc[k] = "write" =>
        Stored(call[k].id)' /\ policies'[call[k].id].number = mem[k].number
  BY <1>1 DEF HandlerOK, WriteReady, HoldsNumber, RowsStay, Stored
<1>3. pc[k] = "committed" /\ call[k].op = "create" =>
        policies'[call[k].id].number = call[k].number
  BY <1>1 DEF HandlerOK, Written, HoldsNumber, RowsStay
<1>4. QED
  BY <1>1, <1>2, <1>3 DEF HoldsNumber, Stored

\* The handler that moves.
LEMMA MoverHolds ==
  ASSUME NumberInv, NEW h \in Handlers, Progress(h), pc'[h] # "idle",
         request'[h] = request[h]
  PROVE  HoldsNumber(h)'
<1>1. TypeOK /\ HandlerOK(h) /\ HoldsNumber(h)
  BY DEF NumberInv, HttpInv, IInv
<1>2. CASE Create(h)
  <2> DEFINE r == [ZeroPolicy EXCEPT !.status = "draft",
                                     !.number = call[h].number,
                                     !.fields = call[h].fields]
  <2>1. /\ call' = call /\ pc'[h] = "insert" /\ pc[h] = "called"
        /\ mem'[h] = [r EXCEPT !.updated_at = now + 1]
    BY <1>1, <1>2 DEF Create, Prepare, Goto, TypeOK
  <2>2. [r EXCEPT !.updated_at = now + 1].number = call[h].number
    BY DEF ZeroPolicy
  <2> HIDE DEF r
  <2>3. QED
    BY <1>1, <2>1, <2>2 DEF HoldsNumber
<1>3. CASE StartUpdate(h) \/ StartCancel(h)
  <2>1. PICK p \in Policies : p = call[h].id /\ Stored(p)
    BY <1>3, ReadsId DEF StartUpdate, StartCancel, Stored, Row, NumberInv, HttpInv
  <2>2. policies[p] \in Policy /\ Row(h) = policies[p]
    BY <1>1, <2>1 DEF TypeOK, Row
  <2>3. PICK copy : Prepare(h, copy, "write") /\ copy \in Policy
                    /\ copy.number = policies[p].number
    <3>1. CASE StartUpdate(h)
      <4> DEFINE c == [policies[p] EXCEPT !.fields = call[h].fields]
      <4>1. Prepare(h, c, "write") /\ call[h].fields \in Fields
        BY <2>2, <3>1 DEF StartUpdate
      <4>2. c \in Policy /\ c.number = policies[p].number
        BY <2>2, <4>1, RowNumbers, RowEdited
      <4> HIDE DEF c
      <4>3. QED
        BY <4>1, <4>2
    <3>2. CASE StartCancel(h)
      <4> DEFINE c == [policies[p] EXCEPT !.status = "terminated"]
      <4>1. Prepare(h, c, "write") /\ "terminated" \in PolicyStatus
        BY <2>2, <3>2 DEF StartCancel, PolicyStatus
      <4>2. c \in Policy /\ c.number = policies[p].number
        BY <2>2, <4>1, RowNumbers, RowMoved
      <4> HIDE DEF c
      <4>3. QED
        BY <4>1, <4>2
    <3>3. QED
      BY <1>3, <3>1, <3>2
  <2>4. /\ call' = call /\ pc'[h] = "write" /\ policies' = policies
        /\ mem'[h] = [copy EXCEPT !.updated_at = now + 1]
        /\ call[h].op \in {"update", "delete"}
    BY <1>1, <1>3, <2>3 DEF Prepare, Goto, TypeOK, tables, StartUpdate, StartCancel
  <2>5. mem'[h].number = policies[p].number
    BY <2>3, <2>4, RowNumbers
  <2>6. Stored(p)'
    BY <2>1, <2>4 DEF Stored
  <2>7. QED
    BY <2>1, <2>4, <2>5, <2>6 DEF HoldsNumber, Stored
<1>4. CASE StartTransition(h) \/ TxUpdate(h) \/ TxAudit(h)
  <2>1. call' = call /\ pc'[h] \in {"tx", "updated", "audited"} /\ pc[h] # "idle"
    BY <1>1, <1>4 DEF StartTransition, Reads, Prepare, Goto, TxUpdate, TxAudit, TypeOK
  <2>2. QED
    BY <1>1, <2>1 DEF HoldsNumber
<1>5. CASE Insert(h)
  <2>1. PICK p \in Policies : /\ policies' = [policies EXCEPT ![p] = mem[h]]
                              /\ call' = [call EXCEPT ![h].id = p]
    BY <1>5 DEF Insert
  <2>2. call[h] \in Call /\ policies'[p] = mem[h] /\ pc[h] = "insert"
        /\ pc'[h] = "committed"
    BY <1>1, <1>5, <2>1 DEF TypeOK, Insert, Goto
  <2>3. /\ call'[h].id = p /\ call'[h].op = call[h].op
        /\ call'[h].number = call[h].number
    <3>1. call'[h] = [call[h] EXCEPT !.id = p]
      BY <1>1, <2>1 DEF TypeOK
    <3>2. QED
      BY <2>2, <3>1 DEF Call
  <2>4. QED
    BY <1>1, <2>2, <2>3 DEF HoldsNumber
<1>6. CASE WriteRow(h) \/ TxCommit(h)
  <2>1. call' = call /\ pc'[h] = "committed" /\ call[h].op # "create"
    BY <1>1, <1>6 DEF WriteRow, TxCommit, Goto, TypeOK, HandlerOK, WriteReady,
       TransitionOps
  <2>2. QED
    BY <2>1 DEF HoldsNumber
<1>7. ~AnswerAtOnce(h) /\ ~InsertConflict(h) /\ ~Respond(h) /\ ~RefusedByTable(h)
  BY <1>1 DEF AnswerAtOnce, ReadMissing, Get, RefuseArguments, RefuseStatus,
     InsertConflict, Respond, RefusedByTable, Fail, Finish, Goto, TypeOK
<1>8. QED
  BY <1>2, <1>3, <1>4, <1>5, <1>6, <1>7 DEF Progress

LEMMA RowsSame ==
  ASSUME Numbered, policies' = policies
  PROVE  Numbered' /\ RowsStay
BY DEF Numbered, RowsStay, Stored

LEMMA NextNumberInv == NumberInv /\ [HttpNext]_httpVars => NumberInv'
<1> SUFFICES ASSUME NumberInv, [HttpNext]_httpVars PROVE NumberInv'
  OBVIOUS
<1>1. HttpInv'
  BY NextHttpInv DEF NumberInv
<1>2. HttpTypeOK /\ Numbered /\ IInv
  BY DEF NumberInv, HttpInv
<1>3. CASE UNCHANGED httpVars
  <2>1. Numbered' /\ RowsStay
    BY <1>2, <1>3, RowsSame DEF httpVars, vars
  <2>2. \A k \in Handlers : HoldsNumber(k)'
    BY <1>3, <2>1, HoldsStill DEF httpVars, vars
  <2>3. QED
    BY <1>1, <2>1, <2>2 DEF NumberInv
<1>4. CASE HttpNext
  <2>1. PICK h \in Handlers :
          \/ Healthz(h) \/ Refuse(h) \/ Operate(h) \/ Query(h)
          \/ ServiceStep(h) \/ NullCreate(h) \/ ServiceFails(h)
          \/ List(h) \/ Document(h) \/ QueryFails(h)
    BY <1>4 DEF HttpNext
  <2>2. CASE Healthz(h) \/ Refuse(h)
    <3>1. UNCHANGED <<vars, request>>
      BY <2>2 DEF Healthz, Refuse, AnswerUnserved
    <3>2. Numbered' /\ RowsStay
      BY <1>2, <3>1, RowsSame DEF vars
    <3>3. \A k \in Handlers : HoldsNumber(k)'
      BY <3>1, <3>2, HoldsStill DEF vars
    <3>4. QED
      BY <1>1, <3>2, <3>3 DEF NumberInv
  <2>3. CASE Query(h) \/ List(h) \/ Document(h) \/ QueryFails(h)
    <3>1. /\ UNCHANGED vars /\ pc[h] = "idle"
          /\ \A k \in Handlers : k # h => request'[k] = request[k]
      <4>1. CASE Query(h)
        BY <1>2, <4>1 DEF Query, Admit, Free, HttpTypeOK
      <4>2. \A c : AnswerWith(h, c) =>
              \A k \in Handlers : k # h => request'[k] = request[k]
        BY <1>2 DEF AnswerWith, HttpTypeOK
      <4>3. CASE List(h) \/ Document(h) \/ QueryFails(h)
        <5>1. UNCHANGED vars /\ pc[h] = "idle"
          BY <1>2, <4>3, HttpAssumption
          DEF List, Document, QueryFails, DocumentRoutes, Routed, HttpTypeOK
        <5>2. \E c : AnswerWith(h, c)
          BY <4>3, DocumentCodes DEF List, QueryFails
        <5>3. QED
          BY <4>2, <5>1, <5>2
      <4>4. QED
        BY <2>3, <4>1, <4>3
    <3>2. Numbered' /\ RowsStay
      BY <1>2, <3>1, RowsSame DEF vars
    <3>3. \A k \in Handlers : HoldsNumber(k)'
      BY <3>1, <3>2, HoldsStill DEF vars
    <3>4. QED
      BY <1>1, <3>2, <3>3 DEF NumberInv
  <2>4. CASE Operate(h)
    <3>1. PICK c \in Request : call' = [call EXCEPT ![h] = c]
      BY <2>4 DEF Operate, Receive
    <3>2. /\ pc'[h] = "called" /\ call'[h] = c /\ policies' = policies
          /\ \A k \in Handlers : k # h => /\ pc'[k] = pc[k] /\ call'[k] = call[k]
                                          /\ mem'[k] = mem[k]
      BY <1>2, <2>4, <3>1 DEF Operate, Receive, Goto, tables, IInv, TypeOK
    <3>3. /\ request'[h].call = c
          /\ \A k \in Handlers : k # h => request'[k] = request[k]
      <4>1. PICK t \in Presented, g \in BOOLEAN :
              Admit(h, [route |-> call'[h].op, token |-> t, garbled |-> g,
                        call |-> call'[h]])
        BY <2>4 DEF Operate
      <4>2. QED
        BY <1>2, <3>2, <4>1 DEF Admit, HttpTypeOK
    <3>4. c.op = "create" => c.number \in Numbers
      BY DEF Request
    <3>5. Numbered' /\ RowsStay
      BY <1>2, <3>2, RowsSame
    <3>6. HoldsNumber(h)'
      BY <3>2, <3>3, <3>4 DEF HoldsNumber
    <3>7. \A k \in Handlers : k # h => HoldsNumber(k)'
      BY <3>2, <3>3, <3>5, HoldsStill
    <3>8. QED
      BY <1>1, <3>5, <3>6, <3>7 DEF NumberInv
  <2>5. CASE ServiceStep(h) \/ ServiceFails(h) \/ NullCreate(h)
    <3>1. \A k \in Handlers : k # h =>
            /\ pc'[k] = pc[k] /\ call'[k] = call[k] /\ mem'[k] = mem[k]
            /\ request'[k] = request[k]
      <4>1. \A c : AnswerWith(h, c) =>
              \A k \in Handlers : k # h => request'[k] = request[k]
        BY <1>2 DEF AnswerWith, HttpTypeOK
      <4>2. \A k \in Handlers : k # h => request'[k] = request[k]
        BY <2>5, <4>1 DEF ServiceStep, Carry, ServiceFails, NullCreate
      <4>3. CASE Progress(h) \/ Fail(h)
        BY <1>2, <4>2, <4>3, ProgressFrame
      <4>4. CASE NullCreate(h)
        BY <1>2, <4>2, <4>4 DEF NullCreate, Finish, Goto, IInv, TypeOK
      <4>5. QED
        BY <2>5, <4>3, <4>4 DEF ServiceStep, ServiceFails
    <3>2. Numbered' /\ RowsStay
      <4>1. CASE Insert(h) \/ WriteRow(h) \/ TxCommit(h)
        BY <4>1, NumbersWritten
      <4>2. CASE ~(Insert(h) \/ WriteRow(h) \/ TxCommit(h))
        <5>1. policies' = policies
          BY <1>2, <2>5, <4>2, OthersDoNotWrite
          DEF ServiceStep, ServiceFails, NullCreate, tables
        <5>2. QED
          BY <1>2, <5>1, RowsSame
      <4>3. QED
        BY <4>1, <4>2
    <3>3. HoldsNumber(h)'
      <4>1. CASE pc'[h] = "idle"
        BY <4>1 DEF HoldsNumber
      <4>2. CASE pc'[h] # "idle"
        <5>1. Progress(h) /\ request'[h] = request[h]
          BY <1>2, <2>5, <4>2 DEF ServiceStep, Carry, ServiceFails, NullCreate,
             Fail, Finish, Goto, IInv, TypeOK
        <5>2. QED
          BY <4>2, <5>1, MoverHolds
      <4>3. QED
        BY <4>1, <4>2
    <3>4. \A k \in Handlers : k # h => HoldsNumber(k)'
      BY <3>1, <3>2, HoldsStill
    <3>5. QED
      BY <1>1, <3>2, <3>3, <3>4 DEF NumberInv
  <2>6. QED
    BY <2>1, <2>2, <2>3, <2>4, <2>5
<1>5. QED
  BY <1>3, <1>4

LEMMA InitNumberInv == HttpInit => NumberInv
<1> SUFFICES ASSUME HttpInit PROVE NumberInv
  OBVIOUS
<1>1. /\ \A h \in Handlers : pc[h] = "idle"
      /\ \A p \in Policies : policies[p] = ZeroPolicy
  BY DEF HttpInit, Init
<1>2. ZeroPolicy.number = None
  BY DEF ZeroPolicy
<1>3. Numbered
  BY <1>1, <1>2 DEF Numbered
<1>4. \A h \in Handlers : HoldsNumber(h)
  BY <1>1 DEF HoldsNumber
<1>5. QED
  BY <1>3, <1>4, InitHttpInv DEF NumberInv

LEMMA Replies ==
  ASSUME IInv, NEW h \in Handlers, NEW answer, Finish(h, answer)
  PROVE  reply'[h] = answer
BY DEF Finish, IInv, TypeOK

LEMMA FailureCode ==
  ASSUME HttpInv, NEW h \in Handlers, ServiceFails(h)
  PROVE  code'[h] \in {0, 500}
<1>1. \A c : AnswerWith(h, c) => code'[h] = c
  BY DEF AnswerWith, HttpInv, HttpTypeOK
<1>2. reply'[h] = "error"
  BY Replies DEF ServiceFails, Fail, HttpInv
<1>3. QED
  BY <1>1, <1>2, Refusals DEF ServiceFails

\* The service's own answers to a creation.
LEMMA CreationAnswers ==
  ASSUME HttpInv, NEW h \in Handlers, ServiceStep(h), pc'[h] = "idle",
         request[h].route = "create"
  PROVE  /\ Progress(h) /\ code'[h] = StatusCode(call[h], reply'[h])
         /\ pc[h] # "idle" /\ call[h].op = "create"
         /\ \/ AnswerAtOnce(h) \/ InsertConflict(h)
            \/ RefusedByTable(h) \/ Respond(h)
<1>1. /\ Progress(h) /\ code'[h] = StatusCode(call[h], reply'[h])
      /\ pc[h] # "idle" /\ call[h].op = request[h].route
  BY ProgressFrame DEF ServiceStep, AnswerWith, HttpInv, HttpTypeOK
<1>2. AnswerAtOnce(h) \/ InsertConflict(h) \/ RefusedByTable(h) \/ Respond(h)
  BY <1>1 DEF Progress, Create, StartUpdate, StartCancel, StartTransition,
     Prepare, Insert, WriteRow, TxUpdate, TxAudit, TxCommit, Goto, HttpInv,
     IInv, TypeOK
<1>3. QED
  BY <1>1, <1>2

LEMMA CreationMeans ==
  ASSUME NumberInv, HttpNext, NEW h \in Handlers, Answers(h),
         request[h].route = "create", config.database, code'[h] \in {201, 409}
  PROVE  \E p \in Policies :
           {q \in Policies : policies'[q].number = request[h].call.number} = {p}
<1>1. HttpInv
  BY DEF NumberInv
<1>2. ServiceStep(h) /\ pc'[h] = "idle"
  <2>1. ~NullCreate(h) /\ ~List(h) /\ ~Document(h) /\ ~QueryFails(h)
    BY DEF NullCreate, List, Document, DocumentRoutes, QueryFails
  <2>2. ~ServiceFails(h)
    BY <1>1, FailureCode
  <2>3. QED
    BY <1>1, <2>1, <2>2, AnswerCases
<1>3. AnswerAtOnce(h) \/ InsertConflict(h) \/ Respond(h)
  <2>1. \/ AnswerAtOnce(h) \/ InsertConflict(h)
        \/ RefusedByTable(h) \/ Respond(h)
    BY <1>1, <1>2, CreationAnswers
  <2>2. ASSUME RefusedByTable(h) PROVE FALSE
    <3>1. reply'[h] = "error"
      BY <1>1, <2>2, Replies DEF RefusedByTable, Fail, HttpInv
    <3>2. code'[h] = 500
      BY <1>1, <1>2, <3>1, CreationAnswers, Refusals
    <3>3. QED
      BY <3>2
  <2>3. QED
    BY <2>1, <2>2
<1>4. /\ Progress(h) /\ code'[h] = StatusCode(call[h], reply'[h])
      /\ pc[h] # "idle" /\ call[h].op = "create"
  BY <1>1, <1>2, CreationAnswers
<1>5. /\ call[h].number \in Numbers /\ request[h].call.number = call[h].number
      /\ HoldsNumber(h)
  BY <1>4 DEF NumberInv, HoldsNumber
<1>6. call[h].number # None
  BY <1>5, ServiceAssumption
<1>7. \E p \in Policies : policies[p].number = call[h].number
  <2>1. CASE Respond(h)
    <3>1. Written(h) /\ pc[h] = "committed"
      BY <2>1 DEF Respond, NumberInv, HttpInv, IInv, HandlerOK
    <3>2. QED
      BY <1>4, <1>5, <3>1 DEF Written, HoldsNumber
  <2>2. CASE InsertConflict(h)
    BY <1>5, <2>2 DEF InsertConflict, NumberTaken, HoldsNumber
  <2>3. CASE AnswerAtOnce(h)
    <3>1. RefuseArguments(h)
      BY <1>4, <2>3 DEF AnswerAtOnce, ReadMissing, Get, RefuseStatus, Reads
    <3>2. reply'[h] = "invalid"
      BY <1>1, <3>1, Replies DEF RefuseArguments, HttpInv
    <3>3. code'[h] = 400
      BY <1>4, <3>2, Refusals
    <3>4. QED
      BY <3>3
  <2>4. QED
    BY <1>3, <2>1, <2>2, <2>3
<1>8. policies' = policies
  <2>1. pc'[h] # "committed"
    BY <1>2
  <2>2. ~(Insert(h) \/ WriteRow(h) \/ TxCommit(h))
    BY <2>1, WritesStamp DEF NumberInv, HttpInv
  <2>3. QED
    BY <1>4, <2>2, OthersDoNotWrite DEF NumberInv, HttpInv
<1>9. PICK p \in Policies : policies[p].number = call[h].number
  BY <1>7
<1>10. \A q \in Policies : policies[q].number = call[h].number => q = p
  BY <1>6, <1>9 DEF NumberInv, Numbered
<1>11. QED
  BY <1>5, <1>8, <1>9, <1>10

\* A caller that gets a 201 or a 409 for a creation, on whichever attempt, leaves
\* exactly one policy of that number behind.
THEOREM CreationIsOnce == HttpSpec => CreatedOnce
<1> DEFINE Once ==
      \A h \in Handlers :
        /\ Answers(h) /\ request[h].route = "create"
        /\ config.database /\ code'[h] \in {201, 409}
        => \E p \in Policies :
             {q \in Policies : policies'[q].number = request[h].call.number}
               = {p}
<1>1. NumberInv /\ [HttpNext]_httpVars => [Once]_httpVars
  <2> SUFFICES ASSUME NumberInv, HttpNext PROVE Once
    OBVIOUS
  <2>1. QED
    BY CreationMeans
<1>2. QED
  BY <1>1, InitNumberInv, NextNumberInv, PTL DEF HttpSpec, CreatedOnce

------------------------------------------------------------------------------
(* Behind the API is the service *)

\* A deployment stays what it is.
LEMMA ConfigStays ==
  ASSUME HttpInv, [HttpNext]_httpVars
  PROVE  config' = config
<1>1. \A h : Document(h) => config' = config
  BY DEF Document
<1>2. QED
  BY <1>1 DEF HttpNext, httpVars, Healthz, Refuse, AnswerUnserved, Operate,
     Query, Admit, ServiceStep, NullCreate, ServiceFails, List, QueryFails

\* With a database, every step of the API is a step of the service or none.
LEMMA ApiStepIsServiceStep ==
  ASSUME HttpInv, config.database, [HttpNext]_httpVars
  PROVE  [Next]_vars
<1>1. CASE UNCHANGED httpVars
  BY <1>1 DEF httpVars
<1>2. CASE HttpNext
  <2>1. PICK h \in Handlers :
          \/ Healthz(h) \/ Refuse(h) \/ Operate(h) \/ Query(h)
          \/ ServiceStep(h) \/ NullCreate(h) \/ ServiceFails(h)
          \/ List(h) \/ Document(h) \/ QueryFails(h)
    BY <1>2 DEF HttpNext
  <2>2. CASE Healthz(h) \/ Refuse(h) \/ Query(h) \/ List(h) \/ QueryFails(h)
    BY <2>2 DEF Healthz, Refuse, AnswerUnserved, Query, List, QueryFails
  <2>3. CASE Document(h)
    BY <2>3 DEF Document
  <2>4. CASE Operate(h) \/ ServiceStep(h) \/ ServiceFails(h)
    BY <2>4 DEF Operate, ServiceStep, ServiceFails, Next
  <2>5. CASE NullCreate(h)
    BY <2>5 DEF NullCreate
  <2>6. QED
    BY <2>1, <2>2, <2>3, <2>4, <2>5
<1>3. QED
  BY <1>1, <1>2

\* Behind the API of a deployment with a database runs the service, so that what
\* PolicyServiceProofs shows of it holds for every request over HTTP.
THEOREM ApiIsTheService == HttpSpec /\ config.database => Spec
<1>1. HttpInit => Init
  BY DEF HttpInit
<1>2. HttpInv /\ config.database /\ [HttpNext]_httpVars => config.database'
  BY ConfigStays
<1>3. HttpInv /\ config.database /\ [HttpNext]_httpVars => [Next]_vars
  BY ApiStepIsServiceStep
<1>4. QED
  BY <1>1, <1>2, <1>3, HttpInvariance, PTL DEF HttpSpec, Spec

\* Whoever calls a deployment with a database over HTTP, PolicyHistory is kept;
\* if no two requests for one policy overlap, PolicyLifecycle is.
THEOREM ApiKeepsPromise ==
  /\ HttpSpec /\ config.database => HistoryKept
  /\ HttpSpec /\ config.database /\ []OneWriterPerPolicy => LifecycleKept
<1>1. [Next]_vars /\ OneWriterPerPolicy' => [Next /\ OneWriterPerPolicy']_vars
  OBVIOUS
<1>2. Spec /\ []OneWriterPerPolicy => SerialSpec
  BY <1>1, PTL DEF Spec, SerialSpec
<1>3. QED
  BY <1>2, ApiIsTheService, KeepsHistory, KeepsPromise, PTL

------------------------------------------------------------------------------
(* Without a database *)

\* The null repositories keep nothing, and no handler gets past its insert.
Empty ==
  ~config.database =>
    /\ ~config.documents
    /\ events = {} /\ audit_log = {} /\ \A p \in Policies : ~Stored(p)
    /\ \A h \in Handlers : pc[h] \in {"idle", "called", "insert"}

\* On empty tables the service gets no further than the insert of a creation or
\* a refusal.
LEMMA EmptyService ==
  ASSUME HttpInv, Empty, ~config.database, NEW h \in Handlers, ServiceStep(h)
  PROVE  Create(h) \/ ReadMissing(h) \/ RefuseArguments(h)
<1>1. Progress(h) /\ pc[h] = "called"
  BY ProgressFrame DEF ServiceStep, Empty, HttpInv
<1>2. Reads(h) => ~Stored(call[h].id)
  BY ReadsId DEF HttpInv, Empty
<1>3. ~StartUpdate(h) /\ ~StartCancel(h)
  BY <1>2 DEF StartUpdate, StartCancel, Row, Stored
<1>4. ~StartTransition(h)
  BY <1>2, TableTypes DEF StartTransition, Transition, Row, Stored
<1>5. ~Get(h) /\ ~RefuseStatus(h)
  BY <1>2 DEF Get, RefuseStatus
<1>6. QED
  BY <1>1, <1>3, <1>4, <1>5 DEF Progress, RefusedByTable, AnswerAtOnce, Insert,
     InsertConflict, WriteRow, TxUpdate, TxAudit, TxCommit, Respond

\* The document routes are not there.
LEMMA NoDocuments ==
  ASSUME HttpInv, Empty, ~config.database, NEW h \in Handlers
  PROVE  request[h].route \notin DocumentRoutes
<1>1. NoRequest.route \notin DocumentRoutes
  BY DEF NoRequest, DocumentRoutes
<1>2. request[h] # NoRequest => Registered(request[h])
  BY DEF HttpInv, Serving, Admitted
<1>3. QED
  BY <1>1, <1>2 DEF Registered, Empty

LEMMA EmptyStep == HttpInv /\ Empty /\ [HttpNext]_httpVars => Empty'
<1> SUFFICES ASSUME HttpInv, Empty, [HttpNext]_httpVars, ~config.database
             PROVE  Empty'
  BY ConfigStays DEF Empty
<1>1. config' = config
  BY ConfigStays
<1>2. CASE UNCHANGED vars
  BY <1>1, <1>2 DEF Empty, vars, Stored
<1>3. ASSUME NEW h \in Handlers, UNCHANGED <<policies, audit_log, events>>,
             pc'[h] \in {"idle", "called", "insert"},
             \A k \in Handlers : k # h => pc'[k] = pc[k]
      PROVE  Empty'
  BY <1>1, <1>3 DEF Empty, Stored
<1>4. ASSUME NEW h \in Handlers, NEW answer, Finish(h, answer),
             UNCHANGED <<policies, audit_log, events>>
      PROVE  Empty'
  <2>1. pc'[h] = "idle" /\ \A k \in Handlers : k # h => pc'[k] = pc[k]
    BY <1>4 DEF Finish, Goto, HttpInv, IInv, TypeOK
  <2>2. QED
    BY <1>3, <1>4, <2>1
<1>5. CASE HttpNext
  <2>1. PICK h \in Handlers :
          \/ Healthz(h) \/ Refuse(h) \/ Operate(h) \/ Query(h)
          \/ ServiceStep(h) \/ NullCreate(h) \/ ServiceFails(h)
          \/ List(h) \/ Document(h) \/ QueryFails(h)
    BY <1>5 DEF HttpNext
  <2>2. CASE Healthz(h) \/ Refuse(h) \/ Query(h) \/ List(h) \/ QueryFails(h)
    BY <1>2, <2>2 DEF Healthz, Refuse, AnswerUnserved, Query, List, QueryFails
  <2>3. CASE Document(h)
    BY <2>3, NoDocuments DEF Document
  <2>4. CASE Operate(h)
    <3>1. /\ pc'[h] = "called" /\ \A k \in Handlers : k # h => pc'[k] = pc[k]
          /\ UNCHANGED <<policies, audit_log, events>>
      BY <2>4 DEF Operate, Receive, Goto, tables, HttpInv, IInv, TypeOK
    <3>2. QED
      BY <1>3, <3>1
  <2>5. CASE ServiceStep(h)
    <3>1. CASE Create(h)
      <4>1. /\ pc'[h] = "insert" /\ \A k \in Handlers : k # h => pc'[k] = pc[k]
            /\ UNCHANGED <<policies, audit_log, events>>
        BY <3>1 DEF Create, Prepare, Goto, tables, HttpInv, IInv, TypeOK
      <4>2. QED
        BY <1>3, <4>1
    <3>2. CASE ReadMissing(h) \/ RefuseArguments(h)
      <4>1. AnswerAtOnce(h)
        BY <2>5, <3>2 DEF ServiceStep, Progress, RefusedByTable, Create,
           StartUpdate, StartCancel, StartTransition, Insert, InsertConflict,
           WriteRow, TxUpdate, TxAudit, TxCommit, Respond, ReadMissing,
           RefuseArguments, Reads, Prepare, Finish, Goto, HttpInv, IInv, TypeOK
      <4>2. UNCHANGED <<policies, audit_log, events>>
        BY <4>1 DEF AnswerAtOnce, tables
      <4>3. QED
        BY <1>4, <3>2, <4>2 DEF ReadMissing, RefuseArguments
    <3>3. QED
      BY <2>5, <3>1, <3>2, EmptyService
  <2>6. CASE NullCreate(h) \/ ServiceFails(h)
    BY <1>4, <2>6 DEF NullCreate, ServiceFails, Fail, tables
  <2>7. QED
    BY <2>1, <2>2, <2>3, <2>4, <2>5, <2>6
<1>6. QED
  BY <1>2, <1>5 DEF httpVars

\* This holds all the time.
LEMMA EmptyAlways == HttpSpec => [](HttpInv /\ Empty)
<1>1. HttpInit => Empty
  <2> SUFFICES ASSUME HttpInit PROVE Empty
    OBVIOUS
  <2>1. \A p \in Policies : policies[p] = ZeroPolicy
    BY DEF HttpInit, Init
  <2>2. \A p \in Policies : ~Stored(p)
    BY <2>1, ZeroFields DEF Stored
  <2>3. QED
    BY <2>2 DEF HttpInit, Init, Empty
<1>2. QED
  BY <1>1, EmptyStep, HttpInvariance, PTL DEF HttpSpec

\* A 500 has a failure behind it, an undecodable cursor or status of the list, or
\* data that only the database refuses.
THEOREM ServerErrorsHaveCauses == HttpSpec => ServerErrorHasCause
<1> DEFINE Caused ==
      \A h \in Handlers :
        Answers(h) /\ code'[h] = 500 =>
          fault'[h] \/ RepositoryRefuses(request[h])
<1>1. HttpInv /\ Empty /\ [HttpNext]_httpVars => [Caused]_httpVars
  <2> SUFFICES ASSUME HttpInv, Empty, HttpNext PROVE Caused
    OBVIOUS
  <2>1. \A h \in Handlers :
          ~config.database => pc[h] \notin {"write", "updated"}
    BY DEF Empty
  <2>2. QED
    BY <2>1, AnswerMeans
<1>2. QED
  BY <1>1, EmptyAlways, PTL DEF HttpSpec, ServerErrorHasCause

\* What such a deployment answers well: creations it forgets, and the empty list.
LEMMA EmptyAnswers ==
  ASSUME HttpInv, Empty, ~config.database, HttpNext, NEW h \in Handlers,
         Answers(h), code'[h] \in 200 .. 299
  PROVE  request[h].route \in {"create", "list"}
<1>1. \A c : AnswerWith(h, c) => code'[h] = c
  BY DEF AnswerWith, HttpInv, HttpTypeOK
<1>2. CASE ServiceStep(h) /\ pc'[h] = "idle"
  <2>1. /\ call[h].op = request[h].route /\ call[h].op \in Routed
        /\ pc[h] = "called" /\ ~wrote[h]
    BY <1>2, ProgressFrame, HttpAssumption
    DEF ServiceStep, HttpInv, HttpTypeOK, Empty
  <2>2. ~Writes(call[h].op)
    <3>1. code'[h] \in {200, 201, 204}
      <4>1. code'[h] \in {200, 201, 204, 400, 404, 409, 422, 500}
        BY <1>2, ServiceCodes
      <4>2. QED
        BY <4>1
    <3>2. QED
      BY <1>2, <2>1, <3>1, ServiceCodes
  <2>3. call[h].op \in {"get", "history"}
    BY <2>1, <2>2 DEF Writes, Routed
  <2>4. ReadMissing(h)
    BY <1>2, <2>3, EmptyService DEF Create, RefuseArguments
  <2>5. reply'[h] = "not_found"
    BY <2>4 DEF ReadMissing, Finish, HttpInv, IInv, TypeOK
  <2>6. code'[h] = StatusCode(call[h], "not_found")
    BY <1>1, <1>2, <2>5 DEF ServiceStep
  <2>7. code'[h] = 404
    BY <2>3, <2>6, Refusals
  <2>8. QED
    BY <2>7
<1>3. CASE NullCreate(h)
  <2>1. pc[h] = "insert"
    BY <1>3 DEF NullCreate
  <2>2. QED
    BY <2>1 DEF HttpInv, IInv, HandlerOK, HttpTypeOK
<1>4. CASE ServiceFails(h)
  <2>1. reply'[h] = "error"
    BY <1>4 DEF ServiceFails, Fail, Finish, HttpInv, IInv, TypeOK
  <2>2. code'[h] \in {0, 500}
    BY <1>1, <1>4, <2>1, Refusals DEF ServiceFails
  <2>3. QED
    BY <2>2
<1>5. CASE List(h)
  BY <1>5 DEF List
<1>6. CASE Document(h)
  BY <1>6, NoDocuments DEF Document
<1>7. CASE QueryFails(h)
  <2>1. code'[h] \in {0, 500}
    BY <1>1, <1>7 DEF QueryFails
  <2>2. QED
    BY <2>1
<1>8. QED
  BY <1>2, <1>3, <1>4, <1>5, <1>6, <1>7, AnswerCases

\* Without a database nothing is kept, nothing is announced, and only creations
\* and the empty list are answered well.
THEOREM NothingIsKeptWithoutDatabase == HttpSpec => NothingWithoutDatabase
<1> DEFINE Nothing ==
      ~config.database =>
        /\ events' = {} /\ audit_log' = {} /\ \A p \in Policies : ~Stored(p)'
        /\ \A h \in Handlers :
             Answers(h) /\ code'[h] \in 200 .. 299 =>
               request[h].route \in {"create", "list"}
<1>1. HttpInv /\ Empty /\ Empty' /\ [HttpNext]_httpVars => [Nothing]_httpVars
  <2> SUFFICES ASSUME HttpInv, Empty, Empty', HttpNext, ~config.database
               PROVE  Nothing
    OBVIOUS
  <2>1. ~config'.database
    BY ConfigStays
  <2>2. QED
    BY <2>1, EmptyAnswers DEF Empty
<1>2. QED
  BY <1>1, EmptyAlways, PTL DEF HttpSpec, NothingWithoutDatabase

==============================================================================
