------------------------------- MODULE HttpApi -------------------------------
(***************************************************************************)
(* internal/api in front of PolicyService: middleware, routes, decoding    *)
(* and validation, and the status code each outcome of the service gets.   *)
(*                                                                         *)
(* A request is refused by the first check that fails, in the order of the *)
(* code: token, route, scope, path and body, validator, reason.  What      *)
(* passes is served by the handler's goroutine in the steps of             *)
(* PolicyService, by a query (the list, the two document routes), or, in a *)
(* deployment without a database, by the null repositories.  The writes of *)
(* the attestation route are the subject of DocumentService.               *)
(*                                                                         *)
(* Keys, signatures and clocks of tokens belong to the JWT library: a      *)
(* token is valid or it is not.                                            *)
(***************************************************************************)
EXTENDS PolicyService

CONSTANTS Incomplete, \* the fields among BadFields that the validator refuses
          MaxOthers   \* bound on the requests that are no policy operation

Routed == {"create", "get", "update", "delete", "submit", "activate", "cancel",
           "history"}
DocumentRoutes == {"attest", "documents"}

ASSUME HttpAssumption ==
  Ops \subseteq Routed /\ Incomplete \subseteq BadFields /\ MaxOthers \in Nat

VARIABLES
  config,   \* what the deployment has: auth, database, documents
  request,  \* the request each goroutine serves, or NoRequest
  code,     \* the status code of its last answer
  wrote,    \* has a statement of the request changed the tables
  fault,    \* has something the request depends on failed
  others    \* requests so far that were no policy operation

httpVars == <<vars, config, request, code, wrote, fault, others>>

Scope == {"policy:read", "policy:write"}
Token == [valid : {TRUE}, scopes : SUBSET Scope]
           \cup [valid : {FALSE}, scopes : {{}}]
NoToken == [valid |-> FALSE, scopes |-> {}]

\* garbled: an id that is no UUID, a body that is no JSON; of the list, a cursor
\* that does not decode or a ?status= that is no text to PostgreSQL.
Operations(tokens) ==
  {[route |-> c.op, token |-> t, garbled |-> g, call |-> c] :
     c \in Request, t \in tokens, g \in BOOLEAN}
Queries(tokens) ==
  {[route |-> r, token |-> t, garbled |-> g, call |-> [NoCall EXCEPT !.id = p]] :
     r \in {"list"} \cup DocumentRoutes, t \in tokens, g \in BOOLEAN,
     p \in Policies}
NoRequest == [route |-> "", token |-> NoToken, garbled |-> FALSE,
              call |-> NoCall]

\* 0: the connection broke before a code was written.
Code == {0, 200, 201, 204, 400, 401, 403, 404, 409, 422, 500}

\* In a goroutine that serves a policy operation the service is at work on that
\* operation; elsewhere it rests.
HttpTypeOK ==
  /\ config \in [auth : BOOLEAN, database : BOOLEAN, documents : BOOLEAN]
  /\ request \in
       [Handlers -> [route : Ops \cup {"", "list"} \cup DocumentRoutes,
                     token : Token, garbled : BOOLEAN, call : Call]]
  /\ code \in [Handlers -> Code]
  /\ wrote \in [Handlers -> BOOLEAN]
  /\ fault \in [Handlers -> BOOLEAN]
  /\ others \in 0 .. MaxOthers
  /\ \A h \in Handlers :
       /\ pc[h] # "idle" <=> request[h].route \in Ops
       /\ pc[h] # "idle" => call[h].op = request[h].route
       /\ wrote[h] => pc[h] = "committed"

\* main.go: only with a DSN is there a document service.
HttpInit ==
  /\ Init
  /\ config \in [auth : BOOLEAN, database : BOOLEAN, documents : BOOLEAN]
  /\ config.documents => config.database
  /\ request = [h \in Handlers |-> NoRequest]
  /\ code = [h \in Handlers |-> 0]
  /\ wrote = [h \in Handlers |-> FALSE]
  /\ fault = [h \in Handlers |-> FALSE]
  /\ others = 0

------------------------------------------------------------------------------
(* The checks before a service is called *)

\* The scope RequireScope asks for on each route.
\* Mutant: the attestation is registered with the wrong guard.
ScopeOf_AttestReads(route) ==
  IF route \in {"create", "update", "delete", "submit", "activate", "cancel"}
  THEN "policy:write" ELSE "policy:read"

ScopeOf(route) ==
  IF route \in {"create", "update", "delete", "submit", "activate", "cancel",
                "attest"}
  THEN "policy:write" ELSE "policy:read"

\* ValidateJWT and RequireScope, where authentication is configured.
Authenticated(r) == config.auth => r.token.valid
Registered(r) == r.route \in DocumentRoutes => config.documents
Permitted(r) == config.auth => ScopeOf(r.route) \in r.token.scopes

\* uuid.Parse, the JSON decoder, validate.Struct.  The list route leaves cursor
\* and status to the repository.
\* Mutant: the validator is not called.
Decoded_Unvalidated(r) == r.garbled => r.route = "list"

Decoded(r) == /\ r.garbled => r.route = "list"
              /\ r.call.fields \notin Incomplete

\* TransitionHandler.Cancel asks for a reason itself.
Reasoned(r) == r.route = "cancel" => r.call.reason # ""

\* The code of the first check that fails.
Refusal(r, c) ==
  \/ ~Authenticated(r) /\ c = 401
  \/ Authenticated(r) /\
     \/ ~Registered(r) /\ c = 404
     \/ Registered(r) /\
        \/ ~Permitted(r) /\ c = 403
        \/ Permitted(r) /\
           \/ ~Decoded(r) /\ c = 400
           \/ Decoded(r) /\ ~Reasoned(r) /\ c = 422

Admitted(r) == /\ Authenticated(r) /\ Registered(r) /\ Permitted(r)
               /\ Decoded(r) /\ Reasoned(r)

------------------------------------------------------------------------------
(* Codes *)

Success(op) == CASE op = "create" -> 201
                 [] op = "delete" -> 204
                 [] OTHER -> 200

\* The switches over the errors of the service; an error a handler does not
\* know is a 500.  UpdatePolicy knows of Validate's errors only the date range.
StatusCode(c, answer) ==
  CASE answer = "ok" -> Success(c.op)
    [] answer = "not_found" /\ c.op # "create" -> 404
    [] answer = "conflict" /\ c.op \notin {"get", "history", "update"} -> 409
    [] answer = "invalid" /\ c.op = "create" -> 400
    [] answer = "invalid" /\ c.op = "update" /\ c.fields \notin Incomplete -> 400
    [] answer = "invalid" /\ c.op = "cancel" -> 422
    [] OTHER -> 500

\* The goroutine writes c and is done with its request.
\* Mutant: what is known of the request outlives it.
AnswerWith_NotReset(h, c) ==
  /\ request' = [request EXCEPT ![h] = NoRequest]
  /\ code' = [code EXCEPT ![h] = c]
  /\ UNCHANGED wrote

AnswerWith(h, c) ==
  /\ request' = [request EXCEPT ![h] = NoRequest]
  /\ code' = [code EXCEPT ![h] = c]
  /\ wrote' = [wrote EXCEPT ![h] = FALSE]

------------------------------------------------------------------------------
(* Requests *)

Free(h) == pc[h] = "idle" /\ request[h] = NoRequest

CountOther == others < MaxOthers /\ others' = others + 1

\* Without authentication nobody looks at a token.
Presented == IF config.auth THEN Token ELSE {NoToken}

\* A request that no service sees.
AnswerUnserved(h, c) ==
  /\ code' = [code EXCEPT ![h] = c]
  /\ fault' = [fault EXCEPT ![h] = FALSE]
  /\ UNCHANGED <<vars, config, request, wrote>>

\* /healthz is outside /v1 and asks nobody.
Healthz(h) == Free(h) /\ CountOther /\ AnswerUnserved(h, 200)

Refuse(h) ==
  /\ Free(h) /\ CountOther
  /\ \E c \in {c \in {400, 401, 403, 404, 422} :
                \E r \in Operations(Presented) \cup Queries(Presented) :
                  Refusal(r, c)} :
       AnswerUnserved(h, c)

Admit(h, r) ==
  /\ Free(h) /\ Admitted(r)
  /\ request' = [request EXCEPT ![h] = r]
  /\ code' = [code EXCEPT ![h] = 0]
  /\ fault' = [fault EXCEPT ![h] = FALSE]
  /\ UNCHANGED <<config, wrote>>

\* A policy operation: the service is called with what was decoded.
Operate(h) ==
  /\ Receive(h)
  /\ \E t \in Presented, g \in BOOLEAN :
       Admit(h, [route |-> call'[h].op, token |-> t, garbled |-> g,
                 call |-> call'[h]])
  /\ UNCHANGED others

\* A route whose service only reads, as far as the policies go.
Query(h) ==
  /\ CountOther
  /\ \E r \in Queries(Presented) : Admit(h, r)
  /\ UNCHANGED vars

------------------------------------------------------------------------------
(* Serving *)

\* A step of the service; its answer becomes a status code.
Carry(h) ==
  /\ wrote' = [wrote EXCEPT ![h] = @ \/ policies' # policies]
  /\ UNCHANGED <<request, code>>

ServiceStep(h) ==
  /\ pc[h] = "insert" => config.database
  /\ Progress(h)
  /\ IF pc'[h] = "idle"
     THEN AnswerWith(h, StatusCode(call[h], reply'[h]))
     ELSE Carry(h)
  /\ UNCHANGED <<config, fault, others>>

\* NullPolicyRepo.Create: nothing is stored, nothing is announced, and the
\* service is content.  (The other null operations are PolicyService's on empty
\* tables.)
\* Mutant: a publisher is connected all the same.
NullCreate_Announced(h) ==
  /\ pc[h] = "insert" /\ ~config.database
  /\ \E p \in Policies :
       events' = events \cup {[type |-> "created", id |-> p,
                              occurred_at |-> mem[h].updated_at]}
  /\ Finish(h, "ok")
  /\ AnswerWith(h, StatusCode(call[h], "ok"))
  /\ UNCHANGED <<tables, now, received, config, fault, others>>

NullCreate(h) ==
  /\ pc[h] = "insert" /\ ~config.database
  /\ Finish(h, "ok")
  /\ AnswerWith(h, StatusCode(call[h], "ok"))
  /\ UNCHANGED <<tables, events, now, received, config, fault, others>>

\* A dependency fails, or the process dies and no code is written.
ServiceFails(h) ==
  /\ Fail(h)
  /\ fault' = [fault EXCEPT ![h] = TRUE]
  /\ \/ AnswerWith(h, StatusCode(call[h], reply'[h]))
     \/ AnswerWith(h, 0)
  /\ UNCHANGED <<config, others>>

\* ListPolicies: the cursor is decoded by the repository, the status goes into
\* its query, and any error is a 500.  The null repository looks at neither.
List(h) ==
  /\ request[h].route = "list"
  /\ AnswerWith(h, IF config.database /\ request[h].garbled
                      THEN 500 ELSE 200)
  /\ UNCHANGED <<vars, config, fault, others>>

\* The answers of DocumentService, by the policy it reads.
Document(h) ==
  LET status == policies[request[h].call.id].status
      eligible == status \in {"active", "amended"}
  IN  /\ request[h].route \in DocumentRoutes
      /\ \/ status = "" /\ AnswerWith(h, 404)
         \/ /\ status # "" /\ request[h].route = "documents"
            /\ AnswerWith(h, 200)
         \/ /\ status # "" /\ request[h].route = "attest"
            /\ AnswerWith(h, IF eligible THEN 201 ELSE 409)
      /\ UNCHANGED <<vars, config, fault, others>>

QueryFails(h) ==
  /\ request[h].route \in {"list"} \cup DocumentRoutes
  /\ fault' = [fault EXCEPT ![h] = TRUE]
  /\ AnswerWith(h, 500) \/ AnswerWith(h, 0)
  /\ UNCHANGED <<vars, config, others>>

------------------------------------------------------------------------------
HttpNext ==
  \E h \in Handlers :
    \/ Healthz(h) \/ Refuse(h) \/ Operate(h) \/ Query(h)
    \/ ServiceStep(h) \/ NullCreate(h) \/ ServiceFails(h)
    \/ List(h) \/ Document(h) \/ QueryFails(h)

HttpSpec == HttpInit /\ [][HttpNext]_httpVars

------------------------------------------------------------------------------
(* Properties *)

\* The step in which h answers the request it serves.
Answers(h) == request[h] # NoRequest /\ request'[h] = NoRequest

\* The routes that change policies.
Writes(route) ==
  route \in {"create", "update", "delete", "submit", "activate", "cancel"}

\* A caller can tell from the code what its request did: with a 2xx its write
\* is committed, with a 4xx it has changed nothing, and only a 500 or a broken
\* connection leaves it in doubt, whatever failed on the way (the switches at
\* the end of every handler).  Without a database there is nothing to commit to.
AnswerTellsEffect ==
  [][\A h \in Handlers :
       Answers(h) =>
         /\ code'[h] \in 400 .. 499 => ~wrote[h]
         /\ /\ config.database /\ Writes(request[h].route)
            /\ code'[h] \in 200 .. 299
            => wrote[h]]_httpVars

\* What only the repository finds wrong with a request.
RepositoryRefuses(r) ==
  /\ config.database
  /\ \/ r.route = "list" /\ r.garbled
     \/ {r.call.number, r.call.fields, r.call.reason} \cap Unstorable # {}

\* What the validator and Validate refuse, and every conflict, however the policy
\* moved while the request was served, gets a code of its own: a 500 has a
\* failure behind it, or data that nothing before the repository refuses (the
\* default branches of the switches over the errors of the service).
ServerErrorHasCause ==
  [][\A h \in Handlers :
       Answers(h) /\ code'[h] = 500 =>
         fault'[h] \/ RepositoryRefuses(request[h])]_httpVars

\* A deployment without a database tells nobody of policies it does not have:
\* nothing is kept, nothing is announced, and no route but the creation and the
\* empty list answers as if there were a policy (main.go:124).
NothingWithoutDatabase ==
  [][~config.database =>
       /\ events' = {} /\ audit_log' = {} /\ \A p \in Policies : ~Stored(p)'
       /\ \A h \in Handlers :
            Answers(h) /\ code'[h] \in 200 .. 299 =>
              request[h].route \in {"create", "list"}]_httpVars

\* A caller that repeats a creation it was left in doubt about, until it gets a
\* 201 or a 409, ends with exactly one policy of that number.
CreatedOnce ==
  [][\A h \in Handlers :
       /\ Answers(h) /\ request[h].route = "create"
       /\ config.database /\ code'[h] \in {201, 409}
       => \E p \in Policies :
            {q \in Policies : policies'[q].number = request[h].call.number}
              = {p}]_httpVars

\* Did the request of h change a policy, or may its attestation have left an
\* object or a row: any answer but not found and not eligible.
Changes(h) ==
  \/ wrote'[h]
  \/ Answers(h) /\ request[h].route = "attest" /\ code'[h] \notin {404, 409}

\* Is h answered with what a reading route shows.
Shows(h) == /\ Answers(h) /\ code'[h] \in 200 .. 299
            /\ request[h].route \in {"get", "history", "list", "documents"}

\* With authentication, who changed a policy or made an attestation held
\* policy:write, and who read a policy, a history, the list or the documents held
\* policy:read, on every route and whatever failed (NewRouter).  A writer is
\* answered with the policy it changed, and needs no policy:read for that
\* (UpdatePolicy, TransitionHandler).
ScopesKept ==
  [][\A h \in Handlers :
       config.auth =>
         /\ Changes(h) => /\ request[h].token.valid
                          /\ "policy:write" \in request[h].token.scopes
         /\ Shows(h) => /\ request[h].token.valid
                        /\ "policy:read" \in request[h].token.scopes]_httpVars

==============================================================================
