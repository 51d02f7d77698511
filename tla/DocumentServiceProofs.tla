------------------------ MODULE DocumentServiceProofs ------------------------
(***************************************************************************)
(* Theorems about DocumentService, for any handlers, policies and          *)
(* statuses, and any number of requests, changes and seconds.              *)
(*                                                                         *)
(* What an object is worth depends on the request that made it, and that   *)
(* request may be long over when another replaces the object or fails to   *)
(* record its own.  The invariant therefore speaks of three things at      *)
(* once: what each handler has done so far, what every object shows, and   *)
(* how the request behind every object ended.                              *)
(***************************************************************************)
EXTENDS DocumentService, TLAPS

Busy(h) == pc[h] # "idle"

\* A request is at work in one goroutine, and has no outcome until it is over.
RequestsApart ==
  \A h \in Handlers : Busy(h) =>
    /\ call[h].policy \in Policies
    /\ call[h].op \in {"attest", "list"}
    /\ call[h].request \in 1 .. received
    /\ outcome[call[h].request] = ""
    /\ \A g \in Handlers \ {h} : Busy(g) => call[g].request # call[h].request

Unasked == \A n \in Requests : n > received => outcome[n] = ""

\* The version p was shown in is one it had, and was an eligible one.
Shown(p, version) == version \in 1 .. Len(history[p]) /\ Eligible(p, version)

\* What a handler that attests has done when it is at pc[h].
Work(h) ==
  /\ pc[h] = "called" => call[h].since <= Current(h)
  /\ pc[h] \notin {"idle", "called"} =>
       /\ call[h].op = "attest"
       /\ Shown(call[h].policy, read[h])
       /\ call[h].since <= read[h]
  /\ pc[h] \in {"put", "stored", "recorded"} =>
       key[h] \in Keys /\ key[h][1] = call[h].policy
  /\ pc[h] \in {"stored", "recorded"} => objects[key[h]] # None
  /\ pc[h] = "recorded" =>
       \E d \in documents : d.request = call[h].request /\ d.key = key[h]

WorkDone == \A h \in Handlers : Work(h)

\* An object shows the policy its key names as it was when it was eligible.
ObjectsShow ==
  \A k \in Keys : objects[k] # None =>
    objects[k].policy = k[1] /\ Shown(k[1], objects[k].version)

\* A row points to an object of its policy.
RowsPoint ==
  \A d \in documents : d.key[1] = d.policy /\ objects[d.key] # None

\* The request behind an object without a row failed, or is about to record it.
Behind(k) ==
  LET n == objects[k].request
  IN  \/ \E d \in documents : d.key = k
      \/ outcome[n] = "error"
      \/ /\ n <= received /\ outcome[n] = ""
         /\ \A h \in Handlers : Busy(h) /\ call[h].request = n =>
              pc[h] \in {"stored", "recorded"} /\ key[h] = k

ObjectsAccountedFor == \A k \in Keys : objects[k] # None => Behind(k)

IInv == /\ TypeOK /\ RequestsApart /\ Unasked /\ WorkDone
        /\ ObjectsShow /\ RowsPoint /\ ObjectsAccountedFor

------------------------------------------------------------------------------
LEMMA Bounds ==
  MaxRequests \in Nat /\ MaxSecond \in Nat /\ None \notin Policies /\ None \notin Pdf
BY DocumentAssumption DEF Pdf, Requests

LEMMA Counters ==
  ASSUME TypeOK
  PROVE  received \in Nat /\ received <= MaxRequests /\ second \in 0 .. MaxSecond
<1>1. received \in 0 .. MaxRequests /\ second \in 0 .. MaxSecond
  BY DEF TypeOK
<1>2. QED
  BY <1>1, Bounds

LEMMA RequestNumbers ==
  ASSUME TypeOK, NEW n \in 1 .. received
  PROVE  n \in Requests /\ n <= received
BY Counters, Bounds DEF Requests

LEMMA InitIInv == Init => IInv
<1> SUFFICES ASSUME Init PROVE IInv
  OBVIOUS
<1>1. TypeOK
  <2>1. NoCall \in Call
    BY DocumentAssumption DEF NoCall, Call
  <2>2. history \in [Policies -> Seq(Statuses)]
    <3>1. \A s \in Statuses : <<s>> \in Seq(Statuses)
      OBVIOUS
    <3>2. <<>> \in Seq(Statuses)
      OBVIOUS
    <3>3. QED
      BY <3>1, <3>2 DEF Init
  <2>3. 0 \in 0 .. MaxSecond /\ 0 \in 0 .. MaxRequests
    BY DocumentAssumption
  <2>4. QED
    BY <2>1, <2>2, <2>3 DEF Init, TypeOK
<1>2. \A h \in Handlers : pc[h] = "idle"
  BY DEF Init
<1>3. documents = {} /\ \A k \in Keys : objects[k] = None
  BY DEF Init
<1>4. QED
  BY <1>1, <1>2, <1>3 DEF Init, IInv, RequestsApart, Unasked, Busy, WorkDone, Work,
     ObjectsShow, RowsPoint, ObjectsAccountedFor

\* A version a policy had stays what it was.
LEMMA ShownStable ==
  ASSUME TypeOK, NEW p \in Policies, NEW q \in Policies, NEW s \in Statuses,
         history' = [history EXCEPT ![p] = Append(@, s)],
         NEW v, Shown(q, v)
  PROVE  Shown(q, v)'
<1>1. history[p] \in Seq(Statuses) /\ history[q] \in Seq(Statuses)
  BY DEF TypeOK
<1>2. CASE q # p
  BY <1>2 DEF Shown, Eligible, TypeOK
<1>3. CASE q = p
  <2>1. history'[q] = Append(history[q], s)
    BY <1>3 DEF TypeOK
  <2>2. /\ Len(history'[q]) = Len(history[q]) + 1
        /\ \A i \in 1 .. Len(history[q]) : history'[q][i] = history[q][i]
    BY <2>1, <1>1
  <2>3. Len(history[q]) \in Nat
    BY <1>1
  <2>4. v \in 1 .. Len(history[q]) /\ history[q][v] \in {"active", "amended"}
    BY DEF Shown, Eligible
  <2>5. v \in 1 .. Len(history'[q]) /\ history'[q][v] \in {"active", "amended"}
    BY <2>2, <2>3, <2>4
  <2>6. QED
    BY <2>5 DEF Shown, Eligible
<1>4. QED
  BY <1>2, <1>3

LEMMA ChangeStep ==
  ASSUME IInv, NEW p \in Policies, Change(p)
  PROVE  IInv'
<1>1. PICK s \in Statuses : history' = [history EXCEPT ![p] = Append(@, s)]
  BY DEF Change
<1>2. UNCHANGED <<objects, documents, second, pc, call, read, key, received,
                  outcome>>
  BY DEF Change
<1>3. TypeOK'
  <2>1. history[p] \in Seq(Statuses)
    BY DEF IInv, TypeOK
  <2>2. Append(history[p], s) \in Seq(Statuses)
    BY <2>1
  <2>3. history' \in [Policies -> Seq(Statuses)]
    BY <1>1, <2>2 DEF IInv, TypeOK
  <2>4. QED
    BY <1>2, <2>3 DEF IInv, TypeOK
<1>4. \A q \in Policies : \A v : Shown(q, v) => Shown(q, v)'
  BY <1>1, ShownStable DEF IInv
<1>5. RequestsApart' /\ Unasked'
  BY <1>2 DEF IInv, RequestsApart, Unasked, Busy
<1>6. WorkDone'
  <2> SUFFICES ASSUME NEW h \in Handlers PROVE Work(h)'
    BY DEF WorkDone
  <2>1. Work(h)
    BY DEF IInv, WorkDone
  <2>2. pc[h] # "idle" => call[h].policy \in Policies
    BY DEF IInv, RequestsApart, Busy
  <2>3. pc[h] \notin {"idle", "called"} =>
          Shown(call[h].policy, read[h])'
    BY <1>2, <1>4, <2>1, <2>2 DEF Work
  <2>4. pc[h] = "called" => call[h].since <= Current(h)'
    <3> SUFFICES ASSUME pc[h] = "called" PROVE call[h].since <= Current(h)'
      OBVIOUS
    <3>1. call[h].since <= Current(h) /\ call[h].since \in Nat
      BY <2>1 DEF Work, IInv, TypeOK, Call
    <3>2. Current(h)' = Len(history'[call[h].policy])
      BY <1>2 DEF Current
    <3>3. CASE call[h].policy = p
      <4>1. history[p] \in Seq(Statuses)
        BY DEF IInv, TypeOK
      <4>2. history'[p] = Append(history[p], s)
        BY <1>1 DEF IInv, TypeOK
      <4>3. Len(history[p]) \in Nat /\ Len(history'[p]) = Len(history[p]) + 1
        BY <4>1, <4>2
      <4>4. QED
        BY <3>1, <3>2, <3>3, <4>3 DEF Current
    <3>4. CASE call[h].policy # p
      <4>1. history'[call[h].policy] = history[call[h].policy]
        BY <1>1, <2>2, <3>4 DEF IInv, TypeOK
      <4>2. QED
        BY <3>1, <3>2, <4>1 DEF Current
    <3>5. QED
      BY <3>3, <3>4
  <2>5. QED
    BY <1>2, <2>1, <2>3, <2>4 DEF Work
<1>7. ObjectsShow'
  BY <1>2, <1>4 DEF IInv, ObjectsShow, Keys
<1>8. RowsPoint' /\ ObjectsAccountedFor'
  BY <1>2 DEF IInv, RowsPoint, ObjectsAccountedFor, Behind, Busy
<1>9. QED
  BY <1>3, <1>5, <1>6, <1>7, <1>8 DEF IInv

\* Nothing of the invariant looks at the clock.
LEMMA TickStep == IInv /\ Tick => IInv'
<1> SUFFICES ASSUME IInv, Tick PROVE IInv'
  OBVIOUS
<1>1. UNCHANGED <<history, objects, documents, pc, call, read, key, received,
                  outcome>>
  BY DEF Tick
<1>2. TypeOK'
  <2>1. second' \in 0 .. MaxSecond
    BY Counters, Bounds DEF IInv, Tick
  <2>2. QED
    BY <1>1, <2>1 DEF IInv, TypeOK
<1>3. RequestsApart' /\ Unasked' /\ RowsPoint'
  BY <1>1 DEF IInv, RequestsApart, Unasked, Busy, RowsPoint
<1>4. WorkDone'
  BY <1>1 DEF IInv, WorkDone, Work, Shown, Eligible, Current
<1>5. ObjectsShow'
  BY <1>1 DEF IInv, ObjectsShow, Shown, Eligible
<1>6. ObjectsAccountedFor'
  BY <1>1 DEF IInv, ObjectsAccountedFor, Behind, Busy
<1>7. QED
  BY <1>2, <1>3, <1>4, <1>5, <1>6 DEF IInv

LEMMA ReceiveStep ==
  ASSUME IInv, NEW h \in Handlers, Receive(h)
  PROVE  IInv'
<1>1. PICK op \in {"attest", "list"}, p \in Policies :
        call' = [call EXCEPT ![h] = [op |-> op, policy |-> p,
                                     request |-> received + 1,
                                     since |-> Len(history[p])]]
  BY DEF Receive
<1> DEFINE c == [op |-> op, policy |-> p, request |-> received + 1,
                 since |-> Len(history[p])]
<1>2. /\ received' = received + 1 /\ received < MaxRequests /\ received \in Nat
      /\ received' \in Requests /\ received' \in 0 .. MaxRequests
      /\ MaxRequests \in Nat /\ pc[h] = "idle"
  BY Counters, Bounds DEF Receive, IInv, Requests
<1>3. UNCHANGED <<history, objects, documents, second, read, key, outcome>>
  BY DEF Receive, world
<1>4. /\ pc'[h] = "called" /\ call'[h] = c
      /\ \A g \in Handlers \ {h} : pc'[g] = pc[g] /\ call'[g] = call[g]
  BY <1>1 DEF Receive, IInv, TypeOK
<1>5. TypeOK'
  <2>1. history[p] \in Seq(Statuses)
    BY DEF IInv, TypeOK
  <2>2. Len(history[p]) \in Nat
    BY <2>1
  <2>3. c \in Call
    <3>1. received + 1 \in 0 .. MaxRequests
      BY <1>2
    <3>2. QED
      BY <2>2, <3>1 DEF Call
  <2>4. call' \in [Handlers -> Call]
    BY <1>1, <2>3 DEF IInv, TypeOK
  <2>5. pc' \in [Handlers -> {"idle", "called", "upload", "put", "stored",
                              "recorded"}]
    BY DEF IInv, TypeOK, Receive
  <2>6. QED
    BY <1>2, <1>3, <2>4, <2>5 DEF IInv, TypeOK
<1>6. RequestsApart'
  <2>1. outcome[received + 1] = ""
    <3>1. received + 1 \in Requests /\ received + 1 > received
      BY <1>2
    <3>2. QED
      BY <3>1 DEF IInv, Unasked
  <2>2. ASSUME NEW g \in Handlers \ {h}, Busy(g)'
        PROVE  /\ call'[g] = call[g] /\ Busy(g)
               /\ call[g].request \in 1 .. received'
               /\ call[g].request # received + 1
    <3>1. call'[g] = call[g] /\ Busy(g)
      BY <1>4, <2>2 DEF Busy
    <3>2. call[g].request \in 1 .. received
      BY <3>1 DEF IInv, RequestsApart
    <3>3. QED
      BY <1>2, <3>1, <3>2
  <2>3. received + 1 \in 1 .. received'
    BY <1>2
  <2>4. ASSUME NEW g \in Handlers, Busy(g)'
        PROVE  /\ call'[g].policy \in Policies
               /\ call'[g].op \in {"attest", "list"}
               /\ call'[g].request \in 1 .. received'
               /\ outcome'[call'[g].request] = ""
    <3>1. CASE g = h
      <4>1. call'[g].policy = p /\ call'[g].op = op
            /\ call'[g].request = received + 1
        BY <1>4, <3>1
      <4>2. QED
        BY <1>3, <2>1, <2>3, <4>1
    <3>2. CASE g # h
      BY <1>3, <2>2, <2>4, <3>2 DEF IInv, RequestsApart
    <3>3. QED
      BY <3>1, <3>2
  <2>5. ASSUME NEW g \in Handlers, NEW k \in Handlers \ {g}, Busy(g)', Busy(k)'
        PROVE  call'[k].request # call'[g].request
    <3>1. CASE g = h \/ k = h
      BY <1>4, <2>2, <2>5, <3>1
    <3>2. CASE g # h /\ k # h
      <4>1. call'[g] = call[g] /\ Busy(g) /\ call'[k] = call[k] /\ Busy(k)
        BY <2>2, <2>5, <3>2
      <4>2. QED
        BY <4>1 DEF IInv, RequestsApart
    <3>3. QED
      BY <3>1, <3>2
  <2>6. QED
    BY <2>4, <2>5 DEF RequestsApart
<1>7. Unasked'
  <2>1. \A n \in Requests : n > received' => n > received
    BY <1>2 DEF Requests
  <2>2. QED
    BY <1>3, <2>1 DEF IInv, Unasked
<1>8. WorkDone'
  <2> SUFFICES ASSUME NEW g \in Handlers PROVE Work(g)'
    BY DEF WorkDone
  <2>1. CASE g = h
    <3>1. history[p] \in Seq(Statuses)
      BY DEF IInv, TypeOK
    <3>2. Len(history[p]) \in Nat
      BY <3>1
    <3>3. call'[h].since = Len(history[p]) /\ call'[h].policy = p
      BY <1>4
    <3>4. QED
      BY <1>3, <1>4, <2>1, <3>2, <3>3 DEF Work, Current
  <2>2. CASE g # h
    <3>1. Work(g)
      BY DEF IInv, WorkDone
    <3>2. pc'[g] = pc[g] /\ call'[g] = call[g]
      BY <1>4, <2>2
    <3>3. QED
      BY <1>3, <3>1, <3>2 DEF Work, Shown, Eligible, Current
  <2>3. QED
    BY <2>1, <2>2
<1>9. ObjectsShow' /\ RowsPoint'
  BY <1>3 DEF IInv, ObjectsShow, Shown, Eligible, RowsPoint
<1>10. ObjectsAccountedFor'
  <2> SUFFICES ASSUME NEW k \in Keys, objects[k] # None PROVE Behind(k)'
    BY <1>3 DEF ObjectsAccountedFor
  <2>1. Behind(k) /\ objects[k].request \in Requests
    BY DEF IInv, ObjectsAccountedFor, TypeOK, Pdf
  <2>2. CASE (\E d \in documents : d.key = k) \/ outcome[objects[k].request] = "error"
    BY <1>3, <2>2 DEF Behind
  <2>3. CASE /\ objects[k].request <= received
             /\ outcome[objects[k].request] = ""
             /\ \A g \in Handlers : Busy(g) /\ call[g].request = objects[k].request
                  => pc[g] \in {"stored", "recorded"} /\ key[g] = k
    <3>1. objects[k].request # received + 1 /\ objects[k].request <= received'
      <4>1. objects[k].request \in Int
        BY <2>1 DEF Requests
      <4>2. objects[k].request <= received
        BY <2>3
      <4>3. QED
        BY <1>2, <4>1, <4>2
    <3>2. ASSUME NEW g \in Handlers, Busy(g)', call'[g].request = objects[k].request
          PROVE  pc'[g] \in {"stored", "recorded"} /\ key'[g] = k
      <4>1. g # h
        BY <1>4, <3>1, <3>2
      <4>2. QED
        BY <1>3, <1>4, <2>3, <3>2, <4>1 DEF Busy
    <3>3. QED
      BY <1>3, <2>3, <3>1, <3>2 DEF Behind
  <2>4. QED
    BY <2>1, <2>2, <2>3 DEF Behind
<1>11. QED
  BY <1>5, <1>6, <1>7, <1>8, <1>9, <1>10 DEF IInv

------------------------------------------------------------------------------
(* The handler *)

Answers == {"ok", "not_found", "forbidden", "error"}

\* A request ends: an object its handler has stored is left with a row, or with
\* an error.
LEMMA FinishStep ==
  ASSUME IInv, NEW h \in Handlers, Busy(h), NEW answer \in Answers,
         Finish(h, answer),
         answer = "error" \/ pc[h] \in {"called", "recorded"}
  PROVE  IInv'
<1>1. UNCHANGED <<history, objects, documents, second, received>>
  BY DEF Finish, world
<1>2. /\ pc' = [pc EXCEPT ![h] = "idle"] /\ call' = [call EXCEPT ![h] = NoCall]
      /\ read' = [read EXCEPT ![h] = 0] /\ key' = [key EXCEPT ![h] = <<>>]
      /\ outcome' = [outcome EXCEPT ![call[h].request] = answer]
  BY DEF Finish
<1>3. /\ pc'[h] = "idle"
      /\ \A g \in Handlers \ {h} : /\ pc'[g] = pc[g] /\ call'[g] = call[g]
                                   /\ read'[g] = read[g] /\ key'[g] = key[g]
  BY <1>2 DEF IInv, TypeOK
<1>4. call[h].request \in 1 .. received /\ call[h].request \in Requests
  <2>1. call[h].request \in 1 .. received
    BY DEF IInv, RequestsApart
  <2>2. QED
    BY <2>1, RequestNumbers DEF IInv
<1>5. /\ outcome'[call[h].request] = answer
      /\ \A n \in Requests : n # call[h].request => outcome'[n] = outcome[n]
  BY <1>2, <1>4 DEF IInv, TypeOK
<1>6. TypeOK'
  <2>1. NoCall \in Call
    BY Bounds DEF NoCall, Call
  <2>2. call' \in [Handlers -> Call]
    BY <1>2, <2>1 DEF IInv, TypeOK
  <2>3. outcome' \in [Requests -> {"", "ok", "not_found", "forbidden", "error"}]
    BY <1>2 DEF IInv, TypeOK, Answers
  <2>4. pc' \in [Handlers -> {"idle", "called", "upload", "put", "stored",
                              "recorded"}]
    BY <1>2 DEF IInv, TypeOK
  <2>5. read' \in [Handlers -> Nat] /\ key' \in [Handlers -> Keys \cup {<<>>}]
    BY <1>2 DEF IInv, TypeOK
  <2>6. QED
    BY <1>1, <2>2, <2>3, <2>4, <2>5 DEF IInv, TypeOK
<1>7. ASSUME NEW g \in Handlers, Busy(g)'
      PROVE  /\ g # h /\ Busy(g) /\ call'[g] = call[g]
             /\ call[g].request # call[h].request
             /\ call[g].request \in Requests
  <2>1. g # h /\ pc'[g] = pc[g] /\ call'[g] = call[g]
    BY <1>3, <1>7 DEF Busy
  <2>2. Busy(g)
    BY <1>7, <2>1 DEF Busy
  <2>3. call[g].request # call[h].request /\ call[g].request \in 1 .. received
    BY <2>1, <2>2 DEF IInv, RequestsApart
  <2>4. QED
    BY <2>1, <2>2, <2>3, RequestNumbers DEF IInv
<1>8. RequestsApart'
  <2> SUFFICES ASSUME NEW g \in Handlers, Busy(g)'
               PROVE  /\ call'[g].policy \in Policies
                      /\ call'[g].op \in {"attest", "list"}
                      /\ call'[g].request \in 1 .. received'
                      /\ outcome'[call'[g].request] = ""
                      /\ \A k \in Handlers \ {g} : Busy(k)' =>
                           call'[k].request # call'[g].request
    BY DEF RequestsApart
  <2>1. /\ call[g].policy \in Policies /\ call[g].op \in {"attest", "list"}
        /\ call[g].request \in 1 .. received /\ outcome[call[g].request] = ""
        /\ \A k \in Handlers \ {g} : Busy(k) => call[k].request # call[g].request
    BY <1>7 DEF IInv, RequestsApart
  <2>2. QED
    BY <1>1, <1>5, <1>7, <2>1
<1>9. Unasked'
  <2>1. \A n \in Requests : n > received => n # call[h].request
    BY <1>4, Counters DEF IInv, Requests
  <2>2. QED
    BY <1>1, <1>5, <2>1 DEF IInv, Unasked
<1>10. WorkDone'
  <2> SUFFICES ASSUME NEW g \in Handlers PROVE Work(g)'
    BY DEF WorkDone
  <2>1. CASE g = h
    BY <1>3, <2>1 DEF Work
  <2>2. CASE g # h
    <3>1. Work(g)
      BY DEF IInv, WorkDone
    <3>2. /\ pc'[g] = pc[g] /\ call'[g] = call[g]
          /\ read'[g] = read[g] /\ key'[g] = key[g]
      BY <1>3, <2>2
    <3>3. QED
      BY <1>1, <3>1, <3>2 DEF Work, Shown, Eligible, Current
  <2>3. QED
    BY <2>1, <2>2
<1>11. ObjectsShow' /\ RowsPoint'
  BY <1>1 DEF IInv, ObjectsShow, Shown, Eligible, RowsPoint
<1>12. ObjectsAccountedFor'
  <2> SUFFICES ASSUME NEW k \in Keys, objects[k] # None PROVE Behind(k)'
    BY <1>1 DEF ObjectsAccountedFor
  <2> DEFINE n == objects[k].request
  <2>1. Behind(k) /\ n \in Requests
    BY DEF IInv, ObjectsAccountedFor, TypeOK, Pdf
  <2>2. CASE \E d \in documents : d.key = k
    BY <1>1, <2>2 DEF Behind
  <2>3. CASE outcome[n] = "error"
    <3>1. n # call[h].request
      BY <2>3 DEF IInv, RequestsApart
    <3>2. QED
      BY <1>1, <1>5, <2>1, <2>3, <3>1 DEF Behind
  <2>4. CASE /\ n <= received /\ outcome[n] = ""
             /\ \A g \in Handlers : Busy(g) /\ call[g].request = n =>
                  pc[g] \in {"stored", "recorded"} /\ key[g] = k
    <3>1. CASE n # call[h].request
      <4>1. outcome'[n] = ""
        BY <1>5, <2>1, <2>4, <3>1
      <4>2. ASSUME NEW g \in Handlers, Busy(g)', call'[g].request = n
            PROVE  pc'[g] \in {"stored", "recorded"} /\ key'[g] = k
        BY <1>3, <1>7, <2>4, <4>2
      <4>3. QED
        BY <1>1, <2>4, <4>1, <4>2 DEF Behind
    <3>2. CASE n = call[h].request /\ answer = "error"
      BY <1>1, <1>5, <3>2 DEF Behind
    <3>3. CASE n = call[h].request /\ answer # "error"
      <4>1. pc[h] = "recorded" /\ key[h] = k
        BY <2>4, <3>3
      <4>2. \E d \in documents : d.key = k
        BY <4>1 DEF IInv, WorkDone, Work
      <4>3. QED
        BY <1>1, <4>2 DEF Behind
    <3>4. QED
      BY <3>1, <3>2, <3>3
  <2>5. QED
    BY <2>1, <2>2, <2>3, <2>4 DEF Behind
<1>13. QED
  BY <1>6, <1>8, <1>9, <1>10, <1>11, <1>12 DEF IInv

LEMMA AnswerStep ==
  ASSUME IInv, NEW h \in Handlers,
         ReadMissing(h) \/ List(h) \/ Refuse(h) \/ Answer(h) \/ Fail(h)
  PROVE  IInv'
<1>1. PICK answer \in Answers :
        /\ Finish(h, answer)
        /\ Busy(h)
        /\ answer = "error" \/ pc[h] \in {"called", "recorded"}
  BY DEF ReadMissing, List, Refuse, Answer, Fail, Busy, Answers
<1>2. QED
  BY <1>1, FinishStep

\* Any step of a handler that goes on with its request.
LEMMA RequestGoesOn ==
  ASSUME IInv, NEW h \in Handlers, NEW from, NEW to, Step(h, from, to),
         from # "idle", to \in {"upload", "put", "stored", "recorded"}
  PROVE  /\ RequestsApart' /\ Unasked'
         /\ pc[h] = from /\ pc'[h] = to
         /\ \A g \in Handlers \ {h} : pc'[g] = pc[g]
         /\ \A g \in Handlers : Busy(g)' <=> Busy(g)
         /\ pc' \in [Handlers -> {"idle", "called", "upload", "put", "stored",
                                  "recorded"}]
<1>1. /\ pc[h] = from /\ pc' = [pc EXCEPT ![h] = to]
      /\ UNCHANGED <<call, received, outcome>>
  BY DEF Step
<1>2. /\ pc'[h] = to /\ \A g \in Handlers \ {h} : pc'[g] = pc[g]
      /\ pc' \in [Handlers -> {"idle", "called", "upload", "put", "stored",
                               "recorded"}]
  BY <1>1 DEF IInv, TypeOK
<1>3. \A g \in Handlers : Busy(g)' <=> Busy(g)
  BY <1>1, <1>2 DEF Busy
<1>4. RequestsApart' /\ Unasked'
  BY <1>1, <1>3 DEF IInv, RequestsApart, Unasked
<1>5. QED
  BY <1>1, <1>2, <1>3, <1>4

\* The others' work is not touched by a step that leaves their variables alone
\* and takes no object and no row away.
LEMMA OthersWork ==
  ASSUME IInv, NEW g \in Handlers,
         pc'[g] = pc[g], read'[g] = read[g], key'[g] = key[g],
         UNCHANGED <<history, call>>, documents \subseteq documents',
         \A k \in Keys : objects[k] # None => objects'[k] # None
  PROVE  Work(g)'
<1>1. Work(g)
  BY DEF IInv, WorkDone
<1>2. QED
  BY <1>1 DEF Work, Shown, Eligible, Current

\* Preparing an object changes neither the bucket nor the table.
LEMMA PrepareStep ==
  ASSUME IInv, NEW h \in Handlers, Generate(h) \/ MakeKey(h)
  PROVE  IInv'
<1>1. PICK from \in {"called", "upload"}, to \in {"upload", "put"} :
        Step(h, from, to)
  BY DEF Generate, MakeKey
<1>2. UNCHANGED <<history, second, call, received, outcome, objects, documents>>
  BY <1>1 DEF Step, Generate, MakeKey
<1>3. /\ RequestsApart' /\ Unasked'
      /\ pc[h] = from /\ pc'[h] = to
      /\ \A g \in Handlers \ {h} : pc'[g] = pc[g]
      /\ \A g \in Handlers : Busy(g)' <=> Busy(g)
      /\ pc' \in [Handlers -> {"idle", "called", "upload", "put", "stored",
                               "recorded"}]
  BY <1>1, RequestGoesOn
<1>4. call[h].policy \in Policies /\ call[h] \in Call
  BY <1>3 DEF IInv, TypeOK, RequestsApart, Busy
<1>5. pc[h] \in {"called", "upload"} /\ pc'[h] \in {"upload", "put"}
  BY <1>3
<1>6. /\ TypeOK' /\ Work(h)'
      /\ \A g \in Handlers \ {h} : read'[g] = read[g] /\ key'[g] = key[g]
  <2>1. CASE Generate(h)
    <3>1. /\ read' = [read EXCEPT ![h] = Current(h)] /\ key' = key
          /\ call[h].op = "attest" /\ Eligible(call[h].policy, Current(h))
          /\ Exists(h) /\ pc'[h] = "upload" /\ pc[h] = "called"
      BY <1>3, <2>1 DEF Generate, Step
    <3>2. Current(h) \in Nat /\ Current(h) \in 1 .. Len(history[call[h].policy])
      <4>1. history[call[h].policy] \in Seq(Statuses)
        BY <1>4 DEF IInv, TypeOK
      <4>2. Len(history[call[h].policy]) \in Nat
        BY <4>1
      <4>3. QED
        BY <3>1, <4>2 DEF Current, Exists
    <3>3. call[h].since <= Current(h)
      BY <3>1 DEF IInv, WorkDone, Work
    <3>4. TypeOK'
      BY <1>2, <1>3, <3>1, <3>2 DEF IInv, TypeOK
    <3>5. read'[h] = Current(h)
      BY <3>1 DEF IInv, TypeOK
    <3>6. Shown(call[h].policy, Current(h))
      BY <3>1, <3>2 DEF Shown
    <3>7. Shown(call[h].policy, read[h])'
      BY <1>2, <3>5, <3>6 DEF Shown, Eligible
    <3>8. Work(h)'
      BY <1>2, <3>1, <3>3, <3>5, <3>7 DEF Work
    <3>9. QED
      BY <3>1, <3>4, <3>8 DEF IInv, TypeOK
  <2>2. CASE MakeKey(h)
    <3>1. /\ key' = [key EXCEPT ![h] = <<call[h].policy, second>>]
          /\ read' = read /\ pc'[h] = "put" /\ pc[h] = "upload"
      BY <1>3, <2>2 DEF MakeKey, Step
    <3>2. <<call[h].policy, second>> \in Keys
      BY <1>4, Counters DEF IInv, Keys
    <3>3. TypeOK'
      BY <1>2, <1>3, <3>1, <3>2 DEF IInv, TypeOK
    <3>4. key'[h] = <<call[h].policy, second>> /\ Work(h)
      BY <3>1 DEF IInv, TypeOK, WorkDone
    <3>5. Work(h)'
      BY <1>2, <3>1, <3>2, <3>4 DEF Work, Shown, Eligible
    <3>6. QED
      BY <3>1, <3>3, <3>5 DEF IInv, TypeOK
  <2>3. QED
    BY <2>1, <2>2
<1>7. WorkDone'
  <2> SUFFICES ASSUME NEW g \in Handlers, g # h PROVE Work(g)'
    BY <1>6 DEF WorkDone
  <2>1. QED
    BY <1>2, <1>3, <1>6, OthersWork
<1>8. ObjectsShow' /\ RowsPoint'
  BY <1>2 DEF IInv, ObjectsShow, Shown, Eligible, RowsPoint
<1>9. ObjectsAccountedFor'
  <2> SUFFICES ASSUME NEW k \in Keys, objects[k] # None PROVE Behind(k)'
    BY <1>2 DEF ObjectsAccountedFor
  <2>1. Behind(k)
    BY DEF IInv, ObjectsAccountedFor
  <2>2. ASSUME NEW g \in Handlers, Busy(g)',
               pc[g] \in {"stored", "recorded"}, key[g] = k
        PROVE  pc'[g] \in {"stored", "recorded"} /\ key'[g] = k
    BY <1>3, <1>5, <1>6, <2>2
  <2>3. QED
    BY <1>2, <1>3, <2>1, <2>2 DEF Behind
<1>10. QED
  BY <1>3, <1>6, <1>7, <1>8, <1>9 DEF IInv

LEMMA PutStep ==
  ASSUME IInv, NEW h \in Handlers, Put(h)
  PROVE  IInv'
<1> DEFINE new == [request |-> call[h].request, policy |-> call[h].policy,
                   version |-> read[h]]
<1>1. /\ Step(h, "put", "stored")
      /\ objects' = [objects EXCEPT ![key[h]] = new]
      /\ UNCHANGED <<history, second, call, received, outcome, documents, read,
                     key>>
  BY DEF Put, Step
<1>2. /\ RequestsApart' /\ Unasked'
      /\ pc[h] = "put" /\ pc'[h] = "stored"
      /\ \A g \in Handlers \ {h} : pc'[g] = pc[g]
      /\ \A g \in Handlers : Busy(g)' <=> Busy(g)
      /\ pc' \in [Handlers -> {"idle", "called", "upload", "put", "stored",
                               "recorded"}]
  BY <1>1, RequestGoesOn
<1>3. /\ call[h].policy \in Policies /\ call[h].request \in 1 .. received
      /\ outcome[call[h].request] = ""
      /\ \A g \in Handlers \ {h} : Busy(g) => call[g].request # call[h].request
  BY <1>2 DEF IInv, RequestsApart, Busy
<1>4. /\ Shown(call[h].policy, read[h]) /\ key[h] \in Keys
      /\ key[h][1] = call[h].policy /\ Work(h)
  BY <1>2 DEF IInv, WorkDone, Work
<1>5. new \in Pdf /\ new # None /\ call[h].request <= received
  <2>1. call[h].request \in Requests /\ call[h].request <= received
    BY <1>3, RequestNumbers DEF IInv
  <2>2. read[h] \in Nat
    BY DEF IInv, TypeOK
  <2>3. new \in Pdf
    BY <1>3, <2>1, <2>2 DEF Pdf
  <2>4. QED
    BY <2>1, <2>3, Bounds
<1>6. /\ objects'[key[h]] = new
      /\ \A k \in Keys : k # key[h] => objects'[k] = objects[k]
      /\ objects' \in [Keys -> Pdf \cup {None}]
  <2> HIDE DEF new
  <2>1. QED
    BY <1>1, <1>4, <1>5 DEF IInv, TypeOK
<1>7. \A k \in Keys : objects[k] # None => objects'[k] # None
  BY <1>5, <1>6
<1>8. TypeOK'
  BY <1>1, <1>2, <1>6 DEF IInv, TypeOK
<1>9. WorkDone'
  <2> SUFFICES ASSUME NEW g \in Handlers PROVE Work(g)'
    BY DEF WorkDone
  <2>1. CASE g = h
    BY <1>1, <1>2, <1>4, <1>5, <1>6, <2>1 DEF Work, Shown, Eligible
  <2>2. CASE g # h
    BY <1>1, <1>2, <1>7, <2>2, OthersWork
  <2>3. QED
    BY <2>1, <2>2
<1>10. ObjectsShow'
  <2> SUFFICES ASSUME NEW k \in Keys, objects'[k] # None
               PROVE  objects'[k].policy = k[1] /\ Shown(k[1], objects'[k].version)
    BY <1>1 DEF ObjectsShow, Shown, Eligible
  <2>2. CASE k = key[h]
    BY <1>4, <1>6, <2>2
  <2>3. CASE k # key[h]
    BY <1>6, <2>3 DEF IInv, ObjectsShow
  <2>4. QED
    BY <2>2, <2>3
<1>11. RowsPoint'
  <2>1. \A d \in documents : d.key \in Keys
    BY DEF IInv, TypeOK, Document
  <2>2. QED
    BY <1>1, <1>7, <2>1 DEF IInv, RowsPoint
<1>12. ObjectsAccountedFor'
  <2> SUFFICES ASSUME NEW k \in Keys, objects'[k] # None PROVE Behind(k)'
    BY DEF ObjectsAccountedFor
  <2>1. CASE k = key[h]
    <3>1. objects'[k].request = call[h].request
      BY <1>6, <2>1
    <3>2. ASSUME NEW g \in Handlers, Busy(g)', call'[g].request = call[h].request
          PROVE  pc'[g] \in {"stored", "recorded"} /\ key'[g] = k
      <4>1. g = h
        BY <1>1, <1>2, <1>3, <3>2
      <4>2. QED
        BY <1>1, <1>2, <2>1, <4>1
    <3>3. QED
      BY <1>1, <1>3, <1>5, <3>1, <3>2 DEF Behind
  <2>2. CASE k # key[h]
    <3>1. objects'[k] = objects[k] /\ Behind(k)
      BY <1>6, <2>2 DEF IInv, ObjectsAccountedFor
    <3>2. ASSUME NEW g \in Handlers, Busy(g)',
                 pc[g] \in {"stored", "recorded"}, key[g] = k
          PROVE  pc'[g] \in {"stored", "recorded"} /\ key'[g] = k
      BY <1>1, <1>2, <3>2
    <3>3. QED
      BY <1>1, <1>2, <3>1, <3>2 DEF Behind
  <2>3. QED
    BY <2>1, <2>2
<1>13. QED
  BY <1>2, <1>8, <1>9, <1>10, <1>11, <1>12 DEF IInv

LEMMA RecordStep ==
  ASSUME IInv, NEW h \in Handlers, Record(h)
  PROVE  IInv'
<1> DEFINE row == [request |-> call[h].request, policy |-> call[h].policy,
                   key |-> key[h]]
<1>1. /\ Step(h, "stored", "recorded")
      /\ documents' = documents \cup {row}
      /\ UNCHANGED <<history, second, call, received, outcome, objects, read,
                     key>>
  BY DEF Record, Step
<1>2. /\ RequestsApart' /\ Unasked'
      /\ pc[h] = "stored" /\ pc'[h] = "recorded"
      /\ \A g \in Handlers \ {h} : pc'[g] = pc[g]
      /\ \A g \in Handlers : Busy(g)' <=> Busy(g)
      /\ pc' \in [Handlers -> {"idle", "called", "upload", "put", "stored",
                               "recorded"}]
  BY <1>1, RequestGoesOn
<1>3. /\ call[h].policy \in Policies /\ call[h].request \in 1 .. received
      /\ key[h] \in Keys /\ key[h][1] = call[h].policy
      /\ objects[key[h]] # None /\ Work(h)
  BY <1>2 DEF IInv, RequestsApart, Busy, WorkDone, Work
<1>4. row \in Document
  <2>1. call[h].request \in Requests
    BY <1>3, RequestNumbers DEF IInv
  <2>2. QED
    BY <1>3, <2>1 DEF Document
<1>5. TypeOK'
  <2>1. documents' \subseteq Document
    BY <1>1, <1>4 DEF IInv, TypeOK
  <2>2. QED
    BY <1>1, <1>2, <2>1 DEF IInv, TypeOK
<1>6. WorkDone'
  <2> SUFFICES ASSUME NEW g \in Handlers PROVE Work(g)'
    BY DEF WorkDone
  <2>1. CASE g = h
    <3>1. row \in documents' /\ row.request = call[h].request /\ row.key = key[h]
      BY <1>1
    <3>2. \E d \in documents' : d.request = call[h].request /\ d.key = key[h]
      BY <3>1
    <3>3. QED
      BY <1>1, <1>2, <1>3, <2>1, <3>2 DEF Work, Shown, Eligible
  <2>2. CASE g # h
    BY <1>1, <1>2, <2>2, OthersWork
  <2>3. QED
    BY <2>1, <2>2
<1>7. ObjectsShow'
  BY <1>1 DEF IInv, ObjectsShow, Shown, Eligible
<1>8. RowsPoint'
  <2>1. row.key[1] = row.policy /\ objects[row.key] # None
    BY <1>3
  <2>2. QED
    BY <1>1, <2>1 DEF IInv, RowsPoint
<1>9. ObjectsAccountedFor'
  <2> SUFFICES ASSUME NEW k \in Keys, objects[k] # None PROVE Behind(k)'
    BY <1>1 DEF ObjectsAccountedFor
  <2>1. Behind(k)
    BY DEF IInv, ObjectsAccountedFor
  <2>2. \A g \in Handlers : pc[g] \in {"stored", "recorded"} =>
          pc'[g] \in {"stored", "recorded"}
    BY <1>2
  <2>3. QED
    BY <1>1, <1>2, <2>1, <2>2 DEF Behind
<1>10. QED
  BY <1>2, <1>5, <1>6, <1>7, <1>8, <1>9 DEF IInv

LEMMA NextIInv == IInv /\ [Next]_vars => IInv'
<1> SUFFICES ASSUME IInv, [Next]_vars PROVE IInv'
  OBVIOUS
<1>1. CASE UNCHANGED vars
  <2>1. UNCHANGED <<history, objects, documents, second, pc, call, read, key,
                    received, outcome>>
    BY <1>1 DEF vars
  <2>2. RequestsApart' /\ Unasked' /\ RowsPoint'
    BY <2>1 DEF IInv, RequestsApart, Unasked, Busy, RowsPoint
  <2>3. TypeOK'
    BY <2>1 DEF IInv, TypeOK
  <2>4. WorkDone'
    BY <2>1 DEF IInv, WorkDone, Work, Shown, Eligible, Current
  <2>5. ObjectsShow'
    BY <2>1 DEF IInv, ObjectsShow, Shown, Eligible
  <2>6. ObjectsAccountedFor'
    <3>1. \A k \in Keys : Behind(k)' <=> Behind(k)
      BY <2>1 DEF Behind, Busy
    <3>2. QED
      BY <2>1, <3>1 DEF IInv, ObjectsAccountedFor
  <2>7. QED
    BY <2>2, <2>3, <2>4, <2>5, <2>6 DEF IInv
<1>2. CASE Next
  BY <1>2, ChangeStep, TickStep, ReceiveStep, AnswerStep, PrepareStep, PutStep,
     RecordStep DEF Next
<1>3. QED
  BY <1>1, <1>2

\* A goroutine ends its attestation with success in one place only.
LEMMA OnlySuccess ==
  ASSUME IInv, [Next]_vars, NEW h \in Handlers,
         call[h].op = "attest", call'[h].op = "",
         outcome'[call[h].request] = "ok"
  PROVE  Busy(h) /\ pc[h] = "recorded"
<1>1. call'[h] # call[h]
  OBVIOUS
<1>2. PICK g \in Handlers :
        \/ Receive(g) \/ ReadMissing(g) \/ List(g) \/ Refuse(g)
        \/ Generate(g) \/ MakeKey(g) \/ Put(g) \/ Record(g) \/ Answer(g)
        \/ Fail(g)
  BY <1>1 DEF Next, vars, Change, Tick
<1>3. ~(Generate(g) \/ MakeKey(g) \/ Put(g) \/ Record(g))
  BY <1>1 DEF Generate, MakeKey, Put, Record, Step
<1>4. ~Receive(g)
  <2> SUFFICES ASSUME Receive(g) PROVE FALSE
    OBVIOUS
  <2>1. PICK op \in {"attest", "list"}, p \in Policies :
          call' = [call EXCEPT ![g] = [op |-> op, policy |-> p,
                                       request |-> received + 1,
                                       since |-> Len(history[p])]]
    BY DEF Receive
  <2>2. call'[h] = call[h] \/ call'[h].op = op
    BY <2>1 DEF IInv, TypeOK
  <2>3. QED
    BY <1>1, <2>2
<1>5. PICK answer \in Answers :
        /\ Finish(g, answer) /\ Busy(g)
        /\ answer = "ok" => pc[g] = "recorded" \/ call[g].op = "list"
  BY <1>2, <1>3, <1>4
     DEF ReadMissing, List, Refuse, Answer, Fail, Busy, Answers
<1>6. g = h
  BY <1>1, <1>5 DEF Finish, IInv, TypeOK
<1>7. call[h].request \in Requests
  <2>1. call[h].request \in 1 .. received
    BY <1>5, <1>6 DEF IInv, RequestsApart
  <2>2. QED
    BY <2>1, RequestNumbers DEF IInv
<1>8. answer = "ok"
  BY <1>5, <1>6, <1>7 DEF Finish, IInv, TypeOK
<1>9. QED
  BY <1>5, <1>6, <1>8

------------------------------------------------------------------------------
\* IInv is an invariant of the document service.
THEOREM Invariance == Spec => []IInv
BY InitIInv, NextIInv, PTL DEF Spec

\* The types of DocumentService: in particular every row has a request of its
\* own and a key that Upload can make.
THEOREM TypeCorrect == Spec => []TypeOK
<1>1. IInv => TypeOK
  BY DEF IInv
<1>2. QED
  BY <1>1, Invariance, PTL

\* A document row points to an attestation of its policy made when the policy
\* was eligible, whichever request of that second won (GenerateAttestation).
THEOREM RecordedAreStored == Spec => []RecordedIsStored
<1>1. IInv => RecordedIsStored
  <2> SUFFICES ASSUME IInv, NEW d \in documents
               PROVE  /\ objects[d.key] # None
                      /\ objects[d.key].policy = d.policy
                      /\ Eligible(d.policy, objects[d.key].version)
    BY DEF RecordedIsStored
  <2>1. d.key \in Keys /\ d.key[1] = d.policy /\ objects[d.key] # None
    BY DEF IInv, TypeOK, Document, RowsPoint
  <2>2. QED
    BY <2>1 DEF IInv, ObjectsShow, Shown
<1>2. QED
  BY <1>1, Invariance, PTL

\* Only requests that failed, or are under way, leave objects without a row.
THEOREM OrphansAreFailures == Spec => []OrphansHaveFailed
<1>1. IInv => OrphansHaveFailed
  BY DEF IInv, OrphansHaveFailed, ObjectsAccountedFor, Behind
<1>2. QED
  BY <1>1, Invariance, PTL

\* Success is told only of a recorded attestation of a policy that was eligible
\* at some moment of the call.
THEOREM GrantsAreEligible == Spec => GrantedWhileEligible
<1>1. ASSUME IInv, [Next]_vars, NEW h \in Handlers,
             call[h].op = "attest", call'[h].op = "",
             outcome'[call[h].request] = "ok"
      PROVE  Granted(h)
  <2>1. call'[h] # call[h]
    BY <1>1
  <2>2. Busy(h) /\ pc[h] = "recorded"
    BY <1>1, <2>1, OnlySuccess
  <2>3. Work(h) /\ call[h].policy \in Policies
    BY <1>1, <2>2 DEF IInv, WorkDone, RequestsApart
  <2>4. /\ \E d \in documents : d.request = call[h].request
        /\ Shown(call[h].policy, read[h]) /\ call[h].since <= read[h]
    BY <2>2, <2>3 DEF Work
  <2>5. read[h] \in Nat /\ call[h].since \in Nat /\ Current(h) \in Nat
        /\ read[h] > 0 /\ read[h] <= Current(h)
    <3>1. history[call[h].policy] \in Seq(Statuses)
      BY <1>1, <2>3 DEF IInv, TypeOK
    <3>2. Len(history[call[h].policy]) \in Nat
      BY <3>1
    <3>3. read[h] \in Nat /\ call[h].since \in Nat
      BY <1>1 DEF IInv, TypeOK, Call
    <3>4. read[h] \in 1 .. Len(history[call[h].policy])
      BY <2>4 DEF Shown
    <3>5. QED
      BY <3>2, <3>3, <3>4 DEF Current
  <2>6. read[h] \in call[h].since .. Current(h)
    BY <2>4, <2>5
  <2>7. QED
    BY <2>4, <2>5, <2>6 DEF Granted, Shown
<1>2. IInv /\ [Next]_vars =>
        [\A h \in Handlers :
           /\ call[h].op = "attest" /\ call'[h].op = ""
           /\ outcome'[call[h].request] = "ok"
           => Granted(h)]_vars
  BY <1>1
<1>3. QED
  BY <1>2, Invariance, PTL DEF Spec, GrantedWhileEligible

==============================================================================
