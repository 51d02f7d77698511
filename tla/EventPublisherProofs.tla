------------------------ MODULE EventPublisherProofs ------------------------
(***************************************************************************)
(* Theorems about EventPublisher, for any events, any number of attempts   *)
(* and any number of restarts.                                             *)
(***************************************************************************)
EXTENDS EventPublisher, FiniteSetTheorems, TLAPS

\* The attempts at e whose copy is in the stream, and on the wire.
StoredAttempts(e) == {i \in 1 .. maxRetries : <<e, i>> \in acked}
WireAttempts(e) == {i \in 1 .. maxRetries : <<e, i>> \in wire}

\* An announcement under way has begun its first attempt, and one that backs off
\* has another to go.
Counting ==
  \A e \in Events : /\ task[e] \in Running => attempt[e] >= 1
                    /\ task[e] = "backoff" => attempt[e] < maxRetries

\* A copy belongs to an attempt that was made.
Made(e, i) == /\ task[e] \notin {"none", "unwired"}
              /\ i <= attempt[e]
              /\ task[e] = "calling" => i < attempt[e]

CopiesMade ==
  \A e \in Events : \A i \in 1 .. maxRetries :
    <<e, i>> \in wire \cup acked => Made(e, i)

\* A copy is on the wire, in the stream or lost.
Apart == wire \cap acked = {}

\* "published" is said on the acknowledgement of the attempt's own copy.
Acknowledged ==
  \A e \in Events : task[e] = "published" => /\ attempt[e] \in 1 .. maxRetries
                                             /\ <<e, attempt[e]>> \in acked

\* The stream holds one copy per acknowledged attempt.
Counted == \A e \in Events : CopiesStored(e) = Cardinality(StoredAttempts(e))

IInv == TypeOK /\ Counting /\ CopiesMade /\ Apart /\ Acknowledged /\ Counted

------------------------------------------------------------------------------
\* The sets of attempts are finite.
LEMMA AttemptsFinite ==
  ASSUME NEW e
  PROVE  /\ IsFiniteSet(StoredAttempts(e))
         /\ IsFiniteSet(WireAttempts(e))
         /\ Cardinality(StoredAttempts(e)) \in Nat
         /\ Cardinality(WireAttempts(e)) \in Nat
<1>1. IsFiniteSet(1 .. maxRetries)
  BY RetriesAssumption, FS_Interval
<1>2. /\ StoredAttempts(e) \in SUBSET (1 .. maxRetries)
      /\ WireAttempts(e) \in SUBSET (1 .. maxRetries)
  BY DEF StoredAttempts, WireAttempts
<1>3. IsFiniteSet(StoredAttempts(e)) /\ IsFiniteSet(WireAttempts(e))
  BY <1>1, <1>2, FS_Subset
<1>4. QED
  BY <1>3, FS_CardinalityType

\* The attempts with a copy on the wire or in the stream are among those made,
\* and none is in both.
LEMMA AttemptsBounded ==
  ASSUME IInv, NEW e \in Events
  PROVE  Cardinality(StoredAttempts(e)) + Cardinality(WireAttempts(e))
           <= attempt[e]
<1> DEFINE S == StoredAttempts(e)
           W == WireAttempts(e)
<1>1. attempt[e] \in Nat
  BY RetriesAssumption DEF IInv, TypeOK
<1>2. IsFiniteSet(1 .. attempt[e]) /\ Cardinality(1 .. attempt[e]) = attempt[e]
  <2>1. IsFiniteSet(1 .. attempt[e])
    BY <1>1, FS_Interval
  <2>2. Cardinality(1 .. attempt[e]) = IF 1 > attempt[e] THEN 0
                                       ELSE attempt[e] - 1 + 1
    BY <1>1, FS_Interval
  <2>3. QED
    BY <1>1, <2>1, <2>2
<1>3. S \cup W \in SUBSET (1 .. attempt[e])
  BY RetriesAssumption, <1>1
     DEF IInv, CopiesMade, Made, StoredAttempts, WireAttempts
<1>4. S \cap W = {}
  BY DEF IInv, Apart, StoredAttempts, WireAttempts
<1>5. IsFiniteSet(S) /\ IsFiniteSet(W) /\ Cardinality(S) \in Nat
      /\ Cardinality(W) \in Nat
  BY AttemptsFinite
<1>6. Cardinality(S \cup W)
        = Cardinality(S) + Cardinality(W) - Cardinality(S \cap W)
  BY <1>5, FS_Union
<1>7. Cardinality(S \cap W) = 0
  BY <1>4, FS_EmptySet
<1>8. Cardinality(S \cup W) <= attempt[e]
  BY <1>2, <1>3, FS_Subset
<1>9. QED
  BY <1>1, <1>5, <1>6, <1>7, <1>8

\* An event that nobody took charge of is not in the stream.
LEMMA UnofferedIsNotStored ==
  ASSUME IInv, NEW e \in Events, task[e] \in {"none", "unwired"}
  PROVE  CopiesStored(e) = 0
<1>1. StoredAttempts(e) = {}
  BY DEF IInv, CopiesMade, Made, StoredAttempts
<1>2. QED
  BY <1>1, FS_EmptySet DEF IInv, Counted

\* An acknowledged copy is in the stream.
LEMMA AcknowledgedIsStored ==
  ASSUME IInv, NEW e \in Events, NEW i \in 1 .. maxRetries, <<e, i>> \in acked
  PROVE  CopiesStored(e) > 0
<1>1. i \in StoredAttempts(e)
  BY DEF StoredAttempts
<1>2. IsFiniteSet(StoredAttempts(e)) /\ Cardinality(StoredAttempts(e)) \in Nat
  BY AttemptsFinite
<1>3. Cardinality(StoredAttempts(e)) # 0
  BY <1>1, <1>2, FS_EmptySet
<1>4. QED
  BY <1>2, <1>3 DEF IInv, Counted

\* What the stream and its acknowledgements say of an event, while both stay.
LEMMA StreamUntouched ==
  ASSUME UNCHANGED <<acked, stream>>, NEW e \in Events
  PROVE  /\ CopiesStored(e)' = CopiesStored(e)
         /\ Cardinality(StoredAttempts(e))' = Cardinality(StoredAttempts(e))
  BY DEF CopiesStored, StoredAttempts

\* Store appends one copy and acknowledges one attempt.
LEMMA StoreCounts ==
  ASSUME IInv, NEW e \in Events, NEW i \in 1 .. maxRetries, <<e, i>> \in wire,
         stream' = Append(stream, e), acked' = acked \cup {<<e, i>>},
         NEW f \in Events
  PROVE  /\ CopiesStored(f)' = IF f = e THEN CopiesStored(f) + 1
                               ELSE CopiesStored(f)
         /\ Cardinality(StoredAttempts(f)')
              = IF f = e THEN Cardinality(StoredAttempts(f)) + 1
                ELSE Cardinality(StoredAttempts(f))
<1> DEFINE n == Len(stream)
           P == {k \in 1 .. n : stream[k] = f}
           Q == {k \in 1 .. Len(stream') : stream'[k] = f}
<1>1. /\ n \in Nat /\ Len(stream') = n + 1
      /\ \A k \in 1 .. n : stream'[k] = stream[k]
      /\ stream'[n + 1] = e
  BY DEF IInv, TypeOK
<1>2. Q = IF f = e THEN P \cup {n + 1} ELSE P
  BY <1>1
<1>3. IsFiniteSet(P) /\ n + 1 \notin P
  <2>1. IsFiniteSet(1 .. n)
    BY <1>1, FS_Interval
  <2>2. P \in SUBSET (1 .. n)
    OBVIOUS
  <2>3. IsFiniteSet(P)
    BY <2>1, <2>2, FS_Subset
  <2>4. n + 1 \notin 1 .. n
    BY <1>1
  <2>5. QED
    BY <2>3, <2>4
<1>4. Cardinality(Q) = IF f = e THEN Cardinality(P) + 1 ELSE Cardinality(P)
  <2>1. Cardinality(P \cup {n + 1}) = Cardinality(P) + 1
    BY <1>3, FS_AddElement
  <2>2. QED
    BY <1>2, <2>1
<1>5. CopiesStored(f) = Cardinality(P) /\ CopiesStored(f)' = Cardinality(Q)
  BY DEF CopiesStored
<1>6. StoredAttempts(f)' = IF f = e THEN StoredAttempts(f) \cup {i}
                           ELSE StoredAttempts(f)
  BY DEF StoredAttempts
<1>7. IsFiniteSet(StoredAttempts(f))
  BY AttemptsFinite
<1>8. f = e => i \notin StoredAttempts(f)
  BY DEF IInv, Apart, StoredAttempts
<1>9. f = e => Cardinality(StoredAttempts(f) \cup {i})
                 = Cardinality(StoredAttempts(f)) + 1
  BY <1>7, <1>8, FS_AddElement
<1>10. QED
  BY <1>4, <1>5, <1>6, <1>9

------------------------------------------------------------------------------
\* The goroutine of an event, and its hand-over, touch neither the stream nor
\* the acknowledgements.
LEMMA TaskStep ==
  ASSUME IInv, NEW e \in Events,
         PublishAsync(e) \/ SkipPublish(e) \/ Goroutine(e)
  PROVE  IInv'
<1> USE RetriesAssumption
<1>1. UNCHANGED <<acked, stream>>
  BY DEF PublishAsync, SkipPublish, Goroutine, Send, Published, PublishFailed,
     Retry
<1>2. Counted'
  BY <1>1, StreamUntouched DEF IInv, Counted
<1>3. CASE PublishAsync(e)
  <2>1. TypeOK' /\ Counting'
    BY <1>3 DEF IInv, TypeOK, Counting, PublishAsync, Goto, Running, Ended
  <2>2. CopiesMade'
    BY <1>3 DEF IInv, TypeOK, CopiesMade, Made, PublishAsync, Goto
  <2>3. Apart' /\ Acknowledged'
    BY <1>3 DEF IInv, TypeOK, Apart, Acknowledged, PublishAsync, Goto
  <2>4. QED
    BY <1>2, <2>1, <2>2, <2>3 DEF IInv
<1>4. CASE SkipPublish(e)
  <2>1. TypeOK' /\ Counting'
    BY <1>4 DEF IInv, TypeOK, Counting, SkipPublish, Goto, Running, Ended
  <2>2. CopiesMade'
    BY <1>4 DEF IInv, TypeOK, CopiesMade, Made, SkipPublish, Goto
  <2>3. Apart' /\ Acknowledged'
    BY <1>4 DEF IInv, TypeOK, Apart, Acknowledged, SkipPublish, Goto
  <2>4. QED
    BY <1>2, <2>1, <2>2, <2>3 DEF IInv
<1>5. CASE Send(e)
  <2> DEFINE c == <<e, attempt[e]>>
  <2>1. attempt[e] \in 1 .. maxRetries
    BY <1>5 DEF IInv, TypeOK, Counting, Send, Running
  <2>2. c \notin acked
    BY <1>5, <2>1 DEF IInv, CopiesMade, Made, Send
  <2>3. TypeOK' /\ Counting'
    BY <1>5, <2>1 DEF IInv, TypeOK, Counting, Send, Goto, Running, Ended, Copies
  <2>4. CopiesMade'
    BY <1>5, <2>1 DEF IInv, TypeOK, CopiesMade, Made, Send, Goto
  <2>5. Apart' /\ Acknowledged'
    BY <1>5, <2>2 DEF IInv, TypeOK, Apart, Acknowledged, Send, Goto
  <2>6. QED
    BY <1>2, <2>3, <2>4, <2>5 DEF IInv
<1>6. CASE Published(e)
  <2>1. attempt[e] \in 1 .. maxRetries
    BY <1>6 DEF IInv, TypeOK, Counting, Published, Running
  <2>2. TypeOK' /\ Counting'
    BY <1>6 DEF IInv, TypeOK, Counting, Published, Goto, Running, Ended
  <2>3. CopiesMade'
    BY <1>6 DEF IInv, TypeOK, CopiesMade, Made, Published, Goto
  <2>4. Apart' /\ Acknowledged'
    BY <1>6, <2>1 DEF IInv, TypeOK, Apart, Acknowledged, Published, Goto
  <2>5. QED
    BY <1>2, <2>2, <2>3, <2>4 DEF IInv
<1>7. CASE PublishFailed(e)
  <2>1. TypeOK' /\ Counting'
    BY <1>7 DEF IInv, TypeOK, Counting, PublishFailed, Goto, Running, Ended
  <2>2. CopiesMade'
    BY <1>7 DEF IInv, TypeOK, CopiesMade, Made, PublishFailed, Goto
  <2>3. Apart' /\ Acknowledged'
    BY <1>7 DEF IInv, TypeOK, Apart, Acknowledged, PublishFailed, Goto
  <2>4. QED
    BY <1>2, <2>1, <2>2, <2>3 DEF IInv
<1>8. CASE Retry(e)
  <2>1. attempt[e] \in Nat /\ attempt[e] < maxRetries
    BY <1>8 DEF IInv, TypeOK, Counting, Retry
  <2>2. TypeOK' /\ Counting'
    BY <1>8, <2>1 DEF IInv, TypeOK, Counting, Retry, Goto, Running, Ended
  <2>3. CopiesMade'
    BY <1>8, <2>1 DEF IInv, TypeOK, CopiesMade, Made, Retry, Goto
  <2>4. Apart' /\ Acknowledged'
    BY <1>8 DEF IInv, TypeOK, Apart, Acknowledged, Retry, Goto
  <2>5. QED
    BY <1>2, <2>2, <2>3, <2>4 DEF IInv
<1>9. QED
  BY <1>3, <1>4, <1>5, <1>6, <1>7, <1>8 DEF Goroutine

\* The broker and the network.
LEMMA WireStep ==
  ASSUME IInv, NEW c \in wire, Store(c) \/ LoseCopy(c)
  PROVE  IInv'
<1> USE RetriesAssumption
<1>1. PICK e \in Events, i \in 1 .. maxRetries : c = <<e, i>>
  BY DEF IInv, TypeOK, Copies
<1>2. CASE Store(c)
  <2>1. /\ stream' = Append(stream, e)
        /\ acked' = acked \cup {<<e, i>>}
        /\ wire' = wire \ {<<e, i>>}
        /\ UNCHANGED <<task, attempt, wired, restarts>>
    BY <1>1, <1>2 DEF Store
  <2>2. stream' \in Seq(Events)
    BY <2>1 DEF IInv, TypeOK
  <2>3. TypeOK' /\ Counting'
    BY <1>1, <2>1, <2>2 DEF IInv, TypeOK, Counting
  <2>4. CopiesMade'
    BY <1>1, <2>1 DEF IInv, CopiesMade, Made
  <2>5. Apart' /\ Acknowledged'
    BY <2>1 DEF IInv, Apart, Acknowledged
  <2>6. Counted'
    <3> SUFFICES ASSUME NEW f \in Events
                 PROVE  CopiesStored(f)' = Cardinality(StoredAttempts(f)')
      BY DEF Counted
    <3>1. CopiesStored(f) = Cardinality(StoredAttempts(f))
      BY DEF IInv, Counted
    <3>2. QED
      BY <1>1, <2>1, <3>1, StoreCounts
  <2>7. QED
    BY <2>3, <2>4, <2>5, <2>6 DEF IInv
<1>3. CASE LoseCopy(c)
  <2>1. TypeOK' /\ Counting' /\ CopiesMade' /\ Apart' /\ Acknowledged'
    BY <1>3 DEF LoseCopy, IInv, TypeOK, Counting, CopiesMade, Made, Apart,
       Acknowledged
  <2>2. Counted'
    BY <1>3, StreamUntouched DEF LoseCopy, IInv, Counted
  <2>3. QED
    BY <2>1, <2>2 DEF IInv
<1>4. QED
  BY <1>2, <1>3

\* The end of the process.
LEMMA RestartStep ==
  ASSUME IInv, Restart
  PROVE  IInv'
<1> USE RetriesAssumption
<1>1. \A e \in Events : task'[e] = IF task[e] \in Running THEN "cut" ELSE task[e]
  BY DEF Restart
<1>2. UNCHANGED <<attempt, wire, acked, stream>>
  BY DEF Restart
<1>3. TypeOK'
  BY DEF Restart, IInv, TypeOK, Running, Ended
<1>4. Counting' /\ CopiesMade'
  BY <1>1, <1>2 DEF IInv, Counting, CopiesMade, Made, Running
<1>5. Apart' /\ Acknowledged'
  BY <1>1, <1>2 DEF IInv, Apart, Acknowledged, Running
<1>6. Counted'
  BY <1>2, StreamUntouched DEF IInv, Counted
<1>7. QED
  BY <1>3, <1>4, <1>5, <1>6 DEF IInv

\* IInv holds in every reachable state.
THEOREM Invariance == Spec => []IInv
<1>1. Init => IInv
  <2> SUFFICES ASSUME Init PROVE IInv
    OBVIOUS
  <2>1. TypeOK /\ Counting /\ CopiesMade /\ Apart /\ Acknowledged
    BY RetriesAssumption DEF Init, TypeOK, Counting, CopiesMade, Made, Apart,
       Acknowledged, Running
  <2>2. Counted
    <3> SUFFICES ASSUME NEW e \in Events
                 PROVE  CopiesStored(e) = Cardinality(StoredAttempts(e))
      BY DEF Counted
    <3>1. {i \in 1 .. Len(stream) : stream[i] = e} = {}
      BY DEF Init
    <3>2. StoredAttempts(e) = {}
      BY DEF Init, StoredAttempts
    <3>3. QED
      BY <3>1, <3>2 DEF CopiesStored
  <2>3. QED
    BY <2>1, <2>2 DEF IInv
<1>2. IInv /\ [Next]_vars => IInv'
  <2> SUFFICES ASSUME IInv, [Next]_vars PROVE IInv'
    OBVIOUS
  <2>1. CASE UNCHANGED vars
    BY <2>1 DEF vars, IInv, TypeOK, Counting, CopiesMade, Made, Apart,
       Acknowledged, Counted, CopiesStored, StoredAttempts
  <2>2. CASE Next
    BY <2>2, TaskStep, WireStep, RestartStep DEF Next
  <2>3. QED
    BY <2>1, <2>2
<1>3. QED
  BY <1>1, <1>2, PTL DEF Spec

\* Variables keep their types; no attempt beyond the last is made (TypeOK).
THEOREM TypeCorrect == Spec => []TypeOK
<1>1. IInv => TypeOK
  BY DEF IInv
<1>2. QED
  BY <1>1, Invariance, PTL

\* "event published" is logged only for an event that is in the stream
\* (PublishedIsStored).
THEOREM PublishedAreStored == Spec => []PublishedIsStored
<1>1. IInv => PublishedIsStored
  BY AcknowledgedIsStored DEF IInv, Acknowledged, PublishedIsStored
<1>2. QED
  BY <1>1, Invariance, PTL

\* An event is never in the stream, or on its way there, more often than it was
\* attempted (CopiesWithinAttempts).
THEOREM CopiesAreWithinAttempts == Spec => []CopiesWithinAttempts
<1>1. IInv => CopiesWithinAttempts
  <2> SUFFICES ASSUME IInv, NEW e \in Events
               PROVE  CopiesStored(e) + CopiesOnWire(e) <= attempt[e]
    BY DEF CopiesWithinAttempts
  <2>1. CopiesStored(e) = Cardinality(StoredAttempts(e))
    BY DEF IInv, Counted
  <2>2. CopiesOnWire(e) = Cardinality(WireAttempts(e))
    BY DEF CopiesOnWire, WireAttempts
  <2>3. QED
    BY <2>1, <2>2, AttemptsBounded
<1>2. QED
  BY <1>1, Invariance, PTL

------------------------------------------------------------------------------
(* The refinement *)

\* What is logged as published.
Logged == {e \in Events : task[e] = "published"}

\* A step that leaves the stream alone and neither takes an event over nor logs
\* one is invisible to the readers.
LEMMA Invisible ==
  ASSUME UNCHANGED <<acked, stream>>, Offered' = Offered, Logged' = Logged
  PROVE  UNCHANGED Promise!vars
<1>1. \A e \in Offered : CopiesStored(e)' = CopiesStored(e)
  BY DEF CopiesStored
<1>2. [e \in Offered |-> CopiesStored(e)]' = [e \in Offered |-> CopiesStored(e)]
  BY <1>1
<1>3. QED
  BY <1>2 DEF Promise!vars, Logged

\* A handed-over event is offered.
LEMMA PublishAsyncOffers ==
  ASSUME IInv, NEW e \in Events, PublishAsync(e)
  PROVE  Promise!Offer(e)
<1>1. e \in Events /\ e \notin Offered /\ Offered' = Offered \cup {e}
  BY DEF PublishAsync, Goto, Offered, IInv, TypeOK
<1>2. CopiesStored(e) = 0
  BY UnofferedIsNotStored DEF PublishAsync
<1>3. \A f : CopiesStored(f)' = CopiesStored(f)
  BY DEF PublishAsync, CopiesStored
<1>4. Logged' = Logged
  BY DEF PublishAsync, Goto, Logged, IInv, TypeOK
<1> DEFINE copies == [f \in Offered |-> CopiesStored(f)]
<1>5. DOMAIN copies = Offered
  OBVIOUS
<1>6. copies' = [f \in Offered \cup {e} |-> IF f = e THEN 0 ELSE copies[f]]
  <2>1. copies' = [f \in Offered' |-> CopiesStored(f)']
    OBVIOUS
  <2>2. \A f \in Offered' : CopiesStored(f)' = IF f = e THEN 0 ELSE copies[f]
    BY <1>1, <1>2, <1>3
  <2>3. QED
    BY <1>1, <2>1, <2>2
<1>7. QED
  BY <1>1, <1>4, <1>5, <1>6 DEF Promise!Offer, Logged

\* A stored copy is delivered.
LEMMA StoreDelivers ==
  ASSUME IInv, NEW e \in Events, NEW i \in 1 .. maxRetries, <<e, i>> \in wire,
         Store(<<e, i>>)
  PROVE  Promise!Deliver(e)
<1> DEFINE copies == [f \in Offered |-> CopiesStored(f)]
<1>1. e \in Offered
  BY DEF IInv, CopiesMade, Made, Offered
<1>2. Offered' = Offered /\ Logged' = Logged
  BY DEF Store, Offered, Logged
<1>3. /\ stream' = Append(stream, e)
      /\ acked' = acked \cup {<<e, i>>}
  BY DEF Store
<1>4. \A f \in Events : CopiesStored(f)' = IF f = e THEN CopiesStored(f) + 1
                                           ELSE CopiesStored(f)
  BY <1>3, StoreCounts
<1>5. CopiesStored(e) < maxRetries
  <2>1. Cardinality(StoredAttempts(e)) + Cardinality(WireAttempts(e))
          <= attempt[e]
    BY AttemptsBounded
  <2>2. /\ Cardinality(WireAttempts(e)) \in Nat \ {0}
        /\ Cardinality(StoredAttempts(e)) \in Nat
    <3>1. i \in WireAttempts(e)
      BY DEF WireAttempts
    <3>2. QED
      BY <3>1, AttemptsFinite, FS_EmptySet
  <2>3. attempt[e] \in Nat /\ attempt[e] <= maxRetries /\ maxRetries \in Nat
    BY RetriesAssumption DEF IInv, TypeOK
  <2>4. CopiesStored(e) = Cardinality(StoredAttempts(e))
    BY DEF IInv, Counted
  <2>5. QED
    BY <2>1, <2>2, <2>3, <2>4
<1>6. copies' = [copies EXCEPT ![e] = @ + 1]
  <2>1. copies' = [f \in Offered' |-> CopiesStored(f)']
    OBVIOUS
  <2>2. \A f \in Offered : CopiesStored(f)' = IF f = e THEN copies[f] + 1
                                              ELSE copies[f]
    BY <1>4 DEF Offered
  <2>3. QED
    BY <1>1, <1>2, <2>1, <2>2
<1>7. QED
  BY <1>1, <1>2, <1>5, <1>6 DEF Promise!Deliver, Logged

\* A logged event is confirmed.
LEMMA PublishedConfirms ==
  ASSUME IInv, NEW e \in Events, Published(e)
  PROVE  Promise!Confirm(e)
<1> DEFINE copies == [f \in Offered |-> CopiesStored(f)]
<1>1. e \in Offered /\ Offered' = Offered
  BY DEF Published, Goto, Offered, IInv, TypeOK
<1>2. Logged' = Logged \cup {e}
  BY DEF Published, Goto, Logged, IInv, TypeOK
<1>3. copies' = copies
  BY <1>1 DEF Published, CopiesStored
<1>4. attempt[e] \in 1 .. maxRetries
  BY DEF Published, IInv, TypeOK, Counting, Running
<1>5. CopiesStored(e) > 0
  BY <1>4, AcknowledgedIsStored DEF Published
<1>6. copies[e] > 0
  BY <1>1, <1>5
<1>7. QED
  BY <1>1, <1>2, <1>3, <1>6 DEF Promise!Confirm, Logged

\* The other steps are invisible.
LEMMA OthersInvisible ==
  ASSUME IInv,
         \/ \E e \in Events : \/ SkipPublish(e) \/ Send(e)
                              \/ PublishFailed(e) \/ Retry(e)
         \/ \E c \in wire : LoseCopy(c)
         \/ Restart
  PROVE  UNCHANGED Promise!vars
<1>1. ASSUME NEW e \in Events,
             SkipPublish(e) \/ Send(e) \/ PublishFailed(e) \/ Retry(e)
      PROVE  UNCHANGED Promise!vars
  <2>1. UNCHANGED <<acked, stream>>
    BY <1>1 DEF SkipPublish, Send, PublishFailed, Retry
  <2>2. Offered' = Offered /\ Logged' = Logged
    BY <1>1 DEF SkipPublish, Send, PublishFailed, Retry, Goto, Offered, Logged,
       IInv, TypeOK
  <2>3. QED
    BY <2>1, <2>2, Invisible
<1>2. ASSUME NEW c \in wire, LoseCopy(c)
      PROVE  UNCHANGED Promise!vars
  BY <1>2, Invisible DEF LoseCopy, Offered, Logged
<1>3. ASSUME Restart
      PROVE  UNCHANGED Promise!vars
  <2>1. \A e \in Events :
          task'[e] = IF task[e] \in Running THEN "cut" ELSE task[e]
    BY <1>3 DEF Restart
  <2>2. Offered' = Offered /\ Logged' = Logged
    BY <2>1 DEF Offered, Logged, Running
  <2>3. QED
    BY <1>3, <2>2, Invisible DEF Restart
<1>4. QED
  BY <1>1, <1>2, <1>3

\* The publisher keeps the promise of EventStream to those who read the stream,
\* across retries, lost acknowledgements, late copies and restarts
\* (StreamPromiseKept).
THEOREM StreamPromiseIsKept == Spec => StreamPromiseKept
<1>1. Init => Promise!Init
  <2> SUFFICES ASSUME Init PROVE Promise!Init
    OBVIOUS
  <2>1. Offered = {} /\ {e \in Events : task[e] = "published"} = {}
    BY DEF Init, Offered
  <2>2. [e \in Offered |-> CopiesStored(e)] = [e \in {} |-> 0]
    BY <2>1
  <2>3. QED
    BY <2>1, <2>2 DEF Promise!Init
<1>2. IInv /\ [Next]_vars => [Promise!Next]_(Promise!vars)
  <2> SUFFICES ASSUME IInv, [Next]_vars
               PROVE  Promise!Next \/ UNCHANGED Promise!vars
    OBVIOUS
  <2>1. CASE UNCHANGED vars
    BY <2>1, Invisible DEF vars, Offered, Logged
  <2>2. ASSUME NEW e \in Events, PublishAsync(e)
        PROVE  Promise!Next
    BY <2>2, PublishAsyncOffers DEF Promise!Next
  <2>3. ASSUME NEW e \in Events, Published(e)
        PROVE  Promise!Next
    BY <2>3, PublishedConfirms DEF Promise!Next
  <2>4. ASSUME NEW c \in wire, Store(c)
        PROVE  Promise!Next
    <3>1. PICK e \in Events, i \in 1 .. maxRetries : c = <<e, i>>
      BY RetriesAssumption DEF IInv, TypeOK, Copies
    <3>2. Promise!Deliver(e)
      BY <2>4, <3>1, StoreDelivers
    <3>3. QED
      BY <3>2 DEF Promise!Next
  <2>5. QED
    BY <2>1, <2>2, <2>3, <2>4, OthersInvisible DEF Next, Goroutine
<1>3. QED
  BY <1>1, <1>2, Invariance, PTL DEF Spec, StreamPromiseKept, Promise!Spec

------------------------------------------------------------------------------
(* The retries *)

\* A step of the loop uses up one of the steps left.
LEMMA LoopStep ==
  ASSUME IInv, IInv', Next, NEW e \in Events,
         task[e] \in Running, task'[e] \in Running, task'[e] # task[e]
  PROVE  StepsLeft(e)' < StepsLeft(e)
<1>1. Goroutine(e)
  <2>1. \A f \in Events : PublishAsync(f) \/ SkipPublish(f) => f # e
    BY DEF PublishAsync, SkipPublish, Running
  <2>2. \A f \in Events : \A to : f # e /\ Goto(f, to) => task'[e] = task[e]
    BY DEF Goto, IInv, TypeOK
  <2>3. \A f \in Events : PublishAsync(f) \/ SkipPublish(f) \/ Goroutine(f) => f = e
    BY <2>1, <2>2 DEF PublishAsync, SkipPublish, Goroutine, Send, Published,
       PublishFailed, Retry
  <2>4. ~Restart
    BY DEF Restart, Running
  <2>5. \A c \in wire : ~Store(c) /\ ~LoseCopy(c)
    BY DEF Store, LoseCopy
  <2>6. QED
    BY <2>1, <2>3, <2>4, <2>5 DEF Next
<1>2. attempt[e] \in Nat /\ attempt'[e] \in Nat /\ maxRetries \in Nat
  BY RetriesAssumption DEF IInv, TypeOK
<1>3. CASE Send(e)
  <2>1. task[e] = "calling" /\ task'[e] = "waiting" /\ attempt'[e] = attempt[e]
    BY <1>3 DEF Send, Goto, IInv, TypeOK
  <2>2. StepsLeft(e)' = 3 * (maxRetries - attempt'[e]) + 1
    BY <2>1 DEF StepsLeft
  <2>3. StepsLeft(e) = 3 * (maxRetries - attempt[e]) + 2
    BY <2>1 DEF StepsLeft
  <2>4. QED
    BY <1>2, <2>1, <2>2, <2>3
<1>4. CASE PublishFailed(e)
  <2>1. task[e] = "waiting" /\ task'[e] = "backoff" /\ attempt'[e] = attempt[e]
    BY <1>4 DEF PublishFailed, Goto, Running, IInv, TypeOK
  <2>2. StepsLeft(e)' = 3 * (maxRetries - attempt'[e]) + 0
    BY <2>1 DEF StepsLeft
  <2>3. StepsLeft(e) = 3 * (maxRetries - attempt[e]) + 1
    BY <2>1 DEF StepsLeft
  <2>4. QED
    BY <1>2, <2>1, <2>2, <2>3
<1>5. CASE Retry(e)
  <2>1. /\ task[e] = "backoff" /\ task'[e] = "calling"
        /\ attempt'[e] = attempt[e] + 1
    BY <1>5 DEF Retry, Goto, IInv, TypeOK
  <2>2. StepsLeft(e)' = 3 * (maxRetries - attempt'[e]) + 2
    BY <2>1 DEF StepsLeft
  <2>3. StepsLeft(e) = 3 * (maxRetries - attempt[e]) + 0
    BY <2>1 DEF StepsLeft
  <2>4. QED
    BY <1>2, <2>1, <2>2, <2>3
<1>6. ~Published(e)
  BY DEF Published, Goto, Running, IInv, TypeOK
<1>7. QED
  BY <1>1, <1>3, <1>4, <1>5, <1>6 DEF Goroutine

\* A goroutine ends by its own count, which is never below zero: it makes at most
\* maxRetries attempts of three steps each, whatever the broker does.
THEOREM AttemptsAreBounded ==
  Spec => AttemptsRunOut /\ [](\A e \in Events : StepsLeft(e) \in Nat)
<1> DEFINE RunOut ==
      \A e \in Events :
        task[e] \in Running /\ task'[e] \in Running /\ task'[e] # task[e]
        => StepsLeft(e)' < StepsLeft(e)
<1>1. IInv /\ IInv' /\ [Next]_vars => [RunOut]_vars
  BY LoopStep
<1>2. IInv => \A e \in Events : StepsLeft(e) \in Nat
  <2> SUFFICES ASSUME IInv, NEW e \in Events PROVE StepsLeft(e) \in Nat
    OBVIOUS
  <2>1. attempt[e] \in 0 .. maxRetries /\ maxRetries \in Nat
    BY RetriesAssumption DEF IInv, TypeOK
  <2>2. QED
    BY <2>1 DEF StepsLeft
<1>3. QED
  BY <1>1, <1>2, Invariance, PTL DEF Spec, AttemptsRunOut

==============================================================================
