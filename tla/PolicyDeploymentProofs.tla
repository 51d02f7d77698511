----------------------- MODULE PolicyDeploymentProofs -----------------------
(***************************************************************************)
(* Theorems about PolicyDeployment, for any handlers, policies, requests,  *)
(* attempts and restarts: a process with its publisher implements          *)
(* PolicySystem, so that what PolicySystemProofs shows of the stream is so *)
(* of the one EventPublisher fills.                                        *)
(***************************************************************************)
EXTENDS PolicyDeployment, EventPublisherProofs

\* The theorems about the system this module implements.
Sys == INSTANCE PolicySystemProofs WITH copies <- Arrived

------------------------------------------------------------------------------
(* A process is a publisher *)

\* What a step of the process is to the publisher.
LEMMA PublisherSteps ==
  ASSUME [DeploymentNext]_deploymentVars
  PROVE  [Next]_vars
<1>1. CASE HandlerStep
  BY <1>1 DEF HandlerStep, HandOver, Next
<1>2. CASE PublisherStep
  BY <1>2 DEF PublisherStep, Next
<1>3. CASE RestartProcess
  BY <1>3 DEF RestartProcess, Next
<1>4. CASE UNCHANGED deploymentVars
  BY <1>4 DEF deploymentVars
<1>5. QED
  BY <1>1, <1>2, <1>3, <1>4 DEF DeploymentNext

\* Seen from the broker, a process of the service is EventPublisher, whose events
\* are the committed creations and transitions: its invariant and its promise to
\* the readers of the stream hold.
THEOREM ProcessIsPublisher ==
  DeploymentSpec => Spec /\ []IInv /\ StreamPromiseKept
<1>1. DeploymentInit => Init
  BY DEF DeploymentInit
<1>2. DeploymentSpec => Spec
  BY <1>1, PublisherSteps, PTL DEF DeploymentSpec, Spec
<1>3. QED
  BY <1>2, Invariance, StreamPromiseIsKept, PTL

------------------------------------------------------------------------------
(* A process is a PolicySystem *)

\* The service and its instances here are one, definition by definition.
LEMMA SameService ==
  /\ Service!Init <=> System!Init
  /\ Service!Init <=> Sys!Init
  /\ Service!Next <=> System!Next
  /\ Service!Next <=> Sys!Next
  /\ Service!OneWriterPerPolicy' <=> Sys!OneWriterPerPolicy'
<1> USE DEF
      Service!OneWriterPerPolicy, System!OneWriterPerPolicy,
      Sys!OneWriterPerPolicy, Service!Mutating, System!Mutating,
      Sys!Mutating, Service!Stored, System!Stored, Sys!Stored, Service!Edge,
      System!Edge, Sys!Edge, Service!transitionTable, System!transitionTable,
      Sys!transitionTable, Service!Transition, System!Transition,
      Sys!Transition, Service!ReasonFor, System!ReasonFor, Sys!ReasonFor,
      Service!EventType, System!EventType, Sys!EventType,
      Service!TransitionOps, System!TransitionOps, Sys!TransitionOps,
      Service!tables, System!tables, Sys!tables, Service!ZeroPolicy,
      System!ZeroPolicy, Sys!ZeroPolicy, Service!NoCall, System!NoCall,
      Sys!NoCall, Service!Init, System!Init, Sys!Init, Service!Announced,
      System!Announced, Sys!Announced, Service!AnnouncedType,
      System!AnnouncedType, Sys!AnnouncedType, Service!Announcement,
      System!Announcement, Sys!Announcement, Service!Goto, System!Goto,
      Sys!Goto, Service!Finish, System!Finish, Sys!Finish, Service!Request,
      System!Request, Sys!Request, Service!Receive, System!Receive,
      Sys!Receive, Service!Reads, System!Reads, Sys!Reads, Service!Row,
      System!Row, Sys!Row, Service!Prepare, System!Prepare, Sys!Prepare,
      Service!Create, System!Create, Sys!Create, Service!StartUpdate,
      System!StartUpdate, Sys!StartUpdate, Service!StartCancel,
      System!StartCancel, Sys!StartCancel, Service!StartTransition,
      System!StartTransition, Sys!StartTransition, Service!ReadMissing,
      System!ReadMissing, Sys!ReadMissing, Service!Get, System!Get, Sys!Get,
      Service!RefuseArguments, System!RefuseArguments, Sys!RefuseArguments,
      Service!RefuseStatus, System!RefuseStatus, Sys!RefuseStatus,
      Service!AnswerAtOnce, System!AnswerAtOnce, Sys!AnswerAtOnce,
      Service!RowRefused, System!RowRefused, Sys!RowRefused,
      Service!ReasonRefused, System!ReasonRefused, Sys!ReasonRefused,
      Service!RefusedByTable, System!RefusedByTable, Sys!RefusedByTable,
      Service!NumberTaken, System!NumberTaken, Sys!NumberTaken,
      Service!Insert, System!Insert, Sys!Insert, Service!InsertConflict,
      System!InsertConflict, Sys!InsertConflict, Service!WriteRow,
      System!WriteRow, Sys!WriteRow, Service!SetStatus, System!SetStatus,
      Sys!SetStatus, Service!TxUpdate, System!TxUpdate, Sys!TxUpdate,
      Service!TxAudit, System!TxAudit, Sys!TxAudit, Service!Entry,
      System!Entry, Sys!Entry, Service!TxCommit, System!TxCommit,
      Sys!TxCommit, Service!Respond, System!Respond, Sys!Respond,
      Service!Fail, System!Fail, Sys!Fail, Service!Progress, System!Progress,
      Sys!Progress, Service!Next, System!Next, Sys!Next
<1>1. Service!Init <=> System!Init
  OBVIOUS
<1>2. Service!Init <=> Sys!Init
  OBVIOUS
<1>3. Service!Next <=> System!Next
  OBVIOUS
<1>4. Service!Next <=> Sys!Next
  OBVIOUS
<1>5. Service!OneWriterPerPolicy' <=> Sys!OneWriterPerPolicy'
  OBVIOUS
<1>6. QED
  BY <1>1, <1>2, <1>3, <1>4, <1>5

\* While stream and the events taken over stay, so does what has arrived.
LEMMA NothingArrives ==
  ASSUME stream' = stream, Taken' = Taken
  PROVE  Arrived' = Arrived
<1>1. \A e : CopiesStored(e)' = CopiesStored(e)
  BY DEF CopiesStored
<1>2. QED
  BY <1>1 DEF Arrived

\* An event that is handed over is one more to be read, with no copy yet.
LEMMA HandOverOffers ==
  ASSUME IInv, NEW e \in Events, HandOver(e)
  PROVE  Sys!Stream!Offer(e)
<1>1. /\ task[e] = "none" /\ task'[e] # "none" /\ stream' = stream
      /\ \A f \in Events : f # e => task'[f] = task[f]
  BY DEF HandOver, PublishAsync, SkipPublish, Goto, IInv, TypeOK
<1>2. e \notin Taken /\ Taken' = Taken \cup {e}
  BY <1>1 DEF Taken
<1>3. CopiesStored(e) = 0
  BY <1>1, UnofferedIsNotStored
<1>4. \A f : CopiesStored(f)' = CopiesStored(f)
  BY <1>1 DEF CopiesStored
<1>5. Arrived' = [f \in Taken \cup {e} |-> IF f = e THEN 0 ELSE Arrived[f]]
  <2>1. Arrived' = [f \in Taken' |-> CopiesStored(f)']
    BY DEF Arrived
  <2>2. \A f \in Taken' :
          CopiesStored(f)' = IF f = e THEN 0 ELSE Arrived[f]
    BY <1>2, <1>3, <1>4 DEF Arrived
  <2>3. QED
    BY <1>2, <2>1, <2>2
<1>6. QED
  BY <1>2, <1>5 DEF Sys!Stream!Offer, Arrived

\* A copy that the broker stores is of an event that was handed over, and one of
\* at most maxRetries.
LEMMA StoreArrives ==
  ASSUME IInv, NEW c \in wire, Store(c)
  PROVE  \E e \in DOMAIN Arrived : Sys!Stream!Deliver(e)
<1>1. PICK e \in Events, i \in 1 .. maxRetries : c = <<e, i>>
  BY DEF IInv, TypeOK, Copies
<1>2. Promise!Deliver(e)
  BY <1>1, StoreDelivers
<1>3. e \in Taken
  BY <1>1 DEF IInv, CopiesMade, Made, Taken
<1>4. CopiesStored(e) < maxRetries
  BY <1>2, <1>1, <1>3 DEF Promise!Deliver, Offered
<1>5. stream' = Append(stream, e) /\ acked' = acked \cup {<<e, i>>} /\ task' = task
  BY <1>1 DEF Store
<1>6. \A f \in Events :
        CopiesStored(f)' = IF f = e THEN CopiesStored(f) + 1 ELSE CopiesStored(f)
  BY <1>1, <1>5, StoreCounts
<1>7. Taken' = Taken
  BY <1>5 DEF Taken
<1>8. Arrived' = [Arrived EXCEPT ![e] = @ + 1]
  <2>1. Arrived' = [f \in Taken |-> CopiesStored(f)']
    BY <1>7 DEF Arrived
  <2>2. ASSUME NEW f \in Taken
        PROVE  CopiesStored(f)'
                 = IF f = e THEN Arrived[f] + 1 ELSE Arrived[f]
    <3>1. f \in Events /\ Arrived[f] = CopiesStored(f)
      BY DEF Arrived, Taken
    <3>2. QED
      BY <1>6, <3>1
  <2>3. QED
    BY <1>3, <2>1, <2>2 DEF Arrived
<1>9. QED
  BY <1>3, <1>4, <1>8 DEF Sys!Stream!Deliver, Arrived

\* The other steps of a process put nothing new into the stream.
LEMMA OthersStay ==
  ASSUME IInv,
         \/ \E e \in Events : Goroutine(e)
         \/ \E c \in wire : LoseCopy(c)
         \/ Restart
         \/ UNCHANGED vars
  PROVE  Arrived' = Arrived
<1>1. stream' = stream
  BY DEF Goroutine, Send, Published, PublishFailed, Retry, LoseCopy, Restart,
     vars
<1>2. \A e \in Events : task[e] = "none" <=> task'[e] = "none"
  BY DEF Goroutine, Send, Published, PublishFailed, Retry, LoseCopy, Restart,
     Goto, Running, vars, IInv, TypeOK
<1>3. Taken' = Taken
  BY <1>2 DEF Taken
<1>4. QED
  BY <1>1, <1>3, NothingArrives

\* Every step of a process is one of a PolicySystem.
LEMMA ProcessSteps ==
  ASSUME IInv, [DeploymentNext]_deploymentVars
  PROVE  [Sys!SystemNext]_(Sys!systemVars)
<1>1. CASE HandlerStep
  <2>1. Sys!Next
    BY <1>1, SameService DEF HandlerStep
  <2>2. CASE events' = events /\ UNCHANGED vars
    BY <2>1, <2>2, OthersStay DEF Sys!SystemNext, Sys!ServiceStep
  <2>3. CASE \E e \in Events \cap (events' \ events) : HandOver(e)
    BY <2>1, <2>3, HandOverOffers DEF Sys!SystemNext, Sys!ServiceStep
  <2>4. QED
    BY <1>1, <2>2, <2>3 DEF HandlerStep
<1>2. CASE PublisherStep
  <2>1. CASE \E c \in wire : Store(c)
    BY <1>2, <2>1, StoreArrives DEF PublisherStep, Sys!SystemNext,
       Sys!StreamStep, serviceVars, Sys!vars
  <2>2. CASE \/ \E e \in Events : Goroutine(e)
             \/ \E c \in wire : LoseCopy(c)
    BY <1>2, <2>2, OthersStay DEF PublisherStep, Sys!systemVars, serviceVars,
       Sys!vars
  <2>3. QED
    BY <1>2, <2>1, <2>2 DEF PublisherStep
<1>3. CASE RestartProcess
  BY <1>3, OthersStay DEF RestartProcess, Sys!systemVars, serviceVars, Sys!vars
<1>4. CASE UNCHANGED deploymentVars
  BY <1>4, OthersStay DEF deploymentVars, Sys!systemVars, serviceVars, Sys!vars
<1>5. QED
  BY <1>1, <1>2, <1>3, <1>4 DEF DeploymentNext

\* A process begins as a PolicySystem.
LEMMA ProcessBegins == DeploymentInit => Sys!SystemInit
<1> SUFFICES ASSUME DeploymentInit PROVE Sys!SystemInit
  OBVIOUS
<1>1. Taken = {}
  BY DEF DeploymentInit, Init, Taken
<1>2. Arrived = [e \in {} |-> 0]
  BY <1>1 DEF Arrived
<1>3. QED
  BY <1>2, SameService DEF DeploymentInit, Sys!SystemInit, Sys!Stream!Init

\* PolicySystem and its instance here are one.
LEMMA SameSystem ==
  /\ Sys!SystemInit <=> System!SystemInit
  /\ [Sys!SystemNext]_(Sys!systemVars) <=> [System!SystemNext]_(System!systemVars)
<1>1. Sys!Stream!Init <=> System!Stream!Init
  BY DEF Sys!Stream!Init, System!Stream!Init
<1>2. \A e : /\ Sys!Stream!Offer(e) <=> System!Stream!Offer(e)
             /\ Sys!Stream!Deliver(e) <=> System!Stream!Deliver(e)
  BY DEF Sys!Stream!Offer, System!Stream!Offer, Sys!Stream!Deliver,
     System!Stream!Deliver
<1>3. Sys!systemVars = System!systemVars
  BY DEF Sys!systemVars, System!systemVars, Sys!vars, System!vars, Sys!tables,
     System!tables
<1>4. QED
  BY <1>1, <1>2, <1>3, SameService
     DEF Sys!SystemInit, System!SystemInit, Sys!SystemNext, System!SystemNext,
     Sys!ServiceStep, System!ServiceStep, Sys!StreamStep, System!StreamStep,
     Sys!systemVars, System!systemVars, Sys!vars, System!vars, Sys!tables,
     System!tables

\* The process with its publisher implements PolicySystem.
THEOREM KeepsSystem == DeploymentSpec => SystemKept
<1>1. IInv /\ [DeploymentNext]_deploymentVars
      => [System!SystemNext]_(System!systemVars)
  BY ProcessSteps, SameSystem
<1>2. DeploymentInit => System!SystemInit
  BY ProcessBegins, SameSystem
<1>3. QED
  BY <1>1, <1>2, ProcessIsPublisher, PTL
     DEF DeploymentSpec, SystemKept, System!SystemSpec

------------------------------------------------------------------------------
(* What a reader of the stream can conclude *)

\* The assumptions of PolicySystem are met.
LEMMA SystemAssumed ==
  /\ Sys!ServiceAssumption
  /\ Sys!EnoughIds
  /\ Sys!SystemAssumption
<1>1. Sys!ServiceAssumption
  BY DeploymentAssumption
     DEF Service!ServiceAssumption, Service!ServiceOps, Sys!ServiceOps,
     Service!TransitionOps, Sys!TransitionOps
<1>2. Sys!EnoughIds
  BY DeploymentAssumption
     DEF Service!EnoughIds, Service!Cardinality, Sys!Cardinality,
     Service!IsFiniteSet, Sys!IsFiniteSet
<1>3. Sys!SystemAssumption
  BY DeploymentAssumption, RetriesAssumption
<1>4. QED
  BY <1>1, <1>2, <1>3

\* What is in the stream that the publisher fills is committed, whoever calls. If
\* no two requests for one policy overlap, a reader who has missed nothing finds
\* the status of the policy among its newest events, and one who has missed
\* something can notice it, whatever the publisher repeated and wherever the
\* process ended.
THEOREM ReadersOfTheProcess ==
  /\ DeploymentSpec => []Sys!StreamIsCommitted
  /\ DeploymentSpec /\ []Service!OneWriterPerPolicy =>
       []Sys!NewestTellsStatus /\ []Sys!LossIsVisible
<1>1. IInv /\ [DeploymentNext]_deploymentVars
      => [Sys!SystemNext]_(Sys!systemVars)
  BY ProcessSteps
<1>2. DeploymentSpec => Sys!SystemSpec
  BY <1>1, ProcessBegins, ProcessIsPublisher, PTL
     DEF DeploymentSpec, Sys!SystemSpec
<1>3. IInv /\ [DeploymentNext]_deploymentVars /\ Service!OneWriterPerPolicy'
      => [Sys!SystemNext /\ Sys!OneWriterPerPolicy']_(Sys!systemVars)
  BY <1>1, SameService
<1>4. DeploymentSpec /\ []Service!OneWriterPerPolicy => Sys!SystemSerialSpec
  BY <1>3, ProcessBegins, ProcessIsPublisher, PTL
     DEF DeploymentSpec, Sys!SystemSerialSpec
<1>5. Sys!SystemSpec => []Sys!StreamIsCommitted
  BY Sys!StreamOfCommitted, SystemAssumed
<1>6. Sys!SystemSerialSpec => []Sys!NewestTellsStatus
  BY Sys!NewestTellsTheStatus, SystemAssumed
<1>7. Sys!SystemSerialSpec => []Sys!LossIsVisible
  BY Sys!LossIsNoticed, SystemAssumed
<1>8. QED
  BY <1>2, <1>4, <1>5, <1>6, <1>7, PTL

==============================================================================
