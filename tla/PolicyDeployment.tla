-------------------------- MODULE PolicyDeployment --------------------------
(***************************************************************************)
(* One process of the service, as main wires it: the publisher with its    *)
(* goroutines (EventPublisher) and the handlers that call it               *)
(* (PolicyService), between the broker and the database.                   *)
(*                                                                         *)
(* PolicySystem has in the place of the publisher what EventStream         *)
(* promises; here it is the publisher itself, the events it is handed are  *)
(* those a handler has committed, and the process ends as a whole, in the  *)
(* middle of requests and of attempts.                                     *)
(***************************************************************************)
EXTENDS EventPublisher

\* PolicyService
CONSTANTS Handlers, Policies, Numbers, Fields, BadFields, None, Ops, Reasons,
          Unstorable, MaxRequests

CONSTANT TicksPerSecond   \* readings of the clock that share a second

VARIABLES policies, audit_log, lock, pc, call, mem, from, reply, events, now,
          received  \* PolicyService

Service == INSTANCE PolicyService

\* Events bounds what is announced; it may be all that the service can announce.
ASSUME DeploymentAssumption ==
  /\ Service!ServiceAssumption /\ Service!EnoughIds
  /\ Events \subseteq Service!PublishedEvent
  /\ TicksPerSecond \in Nat \ {0}

serviceVars == <<policies, audit_log, lock, pc, call, mem, from, reply, events,
                 now, received>>
deploymentVars == <<serviceVars, vars>>

DeploymentInit == Service!Init /\ Init

\* PublishAsync of the service: a goroutine of its own, or nothing without s.pub.
HandOver(e) == PublishAsync(e) \/ SkipPublish(e)

\* A step of a handler.
\* Mutant: the event is handed over before the transaction is committed.
HandlerStep_Early ==
  /\ Service!Next
  /\ \/ UNCHANGED vars
     \/ \E h \in Handlers :
          Service!TxAudit(h) /\ HandOver(Service!Announcement(h))

HandlerStep ==
  /\ Service!Next
  /\ \/ events' = events /\ UNCHANGED vars
     \/ \E e \in Events \cap (events' \ events) : HandOver(e)

\* A goroutine of the publisher, the broker or the network.
PublisherStep ==
  /\ \/ \E e \in Events : Goroutine(e)
     \/ \E c \in wire : Store(c) \/ LoseCopy(c)
  /\ UNCHANGED serviceVars

\* The process ends and is started again: first all its requests fail (Fail),
\* then the goroutines of its publisher are cut.
RestartProcess == /\ \A h \in Handlers : pc[h] = "idle"
                  /\ Restart
                  /\ UNCHANGED serviceVars

DeploymentNext == HandlerStep \/ PublisherStep \/ RestartProcess

DeploymentSpec == DeploymentInit /\ [][DeploymentNext]_deploymentVars

\* The publisher's goroutines go on, as in FairSpec.
FairDeploymentSpec == DeploymentSpec /\ \A e \in Events : WF_vars(Goroutine(e))

------------------------------------------------------------------------------
\* The stream as its readers know it: how often it holds each event that a
\* goroutine was to publish, or that was dropped for want of a publisher.
Taken == {e \in Events : task[e] # "none"}
Arrived == [e \in Taken |-> CopiesStored(e)]

\* The process implements PolicySystem: all that a reader of the stream can
\* conclude there is so with the publisher that retries, loses acknowledgements
\* and dies, and nothing reaches the publisher that is not committed.
System == INSTANCE PolicySystem WITH copies <- Arrived
SystemKept == System!SystemSpec

==============================================================================
