--------------------------- MODULE EventPublisher ---------------------------
(***************************************************************************)
(* internal/events: every announced event gets a goroutine that offers one *)
(* CloudEvent, with one id, to JetStream up to maxRetries times.           *)
(*                                                                         *)
(* A call of js.Publish writes a copy towards the broker and waits for the *)
(* acknowledgement of that copy.  It fails when the acknowledgement does   *)
(* not come in time, which says nothing about the copy: it may be lost, be *)
(* stored with its acknowledgement lost, or sit in the client's reconnect  *)
(* buffer and be stored later.  The goroutines live in the memory of the   *)
(* process and nothing else remembers the event.                           *)
(***************************************************************************)
EXTENDS Integers, Sequences, FiniteSets

CONSTANTS Events,        \* committed creations and transitions
          maxRetries,    \* attempts per event
          MaxRestarts    \* bound on the restarts of the process

ASSUME RetriesAssumption == maxRetries \in Nat \ {0} /\ MaxRestarts \in Nat

VARIABLES
  task,      \* where the goroutine of each event is
  attempt,   \* the attempt it is at
  wire,      \* copies on their way, <<event, attempt>>
  acked,     \* copies the broker has stored and acknowledged
  stream,    \* the events of POLICY_EVENTS in the order of the stream
  wired,     \* does the running process have a publisher
  restarts

vars == <<task, attempt, wire, acked, stream, wired, restarts>>

Running == {"calling", "waiting", "backoff"}
\* How an announcement ends: stored, given up, cut by the end of the process,
\* or never tried because the service has no publisher.
Ended == {"published", "abandoned", "cut", "unwired"}

Copies == Events \X (1 .. maxRetries)

TypeOK ==
  /\ task \in [Events -> {"none"} \cup Running \cup Ended]
  /\ attempt \in [Events -> 0 .. maxRetries]
  /\ wire \subseteq Copies /\ acked \subseteq Copies
  /\ stream \in Seq(Events)
  /\ wired \in BOOLEAN
  /\ restarts \in 0 .. MaxRestarts

\* main.go: Connect at start-up either yields a publisher for the life of the
\* process or leaves the service without one.
Init ==
  /\ task = [e \in Events |-> "none"]
  /\ attempt = [e \in Events |-> 0]
  /\ wire = {} /\ acked = {} /\ stream = <<>>
  /\ wired \in BOOLEAN
  /\ restarts = 0

Goto(e, to) == task' = [task EXCEPT ![e] = to]

\* PolicyService hands over the event of a committed write: BuildTransitionEvent
\* and a goroutine whose context is never cancelled.
PublishAsync(e) ==
  /\ task[e] = "none" /\ wired
  /\ Goto(e, "calling")
  /\ attempt' = [attempt EXCEPT ![e] = 1]
  /\ UNCHANGED <<wire, acked, stream, wired, restarts>>

\* s.pub is nil: the event is dropped without a word.
SkipPublish(e) ==
  /\ task[e] = "none" /\ ~wired
  /\ Goto(e, "unwired")
  /\ UNCHANGED <<attempt, wire, acked, stream, wired, restarts>>

\* js.Publish writes the message.
Send(e) ==
  /\ task[e] = "calling"
  /\ wire' = wire \cup {<<e, attempt[e]>>}
  /\ Goto(e, "waiting")
  /\ UNCHANGED <<attempt, acked, stream, wired, restarts>>

\* js.Publish returns nil: its own copy was acknowledged.
\* Mutant: the acknowledgement is not awaited (core NATS publish).
Published_Unawaited(e) ==
  /\ task[e] = "waiting"
  /\ Goto(e, "published")
  /\ UNCHANGED <<attempt, wire, acked, stream, wired, restarts>>

Published(e) ==
  /\ task[e] = "waiting"
  /\ <<e, attempt[e]>> \in acked
  /\ Goto(e, "published")
  /\ UNCHANGED <<attempt, wire, acked, stream, wired, restarts>>

\* js.Publish returns an error, because of its timeout or at once: back off, or
\* give up after the last attempt.
\* Mutants: it never gives up; it has no timeout once the copy has left.
PublishFailed_NoLimit(e) ==
  /\ task[e] = "waiting"
  /\ Goto(e, "backoff")
  /\ UNCHANGED <<attempt, wire, acked, stream, wired, restarts>>

PublishFailed_NoTimeout(e) ==
  /\ task[e] = "waiting" /\ <<e, attempt[e]>> \in wire
  /\ Goto(e, IF attempt[e] < maxRetries THEN "backoff" ELSE "abandoned")
  /\ UNCHANGED <<attempt, wire, acked, stream, wired, restarts>>

PublishFailed(e) ==
  /\ task[e] = "waiting"
  /\ Goto(e, IF attempt[e] < maxRetries THEN "backoff" ELSE "abandoned")
  /\ UNCHANGED <<attempt, wire, acked, stream, wired, restarts>>

\* time.After(wait): the next round of the loop.
\* Mutant: the round is not counted.
Retry_Uncounted(e) ==
  /\ task[e] = "backoff"
  /\ Goto(e, "calling")
  /\ UNCHANGED <<attempt, wire, acked, stream, wired, restarts>>

Retry(e) ==
  /\ task[e] = "backoff"
  /\ attempt' = [attempt EXCEPT ![e] = @ + 1]
  /\ Goto(e, "calling")
  /\ UNCHANGED <<wire, acked, stream, wired, restarts>>

\* The broker appends a copy that reaches it, however late.
Store(c) ==
  /\ c \in wire
  /\ wire' = wire \ {c}
  /\ stream' = Append(stream, c[1])
  /\ acked' = acked \cup {c}
  /\ UNCHANGED <<task, attempt, wired, restarts>>

LoseCopy(c) ==
  /\ c \in wire
  /\ wire' = wire \ {c}
  /\ UNCHANGED <<task, attempt, acked, stream, wired, restarts>>

\* The process ends, by a crash or by returning from main, and a new one starts
\* with or without a publisher.  What was written may still arrive.
\* Mutant: the new process can be handed the same event once more.
Restart_Anew ==
  /\ restarts < MaxRestarts
  /\ restarts' = restarts + 1
  /\ wired' \in BOOLEAN
  /\ task' = [e \in Events |-> IF task[e] \in Running THEN "none" ELSE task[e]]
  /\ UNCHANGED <<attempt, wire, acked, stream>>

Restart ==
  /\ restarts < MaxRestarts
  /\ restarts' = restarts + 1
  /\ wired' \in BOOLEAN
  /\ task' = [e \in Events |-> IF task[e] \in Running THEN "cut" ELSE task[e]]
  /\ UNCHANGED <<attempt, wire, acked, stream>>

Goroutine(e) == Send(e) \/ Published(e) \/ PublishFailed(e) \/ Retry(e)

Next ==
  \/ \E e \in Events : PublishAsync(e) \/ SkipPublish(e) \/ Goroutine(e)
  \/ \E c \in wire : Store(c) \/ LoseCopy(c)
  \/ Restart

Spec == Init /\ [][Next]_vars

\* js.Publish returns within its timeout and timers fire.
FairSpec == Spec /\ \A e \in Events : WF_vars(Goroutine(e))

------------------------------------------------------------------------------
CopiesStored(e) == Cardinality({i \in 1 .. Len(stream) : stream[i] = e})
CopiesOnWire(e) == Cardinality({i \in 1 .. maxRetries : <<e, i>> \in wire})

\* "event published" is logged only for an event that is in the stream.
PublishedIsStored ==
  \A e \in Events : task[e] = "published" => CopiesStored(e) > 0

\* Consumers see an event at most once per attempt made, so never more often
\* than maxRetries, late arrivals included; the copies carry the same id.
CopiesWithinAttempts ==
  \A e \in Events : CopiesStored(e) + CopiesOnWire(e) <= attempt[e]

\* The publisher implements EventStream: what its readers are promised holds
\* across retries, late copies and restarts.
Offered == {e \in Events : task[e] \notin {"none", "unwired"}}
Promise == INSTANCE EventStream
             WITH copies <- [e \in Offered |-> CopiesStored(e)],
                  confirmed <- {e \in Events : task[e] = "published"}
StreamPromiseKept == Promise!Spec

\* What a goroutine may still do: steps of the attempts it has left, and of the
\* one it is at.
StepsLeft(e) ==
  3 * (maxRetries - attempt[e]) +
    (CASE task[e] = "calling" -> 2 [] task[e] = "waiting" -> 1 [] OTHER -> 0)

\* A goroutine ends by its own count, whatever the broker does: no step of it
\* leaves it with as much to do as before (the loop of Publish).
AttemptsRunOut ==
  [][\A e \in Events :
       task[e] \in Running /\ task'[e] \in Running /\ task'[e] # task[e]
       => StepsLeft(e)' < StepsLeft(e)]_vars

\* Every announcement comes to one of the four ends: no goroutine waits or
\* backs off for ever.
EveryAnnouncementEnds ==
  \A e \in Events : task[e] \in Running ~> task[e] \in Ended

==============================================================================
