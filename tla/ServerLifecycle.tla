--------------------------- MODULE ServerLifecycle ---------------------------
(***************************************************************************)
(* cmd/server/main.go in a deployment of several replicas: open the pool,  *)
(* migrate the schema, wire the services, serve, and shut down.            *)
(*                                                                         *)
(* The replicas share one database.  golang-migrate takes a session-level  *)
(* advisory lock, first to see to its table and then to migrate, and       *)
(* brackets the SQL of each migration between marking its version dirty    *)
(* and marking it clean; a session that dies releases the lock and leaves  *)
(* the mark.  Up waits for the lock for 15 seconds, and then leaves its    *)
(* request for it behind, on a session that nobody closes.  The driver of  *)
(* the migration keeps one connection of the pool until it is closed, and  *)
(* pgxpool's Close waits for every connection.                             *)
(***************************************************************************)
EXTENDS Integers, FiniteSets

CONSTANTS Replicas,
          None,         \* nobody holds the advisory lock
          Latest,       \* number of migrations in db/migrations
          MaxInFlight,  \* bound on the requests a replica works on at a time
          MaxStarts     \* bound on the starts of processes

ASSUME LifecycleAssumption == /\ None \notin Replicas
                              /\ Latest \in Nat /\ MaxInFlight \in Nat
                              /\ MaxStarts \in Nat

VARIABLES
  pc,        \* where main is in each replica
  driver,    \* does the migration driver hold a connection of the pool
  inflight,  \* requests being handled
  cursor,    \* the version Up is at, in the memory of the replica
  advisory,  \* whose session holds the advisory lock
  abandoned, \* whose session asks for it, with nobody waiting for the answer
  version, dirty,  \* the row of schema_migrations
  applied,   \* how often the SQL of each migration took effect
  starts

process == <<pc, driver, inflight, cursor>>
lock == <<advisory, abandoned>>
schema == <<version, dirty, applied>>
vars == <<process, lock, schema, starts>>

WithInstance == {"preparing", "ensuring"}
Up == {"locking", "reading", "migrating", "running", "ran"}
Location == WithInstance \cup Up \cup
            {"down", "wiring", "serving", "stopping", "closing", "failing"}

TypeOK ==
  /\ pc \in [Replicas -> Location]
  /\ driver \in [Replicas -> BOOLEAN]
  /\ inflight \in [Replicas -> 0 .. MaxInFlight]
  /\ cursor \in [Replicas -> 0 .. Latest]
  /\ advisory \in Replicas \cup {None} /\ abandoned \subseteq Replicas
  /\ version \in 0 .. Latest /\ dirty \in BOOLEAN
  /\ applied \in [1 .. Latest -> Nat]
  /\ starts \in 0 .. MaxStarts

Init ==
  /\ pc = [r \in Replicas |-> "down"]
  /\ driver = [r \in Replicas |-> FALSE]
  /\ inflight = [r \in Replicas |-> 0]
  /\ cursor = [r \in Replicas |-> 0]
  /\ advisory = None /\ abandoned = {}
  /\ version = 0 /\ dirty = FALSE
  /\ applied = [i \in 1 .. Latest |-> 0]
  /\ starts = 0

Goto(r, to) == pc' = [pc EXCEPT ![r] = to]
Local(r, f, t) == /\ pc[r] = f /\ Goto(r, t)
                  /\ UNCHANGED <<driver, inflight, cursor, starts>>

------------------------------------------------------------------------------
(* The advisory lock *)

Acquire(r) == advisory = None /\ advisory' = r

\* pg_advisory_unlock, or the end of the session.
Release(r) == advisory' = IF advisory = r THEN None ELSE advisory

\* pg_advisory_lock of a request that Up has given up is granted like any other.
GrantAbandoned(r) ==
  /\ r \in abandoned /\ Acquire(r)
  /\ abandoned' = abandoned \ {r}
  /\ UNCHANGED <<process, schema, starts>>

\* The connection of the driver is broken; database/sql may notice and drop it.
ConnectionLost(r) == driver' \in {driver, [driver EXCEPT ![r] = FALSE]}

------------------------------------------------------------------------------
(* Start-up *)

\* pgxpool.New, which does not connect, and the first statements of WithInstance,
\* which do; or the database is not reachable.
Start(r) ==
  /\ pc[r] = "down" /\ starts < MaxStarts
  /\ starts' = starts + 1
  /\ \/ Goto(r, "preparing") /\ driver' = [driver EXCEPT ![r] = TRUE]
     \/ Goto(r, "failing") /\ UNCHANGED driver
  /\ UNCHANGED <<inflight, cursor, lock, schema>>

\* ensureVersionTable waits for the lock as long as it takes,
PrepareLock(r) ==
  /\ Acquire(r) /\ UNCHANGED abandoned
  /\ Local(r, "preparing", "ensuring")
  /\ UNCHANGED schema

\* and gives it back when the table is there.
EnsureVersionTable(r) ==
  /\ Release(r) /\ UNCHANGED abandoned
  /\ Local(r, "ensuring", "locking")
  /\ UNCHANGED schema

\* Up: the lock once more.
Lock(r) ==
  /\ Acquire(r) /\ UNCHANGED abandoned
  /\ Local(r, "locking", "reading")
  /\ UNCHANGED schema

\* Up: the version, refused when it is dirty (ErrDirty).
ReadVersion(r) ==
  /\ pc[r] = "reading" /\ ~dirty
  /\ cursor' = [cursor EXCEPT ![r] = version]
  /\ Goto(r, "migrating")
  /\ UNCHANGED <<driver, inflight, lock, schema, starts>>

\* Up: one migration, in three statements.
\* Mutant: it does not stop at the last migration.
MarkDirty_PastEnd(r) ==
  /\ pc[r] = "migrating"
  /\ cursor' = [cursor EXCEPT ![r] = @ + 1]
  /\ version' = cursor[r] + 1 /\ dirty' = TRUE
  /\ Goto(r, "running")
  /\ UNCHANGED <<driver, inflight, lock, applied, starts>>

MarkDirty(r) ==
  /\ pc[r] = "migrating" /\ cursor[r] < Latest
  /\ cursor' = [cursor EXCEPT ![r] = @ + 1]
  /\ version' = cursor[r] + 1 /\ dirty' = TRUE
  /\ Goto(r, "running")
  /\ UNCHANGED <<driver, inflight, lock, applied, starts>>

RunBody(r) ==
  /\ applied' = [applied EXCEPT ![cursor[r]] = @ + 1]
  /\ Local(r, "running", "ran")
  /\ UNCHANGED <<lock, version, dirty>>

MarkClean(r) ==
  /\ version' = cursor[r] /\ dirty' = FALSE
  /\ Local(r, "ran", "migrating")
  /\ UNCHANGED <<lock, applied>>

\* runMigrations returns nil: applied, or ErrNoChange.
Migrated(r) ==
  /\ cursor[r] = Latest
  /\ Local(r, "migrating", "wiring")
  /\ Release(r) /\ UNCHANGED <<abandoned, schema>>

\* What main does when runMigrations returns an error: pool.Close, os.Exit(1).
\* Mutant: the error is logged and main goes on.
GiveUp_Ignored(r) == Goto(r, "wiring")

GiveUp(r) == Goto(r, "failing")

\* Up: ErrLockTimeout after 15 seconds.  The request for the lock stays.
LockTimeout(r) ==
  /\ pc[r] = "locking" /\ advisory # None
  /\ GiveUp(r)
  /\ abandoned' = abandoned \cup {r}
  /\ UNCHANGED <<driver, inflight, cursor, advisory, schema, starts>>

\* Up: ErrDirty.
\* Mutant: a dirty version is waited for.
RefuseDirty_Waits(r) == pc[r] = "reading" /\ dirty /\ UNCHANGED vars

RefuseDirty(r) ==
  /\ pc[r] = "reading" /\ dirty
  /\ GiveUp(r)
  /\ Release(r)
  /\ UNCHANGED <<driver, inflight, cursor, abandoned, schema, starts>>

\* A statement of WithInstance or Up fails, or its session is lost.
StatementFails(r) ==
  /\ pc[r] \in WithInstance \cup Up
  /\ GiveUp(r)
  /\ Release(r) /\ ConnectionLost(r)
  /\ UNCHANGED <<inflight, cursor, abandoned, schema, starts>>

\* Services, MinIO if configured, NATS if reachable; then the HTTP server.
Wire(r) == Local(r, "wiring", "serving") /\ UNCHANGED <<lock, schema>>

\* MinIO is not reachable: pool.Close and os.Exit(1).
WireFailed(r) ==
  Local(r, "wiring", "failing") /\ UNCHANGED <<lock, schema>>

------------------------------------------------------------------------------
(* Service and shutdown *)

Accept(r) ==
  /\ pc[r] = "serving" /\ inflight[r] < MaxInFlight
  /\ inflight' = [inflight EXCEPT ![r] = @ + 1]
  /\ UNCHANGED <<pc, driver, cursor, lock, schema, starts>>

Answer(r) ==
  /\ inflight[r] > 0
  /\ inflight' = [inflight EXCEPT ![r] = @ - 1]
  /\ UNCHANGED <<pc, driver, cursor, lock, schema, starts>>

\* SIGTERM or SIGINT.
Signal(r) == Local(r, "serving", "stopping") /\ UNCHANGED <<lock, schema>>

\* srv.Shutdown: the requests are done, or ten seconds are over.
Shutdown(r) ==
  Local(r, "stopping", "closing") /\ UNCHANGED <<lock, schema>>

\* pool.Close returns when every connection is back.
PoolReturned(r) == ~driver[r] /\ inflight[r] = 0

\* The process is gone, with all that is in its memory and its sessions.
Gone(r) ==
  /\ Goto(r, "down")
  /\ driver' = [driver EXCEPT ![r] = FALSE]
  /\ inflight' = [inflight EXCEPT ![r] = 0]
  /\ cursor' = [cursor EXCEPT ![r] = 0]
  /\ Release(r) /\ abandoned' = abandoned \ {r}
  /\ UNCHANGED <<schema, starts>>

\* The end of main: pool.Close, deferred last and run first, with pub.Close
\* after it, which does not wait; or pool.Close before os.Exit(1).
Exit(r) == /\ pc[r] \in {"closing", "failing"}
           /\ PoolReturned(r)
           /\ Gone(r)

\* SIGKILL, a panic or the loss of the node, at any moment; before signal.Notify
\* any signal.
Kill(r) == pc[r] # "down" /\ Gone(r)

\* The database loses the session a hanging replica has left behind.  Only a
\* statement that still waits on it can notice.
SessionLost(r) ==
  /\ pc[r] = "failing"
  /\ \/ r \in abandoned /\ ConnectionLost(r)
     \/ advisory = r /\ UNCHANGED driver
  /\ Release(r) /\ abandoned' = abandoned \ {r}
  /\ UNCHANGED <<pc, inflight, cursor, schema, starts>>

------------------------------------------------------------------------------
Progress(r) ==
  \/ PrepareLock(r) \/ EnsureVersionTable(r) \/ Lock(r) \/ LockTimeout(r)
  \/ ReadVersion(r) \/ RefuseDirty(r)
  \/ MarkDirty(r) \/ RunBody(r) \/ MarkClean(r) \/ Migrated(r)
  \/ Wire(r) \/ WireFailed(r) \/ Answer(r) \/ Shutdown(r) \/ Exit(r)
  \/ GrantAbandoned(r)

Environment(r) == \/ Start(r) \/ Accept(r) \/ Signal(r) \/ Kill(r)
                  \/ StatementFails(r) \/ SessionLost(r)

Next == \E r \in Replicas : Progress(r) \/ Environment(r)

Spec == Init /\ [][Next]_vars

\* main, the handlers, the 15 seconds and the database's queue for the lock go on
\* when they can.  Starts, signals, kills and failures need not happen.
FairSpec == Spec /\ \A r \in Replicas : WF_vars(Progress(r))

------------------------------------------------------------------------------
\* A replica serves only on a schema whose every migration took effect, and
\* exactly once: other replicas that start, fail or die meanwhile, at any
\* statement of a migration, neither skip one nor run one again.
ServesMigrated ==
  /\ \A i \in 1 .. Latest : applied[i] <= 1
  /\ \A r \in Replicas : pc[r] \in {"wiring", "serving", "stopping"} =>
       ~dirty /\ \A i \in 1 .. Latest : applied[i] = 1

\* A replica that gave up in Up and has been granted the lock all the same: it
\* hangs in pool.Close and does not give it back.
Wedged(r) == pc[r] = "failing" /\ advisory = r

\* Start-up comes to a decision, whatever happened to the replicas that migrated
\* before: the replica serves, gives up, or is killed.  One thing can keep it
\* waiting: the lock of a replica that gave up waiting for it (runMigrations
\* leaves m and driver open, and WithInstance has no time limit).
StartupDecides ==
  \A r \in Replicas :
    pc[r] \in WithInstance \cup Up \cup {"wiring"} ~>
      \/ pc[r] \in {"serving", "failing", "down"}
      \/ [](\E w \in Replicas : Wedged(w))

\* "m.Close() releases the driver (which closes sqlDB) before pool.Close() runs"
\* (tests/integration/setup_test.go): a replica that is told to stop does stop.
ShutdownCompletes ==
  \A r \in Replicas : pc[r] = "stopping" ~> pc[r] = "down"

==============================================================================
