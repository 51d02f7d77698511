------------------------ MODULE ServerLifecycleProofs ------------------------
(***************************************************************************)
(* Theorems about ServerLifecycle, for any replicas, any number of         *)
(* migrations and any number of starts.                                    *)
(*                                                                         *)
(* ServesMigrated is not inductive: it says nothing of the replica that is *)
(* in the middle of a migration, and nothing of what a dead one has left.  *)
(* Whoever is inside Up holds the advisory lock, so there is one writer of *)
(* the schema at a time, and a version left dirty stops everybody.  A      *)
(* replica that has given up may hold the lock too, and then writes        *)
(* nothing.                                                                *)
(***************************************************************************)
EXTENDS ServerLifecycle, TLAPS

\* Where WithInstance or m.Up() holds the advisory lock.
Locked == {"ensuring", "reading", "migrating", "running", "ran"}

\* Else it is held only by a replica that has given up.
LockHeld ==
  \A r \in Replicas : /\ pc[r] \in Locked => advisory = r
                      /\ advisory = r => pc[r] \in Locked \cup {"failing"}

\* Every migration below the version took effect once, none above it did, and
\* that of the version itself if it is clean.
SchemaSound ==
  \A i \in 1 .. Latest :
    /\ i < version => applied[i] = 1
    /\ i = version => applied[i] = 1 \/ (dirty /\ applied[i] = 0)
    /\ i > version => applied[i] = 0

\* Between the two marks of a migration the version is dirty, and it is the one
\* the replica works on.
MigrationUnderWay ==
  \A r \in Replicas :
    /\ pc[r] = "migrating" => ~dirty /\ cursor[r] = version
    /\ pc[r] \in {"running", "ran"} =>
         dirty /\ cursor[r] = version /\ version > 0
    /\ pc[r] = "running" => applied[version] = 0
    /\ pc[r] = "ran" => applied[version] = 1

\* Past the migration the schema is the latest, for good.
MigratedForGood ==
  \A r \in Replicas : pc[r] \in {"wiring", "serving", "stopping"} =>
                        ~dirty /\ version = Latest

\* Only who has given up has a request for the lock behind it.
AbandonedBehind == \A r \in abandoned : pc[r] = "failing" /\ advisory # r

IInv == /\ TypeOK /\ LockHeld /\ AbandonedBehind
        /\ SchemaSound /\ MigrationUnderWay /\ MigratedForGood

------------------------------------------------------------------------------
LEMMA InitIInv == Init => IInv
<1> SUFFICES ASSUME Init PROVE IInv
  OBVIOUS
<1>1. "down" \in Location /\ 0 \in 0 .. Latest /\ 0 \in 0 .. MaxInFlight
      /\ 0 \in 0 .. MaxStarts
  BY LifecycleAssumption DEF Location
<1>2. TypeOK
  BY <1>1 DEF Init, TypeOK
<1>3. \A r \in Replicas : pc[r] = "down"
  BY DEF Init
<1>4. LockHeld /\ AbandonedBehind
  BY <1>3, LifecycleAssumption DEF Init, LockHeld, Locked, AbandonedBehind
<1>5. SchemaSound
  BY DEF Init, SchemaSound
<1>6. MigrationUnderWay /\ MigratedForGood
  BY <1>3 DEF MigrationUnderWay, MigratedForGood
<1>7. QED
  BY <1>2, <1>4, <1>5, <1>6 DEF IInv

\* A step to a place without the lock: it knows nothing of the schema, or, behind
\* the migration, that there is nothing left to migrate.
LEMMA OutsideStep ==
  ASSUME IInv, TypeOK', NEW r \in Replicas, NEW to,
         pc' = [pc EXCEPT ![r] = to], to \notin Locked,
         UNCHANGED <<version, dirty, applied>>,
         \/ pc[r] \notin Locked /\ advisory # r /\ advisory' = advisory
         \/ Release(r),
         abandoned' \subseteq abandoned \cup {r},
         r \in abandoned' => to = "failing",
         \A q \in Replicas \ {r} : cursor'[q] = cursor[q],
         to \in {"wiring", "serving", "stopping"} => ~dirty /\ version = Latest
  PROVE  IInv'
<1>1. /\ pc'[r] = to
      /\ \A q \in Replicas \ {r} : pc'[q] = pc[q] /\ cursor'[q] = cursor[q]
  BY DEF IInv, TypeOK
<1>2. LockHeld' /\ AbandonedBehind'
  <2>1. /\ advisory' # r
        /\ \A q \in Replicas \ {r} : advisory' = q <=> advisory = q
    BY LifecycleAssumption DEF IInv, LockHeld, Release
  <2>2. LockHeld'
    BY <1>1, <2>1 DEF IInv, LockHeld
  <2>3. ASSUME NEW q \in abandoned'
        PROVE  pc'[q] = "failing" /\ advisory' # q
    BY <1>1, <2>1 DEF IInv, TypeOK, AbandonedBehind
  <2>4. QED
    BY <2>2, <2>3 DEF AbandonedBehind
<1>3. SchemaSound'
  BY DEF IInv, SchemaSound
<1>4. MigrationUnderWay'
  BY <1>1 DEF IInv, MigrationUnderWay, Locked
<1>5. MigratedForGood'
  BY <1>1 DEF IInv, MigratedForGood
<1>6. QED
  BY <1>2, <1>3, <1>4, <1>5 DEF IInv

\* A step inside Up: the others are not there, and they are behind the migration
\* only if there is nothing left to migrate.
LEMMA InsideStep ==
  ASSUME IInv, TypeOK', NEW r \in Replicas, NEW to \in Locked,
         pc' = [pc EXCEPT ![r] = to], advisory' = r,
         pc[r] # "failing", abandoned' = abandoned,
         advisory \in {r, None},
         SchemaSound',
         UNCHANGED <<version, dirty>> \/ dirty \/ version # Latest,
         to = "migrating" => ~dirty' /\ cursor'[r] = version',
         to \in {"running", "ran"} =>
           dirty' /\ cursor'[r] = version' /\ version' > 0,
         to = "running" => applied'[version'] = 0,
         to = "ran" => applied'[version'] = 1
  PROVE  IInv'
<1>1. /\ pc'[r] = to
      /\ \A q \in Replicas \ {r} : pc'[q] = pc[q]
  BY DEF IInv, TypeOK
<1>2. \A q \in Replicas \ {r} : pc[q] \notin Locked
  BY LifecycleAssumption DEF IInv, LockHeld
<1>3. LockHeld' /\ AbandonedBehind'
  <2>1. LockHeld'
    BY <1>1, <1>2 DEF LockHeld
  <2>2. ASSUME NEW q \in abandoned
        PROVE  pc'[q] = "failing" /\ advisory' # q
    <3>1. pc[q] = "failing" /\ q \in Replicas /\ q # r
      BY <2>2 DEF IInv, TypeOK, AbandonedBehind
    <3>2. QED
      BY <1>1, <3>1
  <2>3. QED
    BY <2>1, <2>2 DEF AbandonedBehind
<1>4. MigrationUnderWay'
  BY <1>1, <1>2 DEF MigrationUnderWay, Locked
<1>5. MigratedForGood'
  <2>1. ASSUME NEW q \in Replicas, pc'[q] \in {"wiring", "serving", "stopping"}
        PROVE  ~dirty' /\ version' = Latest
    <3>1. q # r
      BY <2>1, <1>1 DEF Locked
    <3>2. ~dirty /\ version = Latest
      BY <2>1, <3>1, <1>1 DEF IInv, MigratedForGood
    <3>3. QED
      BY <3>2
  <2>2. QED
    BY <2>1 DEF MigratedForGood
<1>6. QED
  BY <1>3, <1>4, <1>5 DEF IInv

------------------------------------------------------------------------------
LEMMA StartStep ==
  ASSUME IInv, NEW r \in Replicas, Start(r)
  PROVE  IInv'
<1>1. PICK to \in {"preparing", "failing"} : pc' = [pc EXCEPT ![r] = to]
  BY DEF Start, Goto
<1>2. TypeOK'
  <2>1. pc' \in [Replicas -> Location]
    BY <1>1 DEF IInv, TypeOK, Location, WithInstance
  <2>2. driver' \in [Replicas -> BOOLEAN]
    BY DEF IInv, TypeOK, Start
  <2>3. starts' \in 0 .. MaxStarts
    BY LifecycleAssumption DEF IInv, TypeOK, Start
  <2>4. QED
    BY <2>1, <2>2, <2>3 DEF IInv, TypeOK, Start, lock, schema
<1>3. /\ pc[r] \notin Locked /\ advisory # r /\ advisory' = advisory
      /\ abandoned' = abandoned /\ r \notin abandoned
  BY DEF Start, lock, Locked, IInv, LockHeld, AbandonedBehind
<1>4. QED
  BY <1>1, <1>2, <1>3, OutsideStep DEF Start, schema, Locked

\* WithInstance's turn with the lock changes nothing of the schema.
LEMMA PrepareStep ==
  ASSUME IInv, NEW r \in Replicas, PrepareLock(r) \/ EnsureVersionTable(r)
  PROVE  IInv'
<1>1. CASE PrepareLock(r)
  <2>1. TypeOK' /\ SchemaSound'
    BY <1>1 DEF IInv, TypeOK, PrepareLock, Acquire, Local, Goto, schema,
       SchemaSound, Location, WithInstance
  <2>2. /\ pc' = [pc EXCEPT ![r] = "ensuring"] /\ advisory = None
        /\ advisory' = r /\ abandoned' = abandoned /\ pc[r] # "failing"
        /\ UNCHANGED <<version, dirty>>
    BY <1>1 DEF PrepareLock, Acquire, Local, Goto, schema
  <2>3. QED
    BY <2>1, <2>2, InsideStep DEF Locked
<1>2. CASE EnsureVersionTable(r)
  <2>1. TypeOK'
    BY <1>2 DEF IInv, TypeOK, EnsureVersionTable, Release, Local, Goto, schema,
       Location, Up
  <2>2. /\ pc' = [pc EXCEPT ![r] = "locking"] /\ Release(r)
        /\ UNCHANGED <<version, dirty, applied>> /\ cursor' = cursor
        /\ abandoned' = abandoned /\ r \notin abandoned
    BY <1>2 DEF EnsureVersionTable, Local, Goto, schema, IInv, AbandonedBehind
  <2>3. QED
    BY <2>1, <2>2, OutsideStep DEF Locked
<1>3. QED
  BY <1>1, <1>2

\* A lock that nobody waited for changes hands, and nothing else.
LEMMA GrantStep ==
  ASSUME IInv, NEW r \in Replicas, GrantAbandoned(r)
  PROVE  IInv'
<1>1. /\ UNCHANGED <<process, schema, starts>>
      /\ advisory = None /\ advisory' = r /\ pc[r] = "failing"
      /\ abandoned' = abandoned \ {r}
  BY DEF GrantAbandoned, Acquire, IInv, AbandonedBehind
<1>2. TypeOK'
  BY <1>1 DEF IInv, TypeOK, process, schema
<1>3. LockHeld' /\ AbandonedBehind'
  BY <1>1, LifecycleAssumption
     DEF IInv, TypeOK, LockHeld, AbandonedBehind, Locked, process
<1>4. QED
  BY <1>1, <1>2, <1>3 DEF IInv, SchemaSound, MigrationUnderWay, MigratedForGood,
     process, schema

LEMMA UpStep ==
  ASSUME IInv, NEW r \in Replicas,
         Lock(r) \/ ReadVersion(r) \/ MarkDirty(r) \/ RunBody(r) \/ MarkClean(r)
  PROVE  IInv'
<1>1. CASE Lock(r)
  <2>1. TypeOK' /\ SchemaSound'
    BY <1>1 DEF IInv, TypeOK, Lock, Acquire, Local, Goto, schema, SchemaSound,
       Location, Up
  <2>2. /\ pc' = [pc EXCEPT ![r] = "reading"] /\ advisory = None
        /\ advisory' = r /\ abandoned' = abandoned /\ pc[r] # "failing"
        /\ UNCHANGED <<version, dirty>>
    BY <1>1 DEF Lock, Acquire, Local, Goto, schema
  <2>3. QED
    BY <2>1, <2>2, InsideStep DEF Locked
<1>2. CASE ReadVersion(r)
  <2>1. TypeOK' /\ SchemaSound'
    BY <1>2, LifecycleAssumption
       DEF IInv, TypeOK, ReadVersion, Goto, lock, schema, SchemaSound, Location, Up
  <2>2. /\ advisory = r /\ advisory' = r /\ abandoned' = abandoned
        /\ cursor'[r] = version'
    BY <1>2, LifecycleAssumption
       DEF IInv, TypeOK, ReadVersion, lock, schema, LockHeld, Locked
  <2>3. /\ pc' = [pc EXCEPT ![r] = "migrating"] /\ pc[r] = "reading"
        /\ UNCHANGED <<version, dirty>> /\ ~dirty
    BY <1>2, LifecycleAssumption DEF IInv, TypeOK, ReadVersion, Goto, schema
  <2>4. QED
    BY <2>1, <2>2, <2>3, InsideStep DEF Locked
<1>3. CASE MarkDirty(r)
  <2>1. ~dirty /\ cursor[r] = version /\ version < Latest
    BY <1>3, LifecycleAssumption DEF IInv, TypeOK, MarkDirty, MigrationUnderWay
  <2>2. version' = version + 1 /\ cursor'[r] = version + 1 /\ dirty'
        /\ applied' = applied /\ advisory' = advisory
        /\ abandoned' = abandoned /\ pc' = [pc EXCEPT ![r] = "running"]
    BY <1>3, <2>1, LifecycleAssumption DEF IInv, TypeOK, MarkDirty, Goto, lock
  <2>3. TypeOK'
    BY <1>3, <2>1, <2>2, LifecycleAssumption
       DEF IInv, TypeOK, MarkDirty, lock, Location, Up
  <2>4. SchemaSound' /\ applied'[version'] = 0
    BY <2>1, <2>2, LifecycleAssumption DEF IInv, TypeOK, SchemaSound
  <2>5. advisory = r /\ advisory' = r /\ pc[r] # "failing"
    BY <1>3, <2>2, LifecycleAssumption
       DEF IInv, TypeOK, MarkDirty, LockHeld, Locked
  <2>6. QED
    <3>1. \/ UNCHANGED <<version, dirty>> \/ dirty \/ version # Latest
      BY <2>1, LifecycleAssumption DEF IInv, TypeOK
    <3>2. version' > 0 /\ cursor'[r] = version'
      BY <2>2, LifecycleAssumption DEF IInv, TypeOK
    <3>3. QED
      BY <2>2, <2>3, <2>4, <2>5, <3>1, <3>2, InsideStep DEF Locked
<1>4. CASE RunBody(r)
  <2>1. /\ dirty /\ cursor[r] = version /\ version \in 1 .. Latest
        /\ applied[version] = 0 /\ pc[r] = "running"
    BY <1>4, LifecycleAssumption DEF IInv, TypeOK, RunBody, Local, MigrationUnderWay
  <2>2. /\ applied' = [applied EXCEPT ![version] = @ + 1]
        /\ version' = version /\ dirty' = dirty /\ cursor' = cursor
        /\ advisory' = advisory /\ abandoned' = abandoned
        /\ pc' = [pc EXCEPT ![r] = "ran"]
    BY <1>4, <2>1, LifecycleAssumption
       DEF IInv, TypeOK, RunBody, Local, Goto, lock
  <2>3. TypeOK'
    BY <1>4, <2>1, <2>2, LifecycleAssumption
       DEF IInv, TypeOK, RunBody, Local, Location, Up
  <2>4. /\ applied'[version] = 1
        /\ \A i \in 1 .. Latest : i # version => applied'[i] = applied[i]
    BY <2>1, <2>2 DEF IInv, TypeOK
  <2>5. SchemaSound'
    BY <2>1, <2>2, <2>4, LifecycleAssumption DEF IInv, TypeOK, SchemaSound
  <2>6. advisory = r /\ advisory' = r /\ pc[r] # "failing"
    BY <2>1, <2>2, LifecycleAssumption DEF IInv, TypeOK, LockHeld, Locked
  <2>7. version' > 0 /\ cursor'[r] = version' /\ applied'[version'] = 1
    BY <2>1, <2>2, <2>4, LifecycleAssumption
  <2>8. QED
    BY <2>1, <2>2, <2>3, <2>5, <2>6, <2>7, InsideStep DEF Locked
<1>5. CASE MarkClean(r)
  <2>1. /\ dirty /\ cursor[r] = version /\ version \in 1 .. Latest
        /\ applied[version] = 1 /\ pc[r] = "ran"
    BY <1>5, LifecycleAssumption DEF IInv, TypeOK, MarkClean, Local, MigrationUnderWay
  <2>2. /\ version' = version /\ ~dirty' /\ cursor' = cursor
        /\ applied' = applied
        /\ advisory' = advisory /\ abandoned' = abandoned
        /\ pc' = [pc EXCEPT ![r] = "migrating"]
    BY <1>5, <2>1, LifecycleAssumption
       DEF IInv, TypeOK, MarkClean, Local, Goto, lock
  <2>3. TypeOK'
    BY <1>5, <2>1, <2>2, LifecycleAssumption
       DEF IInv, TypeOK, MarkClean, Local, Location, Up
  <2>4. SchemaSound'
    BY <2>1, <2>2, LifecycleAssumption DEF IInv, TypeOK, SchemaSound
  <2>5. advisory = r /\ advisory' = r /\ pc[r] # "failing"
    BY <2>1, <2>2, LifecycleAssumption DEF IInv, TypeOK, LockHeld, Locked
  <2>6. QED
    BY <2>1, <2>2, <2>3, <2>4, <2>5, InsideStep DEF Locked
<1>6. QED
  BY <1>1, <1>2, <1>3, <1>4, <1>5

\* runMigrations returns, and m and driver stay open.
LEMMA UpEnds ==
  ASSUME IInv, NEW r \in Replicas,
         \/ Migrated(r) \/ LockTimeout(r) \/ RefuseDirty(r) \/ StatementFails(r)
  PROVE  IInv'
<1> DEFINE to == IF Migrated(r) THEN "wiring" ELSE "failing"
<1>1. /\ pc' = [pc EXCEPT ![r] = to]
      /\ UNCHANGED <<inflight, cursor, schema, starts>>
      /\ pc[r] \notin {"failing", "down"}
  BY DEF Migrated, LockTimeout, RefuseDirty, StatementFails, GiveUp, Local, Goto,
     WithInstance, Up
<1>2. driver' \in [Replicas -> BOOLEAN]
  BY DEF Migrated, LockTimeout, RefuseDirty, StatementFails, ConnectionLost,
     Local, IInv, TypeOK
<1>3. r \notin abandoned
  BY <1>1 DEF IInv, AbandonedBehind
<1>4. \/ abandoned' = abandoned
      \/ to = "failing" /\ abandoned' = abandoned \cup {r}
  <2>1. CASE LockTimeout(r)
    BY <2>1 DEF LockTimeout, Migrated, Local
  <2>2. CASE Migrated(r) \/ RefuseDirty(r) \/ StatementFails(r)
    BY <2>2 DEF Migrated, RefuseDirty, StatementFails
  <2>3. QED
    BY <2>1, <2>2
<1>5. \/ pc[r] \notin Locked /\ advisory # r /\ advisory' = advisory
      \/ Release(r)
  BY DEF Migrated, LockTimeout, RefuseDirty, StatementFails, Locked, IInv,
     LockHeld
<1>6. TypeOK'
  BY <1>1, <1>2, <1>4, <1>5
     DEF IInv, TypeOK, Release, schema, Location
<1>7. to = "wiring" => ~dirty /\ version = Latest
  BY DEF Migrated, Local, IInv, MigrationUnderWay
<1>8. to \notin Locked /\ to \notin {"serving", "stopping"}
  BY DEF Locked
<1> HIDE DEF to
<1>9. /\ abandoned' \subseteq abandoned \cup {r}
      /\ r \in abandoned' => to = "failing"
      /\ UNCHANGED <<version, dirty, applied>> /\ cursor' = cursor
  BY <1>1, <1>3, <1>4 DEF schema
<1>10. QED
  BY <1>1, <1>5, <1>6, <1>7, <1>8, <1>9, OutsideStep

LEMMA ServingStep ==
  ASSUME IInv, NEW r \in Replicas,
         Wire(r) \/ WireFailed(r) \/ Signal(r) \/ Shutdown(r)
  PROVE  IInv'
<1>1. /\ UNCHANGED <<driver, inflight, cursor, lock, schema, starts>>
      /\ pc[r] \in {"wiring", "serving", "stopping"}
  BY DEF Wire, WireFailed, Signal, Shutdown, Local
<1>2. PICK to \in {"serving", "stopping", "closing", "failing"} :
        pc' = [pc EXCEPT ![r] = to]
  BY DEF Wire, WireFailed, Signal, Shutdown, Local, Goto
<1>3. TypeOK'
  BY <1>1, <1>2 DEF IInv, TypeOK, lock, schema, Location
<1>4. ~dirty /\ version = Latest
  BY <1>1 DEF IInv, MigratedForGood
<1>5. /\ pc[r] \notin Locked /\ advisory # r /\ advisory' = advisory
      /\ abandoned' = abandoned /\ r \notin abandoned
  BY <1>1 DEF lock, Locked, IInv, LockHeld, AbandonedBehind
<1>6. QED
  BY <1>1, <1>2, <1>3, <1>4, <1>5, OutsideStep DEF schema, Locked

LEMMA RequestStep ==
  ASSUME IInv, NEW r \in Replicas, Accept(r) \/ Answer(r)
  PROVE  IInv'
<1>1. TypeOK'
  <2>1. inflight' \in [Replicas -> 0 .. MaxInFlight]
    <3>1. PICK n \in 0 .. MaxInFlight : inflight' = [inflight EXCEPT ![r] = n]
      BY LifecycleAssumption DEF IInv, TypeOK, Accept, Answer
    <3>2. QED
      BY <3>1 DEF IInv, TypeOK
  <2>2. QED
    BY <2>1 DEF IInv, TypeOK, Accept, Answer, lock, schema
<1>2. UNCHANGED <<pc, cursor, lock, schema>>
  BY DEF Accept, Answer
<1>3. QED
  BY <1>1, <1>2 DEF IInv, lock, schema, LockHeld, AbandonedBehind, SchemaSound,
                    MigrationUnderWay, MigratedForGood

\* The end of a process, or of the session it has left behind.
LEMMA GoneStep ==
  ASSUME IInv, NEW r \in Replicas, Exit(r) \/ Kill(r) \/ SessionLost(r)
  PROVE  IInv'
<1> DEFINE to == IF SessionLost(r) THEN "failing" ELSE "down"
<1>1. /\ Release(r) /\ abandoned' = abandoned \ {r}
      /\ UNCHANGED <<schema, starts>>
      /\ pc' = [pc EXCEPT ![r] = to]
      /\ \A q \in Replicas \ {r} : cursor'[q] = cursor[q]
  BY DEF Exit, Kill, SessionLost, Gone, Goto, IInv, TypeOK
<1>2. /\ driver' \in [Replicas -> BOOLEAN]
      /\ inflight' \in [Replicas -> 0 .. MaxInFlight]
      /\ cursor' \in [Replicas -> 0 .. Latest]
  <2>1. CASE Exit(r) \/ Kill(r)
    <3>1. 0 \in 0 .. MaxInFlight /\ 0 \in 0 .. Latest
      BY LifecycleAssumption
    <3>2. QED
      BY <2>1, <3>1 DEF Exit, Kill, Gone, IInv, TypeOK
  <2>2. CASE SessionLost(r)
    BY <2>2 DEF SessionLost, ConnectionLost, IInv, TypeOK
  <2>3. QED
    BY <2>1, <2>2
<1>3. TypeOK'
  BY <1>1, <1>2 DEF IInv, TypeOK, Release, schema, Location
<1>4. to \notin Locked /\ to \notin {"wiring", "serving", "stopping"}
  BY DEF Locked
<1> HIDE DEF to
<1>5. QED
  BY <1>1, <1>3, <1>4, OutsideStep DEF schema

LEMMA NextIInv == IInv /\ [Next]_vars => IInv'
<1> SUFFICES ASSUME IInv, [Next]_vars PROVE IInv'
  OBVIOUS
<1>1. CASE UNCHANGED vars
  BY <1>1 DEF vars, process, lock, schema, IInv, TypeOK, LockHeld,
              AbandonedBehind, SchemaSound, MigrationUnderWay, MigratedForGood
<1>2. CASE Next
  BY <1>2, StartStep, PrepareStep, GrantStep, UpStep, UpEnds, ServingStep,
     RequestStep, GoneStep DEF Next, Progress, Environment
<1>3. QED
  BY <1>1, <1>2

------------------------------------------------------------------------------
\* IInv is an invariant of main.go's replicas.
THEOREM Invariance == Spec => []IInv
BY InitIInv, NextIInv, PTL DEF Spec

\* The types of ServerLifecycle: in particular no version beyond the latest and
\* no request beyond the bound.
THEOREM TypeCorrect == Spec => []TypeOK
<1>1. IInv => TypeOK
  BY DEF IInv
<1>2. QED
  BY <1>1, Invariance, PTL

\* Whoever serves, serves on a schema to which every migration was applied once,
\* however many replicas start, fail and die at any statement of runMigrations.
THEOREM ServingIsMigrated == Spec => []ServesMigrated
<1>1. IInv => ServesMigrated
  <2> SUFFICES ASSUME IInv PROVE ServesMigrated
    OBVIOUS
  <2>1. \A i \in 1 .. Latest : i < version \/ i = version \/ i > version
    BY DEF IInv, TypeOK
  <2>2. \A i \in 1 .. Latest : applied[i] <= 1
    BY <2>1 DEF IInv, SchemaSound
  <2>3. ASSUME NEW r \in Replicas, pc[r] \in {"wiring", "serving", "stopping"}
        PROVE  ~dirty /\ \A i \in 1 .. Latest : applied[i] = 1
    <3>1. ~dirty /\ version = Latest
      BY <2>3 DEF IInv, MigratedForGood
    <3>2. QED
      BY <3>1, <2>1, LifecycleAssumption DEF IInv, SchemaSound
  <2>4. QED
    BY <2>2, <2>3 DEF ServesMigrated
<1>2. QED
  BY <1>1, Invariance, PTL

------------------------------------------------------------------------------
(* Why ShutdownCompletes fails *)

\* From the moment the pool is open the driver has its connection, and while a
\* request for the lock is behind, or what it got, it is out.
DriverOut ==
  \A r \in Replicas :
    \/ pc[r] \notin {"down", "failing"}
    \/ r \in abandoned \/ advisory = r
    => driver[r]

\* A step of r leaves the others and what they are to the database alone.
LEMMA OthersStay ==
  ASSUME IInv, NEW r \in Replicas, Progress(r) \/ Environment(r),
         NEW q \in Replicas \ {r}
  PROVE  /\ pc'[q] = pc[q] /\ driver'[q] = driver[q]
         /\ q \in abandoned' <=> q \in abandoned
         /\ advisory' = q <=> advisory = q
<1> USE LifecycleAssumption DEF IInv, TypeOK, Goto, lock, process
<1>1. CASE PrepareLock(r) \/ EnsureVersionTable(r) \/ Lock(r) \/ GrantAbandoned(r)
  BY <1>1 DEF PrepareLock, EnsureVersionTable, Lock, GrantAbandoned, Acquire,
     Release, Local
<1>2. CASE LockTimeout(r) \/ RefuseDirty(r) \/ StatementFails(r)
  BY <1>2 DEF LockTimeout, RefuseDirty, StatementFails, GiveUp, Release,
     ConnectionLost
<1>3. CASE ReadVersion(r) \/ MarkDirty(r) \/ RunBody(r) \/ MarkClean(r)
  BY <1>3 DEF ReadVersion, MarkDirty, RunBody, MarkClean, Local
<1>4. CASE Migrated(r) \/ Wire(r) \/ WireFailed(r) \/ Signal(r) \/ Shutdown(r)
  BY <1>4 DEF Migrated, Wire, WireFailed, Signal, Shutdown, Release, Local
<1>5. CASE Start(r) \/ Accept(r) \/ Answer(r)
  BY <1>5 DEF Start, Accept, Answer
<1>6. CASE Exit(r) \/ Kill(r) \/ SessionLost(r)
  BY <1>6 DEF Exit, Kill, SessionLost, Gone, Release, ConnectionLost
<1>7. QED
  BY <1>1, <1>2, <1>3, <1>4, <1>5, <1>6 DEF Progress, Environment

\* How a step of r treats the connection of r.
LEMMA DriverKept ==
  ASSUME IInv, DriverOut, NEW r \in Replicas, Progress(r) \/ Environment(r)
  PROVE  \/ pc'[r] \notin {"down", "failing"} \/ r \in abandoned' \/ advisory' = r
         => driver'[r]
<1> USE LifecycleAssumption DEF IInv, TypeOK, Goto, lock, process, DriverOut
<1>1. CASE PrepareLock(r) \/ EnsureVersionTable(r) \/ Lock(r) \/ GrantAbandoned(r)
  BY <1>1 DEF PrepareLock, EnsureVersionTable, Lock, GrantAbandoned, Acquire,
     Release, Local
<1>2. CASE LockTimeout(r) \/ RefuseDirty(r)
  BY <1>2 DEF LockTimeout, RefuseDirty, GiveUp, Release
<1>3. CASE StatementFails(r)
  <2>1. pc'[r] = "failing" /\ advisory' # r /\ abandoned' = abandoned
    BY <1>3 DEF StatementFails, GiveUp, Release
  <2>2. r \notin abandoned
    BY <1>3 DEF StatementFails, AbandonedBehind, WithInstance, Up
  <2>3. QED
    BY <2>1, <2>2
<1>4. CASE ReadVersion(r) \/ MarkDirty(r) \/ RunBody(r) \/ MarkClean(r)
  BY <1>4 DEF ReadVersion, MarkDirty, RunBody, MarkClean, Local
<1>5. CASE Migrated(r) \/ Wire(r) \/ WireFailed(r) \/ Signal(r) \/ Shutdown(r)
  BY <1>5 DEF Migrated, Wire, WireFailed, Signal, Shutdown, Release, Local
<1>6. CASE Start(r) \/ Accept(r) \/ Answer(r)
  BY <1>6 DEF Start, Accept, Answer
<1>7. CASE Exit(r) \/ Kill(r) \/ SessionLost(r)
  <2>1. /\ pc'[r] \in {"down", "failing"} /\ advisory' # r /\ r \notin abandoned'
    BY <1>7 DEF Exit, Kill, SessionLost, Gone, Release
  <2>2. QED
    BY <2>1
<1>8. QED
  BY <1>1, <1>2, <1>3, <1>4, <1>5, <1>6, <1>7 DEF Progress, Environment

LEMMA DriverOutStep == IInv /\ DriverOut /\ [Next]_vars => DriverOut'
<1> SUFFICES ASSUME IInv, DriverOut, [Next]_vars PROVE DriverOut'
  OBVIOUS
<1>1. CASE UNCHANGED vars
  BY <1>1 DEF vars, process, lock, DriverOut
<1>2. CASE Next
  <2>1. PICK r \in Replicas : Progress(r) \/ Environment(r)
    BY <1>2 DEF Next
  <2>2. ASSUME NEW q \in Replicas,
               \/ pc'[q] \notin {"down", "failing"}
               \/ q \in abandoned' \/ advisory' = q
        PROVE  driver'[q]
    <3>1. CASE q = r
      BY <2>1, <2>2, <3>1, DriverKept
    <3>2. CASE q # r
      BY <2>1, <2>2, <3>2, OthersStay DEF DriverOut
    <3>3. QED
      BY <3>1, <3>2
  <2>3. QED
    BY <2>2 DEF DriverOut
<1>3. QED
  BY <1>1, <1>2

\* The migration driver's connection is out when a replica arrives at the
\* deferred pool.Close of a shutdown, or at the one before os.Exit(1) after a
\* lock timeout, a dirty version or a MinIO that is not there, and as long as it
\* asks for the advisory lock or holds it after giving up: pool.Close does not
\* return, and the lock is given back only when the process is killed or its
\* session lost.  (Where the database was not reachable, or the session was lost
\* before, nothing is out, and pool.Close returns.)
THEOREM PoolIsNeverReturned ==
  Spec => /\ [](\A r \in Replicas :
                  pc[r] = "closing" \/ r \in abandoned \/ Wedged(r)
                  => ~PoolReturned(r))
          /\ [][\A r \in Replicas :
                  LockTimeout(r) \/ RefuseDirty(r) \/ WireFailed(r)
                  => ~PoolReturned(r)']_vars
<1> DEFINE Out == \A r \in Replicas :
                    pc[r] = "closing" \/ r \in abandoned \/ Wedged(r)
                    => ~PoolReturned(r)
           Hangs == \A r \in Replicas :
                      LockTimeout(r) \/ RefuseDirty(r) \/ WireFailed(r)
                      => ~PoolReturned(r)'
<1>1. Init => DriverOut
  BY LifecycleAssumption DEF Init, DriverOut
<1>2. DriverOut => Out
  BY DEF DriverOut, PoolReturned, Wedged
<1>3. DriverOut /\ [Next]_vars => [Hangs]_vars
  <2> SUFFICES ASSUME DriverOut, NEW r \in Replicas,
                      LockTimeout(r) \/ RefuseDirty(r) \/ WireFailed(r)
               PROVE  driver'[r]
    BY DEF PoolReturned
  <2>1. driver' = driver /\ pc[r] \notin {"down", "failing"}
    BY DEF LockTimeout, RefuseDirty, WireFailed, Local
  <2>2. QED
    BY <2>1 DEF DriverOut
<1>4. QED
  BY <1>1, <1>2, <1>3, DriverOutStep, Invariance, PTL DEF Spec

==============================================================================
