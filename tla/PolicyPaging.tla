---------------------------- MODULE PolicyPaging ----------------------------
(***************************************************************************)
(* GET /v1/policies: a caller that walks through the policies page by page *)
(* while others create policies and change their status.                   *)
(*                                                                         *)
(* Pages are cut from the order (created_at, id) DESC.  A page that is     *)
(* full comes with a cursor, the position of its last row, and the next    *)
(* request asks for the rows behind it.  The server keeps nothing between  *)
(* two requests, so a request that fails, or whose answer is lost, can be  *)
(* repeated and is not modelled.  created_at is read from the clock before *)
(* the INSERT and the row becomes visible later, if at all; two policies   *)
(* may carry the same created_at.                                          *)
(*                                                                         *)
(* Times are in microseconds, the resolution of the column.  Ids are       *)
(* numbers because PostgreSQL compares them.                               *)
(***************************************************************************)
EXTENDS Integers, FiniteSets

CONSTANTS Policies,      \* policy ids
          Statuses,      \* statuses the policies move between
          Filters,       \* values of ?status= callers send
          Limits,        \* values of ?limit= callers send
          DefaultLimit, MaxLimit,  \* 20 and 100
          None,          \* no filter, no limit, no cursor
          MaxTime        \* bound on the clock

ASSUME PagingAssumption ==
  /\ IsFiniteSet(Policies) /\ Policies \subseteq Int
  /\ MaxLimit \in Nat /\ DefaultLimit \in 1 .. MaxLimit
  /\ "draft" \in Statuses /\ "" \notin Statuses /\ None \notin Filters
  /\ None \notin [created_at : Nat, id : Policies]
  /\ MaxTime \in Nat

VARIABLES
  created_at,  \* created_at of each policy; 0 before it is read
  status,      \* status of each row; "" while there is no row
  now,         \* the clock
  scan,        \* "idle", "asked", "running" or "done"
  filter,      \* ?status=
  limit,       \* params.Limit of the handler
  cursor,      \* ?cursor= of the next request
  page,        \* rows of the last page
  seen,        \* rows of the pages before it
  began,       \* when the first page was read
  steady       \* rows that have matched ever since

table == <<created_at, status, now>>
caller == <<scan, filter, limit, cursor, page, seen, began>>
vars == <<created_at, status, now, scan, filter, limit, cursor, page, seen,
          began, steady>>

Position == [created_at : Nat, id : Policies]

TypeOK ==
  /\ created_at \in [Policies -> Nat]
  /\ status \in [Policies -> Statuses \cup {""}]
  /\ now \in Nat
  /\ scan \in {"idle", "asked", "running", "done"}
  /\ filter \in Filters \cup {None}
  /\ limit \in 1 .. MaxLimit
  /\ cursor \in Position \cup {None}
  /\ page \subseteq Policies /\ seen \subseteq Policies
  /\ began \in Nat
  /\ steady \subseteq Policies

Init ==
  /\ created_at = [p \in Policies |-> 0]
  /\ status = [p \in Policies |-> ""]
  /\ now = 0
  /\ scan = "idle" /\ filter = None /\ limit = DefaultLimit /\ cursor = None
  /\ page = {} /\ seen = {}
  /\ began = 0
  /\ steady = {}

Matches(p) == status[p] # "" /\ (filter = None \/ status[p] = filter)

------------------------------------------------------------------------------
(* The other callers *)

\* PolicyService.Create reads the clock.
Stamp(p) ==
  /\ created_at[p] = 0
  /\ now' \in {now, now + 1} /\ now' \in 1 .. MaxTime
  /\ created_at' = [created_at EXCEPT ![p] = now']
  /\ UNCHANGED <<status, caller, steady>>

\* The INSERT of PolicyRepo.Create, which need not come.
Insert(p) ==
  /\ created_at[p] # 0 /\ status[p] = ""
  /\ status' = [status EXCEPT ![p] = "draft"]
  /\ UNCHANGED <<created_at, now, caller, steady>>

\* Any later write of the row: the status may change, created_at is not among
\* the columns an UPDATE sets.
Change(p) ==
  /\ status[p] # ""
  /\ \E s \in Statuses : status' = [status EXCEPT ![p] = s]
  /\ UNCHANGED <<created_at, now, caller>>
  /\ steady' = {q \in steady : Matches(q)'}

------------------------------------------------------------------------------
(* The caller that walks, and the handler with its query *)

\* ListPolicies takes a limit it can use and its default for any other.
\* Mutant: any number will do.
HandlerLimit_AnyNumber(l) == IF l \in Int THEN l ELSE DefaultLimit

HandlerLimit(l) == IF l \in 1 .. MaxLimit THEN l ELSE DefaultLimit

\* List applies the same rule to what the handler passes.
RepoLimit(l) == IF l <= 0 \/ l > MaxLimit THEN DefaultLimit ELSE l

\* ORDER BY created_at DESC, id DESC; (created_at,id) < (...) is its inverse.
\* Mutant: oldest first.
Newer_OldestFirst(a, b) ==
  \/ a.created_at < b.created_at
  \/ a.created_at = b.created_at /\ a.id < b.id

Newer(a, b) ==
  \/ a.created_at > b.created_at
  \/ a.created_at = b.created_at /\ a.id > b.id

PositionOf(p) == [created_at |-> created_at[p], id |-> p]

\* EncodeCursor and decodeCursor: RFC3339Nano keeps every digit of the time.
\* Mutant: RFC3339, as in the other answers, keeps the seconds (of two units).
EncodeCursor_Seconds(p) == [created_at |-> (created_at[p] \div 2) * 2, id |-> p]

EncodeCursor(p) == PositionOf(p)

\* The rows the query selects, before its LIMIT: four SELECTs, with and without
\* filter and cursor.
\* Mutant: the one with a filter and a cursor forgets the cursor.
Selected_FilterOnly ==
  {p \in Policies : /\ Matches(p)
                    /\ \/ cursor = None \/ filter # None
                       \/ Newer(cursor, PositionOf(p))}

Selected ==
  {p \in Policies : Matches(p) /\ (cursor = None \/ Newer(cursor, PositionOf(p)))}

\* S is what ORDER BY ... LIMIT n returns.
IsPage(S, n) ==
  /\ S \subseteq Selected
  /\ Cardinality(S) <= n
  /\ Cardinality(S) < n => S = Selected
  /\ \A p \in S, q \in Selected \ S : Newer(PositionOf(p), PositionOf(q))

\* The one row of S with all others before it, if S has rows.
LastOf(S) ==
  {p \in S : \A q \in S \ {p} : Newer(PositionOf(q), PositionOf(p))}

\* The next_cursor: the position of the last row if the page is full.
\* Mutant: the last row's if there is one, and else the one that was sent.
NextCursor_Always(S) ==
  IF S = {} THEN {cursor} ELSE {EncodeCursor(p) : p \in LastOf(S)}

NextCursor(S) ==
  IF Cardinality(S) = limit THEN {EncodeCursor(p) : p \in LastOf(S)} ELSE {None}

\* The caller chooses its query and keeps to it.
Ask ==
  /\ scan = "idle"
  /\ scan' = "asked"
  /\ filter' \in Filters \cup {None}
  /\ \E l \in Limits \cup {None} : limit' = HandlerLimit(l)
  /\ UNCHANGED <<table, cursor, page, seen, began, steady>>

\* One request: ListPolicies with the query of List, which sees one snapshot.
ListPolicies ==
  /\ scan \in {"asked", "running"}
  /\ \E S \in SUBSET Selected :
       /\ IsPage(S, RepoLimit(limit))
       /\ page' = S
       /\ cursor' \in NextCursor(S)
  /\ seen' = seen \cup page
  /\ scan' = IF cursor' = None THEN "done" ELSE "running"
  /\ began' = IF scan = "asked" THEN now ELSE began
  /\ steady' = IF scan = "asked" THEN {p \in Policies : Matches(p)} ELSE steady
  /\ UNCHANGED <<table, filter, limit>>

Next == \/ \E p \in Policies : Stamp(p) \/ Insert(p) \/ Change(p)
        \/ Ask
        \/ ListPolicies

Spec == Init /\ [][Next]_vars

\* The caller goes on as long as it is given a cursor.
FairSpec == Spec /\ WF_vars(ListPolicies)

------------------------------------------------------------------------------
\* No policy is returned twice and the order goes on from page to page, whatever
\* is created, and whatever changes its status, in between (the keyset cursor of
\* PolicyRepo.List).
ScanDescends ==
  \A p \in page, q \in seen : Newer(PositionOf(q), PositionOf(p))

\* A policy that is there and matches from the first page to the last has been
\* returned when the answer carries no cursor: also one with the created_at of
\* the last row of a page, and also if that page was exactly full.
ScanComplete == scan = "done" => steady \subseteq seen \cup page

\* A scan does not run after the policies that are created meanwhile.
ScanIsBounded == \A p \in page \cup seen : created_at[p] <= began

\* A page that comes with a cursor has brought rows the caller had not seen:
\* whatever is written meanwhile, a scan has at most one page more than there
\* are policies (the comparison of len with limit in ListPolicies).
PagesBringRows ==
  [][scan' = "running" /\ caller' # caller
     => Cardinality(seen \cup page) < Cardinality(seen' \cup page')]_vars

\* A caller that follows the cursors comes to an end (ListPolicies gives one for
\* full pages only).
ScanEnds == scan = "asked" ~> scan = "done"

==============================================================================
