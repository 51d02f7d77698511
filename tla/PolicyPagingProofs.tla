------------------------- MODULE PolicyPagingProofs -------------------------
(***************************************************************************)
(* The safety properties of PolicyPaging for any number of policies, any   *)
(* limits and filters and any clock.                                       *)
(***************************************************************************)
EXTENDS PolicyPaging, FiniteSetTheorems, TLAPS

\* Rows are dated, and no date is ahead of the clock.
Dated ==
  /\ \A p \in Policies : created_at[p] <= now
  /\ \A p \in Policies : status[p] # "" => created_at[p] # 0
  /\ began <= now

Returned == page \cup seen

\* Before the first page nothing has been returned.
Untouched ==
  scan \in {"idle", "asked"} =>
    page = {} /\ seen = {} /\ steady = {} /\ cursor = None

\* What has been returned are rows; what is steady are rows that match.
Rows == /\ \A p \in Returned : status[p] # ""
        /\ \A p \in steady : Matches(p)

\* Between two pages the cursor cuts the order: what was returned is not behind
\* it, and what is steady and was not returned is.
Cut ==
  scan = "running" =>
    /\ cursor \in Position
    /\ cursor.created_at <= began
    /\ \A p \in Returned :
         PositionOf(p) = cursor \/ Newer(PositionOf(p), cursor)
    /\ \A p \in steady : p \in Returned \/ Newer(cursor, PositionOf(p))

IInv == /\ TypeOK /\ Dated /\ Untouched /\ Rows /\ Cut
        /\ ScanDescends /\ ScanComplete /\ ScanIsBounded

------------------------------------------------------------------------------
(* The order *)

LEMMA NewerTransitive ==
  ASSUME NEW a \in Position, NEW b \in Position, NEW c \in Position,
         Newer(a, b), Newer(b, c)
  PROVE  Newer(a, c)
<1>1. \A x \in Position : x.created_at \in Nat /\ x.id \in Int
  BY PagingAssumption DEF Position
<1>2. QED
  BY <1>1 DEF Newer

LEMMA NewerTotal ==
  ASSUME NEW a \in Position, NEW b \in Position
  PROVE  a = b \/ Newer(a, b) \/ Newer(b, a)
<1>1. \A x \in Position : x.created_at \in Nat /\ x.id \in Int
  BY PagingAssumption DEF Position
<1>2. a.id = b.id /\ a.created_at = b.created_at => a = b
  BY DEF Position
<1>3. QED
  BY <1>1, <1>2 DEF Newer

LEMMA PositionType ==
  ASSUME TypeOK, NEW p \in Policies
  PROVE  /\ PositionOf(p) \in Position
         /\ PositionOf(p).created_at = created_at[p] /\ PositionOf(p).id = p
BY DEF TypeOK, PositionOf, Position

\* Any limit a caller sends becomes one the query can use as it is.
LEMMA LimitsAgree ==
  /\ \A l : HandlerLimit(l) \in 1 .. MaxLimit
  /\ \A n \in 1 .. MaxLimit : RepoLimit(n) = n
<1>1. ASSUME NEW l
      PROVE  HandlerLimit(l) \in 1 .. MaxLimit
  <2>1. CASE l \in 1 .. MaxLimit
    BY <2>1 DEF HandlerLimit
  <2>2. CASE l \notin 1 .. MaxLimit
    BY <2>2, PagingAssumption DEF HandlerLimit
  <2>3. QED
    BY <2>1, <2>2
<1>2. ASSUME NEW n \in 1 .. MaxLimit
      PROVE  RepoLimit(n) = n
  <2>1. MaxLimit \in Nat
    BY PagingAssumption
  <2>2. n \in Nat /\ 1 <= n /\ n <= MaxLimit
    BY <2>1
  <2>3. ~(n <= 0 \/ n > MaxLimit)
    BY <2>1, <2>2
  <2>4. QED
    BY <2>3 DEF RepoLimit
<1>3. QED
  BY <1>1, <1>2

LEMMA PageCardinality ==
  ASSUME NEW S \in SUBSET Policies
  PROVE  Cardinality(S) \in Nat
BY PagingAssumption, FS_Subset, FS_CardinalityType

\* The last row of a page is behind no row of it.
LEMMA LastIsLast ==
  ASSUME TypeOK, NEW S \in SUBSET Policies, NEW p \in LastOf(S)
  PROVE  /\ p \in S
         /\ \A q \in S : PositionOf(q) = PositionOf(p)
                         \/ Newer(PositionOf(q), PositionOf(p))
BY DEF LastOf

------------------------------------------------------------------------------
(* Every action keeps IInv *)

\* What the callers who write may do to the dates and the rows.
LEMMA TableStep ==
  ASSUME IInv, UNCHANGED caller, TypeOK', Dated',
         \A p \in Policies : status[p] # "" =>
            status'[p] # "" /\ created_at'[p] = created_at[p],
         steady' \subseteq steady, \A p \in steady' : Matches(p)'
  PROVE  IInv'
<1>1. \A p \in Returned \cup steady :
        p \in Policies /\ status[p] # "" /\ PositionOf(p)' = PositionOf(p)
  BY DEF IInv, TypeOK, Rows, Returned, Matches, PositionOf
<1>2. Returned' = Returned /\ Returned \subseteq Policies
      /\ scan' = scan /\ cursor' = cursor /\ began' = began
      /\ page' = page /\ seen' = seen
  BY DEF caller, Returned, IInv, TypeOK
<1>3. Untouched'
  BY <1>2 DEF IInv, Untouched
<1>4. Rows'
  BY <1>1, <1>2 DEF Rows
<1>5. Cut'
  <2> SUFFICES ASSUME scan = "running"
               PROVE  /\ cursor \in Position
                      /\ cursor.created_at <= began
                      /\ \A p \in Returned :
                           PositionOf(p)' = cursor
                             \/ Newer(PositionOf(p)', cursor)
                      /\ \A p \in steady' :
                           p \in Returned \/ Newer(cursor, PositionOf(p)')
    BY <1>2 DEF Cut, Newer
  <2>1. /\ cursor \in Position /\ cursor.created_at <= began
        /\ \A p \in Returned :
             PositionOf(p) = cursor \/ Newer(PositionOf(p), cursor)
        /\ \A p \in steady : p \in Returned \/ Newer(cursor, PositionOf(p))
    BY DEF IInv, Cut
  <2>2. QED
    BY <1>1, <2>1
<1>6. ScanDescends'
  <2> SUFFICES ASSUME NEW p \in page, NEW q \in seen
               PROVE  Newer(PositionOf(q)', PositionOf(p)')
    BY <1>2 DEF ScanDescends, Newer
  <2>1. Newer(PositionOf(q), PositionOf(p))
    BY DEF IInv, ScanDescends
  <2>2. QED
    BY <1>1, <2>1 DEF Returned
<1>7. ScanComplete'
  BY <1>2 DEF IInv, ScanComplete
<1>8. ScanIsBounded'
  <2>1. \A p \in Returned : created_at'[p] = created_at[p]
    BY <1>1, <1>2
  <2>2. QED
    BY <1>2, <2>1 DEF IInv, ScanIsBounded, Returned
<1>9. QED
  BY <1>3, <1>4, <1>5, <1>6, <1>7, <1>8 DEF IInv

LEMMA WritersStep ==
  ASSUME IInv, NEW p \in Policies, Stamp(p) \/ Insert(p) \/ Change(p)
  PROVE  IInv'
<1>1. UNCHANGED caller /\ TypeOK /\ Dated
  BY DEF Stamp, Insert, Change, IInv
<1>2. \A q \in steady : q \in Policies /\ Matches(q)
  BY DEF IInv, TypeOK, Rows
<1>3. CASE Stamp(p)
  <2>0. now' \in {now, now + 1} /\ now' \in 1 .. MaxTime /\ MaxTime \in Nat
    BY <1>3, PagingAssumption DEF Stamp
  <2>1. now \in Nat /\ now' \in Nat /\ now <= now' /\ now' # 0
    <3>1. now \in Nat
      BY <1>1 DEF TypeOK
    <3>2. QED
      BY <2>0, <3>1
  <2>2. created_at' = [created_at EXCEPT ![p] = now'] /\ created_at[p] = 0
        /\ status' = status /\ steady' = steady /\ now' # 0
    BY <1>3, <2>1 DEF Stamp
  <2>3. TypeOK'
    BY <1>1, <2>1, <2>2 DEF TypeOK, caller
  <2>4. \A q \in Policies : status[q] # "" =>
           q # p /\ created_at'[q] = created_at[q]
    BY <1>1, <2>2 DEF TypeOK, Dated
  <2>5. Dated'
    <3>1. began' = began /\ began \in Nat /\ began <= now
      BY <1>1 DEF TypeOK, Dated, caller
    <3>2. ASSUME NEW q \in Policies
          PROVE  created_at'[q] <= now'
      <4>1. created_at[q] \in Nat /\ created_at[q] <= now
        BY <1>1 DEF TypeOK, Dated
      <4>2. created_at'[q] = IF q = p THEN now' ELSE created_at[q]
        BY <1>1, <2>2 DEF TypeOK
      <4>3. QED
        BY <2>1, <4>1, <4>2
    <3>3. ASSUME NEW q \in Policies, status'[q] # ""
          PROVE  created_at'[q] # 0
      BY <1>1, <2>2, <2>4, <3>3 DEF Dated
    <3>4. began' <= now'
      BY <2>1, <3>1
    <3>5. QED
      BY <3>2, <3>3, <3>4 DEF Dated
  <2>6. \A q \in steady' : Matches(q)'
    BY <1>1, <1>2, <2>2 DEF Matches, caller
  <2>7. QED
    BY <1>1, <2>1, <2>2, <2>3, <2>4, <2>5, <2>6, TableStep
<1>4. CASE Insert(p)
  <2>1. status' = [status EXCEPT ![p] = "draft"] /\ created_at[p] # 0
        /\ status[p] = "" /\ created_at' = created_at /\ now' = now
        /\ steady' = steady
    BY <1>4 DEF Insert
  <2>2. TypeOK' /\ Dated'
    BY <1>1, <2>1, PagingAssumption DEF TypeOK, Dated, caller
  <2>3. \A q \in Policies : status[q] # "" => status'[q] = status[q]
    BY <1>1, <2>1 DEF TypeOK
  <2>4. \A q \in steady' : Matches(q)'
    BY <1>1, <1>2, <2>1, <2>3 DEF Matches, caller
  <2>5. QED
    BY <1>1, <2>1, <2>2, <2>3, <2>4, TableStep
<1>5. CASE Change(p)
  <2>1. PICK s \in Statuses : status' = [status EXCEPT ![p] = s]
    BY <1>5 DEF Change
  <2>2. s # "" /\ status[p] # "" /\ created_at' = created_at /\ now' = now
        /\ steady' = {q \in steady : Matches(q)'}
    BY <1>5, PagingAssumption DEF Change
  <2>3. TypeOK' /\ Dated'
    BY <1>1, <2>1, <2>2 DEF TypeOK, Dated, caller
  <2>4. \A q \in Policies : status[q] # "" => status'[q] # ""
    BY <1>1, <2>1, <2>2 DEF TypeOK
  <2>5. QED
    BY <1>1, <2>2, <2>3, <2>4, TableStep
<1>6. QED
  BY <1>3, <1>4, <1>5

LEMMA AskStep ==
  ASSUME IInv, Ask
  PROVE  IInv'
<1>1. /\ UNCHANGED <<table, cursor, page, seen, began, steady>>
      /\ scan = "idle" /\ scan' = "asked" /\ filter' \in Filters \cup {None}
      /\ limit' \in 1 .. MaxLimit
  BY LimitsAgree DEF Ask
<1>2. page = {} /\ seen = {} /\ steady = {} /\ cursor = None
  BY <1>1 DEF IInv, Untouched
<1>3. TypeOK' /\ Dated'
  BY <1>1 DEF IInv, TypeOK, Dated, table
<1>4. QED
  BY <1>1, <1>2, <1>3
     DEF IInv, Untouched, Rows, Cut, Returned, ScanDescends, ScanComplete,
         ScanIsBounded

\* A page goes on where the last one stopped, and it takes everything or leaves
\* what is left behind its last row.
LEMMA ListStep ==
  ASSUME IInv, ListPolicies
  PROVE  IInv'
<1>1. PICK S \in SUBSET Selected :
        IsPage(S, RepoLimit(limit)) /\ page' = S /\ cursor' \in NextCursor(S)
  BY DEF ListPolicies
<1>2. /\ UNCHANGED <<created_at, status, now, filter, limit>>
      /\ seen' = seen \cup page /\ scan \in {"asked", "running"}
      /\ scan' = IF cursor' = None THEN "done" ELSE "running"
      /\ began' = IF scan = "asked" THEN now ELSE began
      /\ steady' = IF scan = "asked" THEN {p \in Policies : Matches(p)} ELSE steady
  BY DEF ListPolicies, table
<1>3. TypeOK /\ Dated /\ Untouched /\ Rows /\ Cut
  BY DEF IInv
<1>4. \A p : PositionOf(p)' = PositionOf(p) /\ Matches(p)' = Matches(p)
  BY <1>2 DEF PositionOf, Matches
<1>5. S \subseteq Policies /\ \A p \in S : Matches(p)
  BY DEF Selected
<1>6. /\ RepoLimit(limit) = limit /\ limit \in Nat \ {0}
      /\ Cardinality(S) \in Nat
  <2>1. limit \in 1 .. MaxLimit /\ MaxLimit \in Nat
    BY <1>3, PagingAssumption DEF TypeOK
  <2>2. QED
    BY <1>5, <2>1, LimitsAgree, PageCardinality
<1>7. Returned' = Returned \cup S /\ Returned \subseteq Policies
  BY <1>1, <1>2, <1>3 DEF Returned, TypeOK
<1>8. None \notin Position /\ \A p \in Policies : PositionOf(p) \in Position
  BY <1>3, PositionType, PagingAssumption DEF Position
<1>9. \A p \in S : created_at[p] <= began'
  <2> TAKE p \in S
  <2>1. CASE scan = "asked"
    BY <1>2, <1>3, <1>5, <2>1 DEF Dated
  <2>2. CASE scan = "running"
    <3>1. /\ cursor \in Position /\ cursor.created_at <= began
          /\ Newer(cursor, PositionOf(p))
      BY <1>3, <1>8, <2>2 DEF Cut, Selected
    <3>2. cursor.created_at >= PositionOf(p).created_at
      BY <1>5, <1>8, <3>1 DEF Newer, Position
    <3>3. PositionOf(p).created_at = created_at[p] /\ created_at[p] \in Nat
      BY <1>3, <1>5, PositionType DEF TypeOK
    <3>4. cursor.created_at \in Nat /\ began \in Nat /\ began' = began
      BY <1>2, <1>3, <2>2, <3>1 DEF TypeOK, Position
    <3>5. QED
      BY <3>1, <3>2, <3>3, <3>4
  <2>3. QED
    BY <1>2, <2>1, <2>2
<1>10. \A p \in steady' : p \in Policies /\ Matches(p)
                          /\ (p \in Returned \/ p \in Selected)
  <2> TAKE p \in steady'
  <2>1. CASE scan = "asked"
    BY <1>2, <1>3, <2>1 DEF Untouched, Selected
  <2>2. CASE scan = "running"
    <3>1. p \in steady /\ p \in Policies /\ Matches(p)
      BY <1>2, <1>3, <2>2 DEF TypeOK, Rows
    <3>2. p \in Returned \/ Newer(cursor, PositionOf(p))
      BY <1>3, <2>2, <3>1 DEF Cut
    <3>3. QED
      BY <3>1, <3>2 DEF Selected
  <2>3. QED
    BY <1>2, <2>1, <2>2
<1>11. \A p \in S, q \in Returned : Newer(PositionOf(q), PositionOf(p))
  <2> SUFFICES ASSUME NEW p \in S, NEW q \in Returned
               PROVE  Newer(PositionOf(q), PositionOf(p))
    OBVIOUS
  <2>1. scan = "running"
    BY <1>2, <1>3 DEF Untouched, Returned
  <2>2. Newer(cursor, PositionOf(p))
    BY <1>3, <1>8, <2>1 DEF Cut, Selected
  <2>3. PositionOf(q) = cursor \/ Newer(PositionOf(q), cursor)
    BY <1>3, <2>1 DEF Cut
  <2>4. cursor \in Position /\ PositionOf(p) \in Position
        /\ PositionOf(q) \in Position
    BY <1>3, <1>5, <1>7, <1>8, <2>1 DEF Cut
  <2>5. QED
    BY <2>2, <2>3, <2>4, NewerTransitive
<1>12. began' \in Nat /\ began' <= now
  <2>1. now \in Nat /\ began \in Nat /\ began <= now
    BY <1>3 DEF TypeOK, Dated
  <2>2. began' = now \/ began' = began
    BY <1>2
  <2>3. QED
    BY <2>1, <2>2
<1>13. ASSUME NEW p \in S, cursor' = EncodeCursor(p)
       PROVE  /\ cursor' \in Position /\ cursor' # None
              /\ cursor' = PositionOf(p) /\ cursor'.created_at = created_at[p]
  BY <1>3, <1>5, <1>8, <1>13, PositionType DEF EncodeCursor
<1>14. \/ /\ Cardinality(S) = limit
          /\ \E p \in LastOf(S) : cursor' = EncodeCursor(p)
       \/ Cardinality(S) # limit /\ cursor' = None
  BY <1>1 DEF NextCursor
<1>15. TypeOK'
  <2>1. cursor' \in Position \cup {None}
    BY <1>13, <1>14 DEF LastOf
  <2>2. scan' \in {"running", "done"} /\ steady' \subseteq Policies
    BY <1>2, <1>10
  <2>3. page' \subseteq Policies /\ seen' \subseteq Policies
    BY <1>1, <1>2, <1>3, <1>5 DEF TypeOK
  <2>4. QED
    BY <1>2, <1>3, <1>12, <2>1, <2>2, <2>3 DEF TypeOK
<1>16. Dated' /\ Untouched'
  BY <1>2, <1>3, <1>12 DEF Dated, Untouched
<1>17. Rows'
  <2>1. \A p \in Returned' : status'[p] # ""
    BY <1>2, <1>3, <1>5, <1>7 DEF Rows, Matches
  <2>2. \A p \in steady' : Matches(p)'
    BY <1>4, <1>10
  <2>3. QED
    BY <2>1, <2>2 DEF Rows
<1>18. ScanDescends'
  <2>1. \A p \in page', q \in seen' : Newer(PositionOf(q), PositionOf(p))
    BY <1>1, <1>2, <1>11 DEF Returned
  <2>2. QED
    BY <1>4, <2>1 DEF ScanDescends, Newer
<1>19. ScanIsBounded'
  <2>1. \A p \in Returned : created_at[p] <= began'
    BY <1>2, <1>3 DEF IInv, ScanIsBounded, Untouched, Returned
  <2>2. QED
    BY <1>2, <1>7, <1>9, <2>1 DEF ScanIsBounded, Returned
<1>20. Cut' /\ ScanComplete'
  <2>1. CASE Cardinality(S) = limit
    <3>1. PICK l \in LastOf(S) : cursor' = EncodeCursor(l)
      BY <1>14, <2>1
    <3>2. /\ l \in S /\ l \in Policies
          /\ \A q \in S : PositionOf(q) = PositionOf(l)
                          \/ Newer(PositionOf(q), PositionOf(l))
      BY <1>3, <1>5, LastIsLast
    <3>3. /\ cursor' \in Position /\ cursor' = PositionOf(l)
          /\ cursor'.created_at <= began' /\ scan' = "running"
      BY <1>2, <1>9, <1>13, <3>1, <3>2
    <3>4. \A p \in Returned' :
            PositionOf(p) = cursor' \/ Newer(PositionOf(p), cursor')
      BY <1>7, <1>11, <3>2, <3>3
    <3>5. \A p \in steady' : p \in Returned' \/ Newer(cursor', PositionOf(p))
      BY <1>1, <1>7, <1>10, <3>2, <3>3 DEF IsPage
    <3>6. Cut'
      BY <1>4, <3>3, <3>4, <3>5 DEF Cut, Newer
    <3>7. QED
      BY <3>3, <3>6 DEF ScanComplete
  <2>2. CASE Cardinality(S) # limit
    <3>1. cursor' = None /\ scan' = "done"
      BY <1>2, <1>14, <2>2
    <3>2. Cardinality(S) < limit
      BY <1>1, <1>6, <2>2 DEF IsPage
    <3>3. S = Selected
      BY <1>1, <1>6, <3>2 DEF IsPage
    <3>4. steady' \subseteq Returned'
      BY <1>7, <1>10, <3>3
    <3>5. QED
      BY <3>1, <3>4 DEF Cut, ScanComplete, Returned
  <2>3. QED
    BY <2>1, <2>2
<1>21. QED
  BY <1>15, <1>16, <1>17, <1>18, <1>19, <1>20 DEF IInv

------------------------------------------------------------------------------
(* The theorems *)

LEMMA NextIInv == IInv /\ [Next]_vars => IInv'
<1> SUFFICES ASSUME IInv, [Next]_vars PROVE IInv'
  OBVIOUS
<1>1. CASE \E p \in Policies : Stamp(p) \/ Insert(p) \/ Change(p)
  BY <1>1, WritersStep
<1>2. CASE Ask
  BY <1>2, AskStep
<1>3. CASE ListPolicies
  BY <1>3, ListStep
<1>4. CASE UNCHANGED vars
  <2>1. UNCHANGED caller /\ UNCHANGED table /\ steady' = steady
    BY <1>4 DEF vars, caller, table
  <2>2. TypeOK' /\ Dated'
    BY <2>1 DEF IInv, TypeOK, Dated, caller, table
  <2>3. \A p \in steady : Matches(p)'
    BY <2>1 DEF IInv, Rows, Matches, caller, table
  <2>4. \A p \in Policies : status[p] # "" =>
          status'[p] # "" /\ created_at'[p] = created_at[p]
    BY <2>1 DEF table
  <2>5. QED
    BY <2>1, <2>2, <2>3, <2>4, TableStep
<1>5. QED
  BY <1>1, <1>2, <1>3, <1>4 DEF Next

\* IInv holds in every reachable state.
THEOREM Invariance == Spec => []IInv
<1>1. Init => IInv
  <2> SUFFICES ASSUME Init PROVE IInv
    OBVIOUS
  <2>1. TypeOK
    BY PagingAssumption DEF Init, TypeOK
  <2>2. Dated
    <3>1. /\ \A p \in Policies : created_at[p] = 0 /\ status[p] = ""
          /\ began = 0 /\ now = 0
      BY DEF Init
    <3>2. 0 <= 0
      OBVIOUS
    <3>3. QED
      BY <3>1, <3>2, Zenon DEF Dated
  <2>3. Untouched /\ Rows /\ Cut /\ ScanDescends /\ ScanComplete /\ ScanIsBounded
    BY DEF Init, Untouched, Rows, Cut, Returned, ScanDescends, ScanComplete,
       ScanIsBounded
  <2>4. QED
    BY <2>1, <2>2, <2>3 DEF IInv
<1>2. QED
  BY <1>1, NextIInv, PTL DEF Spec

\* Variables keep their types; limits the repository would replace never reach
\* it (TypeOK).
THEOREM TypeCorrect == Spec => []TypeOK
<1>1. IInv => TypeOK
  BY DEF IInv
<1>2. QED
  BY <1>1, Invariance, PTL

\* A scan returns no policy twice and its pages continue the order of the table,
\* for every interleaving of creations and changes of status (ScanDescends).
THEOREM PagesDescend == Spec => []ScanDescends
<1>1. IInv => ScanDescends
  BY DEF IInv
<1>2. QED
  BY <1>1, Invariance, PTL

\* When the cursor ends, every policy that matched throughout has been returned
\* (ScanComplete).
THEOREM ScansAreComplete == Spec => []ScanComplete
<1>1. IInv => ScanComplete
  BY DEF IInv
<1>2. QED
  BY <1>1, Invariance, PTL

\* Nothing created after the first page is returned (ScanIsBounded).
THEOREM ScansAreBounded == Spec => []ScanIsBounded
<1>1. IInv => ScanIsBounded
  BY DEF IInv
<1>2. QED
  BY <1>1, Invariance, PTL

------------------------------------------------------------------------------
(* Progress of a scan *)

\* A cursor is given only with a page that has rows.
LEMMA CursorNeedsRows ==
  ASSUME IInv, ListPolicies, scan' = "running"
  PROVE  page' # {} /\ page' \subseteq Policies /\ seen' = seen \cup page
<1>1. PICK S \in SUBSET Selected :
        page' = S /\ cursor' \in NextCursor(S)
  BY DEF ListPolicies
<1>2. cursor' # None
  BY DEF ListPolicies
<1>3. Cardinality(S) = limit
  BY <1>1, <1>2 DEF NextCursor
<1>4. limit \in 1 .. MaxLimit /\ MaxLimit \in Nat
  BY PagingAssumption DEF IInv, TypeOK
<1>5. Cardinality(S) # 0
  BY <1>3, <1>4
<1>6. S # {}
  BY <1>5, FS_EmptySet
<1>7. S \subseteq Policies
  BY DEF Selected
<1>8. QED
  BY <1>1, <1>6, <1>7 DEF ListPolicies

\* A page that comes with a cursor has brought rows the caller had not seen: a
\* scan cannot go in circles, whatever is written between its pages.
THEOREM PagesBringNewRows == Spec => PagesBringRows
<1> DEFINE Brings == scan' = "running" /\ caller' # caller
                     => Cardinality(seen \cup page) < Cardinality(seen' \cup page')
<1>1. IInv /\ IInv' /\ [Next]_vars => [Brings]_vars
  <2> SUFFICES ASSUME IInv, IInv', Next, scan' = "running", caller' # caller
               PROVE  Cardinality(seen \cup page) < Cardinality(seen' \cup page')
    OBVIOUS
  <2>1. ListPolicies
    BY DEF Next, Stamp, Insert, Change, Ask
  <2>2. page' # {} /\ page' \subseteq Policies /\ seen' = seen \cup page
    BY <2>1, CursorNeedsRows
  <2>3. PICK p \in page' : TRUE
    BY <2>2
  <2>4. p \notin seen'
    <3>1. ~Newer(PositionOf(p), PositionOf(p))'
      <4>1. created_at'[p] \in Nat /\ p \in Int
        BY <2>2, PagingAssumption DEF IInv, TypeOK
      <4>2. QED
        BY <4>1 DEF Newer, PositionOf
    <3>2. QED
      BY <3>1 DEF IInv, ScanDescends
  <2>5. /\ IsFiniteSet(seen' \cup page')
        /\ seen' \in SUBSET (seen' \cup page') /\ seen' # seen' \cup page'
    <3>1. seen' \cup page' \in SUBSET Policies
      BY <2>2 DEF IInv, TypeOK
    <3>2. IsFiniteSet(seen' \cup page')
      BY <3>1, PagingAssumption, FS_Subset
    <3>3. QED
      BY <2>4, <3>2
  <2>6. /\ Cardinality(seen') <= Cardinality(seen' \cup page')
        /\ Cardinality(seen') # Cardinality(seen' \cup page')
    BY <2>5, FS_Subset
  <2>7. Cardinality(seen') \in Nat /\ Cardinality(seen' \cup page') \in Nat
    BY <2>5, FS_Subset, FS_CardinalityType
  <2>8. QED
    BY <2>2, <2>6, <2>7
<1>2. QED
  BY <1>1, Invariance, PTL DEF Spec, PagesBringRows

==============================================================================
