----------------------------- MODULE PagedWalk -----------------------------
(***************************************************************************)
(* Rows are read page by page, newest first, by offset, while rows come    *)
(* and go. Two walk that way: a cron job that scans every active endpoint  *)
(* and stops at a page that is not full, and the client of a GET list, who *)
(* stops at a page that says there is no next one. Nothing holds the rows  *)
(* still between two pages. A row is named by its place in the order of    *)
(* creation, which no two rows share.                                      *)
(***************************************************************************)
EXTENDS Persistence, FiniteSets

CONSTANTS
    PageSize,   (* rows of a page: 100 for the cron jobs                   *)
    MaxRows     (* bound: rows ever created                                *)

ASSUME PagedWalkAssumption == PageSize \in Nat \ {0} /\ MaxRows \in Nat /\ Null \notin Nat

ListRow == 1..MaxRows

VARIABLES
    rows,       (* the rows there are                                      *)
    created,    (* how many were ever created                              *)
    walk,       (* who walks, where, and the page in hand                  *)
    visits,     (* history: how often the walk met each row                *)
    started,    (* history: the rows there were when the walk began        *)
    added,      (* history: rows created since                             *)
    removed,    (* history: rows deleted since                             *)
    walkFaults

walkHistory == <<visits, started, added, removed>>
walkVars == <<rows, created, walk, walkHistory, walkFaults>>

(* The queries for the rows of a page and for their total have been        *)
(* answered or not; a total nobody asked for is Null.                      *)
Walk == [kind : {"none", "scan", "list"}, page : Nat, held : SUBSET ListRow,
         read : BOOLEAN, total : Nat \cup {Null}, at : {"idle", "page", "over", "failed"}]

NoWalk == [kind |-> "none", page |-> 0, held |-> {}, read |-> FALSE, total |-> Null, at |-> "idle"]

WalkInit ==
    /\ created \in 0..MaxRows
    /\ rows = 1..created
    /\ walk = NoWalk
    /\ visits = [i \in ListRow |-> 0]
    /\ started = {}
    /\ added = 0 /\ removed = 0
    /\ walkFaults = 0

-----------------------------------------------------------------------------
(* ORDER BY created_at DESC LIMIT PageSize OFFSET page * PageSize.         *)
Newer(i) == {j \in rows : j > i}

Offset == walk.page * PageSize

OnPage(i) == Cardinality(Newer(i)) \in Offset..(Offset + PageSize - 1)

Begin(kind) ==
    /\ walk.at = "idle"
    /\ walk' = [NoWalk EXCEPT !.kind = kind, !.at = "page"]
    /\ started' = rows
    /\ UNCHANGED <<rows, created, visits, added, removed, walkFaults>>

StartScan == Begin("scan")

StartList == Begin("list")

(* findAndCount asks for the rows of the page ...                          *)
ReadRows ==
    LET met == {i \in rows : OnPage(i)} IN
    /\ walk.at = "page" /\ ~walk.read
    /\ walk' = [walk EXCEPT !.held = met, !.read = TRUE]
    /\ visits' = [i \in ListRow |-> IF i \in met THEN visits[i] + 1 ELSE visits[i]]
    /\ UNCHANGED <<rows, created, started, added, removed, walkFaults>>

(* ... and for the number of all, at a moment of its own. The cron jobs do *)
(* not look at it.                                                         *)
CountRows ==
    /\ walk.at = "page" /\ walk.kind = "list" /\ walk.total = Null
    /\ walk' = [walk EXCEPT !.total = Cardinality(rows)]
    /\ UNCHANGED <<rows, created, walkHistory, walkFaults>>

Turn(more) ==
    /\ walk' = [NoWalk EXCEPT !.kind = walk.kind, !.page = IF more THEN walk.page + 1 ELSE walk.page,
                              !.at = IF more THEN "page" ELSE "over"]
    /\ UNCHANGED <<rows, created, walkHistory, walkFaults>>

(* Once every endpoint of the page is dealt with: the next one, if this    *)
(* one was full.                                                           *)
FullAndMore(n) == n > PageSize
Full(n) == n = PageSize

TurnScan ==
    /\ walk.at = "page" /\ walk.kind = "scan" /\ walk.read
    /\ Turn(Full(Cardinality(walk.held)))

(* paginate.                                                               *)
HasNextPage(total, offset) == total > offset + PageSize

TurnList ==
    /\ walk.at = "page" /\ walk.kind = "list" /\ walk.read /\ walk.total # Null
    /\ Turn(HasNextPage(walk.total, Offset))

(* A query throws: the rest of the pages waits for the next tick.          *)
FailWalk ==
    /\ walk.at = "page"
    /\ walkFaults < MaxFaults
    /\ walkFaults' = walkFaults + 1
    /\ walk' = [NoWalk EXCEPT !.kind = walk.kind, !.at = "failed"]
    /\ UNCHANGED <<rows, created, walkHistory>>

-----------------------------------------------------------------------------
(* Rows come and go.                                                       *)
CreateRow ==
    /\ created < MaxRows
    /\ created' = created + 1
    /\ rows' = rows \cup {created + 1}
    /\ added' = IF walk.at = "page" THEN added + 1 ELSE added
    /\ UNCHANGED <<walk, visits, started, removed, walkFaults>>

RemoveRow(i) ==
    /\ i \in rows
    /\ rows' = rows \ {i}
    /\ removed' = IF walk.at = "page" THEN removed + 1 ELSE removed
    /\ UNCHANGED <<created, walk, visits, started, added, walkFaults>>

WalkNext ==
    \/ StartScan \/ StartList
    \/ ReadRows \/ CountRows \/ TurnScan \/ TurnList \/ FailWalk
    \/ CreateRow \/ \E i \in ListRow : RemoveRow(i)

WalkSpec == WalkInit /\ [][WalkNext]_walkVars

-----------------------------------------------------------------------------
(* Properties.                                                             *)

WalkTypeOK ==
    /\ rows \subseteq ListRow
    /\ created \in 0..MaxRows
    /\ walk \in Walk
    /\ visits \in [ListRow -> Nat]
    /\ started \subseteq ListRow
    /\ added \in Nat /\ removed \in Nat
    /\ walkFaults \in 0..MaxFaults

Missed == {i \in started \cap rows : visits[i] = 0}

(* The second time a row was met, the third, and so on.                    *)
Repeats == UNION {{i} \X (2..visits[i]) : i \in ListRow}

(* A scan that comes to its end missed at most one endpoint for each one   *)
(* deleted meanwhile, and met endpoints again at most once for each one    *)
(* created. A client misses more: the total is read apart from the rows,   *)
(* so a row created between the two may hide the last one.                 *)
WalkNearlyExact ==
    walk.at = "over" =>
        /\ Cardinality(Missed) <= removed + (IF walk.kind = "list" THEN added ELSE 0)
        /\ Cardinality(Repeats) <= added
=============================================================================
