------------------------------ MODULE SyncPlane ------------------------------
(***************************************************************************)
(* The local-first sync plane of sql/customer.sql (sql/admin.sql has the   *)
(* same triggers): synced rows, the singleton sync_clock, delete           *)
(* tombstones, the transactions that write them and the clients that catch *)
(* up by `sequence > $cursor order by sequence limit $page_size`.          *)
(*                                                                         *)
(* A transaction runs statements one after the other under READ COMMITTED. *)
(* A statement takes its snapshot of the target row when it is issued, and *)
(* only then waits in lock_sync_clock; the row lock on sync_clock is held  *)
(* until the transaction ends.  Uncommitted writes live in wlive and wtomb *)
(* for the rows in dirty, and become visible at Commit in one step.        *)
(***************************************************************************)
EXTENDS Integers, FiniteSets

CONSTANTS
  Row,        \* synced rows: a table and an id
  NoRow,      \* not a row
  References, \* the rows that a row references ON DELETE CASCADE
  Txn,        \* database sessions that write
  NoTxn,      \* not a session
  Client,     \* local-first clients
  PageSize,   \* $page_size of a catch-up query
  MaxSeq      \* bound: the largest sync_sequence allocated

ASSUME RowAssumption == NoRow \notin Row /\ References \in [Row -> SUBSET Row]
ASSUME TxnAssumption == NoTxn \notin Txn
ASSUME BoundAssumption == PageSize \in Nat \ {0} /\ MaxSeq \in Nat

VARIABLES
  clock,      \* committed sync_clock.last_sequence
  holder,     \* the transaction that holds the row lock on sync_clock
  live,       \* committed synced rows
  tomb,       \* committed sync_tombstones, latest delete per row
  phase,      \* where each transaction is
  stmt,       \* the statement each transaction is executing
  todo,       \* rows a running delete has still to remove
  dirty,      \* rows a transaction has written and not committed
  wlive,      \* uncommitted rows
  wtomb,      \* uncommitted tombstones
  wclock,     \* uncommitted sync_clock.last_sequence of the holder
  cursor,     \* the sequence a client has caught up to
  page,       \* the page of changes in flight to a client
  pageEnd,    \* the sequence of the last item of that page, 0 for no page
  replica     \* what a client holds of each row

dbVars     == <<clock, live, tomb>>
txnVars    == <<holder, phase, stmt, todo, dirty, wlive, wtomb, wclock>>
clientVars == <<cursor, page, pageEnd, replica>>
vars       == <<clock, holder, live, tomb, phase, stmt, todo, dirty,
                wlive, wtomb, wclock, cursor, page, pageEnd, replica>>

(***************************************************************************)
(* A change is what the feed says of a row: it is alive with a version, a  *)
(* sync_sequence and a created_at (told apart by the sequence of the       *)
(* insert), or it is gone with the version and sequence of its tombstone.  *)
(***************************************************************************)
Change  == [alive : BOOLEAN, version : Nat, seq : Nat, created : Nat]
Nothing == [alive |-> FALSE, version |-> 0, seq |-> 0, created |-> 0]

Op     == {"insert", "upsert", "update", "delete"}
Phase  == {"idle", "open", "waiting", "running", "cascading", "failed"}
Stmt   == [op : Op, row : Row, base : Change, seen : Change]
NoStmt == [op |-> "none", row |-> NoRow, base |-> Nothing, seen |-> Nothing]

TypeOK ==
  /\ clock \in Nat /\ holder \in Txn \cup {NoTxn}
  /\ live \in [Row -> Change] /\ tomb \in [Row -> Change]
  /\ phase \in [Txn -> Phase] /\ stmt \in [Txn -> Stmt \cup {NoStmt}]
  /\ todo \in [Txn -> SUBSET Row] /\ dirty \in [Txn -> SUBSET Row]
  /\ wlive \in [Txn -> [Row -> Change]] /\ wtomb \in [Txn -> [Row -> Change]]
  /\ wclock \in [Txn -> Nat]
  /\ cursor \in [Client -> Nat] /\ pageEnd \in [Client -> Nat]
  /\ page \in [Client -> [Row -> Change]]
  /\ replica \in [Client -> [Row -> Change]]

Init ==
  /\ clock = 0 /\ holder = NoTxn
  /\ live = [r \in Row |-> Nothing] /\ tomb = [r \in Row |-> Nothing]
  /\ phase = [t \in Txn |-> "idle"] /\ stmt = [t \in Txn |-> NoStmt]
  /\ todo = [t \in Txn |-> {}] /\ dirty = [t \in Txn |-> {}]
  /\ wlive = [t \in Txn |-> [r \in Row |-> Nothing]]
  /\ wtomb = [t \in Txn |-> [r \in Row |-> Nothing]]
  /\ wclock = [t \in Txn |-> 0]
  /\ cursor = [c \in Client |-> 0] /\ pageEnd = [c \in Client |-> 0]
  /\ page = [c \in Client |-> [r \in Row |-> Nothing]]
  /\ replica = [c \in Client |-> [r \in Row |-> Nothing]]

-----------------------------------------------------------------------------
(* What a transaction sees and writes.                                     *)

\* The row as transaction t sees it now: its own write, else the committed row.
Visible(t, r) == IF r \in dirty[t] THEN wlive[t][r] ELSE live[r]

VisibleTomb(t, r) == IF r \in dirty[t] THEN wtomb[t][r] ELSE tomb[r]

\* Mutant: sequences come from nextval() and nobody waits for the clock.
ClockNeverWaits(t) == t \in Txn

\* lock_sync_clock: nobody else holds the row lock on sync_clock.
ClockFree(t) == holder \in {NoTxn, t}

\* allocate_sync_sequence, called k times: the last sequence it returns.
Allocated(t, k) == wclock[t] + k

ParentsAlive(t, r) == \A p \in References[r] : Visible(t, p).alive

\* A set of rows with all that reference one of them.
CascadesInto(S) == \A k \in Row : References[k] \cap S # {} => k \in S

\* The row itself, and what references it directly or not: api_keys.project_id,
\* projects.org_id.
Below(r) == {k \in Row : \A S \in SUBSET Row : r \in S /\ CascadesInto(S) => k \in S}

\* bump_row_version on INSERT and on UPDATE, with the sequence n it allocated.
Inserted(n) == [alive |-> TRUE, version |-> 1, seq |-> n, created |-> n]

\* Mutant: the UPDATE branch does not advance version.
UpdatedSameVersion(old, n) ==
  [alive |-> TRUE, version |-> old.version, seq |-> n, created |-> old.created]

Updated(old, n) ==
  [alive |-> TRUE, version |-> old.version + 1, seq |-> n, created |-> old.created]

\* Mutant: the tombstone keeps the sequence of the deleted row.
TombstoneOldSequence(old, n) ==
  [alive |-> FALSE, version |-> old.version + 1, seq |-> old.seq, created |-> 0]

\* record_sync_tombstone, with the sequence n it allocated.
Tombstone(old, n) ==
  [alive |-> FALSE, version |-> old.version + 1, seq |-> n, created |-> 0]

\* Transaction t replaces row r and its tombstone; k sequences were allocated.
WriteRow(t, r, row, tombstone, k) ==
  /\ Allocated(t, k) <= MaxSeq
  /\ dirty' = [dirty EXCEPT ![t] = @ \cup {r}]
  /\ wlive' = [wlive EXCEPT ![t][r] = row]
  /\ wtomb' = [wtomb EXCEPT ![t][r] = tombstone]
  /\ wclock' = [wclock EXCEPT ![t] = Allocated(t, k)]

Goto(t, p) == phase' = [phase EXCEPT ![t] = p]

NothingWritten == UNCHANGED <<dirty, wlive, wtomb, wclock>>

-----------------------------------------------------------------------------
(* Writers.                                                                *)

\* A statement starts: PostgreSQL takes its snapshot before the statement trigger.
Issue(t, op, r, base) ==
  /\ phase[t] \in {"idle", "open"}
  /\ stmt' = [stmt EXCEPT ![t] =
       [op |-> op, row |-> r, base |-> base, seen |-> Visible(t, r)]]
  /\ Goto(t, "waiting")
  /\ UNCHANGED <<dbVars, clientVars, holder, todo, dirty, wlive, wtomb, wclock>>

\* An optimistic edit carries the version its author last synced.
IssueEdit(t, c, r) ==
  /\ replica[c][r].alive
  /\ Issue(t, "update", r, replica[c][r])

\* The BEFORE STATEMENT trigger: SELECT ... FOR UPDATE of the clock row.
LockClock(t) ==
  /\ phase[t] = "waiting"
  /\ ClockFree(t)
  /\ holder' = t
  /\ wclock' = [wclock EXCEPT ![t] = IF holder = t THEN @ ELSE clock]
  /\ Goto(t, "running")
  /\ UNCHANGED <<dbVars, clientVars, stmt, todo, dirty, wlive, wtomb>>

\* INSERT of an absent row whose foreign keys hold.
RunInsert(t) ==
  LET r == stmt[t].row IN
  /\ phase[t] = "running" /\ stmt[t].op \in {"insert", "upsert"}
  /\ ~Visible(t, r).alive /\ ParentsAlive(t, r)
  /\ WriteRow(t, r, Inserted(Allocated(t, 1)), VisibleTomb(t, r), 1)
  /\ Goto(t, "open")
  /\ UNCHANGED <<dbVars, clientVars, holder, stmt, todo>>

\* INSERT ... ON CONFLICT DO UPDATE of a row that exists: the row triggers of
\* both the insert and the update allocate, and the first sequence stays unused.
RunUpsert(t) ==
  LET r == stmt[t].row IN
  /\ phase[t] = "running" /\ stmt[t].op = "upsert"
  /\ Visible(t, r).alive
  /\ WriteRow(t, r, Updated(Visible(t, r), Allocated(t, 2)), VisibleTomb(t, r), 2)
  /\ Goto(t, "open")
  /\ UNCHANGED <<dbVars, clientVars, holder, stmt, todo>>

\* A unique or foreign-key violation aborts the transaction.
RunInsertFails(t) ==
  LET r == stmt[t].row IN
  /\ phase[t] = "running" /\ stmt[t].op \in {"insert", "upsert"}
  /\ \/ stmt[t].op = "insert" /\ Visible(t, r).alive
     \/ ~Visible(t, r).alive /\ ~ParentsAlive(t, r)
  /\ NothingWritten
  /\ Goto(t, "failed")
  /\ UNCHANGED <<dbVars, clientVars, holder, stmt, todo>>

\* UPDATE ... WHERE id = r AND version = base finds the row of its snapshot, and
\* the same row, rechecked under the lock, still has that version.
CasMatches(t) ==
  LET now == Visible(t, stmt[t].row) IN
  /\ stmt[t].seen.alive /\ stmt[t].seen.version = stmt[t].base.version
  /\ now.alive /\ now.created = stmt[t].seen.created
  /\ now.version = stmt[t].base.version

RunUpdate(t) ==
  LET r == stmt[t].row IN
  /\ phase[t] = "running" /\ stmt[t].op = "update"
  /\ \/ /\ CasMatches(t)
        /\ WriteRow(t, r, Updated(Visible(t, r), Allocated(t, 1)), VisibleTomb(t, r), 1)
     \/ /\ ~CasMatches(t)
        /\ NothingWritten
  /\ Goto(t, "open")
  /\ UNCHANGED <<dbVars, clientVars, holder, stmt, todo>>

\* DELETE ... WHERE id = r: the row of the snapshot, updated since or not, is
\* removed together with the rows that cascade from it.
DeleteMatches(t) ==
  LET now == Visible(t, stmt[t].row) IN
  stmt[t].seen.alive /\ now.alive /\ now.created = stmt[t].seen.created

RunDelete(t) ==
  LET r == stmt[t].row IN
  /\ phase[t] = "running" /\ stmt[t].op = "delete"
  /\ IF DeleteMatches(t)
     THEN /\ todo' = [todo EXCEPT ![t] = {k \in Below(r) : Visible(t, k).alive}]
          /\ Goto(t, "cascading")
     ELSE Goto(t, "open") /\ UNCHANGED todo
  /\ NothingWritten
  /\ UNCHANGED <<dbVars, clientVars, holder, stmt>>

\* Mutant: the trigger records only rows that a statement deletes itself, as one
\* with WHEN (pg_trigger_depth() = 0) does.
DeleteRowUnlessCascaded(t, r) ==
  LET direct == r = stmt[t].row IN
  /\ phase[t] = "cascading" /\ r \in todo[t]
  /\ WriteRow(t, r, Nothing,
        IF direct THEN Tombstone(Visible(t, r), Allocated(t, 1)) ELSE VisibleTomb(t, r),
        IF direct THEN 1 ELSE 0)
  /\ todo' = [todo EXCEPT ![t] = @ \ {r}]
  /\ Goto(t, IF todo[t] = {r} THEN "open" ELSE "cascading")
  /\ UNCHANGED <<dbVars, clientVars, holder, stmt>>

\* The AFTER DELETE row trigger of one row.  The order in which PostgreSQL comes to
\* the rows of a cascade, parents or children first, is its own: any is possible.
DeleteRow(t, r) ==
  /\ phase[t] = "cascading" /\ r \in todo[t]
  /\ WriteRow(t, r, Nothing, Tombstone(Visible(t, r), Allocated(t, 1)), 1)
  /\ todo' = [todo EXCEPT ![t] = @ \ {r}]
  /\ Goto(t, IF todo[t] = {r} THEN "open" ELSE "cascading")
  /\ UNCHANGED <<dbVars, clientVars, holder, stmt>>

\* The transaction ends: its overlay is discarded and its clock lock released.
Finish(t) ==
  /\ Goto(t, "idle")
  /\ stmt' = [stmt EXCEPT ![t] = NoStmt]
  /\ todo' = [todo EXCEPT ![t] = {}]
  /\ dirty' = [dirty EXCEPT ![t] = {}]
  /\ wlive' = [wlive EXCEPT ![t] = [r \in Row |-> Nothing]]
  /\ wtomb' = [wtomb EXCEPT ![t] = [r \in Row |-> Nothing]]
  /\ wclock' = [wclock EXCEPT ![t] = 0]
  /\ holder' = IF holder = t THEN NoTxn ELSE holder
  /\ UNCHANGED clientVars

Commit(t) ==
  /\ phase[t] = "open"
  /\ live' = [r \in Row |-> Visible(t, r)]
  /\ tomb' = [r \in Row |-> VisibleTomb(t, r)]
  /\ clock' = IF holder = t THEN wclock[t] ELSE clock
  /\ Finish(t)

\* ROLLBACK, an error, or the loss of the session.
Rollback(t) ==
  /\ phase[t] # "idle"
  /\ Finish(t)
  /\ UNCHANGED dbVars

-----------------------------------------------------------------------------
(* Clients.                                                                *)

\* What the plane says of a row now: the live row, else its tombstone.
Latest(r) == IF live[r].alive THEN live[r] ELSE tomb[r]

\* Mutant: the cursor is inclusive.
NewerOrEqual(n) == {s \in {live[r].seq : r \in Row} \cup {tomb[r].seq : r \in Row} : s >= n}

\* The sequences of the rows and tombstones a catch-up from n would return.
Newer(n) == {s \in {live[r].seq : r \in Row} \cup {tomb[r].seq : r \in Row} : s > n}

\* The last sequence of the first PageSize of them.
IsPageEnd(n, last) ==
  LET upTo == {s \in Newer(n) : s <= last} IN
  /\ last \in Newer(n)
  /\ \/ Cardinality(upTo) = PageSize
     \/ Cardinality(upTo) < PageSize /\ upTo = Newer(n)

\* What is left of row r once the page up to last is applied in sequence order.
InPage(r, n, last) ==
  IF live[r].seq > n /\ live[r].seq <= last THEN live[r]
  ELSE IF tomb[r].seq > n /\ tomb[r].seq <= last THEN tomb[r]
  ELSE Nothing

FetchPage(c) ==
  /\ pageEnd[c] = 0
  /\ \E last \in Newer(cursor[c]) :
       /\ IsPageEnd(cursor[c], last)
       /\ pageEnd' = [pageEnd EXCEPT ![c] = last]
       /\ page' = [page EXCEPT ![c] = [r \in Row |-> InPage(r, cursor[c], last)]]
  /\ UNCHANGED <<dbVars, txnVars, cursor, replica>>

\* Mutant: the client advances to the clock of the plane.
ApplyPageToClock(c) ==
  /\ pageEnd[c] # 0
  /\ replica' = [replica EXCEPT ![c] =
       [r \in Row |-> IF page[c][r].seq > 0 THEN page[c][r] ELSE @[r]]]
  /\ cursor' = [cursor EXCEPT ![c] = clock]
  /\ pageEnd' = [pageEnd EXCEPT ![c] = 0]
  /\ page' = [page EXCEPT ![c] = [r \in Row |-> Nothing]]
  /\ UNCHANGED <<dbVars, txnVars>>

\* The client stores the page and advances through the last returned item.
ApplyPage(c) ==
  /\ pageEnd[c] # 0
  /\ replica' = [replica EXCEPT ![c] =
       [r \in Row |-> IF page[c][r].seq > 0 THEN page[c][r] ELSE @[r]]]
  /\ cursor' = [cursor EXCEPT ![c] = pageEnd[c]]
  /\ pageEnd' = [pageEnd EXCEPT ![c] = 0]
  /\ page' = [page EXCEPT ![c] = [r \in Row |-> Nothing]]
  /\ UNCHANGED <<dbVars, txnVars>>

\* The response is lost, or the client restarts before it stored the page.
DropPage(c) ==
  /\ pageEnd[c] # 0
  /\ pageEnd' = [pageEnd EXCEPT ![c] = 0]
  /\ page' = [page EXCEPT ![c] = [r \in Row |-> Nothing]]
  /\ UNCHANGED <<dbVars, txnVars, cursor, replica>>

-----------------------------------------------------------------------------

Write(t) ==
  \/ \E r \in Row, op \in {"insert", "upsert", "delete"} : Issue(t, op, r, Nothing)
  \/ \E r \in Row, c \in Client : IssueEdit(t, c, r)
  \/ LockClock(t)
  \/ RunInsert(t) \/ RunUpsert(t) \/ RunInsertFails(t)
  \/ RunUpdate(t)
  \/ RunDelete(t)
  \/ \E r \in Row : DeleteRow(t, r)
  \/ Commit(t) \/ Rollback(t)

CatchUp(c) == FetchPage(c) \/ ApplyPage(c) \/ DropPage(c)

Next == (\E t \in Txn : Write(t)) \/ (\E c \in Client : CatchUp(c))

Spec == Init /\ [][Next]_vars

\* A client keeps asking, and its requests do not fail forever.
ClientFairness ==
  \A c \in Client : WF_vars(FetchPage(c)) /\ SF_vars(ApplyPage(c))

FairSpec == Spec /\ ClientFairness

-----------------------------------------------------------------------------
(* Properties.                                                             *)

\* A catch-up never skips a committed change: a client whose cursor is at or past
\* the latest change of a row holds exactly that change (the race that the
\* sync_clock row lock exists for).
NoSkip ==
  \A c \in Client, r \in Row :
    Latest(r).seq <= cursor[c] => replica[c][r] = Latest(r)

\* sync_sequence is globally unique over the rows and tombstones of the plane.
SequencesUnique ==
  /\ \A r1, r2 \in Row :
       /\ r1 # r2 /\ live[r1].alive => live[r1].seq # live[r2].seq
       /\ r1 # r2 /\ tomb[r1].seq > 0 => tomb[r1].seq # tomb[r2].seq
       /\ live[r1].alive => live[r1].seq # tomb[r2].seq

\* Deletion reaches every client: a client that still holds a row that is gone
\* will be sent a tombstone newer than the copy it holds, and a retained tombstone
\* of an earlier life of a row never outranks the row.
NoSilentDelete ==
  /\ \A c \in Client, r \in Row :
       replica[c][r].alive /\ ~live[r].alive => tomb[r].seq > cursor[c]
  /\ \A r \in Row : live[r].alive => tomb[r].seq < live[r].seq

\* No client keeps an orphan.  Pages may part a family, so a client can hold a row
\* without one that it references (the parent was updated later, or is gone and the
\* cascade spans two pages); but then a change of the one or the other is still to
\* come, and no cascade leaves a row without the tombstone that takes it away.
NoLastingOrphan ==
  \A c \in Client, r \in Row : \A p \in References[r] :
    replica[c][r].alive /\ ~replica[c][p].alive =>
      Latest(r).seq > cursor[c] \/ Latest(p).seq > cursor[c]

\* Changes become visible in sequence order: what a commit makes visible is newer
\* than everything visible before it.
CommitOrder ==
  [][\A r, q \in Row : Latest(r)' # Latest(r) => Latest(r).seq < Latest(r)'.seq
                                                /\ Latest(q).seq < Latest(r)'.seq]_vars

\* No lost update: within the life of a row a commit that changes it raises its
\* version, so two transactions never both move it from v to v + 1; and the CAS of an
\* optimistic edit never overwrites a change its author has not seen.
NoLostUpdate ==
  [][/\ \A r \in Row :
          live[r].alive /\ live'[r].alive /\ live'[r].created = live[r].created
            => live'[r] = live[r] \/ live'[r].version > live[r].version
     /\ \A t \in Txn :
          LET now == Visible(t, stmt[t].row) IN
          phase[t] = "running" /\ stmt[t].op = "update" /\ wclock'[t] > wclock[t]
            /\ now.created = stmt[t].base.created
            => now.seq = stmt[t].base.seq]_vars

\* Every client eventually catches up with every change that was ever committed.
\* No writer has to end its transaction for that.
ClientsCatchUp ==
  \A c \in Client, n \in 1..MaxSeq :
    (\E r \in Row : Latest(r).seq >= n) ~> cursor[c] >= n

-----------------------------------------------------------------------------
(***************************************************************************)
(* The inductive invariant.                                                *)
(***************************************************************************)

\* The committed rows and tombstones, and how far the clients are, are at or below
\* the committed clock.
ClockBound ==
  /\ \A r \in Row : live[r].seq <= clock /\ tomb[r].seq <= clock
  /\ \A c \in Client : cursor[c] <= clock /\ pageEnd[c] <= clock

\* A row that is alive has a sequence above its tombstone's; a tombstone is never
\* alive.
WellFormed(row, tombstone) ==
  /\ ~tombstone.alive
  /\ IF row.alive THEN tombstone.seq < row.seq ELSE row = Nothing

\* Two rows with their tombstones share no sequence.
Disjoint(row1, tomb1, row2, tomb2) ==
  /\ row1.seq > 0 => row1.seq # row2.seq /\ row1.seq # tomb2.seq
  /\ tomb1.seq > 0 => tomb1.seq # row2.seq /\ tomb1.seq # tomb2.seq

RowsWellFormed ==
  /\ \A r \in Row : WellFormed(live[r], tomb[r])
  /\ \A r, q \in Row : r # q => Disjoint(live[r], tomb[r], live[q], tomb[q])

\* Only the holder of the clock has written anything, and it counts on from the
\* committed clock.
OneWriter ==
  \A t \in Txn :
    /\ dirty[t] # {} \/ phase[t] \in {"running", "cascading"} => holder = t
    /\ holder = t => clock <= wclock[t] /\ phase[t] # "idle"

\* The uncommitted rows are well formed, and what is new in them was allocated
\* above the committed clock.
OverlayWellFormed ==
  \A t \in Txn : \A r \in dirty[t] :
    /\ WellFormed(wlive[t][r], wtomb[t][r])
    /\ IF wlive[t][r].alive
       THEN /\ clock < wlive[t][r].seq /\ wlive[t][r].seq <= wclock[t]
            /\ wtomb[t][r] = tomb[r] \/ clock < wtomb[t][r].seq
       ELSE clock < wtomb[t][r].seq /\ wtomb[t][r].seq <= wclock[t]
    /\ \A q \in dirty[t] : r # q =>
         Disjoint(wlive[t][r], wtomb[t][r], wlive[t][q], wtomb[t][q])

\* A page in flight holds the latest change of every row whose latest change is
\* in its range, and otherwise nothing that is not above the cursor.
PageFaithful ==
  \A c \in Client : pageEnd[c] # 0 =>
    /\ cursor[c] < pageEnd[c]
    /\ \A r \in Row :
         /\ Latest(r).seq <= cursor[c] => page[c][r].seq = 0
         /\ cursor[c] < Latest(r).seq /\ Latest(r).seq <= pageEnd[c]
              => page[c][r] = Latest(r)

IInv ==
  /\ TypeOK /\ ClockBound /\ RowsWellFormed /\ OneWriter
  /\ OverlayWellFormed /\ PageFaithful /\ NoSkip

\* The foreign keys hold for every committed row.
ChildHasParent ==
  \A r \in Row : live[r].alive => \A p \in References[r] : live[p].alive

\* A cascade that runs has still to remove row r.
StillToGo(t, r) == phase[t] = "cascading" /\ r \in todo[t]

\* They hold in what a transaction sees, but for rows that a running cascade has
\* still to remove; and it has still to remove all that references such a row.
ReferencesKept ==
  \A t \in Txn : \A r \in Row : \A p \in References[r] : Visible(t, r).alive =>
    /\ Visible(t, p).alive \/ StillToGo(t, r)
    /\ StillToGo(t, p) => StillToGo(t, r)

ReferencesInv == IInv /\ ChildHasParent /\ ReferencesKept

\* A life of a row begins with a sequence of its own, and its version only rises.
LivesInOrder ==
  /\ \A r \in Row : live[r].alive => live[r].created <= clock
  /\ \A t \in Txn : \A r \in dirty[t] : wlive[t][r].alive =>
       /\ wlive[t][r].created <= wclock[t]
       /\ \/ clock < wlive[t][r].created
          \/ /\ live[r].alive /\ live[r].created = wlive[t][r].created
             /\ live[r].version < wlive[t][r].version

\* A copy is of a committed row: of this life, then it is the row or has a lower
\* version, or of an earlier one.
IsCopy(copy, row) ==
  copy.alive =>
    /\ copy.created <= clock
    /\ row.alive /\ row.created = copy.created => copy = row \/ copy.version < row.version

\* Clients, their pages and the edits they sent hold copies.
CopiesAreTrue ==
  /\ \A c \in Client, r \in Row : IsCopy(replica[c][r], live[r]) /\ IsCopy(page[c][r], live[r])
  /\ \A t \in Txn : stmt[t].op = "update" =>
       stmt[t].base.alive /\ IsCopy(stmt[t].base, live[stmt[t].row])

LivesInv == IInv /\ LivesInOrder /\ CopiesAreTrue
=============================================================================
