--------------------------- MODULE SyncPlaneProofs ---------------------------
(***************************************************************************)
(* Proofs about SyncPlane, and that it implements SyncFeed, for every set  *)
(* of rows, sessions and clients, and every page size and bound.           *)
(***************************************************************************)
EXTENDS SyncPlaneFeed, TLAPS

\* The changes the row triggers build are changes.
LEMMA ChangeTypes ==
  /\ Nothing \in Change
  /\ \A n \in Nat : Inserted(n) \in Change
  /\ \A old \in Change, n \in Nat :
       Updated(old, n) \in Change /\ Tombstone(old, n) \in Change
BY DEF Nothing, Change, Inserted, Updated, Tombstone

\* What a transaction sees of a row is a change.
LEMMA VisibleTypes ==
  ASSUME TypeOK, NEW t \in Txn, NEW r \in Row
  PROVE  Visible(t, r) \in Change /\ VisibleTomb(t, r) \in Change
BY DEF TypeOK, Visible, VisibleTomb

\* A write of one row keeps the overlay of the transaction well typed.
LEMMA WriteRowType ==
  ASSUME TypeOK, NEW t \in Txn, NEW r \in Row, NEW row \in Change,
         NEW tombstone \in Change, NEW k \in Nat, WriteRow(t, r, row, tombstone, k)
  PROVE  /\ dirty' \in [Txn -> SUBSET Row] /\ wclock' \in [Txn -> Nat]
         /\ wlive' \in [Txn -> [Row -> Change]] /\ wtomb' \in [Txn -> [Row -> Change]]
BY DEF TypeOK, WriteRow, Allocated

\* The row of a statement under way is a row.
LEMMA StmtRow ==
  ASSUME TypeOK, NEW t \in Txn, stmt[t].op \in Op
  PROVE  stmt[t].row \in Row /\ stmt[t] \in Stmt
BY DEF TypeOK, Stmt, NoStmt, Op

\* A step of a transaction keeps the types.
LEMMA WriteType ==
  ASSUME TypeOK, NEW t \in Txn, Write(t)
  PROVE  TypeOK'
<1>0. wclock[t] + 1 \in Nat /\ wclock[t] + 2 \in Nat BY DEF TypeOK
<1>. USE ChangeTypes, VisibleTypes
<1>1. ASSUME NEW r \in Row, NEW op \in Op, NEW base \in Change, Issue(t, op, r, base)
      PROVE  TypeOK'
  <2>1. [op |-> op, row |-> r, base |-> base, seen |-> Visible(t, r)] \in Stmt
    BY DEF Stmt
  <2>. QED BY <1>1, <2>1 DEF TypeOK, Issue, Goto, Phase, dbVars, clientVars
<1>2. ASSUME NEW r \in Row, NEW c \in Client, IssueEdit(t, c, r) PROVE TypeOK'
  <2>1. replica[c][r] \in Change BY DEF TypeOK
  <2>. QED BY <1>1, <1>2, <2>1 DEF IssueEdit, Op
<1>3. CASE LockClock(t)
  BY <1>3 DEF TypeOK, LockClock, Goto, Phase, dbVars, clientVars
<1>4. ASSUME NEW r \in Row, NEW row \in Change, NEW tombstone \in Change, NEW k \in Nat,
             WriteRow(t, r, row, tombstone, k),
             NEW p \in Phase, Goto(t, p), todo' \in [Txn -> SUBSET Row],
             UNCHANGED <<dbVars, clientVars, holder, stmt>>
      PROVE  TypeOK'
  <2>1. phase' \in [Txn -> Phase] BY <1>4 DEF TypeOK, Goto
  <2>. QED BY <1>4, <2>1, WriteRowType DEF TypeOK, dbVars, clientVars
<1>. DEFINE s == stmt[t].row
<1>5. CASE RunInsert(t)
  <2>1. s \in Row BY <1>5, StmtRow DEF RunInsert, Op
  <2>2. Inserted(Allocated(t, 1)) \in Change BY <1>0 DEF Allocated
  <2>. QED BY <1>5, <2>1, <2>2, <1>4 DEF RunInsert, TypeOK, Phase
<1>6. CASE RunUpsert(t)
  <2>1. s \in Row BY <1>6, StmtRow DEF RunUpsert, Op
  <2>2. Updated(Visible(t, s), Allocated(t, 2)) \in Change BY <1>0, <2>1 DEF Allocated
  <2>. QED BY <1>6, <2>1, <2>2, <1>4 DEF RunUpsert, TypeOK, Phase
<1>7. CASE RunInsertFails(t)
  BY <1>7 DEF TypeOK, RunInsertFails, Goto, Phase, NothingWritten, dbVars, clientVars
<1>8. CASE RunUpdate(t)
  <2>1. s \in Row BY <1>8, StmtRow DEF RunUpdate, Op
  <2>2. CASE CasMatches(t)
    <3>1. Updated(Visible(t, s), Allocated(t, 1)) \in Change BY <1>0, <2>1 DEF Allocated
    <3>. QED BY <1>8, <2>1, <2>2, <3>1, <1>4 DEF RunUpdate, TypeOK, Phase
  <2>3. CASE ~CasMatches(t)
    BY <1>8, <2>3 DEF TypeOK, RunUpdate, Goto, Phase, NothingWritten, dbVars, clientVars
  <2>. QED BY <2>2, <2>3
<1>9. CASE RunDelete(t)
  <2>1. s \in Row BY <1>9, StmtRow DEF RunDelete, Op
  <2>2. todo' \in [Txn -> SUBSET Row]
    <3>1. {k \in Below(s) : Visible(t, k).alive} \in SUBSET Row BY DEF Below
    <3>. QED BY <1>9, <3>1 DEF RunDelete, TypeOK
  <2>3. phase' \in [Txn -> Phase]
    BY <1>9 DEF RunDelete, TypeOK, Goto, Phase
  <2>. QED
    BY <1>9, <2>2, <2>3 DEF RunDelete, TypeOK, NothingWritten, dbVars, clientVars
<1>10. ASSUME NEW r \in Row, DeleteRow(t, r) PROVE TypeOK'
  <2>1. Tombstone(Visible(t, r), Allocated(t, 1)) \in Change BY <1>0 DEF Allocated
  <2>2. (IF todo[t] = {r} THEN "open" ELSE "cascading") \in Phase BY DEF Phase
  <2>3. todo' \in [Txn -> SUBSET Row] BY <1>10 DEF DeleteRow, TypeOK
  <2>. QED BY <1>10, <2>1, <2>2, <2>3, <1>4 DEF DeleteRow
<1>11. ASSUME Finish(t), live' \in [Row -> Change], tomb' \in [Row -> Change], clock' \in Nat
       PROVE  TypeOK'
  BY <1>11 DEF TypeOK, Finish, Goto, Phase, clientVars
<1>12. CASE Commit(t)
  BY <1>12, <1>11 DEF Commit, TypeOK
<1>13. CASE Rollback(t)
  BY <1>13, <1>11 DEF Rollback, TypeOK, dbVars
<1>. QED
  BY <1>1, <1>2, <1>3, <1>5, <1>6, <1>7, <1>8, <1>9, <1>10, <1>12, <1>13 DEF Write, Op

\* What a page says of a row is a change.
LEMMA InPageType ==
  ASSUME TypeOK, NEW r \in Row, NEW n \in Nat, NEW last \in Nat
  PROVE  InPage(r, n, last) \in Change
BY ChangeTypes DEF TypeOK, InPage

\* The sequences a catch-up returns are numbers above its cursor.
LEMMA NewerType ==
  ASSUME TypeOK, NEW n \in Nat, NEW last \in Newer(n)
  PROVE  last \in Nat /\ n < last
BY DEF TypeOK, Newer, Change

\* A step of a client keeps the types.
LEMMA CatchUpType ==
  ASSUME TypeOK, NEW c \in Client, CatchUp(c)
  PROVE  TypeOK'
<1>1. CASE FetchPage(c)
  <2>1. PICK last \in Newer(cursor[c]) :
          /\ pageEnd' = [pageEnd EXCEPT ![c] = last]
          /\ page' = [page EXCEPT ![c] = [r \in Row |-> InPage(r, cursor[c], last)]]
    BY <1>1 DEF FetchPage
  <2>2. last \in Nat /\ cursor[c] \in Nat BY <2>1, NewerType DEF TypeOK
  <2>3. [r \in Row |-> InPage(r, cursor[c], last)] \in [Row -> Change]
    BY <2>2, InPageType
  <2>. QED BY <1>1, <2>1, <2>2, <2>3 DEF FetchPage, TypeOK, dbVars, txnVars
<1>2. CASE ApplyPage(c)
  BY <1>2, ChangeTypes DEF ApplyPage, TypeOK, dbVars, txnVars
<1>3. CASE DropPage(c)
  BY <1>3, ChangeTypes DEF DropPage, TypeOK, dbVars, txnVars
<1>. QED BY <1>1, <1>2, <1>3 DEF CatchUp

LEMMA InitType == Init => TypeOK
BY ChangeTypes DEF Init, TypeOK, Phase

LEMMA NextType == TypeOK /\ [Next]_vars => TypeOK'
<1>1. TypeOK /\ UNCHANGED vars => TypeOK' BY DEF TypeOK, vars
<1>. QED BY <1>1, WriteType, CatchUpType DEF Next

\* The variables of the plane, its transactions and its clients always have the
\* types of the columns and protocol states they stand for.
THEOREM TypeCorrect == Spec => []TypeOK
BY InitType, NextType, PTL DEF Spec

-----------------------------------------------------------------------------
(***************************************************************************)
(* The inductive invariant.  Its parts split in two: what is committed and *)
(* what the clients hold (Settled), and what is uncommitted.               *)
(***************************************************************************)
Settled == ClockBound /\ RowsWellFormed /\ PageFaithful /\ NoSkip

\* Steps that touch neither the database nor a client keep what is settled.
LEMMA SettledUnchanged ==
  ASSUME Settled, UNCHANGED <<dbVars, clientVars>>
  PROVE  Settled'
BY DEF Settled, ClockBound, RowsWellFormed, PageFaithful, NoSkip, Latest, dbVars, clientVars

\* Steps that leave the overlays, the holder and its counter alone keep them well
\* formed, provided the phases still say who holds the clock.
LEMMA OverlayUnchanged ==
  ASSUME OverlayWellFormed, UNCHANGED <<clock, tomb, dirty, wlive, wtomb, wclock>>
  PROVE  OverlayWellFormed'
BY DEF OverlayWellFormed

LEMMA OneWriterGoto ==
  ASSUME TypeOK, OneWriter, NEW t \in Txn, NEW p \in Phase, Goto(t, p), p # "idle",
         p \in {"running", "cascading"} => holder = t,
         UNCHANGED <<clock, holder, dirty, wclock>>
  PROVE  OneWriter'
BY DEF TypeOK, OneWriter, Goto

\* The holder of the clock writes one row: the new row, or else the new tombstone,
\* carries the sequence just allocated.
LEMMA WriteRowOverlay ==
  ASSUME TypeOK, ClockBound, RowsWellFormed, OneWriter, OverlayWellFormed,
         NEW t \in Txn, NEW r \in Row, NEW row \in Change, NEW tombstone \in Change,
         NEW k \in Nat \ {0}, holder = t,
         WriteRow(t, r, row, tombstone, k),
         UNCHANGED <<clock, tomb>>,
         \/ row.alive /\ row.seq = wclock[t] + k /\ tombstone = VisibleTomb(t, r)
         \/ row = Nothing /\ ~tombstone.alive /\ tombstone.seq = wclock[t] + k
  PROVE  OverlayWellFormed'
<1>. DEFINE n == wclock[t] + k
<1>1. /\ n \in Nat /\ clock \in Nat /\ wclock[t] \in Nat
      /\ clock <= wclock[t] /\ wclock[t] < n
  BY DEF TypeOK, OneWriter
<1>2. /\ dirty'[t] = dirty[t] \cup {r} /\ wclock'[t] = n
      /\ wlive'[t][r] = row /\ wtomb'[t][r] = tombstone
      /\ \A q \in Row : q # r => wlive'[t][q] = wlive[t][q] /\ wtomb'[t][q] = wtomb[t][q]
  BY DEF WriteRow, Allocated, TypeOK
<1>3. \A u \in Txn : u # t => dirty'[u] = {}
  BY DEF WriteRow, OneWriter, TypeOK
<1>4. VisibleTomb(t, r) = tomb[r] \/
        (r \in dirty[t] /\ VisibleTomb(t, r) = wtomb[t][r])
  BY DEF VisibleTomb
<1>5. \A q \in Row : /\ wlive[t][q].seq \in Nat /\ wtomb[t][q].seq \in Nat
                     /\ tomb[q].seq \in Nat /\ tomb[q].seq <= clock /\ ~tomb[q].alive
  BY DEF TypeOK, Change, ClockBound, RowsWellFormed, WellFormed
<1>6. \A q \in dirty[t] : wlive[t][q].seq <= wclock[t] /\ wtomb[t][q].seq <= wclock[t]
                          /\ ~wtomb[t][q].alive
  <2>. TAKE q \in dirty[t]
  <2>1. q \in Row BY DEF TypeOK
  <2>2. Nothing.seq = 0 BY DEF Nothing
  <2>. QED BY <2>1, <2>2, <1>1, <1>5 DEF OverlayWellFormed, WellFormed
<1>7. /\ WellFormed(row, tombstone)
      /\ row.seq \in Nat /\ tombstone.seq \in Nat /\ tombstone.seq <= n
      /\ IF row.alive
         THEN row.seq = n /\ tombstone.seq < n
                /\ (tombstone = tomb[r] \/ clock < tombstone.seq)
         ELSE row.seq = 0 /\ tombstone.seq = n
  <2>1. CASE row.alive /\ row.seq = n /\ tombstone = VisibleTomb(t, r)
    <3>1. tombstone = tomb[r] \/ (r \in dirty[t] /\ tombstone = wtomb[t][r])
      BY <2>1, <1>4
    <3>2. r \in dirty[t] /\ tombstone = wtomb[t][r]
            => tombstone = tomb[r] \/ clock < tombstone.seq
      BY DEF OverlayWellFormed
    <3>. QED BY <2>1, <3>1, <3>2, <1>1, <1>5, <1>6 DEF WellFormed
  <2>2. CASE row = Nothing /\ ~tombstone.alive /\ tombstone.seq = n
    BY <2>2, <1>1 DEF WellFormed, Nothing
  <2>. QED BY <2>1, <2>2
<1>8. \A q \in dirty[t] : q # r =>
        /\ Disjoint(row, tombstone, wlive[t][q], wtomb[t][q])
        /\ Disjoint(wlive[t][q], wtomb[t][q], row, tombstone)
  <2>. SUFFICES ASSUME NEW q \in dirty[t], q # r
                PROVE  /\ Disjoint(row, tombstone, wlive[t][q], wtomb[t][q])
                       /\ Disjoint(wlive[t][q], wtomb[t][q], row, tombstone)
    OBVIOUS
  <2>0. q \in Row BY DEF TypeOK
  <2>1. /\ wlive[t][q].seq \in Nat /\ wtomb[t][q].seq \in Nat
        /\ wlive[t][q].seq < n /\ wtomb[t][q].seq < n
    BY <2>0, <1>1, <1>5, <1>6
  <2>2. /\ tombstone.seq > 0 /\ tombstone.seq # n => tombstone.seq # wlive[t][q].seq
                                               /\ tombstone.seq # wtomb[t][q].seq
    <3>. SUFFICES ASSUME tombstone.seq > 0, tombstone.seq # n
                  PROVE  tombstone.seq # wlive[t][q].seq /\ tombstone.seq # wtomb[t][q].seq
      OBVIOUS
    <3>1. tombstone = VisibleTomb(t, r) BY <1>7
    <3>2. CASE r \in dirty[t] /\ tombstone = wtomb[t][r]
      BY <3>2 DEF OverlayWellFormed, Disjoint
    <3>3. CASE tombstone = tomb[r]
      <4>1. wlive[t][q].seq = 0 \/ wlive[t][q].seq > clock
        BY DEF OverlayWellFormed, WellFormed, Nothing
      <4>2. wtomb[t][q] = tomb[q] \/ wtomb[t][q].seq > clock
        BY DEF OverlayWellFormed
      <4>3. tombstone.seq # tomb[q].seq
        BY <3>3, <2>0 DEF RowsWellFormed, Disjoint
      <4>. QED BY <3>3, <4>1, <4>2, <4>3, <1>5, <2>0, <2>1, <1>1
    <3>. QED BY <3>1, <3>2, <3>3, <1>4
  <2>. QED BY <2>1, <2>2, <1>7, <1>1 DEF Disjoint
<1>9. ASSUME NEW q \in dirty'[t]
      PROVE  /\ WellFormed(wlive'[t][q], wtomb'[t][q])
             /\ IF wlive'[t][q].alive
                THEN /\ clock' < wlive'[t][q].seq /\ wlive'[t][q].seq <= wclock'[t]
                     /\ wtomb'[t][q] = tomb'[q] \/ clock' < wtomb'[t][q].seq
                ELSE clock' < wtomb'[t][q].seq /\ wtomb'[t][q].seq <= wclock'[t]
             /\ \A p \in dirty'[t] : q # p =>
                  Disjoint(wlive'[t][q], wtomb'[t][q], wlive'[t][p], wtomb'[t][p])
  <2>0. dirty[t] \subseteq Row BY DEF TypeOK
  <2>1. CASE q = r
    BY <2>0, <2>1, <1>1, <1>2, <1>7, <1>8
  <2>2. CASE q # r
    <3>1. q \in dirty[t] /\ q \in Row BY <2>0, <2>2, <1>2
    <3>2. wlive'[t][q] = wlive[t][q] /\ wtomb'[t][q] = wtomb[t][q] BY <3>1, <2>2, <1>2
    <3>3. \A p \in dirty'[t] : q # p =>
            Disjoint(wlive'[t][q], wtomb'[t][q], wlive'[t][p], wtomb'[t][p])
      <4>. SUFFICES ASSUME NEW p \in dirty'[t], q # p
                    PROVE  Disjoint(wlive'[t][q], wtomb'[t][q], wlive'[t][p], wtomb'[t][p])
        OBVIOUS
      <4>1. CASE p = r BY <4>1, <3>1, <3>2, <2>2, <1>2, <1>8
      <4>2. CASE p # r
        <5>1. p \in dirty[t] /\ p \in Row BY <4>2, <2>0, <1>2
        <5>. QED BY <5>1, <4>2, <3>1, <3>2, <1>2 DEF OverlayWellFormed
      <4>. QED BY <4>1, <4>2
    <3>4. /\ WellFormed(wlive[t][q], wtomb[t][q])
          /\ IF wlive[t][q].alive
             THEN /\ clock < wlive[t][q].seq /\ wlive[t][q].seq <= wclock[t]
                  /\ wtomb[t][q] = tomb[q] \/ clock < wtomb[t][q].seq
             ELSE clock < wtomb[t][q].seq /\ wtomb[t][q].seq <= wclock[t]
      BY <3>1 DEF OverlayWellFormed
    <3>. QED BY <3>1, <3>2, <3>3, <3>4, <1>1, <1>2, <1>5
  <2>. QED BY <2>1, <2>2
<1>. QED BY <1>3, <1>9 DEF OverlayWellFormed

\* A statement that wrote one row under the clock lock keeps the writers' parts.
LEMMA WriteRowWriter ==
  ASSUME TypeOK, OneWriter, NEW t \in Txn, NEW r \in Row, NEW row, NEW tombstone,
         NEW k \in Nat, holder = t, WriteRow(t, r, row, tombstone, k),
         NEW p \in Phase \ {"idle"}, Goto(t, p), UNCHANGED <<clock, holder>>
  PROVE  OneWriter'
<1>1. /\ \A u \in Txn : u # t => dirty'[u] = dirty[u] /\ wclock'[u] = wclock[u]
                               /\ phase'[u] = phase[u]
      /\ phase'[t] = p /\ wclock'[t] = wclock[t] + k
      /\ wclock[t] \in Nat /\ clock \in Nat
  BY DEF WriteRow, Allocated, Goto, TypeOK
<1>. QED BY <1>1 DEF OneWriter

\* The uncommitted part of the invariant.
Unsettled == OneWriter /\ OverlayWellFormed

\* A step inside a transaction keeps the uncommitted part.
LEMMA StatementKeeps ==
  ASSUME TypeOK, Settled, Unsettled, NEW t \in Txn, Write(t), ~Commit(t), ~Rollback(t)
  PROVE  Unsettled' /\ UNCHANGED <<dbVars, clientVars>>
<1>. USE DEF Unsettled, Settled
<1>. DEFINE s == stmt[t].row
<1>1. ASSUME NEW r \in Row, NEW op \in Op, NEW base, Issue(t, op, r, base)
      PROVE  Unsettled' /\ UNCHANGED <<dbVars, clientVars>>
  BY <1>1, OneWriterGoto, OverlayUnchanged DEF Issue, Phase, dbVars
<1>2. ASSUME NEW r \in Row, NEW c \in Client, IssueEdit(t, c, r)
      PROVE  Unsettled' /\ UNCHANGED <<dbVars, clientVars>>
  BY <1>1, <1>2 DEF IssueEdit, Op
<1>3. CASE LockClock(t)
  <2>1. /\ phase' = [phase EXCEPT ![t] = "running"] /\ holder' = t
        /\ holder \in {NoTxn, t}
        /\ wclock' = [wclock EXCEPT ![t] = IF holder = t THEN @ ELSE clock]
        /\ UNCHANGED <<dbVars, clientVars, dirty, wlive, wtomb>>
    BY <1>3 DEF LockClock, Goto, ClockFree
  <2>2. \A u \in Txn : u # t => dirty[u] = {} /\ phase[u] \notin {"running", "cascading"}
    BY <2>1, TxnAssumption DEF OneWriter
  <2>3. OneWriter'
    BY <2>1, <2>2 DEF OneWriter, TypeOK, dbVars
  <2>4. OverlayWellFormed'
    <3>1. \A u \in Txn : dirty[u] # {} => wclock'[u] = wclock[u]
      BY <2>1, TxnAssumption DEF OneWriter, TypeOK
    <3>. QED BY <2>1, <3>1 DEF OverlayWellFormed, dbVars
  <2>. QED BY <2>1, <2>3, <2>4
<1>4. ASSUME NEW r \in Row, NEW row \in Change, NEW tombstone \in Change,
             NEW k \in Nat \ {0}, phase[t] \in {"running", "cascading"},
             WriteRow(t, r, row, tombstone, k),
             \/ row.alive /\ row.seq = wclock[t] + k /\ tombstone = VisibleTomb(t, r)
             \/ row = Nothing /\ ~tombstone.alive /\ tombstone.seq = wclock[t] + k,
             NEW p \in Phase \ {"idle"}, Goto(t, p),
             UNCHANGED <<dbVars, clientVars, holder>>
      PROVE  Unsettled' /\ UNCHANGED <<dbVars, clientVars>>
  <2>1. holder = t BY <1>4 DEF OneWriter
  <2>2. OneWriter' BY <1>4, <2>1, WriteRowWriter DEF dbVars
  <2>3. OverlayWellFormed' BY <1>4, <2>1, WriteRowOverlay DEF dbVars
  <2>. QED BY <1>4, <2>2, <2>3
<1>0. wclock[t] + 1 \in Nat /\ wclock[t] + 2 \in Nat BY DEF TypeOK
<1>. USE ChangeTypes, VisibleTypes
<1>5. CASE RunInsert(t)
  <2>1. s \in Row BY <1>5, StmtRow DEF RunInsert, Op
  <2>2. /\ Inserted(wclock[t] + 1) \in Change
        /\ Inserted(wclock[t] + 1).alive /\ Inserted(wclock[t] + 1).seq = wclock[t] + 1
    BY <1>0 DEF Inserted
  <2>. QED BY <1>5, <2>1, <2>2, <1>4 DEF RunInsert, Allocated, Phase
<1>6. CASE RunUpsert(t)
  <2>1. s \in Row BY <1>6, StmtRow DEF RunUpsert, Op
  <2>2. /\ Updated(Visible(t, s), wclock[t] + 2) \in Change
        /\ Updated(Visible(t, s), wclock[t] + 2).alive
        /\ Updated(Visible(t, s), wclock[t] + 2).seq = wclock[t] + 2
    BY <1>0, <2>1 DEF Updated
  <2>3. /\ phase[t] = "running" /\ Goto(t, "open")
        /\ WriteRow(t, s, Updated(Visible(t, s), wclock[t] + 2), VisibleTomb(t, s), 2)
        /\ UNCHANGED <<dbVars, clientVars, holder>>
    BY <1>6 DEF RunUpsert, Allocated
  <2>4. "open" \in Phase \ {"idle"} /\ 2 \in Nat \ {0} BY DEF Phase
  <2>. QED BY <2>1, <2>2, <2>3, <2>4, <1>4
<1>7. CASE RunInsertFails(t)
  <2>1. Goto(t, "failed") BY <1>7 DEF RunInsertFails
  <2>2. UNCHANGED <<dbVars, clientVars, holder, dirty, wlive, wtomb, wclock>>
    BY <1>7 DEF RunInsertFails, NothingWritten
  <2>3. OneWriter' BY <2>1, <2>2, OneWriterGoto DEF Phase, dbVars
  <2>. QED BY <2>2, <2>3, OverlayUnchanged DEF dbVars
<1>8. CASE RunUpdate(t)
  <2>1. s \in Row BY <1>8, StmtRow DEF RunUpdate, Op
  <2>2. CASE CasMatches(t)
    <3>1. /\ Updated(Visible(t, s), wclock[t] + 1) \in Change
          /\ Updated(Visible(t, s), wclock[t] + 1).alive
          /\ Updated(Visible(t, s), wclock[t] + 1).seq = wclock[t] + 1
      BY <1>0, <2>1 DEF Updated
    <3>. QED BY <1>8, <2>1, <2>2, <3>1, <1>4 DEF RunUpdate, Allocated, Phase
  <2>3. CASE ~CasMatches(t)
    <3>1. Goto(t, "open") BY <1>8 DEF RunUpdate
    <3>2. UNCHANGED <<dbVars, clientVars, holder, dirty, wlive, wtomb, wclock>>
      BY <1>8, <2>3 DEF RunUpdate, NothingWritten
    <3>3. OneWriter' BY <3>1, <3>2, OneWriterGoto DEF Phase, dbVars
    <3>. QED BY <3>2, <3>3, OverlayUnchanged DEF dbVars
  <2>. QED BY <2>2, <2>3
<1>9. CASE RunDelete(t)
  <2>1. holder = t BY <1>9 DEF RunDelete, OneWriter
  <2>2. \/ Goto(t, "cascading")
        \/ Goto(t, "open")
    BY <1>9 DEF RunDelete
  <2>3. UNCHANGED <<dbVars, clientVars, holder, dirty, wlive, wtomb, wclock>>
    BY <1>9 DEF RunDelete, NothingWritten
  <2>4. OneWriter'
    BY <2>1, <2>2, <2>3, OneWriterGoto DEF Phase, dbVars
  <2>. QED BY <2>3, <2>4, OverlayUnchanged DEF dbVars
<1>10. ASSUME NEW r \in Row, DeleteRow(t, r)
       PROVE  Unsettled' /\ UNCHANGED <<dbVars, clientVars>>
  <2>1. /\ Tombstone(Visible(t, r), wclock[t] + 1) \in Change
        /\ ~Tombstone(Visible(t, r), wclock[t] + 1).alive
        /\ Tombstone(Visible(t, r), wclock[t] + 1).seq = wclock[t] + 1
    BY <1>0 DEF Tombstone
  <2>2. (IF todo[t] = {r} THEN "open" ELSE "cascading") \in Phase \ {"idle"} BY DEF Phase
  <2>. QED BY <1>10, <2>1, <2>2, <1>4 DEF DeleteRow, Allocated
<1>. QED
  BY <1>1, <1>2, <1>3, <1>5, <1>6, <1>7, <1>8, <1>9, <1>10 DEF Write, Op

\* The end of a transaction leaves the overlays of the others as they are.
LEMMA FinishKeeps ==
  ASSUME TypeOK, Unsettled, NEW t \in Txn, Finish(t),
         holder # t => UNCHANGED <<clock, tomb>>
  PROVE  Unsettled'
<1>1. /\ phase' = [phase EXCEPT ![t] = "idle"] /\ dirty' = [dirty EXCEPT ![t] = {}]
      /\ wlive' = [wlive EXCEPT ![t] = [r \in Row |-> Nothing]]
      /\ wtomb' = [wtomb EXCEPT ![t] = [r \in Row |-> Nothing]]
      /\ wclock' = [wclock EXCEPT ![t] = 0]
      /\ holder' = IF holder = t THEN NoTxn ELSE holder
  BY DEF Finish, Goto
<1>2. dirty'[t] = {} /\ phase'[t] = "idle" BY <1>1 DEF TypeOK
<1>3. \A u \in Txn : u # t => /\ dirty'[u] = dirty[u] /\ phase'[u] = phase[u]
                             /\ wlive'[u] = wlive[u] /\ wtomb'[u] = wtomb[u]
                             /\ wclock'[u] = wclock[u]
  BY <1>1 DEF TypeOK
<1>4. \A u \in Txn : holder = t /\ u # t => dirty[u] = {} /\ phase[u] \notin {"running", "cascading"}
  BY DEF Unsettled, OneWriter
<1>5. OneWriter'
  BY <1>1, <1>2, <1>3, <1>4, TxnAssumption DEF Unsettled, OneWriter
<1>6. OverlayWellFormed'
  <2>1. CASE holder = t BY <2>1, <1>2, <1>3, <1>4 DEF OverlayWellFormed
  <2>2. CASE holder # t BY <2>2, <1>2, <1>3 DEF Unsettled, OverlayWellFormed
  <2>. QED BY <2>1, <2>2
<1>. QED BY <1>5, <1>6 DEF Unsettled

\* A commit publishes well-formed rows, above everything published before.
LEMMA CommitSettles ==
  ASSUME TypeOK, Settled, Unsettled, NEW t \in Txn, Commit(t)
  PROVE  Settled'
<1>. USE DEF Settled, Unsettled
<1>1. /\ live' = [r \in Row |-> Visible(t, r)]
      /\ tomb' = [r \in Row |-> VisibleTomb(t, r)]
      /\ clock' = IF holder = t THEN wclock[t] ELSE clock
      /\ UNCHANGED clientVars
  BY DEF Commit, Finish
<1>2. /\ clock \in Nat /\ clock' \in Nat /\ clock <= clock'
      /\ dirty[t] # {} => clock' = wclock[t]
  BY <1>1 DEF TypeOK, OneWriter
<1>3. \A r \in Row : /\ live[r] \in Change /\ tomb[r] \in Change
                     /\ live'[r] \in Change /\ tomb'[r] \in Change
                     /\ live[r].seq \in Nat /\ tomb[r].seq \in Nat
                     /\ live'[r].seq \in Nat /\ tomb'[r].seq \in Nat
  BY <1>1, VisibleTypes DEF TypeOK, Change
<1>4. \A r \in Row : r \notin dirty[t] => live'[r] = live[r] /\ tomb'[r] = tomb[r]
  BY <1>1 DEF Visible, VisibleTomb
<1>5. \A r \in dirty[t] :
        /\ live'[r] = wlive[t][r] /\ tomb'[r] = wtomb[t][r]
        /\ WellFormed(live'[r], tomb'[r])
        /\ clock < Latest(r)'.seq /\ Latest(r)'.seq <= clock'
        /\ live'[r].seq <= clock' /\ tomb'[r].seq <= clock'
        /\ live'[r].seq = 0 \/ clock < live'[r].seq
        /\ tomb'[r] = tomb[r] \/ clock < tomb'[r].seq
  <2>. SUFFICES ASSUME NEW r \in dirty[t]
                PROVE  /\ live'[r] = wlive[t][r] /\ tomb'[r] = wtomb[t][r]
                       /\ WellFormed(live'[r], tomb'[r])
                       /\ clock < Latest(r)'.seq /\ Latest(r)'.seq <= clock'
                       /\ live'[r].seq <= clock' /\ tomb'[r].seq <= clock'
                       /\ live'[r].seq = 0 \/ clock < live'[r].seq
                       /\ tomb'[r] = tomb[r] \/ clock < tomb'[r].seq
    OBVIOUS
  <2>1. r \in Row /\ clock' = wclock[t] BY <1>2 DEF TypeOK
  <2>2. live'[r] = wlive[t][r] /\ tomb'[r] = wtomb[t][r]
    BY <1>1, <2>1 DEF Visible, VisibleTomb
  <2>3. WellFormed(live'[r], tomb'[r]) BY <2>2 DEF OverlayWellFormed
  <2>4. CASE live'[r].alive
    BY <2>1, <2>2, <2>3, <2>4, <1>2, <1>3 DEF OverlayWellFormed, WellFormed, Latest
  <2>5. CASE ~live'[r].alive
    <3>1. live'[r].seq = 0 BY <2>3, <2>5 DEF WellFormed, Nothing
    <3>. QED BY <3>1, <2>1, <2>2, <2>3, <2>5, <1>2, <1>3 DEF OverlayWellFormed, Latest
  <2>. QED BY <2>2, <2>3, <2>4, <2>5
<1>6. \A r \in Row : live[r].seq <= clock /\ tomb[r].seq <= clock BY DEF ClockBound
<1>7. ClockBound'
  <2>1. \A r \in Row : live'[r].seq <= clock' /\ tomb'[r].seq <= clock'
    BY <1>2, <1>3, <1>4, <1>5, <1>6
  <2>2. \A c \in Client : cursor'[c] <= clock' /\ pageEnd'[c] <= clock'
    BY <1>1, <1>2 DEF ClockBound, clientVars, TypeOK
  <2>. QED BY <2>1, <2>2 DEF ClockBound
<1>8. RowsWellFormed'
  <2>1. \A r \in Row : WellFormed(live'[r], tomb'[r])
    BY <1>4, <1>5 DEF RowsWellFormed
  <2>2. ASSUME NEW r \in Row, NEW q \in Row, r # q
        PROVE  Disjoint(live'[r], tomb'[r], live'[q], tomb'[q])
    <3>1. CASE r \in dirty[t] /\ q \in dirty[t]
      BY <3>1, <2>2, <1>5 DEF OverlayWellFormed
    <3>2. CASE r \notin dirty[t] /\ q \notin dirty[t]
      BY <3>2, <2>2, <1>4 DEF RowsWellFormed
    <3>3. ASSUME NEW a \in dirty[t], NEW b \in Row \ dirty[t]
          PROVE  /\ Disjoint(live'[a], tomb'[a], live'[b], tomb'[b])
                 /\ Disjoint(live'[b], tomb'[b], live'[a], tomb'[a])
      <4>1. a \in Row /\ a # b BY DEF TypeOK
      <4>2. Disjoint(live[a], tomb[a], live[b], tomb[b]) /\ Disjoint(live[b], tomb[b], live[a], tomb[a])
        BY <4>1 DEF RowsWellFormed
      <4>3. /\ live'[b] = live[b] /\ tomb'[b] = tomb[b]
            /\ live'[a].seq = 0 \/ clock < live'[a].seq
            /\ tomb'[a] = tomb[a] \/ clock < tomb'[a].seq
        BY <1>4, <1>5
      <4>. QED BY <4>1, <4>2, <4>3, <1>2, <1>3, <1>6 DEF Disjoint
    <3>. QED BY <3>1, <3>2, <3>3
  <2>. QED BY <2>1, <2>2 DEF RowsWellFormed
<1>9. \A r \in Row : r \notin dirty[t] => Latest(r)' = Latest(r)
  BY <1>4 DEF Latest
<1>10. \A c \in Client : /\ cursor'[c] = cursor[c] /\ pageEnd'[c] = pageEnd[c]
                        /\ page'[c] = page[c] /\ replica'[c] = replica[c]
                        /\ cursor[c] \in Nat /\ pageEnd[c] \in Nat
                        /\ cursor[c] <= clock /\ pageEnd[c] <= clock
  BY <1>1 DEF clientVars, ClockBound, TypeOK
<1>11. \A c \in Client, r \in Row :
         Latest(r)'.seq <= cursor[c] \/ Latest(r)'.seq <= pageEnd[c] => Latest(r)' = Latest(r)
  <2>. SUFFICES ASSUME NEW c \in Client, NEW r \in Row, r \in dirty[t]
                PROVE  ~(Latest(r)'.seq <= cursor[c] \/ Latest(r)'.seq <= pageEnd[c])
    BY <1>9
  <2>1. clock < Latest(r)'.seq /\ Latest(r)'.seq \in Nat BY <1>3, <1>5 DEF Latest
  <2>. QED BY <2>1, <1>2, <1>10
<1>12. PageFaithful' /\ NoSkip'
  BY <1>10, <1>11 DEF PageFaithful, NoSkip
<1>. QED BY <1>7, <1>8, <1>12

\* What a catch-up asks for is newer than its cursor and already committed.
LEMMA NewerCommitted ==
  ASSUME TypeOK, ClockBound, NEW n \in Nat, NEW last \in Newer(n)
  PROVE  last \in Nat /\ n < last /\ last <= clock
BY NewerType DEF ClockBound, Newer

\* A client's step keeps what is settled, and what it stores is what it was sent.
LEMMA CatchUpSettles ==
  ASSUME TypeOK, Settled, NEW c \in Client, CatchUp(c)
  PROVE  Settled'
<1>. USE DEF Settled
<1>0. UNCHANGED <<dbVars, txnVars>> BY DEF CatchUp, FetchPage, ApplyPage, DropPage
<1>1. RowsWellFormed' /\ \A r \in Row : Latest(r)' = Latest(r)
  BY <1>0 DEF RowsWellFormed, Latest, dbVars
<1>2. \A r \in Row : /\ Latest(r) \in Change /\ Latest(r).seq \in Nat
                     /\ live[r].seq \in Nat /\ tomb[r].seq \in Nat
  BY DEF Latest, TypeOK, Change
<1>3. \A d \in Client : cursor[d] \in Nat /\ pageEnd[d] \in Nat /\ clock \in Nat
  BY DEF TypeOK
<1>4. CASE FetchPage(c)
  <2>1. PICK last \in Newer(cursor[c]) :
          /\ pageEnd' = [pageEnd EXCEPT ![c] = last]
          /\ page' = [page EXCEPT ![c] = [r \in Row |-> InPage(r, cursor[c], last)]]
    BY <1>4 DEF FetchPage
  <2>2. last \in Nat /\ cursor[c] < last /\ last <= clock
    BY <2>1, <1>3, NewerCommitted
  <2>3. UNCHANGED <<cursor, replica>> BY <1>4 DEF FetchPage
  <2>4. ClockBound'
    BY <2>1, <2>2, <2>3, <1>0 DEF ClockBound, dbVars, TypeOK
  <2>5. ASSUME NEW r \in Row
        PROVE  /\ Latest(r).seq <= cursor[c] => InPage(r, cursor[c], last).seq = 0
               /\ cursor[c] < Latest(r).seq /\ Latest(r).seq <= last
                    => InPage(r, cursor[c], last) = Latest(r)
    <3>1. IF live[r].alive THEN tomb[r].seq < live[r].seq ELSE live[r].seq = 0
      BY DEF RowsWellFormed, WellFormed, Nothing
    <3>. QED BY <3>1, <2>2, <1>2, <1>3 DEF InPage, Latest, Nothing
  <2>6. PageFaithful'
    BY <2>1, <2>2, <2>3, <2>5, <1>1 DEF PageFaithful, TypeOK
  <2>. QED BY <2>3, <2>4, <2>6, <1>1 DEF NoSkip
<1>5. CASE ApplyPage(c)
  <2>1. /\ pageEnd[c] # 0
        /\ replica' = [replica EXCEPT ![c] =
             [r \in Row |-> IF page[c][r].seq > 0 THEN page[c][r] ELSE replica[c][r]]]
        /\ cursor' = [cursor EXCEPT ![c] = pageEnd[c]]
        /\ pageEnd' = [pageEnd EXCEPT ![c] = 0]
        /\ page' = [page EXCEPT ![c] = [r \in Row |-> Nothing]]
    BY <1>5 DEF ApplyPage
  <2>2. ClockBound' BY <2>1, <1>0, <1>3 DEF ClockBound, dbVars, TypeOK
  <2>3. \A d \in Client : d # c => /\ cursor'[d] = cursor[d] /\ pageEnd'[d] = pageEnd[d]
                                  /\ page'[d] = page[d] /\ replica'[d] = replica[d]
    BY <2>1 DEF TypeOK
  <2>4. /\ cursor'[c] = pageEnd[c] /\ pageEnd'[c] = 0
        /\ \A r \in Row : replica'[c][r] =
             IF page[c][r].seq > 0 THEN page[c][r] ELSE replica[c][r]
    BY <2>1 DEF TypeOK
  <2>5. PageFaithful' BY <2>3, <2>4, <1>1 DEF PageFaithful
  <2>6. ASSUME NEW r \in Row, Latest(r).seq <= pageEnd[c]
        PROVE  replica'[c][r] = Latest(r)
    <3>1. CASE Latest(r).seq <= cursor[c]
      BY <3>1, <2>1, <2>4 DEF PageFaithful, NoSkip
    <3>2. CASE cursor[c] < Latest(r).seq
      BY <3>2, <2>1, <2>4, <2>6, <1>2, <1>3 DEF PageFaithful
    <3>. QED BY <3>1, <3>2, <1>2, <1>3
  <2>7. NoSkip' BY <2>3, <2>4, <2>6, <1>1 DEF NoSkip
  <2>. QED BY <2>2, <2>5, <2>7, <1>1
<1>6. CASE DropPage(c)
  <2>1. /\ pageEnd' = [pageEnd EXCEPT ![c] = 0] /\ UNCHANGED <<cursor, replica>>
        /\ page' = [page EXCEPT ![c] = [r \in Row |-> Nothing]]
    BY <1>6 DEF DropPage
  <2>2. ClockBound' BY <2>1, <1>0, <1>3 DEF ClockBound, dbVars, TypeOK
  <2>3. PageFaithful' BY <2>1, <1>1 DEF PageFaithful, TypeOK
  <2>. QED BY <2>1, <2>2, <2>3, <1>1 DEF NoSkip
<1>. QED BY <1>4, <1>5, <1>6 DEF CatchUp

LEMMA InitSettled == Init => Settled /\ Unsettled
<1>. SUFFICES ASSUME Init PROVE Settled /\ Unsettled OBVIOUS
<1>1. ClockBound /\ RowsWellFormed
  BY DEF Init, ClockBound, RowsWellFormed, WellFormed, Disjoint, Nothing
<1>2. PageFaithful /\ NoSkip
  BY DEF Init, PageFaithful, NoSkip, Latest, Nothing
<1>3. Unsettled
  BY TxnAssumption DEF Init, Unsettled, OneWriter, OverlayWellFormed
<1>. QED BY <1>1, <1>2, <1>3 DEF Settled

LEMMA IInvSplit == IInv <=> TypeOK /\ Settled /\ Unsettled
BY DEF IInv, Settled, Unsettled

LEMMA NextIInv == IInv /\ [Next]_vars => IInv'
<1>. SUFFICES ASSUME TypeOK, Settled, Unsettled, [Next]_vars
              PROVE  Settled' /\ Unsettled'
  BY IInvSplit, NextType DEF IInv, Settled, Unsettled
<1>1. ASSUME NEW t \in Txn, Write(t) PROVE Settled' /\ Unsettled'
  <2>1. CASE Commit(t)
    <3>1. Finish(t) /\ (holder # t => UNCHANGED <<clock, tomb>>)
      <4>1. holder # t => dirty[t] = {} BY DEF Unsettled, OneWriter
      <4>2. tomb = [r \in Row |-> tomb[r]] BY DEF TypeOK
      <4>. QED BY <2>1, <4>1, <4>2 DEF Commit, VisibleTomb
    <3>. QED BY <2>1, <3>1, CommitSettles, FinishKeeps
  <2>2. CASE Rollback(t)
    BY <2>2, SettledUnchanged, FinishKeeps DEF Rollback, Finish, dbVars
  <2>3. CASE ~Commit(t) /\ ~Rollback(t)
    BY <1>1, <2>3, StatementKeeps, SettledUnchanged
  <2>. QED BY <2>1, <2>2, <2>3
<1>2. ASSUME NEW c \in Client, CatchUp(c) PROVE Settled' /\ Unsettled'
  <2>1. UNCHANGED <<dbVars, txnVars>>
    BY <1>2 DEF CatchUp, FetchPage, ApplyPage, DropPage
  <2>2. Unsettled'
    BY <2>1 DEF Unsettled, OneWriter, OverlayWellFormed, dbVars, txnVars
  <2>. QED BY <1>2, <2>2, CatchUpSettles
<1>3. CASE UNCHANGED vars
  BY <1>3, SettledUnchanged, OverlayUnchanged
     DEF vars, dbVars, clientVars, Unsettled, OneWriter
<1>. QED BY <1>1, <1>2, <1>3 DEF Next

\* The inductive invariant holds in every reachable state.
THEOREM Invariance == Spec => []IInv
<1>1. Init => IInv BY InitType, InitSettled, IInvSplit
<1>. QED BY <1>1, NextIInv, PTL DEF Spec

\* A catch-up never skips a committed change, whatever the transactions do and
\* whichever responses are lost.
THEOREM CatchUpNeverSkips == Spec => []NoSkip
BY Invariance, PTL DEF IInv

\* sync_sequence is globally unique over the rows and tombstones of the plane.
THEOREM GloballyUnique == Spec => []SequencesUnique
<1>1. IInv => SequencesUnique
  <2>. SUFFICES ASSUME IInv PROVE SequencesUnique OBVIOUS
  <2>1. \A r \in Row : /\ live[r].seq \in Nat /\ tomb[r].seq \in Nat
                       /\ live[r].alive => tomb[r].seq < live[r].seq
    BY DEF IInv, TypeOK, Change, RowsWellFormed, WellFormed
  <2>2. \A r, q \in Row : r # q => Disjoint(live[r], tomb[r], live[q], tomb[q])
    BY DEF IInv, RowsWellFormed
  <2>. QED BY <2>1, <2>2 DEF SequencesUnique, Disjoint
<1>. QED BY <1>1, Invariance, PTL

\* Every deletion reaches every client that still holds the row.
THEOREM DeletionsReachClients == Spec => []NoSilentDelete
<1>1. IInv => NoSilentDelete
  <2>. SUFFICES ASSUME IInv PROVE NoSilentDelete OBVIOUS
  <2>1. ASSUME NEW c \in Client, NEW r \in Row, replica[c][r].alive, ~live[r].alive
        PROVE  tomb[r].seq > cursor[c]
    <3>1. Latest(r) = tomb[r] /\ ~tomb[r].alive
      BY <2>1 DEF Latest, IInv, RowsWellFormed, WellFormed
    <3>2. tomb[r].seq \in Nat /\ cursor[c] \in Nat BY DEF IInv, TypeOK, Change
    <3>. QED BY <2>1, <3>1, <3>2 DEF IInv, NoSkip
  <2>. QED BY <2>1 DEF NoSilentDelete, IInv, RowsWellFormed, WellFormed
<1>. QED BY <1>1, Invariance, PTL

-----------------------------------------------------------------------------
(* What a step does to the rows that transactions see.                     *)

\* A write changes one row, for the transaction that writes it.
LEMMA WriteRowVisible ==
  ASSUME TypeOK, NEW t \in Txn, NEW r \in Row, NEW row, NEW tombstone, NEW k,
         WriteRow(t, r, row, tombstone, k), live' = live
  PROVE  /\ Visible(t, r)' = row
         /\ \A q \in Row : q # r => Visible(t, q)' = Visible(t, q)
         /\ \A u \in Txn, q \in Row : u # t => Visible(u, q)' = Visible(u, q)
BY DEF TypeOK, WriteRow, Visible

LEMMA VisibleUnchanged ==
  ASSUME UNCHANGED <<live, dirty, wlive>>
  PROVE  \A u \in Txn, q \in Row : Visible(u, q)' = Visible(u, q)
BY DEF Visible

\* When the holder of the clock ends, everybody sees the committed rows; when
\* another transaction does, nobody sees anything change.
LEMMA FinishVisible ==
  ASSUME TypeOK, OneWriter, NEW t \in Txn, Finish(t)
  PROVE  /\ \A q \in Row : Visible(t, q)' = live'[q]
         /\ holder = t => \A u \in Txn, q \in Row : Visible(u, q)' = live'[q]
         /\ live' = live => \A u \in Txn, q \in Row : u # t => Visible(u, q)' = Visible(u, q)
         /\ \A u \in Txn : phase'[u] = "cascading" => u # t /\ phase[u] = "cascading"
         /\ \A u \in Txn : u # t => todo'[u] = todo[u] /\ phase'[u] = phase[u]
BY DEF TypeOK, OneWriter, Finish, Goto, Visible

\* Who has not locked the clock has nothing to commit.
LEMMA IdleCommit ==
  ASSUME TypeOK, OneWriter, NEW t \in Txn, Commit(t), holder # t
  PROVE  live' = live /\ clock' = clock
<1>1. dirty[t] = {} BY DEF OneWriter
<1>2. live = [r \in Row |-> live[r]] BY DEF TypeOK
<1>. QED BY <1>1, <1>2 DEF Commit, Visible

-----------------------------------------------------------------------------
(***************************************************************************)
(* Foreign keys.                                                           *)
(***************************************************************************)

\* Every row that references one below r is below r.
LEMMA BelowClosed ==
  ASSUME NEW r \in Row, NEW p \in Below(r), NEW k \in Row, p \in References[k]
  PROVE  k \in Below(r)
<1>. SUFFICES ASSUME NEW S \in SUBSET Row, r \in S, CascadesInto(S) PROVE k \in S
  BY DEF Below
<1>1. p \in S BY DEF Below
<1>. QED BY <1>1 DEF CascadesInto

\* A statement that leaves a row alive whose parents are keeps the references.
LEMMA WriteAliveKeeps ==
  ASSUME TypeOK, ReferencesKept, NEW t \in Txn, NEW r \in Row, NEW row, NEW tombstone, NEW k,
         WriteRow(t, r, row, tombstone, k), live' = live, row.alive, ParentsAlive(t, r),
         phase[t] # "cascading", phase'[t] # "cascading",
         \A u \in Txn : u # t => phase'[u] = phase[u], todo' = todo
  PROVE  ReferencesKept'
<1>1. /\ Visible(t, r)' = row
      /\ \A q \in Row : q # r => Visible(t, q)' = Visible(t, q)
      /\ \A u \in Txn, q \in Row : u # t => Visible(u, q)' = Visible(u, q)
  BY WriteRowVisible
<1>2. \A q \in Row : References[q] \subseteq Row BY RowAssumption
<1>3. \A q \in Row : ~StillToGo(t, q) /\ ~StillToGo(t, q)' BY DEF StillToGo
<1>4. \A q \in Row : \A p \in References[q] : Visible(t, q)'.alive => Visible(t, p)'.alive
  BY <1>1, <1>2, <1>3 DEF ReferencesKept, ParentsAlive
<1>5. ASSUME NEW u \in Txn, u # t
      PROVE  \A q \in Row : Visible(u, q)' = Visible(u, q) /\ StillToGo(u, q)' = StillToGo(u, q)
  BY <1>1, <1>5 DEF StillToGo
<1>. QED BY <1>2, <1>3, <1>4, <1>5 DEF ReferencesKept

\* A statement that writes nothing and starts no cascade does too.
LEMMA WriteNothingKeeps ==
  ASSUME TypeOK, ReferencesKept, NEW t \in Txn, UNCHANGED <<live, dirty, wlive, todo>>,
         phase[t] # "cascading", phase'[t] # "cascading",
         \A u \in Txn : u # t => phase'[u] = phase[u]
  PROVE  ReferencesKept'
<1>1. \A q \in Row : References[q] \subseteq Row BY RowAssumption
<1>2. \A u \in Txn, q \in Row : StillToGo(u, q)' = StillToGo(u, q) BY DEF StillToGo
<1>. QED BY <1>1, <1>2, VisibleUnchanged DEF ReferencesKept

\* A delete finds all the rows that it has to remove, in whatever order it then
\* removes them.
LEMMA DeleteKeeps ==
  ASSUME TypeOK, ReferencesKept, NEW t \in Txn, RunDelete(t) \/ \E r \in Row : DeleteRow(t, r)
  PROVE  ReferencesKept'
<1>0. \A q \in Row : References[q] \subseteq Row BY RowAssumption
<1>1. CASE RunDelete(t)
  <2>. DEFINE s == stmt[t].row
  <2>0. s \in Row BY <1>1, StmtRow DEF RunDelete, Op
  <2>1. /\ UNCHANGED <<live, dirty, wlive>> /\ phase[t] = "running"
        /\ \A u \in Txn : u # t => phase'[u] = phase[u] /\ todo'[u] = todo[u]
    BY <1>1 DEF RunDelete, NothingWritten, dbVars, Goto, TypeOK
  <2>2. \A u \in Txn, q \in Row : Visible(u, q)' = Visible(u, q) BY <2>1, VisibleUnchanged
  <2>3. \/ phase'[t] = "open"
        \/ todo'[t] = {k \in Below(s) : Visible(t, k).alive}
    BY <1>1 DEF RunDelete, Goto, TypeOK
  <2>4. ASSUME NEW q \in Row, Visible(t, q).alive, NEW p \in References[q], StillToGo(t, p)'
        PROVE  StillToGo(t, q)'
    <3>1. phase'[t] = "cascading" /\ p \in Below(s) BY <2>3, <2>4 DEF StillToGo
    <3>2. q \in Below(s) BY <2>0, <3>1, BelowClosed
    <3>. QED BY <2>3, <2>4, <3>1, <3>2 DEF StillToGo
  <2>5. \A q \in Row : \A p \in References[q] : Visible(t, q).alive => Visible(t, p).alive
    BY <2>1 DEF ReferencesKept, StillToGo
  <2>6. \A u \in Txn, q \in Row : u # t => StillToGo(u, q)' = StillToGo(u, q)
    BY <2>1 DEF StillToGo
  <2>. QED BY <1>0, <2>2, <2>4, <2>5, <2>6 DEF ReferencesKept
<1>2. ASSUME NEW r \in Row, DeleteRow(t, r) PROVE ReferencesKept'
  <2>1. /\ phase[t] = "cascading" /\ r \in todo[t]
        /\ WriteRow(t, r, Nothing, Tombstone(Visible(t, r), Allocated(t, 1)), 1)
        /\ live' = live /\ todo'[t] = todo[t] \ {r}
        /\ phase'[t] = IF todo[t] = {r} THEN "open" ELSE "cascading"
        /\ \A u \in Txn : u # t => phase'[u] = phase[u] /\ todo'[u] = todo[u]
    BY <1>2 DEF DeleteRow, Goto, TypeOK, dbVars
  <2>2. /\ ~Visible(t, r)'.alive
        /\ \A q \in Row : q # r => Visible(t, q)' = Visible(t, q)
        /\ \A u \in Txn, q \in Row : u # t => Visible(u, q)' = Visible(u, q)
    BY <2>1, WriteRowVisible DEF Nothing
  <2>3. /\ StillToGo(t, r)
        /\ \A q \in Row : StillToGo(t, q)' <=> StillToGo(t, q) /\ q # r
    BY <2>1 DEF StillToGo
  <2>4. ASSUME NEW q \in Row, NEW p \in References[q], Visible(t, q)'.alive
        PROVE  /\ Visible(t, p)'.alive \/ StillToGo(t, q)'
               /\ StillToGo(t, p)' => StillToGo(t, q)'
    <3>1. p \in Row /\ q # r /\ Visible(t, q).alive BY <1>0, <2>2, <2>4
    <3>2. /\ Visible(t, p).alive \/ StillToGo(t, q)
          /\ StillToGo(t, p) => StillToGo(t, q)
      BY <3>1 DEF ReferencesKept
    <3>. QED BY <2>2, <2>3, <3>1, <3>2
  <2>5. \A u \in Txn, q \in Row : u # t => StillToGo(u, q)' = StillToGo(u, q)
    BY <2>1 DEF StillToGo
  <2>. QED BY <1>0, <2>2, <2>4, <2>5 DEF ReferencesKept
<1>. QED BY <1>1, <1>2

\* The end of a transaction publishes rows whose parents it publishes too.
LEMMA FinishReferences ==
  ASSUME TypeOK, OneWriter, ChildHasParent, ReferencesKept, NEW t \in Txn, Commit(t) \/ Rollback(t)
  PROVE  ChildHasParent' /\ ReferencesKept'
<1>0. \A q \in Row : References[q] \subseteq Row BY RowAssumption
<1>1. Finish(t) BY DEF Commit, Rollback
<1>2. ChildHasParent'
  <2>1. CASE Commit(t)
    <3>1. /\ \A q \in Row : live'[q] = Visible(t, q)
          /\ \A q \in Row : ~StillToGo(t, q)
      BY <2>1 DEF Commit, StillToGo
    <3>. QED BY <1>0, <3>1 DEF ChildHasParent, ReferencesKept
  <2>2. CASE Rollback(t) BY <2>2 DEF Rollback, dbVars, ChildHasParent
  <2>. QED BY <2>1, <2>2
<1>3. CASE holder = t
  <2>1. \A u \in Txn, q \in Row : Visible(u, q)' = live'[q] BY <1>1, <1>3, FinishVisible
  <2>2. \A u \in Txn, q \in Row : ~StillToGo(u, q)'
    BY <1>1, <1>3, FinishVisible DEF OneWriter, StillToGo
  <2>. QED BY <1>0, <1>2, <2>1, <2>2 DEF ChildHasParent, ReferencesKept
<1>4. CASE holder # t
  <2>1. live' = live BY <1>4, IdleCommit DEF Rollback, dbVars
  <2>2. \A u \in Txn, q \in Row :
          Visible(u, q)' = IF u = t THEN live'[q] ELSE Visible(u, q)
    BY <1>1, <2>1, FinishVisible
  <2>3. \A u \in Txn, q \in Row : StillToGo(u, q)' <=> u # t /\ StillToGo(u, q)
    BY <1>1, FinishVisible DEF StillToGo
  <2>4. \A q \in Row : \A p \in References[q] : Visible(t, q)'.alive => Visible(t, p)'.alive
    BY <1>0, <1>2, <2>2 DEF ChildHasParent
  <2>. QED BY <1>0, <1>2, <2>2, <2>3, <2>4 DEF ReferencesKept
<1>. QED BY <1>2, <1>3, <1>4

LEMMA WriteReferences ==
  ASSUME TypeOK, OneWriter, ChildHasParent, ReferencesKept, NEW t \in Txn, Write(t)
  PROVE  ChildHasParent' /\ ReferencesKept'
<1>. DEFINE s == stmt[t].row
<1>1. ASSUME NEW op, NEW r, NEW base, Issue(t, op, r, base) PROVE ReferencesKept'
  <2>1. /\ UNCHANGED <<live, dirty, wlive, todo>>
        /\ phase[t] # "cascading" /\ phase'[t] # "cascading"
        /\ \A u \in Txn : u # t => phase'[u] = phase[u]
    BY <1>1 DEF Issue, Goto, TypeOK, dbVars
  <2>. QED BY <2>1, WriteNothingKeeps
<1>2. ASSUME LockClock(t) \/ RunInsertFails(t) PROVE ReferencesKept'
  <2>1. /\ UNCHANGED <<live, dirty, wlive, todo>>
        /\ phase[t] # "cascading" /\ phase'[t] # "cascading"
        /\ \A u \in Txn : u # t => phase'[u] = phase[u]
    BY <1>2 DEF LockClock, RunInsertFails, NothingWritten, Goto, TypeOK, dbVars
  <2>. QED BY <2>1, WriteNothingKeeps
<1>3. ASSUME RunUpdate(t), ~CasMatches(t) PROVE ReferencesKept'
  <2>1. /\ UNCHANGED <<live, dirty, wlive, todo>>
        /\ phase[t] # "cascading" /\ phase'[t] # "cascading"
        /\ \A u \in Txn : u # t => phase'[u] = phase[u]
    BY <1>3 DEF RunUpdate, NothingWritten, Goto, TypeOK, dbVars
  <2>. QED BY <2>1, WriteNothingKeeps
<1>4. ASSUME RunInsert(t) PROVE ReferencesKept'
  <2>1. s \in Row BY <1>4, StmtRow DEF RunInsert, Op
  <2>2. Inserted(Allocated(t, 1)).alive BY DEF Inserted
  <2>. QED BY <1>4, <2>1, <2>2, WriteAliveKeeps DEF RunInsert, Goto, TypeOK, dbVars
<1>5. ASSUME RunUpsert(t) PROVE ReferencesKept'
  <2>1. s \in Row /\ ParentsAlive(t, s)
    BY <1>5, StmtRow DEF RunUpsert, Op, ParentsAlive, ReferencesKept, StillToGo
  <2>2. Updated(Visible(t, s), Allocated(t, 2)).alive BY DEF Updated
  <2>3. /\ phase[t] = "running" /\ phase'[t] = "open"
        /\ \A u \in Txn : u # t => phase'[u] = phase[u]
    BY <1>5 DEF RunUpsert, Goto, TypeOK
  <2>. QED BY <1>5, <2>1, <2>2, <2>3, WriteAliveKeeps DEF RunUpsert, dbVars
<1>6. ASSUME RunUpdate(t), CasMatches(t) PROVE ReferencesKept'
  <2>1. s \in Row /\ ParentsAlive(t, s)
    BY <1>6, StmtRow DEF RunUpdate, CasMatches, Op, ParentsAlive, ReferencesKept, StillToGo
  <2>2. Updated(Visible(t, s), Allocated(t, 1)).alive BY DEF Updated
  <2>3. /\ phase[t] = "running" /\ phase'[t] = "open"
        /\ \A u \in Txn : u # t => phase'[u] = phase[u]
    BY <1>6 DEF RunUpdate, Goto, TypeOK
  <2>. QED BY <1>6, <2>1, <2>2, <2>3, WriteAliveKeeps DEF RunUpdate, dbVars
<1>7. CASE Commit(t) \/ Rollback(t) BY <1>7, FinishReferences
<1>8. ASSUME NEW r \in Row, NEW c \in Client, IssueEdit(t, c, r)
      PROVE  ReferencesKept'
  BY <1>1, <1>8 DEF IssueEdit
<1>9. ASSUME ~(Commit(t) \/ Rollback(t)) PROVE ChildHasParent' /\ ReferencesKept'
  <2>1. live' = live
    BY <1>9 DEF Write, Issue, IssueEdit, LockClock, RunInsert, RunUpsert, RunInsertFails, RunUpdate,
                RunDelete, DeleteRow, dbVars
  <2>2. ChildHasParent' BY <2>1 DEF ChildHasParent
  <2>3. CASE RunUpdate(t) BY <2>2, <2>3, <1>6, <1>3
  <2>. QED BY <2>2, <2>3, <1>1, <1>4, <1>5, <1>8, <1>9, <1>2, DeleteKeeps DEF Write
<1>. QED BY <1>7, <1>9

LEMMA NextReferences == ReferencesInv /\ [Next]_vars => ReferencesInv'
<1>. SUFFICES ASSUME IInv, ChildHasParent, ReferencesKept, [Next]_vars
              PROVE  ChildHasParent' /\ ReferencesKept'
  BY NextIInv DEF ReferencesInv
<1>1. ASSUME NEW t \in Txn, Write(t) PROVE ChildHasParent' /\ ReferencesKept'
  BY <1>1, WriteReferences DEF IInv
<1>2. ASSUME UNCHANGED <<dbVars, txnVars>> PROVE ChildHasParent' /\ ReferencesKept'
  BY <1>2 DEF dbVars, txnVars, ChildHasParent, ReferencesKept, Visible, StillToGo
<1>3. ASSUME NEW c \in Client, CatchUp(c) PROVE UNCHANGED <<dbVars, txnVars>>
  BY <1>3 DEF CatchUp, FetchPage, ApplyPage, DropPage
<1>. QED BY <1>1, <1>2, <1>3 DEF Next, vars, dbVars, txnVars

LEMMA ReferencesInvariant == Spec => []ReferencesInv
<1>1. Init => ReferencesInv
  <2>1. Init => ChildHasParent /\ ReferencesKept
    BY DEF Init, ChildHasParent, ReferencesKept, Visible, Nothing, StillToGo
  <2>. QED BY <2>1, InitType, InitSettled, IInvSplit DEF ReferencesInv
<1>. QED BY <1>1, NextReferences, PTL DEF Spec

\* No client keeps an orphan, whatever graph the foreign keys form, in whatever order
\* cascades record their tombstones and wherever pages end: once nothing is to come
\* of either row, the client holds the row only if it holds the one it references.
THEOREM NoOrphanLasts == Spec => []NoLastingOrphan
<1>1. ReferencesInv => NoLastingOrphan
  <2>. SUFFICES ASSUME ReferencesInv, NEW c \in Client, NEW r \in Row, NEW p \in References[r],
                       replica[c][r].alive, ~replica[c][p].alive,
                       ~(Latest(r).seq > cursor[c]), ~(Latest(p).seq > cursor[c])
                PROVE  FALSE
    BY DEF NoLastingOrphan
  <2>. USE DEF ReferencesInv, IInv
  <2>1. p \in Row BY RowAssumption
  <2>2. Latest(r).seq \in Nat /\ Latest(p).seq \in Nat /\ cursor[c] \in Nat
    BY <2>1 DEF Latest, TypeOK, Change
  <2>3. replica[c][r] = Latest(r) /\ replica[c][p] = Latest(p) BY <2>1, <2>2 DEF NoSkip
  <2>4. live[r].alive BY <2>3 DEF Latest, RowsWellFormed, WellFormed
  <2>5. live[p].alive BY <2>1, <2>4 DEF ChildHasParent
  <2>. QED BY <2>3, <2>5 DEF Latest
<1>. QED BY <1>1, ReferencesInvariant, PTL

-----------------------------------------------------------------------------
(***************************************************************************)
(* Lives and versions.                                                     *)
(***************************************************************************)

\* Steps that leave the rows and every overlay alone keep the order of lives.
LEMMA LivesUnchanged ==
  ASSUME TypeOK, LivesInOrder, UNCHANGED <<clock, live, dirty, wlive>>,
         \A u \in Txn : dirty[u] # {} => wclock'[u] = wclock[u]
  PROVE  LivesInOrder'
BY DEF LivesInOrder

\* Steps of a transaction that commits nothing keep what clients and edits hold.
LEMMA CopiesUnchanged ==
  ASSUME CopiesAreTrue, UNCHANGED <<clock, live, replica, page>>,
         \A u \in Txn : stmt'[u] = stmt[u] \/ stmt'[u].op # "update"
  PROVE  CopiesAreTrue'
BY DEF CopiesAreTrue, IsCopy

\* The row that a statement writes in place of r continues the life it had, or
\* begins one above the committed clock.
Continues(r, row, n) ==
  row.alive =>
    /\ row.created <= n
    /\ clock < row.created \/ (live[r].alive /\ live[r].created = row.created
                                /\ live[r].version < row.version)

LEMMA WriteRowLives ==
  ASSUME TypeOK, OneWriter, LivesInOrder, NEW t \in Txn, NEW r \in Row, NEW row \in Change,
         NEW tombstone, NEW k \in Nat, WriteRow(t, r, row, tombstone, k),
         Continues(r, row, wclock[t] + k), UNCHANGED <<clock, live>>, holder = t
  PROVE  LivesInOrder'
<1>1. /\ dirty'[t] = dirty[t] \cup {r} /\ wclock'[t] = wclock[t] + k
      /\ wlive'[t][r] = row /\ \A q \in Row : q # r => wlive'[t][q] = wlive[t][q]
      /\ \A u \in Txn : u # t => dirty'[u] = {}
      /\ dirty[t] \subseteq Row /\ wclock[t] \in Nat
      /\ \A q \in Row : wlive[t][q].created \in Nat
  BY DEF TypeOK, WriteRow, Allocated, OneWriter, Change
<1>2. ASSUME NEW q \in dirty'[t], wlive'[t][q].alive
      PROVE  /\ wlive'[t][q].created <= wclock'[t]
             /\ clock < wlive'[t][q].created \/
                  (live[q].alive /\ live[q].created = wlive'[t][q].created
                     /\ live[q].version < wlive'[t][q].version)
  <2>1. CASE q = r BY <1>1, <1>2, <2>1 DEF Continues
  <2>2. CASE q # r
    <3>1. q \in dirty[t] /\ q \in Row /\ wlive'[t][q] = wlive[t][q] BY <1>1, <2>2
    <3>2. wlive[t][q].created <= wclock[t] BY <1>2, <3>1 DEF LivesInOrder
    <3>3. wlive'[t][q].created <= wclock'[t] BY <1>1, <3>1, <3>2
    <3>. QED BY <1>2, <3>1, <3>3 DEF LivesInOrder
  <2>. QED BY <2>1, <2>2
<1>. QED BY <1>1, <1>2 DEF LivesInOrder

\* An update of the row that the transaction sees continues its life.
LEMMA UpdatedContinues ==
  ASSUME TypeOK, OneWriter, LivesInOrder, NEW t \in Txn, NEW r \in Row, holder = t,
         NEW k \in Nat, Visible(t, r).alive
  PROVE  Continues(r, Updated(Visible(t, r), Allocated(t, k)), wclock[t] + k)
<1>. DEFINE old == Visible(t, r)
<1>1. /\ clock \in Nat /\ wclock[t] \in Nat /\ clock <= wclock[t]
      /\ old.created \in Nat /\ old.version \in Nat /\ live[r].version \in Nat
      /\ live[r].created \in Nat
  BY VisibleTypes DEF TypeOK, OneWriter, Change
<1>2. /\ Updated(old, Allocated(t, k)).created = old.created
      /\ Updated(old, Allocated(t, k)).version = old.version + 1
  BY DEF Updated
<1>3. CASE r \in dirty[t]
  <2>1. /\ old.created <= wclock[t]
        /\ clock < old.created \/ (live[r].alive /\ live[r].created = old.created
                                    /\ live[r].version < old.version)
    BY <1>3 DEF LivesInOrder, Visible
  <2>. QED BY <1>1, <1>2, <2>1 DEF Continues
<1>4. CASE r \notin dirty[t]
  <2>1. old = live[r] /\ (live[r].alive => live[r].created <= clock)
    BY <1>4 DEF Visible, LivesInOrder
  <2>. QED BY <1>1, <1>2, <2>1 DEF Continues
<1>. QED BY <1>3, <1>4

\* A step inside a transaction keeps the order of lives.
LEMMA StatementLives ==
  ASSUME TypeOK, OneWriter, LivesInOrder, NEW t \in Txn, Write(t), ~Commit(t), ~Rollback(t)
  PROVE  LivesInOrder'
<1>. DEFINE s == stmt[t].row
<1>1. ASSUME UNCHANGED <<clock, live, dirty, wlive, wclock>> PROVE LivesInOrder'
  BY <1>1, LivesUnchanged
<1>2. ASSUME NEW op, NEW r, NEW base, Issue(t, op, r, base) PROVE LivesInOrder'
  BY <1>1, <1>2 DEF Issue, dbVars
<1>3. ASSUME NEW r, NEW c, IssueEdit(t, c, r) PROVE LivesInOrder'
  BY <1>2, <1>3 DEF IssueEdit
<1>4. CASE LockClock(t)
  <2>1. \A u \in Txn : dirty[u] # {} => wclock'[u] = wclock[u]
    BY <1>4, TxnAssumption DEF LockClock, ClockFree, OneWriter, TypeOK
  <2>. QED BY <1>4, <2>1, LivesUnchanged DEF LockClock, dbVars
<1>5. CASE RunInsert(t)
  <2>1. s \in Row /\ wclock[t] + 1 \in Nat /\ holder = t /\ clock \in Nat
        /\ clock <= wclock[t] /\ wclock[t] \in Nat
    BY <1>5, StmtRow DEF RunInsert, Op, OneWriter, TypeOK
  <2>2. Inserted(Allocated(t, 1)) \in Change BY <2>1, ChangeTypes DEF Allocated
  <2>3. Continues(s, Inserted(Allocated(t, 1)), wclock[t] + 1)
    BY <2>1 DEF Continues, Inserted, Allocated
  <2>. QED BY <1>5, <2>1, <2>2, <2>3, WriteRowLives DEF RunInsert, dbVars
<1>6. CASE RunUpsert(t)
  <2>1. s \in Row /\ wclock[t] + 2 \in Nat /\ holder = t /\ Visible(t, s).alive
    BY <1>6, StmtRow DEF RunUpsert, Op, OneWriter, TypeOK
  <2>2. Updated(Visible(t, s), Allocated(t, 2)) \in Change
    BY <2>1, ChangeTypes, VisibleTypes DEF Allocated
  <2>3. Continues(s, Updated(Visible(t, s), Allocated(t, 2)), wclock[t] + 2)
    BY <2>1, UpdatedContinues
  <2>. QED BY <1>6, <2>1, <2>2, <2>3, WriteRowLives DEF RunUpsert, dbVars
<1>7. CASE RunInsertFails(t)
  BY <1>1, <1>7 DEF RunInsertFails, NothingWritten, dbVars
<1>8. CASE RunUpdate(t)
  <2>1. CASE CasMatches(t)
    <3>1. s \in Row /\ wclock[t] + 1 \in Nat /\ holder = t /\ Visible(t, s).alive
      BY <1>8, <2>1, StmtRow DEF RunUpdate, CasMatches, Op, OneWriter, TypeOK
    <3>2. Updated(Visible(t, s), Allocated(t, 1)) \in Change
      BY <3>1, ChangeTypes, VisibleTypes DEF Allocated
    <3>3. Continues(s, Updated(Visible(t, s), Allocated(t, 1)), wclock[t] + 1)
      BY <3>1, UpdatedContinues
    <3>. QED BY <1>8, <2>1, <3>1, <3>2, <3>3, WriteRowLives DEF RunUpdate, dbVars
  <2>2. CASE ~CasMatches(t)
    BY <1>1, <1>8, <2>2 DEF RunUpdate, NothingWritten, dbVars
  <2>. QED BY <2>1, <2>2
<1>9. CASE RunDelete(t)
  BY <1>1, <1>9 DEF RunDelete, NothingWritten, dbVars
<1>10. ASSUME NEW r \in Row, DeleteRow(t, r) PROVE LivesInOrder'
  <2>1. holder = t BY <1>10 DEF DeleteRow, OneWriter
  <2>2. Continues(r, Nothing, wclock[t] + 1) BY DEF Continues, Nothing
  <2>. QED BY <1>10, <2>1, <2>2, ChangeTypes, WriteRowLives DEF DeleteRow, dbVars
<1>. QED
  BY <1>2, <1>3, <1>4, <1>5, <1>6, <1>7, <1>8, <1>9, <1>10 DEF Write

\* An edit is sent from a copy of the row, and a statement keeps what it was sent with.
LEMMA StatementCopies ==
  ASSUME TypeOK, Settled, Unsettled, CopiesAreTrue,
         NEW t \in Txn, Write(t), ~Commit(t), ~Rollback(t)
  PROVE  CopiesAreTrue'
<1>1. UNCHANGED <<clock, live, replica, page>>
  BY StatementKeeps DEF dbVars, clientVars
<1>2. ASSUME NEW r \in Row, NEW c \in Client, IssueEdit(t, c, r) PROVE CopiesAreTrue'
  <2>1. /\ stmt'[t].op = "update" /\ stmt'[t].row = r /\ stmt'[t].base = replica[c][r]
        /\ \A u \in Txn : u # t => stmt'[u] = stmt[u]
        /\ replica[c][r].alive
    BY <1>2 DEF IssueEdit, Issue, TypeOK
  <2>2. IsCopy(replica[c][r], live[r]) BY DEF CopiesAreTrue
  <2>. QED BY <1>1, <2>1, <2>2 DEF CopiesAreTrue, IsCopy
<1>3. ASSUME NEW op \in {"insert", "upsert", "delete"}, NEW r \in Row, Issue(t, op, r, Nothing)
      PROVE  CopiesAreTrue'
  <2>1. \A u \in Txn : stmt'[u] = stmt[u] \/ stmt'[u].op # "update"
    BY <1>3 DEF Issue, TypeOK
  <2>. QED BY <1>1, <2>1, CopiesUnchanged
<1>4. ASSUME stmt' = stmt PROVE CopiesAreTrue' BY <1>1, <1>4, CopiesUnchanged
<1>. QED
  BY <1>2, <1>3, <1>4 DEF Write, LockClock, RunInsert, RunUpsert, RunInsertFails, RunUpdate,
                          RunDelete, DeleteRow

\* A commit adds to the life of a row, or begins one that no copy is of.
LEMMA CommitLive ==
  ASSUME TypeOK, OneWriter, LivesInOrder, NEW t \in Txn, Commit(t), NEW r \in Row, live'[r].alive
  PROVE  /\ live'[r].created <= clock'
         /\ \/ live'[r] = live[r]
            \/ clock < live'[r].created
            \/ /\ live[r].alive /\ live[r].created = live'[r].created
               /\ live[r].version < live'[r].version
<1>1. live'[r] = Visible(t, r) BY DEF Commit
<1>2. /\ clock \in Nat /\ wclock[t] \in Nat /\ live[r].created \in Nat
      /\ (live[r].alive => live[r].created <= clock)
      /\ (holder = t => clock <= wclock[t] /\ clock' = wclock[t])
      /\ (holder # t => clock' = clock)
  BY DEF TypeOK, Change, OneWriter, LivesInOrder, Commit
<1>3. CASE r \in dirty[t]
  <2>1. holder = t BY <1>3 DEF OneWriter
  <2>2. live'[r] = wlive[t][r] BY <1>1, <1>3 DEF Visible
  <2>. QED BY <1>2, <1>3, <2>1, <2>2 DEF LivesInOrder
<1>4. CASE r \notin dirty[t]
  <2>1. live'[r] = live[r] BY <1>1, <1>4 DEF Visible
  <2>. QED BY <1>2, <2>1
<1>. QED BY <1>3, <1>4

\* The end of a transaction keeps both.
LEMMA FinishLives ==
  ASSUME TypeOK, OneWriter, LivesInOrder, CopiesAreTrue, NEW t \in Txn, Commit(t) \/ Rollback(t)
  PROVE  LivesInOrder' /\ CopiesAreTrue'
<1>0. /\ Finish(t) /\ clock \in Nat /\ clock' \in Nat /\ clock <= clock'
      /\ \A r \in Row : live[r].created \in Nat /\ live[r].version \in Nat
  BY DEF Commit, Rollback, TypeOK, OneWriter, Change, dbVars
<1>1. ASSUME NEW r \in Row, live'[r].alive
      PROVE  /\ live'[r].created <= clock'
             /\ \/ live'[r] = live[r]
                \/ clock < live'[r].created
                \/ /\ live[r].alive /\ live[r].created = live'[r].created
                   /\ live[r].version < live'[r].version
  <2>1. CASE Rollback(t) BY <1>0, <1>1, <2>1 DEF Rollback, dbVars, LivesInOrder
  <2>2. CASE Commit(t) BY <1>1, <2>2, CommitLive
  <2>. QED BY <2>1, <2>2
<1>2. /\ \A u \in Txn : dirty'[u] # {} =>
           /\ u # t /\ holder # t /\ dirty'[u] = dirty[u]
           /\ wlive'[u] = wlive[u] /\ wclock'[u] = wclock[u]
      /\ \A u \in Txn : stmt'[u].op = "update" => stmt'[u] = stmt[u]
      /\ UNCHANGED <<replica, page>>
  BY <1>0 DEF Finish, TypeOK, OneWriter, NoStmt, clientVars
<1>3. holder # t => live' = live /\ clock' = clock
  BY IdleCommit DEF Rollback, dbVars
<1>4. LivesInOrder' BY <1>1, <1>2, <1>3 DEF LivesInOrder
<1>5. ASSUME NEW copy \in Change, NEW r \in Row, IsCopy(copy, live[r])
      PROVE  copy.alive =>
               /\ copy.created <= clock'
               /\ live'[r].alive /\ live'[r].created = copy.created
                    => copy = live'[r] \/ copy.version < live'[r].version
  <2>. SUFFICES ASSUME copy.alive
                PROVE  /\ copy.created <= clock'
                       /\ live'[r].alive /\ live'[r].created = copy.created
                            => copy = live'[r] \/ copy.version < live'[r].version
    OBVIOUS
  <2>1. /\ copy.created \in Nat /\ copy.version \in Nat /\ copy.created <= clock
        /\ live[r].alive /\ live[r].created = copy.created
             => copy = live[r] \/ copy.version < live[r].version
    BY <1>5 DEF IsCopy, Change
  <2>2. live[r].version \in Nat BY <1>0
  <2>3. ASSUME live'[r].alive, live'[r].created = copy.created
        PROVE  copy = live'[r] \/ copy.version < live'[r].version
    <3>1. live'[r].version \in Nat BY WriteType DEF Write, TypeOK, Change
    <3>2. ~(clock < live'[r].created) BY <1>0, <2>1, <2>3
    <3>. QED BY <1>1, <2>1, <2>2, <2>3, <3>1, <3>2
  <2>. QED BY <1>0, <2>1, <2>3
<1>6. /\ \A c \in Client, r \in Row : replica[c][r] \in Change /\ page[c][r] \in Change
      /\ \A u \in Txn : stmt[u].op = "update" =>
           stmt[u].base \in Change /\ stmt[u].row \in Row
  BY StmtRow DEF TypeOK, Stmt, Op
<1>7. CopiesAreTrue'
  <2>1. ASSUME NEW c \in Client, NEW r \in Row
        PROVE  IsCopy(replica[c][r], live[r])' /\ IsCopy(page[c][r], live[r])'
    BY <1>2, <1>5, <1>6 DEF CopiesAreTrue, IsCopy
  <2>2. ASSUME NEW u \in Txn, stmt'[u].op = "update"
        PROVE  stmt'[u].base.alive /\ IsCopy(stmt[u].base, live[stmt[u].row])'
    <3>1. stmt'[u] = stmt[u] BY <1>2, <2>2
    <3>. QED BY <2>2, <3>1, <1>5, <1>6 DEF CopiesAreTrue, IsCopy
  <2>. QED BY <2>1, <2>2 DEF CopiesAreTrue
<1>. QED BY <1>4, <1>7

\* Clients copy committed rows.
LEMMA CatchUpCopies ==
  ASSUME TypeOK, RowsWellFormed, LivesInOrder, CopiesAreTrue, NEW c \in Client, CatchUp(c)
  PROVE  CopiesAreTrue'
<1>0. UNCHANGED <<clock, live, stmt>> /\ clock \in Nat
  BY DEF CatchUp, FetchPage, ApplyPage, DropPage, dbVars, txnVars, TypeOK
<1>1. ASSUME \A d \in Client, r \in Row :
               IsCopy(replica[d][r]', live[r]) /\ IsCopy(page[d][r]', live[r])
      PROVE  CopiesAreTrue'
  BY <1>0, <1>1 DEF CopiesAreTrue, IsCopy
<1>2. \A r \in Row : IsCopy(Nothing, live[r]) BY DEF IsCopy, Nothing
<1>3. CASE FetchPage(c)
  <2>1. PICK last \in Newer(cursor[c]) :
          page' = [page EXCEPT ![c] = [r \in Row |-> InPage(r, cursor[c], last)]]
    BY <1>3 DEF FetchPage
  <2>2. \A r \in Row : IsCopy(InPage(r, cursor[c], last), live[r])
    BY <1>2 DEF InPage, IsCopy, LivesInOrder, RowsWellFormed, WellFormed
  <2>. QED BY <1>1, <1>3, <2>1, <2>2 DEF FetchPage, CopiesAreTrue, TypeOK
<1>4. CASE ApplyPage(c)
  BY <1>1, <1>2, <1>4 DEF ApplyPage, CopiesAreTrue, TypeOK
<1>5. CASE DropPage(c)
  BY <1>1, <1>2, <1>5 DEF DropPage, CopiesAreTrue, TypeOK
<1>. QED BY <1>3, <1>4, <1>5 DEF CatchUp

LEMMA NextLives == LivesInv /\ [Next]_vars => LivesInv'
<1>. SUFFICES ASSUME IInv, LivesInOrder, CopiesAreTrue, [Next]_vars
              PROVE  LivesInOrder' /\ CopiesAreTrue'
  BY NextIInv DEF LivesInv
<1>. USE IInvSplit DEF IInv
<1>1. ASSUME NEW t \in Txn, Write(t) PROVE LivesInOrder' /\ CopiesAreTrue'
  <2>1. CASE Commit(t) \/ Rollback(t) BY <2>1, FinishLives
  <2>2. CASE ~(Commit(t) \/ Rollback(t)) BY <1>1, <2>2, StatementLives, StatementCopies
  <2>. QED BY <2>1, <2>2
<1>2. ASSUME UNCHANGED <<dbVars, txnVars>> PROVE LivesInOrder'
  BY <1>2, LivesUnchanged DEF dbVars, txnVars
<1>3. ASSUME NEW c \in Client, CatchUp(c) PROVE LivesInOrder' /\ CopiesAreTrue'
  <2>1. UNCHANGED <<dbVars, txnVars>>
    BY <1>3 DEF CatchUp, FetchPage, ApplyPage, DropPage
  <2>. QED BY <1>2, <1>3, <2>1, CatchUpCopies
<1>4. CASE UNCHANGED vars
  <2>1. CopiesAreTrue' BY <1>4, CopiesUnchanged DEF vars
  <2>. QED BY <1>2, <1>4, <2>1 DEF vars, dbVars, txnVars
<1>. QED BY <1>1, <1>3, <1>4 DEF Next

\* The statement of an edit that goes through sees the row its author saw: within
\* the life of the row, equal versions are equal rows.
LEMMA EditSeesItsBase ==
  ASSUME TypeOK, OneWriter, LivesInOrder, CopiesAreTrue, NEW t \in Txn, phase[t] = "running",
         stmt[t].op = "update", CasMatches(t),
         Visible(t, stmt[t].row).created = stmt[t].base.created
  PROVE  Visible(t, stmt[t].row) = stmt[t].base
<1>. DEFINE r == stmt[t].row
            now == Visible(t, r)
            base == stmt[t].base
<1>1. r \in Row /\ base \in Change BY StmtRow DEF Op, Stmt
<1>2. /\ clock \in Nat /\ wclock[t] \in Nat /\ clock <= wclock[t]
      /\ live[r].version \in Nat /\ now \in Change
      /\ base.created \in Nat /\ base.version \in Nat
  BY <1>1, VisibleTypes DEF TypeOK, OneWriter, Change
<1>3. now.alive /\ now.version = base.version BY DEF CasMatches
<1>4. /\ base.alive /\ base.created <= clock
      /\ live[r].alive /\ live[r].created = base.created
           => base = live[r] \/ base.version < live[r].version
  BY DEF CopiesAreTrue, IsCopy
<1>5. CASE r \in dirty[t]
  <2>1. now = wlive[t][r] BY <1>5 DEF Visible
  <2>2. clock < now.created \/ (live[r].alive /\ live[r].created = now.created
                                 /\ live[r].version < now.version)
    BY <1>3, <1>5, <2>1 DEF LivesInOrder
  <2>. QED BY <1>2, <1>3, <1>4, <2>2
<1>6. CASE r \notin dirty[t]
  <2>1. now = live[r] BY <1>6 DEF Visible
  <2>. QED BY <1>2, <1>3, <1>4, <2>1
<1>. QED BY <1>5, <1>6

\* Within the life of a row a commit that changes it raises its version, and the
\* CAS of an edit never overwrites a change its author has not seen.
THEOREM NoUpdateIsLost == Spec => NoLostUpdate
<1>1. Init => LivesInv
  <2>1. Init => LivesInOrder /\ CopiesAreTrue
    BY DEF Init, LivesInOrder, CopiesAreTrue, IsCopy, NoStmt, Nothing
  <2>. QED BY <2>1, InitType, InitSettled, IInvSplit DEF LivesInv
<1>2. ASSUME LivesInv, [Next]_vars
      PROVE  \A r \in Row :
               live[r].alive /\ live'[r].alive /\ live'[r].created = live[r].created
                 => live'[r] = live[r] \/ live'[r].version > live[r].version
  <2>. USE <1>2, IInvSplit DEF LivesInv, IInv
  <2>. SUFFICES ASSUME NEW r \in Row, live[r].alive, live'[r].alive,
                       live'[r].created = live[r].created
                PROVE  live'[r] = live[r] \/ live'[r].version > live[r].version
    OBVIOUS
  <2>1. ASSUME NEW t \in Txn, Write(t) PROVE live'[r] = live[r] \/ live'[r].version > live[r].version
    <3>1. CASE Commit(t)
      <4>1. /\ clock \in Nat /\ live[r].created \in Nat /\ live[r].created <= clock
            /\ live[r].version \in Nat
        BY DEF TypeOK, Change, LivesInOrder
      <4>2. live'[r].version \in Nat BY <2>1, WriteType DEF TypeOK, Change
      <4>. QED BY <3>1, <4>1, <4>2, CommitLive
    <3>2. CASE Rollback(t) BY <3>2 DEF Rollback, dbVars
    <3>3. CASE ~Commit(t) /\ ~Rollback(t) BY <2>1, <3>3, StatementKeeps DEF dbVars
    <3>. QED BY <3>1, <3>2, <3>3
  <2>2. ASSUME NEW c \in Client, CatchUp(c) PROVE live' = live
    BY <2>2 DEF CatchUp, FetchPage, ApplyPage, DropPage, dbVars
  <2>3. UNCHANGED vars => live' = live BY DEF vars
  <2>. QED BY <2>1, <2>2, <2>3 DEF Next
<1>3. ASSUME LivesInv, [Next]_vars, NEW t \in Txn, phase[t] = "running",
             stmt[t].op = "update", wclock'[t] > wclock[t]
      PROVE  CasMatches(t)
  <2>. USE <1>3 DEF LivesInv, IInv
  <2>0. wclock[t] \in Nat BY DEF TypeOK
  <2>1. ASSUME NEW u \in Txn, Write(u), u # t PROVE wclock'[t] = wclock[t]
    BY <2>1 DEF Write, Issue, IssueEdit, LockClock, RunInsert, RunUpsert, RunInsertFails,
                RunUpdate, RunDelete, DeleteRow, WriteRow, NothingWritten, Commit, Rollback,
                Finish, TypeOK
  <2>2. CASE Write(t)
    <3>1. RunUpdate(t)
      BY <2>0, <2>2 DEF Write, Issue, IssueEdit, LockClock, RunInsert, RunUpsert, RunInsertFails,
                   RunDelete, DeleteRow, Commit, Rollback, Finish, TypeOK
    <3>. QED BY <2>0, <3>1 DEF RunUpdate, NothingWritten
  <2>3. ASSUME NEW c \in Client, CatchUp(c) PROVE wclock' = wclock
    BY <2>3 DEF CatchUp, FetchPage, ApplyPage, DropPage, txnVars
  <2>4. UNCHANGED vars => wclock' = wclock BY DEF vars
  <2>. QED BY <2>0, <2>1, <2>2, <2>3, <2>4 DEF Next
<1>4. ASSUME LivesInv, [Next]_vars, NEW t \in Txn, phase[t] = "running",
             stmt[t].op = "update", wclock'[t] > wclock[t],
             Visible(t, stmt[t].row).created = stmt[t].base.created
      PROVE  Visible(t, stmt[t].row).seq = stmt[t].base.seq
  BY <1>3, <1>4, EditSeesItsBase DEF LivesInv, IInv
<1>5. LivesInv /\ [Next]_vars =>
        /\ \A r \in Row :
             live[r].alive /\ live'[r].alive /\ live'[r].created = live[r].created
               => live'[r] = live[r] \/ live'[r].version > live[r].version
        /\ \A t \in Txn :
             LET now == Visible(t, stmt[t].row) IN
             phase[t] = "running" /\ stmt[t].op = "update" /\ wclock'[t] > wclock[t]
               /\ now.created = stmt[t].base.created
               => now.seq = stmt[t].base.seq
  BY <1>2, <1>4
<1>. QED BY <1>1, <1>5, NextLives, PTL DEF Spec, NoLostUpdate

-----------------------------------------------------------------------------
(* What a step may publish.                                                *)

\* A step changes what the plane says of a row only in a commit, and then to a
\* change above the committed clock.
LEMMA StepPublishes ==
  ASSUME IInv, [Next]_vars
  PROVE  /\ clock <= clock'
         /\ \A r \in Row : Latest(r)' = Latest(r) \/
              (clock < Latest(r)'.seq /\ Latest(r)'.seq <= clock')
<1>. USE IInvSplit
<1>1. ASSUME UNCHANGED dbVars
      PROVE  clock <= clock' /\ \A r \in Row : Latest(r)' = Latest(r)
  BY <1>1 DEF dbVars, Latest, TypeOK
<1>2. ASSUME NEW t \in Txn, Write(t), ~Commit(t) PROVE UNCHANGED dbVars
  <2>1. CASE Rollback(t) BY <2>1 DEF Rollback
  <2>2. CASE ~Rollback(t) BY <1>2, <2>2, StatementKeeps
  <2>. QED BY <2>1, <2>2
<1>3. ASSUME NEW t \in Txn, Commit(t)
      PROVE  /\ clock <= clock'
             /\ \A r \in Row : Latest(r)' = Latest(r) \/
                  (clock < Latest(r)'.seq /\ Latest(r)'.seq <= clock')
  <2>1. /\ \A r \in Row : r \in dirty[t] => live'[r] = wlive[t][r] /\ tomb'[r] = wtomb[t][r]
        /\ \A r \in Row : r \notin dirty[t] => live'[r] = live[r] /\ tomb'[r] = tomb[r]
    BY <1>3 DEF Commit, Visible, VisibleTomb
  <2>2. /\ clock \in Nat /\ clock' \in Nat /\ clock <= clock'
        /\ dirty[t] # {} => clock' = wclock[t]
    BY <1>3 DEF Commit, IInv, TypeOK, OneWriter
  <2>3. ASSUME NEW r \in Row, r \in dirty[t]
        PROVE  clock < Latest(r)'.seq /\ Latest(r)'.seq <= clock'
    BY <2>1, <2>2, <2>3 DEF IInv, OverlayWellFormed, Latest
  <2>. QED BY <2>1, <2>2, <2>3 DEF Latest
<1>4. ASSUME NEW c \in Client, CatchUp(c) PROVE UNCHANGED dbVars
  BY <1>4 DEF CatchUp, FetchPage, ApplyPage, DropPage
<1>. QED BY <1>1, <1>2, <1>3, <1>4 DEF Next, vars, dbVars

\* Changes become visible in sequence order: what a commit makes visible is newer
\* than everything visible before it.
THEOREM CommitsInOrder == Spec => CommitOrder
<1>1. ASSUME IInv, [Next]_vars
      PROVE  \A r, q \in Row : Latest(r)' # Latest(r) =>
               Latest(r).seq < Latest(r)'.seq /\ Latest(q).seq < Latest(r)'.seq
  <2>0. IInv' BY <1>1, NextIInv
  <2>1. \A r \in Row : Latest(r).seq \in Nat /\ Latest(r).seq <= clock /\ clock \in Nat
    BY <1>1 DEF IInv, TypeOK, Change, ClockBound, Latest
  <2>2. \A r \in Row : Latest(r)'.seq \in Nat
    BY <2>0 DEF IInv, TypeOK, Change, Latest
  <2>. QED BY <1>1, <2>1, <2>2, StepPublishes
<1>. QED BY <1>1, Invariance, PTL DEF Spec, CommitOrder

-----------------------------------------------------------------------------
(* The refinement.                                                         *)

\* The plane starts as the feed does.
LEMMA InitFeed == Init => Feed!Init
BY DEF Init, Feed!Init, Certain, Latest, Nothing

\* A step that publishes nothing and moves no cursor is a stutter of the feed.
LEMMA FeedStutter ==
  ASSUME UNCHANGED <<dbVars, cursor, replica>>
  PROVE  UNCHANGED Feed!vars
BY DEF dbVars, Feed!vars, Certain, Latest

LEMMA CommitFeed ==
  ASSUME IInv, IInv', NEW t \in Txn, Commit(t), [Next]_vars
  PROVE  [Feed!Next]_(Feed!vars)
<1>1. UNCHANGED <<cursor, replica>> BY DEF Commit, Finish, clientVars
<1>2. /\ clock \in Nat /\ clock' \in Nat /\ clock <= clock'
      /\ \A r \in Row : Latest(r)' = Latest(r) \/
           (clock < Latest(r)'.seq /\ Latest(r)'.seq <= clock')
  BY StepPublishes DEF IInv, TypeOK
<1>3. \A c \in Client : cursor[c] \in Nat /\ cursor[c] <= clock
  BY DEF IInv, TypeOK, ClockBound
<1>4. \A r \in Row : Latest(r)'.seq \in Nat
  BY DEF IInv, TypeOK, Change, Latest
<1>5. CASE clock' = clock
  <2>1. \A r \in Row : Latest(r)' = Latest(r) BY <1>2, <1>4, <1>5
  <2>. QED BY <1>1, <1>5, <2>1 DEF Feed!vars, Certain
<1>6. CASE clock < clock'
  <2>1. \A r, q \in Row : r # q /\ Latest(r)' # Latest(r) => Latest(r)'.seq # Latest(q)'.seq
    <3>. SUFFICES ASSUME NEW r \in Row, NEW q \in Row, r # q, Latest(r)' # Latest(r)
                  PROVE  Latest(r)'.seq # Latest(q)'.seq
      OBVIOUS
    <3>1. Latest(r)'.seq > 0 BY <1>2, <1>4
    <3>2. Disjoint(live'[r], tomb'[r], live'[q], tomb'[q])
      BY DEF IInv, RowsWellFormed
    <3>. QED BY <3>1, <3>2 DEF Disjoint, Latest
  <2>2. \A c \in Client, r \in Row :
          Certain(c, r)' = IF Latest(r)' = Latest(r) THEN Certain(c, r) ELSE Unknown
    BY <1>1, <1>2, <1>3, <1>4 DEF Certain
  <2>3. Feed!Publish
    BY <1>1, <1>2, <1>6, <2>1, <2>2 DEF Feed!Publish
  <2>. QED BY <2>3 DEF Feed!Next
<1>. QED BY <1>2, <1>5, <1>6

LEMMA ApplyFeed ==
  ASSUME IInv, IInv', NEW c \in Client, ApplyPage(c)
  PROVE  Feed!Advance(c)
<1>1. /\ pageEnd[c] # 0 /\ UNCHANGED dbVars
      /\ cursor' = [cursor EXCEPT ![c] = pageEnd[c]]
      /\ \A d \in Client : d # c => cursor'[d] = cursor[d] /\ replica'[d] = replica[d]
      /\ cursor'[c] = pageEnd[c]
  BY DEF ApplyPage, IInv, TypeOK
<1>2. cursor[c] < pageEnd[c] /\ pageEnd[c] <= clock
  BY <1>1 DEF IInv, PageFaithful, ClockBound
<1>3. \A r \in Row : Latest(r)' = Latest(r) BY <1>1 DEF dbVars, Latest
<1>4. \A r \in Row : Certain(c, r)' = Feed!Known(cursor'[c], Latest(r))
  BY <1>3 DEF Certain, Feed!Known, IInv, NoSkip
<1>5. \A d \in Client, r \in Row : d # c => Certain(d, r)' = Certain(d, r)
  BY <1>1, <1>3 DEF Certain
<1>. QED BY <1>1, <1>2, <1>3, <1>4, <1>5 DEF Feed!Advance, dbVars

\* Transactions, the clock lock, pages and lost responses together look to a
\* client like SyncFeed: batches published in order, and catch-up that skips
\* nothing.
THEOREM PlaneImplementsFeed == Spec => ImplementsFeed
<1>1. ASSUME IInv, IInv', [Next]_vars PROVE [Feed!Next]_(Feed!vars)
  <2>1. ASSUME NEW t \in Txn, Write(t) PROVE [Feed!Next]_(Feed!vars)
    <3>1. CASE Commit(t) BY <1>1, <3>1, CommitFeed
    <3>2. CASE ~Commit(t)
      <4>1. UNCHANGED <<dbVars, clientVars>>
        <5>1. CASE Rollback(t) BY <5>1 DEF Rollback, Finish
        <5>2. CASE ~Rollback(t) BY <1>1, <2>1, <3>2, <5>2, StatementKeeps, IInvSplit
        <5>. QED BY <5>1, <5>2
      <4>. QED BY <4>1, FeedStutter DEF clientVars
    <3>. QED BY <3>1, <3>2
  <2>2. ASSUME NEW c \in Client, CatchUp(c) PROVE [Feed!Next]_(Feed!vars)
    <3>1. CASE ApplyPage(c) BY <1>1, <3>1, ApplyFeed DEF Feed!Next
    <3>2. CASE FetchPage(c) \/ DropPage(c)
      <4>1. UNCHANGED <<dbVars, cursor, replica>> BY <3>2 DEF FetchPage, DropPage
      <4>. QED BY <4>1, FeedStutter
    <3>. QED BY <2>2, <3>1, <3>2 DEF CatchUp
  <2>3. CASE UNCHANGED vars BY <2>3, FeedStutter DEF vars, dbVars
  <2>. QED BY <1>1, <2>1, <2>2, <2>3 DEF Next
<1>. QED BY <1>1, InitFeed, Invariance, PTL DEF Spec, ImplementsFeed, Feed!Spec
=============================================================================
