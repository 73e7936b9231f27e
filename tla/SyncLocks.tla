------------------------------ MODULE SyncLocks ------------------------------
(***************************************************************************)
(* The row locks that transactions over sql/customer.sql take, and in      *)
(* which order.  The synced tables take the sync_clock row in a BEFORE     *)
(* STATEMENT trigger, users takes it before a DELETE; the other tables do  *)
(* not.  Foreign keys lock the referenced row FOR KEY SHARE, an UPDATE     *)
(* locks FOR NO KEY UPDATE unless it changes a unique column, and that     *)
(* UPDATE and a DELETE lock FOR UPDATE.  The insert of an idempotency key  *)
(* waits for another one of the same key.  Every lock is held to the end.  *)
(* Nothing in the database keeps a transaction to an order of statements.  *)
(***************************************************************************)
EXTENDS Integers, Sequences

CONSTANTS
  Id,        \* ids: an org, its project, a user, his preferences, a key each have one
  Txn,       \* transactions
  Issued,    \* the kinds of statements they issue
  MaxStmts   \* bound: statements of one transaction

KeyShare    == "key share"
NoKeyUpdate == "no key update"
ForUpdate   == "update"
Mode        == {KeyShare, NoKeyUpdate, ForUpdate}

\* PostgreSQL's row-lock conflict table for these three modes.
ModesConflict(m1, m2) ==
  \/ m1 = ForUpdate \/ m2 = ForUpdate
  \/ m1 = NoKeyUpdate /\ m2 = NoKeyUpdate

Table   == {"keys", "clock", "orgs", "projects", "users", "preferences"}
LockRequest == [table : Table, id : Id \cup {"singleton"}, mode : Mode]

Lock(table, id, mode) == [table |-> table, id |-> id, mode |-> mode]

\* lock_sync_clock
Clock == Lock("clock", "singleton", ForUpdate)

Guarded == {"insertProject", "updateProject", "renameOrg", "deleteOrg",
            "insertPreferences", "updatePreferences", "deleteUser"}
Unguarded == {"addMember", "updateUser", "appendAudit"}
Kind == Guarded \cup Unguarded \cup {"claimKey"}

ASSUME LocksAssumption == MaxStmts \in Nat /\ Issued \subseteq Kind

\* What a statement of a synced table locks: the clock, then its rows.
SyncedLocks(kind, x) ==
  CASE kind = "insertProject"     -> <<Clock, Lock("orgs", x, KeyShare)>>
    [] kind = "updateProject"     -> <<Clock, Lock("projects", x, NoKeyUpdate)>>
    [] kind = "renameOrg"         -> <<Clock, Lock("orgs", x, ForUpdate)>>
    [] kind = "deleteOrg"         -> <<Clock, Lock("orgs", x, ForUpdate),
                                       Lock("projects", x, ForUpdate)>>
    [] kind = "insertPreferences" -> <<Clock, Lock("users", x, KeyShare)>>
    [] kind = "updatePreferences" -> <<Clock, Lock("preferences", x, NoKeyUpdate)>>

\* Mutant: users has no guard, and the cascade takes the clock.
DeleteUserLocksUnguarded(x) ==
  <<Lock("users", x, ForUpdate), Clock, Lock("preferences", x, ForUpdate)>>

\* users is not synced; its DELETE cascades into preferences and carries the guard.
DeleteUserLocks(x) ==
  <<Clock, Lock("users", x, ForUpdate), Lock("preferences", x, ForUpdate)>>

\* org_members, audit_log and an UPDATE of users have no guard.
UnguardedLocks(kind, x) ==
  CASE kind = "addMember"   -> <<Lock("orgs", x, KeyShare), Lock("users", x, KeyShare)>>
    [] kind = "updateUser"  -> <<Lock("users", x, NoKeyUpdate)>>
    [] kind = "appendAudit" -> <<Lock("orgs", x, KeyShare), Lock("projects", x, KeyShare),
                                 Lock("users", x, KeyShare)>>

\* The insert into sync_idempotency_keys, which has no guard either.
ClaimLocks(x) == <<Lock("keys", x, ForUpdate)>>

LocksOf(kind, x) ==
  CASE kind = "claimKey"   -> ClaimLocks(x)
    [] kind \in Unguarded  -> UnguardedLocks(kind, x)
    [] kind = "deleteUser" -> DeleteUserLocks(x)
    [] OTHER               -> SyncedLocks(kind, x)

-----------------------------------------------------------------------------

VARIABLES
  held,    \* the locks each transaction holds
  want,    \* the locks its current statement has still to take, in order
  stmts,   \* the statements it has started
  course   \* history: how its statements followed each other

lockVars == <<held, want, stmts, course>>

(***************************************************************************)
(* The order that the writers are told to keep: the claim of the key, in   *)
(* the transaction of the mutation, then a guarded statement before any    *)
(* other that locks rows.  A transaction that does otherwise, if only      *)
(* because it has no guarded statement, has strayed.                       *)
(***************************************************************************)
Course == {"fresh", "claimed", "guarded", "strayed"}

CourseAfter(course0, kind) ==
  CASE course0 = "fresh" /\ kind = "claimKey"                  -> "claimed"
    [] course0 \in {"fresh", "claimed"} /\ kind \in Guarded    -> "guarded"
    [] course0 = "guarded" /\ kind # "claimKey"                -> "guarded"
    [] OTHER                                                   -> "strayed"

LocksTypeOK ==
  /\ held \in [Txn -> SUBSET LockRequest]
  /\ want \in [Txn -> Seq(LockRequest)]
  /\ stmts \in [Txn -> 0..MaxStmts]
  /\ course \in [Txn -> Course]

LocksInit ==
  /\ held = [t \in Txn |-> {}]
  /\ want = [t \in Txn |-> <<>>]
  /\ stmts = [t \in Txn |-> 0]
  /\ course = [t \in Txn |-> "fresh"]

\* Transaction u holds a lock that keeps t from the next lock it wants.
Blocks(u, t) ==
  /\ u # t /\ want[t] # <<>>
  /\ \E l \in held[u] : /\ l.table = Head(want[t]).table
                        /\ l.id = Head(want[t]).id
                        /\ ModesConflict(l.mode, Head(want[t]).mode)

\* Transactions that wait for each other.
Deadlocked(S) == S # {} /\ \A t \in S : \E u \in S : Blocks(u, t)

\* t is on a cycle of such waits.
OnCycle(t) ==
  \E S \in SUBSET Txn :
    t \in S /\ Deadlocked(S) /\ \A u \in S : ~\E R \in SUBSET (S \ {u}) : Deadlocked(R)

Start(t, kind, x) ==
  /\ want[t] = <<>> /\ stmts[t] < MaxStmts
  /\ want' = [want EXCEPT ![t] = LocksOf(kind, x)]
  /\ stmts' = [stmts EXCEPT ![t] = @ + 1]
  /\ course' = [course EXCEPT ![t] = CourseAfter(@, kind)]
  /\ UNCHANGED held

Grant(t) ==
  /\ want[t] # <<>>
  /\ \A u \in Txn : ~Blocks(u, t)
  /\ held' = [held EXCEPT ![t] = @ \cup {Head(want[t])}]
  /\ want' = [want EXCEPT ![t] = Tail(@)]
  /\ UNCHANGED <<stmts, course>>

\* Mutant: the clock is locked for the session, as by pg_advisory_lock.
ReleaseAllButClock(t) ==
  /\ held' = [held EXCEPT ![t] = @ \cap {Clock}]
  /\ want' = [want EXCEPT ![t] = <<>>]
  /\ stmts' = [stmts EXCEPT ![t] = 0]
  /\ course' = [course EXCEPT ![t] = "fresh"]

Release(t) ==
  /\ held' = [held EXCEPT ![t] = {}]
  /\ want' = [want EXCEPT ![t] = <<>>]
  /\ stmts' = [stmts EXCEPT ![t] = 0]
  /\ course' = [course EXCEPT ![t] = "fresh"]

\* COMMIT, once the last statement has all its locks.
CommitTxn(t) == want[t] = <<>> /\ stmts[t] > 0 /\ Release(t)

\* ROLLBACK or the loss of the session, at any time.
RollbackTxn(t) == stmts[t] > 0 /\ Release(t)

\* PostgreSQL finds the deadlock after deadlock_timeout and aborts one of it.
AbortDeadlocked(t) == OnCycle(t) /\ Release(t)

Step(t) ==
  \/ \E kind \in Issued, x \in Id : Start(t, kind, x)
  \/ Grant(t) \/ CommitTxn(t) \/ RollbackTxn(t) \/ AbortDeadlocked(t)

LocksNext == \E t \in Txn : Step(t)

LocksSpec == LocksInit /\ [][LocksNext]_lockVars

\* A foreign-key check shares a row that t waits to have alone: PostgreSQL lets it
\* pass t.
Passed(t) ==
  \E u \in Txn \ {t} :
    /\ Grant(u) /\ want[t] # <<>>
    /\ Head(want[u]).mode = KeyShare /\ Head(want[t]).mode = ForUpdate
    /\ Head(want[u]).table = Head(want[t]).table /\ Head(want[u]).id = Head(want[t]).id

\* Transactions end, a deadlock that lasts is found, a lock that keeps coming free is
\* eventually granted (PostgreSQL queues the waiters of a row lock), and nobody is
\* passed by foreign-key checks for ever.
FairLocksSpec ==
  /\ LocksSpec
  /\ \A t \in Txn :
       /\ WF_lockVars(CommitTxn(t)) /\ SF_lockVars(Grant(t)) /\ WF_lockVars(AbortDeadlocked(t))
       /\ []<>(want[t] = <<>>) \/ <>[][~Passed(t)]_lockVars

-----------------------------------------------------------------------------
(* Properties.                                                             *)

\* Transactions that keep the order never deadlock: of those that wait for each
\* other one has strayed, be it a lone statement that locks rows and never asks for
\* the clock.  In particular no statements of synced tables deadlock, in any order.
OnlyStraysDeadlock ==
  \A S \in SUBSET Txn : Deadlocked(S) => \E t \in S : course[t] = "strayed"

\* Whoever waits for a lock gets it, or gives up, although nobody but the victim of
\* a deadlock is made to.
WaitersServed == \A t \in Txn : want[t] # <<>> ~> want[t] = <<>>

-----------------------------------------------------------------------------
(***************************************************************************)
(* The inductive invariant.                                                *)
(***************************************************************************)

OneHolder ==
  \A t, u \in Txn : Clock \in held[t] /\ Clock \in held[u] => t = u

\* One that keeps the order waits for a key with nothing in hand, waits for the
\* clock with no row in hand, and holds the clock when it waits for or holds a row.
KeepsOrder(t) ==
  /\ course[t] = "fresh" => held[t] = {} /\ want[t] = <<>>
  /\ course[t] = "claimed" =>
       /\ \A l \in held[t] : l.table = "keys"
       /\ want[t] # <<>> => held[t] = {} /\ Len(want[t]) = 1 /\ want[t][1].table = "keys"
  /\ course[t] = "guarded" =>
       /\ \A l \in held[t] : l.table # "keys" => Clock \in held[t]
       /\ \A i \in 1..Len(want[t]) : want[t][i].table # "keys"
       /\ Clock \in held[t] \/ (want[t] # <<>> /\ Head(want[t]) = Clock)

LocksInv == LocksTypeOK /\ OneHolder /\ \A t \in Txn : KeepsOrder(t)
=============================================================================
