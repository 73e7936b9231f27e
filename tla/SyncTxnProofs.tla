---------------------------- MODULE SyncTxnProofs ----------------------------
(***************************************************************************)
(* What one transaction over sql/customer.sql may rely on while others     *)
(* run: that no deadlock is made of transactions that keep the order of    *)
(* statements alone (SyncLocks), and that a request takes effect at most   *)
(* once and is answered truly (SyncIdempotency).                           *)
(*                                                                         *)
(* In SyncIdempotency only Commit, Prune, Mutate and Claim touch what the  *)
(* invariant relates; every other step ends a transaction or moves it      *)
(* without writing, and the frame lemma covers those.                      *)
(***************************************************************************)
EXTENDS SyncLocks, SyncIdempotency, SequenceTheorems, TLAPS

-----------------------------------------------------------------------------
(* The locks.                                                              *)

\* A lock on any table is a request.
LEMMA LockType ==
  ASSUME NEW table \in Table, NEW x \in Id \cup {"singleton"}, NEW mode \in Mode
  PROVE  Lock(table, x, mode) \in LockRequest
  BY DEF Lock, LockRequest

\* Lists of up to three lock requests.
LEMMA LockLists ==
  ASSUME NEW l1 \in LockRequest, NEW l2 \in LockRequest, NEW l3 \in LockRequest
  PROVE  /\ <<l1>> \in Seq(LockRequest) /\ <<l1>> # <<>> /\ Len(<<l1>>) = 1 /\ Head(<<l1>>) = l1
         /\ <<l1, l2>> \in Seq(LockRequest) /\ <<l1, l2>> # <<>> /\ Len(<<l1, l2>>) = 2
         /\ Head(<<l1, l2>>) = l1
         /\ <<l1, l2, l3>> \in Seq(LockRequest) /\ <<l1, l2, l3>> # <<>>
         /\ Len(<<l1, l2, l3>>) = 3 /\ Head(<<l1, l2, l3>>) = l1
  OBVIOUS

\* Where a statement locks rows: tables other than the keys.
RowLock == {l \in LockRequest : l.table # "keys"}

LEMMA RowLockType ==
  ASSUME NEW table \in Table \ {"keys"}, NEW x \in Id \cup {"singleton"}, NEW mode \in Mode
  PROVE  Lock(table, x, mode) \in RowLock
  BY DEF Lock, LockRequest, RowLock

LEMMA ClockIsExclusive ==
  /\ Clock \in RowLock /\ Clock \in LockRequest
  /\ Clock.table = "clock" /\ Clock.mode = ForUpdate
  BY DEF Clock, Lock, LockRequest, RowLock, Table, Mode, ForUpdate

\* A guarded statement asks for the clock first, and never for a key.
LEMMA GuardedLocks ==
  ASSUME NEW kind \in Guarded, NEW x \in Id
  PROVE  /\ LocksOf(kind, x) \in Seq(LockRequest) /\ LocksOf(kind, x) # <<>>
         /\ Head(LocksOf(kind, x)) = Clock
         /\ \A i \in 1..Len(LocksOf(kind, x)) : LocksOf(kind, x)[i].table # "keys"
<1>2. \A table \in Table \ {"keys"}, mode \in Mode : Lock(table, x, mode) \in RowLock
  BY RowLockType
<1>3. kind \notin Unguarded /\ kind # "claimKey"
  BY DEF Guarded, Unguarded
<1>4. \E l1, l2 \in RowLock :
        LocksOf(kind, x) \in {<<Clock, l1>>, <<Clock, l1, l2>>}
  <2>1. CASE kind = "insertProject"
    <3>1. LocksOf(kind, x) = <<Clock, Lock("orgs", x, KeyShare)>>
      BY <1>3, <2>1 DEF LocksOf, SyncedLocks
    <3> QED BY <1>2, <3>1 DEF Table, Mode
  <2>2. CASE kind = "updateProject"
    <3>1. LocksOf(kind, x) = <<Clock, Lock("projects", x, NoKeyUpdate)>>
      BY <1>3, <2>2 DEF LocksOf, SyncedLocks
    <3> QED BY <1>2, <3>1 DEF Table, Mode
  <2>3. CASE kind = "renameOrg"
    <3>1. LocksOf(kind, x) = <<Clock, Lock("orgs", x, ForUpdate)>>
      BY <1>3, <2>3 DEF LocksOf, SyncedLocks
    <3> QED BY <1>2, <3>1 DEF Table, Mode
  <2>4. CASE kind = "deleteOrg"
    <3>1. LocksOf(kind, x) = <<Clock, Lock("orgs", x, ForUpdate), Lock("projects", x, ForUpdate)>>
      BY <1>3, <2>4 DEF LocksOf, SyncedLocks
    <3> QED BY <1>2, <3>1 DEF Table, Mode
  <2>5. CASE kind = "insertPreferences"
    <3>1. LocksOf(kind, x) = <<Clock, Lock("users", x, KeyShare)>>
      BY <1>3, <2>5 DEF LocksOf, SyncedLocks
    <3> QED BY <1>2, <3>1 DEF Table, Mode
  <2>6. CASE kind = "updatePreferences"
    <3>1. LocksOf(kind, x) = <<Clock, Lock("preferences", x, NoKeyUpdate)>>
      BY <1>3, <2>6 DEF LocksOf, SyncedLocks
    <3> QED BY <1>2, <3>1 DEF Table, Mode
  <2>7. CASE kind = "deleteUser"
    <3>1. LocksOf(kind, x) = <<Clock, Lock("users", x, ForUpdate), Lock("preferences", x, ForUpdate)>>
      BY <1>3, <2>7 DEF LocksOf, DeleteUserLocks
    <3> QED BY <1>2, <3>1 DEF Table, Mode
  <2> QED BY <2>1, <2>2, <2>3, <2>4, <2>5, <2>6, <2>7 DEF Guarded
<1>5. PICK l1, l2 \in RowLock :
        LocksOf(kind, x) = <<Clock, l1>> \/ LocksOf(kind, x) = <<Clock, l1, l2>>
  BY <1>4
<1>6. l1 \in LockRequest /\ l2 \in LockRequest
  BY DEF RowLock
<1>7. \A l \in RowLock : l.table # "keys"
  BY DEF RowLock
<1>8. CASE LocksOf(kind, x) = <<Clock, l1>>
  <2>1. <<Clock, l1>>[1] = Clock /\ <<Clock, l1>>[2] = l1
    OBVIOUS
  <2> QED BY <1>6, <1>7, <1>8, <2>1, LockLists, ClockIsExclusive
<1>9. CASE LocksOf(kind, x) = <<Clock, l1, l2>>
  <2>1. <<Clock, l1, l2>>[1] = Clock /\ <<Clock, l1, l2>>[2] = l1 /\ <<Clock, l1, l2>>[3] = l2
    OBVIOUS
  <2> QED BY <1>6, <1>7, <1>9, <2>1, LockLists, ClockIsExclusive
<1> QED BY <1>5, <1>8, <1>9

\* Of the others only the claim asks for a key, and for nothing else.
LEMMA UnguardedOnes ==
  ASSUME NEW kind \in Unguarded, NEW x \in Id
  PROVE  /\ LocksOf(kind, x) \in Seq(LockRequest) /\ LocksOf(kind, x) # <<>>
         /\ \A i \in 1..Len(LocksOf(kind, x)) : LocksOf(kind, x)[i].table # "keys"
<1>1. \A table \in Table \ {"keys"}, mode \in Mode : Lock(table, x, mode) \in RowLock
  BY RowLockType
<1>2. LocksOf(kind, x) = UnguardedLocks(kind, x)
  BY DEF LocksOf, Unguarded
<1>3. \E l1, l2, l3 \in RowLock : LocksOf(kind, x) \in {<<l1>>, <<l1, l2>>, <<l1, l2, l3>>}
  <2>1. CASE kind = "addMember"
    <3>1. LocksOf(kind, x) = <<Lock("orgs", x, KeyShare), Lock("users", x, KeyShare)>>
      BY <1>2, <2>1 DEF UnguardedLocks
    <3> QED BY <1>1, <3>1 DEF Table, Mode
  <2>2. CASE kind = "updateUser"
    <3>1. LocksOf(kind, x) = <<Lock("users", x, NoKeyUpdate)>>
      BY <1>2, <2>2 DEF UnguardedLocks
    <3> QED BY <1>1, <3>1 DEF Table, Mode
  <2>3. CASE kind = "appendAudit"
    <3>1. LocksOf(kind, x) = <<Lock("orgs", x, KeyShare), Lock("projects", x, KeyShare),
                               Lock("users", x, KeyShare)>>
      BY <1>2, <2>3 DEF UnguardedLocks
    <3> QED BY <1>1, <3>1 DEF Table, Mode
  <2> QED BY <2>1, <2>2, <2>3 DEF Unguarded
<1>4. PICK l1, l2, l3 \in RowLock : LocksOf(kind, x) \in {<<l1>>, <<l1, l2>>, <<l1, l2, l3>>}
  BY <1>3
<1>5. /\ l1 \in LockRequest /\ l2 \in LockRequest /\ l3 \in LockRequest
      /\ l1.table # "keys" /\ l2.table # "keys" /\ l3.table # "keys"
  BY DEF RowLock
<1>6. /\ <<l1>>[1] = l1
      /\ <<l1, l2>>[1] = l1 /\ <<l1, l2>>[2] = l2
      /\ <<l1, l2, l3>>[1] = l1 /\ <<l1, l2, l3>>[2] = l2 /\ <<l1, l2, l3>>[3] = l3
  OBVIOUS
<1>7. CASE LocksOf(kind, x) = <<l1>>
  BY <1>5, <1>6, <1>7, LockLists
<1>8. CASE LocksOf(kind, x) = <<l1, l2>>
  BY <1>5, <1>6, <1>8, LockLists
<1>9. CASE LocksOf(kind, x) = <<l1, l2, l3>>
  BY <1>5, <1>6, <1>9, LockLists
<1> QED BY <1>4, <1>7, <1>8, <1>9

LEMMA ClaimLock ==
  ASSUME NEW x \in Id
  PROVE  /\ LocksOf("claimKey", x) \in Seq(LockRequest) /\ LocksOf("claimKey", x) # <<>>
         /\ Len(LocksOf("claimKey", x)) = 1 /\ LocksOf("claimKey", x)[1].table = "keys"
<1>1. LocksOf("claimKey", x) = <<Lock("keys", x, ForUpdate)>>
  BY DEF LocksOf, ClaimLocks, Unguarded
<1>2. Lock("keys", x, ForUpdate) \in LockRequest /\ Lock("keys", x, ForUpdate).table = "keys"
  BY DEF Lock, LockRequest, Table, Mode
<1>3. <<Lock("keys", x, ForUpdate)>>[1] = Lock("keys", x, ForUpdate)
  OBVIOUS
<1> QED BY <1>1, <1>2, <1>3, LockLists

LEMMA LocksOfType ==
  ASSUME NEW kind \in Kind, NEW x \in Id
  PROVE  LocksOf(kind, x) \in Seq(LockRequest) /\ LocksOf(kind, x) # <<>>
  BY GuardedLocks, UnguardedOnes, ClaimLock DEF Kind

LEMMA InitLocks == LocksInit => LocksInv
  BY LocksAssumption DEF LocksInit, LocksInv, LocksTypeOK, OneHolder, KeepsOrder, Course

\* A statement that starts keeps the order, or its transaction strays.
LEMMA StartKeeps ==
  ASSUME LocksInv, NEW t \in Txn, NEW kind \in Kind, NEW x \in Id, Start(t, kind, x)
  PROVE  LocksInv'
<1> USE LocksAssumption
<1>1. LocksOf(kind, x) \in Seq(LockRequest) /\ LocksOf(kind, x) # <<>>
  BY LocksOfType
<1>2. CourseAfter(course[t], kind) \in Course
  BY DEF CourseAfter, Course
<1>3. LocksTypeOK'
  BY <1>1, <1>2 DEF Start, LocksInv, LocksTypeOK
<1>4. OneHolder'
  BY DEF Start, LocksInv, OneHolder
<1>5. /\ want[t] = <<>> /\ want'[t] = LocksOf(kind, x) /\ held'[t] = held[t]
      /\ course'[t] = CourseAfter(course[t], kind)
      /\ \A u \in Txn : u # t => /\ want'[u] = want[u] /\ held'[u] = held[u]
                               /\ course'[u] = course[u]
  BY DEF Start, LocksInv, LocksTypeOK
<1>6. KeepsOrder(t)
  BY DEF LocksInv
<1>7. KeepsOrder(t)'
  <2>1. CASE course'[t] = "strayed"
    BY <2>1 DEF KeepsOrder
  <2>2. CASE course'[t] = "claimed"
    <3>1. course[t] = "fresh" /\ kind = "claimKey"
      BY <1>5, <2>2 DEF CourseAfter, LocksInv, LocksTypeOK
    <3> QED BY <1>5, <1>6, <2>2, <3>1, ClaimLock DEF KeepsOrder
  <2>3. CASE course'[t] = "guarded"
    <3>1. \/ course[t] \in {"fresh", "claimed"} /\ kind \in Guarded
          \/ course[t] = "guarded" /\ kind # "claimKey"
      BY <1>5, <2>3 DEF CourseAfter
    <3>2. \A i \in 1..Len(LocksOf(kind, x)) : LocksOf(kind, x)[i].table # "keys"
      BY <3>1, GuardedLocks, UnguardedOnes DEF Kind, Guarded
    <3>3. CASE course[t] \in {"fresh", "claimed"} /\ kind \in Guarded
      <4>1. \A l \in held[t] : l.table = "keys"
        BY <1>6, <3>3 DEF KeepsOrder
      <4> QED BY <1>1, <1>5, <2>3, <3>2, <3>3, <4>1, GuardedLocks DEF KeepsOrder
    <3>4. CASE course[t] = "guarded"
      BY <1>5, <1>6, <2>3, <3>2, <3>4 DEF KeepsOrder
    <3> QED BY <3>1, <3>3, <3>4
  <2>4. course'[t] # "fresh"
    BY <1>5 DEF CourseAfter
  <2> QED BY <1>3, <2>1, <2>2, <2>3, <2>4 DEF LocksTypeOK, Course
<1>8. ASSUME NEW u \in Txn, u # t PROVE KeepsOrder(u)'
  BY <1>5, <1>8 DEF LocksInv, KeepsOrder
<1> QED BY <1>3, <1>4, <1>7, <1>8 DEF LocksInv

\* A lock that is granted keeps the clock with one transaction, and the order.
LEMMA GrantKeeps ==
  ASSUME LocksInv, NEW t \in Txn, Grant(t)
  PROVE  LocksInv'
<1> USE LocksAssumption
<1> DEFINE lock == Head(want[t])
<1>1. want[t] \in Seq(LockRequest) /\ want[t] # <<>> /\ held[t] \subseteq LockRequest
  BY DEF Grant, LocksInv, LocksTypeOK
<1>2. /\ lock \in LockRequest /\ lock = want[t][1] /\ Tail(want[t]) \in Seq(LockRequest)
      /\ Len(Tail(want[t])) = Len(want[t]) - 1
      /\ \A i \in 1..Len(Tail(want[t])) : Tail(want[t])[i] = want[t][i + 1]
  BY <1>1
<1>3. /\ held' = [held EXCEPT ![t] = @ \cup {lock}] /\ want' = [want EXCEPT ![t] = Tail(@)]
      /\ stmts' = stmts /\ course' = course
  BY DEF Grant
<1>4. LocksTypeOK'
  BY <1>2, <1>3 DEF LocksInv, LocksTypeOK
<1>5. /\ held'[t] = held[t] \cup {lock} /\ want'[t] = Tail(want[t])
      /\ \A u \in Txn : u # t => held'[u] = held[u] /\ want'[u] = want[u]
  BY <1>3 DEF LocksInv, LocksTypeOK
<1>6. ASSUME NEW u \in Txn, u # t, Clock \in held'[t] PROVE Clock \notin held[u]
  <2>1. CASE Clock \in held[t]
    BY <1>6, <2>1 DEF LocksInv, OneHolder
  <2>2. CASE lock = Clock
    <3>1. ~Blocks(u, t)
      BY DEF Grant
    <3> QED BY <1>1, <1>6, <2>2, <3>1, ClockIsExclusive DEF Blocks, ModesConflict
  <2> QED BY <1>5, <1>6, <2>1, <2>2
<1>7. OneHolder'
  BY <1>5, <1>6 DEF LocksInv, OneHolder
<1>8. KeepsOrder(t)'
  <2>1. KeepsOrder(t)
    BY DEF LocksInv
  <2>2. course[t] # "fresh"
    BY <1>1, <2>1 DEF KeepsOrder
  <2>3. CASE course[t] = "claimed"
    <3>1. held[t] = {} /\ Len(want[t]) = 1 /\ lock.table = "keys"
      BY <1>1, <1>2, <2>1, <2>3 DEF KeepsOrder
    <3>2. Tail(want[t]) = <<>>
      <4>1. Tail(want[t]) \in Seq(LockRequest) /\ Len(Tail(want[t])) = 0
        BY <1>2, <3>1
      <4> QED BY <4>1, EmptySeq
    <3> QED BY <1>3, <1>5, <2>3, <3>1, <3>2 DEF KeepsOrder
  <2>4. CASE course[t] = "guarded"
    <3>1. Clock \in held'[t]
      BY <1>5, <2>1, <2>4 DEF KeepsOrder
    <3>2. \A i \in 1..Len(Tail(want[t])) : Tail(want[t])[i].table # "keys"
      <4>1. \A i \in 1..Len(want[t]) : want[t][i].table # "keys"
        BY <2>1, <2>4 DEF KeepsOrder
      <4>2. Len(want[t]) \in Nat
        BY <1>1
      <4> QED BY <1>2, <4>1, <4>2
    <3> QED BY <1>3, <1>5, <2>4, <3>1, <3>2 DEF KeepsOrder
  <2> QED BY <1>3, <2>2, <2>3, <2>4 DEF KeepsOrder, LocksInv, LocksTypeOK, Course
<1>9. ASSUME NEW u \in Txn, u # t PROVE KeepsOrder(u)'
  BY <1>3, <1>5, <1>9 DEF LocksInv, KeepsOrder
<1> QED BY <1>4, <1>7, <1>8, <1>9 DEF LocksInv

LEMMA StepLocks == LocksInv /\ [LocksNext]_lockVars => LocksInv'
<1> SUFFICES ASSUME LocksInv, [LocksNext]_lockVars PROVE LocksInv'
  OBVIOUS
<1> USE LocksAssumption
<1>1. CASE UNCHANGED lockVars
  BY <1>1 DEF LocksInv, LocksTypeOK, OneHolder, KeepsOrder, lockVars
<1>2. ASSUME NEW t \in Txn, Release(t) PROVE LocksInv'
  BY <1>2 DEF Release, LocksInv, LocksTypeOK, OneHolder, KeepsOrder, Course
<1> QED BY <1>1, <1>2, StartKeeps, GrantKeeps
        DEF LocksNext, Step, CommitTxn, RollbackTxn, AbortDeadlocked

\* Among transactions that keep the order one that holds the clock waits for none of
\* the others; where nobody does they wait for keys, with nothing in hand.
LEMMA InvNoDeadlock == LocksInv => OnlyStraysDeadlock
<1> SUFFICES ASSUME LocksInv, NEW S \in SUBSET Txn, Deadlocked(S),
                    \A t \in S : course[t] # "strayed"
             PROVE  FALSE
  BY DEF OnlyStraysDeadlock
<1>0. \A t \in S : /\ t \in Txn /\ want[t] \in Seq(LockRequest) /\ course[t] \in Course
                  /\ \A l \in held[t] : l \in LockRequest
                  /\ KeepsOrder(t)
  BY DEF LocksInv, LocksTypeOK
<1>1. \A t \in S : \A l \in held[t] : l.table # "keys" => Clock \in held[t]
  BY <1>0 DEF KeepsOrder, Course
<1>2. \A t \in S : want[t] # <<>> /\ Head(want[t]) = want[t][1] /\ 1 \in 1..Len(want[t])
  BY <1>0 DEF Deadlocked, Blocks
<1>3. ASSUME NEW t \in S, Head(want[t]).table # "keys"
      PROVE  \E u \in S : u # t /\ Clock \in held[u]
  <2>1. PICK u \in S : Blocks(u, t)
    BY DEF Deadlocked
  <2> QED BY <1>1, <1>3, <2>1 DEF Blocks
<1>4. ASSUME NEW h \in S, Clock \in held[h] PROVE FALSE
  <2>1. course[h] = "guarded"
    BY <1>0, <1>4, ClockIsExclusive DEF KeepsOrder, Course
  <2>2. Head(want[h]).table # "keys"
    <3>1. \A i \in 1..Len(want[h]) : want[h][i].table # "keys"
      <4>1. h \in Txn /\ KeepsOrder(h)
        BY DEF LocksInv
      <4> QED BY <2>1, <4>1 DEF KeepsOrder
    <3> QED BY <1>2, <3>1
  <2> QED BY <1>3, <1>4, <2>2 DEF LocksInv, OneHolder
<1>5. \A t \in S : Head(want[t]).table = "keys"
  BY <1>3, <1>4
<1>6. \A t \in S : held[t] = {}
  BY <1>0, <1>2, <1>5 DEF KeepsOrder, Course
<1> QED BY <1>6 DEF Deadlocked, Blocks

LEMMA LocksInvariant == LocksSpec => []LocksInv
  BY InitLocks, StepLocks, PTL DEF LocksSpec

\* Whatever other transactions do, of those that keep the order one at a time holds a
\* lock on anything but a key, the clock included, and it is the one with the clock.
THEOREM OneAtATime ==
  LocksSpec => [](\A t, u \in Txn :
                    /\ course[t] # "strayed" /\ course[u] # "strayed"
                    /\ \E l \in held[t] : l.table # "keys"
                    /\ \E l \in held[u] : l.table # "keys"
                    => t = u /\ Clock \in held[t])
<1>1. LocksInv => \A t, u \in Txn :
        /\ course[t] # "strayed" /\ course[u] # "strayed"
        /\ \E l \in held[t] : l.table # "keys"
        /\ \E l \in held[u] : l.table # "keys"
        => t = u /\ Clock \in held[t]
  BY DEF LocksInv, LocksTypeOK, KeepsOrder, OneHolder, Course
<1> QED BY <1>1, LocksInvariant, PTL

\* Every deadlock has in it a transaction that left the order: the others alone never
\* deadlock, for any number of transactions, ids and statements.
THEOREM DeadlocksNeedAStray == LocksSpec => []OnlyStraysDeadlock
  BY LocksInvariant, InvNoDeadlock, PTL

-----------------------------------------------------------------------------
(* The ledger.                                                             *)

\* What a step that writes neither the database nor the history keeps: sessions may
\* move, as long as nobody starts to own a key or to have written the row.
Quiet ==
  /\ UNCHANGED <<ledger, row, clock, effects, epoch>>
  /\ \A s \in Writer : pc'[s] \in {"claimed", "mutated", "recorded"} =>
       /\ Owns(s) /\ req'[s] = req[s]
       /\ pc'[s] \in {"mutated", "recorded"} => Wrote(s) /\ version'[s] = version[s]

\* The parts of the invariant that speak of the ledger, the row and the sessions,
\* and not of the answer of the last step.
Core ==
  /\ ClaimsAreExclusive /\ OneWritesRow /\ EffectsAreKept /\ EntriesAreEffects
  /\ RowRemembers /\ AtMostOnce /\ LateEffectNeedsRebirth

\* A quiet step keeps them.
LEMMA QuietKeepsCore ==
  ASSUME Core, Quiet PROVE Core'
<1>1. ClaimsAreExclusive'
  BY DEF Core, Quiet, ClaimsAreExclusive, Owns, KeyOf
<1>2. OneWritesRow'
  BY DEF Core, Quiet, OneWritesRow, Wrote, Owns, KeyOf
<1>3. EffectsAreKept' /\ EntriesAreEffects'
  BY DEF Core, Quiet, EffectsAreKept, EntriesAreEffects
<1>4. RowRemembers' /\ AtMostOnce' /\ LateEffectNeedsRebirth'
  BY DEF Core, Quiet, RowRemembers, Reborn, AtMostOnce, LateEffectNeedsRebirth
<1> QED
  BY <1>1, <1>2, <1>3, <1>4 DEF Core

\* The invariant is the core, types, and what the answer of the last step says.
LEMMA InvIsCore ==
  IInv <=> TypeOK /\ Busy /\ Core /\ AcksAreTrue /\ RefusalsAreTrue
BY DEF IInv, Core

\* The initial states satisfy the invariant: legacy entries have no fingerprint.
THEOREM InitInv == Init => IInv
<1> SUFFICES ASSUME Init PROVE IInv
  OBVIOUS
<1>1. TypeOK
  BY LegacyAssumption DEF Init, TypeOK, Location
<1>2. Busy /\ ClaimsAreExclusive /\ OneWritesRow
  BY DEF Init, Busy, ClaimsAreExclusive, OneWritesRow, Owns, Wrote
<1>3. EffectsAreKept /\ RowRemembers /\ AtMostOnce /\ LateEffectNeedsRebirth
  BY DEF Init, EffectsAreKept, RowRemembers, AtMostOnce, LateEffectNeedsRebirth
<1>4. EntriesAreEffects
  BY LegacyAssumption DEF Init, EntriesAreEffects
<1>5. AcksAreTrue /\ RefusalsAreTrue
  BY DEF Init, AcksAreTrue, RefusalsAreTrue
<1> QED
  BY <1>1, <1>2, <1>3, <1>4, <1>5 DEF IInv

\* Every step keeps the types of the session variables: the requests of busy sessions.
LEMMA StepBusy ==
  ASSUME TypeOK, Busy, Next PROVE Busy'
<1>1. ASSUME NEW s \in Writer, End(s) PROVE Busy'
  BY <1>1 DEF Busy, End, TypeOK
<1>2. ASSUME NEW s \in Writer, NEW w, pc[s] # "idle", Go(s, w) PROVE Busy'
  BY <1>2 DEF Busy, Go, TypeOK
<1>3. ASSUME NEW s \in Writer, NEW r \in Request, Receive(s, r) PROVE Busy'
  BY <1>3 DEF Busy, Receive, TypeOK
<1>4. ASSUME NEW k \in Key, Prune(k) PROVE Busy'
  BY <1>4 DEF Busy, Prune, sessionVars
<1> QED
  BY <1>1, <1>2, <1>3, <1>4 DEF Next, Claim, Conflict, RefuseUnbound, Replay, Refuse,
     Mutate, Stale, Record, Commit, Abort

\* Every step keeps the types.
LEMMA StepTypes ==
  ASSUME TypeOK, Busy, Next PROVE TypeOK'
<1>1. ASSUME NEW s \in Writer, NEW r \in Request, Receive(s, r) PROVE TypeOK'
  BY <1>1 DEF Receive, TypeOK, Location, dbVars, histVars
<1>2. ASSUME NEW s \in Writer, End(s) PROVE
        /\ pc' \in [Writer -> Location] /\ version' \in [Writer -> Nat]
        /\ req' \in [Writer -> Request \cup {Null}]
  BY <1>2 DEF End, TypeOK, Location
<1>3. ASSUME NEW s \in Writer, NEW w \in Location, Go(s, w) PROVE
        /\ pc' \in [Writer -> Location] /\ req' \in [Writer -> Request \cup {Null}]
        /\ answer' \in Answer \cup {Null}
  BY <1>3 DEF Go, TypeOK
<1>4. ASSUME NEW s \in Writer, pc[s] # "idle", NEW v \in Nat,
             NEW kind \in {"ack", "refused", "stale"}, Tell(s, kind, v)
      PROVE answer' \in Answer \cup {Null}
  BY <1>4 DEF Tell, Answer, Busy
<1>5. ASSUME NEW s \in Writer, Claim(s) \/ Conflict(s) \/ Record(s) PROVE TypeOK'
  BY <1>5, <1>3 DEF Claim, Conflict, Record, TypeOK, Location, dbVars, histVars
<1>6. ASSUME NEW s \in Writer, RefuseUnbound(s) \/ Abort(s) PROVE TypeOK'
  BY <1>6, <1>2 DEF RefuseUnbound, Abort, TypeOK, dbVars, histVars
<1>7. ASSUME NEW s \in Writer, Refuse(s) \/ Stale(s) PROVE TypeOK'
  BY <1>7, <1>2, <1>4 DEF Refuse, Stale, TypeOK, dbVars
<1>8. ASSUME NEW s \in Writer, Replay(s) PROVE TypeOK'
  <2>1. req[s] \in Request /\ ledger[KeyOf(s)].committed \in Nat
    BY <1>8, RequestAssumption DEF Replay, Replays, Busy, KeyOf, TypeOK, Entry, RequestType
  <2> QED
    BY <1>8, <1>2, <1>4, <2>1 DEF Replay, TypeOK, dbVars
<1>9. ASSUME NEW s \in Writer, Mutate(s) PROVE TypeOK'
  BY <1>9, <1>3 DEF Mutate, NextVersion, TypeOK, Location, dbVars, histVars
<1>10. ASSUME NEW s \in Writer, Commit(s) PROVE TypeOK'
  <2>1. /\ req[s] \in Request /\ KeyOf(s) \in Key /\ req[s].print \in Fingerprint
        /\ version[s] \in Nat /\ epoch[KeyOf(s)] \in Nat
    BY <1>10, RequestAssumption DEF Commit, Busy, KeyOf, TypeOK, RequestType
  <2>2. Committed(s) \in Entry
    BY <2>1 DEF Committed, Entry
  <2>3. ledger' \in [Key -> Entry] /\ epoch' \in [Key -> Nat]
    BY <1>10, <2>2 DEF Commit, TypeOK
  <2>4. row' \in Nat /\ clock' \in Nat /\ effects' \subseteq Effect
    BY <1>10, <2>1 DEF Commit, TypeOK, Effect
  <2> QED
    BY <1>10, <1>2, <1>4, <2>1, <2>3, <2>4 DEF Commit, TypeOK
<1>11. ASSUME NEW k \in Key, Prune(k) PROVE TypeOK'
  <2>1. ledger' \in [Key -> Entry] /\ epoch' \in [Key -> Nat]
    BY <1>11 DEF Prune, TypeOK, NoEntry, Entry
  <2> QED
    BY <1>11, <2>1 DEF Prune, TypeOK, sessionVars
<1> QED
  BY <1>1, <1>5, <1>6, <1>7, <1>8, <1>9, <1>10, <1>11 DEF Next

\* The steps that only end a transaction, or move it without a write, are quiet.
LEMMA QuietSteps ==
  ASSUME TypeOK, NEW s \in Writer,
         \/ \E r \in Request : Receive(s, r)
         \/ Conflict(s) \/ RefuseUnbound(s) \/ Replay(s) \/ Refuse(s)
         \/ Stale(s) \/ Record(s) \/ Abort(s)
  PROVE  Quiet
<1>1. CASE \E r \in Request : Receive(s, r)
  BY <1>1 DEF Quiet, Receive, dbVars, histVars, TypeOK, Owns, Wrote
<1>2. CASE Conflict(s)
  BY <1>2 DEF Quiet, Conflict, Go, dbVars, histVars, TypeOK, Owns, Wrote
<1>3. CASE Record(s)
  BY <1>3 DEF Quiet, Record, Go, dbVars, histVars, TypeOK, Owns, Wrote
<1>4. CASE RefuseUnbound(s) \/ Replay(s) \/ Refuse(s) \/ Stale(s) \/ Abort(s)
  BY <1>4 DEF Quiet, RefuseUnbound, Replay, Refuse, Stale, Abort, End, dbVars, histVars,
     TypeOK, Owns, Wrote
<1> QED
  BY <1>1, <1>2, <1>3, <1>4

\* A claim finds the key free: nobody holds it and no entry is committed.
LEMMA ClaimKeepsCore ==
  ASSUME TypeOK, Busy, Core, NEW s \in Writer, Claim(s) PROVE Core'
<1>1. /\ UNCHANGED <<ledger, row, clock, effects, epoch, version, req>>
      /\ pc' = [pc EXCEPT ![s] = "claimed"] /\ ~ledger[KeyOf(s)].present
      /\ \A t \in Writer : Owns(t) => KeyOf(t) # KeyOf(s)
  BY DEF Claim, Go, Holding, Owns, dbVars, histVars
<1>2. ClaimsAreExclusive'
  BY <1>1 DEF Core, ClaimsAreExclusive, Owns, KeyOf, TypeOK
<1>3. OneWritesRow'
  BY <1>1 DEF Core, OneWritesRow, Wrote, TypeOK
<1>4. EffectsAreKept' /\ EntriesAreEffects'
  BY <1>1 DEF Core, EffectsAreKept, EntriesAreEffects
<1>5. RowRemembers' /\ AtMostOnce' /\ LateEffectNeedsRebirth'
  BY <1>1 DEF Core, RowRemembers, Reborn, AtMostOnce, LateEffectNeedsRebirth
<1> QED
  BY <1>2, <1>3, <1>4, <1>5 DEF Core

\* A mutation starts when nobody else has written the row.
LEMMA MutateKeepsCore ==
  ASSUME TypeOK, Busy, Core, NEW s \in Writer, Mutate(s) PROVE Core'
<1>1. /\ UNCHANGED <<ledger, row, clock, effects, epoch, req>>
      /\ pc[s] = "claimed" /\ pc' = [pc EXCEPT ![s] = "mutated"]
      /\ version' = [version EXCEPT ![s] = row + 1] /\ row = req[s].base
      /\ \A t \in Writer : ~Wrote(t)
  BY DEF Mutate, Go, Matches, NextVersion, Writing, Wrote, dbVars, histVars
<1>2. ClaimsAreExclusive'
  BY <1>1 DEF Core, ClaimsAreExclusive, Owns, KeyOf, TypeOK
<1>3. OneWritesRow'
  BY <1>1 DEF Core, OneWritesRow, Wrote, TypeOK
<1>4. EffectsAreKept' /\ EntriesAreEffects'
  BY <1>1 DEF Core, EffectsAreKept, EntriesAreEffects
<1>5. RowRemembers' /\ AtMostOnce' /\ LateEffectNeedsRebirth'
  BY <1>1 DEF Core, RowRemembers, Reborn, AtMostOnce, LateEffectNeedsRebirth
<1> QED
  BY <1>2, <1>3, <1>4, <1>5 DEF Core

\* The parts of an effect, one by one.
LEMMA EffectTypes ==
  ASSUME TypeOK, NEW e \in effects
  PROVE  /\ e.req \in Request /\ e.req.key \in Key /\ e.req.base \in Nat
         /\ e.version \in Nat /\ e.seq \in Nat /\ e.epoch \in Nat
<1>1. e \in Effect
  BY DEF TypeOK
<1>2. e.req \in Request /\ e.version \in Nat /\ e.seq \in Nat /\ e.epoch \in Nat
  BY <1>1 DEF Effect
<1>3. e.req \in RequestType
  BY <1>2, RequestAssumption
<1> QED
  BY <1>2, <1>3 DEF RequestType

\* The entry of an effect whose key has not been pruned since.
LEMMA EntryOfEffect ==
  ASSUME EffectsAreKept, NEW e \in effects, e.epoch = epoch[e.req.key]
  PROVE  /\ ledger[e.req.key].present /\ ledger[e.req.key].print = e.req.print
         /\ ledger[e.req.key].committed = e.version
<1>1. ledger[e.req.key] = [print |-> e.req.print, committed |-> e.version, present |-> TRUE]
  BY DEF EffectsAreKept
<1> QED
  BY <1>1

\* A commit adds one effect, with the next sequence, and the entry that stands for it.
LEMMA CommitKeepsCore ==
  ASSUME TypeOK, Busy, Core, NEW s \in Writer, Commit(s) PROVE Core'
<1> DEFINE r == req[s]
           f == [req |-> r, version |-> version[s], seq |-> clock + 1, epoch |-> epoch[r.key]]
<1>1. /\ r \in Request /\ r.key \in Key /\ r.print \in Fingerprint /\ r.base \in Nat
      /\ version[s] \in Nat /\ clock \in Nat /\ row \in Nat /\ epoch[r.key] \in Nat
      /\ pc[s] = "recorded" /\ Owns(s) /\ Wrote(s)
  BY RequestAssumption DEF Commit, Busy, TypeOK, RequestType, Owns, Wrote
<1>2. /\ row = r.base /\ version[s] = row + 1 /\ ~ledger[r.key].present
      /\ \A t \in Writer \ {s} : ~Wrote(t) /\ (Owns(t) => KeyOf(t) # r.key)
  BY <1>1 DEF Core, OneWritesRow, ClaimsAreExclusive, KeyOf
<1>3. /\ ledger' = [ledger EXCEPT ![r.key] =
                      [print |-> r.print, committed |-> version[s], present |-> TRUE]]
      /\ row' = IF r.op = "delete" THEN 0 ELSE version[s]
      /\ clock' = clock + 1 /\ effects' = effects \cup {f} /\ epoch' = epoch
      /\ pc' = [pc EXCEPT ![s] = "idle"] /\ req' = [req EXCEPT ![s] = Null]
      /\ version' = [version EXCEPT ![s] = 0]
  BY DEF Commit, Committed, End, KeyOf
<1> HIDE DEF r
<1>4. ASSUME NEW e \in effects
      PROVE  /\ e.seq \in Nat /\ e.seq <= clock /\ e.seq < f.seq /\ e.version \in Nat
             /\ e.req \in Request /\ e.req.base \in Nat /\ e.req.key \in Key /\ e.epoch \in Nat
  <2>1. e.seq <= clock
    BY DEF Core, EffectsAreKept
  <2> QED
    BY <1>1, <2>1, EffectTypes
<1>5. ClaimsAreExclusive'
  BY <1>2, <1>3 DEF Core, ClaimsAreExclusive, Owns, KeyOf, TypeOK
<1>6. OneWritesRow'
  BY <1>2, <1>3 DEF Core, OneWritesRow, Wrote, TypeOK
<1>7. EffectsAreKept'
  <2>1. \A e \in effects : e.epoch = epoch[e.req.key] => e.req.key # r.key
    BY <1>2, EntryOfEffect DEF Core
  <2>2. \A e \in effects : ledger'[e.req.key] = ledger[e.req.key] \/ e.epoch # epoch[e.req.key]
    BY <1>3, <2>1
  <2>3. ledger'[r.key] = [print |-> r.print, committed |-> version[s], present |-> TRUE]
    BY <1>1, <1>3 DEF TypeOK
  <2>4. ASSUME NEW e \in effects
        PROVE  /\ e.seq <= clock' /\ e.epoch <= epoch'[e.req.key]
               /\ e.epoch = epoch'[e.req.key] => ledger'[e.req.key] =
                    [print |-> e.req.print, committed |-> e.version, present |-> TRUE]
    BY <1>1, <1>3, <1>4, <2>2 DEF Core, EffectsAreKept
  <2>5. /\ f.seq <= clock' /\ f.epoch <= epoch'[f.req.key]
        /\ f.epoch = epoch'[f.req.key] => ledger'[f.req.key] =
             [print |-> f.req.print, committed |-> f.version, present |-> TRUE]
    BY <1>1, <1>3, <2>3
  <2> QED
    BY <1>3, <2>4, <2>5 DEF EffectsAreKept
<1>8. EntriesAreEffects'
  <2> SUFFICES ASSUME NEW k \in Key, ledger'[k].present, ledger'[k].print # Null
               PROVE \E e \in effects' : /\ e.req.key = k /\ e.req.print = ledger'[k].print
                                        /\ e.version = ledger'[k].committed
    BY DEF EntriesAreEffects
  <2>1. CASE k = r.key
    <3>1. ledger'[k] = [print |-> r.print, committed |-> version[s], present |-> TRUE]
      BY <1>1, <1>3, <2>1 DEF TypeOK
    <3>2. f \in effects' /\ f.req.key = k /\ f.req.print = r.print /\ f.version = version[s]
      BY <1>3, <2>1
    <3> QED
      BY <3>1, <3>2
  <2>2. CASE k # r.key
    BY <1>3, <2>2 DEF Core, EntriesAreEffects, TypeOK
  <2> QED
    BY <2>1, <2>2
<1>9. AtMostOnce'
  <2>1. \A e \in effects : e.req = r => e.epoch # f.epoch
    BY <1>2, EntryOfEffect DEF Core
  <2> QED
    BY <1>3, <2>1 DEF Core, AtMostOnce
\* The row was born again since every earlier effect that it no longer shows.
<1>10. \A e \in effects : e.req = r => Reborn(e)
  BY <1>1, <1>2, <1>4, RequestAssumption DEF Core, RowRemembers
<1>11. RowRemembers'
  <2>1. ASSUME NEW e \in effects PROVE
          /\ e.version = e.req.base + 1
          /\ Reborn(e)' \/ IF e.req.op = "delete" THEN row' = 0 ELSE row' >= e.version
    <3>1. Reborn(e) => Reborn(e)'
      BY <1>3 DEF Reborn
    <3>2. r.op # "update" => Reborn(e)'
      <4>1. f \in effects' /\ e.seq < f.seq /\ f.req = r
        BY <1>3, <1>4
      <4> QED
        BY <4>1 DEF Reborn
    <3>3. CASE r.op = "update" /\ ~Reborn(e)
      <4>1. row > 0
        BY <3>3, <1>1, <1>2, RequestAssumption
      <4>2. e.req.op # "delete" /\ row >= e.version
        BY <3>3, <4>1 DEF Core, RowRemembers
      <4>3. row' = row + 1
        BY <3>3, <1>2, <1>3
      <4> QED
        BY <1>1, <1>4, <4>2, <4>3 DEF Core, RowRemembers
    <3> QED
      BY <3>1, <3>2, <3>3 DEF Core, RowRemembers
  <2>2. f.version = f.req.base + 1 /\ IF f.req.op = "delete" THEN row' = 0 ELSE row' >= f.version
    BY <1>1, <1>2, <1>3
  <2> QED
    BY <1>3, <2>1, <2>2 DEF RowRemembers
<1>12. LateEffectNeedsRebirth'
  <2> SUFFICES ASSUME NEW d \in effects', NEW e \in effects', d.req = e.req, d.seq < e.seq
               PROVE \E g \in effects' : d.seq < g.seq /\ g.seq < e.seq /\ g.req.op # "update"
    BY DEF LateEffectNeedsRebirth
  <2>1. CASE d \in effects /\ e \in effects
    BY <1>3, <2>1 DEF Core, LateEffectNeedsRebirth
  <2>2. CASE d \in effects /\ e = f
    BY <1>3, <1>4, <1>10, <2>2 DEF Reborn
  <2>3. d # f
    BY <1>1, <1>3, <1>4
  <2> QED
    BY <1>3, <2>1, <2>2, <2>3
<1> QED
  BY <1>5, <1>6, <1>7, <1>8, <1>9, <1>11, <1>12 DEF Core

\* Pruning starts a new epoch of the key: what is kept of it starts again.
LEMMA PruneKeepsCore ==
  ASSUME TypeOK, Busy, Core, NEW k \in Key, Prune(k) PROVE Core'
<1>1. /\ ledger' = [ledger EXCEPT ![k] = NoEntry] /\ epoch' = [epoch EXCEPT ![k] = @ + 1]
      /\ UNCHANGED <<row, clock, effects, pc, req, version>> /\ epoch[k] \in Nat
      /\ ~NoEntry.present
  BY DEF Prune, sessionVars, TypeOK, NoEntry
<1>2. ClaimsAreExclusive'
  <2> SUFFICES ASSUME NEW s \in Writer, Owns(s) PROVE ~ledger'[KeyOf(s)].present
    BY <1>1 DEF Core, ClaimsAreExclusive, Owns, KeyOf
  <2>1. ~ledger[KeyOf(s)].present
    BY DEF Core, ClaimsAreExclusive
  <2> QED
    BY <1>1, <2>1 DEF TypeOK
<1>3. OneWritesRow'
  BY <1>1 DEF Core, OneWritesRow, Wrote
<1>4. EffectsAreKept'
  <2> SUFFICES ASSUME NEW e \in effects
               PROVE /\ e.seq <= clock /\ e.epoch <= epoch'[e.req.key]
                     /\ e.epoch = epoch'[e.req.key] => ledger'[e.req.key] =
                          [print |-> e.req.print, committed |-> e.version, present |-> TRUE]
    BY <1>1 DEF EffectsAreKept
  <2>1. e.req.key \in Key /\ e.epoch \in Nat
    BY RequestAssumption DEF TypeOK, Effect, RequestType
  <2>2. /\ e.seq <= clock /\ e.epoch <= epoch[e.req.key]
        /\ e.epoch = epoch[e.req.key] => ledger[e.req.key] =
             [print |-> e.req.print, committed |-> e.version, present |-> TRUE]
    BY DEF Core, EffectsAreKept
  <2>3. CASE e.req.key = k
    BY <1>1, <2>1, <2>2, <2>3 DEF TypeOK
  <2>4. CASE e.req.key # k
    BY <1>1, <2>1, <2>2, <2>4 DEF TypeOK
  <2> QED
    BY <2>3, <2>4
<1>5. EntriesAreEffects'
  BY <1>1 DEF Core, EntriesAreEffects, TypeOK
<1>6. RowRemembers' /\ AtMostOnce' /\ LateEffectNeedsRebirth'
  BY <1>1 DEF Core, RowRemembers, Reborn, AtMostOnce, LateEffectNeedsRebirth
<1> QED
  BY <1>2, <1>3, <1>4, <1>5, <1>6 DEF Core

\* Every step keeps the core.
LEMMA StepCore ==
  ASSUME TypeOK, Busy, Core, Next PROVE Core'
<1>1. ASSUME NEW s \in Writer,
        \/ \E r \in Request : Receive(s, r)
        \/ Conflict(s) \/ RefuseUnbound(s) \/ Replay(s) \/ Refuse(s)
        \/ Stale(s) \/ Record(s) \/ Abort(s)
      PROVE Core'
  BY <1>1, QuietSteps, QuietKeepsCore
<1> QED
  BY <1>1, ClaimKeepsCore, MutateKeepsCore, CommitKeepsCore, PruneKeepsCore DEF Next

\* An acknowledgement repeats an entry, or announces the effect of its own commit.
LEMMA StepAcks ==
  ASSUME TypeOK, Busy, Core, Next PROVE AcksAreTrue'
<1>1. ASSUME NEW s \in Writer, Replay(s) PROVE AcksAreTrue'
  <2>1. /\ req[s] \in Request /\ req[s].key \in Key /\ req[s].print # Null
        /\ ledger[req[s].key].present /\ ledger[req[s].key].print = req[s].print
        /\ effects' = effects
        /\ answer' = [req |-> req[s], kind |-> "ack",
                      version |-> ledger[req[s].key].committed]
    BY <1>1, RequestAssumption, NullAssumption
    DEF Replay, Replays, Tell, KeyOf, Busy, RequestType
  <2>2. PICK e \in effects : /\ e.req.key = req[s].key /\ e.req.print = req[s].print
                            /\ e.version = ledger[req[s].key].committed
    BY <2>1 DEF Core, EntriesAreEffects
  <2>3. e.req = req[s]
    BY <2>1, <2>2, PrintAssumption DEF TypeOK, Effect
  <2> QED
    BY <2>1, <2>2, <2>3 DEF AcksAreTrue
<1>2. ASSUME NEW s \in Writer, Commit(s) PROVE AcksAreTrue'
  <2> DEFINE f == [req |-> req[s], version |-> version[s], seq |-> clock + 1,
                   epoch |-> epoch[KeyOf(s)]]
  <2>1. f \in effects' /\ f.req = req[s] /\ f.version = version[s]
    BY <1>2 DEF Commit
  <2>2. answer' = [req |-> req[s], kind |-> "ack", version |-> version[s]]
    BY <1>2 DEF Commit, Tell
  <2> QED
    BY <2>1, <2>2 DEF AcksAreTrue
<1>3. ASSUME NEW s \in Writer, Refuse(s) \/ Stale(s) PROVE AcksAreTrue'
  BY <1>3 DEF Refuse, Stale, Tell, AcksAreTrue
<1>4. ASSUME answer' = Null PROVE AcksAreTrue'
  BY <1>4 DEF AcksAreTrue
<1> QED
  BY <1>1, <1>2, <1>3, <1>4 DEF Next, Receive, Claim, Conflict, RefuseUnbound, Mutate,
     Record, Abort, Prune, Go

\* Who is refused has no effect in this epoch: its entry would be there, and its own.
LEMMA StepRefusals ==
  ASSUME TypeOK, Busy, Core, Next PROVE RefusalsAreTrue'
<1>1. ASSUME NEW s \in Writer, Refuse(s) \/ Stale(s) PROVE RefusalsAreTrue'
  <2>1. /\ req[s] \in Request /\ effects' = effects /\ epoch' = epoch
        /\ answer'.req = req[s]
    BY <1>1 DEF Refuse, Stale, Tell, Busy
  <2>2. ASSUME NEW e \in effects, e.req = req[s], ~(e.epoch < epoch[e.req.key]) PROVE FALSE
    <3>1. e.epoch = epoch[e.req.key] /\ e.version \in Nat
      <4>1. e.epoch <= epoch[e.req.key]
        BY <2>2 DEF Core, EffectsAreKept
      <4>2. e.req.key \in Key /\ e.epoch \in Nat /\ e.version \in Nat
        BY <2>2, EffectTypes
      <4> QED
        BY <2>2, <4>1, <4>2 DEF TypeOK
    <3>2. ledger[req[s].key] =
            [print |-> req[s].print, committed |-> e.version, present |-> TRUE]
      BY <2>2, <3>1 DEF Core, EffectsAreKept
    <3>3. ~Refuse(s)
      BY <3>1, <3>2, NullAssumption DEF Refuse, Replays
    <3>4. ~Stale(s)
      BY <3>2 DEF Stale, Core, ClaimsAreExclusive, Owns, KeyOf
    <3> QED
      BY <1>1, <3>3, <3>4
  <2> QED
    BY <2>1, <2>2 DEF RefusalsAreTrue
<1>2. ASSUME NEW s \in Writer, Replay(s) \/ Commit(s) PROVE RefusalsAreTrue'
  BY <1>2 DEF Replay, Commit, Tell, RefusalsAreTrue
<1>3. ASSUME answer' = Null PROVE RefusalsAreTrue'
  BY <1>3 DEF RefusalsAreTrue
<1> QED
  BY <1>1, <1>2, <1>3 DEF Next, Receive, Claim, Conflict, RefuseUnbound, Mutate,
     Record, Abort, Prune, Go

\* The invariant is inductive.
THEOREM StepInv == IInv /\ [Next]_vars => IInv'
<1> SUFFICES ASSUME IInv, [Next]_vars PROVE IInv'
  OBVIOUS
<1>1. TypeOK /\ Busy /\ Core /\ AcksAreTrue /\ RefusalsAreTrue
  BY InvIsCore
<1>2. CASE Next
  <2>1. TypeOK' /\ Busy' /\ Core' /\ AcksAreTrue' /\ RefusalsAreTrue'
    BY <1>1, <1>2, StepTypes, StepBusy, StepCore, StepAcks, StepRefusals
  <2> QED
    BY <2>1 DEF IInv, Core
<1>3. CASE UNCHANGED vars
  <2>1. TypeOK' /\ Busy'
    BY <1>1, <1>3 DEF vars, TypeOK, Busy
  <2>2. Quiet
    BY <1>3 DEF vars, Quiet, Owns, Wrote
  <2>3. Core'
    BY <1>1, <2>2, QuietKeepsCore
  <2>4. AcksAreTrue' /\ RefusalsAreTrue'
    BY <1>1, <1>3 DEF vars, AcksAreTrue, RefusalsAreTrue
  <2> QED
    BY <2>1, <2>3, <2>4 DEF IInv, Core
<1> QED
  BY <1>2, <1>3

\* The inductive invariant holds in every reachable state.
THEOREM Invariance == Spec => []IInv
  BY InitInv, StepInv, PTL DEF Spec

\* A delivered, repeated or raced request takes effect at most once while its key
\* is kept.
THEOREM OneEffect == Spec => []AtMostOnce
<1>1. IInv => AtMostOnce
  BY DEF IInv
<1> QED
  BY <1>1, Invariance, PTL

\* A replayed acknowledgement is never that of another request or of a legacy
\* row, and a writer that refuses a request has not applied it.
THEOREM TrueAnswers == Spec => []AnswersAreTrue
<1>1. IInv => AnswersAreTrue
  BY DEF IInv, AnswersAreTrue
<1> QED
  BY <1>1, Invariance, PTL

\* After pruning, the version CAS stops a late retry while the row lives.
THEOREM CasOutlivesLedger == Spec => []LateEffectNeedsRebirth
<1>1. IInv => LateEffectNeedsRebirth
  BY DEF IInv
<1> QED
  BY <1>1, Invariance, PTL
=============================================================================
