---------------------------- MODULE SyncIdempotency ----------------------------
(***************************************************************************)
(* The request-bound idempotency ledger of sql/customer.sql 608-658 (and   *)
(* sql/admin.sql): sync_idempotency_keys, in which a writer claims the key *)
(* of a request with its fingerprint in the transaction that performs the  *)
(* version-CAS mutation, and which a retry of the request reads back.      *)
(*                                                                         *)
(* The table, its checks and the triggers of the row are the repository's; *)
(* the writer is a server elsewhere that follows the protocol the table is *)
(* documented for.  A request may be delivered any number of times, at any *)
(* time and to several sessions at once; an answer may be lost.            *)
(***************************************************************************)
EXTENDS Integers

CONSTANTS
  Session,      \* database sessions of writers that send a fingerprint
  OldSession,   \* sessions of writers from before request_fingerprint
  Key,          \* sync_idempotency_keys.key
  Fingerprint,  \* request fingerprints
  Null,         \* SQL NULL
  Request,      \* the logical writes that clients send
  LegacyLedger, \* the ledger the migration finds
  MaxPrunes     \* bound: how often one key is pruned

Writer == Session \cup OldSession

\* A queued write on the row: its key, fingerprint, operation and base version.
RequestType ==
  [key : Key, print : Fingerprint, op : {"insert", "update", "delete"}, base : Nat]

NoEntry == [print |-> Null, committed |-> Null, present |-> FALSE]

Entry == [print : Fingerprint \cup {Null}, committed : Nat \cup {Null}, present : BOOLEAN]

ASSUME NullAssumption == Null \notin Fingerprint /\ Null \notin Nat /\ Null \notin Request
ASSUME RequestAssumption ==
  /\ Request \subseteq RequestType
  /\ \A r \in Request : (r.base = 0) <=> (r.op = "insert")
\* The fingerprint is a hash of the whole request.
ASSUME PrintAssumption ==
  \A r, q \in Request : r.key = q.key /\ r.print = q.print => r = q
\* Rows from before the migration have no fingerprint.
ASSUME LegacyAssumption ==
  /\ LegacyLedger \in [Key -> Entry]
  /\ \A k \in Key : LegacyLedger[k].print = Null
ASSUME PruneAssumption == MaxPrunes \in Nat

VARIABLES
  ledger,   \* committed rows of sync_idempotency_keys
  row,      \* committed version of the row, 0 while it does not exist
  clock,    \* committed sync_clock.last_sequence
  pc,       \* where each session is in its transaction
  req,      \* the request a session works on
  version,  \* the version the uncommitted mutation of a session gave the row
  effects,  \* history: the committed mutations
  answer,   \* the answer that the last step gave, if it gave one
  epoch     \* history: how often each key has been pruned

dbVars      == <<ledger, row, clock>>
sessionVars == <<pc, req, version>>
histVars    == <<effects, epoch>>
vars == <<ledger, row, clock, pc, req, version, effects, answer, epoch>>

Location == {"idle", "claiming", "conflict", "claimed", "mutated", "recorded"}

Effect == [req : Request, version : Nat, seq : Nat, epoch : Nat]
Answer == [req : Request, kind : {"ack", "refused", "stale"}, version : Nat]

TypeOK ==
  /\ ledger \in [Key -> Entry] /\ row \in Nat /\ clock \in Nat
  /\ pc \in [Writer -> Location] /\ req \in [Writer -> Request \cup {Null}]
  /\ version \in [Writer -> Nat]
  /\ effects \subseteq Effect /\ answer \in Answer \cup {Null}
  /\ epoch \in [Key -> Nat]

Init ==
  /\ ledger = LegacyLedger /\ row = 0 /\ clock = 0
  /\ pc = [s \in Writer |-> "idle"] /\ req = [s \in Writer |-> Null]
  /\ version = [s \in Writer |-> 0]
  /\ effects = {} /\ answer = Null /\ epoch = [k \in Key |-> 0]

KeyOf(s) == req[s].key

\* Sessions whose claim of key k is not yet committed: they hold its index entry.
Holding(k) == {s \in Writer : pc[s] \in {"claimed", "mutated", "recorded"} /\ KeyOf(s) = k}

\* Sessions that have written the row, and hold sync_clock until they end.
Writing == {s \in Writer : pc[s] \in {"mutated", "recorded"}}

Go(s, where) ==
  pc' = [pc EXCEPT ![s] = where] /\ UNCHANGED req /\ answer' = Null

\* The transaction is over, and the session waits for a request.
End(s) ==
  /\ pc' = [pc EXCEPT ![s] = "idle"]
  /\ req' = [req EXCEPT ![s] = Null] /\ version' = [version EXCEPT ![s] = 0]

\* What the client is told; it may not get it, and deliver the request again.
Tell(s, kind, v) == answer' = [req |-> req[s], kind |-> kind, version |-> v]
-----------------------------------------------------------------------------
(* The writer's transaction.                                               *)

\* A request reaches a writer: for the first time, as a retry, or late.
Receive(s, r) ==
  /\ pc[s] = "idle"
  /\ pc' = [pc EXCEPT ![s] = "claiming"] /\ req' = [req EXCEPT ![s] = r]
  /\ answer' = Null
  /\ UNCHANGED <<dbVars, version, histVars>>

\* The check request_fingerprint is not null holds for every new row.
Bound(s) == s \in Session

\* INSERT ... ON CONFLICT DO NOTHING of the key; it waits for another's claim.
Claim(s) ==
  /\ pc[s] = "claiming" /\ Bound(s)
  /\ Holding(KeyOf(s)) = {}
  /\ ~ledger[KeyOf(s)].present
  /\ Go(s, "claimed")
  /\ UNCHANGED <<dbVars, version, histVars>>

Conflict(s) ==
  /\ pc[s] = "claiming" /\ Bound(s)
  /\ Holding(KeyOf(s)) = {}
  /\ ledger[KeyOf(s)].present
  /\ Go(s, "conflict")
  /\ UNCHANGED <<dbVars, version, histVars>>

\* A writer that sends no fingerprint fails the check, whatever the key.
RefuseUnbound(s) ==
  /\ pc[s] = "claiming" /\ ~Bound(s)
  /\ End(s) /\ answer' = Null
  /\ UNCHANGED <<dbVars, histVars>>

\* Mutant: a legacy row counts as a match.
ReplaysLegacy(r) ==
  /\ ledger[r.key].print \in {r.print, Null}
  /\ ledger[r.key].committed # Null

\* The entry is of this very request, and complete.
Replays(r) ==
  /\ ledger[r.key].present
  /\ ledger[r.key].print = r.print
  /\ ledger[r.key].committed # Null

\* The next statement reads the entry: replay it, or fail closed.
Replay(s) ==
  /\ pc[s] = "conflict" /\ Replays(req[s])
  /\ Tell(s, "ack", ledger[KeyOf(s)].committed) /\ End(s)
  /\ UNCHANGED <<dbVars, effects, epoch>>

Refuse(s) ==
  /\ pc[s] = "conflict" /\ ~Replays(req[s])
  /\ Tell(s, "refused", 0) /\ End(s)
  /\ UNCHANGED <<dbVars, effects, epoch>>

\* Mutant: an update or a delete does not compare the version.
AnyVersion(r) == (r.op = "insert") <=> (row = 0)

\* The version CAS: an insert finds no row, the others the version they name.
Matches(r) == row = r.base

\* bump_row_version, and the version of the tombstone that a delete leaves.
NextVersion == row + 1

Mutate(s) ==
  /\ pc[s] = "claimed" /\ Writing = {}
  /\ Matches(req[s])
  /\ Go(s, "mutated") /\ version' = [version EXCEPT ![s] = NextVersion]
  /\ UNCHANGED <<dbVars, histVars>>

\* No row matches: the transaction is rolled back, with the claim.
Stale(s) ==
  /\ pc[s] = "claimed" /\ Writing = {}
  /\ ~Matches(req[s])
  /\ Tell(s, "stale", 0) /\ End(s)
  /\ UNCHANGED <<dbVars, effects, epoch>>

\* committed_version is recorded in the claimed entry before commit.
Record(s) ==
  /\ pc[s] = "mutated"
  /\ Go(s, "recorded")
  /\ UNCHANGED <<dbVars, version, histVars>>

\* Mutant: the claim is not part of the transaction, and is lost with it.
CommittedNothing(s) == [print |-> req[s].print, committed |-> version[s], present |-> FALSE]

Committed(s) == [print |-> req[s].print, committed |-> version[s], present |-> TRUE]

\* Mutation and ledger entry become visible together.
Commit(s) ==
  /\ pc[s] = "recorded"
  /\ ledger' = [ledger EXCEPT ![KeyOf(s)] = Committed(s)]
  /\ row' = IF req[s].op = "delete" THEN 0 ELSE version[s]
  /\ clock' = clock + 1
  /\ effects' = effects \cup
       {[req |-> req[s], version |-> version[s], seq |-> clock + 1, epoch |-> epoch[KeyOf(s)]]}
  /\ Tell(s, "ack", version[s]) /\ End(s)
  /\ UNCHANGED epoch

\* The session is lost or rolls back: its claim and its mutation go with it.
Abort(s) ==
  /\ pc[s] # "idle"
  /\ End(s) /\ answer' = Null
  /\ UNCHANGED <<dbVars, histVars>>

\* Prune only completed keys.
Prune(k) ==
  /\ ledger[k].present /\ ledger[k].committed # Null
  /\ epoch[k] < MaxPrunes
  /\ ledger' = [ledger EXCEPT ![k] = NoEntry]
  /\ epoch' = [epoch EXCEPT ![k] = @ + 1]
  /\ answer' = Null
  /\ UNCHANGED <<row, clock, sessionVars, effects>>

Next ==
  \/ \E s \in Writer :
       \/ \E r \in Request : Receive(s, r)
       \/ Claim(s) \/ Conflict(s) \/ RefuseUnbound(s)
       \/ Replay(s) \/ Refuse(s)
       \/ Mutate(s) \/ Stale(s) \/ Record(s) \/ Commit(s) \/ Abort(s)
  \/ \E k \in Key : Prune(k)

Spec == Init /\ [][Next]_vars
-----------------------------------------------------------------------------
(* Properties.                                                             *)

\* A request takes effect at most once for as long as its key is kept, however
\* often and to however many sessions it is delivered.
AtMostOnce ==
  \A e, f \in effects : e.req = f.req /\ e.epoch = f.epoch => e = f

\* An acknowledgement is for a mutation of this very request, with the version it
\* gave the row: never for another request under the same key, nor a legacy row.
AcksAreTrue ==
  answer # Null /\ answer.kind = "ack" =>
    \E e \in effects : e.req = answer.req /\ e.version = answer.version

\* A refusal is given only to a request that has not taken effect since its key
\* was last pruned.
RefusalsAreTrue ==
  answer # Null /\ answer.kind # "ack" =>
    \A e \in effects : e.req = answer.req => e.epoch < epoch[answer.req.key]

\* Whatever a client is told is true of the request it sent.
AnswersAreTrue == AcksAreTrue /\ RefusalsAreTrue

\* A second effect of one request, after its key was pruned, still needs the row
\* to have been deleted or inserted in between: versions start again at 1 only then.
LateEffectNeedsRebirth ==
  \A e, f \in effects : e.req = f.req /\ e.seq < f.seq =>
    \E g \in effects : e.seq < g.seq /\ g.seq < f.seq /\ g.req.op # "update"
-----------------------------------------------------------------------------
(* The inductive invariant.                                                *)

Owns(s) == pc[s] \in {"claimed", "mutated", "recorded"}
Wrote(s) == pc[s] \in {"mutated", "recorded"}

Busy == \A s \in Writer : pc[s] # "idle" => req[s] \in Request

\* A claimed key has one holder and no committed entry.
ClaimsAreExclusive ==
  \A s \in Writer : Owns(s) =>
    /\ ~ledger[KeyOf(s)].present
    /\ \A t \in Writer : Owns(t) /\ KeyOf(t) = KeyOf(s) => t = s

\* Who has written the row is alone, and the committed row is still what it matched.
OneWritesRow ==
  \A s \in Writer : Wrote(s) =>
    /\ row = req[s].base /\ version[s] = row + 1
    /\ \A t \in Writer : Wrote(t) => t = s

\* Until its key is pruned an effect has its entry in the ledger.
EffectsAreKept ==
  \A e \in effects :
    /\ e.seq <= clock /\ e.epoch <= epoch[e.req.key]
    /\ e.epoch = epoch[e.req.key] =>
         ledger[e.req.key] = [print |-> e.req.print, committed |-> e.version, present |-> TRUE]

\* An entry with a fingerprint stands for an effect.
EntriesAreEffects ==
  \A k \in Key : ledger[k].present /\ ledger[k].print # Null =>
    \E e \in effects : /\ e.req.key = k /\ e.req.print = ledger[k].print
                       /\ e.version = ledger[k].committed

Reborn(e) == \E g \in effects : e.seq < g.seq /\ g.req.op # "update"

\* The version of the row is past every effect since the row was last born.
RowRemembers ==
  \A e \in effects :
    /\ e.version = e.req.base + 1
    /\ Reborn(e) \/ IF e.req.op = "delete" THEN row = 0 ELSE row >= e.version

IInv ==
  /\ TypeOK /\ Busy /\ ClaimsAreExclusive /\ OneWritesRow
  /\ EffectsAreKept /\ EntriesAreEffects /\ RowRemembers
  /\ AtMostOnce /\ AcksAreTrue /\ RefusalsAreTrue /\ LateEffectNeedsRebirth
=============================================================================
