# fiducia-interfaces: specifications, model checking and proofs

`fiducia-interfaces` is the contract repository of a distributed coordination product:
SQL schemas whose triggers implement a local-first sync plane, a Rust library that
authenticates every request, executable reference models of how the founders' authority
is exercised and handed over, generated wire types with the schemas they come from, and a
tool that gates a contract in CI. This directory
holds TLA+ models of the parts that have behaviour, what TLC checks of them on small
instances, and what TLAPS proves of them for every instance.

Paths are relative to the repository. `PROJECT.json` maps each definition to its lines.

## 1. Inventory

### 1.1 The parts with behaviour

**Customer and admin sync plane** - `sql/customer.sql`, `sql/admin.sql`, `sql/README.md`.
State: the synced rows with `version` and `sync_sequence`, the singleton row `sync_clock`,
`sync_tombstones`, and outside the database the cursor and the replica of each client.
Operations: INSERT, upsert, UPDATE with a compare-and-swap on `version`, DELETE with its
foreign-key cascade, COMMIT and ROLLBACK, and the catch-up query of a client. The triggers
`lock_sync_clock` (before the statement), `bump_row_version` (before a row is inserted or
updated) and `record_sync_tombstone` (after a row is deleted) run inside those operations.
Hard: a sequence that is allocated by a transaction that commits late; a statement whose
snapshot is older than the clock lock it then waits for; deadlocks between the clock and
the rows; cascades; lost and repeated responses. Correct when no client ever misses a
change, deletions reach clients, edits do not overwrite what their author has not seen,
no client keeps a row whose parent is gone for good, and writers that keep the documented
order do not deadlock.

**Request-bound idempotency ledger** - `sql/customer.sql` 608-658. State: a key with its
request fingerprint and committed version. Operations: claim in the transaction of the
mutation, complete, replay, fail closed, prune. Hard: the retry that races its original,
rows from before the fingerprint existed. Correct when a request takes effect at most
once for as long as its key is kept, and no acknowledgement is replayed to another request.

**Wire types and their schemas** - `schema/*.schema.json`, `generated/rust/src/lib.rs` and
`generated/rust/src/validation.rs`. A document is validated against its schema, decoded into
a struct, and what a peer writes is validated again. Hard: what a schema admits and a struct
cannot hold; integers past 2^53 in peers whose numbers are doubles; fields that are null,
missing or dropped; conditions between fields, of which a struct knows nothing. Correct when
a token arrives exactly or not at all, and who is told that it holds a lock can release it.

**Commercial intake parity tool** - `tools/commercial-intake-parity/`. State: the receipt
on the disk, which outlives the run. Operations: parse the arguments, read the TypeSpec,
JSON Schema and publication sources and the policy, compare, write the receipt, exit 0, 1
or 2. Hard: a reader of TypeSpec without a grammar, a gate that must not open by mistake,
a write that fails half-way, the receipt of an earlier run. Correct when exit 0 under
`--require-pass` says that the sources agree.

**Migration and backfill of the plane** - `sql/customer.sql` 177-208, 676-688. Existing
rows are numbered and the clock is raised once, under a table lock.

**Billing and its webhook ledger** - `sql/customer.sql` 704-868. A provider delivers an
event at least once; the unique (provider, event) row is inserted once and processed
once. The worker that sets `processed_at` is in another repository.

**Realtime and row-level security** - `sql/customer.sql` 440-606: static grants, policies
and publications.

**Agent and operations planes** - `sql/ai_agent_control_plane.sql`,
`sql/operations_control_plane.sql`, `sql/ai_agent_memory.sql`, `sql/ai_agent_bridge.sql`,
`sql/migrations/`. Tables with constraints and update triggers. Services in other
repositories make the transitions between their states.

**Shared Auth guard** - `adapters/shared-auth-rust/src/lib.rs`. State: a cached key set
(`jwks_cache`) and a refresh mutex (`jwks_refresh`), shared by all requests; for one
request, two arms (the exchange and introspection at Shared Auth, the direct question to
the provider) that race under a deadline. Operations: `verify_local`/`current_jwks`,
`authenticate`, `authenticate_shared`, `authorize`. Hard: keys rotate while they are
cached, many callers miss the cache at once, a caller drops its future between any two
awaits, account and roles change between two answers, either authority is down, slow or
refuses. Correct when a good token is not refused because of a stale cache, retired keys
expire, privilege is only granted while it is held, an outage never looks like a refusal,
and every request is decided.

**Founder governance** - `design/*.mjs`, with `design/founder-governance-versioning.md`
and `design/founder-governance-residual-assumptions.md`. Five executable models:
 - *executor* (`founder-governance-executor-model.mjs`): a protected provider action is
   authorized, claimed in a ledger by idempotency key under a fencing token, sent, and
   reconciled when its outcome is unknown. Hard: stale tokens and generations, takeover
   of an unfinished execution, unknown outcomes, fields that change off the platform;
 - *continuity states* and *death and succession* (`founder-governance-state-model.mjs`,
   `founder-governance-death-succession-model.mjs`): the states of the company when a
   founder is away, incapacitated, gone or dead, who may move it on, after how long, and
   what may be done meanwhile. Hard: windows that overlap, rival groups, people who are
   suspended between two steps, people with several roles, actions authorized in one
   state and executed in another, states that nobody can leave;
 - *proposals, approvals and policy replacement* (`founder-governance-reference.mjs`,
   `founder-governance-transition-reference.mjs`): when a policy may replace another, when
   the approvals of a proposal suffice, and which authority a transition may ask for. Pure
   functions over documents, whose answers a chain of replacements and a directory of
   participants that changes bring together;
 - *adversarial explorer* (`founder-governance-adversarial-explorer.mjs`): a harness that
   enumerates cases of the four others.

### 1.2 The parts without behaviour of their own

Contract generators and provenance checks (`src/*.mjs`), the style conformance tool
(`tools/fp-conformance`) and lint gates, the opportunity application policy, and the
bindings generated for databases and WebAssembly. They are single passes over files, or data.

### 1.3 How the parts interact

The guard decides who a caller is before a service touches a plane; it shares no state
with SQL. All writers of one plane interact through the row lock on `sync_clock` and the
locks on rows; writers and clients interact only through committed rows and tombstones.
A continuity transition raises the generation that an authorization carries and that the
executor compares: that is how the continuity models and the executor meet, once as the
stale `view` of `GovExecutor` and once as the `granted` of `GovContinuity`. A proposal of
`GovPolicy` is bound to the policy and the continuity state it names; the executor's
authorization is what such a proposal becomes. The wire types carry the fencing tokens and
versions between peers, and share no state with the other parts.

## 2. Modules

| module | of | models |
|---|---|---|
| `SyncPlane` | sync plane | transactions, triggers, clock lock, cascades, clients |
| `SyncFeed` | sync plane | abstract specification: ordered batches, gap-free catch-up |
| `SyncPlaneFeed` | sync plane | the refinement mapping from `SyncPlane` to `SyncFeed` |
| `SyncLocks` | sync plane | PostgreSQL row locks, and the order in which statements take them |
| `SyncIdempotency` | idempotency ledger | `sync_idempotency_keys` and the transaction of a writer that uses it |
| `JwksCache` | guard | `verify_local` and `current_jwks`, concurrent callers, key rotation |
| `GuardRace` | guard | `authenticate`, `authenticate_shared`, `authorize`, authorities that change |
| `GovExecutor` | governance | `executeProtectedAction`, ledger, provider |
| `GovRules` | governance | rule tables and decisions of both continuity models |
| `GovContinuity` | governance | the company: transitions, suspensions, actions, the clock |
| `GovPolicy` | governance | replacement of a policy, proposals and approvals |
| `WireTypes` | wire types | the structs, and which fields are of which kind |
| `WireContract` | wire types | schemas, decode and encode, and the way of a document through peers |
| `IntakeTypeSpec` | intake tool | the line reader of TypeSpec |
| `IntakeAudit` | intake tool | the JSON Schema side, the policy and every comparison |
| `IntakeGate` | intake tool | runs of the tool: arguments, files, receipt, exit code |
| `MC...` | | constants for TLC that a `.cfg` cannot write |
| `...Proofs` | | theorems and proofs about the module of that name; `SyncTxnProofs` about `SyncLocks` and `SyncIdempotency`, `GuardProofs` about `JwksCache` and `GuardRace` |

### 2.1 SyncPlane

`clock`, `live` and `tomb` are the committed `sync_clock.last_sequence`, synced tables and
`sync_tombstones`; `holder` is who has the row lock on the clock. A transaction works on an
overlay (`dirty`, `wlive`, `wtomb`, `wclock`) that becomes visible at `Commit` in one
step. `Issue` takes the statement's snapshot of its target (`stmt.seen`); `LockClock` is
the statement trigger, and may come much later. That is READ COMMITTED: an UPDATE finds
the row of its snapshot and rechecks `version = base` on the row as it is under the lock,
if that life of the row still goes on (`CasMatches`); a DELETE removes the row if it still exists (`DeleteMatches`). `RunInsert`,
`RunUpsert`, `RunUpdate` and `DeleteRow` contain the row triggers; an upsert of an existing
row runs the insert trigger too and wastes a sequence, as in PostgreSQL. `References` are
the foreign keys ON DELETE CASCADE; a row may have several parents (an API key has an org
and a project). `DeleteRow` takes the rows of a cascade in any order, since that in which
PostgreSQL fires the foreign-key triggers and the tombstone triggers is not the repository's. `Rollback` stands for an error and a lost session too. A client asks for a page
(`FetchPage`), stores it and advances to its last item (`ApplyPage`), or never gets to that
(`DropPage`).

`SyncFeed` says the same without any of this: a horizon that grows, changes that appear
above the old horizon, and clients that, when they advance, know exactly the latest change
of each row that is not above their cursor. Under the mapping of `SyncPlaneFeed` only
`Commit` and `ApplyPage` are steps; everything else stutters.

### 2.2 SyncLocks

The data is gone and the locks are kept: which rows each kind of statement locks, in
which mode and order, with PostgreSQL's conflict table. `Guarded` statements start with the
clock, as the statement triggers make them; `Unguarded` ones are those on tables that have
no such trigger, and `claimKey` is the insert into `sync_idempotency_keys`, which waits for
another of the same key. Nothing in the database keeps a transaction to an order of
statements, and so nothing in the model does: the history `course` says whether one has kept
the order that the writers are told to keep (a claim first, then a guarded statement before
any other that locks rows) or has strayed. `AbortDeadlocked` is PostgreSQL's own way out of a
deadlock. Its
definitions have names of their own (`LocksSpec`, `lockVars`), as those of `GuardRace` have
(`RaceSpec`, `raceVars`), since one module of proofs extends each with another component.

### 2.3 SyncIdempotency

`ledger` is the committed table. A session receives a request (`Receive`: first delivery,
retry or late duplicate, at any session), claims its key (`Claim`, which waits for another's
uncommitted claim as an index entry does, or `Conflict`), makes the version-CAS mutation
(`Mutate`, or `Stale`, which rolls the claim back too), records `committed_version`
(`Record`) and commits all of it in one step. After a conflict the entry is read in a
statement of its own, by when it may have been pruned: `Replay` or, for another fingerprint,
an incomplete entry, a legacy row without a fingerprint or none at all, `Refuse`. An old
writer that sends no fingerprint fails the check constraint (`RefuseUnbound`). `Prune` removes
completed keys only. The table, its constraints and triggers are the repository's; the
order of the writer's statements is the protocol that the comment above the table sets.

### 2.4 JwksCache

One action per stretch of code between two awaits: `ReadCache`, `Lock`, `UseRefreshed` or
`SendFetch` (the second look under the mutex), `Serve` at the authority, `Receive` or
`FetchFails`. `Drop` may end a future at any await and releases what it holds. `Verdict` is
`decode_with_jwks` with the retry of `verify_local`: an unknown key id forces one refresh.
`lastPub` and `absent` are histories that the properties refer to. `Tick` cannot pass
`arm_timeout` while a fetch is out, since the HTTP client ends it by then.

### 2.5 GuardRace

One call at a time, since calls share nothing. `shared` and `direct` are the arms,
`reply` and `told` the answers on their way to them, and `AuthenticateOutcome`,
`SharedOutcome` and `AuthorizeOutcome` the tables of `race_authentication`,
`authenticate_shared` and `race_authorization`. An account is nobody's, of this project, of
it but another one, elsewhere, or of this project with an identity that
`validate_shared_identity` refuses ("unsound"); the provider refuses a credential, accepts
it, or accepts it for an identifier or email that the guard cannot use ("unusable").
`Coherent` compares the account and the roles that were minted with those that introspection
finds; each of these checks ends its arm Invalid, as a refusal does. `WorldChanges` and `SessionEnds`
may happen between any two messages; `seen` collects the worlds of a call.

### 2.6 GovExecutor

`executeProtectedAction` has no await before its end in which another call could run, so
it is one action with three outcomes, `Duplicate`, `Execute` and `Reconcile`. What makes it
concurrent is its arguments: lease, generation and capability are what the executor read
earlier (`view`, `held`). Every `Behavior` of the simulated provider is there, including
exceptions before and after it applies and a reconciliation that does not answer, and
`Drift` changes the field off the platform. Hash and tenant comparisons are folded into the
identity of a proposal.

### 2.7 GovRules and GovContinuity

`GovRules` has the two rule tables as sets of records, the quorum, the conditions on the
subject, and one decision operator per state. Delays keep their order and lose their
length. `CoreRegistry` is what `RivalQuorumsMeet` depends on in the default registry
(`founder-governance-state-model.mjs` 31-62): two founders, at most one guardian.
`GovContinuity` runs them on one state: `Apply` is `authorizeTransition` and
`applyTransition` (or those of the death model) with any request that can have been filed
by now and has not expired; `SetStatus` suspends and reinstates any participants at once; `Authorize` and `Execute` are two steps. `trail`
has one state per generation. `taken`, `subject`, `opened`, `declarers` and `done` are
histories.

### 2.8 GovPolicy

`IsRuleAtLeastAsStrong`, `IsPolicyReplacementNonWeakening` and `ApprovalsSatisfyProposal`
are the functions of those names in `founder-governance-reference.mjs`, as conditions on
records. What a test of one call does not reach is their use in a row: `Replace` compares a
draft with the policy in force and with no earlier one, so being as strong has to carry
over a chain; `Amend` changes the directory between `Propose`, `Approve` and `Execute`; and
of the approvals of a participant only the last counts, since the code keeps them in a map.
A document is its hash, and `genuine` says whether it is what it declares.

These follow the code and are worth knowing when it is read:
 - a participant who signs in two roles is counted with the later one only;
 - an approval signed by a suspended participant counts once the suspension is lifted;
 - `created_at_ms` is the proposer's word, so a date in the past shortens the cooldown;
 - `approvalsSatisfyProposal` checks neither notices, nor the ttl, nor the constraints;
 - nothing compares the continuity state of a proposal with that of the company, and the
   proposal schema has no continuity generation, though
   `design/founder-governance-versioning.md` 56 lists it among what the hash covers; the
   executor is what checks the generation;
 - "pass the current policy's authorization rule" (versioning.md 88) is not a part of
   `isPolicyReplacementNonWeakening`; a caller has to ask for it.

### 2.9 WireTypes and WireContract

`WireTypes` lists the fields of each struct, which are `Option`s and what kind each has, in
one record per schema file (`Families`).
`Conforms` is what a schema asks: presence, no unknown field, kinds, ranges, nulls and the
conditions between fields (`Together`); a `serde_json::Value` holds anything, but of the
schemas only those of `output` and `value` let it, the others ask for an object
(`Anything`). `Decodes`, `Decode` and `Encode` are what serde does
with the struct; `Parse` is a JavaScript engine, which has only doubles. A fraction of a
number at or above 2^52, which no double has, is left out of `JsonValue`. A document goes
`ValidateJson`, `DecodeJson`, then `Validate` and on to the next peer, or through a `Browse`;
a holder may turn its grant into a release request (`Release`). The ends are `refused`,
`failed` (the "typed decode failed after schema validation" of `validation.rs`) and `stuck`
(a struct that its own peer cannot write).

To know when reading the schemas: they do not forbid a `fencing_token` when `acquired` is
false; and `revision`, `generation` and `prev_revision` have no maximum, so a browser may
round them without an error.

### 2.10 IntakeTypeSpec, IntakeAudit and IntakeGate

The reader is a fold over lines. What a line is (`Lines`) says what TypeSpec means by it: a
field is a field on a line of its own (`field`) or in another form (`loose`), a member of an
enum has a value with or without a string, a remark has none. A type has the values it
admits and the strings that its text quotes, which need not be the same. `ReadLine` is what
the tool makes of such lines; `DeclaredFields`, `DeclaredMembers` and `DeclaredValues`, which
nest braces and count every form, are what the source declares.

`IntakeAudit` has the readers of definitions and `$ref`s, the policy's own validity and the
comparisons; of an operation it keeps apart the models in the type of its `@body` (`sent`)
and those in the rest of its signature (`returned`), as the tool does not (`Mentions`).
`IntakeGate` has the run, from `Call` to its exit code. `WriteReceipt` is
`fs::write`, which empties the file before it fills it. `Edit` changes the sources between two
runs.

`Agree` says, without any of the readers, when the authorities agree; an operation agrees when
the model asked for is the one it sends. `Flat` is a source in which nothing nests and blocks
close on a line of their own, and `ReadWhole` says how far the tool reads such a source: every
model and enum, every field but the loose ones, every member's value that is written as a
string, and for a member only such other strings as stand in the enum. `Plain` adds what
keeps these exceptions out, which is what exit 0 is a claim about. `WellFormed` only says what
sources are made of, and is assumed of all of them; `Refusable` lists the texts that the
reader may turn down.

Outside of the layout the tool reads less, or more, than is written. These are limits of its
readers, and where a document promises otherwise 3.3 says so:
 - a field with a decorator or a comment on its line, of several lines, or ended by a comma is
   not read; an inline object's `};` ends the model;
 - an enum member without a string is not read, while a string in an enum's `@doc` is taken for
   a member, and one in a field's default value or comment for a value;
 - an alias, a named union, a `oneOf` and a second `$ref` read as having no values, and so
   does a `const` that is no string; an `enum` of other values than strings is an error;
 - operations, models of a body and routes are looked for as parts of a text: `create(`
   is found in `recreate(`, and the model of a body anywhere in the signature, in the type
   that is returned as well;
 - a decorator counts up to the last two newlines in a row. An empty line that has blanks, or
   that ends in CR LF, does not end the decorators of the operation before it (`gap`);
 - a `required` name without its property is ignored, and a `$ref` to nothing is reported
   as a missing definition.
The agreement of values is one of strings: numbers and other literals are compared by
neither the tool nor the model.

`docs/commercial-intake-peer-sources.md` 69 says that `--require-pass` writes the receipt and
returns 2; under a policy that expects PASS a discrepancy ends with 1 and without a receipt,
because the status is compared with the expected one first. The receipt of an earlier run,
or a torn one, then stays on the disk: `ReceiptIsReviewed` claims nothing of exit 1.

## 3. Model checking

| run | module | shows |
|---|---|---|
| `sync_plane` | `MCSyncPlane` | `NoSkip`, `NoSilentDelete`, `NoLastingOrphan`, `NoLostUpdate`, the refinement `ImplementsFeed` |
| `sync_live` | `MCSyncPlane` | `ClientsCatchUp`, with no fairness for writers |
| `sync_locks` | `SyncLocks` | `OnlyStraysDeadlock`, `WaitersServed` |
| `sync_idempotency` | `MCSyncIdempotency` | `AtMostOnce`, `AnswersAreTrue`, `LateEffectNeedsRebirth` |
| `jwks_cache` | `JwksCache` | `SingleFlight`, `PublishedKeyAccepted`, `StaleKeyBound`, `CacheNeverRegresses`, `RequestsDecided` |
| `guard_race` | `GuardRace` | `PrivilegeIsHeld`, `IdentityIsProven`, `RefusalIsTrue`, `DenialIsTrue`, `CallsDecided` |
| `gov_executor` | `MCGovExecutor` | `SentOnce`, `FencedSends`, `TruthfulAnswers` |
| `gov_continuity` | `MCGovContinuity` | `TakeoverNeedsTwo`, `PassageTakesTime`, `RivalQuorumsMeet`, `SurvivorsCanLeave`, `ActionsFitState` |
| `gov_own_death` | `MCGovContinuity` | the finding of 3.3: `SubjectNeverDeclares` is violated |
| `gov_policy` | `MCGovPolicy` | `NeverWeakened`, `AuthorityOnlyShrinks` |
| `wire` | `MCWireContract` | `DecodeNeverSurprises`, `AuthorityExact`, `NothingLost`, `GrantsCanBeReleased`, `StuckOnlyOnNull` |
| `intake_gate` | `MCIntakeGate` | `ReadsWhatIsDeclared`, `PassIsAgreement`, `AgreementPasses`, `ReceiptIsReviewed` |

Each property is stated in words above its definition. `NoLostUpdate` has two parts: a
commit that changes a row raises its version, and the CAS of an edit never overwrites a
change its author has not seen.
`AnswersAreTrue` is about acknowledgements and refusals alike.

Each property of a passing run has a mutant in `PROJECT.json`: a change of one mapped
definition, of the kind that a mistake in the code would be, under which TLC finds that
property violated.

### 3.1 Bounds

*sync_plane*: an org and a project that references it, two writers, one client, pages of
one item, four sequences. Two writers are what a race for the clock takes; the parent and
the child give the cascade, the foreign-key failure and, with two tables, the merge of
feeds; a page of one item splits every batch; four sequences are enough for a row to be
inserted, changed, deleted and inserted again, or for a cascade after two inserts. Writers
are interchangeable, and all properties of this run are safety properties, so it is
checked up to their symmetry. The
invariants behind the proofs about cascades and edits were also checked on an org, a project
and a key that references both, with one writer and six sequences (457,512 states).
*sync_live* has one writer, since liveness cannot use the
symmetry, and the client waits for no writer anyway.

*sync_locks*: one id of each table and three transactions of up to two statements; a
cycle of waiting can have any length up to the number of transactions. The four kinds of
`Issued` take every lock there is a rule about: a claim, a guarded statement on a synced table,
the guarded delete of a user with its cascade, and an unguarded insert whose foreign keys
share an org and a user with them. Cycles with and without a stray, with a key and with the
clock in them, are all within reach of it. The proofs are for all kinds and any number of ids.

*sync_idempotency*: two sessions that send fingerprints and an old one that does not; three
keys, one of which the migration finds in a legacy row; four requests, two of them under one
key, and an insert, updates and a delete of the same row; each key pruned once, so that a
late duplicate finds its key gone. Requests are delivered without limit.

*jwks_cache*: two callers, two keys, a ttl and a timeout of one tick, two ticks. One caller
waits while the other fetches, keys change in every way two keys can, and a cached set
becomes stale while a fetch is out. `Genuine` is {TRUE}: a token whose signature does not
verify under its own key is rejected whatever the cache holds, so only the others tell
something about the cache. The proofs are for any `Genuine`.

*guard_race*: one role, which is required, and calls that live through two worlds, the
authorities before and after a change; every decision of an arm depends on two answers at
most. All accounts, all answers of the provider and all entry points are there. The proofs
are for any roles, any of them required, and any number of worlds.

*gov_executor*: two executors, two proposals that set the same field to different values,
one of them constitutional, two tokens, two generations and one scope. Two executors and
two tokens are a takeover; the field is what could mislead a reconciliation. The rejection
of a takeover from another scope does not arise with one scope; the proofs are for any
scopes. `Unsupported` is empty in this run.

*gov_continuity*: two founders, a guardian, and an estate representative who is the operator
too, so that heads and roles differ; delays 1, 1, 2, 2, three ticks, and a request that may
have been filed at any time and expires now or later. That is long enough for every chain of
windows to overlap. A request lacks
nothing or the mediation papers, the one kind that separates rules which leave the same
state. The proposed actions are constitutional ones, for which states differ most; the
proofs are for all classes. `restored` has no way out in the code;
the company stays there while time, suspensions and actions go on. The default registry of
the code has six participants with one role each; this one merges two of them, since a
successor and an operator only add routine actions.

*gov_policy*: a founder and a guardian, two roles, one credential, two continuity states,
a first policy that needs both roles for an action in one state and says nothing of the
other. Drafts change one field to something looser, prohibit, or make up to three fields
stricter, or add a rule for the other state; `MaxVersion` is 3, so replacements chain twice;
a draft has the current or the next version and replaces the current or the first policy.
One proposal and two approvals, dated 0 or 1; three times; a directory entry is an active
founder, a person active in both roles until time 2, or suspended. A second proposal would
share nothing with the first. `Genuine` is {TRUE}: a document that is not what it declares
is refused at once. The proofs are for any number of any of these.

*wire*: 2^53 is scaled to 8 and the largest i64 to 15, which keeps a double's rounding to
even, and the bounds far below both (24 hours, a million, 100 percent) to 4. Of each type
there are documents with all fields, the required ones, or any of those that depend on one
another, then one field dropped, added, null, of another kind, or at any boundary of its
range: some 20,000 documents, each passed on up to twice through any peers, since a second
peer sees what the first has written and a third nothing new. The holder of a lock, a
string, is taken to be one that the request schema allows.

*intake_gate*: one model against one definition, with up to three fields of every form and
kind of type, an enum with members of every form, and up to two operations; every TypeSpec
text of up to three lines in a block; the publication, the policy and files that cannot be read
or parsed: 3,419 contents, six argument lists, and two runs, which is what a receipt that
outlives its run takes.

Deadlock is checked in every run but *wire* and *intake_gate*, where a document or a series of
calls comes to its end.

### 3.2 Fairness

 - `SyncPlane`: a client keeps asking (weak fairness of `FetchPage`), and its responses are
   not lost for ever (strong fairness of `ApplyPage`, which `DropPage` can keep disabling).
   Nothing is assumed of writers: a session may sit on the clock for ever, which keeps
   other writers but not clients waiting.
 - `SyncLocks`: a transaction that has its locks ends (weak fairness of `CommitTxn`), a deadlock
   that lasts is found by `deadlock_timeout` (weak fairness of `AbortDeadlocked`), and a lock
   that keeps coming free is granted (strong fairness of `Grant`; PostgreSQL queues the
   waiters of a row). Foreign-key checks share a row and may pass one that waits to have it
   alone; it is assumed that they do not do so for ever (`Passed`).
 - `JwksCache`: the runtime polls futures that are ready (weak fairness), `arm_timeout` ends
   a fetch (`Receive \/ FetchFails`), and tokio's mutex is first come, first served (strong
   fairness of `Lock`). Nothing is assumed of the authority.
 - `GuardRace`: `arm_timeout` ends each arm. The deadline is not needed: `CallsDecided` says
   that the loop around `select!` ends when both arms have.
 - The governance models make no liveness claim: nobody has to act.

### 3.3 Findings

*The subject of a death is not carried along* (`gov_own_death`). The exclusion of the subject
is checked per request; the confirmation of a claim can name somebody else, and then be
approved by the founder whose death was claimed.

The following differences between a text and the code were met too, and are not runs:
 - *Version of a reused id.* `version` is documented as a monotonic per-row counter used as a
   tiebreak (`sql/customer.sql` 15). After a delete, whose tombstone has v + 1, an insert of
   the same id starts again at 1 (106; `sql/admin.sql` 32). `sync_sequence` still orders the two.
   `LateEffectNeedsRebirth` says what this leaves of a late duplicate.
 - *Writers that stray from the order.* The comment on `lock_sync_clock` says that it keeps
   multi-table writes from deadlocking (`customer.sql` 72-74). It keeps those from it that touch
   synced tables only, that claim their key first (611-615) or that delete users (226-229). A
   transaction that updates a user or adds a member before its first guarded statement
   locks rows before the clock and can deadlock with a guarded delete; one that claims its key
   after a guarded statement, with one that claims the same key first; and a lone insert of a
   member, which locks an org and a user and never the clock, with a transaction that deletes
   the one and changes the other. PostgreSQL then aborts one of the two, and `WaitersServed` holds all
   the same. `OnlyStraysDeadlock` says that in every deadlock there is such a transaction.
 - *Direct fallback after a refusal.* The direct arm is documented to stand in for an
   unavailable Shared Auth (`lib.rs` 11-12); it authenticates after a refusal as well (344).
 - *Takeover replaces the fencing token.* `versioning.md` 80 says that an unresolved execution
   keeps its token until it has a terminal receipt; `executor-model.mjs` 71 replaces it.
 - *Null of an optional field.* `README.md` 87 says that null unions remain nullable in every
   generated language, and the comment on `LockAcquireResponse` gives null as its answer to a
   failed try-lock (`generated/rust/src/lib.rs` 2014). The field is skipped when it is None
   (2015), so a Rust peer that passes such a response on writes it without `position` and
   `wait_expires_ms`, and it no longer validates. `StuckOnlyOnNull` says that this is the only
   such case.
 - *Models of request bodies.* The parity engine is said to compare request-body models
   (`docs/commercial-intake-peer-sources.md` 64) and body models
   (`tools/commercial-intake-parity/README.md` 5). It asks for an `@body` and for the model's name
   anywhere in the signature (`lib_part_05.rs` 198-204): `create(@body x: B): A` passes for a
   policy that asks for the body model `A`. `PlainOperation` leaves such signatures out of
   `PassIsAgreement`, and those in which the name is part of another.
 - *Fields and members that are not compared.* The same texts speak of field presence and enum
   values without an exception. A `loose` field and an enum member without a string are not
   read (`lib_part_03.rs` 68-75), and all strings between an enum's braces are read as members (106).
   A field that is in neither table cannot be missing, so the tool passes over a TypeSpec field
   in such a form that the schema does not have. The authority it reads in CI is in another
   repository.

## 4. Proofs

All theorems are about `Spec` (`LocksSpec`, `RaceSpec`) with any values of the constants that
satisfy the named assumptions of the modules: any sets of rows, foreign keys, sessions,
clients, callers, keys, executors, proposals, scopes, participants, documents and sources,
any bound. The bounds on counters are guards of the actions and are not used in an argument.
One theorem has a hypothesis besides: `CoreRegistry` in `RivalsMeet`, of which 4.1 speaks.

| module | theorems | along which argument |
|---|---|---|
| `SyncPlaneProofs` | `TypeCorrect`, `Invariance`, `CatchUpNeverSkips`, `GloballyUnique`, `DeletionsReachClients`, `CommitsInOrder` | `IInv` of `SyncPlane` |
| | `NoOrphanLasts` | `ReferencesInv` |
| | `NoUpdateIsLost` | `LivesInv` |
| | `PlaneImplementsFeed` | step simulation under `IInv` |
| `SyncTxnProofs` | `OneAtATime`, `DeadlocksNeedAStray` | `LocksInv` of `SyncLocks` |
| | `Invariance`, `OneEffect`, `TrueAnswers`, `CasOutlivesLedger` | `IInv` of `SyncIdempotency` |
| `GuardProofs` | `Invariance`, `FetchesAreShared`, `NoStaleRejection`, `CacheIsMonotonic`, `RetiredKeysExpire` | `IInv` of `JwksCache` |
| | `RaceInvariance`, `PrivilegeHeld`, `IdentityProven`, `RefusalTrue`, `DenialTrue` | `RaceInv` of `GuardRace` |
| `GovExecutorProofs` | `Invariance`, `SentAtMostOnce`, `SendsAreFenced`, `AnswersAgree`, `AnswersAreTrue`, `QuorumForConstitutional` | `IInv` of `GovExecutor` |
| `GovContinuityProofs` | `Invariance`, `TakeoverTakesTwo`, `PassageIsSlow`, `ActionsFit` | `IInv` of `GovContinuity` |
| | `RivalsMeet`, `SurvivorsLeave` | types and the rule tables; `CoreRegistry` for the first |
| `GovPolicyProofs` | `Invariance`, `FirstPolicyStillHolds`, `ReplacementsOnlyNarrow` | `IInv` of `GovPolicy` |
| `WireContractProofs` | `Invariance`, `DecodeIsForeseen`, `AuthorityIsExact`, `NothingIsLost`, `GrantsAreReleasable`, `StuckIsExplained` | `IInv` of `WireContract` |
| `IntakeGateProofs` | `Invariance`, `ReceiptsAreReviewed` | `IInv` of `IntakeGate` |
| | `WhatIsDeclaredIsRead` | `ReaderInv`, along the text |
| | `PassesOnlyAgreement`, `AgreementIsPassed` | `PassMeansAgree`, with both of the above |

Each inductive invariant of a specification was first found to hold by TLC on an instance of
3.1. The runs
check the properties that follow from it. Every safety property of a passing run, its action
properties and its refinement are stated by one of these theorems.

*SyncPlane.* `NoSkip` alone says nothing of uncommitted rows and pages in flight. `OneWriter`
says that only the holder of the clock has an overlay, and counts on from the committed
clock; `OverlayWellFormed`, that what is new in it is above that clock; `ClockBound`, that
all that is visible is not; so a commit publishes above every cursor. `PageFaithful` carries
this through a page: it was read before other commits, and these are above its end.

That no client keeps an orphan for good follows from two things: what is above no change of
a row is that row (`NoSkip`), and no committed row is without one it references
(`ChildHasParent`). The second is not inductive, since a cascade passes through states in
which half of a family is gone. `ReferencesKept` says what a transaction sees meanwhile: a
row's parents are all there, unless a running cascade has still to remove the row
(`StillToGo`), and it has still to remove all that references such a row. In whatever order
the cascade goes, nothing of it is left when it ends, with any number of parents and levels.
That no edit is lost rests on what a copy is: `LivesInOrder` gives each life of a row a sequence at
which it began, `CopiesAreTrue` says that a copy of this life with the version of the row is
the row. So an update that finds the version of its copy finds the copy, unless the row has
begun another life; and this holds of copies in pages and in statements that wait for the
clock.

*SyncLocks.* `KeepsOrder`: a transaction that has not strayed waits for a key with nothing in
hand and for the clock with no row in hand, and holds the clock when it waits for a row or
holds one; and one transaction at a time holds the clock (`OneAtATime`). So suppose that
nobody in a set of waiting transactions has strayed. If one of them holds the clock, what it
waits for is a row, which only another holder of the clock could keep from it. If none does,
none holds a row, whoever waits for a key waits for one that waits for the clock, and that
one waits for nobody in the set. So in each deadlock there is a stray (`DeadlocksNeedAStray`).

*SyncIdempotency.* A claimed key has one holder and no committed entry; who has written the
row is alone, and the row is still what its CAS matched; until its key is pruned an effect
has its entry, and an entry with a fingerprint stands for an effect, so a replay is true and
a second claim impossible. After pruning only the version is left: `RowRemembers` says that
the row is past every effect since it was last born or deleted.

*JwksCache.* Between lock and unlock there is only the holder of the mutex; a fetch that is
out is younger than the cache, and its answer is too, so the cache never goes back. A set
was served when its answer was made and is under way for at most `arm_timeout`, and so a key
in a set that still counts was served less than `ttl + arm_timeout` ago.

*GuardRace.* What is on its way to an arm, and what an arm ended with, was true of a world
of this call; decisions follow from the arms by the tables. An arm that ended Invalid was
refused, or was told of an identity that the guard cannot use, or was told two things by
Shared Auth between which the account changed (`SharedRefusal`); so a call that is refused
was refused for one of these reasons, and never because an authority was down.

*GovExecutor.* The ledger has an entry for every call of the provider, pending or with its
receipt (`LedgerComplete`), which is why none is made twice; the high-water mark of a scope
is not below any token that reached the provider; and receipts say what the provider's own
log says of the key, whatever the field holds.

*GovContinuity.* No rule leads back to `normal`, so `taken` and the second state of the trail
are fixed by the first transition. `opened` is never later than the filing of any request
that took effect, so the window of the last rule is a lower bound for the whole passage.
A grant that is still of this generation met this very state, and by `ActiveMembersMayAct`
what the signers could do, the active ones among them could have done; so it fits the state
in which it is executed.

`RivalsMeet` needs no history. Each rule asks for certain roles and a number of people; of
two rules that leave a state for different ones, either both need the guardian, of whom there
is one, or one needs both founders and the other at least one of them. `SurvivorsLeave`
goes through the states: for each there is a rule that three active people with these
roles can use.

*GovPolicy.* "At least as strong" is reflexive and transitive on rules, an absent rule
included, so the policy in force is as strong as the first (`IInv`) however many
replacements lie between. A decision of the last step still stands, by the rule in force;
that rule asks for what the first asked for. Since one approval is counted for each
participant, the required roles are spoken for by different people: the map from a role to
its speaker is injective.

*WireContract.* The cap on tokens is below the first number that a double rounds, and what is
above the cap stays above it when it is rounded (`DocExact`): so a token is exact or is refused
for ever. `Held` says what a struct in memory is good for: each field has what its schema
asks, nothing is missing but an explicit None, and what is written from it is accepted again
unless an optional null was read. That a release can be written from a grant needs
both, and a look at the table for the types that grant.

*IntakeGate.* The run itself is a short invariant: what is written is the receipt of an audit
that came out as reviewed. The weight is in what an audit computes. The reader is a fold over
lines, which `FoldIsChosen` and `ReadsInOrder` unroll into a sequence of states, one per
line; `Along` is induction along it, stated as the absence of a least counterexample.
`ReaderInv` says what the reader has after each line: complete tables of the blocks that are
closed, and the fields or members so far of the one that is open. `DepthStep` and
`InBlock` tie its place to the layout, in which blocks do not nest. What it has read is then what
is declared, but for what `ReadWhole` names; in sources that are `Plain` there is none of that,
so the models, fields and
values that the two sides are compared on are the ones that are declared, and `PairPasses`,
`OperationPasses` and `PublicationPasses` show each comparison to be agreement, in both
directions; `PassMeansAgree` puts them together.

### 4.1 What is only model-checked, and what the proofs assume

 - Liveness: `ClientsCatchUp`, `WaitersServed`, `RequestsDecided`, `CallsDecided`. TLAPS has no
   reasoning about fairness or ENABLED to offer here.
 - `SubjectNeverDeclares` is violated (3.3).
 - `RivalsMeet` assumes `CoreRegistry`. In another registry it is false: two guardians, each with
   one of the founders, could lead the company to different states.
   `design/founder-governance-residual-assumptions.md` 59 leaves any number of founders and
   guardians out of what the design claims. `MCGovContinuity` assumes it too, so TLC evaluates it for
   the registry of 3.1. `SurvivorsLeave` holds in any registry.
 - The theorems about the intake tool are claims about sources in the layout of `Flat` and
   `Plain`, as the properties are; 2.10 says what happens outside of it.

## 5. What is not modelled, and why

 - In the sync plane: rows that move between tenants, ON DELETE SET NULL on unsynced
   tables, savepoints, the migration, and catch-up by several tenants, whose feeds are
   filtered by row. `admin.sql` has the same triggers under other names; one model stands
   for both.
 - In the guard: the roles of nobody and of an account elsewhere, header parsing, the HTTP client, blank and oversized tokens, the signature
   and claim checks beyond their verdict, and `with_static_jwks`, which tests use.
 - In the guard, too: forced refreshes are not coalesced (`lib.rs` 465): each caller with an
   unknown key id fetches while it holds the mutex, one after the other. The cost is a number
   of requests at an authority that the model does not count; `SingleFlight` is about the
   callers that only miss.
 - In governance: hashes, signatures and the contents of documents; an approval is for
   one proposal, and papers are names. `founder-governance-transition-reference.mjs` counts
   approvals in the way of `GovPolicy` and is left out. Requests are signed by their filers somewhere
   else; the models take any request that may exist.
 - On the wire: nested documents, the contents and patterns of strings and arrays, and the
   structs of the commercial intake. The services that answer are in other repositories. The
   bindings for WebAssembly and databases are declarations of the same types.
 - In the intake tool: the JSON reader and printer (`lib_part_01.rs`), the text of
   messages; of TypeSpec, inheritance, spreads, templates, quoted field names, braces in other
   places than `Lines` has them, and a comment without a blank that reads as a field (`//a: b;`). The workflow that calls it (`.github/workflows/commercial-intake-peer-sources.yml`)
   is the argument lists of the run.
 - Row-level security and Realtime, the billing tables, whose worker is elsewhere, the agent
   and operations planes, the session assurance migration, the explorer, the contract
   generators, the opportunity policy, the style conformance tool: see 1.

## 6. Plan

Done: every module of section 2, with the proofs of section 4. What is left, in this order:

1. `GovTransitions`: `founder-governance-transition-reference.mjs` 109-262, the authority
   that a transition may ask for, composed with `GovContinuity`.
2. The migration of the plane: the backfill's numbering and the raise of the clock beside
   writers.
3. The webhook ledger: redelivery, failed processing, at most one effect.
4. Tenants in `SyncPlane`: rows that move between feeds, ON DELETE SET NULL.
5. A WebAssembly peer in `WireContract`, whose conversions are others than serde_json's.
6. Proofs: the decreasing measures behind the liveness properties, as action properties (what
   a client has left to fetch, how many can go before a waiter); what `SyncFeed` promises,
   from `SyncFeed` alone.
