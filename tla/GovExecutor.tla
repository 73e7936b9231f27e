----------------------------- MODULE GovExecutor -----------------------------
(***************************************************************************)
(* Policy-gated execution: executeProtectedAction, ExecutionLedger and     *)
(* SimulatedProvider of design/founder-governance-executor-model.mjs.  A   *)
(* call runs to its end without a suspension, so it is one action; what it *)
(* is called with - the lease's active fencing token, the continuity       *)
(* generation, the state of a capability - its caller has read earlier.    *)
(* Tenant, policy and hash comparisons are folded into the identity of a   *)
(* proposal: an approval is for one proposal, with its exact parameters.   *)
(***************************************************************************)
EXTENDS Integers, Sequences

CONSTANTS
  Executor,        \* callers of executeProtectedAction
  Proposal,        \* proposals, and so idempotency keys
  Scope,           \* fencing scopes
  Value,           \* values of the protected provider field
  NoValue,         \* the field is not set
  Sets,            \* what each proposal sets the field to
  Constitutional,  \* proposals of a constitutional action
  Unsupported,     \* proposals of an action that the provider cannot perform
  MaxToken,        \* bound: fencing tokens per scope
  MaxGeneration    \* bound: continuity generations

ASSUME ProviderAssumption ==
  /\ Scope # {} /\ NoValue \notin Value /\ Sets \in [Proposal -> Value]
  /\ Constitutional \subseteq Proposal /\ Unsupported \subseteq Proposal

VARIABLES
  lease,       \* the active fencing token of each scope
  generation,  \* the continuity generation
  capability,  \* the generation of the live delegated capability, 0 for none
  held,        \* the lease each executor got last
  view,        \* what each executor has read last
  highest,     \* ExecutionLedger.highestFencingTokenByScope
  pending,     \* ExecutionLedger.pendingByIdempotencyKey
  receipts,    \* ExecutionLedger.receiptByIdempotencyKey
  field,       \* SimulatedProvider.state
  log,         \* SimulatedProvider.requestLog: the result of each key
  sends,       \* the calls of provider.apply (history)
  told         \* the terminal answers that callers got (history)

context  == <<lease, generation, capability, held, view>>
ledger   == <<highest, pending, receipts>>
provider == <<field, log>>
vars     == <<context, ledger, provider, sends, told>>

Behavior == {"succeeded", "fail_before_apply", "throw_before_apply",
             "throw_after_apply", "apply_then_timeout"}

Mode     == {"direct_quorum", "delegated_authority"}
Lease    == [scope : Scope, token : Nat]
NoLease  == [scope |-> CHOOSE s \in Scope : TRUE, token |-> 0]
Receipt  == [scope : Scope, token : Nat, outcome : {"succeeded", "failed"}]
None     == [scope |-> NoLease.scope, token |-> 0, outcome |-> "none"]

TypeOK ==
  /\ lease \in [Scope -> Nat] /\ generation \in Nat \ {0} /\ capability \in Nat
  /\ held \in [Executor -> Lease]
  /\ view \in [Executor -> [active : [Scope -> Nat], generation : Nat, capability : Nat]]
  /\ highest \in [Scope -> Nat]
  /\ pending \in [Proposal -> Lease]
  /\ receipts \in [Proposal -> Receipt \cup {None}]
  /\ field \in Value \cup {NoValue}
  /\ log \in [Proposal -> {"none", "failed", "unknown", "succeeded"}]
  /\ sends \in Seq([proposal : Proposal, mode : Mode, scope : Scope, token : Nat])
  /\ told \in [Proposal -> SUBSET Receipt]

Context == [active |-> lease, generation |-> generation, capability |-> capability]

Init ==
  /\ lease = [s \in Scope |-> 0] /\ generation = 1 /\ capability = 0
  /\ held = [e \in Executor |-> NoLease]
  /\ view = [e \in Executor |-> Context]
  /\ highest = [s \in Scope |-> 0]
  /\ pending = [p \in Proposal |-> NoLease]
  /\ receipts = [p \in Proposal |-> None]
  /\ field = NoValue /\ log = [p \in Proposal |-> "none"]
  /\ sends = <<>> /\ told = [p \in Proposal |-> {}]

-----------------------------------------------------------------------------
(* Around the call.                                                        *)

\* The lease service gives an executor the scope, and so a new token.
Grant(e, s) ==
  /\ lease[s] < MaxToken
  /\ lease' = [lease EXCEPT ![s] = @ + 1]
  /\ held' = [held EXCEPT ![e] = [scope |-> s, token |-> lease[s] + 1]]
  /\ UNCHANGED <<generation, capability, view, ledger, provider, sends, told>>

\* An executor reads what it will call with.
ReadContext(e) ==
  /\ view' = [view EXCEPT ![e] = Context]
  /\ UNCHANGED <<lease, generation, capability, held, ledger, provider, sends, told>>

\* A continuity transition.
Advance ==
  /\ generation < MaxGeneration
  /\ generation' = generation + 1
  /\ UNCHANGED <<lease, capability, held, view, ledger, provider, sends, told>>

\* A capability is issued for the generation, or expires or is revoked.
Delegate(g) ==
  /\ capability' = g
  /\ UNCHANGED <<lease, generation, held, view, ledger, provider, sends, told>>

-----------------------------------------------------------------------------
(* The call.                                                               *)

\* capabilityAllows.
CapabilityAllows(e, p) ==
  view[e].capability = view[e].generation /\ p \notin Constitutional

\* Authorizations that may have been given: by now, for any proposal, in either mode.
Approvals == [proposal : Proposal, generation : 1..generation, mode : Mode]

\* The checks of executeProtectedAction before the ledger.
Admitted(e, a) ==
  /\ a.generation = view[e].generation
  /\ held[e].token = view[e].active[held[e].scope]
  /\ a.mode = "delegated_authority" => CapabilityAllows(e, a.proposal)

\* Mutant: an unfinished execution is started again.
ClaimRetries(p, l) ==
  IF l.token = 0 THEN "rejected"
  ELSE IF receipts[p] # None THEN "receipt"
  ELSE IF l.token < highest[l.scope] THEN "rejected" ELSE "claimed"

\* Mutant: the high-water mark of the scope is not looked at.
ClaimUnfenced(p, l) ==
  IF l.token = 0 THEN "rejected"
  ELSE IF receipts[p] # None THEN "receipt"
  ELSE IF pending[p] = NoLease THEN "claimed" ELSE "pending"

\* ExecutionLedger.claim.
Claim(p, l) ==
  IF l.token = 0 THEN "rejected"
  ELSE IF receipts[p] # None THEN "receipt"
  ELSE IF l.token < highest[l.scope] THEN "rejected"
  ELSE IF pending[p] = NoLease THEN "claimed"
  ELSE IF pending[p].scope # l.scope \/ l.token < pending[p].token THEN "rejected"
  ELSE "pending"

\* What provider.apply answers the first time it sees a key.
ApplyResult(b) ==
  CASE b = "succeeded"                                -> "succeeded"
    [] b = "fail_before_apply"                        -> "failed"
    [] b \in {"throw_after_apply", "apply_then_timeout"} -> "unknown"
    [] b = "throw_before_apply"                       -> "none"

\* Does provider.apply change the field?
Applies(p, b) ==
  log[p] = "none" /\ p \notin Unsupported
  /\ b \notin {"fail_before_apply", "throw_before_apply"}

\* The entry of the key in requestLog afterwards: an unsupported action throws first.
LogAfter(p, b) ==
  IF log[p] # "none" THEN log[p]
  ELSE IF p \in Unsupported /\ b # "fail_before_apply" THEN "none"
  ELSE ApplyResult(b)

\* Mutant: the field alone is evidence.
ReconciledByField(p, entry, value, answered) ==
  IF answered /\ value = Sets[p] THEN "succeeded"
  ELSE IF entry = "failed" THEN "failed" ELSE "unknown"

\* provider.reconcile: a key that was never logged stays unknown, whatever the field is.
\* answered is FALSE when the provider's state cannot be read (DelayedReconcileProvider).
Reconciled(p, entry, value, answered) ==
  IF ~answered \/ entry = "none" THEN "unknown"
  ELSE IF value = Sets[p] /\ p \notin Unsupported THEN "succeeded"
  ELSE IF entry = "failed" THEN "failed" ELSE "unknown"

\* buildReceipt and recordReceipt: an unknown outcome is answered and not recorded.
Answer(p, l, outcome) ==
  IF outcome = "unknown"
  THEN UNCHANGED <<receipts, told>> /\ pending' = [pending EXCEPT ![p] = l]
  ELSE LET receipt == [scope |-> l.scope, token |-> l.token, outcome |-> outcome] IN
       /\ pending' = [pending EXCEPT ![p] = NoLease]
       /\ receipts' = [receipts EXCEPT ![p] = receipt]
       /\ told' = [told EXCEPT ![p] = @ \cup {receipt}]

Raise(l) == highest' = [highest EXCEPT ![l.scope] = l.token]

\* The ledger has the receipt: it is answered again, whatever the token.
Duplicate(e, a) ==
  /\ Claim(a.proposal, held[e]) = "receipt"
  /\ told' = [told EXCEPT ![a.proposal] = @ \cup {receipts[a.proposal]}]
  /\ UNCHANGED <<context, ledger, provider, sends>>

\* The first claim: the provider is called, and asked again if its answer is not final.
Execute(e, a, b, answered) ==
  LET p == a.proposal
      value == IF Applies(p, b) THEN Sets[p] ELSE field
  IN
  /\ Claim(p, held[e]) = "claimed"
  /\ Raise(held[e])
  /\ field' = value
  /\ log' = [log EXCEPT ![p] = LogAfter(p, b)]
  /\ sends' = Append(sends, [proposal |-> p, mode |-> a.mode,
                             scope |-> held[e].scope, token |-> held[e].token])
  /\ Answer(p, held[e],
            IF LogAfter(p, b) \in {"succeeded", "failed"} THEN LogAfter(p, b)
            ELSE Reconciled(p, LogAfter(p, b), value, answered))
  /\ UNCHANGED context

\* A claim of an unfinished execution, by its executor or a later one: the provider is
\* only asked what became of it.
Reconcile(e, a, answered) ==
  LET p == a.proposal IN
  /\ Claim(p, held[e]) = "pending"
  /\ Raise(held[e])
  /\ Answer(p, held[e], Reconciled(p, log[p], field, answered))
  /\ UNCHANGED <<context, provider, sends>>

\* Somebody changes the field off the platform.
Drift(v) ==
  /\ field' = v
  /\ UNCHANGED <<context, ledger, log, sends, told>>

\* executeProtectedAction with a's proposal; a rejection changes nothing.
ExecuteProtectedAction(e, a) ==
  /\ Admitted(e, a)
  /\ \/ Duplicate(e, a)
     \/ \E answered \in BOOLEAN : Reconcile(e, a, answered)
     \/ \E b \in Behavior, answered \in BOOLEAN : Execute(e, a, b, answered)

Next ==
  \/ \E e \in Executor :
       \/ ReadContext(e)
       \/ \E s \in Scope : Grant(e, s)
       \/ \E a \in Approvals : ExecuteProtectedAction(e, a)
  \/ \E g \in {0, generation} : Delegate(g)
  \/ \E v \in Value \cup {NoValue} : Drift(v)
  \/ Advance

Spec == Init /\ [][Next]_vars

-----------------------------------------------------------------------------
(* Properties.                                                             *)

\* The provider is asked to act at most once for a proposal, however often it is
\* executed, taken over or repeated after an unknown outcome.
SentOnce ==
  \A i, j \in DOMAIN sends : sends[i].proposal = sends[j].proposal => i = j

\* Once the ledger of a scope has seen a token, no older one reaches the provider, even
\* from an executor that read the active token before it changed.
FencedSends ==
  \A i, j \in DOMAIN sends :
    i < j /\ sends[i].scope = sends[j].scope => sends[i].token <= sends[j].token

\* Everybody who gets a terminal answer for a proposal gets the same receipt, for ever.
OneAnswer == \A p \in Proposal : \A r1, r2 \in told[p] : r1 = r2

\* A terminal answer is what the provider did for this proposal: a field that happens to
\* have the value, set by another proposal or off the platform, is not evidence of it.
TruthfulAnswers ==
  \A p \in Proposal : \A r \in told[p] :
    log[p] \in (IF r.outcome = "failed" THEN {"failed"} ELSE {"unknown", "succeeded"})

\* A constitutional action reaches the provider only with a direct quorum behind it.
ConstitutionalByQuorum ==
  \A i \in DOMAIN sends :
    sends[i].proposal \in Constitutional => sends[i].mode = "direct_quorum"

-----------------------------------------------------------------------------
(* The inductive invariant.                                                *)

\* The ledger remembers every call of the provider, as pending or with its receipt.
LedgerComplete ==
  /\ \A i \in DOMAIN sends : LET p == sends[i].proposal IN
       pending[p] # NoLease \/ receipts[p] # None
  /\ \A p \in Proposal : pending[p] # NoLease => receipts[p] = None

\* No call had a token above the high-water mark of its scope.
HighWater == \A i \in DOMAIN sends : sends[i].token <= highest[sends[i].scope]

\* Callers were told what the receipt says, and it says what the provider did; while it
\* is pending the provider has not refused it.
ReceiptsTrue ==
  \A p \in Proposal :
    /\ told[p] \subseteq {receipts[p]} \ {None}
    /\ pending[p] # NoLease => log[p] \in {"none", "unknown"}
    /\ receipts[p] # None => log[p] = "failed" <=> receipts[p].outcome = "failed"
    /\ receipts[p] # None => log[p] # "none"
    /\ pending[p] = NoLease /\ receipts[p] = None => log[p] = "none"

IInv ==
  /\ TypeOK /\ LedgerComplete /\ HighWater /\ ReceiptsTrue
  /\ SentOnce /\ FencedSends /\ ConstitutionalByQuorum
=============================================================================
