-------------------------- MODULE GovExecutorProofs --------------------------
(* What the ledger promises of protected executions, for any executors,    *)
(* proposals, scopes and any number of tokens and generations.             *)
EXTENDS GovExecutor, SequenceTheorems, TLAPS

Send == [proposal : Proposal, mode : Mode, scope : Scope, token : Nat]

\* The absent lease is a lease with token 0, and the absent receipt is no receipt.
LEMMA Absent ==
  /\ NoLease \in Lease /\ NoLease.token = 0
  /\ None \notin Receipt /\ \A r \in Receipt : r # None
<1>1. NoLease \in Lease /\ NoLease.token = 0
  <2>1. (CHOOSE s \in Scope : TRUE) \in Scope
    BY ProviderAssumption
  <2> QED BY <2>1 DEF NoLease, Lease
<1>2. \A r \in Receipt : r.outcome # "none" /\ None.outcome = "none"
  BY DEF Receipt, None
<1> QED BY <1>1, <1>2

\* Every call of the provider in the history is a well-formed one.
LEMMA SendsTyped ==
  ASSUME TypeOK
  PROVE  /\ sends \in Seq(Send)
         /\ \A i \in DOMAIN sends :
              /\ sends[i].proposal \in Proposal /\ sends[i].mode \in Mode
              /\ sends[i].scope \in Scope /\ sends[i].token \in Nat
<1>1. sends \in Seq(Send)
  BY DEF TypeOK, Send
<1>2. \A i \in DOMAIN sends : sends[i] \in Send
  <2> HIDE DEF Send
  <2>1. DOMAIN sends = 1..Len(sends)
    BY <1>1
  <2> QED BY <1>1, <2>1, ElementOfSeq
<1> QED BY <1>1, <1>2 DEF Send

\* What each answer of the ledger says about the key.
LEMMA ClaimMeaning ==
  ASSUME NEW p, NEW l
  PROVE  /\ Claim(p, l) = "receipt" => receipts[p] # None
         /\ Claim(p, l) = "claimed" =>
              /\ l.token # 0 /\ ~(l.token < highest[l.scope])
              /\ receipts[p] = None /\ pending[p] = NoLease
         /\ Claim(p, l) = "pending" =>
              /\ l.token # 0 /\ ~(l.token < highest[l.scope])
              /\ receipts[p] = None /\ pending[p] # NoLease
  BY DEF Claim

\* What an execution leaves in the provider's log, and what it concludes from it.
LEMMA ExecuteOutcome ==
  ASSUME NEW p \in Proposal, NEW b \in Behavior, NEW value, NEW answered \in BOOLEAN,
         log[p] = "none",
         NEW outcome,
         outcome = IF LogAfter(p, b) \in {"succeeded", "failed"} THEN LogAfter(p, b)
                   ELSE Reconciled(p, LogAfter(p, b), value, answered)
  PROVE  /\ LogAfter(p, b) \in {"none", "failed", "unknown", "succeeded"}
         /\ outcome \in {"unknown", "succeeded", "failed"}
         /\ outcome = "unknown" => LogAfter(p, b) \in {"none", "unknown"}
         /\ outcome # "unknown" => LogAfter(p, b) # "none"
         /\ outcome # "unknown" => (LogAfter(p, b) = "failed" <=> outcome = "failed")
<1>1. LogAfter(p, b) \in {"none", "failed", "unknown", "succeeded"}
  BY DEF LogAfter, ApplyResult, Behavior
<1>2. CASE LogAfter(p, b) \in {"succeeded", "failed"}
  BY <1>2
<1>3. CASE LogAfter(p, b) \in {"none", "unknown"}
  BY <1>3 DEF Reconciled
<1> QED BY <1>1, <1>2, <1>3

\* What asking the provider again concludes, from a log that holds no refusal.
LEMMA ReconcileOutcome ==
  ASSUME NEW p, NEW entry \in {"none", "unknown"}, NEW value, NEW answered \in BOOLEAN
  PROVE  /\ Reconciled(p, entry, value, answered) \in {"unknown", "succeeded"}
         /\ Reconciled(p, entry, value, answered) = "succeeded" => entry = "unknown"
  BY DEF Reconciled

\* Answering keeps the tables' types, touches one key, and never leaves it absent.
LEMMA AnswerMeaning ==
  ASSUME TypeOK, NEW p \in Proposal, NEW l \in Lease, l.token # 0,
         NEW outcome \in {"unknown", "succeeded", "failed"}, Answer(p, l, outcome)
  PROVE  /\ pending' \in [Proposal -> Lease]
         /\ receipts' \in [Proposal -> Receipt \cup {None}]
         /\ told' \in [Proposal -> SUBSET Receipt]
         /\ \A q \in Proposal \ {p} :
              /\ pending'[q] = pending[q] /\ receipts'[q] = receipts[q] /\ told'[q] = told[q]
         /\ outcome = "unknown" =>
              /\ pending'[p] = l /\ l # NoLease
              /\ receipts'[p] = receipts[p] /\ told'[p] = told[p]
         /\ outcome # "unknown" =>
              /\ pending'[p] = NoLease /\ receipts'[p] # None
              /\ receipts'[p].outcome = outcome
              /\ told'[p] = told[p] \cup {receipts'[p]}
<1>1. l # NoLease
  BY Absent
<1>2. CASE outcome = "unknown"
  BY <1>1, <1>2 DEF Answer, TypeOK
<1>3. CASE outcome # "unknown"
  <2> DEFINE receipt == [scope |-> l.scope, token |-> l.token, outcome |-> outcome]
  <2>1. /\ pending' = [pending EXCEPT ![p] = NoLease]
        /\ receipts' = [receipts EXCEPT ![p] = receipt]
        /\ told' = [told EXCEPT ![p] = @ \cup {receipt}]
    BY <1>3 DEF Answer
  <2>2. receipt \in Receipt /\ receipt # None /\ receipt.outcome = outcome
    <3>1. receipt \in Receipt
      BY <1>3 DEF Receipt, Lease
    <3> QED BY <3>1, Absent
  <2> HIDE DEF receipt
  <2> QED BY <1>3, <2>1, <2>2, Absent DEF TypeOK
<1> QED BY <1>2, <1>3

\* Steps around the call keep the ledger, the provider's log and the histories.
LEMMA Frame ==
  ASSUME IInv, TypeOK', UNCHANGED <<highest, pending, receipts, log, sends, told>>
  PROVE  IInv'
  BY DEF IInv, LedgerComplete, HighWater, ReceiptsTrue, SentOnce, FencedSends,
         ConstitutionalByQuorum

LEMMA GrantStep ==
  ASSUME IInv, NEW e \in Executor, NEW s \in Scope, Grant(e, s)
  PROVE  IInv'
<1>1. TypeOK'
  <2>1. [scope |-> s, token |-> lease[s] + 1] \in Lease
    BY DEF IInv, TypeOK, Lease
  <2> QED BY <2>1 DEF IInv, TypeOK, Grant, ledger, provider
<1> QED BY <1>1, Frame DEF Grant, ledger, provider

LEMMA ReadContextStep ==
  ASSUME IInv, NEW e \in Executor, ReadContext(e)
  PROVE  IInv'
<1>1. TypeOK'
  <2>1. Context \in [active : [Scope -> Nat], generation : Nat, capability : Nat]
    BY DEF IInv, TypeOK, Context
  <2> QED BY <2>1 DEF IInv, TypeOK, ReadContext, ledger, provider
<1> QED BY <1>1, Frame DEF ReadContext, ledger, provider

LEMMA ContextStep ==
  ASSUME IInv,
         \/ Advance
         \/ \E g \in {0, generation} : Delegate(g)
         \/ \E v \in Value \cup {NoValue} : Drift(v)
  PROVE  IInv'
<1>1. CASE Advance
  <2>1. TypeOK'
    BY <1>1 DEF IInv, TypeOK, Advance, ledger, provider
  <2> QED BY <1>1, <2>1, Frame DEF Advance, ledger, provider
<1>2. ASSUME NEW g \in {0, generation}, Delegate(g) PROVE IInv'
  <2>1. TypeOK'
    BY <1>2 DEF IInv, TypeOK, Delegate, ledger, provider
  <2> QED BY <1>2, <2>1, Frame DEF Delegate, ledger, provider
<1>3. ASSUME NEW v \in Value \cup {NoValue}, Drift(v) PROVE IInv'
  <2>1. TypeOK'
    BY <1>3 DEF IInv, TypeOK, Drift, context, ledger
  <2> QED BY <1>3, <2>1, Frame DEF Drift, context, ledger
<1> QED BY <1>1, <1>2, <1>3

LEMMA DuplicateStep ==
  ASSUME IInv, NEW e \in Executor, NEW a \in Approvals, Duplicate(e, a)
  PROVE  IInv'
<1> DEFINE p == a.proposal
<1>1. p \in Proposal
  BY DEF Approvals
<1>2. receipts[p] # None /\ receipts[p] \in Receipt
  BY <1>1, ClaimMeaning DEF Duplicate, IInv, TypeOK
<1>3. /\ UNCHANGED <<lease, generation, capability, held, view, highest, pending, receipts,
                     field, log, sends>>
      /\ told' = [told EXCEPT ![p] = @ \cup {receipts[p]}]
  BY DEF Duplicate, context, ledger, provider
<1> HIDE DEF p
<1>4. TypeOK'
  BY <1>1, <1>2, <1>3 DEF IInv, TypeOK
<1>5. ReceiptsTrue'
  <2>1. \A q \in Proposal : told'[q] \subseteq {receipts'[q]} \ {None}
    BY <1>1, <1>2, <1>3 DEF IInv, TypeOK, ReceiptsTrue
  <2> QED BY <1>3, <2>1 DEF IInv, ReceiptsTrue
<1> QED BY <1>3, <1>4, <1>5
        DEF IInv, LedgerComplete, HighWater, SentOnce, FencedSends, ConstitutionalByQuorum

\* A call of the provider comes with a token at the mark of its scope.
LEMMA RaiseMeaning ==
  ASSUME IInv, NEW l \in Lease, ~(l.token < highest[l.scope]), Raise(l)
  PROVE  /\ highest' \in [Scope -> Nat]
         /\ \A s \in Scope : highest[s] <= highest'[s]
         /\ highest'[l.scope] = l.token
         /\ \A i \in DOMAIN sends :
              /\ sends[i].token <= highest'[sends[i].scope]
              /\ sends[i].scope = l.scope => sends[i].token <= l.token
<1>1. highest \in [Scope -> Nat] /\ l.scope \in Scope /\ l.token \in Nat
  BY DEF IInv, TypeOK, Lease
<1>2. \A i \in DOMAIN sends : sends[i].scope \in Scope /\ sends[i].token \in Nat
  BY SendsTyped DEF IInv
<1>3. \A i \in DOMAIN sends : sends[i].token <= highest[sends[i].scope]
  BY DEF IInv, HighWater
<1>4. /\ highest' \in [Scope -> Nat]
      /\ \A s \in Scope : highest[s] <= highest'[s]
      /\ highest'[l.scope] = l.token
  BY <1>1 DEF Raise
<1> QED BY <1>1, <1>2, <1>3, <1>4

LEMMA ReconcileStep ==
  ASSUME IInv, NEW e \in Executor, NEW a \in Approvals, NEW answered \in BOOLEAN,
         Reconcile(e, a, answered)
  PROVE  IInv'
<1> DEFINE p == a.proposal
           outcome == Reconciled(p, log[p], field, answered)
<1>1. p \in Proposal /\ held[e] \in Lease
  BY DEF Approvals, IInv, TypeOK
<1>2. /\ held[e].token # 0 /\ ~(held[e].token < highest[held[e].scope])
      /\ receipts[p] = None /\ pending[p] # NoLease
  BY ClaimMeaning DEF Reconcile
<1>3. /\ Raise(held[e]) /\ Answer(p, held[e], outcome)
      /\ UNCHANGED <<lease, generation, capability, held, view, field, log, sends>>
  BY DEF Reconcile, context, provider
<1>4. log[p] \in {"none", "unknown"}
  BY <1>1, <1>2 DEF IInv, ReceiptsTrue
<1>5. outcome \in {"unknown", "succeeded"} /\ (outcome = "succeeded" => log[p] = "unknown")
  BY <1>4, ReconcileOutcome
<1> HIDE DEF p, outcome
<1>6. TypeOK
  BY DEF IInv
<1>7. /\ pending' \in [Proposal -> Lease]
      /\ receipts' \in [Proposal -> Receipt \cup {None}]
      /\ told' \in [Proposal -> SUBSET Receipt]
      /\ \A q \in Proposal \ {p} :
           /\ pending'[q] = pending[q] /\ receipts'[q] = receipts[q] /\ told'[q] = told[q]
      /\ outcome = "unknown" =>
           pending'[p] # NoLease /\ receipts'[p] = receipts[p] /\ told'[p] = told[p]
      /\ outcome = "succeeded" =>
           /\ pending'[p] = NoLease /\ receipts'[p] # None
           /\ receipts'[p].outcome = outcome /\ told'[p] = told[p] \cup {receipts'[p]}
  BY <1>1, <1>2, <1>3, <1>5, <1>6, AnswerMeaning
<1>8. /\ highest' \in [Scope -> Nat]
      /\ \A i \in DOMAIN sends : sends[i].token <= highest'[sends[i].scope]
  BY <1>1, <1>2, <1>3, RaiseMeaning
<1>9. TypeOK'
  BY <1>3, <1>6, <1>7, <1>8 DEF TypeOK
<1>10. HighWater'
  BY <1>3, <1>8 DEF HighWater
<1>11. LedgerComplete'
  <2>1. \A q \in Proposal :
          (pending[q] # NoLease \/ receipts[q] # None) =>
            (pending'[q] # NoLease \/ receipts'[q] # None)
    BY <1>1, <1>5, <1>7
  <2>2. \A q \in Proposal : pending'[q] # NoLease => receipts'[q] = None
    BY <1>1, <1>2, <1>5, <1>7 DEF IInv, LedgerComplete
  <2>3. \A i \in DOMAIN sends : sends[i].proposal \in Proposal
    BY <1>6, SendsTyped
  <2> QED BY <1>3, <2>1, <2>2, <2>3 DEF IInv, LedgerComplete
<1>12. ReceiptsTrue'
  <2> SUFFICES ASSUME NEW q \in Proposal
               PROVE  /\ told'[q] \subseteq {receipts'[q]} \ {None}
                      /\ pending'[q] # NoLease => log'[q] \in {"none", "unknown"}
                      /\ receipts'[q] # None => log'[q] = "failed" <=> receipts'[q].outcome = "failed"
                      /\ receipts'[q] # None => log'[q] # "none"
                      /\ pending'[q] = NoLease /\ receipts'[q] = None => log'[q] = "none"
    BY DEF ReceiptsTrue
  <2>1. CASE q # p
    BY <1>3, <1>7, <2>1 DEF IInv, ReceiptsTrue
  <2>2. told[p] = {}
    BY <1>1, <1>2 DEF IInv, ReceiptsTrue
  <2>3. CASE q = p /\ outcome = "unknown"
    BY <1>2, <1>3, <1>4, <1>7, <2>2, <2>3
  <2>4. CASE q = p /\ outcome = "succeeded"
    BY <1>3, <1>5, <1>7, <2>2, <2>4
  <2> QED BY <1>5, <2>1, <2>3, <2>4
<1>13. SentOnce' /\ FencedSends' /\ ConstitutionalByQuorum'
  BY <1>3 DEF IInv, SentOnce, FencedSends, ConstitutionalByQuorum
<1> QED BY <1>9, <1>10, <1>11, <1>12, <1>13 DEF IInv

LEMMA ExecuteStep ==
  ASSUME IInv, NEW e \in Executor, NEW a \in Approvals, Admitted(e, a),
         NEW b \in Behavior, NEW answered \in BOOLEAN, Execute(e, a, b, answered)
  PROVE  IInv'
<1> DEFINE p == a.proposal
           l == held[e]
           value == IF Applies(p, b) THEN Sets[p] ELSE field
           outcome == IF LogAfter(p, b) \in {"succeeded", "failed"} THEN LogAfter(p, b)
                      ELSE Reconciled(p, LogAfter(p, b), value, answered)
           entry == LogAfter(p, b)
           call == [proposal |-> p, mode |-> a.mode, scope |-> l.scope, token |-> l.token]
<1>1. /\ p \in Proposal /\ a.mode \in Mode
      /\ l \in Lease /\ l.scope \in Scope /\ l.token \in Nat
  BY DEF Approvals, IInv, TypeOK, Lease
<1>2. /\ l.token # 0 /\ ~(l.token < highest[l.scope])
      /\ receipts[p] = None /\ pending[p] = NoLease
  BY ClaimMeaning DEF Execute
<1>3. /\ Raise(l) /\ Answer(p, l, outcome)
      /\ field' = value /\ log' = [log EXCEPT ![p] = entry]
      /\ sends' = Append(sends, call)
      /\ UNCHANGED <<lease, generation, capability, held, view>>
  BY DEF Execute, context
<1>4. p \in Constitutional => a.mode = "direct_quorum"
  BY <1>1 DEF Admitted, CapabilityAllows, Mode
<1>5. log[p] = "none"
  BY <1>1, <1>2 DEF IInv, ReceiptsTrue
<1>6. /\ entry \in {"none", "failed", "unknown", "succeeded"}
      /\ outcome \in {"unknown", "succeeded", "failed"}
      /\ outcome = "unknown" => entry \in {"none", "unknown"}
      /\ outcome # "unknown" => entry # "none"
      /\ outcome # "unknown" => (entry = "failed" <=> outcome = "failed")
  BY <1>1, <1>5, ExecuteOutcome
<1>7. value \in Value \cup {NoValue}
  BY <1>1, ProviderAssumption DEF IInv, TypeOK
<1>8. call \in Send /\ call.proposal = p /\ call.mode = a.mode
      /\ call.scope = l.scope /\ call.token = l.token
  BY <1>1 DEF Send
<1> HIDE DEF p, l, value, outcome, entry, call
<1>9. TypeOK
  BY DEF IInv
<1>10. /\ pending' \in [Proposal -> Lease]
       /\ receipts' \in [Proposal -> Receipt \cup {None}]
       /\ told' \in [Proposal -> SUBSET Receipt]
       /\ \A q \in Proposal \ {p} :
            /\ pending'[q] = pending[q] /\ receipts'[q] = receipts[q] /\ told'[q] = told[q]
       /\ outcome = "unknown" =>
            pending'[p] # NoLease /\ receipts'[p] = receipts[p] /\ told'[p] = told[p]
       /\ outcome # "unknown" =>
            /\ pending'[p] = NoLease /\ receipts'[p] # None
            /\ receipts'[p].outcome = outcome /\ told'[p] = told[p] \cup {receipts'[p]}
  BY <1>1, <1>2, <1>3, <1>6, <1>9, AnswerMeaning
<1>11. /\ highest' \in [Scope -> Nat]
       /\ highest'[l.scope] = l.token
       /\ \A i \in DOMAIN sends :
            /\ sends[i].token <= highest'[sends[i].scope]
            /\ sends[i].scope = l.scope => sends[i].token <= l.token
  BY <1>1, <1>2, <1>3, RaiseMeaning
<1>12. /\ log' \in [Proposal -> {"none", "failed", "unknown", "succeeded"}]
       /\ log'[p] = entry /\ \A q \in Proposal \ {p} : log'[q] = log[q]
  BY <1>1, <1>3, <1>6, <1>9 DEF TypeOK
<1>13. /\ sends \in Seq(Send) /\ sends' \in Seq(Send)
       /\ DOMAIN sends' = DOMAIN sends \cup {Len(sends) + 1}
       /\ \A i \in DOMAIN sends : i \in Nat /\ i < Len(sends) + 1 /\ sends'[i] = sends[i]
       /\ sends'[Len(sends) + 1] = call
       /\ Len(sends) \in Nat
  <2>1. sends \in Seq(Send)
    BY <1>9, SendsTyped
  <2> QED BY <1>3, <1>8, <2>1
<1> DEFINE n == Len(sends) + 1
<1>14. TypeOK'
  <2>1. sends' \in Seq([proposal : Proposal, mode : Mode, scope : Scope, token : Nat])
    BY <1>13 DEF Send
  <2>2. field' \in Value \cup {NoValue}
    BY <1>3, <1>7
  <2> QED BY <1>3, <1>9, <1>10, <1>11, <1>12, <2>1, <2>2 DEF TypeOK
<1>15. \A i \in DOMAIN sends : sends[i].proposal # p /\ sends[i].proposal \in Proposal
  BY <1>2, <1>9, SendsTyped DEF IInv, LedgerComplete
<1>16. HighWater'
  BY <1>8, <1>11, <1>13, <1>1 DEF HighWater
<1>17. LedgerComplete'
  <2>1. \A q \in Proposal \ {p} :
          pending[q] # NoLease \/ receipts[q] # None
            => pending'[q] # NoLease \/ receipts'[q] # None
    BY <1>10
  <2>2. pending'[p] # NoLease \/ receipts'[p] # None
    BY <1>10
  <2>3. \A i \in DOMAIN sends' :
          LET q == sends'[i].proposal IN pending'[q] # NoLease \/ receipts'[q] # None
    BY <1>8, <1>13, <1>15, <2>1, <2>2 DEF IInv, LedgerComplete
  <2>4. \A q \in Proposal : pending'[q] # NoLease => receipts'[q] = None
    BY <1>1, <1>2, <1>10 DEF IInv, LedgerComplete
  <2> QED BY <2>3, <2>4 DEF LedgerComplete
<1>18. ReceiptsTrue'
  <2> SUFFICES ASSUME NEW q \in Proposal
               PROVE  /\ told'[q] \subseteq {receipts'[q]} \ {None}
                      /\ pending'[q] # NoLease => log'[q] \in {"none", "unknown"}
                      /\ receipts'[q] # None => log'[q] = "failed" <=> receipts'[q].outcome = "failed"
                      /\ receipts'[q] # None => log'[q] # "none"
                      /\ pending'[q] = NoLease /\ receipts'[q] = None => log'[q] = "none"
    BY DEF ReceiptsTrue
  <2>1. CASE q # p
    BY <1>10, <1>12, <2>1 DEF IInv, ReceiptsTrue
  <2>2. told[p] = {}
    BY <1>1, <1>2 DEF IInv, ReceiptsTrue
  <2>3. CASE q = p /\ outcome = "unknown"
    BY <1>2, <1>6, <1>10, <1>12, <2>2, <2>3
  <2>4. CASE q = p /\ outcome # "unknown"
    BY <1>6, <1>10, <1>12, <2>2, <2>4
  <2> QED BY <2>1, <2>3, <2>4
<1>19. SentOnce'
  BY <1>8, <1>13, <1>15 DEF IInv, SentOnce
<1>20. FencedSends'
  <2> SUFFICES ASSUME NEW i \in DOMAIN sends', NEW j \in DOMAIN sends',
                      i < j, sends'[i].scope = sends'[j].scope
               PROVE  sends'[i].token <= sends'[j].token
    BY DEF FencedSends
  <2>1. CASE j = n
    <3>1. i \in DOMAIN sends
      BY <1>13, <2>1
    <3> QED BY <1>8, <1>11, <1>13, <2>1, <3>1
  <2>2. CASE j # n
    <3>1. i \in DOMAIN sends /\ j \in DOMAIN sends
      BY <1>13, <2>2
    <3> QED BY <1>13, <3>1 DEF IInv, FencedSends
  <2> QED BY <2>1, <2>2
<1>21. ConstitutionalByQuorum'
  BY <1>4, <1>8, <1>13 DEF IInv, ConstitutionalByQuorum
<1> QED BY <1>14, <1>16, <1>17, <1>18, <1>19, <1>20, <1>21 DEF IInv

-----------------------------------------------------------------------------

\* Nothing has been claimed, called or told at the start.
LEMMA InitInv == Init => IInv
<1> SUFFICES ASSUME Init PROVE IInv
  OBVIOUS
<1>1. TypeOK
  BY Absent DEF Init, TypeOK, Context
<1>2. DOMAIN sends = {}
  BY DEF Init
<1> QED BY <1>1, <1>2 DEF Init, IInv, LedgerComplete, HighWater, ReceiptsTrue, SentOnce,
                         FencedSends, ConstitutionalByQuorum

LEMMA NextInv == IInv /\ [Next]_vars => IInv'
<1> SUFFICES ASSUME IInv, [Next]_vars PROVE IInv'
  OBVIOUS
<1>1. ASSUME NEW e \in Executor, NEW a \in Approvals, ExecuteProtectedAction(e, a)
      PROVE  IInv'
  BY <1>1, DuplicateStep, ReconcileStep, ExecuteStep DEF ExecuteProtectedAction
<1>2. CASE UNCHANGED vars
  <2>1. TypeOK'
    BY <1>2 DEF vars, context, ledger, provider, IInv, TypeOK
  <2> QED BY <1>2, <2>1, Frame DEF vars, context, ledger, provider
<1> QED BY <1>1, <1>2, GrantStep, ReadContextStep, ContextStep DEF Next

\* The invariant of the ledger: every call of the provider is remembered, pending or with
\* its receipt, and the receipt says what the provider did.
THEOREM Invariance == Spec => []IInv
<1>1. Init => IInv
  BY InitInv
<1>2. IInv /\ [Next]_vars => IInv'
  BY NextInv
<1> QED BY <1>1, <1>2, PTL DEF Spec

\* However a proposal is executed, repeated or taken over, the provider is asked once.
THEOREM SentAtMostOnce == Spec => []SentOnce
<1>1. IInv => SentOnce
  BY DEF IInv
<1> QED BY <1>1, Invariance, PTL

\* Calls of the provider in one scope come with tokens that never go back.
THEOREM SendsAreFenced == Spec => []FencedSends
<1>1. IInv => FencedSends
  BY DEF IInv
<1> QED BY <1>1, Invariance, PTL

\* A constitutional action is never executed on a delegated capability.
THEOREM QuorumForConstitutional == Spec => []ConstitutionalByQuorum
<1>1. IInv => ConstitutionalByQuorum
  BY DEF IInv
<1> QED BY <1>1, Invariance, PTL

\* All terminal answers for a proposal are one receipt.
THEOREM AnswersAgree == Spec => []OneAnswer
<1>1. IInv => OneAnswer
  BY DEF IInv, ReceiptsTrue, OneAnswer
<1> QED BY <1>1, Invariance, PTL

\* A terminal answer tells what the provider did for that very proposal.
THEOREM AnswersAreTrue == Spec => []TruthfulAnswers
<1>1. ASSUME IInv, NEW p \in Proposal, NEW r \in told[p]
      PROVE  log[p] \in (IF r.outcome = "failed" THEN {"failed"} ELSE {"unknown", "succeeded"})
  <2>1. r = receipts[p] /\ receipts[p] # None
    BY <1>1 DEF IInv, ReceiptsTrue
  <2>2. log[p] # "none" /\ (log[p] = "failed" <=> r.outcome = "failed")
    BY <1>1, <2>1 DEF IInv, ReceiptsTrue
  <2>3. log[p] \in {"none", "failed", "unknown", "succeeded"}
    BY <1>1 DEF IInv, TypeOK
  <2> QED BY <2>2, <2>3
<1>2. IInv => TruthfulAnswers
  BY <1>1 DEF TruthfulAnswers
<1> QED BY <1>2, Invariance, PTL
=============================================================================
