--------------------------- MODULE GovPolicyProofs ---------------------------
(* The invariants of GovPolicy for any participants, any policies, any     *)
(* number of replacements, proposals and approvals.                        *)
EXTENDS GovPolicy, FiniteSetTheorems, TLAPS

-----------------------------------------------------------------------------
(* The order on rules.                                                     *)

\* Limits are ordered, and a missing one is above all others.
LEMMA WithinIsAnOrder ==
  ASSUME NEW a \in Limit, NEW b \in Limit, NEW c \in Limit
  PROVE  /\ Within(a, a)
         /\ Within(b, a) /\ Within(c, b) => Within(c, a)
BY DocumentAssumption DEF Within, Limit

\* A rule is as strong as itself.
LEMMA StrongIsReflexive ==
  ASSUME NEW a \in Rule
  PROVE  IsRuleAtLeastAsStrong(a, a)
<1>1. /\ a.minimum_approvals \in Nat /\ a.cooldown \in Nat /\ a.challenge_window \in Nat
      /\ a.authority_ttl \in Limit /\ a.maximum_amount \in Limit
  BY DEF Rule
<1>2. Within(a.authority_ttl, a.authority_ttl) /\ Within(a.maximum_amount, a.maximum_amount)
  BY <1>1, WithinIsAnOrder
<1> QED
  BY <1>1, <1>2 DEF IsRuleAtLeastAsStrong

\* What is as strong as a rule that is as strong as a third is as strong as that.
LEMMA StrongIsTransitive ==
  ASSUME NEW a \in Rule, NEW b \in Rule, NEW c \in Rule,
         IsRuleAtLeastAsStrong(a, b), IsRuleAtLeastAsStrong(b, c)
  PROVE  IsRuleAtLeastAsStrong(a, c)
<1>1. \A r \in {a, b, c} :
        /\ r.minimum_approvals \in Nat /\ r.cooldown \in Nat /\ r.challenge_window \in Nat
        /\ r.authority_ttl \in Limit /\ r.maximum_amount \in Limit
  BY DEF Rule
<1>2. /\ Within(b.authority_ttl, a.authority_ttl) /\ Within(c.authority_ttl, b.authority_ttl)
      /\ Within(b.maximum_amount, a.maximum_amount) /\ Within(c.maximum_amount, b.maximum_amount)
  BY DEF IsRuleAtLeastAsStrong
<1>3. Within(c.authority_ttl, a.authority_ttl) /\ Within(c.maximum_amount, a.maximum_amount)
  BY <1>1, <1>2, WithinIsAnOrder
<1>4. /\ c.permitted => a.permitted
      /\ c.minimum_approvals >= a.minimum_approvals
      /\ c.cooldown >= a.cooldown /\ c.challenge_window >= a.challenge_window
      /\ a.equivalent_access_only => c.equivalent_access_only
  BY <1>1 DEF IsRuleAtLeastAsStrong
<1>5. /\ a.required_participants \subseteq c.required_participants
      /\ a.required_roles \subseteq c.required_roles
      /\ a.notice \subseteq c.notice
      /\ c.grants \subseteq a.grants /\ a.denied \subseteq c.denied
  BY DEF IsRuleAtLeastAsStrong
<1>6. a.allowed # Unset => c.allowed # Unset /\ c.allowed \subseteq a.allowed
  BY DEF IsRuleAtLeastAsStrong
<1> QED
  BY <1>3, <1>4, <1>5, <1>6 DEF IsRuleAtLeastAsStrong

LEMMA BooksAreReflexive ==
  ASSUME NEW a \in RuleBook
  PROVE  AreRulesAtLeastAsStrong(a, a)
BY StrongIsReflexive DEF RuleBook, AreRulesAtLeastAsStrong

\* A state that is new and prohibited stays so.
LEMMA BooksAreTransitive ==
  ASSUME NEW a \in RuleBook, NEW b \in RuleBook, NEW c \in RuleBook,
         AreRulesAtLeastAsStrong(a, b), AreRulesAtLeastAsStrong(b, c)
  PROVE  AreRulesAtLeastAsStrong(a, c)
<1> SUFFICES ASSUME NEW s \in State
             PROVE  IF a[s] = Unset THEN c[s] # Unset => ~c[s].permitted
                    ELSE c[s] # Unset /\ IsRuleAtLeastAsStrong(a[s], c[s])
  BY DEF AreRulesAtLeastAsStrong
<1>1. /\ a[s] # Unset => a[s] \in Rule
      /\ b[s] # Unset => b[s] \in Rule
      /\ c[s] # Unset => c[s] \in Rule
  BY DEF RuleBook
<1>2. /\ a[s] = Unset => (b[s] # Unset => ~b[s].permitted)
      /\ a[s] # Unset => b[s] # Unset /\ IsRuleAtLeastAsStrong(a[s], b[s])
      /\ b[s] = Unset => (c[s] # Unset => ~c[s].permitted)
      /\ b[s] # Unset => c[s] # Unset /\ IsRuleAtLeastAsStrong(b[s], c[s])
  BY DEF AreRulesAtLeastAsStrong
<1>3. CASE a[s] = Unset
  <2>1. b[s] # Unset /\ c[s].permitted => b[s].permitted
    BY <1>2 DEF IsRuleAtLeastAsStrong
  <2> QED
    BY <1>2, <1>3, <2>1
<1>4. CASE a[s] # Unset
  BY <1>1, <1>2, <1>4, StrongIsTransitive
<1> QED
  BY <1>3, <1>4

-----------------------------------------------------------------------------
(* The inductive invariant.                                                *)

\* Nothing but its arguments decides on a proposal.
LEMMA DecisionsAreFunctions ==
  ASSUME NEW n \in Nat, ApprovalsSatisfyProposal(n), decision' = n,
         UNCHANGED <<policy, proposals, approvals, directory, now>>
  PROVE  ApprovalsSatisfyProposal(decision)'
<1>1. Counted(decision)' = Counted(n)
  BY DEF Counted, ApprovalIdentityIsAuthorized, ParticipantIsActive, ValidAt
<1>2. Accepted(decision)' = Accepted(n)
  BY <1>1 DEF Accepted
<1>3. /\ {approvals[i].by : i \in Accepted(decision)}' = {approvals[i].by : i \in Accepted(n)}
      /\ {approvals[i].role : i \in Accepted(decision)}' = {approvals[i].role : i \in Accepted(n)}
  BY <1>2
<1>4. ParticipantIsActive(proposals[decision].proposer)'
  BY DEF ApprovalsSatisfyProposal, ParticipantIsActive, ValidAt
<1>5. ApprovalsSatisfyRule(decision, policy.rules[proposals[decision].state])'
  BY <1>3 DEF ApprovalsSatisfyProposal, ApprovalsSatisfyRule, Delay
<1> QED
  BY <1>4, <1>5 DEF ApprovalsSatisfyProposal

LEMMA InitIInv == Init => IInv
<1> SUFFICES ASSUME Init PROVE IInv
  OBVIOUS
<1>1. TypeOK
  BY DocumentAssumption DEF Init, TypeOK, Policy
<1>2. first.rules = policy.rules /\ policy.rules \in RuleBook
  BY <1>1 DEF Init, TypeOK, Policy
<1> QED
  BY <1>1, <1>2, BooksAreReflexive DEF Init, IInv

LEMMA NextTypeOK ==
  ASSUME TypeOK, [Next]_vars
  PROVE  TypeOK'
<1>1. CASE Tick BY <1>1 DEF Tick, TypeOK
<1>2. ASSUME NEW p \in Participant, Amend(p) PROVE TypeOK'
  BY <1>2, DocumentAssumption DEF Amend, TypeOK
<1>3. CASE Replace
  <2>1. policy' \in Policy
    BY <1>3, DocumentAssumption DEF Replace, TypeOK, Policy, IsPolicyReplacementNonWeakening
  <2> QED
    BY <1>3, <2>1 DEF Replace, TypeOK
<1>4. CASE Propose
  <2>1. PICK proposal \in Proposal : proposals' = Append(proposals, proposal)
    BY <1>4, DocumentAssumption DEF Propose, Proposal, TypeOK
  <2>2. proposals' \in Seq(Proposal) /\ decision' = 0
    BY <1>4, <2>1 DEF Propose, TypeOK
  <2>3. decision' \in 0..Len(proposals')
    BY <2>2
  <2> QED
    BY <1>4, <2>2, <2>3 DEF Propose, TypeOK
<1>5. ASSUME NEW p \in Participant, Approve(p) PROVE TypeOK'
  <2>0. PICK n \in DOMAIN proposals, role \in Role, credential \in Credential, at \in Dates :
          approvals' = Append(approvals,
            [proposal |-> n, by |-> p, role |-> role, credential |-> credential, at |-> at])
    BY <1>5 DEF Approve
  <2>1. PICK approval \in Approval : approvals' = Append(approvals, approval)
    <3>1. n \in Nat BY DEF TypeOK
    <3>2. at \in Nat BY DocumentAssumption
    <3> QED
      BY <2>0, <3>1, <3>2 DEF Approval
  <2> QED
    BY <1>5, <2>1 DEF Approve, TypeOK
<1>6. ASSUME NEW n \in DOMAIN proposals, Execute(n) PROVE TypeOK'
  BY <1>6 DEF Execute, TypeOK
<1>7. CASE UNCHANGED vars BY <1>7 DEF vars, TypeOK
<1> QED
  BY <1>1, <1>2, <1>3, <1>4, <1>5, <1>6, <1>7 DEF Next

LEMMA NextIInv ==
  ASSUME IInv, [Next]_vars
  PROVE  IInv'
<1>1. TypeOK' BY NextTypeOK DEF IInv
<1>2. AreRulesAtLeastAsStrong(first.rules, policy.rules)'
  <2>1. first' = first
    BY DEF Next, Tick, Amend, Replace, Propose, Approve, Execute, vars
  <2>2. CASE policy' = policy
    BY <2>1, <2>2 DEF IInv, AreRulesAtLeastAsStrong
  <2>3. CASE Replace
    <3>1. AreRulesAtLeastAsStrong(policy.rules, policy'.rules)
      BY <2>3 DEF Replace, IsPolicyReplacementNonWeakening
    <3>2. /\ first.rules \in RuleBook /\ policy.rules \in RuleBook /\ policy'.rules \in RuleBook
          /\ AreRulesAtLeastAsStrong(first.rules, policy.rules)
      BY <1>1 DEF IInv, TypeOK, Policy
    <3>3. AreRulesAtLeastAsStrong(first.rules, policy'.rules)
      BY <3>1, <3>2, BooksAreTransitive
    <3> QED
      BY <2>1, <3>3 DEF AreRulesAtLeastAsStrong
  <2> QED
    BY <2>2, <2>3 DEF Next, Tick, Amend, Propose, Approve, Execute, vars
<1>3. (decision # 0 => ApprovalsSatisfyProposal(decision))'
  <2>1. ASSUME NEW n \in DOMAIN proposals, Execute(n)
        PROVE  ApprovalsSatisfyProposal(decision)'
    <3>1. n \in Nat BY DEF IInv, TypeOK
    <3> QED
      BY <2>1, <3>1, DecisionsAreFunctions DEF Execute
  <2>2. CASE UNCHANGED vars
    <3>1. PICK n \in Nat : n = decision BY DEF IInv, TypeOK
    <3>2. n # 0 => ApprovalsSatisfyProposal(n) BY <3>1 DEF IInv
    <3> QED
      BY <2>2, <3>1, <3>2, DecisionsAreFunctions DEF vars
  <2> QED
    BY <2>1, <2>2 DEF Next, Tick, Amend, Replace, Propose, Approve
<1> QED
  BY <1>1, <1>2, <1>3 DEF IInv

\* The inductive invariant holds of every behaviour.
THEOREM Invariance == Spec => []IInv
<1>1. IInv /\ [Next]_vars => IInv' BY NextIInv
<1> QED
  BY <1>1, InitIInv, PTL DEF Spec

-----------------------------------------------------------------------------
(* What the order on rules is worth.                                       *)

\* The approvals that count are approvals by whom they name.
LEMMA AcceptedAreSigned ==
  ASSUME TypeOK, NEW n \in Nat, n # 0, NEW i \in Accepted(n)
  PROVE  /\ approvals[i].by \in Participant /\ approvals[i].role \in Role
         /\ SignedFor(n, approvals[i].by, approvals[i].role)
<1>1. i \in Counted(n) BY DEF Accepted
<1>2. i \in DOMAIN approvals /\ approvals[i] \in Approval
  BY <1>1 DEF Counted, TypeOK
<1> QED
  BY <1>1, <1>2 DEF Counted, ApprovalIdentityIsAuthorized, ParticipantIsActive, SignedFor, Approval

\* Of one participant one approval counts.
LEMMA OneVoice ==
  ASSUME TypeOK, NEW n, NEW i \in Accepted(n), NEW j \in Accepted(n),
         approvals[i].by = approvals[j].by
  PROVE  i = j
<1>1. i \in Counted(n) /\ j \in Counted(n) /\ i <= j /\ j <= i
  BY DEF Accepted
<1>2. i \in Int /\ j \in Int
  BY <1>1 DEF Counted, TypeOK
<1> QED
  BY <1>1, <1>2

LEMMA NeverWeakenedHolds == IInv => NeverWeakened
<1> SUFFICES ASSUME IInv, decision # 0 PROVE NeverWeakened
  BY DEF NeverWeakened
<1> DEFINE n     == decision
           s     == proposals[n].state
           rule  == first.rules[s]
           now_  == policy.rules[s]
           voters == {approvals[i].by : i \in Accepted(n)}
           group == {p \in Participant : \E role \in Role : SignedFor(n, p, role)}
<1>1. n \in Nat /\ n # 0 /\ n \in DOMAIN proposals /\ TypeOK
  BY DEF IInv, TypeOK
<1>2. s \in State /\ proposals[n].created \in Nat /\ now \in Nat
  <2>1. proposals[n] \in Proposal /\ now \in Nat BY <1>1 DEF TypeOK
  <2> QED
    BY <2>1 DEF Proposal
<1>3. now_ # Unset /\ ApprovalsSatisfyRule(n, now_)
  BY DEF IInv, ApprovalsSatisfyProposal
<1>4. rule # Unset /\ IsRuleAtLeastAsStrong(rule, now_)
  BY <1>2, <1>3 DEF IInv, AreRulesAtLeastAsStrong, ApprovalsSatisfyRule
<1>5. rule \in Rule /\ now_ \in Rule
  BY <1>1, <1>2, <1>3, <1>4 DEF TypeOK, Policy, RuleBook
<1>6. voters \subseteq group
  BY <1>1, AcceptedAreSigned
<1>7. rule.permitted
  BY <1>3, <1>4 DEF ApprovalsSatisfyRule, IsRuleAtLeastAsStrong
<1>8. now >= proposals[n].created + rule.cooldown /\ now >= proposals[n].created + rule.challenge_window
  <2>1. /\ rule.cooldown \in Nat /\ rule.challenge_window \in Nat
        /\ now_.cooldown \in Nat /\ now_.challenge_window \in Nat
    BY <1>5 DEF Rule
  <2>2. now_.cooldown >= rule.cooldown /\ now_.challenge_window >= rule.challenge_window
    BY <1>4 DEF IsRuleAtLeastAsStrong
  <2>3. now >= proposals[n].created + Delay(now_)
    BY <1>3 DEF ApprovalsSatisfyRule
  <2> QED
    BY <1>2, <2>1, <2>2, <2>3 DEF Delay
<1>9. Cardinality(group) >= rule.minimum_approvals
  <2>1. IsFiniteSet(group)
    BY DocumentAssumption, FS_Subset
  <2>2. Cardinality(voters) \in Nat /\ Cardinality(group) \in Nat
        /\ Cardinality(voters) <= Cardinality(group)
    BY <1>6, <2>1, FS_Subset, FS_CardinalityType
  <2>3. Cardinality(voters) >= now_.minimum_approvals
    BY <1>3 DEF ApprovalsSatisfyRule
  <2>4. /\ now_.minimum_approvals >= rule.minimum_approvals
        /\ now_.minimum_approvals \in Nat /\ rule.minimum_approvals \in Nat
    BY <1>4, <1>5 DEF IsRuleAtLeastAsStrong, Rule
  <2> QED
    BY <2>2, <2>3, <2>4
<1>10. rule.required_participants \subseteq group
  BY <1>3, <1>4, <1>6 DEF ApprovalsSatisfyRule, IsRuleAtLeastAsStrong
<1>11. \E speaker \in [rule.required_roles -> group] :
         \A r \in rule.required_roles :
           /\ SignedFor(n, speaker[r], r)
           /\ \A q \in rule.required_roles : speaker[q] = speaker[r] => q = r
  <2>1. \A r \in rule.required_roles : \E i \in Accepted(n) : approvals[i].role = r
    BY <1>3, <1>4 DEF ApprovalsSatisfyRule, IsRuleAtLeastAsStrong
  <2> DEFINE vote    == [r \in rule.required_roles |-> CHOOSE i \in Accepted(n) : approvals[i].role = r]
             speaker == [r \in rule.required_roles |-> approvals[vote[r]].by]
  <2>2. \A r \in rule.required_roles : vote[r] \in Accepted(n) /\ approvals[vote[r]].role = r
    BY <2>1
  <2> HIDE DEF vote
  <2>3. \A r \in rule.required_roles : speaker[r] = approvals[vote[r]].by
    OBVIOUS
  <2>4. \A r \in rule.required_roles : speaker[r] \in group /\ SignedFor(n, speaker[r], r)
    <3> SUFFICES ASSUME NEW r \in rule.required_roles
                 PROVE  speaker[r] \in group /\ SignedFor(n, speaker[r], r)
      OBVIOUS
    <3>1. /\ approvals[vote[r]].by \in Participant /\ approvals[vote[r]].role \in Role
          /\ SignedFor(n, approvals[vote[r]].by, approvals[vote[r]].role)
      BY <1>1, <2>2, AcceptedAreSigned
    <3> QED
      BY <2>2, <2>3, <3>1
  <2>5. \A q, r \in rule.required_roles : speaker[q] = speaker[r] => q = r
    BY <1>1, <2>2, <2>3, OneVoice
  <2>6. speaker \in [rule.required_roles -> group]
    BY <2>4
  <2> HIDE DEF speaker
  <2> QED
    BY <2>4, <2>5, <2>6
<1> QED
  BY <1>4, <1>7, <1>8, <1>9, <1>10, <1>11 DEF NeverWeakened

\* A stronger rule covers no more.
LEMMA StrongCoversLess ==
  ASSUME NEW a \in Rule, NEW b \in Rule, IsRuleAtLeastAsStrong(a, b),
         NEW kind \in Kind, NEW amount \in Nat, NEW ttl \in Nat, Covers(b, kind, amount, ttl)
  PROVE  Covers(a, kind, amount, ttl)
<1>1. /\ a.authority_ttl \in Limit /\ b.authority_ttl \in Limit
      /\ a.maximum_amount \in Limit /\ b.maximum_amount \in Limit
  BY DEF Rule
<1>2. /\ a.maximum_amount # Unset => amount <= a.maximum_amount
      /\ a.authority_ttl # Unset => ttl <= a.authority_ttl
  BY <1>1 DEF IsRuleAtLeastAsStrong, Within, Covers, Limit
<1>3. /\ a.permitted
      /\ kind \notin a.denied /\ (a.allowed # Unset => kind \in a.allowed)
  BY DEF IsRuleAtLeastAsStrong, Covers
<1> QED
  BY <1>2, <1>3 DEF Covers

LEMMA AuthorityOnlyShrinksHolds == IInv => AuthorityOnlyShrinks
<1> SUFFICES ASSUME IInv, NEW s \in State, policy.rules[s] # Unset, policy.rules[s].permitted
             PROVE  /\ first.rules[s] # Unset
                    /\ \A kind \in Kind, amount, ttl \in Quantities :
                         Covers(policy.rules[s], kind, amount, ttl) =>
                           Covers(first.rules[s], kind, amount, ttl)
                    /\ policy.rules[s].grants \subseteq first.rules[s].grants
                    /\ first.rules[s].equivalent_access_only => policy.rules[s].equivalent_access_only
                    /\ first.rules[s].notice \subseteq policy.rules[s].notice
  BY DEF AuthorityOnlyShrinks
<1>1. first.rules[s] # Unset /\ IsRuleAtLeastAsStrong(first.rules[s], policy.rules[s])
  BY DEF IInv, AreRulesAtLeastAsStrong
<1>2. first.rules[s] \in Rule /\ policy.rules[s] \in Rule
  BY <1>1 DEF IInv, TypeOK, Policy, RuleBook
<1>3. \A kind \in Kind, amount, ttl \in Quantities :
        Covers(policy.rules[s], kind, amount, ttl) => Covers(first.rules[s], kind, amount, ttl)
  BY <1>1, <1>2, StrongCoversLess, DocumentAssumption
<1> QED
  BY <1>1, <1>3 DEF IsRuleAtLeastAsStrong

\* Whatever is executed, after any number of replacements, the first policy
\* would have allowed as well.
THEOREM FirstPolicyStillHolds == Spec => []NeverWeakened
BY Invariance, NeverWeakenedHolds, PTL

\* No chain of replacements covers more than the first policy did.
THEOREM ReplacementsOnlyNarrow == Spec => []AuthorityOnlyShrinks
BY Invariance, AuthorityOnlyShrinksHolds, PTL
=============================================================================
