------------------------------ MODULE GovPolicy ------------------------------
(***************************************************************************)
(* Policies, proposals and approvals: design/founder-governance-reference  *)
(* .mjs.  A policy says for each continuity state whether its action may   *)
(* be taken there, by which quorum, after which delays and within which    *)
(* limits.  A replacement is compared with the policy it replaces and with *)
(* no earlier one.  A proposal is bound to the policy it names, an         *)
(* approval to the proposal it signs, and both are judged by the directory *)
(* of participants as it is when the proposal is executed.  A document is  *)
(* its hash: two that hash alike are one, and "genuine" says whether what  *)
(* it declares - hash, tenant, policy, action, one rule per state - is so. *)
(***************************************************************************)
EXTENDS Integers, Sequences, FiniteSets

CONSTANTS
  Participant, Role, Credential,
  State,           \* continuity states
  Kind,            \* action kinds
  Unset,           \* an optional field that is not there
  Entries,         \* what the directory may say of a participant
  Charters,        \* the rules of the first policy
  Drafts,          \* the rules of replacements
  Quantities,      \* the amounts and durations that an action may have
  Genuine,         \* whether documents may be, or fail to be, what they declare
  Dates, Deadlines,   \* the times that documents are dated, and expire
  MaxTime, MaxVersion, MaxProposals, MaxApprovals   \* bounds

Grant == {"ownership_changes_allowed", "policy_weakening_allowed",
          "audit_deletion_allowed", "related_party_transfers_allowed"}
Limit == Nat \cup {Unset}

Rule ==
  [permitted : BOOLEAN,
   minimum_approvals : Nat, required_participants : SUBSET Participant, required_roles : SUBSET Role,
   cooldown : Nat, challenge_window : Nat,              \* missing: 0
   authority_ttl : Limit, notice : SUBSET Participant,
   equivalent_access_only : BOOLEAN, grants : SUBSET Grant,
   maximum_amount : Limit, allowed : {Unset} \cup SUBSET Kind, denied : SUBSET Kind]

RuleBook == [State -> {Unset} \cup Rule]
Policy   == [version : Nat, rules : RuleBook]

Entry ==
  [status : {"active", "suspended", "revoked", "unlisted"}, roles : SUBSET Role,
   credentials : SUBSET Credential, valid_from : Nat, valid_until : Limit]

ASSUME DocumentAssumption ==
  /\ Unset \notin Nat /\ \A kinds \in SUBSET Kind : kinds # Unset
  /\ Charters \subseteq RuleBook /\ Drafts \subseteq RuleBook
  /\ Entries \subseteq Entry
  /\ Genuine \subseteq BOOLEAN
  /\ Quantities \subseteq Nat /\ Dates \subseteq Nat /\ Deadlines \subseteq Nat
  /\ IsFiniteSet(Participant)

VARIABLES
  policy,       \* the policy in force
  first,        \* the policy that was in force at the start (history)
  proposals,    \* filed proposals
  approvals,    \* approvals in the order in which they are presented
  directory,    \* the registered participants
  now,
  decision      \* the proposal that was executed in the last step, or 0 (history)

vars == <<policy, first, proposals, approvals, directory, now, decision>>

Proposal ==
  [policy : Policy, state : State, proposer : Participant, created : Nat, expires : Nat,
   genuine : BOOLEAN]
Approval ==
  [proposal : Nat, by : Participant, role : Role, credential : Credential, at : Nat]

TypeOK ==
  /\ policy \in Policy /\ first \in Policy
  /\ proposals \in Seq(Proposal) /\ approvals \in Seq(Approval)
  /\ directory \in [Participant -> Entry]
  /\ now \in Nat
  /\ decision \in 0..Len(proposals)

Init ==
  /\ \E rules \in Charters : policy = [version |-> 1, rules |-> rules]
  /\ first = policy
  /\ proposals = <<>> /\ approvals = <<>>
  /\ directory \in [Participant -> Entries]
  /\ now = 0 /\ decision = 0

-----------------------------------------------------------------------------
(* Replacement of a policy.                                                *)

\* Mutant: limits are compared when both are there.
WithinIfBoth(limit, old) == old # Unset /\ limit # Unset => limit <= old

\* A limit that is missing is no limit.
Within(limit, old) == old # Unset => limit # Unset /\ limit <= old

IsRuleAtLeastAsStrong(current, candidate) ==
  /\ candidate.permitted => current.permitted
  /\ candidate.minimum_approvals >= current.minimum_approvals
  /\ current.required_participants \subseteq candidate.required_participants
  /\ current.required_roles \subseteq candidate.required_roles
  /\ candidate.cooldown >= current.cooldown
  /\ candidate.challenge_window >= current.challenge_window
  /\ Within(candidate.authority_ttl, current.authority_ttl)
  /\ current.notice \subseteq candidate.notice
  /\ current.equivalent_access_only => candidate.equivalent_access_only
  /\ candidate.grants \subseteq current.grants
  /\ Within(candidate.maximum_amount, current.maximum_amount)
  /\ current.allowed # Unset =>
       candidate.allowed # Unset /\ candidate.allowed \subseteq current.allowed
  /\ current.denied \subseteq candidate.denied

\* A rule of the current policy may not be left out, although that would only
\* prohibit its state, and one for a new state must prohibit.
AreRulesAtLeastAsStrong(current, candidate) ==
  \A state \in State :
    IF current[state] = Unset
    THEN candidate[state] # Unset => ~candidate[state].permitted
    ELSE candidate[state] # Unset /\ IsRuleAtLeastAsStrong(current[state], candidate[state])

IsPolicyReplacementNonWeakening(current, candidate) ==
  /\ candidate.genuine
  /\ candidate.policy.version > current.version
  /\ candidate.replaces = current
  /\ AreRulesAtLeastAsStrong(current.rules, candidate.policy.rules)

-----------------------------------------------------------------------------
(* Approvals of a proposal.                                                *)

ValidAt(entry, time) ==
  /\ entry.valid_from <= time
  /\ entry.valid_until # Unset => time < entry.valid_until

ParticipantIsActive(p) == directory[p].status = "active" /\ ValidAt(directory[p], now)

ApprovalIdentityIsAuthorized(approval) ==
  /\ ParticipantIsActive(approval.by)
  /\ ValidAt(directory[approval.by], approval.at)
  /\ approval.role \in directory[approval.by].roles
  /\ approval.credential \in directory[approval.by].credentials
  /\ approval.at <= now

\* The approvals that are taken into account.
Counted(n) ==
  {i \in DOMAIN approvals :
     /\ approvals[i].proposal = n
     /\ approvals[i].at >= proposals[n].created
     /\ ApprovalIdentityIsAuthorized(approvals[i])}

\* Mutant: each approval counts, in its own role.
AcceptedAll(n) == Counted(n)

\* Of each participant the last of them.
Accepted(n) ==
  {i \in Counted(n) : \A j \in Counted(n) : approvals[j].by = approvals[i].by => j <= i}

Delay(rule) ==
  IF rule.cooldown >= rule.challenge_window THEN rule.cooldown ELSE rule.challenge_window

ApprovalsSatisfyRule(n, rule) ==
  /\ rule.permitted
  /\ now >= proposals[n].created + Delay(rule)
  /\ Cardinality({approvals[i].by : i \in Accepted(n)}) >= rule.minimum_approvals
  /\ rule.required_participants \subseteq {approvals[i].by : i \in Accepted(n)}
  /\ rule.required_roles \subseteq {approvals[i].role : i \in Accepted(n)}

ApprovalsSatisfyProposal(n) ==
  /\ proposals[n].genuine
  /\ proposals[n].policy = policy
  /\ proposals[n].created <= now
  /\ proposals[n].created < proposals[n].expires /\ now < proposals[n].expires
  /\ policy.rules[proposals[n].state] # Unset
  /\ ParticipantIsActive(proposals[n].proposer)
  /\ ApprovalsSatisfyRule(n, policy.rules[proposals[n].state])

-----------------------------------------------------------------------------
(* Steps.  Documents may be filed by anybody, with any time on them.       *)

Tick ==
  /\ now < MaxTime
  /\ now' = now + 1 /\ decision' = 0
  /\ UNCHANGED <<policy, first, proposals, approvals, directory>>

\* A participant is suspended, reinstated, given other roles or credentials.
Amend(p) ==
  /\ \E entry \in Entries : directory' = [directory EXCEPT ![p] = entry]
  /\ decision' = 0
  /\ UNCHANGED <<policy, first, proposals, approvals, now>>

Replace ==
  /\ policy.version < MaxVersion
  /\ \E rules \in Drafts, version \in {policy.version, policy.version + 1}, replaces \in {first, policy},
        genuine \in Genuine :
       LET candidate == [policy |-> [version |-> version, rules |-> rules],
                         replaces |-> replaces, genuine |-> genuine]
       IN  /\ IsPolicyReplacementNonWeakening(policy, candidate)
           /\ policy' = candidate.policy
  /\ decision' = 0
  /\ UNCHANGED <<first, proposals, approvals, directory, now>>

Propose ==
  /\ Len(proposals) < MaxProposals
  /\ \E state \in State, proposer \in Participant, created \in Dates,
        expires \in Deadlines, genuine \in Genuine :
       proposals' = Append(proposals,
         [policy |-> policy, state |-> state, proposer |-> proposer,
          created |-> created, expires |-> expires, genuine |-> genuine])
  /\ decision' = 0
  /\ UNCHANGED <<policy, first, approvals, directory, now>>

Approve(p) ==
  /\ Len(approvals) < MaxApprovals
  /\ \E n \in DOMAIN proposals, role \in Role, credential \in Credential, at \in Dates :
       approvals' = Append(approvals,
         [proposal |-> n, by |-> p, role |-> role, credential |-> credential, at |-> at])
  /\ decision' = 0
  /\ UNCHANGED <<policy, first, proposals, directory, now>>

Execute(n) ==
  /\ ApprovalsSatisfyProposal(n)
  /\ decision' = n
  /\ UNCHANGED <<policy, first, proposals, approvals, directory, now>>

Next ==
  \/ Tick \/ Replace \/ Propose
  \/ \E p \in Participant : Amend(p) \/ Approve(p)
  \/ \E n \in DOMAIN proposals : Execute(n)

Spec == Init /\ [][Next]_vars

\* The inductive invariant: the policy in force is as strong as the first one,
\* and a decision of the last step still stands.
IInv ==
  /\ TypeOK
  /\ AreRulesAtLeastAsStrong(first.rules, policy.rules)
  /\ decision # 0 => ApprovalsSatisfyProposal(decision)

-----------------------------------------------------------------------------
(* Properties.                                                             *)

\* Who is in office and has signed proposal n, since it was made, in a role
\* that is theirs.
SignedFor(n, p, role) ==
  \E i \in DOMAIN approvals :
    /\ approvals[i].proposal = n /\ approvals[i].by = p /\ approvals[i].role = role
    /\ approvals[i].at >= proposals[n].created /\ approvals[i].at <= now
    /\ approvals[i].credential \in directory[p].credentials
    /\ directory[p].status = "active" /\ role \in directory[p].roles

\* However often the policy was replaced since, what is executed would have
\* been allowed by the first one: its state permitted the action, both of its
\* delays are over, as many different people as it asked for are behind it,
\* all whom it named among them, and different people stand for different
\* required roles.
NeverWeakened ==
  decision # 0 =>
    LET proposal == proposals[decision]
        rule     == first.rules[proposal.state]
        group    == {p \in Participant : \E role \in Role : SignedFor(decision, p, role)}
    IN  /\ rule # Unset /\ rule.permitted
        /\ now >= proposal.created + rule.cooldown
        /\ now >= proposal.created + rule.challenge_window
        /\ Cardinality(group) >= rule.minimum_approvals
        /\ rule.required_participants \subseteq group
        /\ \E speaker \in [rule.required_roles -> group] :
             \A r \in rule.required_roles :
               /\ SignedFor(decision, speaker[r], r)
               /\ \A q \in rule.required_roles : speaker[q] = speaker[r] => q = r

\* What a rule lets its action do once it is authorized.
Covers(rule, kind, amount, ttl) ==
  /\ rule.permitted
  /\ kind \notin rule.denied /\ (rule.allowed # Unset => kind \in rule.allowed)
  /\ rule.maximum_amount # Unset => amount <= rule.maximum_amount
  /\ rule.authority_ttl # Unset => ttl <= rule.authority_ttl

\* Whatever kind of action, amount and duration the policy in force covers in
\* a state was covered there by the first policy, which granted whatever is
\* granted now, and whoever had to be told by the first policy still has to be.
AuthorityOnlyShrinks ==
  \A state \in State : policy.rules[state] # Unset /\ policy.rules[state].permitted =>
    /\ first.rules[state] # Unset
    /\ \A kind \in Kind, amount, ttl \in Quantities :
         Covers(policy.rules[state], kind, amount, ttl) =>
           Covers(first.rules[state], kind, amount, ttl)
    /\ policy.rules[state].grants \subseteq first.rules[state].grants
    /\ first.rules[state].equivalent_access_only => policy.rules[state].equivalent_access_only
    /\ first.rules[state].notice \subseteq policy.rules[state].notice
=============================================================================
