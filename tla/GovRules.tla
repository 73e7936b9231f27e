------------------------------- MODULE GovRules -------------------------------
(***************************************************************************)
(* Who may do what in which continuity state: the tables and decisions of  *)
(* design/founder-governance-state-model.mjs and                           *)
(* design/founder-governance-death-succession-model.mjs, for any registry  *)
(* of participants.  Durations keep their order and not their length;      *)
(* what a request must document is a set of named papers, and a request    *)
(* is short of at most one of them.                                        *)
(***************************************************************************)
EXTENDS Integers, FiniteSets

CONSTANTS
  Participant,                       \* the registry
  RolesOf,                           \* the roles of each participant
  FounderA, FounderB,                \* "founder-a" and "founder-b"
  Hours72, Days7, Days30, Days45     \* the delays

Role == {"founder", "guardian", "estate_representative", "successor", "operator"}

ASSUME RegistryAssumption ==
  /\ IsFiniteSet(Participant)
  /\ FounderA \in Participant /\ FounderB \in Participant /\ FounderA # FounderB
  /\ RolesOf \in [Participant -> SUBSET Role]

ASSUME DelayAssumption ==
  /\ Hours72 \in Nat /\ Days7 \in Nat /\ Days30 \in Nat /\ Days45 \in Nat
  /\ 0 < Hours72 /\ Hours72 <= Days7 /\ Days7 <= Days30 /\ Days30 <= Days45

DeathStates == {"death_claim_pending", "death_confirmed"}

States ==
  {"normal", "temporarily_unavailable", "provisional_incapacity",
   "confirmed_long_term_incapacity", "voluntary_exit", "nonparticipation",
   "active_deadlock", "succession", "restored"} \cup DeathStates

Classes  == {"routine", "sensitive", "constitutional", "recovery", "emergency"}
Status   == {"active", "inactive"}   \* suspended and revoked decide the same
Flags    == {"bounded", "equivalent_access_only", "defensive_only", "preapproved",
             "legal_authority_attested"}
Papers   == {"notice", "evidence", "attestation", "mediation", "legal_authority_attested"}

-----------------------------------------------------------------------------
(* Actions.                                                                *)

HasRole(people, role)      == \E p \in people : role \in RolesOf[p]
HasAllRoles(people, roles) == \A role \in roles : HasRole(people, role)

NormalAuthorization(class, people) ==
  \/ class = "routine" /\ (HasRole(people, "founder") \/ HasRole(people, "operator"))
  \/ class \in {"sensitive", "constitutional"} /\ {FounderA, FounderB} \subseteq people
  \/ class \in {"recovery", "emergency"} /\ HasAllRoles(people, {"founder", "guardian"})

\* Defensive measures need a founder and the guardian in every continuity state.
DefensiveEmergency(class, people, context) ==
  /\ class = "emergency" /\ "defensive_only" \in context
  /\ HasAllRoles(people, {"founder", "guardian"})

\* Routine work goes on within bounds in every continuity state.
BoundedRoutine(class, people, context, roles) ==
  /\ class = "routine" /\ "bounded" \in context
  /\ \E role \in roles : HasRole(people, role)

ContinuityAuthorization(class, people, context) ==
  \/ BoundedRoutine(class, people, context, {"founder", "operator"})
  \/ /\ class = "sensitive" /\ {"bounded", "equivalent_access_only"} \subseteq context
     /\ HasAllRoles(people, {"founder", "guardian"})
  \/ /\ class = "recovery" /\ "equivalent_access_only" \in context
     /\ HasAllRoles(people, {"founder", "guardian"})
  \/ DefensiveEmergency(class, people, context)

ConfirmedIncapacityAuthorization(class, people, context) ==
  \/ BoundedRoutine(class, people, context, {"founder", "operator"})
  \/ /\ class = "recovery" /\ "equivalent_access_only" \in context
     /\ HasAllRoles(people, {"founder", "guardian", "estate_representative"})
  \/ DefensiveEmergency(class, people, context)

DeadlockAuthorization(class, people, context) ==
  \/ /\ BoundedRoutine(class, people, context, {"founder", "operator"})
     /\ "preapproved" \in context
  \/ DefensiveEmergency(class, people, context)

\* Succession, which both models decide, for those whom each lets do routine work.
SuccessionAuthorization(class, people, context, routine) ==
  \/ BoundedRoutine(class, people, context, routine)
  \/ class = "sensitive" /\ HasAllRoles(people, {"founder", "estate_representative"})
  \/ /\ class = "constitutional" /\ "legal_authority_attested" \in context
     /\ HasAllRoles(people, {"founder", "guardian", "estate_representative"})
  \/ /\ class = "recovery" /\ "equivalent_access_only" \in context
     /\ HasAllRoles(people, {"guardian", "estate_representative"})
  \/ DefensiveEmergency(class, people, context)

\* authorizedParticipants: only active participants count.
Authorized(people, status) == {p \in people : status[p] = "active"}

\* authorizeAction: an inactive signer is left out.
AuthorizeAction(state, class, people, status, context) ==
  LET active == Authorized(people, status) IN
  \/ state \in {"normal", "restored"} /\ NormalAuthorization(class, active)
  \/ /\ state \in {"temporarily_unavailable", "provisional_incapacity", "nonparticipation"}
     /\ ContinuityAuthorization(class, active, context)
  \/ /\ state = "confirmed_long_term_incapacity"
     /\ ConfirmedIncapacityAuthorization(class, active, context)
  \/ state = "active_deadlock" /\ DeadlockAuthorization(class, active, context)
  \/ /\ state = "succession"
     /\ SuccessionAuthorization(class, active, context,
                                {"founder", "successor", "estate_representative"})
  \/ /\ state = "voluntary_exit"
     /\ BoundedRoutine(class, active, context, {"founder", "operator"})

\* authorizeDeathStateAction: an inactive signer spoils the whole group.
AuthorizeDeathStateAction(state, class, people, status, context) ==
  /\ \A p \in people : status[p] = "active"
  /\ \/ /\ state \in DeathStates
        /\ \/ /\ BoundedRoutine(class, people, context, {"founder"})
              /\ "preapproved" \in context
           \/ DefensiveEmergency(class, people, context)
     \/ /\ state = "succession"
        /\ SuccessionAuthorization(class, people, context, {"estate_representative"})

-----------------------------------------------------------------------------
(* Transitions.                                                            *)

Rule(from, to, approvals, roles, papers, delay) ==
  [from |-> from, to |-> to, approvals |-> approvals, roles |-> roles,
   papers |-> {"notice", "evidence"} \cup papers, delay |-> delay]

FounderGuardian       == {"founder", "guardian"}
FounderGuardianEstate == {"founder", "guardian", "estate_representative"}

\* TRANSITION_RULES.
TransitionRules == {
  Rule("normal", "temporarily_unavailable", 2, FounderGuardian, {}, Hours72),
  Rule("temporarily_unavailable", "restored", 2, FounderGuardian, {}, 0),
  Rule("temporarily_unavailable", "provisional_incapacity", 2, FounderGuardian,
       {"attestation"}, Days7),
  Rule("provisional_incapacity", "restored", 2, FounderGuardian, {}, 0),
  Rule("provisional_incapacity", "confirmed_long_term_incapacity", 2, FounderGuardian,
       {"attestation"}, Days30),
  Rule("confirmed_long_term_incapacity", "succession", 3, FounderGuardianEstate,
       {"attestation"}, Days7),
  Rule("normal", "voluntary_exit", 1, {"founder"}, {}, 0),
  Rule("voluntary_exit", "succession", 2, FounderGuardian, {}, 0),
  Rule("normal", "nonparticipation", 2, FounderGuardian, {"mediation"}, Days45),
  Rule("nonparticipation", "restored", 2, FounderGuardian, {}, 0),
  Rule("nonparticipation", "active_deadlock", 2, FounderGuardian, {"mediation"}, 0),
  Rule("normal", "active_deadlock", 2, {"founder"}, {"mediation"}, 0),
  Rule("active_deadlock", "restored", 2, {"founder"}, {}, 0),
  Rule("succession", "restored", 2, {"founder", "estate_representative"}, {}, 0)}

\* DEATH_TRANSITIONS.
DeathTransitions ==
  {Rule(from, "death_claim_pending", 2, FounderGuardian, {"attestation"}, Hours72) :
     from \in {"normal", "temporarily_unavailable", "provisional_incapacity",
               "confirmed_long_term_incapacity"}} \cup {
  Rule("death_claim_pending", "death_confirmed", 3, FounderGuardianEstate,
       {"attestation"}, Days7),
  Rule("death_confirmed", "succession", 3, FounderGuardianEstate,
       {"attestation", "legal_authority_attested"}, Hours72),
  Rule("death_claim_pending", "restored", 2, FounderGuardian, {"attestation"}, 0),
  Rule("death_confirmed", "restored", 3, FounderGuardianEstate,
       {"attestation", "legal_authority_attested"}, Hours72)}

\* Mutant: nobody in particular has to approve.
RequiresNobody(rule) == {p \in {FounderA, FounderB} : rule.roles = {}}

\* Mutant: both founders approve whatever a founder has to approve.
RequiresFounders(rule) ==
  IF "founder" \in rule.roles /\ rule.to # "voluntary_exit" THEN {FounderA, FounderB} ELSE {}

\* required_participant_ids: deadlock is declared and ended by both founders.
RequiredParticipants(rule) ==
  IF rule.roles = {"founder"} /\ rule.to # "voluntary_exit" THEN {FounderA, FounderB} ELSE {}

\* subject_must_approve, requireSubject and excludeSubject.
SubjectRule(rule) ==
  IF rule \in DeathTransitions
  THEN IF rule.to = "restored" THEN "approves" ELSE "excluded"
  ELSE IF rule.to = "voluntary_exit" THEN "approves" ELSE "any"

\* A death is the death of a founder.
SubjectFits(rule, subject, people) ==
  /\ rule \in DeathTransitions => "founder" \in RolesOf[subject]
  /\ SubjectRule(rule) = "approves" => subject \in people
  /\ SubjectRule(rule) = "excluded" => subject \notin people

\* Mutant: heads are counted and roles are not checked.
QuorumOfHeads(rule, people) ==
  Cardinality(people) >= rule.approvals /\ RequiredParticipants(rule) \subseteq people

Quorum(rule, people) ==
  /\ Cardinality(people) >= rule.approvals
  /\ HasAllRoles(people, rule.roles)
  /\ RequiredParticipants(rule) \subseteq people

\* Mutant: the challenge window is not waited for.
InTimeAtOnce(filed, closes, now, delay) == filed <= now /\ now < closes /\ delay >= 0

\* The request has been open for the delay of the rule, and is still open.
InTime(filed, closes, now, delay) == filed + delay <= now /\ now < closes

\* Who counts for a request: authorizeTransition leaves inactive approvers out, and
\* authorizeDeathTransition rejects a request that has one.
Counted(rule, approvers, status) ==
  IF rule \in DeathTransitions /\ \E p \in approvers : status[p] # "active"
  THEN {} ELSE Authorized(approvers, status)
=============================================================================
