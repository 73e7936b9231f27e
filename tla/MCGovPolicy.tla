----------------------------- MODULE MCGovPolicy -----------------------------
(* Constants for model-checking GovPolicy: a founder and a guardian, some   *)
(* of whom may be both, a first policy, and replacements that change    *)
(* one field of it to something stricter or weaker.                     *)
EXTENDS GovPolicy, TLC

CONSTANTS founder, guardian, pay, sign, key, normal, away

Listed(status, roles, until) ==
  [status |-> status, roles |-> roles, credentials |-> {key}, valid_from |-> 0,
   valid_until |-> until]
MCEntries ==
  {Listed("active", {"founder"}, Unset), Listed("active", {"founder", "guardian"}, 2),
   Listed("suspended", {"founder", "guardian"}, Unset)}

TwoRoles ==
  [permitted |-> TRUE,
   minimum_approvals |-> 1, required_participants |-> {founder}, required_roles |-> {"founder", "guardian"},
   cooldown |-> 0, challenge_window |-> 1, authority_ttl |-> 1, notice |-> {founder},
   equivalent_access_only |-> TRUE, grants |-> {}, maximum_amount |-> 1, allowed |-> {pay},
   denied |-> {sign}]
Loose ==
  [TwoRoles EXCEPT !.required_participants = {}, !.required_roles = {}, !.challenge_window = 0, !.authority_ttl = Unset,
                   !.notice = {}, !.equivalent_access_only = FALSE, !.grants = {"audit_deletion_allowed"},
                   !.maximum_amount = Unset, !.allowed = Unset, !.denied = {}]
Strict ==
  [TwoRoles EXCEPT !.minimum_approvals = 2, !.cooldown = 2, !.authority_ttl = 0]
Never == [TwoRoles EXCEPT !.permitted = FALSE]

\* One field changed to its value in a looser or a stricter rule.
Changed(rule, others) ==
  {[rule EXCEPT ![field] = other[field]] : field \in DOMAIN rule, other \in others}

Book(present, absent) == normal :> present @@ away :> absent
MCCharters == {Book(TwoRoles, Unset)}
MCDrafts ==
  {Book(rule, Unset) : rule \in Changed(TwoRoles, {Loose, Never}) \cup Changed(Strict, {TwoRoles})}
  \cup {Book(TwoRoles, rule) : rule \in {Never, TwoRoles}}
=============================================================================
