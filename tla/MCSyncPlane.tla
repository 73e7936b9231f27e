----------------------------- MODULE MCSyncPlane -----------------------------
(* SyncPlane for TLC: an org, a project of it and, where there is a third   *)
(* row, an API key of both.                                                *)
EXTENDS SyncPlaneFeed, TLC

CONSTANTS org, project, key

\* orgs, projects.org_id, api_keys.org_id and api_keys.project_id.
ForeignKeys == [r \in Row |-> Row \cap (CASE r = org -> {} [] r = project -> {org}
                                          [] r = key -> {org, project})]

Sessions == Permutations(Txn)
=============================================================================
