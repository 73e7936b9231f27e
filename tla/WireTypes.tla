------------------------------- MODULE WireTypes -------------------------------
(***************************************************************************)
(* The payload types of the coordination services: the structs that        *)
(* generated/rust/src/lib.rs declares for serde, and what the JSON Schema  *)
(* of each (schema/*.schema.json, SCHEMA_BUNDLE in validation.rs) asks     *)
(* beyond the presence and the type of a field: the range of an integer,   *)
(* which fields may be null and which fields go together.                  *)
(*                                                                         *)
(* A struct is its required fields and its optional ones: those are        *)
(* Option<T> with serde(default, skip_serializing_if = "Option::is_none"). *)
(***************************************************************************)
EXTENDS Integers

CONSTANTS
  Safe,   \* 2^53: a JSON number above it is rounded where numbers are doubles
  MaxI64, \* the largest i64
  Small   \* the bounds that are far below Safe: 24 hours, 100 percent

ASSUME WidthAssumption ==
  /\ Safe \in Nat /\ MaxI64 \in Nat /\ Small \in Nat
  /\ 1 < Small /\ Small < Safe /\ Safe < MaxI64 /\ Safe % 4 = 0

Fields(required, optional) == [required |-> required, optional |-> optional]
Required(required) == Fields(required, {})
-----------------------------------------------------------------------------
(* The structs, by the schema file they are generated from.                *)

BarrierStructs == [
  BarrierPolicy |-> Fields({"kind"}, {"required", "required_weight"}),
  BarrierCreateRequest |-> Fields({"name", "policy"}, {"expected", "deadline_ms"}),
  BarrierArriveRequest |-> Fields({"name", "participant"}, {"weight", "veto"}),
  BarrierArrival |-> Required({"participant", "weight", "veto", "arrived_ms"}),
  BarrierState |-> Fields({"name", "policy", "expected", "status", "arrivals",
      "arrived_count", "arrived_weight"}, {"deadline_ms"})]

BudgetStructs == [
  BudgetAmount |-> Fields({}, {"usd_micros", "tokens", "tool_calls"}),
  BudgetSetRequest |-> Required({"name", "limit"}),
  BudgetReserveRequest |-> Required({"name", "reservation_id", "holder", "amount"}),
  BudgetCommitRequest |-> Required({"name", "reservation_id", "actual"}),
  BudgetReservation |-> Required({"id", "holder", "reserved", "spent", "status"}),
  BudgetState |-> Required({"name", "limit", "reserved", "spent", "available",
      "reservations", "generation"})]

ClaimStructs == [
  ClaimContest |-> Required({"agent", "reason"}),
  ClaimAssertRequest |-> Fields({"name", "subject", "predicate", "author"}, {"value",
      "confidence", "evidence", "valid_until_ms"}),
  ClaimContestRequest |-> Fields({"name", "agent"}, {"reason"}),
  ClaimResolveRequest |-> Required({"name", "accepted"}),
  ClaimState |-> Fields({"name", "subject", "predicate", "confidence", "author", "status",
      "supporters", "contests", "evidence", "version", "generation"}, {"value",
      "valid_until_ms", "superseded_by"})]

CommonStructs == [
  ProposeOutcome |-> Required({"shard", "log_index", "revision", "output"}),
  ProposeError |-> Fields({"reason", "shard"}, {"leader", "retryable"}),
  ChangeEvent |-> Fields({"scope", "kind", "key", "revision"}, {"detail"}),
  Introspection |-> Fields({"valid", "scopes"}, {"org_id", "key_id", "require_idempotency"})]

CounterStructs == [
  CounterAddRequest |-> Fields({"key", "delta"}, {"prev_revision"}),
  CounterSetRequest |-> Fields({"key", "value"}, {"prev_revision"}),
  CounterEntry |-> Required({"value", "mod_revision"})]

DecisionStructs == [
  DecisionPolicy |-> Fields({"kind"}, {"min_votes", "required_weight"}),
  DecisionTally |-> Required({"option", "weight"}),
  DecisionVote |-> Fields({"voter", "confidence", "weight", "veto", "evidence"}, {"option"}),
  DecisionProposeRequest |-> Fields({"name", "question", "options", "policy"},
      {"deadline_ms"}),
  DecisionVoteRequest |-> Fields({"name", "voter"}, {"option", "confidence", "weight",
      "veto", "evidence"}),
  DecisionState |-> Fields({"name", "question", "options", "policy", "status", "tallies",
      "votes", "generation"}, {"winner", "deadline_ms"})]

ServiceStructs == [
  ServiceRegisterRequest |-> Fields({"address", "ttl_ms"}, {"metadata"}),
  ServiceHeartbeatRequest |-> Fields({}, {"ttl_ms"}),
  ServiceInstance |-> Required({"instance_id", "address", "lease_expires_ms", "metadata"}),
  ServiceListResponse |-> Required({"service", "instances"}),
  ServiceSummary |-> Required({"service", "instances"}),
  ServicesListResponse |-> Required({"count", "services"})]

EffectStructs == [
  EffectPrepareRequest |-> Fields({"name", "effect_type", "idempotency_key"}, {"payload",
      "risk", "required_approvals"}),
  EffectApproveRequest |-> Required({"name", "principal"}),
  EffectCommitRequest |-> Fields({"name"}, {"result"}),
  EffectState |-> Fields({"name", "effect_type", "risk", "idempotency_key", "status",
      "required_approvals", "approvals", "generation"}, {"payload", "result"})]

ElectionStructs == [
  CampaignRequest |-> Fields({"candidate", "ttl_ms"}, {"metadata"}),
  RenewRequest |-> Fields({"candidate", "fencing_token"}, {"ttl_ms"}),
  HoldRequest |-> Required({"candidate", "fencing_token"}),
  Leadership |-> Required({"leader", "fencing_token", "lease_expires_ms", "ttl_ms",
      "metadata"}),
  ElectionGetResponse |-> Fields({"name", "held"}, {"leadership"})]

HandoffStructs == [
  HandoffOfferRequest |-> Fields({"name", "resource", "from", "to", "from_token"},
      {"context", "ttl_ms"}),
  HandoffDecisionRequest |-> Required({"name", "to"}),
  HandoffState |-> Fields({"name", "resource", "from", "to", "from_token", "status",
      "generation"}, {"to_token", "context", "expires_ms"})]

IdempotencyStructs == [
  IdempotencyClaimRequest |-> Fields({"key"}, {"owner", "ttl_ms", "ttl", "metadata"}),
  IdempotencyCompleteRequest |-> Fields({"key", "owner", "fencing_token"}, {"result"}),
  IdempotencyRecord |-> Fields({"key", "owner", "fencing_token", "status", "first_seen_ms",
      "lease_expires_ms", "metadata"}, {"result"}),
  IdempotencyGetResponse |-> Fields({"key", "found"}, {"record"})]

KvStructs == [
  KvEntry |-> Fields({"value", "mod_revision"}, {"expires_at_ms"}),
  KvProtection |-> Fields({"at_rest"}, {"provider", "key_id", "key_version"}),
  KvPutRequest |-> Fields({"value"}, {"ttl_ms", "prev_revision", "plaintext"}),
  KvGetResponse |-> Fields({"key", "found"}, {"entry", "protection"}),
  KvListItem |-> Fields({"key", "value", "mod_revision"}, {"expires_at_ms", "protection"}),
  KvListResponse |-> Required({"prefix", "count", "keys"})]

LockStructs == [
  LockAcquireRequest |-> Fields({"holder"}, {"key", "keys", "request_id", "ttl_ms", "wait",
      "wait_timeout_ms"}),
  LockAcquireManyRequest |-> Fields({"keys", "holder"}, {"request_id", "ttl_ms", "wait",
      "wait_timeout_ms"}),
  LockHolder |-> Fields({"holder", "fencing_token", "lease_expires_ms", "keys"}, {"lock_id",
      "exclusive"}),
  LockPromotedGrant |-> Required({"holder", "keys", "fencing_token", "lease_expires_ms"}),
  SemaphorePromotedGrant |-> Required({"holder", "fencing_token", "lease_expires_ms"}),
  LockAcquireResponse |-> Fields({"acquired", "queued", "keys", "holder", "revision"},
      {"renewed", "fencing_token", "lease_expires_ms", "position", "wait_expires_ms",
      "conflicts"})]

LockLifecycleStructs == [
  LockGrant |-> Fields({"acquired"}, {"lock_id", "fencing_token", "fencing_tokens", "keys",
      "holders", "max", "available"}),
  LockRenewRequest |-> Fields({"holder", "fencing_token"}, {"key", "keys", "ttl_ms"}),
  LockRenewResponse |-> Fields({"renewed", "revision"}, {"reason", "keys", "holder",
      "fencing_token", "lease_expires_ms"}),
  LockReleaseRequest |-> Required({"holder", "fencing_token"}),
  LockReleaseResponse |-> Fields({"released", "revision"}, {"reason", "keys", "promoted"}),
  LockReleaseManyRequest |-> Required({"lock_id"}),
  LockCancelRequest |-> Fields({"holder"}, {"key", "keys", "request_id"}),
  LockCancelResponse |-> Fields({"cancelled", "acquired", "keys", "holder", "promoted",
      "revision"}, {"reason", "fencing_token", "lease_expires_ms"})]

SemaphoreStructs == [
  SemaphoreAcquireRequest |-> Fields({"key", "holder", "limit"}, {"request_id", "ttl_ms",
      "wait", "wait_timeout_ms"}),
  SemaphoreAcquireResponse |-> Fields({"acquired", "queued", "key", "holder", "limit",
      "revision"}, {"renewed", "reason", "requested_limit", "available", "fencing_token",
      "lease_expires_ms", "position", "wait_expires_ms"}),
  SemaphoreRenewRequest |-> Fields({"key", "holder", "fencing_token"}, {"ttl_ms"}),
  SemaphoreRenewResponse |-> Fields({"renewed", "revision"}, {"reason", "key", "holder",
      "fencing_token", "lease_expires_ms"}),
  SemaphoreReleaseRequest |-> Required({"key", "holder", "fencing_token"}),
  SemaphoreReleaseResponse |-> Fields({"released", "revision"}, {"reason", "key",
      "promoted"}),
  SemaphoreCancelRequest |-> Fields({"key", "holder"}, {"request_id"}),
  SemaphoreCancelResponse |-> Fields({"cancelled", "acquired", "key", "holder", "promoted",
      "revision"}, {"reason", "fencing_token", "lease_expires_ms"})]

LeaseStructs == [
  FileLeaseAcquireRequest |-> Fields({"repository", "paths", "agent_key"}, {"ttl_ms",
      "wait"}),
  FileLeaseReleaseRequest |-> Required({"agent_key", "fencing_token"}),
  FileLeaseRenewRequest |-> Fields({"repository", "paths", "agent_key", "fencing_token"},
      {"ttl_ms"}),
  FileLeaseQuery |-> Required({"repository", "path"}),
  RwAcquireRequest |-> Fields({}, {"ttl_ms", "wait"})]

RateLimitStructs == [
  RateLimitCheckRequest |-> Fields({"algorithm", "limit", "window_ms"},
      {"refill_per_second", "cost"}),
  RateLimitSnapshot |-> Required({"key", "tenant", "algorithm", "allowed", "remaining",
      "reset_ms"}),
  RateLimitGetResponse |-> Fields({"tenant", "key", "found"}, {"limit"})]

ScheduleStructs == [
  ScheduleTarget |-> Fields({"kind"}, {"url", "name", "endpoint"}),
  ScheduleUpsertRequest |-> Fields({"target"}, {"cron", "one_shot_at_ms", "delivery",
      "max_retries"}),
  Schedule |-> Fields({"name", "target", "delivery", "max_retries", "enabled"}, {"cron",
      "one_shot_at_ms"}),
  ScheduleRun |-> Required({"fire_id", "fired_at_ms", "attempts", "duplicate", "target"}),
  ScheduleRecordRunRequest |-> Fields({"fire_id"}, {"fired_at_ms"}),
  ScheduleGetResponse |-> Fields({"name", "found"}, {"schedule"}),
  ScheduleHistoryResponse |-> Required({"name", "history"})]

SyncStructs == [
  SyncChangeEvent |-> Fields({"table", "op", "id", "version", "row", "at_ms"}, {"write_key",
      "sync_sequence"}),
  SyncQueuedWrite |-> Required({"id", "table", "op", "payload", "base_version", "key"}),
  SyncWriteAcknowledgement |-> Required({"id", "committed_version"}),
  SyncPullPage |-> Required({"changes", "next_cursor", "has_more"}),
  SyncWritePolicy |-> Required({"strategy", "failure_mode", "telemetry"}),
  SyncReplicaMetadata |-> Fields({"version", "dirty", "created_at_ms", "updated_at_ms"},
      {"synced_at_ms"}),
  SyncTelemetryEvent |-> Fields({"phase", "strategy", "table", "op", "at_ms"}, {"attempts",
      "error_type"})]

TaskStructs == [
  TaskCreateRequest |-> Fields({"name", "task_type"}, {"payload", "deadline_ms"}),
  TaskClaimRequest |-> Fields({"name", "worker"}, {"ttl_ms"}),
  TaskProgressRequest |-> Fields({"name", "worker", "fencing_token"}, {"percent",
      "checkpoint"}),
  TaskCompleteRequest |-> Fields({"name", "worker", "fencing_token"}, {"result"}),
  TaskFailRequest |-> Fields({"name", "worker", "fencing_token"}, {"retryable"}),
  TaskState |-> Fields({"name", "task_type", "status", "fencing_token", "progress",
      "generation"}, {"payload", "owner", "checkpoint", "result", "lease_expires_ms",
      "deadline_ms"})]

Families ==
  {BarrierStructs, BudgetStructs, ClaimStructs, CommonStructs, CounterStructs, DecisionStructs,
   ServiceStructs, EffectStructs, ElectionStructs, HandoffStructs, IdempotencyStructs, KvStructs,
   LockStructs, LockLifecycleStructs, SemaphoreStructs, LeaseStructs, RateLimitStructs,
   ScheduleStructs, SyncStructs, TaskStructs}

Type == UNION {DOMAIN family : family \in Families}
Structs == [T \in Type |-> (CHOOSE family \in Families : T \in DOMAIN family)[T]]
RequiredFields(T) == Structs[T].required
AllFields == [T \in Type |-> Structs[T].required \cup Structs[T].optional]
FieldsOf(T) == AllFields[T]
-----------------------------------------------------------------------------
(* Types of fields: one name has one type, with few exceptions.            *)

BoolFields ==
  {"accepted", "acquired", "allowed", "cancelled", "dirty", "duplicate", "enabled", "exclusive",
   "found", "has_more", "held", "plaintext", "queued", "released", "renewed",
   "require_idempotency", "retryable", "valid", "veto", "wait"}
EnumFields ==
  {"algorithm", "at_rest", "delivery", "failure_mode", "kind", "op", "phase", "provider",
   "reason", "scope", "status", "strategy", "telemetry"}
VecFields ==
  {"approvals", "arrivals", "changes", "conflicts", "contests", "evidence", "history", "keys",
   "options", "paths", "promoted", "reservations", "scopes", "services", "supporters",
   "tallies", "votes"}
StructFields ==
  {"actual", "amount", "entry", "leadership", "policy", "protection", "record", "reserved",
   "schedule", "spent", "target"}
ValueFields == {"checkpoint", "context", "detail", "output", "payload", "result"}
FloatFields == {"confidence", "refill_per_second"}
MapFields   == {"fencing_tokens", "metadata"}
IntFields ==
  {"arrived_count", "arrived_ms", "arrived_weight", "at_ms", "attempts", "available",
   "base_version", "committed_version", "cost", "count", "created_at_ms", "deadline_ms", "delta",
   "expected", "expires_at_ms", "expires_ms", "fencing_token", "fired_at_ms", "first_seen_ms",
   "from_token", "generation", "holders", "instances", "key_version", "lease_expires_ms",
   "limit", "log_index", "max", "max_retries", "min_votes", "mod_revision", "next_cursor",
   "one_shot_at_ms", "percent", "position", "prev_revision", "progress", "remaining",
   "requested_limit", "required", "required_approvals", "required_weight", "reset_ms",
   "revision", "shard", "sync_sequence", "synced_at_ms", "to_token", "tokens", "tool_calls",
   "ttl_ms", "updated_at_ms", "usd_micros", "valid_until_ms", "version", "wait_expires_ms",
   "wait_timeout_ms", "weight", "window_ms"}

\* Required, and Option<Value> without a serde attribute.
IsNullable(T, f) ==
  <<T, f>> \in {<<"SyncChangeEvent", "row">>, <<"SyncQueuedWrite", "payload">>}

Kinds == [T \in Type |-> [f \in FieldsOf(T) |->
  CASE f = "value" -> IF T \in {"ClaimAssertRequest", "ClaimState"} THEN "Value"
                      ELSE IF T \in {"CounterSetRequest", "CounterEntry"} THEN "i64" ELSE "String"
    [] f = "row" -> "Object"
    [] f = "payload" -> IF T = "SyncQueuedWrite" THEN "Object" ELSE "Value"
    [] f = "kind" /\ T = "ChangeEvent" -> "String"
    [] f = "reason" /\ T \in {"ClaimContest", "ClaimContestRequest"} -> "String"
    [] f = "limit" /\ T \in {"BudgetSetRequest", "BudgetState", "RateLimitGetResponse"} -> "Object"
    [] f = "available" /\ T = "BudgetState" -> "Object"
    [] f = "instances" /\ T = "ServiceListResponse" -> "Vec"
    [] OTHER ->
         IF f \in IntFields THEN "i64" ELSE IF f \in BoolFields THEN "bool"
         ELSE IF f \in EnumFields THEN "enum" ELSE IF f \in VecFields THEN "Vec"
         ELSE IF f \in StructFields \cup MapFields THEN "Object"
         ELSE IF f \in FloatFields THEN "f64" ELSE IF f \in ValueFields THEN "Value" ELSE "String"]]
KindOf(T, f) == Kinds[T][f]
=============================================================================
