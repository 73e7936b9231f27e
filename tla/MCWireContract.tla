---------------------------- MODULE MCWireContract ----------------------------
(* Documents of every type: all fields, the required ones alone or, where  *)
(* the fields depend on one another, any of them; then one field dropped,  *)
(* added or given a value that is at a boundary or of another kind.        *)
EXTENDS WireContract, TLC

J(kind, n) == [is |-> kind, n |-> n]

Usual(T, f) ==
  CASE KindOf(T, f) = "i64" -> J("int", 1)
    [] KindOf(T, f) = "f64" -> J("frac", 0)
    [] KindOf(T, f) = "Value" -> J("Object", 0)
    [] OTHER -> J(KindOf(T, f), 0)

Odd(T, f) ==
  {J("null", 0), J("other", 0)} \cup
  IF KindOf(T, f) \in {"i64", "f64"}
  THEN {J("int", n) : n \in {-1 - Safe, -1, 0, Small, Small + 1, MaxI64, MaxI64 + 1} \cup (Safe - 1)..(Safe + 3)}
       \cup {J("whole", 1), J("whole", Safe + 1), J("frac", 0)}
  ELSE IF KindOf(T, f) = "bool" THEN {J("bool", 1)} ELSE {}

\* The types whose fields depend on one another, and the fields that do.
Conditional ==
  {"LockAcquireResponse", "SemaphoreAcquireResponse", "LockCancelResponse",
   "SemaphoreCancelResponse", "LockRenewResponse", "SemaphoreRenewResponse",
   "LockReleaseResponse", "SemaphoreReleaseResponse", "LockAcquireRequest", "LockRenewRequest",
   "LockCancelRequest"}
Decisive == {"acquired", "queued", "cancelled", "renewed", "released"}
Dependent ==
  Grant \cup QueuePlace \cup {"available", "conflicts", "holder", "key", "keys", "promoted",
  "reason", "requested_limit"}

Plain(T, present, yes) ==
  [f \in present |-> IF f \in yes THEN J("bool", 1) ELSE Usual(T, f)]
Presences(T) ==
  {RequiredFields(T), FieldsOf(T)} \cup
  IF T \in Conditional
  THEN {RequiredFields(T) \cup s : s \in SUBSET (FieldsOf(T) \cap Dependent)} ELSE {}
Bases(T) ==
  UNION {{Plain(T, p, yes) : yes \in IF T \in Conditional THEN SUBSET (p \cap Decisive) ELSE {{}}} :
           p \in Presences(T)}

Changed(T, d) ==
  {[d EXCEPT ![f] = v] : f \in DOMAIN d, v \in {J("null", 0), J("other", 0)}}
  \cup UNION {{[d EXCEPT ![f] = v] : v \in Odd(T, f)} : f \in DOMAIN d}
  \cup {[f \in DOMAIN d \ {g} |-> d[f]] : g \in DOMAIN d}
  \cup {d @@ ("unlisted" :> J("Object", 0))}

\* Both fields of a queue place may be null at once.
Unqueued(d) ==
  [f \in DOMAIN d |-> IF f \in {"position", "wait_expires_ms"} THEN J("null", 0) ELSE d[f]]

MCInputs ==
  UNION {{[type |-> T, doc |-> d] :
            d \in UNION {{b, Unqueued(b)} \cup IF Conforms(T, b) THEN Changed(T, b) ELSE {}
                           : b \in Bases(T)}} : T \in Type}
=============================================================================
