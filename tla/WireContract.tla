----------------------------- MODULE WireContract -----------------------------
(***************************************************************************)
(* The way of a JSON document through the peers of the coordination        *)
(* services.  A Rust peer reads it with from_json of ValidatedJson         *)
(* (validate_json, then the typed decode) and validates what it writes; a  *)
(* browser reads every number as a double and validates too, as the README *)
(* demands at I/O ingress and egress.  Who is granted a lock, a permit or  *)
(* a raced cancellation releases it with the token it was sent.            *)
(*                                                                         *)
(* A document is a function from its fields to JSON values; a value is its *)
(* kind and, for a number, its integral part.  The contents of strings,    *)
(* arrays and nested objects are left out, and so is a fraction of a       *)
(* number so large that no double has one.                                 *)
(***************************************************************************)
EXTENDS WireTypes

CONSTANTS
  Inputs,  \* the documents that untrusted peers send, each with its type
  MaxHops  \* bound: how often a document is passed on

Kind == {"null", "bool", "String", "enum", "other", "Vec", "Object", "int", "whole", "frac"}
JsonValue == {v \in [is : Kind, n : Int] : v.is = "frac" => 2 * v.n \in -Safe..(Safe - 1)}

ASSUME InputsAssumption ==
  \A i \in Inputs : i.type \in Type /\ \A f \in DOMAIN i.doc : i.doc[f] \in JsonValue
ASSUME HopsAssumption == MaxHops \in Nat

VARIABLES
  at,    \* where the document is
  type,  \* the type it is read as
  doc,   \* the JSON document
  value, \* the struct the Rust peer holds: its fields that are not None
  sent,  \* history: the document as it was first sent
  hops   \* how often it has been passed on

vars == <<at, type, doc, value, sent, hops>>

Place == {"wire", "valid", "typed", "refused", "failed", "stuck"}
NoFields == [f \in {} |-> 0]
Null == [is |-> "null", n |-> 0]
Number == {"int", "whole", "frac"}

Init ==
  /\ at = "wire" /\ value = NoFields /\ hops = 0
  /\ sent \in Inputs /\ type = sent.type /\ doc = sent.doc
-----------------------------------------------------------------------------
(* What the schemas ask.                                                   *)

Signed == {"delta", "value"}
\* "maximum": 9007199254740991.
Capped(T, f) ==
  \/ f \in {"fencing_token", "from_token", "to_token", "at_ms", "base_version",
            "committed_version", "created_at_ms", "updated_at_ms", "synced_at_ms",
            "next_cursor", "sync_sequence"}
  \/ f = "version" /\ T # "ClaimState"

\* A TTL, a limit or a percentage with a maximum of its own.
LockWaits ==
  {"LockAcquireRequest", "LockAcquireManyRequest", "LockRenewRequest", "SemaphoreAcquireRequest",
   "SemaphoreRenewRequest", "FileLeaseAcquireRequest", "FileLeaseRenewRequest"}
Bounded(T, f) ==
  \/ f \in {"percent", "progress", "wait_timeout_ms"}
  \/ T \in LockWaits /\ f = "ttl_ms"
  \/ T = "SemaphoreAcquireRequest" /\ f = "limit"

\* "minimum": 1.
Positive(T, f) ==
  \/ f \in {"cost", "key_version", "limit", "max", "position", "required", "required_weight",
            "requested_limit", "wait_timeout_ms", "window_ms"}
  \/ f = "ttl_ms" /\ T # "Leadership"
  \/ /\ f = "fencing_token"
     /\ T \in DOMAIN LockStructs \cup DOMAIN LockLifecycleStructs \cup DOMAIN SemaphoreStructs
              \cup DOMAIN LeaseStructs

MaxSafe == Safe - 1

\* Mutant: the cap is 2^53.
InRangeOfDoubles(T, f, n) ==
  /\ f \in Signed \/ n >= (IF Positive(T, f) THEN 1 ELSE 0)
  /\ Capped(T, f) => n <= Safe
  /\ Bounded(T, f) => n <= Small

InRange(T, f, n) ==
  /\ f \in Signed \/ n >= (IF Positive(T, f) THEN 1 ELSE 0)
  /\ Capped(T, f) => n <= MaxSafe
  /\ Bounded(T, f) => n <= Small

MayBeNull(T, f) ==
  \/ IsNullable(T, f)
  \/ T \in {"LockAcquireResponse", "SemaphoreAcquireResponse"} /\ f \in {"position", "wait_expires_ms"}

\* A schema without a type; the other fields that serde keeps as they are are objects.
Anything == {"output", "value"}

\* An "integer" of JSON Schema may be written 5.0.
Admits(T, f, v) ==
  \/ MayBeNull(T, f) /\ v.is = "null"
  \/ KindOf(T, f) = "Value" /\ (f \in Anything \/ v.is = "Object")
  \/ KindOf(T, f) = "i64" /\ v.is \in {"int", "whole"} /\ InRange(T, f, v.n)
  \/ KindOf(T, f) = "f64" /\ v.is \in Number /\ (f = "refill_per_second" => v.n >= 0)
  \/ v.is = KindOf(T, f)

Has(d, fs)  == fs \subseteq DOMAIN d
Yes(d, f)   == f \in DOMAIN d /\ d[f].n = 1
Grant       == {"fencing_token", "lease_expires_ms"}
QueuePlace  == {"position", "wait_expires_ms"}

NamesKeys(d) == Has(d, {"key"}) \/ Has(d, {"keys"})

AcquireFits(d) ==
  /\ IF Yes(d, "acquired") THEN Has(d, Grant) /\ ~Yes(d, "queued")
     ELSE Has(d, QueuePlace \cup {"conflicts"})
  /\ Yes(d, "queued") => \A f \in QueuePlace \cap DOMAIN d : d[f].is # "null"

\* Exactly one of three shapes.
PermitFits(d) ==
  \/ Yes(d, "acquired") /\ ~Yes(d, "queued") /\ Has(d, Grant \cup {"available"})
  \/ /\ ~Yes(d, "acquired") /\ ~Has(d, {"reason"})
     /\ Has(d, QueuePlace \cup {"available"})
  \/ ~Yes(d, "acquired") /\ ~Yes(d, "queued") /\ Has(d, {"reason", "requested_limit"})

\* Mutant: a raced promotion need not carry the grant.
CancelFitsBare(d) == Yes(d, "cancelled") => ~Yes(d, "acquired")

CancelFits(d) ==
  \/ Yes(d, "cancelled") /\ ~Yes(d, "acquired")
  \/ ~Yes(d, "cancelled") /\ Yes(d, "acquired") /\ Has(d, Grant)
  \/ ~Yes(d, "cancelled") /\ ~Yes(d, "acquired") /\ Has(d, {"reason"})

\* The keyword f of an answer decides between its fields and a reason.
Decides(d, f, fields) == IF Yes(d, f) THEN Has(d, fields) ELSE Has(d, {"reason"})

Together(T, d) ==
  CASE T \in {"LockAcquireRequest", "LockRenewRequest", "LockCancelRequest"} -> NamesKeys(d)
    [] T = "LockAcquireResponse"      -> AcquireFits(d)
    [] T = "SemaphoreAcquireResponse" -> PermitFits(d)
    [] T \in {"LockCancelResponse", "SemaphoreCancelResponse"} -> CancelFits(d)
    [] T = "LockRenewResponse"        -> Decides(d, "renewed", Grant \cup {"keys", "holder"})
    [] T = "SemaphoreRenewResponse"   -> Decides(d, "renewed", Grant \cup {"key", "holder"})
    [] T = "LockReleaseResponse"      -> Decides(d, "released", {"keys", "promoted"})
    [] T = "SemaphoreReleaseResponse" -> Decides(d, "released", {"key", "promoted"})
    [] OTHER -> TRUE

\* validate_json; every schema has "additionalProperties": false.
Conforms(T, d) ==
  /\ RequiredFields(T) \subseteq DOMAIN d /\ DOMAIN d \subseteq FieldsOf(T)
  /\ \A f \in DOMAIN d : Admits(T, f, d[f])
  /\ Together(T, d)
-----------------------------------------------------------------------------
(* What serde reads and writes, and what a JavaScript engine reads.        *)

\* The nearest double of an integer; Safe is as far as the model counts up.
Round(n) ==
  IF n \in -Safe..Safe \/ n % 2 = 0 THEN n ELSE IF n % 4 = 1 THEN n - 1 ELSE n + 1

\* A None: the null of an Option.
IsNone(T, f, v) == v.is = "null" /\ (f \notin RequiredFields(T) \/ IsNullable(T, f))

\* Mutant: the optional fields have no Option.
ReadsNoNull(T, f, v) ==
  \/ KindOf(T, f) = "Value" \/ IsNullable(T, f)
  \/ KindOf(T, f) = "i64" /\ v.is = "int" /\ v.n <= MaxI64
  \/ KindOf(T, f) = "f64" /\ v.is \in Number
  \/ v.is = KindOf(T, f)

\* Deserialize of the type of the field.
Reads(T, f, v) ==
  \/ IsNone(T, f, v)
  \/ KindOf(T, f) = "Value" \/ IsNullable(T, f)
  \/ KindOf(T, f) = "i64" /\ v.is = "int" /\ v.n <= MaxI64
  \/ KindOf(T, f) = "f64" /\ v.is \in Number
  \/ KindOf(T, f) = "String" /\ v.is \in {"String", "other"}
  \/ v.is = KindOf(T, f)

Decodes(T, d) ==
  /\ RequiredFields(T) \subseteq DOMAIN d
  /\ \A f \in DOMAIN d \cap FieldsOf(T) : Reads(T, f, d[f])

\* An f64 is printed with its point.
AsFloat(v) == IF v.is = "frac" THEN v ELSE [is |-> "whole", n |-> Round(v.n)]

Decode(T, d) ==
  [f \in {g \in DOMAIN d \cap FieldsOf(T) : ~IsNone(T, g, d[g])} |->
     IF KindOf(T, f) = "f64" THEN AsFloat(d[f]) ELSE d[f]]

\* Mutant: a required None is dropped too.
EncodeBare(T, s) == s

\* Mutant: optional fields are dropped when they have the default of their type.
EncodeSparse(T, s) ==
  [f \in {g \in DOMAIN s : g \in RequiredFields(T) \/ s[g].is # "bool" \/ s[g].n = 1}
         \cup {g \in RequiredFields(T) : IsNullable(T, g)} |->
     IF f \in DOMAIN s THEN s[f] ELSE Null]

\* skip_serializing_if drops a None; a None without it is written as null.
Encode(T, s) ==
  [f \in DOMAIN s \cup {g \in RequiredFields(T) : IsNullable(T, g)} |->
     IF f \in DOMAIN s THEN s[f] ELSE Null]

\* JSON.parse, and JSON.stringify of the result.
Parse(d) ==
  [f \in DOMAIN d |->
     IF d[f].is \in {"int", "whole"} THEN [is |-> "int", n |-> Round(d[f].n)] ELSE d[f]]
-----------------------------------------------------------------------------
(* The peers.                                                              *)

\* validate_json of from_json, at ingress.
ValidateJson ==
  /\ at = "wire"
  /\ at' = IF Conforms(type, doc) THEN "valid" ELSE "refused"
  /\ UNCHANGED <<type, doc, value, sent, hops>>

\* The typed decode of decode_json.
DecodeJson ==
  /\ at = "valid"
  /\ \/ /\ Decodes(type, doc)
        /\ at' = "typed" /\ value' = Decode(type, doc)
     \/ /\ ~Decodes(type, doc)
        /\ at' = "failed" /\ value' = value
  /\ UNCHANGED <<type, doc, sent, hops>>

\* validate at egress: what is written must conform again.
Validate ==
  /\ at = "typed" /\ hops < MaxHops
  /\ LET out == Encode(type, value)
     IN  \/ /\ Conforms(type, out)
            /\ at' = "wire" /\ doc' = out /\ value' = NoFields /\ hops' = hops + 1
         \/ /\ ~Conforms(type, out)
            /\ at' = "stuck" /\ UNCHANGED <<doc, value, hops>>
  /\ UNCHANGED <<type, sent>>

\* A browser reads the document and passes on what its validator accepts.
Browse ==
  /\ at = "wire" /\ hops < MaxHops
  /\ \/ /\ Conforms(type, Parse(doc))
        /\ doc' = Parse(doc) /\ hops' = hops + 1 /\ at' = at
     \/ /\ ~Conforms(type, Parse(doc))
        /\ at' = "refused" /\ UNCHANGED <<doc, hops>>
  /\ UNCHANGED <<type, value, sent>>

\* The response that grants, and the request that gives the grant back.
ReleaseOf(T) ==
  CASE T \in {"LockAcquireResponse", "LockCancelResponse"} -> "LockReleaseRequest"
    [] T \in {"SemaphoreAcquireResponse", "SemaphoreCancelResponse"} -> "SemaphoreReleaseRequest"
    [] OTHER -> "none"

\* A holder, or a client whose cancellation lost the race, releases at once.
Release ==
  /\ at = "typed" /\ ReleaseOf(type) # "none" /\ Yes(value, "acquired")
  /\ type' = ReleaseOf(type)
  /\ value' = [f \in DOMAIN value \cap FieldsOf(ReleaseOf(type)) |-> value[f]]
  /\ UNCHANGED <<at, doc, sent, hops>>

Next == ValidateJson \/ DecodeJson \/ Validate \/ Browse \/ Release

Spec == Init /\ [][Next]_vars
-----------------------------------------------------------------------------
\* A document that the schema accepts and the typed decode does not ("typed
\* decode failed after schema validation") has an integer that no i64 takes:
\* too large, or written with a fraction of zero.
DecodeNeverSurprises ==
  at = "failed" =>
    \E f \in DOMAIN doc :
      KindOf(type, f) = "i64" /\ (doc[f].is = "whole" \/ doc[f].n > MaxI64)

\* However often a document is passed on, and by whichever peers, a capped
\* integer a peer acts on (a fencing token, a version, a cursor) is the one
\* that was first sent: one that would be rounded is refused.
AuthorityExact ==
  at = "typed" =>
    \A f \in DOMAIN value : Capped(sent.type, f) => value[f].n = sent.doc[f].n

\* A document that is passed on keeps every field of the first: explicit
\* nulls of optional fields apart, and up to the rounding of the doubles of
\* an f64 or of an integer without a cap.
NothingLost ==
  at = "typed" /\ type = sent.type =>
    \A f \in DOMAIN sent.doc :
      \/ IsNone(type, f, sent.doc[f])
      \/ /\ f \in DOMAIN value
         /\ value[f].n = sent.doc[f].n \/ value[f].n = Round(sent.doc[f].n)
         /\ value[f].is = sent.doc[f].is \/ sent.doc[f].is \in Number

\* Who reads that it holds a lock or a permit, from an acquire or from a
\* cancellation that lost its race, can give it back: the release request it
\* builds conforms and carries the token of the grant.  (The holder is the one
\* of the acquire request, which both schemas allow.)
GrantsCanBeReleased ==
  at = "typed" /\ ReleaseOf(sent.type) # "none" /\ Yes(sent.doc, "acquired") =>
    /\ {"holder", "fencing_token"} \subseteq DOMAIN value
    /\ value["fencing_token"].n \in 1..MaxSafe
    /\ type = ReleaseOf(sent.type) => Conforms(type, Encode(type, value))

\* A peer never holds a struct that it cannot write, unless the document had
\* an explicit null for an optional field.
StuckOnlyOnNull ==
  at = "stuck" => \E f \in DOMAIN doc : doc[f].is = "null" /\ f \notin RequiredFields(type)

-----------------------------------------------------------------------------
(***************************************************************************)
(* The inductive invariant.                                                *)
(***************************************************************************)

\* A document has one of the two types that its path allows, and JSON values.
DocTyped ==
  /\ at \in Place /\ sent.type \in Type
  /\ \A f \in DOMAIN sent.doc : sent.doc[f] \in JsonValue
  /\ type = sent.type \/ (type = ReleaseOf(sent.type) /\ type # "none")
  /\ \A f \in DOMAIN doc : doc[f] \in JsonValue

\* Only what conforms is decoded.
DocRead ==
  /\ at \in {"valid", "failed"} => Conforms(type, doc)
  /\ at = "failed" => ~Decodes(type, doc)

\* A capped integer is as it was sent, or one that no schema accepts.
DocExact ==
  \A f \in DOMAIN doc :
    Capped(sent.type, f) => doc[f].n = sent.doc[f].n \/ doc[f].n \notin 0..MaxSafe

\* The same value, up to the rounding of doubles.
Similar(v, w) ==
  /\ v.n = w.n \/ v.n = Round(w.n)
  /\ v.is = w.is \/ {v.is, w.is} \subseteq Number

\* Nothing but an explicit None of the first document is missing.
Keeps(d) ==
  \A f \in DOMAIN sent.doc :
    IsNone(type, f, sent.doc[f]) \/ (f \in DOMAIN d /\ Similar(d[f], sent.doc[f]))
DocKept == type = sent.type => Keeps(doc)

\* A struct in memory has what the schema of its type asks of each field, and can be
\* written unless an optional null was read for it.
FieldsTyped(T, s) ==
  /\ \A f \in DOMAIN s : f \in FieldsOf(T) /\ s[f] \in JsonValue /\ Admits(T, f, s[f])
  /\ \A f \in RequiredFields(T) : IsNullable(T, f) \/ f \in DOMAIN s
  /\ ReleaseOf(T) # "none" /\ Yes(s, "acquired") => "fencing_token" \in DOMAIN s
HasOptionalNull(T, d) == \E f \in DOMAIN d : d[f].is = "null" /\ f \notin RequiredFields(T)

Held ==
  at = "typed" =>
    /\ FieldsTyped(type, value)
    /\ type = sent.type => Keeps(value)
    /\ Conforms(type, Encode(type, value)) \/ HasOptionalNull(type, doc)

IInv == DocTyped /\ DocRead /\ DocExact /\ DocKept /\ Held /\ AuthorityExact /\ StuckOnlyOnNull
=============================================================================
