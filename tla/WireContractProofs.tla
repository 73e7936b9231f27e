-------------------------- MODULE WireContractProofs --------------------------
(***************************************************************************)
(* The properties of WireContract, for any documents, any bounds and any   *)
(* way through the peers.                                                  *)
(***************************************************************************)
EXTENDS WireContract, TLAPS

(***************************************************************************)
(* The structs of grants and releases.                                     *)
(***************************************************************************)
Granting ==
  {"LockAcquireResponse", "LockCancelResponse", "SemaphoreAcquireResponse",
   "SemaphoreCancelResponse"}
Releasing == {"LockReleaseRequest", "SemaphoreReleaseRequest"}

\* They are in three of the families.
LEMMA GrantFamilies ==
  ASSUME NEW T \in Granting \cup Releasing, NEW family \in Families, T \in DOMAIN family
  PROVE  family \in {LockStructs, LockLifecycleStructs, SemaphoreStructs}
<1>. USE DEF Granting, Releasing
<1>1. /\ T \notin DOMAIN BarrierStructs /\ T \notin DOMAIN BudgetStructs
      /\ T \notin DOMAIN ClaimStructs /\ T \notin DOMAIN CommonStructs
  BY DEF BarrierStructs, BudgetStructs, ClaimStructs, CommonStructs
<1>2. /\ T \notin DOMAIN CounterStructs /\ T \notin DOMAIN DecisionStructs
      /\ T \notin DOMAIN ServiceStructs /\ T \notin DOMAIN EffectStructs
  BY DEF CounterStructs, DecisionStructs, ServiceStructs, EffectStructs
<1>3. /\ T \notin DOMAIN ElectionStructs /\ T \notin DOMAIN HandoffStructs
      /\ T \notin DOMAIN IdempotencyStructs /\ T \notin DOMAIN KvStructs
  BY DEF ElectionStructs, HandoffStructs, IdempotencyStructs, KvStructs
<1>4. /\ T \notin DOMAIN LeaseStructs /\ T \notin DOMAIN RateLimitStructs
      /\ T \notin DOMAIN ScheduleStructs /\ T \notin DOMAIN SyncStructs
      /\ T \notin DOMAIN TaskStructs
  BY DEF LeaseStructs, RateLimitStructs, ScheduleStructs, SyncStructs, TaskStructs
<1>. QED BY <1>1, <1>2, <1>3, <1>4 DEF Families

\* A struct is what its only family says.
LEMMA StructOf ==
  ASSUME NEW family \in Families, NEW T \in DOMAIN family,
         \A other \in Families : T \in DOMAIN other => other = family
  PROVE  T \in Type /\ Structs[T] = family[T]
<1>1. T \in Type BY DEF Type
<1>2. (CHOOSE other \in Families : T \in DOMAIN other) = family OBVIOUS
<1>. QED BY <1>1, <1>2 DEF Structs

\* What the proofs need to know of the structs.
LEMMA GrantFields ==
  /\ Granting \cup Releasing \subseteq Type
  /\ \A T \in Granting :
       /\ {"holder", "acquired"} \subseteq RequiredFields(T)
       /\ "position" \notin RequiredFields(T) /\ "wait_expires_ms" \notin RequiredFields(T)
       /\ T \in {"SemaphoreAcquireResponse", "SemaphoreCancelResponse"} => "key" \in RequiredFields(T)
  /\ RequiredFields("LockReleaseRequest") = {"holder", "fencing_token"}
  /\ RequiredFields("SemaphoreReleaseRequest") = {"key", "holder", "fencing_token"}
  /\ \A T \in Releasing : FieldsOf(T) = RequiredFields(T)
<1>1. /\ "LockAcquireResponse" \in DOMAIN LockStructs
      /\ \A T \in Granting \cup Releasing : T \in DOMAIN LockStructs => T = "LockAcquireResponse"
  BY DEF LockStructs, Granting, Releasing
<1>2. /\ {"LockCancelResponse", "LockReleaseRequest"} \subseteq DOMAIN LockLifecycleStructs
      /\ \A T \in Granting \cup Releasing : T \in DOMAIN LockLifecycleStructs
           => T \in {"LockCancelResponse", "LockReleaseRequest"}
  BY DEF LockLifecycleStructs, Granting, Releasing
<1>3. /\ {"SemaphoreAcquireResponse", "SemaphoreCancelResponse", "SemaphoreReleaseRequest"}
           \subseteq DOMAIN SemaphoreStructs
      /\ \A T \in Granting \cup Releasing : T \in DOMAIN SemaphoreStructs
           => T \in {"SemaphoreAcquireResponse", "SemaphoreCancelResponse", "SemaphoreReleaseRequest"}
  BY DEF SemaphoreStructs, Granting, Releasing
<1>4. {LockStructs, LockLifecycleStructs, SemaphoreStructs} \subseteq Families BY DEF Families
<1>5. /\ "LockAcquireResponse" \in Type
      /\ Structs["LockAcquireResponse"] = LockStructs["LockAcquireResponse"]
  BY <1>1, <1>2, <1>3, <1>4, GrantFamilies, StructOf DEF Granting
<1>6. \A T \in {"LockCancelResponse", "LockReleaseRequest"} :
        T \in Type /\ Structs[T] = LockLifecycleStructs[T]
  BY <1>1, <1>2, <1>3, <1>4, GrantFamilies, StructOf DEF Granting, Releasing
<1>7. \A T \in {"SemaphoreAcquireResponse", "SemaphoreCancelResponse", "SemaphoreReleaseRequest"} :
        T \in Type /\ Structs[T] = SemaphoreStructs[T]
  BY <1>1, <1>2, <1>3, <1>4, GrantFamilies, StructOf DEF Granting, Releasing
<1>8. Granting \cup Releasing \subseteq Type BY <1>5, <1>6, <1>7 DEF Granting, Releasing
<1>9. /\ {"holder", "acquired"} \subseteq RequiredFields("LockAcquireResponse")
      /\ "position" \notin RequiredFields("LockAcquireResponse")
      /\ "wait_expires_ms" \notin RequiredFields("LockAcquireResponse")
  BY <1>5 DEF LockStructs, RequiredFields, Fields
<1>10. /\ {"holder", "acquired"} \subseteq RequiredFields("LockCancelResponse")
       /\ "position" \notin RequiredFields("LockCancelResponse")
       /\ "wait_expires_ms" \notin RequiredFields("LockCancelResponse")
       /\ Structs["LockReleaseRequest"] = Required({"holder", "fencing_token"})
  BY <1>6 DEF LockLifecycleStructs, RequiredFields, Fields
<1>11. /\ \A T \in {"SemaphoreAcquireResponse", "SemaphoreCancelResponse"} :
            /\ {"key", "holder", "acquired"} \subseteq RequiredFields(T)
            /\ "position" \notin RequiredFields(T) /\ "wait_expires_ms" \notin RequiredFields(T)
       /\ Structs["SemaphoreReleaseRequest"] = Required({"key", "holder", "fencing_token"})
  BY <1>7 DEF SemaphoreStructs, RequiredFields, Fields
<1>12. \A T \in Releasing : FieldsOf(T) = RequiredFields(T)
  <2>1. \A T \in Type : FieldsOf(T) = Structs[T].required \cup Structs[T].optional
    BY DEF FieldsOf, AllFields
  <2>2. \A T \in Releasing : Structs[T].optional = {}
    BY <1>10, <1>11 DEF Releasing, Required, Fields
  <2>. QED BY <1>8, <2>1, <2>2 DEF RequiredFields
<1>. QED
  BY <1>8, <1>9, <1>10, <1>11, <1>12 DEF Granting, RequiredFields, Required, Fields

-----------------------------------------------------------------------------
(***************************************************************************)
(* The types of fields and the numbers.                                    *)
(***************************************************************************)

\* A field is declared in one place for all structs, with the exceptions of KindOf.
LEMMA KindFacts ==
  ASSUME NEW T \in Type, NEW f \in FieldsOf(T)
  PROVE  /\ f \in {"holder", "key"} => KindOf(T, f) = "String"
         /\ f \in {"acquired", "queued", "cancelled", "renewed", "released"} => KindOf(T, f) = "bool"
         /\ f \in QueuePlace => KindOf(T, f) = "i64"
         /\ IsNullable(T, f) => KindOf(T, f) = "Object"
<1>1. KindOf(T, f) = Kinds[T][f] /\ f \in AllFields[T] BY DEF KindOf, FieldsOf
<1>. QED
  BY <1>1 DEF Kinds, FieldsOf, QueuePlace, IsNullable, IntFields, BoolFields, EnumFields, VecFields,
              StructFields, MapFields, FloatFields, ValueFields

LEMMA CappedKind ==
  ASSUME NEW T \in Type, NEW f \in FieldsOf(T), NEW U, Capped(U, f)
  PROVE  KindOf(T, f) = "i64"
<1>1. KindOf(T, f) = Kinds[T][f] /\ f \in AllFields[T] BY DEF KindOf, FieldsOf
<1>. QED BY <1>1 DEF Kinds, FieldsOf, Capped, IntFields

\* Rounding changes nothing up to 2^53, never goes there from beyond, and changes
\* nothing when it is done again.
LEMMA Rounding ==
  ASSUME NEW n \in Int
  PROVE  /\ Round(n) \in Int /\ Round(Round(n)) = Round(n)
         /\ n \in 0..MaxSafe => Round(n) = n
         /\ n \notin 0..MaxSafe => Round(n) \notin 0..MaxSafe
         /\ n >= 0 => Round(n) >= 0
<1>1. Safe \in Nat /\ Safe % 4 = 0 /\ Safe > 2 /\ MaxSafe = Safe - 1
  BY WidthAssumption DEF MaxSafe
<1>2. CASE n \in -Safe..Safe
  BY <1>1, <1>2 DEF Round
<1>3. CASE n > Safe
  BY <1>1, <1>3 DEF Round
<1>4. CASE n < -Safe
  BY <1>1, <1>4 DEF Round
<1>. QED BY <1>1, <1>2, <1>3, <1>4

-----------------------------------------------------------------------------
(***************************************************************************)
(* What the conditions between fields depend on.                           *)
(***************************************************************************)
Decisive == {"acquired", "queued", "cancelled", "renewed", "released"}

LEMMA ReleaseOfGrants ==
  /\ \A T : ReleaseOf(T) # "none" <=> T \in Granting
  /\ \A T \in Granting : ReleaseOf(T) \in Releasing
  /\ \A T \in Releasing : T \notin Granting /\ T # "none"
BY DEF ReleaseOf, Granting, Releasing

\* Who is told that he acquired is told his token.
LEMMA GrantHasToken ==
  ASSUME NEW T \in Granting, NEW d, Together(T, d), Yes(d, "acquired")
  PROVE  "fencing_token" \in DOMAIN d
<1>1. CASE T = "LockAcquireResponse" BY <1>1 DEF Together, AcquireFits, Has, Grant
<1>2. CASE T = "SemaphoreAcquireResponse" BY <1>2 DEF Together, PermitFits, Has, Grant
<1>3. CASE T \in {"LockCancelResponse", "SemaphoreCancelResponse"}
  BY <1>3 DEF Together, CancelFits, Has, Grant
<1>. QED BY <1>1, <1>2, <1>3 DEF Granting

\* Two documents with the same fields, answers and nulls go together alike.
LEMMA TogetherSame ==
  ASSUME NEW T, NEW d, NEW e, DOMAIN e = DOMAIN d, Together(T, d),
         \A f \in Decisive \cap DOMAIN d : e[f].n = d[f].n,
         \A f \in QueuePlace \cap DOMAIN d : d[f].is # "null" => e[f].is # "null"
  PROVE  Together(T, e)
<1>1. \A f \in Decisive : Yes(e, f) <=> Yes(d, f) BY DEF Yes
<1>2. \A fs : Has(e, fs) <=> Has(d, fs) BY DEF Has
<1>3. NamesKeys(d) => NamesKeys(e) BY <1>2 DEF NamesKeys
<1>4. AcquireFits(d) => AcquireFits(e) BY <1>1, <1>2 DEF AcquireFits, Decisive
<1>5. PermitFits(d) => PermitFits(e) BY <1>1, <1>2 DEF PermitFits, Decisive
<1>6. CancelFits(d) => CancelFits(e) BY <1>1, <1>2 DEF CancelFits, Decisive
<1>7. \A f \in Decisive : \A fs : Decides(d, f, fs) => Decides(e, f, fs) BY <1>1, <1>2 DEF Decides
<1>. QED BY <1>3, <1>4, <1>5, <1>6, <1>7 DEF Together, Decisive

-----------------------------------------------------------------------------
(***************************************************************************)
(* Reading and writing.                                                    *)
(***************************************************************************)

\* A null is admitted where MayBeNull says so, and where anything is.
LEMMA AdmittedNull ==
  ASSUME NEW T \in Type, NEW f \in FieldsOf(T), NEW v \in JsonValue, Admits(T, f, v),
         KindOf(T, f) \in {"String", "i64", "bool", "f64"}, v.is = "null"
  PROVE  KindOf(T, f) = "i64" /\ f \in QueuePlace
<1>1. v.is \in Kind BY DEF JsonValue
<1>2. MayBeNull(T, f) BY <1>1 DEF Admits, Number
<1>. QED BY <1>2, KindFacts DEF MayBeNull, QueuePlace

\* Decoding keeps a field that is not None, up to the rounding of an f64.
LEMMA DecodeField ==
  ASSUME NEW T \in Type, NEW d, NEW f \in DOMAIN d, d[f] \in JsonValue, Conforms(T, d),
         ~IsNone(T, f, d[f])
  PROVE  /\ f \in FieldsOf(T) /\ f \in DOMAIN Decode(T, d)
         /\ Decode(T, d)[f] \in JsonValue /\ Admits(T, f, Decode(T, d)[f])
         /\ KindOf(T, f) # "f64" => Decode(T, d)[f] = d[f]
         /\ Similar(Decode(T, d)[f], d[f])
<1>1. f \in FieldsOf(T) /\ Admits(T, f, d[f]) BY DEF Conforms
<1>2. /\ f \in DOMAIN Decode(T, d)
      /\ Decode(T, d)[f] = IF KindOf(T, f) = "f64" THEN AsFloat(d[f]) ELSE d[f]
  BY <1>1 DEF Decode
<1>3. CASE KindOf(T, f) # "f64" BY <1>1, <1>2, <1>3 DEF Similar
<1>4. CASE KindOf(T, f) = "f64"
  <2>1. d[f].is # "null" BY <1>1, <1>4, AdmittedNull
  <2>2. d[f].is \in Kind /\ d[f].n \in Int BY DEF JsonValue
  <2>3. d[f].is \in Number /\ (f = "refill_per_second" => d[f].n >= 0)
    <3>1. ~MayBeNull(T, f) \/ d[f].is # "null" BY <2>1
    <3>. QED BY <1>1, <1>4, <2>1, <2>2 DEF Admits, Kind
  <2>4. Round(d[f].n) \in Int /\ (d[f].n >= 0 => Round(d[f].n) >= 0) BY <2>2, Rounding
  <2>5. /\ AsFloat(d[f]) \in JsonValue /\ AsFloat(d[f]).is \in Number
        /\ AsFloat(d[f]).n \in {d[f].n, Round(d[f].n)}
    BY <2>2, <2>3, <2>4 DEF AsFloat, JsonValue, Kind, Number
  <2>6. Admits(T, f, AsFloat(d[f])) BY <1>4, <2>3, <2>4, <2>5 DEF Admits
  <2>. QED BY <1>1, <1>2, <1>4, <2>3, <2>5, <2>6 DEF Similar
<1>. QED BY <1>3, <1>4

\* What is decoded of a document that conforms has the types of its struct.
LEMMA DecodeTyped ==
  ASSUME NEW T \in Type, NEW d, \A f \in DOMAIN d : d[f] \in JsonValue, Conforms(T, d)
  PROVE  FieldsTyped(T, Decode(T, d))
<1>. DEFINE s == Decode(T, d)
<1>0. /\ DOMAIN d \subseteq FieldsOf(T) /\ RequiredFields(T) \subseteq DOMAIN d
      /\ \A f \in DOMAIN d : Admits(T, f, d[f])
  BY DEF Conforms
<1>1. \A f \in DOMAIN s : f \in DOMAIN d /\ ~IsNone(T, f, d[f]) BY DEF Decode
<1>2. \A f \in DOMAIN s : f \in FieldsOf(T) /\ s[f] \in JsonValue /\ Admits(T, f, s[f])
  BY <1>1, DecodeField
<1>3. \A f \in RequiredFields(T) : IsNullable(T, f) \/ f \in DOMAIN s
  BY <1>0, DecodeField DEF IsNone
<1>4. ASSUME ReleaseOf(T) # "none", Yes(s, "acquired") PROVE "fencing_token" \in DOMAIN s
  <2>1. T \in Granting BY <1>4, ReleaseOfGrants
  <2>2. "acquired" \in DOMAIN d /\ s["acquired"] = d["acquired"]
    <3>1. "acquired" \in DOMAIN s BY <1>4 DEF Yes
    <3>2. KindOf(T, "acquired") = "bool" BY <1>2, <3>1, KindFacts
    <3>. QED BY <1>1, <3>1, <3>2, DecodeField
  <2>3. "fencing_token" \in DOMAIN d
    BY <1>4, <2>1, <2>2, GrantHasToken DEF Conforms, Yes
  <2>4. KindOf(T, "fencing_token") = "i64"
    BY <1>0, <2>3, CappedKind DEF Capped
  <2>5. d["fencing_token"].is # "null"
    BY <1>0, <2>3, <2>4, AdmittedNull DEF QueuePlace
  <2>. QED BY <2>3, <2>5, DecodeField DEF IsNone
<1>. QED BY <1>2, <1>3, <1>4 DEF FieldsTyped

\* Encoding a struct writes its fields, and a null for a required one that is None.
LEMMA EncodeFields ==
  ASSUME NEW T, NEW s
  PROVE  /\ \A f : f \in DOMAIN Encode(T, s) <=>
                    f \in DOMAIN s \/ (f \in RequiredFields(T) /\ IsNullable(T, f))
         /\ \A f \in DOMAIN s : Encode(T, s)[f] = s[f]
         /\ \A f \in DOMAIN Encode(T, s) : f \notin DOMAIN s =>
              Encode(T, s)[f] = Null /\ f \in RequiredFields(T) /\ IsNullable(T, f)
BY DEF Encode

\* What is written after a document was read conforms again, unless an optional null
\* of it was dropped.
LEMMA EncodeConforms ==
  ASSUME NEW T \in Type, NEW d, \A f \in DOMAIN d : d[f] \in JsonValue, Conforms(T, d),
         ~HasOptionalNull(T, d)
  PROVE  Conforms(T, Encode(T, Decode(T, d)))
<1>. DEFINE s == Decode(T, d)
            e == Encode(T, s)
<1>0. /\ DOMAIN d \subseteq FieldsOf(T) /\ RequiredFields(T) \subseteq DOMAIN d
      /\ \A f \in DOMAIN d : Admits(T, f, d[f])
  BY DEF Conforms
<1>1. \A f \in DOMAIN s : f \in DOMAIN d /\ ~IsNone(T, f, d[f]) BY DEF Decode
<1>2. \A f \in DOMAIN d : IsNone(T, f, d[f]) => f \in RequiredFields(T) /\ IsNullable(T, f)
  BY DEF HasOptionalNull, IsNone
<1>3. DOMAIN e = DOMAIN d
  <2>1. DOMAIN s \subseteq DOMAIN d BY <1>1
  <2>2. \A f \in DOMAIN d : f \in DOMAIN s \/ (f \in RequiredFields(T) /\ IsNullable(T, f))
    BY <1>2, DecodeField
  <2>. QED BY <1>0, <2>1, <2>2, EncodeFields
<1>4. \A f \in DOMAIN e : Admits(T, f, e[f])
  <2>. SUFFICES ASSUME NEW f \in DOMAIN e PROVE Admits(T, f, e[f]) OBVIOUS
  <2>1. CASE f \in DOMAIN s BY <2>1, <1>1, EncodeFields, DecodeField
  <2>2. CASE f \notin DOMAIN s BY <2>2, EncodeFields DEF Admits, MayBeNull, Null
  <2>. QED BY <2>1, <2>2
<1>5. \A f \in Decisive \cap DOMAIN d : e[f].n = d[f].n
  <2>. SUFFICES ASSUME NEW f \in Decisive \cap DOMAIN d PROVE e[f].n = d[f].n OBVIOUS
  <2>1. KindOf(T, f) = "bool" BY <1>0, KindFacts DEF Decisive
  <2>2. ~IsNullable(T, f) BY <1>0, <2>1, KindFacts
  <2>3. f \in DOMAIN s /\ s[f] = d[f] BY <1>2, <2>1, <2>2, DecodeField
  <2>. QED BY <2>3, EncodeFields
<1>6. \A f \in QueuePlace \cap DOMAIN d : d[f].is # "null" => e[f].is # "null"
  <2>. SUFFICES ASSUME NEW f \in QueuePlace \cap DOMAIN d, d[f].is # "null"
                PROVE  e[f].is # "null"
    OBVIOUS
  <2>1. KindOf(T, f) = "i64" BY <1>0, KindFacts
  <2>2. f \in DOMAIN s /\ s[f] = d[f] BY <2>1, DecodeField DEF IsNone
  <2>. QED BY <2>2, EncodeFields
<1>7. Together(T, e) BY <1>3, <1>5, <1>6, TogetherSame DEF Conforms
<1>. QED BY <1>0, <1>3, <1>4, <1>7 DEF Conforms

\* A release request that has what its type asks of its fields conforms: all of them
\* are required.
LEMMA ReleaseConforms ==
  ASSUME NEW T \in Releasing, NEW s, FieldsTyped(T, s)
  PROVE  Conforms(T, Encode(T, s))
<1>1. T \in Type /\ FieldsOf(T) = RequiredFields(T) BY GrantFields
<1>2. \A f \in FieldsOf(T) : ~IsNullable(T, f) BY DEF IsNullable, Releasing
<1>3. DOMAIN s = FieldsOf(T) BY <1>1, <1>2 DEF FieldsTyped
<1>4. DOMAIN Encode(T, s) = DOMAIN s /\ \A f \in DOMAIN s : Encode(T, s)[f] = s[f]
  BY <1>1, <1>2, EncodeFields
<1>5. Together(T, Encode(T, s)) BY DEF Together, Releasing
<1>. QED BY <1>1, <1>3, <1>4, <1>5 DEF Conforms, FieldsTyped

\* The token and the holder of a grant are what the release request asks for.
LEMMA ReleaseTyped ==
  ASSUME NEW T \in Granting, NEW s, FieldsTyped(T, s), Yes(s, "acquired")
  PROVE  FieldsTyped(ReleaseOf(T), [f \in DOMAIN s \cap FieldsOf(ReleaseOf(T)) |-> s[f]])
<1>. DEFINE R == ReleaseOf(T)
            r == [f \in DOMAIN s \cap FieldsOf(R) |-> s[f]]
<1>1. /\ T \in Type /\ R \in Type /\ R \in Releasing /\ FieldsOf(R) = RequiredFields(R)
      /\ FieldsOf(R) \subseteq {"key", "holder", "fencing_token"}
  BY GrantFields, ReleaseOfGrants DEF Releasing
<1>2. \A f \in DOMAIN s : f \in FieldsOf(T) /\ s[f] \in JsonValue /\ Admits(T, f, s[f])
  BY DEF FieldsTyped
<1>3. \A f \in DOMAIN r : Admits(R, f, s[f])
  <2>. SUFFICES ASSUME NEW f \in DOMAIN s, f \in FieldsOf(R) PROVE Admits(R, f, s[f]) OBVIOUS
  <2>1. s[f].is \in Kind /\ s[f].n \in Int BY <1>2 DEF JsonValue
  <2>2. CASE f \in {"key", "holder"}
    <3>1. KindOf(T, f) = "String" /\ KindOf(R, f) = "String" BY <1>1, <1>2, <2>2, KindFacts
    <3>2. ~MayBeNull(T, f) BY <2>2 DEF MayBeNull, IsNullable
    <3>. QED BY <1>2, <3>1, <3>2 DEF Admits
  <2>3. CASE f = "fencing_token"
    <3>1. KindOf(T, f) = "i64" /\ KindOf(R, f) = "i64"
      BY <1>1, <1>2, <2>3, CappedKind DEF Capped
    <3>2. ~MayBeNull(T, f) BY <2>3 DEF MayBeNull, IsNullable
    <3>3. s[f].is \in {"int", "whole"} /\ InRange(T, f, s[f].n)
      BY <1>2, <2>1, <3>1, <3>2 DEF Admits, Kind
    <3>4. Positive(T, f) /\ Capped(T, f)
      BY <2>3 DEF Positive, Capped, Granting, LockStructs, LockLifecycleStructs, SemaphoreStructs
    <3>5. InRange(R, f, s[f].n)
      BY <2>1, <2>3, <3>3, <3>4 DEF InRange, Capped, Bounded, Signed, LockWaits, WidthAssumption
    <3>. QED BY <3>1, <3>3, <3>5 DEF Admits
  <2>. QED BY <1>1, <2>2, <2>3
<1>4. FieldsOf(R) \subseteq DOMAIN s
  <2>1. "fencing_token" \in DOMAIN s BY ReleaseOfGrants DEF FieldsTyped
  <2>2. "holder" \in DOMAIN s BY GrantFields DEF FieldsTyped, IsNullable
  <2>3. CASE R = "LockReleaseRequest" BY <2>1, <2>2, <2>3, <1>1, GrantFields
  <2>4. CASE R = "SemaphoreReleaseRequest"
    <3>1. T \in {"SemaphoreAcquireResponse", "SemaphoreCancelResponse"}
      BY <2>4 DEF ReleaseOf, Granting
    <3>2. "key" \in DOMAIN s BY <3>1, GrantFields DEF FieldsTyped, IsNullable
    <3>. QED BY <2>1, <2>2, <2>4, <3>2, <1>1, GrantFields
  <2>. QED BY <1>1, <2>3, <2>4 DEF Releasing
<1>. QED BY <1>1, <1>2, <1>3, <1>4, ReleaseOfGrants DEF FieldsTyped

-----------------------------------------------------------------------------
(***************************************************************************)
(* The invariant, from the wire to memory and back.                        *)
(***************************************************************************)

LEMMA SimilarTrans ==
  ASSUME NEW u, NEW v, NEW w, w.n \in Int, Similar(u, v), Similar(v, w)
  PROVE  Similar(u, w)
BY Rounding DEF Similar

\* The type a document is read as is a type, and caps the fields that are capped in
\* the type it was sent with.
LEMMA TypeOfDoc ==
  ASSUME DocTyped
  PROVE  /\ type \in Type
         /\ type # sent.type => type \in Releasing /\ sent.type \in Granting
         /\ \A f \in FieldsOf(type) : Capped(sent.type, f) => Capped(type, f)
<1>1. type # sent.type => type \in Releasing /\ sent.type \in Granting
  BY ReleaseOfGrants DEF DocTyped
<1>2. type \in Type BY <1>1, GrantFields DEF DocTyped
<1>3. ASSUME NEW f \in FieldsOf(type), Capped(sent.type, f) PROVE Capped(type, f)
  <2>1. CASE type = sent.type BY <1>3, <2>1
  <2>2. CASE type # sent.type
    <3>1. f \in {"key", "holder", "fencing_token"}
      BY <1>1, <1>3, <2>2, GrantFields DEF Releasing
    <3>. QED BY <1>3, <3>1 DEF Capped
  <2>. QED BY <2>1, <2>2
<1>. QED BY <1>1, <1>2, <1>3

\* A capped integer that is admitted is below 2^53.
LEMMA CappedAdmitted ==
  ASSUME NEW T \in Type, NEW f \in FieldsOf(T), NEW v \in JsonValue, Capped(T, f), Admits(T, f, v)
  PROVE  v.n \in 0..MaxSafe /\ v.is # "null" /\ KindOf(T, f) = "i64"
<1>1. KindOf(T, f) = "i64" BY CappedKind
<1>2. v.is \in Kind BY DEF JsonValue
<1>3. ~MayBeNull(T, f) BY DEF Capped, MayBeNull, IsNullable
<1>4. v.is \in {"int", "whole"} /\ InRange(T, f, v.n) BY <1>1, <1>2, <1>3 DEF Admits, Kind
<1>5. f \notin Signed BY DEF Capped, Signed
<1>6. v.n \in Int /\ MaxSafe \in Int BY WidthAssumption DEF JsonValue, MaxSafe
<1>. QED BY <1>1, <1>4, <1>5, <1>6 DEF InRange

LEMMA InitInv == Init => IInv
<1>. SUFFICES ASSUME Init PROVE IInv OBVIOUS
<1>1. DocTyped BY InputsAssumption DEF Init, DocTyped, Place
<1>2. Keeps(doc) BY DEF Init, Keeps, Similar
<1>. QED
  BY <1>1, <1>2 DEF Init, IInv, DocRead, DocExact, DocKept, Held, AuthorityExact, StuckOnlyOnNull

LEMMA ValidateJsonInv ==
  ASSUME IInv, ValidateJson
  PROVE  IInv'
BY DEF IInv, ValidateJson, DocTyped, DocRead, DocExact, DocKept, Held, Keeps, AuthorityExact,
       StuckOnlyOnNull, Place

LEMMA DecodeJsonInv ==
  ASSUME IInv, DecodeJson
  PROVE  IInv'
<1>0. /\ UNCHANGED <<type, doc, sent, hops>> /\ at = "valid" /\ Conforms(type, doc)
      /\ type \in Type /\ \A f \in DOMAIN doc : doc[f] \in JsonValue
      /\ DOMAIN doc \subseteq FieldsOf(type) /\ \A f \in DOMAIN doc : Admits(type, f, doc[f])
  BY TypeOfDoc DEF IInv, DecodeJson, DocRead, DocTyped, Conforms
<1>1. (DocExact /\ DocKept)' BY <1>0 DEF IInv, DocExact, DocKept, Keeps
<1>2. DocTyped' /\ StuckOnlyOnNull'
  BY <1>0 DEF IInv, DocTyped, DecodeJson, Place, StuckOnlyOnNull
<1>3. CASE ~Decodes(type, doc) /\ at' = "failed" /\ value' = value
  BY <1>0, <1>1, <1>2, <1>3 DEF IInv, DocRead, Held, AuthorityExact
<1>4. CASE at' = "typed" /\ value' = Decode(type, doc)
  <2>1. FieldsTyped(type, value') BY <1>0, <1>4, DecodeTyped
  <2>2. ASSUME type = sent.type, NEW f \in DOMAIN sent.doc, ~IsNone(type, f, sent.doc[f])
        PROVE  f \in DOMAIN value' /\ Similar(value'[f], sent.doc[f])
    <3>1. f \in DOMAIN doc /\ Similar(doc[f], sent.doc[f]) BY <2>2 DEF IInv, DocKept, Keeps
    <3>2. ~IsNone(type, f, doc[f]) BY <2>2, <3>1 DEF IsNone, Similar, Number
    <3>3. sent.doc[f].n \in Int BY DEF IInv, DocTyped, JsonValue
    <3>. QED BY <1>0, <1>4, <3>1, <3>2, <3>3, DecodeField, SimilarTrans
  <2>3. Conforms(type, Encode(type, value')) \/ HasOptionalNull(type, doc)
    BY <1>0, <1>4, EncodeConforms
  <2>4. ASSUME NEW f \in DOMAIN value', Capped(sent.type, f)
        PROVE  value'[f].n = sent.doc[f].n
    <3>1. f \in DOMAIN doc /\ ~IsNone(type, f, doc[f]) BY <1>4, <2>4 DEF Decode
    <3>2. f \in FieldsOf(type) /\ Capped(type, f)
      BY <1>0, <2>4, <3>1, TypeOfDoc DEF IInv
    <3>3. doc[f].n \in 0..MaxSafe /\ KindOf(type, f) = "i64"
      BY <1>0, <3>1, <3>2, CappedAdmitted
    <3>4. value'[f] = doc[f] BY <1>0, <1>4, <3>1, <3>3, DecodeField
    <3>5. doc[f].n \in Int /\ MaxSafe \in Int
      BY <1>0, <3>1, WidthAssumption DEF JsonValue, MaxSafe
    <3>. QED BY <2>4, <3>1, <3>3, <3>4, <3>5 DEF IInv, DocExact
  <2>5. Held' BY <1>0, <1>4, <2>1, <2>2, <2>3 DEF Held, Keeps
  <2>6. AuthorityExact' BY <1>0, <2>4 DEF AuthorityExact
  <2>. QED BY <1>0, <1>1, <1>2, <1>4, <2>5, <2>6 DEF IInv, DocRead
<1>. QED BY <1>3, <1>4 DEF DecodeJson

LEMMA ValidateInv ==
  ASSUME IInv, Validate
  PROVE  IInv'
<1>. DEFINE out == Encode(type, value)
<1>0. UNCHANGED <<type, sent>> /\ at = "typed" BY DEF Validate
<1>1. CASE at' = "wire" /\ doc' = out /\ value' = NoFields
  <2>1. \A f \in DOMAIN out :
          \/ f \in DOMAIN value /\ out[f] = value[f]
          \/ out[f] = Null /\ IsNullable(type, f)
    BY EncodeFields
  <2>2. \A f \in DOMAIN value : f \in DOMAIN out /\ out[f] = value[f] BY EncodeFields
  <2>3. DocTyped'
    <3>1. Null \in JsonValue BY DEF Null, JsonValue, Kind
    <3>2. \A f \in DOMAIN value : value[f] \in JsonValue
      BY <1>0 DEF IInv, Held, FieldsTyped
    <3>. QED BY <1>0, <1>1, <2>1, <3>1, <3>2 DEF IInv, DocTyped, Place
  <2>4. DocExact'
    <3>1. \A f : IsNullable(type, f) => ~Capped(sent.type, f) BY DEF IsNullable, Capped
    <3>. QED BY <1>0, <1>1, <2>1, <3>1 DEF IInv, AuthorityExact, DocExact
  <2>5. DocKept' BY <1>0, <1>1, <2>2 DEF IInv, Held, DocKept, Keeps
  <2>. QED BY <1>1, <2>3, <2>4, <2>5 DEF IInv, DocRead, Held, AuthorityExact, StuckOnlyOnNull
<1>2. CASE ~Conforms(type, out) /\ at' = "stuck" /\ UNCHANGED <<doc, value>>
  <2>1. HasOptionalNull(type, doc) BY <1>0, <1>2 DEF IInv, Held
  <2>2. StuckOnlyOnNull' BY <1>0, <1>2, <2>1 DEF StuckOnlyOnNull, HasOptionalNull
  <2>3. (DocTyped /\ DocExact /\ DocKept)'
    BY <1>0, <1>2 DEF IInv, DocTyped, DocExact, DocKept, Keeps, Place
  <2>. QED BY <1>2, <2>2, <2>3 DEF IInv, DocRead, Held, AuthorityExact
<1>. QED BY <1>1, <1>2 DEF Validate

LEMMA BrowseInv ==
  ASSUME IInv, Browse
  PROVE  IInv'
<1>0. UNCHANGED <<type, value, sent>> /\ at = "wire" BY DEF Browse
<1>1. CASE doc' = Parse(doc) /\ at' = at
  <2>1. /\ DOMAIN Parse(doc) = DOMAIN doc
        /\ \A f \in DOMAIN doc :
             Parse(doc)[f] = IF doc[f].is \in {"int", "whole"}
                             THEN [is |-> "int", n |-> Round(doc[f].n)] ELSE doc[f]
    BY DEF Parse
  <2>2. \A f \in DOMAIN doc : doc[f].n \in Int /\ Round(doc[f].n) \in Int /\ doc[f] \in JsonValue
    BY Rounding DEF IInv, DocTyped, JsonValue
  <2>3. DocTyped'
    <3>1. \A f \in DOMAIN doc : Parse(doc)[f] \in JsonValue
      BY <2>1, <2>2 DEF JsonValue, Kind
    <3>. QED BY <1>0, <1>1, <2>1, <3>1 DEF IInv, DocTyped
  <2>4. DocExact'
    <3>. SUFFICES ASSUME NEW f \in DOMAIN doc, Capped(sent.type, f)
                  PROVE  Parse(doc)[f].n = sent.doc[f].n \/ Parse(doc)[f].n \notin 0..MaxSafe
      BY <1>0, <1>1, <2>1 DEF DocExact
    <3>1. Parse(doc)[f].n \in {doc[f].n, Round(doc[f].n)} BY <2>1
    <3>2. CASE doc[f].n \notin 0..MaxSafe BY <2>2, <3>1, <3>2, Rounding
    <3>3. CASE doc[f].n \in 0..MaxSafe
      <4>1. Round(doc[f].n) = doc[f].n BY <2>2, <3>3, Rounding
      <4>2. doc[f].n = sent.doc[f].n BY <3>3 DEF IInv, DocExact
      <4>. QED BY <3>1, <4>1, <4>2
    <3>. QED BY <3>2, <3>3
  <2>5. DocKept'
    <3>. SUFFICES ASSUME type = sent.type, NEW f \in DOMAIN sent.doc,
                         ~IsNone(type, f, sent.doc[f])
                  PROVE  f \in DOMAIN doc /\ Similar(Parse(doc)[f], sent.doc[f])
      BY <1>0, <1>1, <2>1 DEF DocKept, Keeps
    <3>1. f \in DOMAIN doc /\ Similar(doc[f], sent.doc[f]) BY DEF IInv, DocKept, Keeps
    <3>2. Similar(Parse(doc)[f], doc[f]) BY <2>1, <3>1 DEF Similar, Number
    <3>3. sent.doc[f].n \in Int BY DEF IInv, DocTyped, JsonValue
    <3>. QED BY <3>1, <3>2, <3>3, SimilarTrans
  <2>. QED BY <1>0, <1>1, <2>3, <2>4, <2>5 DEF IInv, DocRead, Held, AuthorityExact, StuckOnlyOnNull
<1>2. CASE at' = "refused" /\ doc' = doc
  BY <1>0, <1>2 DEF IInv, DocTyped, DocRead, DocExact, DocKept, Held, Keeps, AuthorityExact,
                   StuckOnlyOnNull, Place
<1>. QED BY <1>1, <1>2 DEF Browse

LEMMA ReleaseInv ==
  ASSUME IInv, Release
  PROVE  IInv'
<1>. DEFINE R == ReleaseOf(type)
<1>0. /\ UNCHANGED <<at, doc, sent>> /\ at = "typed" /\ type' = R /\ R # "none"
      /\ value' = [f \in DOMAIN value \cap FieldsOf(R) |-> value[f]]
      /\ Yes(value, "acquired") /\ FieldsTyped(type, value)
  BY DEF IInv, Held, Release
<1>1. type \in Granting /\ R \in Releasing /\ type = sent.type /\ type' # sent.type
  BY <1>0, ReleaseOfGrants DEF IInv, DocTyped
<1>2. FieldsTyped(R, value') BY <1>0, <1>1, ReleaseTyped
<1>3. Conforms(R, Encode(R, value')) BY <1>1, <1>2, ReleaseConforms
<1>4. Held' BY <1>0, <1>1, <1>2, <1>3 DEF Held
<1>5. DocTyped' /\ DocExact' BY <1>0, <1>1 DEF IInv, DocTyped, DocExact
<1>6. AuthorityExact' BY <1>0 DEF IInv, AuthorityExact
<1>. QED BY <1>0, <1>1, <1>4, <1>5, <1>6 DEF IInv, DocRead, DocKept, StuckOnlyOnNull

\* The inductive invariant holds in every reachable state.
THEOREM Invariance == Spec => []IInv
<1>1. IInv /\ [Next]_vars => IInv'
  <2>1. IInv /\ UNCHANGED vars => IInv'
    BY DEF vars, IInv, DocTyped, DocRead, DocExact, DocKept, Held, Keeps, AuthorityExact,
           StuckOnlyOnNull
  <2>. QED
    BY <2>1, ValidateJsonInv, DecodeJsonInv, ValidateInv, BrowseInv, ReleaseInv DEF Next
<1>. QED BY <1>1, InitInv, PTL DEF Spec

-----------------------------------------------------------------------------
(***************************************************************************)
(* The properties.                                                         *)
(***************************************************************************)

\* A document that the schema accepts and the typed decode refuses has an integer
\* that no i64 takes.
THEOREM DecodeIsForeseen == Spec => []DecodeNeverSurprises
<1>1. IInv => DecodeNeverSurprises
  <2>. SUFFICES ASSUME IInv, at = "failed" PROVE DecodeNeverSurprises BY DEF DecodeNeverSurprises
  <2>1. Conforms(type, doc) /\ ~Decodes(type, doc) /\ type \in Type
    BY TypeOfDoc DEF IInv, DocRead
  <2>2. PICK f \in DOMAIN doc : f \in FieldsOf(type) /\ ~Reads(type, f, doc[f])
    BY <2>1 DEF Conforms, Decodes
  <2>3. Admits(type, f, doc[f]) /\ doc[f].is \in Kind
    BY <2>1 DEF Conforms, IInv, DocTyped, JsonValue
  <2>4. ~MayBeNull(type, f) \/ doc[f].is # "null"
    <3>1. type \in {"LockAcquireResponse", "SemaphoreAcquireResponse"} /\ f \in QueuePlace
            => f \notin RequiredFields(type)
      BY GrantFields DEF Granting, QueuePlace
    <3>. QED BY <2>2, <3>1 DEF MayBeNull, Reads, IsNone, QueuePlace
  <2>5. KindOf(type, f) = "i64" /\ (doc[f].is = "whole" \/ ~(doc[f].n <= MaxI64))
    BY <2>2, <2>3, <2>4 DEF Admits, Reads
  <2>6. doc[f].n \in Int /\ MaxI64 \in Int
    BY WidthAssumption DEF IInv, DocTyped, JsonValue
  <2>. QED BY <2>5, <2>6 DEF DecodeNeverSurprises
<1>. QED BY <1>1, Invariance, PTL

\* A capped integer that a peer acts on is the one that was first sent.
THEOREM AuthorityIsExact == Spec => []AuthorityExact
BY Invariance, PTL DEF IInv

\* A document that is passed on keeps every field of the first.
THEOREM NothingIsLost == Spec => []NothingLost
<1>1. IInv => NothingLost
  BY DEF IInv, Held, Keeps, Similar, NothingLost, Number
<1>. QED BY <1>1, Invariance, PTL

\* Who reads that he holds a lock or a permit can give it back.
THEOREM GrantsAreReleasable == Spec => []GrantsCanBeReleased
<1>1. IInv => GrantsCanBeReleased
  <2>. SUFFICES ASSUME IInv, at = "typed", ReleaseOf(sent.type) # "none",
                       Yes(sent.doc, "acquired")
                PROVE  /\ {"holder", "fencing_token"} \subseteq DOMAIN value
                       /\ value["fencing_token"].n \in 1..MaxSafe
                       /\ type = ReleaseOf(sent.type) => Conforms(type, Encode(type, value))
    BY DEF GrantsCanBeReleased
  <2>1. /\ sent.type \in Granting /\ FieldsTyped(type, value) /\ type \in Type
        /\ type \in Granting \cup Releasing
    BY ReleaseOfGrants, TypeOfDoc DEF IInv, Held, DocTyped
  <2>2. "holder" \in DOMAIN value
    BY <2>1, GrantFields DEF FieldsTyped, IsNullable, Releasing
  <2>3. "fencing_token" \in DOMAIN value
    <3>1. CASE type \in Releasing
      BY <2>1, <3>1, GrantFields DEF FieldsTyped, IsNullable, Releasing
    <3>2. CASE type = sent.type
      <4>1. sent.doc["acquired"].n = 1 /\ "acquired" \in DOMAIN sent.doc BY DEF Yes
      <4>2. ~IsNone(type, "acquired", sent.doc["acquired"])
        BY <2>1, <3>2, GrantFields DEF IsNone, IsNullable
      <4>3. Yes(value, "acquired")
        <5>1. "acquired" \in DOMAIN value /\ Similar(value["acquired"], sent.doc["acquired"])
          BY <3>2, <4>1, <4>2 DEF IInv, Held, Keeps
        <5>2. Round(1) = 1
          <6>1. 1 \in 0..MaxSafe BY WidthAssumption DEF MaxSafe
          <6>. QED BY <6>1, Rounding
        <5>. QED BY <4>1, <5>1, <5>2 DEF Similar, Yes
      <4>. QED BY <2>1, <3>2, <4>3, ReleaseOfGrants DEF FieldsTyped
    <3>. QED BY <3>1, <3>2, TypeOfDoc DEF IInv
  <2>4. value["fencing_token"].n \in 1..MaxSafe
    <3>. DEFINE token == value["fencing_token"]
    <3>1. /\ "fencing_token" \in FieldsOf(type) /\ token \in JsonValue
          /\ Admits(type, "fencing_token", token)
      BY <2>1, <2>3 DEF FieldsTyped
    <3>2. token.n \in 0..MaxSafe /\ KindOf(type, "fencing_token") = "i64" /\ token.is # "null"
      BY <2>1, <3>1, CappedAdmitted DEF Capped
    <3>3. token.is \in Kind /\ token.n \in Int BY <3>1 DEF JsonValue
    <3>4. InRange(type, "fencing_token", token.n)
      BY <3>1, <3>2, <3>3 DEF Admits, Kind
    <3>5. Positive(type, "fencing_token")
      BY <2>1 DEF Positive, Granting, Releasing, LockStructs, LockLifecycleStructs, SemaphoreStructs
    <3>6. MaxSafe \in Int BY WidthAssumption DEF MaxSafe
    <3>. QED BY <3>2, <3>3, <3>4, <3>5, <3>6 DEF InRange, Signed
  <2>5. type = ReleaseOf(sent.type) => Conforms(type, Encode(type, value))
    BY <2>1, ReleaseOfGrants, ReleaseConforms
  <2>. QED BY <2>2, <2>3, <2>4, <2>5
<1>. QED BY <1>1, Invariance, PTL

\* A peer never holds a struct that it cannot write, unless it read an optional null.
THEOREM StuckIsExplained == Spec => []StuckOnlyOnNull
BY Invariance, PTL DEF IInv
=============================================================================
