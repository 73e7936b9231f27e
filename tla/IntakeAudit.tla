------------------------------ MODULE IntakeAudit ------------------------------
(***************************************************************************)
(* audit_contracts of the commercial intake parity tool: the TypeSpec      *)
(* authority, the JSON Schema authority and the local publication against  *)
(* a reviewed policy.                                                      *)
(*                                                                         *)
(* A JSON name is its words, as full_name is <<"full", "name">>.  The name *)
(* of an operation or of a model in a signature is a sequence of pieces,   *)
(* since the tool looks for them as parts of the text.                     *)
(***************************************************************************)
EXTENDS IntakeTypeSpec

\* A schema is its draft and its $defs.  A definition is
\*   [self, object, props, required]   object: it has properties
\* and self, like a property, is plain, an enum, a const, a $ref or a oneOf:
\* values are the strings among its values, odd says that others are, to is
\* the definition that its $ref names.
Node ==
  {p \in [is : {"plain", "enum", "const", "ref", "oneOf"}, values : SUBSET STRING, odd : BOOLEAN, to : STRING] :
     /\ p.is \in {"plain", "ref"} => p.values = {}
     /\ p.odd => p.is = "enum" \/ (p.is = "const" /\ p.values = {})}
Properties(def) == DOMAIN def.props

Draft == "2020-12"
Stopped == "STOPPED_FOR_EVALUATION"
-----------------------------------------------------------------------------
(* The JSON Schema side.                                                   *)

\* One $ref is followed; one that leaves the document is an error, one that
\* names nothing is reported as "is required".
Resolve(js, to) == IF to = "external" THEN "error" ELSE IF to \in DOMAIN js.defs THEN "found" ELSE "missing"

\* A property, or the definition it refers to as if that were one.
Target(js, p) == IF p.is = "ref" THEN js.defs[p.to].self ELSE p

\* An enum of other values than strings is an error, such a const has none.
PropertyReads(js, p) ==
  LET found == IF p.is = "ref" THEN Resolve(js, p.to) ELSE "found"
  IN  IF found = "found" /\ Target(js, p).is = "enum" /\ Target(js, p).odd THEN "error" ELSE found
JsonEnumValues(js, p) ==
  IF Target(js, p).is \in {"enum", "const"} THEN Target(js, p).values ELSE {}

\* json_schema_fields: "missing", "error", or the definition itself.
Definition(js, name) ==
  IF name \notin DOMAIN js.defs THEN "missing"
  ELSE IF js.defs[name].self.is = "ref" THEN Resolve(js, js.defs[name].self.to) ELSE "found"
Resolved(js, name) ==
  IF js.defs[name].self.is = "ref" THEN js.defs[js.defs[name].self.to] ELSE js.defs[name]

\* A definition without properties reads as missing; of several unreadable
\* properties the first by name decides (the model has one at most).
FieldsRead(js, name) ==
  IF Definition(js, name) # "found" THEN Definition(js, name)
  ELSE LET def == Resolved(js, name)
           reads == {PropertyReads(js, def.props[f]) : f \in Properties(def)}
       IN  IF ~def.object THEN "missing"
           ELSE IF "error" \in reads THEN "error" ELSE IF "missing" \in reads THEN "missing" ELSE "found"
-----------------------------------------------------------------------------
(* Model pairs.                                                            *)

\* pair: typespec, json, renames, onlyTypeSpec, onlyJson, mayDiffer
Mapped(pair, name) == IF name \in DOMAIN pair.renames THEN pair.renames[name] ELSE CamelToSnake(name)

Differences(doc, js, pair) ==
  LET fields == doc.models[pair.typespec]
      def    == Resolved(js, pair.json)
      Shared == {n \in DOMAIN fields : Mapped(pair, n) \in Properties(def)}
      values(n) == EnumValues(doc, fields[n].type)
  IN  {<<"missingFromJsonSchema", n>> : n \in (DOMAIN fields \ Shared) \ pair.onlyTypeSpec}
      \cup {<<"requirednessMismatches", n>> :
              n \in {n \in Shared \ pair.mayDiffer : fields[n].required # (Mapped(pair, n) \in def.required)}}
      \cup {<<"enumMismatches", n>> :
              n \in {n \in Shared : values(n) # JsonEnumValues(js, def.props[Mapped(pair, n)])}}
      \cup {<<"missingFromTypeSpec", f>> :
              f \in (Properties(def) \ {Mapped(pair, n) : n \in DOMAIN fields}) \ pair.onlyJson}

\* audit_model_pair fails on a name collision, on a reference that leaves the
\* schema, on an enum with other values than strings and on a string literal
\* without end.
PairFails(doc, js, pair) ==
  /\ pair.typespec \in DOMAIN doc.models
  /\ \/ FieldsRead(js, pair.json) = "error"
     \/ /\ FieldsRead(js, pair.json) = "found"
        /\ LET fields == doc.models[pair.typespec]
           IN  \/ \E n, o \in DOMAIN fields : n # o /\ Mapped(pair, n) = Mapped(pair, o)
               \/ \E n \in DOMAIN fields :
                    /\ fields[n].type.open
                    /\ Mapped(pair, n) \in Properties(Resolved(js, pair.json))

AuditModelPair(doc, js, pair) ==
  IF pair.typespec \notin DOMAIN doc.models THEN {<<"sourceMissing", pair.typespec>>}
  ELSE IF FieldsRead(js, pair.json) = "missing" THEN {<<"sourceMissing", pair.json>>}
  ELSE Differences(doc, js, pair)
-----------------------------------------------------------------------------
(* Operations.  An interface is its route and its body, a sequence of      *)
(*   [is |-> "blank"]              an empty line                           *)
(*   [is |-> "gap"]                a line that looks empty: blanks, a CR   *)
(*   [is |-> "decorator", text]    @post, @get, or a sub-route             *)
(*   [is |-> "op", name, headers, body, sent, returned]                    *)
(* of an operation: whether it has an @body, the models in the type of     *)
(* that, and those in the rest of the signature.                           *)

Piece ==
  [is : {"blank", "gap"}] \cup [is : {"decorator"}, text : STRING]
  \cup [is : {"op"}, name : Words, headers : SUBSET STRING, body : BOOLEAN,
        sent : SUBSET Words, returned : SUBSET Words]

Marks(interface, route) ==
  \/ interface.route = route
  \/ \E k \in DOMAIN interface.pieces :
       interface.pieces[k].is = "decorator" /\ interface.pieces[k].text = route

\* The interface that follows the first @route of the route; 0 if none does.
InterfaceAt(interfaces, route) ==
  LET i == SelectInSeq(interfaces, LAMBDA x : Marks(x, route))
  IN  IF i = 0 \/ interfaces[i].route = route THEN i ELSE (i + 1) % (Len(interfaces) + 1)

\* The first place that reads as the name and a bracket.
OperationAt(pieces, name) ==
  SelectInSeq(pieces, LAMBDA x : x.is = "op" /\ IsSuffix(name, x.name))

\* Mutant: the prefix goes back to the start of the interface.
PrefixOfInterface(pieces, k) ==
  {pieces[i].text : i \in {i \in 1..(k - 1) : pieces[i].is = "decorator"}}

\* The decorators since the last empty line, which ends in two newlines: a line
\* of blanks or one that ends in CR LF does not end the prefix.
Prefix(pieces, k) ==
  LET start == SelectLastInSubSeq(pieces, 1, k - 1, LAMBDA x : x.is = "blank")
  IN  {pieces[i].text : i \in {i \in (start + 1)..(k - 1) : pieces[i].is = "decorator"}}

\* The signature has an @body and, anywhere, the name of the model, be it as
\* part of a longer one.
Mentions(op, model) == op.body /\ \E m \in op.sent \cup op.returned : model \in SubSeqs(m)

\* requirement: route, admin, subroute, method, operation, headers, body, audience
AuditOperation(interfaces, r) ==
  LET i == InterfaceAt(interfaces, r.route)
      pieces == interfaces[i].pieces
      k == OperationAt(pieces, r.operation)
      decorators == Prefix(pieces, k)
  IN  IF i = 0 THEN {<<"no interface", r.route>>}
      ELSE IF k = 0 THEN {<<"no operation", r.operation>>}
      ELSE {<<"method", m>> : m \in {r.method} \ decorators}
           \cup {<<"route", x>> : x \in r.subroute \ decorators}
           \cup {<<"header", h>> : h \in r.headers \ pieces[k].headers}
           \cup {<<"body", b>> : b \in {b \in r.body : ~Mentions(pieces[k], b)}}
           \cup IF r.audience = (IF r.admin THEN "admin" ELSE "public") THEN {} ELSE {<<"audience", r.route>>}
-----------------------------------------------------------------------------
(* The publication and the whole.                                          *)

AuditPublication(publication, policy) ==
  {<<"draft", d>> : d \in {publication.draft} \ {Draft}}
  \cup {<<"id", x>> : x \in {publication.id} \ {policy.expectedId}}
  \cup {<<"authority", x>> : x \in {publication.id} \cap {policy.forbiddenId}}
  \cup {<<"definition", d>> : d \in policy.definitions \ publication.defs}

\* parse_policy of a document of the right shape.
PolicyFits(p) ==
  /\ p.format = "v1" /\ p.expected \in {"PASS", Stopped}
  /\ p.pairs # <<>> /\ p.operations # <<>>
  /\ \A i \in DOMAIN p.operations :
       /\ p.operations[i].method \in {"get", "post", "put", "patch", "delete"}
       /\ p.operations[i].audience \in {"public", "admin"}
  /\ p.classification = "distinct-lead-intake-contract"
  /\ \A i, j \in DOMAIN p.pairs :
       p.pairs[i].typespec = p.pairs[j].typespec /\ p.pairs[i].json = p.pairs[j].json => i = j
  /\ \A i, j \in DOMAIN p.operations :
       (\A f \in {"route", "subroute", "method", "operation"} : p.operations[i][f] = p.operations[j][f])
         => i = j

\* in: typespec (lines, interfaces), schema, publication, policy
WellFormed(in) ==
  /\ in.typespec.lines \in Seq(Lines)
  /\ in.typespec.interfaces \in Seq([route : STRING, pieces : Seq(Piece)])
  /\ \A d \in DOMAIN in.schema.defs : LET def == in.schema.defs[d] IN
       def.self \in Node /\ \A f \in Properties(def) : def.props[f] \in Node
  /\ \A i \in DOMAIN in.policy.operations :
       in.policy.operations[i].operation \in Words /\ in.policy.operations[i].body \subseteq Words

AuditFails(in) ==
  LET doc == ParseTypeSpec(in.typespec.lines)
  IN  \/ doc.at = "error"
      \/ in.schema.draft # Draft
      \/ \E i \in DOMAIN in.policy.pairs : PairFails(doc, in.schema, in.policy.pairs[i])

Status(differences) == IF differences = {} THEN "PASS" ELSE Stopped
Report(differences) == [differences |-> differences, status |-> Status(differences)]

\* The receipt: what differs in each part, and the status that follows.
Receipt(in) ==
  LET doc == ParseTypeSpec(in.typespec.lines)
      pairs == [i \in DOMAIN in.policy.pairs |-> AuditModelPair(doc, in.schema, in.policy.pairs[i])]
      operations == [i \in DOMAIN in.policy.operations |->
                       AuditOperation(in.typespec.interfaces, in.policy.operations[i])]
      publication == AuditPublication(in.publication, in.policy)
  IN  [pairs |-> [i \in DOMAIN pairs |-> Report(pairs[i])],
       operations |-> [i \in DOMAIN operations |-> Report(operations[i])],
       publication |-> Report(publication),
       status |-> Status(publication \cup (UNION Range(pairs)) \cup (UNION Range(operations)))]
=============================================================================
