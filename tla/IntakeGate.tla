------------------------------ MODULE IntakeGate ------------------------------
(***************************************************************************)
(* The commercial intake parity tool as the gate it is in CI: each run     *)
(* reads its arguments, the two authorities, the publication and the       *)
(* policy, writes a receipt and ends with 0, 1 or 2.  Between the runs the *)
(* sources are edited; the receipt of an earlier run stays on the disk.    *)
(***************************************************************************)
EXTENDS IntakeAudit

CONSTANTS
  Calls,   \* argument lists the tool is called with
  Sources, \* what the files can hold: typespec, schema, publication, policy
  FirstSources, \* what they hold first
  MaxRuns  \* bound: runs of the tool

ASSUME RunsAssumption == MaxRuns \in Nat /\ FirstSources \subseteq Sources
ASSUME SourcesAssumption == \A in \in Sources : WellFormed(in)

VARIABLES
  pc,      \* what the tool is about to do
  files,   \* the source files, and which of them can be read as their format
  options, \* the parsed arguments
  result,  \* the receipt in memory
  receipt, \* the receipt on the disk
  code,    \* the exit code
  runs     \* how many runs there were

vars == <<pc, files, options, result, receipt, code, runs>>

PathFlags == {"--typespec", "--json-schema", "--publication", "--policy", "--output"}
Flag(file) ==
  CASE file = "typespec" -> "--typespec" [] file = "schema" -> "--json-schema"
    [] file = "publication" -> "--publication" [] file = "policy" -> "--policy"
NoOptions == [at |-> "", paths |-> None, pass |-> FALSE]
NoReceipt == [status |-> "none"]
Torn      == [status |-> "torn"]

Init ==
  /\ pc = "idle" /\ files \in FirstSources /\ options = NoOptions
  /\ result = NoReceipt /\ receipt = NoReceipt /\ code = 0 /\ runs = 0
-----------------------------------------------------------------------------
\* One argument: a path for the flag before it, whatever it looks like, or a flag.
ReadArgument(o, a) ==
  CASE o.at \in PathFlags   -> [o EXCEPT !.at = "", !.paths = Add(o.paths, o.at, a)]
    [] o.at = "error"       -> o
    [] a \in PathFlags      -> [o EXCEPT !.at = a]
    [] a = "--require-pass" -> [o EXCEPT !.pass = TRUE]
    [] OTHER                -> [o EXCEPT !.at = "error"]

ParseArguments(arguments) == FoldLeft(ReadArgument, NoOptions, arguments)
ArgumentsFit(o) == o.at = "" /\ DOMAIN o.paths = PathFlags

Exit(c) == pc' = "done" /\ code' = c

Call(arguments) ==
  /\ pc = "idle" /\ runs < MaxRuns /\ runs' = runs + 1
  /\ options' = ParseArguments(arguments)
  /\ IF ArgumentsFit(options') THEN pc' = "reading" /\ code' = code ELSE Exit(1)
  /\ UNCHANGED <<files, result, receipt>>

\* A path without its file, or a file that is no UTF-8.
Readable(file) == options.paths[Flag(file)] = file /\ files.good[file] # "absent"

ReadFiles ==
  /\ pc = "reading"
  /\ IF \A file \in DOMAIN files.good : Readable(file) THEN pc' = "judging" /\ code' = code ELSE Exit(1)
  /\ UNCHANGED <<files, options, result, receipt, runs>>

\* Mutant: whatever the audit finds is written.
ExpectedIsNone(in) == TRUE

\* The computed status is the one that was reviewed.
AsExpected(in) == Receipt(in).status = in.policy.expected

\* parse_policy and audit_contracts; JSON that does not parse, or repeats a
\* key, is refused.
Judge ==
  /\ pc = "judging"
  /\ IF /\ \A file \in DOMAIN files.good : files.good[file] = "fits"
        /\ PolicyFits(files.policy) /\ ~AuditFails(files) /\ AsExpected(files)
     THEN pc' = "writing" /\ result' = Receipt(files) /\ code' = code
     ELSE result' = result /\ Exit(1)
  /\ UNCHANGED <<files, options, receipt, runs>>

Verdict(status) == IF options.pass /\ status # "PASS" THEN 2 ELSE 0

\* Mutant: a failed write is only logged.
WriteReceiptAnyway ==
  /\ pc = "writing"
  /\ receipt' \in {result, receipt, Torn} /\ Exit(Verdict(result.status))
  /\ UNCHANGED <<files, options, result, runs>>

\* fs::write empties the file first: it may fail before or after that.
WriteReceipt ==
  /\ pc = "writing"
  /\ \/ receipt' = result /\ Exit(Verdict(result.status))
     \/ receipt' \in {receipt, Torn} /\ Exit(1)
  /\ UNCHANGED <<files, options, result, runs>>

Edit(new) ==
  /\ pc = "done" /\ runs < MaxRuns
  /\ pc' = "idle" /\ files' = new
  /\ options' = NoOptions /\ result' = NoReceipt /\ code' = 0
  /\ UNCHANGED <<receipt, runs>>

Next ==
  \/ \E arguments \in Calls : Call(arguments)
  \/ ReadFiles \/ Judge \/ WriteReceipt
  \/ \E new \in Sources : Edit(new)

Spec == Init /\ [][Next]_vars
-----------------------------------------------------------------------------
(* When the authorities agree, whatever the tool makes of it.              *)

TrueValues(js, p) ==
  LET one == IF p.is = "ref" THEN js.defs[p.to].self ELSE p
      two == IF one.is = "ref" THEN js.defs[one.to].self ELSE one
  IN  two.values

PairAgrees(in, pair) ==
  LET fields == DeclaredFields(in.typespec.lines, pair.typespec)
      def == Resolved(in.schema, pair.json)
      json(l) == Mapped(pair, l.field)
  IN  /\ pair.typespec \in Declared(in.typespec.lines, "model")
      /\ FieldsRead(in.schema, pair.json) = "found"
      /\ \A l \in fields :
           \/ json(l) \notin Properties(def) /\ l.field \in pair.onlyTypeSpec
           \/ /\ json(l) \in Properties(def)
              /\ l.required = (json(l) \in def.required) \/ l.field \in pair.mayDiffer
              /\ DeclaredValues(in.typespec.lines, l.type) = TrueValues(in.schema, def.props[json(l)])
      /\ \A f \in Properties(def) : f \in pair.onlyJson \/ \E l \in fields : json(l) = f

\* An operation is what stands between the one before it and itself.
Own(pieces, k) ==
  {pieces[i].text : i \in {i \in 1..(k - 1) : /\ pieces[i].is = "decorator"
                                             /\ \A j \in i..(k - 1) : pieces[j].is # "op"}}
OperationAgrees(in, r) ==
  \E i \in DOMAIN in.typespec.interfaces : LET pieces == in.typespec.interfaces[i].pieces IN
    /\ in.typespec.interfaces[i].route = r.route
    /\ r.audience = (IF r.admin THEN "admin" ELSE "public")
    /\ \E k \in DOMAIN pieces :
         /\ pieces[k].is = "op" /\ pieces[k].name = r.operation
         /\ {r.method} \cup r.subroute \subseteq Own(pieces, k)
         /\ r.headers \subseteq pieces[k].headers
         /\ r.body # {} => pieces[k].body /\ r.body \subseteq pieces[k].sent

Agree(in) ==
  /\ \A i \in DOMAIN in.policy.pairs : PairAgrees(in, in.policy.pairs[i])
  /\ \A i \in DOMAIN in.policy.operations : OperationAgrees(in, in.policy.operations[i])
  /\ in.publication.draft = Draft
  /\ in.publication.id = in.policy.expectedId /\ in.publication.id # in.policy.forbiddenId
  /\ in.policy.definitions \subseteq in.publication.defs

\* What the readers of the tool are made for: flat models whose fields have a
\* line each, types and enums whose strings are their values, values that are
\* written out, in an enum, or one $ref away.
PlainTypes(in) ==
  LET lines == in.typespec.lines IN
  /\ Flat(lines)
  /\ \A k \in DOMAIN lines : lines[k].is # "loose"
  /\ \A k \in DOMAIN lines : lines[k].is = "field" => lines[k].type.strings = lines[k].type.values
  /\ \A i \in DOMAIN lines : lines[i].is = "open" /\ lines[i].keyword = "enum" =>
       \A k \in Block(lines, i) :
         lines[k].type.strings = IF lines[k].is = "member" THEN lines[k].type.values ELSE {}
  /\ \A d \in DOMAIN in.schema.defs :
       LET def == in.schema.defs[d]
           near(p) == p.is = "ref" /\ p.to \in DOMAIN in.schema.defs => in.schema.defs[p.to].self.is # "ref"
       IN  /\ def.self.is # "oneOf" /\ near(def.self)
           /\ \A f \in Properties(def) : def.props[f].is # "oneOf" /\ near(def.props[f])

\* Operations with an empty line before each, none whose name ends with that
\* of another, no sub-route that repeats a route; and a signature with a body
\* that has the name of the model asked for somewhere, in what is returned or
\* as part of another, sends that model.
PlainOperation(interfaces, r) ==
  \A i \in DOMAIN interfaces :
    LET pieces == interfaces[i].pieces IN
    /\ \A k \in DOMAIN pieces : pieces[k].is = "decorator" => pieces[k].text # r.route
    /\ \A j \in 1..(i - 1) : interfaces[j].route # interfaces[i].route
    /\ \A k \in DOMAIN pieces : pieces[k].is = "op" =>
         /\ IsSuffix(r.operation, pieces[k].name) => pieces[k].name = r.operation
         /\ \A j \in 1..(k - 1) : pieces[j].is = "op" => pieces[j].name # pieces[k].name
         /\ pieces[k].body /\ r.body # {}
            => \A b \in r.body, m \in pieces[k].sent \cup pieces[k].returned :
                 b \in SubSeqs(m) => b \in pieces[k].sent
         /\ \A j \in 1..(k - 1) :
              pieces[j].is = "op" => \E b \in j..(k - 1) : pieces[b].is = "blank"
         /\ \A j \in 1..(k - 1) : pieces[j].is = "decorator" =>
              \/ \E o \in j..(k - 1) : pieces[o].is = "op"
              \/ \A b \in j..(k - 1) : pieces[b].is # "blank"
PlainOperations(in) ==
  \A n \in DOMAIN in.policy.operations : PlainOperation(in.typespec.interfaces, in.policy.operations[n])

Plain(in) == PlainTypes(in) /\ PlainOperations(in)
-----------------------------------------------------------------------------
\* A source that the tool may refuse: no name, no model, a name or a field twice, an open string.
Refusable(lines) ==
  LET opens(i) == lines[i].is = "open"
  IN  \/ "" \in Declared(lines, "model") \cup Declared(lines, "enum")
      \/ Declared(lines, "model") = {}
      \/ \E i, j \in DOMAIN lines :
           /\ i # j /\ opens(i) /\ opens(j)
           /\ lines[i].keyword = lines[j].keyword /\ lines[i].name = lines[j].name
      \/ \E m \in Declared(lines, "model") :
           \E l, o \in DeclaredFields(lines, m) : l # o /\ l.field = o.field
      \/ \E i, j, k \in DOMAIN lines :
           i # j /\ opens(k) /\ {i, j} \subseteq Block(lines, k)
           /\ lines[i].is = "field" /\ lines[i] = lines[j]
      \/ \E k \in DOMAIN lines : lines[k].type.open

\* What was read is what is declared, save for what the reader cannot see: a
\* field in another form, a member without a string, and, for more than there
\* is, strings in an enum that are no member's value.
ReadWhole(doc, lines) ==
  /\ DOMAIN doc.models = Declared(lines, "model")
  /\ DOMAIN doc.enums = Declared(lines, "enum")
  /\ \A m \in DOMAIN doc.models :
       /\ {doc.models[m][n] : n \in DOMAIN doc.models[m]}
            = {l \in DeclaredFields(lines, m) : l.is # "loose"}
       /\ \A n \in DOMAIN doc.models[m] : doc.models[m][n].field = n
  /\ \A e \in DOMAIN doc.enums :
       /\ \A v \in DeclaredMembers(lines, e) \ doc.enums[e] :
            \E k \in Within(lines, "enum", e) :
              lines[k].is = "member" /\ v \in lines[k].type.values \ lines[k].type.strings
       /\ \A v \in doc.enums[e] \ DeclaredMembers(lines, e) :
            \E k \in Within(lines, "enum", e) :
              v \in lines[k].type.strings /\ (lines[k].is = "remark" \/ v \notin lines[k].type.values)

\* lib_part_03.rs, parse_typespec: of a source in the layout it is made for it
\* reads every model, every enum, and exactly the fields and members that are
\* declared there, but for fields that share a line or take several, members
\* without a string and strings that are no member (README 3.3); it refuses
\* only what declares a name or a field twice, has no name, has no model or
\* leaves a string open.
ReadsWhatIsDeclared ==
  pc = "judging" /\ Flat(files.typespec.lines) =>
    LET lines == files.typespec.lines
        doc == ParseTypeSpec(lines)
    IN  IF doc.at = "error" THEN Refusable(lines) ELSE ReadWhole(doc, lines)

\* tools/commercial-intake-parity/README.md: --require-pass is a fail-closed
\* gate: exit code 0 says that the authorities, the operations and the
\* publication agree, when they are laid out as the tool reads them.
PassIsAgreement ==
  pc = "done" /\ code = 0 /\ options.pass /\ Plain(files) => Agree(files)

\* The gate opens: sources that agree, under a policy that expects it, end
\* with 0 unless the receipt cannot be written.
AgreementPasses ==
  /\ pc = "done" /\ code # 0 /\ ArgumentsFit(options)
  /\ \A file \in DOMAIN files.good : Readable(file) /\ files.good[file] = "fits"
  /\ PolicyFits(files.policy) /\ files.policy.expected = "PASS" /\ ~AuditFails(files)
  /\ Plain(files) /\ Agree(files)
  => result # NoReceipt

\* A run that does not end with 1 leaves its own receipt on the disk, whole,
\* not that of an earlier run; the receipt has the status that was reviewed,
\* and --require-pass lets only a PASS end with 0.
ReceiptIsReviewed ==
  pc = "done" /\ code # 1 =>
    /\ receipt = Receipt(files) /\ receipt.status = files.policy.expected
    /\ code = 0 <=> (options.pass => receipt.status = "PASS")

-----------------------------------------------------------------------------
(***************************************************************************)
(* The inductive invariant.                                                *)
(***************************************************************************)

\* Only an audit that did not fail, with the status that was reviewed, is written.
Audited ==
  pc = "writing" \/ (pc = "done" /\ code # 1) =>
    /\ PolicyFits(files.policy) /\ ~AuditFails(files) /\ AsExpected(files)
    /\ result = Receipt(files)

\* The receipt on the disk is that of the run that ends, unless the code is 1.
Written ==
  pc = "done" /\ code # 1 => receipt = result /\ code = Verdict(result.status)

\* A run that made no receipt had a reason on the way.
Refused ==
  pc = "done" /\ result = NoReceipt =>
    \/ ~ArgumentsFit(options)
    \/ \E file \in DOMAIN files.good : ~Readable(file) \/ files.good[file] # "fits"
    \/ ~PolicyFits(files.policy) \/ AuditFails(files) \/ ~AsExpected(files)

IInv ==
  /\ pc \in {"idle", "reading", "judging", "writing", "done"}
  /\ files \in Sources /\ Audited /\ Written /\ Refused
=============================================================================
