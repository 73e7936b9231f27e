----------------------------- MODULE MCIntakeGate -----------------------------
(* One model with up to three fields against one definition, one interface *)
(* with up to two operations, and every short TypeSpec text.               *)
EXTENDS IntakeGate

fullName  == [style |-> "camel", words |-> <<"full", "name">>]
full_name == [style |-> "snake", words |-> <<"full", "name">>]
kind      == [style |-> "snake", words |-> <<"kind">>]
name      == [style |-> "snake", words |-> <<"name">>]

Type(values, strings, n) == [values |-> values, strings |-> strings, name |-> n, open |-> FALSE]
Literals(values) == Type(values, values, "")
Named(type)      == Type({}, {}, type)
Alias            == Type({"x"}, {}, "U")
Defaulted        == Type({}, {"x"}, "")
Bare(value)      == Type({value}, {}, "")
Unclosed         == [Type({}, {}, "") EXCEPT !.open = TRUE]

Comment == Remark(Scalar)
Doc(value) == Remark(Type({}, {value}, ""))
Model(fields) == <<Open("model", "A"), Comment>> \o fields \o <<Close>>
EnumOf(members) == <<Open("enum", "E")>> \o members \o <<Close>>
Enum == EnumOf(<<Member(Literals({"x"})), Member(Literals({"y"}))>>)

Property(is, values, to) == [is |-> is, values |-> values, odd |-> FALSE, to |-> to]
Odd(p) == [p EXCEPT !.odd = TRUE]
Simple == Property("plain", {}, "")
Def(self, props, required) ==
  [self |-> self, object |-> props # None, props |-> props, required |-> required]
Schema(a) ==
  [draft |-> Draft,
   defs |-> [a |-> a, e |-> Def(Property("enum", {"x", "y"}, ""), None, {}),
             r |-> Def(Property("ref", {}, "e"), None, {}), toA |-> Def(Property("ref", {}, "a"), None, {})]]

Op(pieces, headers, body, sent, returned) ==
  [is |-> "op", name |-> pieces, headers |-> headers, body |-> body, sent |-> sent, returned |-> returned]
Decorator(text) == [is |-> "decorator", text |-> text]
Blank == [is |-> "blank"]
Gap   == [is |-> "gap"]
Create == Op(<<"create">>, {"If-Match"}, TRUE, {<<"A">>}, {<<"B">>})
List   == Op(<<"list">>, {}, FALSE, {}, {<<"A">>})

Pair == [typespec |-> "A", json |-> "a", renames |-> None, onlyTypeSpec |-> {}, onlyJson |-> {}, mayDiffer |-> {}]
Need == [route |-> "/v1/a", admin |-> FALSE, subroute |-> {}, method |-> "post", operation |-> <<"create">>,
         headers |-> {"If-Match"}, body |-> {<<"A">>}, audience |-> "public"]
Policy ==
  [format |-> "v1", expected |-> "PASS", pairs |-> <<Pair>>, operations |-> <<Need>>,
   classification |-> "distinct-lead-intake-contract", expectedId |-> "lead", forbiddenId |-> "authority",
   definitions |-> {"Lead"}]
Good == [f \in {"typespec", "schema", "publication", "policy"} |-> "fits"]

Base ==
  [typespec |-> [lines |-> Model(<<Field(fullName, TRUE, Scalar), Field(kind, FALSE, Named("E"))>>) \o Enum,
                 interfaces |-> <<[route |-> "/v1/a", pieces |-> <<Decorator("post"), Create>>]>>],
   schema |-> Schema(Def(Simple, <<"full", "name">> :> Simple @@ <<"kind">> :> Property("ref", {}, "e"),
                         {<<"full", "name">>})),
   publication |-> [draft |-> Draft, id |-> "lead", defs |-> {"Lead"}],
   policy |-> Policy, good |-> Good]
-----------------------------------------------------------------------------
(* Fields and properties.                                                  *)

Texts(n, required, t, more) ==
  Model(<<Field(n, required, Scalar), Field(kind, FALSE, t)>> \o more)
Text(n, required, t, more) == Texts(n, required, t, more) \o Enum
Mores == {<<>>, <<Field(name, TRUE, Scalar)>>}
OddTexts ==
  {Model(<<Field(fullName, TRUE, Scalar), Loose(kind, FALSE, Scalar)>>) \o Enum,
   Model(<<Field(fullName, TRUE, Scalar), Field(full_name, TRUE, Scalar)>>),
   Model(<<Field(fullName, TRUE, Scalar), Nest("inner"), Field(name, TRUE, Scalar), Close,
           Field(kind, TRUE, Scalar)>>), Enum}
  \cup {Texts(fullName, TRUE, Named("E"), <<>>) \o EnumOf(m) :
          m \in {<<Member(Literals({"x"})), Member(Bare("y"))>>, <<Doc("y"), Member(Literals({"x"}))>>}}

KindProperties ==
  {None} \cup {<<"kind">> :> p :
    p \in {Simple, Property("enum", {"x"}, ""), Property("enum", {"x", "y"}, ""), Property("const", {"x"}, ""),
           Odd(Property("enum", {"x"}, "")), Odd(Property("const", {}, "")),
           Property("ref", {}, "e"), Property("ref", {}, "r"), Property("ref", {}, "nowhere"),
           Property("ref", {}, "external"), Property("oneOf", {"x"}, "")}}
Definitions(kinds, requireds) ==
  {Def(Simple, f @@ k @@ n, required) :
     f \in {None, <<"full", "name">> :> Simple}, k \in kinds, n \in {None, <<"name">> :> Simple}, required \in requireds}
FewKinds == {None, <<"kind">> :> Simple, <<"kind">> :> Property("ref", {}, "e")}

Pairs ==
  {[Pair EXCEPT !.renames = r, !.onlyTypeSpec = o, !.onlyJson = j, !.mayDiffer = d] :
     r \in {None, kind :> <<"name">>}, o \in {{}, {kind}}, j \in {{}, {<<"kind">>}}, d \in {{}, {fullName}}}

\* The types of a field; which fields there are and must be; what the policy allows.
FieldCases ==
  {[Base EXCEPT !.typespec.lines = t, !.schema = Schema(d)] :
     t \in OddTexts \cup
           {Text(fullName, TRUE, u, more) :
              u \in {Scalar, Literals({"x"}), Literals({"x", "y"}), Named("E"), Alias, Defaulted, Unclosed}, more \in Mores},
     d \in Definitions(KindProperties, {{<<"full", "name">>}})}
  \cup {[Base EXCEPT !.typespec.lines = Text(n, r, u, more), !.schema = Schema(d)] :
          n \in {fullName, full_name}, r \in BOOLEAN, u \in {Scalar, Named("E")}, more \in Mores,
          d \in Definitions(FewKinds, {{}, {<<"full", "name">>, <<"kind">>}})}
  \cup {[Base EXCEPT !.typespec.lines = Text(fullName, TRUE, Named("E"), more), !.schema = Schema(d), !.policy.pairs = <<p>>] :
          more \in Mores, p \in Pairs, d \in Definitions(FewKinds, {{}})}
  \cup {[Base EXCEPT !.policy.pairs = p] :
          p \in {<<Pair, Pair>>, <<>>, <<[Pair EXCEPT !.typespec = "Missing"]>>} \cup
                {<<[Pair EXCEPT !.json = n]>> : n \in {"missing", "e", "r", "toA"}}}

TextCases ==
  LET ls == {Open("model", "B"), Open("enum", "E"), Open("model", ""), Whole("model", "B"), Close, Nest("inner"),
             Field(name, TRUE, Scalar), Field(name, FALSE, Scalar), Member(Literals({"x"}))}
      fs == {Field(name, TRUE, Scalar), Field(name, FALSE, Scalar), Loose(name, TRUE, Scalar), Doc("x")}
      ms == {Member(Literals({"x"})), Member(Bare("x")), Doc("x"), Remark(Unclosed)}
      texts == {<<Open("model", "A")>> \o s \o <<Close>> : s \in BoundedSeq(ls, 3) \cup BoundedSeq(fs, 3)}
               \cup {Model(<<>>) \o EnumOf(m) : m \in BoundedSeq(ms, 3)}
  IN  {[Base EXCEPT !.typespec.lines = t] : t \in texts}

-----------------------------------------------------------------------------
(* Operations, the publication and files that cannot be read.              *)

Bodies ==
  LET preludes == {<<>>, <<Blank>>, <<Decorator("/sub")>>, <<Blank, Decorator("get")>>}
      operations ==
        {Create, Op(<<"re", "create">>, {"If-Match"}, TRUE, {<<"A">>}, {}), [Create EXCEPT !.headers = {}],
         [Create EXCEPT !.body = FALSE, !.sent = {}, !.returned = {<<"A">>}], [Create EXCEPT !.sent = {<<"A", "Page">>}],
         [Create EXCEPT !.sent = {<<"B">>}, !.returned = {<<"A">>}], List}
      rests == {<<>>, <<Blank, Decorator("post"), Create>>, <<Gap, Decorator("post"), Create>>,
                <<Blank, Decorator("get"), Create>>, <<Decorator("get"), List>>}
  IN  {<<Decorator("post")>> \o b \o <<o>> \o rest : b \in preludes, o \in operations, rest \in rests}
      \cup {<<Decorator("get")>> \o b \o <<o>> : b \in preludes, o \in operations}
Requirements ==
  {[Need EXCEPT !.subroute = s, !.body = b] : s \in {{}, {"/sub"}}, b \in {{}, {<<"A">>}}}
OddRequirements ==
  {[Need EXCEPT !.audience = "admin"], [Need EXCEPT !.audience = "all"], [Need EXCEPT !.method = "head"],
        [Need EXCEPT !.route = "/v1/admin/a", !.admin = TRUE, !.audience = "admin"]}
OperationCases ==
  {[Base EXCEPT !.typespec.interfaces = <<[route |-> "/v1/a", pieces |-> b]>>, !.policy.operations = <<r>>] :
     b \in Bodies, r \in Requirements}
  \cup {[Base EXCEPT !.policy.operations = <<r>>] : r \in OddRequirements}
  \cup {[Base EXCEPT !.typespec.interfaces = i, !.policy.operations = r] :
     i \in {<<>>, <<[route |-> "/v1/b", pieces |-> <<Decorator("/v1/a"), Create>>],
                    [route |-> "/v1/admin/a", pieces |-> <<Decorator("post"), Create>>]>>},
     r \in {<<>>, <<Need>>, <<Need, Need>>, <<[Need EXCEPT !.route = "/v1/admin/a", !.admin = TRUE, !.audience = "admin"]>>}}

OtherCases ==
  {[Base EXCEPT !.publication = [draft |-> d, id |-> i, defs |-> n]] :
     d \in {Draft, "none"}, i \in {"lead", "authority", "none"}, n \in {{}, {"Lead", "Other"}}}
  \cup {[Base EXCEPT !.good[f] = g] : f \in DOMAIN Good, g \in {"absent", "malformed"}}
  \cup {[Base EXCEPT !.schema.draft = "none"], [Base EXCEPT !.policy.format = "v2"],
        [Base EXCEPT !.policy.classification = "authority"], [Base EXCEPT !.policy.expected = "none"],
        [Base EXCEPT !.policy.expectedId = "authority", !.publication.id = "authority"]}

MCFirstSources == {Base}
MCSources ==
  LET passing == FieldCases \cup TextCases \cup OperationCases \cup OtherCases
  IN  passing \cup {[x EXCEPT !.policy.expected = Stopped] : x \in OtherCases \cup {Base}}

Usual ==
  <<"--typespec", "typespec", "--json-schema", "schema", "--publication", "publication", "--policy", "policy",
    "--output", "receipt">>
MCCalls ==
  {Usual, <<"--require-pass">> \o Usual, Front(Usual), Tail(Usual), SubSeq(Usual, 1, 8) \o <<"--require-pass">>,
   Usual \o <<"--policy", "--require-pass">>}
=============================================================================
