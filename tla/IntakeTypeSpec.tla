---------------------------- MODULE IntakeTypeSpec ----------------------------
(***************************************************************************)
(* How the commercial intake parity tool reads a TypeSpec source: line by  *)
(* line, without a grammar.  What a line is says what TypeSpec means by    *)
(* it, not what the reader makes of it:                                    *)
(*   open     model or enum, a name and a {                                *)
(*   whole    a model or enum with its } on the same line                  *)
(*   nest     a field whose inline object begins here:  a: {               *)
(*   close    } or };   alone on its line                                  *)
(*   field    name: type;   name?: type;   alone on its line               *)
(*   loose    a field in another form: with a decorator or a comment on    *)
(*            its line, over several lines, or ended by a comma            *)
(*   member   of an enum:  name: "value",   or  value,                     *)
(*   remark   comments, documentation and decorators                       *)
(* Inheritance, spreads, templates, quoted field names and braces that     *)
(* stand elsewhere are left out.                                           *)
(* A field name is the letters between its capitals, so fullName is        *)
(* [style |-> "camel", words |-> <<"full", "name">>].                      *)
(***************************************************************************)
EXTENDS Integers, Sequences, FiniteSets, SequencesExt

Words == Seq(STRING)
FieldName == [style : {"camel", "snake"}, words : Words]

\* A type, or what else a line says: values are the strings that it admits by
\* itself, an alias's too; strings are those quoted in its text, a default or
\* a remark among them; name is a text without any, inside its (..)[]; open
\* is a string that does not end on the line or that JSON does not read.
TypeExpr ==
  {t \in [values : SUBSET STRING, strings : SUBSET STRING, name : STRING, open : BOOLEAN] :
     t.strings # {} => t.name = ""}
Scalar == [values |-> {}, strings |-> {}, name |-> "string", open |-> FALSE]

Line(kind, keyword, name, field, required, type) ==
  [is |-> kind, keyword |-> keyword, name |-> name, field |-> field, required |-> required, type |-> type]
Lines ==
  {l \in [is : {"open", "whole", "nest", "close", "field", "loose", "member", "remark"},
          keyword : {"", "model", "enum"}, name : STRING, field : FieldName,
          required : BOOLEAN, type : TypeExpr] :
     l.is \in {"open", "whole"} => l.keyword # ""}
NoField == [style |-> "snake", words |-> <<>>]
Open(keyword, name)          == Line("open", keyword, name, NoField, FALSE, Scalar)
Whole(keyword, name)         == Line("whole", keyword, name, NoField, FALSE, Scalar)
Nest(name)                   == Line("nest", "", name, NoField, FALSE, Scalar)
Close                        == Line("close", "", "", NoField, FALSE, Scalar)
Field(field, required, type) == Line("field", "", "", field, required, type)
Loose(field, required, type) == Line("loose", "", "", field, required, type)
Member(type)                 == Line("member", "", "", NoField, FALSE, type)
Remark(type)                 == Line("remark", "", "", NoField, FALSE, type)
-----------------------------------------------------------------------------
None == [x \in {} |-> x]

\* The state of the reader: where it is, and what it has read.
Start ==
  [at |-> "outside", name |-> "", fields |-> None, values |-> {}, models |-> None, enums |-> None]

Add(table, name, entry) ==
  [x \in DOMAIN table \cup {name} |-> IF x = name THEN entry ELSE table[x]]

Failed(s) == [s EXCEPT !.at = "error"]

ReadOutside(s, l) ==
  IF l.is \notin {"open", "whole"} THEN s
  ELSE IF l.name = "" THEN Failed(s)
  ELSE [s EXCEPT !.at = l.keyword, !.name = l.name, !.fields = None, !.values = {}]

\* Mutant: a second declaration of a field replaces the first.
ReadModelLastWins(s, l) ==
  CASE l.is = "close" ->
         IF s.name \in DOMAIN s.models THEN Failed(s)
         ELSE [s EXCEPT !.at = "outside", !.models = Add(s.models, s.name, s.fields)]
    [] l.is = "field" -> [s EXCEPT !.fields = Add(s.fields, l.field, l)]
    [] OTHER -> s

\* What is no field on a line of its own is skipped, an inline object too: the
\* }; of that object ends the model.
ReadModel(s, l) ==
  CASE l.is = "close" ->
         IF s.name \in DOMAIN s.models THEN Failed(s)
         ELSE [s EXCEPT !.at = "outside", !.models = Add(s.models, s.name, s.fields)]
    [] l.is = "field" ->
         IF l.field \in DOMAIN s.fields THEN Failed(s)
         ELSE [s EXCEPT !.fields = Add(s.fields, l.field, l)]
    [] OTHER -> s

\* All quoted strings between the braces, and no others.
ReadEnum(s, l) ==
  CASE l.is = "close" ->
         IF s.name \in DOMAIN s.enums THEN Failed(s)
         ELSE [s EXCEPT !.at = "outside", !.enums = Add(s.enums, s.name, s.values)]
    [] l.is # "close" /\ l.type.open -> Failed(s)
    [] OTHER -> [s EXCEPT !.values = @ \cup l.type.strings]

ReadLine(s, l) ==
  CASE s.at = "outside" -> ReadOutside(s, l)
    [] s.at = "model"   -> ReadModel(s, l)
    [] s.at = "enum"    -> ReadEnum(s, l)
    [] OTHER            -> s

\* parse_typespec; an unterminated block and a source without models are errors.
ParseTypeSpec(lines) ==
  LET s == FoldLeft(ReadLine, Start, lines)
  IN  IF s.at # "outside" \/ s.models = None THEN Failed(s) ELSE s

\* A capital inside the name becomes _ and its small letter.
CamelToSnake(field) == field.words

\* Mutant: only the strings of the type itself are read.
LiteralValues(doc, type) == type.strings

\* The values a field admits: the strings in its type, or else those of the
\* enum it names.
EnumValues(doc, type) ==
  IF type.strings = {} /\ type.name \in DOMAIN doc.enums THEN doc.enums[type.name] ELSE type.strings
-----------------------------------------------------------------------------
(* The same source as TypeSpec means it: braces nest, a field is a field   *)
(* in whatever form, a member has a value with or without a string, aliases *)
(* stand for their values, remarks and defaults for none.                  *)

Opens(l) == l.is \in {"open", "nest"}

\* How many braces are open before line i.
Depth(lines, i) ==
  Quantify(1..(i - 1), LAMBDA k : Opens(lines[k]))
    - Quantify(1..(i - 1), LAMBDA k : lines[k].is = "close")

\* The lines of the block that line i opens, its own level only.
Block(lines, i) ==
  LET Ends == {j \in (i + 1)..Len(lines) : lines[j].is = "close" /\ Depth(lines, j + 1) = Depth(lines, i)}
  IN  {k \in (i + 1)..Len(lines) :
         (\A j \in Ends : k < j) /\ Depth(lines, k) = Depth(lines, i) + 1}

\* The blocks of a name; the fields of model m, the members of enum e.
Blocks(lines, keyword, name) ==
  {i \in 1..Len(lines) : lines[i].is = "open" /\ lines[i].keyword = keyword /\ lines[i].name = name}
Within(lines, keyword, name) == UNION {Block(lines, i) : i \in Blocks(lines, keyword, name)}
DeclaredFields(lines, m) ==
  {lines[k] : k \in {k \in Within(lines, "model", m) : lines[k].is \in {"field", "loose"}}}
DeclaredMembers(lines, e) ==
  UNION {lines[k].type.values : k \in {k \in Within(lines, "enum", e) : lines[k].is = "member"}}
DeclaredValues(lines, type) ==
  type.values \cup IF type.strings = {} THEN DeclaredMembers(lines, type.name) ELSE {}
Declared(lines, keyword) ==
  {lines[i].name : i \in {i \in 1..Len(lines) : lines[i].is \in {"open", "whole"} /\ lines[i].keyword = keyword
                                                /\ Depth(lines, i) = 0}}

\* The layout the reader is made for: nothing nests, a block has its closing
\* brace on a line of its own, fields stand in models and members in enums.
Flat(lines) ==
  /\ \A i \in 1..Len(lines) :
       /\ lines[i].is \notin {"nest", "whole"}
       /\ lines[i].is = "open" => Depth(lines, i) = 0
       /\ lines[i].is \in {"close", "field", "loose", "member"} => Depth(lines, i) = 1
       /\ lines[i].is = "open" =>
            \A k \in Block(lines, i) :
              lines[k].is \in {"remark"} \cup IF lines[i].keyword = "enum" THEN {"member"} ELSE {"field", "loose"}
  /\ Depth(lines, Len(lines) + 1) = 0
=============================================================================
