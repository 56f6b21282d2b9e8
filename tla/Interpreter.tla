---------------------------- MODULE Interpreter -----------------------------
(***************************************************************************)
(* The schema that a syntax tree declares (interpreter/interpreter.go).    *)
(*                                                                         *)
(* Tokens have the word they say as their value.  What is not there is ""  *)
(* or << >>; positions and the TablePartial declaration, which the         *)
(* interpreter passes over, are left out.  A type is the words of its      *)
(* name, << >> or <<arguments>>, and the words after them.                 *)
(***************************************************************************)
EXTENDS Parser, SequencesExt

\* Column == [name, type, pk, inc, unique, notnull, note, default, refs]
\* Index  == [cols: Seq([value, kind]), name, type, unique, pk, note]
\* Table  == [schema, name, alias, cols, indexes, note, records]
\* Ref    == [name, ends: <<Endpoint, Endpoint>>, ondelete, onupdate]
\* Endpoint == [schema, table, cols, rel]

NoNode == [kind |-> "none", parts |-> << >>]

IsToken(n) == n.kind = "token"

\* The parts of a list, a tuple or a block that are not its signs.
Items(n) == SelectSeq(n.parts, LAMBDA p : ~IsToken(p))

TokenOf(n) == n.parts[1].token

LowerCase == [Note |-> "note", Records |-> "records", NULL |-> "null"]

Lower(word) == IF word \in DOMAIN LowerCase THEN LowerCase[word] ELSE word

\* Words with one space between them.
Joined(words) == FoldLeft(LAMBDA s, w : IF s = "" THEN w ELSE s \o " " \o w, "", words)

\* extractName.
RECURSIVE Name(_)
Name(n) ==
  CASE n.kind = "primary" -> TokenOf(n).value
    [] n.kind = "infix"   -> IF n.parts[2].token.kind = "." THEN Name(n.parts[1]) \o "." \o Name(n.parts[3])
                             ELSE Name(n.parts[1])
    [] n.kind = "apply"   -> Name(n.parts[1])
    [] n.kind = "stream"  -> Joined([i \in DOMAIN n.parts |-> n.parts[i].token.value])
    [] OTHER              -> ""

\* extractStringValue.
StringValue(n) == IF n.kind = "primary" THEN TokenOf(n).value ELSE ""

IsDotted(n) == n.kind = "infix" /\ n.parts[2].token.kind = "."

\* A faulty form of SplitName: the schema stays in the name.
SplitNameWhole(n) == [schema |-> "", name |-> Name(n)]

\* splitQualifiedName.
SplitName(n) ==
  IF IsDotted(n) /\ Name(n.parts[1]) # "" /\ Name(n.parts[3]) # ""
  THEN [schema |-> Name(n.parts[1]), name |-> Name(n.parts[3])]
  ELSE [schema |-> "", name |-> Name(n)]

\* extractKeyValue: the colon of "key: value" is an argument of its own.
KeyValue(args) ==
  IF Len(args) >= 2 /\ StringValue(args[1]) = ":" THEN StringValue(args[2]) ELSE StringValue(args[1])

-----------------------------------------------------------------------------
(* The parts of a declaration. *)

NameOf(decl) ==
  IF Len(decl.parts) > 1 /\ decl.parts[2].kind \in {"primary", "infix"} THEN decl.parts[2] ELSE NoNode

AliasOf(decl) ==
  LET as == SelectInSubSeq(decl.parts, 2, Len(decl.parts), LAMBDA p : IsToken(p) /\ p.token.kind = "as")
  IN  IF as = 0 THEN NoNode ELSE decl.parts[as + 1]

BodyOf(decl) ==
  LET last == Last(decl.parts)
      colon == \E p \in ToSet(decl.parts) : IsToken(p) /\ p.token.kind = ":"
  IN  IF last.kind = "block" \/ colon THEN last ELSE NoNode

BlockItemsOf(decl) == IF BodyOf(decl).kind = "block" THEN Items(BodyOf(decl)) ELSE << >>

-----------------------------------------------------------------------------
(* Refs. *)

\* refRelations.
Relations(op) ==
  CASE op = ">"  -> <<"*", "1">>
    [] op = "<"  -> <<"1", "*">>
    [] op = "-"  -> <<"1", "1">>
    [] op = "<>" -> <<"*", "*">>

\* A faulty form of Endpoint: the schema is taken for the table.
EndpointOfOuter(n, rel) ==
  IF ~IsDotted(n) THEN [schema |-> "", table |-> Name(n), cols |-> << >>, rel |-> rel]
  ELSE [schema |-> "", rel |-> rel, table |-> Name(n.parts[1]), cols |-> <<Name(n.parts[3])>>]

\* extractEndpoint: table.column, schema.table.column or table.(a, b).
Endpoint(n, rel) ==
  LET owner == n.parts[1]
      column == n.parts[3]
  IN  IF ~IsDotted(n) THEN [schema |-> "", table |-> Name(n), cols |-> << >>, rel |-> rel]
      ELSE [schema |-> IF IsDotted(owner) THEN Name(owner.parts[1]) ELSE "",
            table  |-> IF IsDotted(owner) THEN Name(owner.parts[3]) ELSE Name(owner),
            cols   |-> IF column.kind = "tuple"
                       THEN [i \in DOMAIN Items(column) |-> Name(Items(column)[i])] ELSE <<Name(column)>>,
            rel    |-> rel]

\* applyRefSettings.
RefSetting(ref, attr) ==
  LET action == IF Len(attr.parts) < 3 THEN "" ELSE Name(attr.parts[3])
      name == Lower(Name(attr.parts[1]))
  IN  CASE action # "" /\ name = "delete" -> [ref EXCEPT !.ondelete = action]
        [] action # "" /\ name = "update" -> [ref EXCEPT !.onupdate = action]
        [] OTHER -> ref

\* The settings among the arguments of an application.
SettingsIn(args) == FlattenSeq([i \in DOMAIN args |-> IF args[i].kind = "list" THEN Items(args[i]) ELSE << >>])

\* extractRefFromExpr: no ref, or one.
RECURSIVE RefOf(_)
RefOf(n) ==
  CASE n.kind = "infix" /\ n.parts[2].token.kind \in Relation ->
         LET rels == Relations(n.parts[2].token.kind)
         IN  <<[name |-> "", ondelete |-> "", onupdate |-> "",
                ends |-> <<Endpoint(n.parts[1], rels[1]), Endpoint(n.parts[3], rels[2])>>]>>
    [] n.kind = "apply" ->
         LET refs == RefOf(n.parts[1])
         IN  [i \in DOMAIN refs |-> FoldLeft(RefSetting, refs[i], SettingsIn(Tail(n.parts)))]
    [] OTHER -> << >>

\* interpretRef: a block has several, and only the other form takes a name.
RefsOf(decl) ==
  IF BodyOf(decl).kind = "block"
  THEN FlattenSeq([i \in DOMAIN BlockItemsOf(decl) |-> RefOf(BlockItemsOf(decl)[i])])
  ELSE LET refs == RefOf(BodyOf(decl))
       IN  [i \in DOMAIN refs |-> [refs[i] EXCEPT !.name = Name(NameOf(decl))]]

\* extractInlineRef: no target, or one with the operator in front of it.
InlineTarget(value) ==
  IF value.kind # "apply" \/ Len(value.parts) # 2 THEN << >>
  ELSE LET op == Name(value.parts[1])
           end == Endpoint(value.parts[2], op)
       IN  IF op \in Relation /\ end.table # "" /\ end.cols # << >> THEN <<end>> ELSE << >>

\* A faulty form of InlineRefs: the relation of the target is turned around.
InlineRefsTurned(table, col) ==
  [i \in DOMAIN col.refs |->
     LET rels == Relations(col.refs[i].rel)
     IN  [name |-> "", ondelete |-> "", onupdate |-> "",
          ends |-> <<[schema |-> table.schema, table |-> table.name, cols |-> <<col.name>>, rel |-> rels[2]],
                     [col.refs[i] EXCEPT !.rel = rels[1]]>>]]

\* inlineRefs: from the column to each target.
InlineRefs(table, col) ==
  [i \in DOMAIN col.refs |->
     LET rels == Relations(col.refs[i].rel)
     IN  [name |-> "", ondelete |-> "", onupdate |-> "",
          ends |-> <<[schema |-> table.schema, table |-> table.name, cols |-> <<col.name>>, rel |-> rels[1]],
                     [col.refs[i] EXCEPT !.rel = rels[2]]>>]]

-----------------------------------------------------------------------------
(* Columns. *)

NoType == [schema |-> "", name |-> << >>, args |-> << >>, suffix |-> << >>]

NewColumn(name) ==
  [name |-> name, type |-> NoType, pk |-> FALSE, inc |-> FALSE, unique |-> FALSE, notnull |-> FALSE,
   note |-> "", default |-> << >>, refs |-> << >>]

\* isColumnName: what no item of a table is, and the signs that are left over.
IsColumnName(name) ==
  name \notin {"", "indexes", "records", "Note", "note", ",", ":"} \cup Bracket \cup (Op \ {"-"})

\* extractDefault: <<kind, value>>.
DefaultOf(n) ==
  LET value == StringValue(n)
      kind == IF n.kind # "primary" THEN "string"
              ELSE CASE TokenOf(n).kind = "number" -> "number"
                     [] TokenOf(n).kind = "expr" -> "expression"
                     [] TokenOf(n).kind \notin Literal /\ value \in {"true", "false", "null"} -> "boolean"
                     [] OTHER -> "string"
  IN  <<kind, value>>

\* applyColumnSettings, for one of them.
ColumnSetting(col, attr) ==
  LET name == Name(attr.parts[1])
      valued == Len(attr.parts) = 3
      value == attr.parts[3]
  IN  CASE name \in {"pk", "primary key"} -> [col EXCEPT !.pk = TRUE]
        [] name = "not null"              -> [col EXCEPT !.notnull = TRUE]
        [] name = "null"                  -> [col EXCEPT !.notnull = FALSE]
        [] name = "unique"                -> [col EXCEPT !.unique = TRUE]
        [] name = "increment"             -> [col EXCEPT !.inc = TRUE]
        [] name = "note" /\ valued        -> [col EXCEPT !.note = StringValue(value)]
        [] name = "default" /\ valued     -> [col EXCEPT !.default = DefaultOf(value)]
        [] name = "ref" /\ valued         -> [col EXCEPT !.refs = @ \o InlineTarget(value)]
        [] OTHER                          -> col

\* A word of the type, its arguments or the settings.
TypePart(col, arg) ==
  CASE arg.kind = "primary" /\ TokenOf(arg).kind \in Identifier ->
         IF col.type.args = << >> THEN [col EXCEPT !.type.name = Append(@, TokenOf(arg).value)]
         ELSE [col EXCEPT !.type.suffix = Append(@, TokenOf(arg).value)]
    [] arg.kind = "list" -> FoldLeft(ColumnSetting, col, Items(arg))
    [] arg.kind = "tuple" ->
         [col EXCEPT !.type.args = << [i \in DOMAIN Items(arg) |-> StringValue(Items(arg)[i])] >>]
    [] OTHER -> col

\* A type that is qualified is three arguments: the schema, the dot, the name.
WithType(col, args) ==
  IF Len(args) >= 3 /\ Name(args[2]) = "."
  THEN FoldLeft(TypePart,
                [col EXCEPT !.type.schema = Name(args[1]), !.type.name = <<Name(args[3])>>],
                SubSeq(args, 4, Len(args)))
  ELSE FoldLeft(TypePart, [col EXCEPT !.type.name = <<Name(args[1])>>], Tail(args))

-----------------------------------------------------------------------------
(* Indexes and rows. *)

IndexColumn(n) ==
  [value |-> Name(n), kind |-> IF n.kind = "primary" /\ TokenOf(n).kind = "expr" THEN "expression" ELSE "column"]

IndexSetting(index, attr) ==
  LET name == Lower(Name(attr.parts[1]))
      valued == Len(attr.parts) = 3
      value == StringValue(attr.parts[3])
  IN  CASE name = "unique"                -> [index EXCEPT !.unique = TRUE]
        [] name \in {"pk", "primary key"} -> [index EXCEPT !.pk = TRUE]
        [] name = "name" /\ valued        -> [index EXCEPT !.name = value]
        [] name = "type" /\ valued        -> [index EXCEPT !.type = value]
        [] name = "note" /\ valued        -> [index EXCEPT !.note = value]
        [] OTHER                          -> index

\* interpretIndex: no index, if no column is named.
IndexOf(n) ==
  LET target == IF n.kind = "apply" THEN n.parts[1] ELSE n
      keys == SelectSeq(IF target.kind = "tuple" THEN Items(target) ELSE <<target>>, LAMBDA k : Name(k) # "")
      index == [cols |-> [i \in DOMAIN keys |-> IndexColumn(keys[i])],
                name |-> "", type |-> "", unique |-> FALSE, pk |-> FALSE, note |-> ""]
  IN  IF keys = << >> THEN << >>
      ELSE <<FoldLeft(IndexSetting, index, IF n.kind = "apply" THEN SettingsIn(Tail(n.parts)) ELSE << >>)>>

\* recordValue.
RecordValue(n) == IF Lower(Name(n)) = "null" THEN "null" ELSE Name(n)

\* The row under construction, if there is one, is complete.
Flushed(rec) == IF rec.row = << >> THEN rec ELSE [rec EXCEPT !.rows = Append(@, rec.row), !.row = << >>]

ValuesOf(args) ==
  LET values == SelectSeq(args, LAMBDA a : Name(a) # ",")
  IN  [i \in DOMAIN values |-> RecordValue(values[i])]

\* An item that starts with a comma goes on with the row, others start one.
RecordItem(rec, item) ==
  CASE item.kind = "primary" -> [Flushed(rec) EXCEPT !.row = <<RecordValue(item)>>]
    [] item.kind = "apply" ->
         IF Name(item) = "," THEN [rec EXCEPT !.row = @ \o ValuesOf(Tail(item.parts))]
         ELSE [Flushed(rec) EXCEPT !.row = <<RecordValue(item.parts[1])>> \o ValuesOf(Tail(item.parts))]
    [] OTHER -> rec

\* interpretRecords.
RecordsOf(cols, block) ==
  <<[cols |-> cols, rows |-> Flushed(FoldLeft(RecordItem, [rows |-> << >>, row |-> << >>], Items(block))).rows]>>

\* extractRecordsCols.
RecordColumns(args) ==
  LET tuples == SelectSeq(args, LAMBDA a : a.kind = "tuple")
  IN  IF tuples = << >> THEN << >>
      ELSE [i \in DOMAIN Items(tuples[1]) |-> Name(Items(tuples[1])[i])]

-----------------------------------------------------------------------------
(* Tables. *)

\* A table under construction: what the next item is expected to be, the
\* columns of its rows, the refs of its columns and the errors.
NewTable(decl) ==
  [table |-> [schema |-> SplitName(NameOf(decl)).schema, name |-> SplitName(NameOf(decl)).name,
              alias |-> Name(AliasOf(decl)), cols |-> << >>, indexes |-> << >>, note |-> "", records |-> << >>],
   await |-> {}, rowcols |-> << >>, refs |-> << >>, errors |-> {}]

\* interpretField, for a column that has a type or that has none.
WithColumn(s, col) ==
  [s EXCEPT !.table.cols = Append(@, col), !.refs = @ \o InlineRefs(s.table, col)]

Field(s, item) ==
  IF ~IsColumnName(Name(item)) THEN s
  ELSE IF item.kind = "apply" THEN WithColumn(s, WithType(NewColumn(Name(item)), Tail(item.parts)))
  ELSE [WithColumn(s, NewColumn(Name(item))) EXCEPT !.errors = @ \cup {<<"missing type", item.first>>}]

\* The block of the indexes or of the rows, whichever was announced.
TableBlockItem(s, block) ==
  CASE "indexes" \in s.await ->
         LET found == FlattenSeq([i \in DOMAIN Items(block) |-> IndexOf(Items(block)[i])])
             wrong == {k \in ToSet(found) : k.pk /\ \E c \in ToSet(k.cols) : c.kind = "expression"}
         IN  [s EXCEPT !.await = @ \ {"indexes"}, !.table.indexes = @ \o found,
                       !.errors = @ \cup {<<"key of an expression", k.name>> : k \in wrong}]
    [] "indexes" \notin s.await /\ "records" \in s.await ->
         [s EXCEPT !.await = {}, !.table.records = RecordsOf(s.rowcols, block)]
    [] OTHER -> s

\* An item that is no block ends the wait for one; the note, the rows and the
\* indexes of a table are announced by a word.
TableItem(s, item) ==
  LET idle == [s EXCEPT !.await = {}]
      word == Lower(Name(item))
  IN  CASE item.kind = "block" -> TableBlockItem(s, item)
        [] item.kind = "primary" /\ Name(item) = "indexes" -> [s EXCEPT !.await = @ \cup {"indexes"}]
        [] item.kind = "apply" /\ word = "note" -> [idle EXCEPT !.table.note = KeyValue(Tail(item.parts))]
        [] item.kind = "apply" /\ word = "records" ->
             [idle EXCEPT !.await = {"records"}, !.rowcols = RecordColumns(Tail(item.parts))]
        [] item.kind \in {"tuple", "infix", "list"} -> idle
        [] OTHER -> Field(idle, item)

\* The columns of a [pk] index are the primary key, wherever it is written.
WithKey(table) ==
  LET key == UNION {ToSet(k.cols) : k \in {x \in ToSet(table.indexes) : x.pk}}
  IN  [table EXCEPT !.cols =
         [i \in DOMAIN @ |-> [@[i] EXCEPT !.pk = @ \/ [value |-> table.cols[i].name, kind |-> "column"] \in key]]]

\* interpretTable.
TableOf(decl) == FoldLeft(TableItem, NewTable(decl), BlockItemsOf(decl))

-----------------------------------------------------------------------------
(* Schemas. *)

NoProject == [name |-> "", type |-> "", note |-> ""]

NoSchema == [tables |-> << >>, refs |-> << >>, enums |-> << >>, groups |-> << >>, project |-> NoProject, errors |-> {}]

\* The names of the items of a block.
NamesOf(decl) ==
  SelectSeq([i \in DOMAIN BlockItemsOf(decl) |-> Name(BlockItemsOf(decl)[i])], LAMBDA n : n # "")

\* interpretEnum.
EnumOf(decl) ==
  [schema |-> SplitName(NameOf(decl)).schema, name |-> SplitName(NameOf(decl)).name, values |-> NamesOf(decl)]

\* interpretTableGroup.
GroupOf(decl) == [name |-> Name(NameOf(decl)), tables |-> NamesOf(decl)]

ProjectItem(project, item) ==
  LET key == Lower(Name(item))
  IN  CASE item.kind = "apply" /\ key = "database_type" -> [project EXCEPT !.type = KeyValue(Tail(item.parts))]
        [] item.kind = "apply" /\ key = "note" -> [project EXCEPT !.note = KeyValue(Tail(item.parts))]
        [] OTHER -> project

\* interpretProject.
ProjectOf(decl) == FoldLeft(ProjectItem, [NoProject EXCEPT !.name = Name(NameOf(decl))], BlockItemsOf(decl))

Declared(db, decl) ==
  LET keyword == TokenOf(decl).kind
      table == TableOf(decl)
  IN  CASE keyword = "Table" -> [db EXCEPT !.tables = Append(@, WithKey(table.table)), !.refs = @ \o table.refs,
                                           !.errors = @ \cup table.errors]
        [] keyword = "Ref" -> [db EXCEPT !.refs = @ \o RefsOf(decl)]
        [] keyword = "Enum" -> [db EXCEPT !.enums = Append(@, EnumOf(decl))]
        [] keyword = "TableGroup" -> [db EXCEPT !.groups = Append(@, GroupOf(decl))]
        [] keyword = "Project" -> [db EXCEPT !.project = ProjectOf(decl)]
        [] keyword = "Note" -> db
        [] OTHER -> [db EXCEPT !.errors = @ \cup {<<"unknown declaration", decl.first>>}]

Interpret(tree) == FoldLeft(Declared, NoSchema, tree.parts)
=============================================================================
