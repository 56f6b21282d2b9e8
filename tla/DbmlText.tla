------------------------------ MODULE DbmlText ------------------------------
(***************************************************************************)
(* A schema written as DBML (introspect/dbml.go), as the tokens that the   *)
(* lexer makes of it.                                                      *)
(*                                                                         *)
(* A token is [kind, newline, value], with the kinds of module Parser.     *)
(* Names, values and comments have no quote and no backslash in them: what *)
(* is quoted is one token.  The schema is one of module Introspect.        *)
(***************************************************************************)
EXTENDS Naturals, FiniteSets, Sequences, SequencesExt

CONSTANTS
  Numerals,     \* the words that are numbers
  Expressions,  \* the keys and values that are expressions
  Spaced        \* the values that have spaces in them, as a function to their words

Keywords == {"Table", "Ref", "Project", "Enum", "TableGroup", "Note", "as"}
Signs == {"{", "}", "[", "]", "(", ")", ":", ",", ".", ">", "<", "-", "<>"}

Tok(kind, value) == [kind |-> kind, newline |-> FALSE, value |-> value]

\* A word that is written as it is.
Word(w) ==
  Tok(IF w \in Keywords \cup Signs THEN w ELSE IF w \in Numerals THEN "number" ELSE "id", w)

WordsOf(ws) == [i \in DOMAIN ws |-> Word(ws[i])]

Quoted(name) == Tok("quoted", name)

String(value) == Tok("string", value)

If(c, tokens) == IF c THEN <<tokens>> ELSE << >>

\* Items with commas between them.
Commas(items) ==
  FlattenSeq([i \in DOMAIN items |-> IF i = 1 THEN items[i] ELSE <<Word(",")>> \o items[i]])

Settings(items) == IF items = << >> THEN << >> ELSE <<Word("[")>> \o Commas(items) \o <<Word("]")>>

QuotedList(names) == <<Word("(")>> \o Commas([i \in DOMAIN names |-> <<Quoted(names[i])>>]) \o <<Word(")")>>

Line(tokens) == [tokens EXCEPT ![1].newline = TRUE]

Block(head, lines) == Line(head \o <<Word("{")>>) \o FlattenSeq(lines) \o Line(<<Word("}")>>)

\* tableIdent.
Ident(schema, name) ==
  IF schema \in {"", "public"} THEN <<Quoted(name)>> ELSE <<Quoted(schema), Word("."), Quoted(name)>>

-----------------------------------------------------------------------------
(* Tables. *)

\* The DBML name of a type, and its SQL names.
Synonyms ==
  [int |-> {<<"int">>, <<"integer">>, <<"mediumint">>, <<"tinyint">>}, bigint |-> {<<"bigint">>},
   smallint |-> {<<"smallint">>}, float |-> {<<"float">>, <<"real">>},
   double |-> {<<"double">>, <<"double", "precision">>}, decimal |-> {<<"decimal">>, <<"numeric">>},
   varchar |-> {<<"varchar">>, <<"character", "varying">>}, char |-> {<<"char">>, <<"character">>},
   text |-> {<<"text">>, <<"tinytext">>, <<"mediumtext">>, <<"longtext">>},
   date |-> {<<"date">>}, time |-> {<<"time">>}, datetime |-> {<<"datetime">>},
   timestamp |-> {<<"timestamp">>, <<"timestamp", "without", "time", "zone">>, <<"timestamp", "with", "time", "zone">>},
   bool |-> {<<"bool">>, <<"boolean">>},
   binary |-> {<<"blob">>, <<"tinyblob">>, <<"mediumblob">>, <<"longblob">>, <<"binary">>, <<"bytea">>},
   varbinary |-> {<<"varbinary">>}, uuid |-> {<<"uuid">>}, json |-> {<<"json">>}, jsonb |-> {<<"jsonb">>},
   serial |-> {<<"serial">>}, bigserial |-> {<<"bigserial">>}]

\* The types that keep their arguments.
KeepsArgs == {"decimal", "varchar", "char", "varbinary"}

\* The words of a type up to its arguments.
BaseWords(type) ==
  LET open == SelectInSeq(type, LAMBDA w : w = "(")
  IN  IF open = 0 THEN type ELSE SubSeq(type, 1, open - 1)

\* toDBMLType.
DbmlType(type) ==
  LET base == BaseWords(type)
      args == SubSeq(type, Len(base) + 1, Len(type))
      names == {n \in DOMAIN Synonyms : base \in Synonyms[n]}
      name == CHOOSE n \in names : TRUE
  IN  IF names = {} THEN type
      ELSE IF type = <<"tinyint", "(", "1", ")">> THEN <<"bool">>
      ELSE <<name>> \o (IF name \in KeepsArgs THEN args ELSE << >>)

\* normalizedDBMLType: a column that counts is a serial one.
SerialType(col) == IF DbmlType(col.type) = <<"bigint">> THEN <<"bigserial">> ELSE <<"serial">>

\* A default is << >> or <<kind, value>>.
DefaultValue(default) ==
  CASE default[1] = "string"     -> String(default[2])
    [] default[1] = "expression" -> Tok("expr", default[2])
    [] OTHER                     -> Word(default[2])

\* columnAttrs.
ColumnAttrs(col, serial) ==
  If(col.pk, WordsOf(<<"pk">>))
    \o If(col.inc /\ ~serial, WordsOf(<<"increment">>))
    \o If(col.unique, WordsOf(<<"unique">>))
    \o If(col.notnull /\ ~serial, WordsOf(<<"not", "null">>))
    \o If(col.default # << >>, WordsOf(<<"default", ":">>) \o <<DefaultValue(col.default)>>)
    \o If(col.comment # "", WordsOf(<<"note", ":">>) \o <<Quoted(col.comment)>>)

\* A type as it is: that of an enum of MariaDB has its values as strings.
TypeTokens(type) ==
  IF type[1] # "ENUM" THEN WordsOf(type)
  ELSE <<Word("enum"), Word("(")>> \o Commas([i \in 1 .. Len(type) - 1 |-> <<String(type[i + 1])>>]) \o <<Word(")")>>

ColumnLine(col, normalize) ==
  LET serial == normalize /\ col.inc
      type == IF serial THEN SerialType(col) ELSE IF normalize THEN DbmlType(col.type) ELSE col.type
  IN  Line(<<Quoted(col.name)>> \o TypeTokens(type) \o Settings(ColumnAttrs(col, serial)))

Naming(name) == If(name # "", WordsOf(<<"name", ":">>) \o <<Quoted(name)>>)

\* A faulty form of WrittenAsIndex: a constraint of one column is left out.
WrittenIfLonger(name, c) == Len(c.cols) > 1

\* A constraint of one column is left to the column, unless it is a primary
\* key with a name of its own.
WrittenAsIndex(name, c) ==
  \/ Len(c.cols) > 1
  \/ c.pk /\ Len(c.cols) = 1 /\ c.name \notin {"", "PRIMARY", name \o "_pkey"}

ConstraintLine(c) ==
  Line(QuotedList(c.cols) \o Settings(<<WordsOf(<<IF c.pk THEN "pk" ELSE "unique">>)>> \o Naming(c.name)))

KeyToken(key) == IF key \in Expressions THEN Tok("expr", key) ELSE Quoted(key)

IndexLine(x) ==
  Line(<<Word("(")>> \o Commas([i \in DOMAIN x.keys |-> <<KeyToken(x.keys[i])>>]) \o <<Word(")")>>
         \o Settings(If(x.unique, WordsOf(<<"unique">>)) \o Naming(x.name)))

IndexLines(name, tbl) ==
  [i \in 1 .. Cardinality({c \in tbl.constraints : WrittenAsIndex(name, c)}) |->
     ConstraintLine(SetToSeq({c \in tbl.constraints : WrittenAsIndex(name, c)})[i])]
    \o [i \in 1 .. Cardinality(tbl.indexes) |-> IndexLine(SetToSeq(tbl.indexes)[i])]

\* writeRecords.
ValueToken(value) ==
  IF value = "null" THEN Word(value) ELSE IF value \in Expressions THEN Tok("expr", value) ELSE String(value)

RowLine(row, cols) ==
  Line(Commas([i \in DOMAIN cols |-> <<ValueToken(row[cols[i].name])>>]))

RecordsBlock(tbl) ==
  Block(<<Word("records")>> \o QuotedList([i \in DOMAIN tbl.cols |-> tbl.cols[i].name]),
        [i \in 1 .. Cardinality(tbl.records) |-> RowLine(SetToSeq(tbl.records)[i], tbl.cols)])

TableBlock(schema, name, tbl, normalize) ==
  Block(<<Word("Table")>> \o Ident(schema, name),
        [i \in DOMAIN tbl.cols |-> ColumnLine(tbl.cols[i], normalize)]
          \o If(IndexLines(name, tbl) # << >>, Block(<<Word("indexes")>>, IndexLines(name, tbl)))
          \o If(tbl.records # {}, RecordsBlock(tbl))
          \o If(tbl.comment # "", Line(<<Word("Note"), Word(":"), Quoted(tbl.comment)>>)))

-----------------------------------------------------------------------------
(* The document. *)

\* writeEnum: values are written as they are.
EnumBlock(schema, e) ==
  Block(<<Word("Enum")>> \o Ident(schema, e.name), [i \in DOMAIN e.values |->
           Line(WordsOf(IF e.values[i] \in DOMAIN Spaced THEN Spaced[e.values[i]] ELSE <<e.values[i]>>))])

Columns(cols) == IF Len(cols) = 1 THEN <<Quoted(cols[1])>> ELSE QuotedList(cols)

\* A foreign key that names no column of the parent refers to "".
ParentColumns(f) ==
  IF Len(f.cols) > 1 THEN QuotedList(f.pcols) ELSE <<Quoted(IF f.pcols = << >> THEN "" ELSE f.pcols[1])>>

\* normaliseAction: NO ACTION is << >>, RESTRICT is taken for it.
ActionWords(word, action) ==
  If(action \notin {<< >>, <<"restrict">>}, WordsOf(<<word, ":">> \o action))

RefLine(schema, f) ==
  Line(<<Word("Ref"), Word(":")>>
         \o Ident(schema, f.child) \o <<Word(".")>> \o Columns(f.cols)
         \o <<Word(">")>> \o Ident(schema, f.parent) \o <<Word(".")>> \o ParentColumns(f)
         \o Settings(ActionWords("delete", f.ondelete) \o ActionWords("update", f.onupdate)))

ProjectBlock(type) ==
  Block(<<Word("Project")>>, <<Line(<<Word("database_type"), Word(":"), String(type)>>)>>)

\* GenerateDBML.
GenerateDBML(read, schema, type, normalize) ==
  LET names == SetToSeq(DOMAIN read.tables)
      enumSeq == SetToSeq(read.enums)
      refs == SetToSeq(read.fks)
  IN  ProjectBlock(type)
        \o FlattenSeq([i \in DOMAIN names |-> TableBlock(schema, names[i], read.tables[names[i]], normalize)])
        \o FlattenSeq([i \in DOMAIN enumSeq |-> EnumBlock(schema, enumSeq[i])])
        \o FlattenSeq([i \in DOMAIN refs |-> RefLine(schema, refs[i])])
=============================================================================
