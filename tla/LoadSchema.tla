----------------------------- MODULE LoadSchema -----------------------------
(***************************************************************************)
(* Loading a schema (main.go: loadSchema; introspect.go: Run).             *)
(*                                                                         *)
(* A schema comes from a DBML file or from a live database.  A database is *)
(* read as module Introspect has it and written as DBML (todbml prints     *)
(* that); migrate hands the text, like that of a file, to the lexer, the   *)
(* parser and the interpreter, and goes on with what they make of it,      *)
(* whatever errors they report.                                            *)
(*                                                                         *)
(* A text is the tokens of it.  A file may break off after any line.       *)
(***************************************************************************)
EXTENDS Introspect, DbmlText, Interpreter

CONSTANT
  Spellings    \* sets of texts that declare the same schema

VARIABLES
  source,   \* {} for a database, or the texts that declare what is in the file
  stage,    \* "read", "parse" or "loaded"
  text,     \* the text to parse
  db        \* the schema that was loaded

loader == <<source, stage, text, db>>
loadVars == <<engine, opts, step, read, pending, tables, enums, touched, seen, statements,
              source, stage, text, db>>

LoadInit ==
  /\ Init
  /\ source \in {{}} \cup Spellings
  /\ stage = "read"
  /\ text = << >>
  /\ db = NoSchema

\* A reader of a database: the steps of module Introspect.
FromDatabase == source = {} /\ Next /\ UNCHANGED loader

DatabaseType ==
  [postgres |-> "PostgreSQL", mariadb |-> "MariaDB", sqlite |-> "SQLite"]

SchemaName == IF engine = "postgres" THEN opts.schema ELSE ""

Written(normalize) ==
  GenerateDBML(read, SchemaName, DatabaseType[engine] \o (IF normalize THEN " normalized" ELSE ""), normalize)

\* Run: a schema that was read is written.
Write ==
  /\ stage = "read"
  /\ source = {} /\ step = "done"
  /\ stage' = "parse"
  /\ text' = Written(opts.normalize)
  /\ UNCHANGED <<reader, database, source, db>>

\* A file is read up to the end, or to the end of a line where it breaks off.
ReadFile ==
  /\ stage = "read"
  /\ source # {}
  /\ stage' = "parse"
  /\ \E whole \in source :
       \E k \in {i \in 0 .. Len(whole) : i < Len(whole) => whole[i + 1].newline} :
         text' = SubSeq(whole, 1, k)
  /\ UNCHANGED <<reader, database, source, db>>

\* parseAndInterpret.
Load ==
  /\ stage = "parse"
  /\ stage' = "loaded"
  /\ db' = Interpret(Parse(text))
  /\ UNCHANGED <<reader, database, source, text>>

LoadNext == FromDatabase \/ Write \/ ReadFile \/ Load

LoadSpec == LoadInit /\ [][LoadNext]_loadVars

-----------------------------------------------------------------------------
(* What a loaded schema says, in the words of the catalogue. *)

FlatType(type) ==
  (IF type.schema = "" THEN << >> ELSE <<type.schema, ".">>)
    \o type.name
    \o (IF type.args = << >> THEN << >>
        ELSE <<"(">> \o FlattenSeq([i \in DOMAIN type.args[1] |->
                                      IF i = 1 THEN <<type.args[1][i]>> ELSE <<",", type.args[1][i]>>]) \o <<")">>)
    \o type.suffix

LoadedColumn(c) ==
  [name |-> c.name, type |-> FlatType(c.type), notnull |-> c.notnull, inc |-> c.inc, pk |-> c.pk,
   unique |-> c.unique, default |-> c.default, comment |-> c.note]

LoadedIndex(x) ==
  [name |-> x.name, keys |-> [i \in DOMAIN x.cols |-> x.cols[i].value], unique |-> x.unique]

LoadedRows(t) ==
  UNION {{[c \in ToSet(rec.cols) |-> rec.rows[i][CHOOSE j \in DOMAIN rec.cols : rec.cols[j] = c]] :
            i \in DOMAIN rec.rows} : rec \in ToSet(t.records)}

KeyName(t, implied) ==
  LET keys == {x.name : x \in {y \in ToSet(t.indexes) : y.pk /\ y.name # ""}}
  IN  IF keys = {} THEN implied ELSE CHOOSE name \in keys : TRUE

LoadedTable(t) ==
  [cols |-> [i \in DOMAIN t.cols |-> LoadedColumn(t.cols[i])],
   indexes |-> {LoadedIndex(x) : x \in {y \in ToSet(t.indexes) : ~y.pk}},
   key |-> IF engine = "postgres" THEN KeyName(t, t.name \o "_pkey") ELSE "",
   rows |-> LoadedRows(t),
   comment |-> t.note]

\* What the catalogue has of a table.
IsPrimary(form, c) == \E key \in PrimaryKeys(form) : c \in ToSet(key)

\* A unique key that belongs to its column.
ColumnsOwn(k) == k.kind = "unique" /\ Len(k.cols) = 1 /\ (engine = "mariadb" => k.name = k.cols[1])

CatalogueColumn(n, form, c) ==
  [name |-> c.name,
   type |-> IF IsInlineEnum(c) THEN <<EnumName(n, c.name)>> ELSE ReportedType(c.type),
   notnull |-> c.notnull,
   inc |-> IF engine = "sqlite" THEN c.type = <<"integer">> /\ <<c.name>> \in PrimaryKeys(form) ELSE c.inc,
   pk |-> IsPrimary(form, c.name),
   unique |-> \E k \in form.keys : ColumnsOwn(k) /\ k.cols = <<c.name>>,
   default |-> c.default, comment |-> c.comment]

CatalogueTable(n, form) ==
  [cols |-> [i \in DOMAIN form.cols |-> CatalogueColumn(n, form, form.cols[i])],
   indexes |-> {[name |-> k.name, keys |-> k.cols, unique |-> k.kind # "index"] :
                  k \in {x \in form.keys : x.kind # "primary" /\ ~ColumnsOwn(x)}},
   key |-> LET keys == {k.name : k \in {x \in form.keys : x.kind = "primary"}}
           IN  IF engine = "postgres" /\ keys # {} THEN CHOOSE name \in keys : TRUE
               ELSE IF engine = "postgres" THEN n \o "_pkey" ELSE "",
   rows |-> IF opts.data THEN form.rows ELSE {},
   comment |-> form.comment]

\* The schema that names are declared with.
Prefix == IF SchemaName \in {"", "public"} THEN "" ELSE SchemaName

LoadedFk(ref) ==
  [schemas |-> {ref.ends[1].schema, ref.ends[2].schema},
   child |-> ref.ends[1].table, cols |-> ref.ends[1].cols,
   parent |-> ref.ends[2].table, pcols |-> ref.ends[2].cols,
   rels |-> <<ref.ends[1].rel, ref.ends[2].rel>>,
   ondelete |-> ref.ondelete, onupdate |-> ref.onupdate]

\* RESTRICT is taken for the default.
Action(words) == IF words = <<"restrict">> THEN "" ELSE Joined(words)

CatalogueFk(n, f) ==
  [schemas |-> {Prefix}, child |-> n, cols |-> f.cols, parent |-> f.parent, pcols |-> f.pcols, rels |-> <<"*", "1">>,
   ondelete |-> Action(f.ondelete), onupdate |-> Action(f.onupdate)]

-----------------------------------------------------------------------------
(* Properties. *)

Native == stage = "loaded" /\ source = {} /\ ~opts.normalize

\* The text that the writer makes of a database is DBML without an error.
WritesDbml == stage # "read" /\ source = {} => Parse(text).errors = {} /\ db.errors = {}

\* What migrate loads of a database is what the catalogue has: writing,
\* tokens, tree and interpretation take nothing away from a table that no
\* other client touches and add nothing to it, nor to its own rows.
TablesReadBack ==
  Native /\ OwnRows =>
    \A n \in DOMAIN tables \ touched : Included(n) =>
      \E i \in DOMAIN db.tables :
        /\ db.tables[i].name = n /\ db.tables[i].schema = Prefix
        /\ LoadedTable(db.tables[i]) = CatalogueTable(n, tables[n])
        /\ \A j \in DOMAIN db.tables : db.tables[j].name = n => i = j

\* So are its foreign keys, and its enums with their values in order.
RefsReadBack ==
  Native =>
    \A n \in DOMAIN tables \ touched : \A f \in tables[n].fks :
      f.parent \notin touched /\ Included(n) /\ Included(f.parent) =>
        CatalogueFk(n, f) \in {LoadedFk(ref) : ref \in ToSet(db.refs)}

ValuesOfEnum(type) ==
  {e.values : e \in {x \in ToSet(db.enums) :
                       FlatType([NoType EXCEPT !.schema = x.schema, !.name = <<x.name>>]) = type}}

EnumsReadBack ==
  Native =>
    \A n \in DOMAIN tables \ touched : Included(n) =>
      \A c \in ToSet(tables[n].cols) :
        LET declared == IF c.type[1] \in DOMAIN enums THEN enums[c.type[1]] ELSE Tail(c.type)
        IN  (IsInlineEnum(c) \/ c.type[1] \in DOMAIN enums \ touched) =>
              ValuesOfEnum(CatalogueColumn(n, tables[n], c).type) = {declared}

\* What migrate compares is what the database has.
ReadsBack == WritesDbml /\ TablesReadBack /\ RefsReadBack /\ EnumsReadBack

\* What a schema says, however it is written: a ref has no direction but that
\* of its relations.
Meaning(schema) ==
  [tables |-> {<<t.schema, t.name, t.alias, LoadedTable(t)>> : t \in ToSet(schema.tables)},
   refs |-> {<<ToSet(ref.ends), ref.ondelete, ref.onupdate>> : ref \in ToSet(schema.refs)},
   enums |-> schema.enums, groups |-> schema.groups, project |-> schema.project]

FromFile == stage = "loaded" /\ source # {}

\* Refs inside a table and beside it, in a line or in a block, from either
\* side; keys marked on columns or in a block of indexes before or after them;
\* settings on one line or on several: the same schema is loaded.
SameMeaning ==
  FromFile /\ text \in source =>
    \A other \in source : Meaning(db) = Meaning(Interpret(Parse(other)))

\* All but the last of some is the same as in others that may go on.
AllButLast(some, others) ==
  Len(some) <= Len(others) /\ \A i \in 1 .. Len(some) - 1 : some[i] = others[i]

BeginsLike(t, whole) ==
  /\ t.name = whole.name /\ t.schema = whole.schema
  /\ AllButLast([i \in DOMAIN t.cols |-> [t.cols[i] EXCEPT !.pk = FALSE]],
                [i \in DOMAIN whole.cols |-> [whole.cols[i] EXCEPT !.pk = FALSE]])
  /\ \A i \in DOMAIN t.cols : t.cols[i].pk => whole.cols[i].pk

\* What is loaded of a file that breaks off after a line, errors or not, is what
\* the whole file declares up to there; and if there are no errors it is not
\* a part of a declaration.
PartLoaded ==
  FromFile =>
    \E original \in source : \E whole \in {Interpret(Parse(original))} :
      /\ IsPrefix(text, original)
      /\ AllButLast(db.tables, whole.tables) /\ AllButLast(db.enums, whole.enums)
      /\ db.tables # << >> => BeginsLike(Last(db.tables), whole.tables[Len(db.tables)])
      /\ IsPrefix(db.refs, whole.refs)
      /\ Parse(text).errors = {} =>
           IsPrefix(db.tables, whole.tables) /\ IsPrefix(db.enums, whole.enums)
=============================================================================
