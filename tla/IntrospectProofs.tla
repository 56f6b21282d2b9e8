-------------------------- MODULE IntrospectProofs ---------------------------
(***************************************************************************)
(* What the reader of a catalogue reports of the tables that nobody else   *)
(* touches, for every database, command line and number of statements of   *)
(* other clients.                                                          *)
(*                                                                         *)
(* The invariant says, at every step, what there is of such a table so     *)
(* far: Partial.  It rests on the database being referentially intact and  *)
(* on every query having a row for a table that is there.                  *)
(*                                                                         *)
(* And of the tables that others do touch: whatever is reported of one was *)
(* in some form that it had (FoundInv).                                    *)
(***************************************************************************)
EXTENDS Introspect, TLAPS

-----------------------------------------------------------------------------
(* The invariant. *)

IsRecord(r, fields) == DOMAIN r = fields /\ r = [x \in fields |-> r[x]]

IsSchema(s) == IsRecord(s, {"tables", "enums", "fks"})

\* The steps of an engine.
StepsOf ==
  [postgres |-> {"columns", "keys", "checks", "enums", "fks", "filter", "data", "done", "failed"},
   mariadb  |-> {"columns", "enums", "constraints", "indexes", "checks", "fks", "filter", "data", "done", "failed"},
   sqlite   |-> {"columns", "indexes", "fks", "filter", "data", "done", "failed"}]

\* Nobody touches anything before the first query, and rows are read on demand.
TypeInv ==
  /\ TypeOK
  /\ step \in StepsOf[engine]
  /\ IsSchema(read)
  /\ step = "columns" => touched = {}
  /\ step = "data" => opts.data

\* Foreign keys refer to tables that are there.
RefsSound == \A n \in DOMAIN tables : \A f \in tables[n].fks : f.parent \in DOMAIN tables

Filtering == step \notin {"columns", "data", "done", "failed"}
AfterFilter == step \in {"data", "done"}

\* What the queries so far report of a table.
PartialPostgres(form) == IF step = "keys" THEN Plain(form) ELSE PostgresKeys(Plain(form), form)

PartialMariadb(n, form) ==
  IF step = "enums" THEN Plain(form)
  ELSE IF step = "constraints" THEN WithEnums(n, Plain(form), form)
  ELSE IF step = "indexes" THEN MariadbConstraints(WithEnums(n, Plain(form), form), form)
  ELSE AtOnce(n, form)

PartialSqlite(form) == IF step = "indexes" THEN Sqlite(form) ELSE SqliteIndexes(Sqlite(form), form)

Partial(n, form) ==
  IF engine = "postgres" THEN PartialPostgres(form)
  ELSE IF engine = "mariadb" THEN PartialMariadb(n, form) ELSE PartialSqlite(form)

\* Before the filter all tables are there.
TablesSoFar ==
  Filtering =>
    \A n \in (DOMAIN tables \cup DOMAIN read.tables) \ touched :
      /\ n \in DOMAIN read.tables
      /\ n \in DOMAIN tables
      /\ read.tables[n] = Partial(n, tables[n])

\* After it, the ones that the filter takes, with the rows that were read.
TablesFiltered ==
  AfterFilter =>
    \A n \in (DOMAIN tables \cup DOMAIN read.tables) \ touched :
      /\ n \in DOMAIN read.tables <=> Listed(n) /\ Included(n)
      /\ n \in DOMAIN read.tables =>
           /\ [read.tables[n] EXCEPT !.records = {}] = AtOnce(n, tables[n])
           /\ OwnRows =>
                read.tables[n].records = IF opts.data /\ n \notin pending THEN Rows(tables[n]) ELSE {}

RefsSoFar ==
  step = "filter" =>
    \A n \in DOMAIN tables \ touched : \A f \in tables[n].fks :
      f.parent \notin touched => ForeignKeyOf(n, f) \in read.fks

RefsFiltered ==
  AfterFilter =>
    \A n \in DOMAIN tables \ touched : \A f \in tables[n].fks :
      f.parent \notin touched => (ForeignKeyOf(n, f) \in read.fks <=> Included(n) /\ Included(f.parent))

IInv == TypeInv /\ RefsSound /\ TablesSoFar /\ TablesFiltered /\ RefsSoFar /\ RefsFiltered

-----------------------------------------------------------------------------
(* Tables of a schema. *)

IsColumn(c) ==
  IsRecord(c, {"name", "type", "notnull", "default", "comment", "inc", "pk", "unique"})

IsTable(t) == IsRecord(t, {"cols", "constraints", "indexes", "records", "comment"})

\* A table of a schema with the columns of a form, and no rows yet.
Unread(t, form) ==
  /\ IsTable(t)
  /\ t.records = {}
  /\ DOMAIN t.cols = DOMAIN form.cols
  /\ \A i \in DOMAIN form.cols : IsColumn(t.cols[i]) /\ t.cols[i].name = form.cols[i].name

\* The first query reports a table's columns.
LEMMA PlainUnread == \A form : Unread(Plain(form), form)
<1> TAKE form
<1>1. \A c : IsColumn(Bare(c)) /\ Bare(c).name = c.name
  BY DEF IsColumn, IsRecord, Bare
<1>2. Plain(form).cols = [i \in DOMAIN form.cols |-> Bare(form.cols[i])]
  BY DEF Plain
<1>3. IsTable(Plain(form)) /\ Plain(form).records = {}
  BY DEF Plain, IsTable, IsRecord
<1> QED BY <1>1, <1>2, <1>3 DEF Unread

\* Replacing columns by columns of the same names keeps a table unread.
LEMMA ColumnsKeep ==
  ASSUME NEW t, NEW form, Unread(t, form), NEW cols,
         DOMAIN cols = DOMAIN form.cols,
         \A i \in DOMAIN form.cols : IsColumn(cols[i]) /\ cols[i].name = t.cols[i].name
  PROVE  Unread([t EXCEPT !.cols = cols], form)
  BY DEF Unread, IsTable, IsRecord

\* Keys and indexes are no columns.
LEMMA KeysKeep ==
  ASSUME NEW t, NEW form, Unread(t, form), NEW u,
         \/ \E k, x : u = [[t EXCEPT !.constraints = k] EXCEPT !.indexes = x]
         \/ \E k : u = [t EXCEPT !.constraints = k]
         \/ \E x : u = [t EXCEPT !.indexes = x]
  PROVE  Unread(u, form)
  BY DEF Unread, IsTable, IsRecord

\* A mark on a column leaves its name.
LEMMA MarkKeeps ==
  ASSUME NEW c, IsColumn(c), NEW d,
         \/ d = c
         \/ \E x, y : d = [[c EXCEPT !.pk = x] EXCEPT !.unique = y]
         \/ \E x, y : d = [[c EXCEPT !.pk = x] EXCEPT !.inc = y]
         \/ \E y : d = [c EXCEPT !.unique = y]
         \/ \E y : d = [c EXCEPT !.type = y]
  PROVE  IsColumn(d) /\ d.name = c.name
  BY DEF IsColumn, IsRecord

\* Keys are marked on the columns, under the same names.
LEMMA WithKeysUnread ==
  ASSUME NEW t, NEW form, Unread(t, form), NEW constraints, NEW indexes
  PROVE  Unread(WithKeys(t, constraints, indexes), form)
<1> DEFINE cols == Marked(t.cols, constraints)
<1>1. DOMAIN cols = DOMAIN form.cols
  BY DEF Marked, Unread
<1>2. ASSUME NEW i \in DOMAIN form.cols PROVE IsColumn(cols[i]) /\ cols[i].name = t.cols[i].name
  <2>1. IsColumn(t.cols[i]) /\ i \in DOMAIN t.cols
    BY DEF Unread
  <2>2. \E x, y : cols[i] = [[t.cols[i] EXCEPT !.pk = x] EXCEPT !.unique = y]
    BY <2>1 DEF Marked
  <2> QED BY <2>1, <2>2, MarkKeeps
<1>3. Unread([t EXCEPT !.cols = cols], form)
  BY <1>1, <1>2, ColumnsKeep
<1>4. \E k, x : WithKeys(t, constraints, indexes) =
                  [[[t EXCEPT !.cols = cols] EXCEPT !.constraints = k] EXCEPT !.indexes = x]
  BY DEF WithKeys
<1> HIDE DEF cols
<1> QED BY <1>3, <1>4, KeysKeep

\* The keys of PostgreSQL are constraints or indexes.
LEMMA PostgresUnread ==
  ASSUME NEW t, NEW form, Unread(t, form) PROVE Unread(PostgresKeys(t, form), form)
  BY WithKeysUnread DEF PostgresKeys

\* So are those of MariaDB, read in two queries, and its enums are types.
LEMMA MariadbUnread ==
  ASSUME NEW t, NEW form, NEW n, Unread(t, form)
  PROVE  /\ Unread(WithEnums(n, t, form), form)
         /\ Unread(MariadbConstraints(t, form), form)
         /\ Unread(MariadbIndexes(t, form), form)
<1>1. Unread(WithEnums(n, t, form), form)
  <2> DEFINE inline == {c.name : c \in {x \in ToSet(form.cols) : IsInlineEnum(x)}}
  <2> DEFINE cols == [i \in DOMAIN t.cols |->
                        IF t.cols[i].name \in inline
                        THEN [t.cols[i] EXCEPT !.type = <<EnumName(n, t.cols[i].name)>>] ELSE t.cols[i]]
  <2>1. WithEnums(n, t, form) = [t EXCEPT !.cols = cols]
    BY DEF WithEnums
  <2> HIDE DEF inline
  <2>2. DOMAIN cols = DOMAIN form.cols
    BY DEF Unread
  <2>3. ASSUME NEW i \in DOMAIN form.cols PROVE IsColumn(cols[i]) /\ cols[i].name = t.cols[i].name
    <3>1. IsColumn(t.cols[i]) /\ i \in DOMAIN t.cols
      BY DEF Unread
    <3>2. cols[i] = t.cols[i] \/ \E y : cols[i] = [t.cols[i] EXCEPT !.type = y]
      BY <3>1
    <3> QED BY <3>1, <3>2, MarkKeeps
  <2> HIDE DEF cols
  <2> QED BY <2>1, <2>2, <2>3, ColumnsKeep
<1>2. Unread(MariadbConstraints(t, form), form)
  BY WithKeysUnread DEF MariadbConstraints
<1>3. Unread(MariadbIndexes(t, form), form)
  BY WithKeysUnread DEF MariadbIndexes
<1> QED BY <1>1, <1>2, <1>3

\* SQLite has the key with the columns.
LEMMA SqliteUnread == \A form : Unread(Sqlite(form), form)
<1> TAKE form
<1> DEFINE alone(i) == <<form.cols[i].name>> \in PrimaryKeys(form)
<1> DEFINE cols == [i \in DOMAIN form.cols |->
                      [Bare(form.cols[i]) EXCEPT
                         !.pk = alone(i), !.inc = alone(i) /\ form.cols[i].type = <<"integer">>]]
<1>1. \E k : Sqlite(form) = [[Plain(form) EXCEPT !.cols = cols] EXCEPT !.constraints = k]
  BY DEF Sqlite
<1>2. ASSUME NEW i \in DOMAIN form.cols PROVE IsColumn(cols[i]) /\ cols[i].name = form.cols[i].name
  <2>1. IsColumn(Bare(form.cols[i])) /\ Bare(form.cols[i]).name = form.cols[i].name
    BY DEF IsColumn, IsRecord, Bare
  <2>2. \E x, y : cols[i] = [[Bare(form.cols[i]) EXCEPT !.pk = x] EXCEPT !.inc = y]
    OBVIOUS
  <2> QED BY <2>1, <2>2, MarkKeeps
<1>3. DOMAIN cols = DOMAIN form.cols
  OBVIOUS
<1> HIDE DEF cols
<1>4. \A i \in DOMAIN form.cols : cols[i].name = Plain(form).cols[i].name
  BY <1>2, PlainUnread DEF Unread
<1>5. Unread([Plain(form) EXCEPT !.cols = cols], form)
  BY <1>2, <1>3, <1>4, ColumnsKeep, PlainUnread
<1> QED BY <1>1, <1>5, KeysKeep

\* UNIQUE is marked on the columns.
LEMMA SqliteIndexesUnread ==
  ASSUME NEW t, NEW form, Unread(t, form) PROVE Unread(SqliteIndexes(t, form), form)
<1> DEFINE unique == {k \in form.keys : k.kind = "unique"}
<1> DEFINE cols == [i \in DOMAIN t.cols |->
                      [t.cols[i] EXCEPT !.unique = \E k \in unique : t.cols[i].name \in ToSet(k.cols)]]
<1>1. \E x : SqliteIndexes(t, form) = [[t EXCEPT !.cols = cols] EXCEPT !.indexes = x]
  BY DEF SqliteIndexes
<1>2. ASSUME NEW i \in DOMAIN form.cols PROVE IsColumn(cols[i]) /\ cols[i].name = t.cols[i].name
  <2>1. IsColumn(t.cols[i]) /\ i \in DOMAIN t.cols
    BY DEF Unread
  <2>2. \E y : cols[i] = [t.cols[i] EXCEPT !.unique = y]
    BY <2>1
  <2> QED BY <2>1, <2>2, MarkKeeps
<1>3. DOMAIN cols = DOMAIN form.cols
  BY DEF Unread
<1> HIDE DEF cols
<1>4. Unread([t EXCEPT !.cols = cols], form)
  BY <1>2, <1>3, ColumnsKeep
<1> QED BY <1>1, <1>4, KeysKeep

\* A table read to the end has the columns of its form and no rows yet.
LEMMA AtOnceUnread ==
  ASSUME engine \in Engines, NEW n, NEW form PROVE Unread(AtOnce(n, form), form)
<1>1. CASE engine = "postgres"
  BY <1>1, PlainUnread, PostgresUnread DEF AtOnce
<1>2. CASE engine = "mariadb"
  <2>1. AtOnce(n, form) = MariadbIndexes(MariadbConstraints(WithEnums(n, Plain(form), form), form), form)
    BY <1>2 DEF AtOnce
  <2> QED BY <2>1, PlainUnread, MariadbUnread
<1>3. CASE engine = "sqlite"
  BY <1>3, SqliteUnread, SqliteIndexesUnread DEF AtOnce
<1> QED BY <1>1, <1>2, <1>3 DEF Engines

\* What is used of that: rows are the only thing to add, under its columns' names.
LEMMA RowsAreLeft ==
  ASSUME NEW t, NEW form, Unread(t, form)
  PROVE  /\ [t EXCEPT !.records = {}] = t
         /\ \A rows : /\ [[t EXCEPT !.records = rows] EXCEPT !.records = {}] = t
                       /\ [t EXCEPT !.records = rows].records = rows
         /\ ColumnNames(t.cols) = ColumnNames(form.cols)
<1>1. ColumnNames(t.cols) = ColumnNames(form.cols)
  BY DEF Unread, ColumnNames
<1> QED BY <1>1 DEF Unread, IsTable, IsRecord

\* Rows that are read take nothing else away.
LEMMA RowsReplaced ==
  ASSUME NEW t, NEW form, NEW whole, Unread(whole, form), [t EXCEPT !.records = {}] = whole, NEW rows
  PROVE  /\ [[t EXCEPT !.records = rows] EXCEPT !.records = {}] = whole
         /\ [t EXCEPT !.records = rows].records = rows
         /\ ColumnNames(t.cols) = ColumnNames(form.cols)
<1>1. t.cols = whole.cols /\ DOMAIN t = DOMAIN whole /\ "records" \in DOMAIN t
  BY DEF Unread, IsTable, IsRecord
<1>2. ColumnNames(whole.cols) = ColumnNames(form.cols)
  BY RowsAreLeft
<1>3. [[t EXCEPT !.records = rows] EXCEPT !.records = {}] = [t EXCEPT !.records = {}]
  OBVIOUS
<1> QED BY <1>1, <1>2, <1>3

-----------------------------------------------------------------------------
(* Steps. *)

\* Engine and command line stay, and with them what a form is reported as.
LEMMA Unmoved ==
  ASSUME UNCHANGED <<engine, opts>>, NEW n, NEW form, NEW f
  PROVE  /\ Plain(form)' = Plain(form)
         /\ Sqlite(form)' = Sqlite(form)
         /\ AtOnce(n, form)' = AtOnce(n, form)
         /\ Included(n)' = Included(n)
         /\ ForeignKeyOf(n, f)' = ForeignKeyOf(n, f)
         /\ OwnRows' = OwnRows
         /\ step' = step => Partial(n, form)' = Partial(n, form)
<1>1. ASSUME NEW type PROVE ReportedType(type)' = ReportedType(type)
  BY DEF ReportedType, PostgresType, EnumNames
<1>2. ASSUME NEW c PROVE Bare(c)' = Bare(c)
  BY <1>1 DEF Bare
<1>3. Plain(form)' = Plain(form)
  BY <1>2 DEF Plain
<1>4. Sqlite(form)' = Sqlite(form)
  BY <1>2, <1>3 DEF Sqlite
<1>5. AtOnce(n, form)' = AtOnce(n, form)
  BY <1>3, <1>4 DEF AtOnce
<1>6. Included(n)' = Included(n) /\ OwnRows' = OwnRows
  BY DEF Included, OwnRows, OnPath
<1>7. ForeignKeyOf(n, f)' = ForeignKeyOf(n, f)
  BY DEF ForeignKeyOf
<1>8. step' = step => Partial(n, form)' = Partial(n, form)
  BY <1>3, <1>4, <1>5 DEF Partial, PartialPostgres, PartialMariadb, PartialSqlite
<1> QED BY <1>3, <1>4, <1>5, <1>6, <1>7, <1>8

QuerySteps == {"columns", "keys", "constraints", "indexes", "checks", "enums", "fks"}

\* A query leads to the next one, or to the filter, with no rows to read yet.
LEMMA QueryStep ==
  ASSUME TypeInv, NEW s \in QuerySteps, Query(s)
  PROVE  /\ step = s /\ pending = {}
         /\ UNCHANGED <<engine, opts, pending, tables, enums, touched, statements>>
         /\ step' = Following[engine][s]
         /\ step' \in StepsOf[engine] \ {"columns", "data", "done", "failed"}
         /\ step' = "filter" <=> s = "fks"
<1>1. step = s /\ step' = Following[engine][s] /\ UNCHANGED <<engine, opts, pending, tables, enums, touched, statements>>
  BY DEF Query
<1>2. pending = {}
  BY <1>1 DEF TypeInv, TypeOK, QuerySteps
<1>3. step' \in StepsOf[engine] \ {"columns", "data", "done", "failed"} /\ (step' = "filter" <=> s = "fks")
  <2>1. CASE engine = "postgres"
    BY <1>1, <2>1 DEF TypeInv, StepsOf, Following, QuerySteps
  <2>2. CASE engine = "mariadb"
    BY <1>1, <2>2 DEF TypeInv, StepsOf, Following, QuerySteps
  <2>3. CASE engine = "sqlite"
    BY <1>1, <2>3 DEF TypeInv, StepsOf, Following, QuerySteps
  <2> QED BY <2>1, <2>2, <2>3 DEF TypeInv, TypeOK, Engines
<1> QED BY <1>1, <1>2, <1>3

\* A change of one part of a schema leaves the others.
LEMMA SchemaKeeps ==
  ASSUME NEW s, IsSchema(s), NEW x
  PROVE  /\ IsSchema([s EXCEPT !.tables = x]) /\ [s EXCEPT !.tables = x].tables = x
         /\ [s EXCEPT !.tables = x].fks = s.fks
         /\ IsSchema([s EXCEPT !.enums = x]) /\ [s EXCEPT !.enums = x].tables = s.tables
         /\ IsSchema([s EXCEPT !.fks = x]) /\ [s EXCEPT !.fks = x].tables = s.tables
         /\ [s EXCEPT !.fks = x].fks = x
  BY DEF IsSchema, IsRecord

\* What the filter leaves.
LEMMA FilterLeaves ==
  ASSUME NEW s, IsSchema(s)
  PROVE  /\ IsSchema(Filtered(s))
         /\ DOMAIN Filtered(s).tables = {n \in DOMAIN s.tables : Included(n)}
         /\ \A n \in DOMAIN Filtered(s).tables : Filtered(s).tables[n] = s.tables[n]
         /\ \A f \in Filtered(s).fks : f \in s.fks
         /\ \A f \in s.fks : {f.child, f.parent} \subseteq DOMAIN Filtered(s).tables => f \in Filtered(s).fks
         /\ \A f \in Filtered(s).fks : Included(f.child) /\ Included(f.parent)
<1>1. CASE opts.include = {} /\ opts.exclude = {}
  BY <1>1 DEF Filtered, Included
<1>2. CASE ~(opts.include = {} /\ opts.exclude = {})
  <2> DEFINE included == {n \in DOMAIN s.tables : Included(n)}
  <2> DEFINE ts == [n \in included |-> s.tables[n]]
  <2> DEFINE fs == {f \in s.fks : {f.child, f.parent} \subseteq included}
  <2>1. Filtered(s) = [[s EXCEPT !.tables = ts] EXCEPT !.fks = fs]
    BY <1>2, SchemaKeeps DEF Filtered
  <2>2. IsSchema(Filtered(s)) /\ Filtered(s).tables = ts /\ Filtered(s).fks = fs
    <3> HIDE DEF ts, fs, included
    <3>1. PICK u : u = [s EXCEPT !.tables = ts] /\ Filtered(s) = [u EXCEPT !.fks = fs]
      BY <2>1
    <3>2. IsSchema(u) /\ u.tables = ts
      BY <3>1 DEF IsSchema, IsRecord
    <3>3. ASSUME NEW x
          PROVE  IsSchema([u EXCEPT !.fks = x]) /\ [u EXCEPT !.fks = x].tables = u.tables /\ [u EXCEPT !.fks = x].fks = x
      BY <3>2 DEF IsSchema, IsRecord
    <3> QED BY <3>1, <3>2, <3>3, Zenon
  <2> QED BY <2>2
<1> QED BY <1>1, <1>2

Change == (\E n \in DOMAIN Versions[engine] : ChangeTable(n)) \/ (\E n \in DOMAIN tables : DropTable(n)) \/ ChangeEnums

\* What another client does to tables it does to tables that are touched.
LEMMA ChangeTouches ==
  ASSUME Change
  PROVE  /\ UNCHANGED <<engine, opts, step, read, pending>>
         /\ step \notin {"columns", "done", "failed"}
         /\ statements < MaxStatements /\ statements' = statements + 1
         /\ Sound(tables', enums')
         /\ touched \subseteq touched'
         /\ \A n : n \notin touched' =>
              /\ n \in DOMAIN tables' <=> n \in DOMAIN tables
              /\ n \in DOMAIN tables => tables'[n] = tables[n]
<1>1. Statement /\ touched \subseteq touched'
  BY DEF Change, ChangeTable, DropTable, ChangeEnums
<1>2. ASSUME NEW n, n \notin touched'
      PROVE  (n \in DOMAIN tables' <=> n \in DOMAIN tables) /\ (n \in DOMAIN tables => tables'[n] = tables[n])
  BY <1>2 DEF Change, ChangeTable, DropTable, ChangeEnums, With
<1> QED BY <1>1, <1>2 DEF Statement, reader

\* A query for rows adds the rows of one table.
LEMMA FetchStep ==
  ASSUME TypeInv, NEW n \in pending, FetchRows(n)
  PROVE  /\ IsSchema(read') /\ DOMAIN read'.tables = DOMAIN read.tables /\ read'.fks = read.fks
         /\ \A m \in DOMAIN read.tables \ {n} : read'.tables[m] = read.tables[m]
         /\ read'.tables[n] = [read.tables[n] EXCEPT !.records =
              {[c \in ColumnNames(read.tables[n].cols) |-> row[c]] : row \in Unqualified[n].rows}]
<1> DEFINE rows == {[c \in ColumnNames(read.tables[n].cols) |-> row[c]] : row \in Unqualified[n].rows}
<1> DEFINE ts == [read.tables EXCEPT ![n] = [read.tables[n] EXCEPT !.records = rows]]
<1>1. read' = [read EXCEPT !.tables = ts] /\ n \in DOMAIN read.tables
  BY DEF FetchRows, TypeInv, TypeOK
<1>2. /\ DOMAIN ts = DOMAIN read.tables
      /\ \A m \in DOMAIN read.tables \ {n} : ts[m] = read.tables[m]
      /\ ts[n] = [read.tables[n] EXCEPT !.records = rows]
  BY <1>1
<1> HIDE DEF ts, rows
<1>3. IsSchema(read') /\ read'.tables = ts /\ read'.fks = read.fks
  <2>1. IsSchema(read)
    BY DEF TypeInv
  <2>2. /\ IsSchema([read EXCEPT !.tables = ts]) /\ [read EXCEPT !.tables = ts].tables = ts
        /\ [read EXCEPT !.tables = ts].fks = read.fks
    BY <2>1, SchemaKeeps, Zenon
  <2> QED BY <1>1, <2>2, Zenon
<1> QED BY <1>2, <1>3 DEF rows

-----------------------------------------------------------------------------
(* Type correctness. *)

\* Every step keeps the types, and leads to a step of the engine.
LEMMA TypeStep ==
  ASSUME TypeInv, [Next]_vars PROVE TypeInv'
<1>1. ASSUME NEW s \in QuerySteps, Query(s), IsSchema(read') PROVE TypeInv'
  <2>1. /\ UNCHANGED <<engine, opts, pending, statements>>
        /\ pending = {} /\ step' \in StepsOf[engine] \ {"columns", "data", "done", "failed"}
    BY <1>1, QueryStep
  <2>2. step' \in Steps
    BY <2>1 DEF StepsOf, Steps, TypeInv, TypeOK, Engines
  <2> QED BY <1>1, <2>1, <2>2 DEF TypeInv, TypeOK
<1>2. ASSUME NEW x PROVE IsSchema([read EXCEPT !.tables = x]) /\ IsSchema([read EXCEPT !.enums = x]) /\ IsSchema([read EXCEPT !.fks = x])
  BY SchemaKeeps DEF TypeInv
<1>3. IsSchema(Nothing)
  BY DEF Nothing, IsSchema, IsRecord
<1>4. CASE QueryColumns
  <2>1. IsSchema(read')
    BY <1>3, <1>4, SchemaKeeps DEF QueryColumns
  <2> QED BY <1>1, <1>4, <2>1 DEF QueryColumns, QuerySteps
<1>5. CASE QueryKeys
  <2>1. PICK s \in QuerySteps : Query(s)
    BY <1>5 DEF QueryKeys, QuerySteps
  <2>2. \E x : read' = [read EXCEPT !.tables = x]
    BY <1>5 DEF QueryKeys
  <2> QED BY <1>1, <1>2, <2>1, <2>2
<1>6. CASE QueryMariadbIndexes
  <2>1. \E x : read' = [read EXCEPT !.tables = x]
    BY <1>6 DEF QueryMariadbIndexes
  <2> QED BY <1>1, <1>2, <1>6, <2>1 DEF QueryMariadbIndexes, QuerySteps
<1>7. CASE QueryChecks
  BY <1>1, <1>7 DEF QueryChecks, QuerySteps, TypeInv
<1>8. CASE QueryEnums
  <2>1. \E x : read' = [read EXCEPT !.enums = x]
    BY <1>8 DEF QueryEnums
  <2> QED BY <1>1, <1>2, <1>8, <2>1 DEF QueryEnums, QuerySteps
<1>9. CASE QueryInlineEnums
  <2>1. PICK x, y, s : s = [read EXCEPT !.enums = x] /\ read' = [s EXCEPT !.tables = y]
    BY <1>9 DEF QueryInlineEnums
  <2>2. IsSchema(s)
    BY <1>2, <2>1
  <2>3. IsSchema(read')
    BY <2>1, <2>2, SchemaKeeps
  <2> QED BY <1>1, <1>9, <2>3 DEF QueryInlineEnums, QuerySteps
<1>10. CASE QueryForeignKeys
  <2>1. \E x : read' = [read EXCEPT !.fks = x]
    BY <1>10 DEF QueryForeignKeys
  <2> QED BY <1>1, <1>2, <1>10, <2>1 DEF QueryForeignKeys, QuerySteps
<1>11. CASE Filter
  <2>1. IsSchema(read')
    BY <1>11, FilterLeaves DEF Filter, TypeInv
  <2>2. step' \in {"data", "done"} /\ (step' = "data" <=> pending' # {}) /\ pending' \subseteq DOMAIN read'.tables
        /\ (step' = "data" => opts.data)
    BY <1>11 DEF Filter, Pending
  <2>3. {"data", "done"} \subseteq StepsOf[engine] \cap Steps
    BY DEF StepsOf, Steps, TypeInv, TypeOK, Engines
  <2> QED BY <1>11, <2>1, <2>2, <2>3 DEF Filter, TypeInv, TypeOK
<1>12. ASSUME NEW n \in pending, FetchRows(n) PROVE TypeInv'
  <2>1. IsSchema(read') /\ DOMAIN read'.tables = DOMAIN read.tables
    BY <1>12, FetchStep
  <2>2. step' \in {"data", "done"} /\ (step' = "data" <=> pending' # {}) /\ pending' \subseteq pending
    BY <1>12 DEF FetchRows, Pending
  <2>3. {"data", "done"} \subseteq StepsOf[engine] \cap Steps
    BY DEF StepsOf, Steps, TypeInv, TypeOK, Engines
  <2> QED BY <1>12, <2>1, <2>2, <2>3 DEF FetchRows, TypeInv, TypeOK
<1>13. CASE Fail
  <2>1. "failed" \in StepsOf[engine] \cap Steps
    BY DEF StepsOf, Steps, TypeInv, TypeOK, Engines
  <2> QED BY <1>3, <1>13, <2>1 DEF Fail, TypeInv, TypeOK
<1>14. CASE Change
  BY <1>14, ChangeTouches, StatementsAssumption DEF TypeInv, TypeOK
<1>15. CASE UNCHANGED vars
  BY <1>15 DEF vars, TypeInv, TypeOK
<1> QED BY <1>4, <1>5, <1>6, <1>7, <1>8, <1>9, <1>10, <1>11, <1>12, <1>13, <1>14, <1>15 DEF Next, Change

-----------------------------------------------------------------------------
(* Untouched tables. *)

KeysQuery == IF engine = "postgres" THEN "keys" ELSE IF engine = "mariadb" THEN "constraints" ELSE "indexes"

\* What a query adds to what there is of a table.
LEMMA PartialNext ==
  ASSUME TypeInv, NEW s \in QuerySteps, Query(s), NEW n, NEW form
  PROVE  /\ s = "columns" => Partial(n, form)' = ColumnsOf(form)
         /\ s = KeysQuery => Partial(n, form)' = KeysOf(Partial(n, form), form)
         /\ engine = "mariadb" /\ s = "indexes" => Partial(n, form)' = MariadbIndexes(Partial(n, form), form)
         /\ engine = "mariadb" /\ s = "enums" => Partial(n, form)' = WithEnums(n, Partial(n, form), form)
         /\ s \in {"checks", "fks"} \/ (engine = "postgres" /\ s = "enums") => Partial(n, form)' = Partial(n, form)
<1>1. step = s /\ step' = Following[engine][s] /\ engine' = engine
  BY QueryStep
<1>2. Plain(form)' = Plain(form) /\ Sqlite(form)' = Sqlite(form) /\ AtOnce(n, form)' = AtOnce(n, form)
  BY QueryStep, Unmoved
<1>3. s \in StepsOf[engine]
  BY <1>1 DEF TypeInv
<1>4. CASE engine = "postgres"
  <2>1. /\ s \in {"columns", "keys", "checks", "enums", "fks"}
        /\ step' = [columns |-> "keys", keys |-> "checks", checks |-> "enums", enums |-> "fks", fks |-> "filter"][s]
    BY <1>1, <1>3, <1>4 DEF StepsOf, QuerySteps, Following
  <2>2. Partial(n, form) = PartialPostgres(form) /\ Partial(n, form)' = PartialPostgres(form)'
    BY <1>1, <1>4 DEF Partial
  <2> QED BY <1>1, <1>2, <1>4, <2>1, <2>2 DEF PartialPostgres, ColumnsOf, KeysOf, KeysQuery
<1>5. CASE engine = "mariadb"
  <2>1. /\ s \in {"columns", "enums", "constraints", "indexes", "checks", "fks"}
        /\ step' = [columns |-> "enums", enums |-> "constraints", constraints |-> "indexes",
                    indexes |-> "checks", checks |-> "fks", fks |-> "filter"][s]
    BY <1>1, <1>3, <1>5 DEF StepsOf, QuerySteps, Following
  <2>2. Partial(n, form) = PartialMariadb(n, form) /\ Partial(n, form)' = PartialMariadb(n, form)'
    BY <1>1, <1>5 DEF Partial
  <2>3. AtOnce(n, form) = MariadbIndexes(MariadbConstraints(WithEnums(n, Plain(form), form), form), form)
    BY <1>5 DEF AtOnce
  <2> QED BY <1>1, <1>2, <1>5, <2>1, <2>2, <2>3 DEF PartialMariadb, ColumnsOf, KeysOf, KeysQuery
<1>6. CASE engine = "sqlite"
  <2>1. /\ s \in {"columns", "indexes", "fks"}
        /\ step' = [columns |-> "indexes", indexes |-> "fks", fks |-> "filter"][s]
    BY <1>1, <1>3, <1>6 DEF StepsOf, QuerySteps, Following
  <2>2. Partial(n, form) = PartialSqlite(form) /\ Partial(n, form)' = PartialSqlite(form)'
    BY <1>1, <1>6 DEF Partial
  <2> QED BY <1>1, <1>2, <1>6, <2>1, <2>2 DEF PartialSqlite, ColumnsOf, KeysOf, KeysQuery
<1> QED BY <1>4, <1>5, <1>6 DEF TypeInv, TypeOK, Engines

\* A query whose rows find all untouched tables keeps the invariant.
LEMMA QueriedTables ==
  ASSUME TypeInv, TablesSoFar, NEW s \in QuerySteps \ {"columns"}, Query(s),
         DOMAIN read'.tables = DOMAIN read.tables,
         \A n \in DOMAIN tables \cap DOMAIN read.tables :
           read.tables[n] = Partial(n, tables[n]) => read'.tables[n] = Partial(n, tables[n])'
  PROVE  TablesSoFar'
<1>1. UNCHANGED <<tables, touched>> /\ step = s
  BY QueryStep
<1>2. Filtering
  BY <1>1 DEF Filtering, QuerySteps
<1>3. ASSUME NEW n \in (DOMAIN tables \cup DOMAIN read.tables) \ touched
      PROVE  /\ n \in DOMAIN read.tables /\ n \in DOMAIN tables
             /\ read'.tables[n] = Partial(n, tables[n])'
  BY <1>2 DEF TablesSoFar
<1> QED BY <1>1, <1>3 DEF TablesSoFar

\* With every query.
LEMMA QueriesKeepTables ==
  ASSUME TypeInv, TablesSoFar,
         QueryColumns \/ QueryKeys \/ QueryMariadbIndexes \/ QueryChecks \/ QueryEnums \/ QueryInlineEnums
           \/ QueryForeignKeys
  PROVE  TablesSoFar'
<1>0. IsSchema(read)
  BY DEF TypeInv
<1>1. CASE QueryColumns
  <2>1. Query("columns") /\ "columns" \in QuerySteps
    BY <1>1 DEF QueryColumns, QuerySteps
  <2>2. read'.tables = [n \in DOMAIN tables |-> ColumnsOf(tables[n])]
    BY <1>1 DEF QueryColumns, Nothing
  <2>3. UNCHANGED <<tables, touched>> /\ touched = {}
    BY <2>1, QueryStep DEF TypeInv
  <2>4. \A n, form : Partial(n, form)' = ColumnsOf(form)
    BY <2>1, PartialNext
  <2> QED BY <2>2, <2>3, <2>4 DEF TablesSoFar
<1>2. CASE QueryKeys
  <2>1. Query(KeysQuery) /\ KeysQuery \in QuerySteps \ {"columns"}
    BY <1>2 DEF QueryKeys, KeysQuery, QuerySteps
  <2>2. read'.tables = [n \in DOMAIN read.tables |-> IF Listed(n) THEN KeysOf(read.tables[n], tables[n]) ELSE read.tables[n]]
    BY <1>0, <1>2, SchemaKeeps DEF QueryKeys
  <2>3. \A n, form : Partial(n, form)' = KeysOf(Partial(n, form), form)
    BY <2>1, PartialNext
  <2>4. ASSUME NEW n \in DOMAIN tables \cap DOMAIN read.tables, read.tables[n] = Partial(n, tables[n])
        PROVE  read'.tables[n] = Partial(n, tables[n])'
    BY <2>1, <2>2, <2>3, <2>4 DEF Listed, Query
  <2>5. DOMAIN read'.tables = DOMAIN read.tables
    BY <2>2
  <2> QED BY <2>1, <2>4, <2>5, QueriedTables
<1>3. CASE QueryMariadbIndexes
  <2>1. Query("indexes") /\ "indexes" \in QuerySteps \ {"columns"} /\ engine = "mariadb"
    BY <1>3 DEF QueryMariadbIndexes, QuerySteps
  <2>2. read'.tables = [n \in DOMAIN read.tables |-> IF Listed(n) THEN MariadbIndexes(read.tables[n], tables[n]) ELSE read.tables[n]]
    BY <1>0, <1>3, SchemaKeeps DEF QueryMariadbIndexes
  <2>3. \A n, form : Partial(n, form)' = MariadbIndexes(Partial(n, form), form)
    BY <2>1, PartialNext
  <2>4. ASSUME NEW n \in DOMAIN tables \cap DOMAIN read.tables, read.tables[n] = Partial(n, tables[n])
        PROVE  read'.tables[n] = Partial(n, tables[n])'
    BY <2>1, <2>2, <2>3, <2>4 DEF Listed, Query
  <2>5. DOMAIN read'.tables = DOMAIN read.tables
    BY <2>2
  <2> QED BY <2>1, <2>4, <2>5, QueriedTables
<1>4. CASE QueryInlineEnums
  <2>1. Query("enums") /\ "enums" \in QuerySteps \ {"columns"} /\ engine = "mariadb"
    BY <1>4 DEF QueryInlineEnums, QuerySteps
  <2>2. read'.tables = [n \in DOMAIN read.tables |-> IF Listed(n) THEN WithEnums(n, read.tables[n], tables[n]) ELSE read.tables[n]]
    <3> DEFINE ts == [n \in DOMAIN read.tables |-> IF Listed(n) THEN WithEnums(n, read.tables[n], tables[n]) ELSE read.tables[n]]
    <3>1. PICK x, r : r = [read EXCEPT !.enums = x] /\ read' = [r EXCEPT !.tables = ts]
      BY <1>0, <1>4, SchemaKeeps DEF QueryInlineEnums
    <3> HIDE DEF ts
    <3>2. IsSchema(r)
      BY <1>0, <3>1, SchemaKeeps
    <3> QED BY <3>1, <3>2, SchemaKeeps DEF ts
  <2>3. \A n, form : Partial(n, form)' = WithEnums(n, Partial(n, form), form)
    BY <2>1, PartialNext
  <2>4. ASSUME NEW n \in DOMAIN tables \cap DOMAIN read.tables, read.tables[n] = Partial(n, tables[n])
        PROVE  read'.tables[n] = Partial(n, tables[n])'
    BY <2>1, <2>2, <2>3, <2>4 DEF Listed, Query
  <2>5. DOMAIN read'.tables = DOMAIN read.tables
    BY <2>2
  <2> QED BY <2>1, <2>4, <2>5, QueriedTables
<1>5. ASSUME NEW s \in QuerySteps \ {"columns"}, Query(s), s \in {"checks", "fks"} \/ (engine = "postgres" /\ s = "enums"),
             read'.tables = read.tables
      PROVE  TablesSoFar'
  <2>1. ASSUME NEW n, NEW form PROVE Partial(n, form)' = Partial(n, form)
    <3>1. s \in QuerySteps
      OBVIOUS
    <3>2. s \in {"checks", "fks"} \/ (engine = "postgres" /\ s = "enums") => Partial(n, form)' = Partial(n, form)
      BY <1>5, <3>1, PartialNext, ZenonT(40)
    <3> QED BY <1>5, <3>2
  <2>2. ASSUME NEW n \in DOMAIN tables \cap DOMAIN read.tables, read.tables[n] = Partial(n, tables[n])
        PROVE  read'.tables[n] = Partial(n, tables[n])'
    BY <1>5, <2>1, <2>2 DEF Query
  <2>3. DOMAIN read'.tables = DOMAIN read.tables
    BY <1>5
  <2> QED BY <1>5, <2>2, <2>3, QueriedTables
<1>6. CASE QueryChecks
  <2>1. Query("checks") /\ "checks" \in QuerySteps \ {"columns"} /\ read'.tables = read.tables
    BY <1>6 DEF QueryChecks, QuerySteps
  <2> QED BY <1>5, <2>1
<1>7. CASE QueryEnums
  <2>1. Query("enums") /\ "enums" \in QuerySteps \ {"columns"} /\ engine = "postgres"
    BY <1>7 DEF QueryEnums, QuerySteps
  <2>2. PICK x : read' = [read EXCEPT !.enums = x]
    BY <1>7 DEF QueryEnums
  <2>3. read'.tables = read.tables
    BY <1>0, <2>2, SchemaKeeps
  <2> QED BY <1>5, <2>1, <2>3
<1>8. CASE QueryForeignKeys
  <2>1. Query("fks") /\ "fks" \in QuerySteps \ {"columns"}
    BY <1>8 DEF QueryForeignKeys, QuerySteps
  <2>2. PICK x : read' = [read EXCEPT !.fks = x]
    BY <1>8 DEF QueryForeignKeys
  <2>3. read'.tables = read.tables
    BY <1>0, <2>2, SchemaKeeps
  <2> QED BY <1>5, <2>1, <2>3
<1> QED BY <1>1, <1>2, <1>3, <1>4, <1>6, <1>7, <1>8

\* What the filter takes is complete, and its rows are still to be read.
LEMMA FilterKeepsTables ==
  ASSUME TypeInv, TablesSoFar, Filter PROVE TablesFiltered'
<1>1. /\ step = "filter" /\ read' = Filtered(read) /\ step' \in {"data", "done"}
      /\ UNCHANGED <<engine, opts, tables, touched>>
      /\ pending' = IF opts.data THEN DOMAIN Filtered(read).tables ELSE {}
  BY DEF Filter, Pending
<1>2. /\ DOMAIN read'.tables = {n \in DOMAIN read.tables : Included(n)}
      /\ \A n \in DOMAIN read'.tables : read'.tables[n] = read.tables[n]
  BY <1>1, FilterLeaves DEF TypeInv
<1>3. \A n, form : AtOnce(n, form)' = AtOnce(n, form) /\ Included(n)' = Included(n) /\ Partial(n, form) = AtOnce(n, form)
  <2>1. TAKE n, form
  <2>2. Partial(n, form) = AtOnce(n, form)
    BY <1>1 DEF Partial, PartialPostgres, PartialMariadb, PartialSqlite, AtOnce, TypeInv, TypeOK, Engines
  <2> QED BY <1>1, <2>2, Unmoved
<1>4. ASSUME NEW n \in (DOMAIN tables \cup DOMAIN read'.tables) \ touched
      PROVE  /\ n \in DOMAIN tables /\ n \in DOMAIN read.tables
             /\ n \in DOMAIN read'.tables <=> Included(n)
             /\ n \in DOMAIN read'.tables => read'.tables[n] = AtOnce(n, tables[n])
  <2>1. Filtering
    BY <1>1 DEF Filtering
  <2>2. n \in DOMAIN tables /\ n \in DOMAIN read.tables /\ read.tables[n] = Partial(n, tables[n])
    BY <1>2, <2>1 DEF TablesSoFar
  <2> QED BY <1>2, <1>3, <2>2
<1>5. ASSUME NEW n, NEW form
      PROVE  [AtOnce(n, form) EXCEPT !.records = {}] = AtOnce(n, form) /\ AtOnce(n, form).records = {}
  <2>1. Unread(AtOnce(n, form), form)
    BY AtOnceUnread DEF TypeInv, TypeOK
  <2> QED BY <2>1, RowsAreLeft DEF Unread
<1>6. ASSUME NEW n \in DOMAIN read'.tables PROVE ~(opts.data /\ n \notin pending')
  BY <1>1
<1>7. ASSUME NEW n \in ((DOMAIN tables \cup DOMAIN read.tables) \ touched)'
      PROVE  /\ n \in DOMAIN read'.tables <=> Listed(n)' /\ Included(n)'
             /\ n \in DOMAIN read'.tables =>
                  /\ [read'.tables[n] EXCEPT !.records = {}] = AtOnce(n, tables[n])'
                  /\ read'.tables[n].records = {}
  <2>1. n \in (DOMAIN tables \cup DOMAIN read'.tables) \ touched
    BY <1>1
  <2>2. Listed(n)' /\ Included(n)' = Included(n) /\ AtOnce(n, tables[n])' = AtOnce(n, tables[n])
    BY <1>1, <1>3, <1>4, <2>1 DEF Listed
  <2>3. n \in DOMAIN read'.tables <=> Included(n)
    BY <1>4, <2>1
  <2>4. ASSUME n \in DOMAIN read'.tables
        PROVE  [read'.tables[n] EXCEPT !.records = {}] = AtOnce(n, tables[n])' /\ read'.tables[n].records = {}
    <3>1. PICK t : t = AtOnce(n, tables[n])
      OBVIOUS
    <3>2. read'.tables[n] = t /\ AtOnce(n, tables[n])' = t
      BY <1>4, <2>1, <2>2, <2>4, <3>1
    <3>3. [t EXCEPT !.records = {}] = t /\ t.records = {}
      BY <1>5, <3>1
    <3> QED BY <3>2, <3>3, Zenon
  <2> QED BY <2>2, <2>3, <2>4, Zenon
<1> QED BY <1>1, <1>6, <1>7 DEF TablesFiltered

\* Rows are added to the table that they were asked of.
LEMMA FetchKeepsTables ==
  ASSUME TypeInv, TablesFiltered, NEW n \in pending, FetchRows(n) PROVE TablesFiltered'
<1>1. /\ step = "data" /\ opts.data /\ pending' = pending \ {n}
      /\ UNCHANGED <<engine, opts, tables, touched>>
  BY DEF FetchRows, Pending, TypeInv
<1>2. AfterFilter
  BY <1>1 DEF AfterFilter
<1>3. ASSUME NEW m, NEW form
      PROVE  AtOnce(m, form)' = AtOnce(m, form) /\ Included(m)' = Included(m) /\ OwnRows' = OwnRows
  BY <1>1, Unmoved
<1>4. DOMAIN read'.tables = DOMAIN read.tables
  BY FetchStep
<1>5. ASSUME NEW m \in (DOMAIN tables \cup DOMAIN read.tables) \ touched
      PROVE  /\ m \in DOMAIN read'.tables <=> m \in DOMAIN tables /\ Included(m)
             /\ m \in DOMAIN read'.tables =>
                  /\ [read'.tables[m] EXCEPT !.records = {}] = AtOnce(m, tables[m])
                  /\ OwnRows => read'.tables[m].records = IF m \notin pending' THEN Rows(tables[m]) ELSE {}
  <2>1. m \in DOMAIN read'.tables <=> m \in DOMAIN tables /\ Included(m)
    BY <1>2, <1>4 DEF TablesFiltered, Listed
  <2>2. ASSUME m \in DOMAIN read.tables
        PROVE  /\ m \in DOMAIN tables
               /\ [read.tables[m] EXCEPT !.records = {}] = AtOnce(m, tables[m])
               /\ OwnRows => read.tables[m].records = IF m \notin pending THEN Rows(tables[m]) ELSE {}
    BY <1>1, <1>2, <2>2 DEF TablesFiltered, Listed
  <2>3. ASSUME m \in DOMAIN read.tables, m # n
        PROVE  read'.tables[m] = read.tables[m] /\ (m \in pending' <=> m \in pending)
    BY <1>1, <2>3, FetchStep
  <2>4. ASSUME m \in DOMAIN read.tables, m = n
        PROVE  /\ [read'.tables[m] EXCEPT !.records = {}] = AtOnce(m, tables[m])
               /\ OwnRows => read'.tables[m].records = Rows(tables[m])
    <3> DEFINE rows == {[c \in ColumnNames(read.tables[n].cols) |-> row[c]] : row \in Unqualified[n].rows}
    <3>1. read'.tables[n] = [read.tables[n] EXCEPT !.records = rows]
      BY FetchStep
    <3>2. [read.tables[n] EXCEPT !.records = {}] = AtOnce(n, tables[n])
      BY <2>2, <2>4
    <3>3. Unread(AtOnce(n, tables[n]), tables[n])
      BY AtOnceUnread DEF TypeInv, TypeOK
    <3>4. /\ \A x : [[read.tables[n] EXCEPT !.records = x] EXCEPT !.records = {}] = AtOnce(n, tables[n])
          /\ \A x : [read.tables[n] EXCEPT !.records = x].records = x
          /\ ColumnNames(read.tables[n].cols) = ColumnNames(tables[n].cols)
      BY <3>2, <3>3, RowsReplaced
    <3>5. ASSUME OwnRows PROVE rows = Rows(tables[n])
      <4>1. Unqualified = tables
        BY <1>1, <3>5 DEF OwnRows, Unqualified
      <4>2. PICK names : names = ColumnNames(read.tables[n].cols)
        OBVIOUS
      <4>3. rows = {[c \in names |-> row[c]] : row \in Unqualified[n].rows}
        BY <4>2, Zenon
      <4>4. Rows(tables[n]) = {[c \in names |-> row[c]] : row \in tables[n].rows}
        <5>1. ColumnNames(tables[n].cols) = names
          BY <3>4, <4>2
        <5> QED BY <5>1, Zenon DEF Rows
      <4>5. Unqualified[n].rows = tables[n].rows
        BY <4>1
      <4> QED BY <4>3, <4>4, <4>5, Zenon
    <3> HIDE DEF rows
    <3> QED BY <2>4, <3>1, <3>4, <3>5
  <2>5. n \notin pending'
    BY <1>1
  <2>6. CASE m \in DOMAIN read.tables /\ m = n
    BY <2>1, <2>4, <2>5, <2>6
  <2>7. CASE m \in DOMAIN read.tables /\ m # n
    <3>1. read'.tables[m] = read.tables[m] /\ (m \in pending' <=> m \in pending)
      BY <2>3, <2>7
    <3>2. [read'.tables[m] EXCEPT !.records = {}] = AtOnce(m, tables[m])
      BY <2>2, <2>7, <3>1, Zenon
    <3> QED BY <2>1, <2>2, <2>7, <3>1, <3>2
  <2> QED BY <1>4, <2>1, <2>6, <2>7
<1>6. ASSUME NEW m \in ((DOMAIN tables \cup DOMAIN read.tables) \ touched)'
      PROVE  /\ m \in DOMAIN read'.tables <=> Listed(m)' /\ Included(m)'
             /\ m \in DOMAIN read'.tables =>
                  /\ [read'.tables[m] EXCEPT !.records = {}] = AtOnce(m, tables[m])'
                  /\ OwnRows' =>
                       read'.tables[m].records = IF opts'.data /\ m \notin pending' THEN Rows(tables'[m]) ELSE {}
  <2>1. m \in (DOMAIN tables \cup DOMAIN read.tables) \ touched
    BY <1>1, <1>4
  <2>2. AtOnce(m, tables[m])' = AtOnce(m, tables[m]) /\ Included(m)' = Included(m) /\ OwnRows' = OwnRows
    BY <1>1, <1>3
  <2>3. (Listed(m)' <=> m \in DOMAIN tables) /\ opts'.data /\ tables' = tables
    BY <1>1 DEF Listed
  <2> QED BY <1>5, <2>1, <2>2, <2>3
<1> QED BY <1>6 DEF TablesFiltered, Rows

\* What leaves the reader, and the tables that nobody touched, keeps the
\* invariants of them.
LEMMA TablesStay ==
  ASSUME TablesSoFar, TablesFiltered, UNCHANGED <<engine, opts, step, read, pending>>,
         touched \subseteq touched',
         \A n : n \notin touched' =>
           (n \in DOMAIN tables' <=> n \in DOMAIN tables) /\ (n \in DOMAIN tables => tables'[n] = tables[n])
  PROVE  TablesSoFar' /\ TablesFiltered'
<1>1. UNCHANGED <<engine, opts, step, read, pending>>
  OBVIOUS
<1>2. ASSUME NEW n \in ((DOMAIN tables \cup DOMAIN read.tables) \ touched)'
      PROVE  /\ n \in (DOMAIN tables \cup DOMAIN read.tables) \ touched
             /\ n \in DOMAIN tables' <=> n \in DOMAIN tables
             /\ n \in DOMAIN tables => tables'[n] = tables[n]
  BY <1>1
<1>3. ASSUME NEW n, NEW form
      PROVE  /\ Partial(n, form)' = Partial(n, form) /\ AtOnce(n, form)' = AtOnce(n, form)
             /\ Included(n)' = Included(n) /\ OwnRows' = OwnRows
  BY <1>1, Unmoved
<1>4. TablesSoFar'
  BY <1>1, <1>2, <1>3 DEF TablesSoFar, Filtering
<1>5. TablesFiltered'
  <2>1. ASSUME AfterFilter, NEW n \in ((DOMAIN tables \cup DOMAIN read.tables) \ touched)'
        PROVE  /\ n \in DOMAIN read'.tables <=> Listed(n)' /\ Included(n)'
               /\ n \in DOMAIN read'.tables =>
                    /\ [read'.tables[n] EXCEPT !.records = {}] = AtOnce(n, tables[n])'
                    /\ OwnRows' =>
                         read'.tables[n].records = IF opts'.data /\ n \notin pending' THEN Rows(tables'[n]) ELSE {}
    <3>1. /\ n \in DOMAIN read.tables <=> n \in DOMAIN tables /\ Included(n)
          /\ n \in DOMAIN read.tables =>
               /\ [read.tables[n] EXCEPT !.records = {}] = AtOnce(n, tables[n])
               /\ OwnRows =>
                    read.tables[n].records = IF opts.data /\ n \notin pending THEN Rows(tables[n]) ELSE {}
      BY <1>2, <2>1 DEF TablesFiltered, Listed
    <3>2. /\ Listed(n)' <=> n \in DOMAIN tables
          /\ n \in DOMAIN tables => tables'[n] = tables[n] /\ AtOnce(n, tables[n])' = AtOnce(n, tables[n])
          /\ Included(n)' = Included(n) /\ OwnRows' = OwnRows
      BY <1>2, <1>3 DEF Listed
    <3> QED BY <1>1, <3>1, <3>2
  <2> QED BY <1>1, <2>1 DEF TablesFiltered, AfterFilter, Rows
<1> QED BY <1>4, <1>5

-----------------------------------------------------------------------------
(* Untouched refs. *)

\* The last query reads all refs.
LEMMA QueryFindsRefs ==
  ASSUME TypeInv, QueryForeignKeys PROVE RefsSoFar'
<1>1. IsSchema(read) /\ Query("fks") /\ "fks" \in QuerySteps
  BY DEF TypeInv, QueryForeignKeys, QuerySteps
<1>2. read'.fks = UNION {ForeignKeysOf(n, tables[n]) : n \in DOMAIN tables}
  BY <1>1, SchemaKeeps DEF QueryForeignKeys
<1>3. UNCHANGED <<engine, opts, tables, touched>>
  BY <1>1, QueryStep
<1>4. ASSUME NEW n \in DOMAIN tables, NEW f \in tables[n].fks
      PROVE  ForeignKeyOf(n, f) \in read'.fks /\ ForeignKeyOf(n, f)' = ForeignKeyOf(n, f)
  BY <1>2, <1>3, Unmoved DEF ForeignKeysOf
<1> QED BY <1>3, <1>4 DEF RefsSoFar

\* No query but the last leads to the filter.
LEMMA QueriesKeepRefs ==
  ASSUME TypeInv,
         QueryColumns \/ QueryKeys \/ QueryMariadbIndexes \/ QueryChecks \/ QueryEnums \/ QueryInlineEnums
           \/ QueryForeignKeys
  PROVE  RefsSoFar' /\ ~AfterFilter'
<1>1. ASSUME NEW s \in QuerySteps, Query(s) PROVE ~AfterFilter' /\ (step' = "filter" <=> s = "fks")
  BY <1>1, QueryStep DEF AfterFilter
<1>2. ASSUME NEW s \in QuerySteps, Query(s), s # "fks" PROVE RefsSoFar' /\ ~AfterFilter'
  BY <1>1, <1>2 DEF RefsSoFar
<1>3. CASE QueryForeignKeys
  <2>1. Query("fks") /\ "fks" \in QuerySteps
    BY <1>3 DEF QueryForeignKeys, QuerySteps
  <2> QED BY <1>1, <1>3, <2>1, QueryFindsRefs
<1>4. CASE QueryKeys
  <2>1. Query(KeysQuery) /\ KeysQuery \in QuerySteps /\ KeysQuery # "fks"
    BY <1>4 DEF QueryKeys, KeysQuery, QuerySteps
  <2> QED BY <1>2, <2>1
<1>5. CASE QueryColumns
  BY <1>2, <1>5 DEF QueryColumns, QuerySteps
<1>6. CASE QueryMariadbIndexes
  BY <1>2, <1>6 DEF QueryMariadbIndexes, QuerySteps
<1>7. CASE QueryChecks
  BY <1>2, <1>7 DEF QueryChecks, QuerySteps
<1>8. CASE QueryEnums
  BY <1>2, <1>8 DEF QueryEnums, QuerySteps
<1>9. CASE QueryInlineEnums
  BY <1>2, <1>9 DEF QueryInlineEnums, QuerySteps
<1> QED BY <1>3, <1>4, <1>5, <1>6, <1>7, <1>8, <1>9

\* The filter keeps the refs whose tables it takes: both are there.
LEMMA FilterKeepsRefs ==
  ASSUME TypeInv, RefsSound, TablesSoFar, RefsSoFar, Filter PROVE RefsFiltered'
<1>1. step = "filter" /\ read' = Filtered(read) /\ UNCHANGED <<engine, opts, tables, touched>> /\ IsSchema(read)
  BY DEF Filter, TypeInv
<1>2. Filtering
  BY <1>1 DEF Filtering
<1>3. ASSUME NEW n \in DOMAIN tables \ touched, NEW f \in tables[n].fks, f.parent \notin touched
      PROVE  ForeignKeyOf(n, f) \in read'.fks <=> Included(n) /\ Included(f.parent)
  <2> DEFINE ref == ForeignKeyOf(n, f)
  <2>1. ref \in read.fks /\ ref.child = n /\ ref.parent = f.parent
    BY <1>1, <1>3 DEF RefsSoFar, ForeignKeyOf
  <2>2. {n, f.parent} \subseteq DOMAIN read.tables
    <3>1. f.parent \in DOMAIN tables
      BY DEF RefsSound
    <3> QED BY <1>2, <1>3, <3>1 DEF TablesSoFar
  <2> HIDE DEF ref
  <2>3. Included(n) /\ Included(f.parent) => {ref.child, ref.parent} \subseteq DOMAIN read'.tables
    BY <1>1, <2>1, <2>2, FilterLeaves
  <2>4. Included(n) /\ Included(f.parent) => ref \in read'.fks
    BY <1>1, <2>1, <2>3, FilterLeaves
  <2>5. ref \in read'.fks => Included(n) /\ Included(f.parent)
    BY <1>1, <2>1, FilterLeaves
  <2> QED BY <2>4, <2>5 DEF ref
<1>4. ASSUME NEW n, NEW f PROVE ForeignKeyOf(n, f)' = ForeignKeyOf(n, f) /\ Included(n)' = Included(n)
  BY <1>1, Unmoved
<1> QED BY <1>1, <1>3, <1>4 DEF RefsFiltered

\* Steps that leave the refs that were read keep the invariants of them.
LEMMA RefsStay ==
  ASSUME RefsSoFar, RefsFiltered, UNCHANGED <<engine, opts>>, read'.fks = read.fks,
         touched \subseteq touched',
         \A n : n \notin touched' =>
           (n \in DOMAIN tables' <=> n \in DOMAIN tables) /\ (n \in DOMAIN tables => tables'[n] = tables[n]),
         step' = "filter" => step = "filter", AfterFilter' => AfterFilter
  PROVE  RefsSoFar' /\ RefsFiltered'
<1>1. ASSUME NEW n \in DOMAIN tables' \ touched', NEW f \in tables'[n].fks, f.parent \notin touched'
      PROVE  n \in DOMAIN tables \ touched /\ f \in tables[n].fks /\ f.parent \notin touched
  BY <1>1
<1>2. ASSUME NEW n, NEW f PROVE ForeignKeyOf(n, f)' = ForeignKeyOf(n, f) /\ Included(n)' = Included(n)
  BY Unmoved
<1>3. RefsSoFar'
  BY <1>1, <1>2 DEF RefsSoFar
<1>4. RefsFiltered'
  BY <1>1, <1>2 DEF RefsFiltered
<1> QED BY <1>3, <1>4

-----------------------------------------------------------------------------
(* The theorems. *)

\* Foreign keys lead to tables: at first, and after every statement.
LEMMA RefsSoundStep == ASSUME TypeInv, RefsSound, [Next]_vars PROVE RefsSound'
<1>1. CASE tables' = tables
  BY <1>1 DEF RefsSound
<1>2. CASE Change
  BY <1>2, ChangeTouches DEF RefsSound, Sound
<1>3. tables' = tables \/ Change
  BY DEF Next, Change, QueryColumns, QueryKeys, QueryMariadbIndexes, QueryChecks, QueryEnums, QueryInlineEnums,
     QueryForeignKeys, Query, Filter, FetchRows, Fail, vars
<1> QED BY <1>1, <1>2, <1>3

\* The invariant holds of every step.
LEMMA Step == ASSUME IInv, [Next]_vars PROVE IInv'
<1>1. TypeInv /\ RefsSound /\ TablesSoFar /\ TablesFiltered /\ RefsSoFar /\ RefsFiltered
  BY DEF IInv
<1>2. TypeInv' /\ RefsSound'
  BY <1>1, TypeStep, RefsSoundStep
<1>3. CASE QueryColumns \/ QueryKeys \/ QueryMariadbIndexes \/ QueryChecks \/ QueryEnums \/ QueryInlineEnums
             \/ QueryForeignKeys
  <2>1. TablesSoFar' /\ RefsSoFar' /\ ~AfterFilter'
    BY <1>1, <1>3, QueriesKeepTables, QueriesKeepRefs
  <2> QED BY <1>2, <2>1 DEF IInv, TablesFiltered, RefsFiltered
<1>4. CASE Filter
  <2>1. TablesFiltered' /\ RefsFiltered'
    BY <1>1, <1>4, FilterKeepsTables, FilterKeepsRefs
  <2>2. ~Filtering' /\ step' # "filter"
    BY <1>4 DEF Filter, Pending, Filtering
  <2> QED BY <1>2, <2>1, <2>2 DEF IInv, TablesSoFar, RefsSoFar
<1>5. ASSUME NEW n \in pending, FetchRows(n) PROVE IInv'
  <2>1. /\ step = "data" /\ step' \in {"data", "done"}
        /\ UNCHANGED <<engine, opts, tables, touched>>
    BY <1>5 DEF FetchRows, Pending
  <2>2. TablesFiltered'
    BY <1>1, <1>5, FetchKeepsTables
  <2>3. RefsSoFar' /\ RefsFiltered'
    <3>1. read'.fks = read.fks
      BY <1>1, <1>5, FetchStep
    <3> QED BY <1>1, <2>1, <3>1, RefsStay DEF AfterFilter
  <2>4. ~Filtering'
    BY <2>1 DEF Filtering
  <2> QED BY <1>2, <2>2, <2>3, <2>4 DEF IInv, TablesSoFar
<1>6. CASE Fail
  <2>1. ~Filtering' /\ ~AfterFilter' /\ step' # "filter"
    BY <1>6 DEF Fail, Filtering, AfterFilter
  <2> QED BY <1>2, <2>1 DEF IInv, TablesSoFar, TablesFiltered, RefsSoFar, RefsFiltered
<1>7. CASE Change
  <2>1. TablesSoFar' /\ TablesFiltered'
    BY <1>1, <1>7, ChangeTouches, TablesStay
  <2>2. RefsSoFar' /\ RefsFiltered'
    BY <1>1, <1>7, ChangeTouches, RefsStay DEF AfterFilter
  <2> QED BY <1>2, <2>1, <2>2 DEF IInv
<1>8. CASE UNCHANGED vars
  <2>1. UNCHANGED <<engine, opts, tables, touched, read, step, pending>>
    BY <1>8 DEF vars
  <2>2. TablesSoFar' /\ TablesFiltered'
    BY <1>1, <2>1, TablesStay
  <2>3. RefsSoFar' /\ RefsFiltered'
    BY <1>1, <2>1, RefsStay DEF AfterFilter
  <2> QED BY <1>2, <2>2, <2>3 DEF IInv
<1> QED BY <1>3, <1>4, <1>5, <1>6, <1>7, <1>8 DEF Next, Change

\* A reader starts on a database that is intact.
LEMMA InitIInv == Init => IInv
<1> SUFFICES ASSUME Init PROVE IInv
  OBVIOUS
<1>1. IsSchema(read) /\ DOMAIN read.tables = {}
  BY DEF Init, Nothing, IsSchema, IsRecord
<1>2. TypeInv
  BY <1>1, StatementsAssumption DEF Init, TypeInv, TypeOK, StepsOf, Steps, Engines
<1>3. RefsSound
  BY DatabasesAssumption DEF Init, RefsSound
<1> QED BY <1>2, <1>3 DEF Init, IInv, TablesSoFar, TablesFiltered, RefsSoFar, RefsFiltered, Filtering, AfterFilter

\* What was read so far is always what the queries report of the tables that
\* nobody touched.
THEOREM Invariance == Spec => []IInv
  BY InitIInv, Step, PTL DEF Spec

\* Rows are read only where --data asks for them, a failed reader has nothing
\* to write, and the queries come in the order of the engine.
THEOREM TypeCorrect == Spec => []TypeOK
<1>1. IInv => TypeOK
  BY DEF IInv, TypeInv
<1> QED BY <1>1, Invariance, PTL

\* A table and a ref that no other client touches while the catalogue is read
\* are reported as if they were read at once, however many statements change
\* the others.
THEOREM UntouchedCorrect == Spec => []UntouchedReported
<1>1. IInv => UntouchedReported
  <2> SUFFICES ASSUME IInv, step = "done" PROVE UntouchedReported
    BY DEF UntouchedReported, UntouchedTables, UntouchedRefs
  <2>1. pending = {} /\ AfterFilter
    BY DEF IInv, TypeInv, TypeOK, AfterFilter
  <2>2. ASSUME NEW n \in (DOMAIN tables \cup DOMAIN read.tables) \ touched
        PROVE  /\ n \in DOMAIN read.tables <=> Listed(n) /\ Included(n)
               /\ n \in DOMAIN read.tables =>
                    /\ [read.tables[n] EXCEPT !.records = {}] = AtOnce(n, tables[n])
                    /\ OwnRows => read.tables[n].records = IF opts.data THEN Rows(tables[n]) ELSE {}
    <3>1. /\ n \in DOMAIN read.tables <=> Listed(n) /\ Included(n)
          /\ n \in DOMAIN read.tables =>
               /\ [read.tables[n] EXCEPT !.records = {}] = AtOnce(n, tables[n])
               /\ OwnRows => read.tables[n].records = IF opts.data /\ n \notin pending THEN Rows(tables[n]) ELSE {}
      BY <2>1 DEF IInv, TablesFiltered
    <3> QED BY <2>1, <3>1
  <2>3. UntouchedRefs
    BY <2>1 DEF IInv, RefsFiltered, UntouchedRefs
  <2> QED BY <2>2, <2>3 DEF UntouchedReported, UntouchedTables
<1> QED BY <1>1, Invariance, PTL

-----------------------------------------------------------------------------
(* Nothing is invented: what there is of a table was in one of its forms.  *)

ColumnIn(F, c) == \E form \in F : \E d \in ToSet(form.cols) : d.name = c.name /\ d.notnull = c.notnull

KeyIn(F, cols, kinds) == \E form \in F : \E k \in form.keys : k.cols = cols /\ k.kind \in kinds

ColumnFound(F, c) ==
  /\ IsColumn(c)
  /\ ColumnIn(F, c)
  /\ c.pk => KeyIn(F, <<c.name>>, {"primary"})
  /\ c.unique => KeyIn(F, <<c.name>>, {"unique"})

\* Everything in table t is in one of the forms F.
TableFound(F, t) ==
  /\ IsTable(t)
  /\ \A i \in DOMAIN t.cols : ColumnFound(F, t.cols[i])
  /\ \A k \in t.constraints : KeyIn(F, k.cols, {"primary", "unique"})
  /\ \A x \in t.indexes : KeyIn(F, x.keys, {"unique", "uniqueindex", "index"})

\* More forms have more in them.
LEMMA FoundInMore ==
  ASSUME NEW F, NEW G, F \subseteq G, NEW t, TableFound(F, t)
  PROVE  TableFound(G, t)
<1>1. \A c : ColumnIn(F, c) => ColumnIn(G, c)
  BY DEF ColumnIn
<1>2. \A cols, kinds : KeyIn(F, cols, kinds) => KeyIn(G, cols, kinds)
  BY DEF KeyIn
<1> QED BY <1>1, <1>2 DEF TableFound, ColumnFound

\* Columns that are found make a table found, with keys that are.
LEMMA FoundParts ==
  ASSUME NEW F, NEW t, TableFound(F, t), NEW u, IsTable(u),
         \A i \in DOMAIN u.cols : ColumnFound(F, u.cols[i]),
         \A k \in u.constraints \ t.constraints : KeyIn(F, k.cols, {"primary", "unique"}),
         \A x \in u.indexes \ t.indexes : KeyIn(F, x.keys, {"unique", "uniqueindex", "index"})
  PROVE  TableFound(F, u)
BY DEF TableFound

\* The first query takes the columns of the form, and no key.
LEMMA PlainFound ==
  ASSUME NEW F, NEW form \in F
  PROVE  TableFound(F, Plain(form))
<1> DEFINE t == Plain(form)
<1>1. /\ t.cols = [i \in DOMAIN form.cols |-> Bare(form.cols[i])]
      /\ t.constraints = {} /\ t.indexes = {}
  BY DEF Plain
<1>2. IsTable(t)
  BY DEF Plain, IsTable, IsRecord
<1>3. ASSUME NEW i \in DOMAIN form.cols
      PROVE  ColumnFound(F, Bare(form.cols[i]))
  <2> DEFINE c == Bare(form.cols[i])
  <2>1. /\ c.name = form.cols[i].name /\ c.notnull = form.cols[i].notnull
        /\ c.pk = FALSE /\ c.unique = FALSE /\ IsColumn(c)
    BY DEF Bare, IsColumn, IsRecord
  <2> HIDE DEF c
  <2>2. form.cols[i] \in ToSet(form.cols)
    BY DEF ToSet
  <2>3. ColumnIn(F, c)
    BY <2>1, <2>2 DEF ColumnIn
  <2>4. ColumnFound(F, c)
    BY <2>1, <2>3 DEF ColumnFound
  <2> QED BY <2>4 DEF c
<1> HIDE DEF t
<1>4. TableFound(F, t)
  BY <1>1, <1>2, <1>3 DEF TableFound
<1> QED BY <1>4 DEF t

\* A mark on a column of a key that is there leaves it found.
LEMMA MarkFound ==
  ASSUME NEW F, NEW c, ColumnFound(F, c), NEW pk, NEW unique,
         pk => KeyIn(F, <<c.name>>, {"primary"}),
         unique => KeyIn(F, <<c.name>>, {"unique"})
  PROVE  /\ ColumnFound(F, [c EXCEPT !.pk = pk, !.unique = unique])
         /\ ColumnFound(F, [c EXCEPT !.unique = unique])
         /\ \A inc : ColumnFound(F, [c EXCEPT !.pk = pk, !.inc = inc])
         /\ \A type : ColumnFound(F, [c EXCEPT !.type = type])
<1>1. ASSUME NEW d, IsColumn(d), d.name = c.name, d.notnull = c.notnull,
             d.pk = pk \/ d.pk = c.pk, d.unique = unique \/ d.unique = c.unique
      PROVE  ColumnFound(F, d)
  <2>1. ColumnIn(F, d)
    BY <1>1 DEF ColumnFound, ColumnIn
  <2> QED BY <1>1, <2>1 DEF ColumnFound
<1>2. IsColumn(c)
  BY DEF ColumnFound
<1>3. ColumnFound(F, [c EXCEPT !.pk = pk, !.unique = unique])
  <2> DEFINE d == [c EXCEPT !.pk = pk, !.unique = unique]
  <2>1. IsColumn(d) /\ d.name = c.name /\ d.notnull = c.notnull /\ d.pk = pk /\ d.unique = unique
    BY <1>2 DEF IsColumn, IsRecord
  <2> HIDE DEF d
  <2>2. ColumnFound(F, d)
    BY <1>1, <2>1
  <2> QED BY <2>2 DEF d
<1>4. ColumnFound(F, [c EXCEPT !.unique = unique])
  <2> DEFINE d == [c EXCEPT !.unique = unique]
  <2>1. IsColumn(d) /\ d.name = c.name /\ d.notnull = c.notnull /\ d.pk = c.pk /\ d.unique = unique
    BY <1>2 DEF IsColumn, IsRecord
  <2> HIDE DEF d
  <2>2. ColumnFound(F, d)
    BY <1>1, <2>1
  <2> QED BY <2>2 DEF d
<1>5. ASSUME NEW inc PROVE ColumnFound(F, [c EXCEPT !.pk = pk, !.inc = inc])
  <2> DEFINE d == [c EXCEPT !.pk = pk, !.inc = inc]
  <2>1. IsColumn(d) /\ d.name = c.name /\ d.notnull = c.notnull /\ d.pk = pk /\ d.unique = c.unique
    BY <1>2 DEF IsColumn, IsRecord
  <2> HIDE DEF d
  <2>2. ColumnFound(F, d)
    BY <1>1, <2>1
  <2> QED BY <2>2 DEF d
<1>6. ASSUME NEW type PROVE ColumnFound(F, [c EXCEPT !.type = type])
  <2> DEFINE d == [c EXCEPT !.type = type]
  <2>1. IsColumn(d) /\ d.name = c.name /\ d.notnull = c.notnull /\ d.pk = c.pk /\ d.unique = c.unique
    BY <1>2 DEF IsColumn, IsRecord
  <2> HIDE DEF d
  <2>2. ColumnFound(F, d)
    BY <1>1, <2>1
  <2> QED BY <2>2 DEF d
<1> QED BY <1>3, <1>4, <1>5, <1>6

\* Keys of a form, as constraints and as indexes, mark their columns.
LEMMA KeysFound ==
  ASSUME NEW F, NEW form \in F, NEW t, TableFound(F, t),
         NEW A, NEW B, A \subseteq form.keys, B \subseteq form.keys,
         \A k \in A : k.kind \in {"primary", "unique"},
         \A k \in B : k.kind \in {"unique", "uniqueindex", "index"}
  PROVE  TableFound(F, WithKeys(t, {Constraint(k) : k \in A}, {Index(k) : k \in B}))
<1> DEFINE constraints == {Constraint(k) : k \in A}
           indexes == {Index(k) : k \in B}
           cols == Marked(t.cols, constraints)
           u == WithKeys(t, constraints, indexes)
<1>1. /\ u = [t EXCEPT !.cols = cols, !.constraints = t.constraints \cup constraints,
                       !.indexes = t.indexes \cup indexes]
  BY DEF WithKeys
<1>2. ASSUME NEW k \in constraints
      PROVE  /\ KeyIn(F, k.cols, {"primary", "unique"})
             /\ k.pk => KeyIn(F, k.cols, {"primary"})
             /\ ~k.pk => KeyIn(F, k.cols, {"unique"})
  <2>1. PICK j \in A : k = Constraint(j)
    OBVIOUS
  <2>2. k.cols = j.cols /\ k.pk = (j.kind = "primary") /\ j \in form.keys
    BY <2>1 DEF Constraint
  <2> QED BY <2>2 DEF KeyIn
<1>3. ASSUME NEW x \in indexes
      PROVE  KeyIn(F, x.keys, {"unique", "uniqueindex", "index"})
  <2>1. PICK j \in B : x = Index(j)
    OBVIOUS
  <2>2. x.keys = j.cols /\ j \in form.keys
    BY <2>1 DEF Index
  <2> QED BY <2>2 DEF KeyIn
<1> HIDE DEF constraints, indexes
<1>4. DOMAIN cols = DOMAIN t.cols
  BY DEF Marked
<1>5. ASSUME NEW i \in DOMAIN t.cols
      PROVE  ColumnFound(F, cols[i])
  <2> DEFINE c == t.cols[i]
             pk == c.pk \/ \E k \in constraints : k.pk /\ k.cols = <<c.name>>
             unique == c.unique \/ \E k \in constraints : ~k.pk /\ k.cols = <<c.name>>
  <2>1. ColumnFound(F, c)
    BY DEF TableFound
  <2>2. cols[i] = [c EXCEPT !.pk = pk, !.unique = unique]
    BY DEF Marked
  <2>3. pk => KeyIn(F, <<c.name>>, {"primary"})
    BY <1>2, <2>1 DEF ColumnFound
  <2>4. unique => KeyIn(F, <<c.name>>, {"unique"})
    BY <1>2, <2>1 DEF ColumnFound
  <2> HIDE DEF c, pk, unique, cols
  <2>5. ColumnFound(F, [c EXCEPT !.pk = pk, !.unique = unique])
    BY <2>1, <2>3, <2>4, MarkFound
  <2> QED BY <2>2, <2>5
<1> HIDE DEF cols
<1>6. /\ IsTable(u) /\ u.cols = cols
      /\ u.constraints = t.constraints \cup constraints
      /\ u.indexes = t.indexes \cup indexes
  <2>1. IsTable(t)
    BY DEF TableFound
  <2> HIDE DEF u
  <2> QED BY <1>1, <2>1 DEF IsTable, IsRecord
<1> HIDE DEF u
<1>7. TableFound(F, u)
  BY <1>2, <1>3, <1>4, <1>5, <1>6, FoundParts
<1> QED BY <1>7 DEF u, constraints, indexes

\* The keys of PostgreSQL and of MariaDB.
LEMMA ServerKeysFound ==
  ASSUME NEW F, NEW form \in F, NEW t, TableFound(F, t), NEW d, Reportable(d, form)
  PROVE  /\ TableFound(F, PostgresKeys(t, form))
         /\ TableFound(F, MariadbConstraints(t, form))
         /\ TableFound(F, MariadbIndexes(t, form))
<1>1. \A k \in form.keys : k.kind \in {"primary", "unique", "uniqueindex", "index"}
  BY DEF Reportable
<1>2. TableFound(F, PostgresKeys(t, form))
  <2> DEFINE A == {k \in form.keys : k.kind \in {"primary", "unique"}}
             B == form.keys \ A
  <2>1. /\ A \subseteq form.keys /\ B \subseteq form.keys
        /\ \A k \in A : k.kind \in {"primary", "unique"}
        /\ \A k \in B : k.kind \in {"unique", "uniqueindex", "index"}
    BY <1>1
  <2>2. PostgresKeys(t, form) = WithKeys(t, {Constraint(k) : k \in A}, {Index(k) : k \in B})
    BY DEF PostgresKeys
  <2> HIDE DEF A, B
  <2> QED BY <2>1, <2>2, KeysFound
<1>3. TableFound(F, MariadbConstraints(t, form))
  <2> DEFINE keys == {k \in form.keys : k.kind \in {"primary", "unique"}}
             B == {k \in keys : k.kind = "unique" /\ Len(k.cols) = 1 /\ k.name # k.cols[1]}
             A == keys \ B
  <2>1. /\ A \subseteq form.keys /\ B \subseteq form.keys
        /\ \A k \in A : k.kind \in {"primary", "unique"}
        /\ \A k \in B : k.kind \in {"unique", "uniqueindex", "index"}
    OBVIOUS
  <2>2. MariadbConstraints(t, form) = WithKeys(t, {Constraint(k) : k \in A}, {Index(k) : k \in B})
    BY DEF MariadbConstraints
  <2> HIDE DEF A, B
  <2> QED BY <2>1, <2>2, KeysFound
<1>4. TableFound(F, MariadbIndexes(t, form))
  <2> DEFINE taken == {k.name : k \in {x \in form.keys : x.kind # "index"}} \cup {f.name : f \in form.fks}
             B == {x \in form.keys : x.name \notin taken}
  <2>1. /\ B \subseteq form.keys
        /\ \A k \in B : k.kind \in {"unique", "uniqueindex", "index"}
    OBVIOUS
  <2>2. MariadbIndexes(t, form) = WithKeys(t, {Constraint(k) : k \in {}}, {Index(k) : k \in B})
    BY DEF MariadbIndexes
  <2> HIDE DEF B, taken
  <2>3. {} \subseteq form.keys /\ \A k \in {} : k.kind \in {"primary", "unique"}
    OBVIOUS
  <2>4. TableFound(F, WithKeys(t, {Constraint(k) : k \in {}}, {Index(k) : k \in B}))
    BY <2>1, <2>3, KeysFound
  <2> QED BY <2>2, <2>4
<1> QED BY <1>2, <1>3, <1>4

\* Types are no part of it.
LEMMA EnumsFound ==
  ASSUME NEW F, NEW form, NEW n, NEW t, TableFound(F, t)
  PROVE  TableFound(F, WithEnums(n, t, form))
<1> DEFINE inline == {c.name : c \in {x \in ToSet(form.cols) : IsInlineEnum(x)}}
           cols == [i \in DOMAIN t.cols |->
                      IF t.cols[i].name \in inline
                      THEN [t.cols[i] EXCEPT !.type = <<EnumName(n, t.cols[i].name)>>] ELSE t.cols[i]]
<1>1. WithEnums(n, t, form) = [t EXCEPT !.cols = cols]
  BY DEF WithEnums
<1> HIDE DEF inline
<1>2. ASSUME NEW i \in DOMAIN t.cols
      PROVE  ColumnFound(F, cols[i])
  <2>1. ColumnFound(F, t.cols[i])
    BY DEF TableFound
  <2>2. ColumnFound(F, [t.cols[i] EXCEPT !.type = <<EnumName(n, t.cols[i].name)>>])
    <3> DEFINE c == t.cols[i]
    <3> HIDE DEF c
    <3>1. \A type : ColumnFound(F, [c EXCEPT !.type = type])
      BY <2>1, MarkFound DEF c
    <3> QED BY <3>1 DEF c
  <2> QED BY <2>1, <2>2
<1>3. DOMAIN cols = DOMAIN t.cols
  OBVIOUS
<1> HIDE DEF cols
<1> DEFINE u == [t EXCEPT !.cols = cols]
<1>4. /\ IsTable(u) /\ u.cols = cols /\ u.constraints = t.constraints /\ u.indexes = t.indexes
  <2>1. IsTable(t)
    BY DEF TableFound
  <2> QED BY <2>1 DEF IsTable, IsRecord
<1> HIDE DEF u
<1>5. TableFound(F, u)
  BY <1>2, <1>3, <1>4, FoundParts
<1> QED BY <1>1, <1>5 DEF u

\* The keys of SQLite.
LEMMA SqliteFound ==
  ASSUME NEW F, NEW form \in F, Reportable("sqlite", form)
  PROVE  /\ TableFound(F, Sqlite(form))
         /\ \A t : TableFound(F, t) => TableFound(F, SqliteIndexes(t, form))
<1>1. /\ \A k \in form.keys : k.kind \in {"primary", "unique", "uniqueindex", "index"}
      /\ \A k \in form.keys : k.kind = "unique" => k.cols = <<k.cols[1]>>
  BY DEF Reportable
<1>2. TableFound(F, Sqlite(form))
  <2> DEFINE alone(i) == <<form.cols[i].name>> \in PrimaryKeys(form)
             cols == [i \in DOMAIN form.cols |->
                        [Bare(form.cols[i]) EXCEPT
                           !.pk = alone(i), !.inc = alone(i) /\ form.cols[i].type = <<"integer">>]]
             constraints == {[name |-> "", cols |-> key, pk |-> TRUE] :
                               key \in {x \in PrimaryKeys(form) : Len(x) > 1}}
             t == Plain(form)
             u == [t EXCEPT !.cols = cols, !.constraints = constraints]
  <2>1. Sqlite(form) = u
    BY DEF Sqlite
  <2>2. TableFound(F, t)
    BY PlainFound
  <2>3. \A key \in PrimaryKeys(form) : KeyIn(F, key, {"primary"}) /\ KeyIn(F, key, {"primary", "unique"})
    BY DEF PrimaryKeys, KeyIn
  <2>4. ASSUME NEW i \in DOMAIN form.cols
        PROVE  ColumnFound(F, cols[i])
    <3> DEFINE c == Bare(form.cols[i])
               pk == alone(i)
               inc == alone(i) /\ form.cols[i].type = <<"integer">>
    <3>1. ColumnFound(F, c) /\ c.name = form.cols[i].name
      <4>1. t.cols[i] = c /\ i \in DOMAIN t.cols
        BY DEF Plain
      <4> QED BY <2>2, <4>1 DEF TableFound, Bare
    <3>2. pk => KeyIn(F, <<c.name>>, {"primary"})
      BY <2>3, <3>1
    <3>3. cols[i] = [c EXCEPT !.pk = pk, !.inc = inc]
      OBVIOUS
    <3> HIDE DEF c, pk, inc
    <3>4. FALSE => KeyIn(F, <<c.name>>, {"unique"})
      OBVIOUS
    <3>5. \A x : ColumnFound(F, [c EXCEPT !.pk = pk, !.inc = x])
      BY <3>1, <3>2, <3>4, MarkFound
    <3> QED BY <3>3, <3>5
  <2>5. DOMAIN cols = DOMAIN form.cols
    OBVIOUS
  <2>6. ASSUME NEW k \in constraints
        PROVE  KeyIn(F, k.cols, {"primary", "unique"})
    <3>1. PICK key \in PrimaryKeys(form) : k = [name |-> "", cols |-> key, pk |-> TRUE]
      OBVIOUS
    <3>2. k.cols = key
      BY <3>1
    <3> QED BY <2>3, <3>2
  <2> HIDE DEF cols, constraints
  <2>7. IsTable(u) /\ u.cols = cols /\ u.constraints = constraints /\ u.indexes = t.indexes
    <3>1. IsTable(t)
      BY <2>2 DEF TableFound
    <3> QED BY <3>1 DEF IsTable, IsRecord
  <2> HIDE DEF u, t
  <2>8. TableFound(F, u)
    BY <2>2, <2>4, <2>5, <2>6, <2>7, FoundParts
  <2> QED BY <2>1, <2>8
<1>3. ASSUME NEW t, TableFound(F, t)
      PROVE  TableFound(F, SqliteIndexes(t, form))
  <2> DEFINE unique == {k \in form.keys : k.kind = "unique"}
             listed == {k \in form.keys : k.kind # "primary" /\ (k \in unique => Len(k.cols) > 1)}
             marked(i) == \E k \in unique : t.cols[i].name \in ToSet(k.cols)
             cols == [i \in DOMAIN t.cols |-> [t.cols[i] EXCEPT !.unique = marked(i)]]
             indexes == {Index(k) : k \in listed}
             u == [t EXCEPT !.cols = cols, !.indexes = indexes]
  <2>1. SqliteIndexes(t, form) = u
    BY DEF SqliteIndexes
  <2>2. ASSUME NEW x \in indexes
        PROVE  KeyIn(F, x.keys, {"unique", "uniqueindex", "index"})
    <3>1. PICK j \in listed : x = Index(j)
      OBVIOUS
    <3>2. x.keys = j.cols /\ j \in form.keys /\ j.kind \in {"unique", "uniqueindex", "index"}
      BY <1>1, <3>1 DEF Index
    <3> QED BY <3>2 DEF KeyIn
  <2>3. ASSUME NEW i \in DOMAIN t.cols
        PROVE  ColumnFound(F, cols[i])
    <3> DEFINE c == t.cols[i]
               m == marked(i)
    <3>1. ColumnFound(F, c)
      BY <1>3 DEF TableFound
    <3>2. m => KeyIn(F, <<c.name>>, {"unique"})
      <4> SUFFICES ASSUME m PROVE KeyIn(F, <<c.name>>, {"unique"})
        OBVIOUS
      <4>1. PICK k \in unique : c.name \in ToSet(k.cols)
        OBVIOUS
      <4>2. k \in form.keys /\ k.kind = "unique" /\ k.cols = <<k.cols[1]>>
        BY <1>1
      <4>3. \A x : ToSet(<<x>>) = {x}
        BY DEF ToSet
      <4>4. c.name = k.cols[1]
        BY <4>1, <4>2, <4>3
      <4> HIDE DEF c
      <4> QED BY <4>2, <4>4 DEF KeyIn
    <3>3. cols[i] = [c EXCEPT !.unique = m]
      OBVIOUS
    <3> HIDE DEF c, m
    <3>4. FALSE => KeyIn(F, <<c.name>>, {"primary"})
      OBVIOUS
    <3> HIDE DEF cols, unique, listed, indexes
    <3>5. ColumnFound(F, [c EXCEPT !.unique = m])
      BY <3>1, <3>2, <3>4, MarkFound
    <3> QED BY <3>3, <3>5
  <2>4. DOMAIN cols = DOMAIN t.cols
    OBVIOUS
  <2> HIDE DEF cols, indexes
  <2>5. IsTable(u) /\ u.cols = cols /\ u.constraints = t.constraints /\ u.indexes = indexes
    <3>1. IsTable(t)
      BY <1>3 DEF TableFound
    <3> QED BY <3>1 DEF IsTable, IsRecord
  <2> HIDE DEF u
  <2>6. TableFound(F, u)
    BY <1>3, <2>2, <2>3, <2>4, <2>5, FoundParts
  <2> QED BY <2>1, <2>6
<1> QED BY <1>2, <1>3

\* Whatever there is of a table by now is in one of the forms that it had.
FormsReportable == \A n \in DOMAIN tables : Reportable(engine, tables[n])
FormsSeen == step \notin {"columns", "failed"} => \A n \in DOMAIN tables : tables[n] \in Forms(n)
TablesFound == \A n \in DOMAIN read.tables : TableFound(Forms(n), read.tables[n])
RefsFound == \A f \in read.fks : HadRef(f)

FoundInv == FormsReportable /\ FormsSeen /\ TablesFound /\ RefsFound

\* More forms are seen, never fewer.
LEMMA SeenGrows ==
  ASSUME seen \subseteq seen'
  PROVE  /\ \A n : Forms(n) \subseteq Forms(n)'
         /\ \A n, t : TableFound(Forms(n), t) => TableFound(Forms(n)', t)
         /\ \A f : HadRef(f) => HadRef(f)'
<1>1. \A n : Forms(n) \subseteq Forms(n)'
  BY DEF Forms
<1>2. ASSUME NEW n, NEW t, TableFound(Forms(n), t)
      PROVE  TableFound(Forms(n)', t)
  <2> DEFINE F == Forms(n)
             G == Forms(n)'
  <2>1. F \subseteq G /\ TableFound(F, t)
    BY <1>1, <1>2
  <2> HIDE DEF F, G
  <2>2. TableFound(G, t)
    BY <2>1, FoundInMore
  <2> QED BY <2>2 DEF G
<1>3. \A f : HadRef(f) => HadRef(f)'
  BY <1>1 DEF HadRef
<1> QED BY <1>1, <1>2, <1>3

\* What was seen of tables that are left alone is found after it too.
LEMMA FoundStays ==
  ASSUME FormsReportable, step \notin {"columns", "failed"}, FormsSeen, UNCHANGED <<engine, tables>>, seen \subseteq seen',
         \A n \in DOMAIN read'.tables : TableFound(Forms(n), read'.tables[n]),
         \A f \in read'.fks : HadRef(f)
  PROVE  FoundInv'
<1>1. /\ \A n : Forms(n) \subseteq Forms(n)'
      /\ \A n, t : TableFound(Forms(n), t) => TableFound(Forms(n)', t)
      /\ \A f : HadRef(f) => HadRef(f)'
  BY SeenGrows
<1>2. FormsReportable'
  BY DEF FormsReportable
<1>3. FormsSeen'
  BY <1>1 DEF FormsSeen
<1>4. TablesFound'
  BY <1>1 DEF TablesFound
<1>5. RefsFound'
  BY <1>1 DEF RefsFound
<1> QED BY <1>2, <1>3, <1>4, <1>5 DEF FoundInv

\* A query leaves the refs, and adds to the tables that are there what their
\* forms have.
LEMMA FoundQuery ==
  ASSUME FoundInv, UNCHANGED <<engine, tables, seen>>, step \notin {"columns", "failed"},
         read'.fks = read.fks, DOMAIN read'.tables = DOMAIN read.tables,
         \A n \in DOMAIN read.tables \ DOMAIN tables : read'.tables[n] = read.tables[n],
         \A n \in DOMAIN read.tables \cap DOMAIN tables : \A F :
           tables[n] \in F /\ TableFound(F, read.tables[n]) /\ Reportable(engine, tables[n])
             => TableFound(F, read'.tables[n])
  PROVE  FoundInv'
<1>1. ASSUME NEW n \in DOMAIN read'.tables
      PROVE  TableFound(Forms(n), read'.tables[n])
  <2>1. n \in DOMAIN read.tables /\ TableFound(Forms(n), read.tables[n])
    BY DEF FoundInv, TablesFound
  <2>2. CASE n \in DOMAIN tables
    <3>1. tables[n] \in Forms(n) /\ Reportable(engine, tables[n])
      BY <2>2 DEF FoundInv, FormsSeen, FormsReportable
    <3> QED BY <2>1, <2>2, <3>1
  <2>3. CASE n \notin DOMAIN tables
    BY <2>1, <2>3
  <2> QED BY <2>2, <2>3
<1>2. \A f \in read'.fks : HadRef(f)
  BY DEF FoundInv, RefsFound
<1> QED BY <1>1, <1>2, FoundStays DEF FoundInv

\* The first query.
LEMMA ColumnsFound == ASSUME TypeInv, FoundInv, QueryColumns PROVE FoundInv'
<1>1. /\ UNCHANGED <<engine, opts, tables>>
      /\ read'.tables = [n \in DOMAIN tables |-> ColumnsOf(tables[n])] /\ read'.fks = {}
      /\ seen' = {<<n, tables[n]>> : n \in DOMAIN tables}
  BY DEF QueryColumns, Query, Nothing
<1>2. FormsReportable'
  BY <1>1 DEF FoundInv, FormsReportable
<1>3. \A n \in DOMAIN tables : tables[n] \in Forms(n)'
  <2> SUFFICES ASSUME NEW n \in DOMAIN tables PROVE tables[n] \in Forms(n)'
    OBVIOUS
  <2> DEFINE v == <<n, tables[n]>>
  <2>1. v \in seen' /\ v[1] = n /\ v[2] = tables[n]
    BY <1>1
  <2> HIDE DEF v
  <2> QED BY <2>1 DEF Forms
<1>4. FormsSeen'
  BY <1>1, <1>3 DEF FormsSeen
<1>5. ASSUME NEW n \in DOMAIN tables
      PROVE  TableFound(Forms(n)', ColumnsOf(tables[n]))
  <2> DEFINE F == Forms(n)'
             form == tables[n]
  <2>1. form \in F /\ Reportable(engine, form)
    BY <1>3 DEF FoundInv, FormsReportable
  <2> HIDE DEF F, form
  <2>2. CASE engine = "sqlite"
    <3>1. TableFound(F, Sqlite(form))
      BY <2>1, <2>2, SqliteFound
    <3> QED BY <2>2, <3>1 DEF ColumnsOf, F, form
  <2>3. CASE engine # "sqlite"
    <3>1. TableFound(F, Plain(form))
      BY <2>1, PlainFound
    <3> QED BY <2>3, <3>1 DEF ColumnsOf, F, form
  <2> QED BY <2>2, <2>3
<1>6. TablesFound'
  BY <1>1, <1>5 DEF TablesFound
<1>7. RefsFound'
  BY <1>1 DEF RefsFound
<1> QED BY <1>2, <1>4, <1>6, <1>7 DEF FoundInv

\* The queries for keys and for enums.
LEMMA KeysAreFound ==
  ASSUME TypeInv, FoundInv, QueryKeys \/ QueryMariadbIndexes \/ QueryInlineEnums
  PROVE  FoundInv'
<1>0. IsSchema(read)
  BY DEF TypeInv
<1>1. CASE QueryKeys
  <2>1. /\ UNCHANGED <<engine, tables, seen>> /\ step \notin {"columns", "failed"}
        /\ read' = [read EXCEPT !.tables =
                     [n \in DOMAIN read.tables |-> IF Listed(n) THEN KeysOf(read.tables[n], tables[n]) ELSE read.tables[n]]]
    BY <1>1 DEF QueryKeys, Query
  <2>2. /\ read'.tables = [n \in DOMAIN read.tables |->
                             IF Listed(n) THEN KeysOf(read.tables[n], tables[n]) ELSE read.tables[n]]
        /\ read'.fks = read.fks
    BY <1>0, <2>1, SchemaKeeps
  <2>3. ASSUME NEW n \in DOMAIN tables, NEW F, NEW t, tables[n] \in F, TableFound(F, t), Reportable(engine, tables[n])
        PROVE  TableFound(F, KeysOf(t, tables[n]))
    <3> DEFINE form == tables[n]
    <3>1. form \in F /\ Reportable(engine, form)
      BY <2>3
    <3> HIDE DEF form
    <3>2. TableFound(F, PostgresKeys(t, form)) /\ TableFound(F, MariadbConstraints(t, form))
      BY <2>3, <3>1, ServerKeysFound
    <3>3. engine = "sqlite" => TableFound(F, SqliteIndexes(t, form))
      BY <2>3, <3>1, SqliteFound
    <3>4. engine \in {"postgres", "mariadb", "sqlite"}
      BY DEF TypeInv, TypeOK, Engines
    <3> QED BY <3>2, <3>3, <3>4 DEF KeysOf, form
  <2> QED BY <2>1, <2>2, <2>3, FoundQuery DEF Listed
<1>2. CASE QueryMariadbIndexes
  <2>1. /\ UNCHANGED <<engine, tables, seen>> /\ step \notin {"columns", "failed"}
        /\ read' = [read EXCEPT !.tables =
                     [n \in DOMAIN read.tables |-> IF Listed(n) THEN MariadbIndexes(read.tables[n], tables[n]) ELSE read.tables[n]]]
    BY <1>2 DEF QueryMariadbIndexes, Query
  <2>2. /\ read'.tables = [n \in DOMAIN read.tables |->
                             IF Listed(n) THEN MariadbIndexes(read.tables[n], tables[n]) ELSE read.tables[n]]
        /\ read'.fks = read.fks
    BY <1>0, <2>1, SchemaKeeps
  <2>3. ASSUME NEW n \in DOMAIN tables, NEW F, NEW t, tables[n] \in F, TableFound(F, t), Reportable(engine, tables[n])
        PROVE  TableFound(F, MariadbIndexes(t, tables[n]))
    <3> DEFINE form == tables[n]
    <3>1. form \in F /\ Reportable(engine, form)
      BY <2>3
    <3> HIDE DEF form
    <3>2. TableFound(F, MariadbIndexes(t, form))
      BY <2>3, <3>1, ServerKeysFound
    <3> QED BY <3>2 DEF form
  <2> QED BY <2>1, <2>2, <2>3, FoundQuery DEF Listed
<1>3. CASE QueryInlineEnums
  <2> DEFINE ts == [n \in DOMAIN read.tables |-> IF Listed(n) THEN WithEnums(n, read.tables[n], tables[n]) ELSE read.tables[n]]
  <2>1. /\ UNCHANGED <<engine, tables, seen>> /\ step \notin {"columns", "failed"}
        /\ \E x : read' = [[read EXCEPT !.enums = x] EXCEPT !.tables = ts]
    BY <1>0, <1>3, SchemaKeeps DEF QueryInlineEnums, Query
  <2> HIDE DEF ts
  <2>2. read'.tables = ts /\ read'.fks = read.fks
    <3>1. PICK x, r : r = [read EXCEPT !.enums = x] /\ read' = [r EXCEPT !.tables = ts]
      BY <2>1
    <3>2. IsSchema(r) /\ r.fks = read.fks
      BY <1>0, <3>1 DEF IsSchema, IsRecord
    <3> QED BY <3>1, <3>2, SchemaKeeps
  <2>3. \A n \in DOMAIN tables : \A F, t : TableFound(F, t) => TableFound(F, WithEnums(n, t, tables[n]))
    BY EnumsFound
  <2>4. /\ DOMAIN read'.tables = DOMAIN read.tables
        /\ \A n \in DOMAIN read.tables \ DOMAIN tables : read'.tables[n] = read.tables[n]
        /\ \A n \in DOMAIN read.tables \cap DOMAIN tables :
             read'.tables[n] = WithEnums(n, read.tables[n], tables[n])
    BY <2>2 DEF ts, Listed
  <2> QED BY <2>1, <2>2, <2>3, <2>4, FoundQuery
<1> QED BY <1>1, <1>2, <1>3

\* A foreign key of one column is reported as it is.
LEMMA RefAsItIs ==
  ASSUME NEW n, NEW g, engine = "postgres" => g.cols = <<g.cols[1]>> /\ g.pcols = <<g.pcols[1]>>
  PROVE  ForeignKeyOf(n, g) = [child |-> n, cols |-> g.cols, parent |-> g.parent, pcols |-> g.pcols,
                               ondelete |-> g.ondelete, onupdate |-> g.onupdate]
<1>1. CASE engine = "postgres"
  <2>1. Len(g.cols) = 1
    <3>1. \A x : Len(<<x>>) = 1
      OBVIOUS
    <3> QED BY <1>1, <3>1
  <2>2. Times(1) = {1} /\ ((1 - 1) \div 1) + 1 = 1 /\ ((1 - 1) % 1) + 1 = 1
    BY DEF Times
  <2>3. [i \in Times(1) |-> g.cols[((i - 1) \div 1) + 1]] = [i \in {1} |-> g.cols[1]]
    BY <2>2
  <2>4. [i \in Times(1) |-> g.pcols[((i - 1) % 1) + 1]] = [i \in {1} |-> g.pcols[1]]
    BY <2>2
  <2>5. \A x : <<x>> = [i \in {1} |-> x]
    <3> SUFFICES ASSUME NEW x PROVE <<x>> = [i \in {1} |-> x]
      OBVIOUS
    <3>1. <<x>> = [i \in 1 .. 1 |-> <<x>>[i]] /\ <<x>>[1] = x
      OBVIOUS
    <3>2. 1 .. 1 = {1}
      OBVIOUS
    <3> QED BY <3>1, <3>2
  <2>6. /\ [i \in Times(1) |-> g.cols[((i - 1) \div 1) + 1]] = g.cols
        /\ [i \in Times(1) |-> g.pcols[((i - 1) % 1) + 1]] = g.pcols
    <3> DEFINE c == g.cols[1]
               p == g.pcols[1]
    <3>1. g.cols = <<c>> /\ g.pcols = <<p>>
      BY <1>1
    <3> HIDE DEF c, p
    <3>2. g.cols = [i \in {1} |-> c] /\ g.pcols = [i \in {1} |-> p]
      BY <2>5, <3>1
    <3> QED BY <2>3, <2>4, <3>2 DEF c, p
  <2> QED BY <1>1, <2>1, <2>6 DEF ForeignKeyOf
<1>2. CASE engine # "postgres"
  BY <1>2 DEF ForeignKeyOf
<1> QED BY <1>1, <1>2

\* The query for foreign keys.
LEMMA RefsAreFound == ASSUME TypeInv, FoundInv, QueryForeignKeys PROVE FoundInv'
<1>0. IsSchema(read)
  BY DEF TypeInv
<1>1. /\ UNCHANGED <<engine, tables, seen>> /\ step \notin {"columns", "failed"}
      /\ read' = [read EXCEPT !.fks = UNION {ForeignKeysOf(n, tables[n]) : n \in DOMAIN tables}]
  BY DEF QueryForeignKeys, Query
<1>2. /\ read'.tables = read.tables
      /\ read'.fks = UNION {ForeignKeysOf(n, tables[n]) : n \in DOMAIN tables}
  BY <1>0, <1>1 DEF IsSchema, IsRecord
<1>3. ASSUME NEW f \in read'.fks PROVE HadRef(f)
  <2>1. PICK n \in DOMAIN tables : f \in ForeignKeysOf(n, tables[n])
    BY <1>2
  <2>2. PICK g \in tables[n].fks : f = ForeignKeyOf(n, g)
    BY <2>1 DEF ForeignKeysOf
  <2>3. tables[n] \in Forms(n) /\ Reportable(engine, tables[n])
    BY <1>1 DEF FoundInv, FormsSeen, FormsReportable
  <2>4. engine = "postgres" => g.cols = <<g.cols[1]>> /\ g.pcols = <<g.pcols[1]>>
    BY <2>3 DEF Reportable
  <2>5. f = [child |-> n, cols |-> g.cols, parent |-> g.parent, pcols |-> g.pcols,
             ondelete |-> g.ondelete, onupdate |-> g.onupdate]
    BY <2>2, <2>4, RefAsItIs
  <2>6. f.child = n
    BY <2>5
  <2> QED BY <2>3, <2>5, <2>6 DEF HadRef
<1>4. \A n \in DOMAIN read'.tables : TableFound(Forms(n), read'.tables[n])
  BY <1>2 DEF FoundInv, TablesFound
<1> QED BY <1>1, <1>3, <1>4, FoundStays DEF FoundInv

\* Rows are no part of it.
LEMMA RecordsFound ==
  ASSUME NEW F, NEW t, TableFound(F, t), NEW rows
  PROVE  TableFound(F, [t EXCEPT !.records = rows])
<1> DEFINE u == [t EXCEPT !.records = rows]
<1>1. IsTable(u) /\ u.cols = t.cols /\ u.constraints = t.constraints /\ u.indexes = t.indexes
  <2>1. IsTable(t)
    BY DEF TableFound
  <2> QED BY <2>1 DEF IsTable, IsRecord
<1> HIDE DEF u
<1>2. TableFound(F, u)
  BY <1>1 DEF TableFound
<1> QED BY <1>2 DEF u

\* The steps of other clients.
LEMMA ChangeFound ==
  ASSUME TypeInv, FoundInv, Change,
         \A n \in DOMAIN Versions[engine] : \A form \in Versions[engine][n] : Reportable(engine, form)
  PROVE  FoundInv'
<1>1. UNCHANGED <<engine, read, step>> /\ step \notin {"columns", "failed"}
  BY ChangeTouches
<1>2. seen \subseteq seen'
  BY DEF Change, ChangeTable, DropTable, ChangeEnums
<1>3. /\ \A n : Forms(n) \subseteq Forms(n)'
      /\ \A n, t : TableFound(Forms(n), t) => TableFound(Forms(n)', t)
      /\ \A f : HadRef(f) => HadRef(f)'
  BY <1>2, SeenGrows
<1>4. ASSUME NEW n \in DOMAIN tables'
      PROVE  Reportable(engine, tables'[n]) /\ tables'[n] \in Forms(n)'
  <2>0. n \in DOMAIN tables => Reportable(engine, tables[n]) /\ tables[n] \in Forms(n)'
    BY <1>1, <1>3 DEF FoundInv, FormsReportable, FormsSeen
  <2>1. CASE n \in DOMAIN tables /\ tables'[n] = tables[n]
    BY <2>0, <2>1
  <2>2. ASSUME NEW m \in DOMAIN Versions[engine], ChangeTable(m)
        PROVE  Reportable(engine, tables'[n]) /\ tables'[n] \in Forms(n)'
    <3>1. PICK form \in Versions[engine][m] : tables' = With(m, form) /\ seen' = seen \cup {<<m, form>>}
      BY <2>2 DEF ChangeTable
    <3>2. CASE n = m
      <4>1. tables'[n] = form
        BY <3>1, <3>2 DEF With
      <4> DEFINE v == <<n, form>>
      <4>2. v \in seen' /\ v[1] = n /\ v[2] = form
        BY <3>1, <3>2
      <4> HIDE DEF v
      <4>3. form \in Forms(n)'
        BY <4>2 DEF Forms
      <4> QED BY <4>1, <4>3
    <3>3. CASE n # m
      BY <2>0, <3>1, <3>3 DEF With
    <3> QED BY <3>2, <3>3
  <2>3. ASSUME NEW m \in DOMAIN tables, DropTable(m)
        PROVE  Reportable(engine, tables'[n]) /\ tables'[n] \in Forms(n)'
    BY <2>0, <2>3 DEF DropTable
  <2>4. ASSUME ChangeEnums
        PROVE  Reportable(engine, tables'[n]) /\ tables'[n] \in Forms(n)'
    BY <2>0, <2>4 DEF ChangeEnums
  <2> QED BY <2>2, <2>3, <2>4 DEF Change
<1>5. FormsReportable' /\ FormsSeen'
  BY <1>1, <1>4 DEF FormsReportable, FormsSeen
<1>6. TablesFound'
  BY <1>1, <1>3 DEF FoundInv, TablesFound
<1>7. RefsFound'
  BY <1>1, <1>3 DEF FoundInv, RefsFound
<1> QED BY <1>5, <1>6, <1>7 DEF FoundInv

\* The steps of the reader.
LEMMA FoundStep ==
  ASSUME TypeInv, FoundInv, [Next]_vars,
         \A n \in DOMAIN Versions[engine] : \A form \in Versions[engine][n] : Reportable(engine, form)
  PROVE  FoundInv'
<1>1. CASE QueryColumns
  BY <1>1, ColumnsFound
<1>2. CASE QueryKeys \/ QueryMariadbIndexes \/ QueryInlineEnums
  BY <1>2, KeysAreFound
<1>3. CASE QueryChecks \/ QueryEnums
  <2>1. UNCHANGED <<engine, tables, seen>> /\ step \notin {"columns", "failed"}
    BY <1>3 DEF QueryChecks, QueryEnums, Query
  <2>2. read'.tables = read.tables /\ read'.fks = read.fks
    BY <1>3 DEF QueryChecks, QueryEnums, TypeInv, IsSchema, IsRecord
  <2>3. /\ \A n \in DOMAIN read'.tables : TableFound(Forms(n), read'.tables[n])
        /\ \A f \in read'.fks : HadRef(f)
    BY <2>2 DEF FoundInv, TablesFound, RefsFound
  <2> QED BY <2>1, <2>3, FoundStays DEF FoundInv
<1>4. CASE QueryForeignKeys
  BY <1>4, RefsAreFound
<1>5. CASE Filter
  <2>1. UNCHANGED <<engine, tables, seen>> /\ step \notin {"columns", "failed"} /\ read' = Filtered(read) /\ IsSchema(read)
    BY <1>5 DEF Filter, TypeInv
  <2>2. /\ \A n \in DOMAIN read'.tables : n \in DOMAIN read.tables /\ read'.tables[n] = read.tables[n]
        /\ \A f \in read'.fks : f \in read.fks
    BY <2>1, FilterLeaves
  <2>3. /\ \A n \in DOMAIN read'.tables : TableFound(Forms(n), read'.tables[n])
        /\ \A f \in read'.fks : HadRef(f)
    BY <2>2 DEF FoundInv, TablesFound, RefsFound
  <2> QED BY <2>1, <2>3, FoundStays DEF FoundInv
<1>6. ASSUME NEW n \in pending, FetchRows(n) PROVE FoundInv'
  <2>1. UNCHANGED <<engine, tables, seen>> /\ step \notin {"columns", "failed"}
    BY <1>6 DEF FetchRows
  <2> DEFINE rows == {[c \in ColumnNames(read.tables[n].cols) |-> row[c]] : row \in Unqualified[n].rows}
  <2>2. /\ DOMAIN read'.tables = DOMAIN read.tables /\ read'.fks = read.fks
        /\ \A m \in DOMAIN read.tables \ {n} : read'.tables[m] = read.tables[m]
        /\ read'.tables[n] = [read.tables[n] EXCEPT !.records = rows]
    BY <1>6, FetchStep
  <2> HIDE DEF rows
  <2>3. ASSUME NEW m \in DOMAIN read'.tables
        PROVE  TableFound(Forms(m), read'.tables[m])
    <3>1. m \in DOMAIN read.tables /\ TableFound(Forms(m), read.tables[m])
      BY <2>2 DEF FoundInv, TablesFound
    <3>2. CASE m = n
      <4>1. TableFound(Forms(m), [read.tables[m] EXCEPT !.records = rows])
        BY <3>1, RecordsFound
      <4> QED BY <2>2, <3>2, <4>1
    <3>3. CASE m # n
      BY <2>2, <3>1, <3>3
    <3> QED BY <3>2, <3>3
  <2>4. \A f \in read'.fks : HadRef(f)
    BY <2>2 DEF FoundInv, RefsFound
  <2> QED BY <2>1, <2>3, <2>4, FoundStays DEF FoundInv
<1>7. CASE Fail
  <2>1. UNCHANGED <<engine, tables, seen>> /\ read' = Nothing
    BY <1>7 DEF Fail
  <2>2. DOMAIN read'.tables = {} /\ read'.fks = {}
    BY <2>1 DEF Nothing
  <2>3. FormsReportable' /\ FormsSeen' /\ TablesFound' /\ RefsFound'
    BY <1>7, <2>1, <2>2 DEF Fail, FoundInv, FormsReportable, FormsSeen, TablesFound, RefsFound
  <2> QED BY <2>3 DEF FoundInv
<1>8. CASE Change
  BY <1>8, ChangeFound
<1>9. CASE UNCHANGED vars
  <2>1. UNCHANGED <<engine, tables, seen, read, step>>
    BY <1>9 DEF vars
  <2> QED BY <2>1 DEF FoundInv, FormsReportable, FormsSeen, TablesFound, RefsFound, Forms, HadRef
<1> QED BY <1>1, <1>2, <1>3, <1>4, <1>5, <1>6, <1>7, <1>8, <1>9 DEF Next, Change

\* However the tables change while they are read: every column, key and ref of
\* the schema was one of its table at some time.
THEOREM NothingIsInvented ==
  ASSUME \A d \in Engines : AllReportable(d, Databases[d], Versions[d])
  PROVE  Spec => []NothingInvented
<1>1. ASSUME NEW d \in Engines
      PROVE  /\ \A base \in Databases[d] : \A n \in DOMAIN base.tables : Reportable(d, base.tables[n])
             /\ \A n \in DOMAIN Versions[d] : \A form \in Versions[d][n] : Reportable(d, form)
  BY DEF AllReportable
<1>2. Init => FoundInv
  <2> SUFFICES ASSUME Init PROVE FoundInv
    OBVIOUS
  <2>1. FormsReportable
    BY <1>1 DEF Init, FormsReportable
  <2>2. DOMAIN read.tables = {} /\ read.fks = {} /\ step = "columns"
    BY DEF Init, Nothing
  <2> QED BY <2>1, <2>2 DEF FoundInv, FormsSeen, TablesFound, RefsFound
<1>3. IInv /\ FoundInv /\ [Next]_vars => FoundInv'
  <2> SUFFICES ASSUME IInv, FoundInv, [Next]_vars PROVE FoundInv'
    OBVIOUS
  <2>1. TypeInv /\ engine \in Engines
    BY DEF IInv, TypeInv, TypeOK
  <2>2. \A n \in DOMAIN Versions[engine] : \A form \in Versions[engine][n] : Reportable(engine, form)
    BY <1>1, <2>1
  <2> QED BY <2>1, <2>2, FoundStep
<1>4. FoundInv => NothingInvented
  <2> SUFFICES ASSUME FoundInv, step = "done" PROVE NothingInvented
    BY DEF NothingInvented
  <2>1. ASSUME NEW n \in DOMAIN read.tables
        PROVE  /\ \A c \in ToSet(read.tables[n].cols) :
                    /\ HadColumn(n, c)
                    /\ c.pk => HadKey(n, <<c.name>>, {"primary"})
                    /\ c.unique => HadKey(n, <<c.name>>, {"unique"})
               /\ \A k \in read.tables[n].constraints : HadKey(n, k.cols, {"primary", "unique"})
               /\ \A x \in read.tables[n].indexes : HadKey(n, x.keys, {"unique", "uniqueindex", "index"})
    <3>1. TableFound(Forms(n), read.tables[n])
      BY DEF FoundInv, TablesFound
    <3>2. \A cols, kinds : KeyIn(Forms(n), cols, kinds) = HadKey(n, cols, kinds)
      BY DEF KeyIn, HadKey
    <3>3. \A c : ColumnIn(Forms(n), c) = HadColumn(n, c)
      BY DEF ColumnIn, HadColumn
    <3>4. ASSUME NEW c \in ToSet(read.tables[n].cols)
          PROVE  ColumnFound(Forms(n), c)
      <4>1. PICK i \in DOMAIN read.tables[n].cols : c = read.tables[n].cols[i]
        BY DEF ToSet
      <4> QED BY <3>1, <4>1 DEF TableFound
    <3>5. \A c \in ToSet(read.tables[n].cols) :
            /\ HadColumn(n, c)
            /\ c.pk => HadKey(n, <<c.name>>, {"primary"})
            /\ c.unique => HadKey(n, <<c.name>>, {"unique"})
      BY <3>2, <3>3, <3>4 DEF ColumnFound
    <3>6. /\ \A k \in read.tables[n].constraints : HadKey(n, k.cols, {"primary", "unique"})
          /\ \A x \in read.tables[n].indexes : HadKey(n, x.keys, {"unique", "uniqueindex", "index"})
      BY <3>1, <3>2 DEF TableFound
    <3> QED BY <3>5, <3>6
  <2>2. \A f \in read.fks : HadRef(f)
    BY DEF FoundInv, RefsFound
  <2> QED BY <2>1, <2>2 DEF NothingInvented
<1>5. Spec => []IInv
  BY Invariance
<1> QED BY <1>2, <1>3, <1>4, <1>5, PTL DEF Spec
=============================================================================
