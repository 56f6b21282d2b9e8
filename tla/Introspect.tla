----------------------------- MODULE Introspect -----------------------------
(***************************************************************************)
(* Reading the schema of a live database (introspect/).                    *)
(*                                                                         *)
(* The catalogue is read by one query after the other, in the order of the *)
(* engine: columns, keys, enums, foreign keys, and with --data the rows of *)
(* every table.  There is no transaction around them, so other clients may *)
(* change the database between two queries.  A query that fails ends the   *)
(* program without output.                                                 *)
(*                                                                         *)
(* Data.  The database is a function from table names to what the          *)
(* catalogue holds of a table (Form).  A key is PRIMARY KEY ("primary"), a *)
(* UNIQUE constraint ("unique"), an index made with CREATE UNIQUE INDEX    *)
(* ("uniqueindex"; MariaDB has no such difference) or another index.  A    *)
(* type is a tuple of words and signs, the name first; an enum written out is <<"ENUM", v1, ..>>.  A *)
(* pattern of a filter is the set of the names it matches.  The order of   *)
(* tables, keys and rows in a schema is left out.                          *)
(***************************************************************************)
EXTENDS Naturals, FiniteSets, Sequences, SequencesExt

\* Column == [name, type, notnull, inc, default, comment]
\* Key    == [name, cols, kind]
\* Fk     == [name, cols, parent, pcols, ondelete, onupdate]
\* Form   == [cols: Seq(Column), keys: SUBSET Key, fks: SUBSET Fk, rows, comment]

CONSTANTS
  Databases,      \* for every engine the databases [tables, enums] to read
  Versions,       \* for every engine and table name the forms a client can give it
  EnumVersions,   \* for every engine the enums a client can declare in one go
  Options,        \* the command lines: [include, exclude: sets of patterns, data, normalize:
                  \* BOOLEAN, schema, path: the PostgreSQL schema that is read, and the
                  \* one that a name without a schema is looked up in]
  Elsewhere,      \* the tables of another schema, as a function from names to forms
  MaxStatements   \* bound on the statements of other clients

Engines == {"postgres", "mariadb", "sqlite"}

ASSUME StatementsAssumption == MaxStatements \in Nat

\* A database has the tables that its foreign keys refer to.
ASSUME DatabasesAssumption ==
  \A d \in Engines : \A base \in Databases[d] :
    \A n \in DOMAIN base.tables : \A f \in base.tables[n].fks : f.parent \in DOMAIN base.tables

VARIABLES
  engine,      \* the database engine
  opts,        \* the command line
  tables,      \* the tables of the database
  enums,       \* the enum types of the database, as a function to their values
  step,        \* the query that comes next, or "filter", "data", "done", "failed"
  read,        \* the schema under construction
  pending,     \* the tables whose rows are still to be read
  touched,     \* the names that other clients changed since the first query
  seen,        \* every <<name, form>> there was since then
  statements   \* the statements of other clients

reader == <<engine, opts, step, read, pending>>
database == <<tables, enums, touched, seen, statements>>   \* and the other clients
vars == <<engine, opts, step, read, pending, tables, enums, touched, seen, statements>>

\* The query that comes after a query.
Following ==
  [postgres |-> [columns |-> "keys", keys |-> "checks", checks |-> "enums",
                 enums |-> "fks", fks |-> "filter"],
   mariadb  |-> [columns |-> "enums", enums |-> "constraints", constraints |-> "indexes",
                 indexes |-> "checks", checks |-> "fks", fks |-> "filter"],
   sqlite   |-> [columns |-> "indexes", indexes |-> "fks", fks |-> "filter"]]

-----------------------------------------------------------------------------
(* What a query reports of one table, and what becomes of it. *)

EnumNames == UNION {DOMAIN e : e \in EnumVersions[engine]}

\* What PostgreSQL calls a data type, and what it is reported as.
ShortNames ==
  {<< <<"character", "varying">>, "varchar">>, << <<"character">>, "char">>,
   << <<"timestamp", "without", "time", "zone">>, "timestamp">>, << <<"timestamp", "with", "time", "zone">>, "timestamptz">>,
   << <<"time", "without", "time", "zone">>, "time">>, << <<"time", "with", "time", "zone">>, "timetz">>,
   << <<"double", "precision">>, "float8">>, << <<"real">>, "float4">>}

\* The words of a name, with arguments or without.
IsType(type, words) == IsPrefix(words, type) /\ (Len(type) > Len(words) => type[Len(words) + 1] = "(")

\* pgColumnType: an enum is reported with its schema, unless that is public.
PostgresType(type) ==
  IF type[1] \in EnumNames /\ opts.schema # "public" THEN <<opts.schema, ".">> \o type
  ELSE IF \E name \in ShortNames : IsType(type, name[1])
  THEN LET name == CHOOSE n \in ShortNames : IsType(type, n[1])
       IN  <<name[2]>> \o SubSeq(type, Len(name[1]) + 1, Len(type))
  ELSE type

ReportedType(type) == IF engine = "postgres" THEN PostgresType(type) ELSE type

\* A table of the schema, with its columns only.
Bare(c) ==
  [name |-> c.name, type |-> ReportedType(c.type), notnull |-> c.notnull, default |-> c.default,
   comment |-> c.comment, inc |-> c.inc, pk |-> FALSE, unique |-> FALSE]

Plain(form) ==
  [cols |-> [i \in DOMAIN form.cols |-> Bare(form.cols[i])],
   constraints |-> {}, indexes |-> {}, records |-> {}, comment |-> form.comment]

\* SQLite reports the place of a column in the primary key with the column.
\* A key of one column is marked on it and makes an INTEGER count; a longer
\* one becomes a constraint without a name.
PrimaryKeys(form) == {k.cols : k \in {x \in form.keys : x.kind = "primary"}}

Sqlite(form) ==
  [Plain(form) EXCEPT
     !.cols = [i \in DOMAIN form.cols |->
                 LET alone == <<form.cols[i].name>> \in PrimaryKeys(form)
                 IN  [Bare(form.cols[i]) EXCEPT
                        !.pk = alone, !.inc = alone /\ form.cols[i].type = <<"integer">>]],
     !.constraints = {[name |-> "", cols |-> key, pk |-> TRUE] :
                        key \in {x \in PrimaryKeys(form) : Len(x) > 1}}]

ColumnsOf(form) == IF engine = "sqlite" THEN Sqlite(form) ELSE Plain(form)

Constraint(k) == [name |-> k.name, cols |-> k.cols, pk |-> k.kind = "primary"]
Index(k) == [name |-> k.name, keys |-> k.cols, unique |-> k.kind # "index"]

\* A faulty form of Marked: every column of a constraint is marked.
MarkedInAny(cols, constraints) ==
  [i \in DOMAIN cols |->
     [cols[i] EXCEPT !.pk = @ \/ \E k \in constraints : k.pk /\ cols[i].name \in ToSet(k.cols),
                     !.unique = @ \/ \E k \in constraints : ~k.pk /\ cols[i].name \in ToSet(k.cols)]]

\* A constraint of one column is marked on the column.
Marked(cols, constraints) ==
  [i \in DOMAIN cols |->
     [cols[i] EXCEPT !.pk = @ \/ \E k \in constraints : k.pk /\ k.cols = <<cols[i].name>>,
                     !.unique = @ \/ \E k \in constraints : ~k.pk /\ k.cols = <<cols[i].name>>]]

WithKeys(tbl, constraints, indexes) ==
  [tbl EXCEPT !.cols = Marked(@, constraints),
              !.constraints = @ \cup constraints,
              !.indexes = @ \cup indexes]

\* PostgreSQL: a unique index backs a constraint or it does not.
PostgresKeys(tbl, form) ==
  LET constraints == {k \in form.keys : k.kind \in {"primary", "unique"}}
  IN  WithKeys(tbl, {Constraint(k) : k \in constraints}, {Index(k) : k \in form.keys \ constraints})

\* MariaDB: a unique key of one column is that column's own if it has its
\* name, and an index otherwise.
MariadbConstraints(tbl, form) ==
  LET keys == {k \in form.keys : k.kind \in {"primary", "unique"}}
      named == {k \in keys : k.kind = "unique" /\ Len(k.cols) = 1 /\ k.name # k.cols[1]}
  IN  WithKeys(tbl, {Constraint(k) : k \in keys \ named}, {Index(k) : k \in named})

\* An index with the name of a constraint, or of a foreign key, is that
\* constraint's own.
MariadbIndexes(tbl, form) ==
  LET taken == {k.name : k \in {x \in form.keys : x.kind # "index"}} \cup {f.name : f \in form.fks}
  IN  WithKeys(tbl, {}, {Index(k) : k \in {x \in form.keys : x.name \notin taken}})

\* SQLite: every column of a UNIQUE constraint is marked unique, a constraint
\* of more than one is an index as well.
SqliteIndexes(tbl, form) ==
  LET unique == {k \in form.keys : k.kind = "unique"}
      listed == {k \in form.keys : k.kind # "primary" /\ (k \in unique => Len(k.cols) > 1)}
  IN  [tbl EXCEPT !.cols = [i \in DOMAIN @ |->
                              LET name == @[i].name
                              IN  [@[i] EXCEPT !.unique = \E k \in unique : name \in ToSet(k.cols)]],
                  !.indexes = {Index(k) : k \in listed}]

KeysOf(tbl, form) ==
  CASE engine = "postgres" -> PostgresKeys(tbl, form)
    [] engine = "mariadb"  -> MariadbConstraints(tbl, form)
    [] engine = "sqlite"   -> SqliteIndexes(tbl, form)

EnumName(n, c) == n \o "_" \o c

IsInlineEnum(c) == c.type[1] = "ENUM"

\* MariaDB has no named enums: a column gets one of its own.
InlineEnums(n, form) ==
  {[name |-> EnumName(n, c.name), values |-> Tail(c.type)] : c \in {x \in ToSet(form.cols) : IsInlineEnum(x)}}

WithEnums(n, tbl, form) ==
  LET inline == {c.name : c \in {x \in ToSet(form.cols) : IsInlineEnum(x)}}
  IN  [tbl EXCEPT !.cols = [i \in DOMAIN tbl.cols |->
         IF tbl.cols[i].name \in inline
         THEN [tbl.cols[i] EXCEPT !.type = <<EnumName(n, tbl.cols[i].name)>>]
         ELSE tbl.cols[i]]]

Times(k) == 1 .. k * k

\* The query of PostgreSQL pairs every column of a foreign key with every
\* column that it refers to.
ForeignKeyOf(n, f) ==
  LET k == Len(f.cols)
  IN  [child |-> n, parent |-> f.parent, ondelete |-> f.ondelete, onupdate |-> f.onupdate,
       cols  |-> IF engine = "postgres" THEN [i \in Times(k) |-> f.cols[((i - 1) \div k) + 1]] ELSE f.cols,
       pcols |-> IF engine = "postgres" THEN [i \in Times(k) |-> f.pcols[((i - 1) % k) + 1]] ELSE f.pcols]

ForeignKeysOf(n, form) == {ForeignKeyOf(n, f) : f \in form.fks}

-----------------------------------------------------------------------------
(* The reader. *)

Nothing == [tables |-> << >>, enums |-> {}, fks |-> {}]

Init ==
  /\ engine \in Engines
  /\ opts \in Options
  /\ \E db \in Databases[engine] : tables = db.tables /\ enums = db.enums
  /\ step = "columns"
  /\ read = Nothing
  /\ pending = {}
  /\ touched = {}
  /\ seen = {}
  /\ statements = 0

Query(s) ==
  /\ step = s
  /\ step' = Following[engine][s]
  /\ UNCHANGED <<engine, opts, pending, tables, enums, touched, statements>>

QueryColumns ==
  /\ Query("columns")
  /\ read' = [Nothing EXCEPT !.tables = [n \in DOMAIN tables |-> ColumnsOf(tables[n])]]
  /\ seen' = {<<n, tables[n]>> : n \in DOMAIN tables}

\* The rows of a query go to the tables that the first query found.
Listed(n) == n \in DOMAIN tables

QueryKeys ==
  /\ Query(IF engine = "postgres" THEN "keys" ELSE IF engine = "mariadb" THEN "constraints" ELSE "indexes")
  /\ read' = [read EXCEPT !.tables =
                [n \in DOMAIN @ |-> IF Listed(n) THEN KeysOf(@[n], tables[n]) ELSE @[n]]]
  /\ UNCHANGED seen

QueryMariadbIndexes ==
  /\ engine = "mariadb"
  /\ Query("indexes")
  /\ read' = [read EXCEPT !.tables =
                [n \in DOMAIN @ |-> IF Listed(n) THEN MariadbIndexes(@[n], tables[n]) ELSE @[n]]]
  /\ UNCHANGED seen

\* Checks are read and never written.  MariaDB may have no table for them:
\* that the query fails is no failure there.
QueryChecks == Query("checks") /\ UNCHANGED <<read, seen>>

QueryEnums ==
  /\ engine = "postgres"
  /\ Query("enums")
  /\ read' = [read EXCEPT !.enums = {[name |-> e, values |-> enums[e]] : e \in DOMAIN enums}]
  /\ UNCHANGED seen

QueryInlineEnums ==
  /\ engine = "mariadb"
  /\ Query("enums")
  /\ read' = [read EXCEPT
                !.enums = UNION {InlineEnums(n, tables[n]) : n \in DOMAIN tables},
                !.tables = [n \in DOMAIN @ |-> IF Listed(n) THEN WithEnums(n, @[n], tables[n]) ELSE @[n]]]
  /\ UNCHANGED seen

QueryForeignKeys ==
  /\ Query("fks")
  /\ read' = [read EXCEPT !.fks = UNION {ForeignKeysOf(n, tables[n]) : n \in DOMAIN tables}]
  /\ UNCHANGED seen

\* shouldInclude.
Included(n) ==
  IF opts.include # {} THEN \E p \in opts.include : n \in p ELSE \A p \in opts.exclude : n \notin p

\* A faulty form of Filtered: a ref to a table that is left out is kept.
FilteredByChild(schema) ==
  IF opts.include = {} /\ opts.exclude = {} THEN schema
  ELSE [schema EXCEPT !.tables = [n \in {m \in DOMAIN @ : Included(m)} |-> @[n]],
                      !.fks = {f \in @ : f.child \in DOMAIN schema.tables /\ Included(f.child)}]

\* A faulty form of Filtered: it leaves out what is excluded, included or not.
FilteredByExclusion(schema) ==
  LET kept == {n \in DOMAIN schema.tables : \A p \in opts.exclude : n \notin p}
  IN  [schema EXCEPT !.tables = [n \in kept |-> @[n]],
                     !.fks = {f \in @ : {f.child, f.parent} \subseteq kept}]

\* filterSchema: a ref stays if both of its tables do.
Filtered(schema) ==
  IF opts.include = {} /\ opts.exclude = {} THEN schema
  ELSE LET included == {n \in DOMAIN schema.tables : Included(n)}
       IN  [schema EXCEPT !.tables = [n \in included |-> @[n]],
                          !.fks = {f \in @ : {f.child, f.parent} \subseteq included}]

\* A faulty form of Pending: the first query for rows is the last one.
PendingOnce(rest) ==
  /\ pending' = rest
  /\ step' = "done"

\* The tables whose rows are left to be read.
Pending(rest) ==
  /\ pending' = rest
  /\ step' = IF rest = {} THEN "done" ELSE "data"

Filter ==
  /\ step = "filter"
  /\ read' = Filtered(read)
  /\ Pending(IF opts.data THEN DOMAIN Filtered(read).tables ELSE {})
  /\ UNCHANGED <<engine, opts, tables, enums, touched, seen, statements>>

ColumnNames(cols) == {cols[i].name : i \in DOMAIN cols}

\* The search path leads to the schema that is read.
OnPath == engine = "postgres" => opts.path = opts.schema

\* The tables that names without a schema stand for.
Unqualified == IF OnPath THEN tables ELSE Elsewhere

\* fetchData: the columns that were read, of all rows.
FetchRows(n) ==
  /\ step = "data"
  /\ n \in pending \cap DOMAIN Unqualified
  /\ ColumnNames(read.tables[n].cols) \subseteq ColumnNames(Unqualified[n].cols)
  /\ read' = [read EXCEPT !.tables[n].records =
                {[c \in ColumnNames(read.tables[n].cols) |-> row[c]] : row \in Unqualified[n].rows}]
  /\ Pending(pending \ {n})
  /\ UNCHANGED <<engine, opts, tables, enums, touched, seen, statements>>

\* A query fails, as one for the rows of a table that is gone has to.
Fail ==
  /\ step \notin {"filter", "done", "failed"}
  /\ step' = "failed"
  /\ read' = Nothing
  /\ UNCHANGED <<engine, opts, pending, tables, enums, touched, seen, statements>>

-----------------------------------------------------------------------------
(* Other clients. *)

\* What a database allows: foreign keys lead to columns, types are declared.
Sound(ts, es) ==
  /\ \A n \in DOMAIN ts : \A f \in ts[n].fks :
       f.parent \in DOMAIN ts /\ ToSet(f.pcols) \subseteq ColumnNames(ts[f.parent].cols)
  /\ \A n \in DOMAIN ts : \A c \in ToSet(ts[n].cols) :
       c.type[1] \in EnumNames => c.type[1] \in DOMAIN es

Statement ==
  /\ step \notin {"columns", "done", "failed"}
  /\ statements < MaxStatements
  /\ statements' = statements + 1
  /\ Sound(tables', enums')
  /\ UNCHANGED reader

With(n, form) == [m \in DOMAIN tables \cup {n} |-> IF m = n THEN form ELSE tables[m]]

\* CREATE TABLE, or a change of the table, its keys or its rows.
ChangeTable(n) ==
  /\ \E form \in Versions[engine][n] : tables' = With(n, form) /\ seen' = seen \cup {<<n, form>>}
  /\ touched' = touched \cup {n}
  /\ UNCHANGED enums
  /\ Statement

DropTable(n) ==
  /\ Listed(n)
  /\ tables' = [m \in DOMAIN tables \ {n} |-> tables[m]]
  /\ touched' = touched \cup {n}
  /\ UNCHANGED <<enums, seen>>
  /\ Statement

\* CREATE TYPE, ALTER TYPE or DROP TYPE.
ChangeEnums ==
  /\ enums' \in EnumVersions[engine] \ {enums}
  /\ touched' = touched \cup {e \in DOMAIN enums \cup DOMAIN enums' :
                   ~(e \in DOMAIN enums /\ e \in DOMAIN enums' /\ enums[e] = enums'[e])}
  /\ UNCHANGED <<tables, seen>>
  /\ Statement

Next ==
  \/ QueryColumns
  \/ QueryKeys
  \/ QueryMariadbIndexes
  \/ QueryChecks
  \/ QueryEnums
  \/ QueryInlineEnums
  \/ QueryForeignKeys
  \/ Filter
  \/ \E n \in pending : FetchRows(n)
  \/ Fail
  \/ \E n \in DOMAIN Versions[engine] : ChangeTable(n)
  \/ \E n \in DOMAIN tables : DropTable(n)
  \/ ChangeEnums

Spec == Init /\ [][Next]_vars

-----------------------------------------------------------------------------
(* Properties. *)

Steps == {"columns", "keys", "constraints", "indexes", "checks", "enums", "fks",
          "filter", "data", "done", "failed"}

\* There are rows to read only in the step that reads them, and a failed
\* reader has no schema to write.
TypeOK ==
  /\ engine \in Engines
  /\ opts \in Options
  /\ step \in Steps
  /\ statements \in 0 .. MaxStatements
  /\ pending \subseteq DOMAIN read.tables \/ step = "failed"
  /\ step = "data" <=> pending # {} /\ step # "failed"

\* What a reader that is alone with a table makes of it.
AtOnce(n, form) ==
  CASE engine = "postgres" -> PostgresKeys(Plain(form), form)
    [] engine = "mariadb"  -> MariadbIndexes(MariadbConstraints(WithEnums(n, Plain(form), form), form), form)
    [] engine = "sqlite"   -> SqliteIndexes(Sqlite(form), form)

Rows(form) == {[c \in ColumnNames(form.cols) |-> row[c]] : row \in form.rows}

\* Rows are asked for by the name of the table alone.
OwnRows == opts.data => OnPath

\* A table that no other client touches while the catalogue is read is
\* reported as if it were read at once, whatever happens to the tables around
\* it, with its rows if its name alone stands for it; and it is left out only
\* by the filter.
UntouchedTables ==
  step = "done" =>
    \A n \in (DOMAIN tables \cup DOMAIN read.tables) \ touched :
      /\ n \in DOMAIN read.tables <=> Listed(n) /\ Included(n)
      /\ n \in DOMAIN read.tables =>
           /\ [read.tables[n] EXCEPT !.records = {}] = AtOnce(n, tables[n])
           /\ OwnRows => read.tables[n].records = IF opts.data THEN Rows(tables[n]) ELSE {}

\* So are the refs between two such tables.
UntouchedRefs ==
  step = "done" =>
    \A n \in DOMAIN tables \ touched : \A f \in tables[n].fks :
      f.parent \notin touched =>
        (ForeignKeyOf(n, f) \in read.fks <=> Included(n) /\ Included(f.parent))

\* What other clients leave alone is reported as if it were read at once.
UntouchedReported == UntouchedTables /\ UntouchedRefs

Forms(n) == {v[2] : v \in {x \in seen : x[1] = n}}

HadColumn(n, c) ==
  \E form \in Forms(n) : \E d \in ToSet(form.cols) : d.name = c.name /\ d.notnull = c.notnull

HadKey(n, cols, kinds) == \E form \in Forms(n) : \E k \in form.keys : k.cols = cols /\ k.kind \in kinds

HadRef(f) ==
  \E form \in Forms(f.child) : \E g \in form.fks :
    f = [child |-> f.child, cols |-> g.cols, parent |-> g.parent, pcols |-> g.pcols,
         ondelete |-> g.ondelete, onupdate |-> g.onupdate]

\* A form whose keys and refs come out as they are: SQLite marks every column of
\* a UNIQUE constraint, and PostgreSQL pairs the columns of a foreign key.
Reportable(d, form) ==
  /\ \A k \in form.keys : k.kind \in {"primary", "unique", "uniqueindex", "index"}
  /\ d = "sqlite" => \A k \in form.keys : k.kind = "unique" => k.cols = <<k.cols[1]>>
  /\ d = "postgres" => \A f \in form.fks : f.cols = <<f.cols[1]>> /\ f.pcols = <<f.pcols[1]>>

\* The forms that tables have, or can be given, are reportable.
AllReportable(d, databases, versions) ==
  /\ \A base \in databases : \A n \in DOMAIN base.tables : Reportable(d, base.tables[n])
  /\ \A n \in DOMAIN versions : \A form \in versions[n] : Reportable(d, form)

\* However the tables change while they are read: every column, key and ref of
\* the schema was one of its table at some time, and what makes a column
\* unique or the key of its table is that column alone.
NothingInvented ==
  step = "done" =>
    /\ \A n \in DOMAIN read.tables :
         /\ \A c \in ToSet(read.tables[n].cols) :
              /\ HadColumn(n, c)
              /\ c.pk => HadKey(n, <<c.name>>, {"primary"})
              /\ c.unique => HadKey(n, <<c.name>>, {"unique"})
         /\ \A k \in read.tables[n].constraints : HadKey(n, k.cols, {"primary", "unique"})
         /\ \A x \in read.tables[n].indexes : HadKey(n, x.keys, {"unique", "uniqueindex", "index"})
    /\ \A f \in read.fks : HadRef(f)
=============================================================================
