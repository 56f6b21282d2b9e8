-------------------------------- MODULE Dump --------------------------------
(***************************************************************************)
(* dbml-tools tosql (Dump in generator/generator.go): the script that      *)
(* creates a schema with its records, loaded into an empty database.       *)
(*                                                                         *)
(* Tables come in declaration order and may refer to each other in either  *)
(* direction, to themselves or in a cycle; their records come with them.   *)
(* So foreign keys are added when all rows are in (PostgreSQL, MariaDB),   *)
(* or, where they have to be declared with the table (SQLite), the rows    *)
(* come after all tables and are checked when they are all in.             *)
(*                                                                         *)
(* A row is a function from columns to values.                             *)
(***************************************************************************)
EXTENDS SqlDatabase

CONSTANT Schemas   \* the schemas to dump, with refs instead of foreign keys

Null == "null"

\* A ref has two ends [table, cols, rel] with rel "1" or "*".
ManyToMany(ref) == ref[1].rel = "*" /\ ref[2].rel = "*"

\* A faulty form of ForeignKeys: a ref written from the one end is skipped.
ForwardOnly(db) ==
  Each(db.refs, LAMBDA r : When(r[2].rel = "1",
    [child |-> r[1].table, cols |-> r[1].cols, parent |-> r[2].table, pcols |-> r[2].cols]))

\* The many end holds the foreign key, of two ones the first.
ForeignKeys(db) ==
  Each(db.refs, LAMBDA r :
    LET c == IF r[1].rel = "1" /\ r[2].rel = "*" THEN r[2] ELSE r[1]
        p == IF r[1].rel = "1" /\ r[2].rel = "*" THEN r[1] ELSE r[2]
    IN  When(~ManyToMany(r),
             [child |-> c.table, cols |-> c.cols, parent |-> p.table, pcols |-> p.cols]))

Insert(t) == When(t.records # <<>>, Stmt("insert", t.name, t.records))

Enums(db) == IF dialect = "postgres" THEN [i \in DOMAIN db.enums |-> CreateEnum(db.enums[i])] ELSE <<>>

Tables(db) ==
  Each(db.tables, LAMBDA t :
    <<CreateTable(t, [db EXCEPT !.fks = ForeignKeys(db)])>> \o CreateIndexes(t)
      \o IF dialect = "sqlite" THEN <<>> ELSE Insert(t))

\* A faulty form of Records: every statement is a transaction of its own.
RecordsUndeferred(db) ==
  IF dialect = "sqlite" THEN Each(db.tables, Insert) ELSE <<>>

Records(db) ==
  IF dialect = "sqlite" /\ \E t \in ToSet(db.tables) : t.records # <<>>
  THEN <<Stmt("begin", "", ""), Stmt("defer", "", "")>> \o Each(db.tables, Insert)
         \o <<Stmt("commit", "", "")>>
  ELSE <<>>

Constraints(db) ==
  IF dialect = "sqlite" THEN <<>>
  ELSE LET fks == ForeignKeys(db)
       IN  [i \in DOMAIN fks |-> Stmt("addFk", fks[i].child, fks[i])]

\* A faulty form of Script: the foreign keys come with the tables.
ConstraintsFirst(db) ==
  LET plain == [db EXCEPT !.tables = [i \in DOMAIN @ |-> [@[i] EXCEPT !.records = <<>>]]]
  IN  Enums(db) \o Tables(plain) \o Constraints(db) \o Each(db.tables, Insert)

Script(db) == Enums(db) \o Tables(db) \o Records(db) \o Constraints(db)

-----------------------------------------------------------------------------
(* Rows, and the schemas that can be loaded. *)

Values(row, cols) == [i \in DOMAIN cols |-> IF cols[i] \in DOMAIN row THEN row[cols[i]] ELSE Null]

\* Every row that holds a foreign key has the row it refers to among all.
Holds(fk, all) ==
  \A r \in all : r[1] = fk.child /\ Null \notin ToSet(Values(r[2], fk.cols)) =>
    \E p \in all : p[1] = fk.parent /\ Values(p[2], fk.pcols) = Values(r[2], fk.cols)

TupleRows(t, list) == {<<t, list[i]>> : i \in DOMAIN list}

AllRowsOf(db) == UNION {TupleRows(t.name, t.records) : t \in ToSet(db.tables)}

\* A schema with refs in place of foreign keys.
Typed(db) ==
  /\ DOMAIN db = {"enums", "tables", "fks", "normalized", "refs"}
  /\ db.enums \in Seq([name : STRING, values : Seq(STRING)])
  /\ db.tables \in Seq(TableWith({db.tables[i].records : i \in DOMAIN db.tables}))
  /\ db.refs \in Seq([1 .. 2 -> [table : STRING, cols : Seq(STRING), rel : {"1", "*"}]])

\* A key that is declared, and one that the table is written with: a column of the
\* primary key is written without UNIQUE, even where the key has other columns too.
DeclaredKey(t, cols) ==
  \/ PkColumns(t) = cols
  \/ \E c \in ToSet(t.cols) : cols = <<c.name>> /\ c.unique
  \/ \E x \in ToSet(t.indexes) : x.unique /\ x.keys = cols

WrittenKey(t, cols) ==
  \/ PkColumns(t) = cols
  \/ \E c \in ToSet(t.cols) : cols = <<c.name>> /\ c.unique /\ ~c.pk
  \/ \E x \in ToSet(t.indexes) : x.unique /\ x.keys = cols

\* What a schema and its records are when the input is sound: nothing is declared
\* twice, what is named exists, a ref leads to a key, and the records satisfy the
\* refs.  Of the names of indexes it is what the resolver sees to.
Sound(db) ==
  /\ Typed(db)
  /\ Distinct(db.tables) /\ Distinct(db.enums)
  /\ \A t \in ToSet(db.tables) :
       /\ Distinct(t.cols)
       /\ \A x \in ToSet(t.indexes) : ToSet(x.keys) \subseteq Names(t.cols)
       /\ \A c \in ToSet(t.cols) : c.type[1] = "enum" => c.type[2] \in Names(db.enums)
  /\ \A d \in Dialects : NamesApart(d, db)
  /\ \A fk \in ToSet(ForeignKeys(db)) :
       /\ HasColumns(db, fk.child, fk.cols) /\ HasColumns(db, fk.parent, fk.pcols)
       /\ DeclaredKey(TableOf(db, fk.parent), fk.pcols)
       /\ Holds(fk, AllRowsOf(db))

ASSUME SchemasAssumption == \A db \in Schemas : Sound(db)

-----------------------------------------------------------------------------
VARIABLES
  schema,   \* what is dumped
  live,     \* the database
  rows,     \* its rows as <<table, row>>
  pending,  \* the rows of the open transaction
  mode,     \* "auto", "open" (a transaction) or "deferred" (and its checks)
  script,   \* the statements still to run
  status    \* "loading", "loaded" or "cut"

vars == <<dialect, schema, live, rows, pending, mode, script, status>>

Init ==
  /\ dialect \in Dialects
  /\ schema \in Schemas
  /\ live = [enums |-> <<>>, tables |-> <<>>, fks |-> <<>>, normalized |-> FALSE]
  /\ rows = {}
  /\ pending = {}
  /\ mode = "auto"
  /\ script = Script(schema)
  /\ status = "loading"

Consistent(all) == \A fk \in ToSet(live.fks) : Holds(fk, all)

\* What the next statement needs.  SQLite looks up the keys that refer from a table
\* and to it when it inserts, deferred or not.
Runnable(st) ==
  CASE st.op = "insert" ->
         LET all == rows \cup pending \cup TupleRows(st.on, st.what)
         IN  /\ HasTable(live, st.on)
             /\ \A fk \in ForeignKeysOf(live, st.on) \cup References(live, st.on) :
                  HasTable(live, fk.parent) /\ IsKey(TableOf(live, fk.parent), fk.pcols)
             /\ mode = "deferred" \/ Consistent(all)
    [] st.op = "commit" -> mode # "auto" /\ Consistent(rows \cup pending)
    [] st.op = "addFk" -> Accepts(live, st) /\ Holds(st.what, rows)
    [] OTHER -> Accepts(live, st)

Ready == status = "loading" /\ script # <<>> /\ Runnable(Head(script))

Define ==
  /\ Ready
  /\ Head(script).op \notin {"insert", "begin", "defer", "commit"}
  /\ live' = Apply(live, Head(script))
  /\ script' = Tail(script)
  /\ UNCHANGED <<dialect, schema, rows, pending, mode, status>>

InsertRows ==
  /\ Ready
  /\ Head(script).op = "insert"
  /\ LET new == TupleRows(Head(script).on, Head(script).what)
     IN  IF mode = "auto"
         THEN rows' = rows \cup new /\ UNCHANGED pending
         ELSE pending' = pending \cup new /\ UNCHANGED rows
  /\ script' = Tail(script)
  /\ UNCHANGED <<dialect, schema, live, mode, status>>

\* BEGIN and PRAGMA defer_foreign_keys, which lasts until the COMMIT.
OpenTransaction ==
  /\ Ready
  /\ Head(script).op \in {"begin", "defer"}
  /\ mode' = IF Head(script).op = "begin" THEN "open"
             ELSE IF mode = "open" THEN "deferred" ELSE mode
  /\ script' = Tail(script)
  /\ UNCHANGED <<dialect, schema, live, rows, pending, status>>

Commit ==
  /\ Ready
  /\ Head(script).op = "commit"
  /\ rows' = rows \cup pending
  /\ pending' = {}
  /\ mode' = "auto"
  /\ script' = Tail(script)
  /\ UNCHANGED <<dialect, schema, live, status>>

\* The script ends, and with it the connection: an open transaction is lost.
Finish ==
  /\ status = "loading" /\ script = <<>>
  /\ status' = "loaded"
  /\ pending' = {}
  /\ UNCHANGED <<dialect, schema, live, rows, mode, script>>

\* The connection is lost in the middle of the script.
CutOff ==
  /\ Ready
  /\ status' = "cut"
  /\ pending' = {}
  /\ UNCHANGED <<dialect, schema, live, rows, mode, script>>

Next == Define \/ InsertRows \/ OpenTransaction \/ Commit \/ Finish \/ CutOff

Spec == Init /\ [][Next]_vars

-----------------------------------------------------------------------------
(* Properties. *)

AllRows == AllRowsOf(schema)

\* The names that PostgreSQL may have for the sequences and keys of a table.
SequencesOf(t) == {t.name \o "_" \o c.name \o "_seq" : c \in {x \in ToSet(t.cols) : AutoIncrement(x)}}

KeyNames(t) ==
  KeyIndexes(t) \cup UniqueIndexes(t) \cup SequencesOf(t) \cup {t.name \o "_pkey", t.name \o "_pkey1"}

\* A table, an index or an enum is named like a key or sequence, a key like anything:
\* indexNames keeps names of tables from the indexes, and nothing else.
NameOfKey(name) == \E t \in ToSet(schema.tables) : name \in KeyNames(t)

KeyNamedTwice(on, key) ==
  /\ key # ""
  /\ \E t \in ToSet(schema.tables) :
       key \in {t.name} \cup
         (IF t.name = on THEN SequencesOf(t) ELSE Names(t.indexes) \cup KeyNames(t))

\* Two refs have one name.
NamedTwice(fk) ==
  \E i, j \in DOMAIN ForeignKeys(schema) :
    i # j /\ fk = ForeignKeys(schema)[i] /\ SameFk(ForeignKeys(schema)[j], fk)

\* A ref leads to a key that is declared and not written.
ToNoKey(fk) == ~WrittenKey(TableOf(schema, fk.parent), fk.pcols)

\* A column that counts up and is no key, or not the only one.
FreeIncrement(t) ==
  \E c \in ToSet(t.cols) :
    /\ AutoIncrement(c)
    /\ \/ ~(c.unique /\ ~c.pk) /\ ~(PkColumns(t) # <<>> /\ PkColumns(t)[1] = c.name)
       \/ \E e \in ToSet(t.cols) : AutoIncrement(e) /\ e.name # c.name

\* What the dialects refuse of a sound schema as Dump writes it.
KnownRefusal(st) ==
  CASE dialect = "postgres" /\ st.op = "createTable" ->
         \/ NameOfKey(st.on) \/ st.on \in Names(schema.enums)
         \/ KeyNamedTwice(st.on, TableOf(schema, st.on).key)
    [] dialect = "postgres" /\ st.op = "createIndex" -> NameOfKey(st.what.name)
    [] dialect = "mariadb" /\ st.op = "createTable" -> FreeIncrement(TableOf(schema, st.on))
    [] dialect # "sqlite" /\ st.op = "addFk" -> NamedTwice(st.what) \/ ToNoKey(st.what)
    [] dialect = "sqlite" /\ st.op = "insert" ->
         \E fk \in ToSet(ForeignKeys(schema)) : st.on \in {fk.child, fk.parent} /\ ToNoKey(fk)
    [] OTHER -> FALSE

\* The database refuses a statement for these reasons only: never for the order
\* in which tables, records and refs are declared, for a table, row, column or
\* type that is not there yet, or for the names of two indexes.
OnlyKnownRefusals ==
  status = "loading" /\ script # <<>> => Ready \/ KnownRefusal(Head(script))

\* A ref is kept by a foreign key of the end that has many.
KeptBy(ref, fk) ==
  \E c, p \in {1, 2} :
    /\ c # p
    /\ fk = [child |-> ref[c].table, cols |-> ref[c].cols,
             parent |-> ref[p].table, pcols |-> ref[p].cols]
    /\ ref[p].rel = "1"

\* A loaded script has made every table, index and foreign key and every row
\* of the schema.
Loaded ==
  status = "loaded" =>
    /\ rows = AllRows
    /\ Names(live.tables) = Names(schema.tables)
    /\ \A t \in ToSet(schema.tables) :
         ToSet(TableOf(live, t.name).indexes) = ToSet(t.indexes)
    /\ \A i \in DOMAIN schema.refs :
         ManyToMany(schema.refs[i]) \/ \E fk \in ToSet(live.fks) : KeptBy(schema.refs[i], fk)

\* In SQLite a load that is cut off leaves no part of the records behind.
AllRowsOrNone == dialect = "sqlite" /\ status = "cut" => rows = {} \/ rows = AllRows
=============================================================================
