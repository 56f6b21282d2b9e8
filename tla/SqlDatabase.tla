---------------------------- MODULE SqlDatabase -----------------------------
(***************************************************************************)
(* A schema as the SQL generator (generator/generator.go) sees it, the SQL *)
(* statements it writes, and what a database does with each of them.       *)
(*                                                                         *)
(* A schema is what the interpreter or an introspection makes of its       *)
(* input.  A database is kept as the schema an introspection would report: *)
(* the statements take it from one schema to the next.  Statements are     *)
(* records [op, on, what]: the operation, the table (or "" for none) and   *)
(* its argument.                                                           *)
(*                                                                         *)
(* Data.  A type is a tuple of words: <<"int">>, <<"enum", name>> for an   *)
(* enum declared by the schema, <<"ENUM", v1, ..>> for one written out.    *)
(* Index names are the resolved ones (module IndexNames).  A primary key   *)
(* is the pk columns in column order; key is its declared name or "".      *)
(* Defaults, comments and checks are left out: no property is about them.  *)
(***************************************************************************)
EXTENDS Naturals, FiniteSets, Sequences, SequencesExt

CONSTANT Dialects   \* the dialects to write SQL for

ASSUME SqlDialectsAssumption == Dialects \subseteq {"postgres", "mariadb", "sqlite"}

VARIABLE dialect   \* the dialect, detected once when the program starts

Column ==
  [name : STRING, type : Seq(STRING), notnull : BOOLEAN, pk : BOOLEAN, unique : BOOLEAN, inc : BOOLEAN]

Index == [name : STRING, keys : Seq(STRING), unique : BOOLEAN]

\* Tables with one of some lists of records.
TableWith(lists) ==
  [name : STRING, cols : Seq(Column), key : STRING, indexes : Seq(Index), records : lists]

\* Fk     == [child, cols, parent, pcols]
\* Schema == [enums: Seq([name, values]), tables, fks, normalized]

Stmt(op, on, what) == [op |-> op, on |-> on, what |-> what]

\* One statement if c holds, none otherwise.
When(c, stmt) == IF c THEN <<stmt>> ELSE <<>>

Each(seq, F(_)) == FlattenSeq([i \in DOMAIN seq |-> F(seq[i])])

Names(seq) == {seq[i].name : i \in DOMAIN seq}

Without(seq, P(_)) == Each(seq, LAMBDA x : When(~P(x), x))
WithoutNamed(seq, name) == Without(seq, LAMBDA x : x.name = name)

Distinct(seq) == \A i, j \in DOMAIN seq : seq[i].name = seq[j].name => i = j

Named(seq, name) == CHOOSE x \in ToSet(seq) : x.name = name

PkColumns(t) == Each(t.cols, LAMBDA c : When(c.pk, c.name))

-----------------------------------------------------------------------------
(* Types as they are written, compared and reported. *)

\* typeAliases, for the types of the model.
TypeAliases(d) ==
  IF d = "postgres" THEN [int |-> "integer", bool |-> "boolean"]
  ELSE IF d = "mariadb" THEN [integer |-> "int", boolean |-> "tinyint(1)"]
  ELSE <<>>

CanonicalIn(d, type) ==
  IF Len(type) = 1 /\ type[1] \in DOMAIN TypeAliases(d)
  THEN <<TypeAliases(d)[type[1]]>> ELSE type

Canonical(type) == CanonicalIn(dialect, type)

IsEnum(type) == type[1] \in {"enum", "ENUM"}

Serials == [serial |-> "int", bigserial |-> "bigint"]

\* mapType outside the Generic dialect: enums are written as the dialect has
\* them, serial types only exist in PostgreSQL.
MapType(type, db) ==
  IF type[1] = "enum" /\ dialect = "mariadb" THEN <<"ENUM">> \o Named(db.enums, type[2]).values
  ELSE IF type[1] = "enum" /\ dialect = "sqlite" THEN <<"text">>
  ELSE IF type[1] \in DOMAIN Serials /\ dialect # "postgres" THEN <<Serials[type[1]]>>
  ELSE type

\* mapType in the Generic dialect with serials folded (normalizeForDiff).
Generic(type) ==
  CASE IsEnum(type)                                  -> type
    [] type[1] \in {"int", "integer", "serial"}      -> <<"int">>
    [] type[1] \in {"bigint", "bigserial"}           -> <<"bigint">>
    [] type[1] \in {"bool", "boolean", "tinyint(1)"} -> <<"bool">>
    [] type[1] \in {"text", "longtext"}              -> <<"text">>
    [] OTHER                                         -> type

AutoIncrement(col) == col.inc \/ col.type[1] \in DOMAIN Serials

\* The type a column is declared with: PostgreSQL has serial types, SQLite
\* takes AUTOINCREMENT only on an INTEGER that is the whole key.
DeclaredType(col, inlinePK, db) ==
  CASE dialect = "postgres" /\ col.inc /\ col.type[1] \notin DOMAIN Serials ->
         IF col.type = <<"bigint">> THEN <<"bigserial">> ELSE <<"serial">>
    [] dialect = "sqlite" /\ AutoIncrement(col) /\ col.pk /\ inlinePK -> <<"integer">>
    [] OTHER -> MapType(col.type, db)

\* renderColumn: NOT NULL and UNIQUE are left to the key of a pk column.
RenderColumn(col, inlinePK, db) ==
  [col EXCEPT !.type = DeclaredType(col, inlinePK, db),
              !.notnull = @ /\ ~col.pk,
              !.unique = @ /\ ~col.pk,
              !.pk = @ /\ inlinePK,
              !.inc = AutoIncrement(col)]

-----------------------------------------------------------------------------
(* Statements for whole tables. *)

InlinePK(t) == Len(PkColumns(t)) = 1 /\ (t.key = "" \/ dialect # "postgres")

\* createTableSQL: SQLite declares the foreign keys of a table with it.
CreateTable(t, db) ==
  Stmt("createTable", t.name,
       [cols |-> [i \in DOMAIN t.cols |-> RenderColumn(t.cols[i], InlinePK(t), db)],
        pk   |-> PkColumns(t),
        key  |-> IF dialect = "mariadb" \/ InlinePK(t) THEN "" ELSE t.key,
        fks  |-> IF dialect = "sqlite"
                 THEN {fk \in ToSet(db.fks) : fk.child = t.name} ELSE {}])

CreateIndexes(t) ==
  [i \in DOMAIN t.indexes |-> Stmt("createIndex", t.name, t.indexes[i])]

CreateEnum(e) == Stmt("createEnum", "", e)

-----------------------------------------------------------------------------
(* The database: which statements it accepts. *)

HasTable(db, t) == t \in Names(db.tables)
TableOf(db, t) == Named(db.tables, t)
HasColumns(db, t, cols) == HasTable(db, t) /\ ToSet(cols) \subseteq Names(TableOf(db, t).cols)
ColumnOf(db, t, c) == Named(TableOf(db, t).cols, c)

\* The names that PostgreSQL gives to keys of UNIQUE columns and to sequences.
KeyIndexes(t) == IF t.key = "" THEN {} ELSE {t.key}
UniqueIndexes(t) ==
  {t.name \o "_" \o c.name \o "_key" : c \in {x \in ToSet(t.cols) : x.unique}}
SequenceNames(name, cols) ==
  {name \o "_" \o c.name \o "_seq" : c \in {x \in ToSet(cols) : x.inc}}

\* The names that indexNames keeps from the indexes: of the names that a table
\* takes in PostgreSQL its own only.
OwnNames(d, t) ==
  IF d = "mariadb" THEN {c.name : c \in {x \in ToSet(t.cols) : x.unique /\ ~x.pk}} ELSE {t.name}

TakenNames(d, t) == OwnNames(d, t) \cup Names(t.indexes)

\* What NoClash (module IndexNames) says of the resolved names.
NamesApart(d, db) ==
  /\ \A t \in ToSet(db.tables) : Distinct(t.indexes) /\ Names(t.indexes) \cap OwnNames(d, t) = {}
  /\ d # "mariadb" =>
       \A t, u \in ToSet(db.tables) : t.name # u.name => TakenNames(d, t) \cap TakenNames(d, u) = {}

\* The names an index, and outside MariaDB a table or a named key, cannot take.
Occupied(db, t) ==
  CASE dialect = "mariadb" ->
         Names(TableOf(db, t).indexes) \cup {c.name : c \in {x \in ToSet(TableOf(db, t).cols) : x.unique}}
    [] dialect = "sqlite" ->
         Names(db.tables) \cup UNION {Names(u.indexes) : u \in ToSet(db.tables)}
    [] OTHER ->
         Names(db.tables) \cup
           UNION {Names(u.indexes) \cup KeyIndexes(u) \cup UniqueIndexes(u) \cup SequenceNames(u.name, u.cols) :
                    u \in ToSet(db.tables)}

References(db, t) == {fk \in ToSet(db.fks) : fk.parent = t}
ForeignKeysOf(db, t) == {fk \in ToSet(db.fks) : fk.child = t}

FkName(fk) == FoldLeft(LAMBDA name, col : name \o "_" \o col, "fk_" \o fk.child, fk.cols)

\* A table of PostgreSQL, a database of MariaDB has one foreign key of a name.
SameFk(f, g) == FkName(f) = FkName(g) /\ (dialect = "postgres" => f.child = g.child)

\* A foreign key refers to a whole key of the parent.
IsKey(t, cols) ==
  \/ PkColumns(t) = cols
  \/ Len(cols) = 1 /\ \E c \in ToSet(t.cols) : c.name = cols[1] /\ c.unique
  \/ \E x \in ToSet(t.indexes) : x.unique /\ x.keys = cols

\* MariaDB takes one auto-increment column, and only as the first column of a key.
IncrementFits(cols, pk) ==
  dialect = "mariadb" =>
    \A c \in ToSet(cols) : c.inc =>
      /\ c.unique \/ (pk # <<>> /\ pk[1] = c.name)
      /\ \A e \in ToSet(cols) : e.inc => e.name = c.name

IncrementsKeyed(t) ==
  dialect = "mariadb" =>
    \A c \in ToSet(t.cols) : c.inc =>
      \/ c.unique
      \/ Len(PkColumns(t)) > 0 /\ PkColumns(t)[1] = c.name
      \/ \E x \in ToSet(t.indexes) : x.keys[1] = c.name

EnumKnown(db, type) ==
  type[1] = "enum" /\ dialect = "postgres" => type[2] \in Names(db.enums)

\* PostgreSQL changes a type only where it has an assignment cast.
Castable(from, to) ==
  /\ to[1] \notin DOMAIN Serials
  /\ to[1] = "text" \/ {from[1], to[1]} \subseteq {"int", "integer", "bigint"}

\* What would be left of a column's table without its primary key.
Unkeyed(t) == [t EXCEPT !.cols = [i \in DOMAIN t.cols |-> [t.cols[i] EXCEPT !.pk = FALSE]]]

Accepts(db, st) ==
  CASE st.op = "createEnum" -> st.what.name \notin Names(db.enums) \cup Names(db.tables)
    [] st.op = "dropEnum" ->
         /\ st.what \in Names(db.enums)
         /\ \A t \in ToSet(db.tables) : \A c \in ToSet(t.cols) : c.type # <<"enum", st.what>>
    [] st.op = "createTable" ->
         /\ IF dialect = "mariadb" THEN ~HasTable(db, st.on) ELSE st.on \notin Occupied(db, st.on)
         /\ dialect = "postgres" =>
              /\ st.on \notin Names(db.enums)
              /\ st.what.key # "" =>
                   st.what.key \notin Occupied(db, st.on) \cup {st.on} \cup SequenceNames(st.on, st.what.cols)
         /\ IncrementFits(st.what.cols, st.what.pk)
         /\ \A c \in ToSet(st.what.cols) : EnumKnown(db, c.type)
    [] st.op = "dropTable" ->
         /\ HasTable(db, st.on)
         /\ dialect = "sqlite" \/ \A fk \in References(db, st.on) : fk.child = st.on
    [] st.op = "createIndex" ->
         HasColumns(db, st.on, st.what.keys) /\ st.what.name \notin Occupied(db, st.on)
    [] st.op = "dropIndex" ->
         /\ \E t \in ToSet(db.tables) :
              st.what \in Names(t.indexes) /\ (dialect = "mariadb" => t.name = st.on)
         /\ dialect = "mariadb" =>
              \A fk \in ForeignKeysOf(db, st.on) : Named(TableOf(db, st.on).indexes, st.what).keys # fk.cols
    [] st.op = "addColumn" ->
         /\ HasTable(db, st.on) /\ ~HasColumns(db, st.on, <<st.what.name>>)
         /\ dialect = "sqlite" => ~st.what.notnull /\ ~st.what.unique
         /\ dialect = "mariadb" /\ st.what.inc => st.what.unique
         /\ EnumKnown(db, st.what.type)
    [] st.op = "dropColumn" ->
         /\ HasColumns(db, st.on, <<st.what>>)
         /\ \A fk \in References(db, st.on) : st.what \notin ToSet(fk.pcols)
         /\ dialect = "mariadb" => \A fk \in ForeignKeysOf(db, st.on) : st.what \notin ToSet(fk.cols)
    [] st.op = "setType" ->
         /\ HasColumns(db, st.on, <<st.what.name>>)
         /\ Castable(ColumnOf(db, st.on, st.what.name).type, st.what.type)
    [] st.op = "setNotNull" -> HasColumns(db, st.on, <<st.what.name>>)
    [] st.op = "dropNotNull" ->
         HasColumns(db, st.on, <<st.what.name>>) /\ ~ColumnOf(db, st.on, st.what.name).pk
    [] st.op = "modifyColumn" ->
         /\ HasColumns(db, st.on, <<st.what.name>>)
         /\ st.what.inc => \/ st.what.unique
                           \/ PkColumns(TableOf(db, st.on))[1] = st.what.name
    [] st.op = "dropKey" ->
         /\ HasTable(db, st.on) /\ PkColumns(TableOf(db, st.on)) # <<>>
         /\ dialect = "postgres" => TableOf(db, st.on).key = st.what
         /\ \A fk \in References(db, st.on) : fk.pcols # PkColumns(TableOf(db, st.on))
         /\ IncrementsKeyed(Unkeyed(TableOf(db, st.on)))
    [] st.op = "addKey" ->
         /\ HasColumns(db, st.on, st.what.keys) /\ PkColumns(TableOf(db, st.on)) = <<>>
         /\ dialect = "postgres" => st.what.name \notin Occupied(db, st.on) \ {""}
    [] st.op = "renameKey" ->
         /\ HasTable(db, st.on) /\ TableOf(db, st.on).key = st.what.from
         /\ st.what.to \notin Occupied(db, st.on)
    [] st.op = "addFk" ->
         /\ HasColumns(db, st.what.child, st.what.cols) /\ HasColumns(db, st.what.parent, st.what.pcols)
         /\ IsKey(TableOf(db, st.what.parent), st.what.pcols)
         /\ \A fk \in ToSet(db.fks) : ~SameFk(fk, st.what)
    [] OTHER -> TRUE

-----------------------------------------------------------------------------
(* The database: what a statement it accepts does. *)

SetTable(db, t, new) ==
  [db EXCEPT !.tables = [i \in DOMAIN @ |-> IF @[i].name = t THEN new ELSE @[i]]]

SetColumn(db, t, c, new) ==
  LET old == TableOf(db, t)
  IN  SetTable(db, t, [old EXCEPT !.cols =
        [i \in DOMAIN @ |-> IF @[i].name = c THEN new ELSE @[i]]])

\* A column as it is reported: under the names of the dialect, a PostgreSQL
\* serial as the integer with a sequence that it stands for.
Stored(col) ==
  [col EXCEPT !.type = Canonical(IF @[1] \in DOMAIN Serials THEN <<Serials[@[1]]>> ELSE @)]

\* The key a table gets: its columns are not null, and PostgreSQL names an
\* unnamed key <table>_pkey, with a number if that is taken.
Keyed(db, t, keys, name) ==
  [t EXCEPT
     !.cols = [i \in DOMAIN @ |-> IF @[i].name \in ToSet(keys)
                                  THEN [@[i] EXCEPT !.pk = TRUE, !.notnull = TRUE] ELSE @[i]],
     !.key = IF dialect # "postgres" \/ keys = <<>> THEN ""
             ELSE IF name # "" THEN name
             ELSE IF t.name \o "_pkey" \in Occupied(db, t.name) THEN t.name \o "_pkey1"
             ELSE t.name \o "_pkey"]

\* A dropped column takes its indexes, its key and its foreign keys along.
DropColumn(db, t, c) ==
  LET old  == TableOf(db, t)
      left == [old EXCEPT !.cols = WithoutNamed(@, c),
                          !.indexes = Without(@, LAMBDA x : c \in ToSet(x.keys))]
      new  == IF c \in ToSet(PkColumns(old)) THEN [Unkeyed(left) EXCEPT !.key = ""] ELSE left
  IN  [SetTable(db, t, new) EXCEPT !.fks = Without(@, LAMBDA f : f.child = t /\ c \in ToSet(f.cols))]

\* DROP INDEX is about the table in MariaDB only.
DropIndex(db, t, name) ==
  LET Left(u) == [u EXCEPT !.indexes = WithoutNamed(@, name)]
  IN  [db EXCEPT !.tables = [i \in DOMAIN @ |->
         IF dialect = "mariadb" /\ @[i].name # t THEN @[i] ELSE Left(@[i])]]

\* MODIFY COLUMN .. UNIQUE on a column that is unique adds a second key.
Modify(db, t, col) ==
  LET old == ColumnOf(db, t, col.name)
      new == SetColumn(db, t, col.name,
               [Stored(col) EXCEPT !.pk = old.pk, !.notnull = @ \/ old.pk, !.unique = @ \/ old.unique])
      tbl == TableOf(new, t)
  IN  IF col.unique /\ old.unique
      THEN SetTable(new, t, [tbl EXCEPT !.indexes = Append(@,
             [name |-> col.name \o "_2", keys |-> <<col.name>>, unique |-> TRUE])])
      ELSE new

Apply(db, st) ==
  LET t == TableOf(db, st.on)
      c == ColumnOf(db, st.on, st.what.name)
  IN
  CASE st.op = "createEnum" -> [db EXCEPT !.enums = Append(@, st.what)]
    [] st.op = "dropEnum" -> [db EXCEPT !.enums = WithoutNamed(@, st.what)]
    [] st.op = "createTable" ->
         LET new == [name |-> st.on, key |-> "", indexes |-> <<>>, records |-> <<>>,
                     cols |-> [i \in DOMAIN st.what.cols |-> Stored(st.what.cols[i])]]
         IN  [db EXCEPT !.tables = Append(@, Keyed(db, new, st.what.pk, st.what.key)),
                        !.fks = @ \o SetToSeq(st.what.fks)]
    [] st.op = "dropTable" ->
         [db EXCEPT !.tables = WithoutNamed(@, st.on),
                    !.fks = Without(@, LAMBDA f : f.child = st.on)]
    [] st.op = "createIndex" -> SetTable(db, st.on, [t EXCEPT !.indexes = Append(@, st.what)])
    [] st.op = "dropIndex" -> DropIndex(db, st.on, st.what)
    [] st.op = "addColumn" -> SetTable(db, st.on, [t EXCEPT !.cols = Append(@, Stored(st.what))])
    [] st.op = "dropColumn" -> DropColumn(db, st.on, st.what)
    [] st.op = "setType" -> SetColumn(db, st.on, c.name, Stored([c EXCEPT !.type = st.what.type]))
    [] st.op = "setNotNull" -> SetColumn(db, st.on, c.name, [c EXCEPT !.notnull = TRUE])
    [] st.op = "dropNotNull" -> SetColumn(db, st.on, c.name, [c EXCEPT !.notnull = FALSE])
    [] st.op = "modifyColumn" -> Modify(db, st.on, st.what)
    [] st.op = "dropKey" -> SetTable(db, st.on, [Unkeyed(t) EXCEPT !.key = ""])
    [] st.op = "addKey" -> SetTable(db, st.on, Keyed(db, t, st.what.keys, st.what.name))
    [] st.op = "renameKey" -> SetTable(db, st.on, [t EXCEPT !.key = st.what.to])
    [] st.op = "addFk" -> [db EXCEPT !.fks = Append(@, st.what)]
    [] OTHER -> db
=============================================================================
