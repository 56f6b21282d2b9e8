----------------------------- MODULE MCMigrate ------------------------------
(***************************************************************************)
(* Small schemas for the migrations.  Table a comes in several versions    *)
(* that differ in columns, key and indexes; table b has an auto-increment  *)
(* key; table u is what a.u_id refers to; table foo takes the name that    *)
(* the index of table a also takes.                                        *)
(***************************************************************************)
EXTENDS Migrate

Col(name, type, flags) ==
  [name |-> name, type |-> type, notnull |-> "nn" \in flags, pk |-> "pk" \in flags,
   unique |-> "u" \in flags, inc |-> "inc" \in flags]

Idx(name, keys, unique) == [name |-> name, keys |-> keys, unique |-> unique]

Tbl(name, cols, key, indexes) ==
  [name |-> name, cols |-> cols, key |-> key, indexes |-> indexes, records |-> <<>>]

Fk(child, col, parent, pcol) ==
  [child |-> child, cols |-> <<col>>, parent |-> parent, pcols |-> <<pcol>>]

IntType == <<"int">>
E == [name |-> "e", values |-> <<"v", "w">>]
EnumType == <<"enum", "e">>

Db(enums, tables, fks) ==
  [enums |-> enums, tables |-> tables, fks |-> fks, normalized |-> FALSE]

-----------------------------------------------------------------------------
A1 == Tbl("a", <<Col("id", IntType, {"pk"}), Col("x", IntType, {"u"})>>, "", <<Idx("foo", <<"x">>, FALSE)>>)

A2 == Tbl("a", <<Col("id", <<"integer">>, {"pk"}), Col("x", IntType, {"nn"}), Col("y", EnumType, {})>>,
          "a_pk", <<Idx("foo", <<"x", "y">>, TRUE)>>)

A3 == Tbl("a", <<Col("id", IntType, {"pk"}), Col("x", <<"bigint">>, {"pk"})>>, "", <<Idx("bar", <<"id">>, FALSE)>>)

A4 == Tbl("a", <<Col("id", IntType, {}), Col("u_id", IntType, {})>>, "", <<Idx("foo", <<"u_id">>, FALSE)>>)

B1(d) ==
  Tbl("b", <<Col("id", IF d = "postgres" THEN <<"bigint">> ELSE <<"bigserial">>, {"pk", "inc"}),
             Col("v", IntType, {})>>, "", <<>>)

B2 == Tbl("b", <<Col("id", <<"bigint">>, {"pk", "inc"}), Col("v", <<"text">>, {}), Col("w", EnumType, {})>>, "",
          <<Idx("bar", <<"v">>, FALSE)>>)

U1 == Tbl("u", <<Col("id", IntType, {"pk"})>>, "", <<>>)

Foo == Tbl("foo", <<Col("y", IntType, {})>>, "", <<>>)

\* A schema with some of the tables; a.u_id refers to u.
Choose(as, bs, us, foos) ==
  {Db(<<E>>, a \o b \o u \o f, IF a = <<A4>> THEN <<Fk("a", "u_id", "u", "id")>> ELSE <<>>) :
     a \in as, b \in bs, u \in us, f \in foos}

WellFormed(db, d) ==
  /\ db.fks # <<>> => HasTable(db, "u")
  /\ d # "mariadb" =>
       /\ HasTable(db, "foo") => \A t \in ToSet(db.tables) : "foo" \notin Names(t.indexes)
       /\ \A t, u \in ToSet(db.tables) : Names(t.indexes) \cap Names(u.indexes) # {} => t = u

WithoutEnum(db) ==
  IF \E t \in ToSet(db.tables) : \E c \in ToSet(t.cols) : c.type = EnumType
  THEN db ELSE [db EXCEPT !.enums = <<>>]

Schemas(d) ==
  {WithoutEnum(db) :
     db \in {c \in Choose({<<>>, <<A1>>, <<A2>>, <<A3>>, <<A4>>}, {<<>>, <<B1(d)>>, <<B2>>},
                          {<<>>, <<U1>>}, {<<>>, <<Foo>>}) : WellFormed(c, d)}}

\* The two forms of every column that stays.
Pairs(old, new) ==
  UNION {{<<c, e>> \in ToSet(t.cols) \X ToSet(u.cols) : c.name = e.name} :
           <<t, u>> \in {p \in ToSet(old.tables) \X ToSet(new.tables) : p[1].name = p[2].name}}

SameInPostgres(c, e) == CanonicalIn("postgres", c.type) = CanonicalIn("postgres", e.type)

\* No column changes its type and whether it takes null.
OneChange(old, new) ==
  \A p \in Pairs(old, new) : SameInPostgres(p[1], p[2]) \/ NotNull(p[1]) = NotNull(p[2])

\* PostgreSQL converts the values of a column only where it has a cast.
Convertible(old, new) ==
  \A p \in Pairs(old, new) : SameInPostgres(p[1], p[2]) \/ Castable(p[1].type, p[2].type)

\* MariaDB keeps a column, and an index, that a foreign key needs, and adds
\* a key for a UNIQUE column it modifies.  The parent of a removed table stays.
KeepsForeignKeys(old, new) ==
  /\ old.fks # <<>> /\ HasTable(new, "a") => new.fks = old.fks
  /\ \A fk \in ToSet(old.fks) : HasTable(new, fk.child) \/ HasTable(new, fk.parent)
  /\ \A t \in ToSet(old.tables), u \in ToSet(new.tables) : t.name = u.name =>
       \A c \in ToSet(u.cols) : c.unique => c \in ToSet(t.cols)

\* What the script of each dialect can do.
CanMigrate(old, new, d) ==
  CASE d = "postgres" -> NamesStay(old, new) /\ OneChange(old, new) /\ Convertible(old, new)
    [] d = "mariadb"  -> KeepsForeignKeys(old, new)
    [] d = "sqlite"   -> NamesStay(old, new) /\ Addable(old, new)

SmallMigrations ==
  [d \in Dialects |-> {m \in Schemas(d) \X Schemas(d) : CanMigrate(m[1], m[2], d)}]

\* A serial key, and nothing to change.
SerialKey ==
  LET db == Db(<<>>, <<Tbl("a", <<Col("id", <<"serial">>, {"pk"})>>, "", <<>>)>>, <<>>)
  IN  [d \in Dialects |-> {<<db, db>>}]

\* These migrations meet the hypotheses of SharedKept and NeverRefused (MigrateProofs).
ASSUME SmallTargetsFree ==
  "mariadb" \in Dialects => \A m \in SmallMigrations["mariadb"] : SecondKeysFree(m[2])

ASSUME SmallSqlite ==
  "sqlite" \in Dialects =>
    \A m \in SmallMigrations["sqlite"] : NamesStay(m[1], m[2]) /\ Addable(m[1], m[2])
=============================================================================
