------------------------------ MODULE Migrate -------------------------------
(***************************************************************************)
(* dbml-tools migrate (generator/generator.go, generator/indexes.go): the  *)
(* script that takes one schema to another, run against a database.        *)
(*                                                                         *)
(* Migrate is a function of two schemas; its script is modelled as the     *)
(* sequence of statements it writes, in their order.  A migration is: read *)
(* the schema of the database, write the script, run it one statement at a *)
(* time.  A statement the database refuses ends it.  The run can also be   *)
(* cut off between two statements, each of which took effect on its own;   *)
(* migrate is then called again and compares the target with what is there.*)
(***************************************************************************)
EXTENDS SqlDatabase

CONSTANTS
  Migrations,     \* for every dialect the pairs <<old schema, target>> to migrate
  MaxInterrupts   \* bound on the runs that are cut off

ASSUME InterruptAssumption == MaxInterrupts \in Nat

EnumDecl == [name : STRING, values : Seq(STRING)]
ForeignKey == [child : STRING, cols : Seq(STRING), parent : STRING, pcols : Seq(STRING)]

\* A schema as it is declared: nothing twice, an index of some columns of its
\* table, and the index names that the resolver gives.
Declared(d, db) ==
  /\ DOMAIN db = {"enums", "tables", "fks", "normalized"}
  /\ db.enums \in Seq(EnumDecl) /\ db.fks \in Seq(ForeignKey)
  /\ db.tables \in Seq(TableWith({db.tables[i].records : i \in DOMAIN db.tables}))
  /\ Distinct(db.tables)
  /\ \A t \in ToSet(db.tables) :
       /\ Distinct(t.cols)
       /\ \A x \in ToSet(t.indexes) : x.keys # <<>> /\ ToSet(x.keys) \subseteq Names(t.cols)
  /\ NamesApart(d, db)

\* No index has the name that MariaDB gives to a second key of a UNIQUE column.
SecondKeys(t) == {c.name \o "_2" : c \in {x \in ToSet(t.cols) : x.unique}}
SecondKeysFree(db) == \A t \in ToSet(db.tables) : Names(t.indexes) \cap SecondKeys(t) = {}

\* An index name does not pass from one table to another: the script makes the
\* indexes of a table that stays before it comes to later tables.
NamesStay(old, new) ==
  \A t \in ToSet(old.tables), u \in ToSet(new.tables) :
    Names(t.indexes) \cap Names(u.indexes) # {} => t.name = u.name

\* SQLite adds no column that is declared NOT NULL or UNIQUE.
Addable(old, new) ==
  \A t \in ToSet(old.tables), u \in ToSet(new.tables) : t.name = u.name =>
    \A e \in ToSet(u.cols) : e.name \notin Names(t.cols) /\ (e.notnull \/ e.unique) => e.pk

ASSUME MigrationsAssumption ==
  \A d \in Dialects : \A m \in Migrations[d] : Declared(d, m[1]) /\ Declared(d, m[2])

-----------------------------------------------------------------------------
(* The script. *)

\* A faulty form of SameType: the names are compared as written.
SameTypeAsWritten(a, b, isEnum) == a = b

SameType(a, b, isEnum) == IF isEnum THEN a = b ELSE Canonical(a) = Canonical(b)

\* diffType: the type a column is compared by.
DiffType(col, t, db) ==
  IF dialect = "sqlite" THEN DeclaredType(col, Len(PkColumns(t)) = 1, db) ELSE MapType(col.type, db)

TypeChanged(oc, ot, old, nc, nt, new) ==
  /\ ~SameType(DiffType(oc, ot, old), DiffType(nc, nt, new), IsEnum(oc.type) \/ IsEnum(nc.type))
  /\ old.normalized \/ new.normalized => Generic(oc.type) # Generic(nc.type)

NotNull(col) == col.notnull \/ col.pk

Comment == Stmt("comment", "", "")

TypeChange(t, col, new) ==
  CASE dialect = "postgres" ->
         Stmt("setType", t, [name |-> col.name, type |-> MapType(col.type, new)])
    [] dialect = "mariadb" -> Stmt("modifyColumn", t, RenderColumn(col, FALSE, new))
    [] OTHER -> Comment

NullChange(t, col, new) ==
  CASE dialect = "postgres" ->
         Stmt(IF NotNull(col) THEN "setNotNull" ELSE "dropNotNull", t, [name |-> col.name])
    [] dialect = "mariadb" -> Stmt("modifyColumn", t, RenderColumn(col, FALSE, new))
    [] OTHER -> Comment

ModifiedColumn(oc, ot, old, nc, nt, new) ==
  IF TypeChanged(oc, ot, old, nc, nt, new) THEN <<TypeChange(nt.name, nc, new)>>
  ELSE When(NotNull(oc) # NotNull(nc), NullChange(nt.name, nc, new))

\* diffTable: columns added, dropped and modified.
DiffTable(ot, nt, old, new) ==
  Each(nt.cols, LAMBDA c : When(c.name \notin Names(ot.cols),
         Stmt("addColumn", nt.name, RenderColumn(c, FALSE, new)))) \o
  Each(ot.cols, LAMBDA c : When(c.name \notin Names(nt.cols),
         IF dialect = "sqlite" THEN Comment ELSE Stmt("dropColumn", nt.name, c.name))) \o
  Each(nt.cols, LAMBDA c :
         IF c.name \in Names(ot.cols)
         THEN ModifiedColumn(Named(ot.cols, c.name), ot, old, c, nt, new) ELSE <<>>)

\* indexSignature, with the index of its name in another version of the table.
Unchanged(x, t) == \E y \in ToSet(t.indexes) : y = x

\* A faulty form of IndexDrops: every index is dropped and made again.
AllIndexDrops(ot, nt) == Each(ot.indexes, LAMBDA x : <<Stmt("dropIndex", nt.name, x.name)>>)

\* diffIndexes: drops, creates, and the creates that wait for a removed table.
IndexDrops(ot, nt) ==
  Each(ot.indexes, LAMBDA x : When(~Unchanged(x, nt), Stmt("dropIndex", nt.name, x.name)))

NewIndexes(ot, nt) == Without(nt.indexes, LAMBDA x : Unchanged(x, ot))

IndexCreates(ot, nt, removed) ==
  Each(NewIndexes(ot, nt),
       LAMBDA x : When(x.name \notin removed, Stmt("createIndex", nt.name, x)))

LateCreates(ot, nt, removed) ==
  Each(NewIndexes(ot, nt),
       LAMBDA x : When(x.name \in removed, Stmt("createIndex", nt.name, x)))

\* A faulty form of PkConstraintName: an unnamed key has no name.
DeclaredKeyName(t) == t.key

PkConstraintName(t) == IF t.key # "" THEN t.key ELSE t.name \o "_pkey"

SameKey(ot, nt) == PkColumns(ot) = PkColumns(nt)

\* diffPK, first half: the old key goes before the columns change.
KeyDrops(ot, nt) ==
  When(~SameKey(ot, nt) /\ dialect # "sqlite" /\ PkColumns(ot) # <<>>,
       Stmt("dropKey", nt.name, PkConstraintName(ot)))

\* A faulty form of KeyAdds: a key is added even if it has no columns.
EmptyKeyAdds(ot, nt) ==
  IF SameKey(ot, nt) \/ dialect = "sqlite" THEN <<>>
  ELSE <<Stmt("addKey", nt.name, [keys |-> PkColumns(nt), name |-> nt.key])>>

\* diffPK, second half: the new key comes after them.  A key of the same
\* columns is renamed, in PostgreSQL only.
KeyAdds(ot, nt) ==
  IF SameKey(ot, nt)
  THEN When(dialect = "postgres" /\ PkColumns(nt) # <<>>
              /\ PkConstraintName(ot) # PkConstraintName(nt),
            Stmt("renameKey", nt.name, [from |-> PkConstraintName(ot), to |-> PkConstraintName(nt)]))
  ELSE IF dialect = "sqlite" THEN <<Comment>>
  ELSE When(PkColumns(nt) # <<>>,
            Stmt("addKey", nt.name, [keys |-> PkColumns(nt), name |-> nt.key]))

\* A faulty form of ModifiedTable: a new key is forgotten.
KeyForgotten(ot, nt, old, new, removed) ==
  IndexDrops(ot, nt) \o KeyDrops(ot, nt) \o DiffTable(ot, nt, old, new)
    \o IndexCreates(ot, nt, removed)

ModifiedTable(ot, nt, old, new, removed) ==
  IndexDrops(ot, nt) \o KeyDrops(ot, nt) \o DiffTable(ot, nt, old, new)
    \o KeyAdds(ot, nt) \o IndexCreates(ot, nt, removed)

\* The names an index can only take once the table of that name is dropped.
RemovedNames(old, new) ==
  IF dialect = "mariadb" THEN {} ELSE Names(old.tables) \ Names(new.tables)

NewEnums(old, new) ==
  IF dialect # "postgres" THEN <<>>
  ELSE Each(new.enums, LAMBDA e : When(e.name \notin Names(old.enums), CreateEnum(e)))

ModifiedTables(old, new) ==
  FlattenSeq([i \in DOMAIN new.tables |->
    IF HasTable(old, new.tables[i].name)
    THEN ModifiedTable(TableOf(old, new.tables[i].name), new.tables[i], old, new, RemovedNames(old, new))
    ELSE <<>>])

RemovedTables(old, new) ==
  Each(old.tables, LAMBDA t : When(~HasTable(new, t.name), Stmt("dropTable", t.name, "")))

LateIndexes(old, new) ==
  FlattenSeq([i \in DOMAIN new.tables |->
    IF HasTable(old, new.tables[i].name)
    THEN LateCreates(TableOf(old, new.tables[i].name), new.tables[i], RemovedNames(old, new))
    ELSE <<>>])

NewTables(old, new) ==
  Each(new.tables, LAMBDA t : IF HasTable(old, t.name) THEN <<>>
                              ELSE <<CreateTable(t, new)>> \o CreateIndexes(t))

RemovedEnums(old, new) ==
  IF dialect # "postgres" THEN <<>>
  ELSE Each(old.enums, LAMBDA e : When(e.name \notin Names(new.enums), Stmt("dropEnum", "", e.name)))

\* A faulty form of Script: removed tables go first.
RemovedFirst(old, new) ==
  NewEnums(old, new) \o RemovedTables(old, new) \o ModifiedTables(old, new)
    \o LateIndexes(old, new) \o NewTables(old, new) \o RemovedEnums(old, new)

Script(old, new) ==
  NewEnums(old, new) \o ModifiedTables(old, new) \o RemovedTables(old, new)
    \o LateIndexes(old, new) \o NewTables(old, new) \o RemovedEnums(old, new)

-----------------------------------------------------------------------------
VARIABLES
  live,        \* the database, as the schema it would be read as
  target,      \* the schema to migrate to
  script,      \* the statements still to run
  status,      \* "reading", "running" or "migrated"
  interrupts   \* the runs that were cut off

vars == <<dialect, live, target, script, status, interrupts>>

\* The database a schema declares: what its tables are when they were created.
Empty == [enums |-> <<>>, tables |-> <<>>, fks |-> <<>>, normalized |-> FALSE]

\* Its statements: indexes, and foreign keys where a table is not made with them.
Creation(db) ==
  NewEnums(Empty, db) \o NewTables(Empty, db)
    \o (IF dialect = "sqlite" THEN <<>>
        ELSE Each(db.fks, LAMBDA fk : <<Stmt("addFk", fk.child, fk)>>))

Created(db) ==
  LET stmts == Creation(db)
      after[i \in 0 .. Len(stmts)] == IF i = 0 THEN Empty ELSE Apply(after[i - 1], stmts[i])
  IN  after[Len(stmts)]

Init ==
  /\ dialect \in Dialects
  /\ \E m \in Migrations[dialect] : live = Created(m[1]) /\ target = m[2]
  /\ script = <<>>
  /\ status = "reading"
  /\ interrupts = 0

\* The catalogue of PostgreSQL lists tables in the order they were created,
\* the others by name: any order here.
Reported ==
  IF dialect = "postgres" THEN {live}
  ELSE {[live EXCEPT !.tables = order] : order \in SetToSeqs(ToSet(live.tables))}

Read ==
  /\ status = "reading"
  /\ \E db \in Reported : script' = Script(db, target)
  /\ status' = "running"
  /\ UNCHANGED <<dialect, live, target, interrupts>>

\* A statement the database refuses is not executed: the client stops there.
Execute ==
  /\ status = "running"
  /\ script # <<>>
  /\ Accepts(live, Head(script))
  /\ live' = Apply(live, Head(script))
  /\ script' = Tail(script)
  /\ UNCHANGED <<dialect, target, status, interrupts>>

Interrupt ==
  /\ status = "running"
  /\ script # <<>>
  /\ interrupts < MaxInterrupts
  /\ interrupts' = interrupts + 1
  /\ script' = <<>>
  /\ status' = "reading"
  /\ UNCHANGED <<dialect, live, target>>

Finish ==
  /\ status = "running"
  /\ script = <<>>
  /\ status' = "migrated"
  /\ UNCHANGED <<dialect, live, target, script, interrupts>>

Next == Read \/ Execute \/ Interrupt \/ Finish

Spec == Init /\ [][Next]_vars

-----------------------------------------------------------------------------
(* Properties. *)

Statuses == {"reading", "running", "migrated"}

TypeOK ==
  /\ status \in Statuses
  /\ interrupts \in 0 .. MaxInterrupts
  /\ \A t, u \in DOMAIN live.tables : live.tables[t].name = live.tables[u].name => t = u
  /\ \A t \in ToSet(live.tables) :
       /\ \A i, j \in DOMAIN t.cols : t.cols[i].name = t.cols[j].name => i = j
       /\ \A x \in ToSet(t.indexes) : ToSet(x.keys) \subseteq Names(t.cols)
  /\ \A st \in ToSet(script) : st.op \in {"addKey", "createIndex"} => st.what.keys # <<>>

\* The database never refuses a statement of the script: what a statement
\* names is there, and a name it gives is free by then, whatever statement an
\* earlier run was cut off at.
NoStatementRefused ==
  status = "running" /\ script # <<>> => Accepts(live, Head(script))

SameColumn(c, d, db) ==
  /\ IF db.normalized THEN Generic(c.type) = Generic(d.type) ELSE c.type = d.type
  /\ c.notnull = d.notnull
  /\ c.pk = d.pk

SameTable(t, u, db) ==
  /\ ToSet(t.indexes) = ToSet(u.indexes)
  /\ IF dialect = "sqlite" THEN Names(u.cols) \subseteq Names(t.cols)
     ELSE /\ Names(t.cols) = Names(u.cols)
          /\ \A c \in ToSet(u.cols) : SameColumn(Named(t.cols, c.name), c, db)
          /\ t.key = u.key

Commands(stmts) == Without(stmts, LAMBDA st : st.op = "comment")

\* A finished migration leaves the tables, columns, keys and indexes that a
\* database created from the target would have (SQLite keeps what takes a
\* rebuild of the table), and compares equal to the target: migrate writes no
\* further statement, though the database reports types, names and orders of
\* its own.
Migrated ==
  status = "migrated" =>
    LET made == Created(target)
    IN  /\ Names(live.tables) = Names(made.tables)
        /\ Names(live.enums) = Names(made.enums)
        /\ \A u \in ToSet(made.tables) : SameTable(TableOf(live, u.name), u, target)
        /\ Commands(Script(live, target)) = <<>>

\* A database created from a schema compares equal to it.
CreatedComparesEqual ==
  live = Created(target) => Commands(Script(live, target)) = <<>>

\* No step takes away what both sides have: a table of the target, a column
\* of it, or an index the target has in the same form.  Rows and columns that
\* stay in the schema keep their data.
KeepsShared ==
  [][\A u \in ToSet(target.tables) :
       HasTable(live, u.name) =>
         /\ HasTable(live', u.name)
         /\ Names(u.cols) \cap Names(TableOf(live, u.name).cols)
              \subseteq Names(TableOf(live', u.name).cols)
         /\ ToSet(u.indexes) \cap ToSet(TableOf(live, u.name).indexes)
              \subseteq ToSet(TableOf(live', u.name).indexes)]_vars
=============================================================================
