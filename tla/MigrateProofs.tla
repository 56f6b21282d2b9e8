--------------------------- MODULE MigrateProofs ----------------------------
(***************************************************************************)
(* What a migration does to the tables, columns and indexes of a database, *)
(* for every pair of declared schemas (Migrate.MigrationsAssumption) and   *)
(* wherever runs are cut off.                                              *)
(***************************************************************************)
EXTENDS Migrate, BasicLemmas

-----------------------------------------------------------------------------
(* The invariants. *)

Fields == {"name", "type", "notnull", "pk", "unique", "inc"}

TableTyped(t) ==
  /\ DOMAIN t = {"name", "cols", "key", "indexes", "records"}
  /\ IsList(t.cols) /\ IsList(t.indexes) /\ Distinct(t.cols)
  /\ \A c \in ToSet(t.cols) : DOMAIN c = Fields
  /\ \A x \in ToSet(t.indexes) : ToSet(x.keys) \subseteq Names(t.cols)

DbTyped(L) ==
  /\ DOMAIN L = {"enums", "tables", "fks", "normalized"}
  /\ IsList(L.enums) /\ IsList(L.tables)
  /\ Distinct(L.tables)
  /\ \A t \in ToSet(L.tables) : TableTyped(t)

\* The statements that the script of a dialect consists of.
OpsOf(d) ==
  {"comment", "createTable", "dropTable", "createIndex", "dropIndex", "addColumn"}
  \cup (IF d = "postgres" THEN {"createEnum", "dropEnum", "setType", "setNotNull", "dropNotNull", "renameKey"}
       ELSE {})
  \cup (IF d = "mariadb" THEN {"modifyColumn"} ELSE {})
  \cup (IF d = "sqlite" THEN {} ELSE {"dropColumn", "dropKey", "addKey"})

\* The statements that a script to new consists of, whatever it starts from.
MeantFor(new, st) ==
  LET Of(t) == t.name = st.on
  IN  /\ st.op \in OpsOf(dialect)
      /\ st.op = "createTable" => \E t \in ToSet(new.tables) : st = CreateTable(t, new)
      /\ st.op = "createIndex" => \E t \in ToSet(new.tables) : Of(t) /\ st.what \in ToSet(t.indexes)
      /\ st.op = "dropTable" => st.on \notin Names(new.tables)
      /\ st.op = "dropColumn" => \A t \in ToSet(new.tables) : Of(t) => st.what \notin Names(t.cols)
      /\ st.op \in {"dropIndex", "dropColumn", "dropKey", "renameKey"} => \E t \in ToSet(new.tables) : Of(t)
      /\ st.op = "addColumn" =>
           \E t \in ToSet(new.tables) : Of(t) /\ \E c \in ToSet(t.cols) : st.what = RenderColumn(c, FALSE, new)
      /\ st.op = "setType" =>
           \E t \in ToSet(new.tables) : Of(t) /\ \E c \in ToSet(t.cols) :
             st.what = [name |-> c.name, type |-> MapType(c.type, new)]
      /\ st.op \in {"setNotNull", "dropNotNull"} =>
           \E t \in ToSet(new.tables) : Of(t) /\ \E c \in ToSet(t.cols) :
             st.what.name = c.name /\ (NotNull(c) <=> st.op = "setNotNull")
      /\ st.op = "modifyColumn" =>
           /\ dialect = "mariadb"
           /\ \E t \in ToSet(new.tables) : Of(t) /\ \E c \in ToSet(t.cols) : st.what = RenderColumn(c, FALSE, new)
      /\ st.op = "addKey" =>
           /\ st.what.keys # <<>>
           /\ \E t \in ToSet(new.tables) : Of(t) /\ st.what = [keys |-> PkColumns(t), name |-> t.key]

TypeInv ==
  /\ status \in Statuses /\ interrupts \in 0 .. MaxInterrupts
  /\ dialect \in Dialects /\ Declared(dialect, target)
  /\ DbTyped(live)
  /\ IsList(script) /\ \A j \in DOMAIN script : MeantFor(target, script[j])

\* A name that MariaDB may have given to a second key.
Second(new, n, name) ==
  dialect = "mariadb" /\ \E t \in ToSet(new.tables) : t.name = n /\ name \in SecondKeys(t)

\* No two indexes have the same name, in MariaDB no two of a table.
IndexesApart(L, new) ==
  \A v, w \in ToSet(L.tables) : \A i \in DOMAIN v.indexes, j \in DOMAIN w.indexes :
    v.indexes[i].name = w.indexes[j].name /\ (dialect = "mariadb" => v = w) =>
      (v = w /\ i = j) \/ Second(new, v.name, v.indexes[i].name)

\* A DROP INDEX of the script is about an index that is there, and none that
\* stays.
DropMeant(L, new, st) ==
  st.op = "dropIndex" =>
    /\ HasTable(L, st.on)
    /\ st.what \in Names(TableOf(L, st.on).indexes) \/ Second(new, st.on, st.what)
    /\ \A t \in ToSet(new.tables) : t.name = st.on =>
         \A x \in ToSet(t.indexes) :
           x.name = st.what => x \notin ToSet(TableOf(L, st.on).indexes)

\* What does not come before what: an index is dropped once, and before the
\* columns of its table.
Follows(new, a, b) ==
  b.op = "dropIndex" =>
    /\ a.op = "dropColumn" => a.on # b.on
    /\ a.op = "dropIndex" =>
         \/ a.what # b.what
         \/ dialect = "mariadb" /\ (a.on # b.on \/ Second(new, a.on, a.what))

InOrder(new, s) == \A i, j \in DOMAIN s : i < j => Follows(new, s[i], s[j])

OrderInv == IndexesApart(live, target) /\ InOrder(target, script)

DropInv == \A j \in DOMAIN script : DropMeant(live, target, script[j])

MigrateInv == TypeInv /\ OrderInv

-----------------------------------------------------------------------------
(* Lists and databases. *)

LEMMA WithoutNamedIs ==
  ASSUME NEW s, IsList(s), NEW n, NEW f, f = WithoutNamed(s, n)
  PROVE  /\ IsList(f) /\ ToSet(f) = {x \in ToSet(s) : x.name # n} /\ PartOf(f, s)
         /\ Distinct(s) => Distinct(f)
<1> DEFINE K == {x \in ToSet(s) : x.name # n}
<1>1. \A i \in DOMAIN s : s[i] \in K <=> ~(s[i].name = n)
  BY DEF ToSet
<1>2. f = Picked(s, K)
  <2> HIDE DEF K
  <2> QED BY <1>1 DEF WithoutNamed, Without, Each, When, Picked
<1>3. IsList(f) /\ ToSet(f) = ToSet(s) \cap K /\ PartOf(f, s)
  <2> HIDE DEF K
  <2> QED BY <1>2, PickedIs
<1>4. ASSUME Distinct(s) PROVE Distinct(f)
  <2>1. PICK at : Embeds(at, f, s)
    BY <1>3 DEF PartOf
  <2>2. ASSUME NEW i \in DOMAIN f, NEW j \in DOMAIN f, f[i].name = f[j].name PROVE i = j
    <3>1. at[i] \in DOMAIN s /\ at[j] \in DOMAIN s /\ s[at[i]].name = s[at[j]].name
      BY <2>1, <2>2 DEF Embeds
    <3>2. at[i] = at[j]
      BY <1>4, <3>1 DEF Distinct
    <3> QED BY <2>1, <3>2 DEF Embeds
  <2> QED BY <2>2 DEF Distinct
<1> QED BY <1>3, <1>4

\* The indexes that are left without a column.
WithoutColumn(s, c) == Without(s, LAMBDA x : c \in ToSet(x.keys))

LEMMA WithoutColumnIs ==
  ASSUME NEW s, IsList(s), NEW c, NEW f, f = WithoutColumn(s, c)
  PROVE  IsList(f) /\ ToSet(f) = {x \in ToSet(s) : c \notin ToSet(x.keys)} /\ PartOf(f, s)
<1> DEFINE K == {x \in ToSet(s) : c \notin ToSet(x.keys)}
<1>1. \A i \in DOMAIN s : s[i] \in K <=> ~(c \in ToSet(s[i].keys))
  BY DEF ToSet
<1>2. f = Picked(s, K)
  <2> HIDE DEF K
  <2> QED BY <1>1 DEF WithoutColumn, Without, Each, When, Picked
<1>3. IsList(f) /\ ToSet(f) = ToSet(s) \cap K /\ PartOf(f, s)
  <2> HIDE DEF K
  <2> QED BY <1>2, PickedIs
<1> QED BY <1>3

LEMMA NamedIs ==
  ASSUME NEW s, Distinct(s), NEW x \in ToSet(s)
  PROVE  Named(s, x.name) = x
<1>1. \A y \in ToSet(s) : y.name = x.name => y = x
  BY DEF Distinct, ToSet
<1> QED BY <1>1, Zenon DEF Named

LEMMA NamedIn ==
  ASSUME NEW s, NEW n \in Names(s)
  PROVE  Named(s, n) \in ToSet(s) /\ Named(s, n).name = n
<1>1. \E x \in ToSet(s) : x.name = n
  BY DEF Names, ToSet
<1> QED BY <1>1, Zenon DEF Named

\* A declared schema is a database as far as its tables go.
LEMMA DeclaredTyped ==
  ASSUME NEW d, NEW db, Declared(d, db)
  PROVE  DbTyped(db) /\ IsList(db.fks)
<1> DEFINE R == {db.tables[i].records : i \in DOMAIN db.tables}
<1>1. db.tables \in Seq(TableWith(R)) /\ db.enums \in Seq(EnumDecl) /\ db.fks \in Seq(ForeignKey)
  BY DEF Declared
<1> HIDE DEF R
<1>2. IsList(db.tables) /\ IsList(db.enums) /\ IsList(db.fks)
  BY <1>1, SeqIsList
<1>3. ASSUME NEW t \in ToSet(db.tables) PROVE TableTyped(t)
  <2>1. PICK i \in DOMAIN db.tables : t = db.tables[i]
    BY DEF ToSet
  <2>2. i \in 1 .. Len(db.tables)
    BY <1>2, ListIs
  <2>3. t \in TableWith(R)
    BY <1>1, <2>1, <2>2, ElementOfSeq
  <2>4. /\ DOMAIN t = {"name", "cols", "key", "indexes", "records"}
        /\ t.cols \in Seq(Column) /\ t.indexes \in Seq(Index)
    BY <2>3 DEF TableWith
  <2>5. IsList(t.cols) /\ IsList(t.indexes)
    BY <2>4, SeqIsList
  <2>6. ASSUME NEW c \in ToSet(t.cols) PROVE DOMAIN c = Fields
    <3>1. PICK j \in DOMAIN t.cols : c = t.cols[j]
      BY DEF ToSet
    <3>2. j \in 1 .. Len(t.cols)
      BY <2>5, ListIs
    <3>3. c \in Column
      BY <2>4, <3>1, <3>2, ElementOfSeq
    <3> QED BY <3>3 DEF Column, Fields
  <2> QED BY <2>4, <2>5, <2>6 DEF TableTyped, Declared
<1> QED BY <1>2, <1>3 DEF DbTyped, Declared

\* Statements about a table or a column in it.
AltersTable(st) == st.op \in {"createIndex", "addColumn", "setType", "setNotNull", "dropNotNull",
                              "dropKey", "addKey", "renameKey"}

LEMMA ApplyTable ==
  ASSUME NEW L, NEW st
  PROVE  LET t == TableOf(L, st.on)
             c == ColumnOf(L, st.on, st.what.name)
             M == Apply(L, st)
         IN  /\ st.op = "createIndex" => M = SetTable(L, st.on, [t EXCEPT !.indexes = Append(@, st.what)])
             /\ st.op = "addColumn" => M = SetTable(L, st.on, [t EXCEPT !.cols = Append(@, Stored(st.what))])
             /\ st.op = "setType" => M = SetColumn(L, st.on, c.name, Stored([c EXCEPT !.type = st.what.type]))
             /\ st.op = "setNotNull" => M = SetColumn(L, st.on, c.name, [c EXCEPT !.notnull = TRUE])
             /\ st.op = "dropNotNull" => M = SetColumn(L, st.on, c.name, [c EXCEPT !.notnull = FALSE])
             /\ st.op = "dropKey" => M = SetTable(L, st.on, [Unkeyed(t) EXCEPT !.key = ""])
             /\ st.op = "addKey" => M = SetTable(L, st.on, Keyed(L, t, st.what.keys, st.what.name))
             /\ st.op = "renameKey" => M = SetTable(L, st.on, [t EXCEPT !.key = st.what.to])
             /\ st.op = "dropColumn" => M = DropColumn(L, st.on, st.what)
             /\ st.op = "modifyColumn" => M = Modify(L, st.on, st.what)
<1> DEFINE t == TableOf(L, st.on)
           c == ColumnOf(L, st.on, st.what.name)
           M == Apply(L, st)
<1>1. st.op = "createIndex" => M = SetTable(L, st.on, [t EXCEPT !.indexes = Append(@, st.what)])
  BY DEF Apply
<1>2. st.op = "addColumn" => M = SetTable(L, st.on, [t EXCEPT !.cols = Append(@, Stored(st.what))])
  BY DEF Apply
<1>3. st.op = "setType" => M = SetColumn(L, st.on, c.name, Stored([c EXCEPT !.type = st.what.type]))
  BY DEF Apply
<1>4. st.op = "setNotNull" => M = SetColumn(L, st.on, c.name, [c EXCEPT !.notnull = TRUE])
  BY DEF Apply
<1>5. st.op = "dropNotNull" => M = SetColumn(L, st.on, c.name, [c EXCEPT !.notnull = FALSE])
  BY DEF Apply
<1>6. st.op = "dropKey" => M = SetTable(L, st.on, [Unkeyed(t) EXCEPT !.key = ""])
  BY DEF Apply
<1>7. st.op = "addKey" => M = SetTable(L, st.on, Keyed(L, t, st.what.keys, st.what.name))
  BY DEF Apply
<1>8. st.op = "renameKey" => M = SetTable(L, st.on, [t EXCEPT !.key = st.what.to])
  BY DEF Apply
<1>9. st.op = "dropColumn" => M = DropColumn(L, st.on, st.what)
  BY DEF Apply
<1>10. st.op = "modifyColumn" => M = Modify(L, st.on, st.what)
  BY DEF Apply
<1> QED BY <1>1, <1>2, <1>3, <1>4, <1>5, <1>6, <1>7, <1>8, <1>9, <1>10

\* The table that CREATE TABLE makes.
NewTable(L, st) ==
  Keyed(L, [name |-> st.on, key |-> "", indexes |-> <<>>, records |-> <<>>,
            cols |-> [i \in DOMAIN st.what.cols |-> Stored(st.what.cols[i])]],
        st.what.pk, st.what.key)

\* The foreign keys of other tables.
OthersKeys(fks, t) == Without(fks, LAMBDA f : f.child = t)

LEMMA ApplyOther ==
  ASSUME NEW L, NEW st
  PROVE  LET M == Apply(L, st)
         IN  /\ st.op = "createEnum" => M = [L EXCEPT !.enums = Append(@, st.what)]
             /\ st.op = "dropEnum" => M = [L EXCEPT !.enums = WithoutNamed(@, st.what)]
             /\ st.op = "createTable" =>
                  M = [L EXCEPT !.tables = Append(@, NewTable(L, st)), !.fks = @ \o SetToSeq(st.what.fks)]
             /\ st.op = "dropTable" =>
                  M = [L EXCEPT !.tables = WithoutNamed(@, st.on),
                                !.fks = OthersKeys(@, st.on)]
             /\ st.op = "dropIndex" =>
                  M = DropIndex(L, st.on, st.what)
             /\ st.op = "addFk" => M = [L EXCEPT !.fks = Append(@, st.what)]
             /\ \/ AltersTable(st)
                \/ st.op \in {"createEnum", "dropEnum", "createTable", "dropTable", "dropIndex", "addFk",
                              "dropColumn", "modifyColumn"}
                \/ M = L
<1> DEFINE M == Apply(L, st)
<1>1. st.op = "createEnum" => M = [L EXCEPT !.enums = Append(@, st.what)]
  BY DEF Apply
<1>2. st.op = "dropEnum" => M = [L EXCEPT !.enums = WithoutNamed(@, st.what)]
  BY DEF Apply
<1>3. st.op = "createTable" =>
        M = [L EXCEPT !.tables = Append(@, NewTable(L, st)), !.fks = @ \o SetToSeq(st.what.fks)]
  BY DEF Apply, NewTable
<1>4. st.op = "dropTable" =>
        M = [L EXCEPT !.tables = WithoutNamed(@, st.on),
                      !.fks = OthersKeys(@, st.on)]
  BY DEF Apply, OthersKeys
<1>5. st.op = "dropIndex" => M = DropIndex(L, st.on, st.what)
  BY DEF Apply
<1>6. st.op = "addFk" => M = [L EXCEPT !.fks = Append(@, st.what)]
  BY DEF Apply
<1>7. \/ AltersTable(st)
      \/ st.op \in {"createEnum", "dropEnum", "createTable", "dropTable", "dropIndex", "addFk",
                    "dropColumn", "modifyColumn"}
      \/ M = L
  BY DEF Apply, AltersTable
<1> QED BY <1>1, <1>2, <1>3, <1>4, <1>5, <1>6, <1>7

-----------------------------------------------------------------------------
(* What a statement does to the tables. *)

\* How the table v goes on as w.
ColumnsKept(v, w, st) ==
  \A n \in Names(v.cols) :
    n \in Names(w.cols) \/ (st.op = "dropColumn" /\ st.on = v.name /\ n = st.what)

ColumnsFrom(v, w, st) ==
  \A n \in Names(w.cols) :
    n \in Names(v.cols) \/ (st.op = "addColumn" /\ st.on = v.name /\ n = st.what.name)

IndexesKept(v, w, st) ==
  \A x \in ToSet(v.indexes) :
    \/ x \in ToSet(w.indexes)
    \/ st.op = "dropColumn" /\ st.on = v.name /\ st.what \in ToSet(x.keys)
    \/ st.op = "dropIndex" /\ (dialect = "mariadb" => st.on = v.name) /\ st.what = x.name

Adds(st, x) ==
  \/ st.op = "createIndex" /\ x = st.what
  \/ st.op = "modifyColumn" /\ st.what.unique /\ x.name = st.what.name \o "_2"

IndexesFrom(v, w, st) ==
  \/ PartOf(w.indexes, v.indexes)
  \/ v.name = st.on /\ \E x : Adds(st, x) /\ w.indexes = Append(v.indexes, x)

Became(v, w, st) ==
  /\ w.name = v.name
  /\ ColumnsKept(v, w, st) /\ ColumnsFrom(v, w, st) /\ IndexesKept(v, w, st) /\ IndexesFrom(v, w, st)

Stepped(L, M, st) ==
  /\ DbTyped(M)
  /\ \A w \in ToSet(M.tables) :
       \/ st.op = "createTable" /\ w = NewTable(L, st)
       \/ \E v \in ToSet(L.tables) : Became(v, w, st)
  /\ \A v \in ToSet(L.tables) : HasTable(M, v.name) \/ (st.op = "dropTable" /\ st.on = v.name)

\* What a statement needs for it.
Runnable(L, st) ==
  /\ st.op \in {"dropColumn", "modifyColumn"} \/ AltersTable(st) => HasTable(L, st.on)
  /\ st.op \in {"setType", "setNotNull", "dropNotNull", "modifyColumn"} =>
       st.what.name \in Names(TableOf(L, st.on).cols)
  /\ st.op = "addColumn" => st.what.name \notin Names(TableOf(L, st.on).cols)
  /\ st.op \in {"addColumn", "modifyColumn"} => DOMAIN st.what = Fields
  /\ st.op = "createIndex" => ToSet(st.what.keys) \subseteq Names(TableOf(L, st.on).cols)
  /\ st.op = "createTable" =>
       /\ ~HasTable(L, st.on)
       /\ IsList(st.what.cols) /\ Distinct(st.what.cols)
       /\ \A c \in ToSet(st.what.cols) : DOMAIN c = Fields

LEMMA PartOfItself ==
  ASSUME NEW s
  PROVE  PartOf(s, s)
<1>1. Embeds([i \in DOMAIN s |-> i], s, s)
  BY DEF Embeds
<1> QED BY <1>1 DEF PartOf

LEMMA TableStays ==
  ASSUME NEW v, NEW w, NEW st, w.name = v.name, w.indexes = v.indexes,
         Names(w.cols) = Names(v.cols)
  PROVE  Became(v, w, st)
BY PartOfItself DEF Became, ColumnsKept, ColumnsFrom, IndexesKept, IndexesFrom

\* The elements of a list are changed, but not their names.
LEMMA SameNames ==
  ASSUME NEW s, IsList(s), NEW f, f = [i \in DOMAIN s |-> f[i]], \A i \in DOMAIN s : f[i].name = s[i].name
  PROVE  IsList(f) /\ DOMAIN f = DOMAIN s /\ Names(f) = Names(s) /\ (Distinct(s) => Distinct(f))
<1>1. DOMAIN s = 1 .. Len(s) /\ Len(s) \in Nat
  BY ListIs
<1>2. f = [i \in 1 .. Len(s) |-> f[i]] /\ DOMAIN f = DOMAIN s
  BY <1>1
<1>3. IsList(f)
  BY <1>1, <1>2, MadeList
<1>4. Names(f) = Names(s)
  BY <1>2 DEF Names
<1>5. Distinct(s) => Distinct(f)
  BY <1>2 DEF Distinct
<1> QED BY <1>2, <1>3, <1>4, <1>5

\* M is L with the table new.
TableSet(M, L, new) ==
  /\ DOMAIN M = DOMAIN L /\ M.enums = L.enums
  /\ IsList(M.tables) /\ Distinct(M.tables) /\ Names(M.tables) = Names(L.tables)
  /\ new \in ToSet(M.tables)
  /\ \A v \in ToSet(M.tables) : v = new \/ (v \in ToSet(L.tables) /\ v.name # new.name)

LEMMA SetTableIs ==
  ASSUME NEW L, DbTyped(L), NEW on, HasTable(L, on), NEW new, new.name = on, NEW M, M = SetTable(L, on, new)
  PROVE  TableSet(M, L, new)
<1> DEFINE old == L.tables
           tables == [i \in DOMAIN old |-> IF old[i].name = on THEN new ELSE old[i]]
<1>1. M = [L EXCEPT !.tables = tables]
  BY DEF SetTable
<1>2. DOMAIN M = DOMAIN L /\ M.enums = L.enums /\ M.tables = tables
  BY <1>1 DEF DbTyped
<1>3. DOMAIN tables = DOMAIN old /\ \A i \in DOMAIN old : tables[i].name = old[i].name
  OBVIOUS
<1>4. \A i \in DOMAIN tables : tables[i] = new \/ (tables[i] = old[i] /\ old[i].name # on)
  OBVIOUS
<1>5. PICK k \in DOMAIN old : old[k].name = on
  BY DEF HasTable, Names
<1>6. tables[k] = new /\ tables = [i \in DOMAIN old |-> tables[i]]
  BY <1>5
<1> HIDE DEF tables
<1>7. IsList(tables) /\ Distinct(tables) /\ Names(tables) = Names(old)
  BY <1>3, <1>6, SameNames DEF DbTyped
<1>8. \A v \in ToSet(tables) : v = new \/ (v \in ToSet(old) /\ v.name # on)
  BY <1>3, <1>4 DEF ToSet
<1>9. new \in ToSet(tables)
  BY <1>3, <1>5, <1>6 DEF ToSet
<1> QED BY <1>2, <1>7, <1>8, <1>9 DEF TableSet

LEMMA OneTable ==
  ASSUME NEW L, DbTyped(L), NEW st, NEW v, v \in ToSet(L.tables), NEW new, NEW M,
         TableSet(M, L, new), TableTyped(new), Became(v, new, st)
  PROVE  Stepped(L, M, st)
<1>1. DbTyped(M)
  BY DEF TableSet, DbTyped
<1>2. \A w \in ToSet(M.tables) : \E u \in ToSet(L.tables) : Became(u, w, st)
  BY TableStays DEF TableSet
<1>3. \A u \in ToSet(L.tables) : HasTable(M, u.name)
  BY DEF TableSet, HasTable, Names, ToSet
<1> QED BY <1>1, <1>2, <1>3 DEF Stepped

LEMMA TableOfIs ==
  ASSUME NEW L, DbTyped(L), NEW on, HasTable(L, on)
  PROVE  /\ TableOf(L, on) \in ToSet(L.tables) /\ TableOf(L, on).name = on
         /\ TableTyped(TableOf(L, on))
<1>1. TableOf(L, on) \in ToSet(L.tables) /\ TableOf(L, on).name = on
  BY NamedIn DEF HasTable, TableOf
<1> QED BY <1>1 DEF DbTyped

\* A table whose columns have changed, but not their names.
LEMMA ColumnsChange ==
  ASSUME NEW v, TableTyped(v), NEW st, NEW w, DOMAIN w = DOMAIN v, w.name = v.name, w.indexes = v.indexes,
         w.cols = [i \in DOMAIN v.cols |-> w.cols[i]],
         \A i \in DOMAIN v.cols : w.cols[i].name = v.cols[i].name /\ DOMAIN w.cols[i] = Fields
  PROVE  TableTyped(w) /\ Became(v, w, st)
<1>1. /\ IsList(w.cols) /\ DOMAIN w.cols = DOMAIN v.cols /\ Names(w.cols) = Names(v.cols)
      /\ Distinct(w.cols)
  BY SameNames DEF TableTyped
<1>2. \A c \in ToSet(w.cols) : DOMAIN c = Fields
  BY <1>1 DEF ToSet
<1>3. TableTyped(w)
  BY <1>1, <1>2 DEF TableTyped
<1> QED BY <1>1, <1>3, TableStays

LEMMA StoredIs ==
  ASSUME NEW c, DOMAIN c = Fields
  PROVE  DOMAIN Stored(c) = Fields /\ Stored(c).name = c.name
BY DEF Stored, Fields

LEMMA ColumnFields ==
  ASSUME NEW v, TableTyped(v), NEW i \in DOMAIN v.cols
  PROVE  DOMAIN v.cols[i] = Fields
BY DEF TableTyped, ToSet

\* The columns of a key are changed, but not their names.
LEMMA KeyedIs ==
  ASSUME NEW L, NEW v, TableTyped(v), NEW keys, NEW name, NEW st
  PROVE  LET w == Keyed(L, v, keys, name) IN TableTyped(w) /\ Became(v, w, st) /\ w.indexes = v.indexes
<1> DEFINE w == Keyed(L, v, keys, name)
<1>1. /\ DOMAIN w = DOMAIN v /\ w.name = v.name /\ w.indexes = v.indexes
      /\ w.cols = [i \in DOMAIN v.cols |-> IF v.cols[i].name \in ToSet(keys)
                     THEN [v.cols[i] EXCEPT !.pk = TRUE, !.notnull = TRUE] ELSE v.cols[i]]
  BY DEF Keyed, TableTyped
<1> HIDE DEF w
<1>2. ASSUME NEW i \in DOMAIN v.cols PROVE w.cols[i].name = v.cols[i].name /\ DOMAIN w.cols[i] = Fields
  <2>1. DOMAIN v.cols[i] = Fields
    BY ColumnFields
  <2>2. w.cols[i] = v.cols[i] \/ w.cols[i] = [v.cols[i] EXCEPT !.pk = TRUE, !.notnull = TRUE]
    BY <1>1
  <2> QED BY <2>1, <2>2 DEF Fields
<1>3. w.cols = [i \in DOMAIN v.cols |-> w.cols[i]]
  BY <1>1
<1>4. TableTyped(w) /\ Became(v, w, st)
  BY <1>1, <1>2, <1>3, ColumnsChange
<1> QED BY <1>1, <1>4 DEF w

LEMMA UnkeyedIs ==
  ASSUME NEW v, TableTyped(v), NEW st
  PROVE  LET w == [Unkeyed(v) EXCEPT !.key = ""]
         IN  TableTyped(w) /\ Became(v, w, st) /\ Names(w.cols) = Names(v.cols) /\ w.indexes = v.indexes
<1> DEFINE w == [Unkeyed(v) EXCEPT !.key = ""]
<1>1. /\ DOMAIN w = DOMAIN v /\ w.name = v.name /\ w.indexes = v.indexes
      /\ w.cols = [i \in DOMAIN v.cols |-> [v.cols[i] EXCEPT !.pk = FALSE]]
  BY DEF Unkeyed, TableTyped
<1> HIDE DEF w
<1>2. ASSUME NEW i \in DOMAIN v.cols PROVE w.cols[i].name = v.cols[i].name /\ DOMAIN w.cols[i] = Fields
  <2>1. DOMAIN v.cols[i] = Fields
    BY ColumnFields
  <2>2. w.cols[i] = [v.cols[i] EXCEPT !.pk = FALSE]
    BY <1>1
  <2> QED BY <2>1, <2>2 DEF Fields
<1>3. w.cols = [i \in DOMAIN v.cols |-> w.cols[i]] /\ IsList(v.cols)
  BY <1>1 DEF TableTyped
<1>4. TableTyped(w) /\ Became(v, w, st)
  BY <1>1, <1>2, <1>3, ColumnsChange
<1>5. Names(w.cols) = Names(v.cols)
  BY <1>2, <1>3, SameNames
<1> QED BY <1>1, <1>4, <1>5 DEF w

\* A table with a column changed.
WithColumn(v, c, new) ==
  [v EXCEPT !.cols = [i \in DOMAIN @ |-> IF @[i].name = c THEN new ELSE @[i]]]

LEMMA WithColumnIs ==
  ASSUME NEW v, TableTyped(v), NEW new, DOMAIN new = Fields, NEW st
  PROVE  LET w == WithColumn(v, new.name, new)
         IN  /\ TableTyped(w) /\ Became(v, w, st)
             /\ w.name = v.name /\ w.indexes = v.indexes /\ Names(w.cols) = Names(v.cols)
<1> DEFINE w == WithColumn(v, new.name, new)
<1>1. /\ DOMAIN w = DOMAIN v /\ w.name = v.name /\ w.indexes = v.indexes
      /\ w.cols = [i \in DOMAIN v.cols |-> IF v.cols[i].name = new.name THEN new ELSE v.cols[i]]
  BY DEF WithColumn, TableTyped
<1> HIDE DEF w
<1>2. ASSUME NEW i \in DOMAIN v.cols PROVE w.cols[i].name = v.cols[i].name /\ DOMAIN w.cols[i] = Fields
  BY <1>1, ColumnFields
<1>3. w.cols = [i \in DOMAIN v.cols |-> w.cols[i]] /\ IsList(v.cols)
  BY <1>1 DEF TableTyped
<1>4. TableTyped(w) /\ Became(v, w, st)
  BY <1>1, <1>2, <1>3, ColumnsChange
<1>5. Names(w.cols) = Names(v.cols)
  BY <1>2, <1>3, SameNames
<1> QED BY <1>1, <1>4, <1>5 DEF w

LEMMA SetColumnStep ==
  ASSUME NEW L, DbTyped(L), NEW on, HasTable(L, on), NEW new, DOMAIN new = Fields, NEW st
  PROVE  Stepped(L, SetColumn(L, on, new.name, new), st)
<1> DEFINE v == TableOf(L, on)
           w == WithColumn(v, new.name, new)
           M == SetColumn(L, on, new.name, new)
<1>1. v \in ToSet(L.tables) /\ v.name = on /\ TableTyped(v)
  BY TableOfIs
<1>2. M = SetTable(L, on, w)
  BY DEF SetColumn, WithColumn
<1> HIDE DEF v
<1>3. TableTyped(w) /\ Became(v, w, st) /\ w.name = on
  BY <1>1, WithColumnIs
<1> HIDE DEF w, M
<1>4. TableSet(M, L, w)
  BY <1>2, <1>3, SetTableIs
<1>5. Stepped(L, M, st)
  BY <1>1, <1>3, <1>4, OneTable
<1> QED BY <1>5 DEF M

LEMMA AppendNames ==
  ASSUME NEW s, IsList(s), NEW x
  PROVE  /\ Names(Append(s, x)) = Names(s) \cup {x.name}
         /\ Distinct(s) /\ x.name \notin Names(s) => Distinct(Append(s, x))
<1>1. DOMAIN s = 1 .. Len(s) /\ Len(s) \in Nat
  BY ListIs
<1>2. /\ IsList(Append(s, x)) /\ Len(Append(s, x)) = Len(s) + 1
      /\ \A i \in 1 .. Len(s) : Append(s, x)[i] = s[i]
      /\ Append(s, x)[Len(s) + 1] = x
  BY AppendList
<1> DEFINE n == Len(s)
           t == Append(s, x)
<1>3. DOMAIN t = 1 .. n + 1 /\ n \in Nat /\ DOMAIN s = 1 .. n
  BY <1>1, <1>2, ListIs
<1>4. (\A i \in 1 .. n : t[i] = s[i]) /\ t[n + 1] = x
  BY <1>2
<1> HIDE DEF n, t
<1>5. Names(t) = Names(s) \cup {x.name}
  BY <1>3, <1>4 DEF Names
<1>6. ASSUME Distinct(s), x.name \notin Names(s), NEW i \in DOMAIN t, NEW j \in DOMAIN t, t[i].name = t[j].name
      PROVE  i = j
  <2>1. i \in 1 .. n \/ i = n + 1
    BY <1>3
  <2>2. j \in 1 .. n \/ j = n + 1
    BY <1>3
  <2>3. \A k \in 1 .. n : s[k].name # x.name
    BY <1>3, <1>6 DEF Names
  <2> QED BY <1>3, <1>4, <1>6, <2>1, <2>2, <2>3 DEF Distinct
<1> QED BY <1>5, <1>6 DEF Distinct, t

LEMMA SetTableStep ==
  ASSUME NEW L, DbTyped(L), NEW on, HasTable(L, on), NEW st, NEW w, TableTyped(w),
         w.name = on, Became(TableOf(L, on), w, st)
  PROVE  Stepped(L, SetTable(L, on, w), st)
<1>1. TableSet(SetTable(L, on, w), L, w)
  BY SetTableIs
<1>2. TableOf(L, on) \in ToSet(L.tables)
  BY TableOfIs
<1> QED BY <1>1, <1>2, OneTable

\* A table with one more index.
LEMMA IndexAdded ==
  ASSUME NEW v, TableTyped(v), NEW st, v.name = st.on, NEW x, Adds(st, x), ToSet(x.keys) \subseteq Names(v.cols)
  PROVE  LET w == [v EXCEPT !.indexes = Append(@, x)] IN TableTyped(w) /\ Became(v, w, st) /\ w.name = v.name
<1> DEFINE w == [v EXCEPT !.indexes = Append(@, x)]
<1>1. /\ DOMAIN w = DOMAIN v /\ w.name = v.name /\ w.cols = v.cols /\ w.indexes = Append(v.indexes, x)
      /\ IsList(v.indexes)
  BY DEF TableTyped
<1> HIDE DEF w
<1>2. IsList(w.indexes) /\ ToSet(w.indexes) = ToSet(v.indexes) \cup {x}
  BY <1>1, AppendList, AppendElements
<1>3. TableTyped(w)
  BY <1>1, <1>2 DEF TableTyped
<1>4. ColumnsKept(v, w, st) /\ ColumnsFrom(v, w, st) /\ IndexesKept(v, w, st)
  BY <1>1, <1>2 DEF ColumnsKept, ColumnsFrom, IndexesKept
<1>5. IndexesFrom(v, w, st)
  BY <1>1 DEF IndexesFrom
<1> QED BY <1>1, <1>3, <1>4, <1>5 DEF Became, w

LEMMA ColumnAdded ==
  ASSUME NEW v, TableTyped(v), NEW st, st.op = "addColumn", st.on = v.name,
         NEW c, DOMAIN c = Fields, c.name = st.what.name, c.name \notin Names(v.cols)
  PROVE  LET w == [v EXCEPT !.cols = Append(@, c)] IN TableTyped(w) /\ Became(v, w, st) /\ w.name = v.name
<1> DEFINE w == [v EXCEPT !.cols = Append(@, c)]
<1>1. /\ DOMAIN w = DOMAIN v /\ w.name = v.name /\ w.indexes = v.indexes /\ w.cols = Append(v.cols, c)
      /\ IsList(v.cols) /\ Distinct(v.cols)
  BY DEF TableTyped
<1> HIDE DEF w
<1>2. IsList(w.cols) /\ ToSet(w.cols) = ToSet(v.cols) \cup {c}
  BY <1>1, AppendList, AppendElements
<1>3. Names(w.cols) = Names(v.cols) \cup {c.name} /\ Distinct(w.cols)
  BY <1>1, AppendNames
<1>4. TableTyped(w)
  BY <1>1, <1>2, <1>3 DEF TableTyped
<1>5. PartOf(w.indexes, v.indexes)
  BY <1>1, PartOfItself
<1>6. Became(v, w, st)
  BY <1>1, <1>3, <1>5 DEF Became, ColumnsKept, ColumnsFrom, IndexesKept, IndexesFrom
<1> QED BY <1>1, <1>4, <1>6 DEF w

LEMMA AlterStep ==
  ASSUME NEW L, DbTyped(L), NEW st, AltersTable(st), Runnable(L, st)
  PROVE  Stepped(L, Apply(L, st), st)
<1> DEFINE v == TableOf(L, st.on)
           c == ColumnOf(L, st.on, st.what.name)
           M == Apply(L, st)
<1>1. HasTable(L, st.on)
  BY DEF Runnable
<1>2. v \in ToSet(L.tables) /\ v.name = st.on /\ TableTyped(v)
  BY <1>1, TableOfIs
<1>3. ASSUME st.op \in {"setType", "setNotNull", "dropNotNull"}
      PROVE  c.name = st.what.name /\ DOMAIN c = Fields
  <2>1. st.what.name \in Names(v.cols)
    BY <1>3 DEF Runnable
  <2>2. c \in ToSet(v.cols) /\ c.name = st.what.name
    BY <2>1, NamedIn DEF ColumnOf
  <2> QED BY <1>2, <2>2 DEF TableTyped
<1> HIDE DEF v, c, M
<1>4. CASE st.op = "createIndex"
  <2> DEFINE w == [v EXCEPT !.indexes = Append(@, st.what)]
  <2>1. ToSet(st.what.keys) \subseteq Names(v.cols) /\ Adds(st, st.what)
    BY <1>4 DEF Runnable, Adds, v
  <2>2. TableTyped(w) /\ Became(v, w, st) /\ w.name = v.name
    BY <1>2, <2>1, IndexAdded
  <2> HIDE DEF w
  <2>3. M = SetTable(L, st.on, w)
    BY <1>4, ApplyTable DEF M, v, w
  <2> QED BY <1>1, <1>2, <2>2, <2>3, SetTableStep DEF v, M
<1>5. CASE st.op = "addColumn"
  <2> DEFINE w == [v EXCEPT !.cols = Append(@, Stored(st.what))]
  <2>1. st.what.name \notin Names(v.cols) /\ DOMAIN st.what = Fields
    BY <1>5 DEF Runnable, v
  <2>2. /\ DOMAIN Stored(st.what) = Fields /\ Stored(st.what).name \notin Names(v.cols)
        /\ Stored(st.what).name = st.what.name
    BY <2>1, StoredIs
  <2>3. TableTyped(w) /\ Became(v, w, st) /\ w.name = v.name
    BY <1>2, <1>5, <2>2, ColumnAdded
  <2> HIDE DEF w
  <2>4. M = SetTable(L, st.on, w)
    BY <1>5, ApplyTable DEF M, v, w
  <2> QED BY <1>1, <1>2, <2>3, <2>4, SetTableStep DEF v, M
<1>6. CASE st.op = "setType"
  <2> DEFINE new == Stored([c EXCEPT !.type = st.what.type])
  <2>1. M = SetColumn(L, st.on, c.name, new)
    BY <1>6, ApplyTable DEF M, c
  <2>2. DOMAIN [c EXCEPT !.type = st.what.type] = Fields /\ [c EXCEPT !.type = st.what.type].name = c.name
    BY <1>3, <1>6 DEF Fields
  <2>3. DOMAIN new = Fields /\ new.name = c.name
    BY <2>2, StoredIs
  <2> HIDE DEF new
  <2>4. Stepped(L, SetColumn(L, st.on, new.name, new), st)
    BY <1>1, <2>3, SetColumnStep
  <2> QED BY <2>1, <2>3, <2>4 DEF M
<1>7. CASE st.op = "setNotNull"
  <2> DEFINE new == [c EXCEPT !.notnull = TRUE]
  <2>1. M = SetColumn(L, st.on, c.name, new)
    BY <1>7, ApplyTable DEF M, c
  <2>2. DOMAIN new = Fields /\ new.name = c.name
    BY <1>3, <1>7 DEF Fields
  <2> HIDE DEF new
  <2>3. Stepped(L, SetColumn(L, st.on, new.name, new), st)
    BY <1>1, <2>2, SetColumnStep
  <2> QED BY <2>1, <2>2, <2>3 DEF M
<1>8. CASE st.op = "dropNotNull"
  <2> DEFINE new == [c EXCEPT !.notnull = FALSE]
  <2>1. M = SetColumn(L, st.on, c.name, new)
    BY <1>8, ApplyTable DEF M, c
  <2>2. DOMAIN new = Fields /\ new.name = c.name
    BY <1>3, <1>8 DEF Fields
  <2> HIDE DEF new
  <2>3. Stepped(L, SetColumn(L, st.on, new.name, new), st)
    BY <1>1, <2>2, SetColumnStep
  <2> QED BY <2>1, <2>2, <2>3 DEF M
<1>9. CASE st.op = "dropKey"
  <2> DEFINE w == [Unkeyed(v) EXCEPT !.key = ""]
  <2>1. M = SetTable(L, st.on, w)
    BY <1>9, ApplyTable DEF M, v
  <2>2. TableTyped(w) /\ Became(v, w, st)
    BY <1>2, UnkeyedIs
  <2> HIDE DEF w
  <2>3. w.name = st.on
    BY <1>2, <2>2 DEF Became
  <2> QED BY <1>1, <2>1, <2>2, <2>3, SetTableStep DEF v, M
<1>10. CASE st.op = "addKey"
  <2> DEFINE w == Keyed(L, v, st.what.keys, st.what.name)
  <2>1. M = SetTable(L, st.on, w)
    BY <1>10, ApplyTable DEF M, v
  <2>2. TableTyped(w) /\ Became(v, w, st)
    BY <1>2, KeyedIs
  <2> HIDE DEF w
  <2>3. w.name = st.on
    BY <1>2, <2>2 DEF Became
  <2> QED BY <1>1, <2>1, <2>2, <2>3, SetTableStep DEF v, M
<1>11. CASE st.op = "renameKey"
  <2> DEFINE w == [v EXCEPT !.key = st.what.to]
  <2>1. M = SetTable(L, st.on, w)
    BY <1>11, ApplyTable DEF M, v
  <2>2. DOMAIN w = DOMAIN v /\ w.name = v.name /\ w.indexes = v.indexes /\ w.cols = v.cols
    BY <1>2 DEF TableTyped
  <2> HIDE DEF w
  <2>3. TableTyped(w) /\ Became(v, w, st)
    BY <1>2, <2>2, TableStays DEF TableTyped
  <2> QED BY <1>1, <1>2, <2>1, <2>2, <2>3, SetTableStep DEF v, M
<1> QED BY <1>4, <1>5, <1>6, <1>7, <1>8, <1>9, <1>10, <1>11 DEF AltersTable, M

\* Foreign keys and enums are not looked at.
LEMMA SameTables ==
  ASSUME NEW L, NEW M, NEW st, Stepped(L, M, st), NEW N, DOMAIN N = DOMAIN M, N.tables = M.tables, IsList(N.enums)
  PROVE  Stepped(L, N, st)
BY DEF Stepped, DbTyped, HasTable

LEMMA StillBecame ==
  ASSUME NEW v, NEW u, NEW w, NEW st, Became(v, u, st), w.name = u.name, w.indexes = u.indexes,
         Names(w.cols) = Names(u.cols)
  PROVE  Became(v, w, st)
BY DEF Became, ColumnsKept, ColumnsFrom, IndexesKept, IndexesFrom

LEMMA ColumnDropped ==
  ASSUME NEW v, TableTyped(v), NEW st, st.op = "dropColumn", v.name = st.on, NEW w,
         w = [v EXCEPT !.cols = WithoutNamed(@, st.what),
                       !.indexes = WithoutColumn(@, st.what)]
  PROVE  TableTyped(w) /\ Became(v, w, st) /\ w.name = v.name
<1>1. /\ DOMAIN w = DOMAIN v /\ w.name = v.name
      /\ w.cols = WithoutNamed(v.cols, st.what)
      /\ w.indexes = WithoutColumn(v.indexes, st.what)
      /\ IsList(v.cols) /\ IsList(v.indexes) /\ Distinct(v.cols)
  BY DEF TableTyped
<1>2. /\ IsList(w.cols) /\ ToSet(w.cols) = {x \in ToSet(v.cols) : x.name # st.what}
      /\ Distinct(w.cols)
  BY <1>1, WithoutNamedIs
<1>3. /\ IsList(w.indexes) /\ ToSet(w.indexes) = {x \in ToSet(v.indexes) : st.what \notin ToSet(x.keys)}
      /\ PartOf(w.indexes, v.indexes)
  BY <1>1, WithoutColumnIs
<1>4. Names(w.cols) = Names(v.cols) \ {st.what}
  <2>1. \A s : Names(s) = {x.name : x \in ToSet(s)}
    BY DEF Names, ToSet
  <2> HIDE DEF Names
  <2> QED BY <1>2, <2>1
<1>5. TableTyped(w)
  <2>1. \A c \in ToSet(w.cols) : DOMAIN c = Fields
    BY <1>2 DEF TableTyped
  <2>2. \A x \in ToSet(w.indexes) : ToSet(x.keys) \subseteq Names(w.cols)
    BY <1>3, <1>4 DEF TableTyped
  <2> QED BY <1>1, <1>2, <1>3, <2>1, <2>2 DEF TableTyped
<1>6. ColumnsKept(v, w, st) /\ ColumnsFrom(v, w, st) /\ IndexesKept(v, w, st) /\ IndexesFrom(v, w, st)
  BY <1>3, <1>4 DEF ColumnsKept, ColumnsFrom, IndexesKept, IndexesFrom
<1> QED BY <1>1, <1>5, <1>6 DEF Became

LEMMA DropColumnStep ==
  ASSUME NEW L, DbTyped(L), NEW st, st.op = "dropColumn", HasTable(L, st.on)
  PROVE  Stepped(L, Apply(L, st), st)
<1> DEFINE v == TableOf(L, st.on)
           left == [v EXCEPT !.cols = WithoutNamed(@, st.what),
                             !.indexes = WithoutColumn(@, st.what)]
           w == IF st.what \in ToSet(PkColumns(v)) THEN [Unkeyed(left) EXCEPT !.key = ""] ELSE left
           M == SetTable(L, st.on, w)
           N == Apply(L, st)
<1>1. v \in ToSet(L.tables) /\ v.name = st.on /\ TableTyped(v)
  BY TableOfIs
<1> DEFINE fks == Without(M.fks, LAMBDA f : f.child = st.on /\ st.what \in ToSet(f.cols))
<1>2. N = [M EXCEPT !.fks = fks]
  <2>1. N = DropColumn(L, st.on, st.what)
    BY ApplyTable
  <2>2. DropColumn(L, st.on, st.what) = [M EXCEPT !.fks = fks]
    BY DEF DropColumn, WithoutColumn, Without, Each
  <2> HIDE DEF fks, M, N
  <2> QED BY <2>1, <2>2
<1> HIDE DEF v, fks
<1>3. TableTyped(left) /\ Became(v, left, st) /\ left.name = v.name
  <2> DEFINE u == left
  <2>1. u = left
    OBVIOUS
  <2> QED BY <1>1, ColumnDropped
<1> HIDE DEF left
<1>4. TableTyped(w) /\ Became(v, w, st) /\ w.name = st.on
  <2>1. CASE st.what \in ToSet(PkColumns(v))
    <3> DEFINE u == [Unkeyed(left) EXCEPT !.key = ""]
    <3>1. w = u
      BY <2>1
    <3>2. TableTyped(u) /\ Became(left, u, st) /\ Names(u.cols) = Names(left.cols) /\ u.indexes = left.indexes
      BY <1>3, UnkeyedIs
    <3> HIDE DEF u
    <3>3. u.name = left.name
      BY <3>2 DEF Became
    <3>4. Became(v, u, st)
      BY <1>3, <3>2, <3>3, StillBecame
    <3> HIDE DEF w
    <3> QED BY <1>1, <1>3, <3>1, <3>2, <3>3, <3>4
  <2>2. CASE st.what \notin ToSet(PkColumns(v))
    BY <1>1, <1>3, <2>2
  <2> QED BY <2>1, <2>2
<1> HIDE DEF w, N
<1>5. Stepped(L, M, st)
  BY <1>1, <1>4, SetTableStep DEF v
<1>6. TableSet(M, L, w)
  BY <1>1, <1>4, SetTableIs
<1> HIDE DEF M
<1>7. DOMAIN M = {"enums", "tables", "fks", "normalized"} /\ IsList(M.enums)
  BY <1>6 DEF TableSet, DbTyped
<1>8. DOMAIN N = DOMAIN M /\ N.tables = M.tables /\ N.enums = M.enums
  BY <1>2, <1>7
<1> QED BY <1>5, <1>7, <1>8, SameTables DEF N

LEMMA SetTableTwice ==
  ASSUME NEW L, NEW on, NEW a, a.name = on, NEW b, b.name = on
  PROVE  SetTable(SetTable(L, on, a), on, b) = SetTable(L, on, b)
<1> DEFINE one == [i \in DOMAIN L.tables |-> IF L.tables[i].name = on THEN a ELSE L.tables[i]]
           two == [i \in DOMAIN one |-> IF one[i].name = on THEN b ELSE one[i]]
           it  == [i \in DOMAIN L.tables |-> IF L.tables[i].name = on THEN b ELSE L.tables[i]]
           M == SetTable(L, on, a)
<1>1. two = it
  OBVIOUS
<1>2. M = [L EXCEPT !.tables = one] /\ SetTable(L, on, b) = [L EXCEPT !.tables = it]
  BY DEF SetTable
<1> HIDE DEF it
<1>3. CASE "tables" \in DOMAIN L
  <2>1. M.tables = one
    BY <1>2, <1>3
  <2>2. SetTable(M, on, b) = [M EXCEPT !.tables = two]
    <3> HIDE DEF M
    <3> QED BY <2>1 DEF SetTable
  <2> HIDE DEF two, one
  <2>3. SetTable(M, on, b) = [M EXCEPT !.tables = it]
    BY <1>1, <2>2
  <2> QED BY <1>2, <2>3
<1>4. CASE "tables" \notin DOMAIN L
  <2>1. M = [i \in DOMAIN L |-> L[i]] /\ SetTable(L, on, b) = [i \in DOMAIN L |-> L[i]]
    BY <1>2, <1>4
  <2> HIDE DEF M
  <2>2. "tables" \notin DOMAIN M /\ DOMAIN M = DOMAIN L
    BY <1>4, <2>1
  <2>3. SetTable(M, on, b) = [i \in DOMAIN M |-> M[i]]
    BY <2>2 DEF SetTable
  <2> QED BY <2>1, <2>2, <2>3 DEF M
<1> QED BY <1>3, <1>4

LEMMA ModifyStep ==
  ASSUME NEW L, DbTyped(L), NEW st, st.op = "modifyColumn", Runnable(L, st)
  PROVE  Stepped(L, Apply(L, st), st)
<1> DEFINE v == TableOf(L, st.on)
           col == st.what
           old == ColumnOf(L, st.on, col.name)
           new == [Stored(col) EXCEPT !.pk = old.pk, !.notnull = @ \/ old.pk, !.unique = @ \/ old.unique]
           u == WithColumn(v, new.name, new)
           M == SetColumn(L, st.on, col.name, new)
           x == [name |-> col.name \o "_2", keys |-> <<col.name>>, unique |-> TRUE]
           N == Apply(L, st)
<1>1. HasTable(L, st.on) /\ DOMAIN col = Fields /\ col.name \in Names(v.cols)
  BY DEF Runnable
<1>2. v \in ToSet(L.tables) /\ v.name = st.on /\ TableTyped(v)
  BY <1>1, TableOfIs
<1>3. DOMAIN new = Fields /\ new.name = col.name
  BY <1>1, StoredIs DEF Fields
<1>4. N = IF col.unique /\ old.unique
          THEN SetTable(M, st.on, [TableOf(M, st.on) EXCEPT !.indexes = Append(@, x)]) ELSE M
  BY ApplyTable DEF Modify
<1>5. M = SetTable(L, st.on, u)
  BY <1>3 DEF SetColumn, WithColumn
<1> HIDE DEF N, M, v, old, new
<1>6. /\ TableTyped(u) /\ Became(v, u, st)
      /\ u.name = st.on /\ u.indexes = v.indexes /\ Names(u.cols) = Names(v.cols)
  BY <1>2, <1>3, WithColumnIs
<1> HIDE DEF u
<1>7. Stepped(L, M, st)
  BY <1>1, <1>5, <1>6, SetTableStep DEF v
<1>8. CASE col.unique /\ old.unique
  <2> DEFINE w == [u EXCEPT !.indexes = Append(@, x)]
  <2>1. TableOf(M, st.on) = u
    <3>1. TableSet(M, L, u)
      BY <1>1, <1>5, <1>6, SetTableIs
    <3>2. Named(M.tables, u.name) = u
      BY <3>1, NamedIs DEF TableSet
    <3> QED BY <1>6, <3>2 DEF TableOf
  <2>2. N = SetTable(M, st.on, w)
    BY <1>4, <1>8, <2>1
  <2>3. /\ x.name = col.name \o "_2" /\ ToSet(x.keys) \subseteq Names(u.cols) /\ Adds(st, x)
    <3>1. ToSet(<<col.name>>) = {col.name}
      BY DEF ToSet
    <3>2. x.keys = <<col.name>> /\ x.name = col.name \o "_2"
      OBVIOUS
    <3> HIDE DEF x
    <3> QED BY <1>1, <1>6, <1>8, <3>1, <3>2 DEF Adds
  <2> HIDE DEF x
  <2>4. TableTyped(w) /\ Became(u, w, st) /\ w.name = u.name
    BY <1>6, <2>3, IndexAdded
  <2>5. w.indexes = Append(u.indexes, x) /\ w.cols = u.cols
    BY <1>6 DEF TableTyped
  <2> HIDE DEF w
  <2>6. Became(v, w, st)
    <3>1. ColumnsKept(v, w, st) /\ ColumnsFrom(v, w, st)
      BY <1>6, <2>5 DEF ColumnsKept, ColumnsFrom
    <3>2. IndexesKept(v, w, st) /\ IndexesFrom(v, w, st) /\ w.name = v.name
      BY <1>2, <1>6, <2>4 DEF Became, IndexesKept, IndexesFrom
    <3> QED BY <3>1, <3>2 DEF Became
  <2>7. N = SetTable(L, st.on, w)
    BY <1>5, <1>6, <2>2, <2>4, SetTableTwice
  <2> QED BY <1>1, <1>6, <2>4, <2>6, <2>7, SetTableStep DEF v, N
<1>9. CASE ~(col.unique /\ old.unique)
  BY <1>4, <1>7, <1>9 DEF N
<1> QED BY <1>8, <1>9

LEMMA CreateTableStep ==
  ASSUME NEW L, DbTyped(L), NEW st, st.op = "createTable", Runnable(L, st)
  PROVE  /\ Stepped(L, Apply(L, st), st)
         /\ NewTable(L, st).name = st.on /\ NewTable(L, st).indexes = <<>>
         /\ Names(NewTable(L, st).cols) = Names(st.what.cols)
<1> DEFINE cols == [i \in DOMAIN st.what.cols |-> Stored(st.what.cols[i])]
           body == [name |-> st.on, key |-> "", indexes |-> <<>>, records |-> <<>>, cols |-> cols]
           w == NewTable(L, st)
           M == Apply(L, st)
<1>1. /\ ~HasTable(L, st.on)
      /\ IsList(st.what.cols) /\ Distinct(st.what.cols)
      /\ \A i \in DOMAIN st.what.cols : DOMAIN st.what.cols[i] = Fields
  BY DEF Runnable, ToSet
<1>2. ASSUME NEW i \in DOMAIN st.what.cols
      PROVE  cols[i].name = st.what.cols[i].name /\ DOMAIN cols[i] = Fields
  BY <1>1, StoredIs
<1>3. cols = [i \in DOMAIN st.what.cols |-> cols[i]]
  OBVIOUS
<1>4. w = Keyed(L, body, st.what.pk, st.what.key)
  BY DEF NewTable
<1>5. /\ DOMAIN body = {"name", "cols", "key", "indexes", "records"}
      /\ body.name = st.on /\ body.indexes = <<>> /\ body.cols = cols
  BY Zenon
<1> HIDE DEF cols, body, w
<1>6. /\ IsList(cols) /\ DOMAIN cols = DOMAIN st.what.cols /\ Names(cols) = Names(st.what.cols)
      /\ Distinct(cols)
  BY <1>1, <1>2, <1>3, SameNames
<1>7. TableTyped(body)
  <2>1. \A c \in ToSet(cols) : DOMAIN c = Fields
    BY <1>2, <1>6 DEF ToSet
  <2>2. IsList(body.indexes) /\ ToSet(body.indexes) = {}
    BY <1>5, EmptyList DEF ToSet
  <2> QED BY <1>5, <1>6, <2>1, <2>2 DEF TableTyped
<1>8. TableTyped(w) /\ Became(body, w, st) /\ w.indexes = <<>>
  BY <1>4, <1>5, <1>7, KeyedIs
<1>9. w.name = st.on
  BY <1>5, <1>8 DEF Became
<1>10. Names(w.cols) = Names(st.what.cols)
  <2>1. w.cols = [i \in DOMAIN cols |-> w.cols[i]] /\ \A i \in DOMAIN cols : w.cols[i].name = cols[i].name
    <3>1. w.cols = [i \in DOMAIN cols |-> IF cols[i].name \in ToSet(st.what.pk)
                      THEN [cols[i] EXCEPT !.pk = TRUE, !.notnull = TRUE] ELSE cols[i]]
      BY <1>4, <1>5 DEF Keyed
    <3>2. ASSUME NEW i \in DOMAIN cols PROVE w.cols[i].name = cols[i].name
      <4>1. DOMAIN cols[i] = Fields
        BY <1>2, <1>6
      <4>2. w.cols[i] = cols[i] \/ w.cols[i] = [cols[i] EXCEPT !.pk = TRUE, !.notnull = TRUE]
        BY <3>1
      <4> QED BY <4>1, <4>2 DEF Fields
    <3> QED BY <3>1, <3>2
  <2> QED BY <1>6, <2>1, SameNames
<1>11. /\ DOMAIN M = DOMAIN L /\ M.enums = L.enums /\ M.tables = Append(L.tables, w)
  <2>1. M = [L EXCEPT !.tables = Append(@, w), !.fks = @ \o SetToSeq(st.what.fks)]
    BY ApplyOther DEF w
  <2> HIDE DEF M
  <2> QED BY <2>1 DEF DbTyped
<1> HIDE DEF M
<1>12. /\ IsList(M.tables) /\ ToSet(M.tables) = ToSet(L.tables) \cup {w}
       /\ Distinct(M.tables) /\ Names(M.tables) = Names(L.tables) \cup {st.on}
  <2>1. IsList(L.tables) /\ Distinct(L.tables) /\ M.tables = Append(L.tables, w)
    BY <1>11 DEF DbTyped
  <2>2. IsList(M.tables) /\ ToSet(M.tables) = ToSet(L.tables) \cup {w}
    BY <2>1, AppendList, AppendElements
  <2>3. w.name = st.on /\ w.name \notin Names(L.tables)
    BY <1>1, <1>9 DEF HasTable
  <2>4. Names(M.tables) = Names(L.tables) \cup {w.name} /\ Distinct(M.tables)
    BY <2>1, <2>3, AppendNames
  <2> QED BY <2>2, <2>3, <2>4
<1>13. DbTyped(M)
  BY <1>8, <1>11, <1>12 DEF DbTyped
<1>14. \A v \in ToSet(L.tables) : Became(v, v, st) /\ HasTable(M, v.name)
  BY <1>12, TableStays DEF HasTable, Names, ToSet
<1>15. Stepped(L, M, st)
  BY <1>12, <1>13, <1>14 DEF Stepped, w
<1> QED BY <1>8, <1>9, <1>10, <1>15 DEF w, M

LEMMA DropTableStep ==
  ASSUME NEW L, DbTyped(L), NEW st, st.op = "dropTable"
  PROVE  Stepped(L, Apply(L, st), st)
<1> DEFINE M == Apply(L, st)
           fks == OthersKeys(L.fks, st.on)
<1>1. M = [L EXCEPT !.tables = WithoutNamed(L.tables, st.on), !.fks = fks]
  BY ApplyOther
<1> HIDE DEF M, fks
<1>2. DOMAIN M = DOMAIN L /\ M.enums = L.enums /\ M.tables = WithoutNamed(L.tables, st.on)
  BY <1>1 DEF DbTyped
<1>3. /\ IsList(M.tables) /\ Distinct(M.tables)
      /\ ToSet(M.tables) = {u \in ToSet(L.tables) : u.name # st.on}
  BY <1>2, WithoutNamedIs DEF DbTyped
<1>4. DbTyped(M)
  BY <1>2, <1>3 DEF DbTyped
<1>5. \A w \in ToSet(M.tables) : w \in ToSet(L.tables) /\ Became(w, w, st)
  BY <1>3, TableStays
<1>6. \A v \in ToSet(L.tables) : v.name # st.on => HasTable(M, v.name)
  BY <1>3 DEF HasTable, Names, ToSet
<1> QED BY <1>4, <1>5, <1>6 DEF Stepped, M

LEMMA DropIndexStep ==
  ASSUME NEW L, DbTyped(L), NEW st, st.op = "dropIndex"
  PROVE  Stepped(L, Apply(L, st), st)
<1> DEFINE M == Apply(L, st)
           kept == [i \in DOMAIN L.tables |->
                      IF dialect = "mariadb" /\ L.tables[i].name # st.on THEN L.tables[i]
                      ELSE [L.tables[i] EXCEPT !.indexes = WithoutNamed(@, st.what)]]
<1>1. M = [L EXCEPT !.tables = kept]
  BY ApplyOther DEF DropIndex
<1>2. ASSUME NEW i \in DOMAIN L.tables
      PROVE  TableTyped(kept[i]) /\ Became(L.tables[i], kept[i], st) /\ kept[i].name = L.tables[i].name
  <2> DEFINE v == L.tables[i]
             w == kept[i]
  <2>1. TableTyped(v) /\ v \in ToSet(L.tables)
    BY DEF DbTyped, ToSet
  <2>2. CASE dialect = "mariadb" /\ v.name # st.on
    <3>1. w = v
      BY <2>2
    <3>2. TableTyped(w) /\ Became(v, w, st) /\ w.name = v.name
      <4> HIDE DEF w, v
      <4> QED BY <2>1, <3>1, TableStays
    <3> QED BY <3>2
  <2>3. CASE ~(dialect = "mariadb" /\ v.name # st.on)
    <3>1. w = [v EXCEPT !.indexes = WithoutNamed(@, st.what)]
      BY <2>3
    <3> HIDE DEF w, v
    <3>2. /\ DOMAIN w = DOMAIN v /\ w.name = v.name /\ w.cols = v.cols
          /\ w.indexes = WithoutNamed(v.indexes, st.what) /\ IsList(v.indexes)
      BY <2>1, <3>1 DEF TableTyped
    <3>3. /\ IsList(w.indexes) /\ ToSet(w.indexes) = {x \in ToSet(v.indexes) : x.name # st.what}
          /\ PartOf(w.indexes, v.indexes)
      BY <3>2, WithoutNamedIs
    <3>4. TableTyped(w)
      BY <2>1, <3>2, <3>3 DEF TableTyped
    <3>5. ColumnsKept(v, w, st) /\ ColumnsFrom(v, w, st) /\ IndexesKept(v, w, st) /\ IndexesFrom(v, w, st)
      BY <2>3, <3>2, <3>3 DEF ColumnsKept, ColumnsFrom, IndexesKept, IndexesFrom
    <3> QED BY <3>2, <3>4, <3>5 DEF Became, v, w
  <2> QED BY <2>2, <2>3
<1>3. kept = [i \in DOMAIN L.tables |-> kept[i]]
  OBVIOUS
<1> HIDE DEF M, kept
<1>4. DOMAIN M = DOMAIN L /\ M.enums = L.enums /\ M.tables = kept
  BY <1>1 DEF DbTyped
<1>5. /\ IsList(kept) /\ DOMAIN kept = DOMAIN L.tables /\ Names(kept) = Names(L.tables)
      /\ Distinct(kept)
  BY <1>2, <1>3, SameNames DEF DbTyped
<1>6. DbTyped(M)
  BY <1>2, <1>4, <1>5 DEF DbTyped, ToSet
<1>7. \A w \in ToSet(M.tables) : \E v \in ToSet(L.tables) : Became(v, w, st)
  BY <1>2, <1>4, <1>5 DEF ToSet
<1>8. \A v \in ToSet(L.tables) : HasTable(M, v.name)
  BY <1>4, <1>5 DEF HasTable, Names, ToSet
<1> QED BY <1>6, <1>7, <1>8 DEF Stepped, M

LEMMA NoTableStep ==
  ASSUME NEW L, DbTyped(L), NEW st, NEW M, DOMAIN M = DOMAIN L, M.tables = L.tables, IsList(M.enums)
  PROVE  Stepped(L, M, st)
<1>1. \A v \in ToSet(L.tables) : Became(v, v, st) /\ HasTable(L, v.name)
  BY TableStays DEF HasTable, Names, ToSet
<1>2. Stepped(L, L, st)
  BY <1>1 DEF Stepped
<1> QED BY <1>2, SameTables

LEMMA ApplyStep ==
  ASSUME NEW L, DbTyped(L), NEW st, Runnable(L, st)
  PROVE  Stepped(L, Apply(L, st), st)
<1> DEFINE M == Apply(L, st)
<1>1. CASE st.op = "createEnum"
  <2>1. M = [L EXCEPT !.enums = Append(@, st.what)]
    BY <1>1, ApplyOther
  <2> HIDE DEF M
  <2>2. DOMAIN M = DOMAIN L /\ M.tables = L.tables /\ M.enums = Append(L.enums, st.what) /\ IsList(L.enums)
    BY <2>1 DEF DbTyped
  <2>3. IsList(M.enums)
    BY <2>2, AppendList
  <2> QED BY <2>2, <2>3, NoTableStep DEF M
<1>2. CASE st.op = "dropEnum"
  <2>1. M = [L EXCEPT !.enums = WithoutNamed(@, st.what)]
    BY <1>2, ApplyOther
  <2> HIDE DEF M
  <2>2. DOMAIN M = DOMAIN L /\ M.tables = L.tables /\ M.enums = WithoutNamed(L.enums, st.what) /\ IsList(L.enums)
    BY <2>1 DEF DbTyped
  <2>3. IsList(M.enums)
    BY <2>2, WithoutNamedIs
  <2> QED BY <2>2, <2>3, NoTableStep DEF M
<1>3. CASE st.op = "addFk"
  <2>1. M = [L EXCEPT !.fks = Append(@, st.what)]
    BY <1>3, ApplyOther
  <2> HIDE DEF M
  <2>2. DOMAIN M = DOMAIN L /\ M.tables = L.tables /\ IsList(M.enums)
    BY <2>1 DEF DbTyped
  <2> QED BY <2>2, NoTableStep DEF M
<1>4. CASE M = L
  <2>1. Stepped(L, L, st)
    BY NoTableStep DEF DbTyped
  <2> QED BY <1>4, <2>1
<1>5. CASE AltersTable(st)
  BY <1>5, AlterStep
<1>6. CASE st.op = "createTable"
  BY <1>6, CreateTableStep
<1>7. CASE st.op = "dropTable"
  BY <1>7, DropTableStep
<1>8. CASE st.op = "dropIndex"
  BY <1>8, DropIndexStep
<1>9. CASE st.op = "dropColumn"
  BY <1>9, DropColumnStep DEF Runnable
<1>10. CASE st.op = "modifyColumn"
  BY <1>10, ModifyStep
<1> QED BY <1>1, <1>2, <1>3, <1>4, <1>5, <1>6, <1>7, <1>8, <1>9, <1>10, ApplyOther

-----------------------------------------------------------------------------
(* What a script consists of. *)

LEMMA WhenIs ==
  ASSUME NEW c, NEW y
  PROVE  /\ IsList(When(c, y))
         /\ \A x \in ToSet(When(c, y)) : c /\ x = y
         /\ c => y \in ToSet(When(c, y))
<1>1. CASE c
  <2>1. When(c, y) = <<y>>
    BY <1>1 DEF When
  <2>2. ToSet(<<y>>) = {y}
    BY OneList DEF ToSet
  <2> QED BY <1>1, <2>1, <2>2, OneList
<1>2. CASE ~c
  <2>1. When(c, y) = <<>>
    BY <1>2 DEF When
  <2>2. ToSet(<<>>) = {}
    BY EmptyList DEF ToSet
  <2> QED BY <1>2, <2>1, <2>2, EmptyList
<1> QED BY <1>1, <1>2

LEMMA EachIs ==
  ASSUME NEW s, IsList(s), NEW ss, ss = [i \in DOMAIN s |-> ss[i]],
         \A i \in DOMAIN s : IsList(ss[i]), NEW f, f = FlattenSeq(ss)
  PROVE  /\ IsList(f) /\ IsListOfLists(ss)
         /\ \A y \in ToSet(f) : \E i \in DOMAIN s : y \in ToSet(ss[i])
         /\ \A i \in DOMAIN s : ToSet(ss[i]) \subseteq ToSet(f)
<1>1. DOMAIN s = 1 .. Len(s) /\ Len(s) \in Nat
  BY ListIs
<1>2. ss = [i \in 1 .. Len(s) |-> ss[i]] /\ DOMAIN ss = DOMAIN s
  BY <1>1
<1>3. IsListOfLists(ss)
  BY <1>1, <1>2, MadeList DEF IsListOfLists
<1>4. IsList(f) /\ ToSet(f) = Elements(ss)
  BY <1>3, FlattenOffsets, FlattenElements
<1>5. Elements(ss) = UNION {ToSet(ss[i]) : i \in DOMAIN s}
  BY <1>2 DEF Elements, ToSet
<1> QED BY <1>3, <1>4, <1>5

LEMMA StmtIs ==
  ASSUME NEW op, NEW on, NEW what
  PROVE  Stmt(op, on, what).op = op /\ Stmt(op, on, what).on = on /\ Stmt(op, on, what).what = what
BY DEF Stmt

LEMMA CommentIs == Comment.op = "comment"
BY Zenon DEF Comment, Stmt

\* The statements for a column that changes.
ForColumn(c, nt, new, st) ==
  \/ dialect = "mariadb" /\ st = Stmt("modifyColumn", nt.name, RenderColumn(c, FALSE, new))
  \/ dialect = "postgres" /\ st = Stmt("setType", nt.name, [name |-> c.name, type |-> MapType(c.type, new)])
  \/ dialect = "postgres" /\ NotNull(c) /\ st = Stmt("setNotNull", nt.name, [name |-> c.name])
  \/ dialect = "postgres" /\ ~NotNull(c) /\ st = Stmt("dropNotNull", nt.name, [name |-> c.name])

\* The statements for the columns of a table.
AddsColumn(nt, new, st) ==
  \E c \in ToSet(nt.cols) : st = Stmt("addColumn", nt.name, RenderColumn(c, FALSE, new))

DropsColumn(ot, nt, st) ==
  \/ st = Comment
  \/ dialect # "sqlite" /\
       \E c \in ToSet(ot.cols) : c.name \notin Names(nt.cols) /\ st = Stmt("dropColumn", nt.name, c.name)

ChangesColumn(nt, new, st) == st = Comment \/ \E c \in ToSet(nt.cols) : ForColumn(c, nt, new, st)

ForColumns(ot, nt, new, st) == AddsColumn(nt, new, st) \/ DropsColumn(ot, nt, st) \/ ChangesColumn(nt, new, st)

LEMMA ModifiedColumnIs ==
  ASSUME NEW oc, NEW ot, NEW old, NEW nc, NEW nt, NEW new,
         NEW s, s = ModifiedColumn(oc, ot, old, nc, nt, new)
  PROVE  \E c, st : s = When(c, st) /\ (ForColumn(nc, nt, new, st) \/ st = Comment)
<1> DEFINE a == TypeChange(nt.name, nc, new)
           b == NullChange(nt.name, nc, new)
           modify == Stmt("modifyColumn", nt.name, RenderColumn(nc, FALSE, new))
           type == Stmt("setType", nt.name, [name |-> nc.name, type |-> MapType(nc.type, new)])
           set == Stmt("setNotNull", nt.name, [name |-> nc.name])
           drop == Stmt("dropNotNull", nt.name, [name |-> nc.name])
           Is(st) == ForColumn(nc, nt, new, st) \/ st = Comment
<1>1. Is(a)
  <2>1. (dialect = "postgres" /\ a = type) \/ (dialect = "mariadb" /\ a = modify) \/ a = Comment
    BY Zenon DEF TypeChange
  <2> HIDE DEF a
  <2> QED BY <2>1 DEF ForColumn
<1>2. Is(b)
  <2>1. \/ dialect = "postgres" /\ ((NotNull(nc) /\ b = set) \/ (~NotNull(nc) /\ b = drop))
        \/ dialect = "mariadb" /\ b = modify
        \/ b = Comment
    BY Zenon DEF NullChange
  <2> HIDE DEF b
  <2> QED BY <2>1 DEF ForColumn
<1> HIDE DEF a, b, Is
<1> DEFINE c == NotNull(oc) # NotNull(nc)
<1>3. s = <<a>> \/ s = When(c, b)
  BY DEF ModifiedColumn, a, b
<1>4. <<a>> = When(TRUE, a)
  BY DEF When
<1> HIDE DEF c
<1>5. \E d, st : s = When(d, st) /\ Is(st)
  BY <1>1, <1>2, <1>3, <1>4
<1> QED BY <1>5 DEF Is

\* The parts of DiffTable.
ColumnAdds(ot, nt, new) ==
  FlattenSeq([i \in DOMAIN nt.cols |->
    When(nt.cols[i].name \notin Names(ot.cols), Stmt("addColumn", nt.name, RenderColumn(nt.cols[i], FALSE, new)))])

ColumnDrops(ot, nt) ==
  FlattenSeq([i \in DOMAIN ot.cols |->
    When(ot.cols[i].name \notin Names(nt.cols),
         IF dialect = "sqlite" THEN Comment ELSE Stmt("dropColumn", nt.name, ot.cols[i].name))])

ColumnChanges(ot, nt, old, new) ==
  FlattenSeq([i \in DOMAIN nt.cols |->
    IF nt.cols[i].name \in Names(ot.cols)
    THEN ModifiedColumn(Named(ot.cols, nt.cols[i].name), ot, old, nt.cols[i], nt, new) ELSE <<>>])

LEMMA ColumnParts ==
  ASSUME NEW ot, NEW nt, NEW old, NEW new
  PROVE  DiffTable(ot, nt, old, new) = ColumnAdds(ot, nt, new) \o ColumnDrops(ot, nt) \o ColumnChanges(ot, nt, old, new)
BY DEF DiffTable, Each, ColumnAdds, ColumnDrops, ColumnChanges

LEMMA ColumnAddsAre ==
  ASSUME NEW ot, NEW nt, IsList(nt.cols), NEW new, NEW f, f = ColumnAdds(ot, nt, new)
  PROVE  IsList(f) /\ \A st \in ToSet(f) : AddsColumn(nt, new, st)
<1> DEFINE add(c) == Stmt("addColumn", nt.name, RenderColumn(c, FALSE, new))
           adds == [i \in DOMAIN nt.cols |->
                      When(nt.cols[i].name \notin Names(ot.cols), add(nt.cols[i]))]
<1>1. f = FlattenSeq(adds)
  BY DEF ColumnAdds
<1>2. \A i \in DOMAIN nt.cols : IsList(adds[i]) /\ \A st \in ToSet(adds[i]) : st = add(nt.cols[i])
  <2> HIDE DEF add
  <2> QED BY WhenIs
<1>3. adds = [i \in DOMAIN nt.cols |-> adds[i]]
  OBVIOUS
<1> HIDE DEF adds
<1>4. IsList(f) /\ \A st \in ToSet(f) : \E i \in DOMAIN nt.cols : st \in ToSet(adds[i])
  BY <1>1, <1>2, <1>3, EachIs
<1>5. \A i \in DOMAIN nt.cols : nt.cols[i] \in ToSet(nt.cols)
  BY DEF ToSet
<1> QED BY <1>2, <1>4, <1>5 DEF AddsColumn

LEMMA ColumnDropsAre ==
  ASSUME NEW ot, NEW nt, IsList(ot.cols), NEW f, f = ColumnDrops(ot, nt)
  PROVE  IsList(f) /\ \A st \in ToSet(f) : DropsColumn(ot, nt, st)
<1> DEFINE drop(c) == IF dialect = "sqlite" THEN Comment ELSE Stmt("dropColumn", nt.name, c.name)
           drops == [i \in DOMAIN ot.cols |->
                       When(ot.cols[i].name \notin Names(nt.cols), drop(ot.cols[i]))]
<1>1. f = FlattenSeq(drops)
  BY DEF ColumnDrops
<1>2. \A i \in DOMAIN ot.cols :
        IsList(drops[i]) /\ \A st \in ToSet(drops[i]) : ot.cols[i].name \notin Names(nt.cols) /\ st = drop(ot.cols[i])
  <2> HIDE DEF drop
  <2> QED BY WhenIs
<1>3. drops = [i \in DOMAIN ot.cols |-> drops[i]]
  OBVIOUS
<1>4. \A x : drop(x) = Comment \/ (dialect # "sqlite" /\ drop(x) = Stmt("dropColumn", nt.name, x.name))
  OBVIOUS
<1> HIDE DEF drops, drop
<1>5. \A i \in DOMAIN ot.cols : IsList(drops[i])
  BY <1>2
<1>6. IsList(f) /\ \A st \in ToSet(f) : \E i \in DOMAIN ot.cols : st \in ToSet(drops[i])
  BY <1>1, <1>3, <1>5, EachIs
<1>7. ASSUME NEW st \in ToSet(f) PROVE DropsColumn(ot, nt, st)
  <2>1. PICK i \in DOMAIN ot.cols : st \in ToSet(drops[i])
    BY <1>6
  <2>2. ot.cols[i].name \notin Names(nt.cols) /\ st = drop(ot.cols[i]) /\ ot.cols[i] \in ToSet(ot.cols)
    BY <1>2, <2>1 DEF ToSet
  <2>3. st = Comment \/ (dialect # "sqlite" /\ st = Stmt("dropColumn", nt.name, ot.cols[i].name))
    BY <1>4, <2>2
  <2> QED BY <2>2, <2>3 DEF DropsColumn
<1> QED BY <1>6, <1>7

LEMMA ColumnChangesAre ==
  ASSUME NEW ot, NEW nt, IsList(nt.cols), NEW old, NEW new, NEW f, f = ColumnChanges(ot, nt, old, new)
  PROVE  IsList(f) /\ \A st \in ToSet(f) : ChangesColumn(nt, new, st)
<1> DEFINE mods == [i \in DOMAIN nt.cols |->
                      IF nt.cols[i].name \in Names(ot.cols)
                      THEN ModifiedColumn(Named(ot.cols, nt.cols[i].name), ot, old, nt.cols[i], nt, new) ELSE <<>>]
<1>1. f = FlattenSeq(mods)
  BY DEF ColumnChanges
<1>2. \A i \in DOMAIN nt.cols : nt.cols[i] \in ToSet(nt.cols)
  BY DEF ToSet
<1>3. ASSUME NEW i \in DOMAIN nt.cols
      PROVE  IsList(mods[i]) /\ \A st \in ToSet(mods[i]) : ChangesColumn(nt, new, st)
  <2> DEFINE oc == Named(ot.cols, nt.cols[i].name)
             m == ModifiedColumn(oc, ot, old, nt.cols[i], nt, new)
  <2>1. PICK d, y : m = When(d, y) /\ (ForColumn(nt.cols[i], nt, new, y) \/ y = Comment)
    BY ModifiedColumnIs
  <2>2. IsList(m) /\ \A st \in ToSet(m) : ChangesColumn(nt, new, st)
    <3> HIDE DEF m
    <3>1. IsList(m) /\ \A st \in ToSet(m) : st = y
      BY <2>1, WhenIs
    <3>2. ChangesColumn(nt, new, y)
      BY <1>2, <2>1 DEF ChangesColumn
    <3> QED BY <3>1, <3>2
  <2>3. mods[i] = m \/ mods[i] = <<>>
    OBVIOUS
  <2> HIDE DEF mods, m
  <2>4. IsList(<<>>) /\ ToSet(<<>>) = {}
    BY EmptyList DEF ToSet
  <2> QED BY <2>2, <2>3, <2>4
<1>4. mods = [i \in DOMAIN nt.cols |-> mods[i]]
  OBVIOUS
<1> HIDE DEF mods
<1>5. IsList(f) /\ \A st \in ToSet(f) : \E i \in DOMAIN nt.cols : st \in ToSet(mods[i])
  BY <1>1, <1>3, <1>4, EachIs
<1> QED BY <1>3, <1>5

LEMMA DiffTableIs ==
  ASSUME NEW ot, NEW nt, NEW old, NEW new, TableTyped(ot), TableTyped(nt)
  PROVE  /\ IsList(DiffTable(ot, nt, old, new))
         /\ \A st \in ToSet(DiffTable(ot, nt, old, new)) : ForColumns(ot, nt, new, st)
<1> DEFINE a == ColumnAdds(ot, nt, new)
           b == ColumnDrops(ot, nt)
           c == ColumnChanges(ot, nt, old, new)
           ab == a \o b
           abc == ab \o c
<1>1. DiffTable(ot, nt, old, new) = abc
  BY ColumnParts
<1>2. IsList(ot.cols) /\ IsList(nt.cols)
  BY DEF TableTyped
<1>3. IsList(a) /\ \A st \in ToSet(a) : ForColumns(ot, nt, new, st)
  BY <1>2, ColumnAddsAre DEF ForColumns
<1>4. IsList(b) /\ \A st \in ToSet(b) : ForColumns(ot, nt, new, st)
  BY <1>2, ColumnDropsAre DEF ForColumns
<1>5. IsList(c) /\ \A st \in ToSet(c) : ForColumns(ot, nt, new, st)
  BY <1>2, ColumnChangesAre DEF ForColumns
<1> HIDE DEF a, b, c
<1>6. IsList(ab) /\ ToSet(ab) = ToSet(a) \cup ToSet(b)
  BY <1>3, <1>4, ConcatElements
<1> HIDE DEF ab
<1>7. IsList(abc) /\ ToSet(abc) = ToSet(ab) \cup ToSet(c)
  BY <1>5, <1>6, ConcatElements
<1> HIDE DEF abc
<1> QED BY <1>1, <1>3, <1>4, <1>5, <1>6, <1>7

\* A list of statements for new.
StatementsFor(new, s) == IsList(s) /\ \A st \in ToSet(s) : MeantFor(new, st)

\* Statements that leave columns and indexes alone.
Leaves(s) == \A st \in ToSet(s) : st.op \notin {"dropIndex", "dropColumn"}

\* Statements about enums are meant for any schema.
OfNoTable == {"createEnum", "dropEnum", "comment"}

LEMMA OtherMeant ==
  ASSUME NEW new, NEW st, st.op \in OpsOf(dialect), st.op \in OfNoTable
  PROVE  MeantFor(new, st)
BY DEF OfNoTable, MeantFor

LEMMA NewEnumsAre ==
  ASSUME NEW old, NEW new, IsList(new.enums)
  PROVE  /\ StatementsFor(new, NewEnums(old, new)) /\ Leaves(NewEnums(old, new))
         /\ \A st \in ToSet(NewEnums(old, new)) : st.op = "createEnum"
<1> DEFINE ss == [i \in DOMAIN new.enums |->
                    When(new.enums[i].name \notin Names(old.enums), CreateEnum(new.enums[i]))]
           f == FlattenSeq(ss)
<1>1. (dialect = "postgres" /\ NewEnums(old, new) = f) \/ NewEnums(old, new) = <<>>
  BY DEF NewEnums, Each
<1>2. \A i \in DOMAIN new.enums : IsList(ss[i]) /\ \A st \in ToSet(ss[i]) : st.op = "createEnum"
  <2>1. \A e : CreateEnum(e).op = "createEnum"
    BY Zenon DEF CreateEnum, Stmt
  <2> QED BY <2>1, WhenIs
<1>3. ss = [i \in DOMAIN new.enums |-> ss[i]]
  OBVIOUS
<1> HIDE DEF ss
<1>4. IsList(f) /\ \A st \in ToSet(f) : \E i \in DOMAIN new.enums : st \in ToSet(ss[i])
  BY <1>2, <1>3, EachIs
<1> HIDE DEF f
<1>5. IsList(<<>>) /\ ToSet(<<>>) = {}
  BY EmptyList DEF ToSet
<1>6. IsList(NewEnums(old, new)) /\ \A st \in ToSet(NewEnums(old, new)) : st.op = "createEnum" /\ dialect = "postgres"
  BY <1>1, <1>2, <1>4, <1>5
<1>7. \A st \in ToSet(NewEnums(old, new)) : MeantFor(new, st)
  BY <1>6, OtherMeant DEF OfNoTable, OpsOf
<1> QED BY <1>6, <1>7 DEF StatementsFor, Leaves

LEMMA RemovedEnumsAre ==
  ASSUME NEW old, IsList(old.enums), NEW new
  PROVE  /\ StatementsFor(new, RemovedEnums(old, new)) /\ Leaves(RemovedEnums(old, new))
         /\ \A st \in ToSet(RemovedEnums(old, new)) : st.op = "dropEnum"
<1> DEFINE drop(e) == Stmt("dropEnum", "", e.name)
           ss == [i \in DOMAIN old.enums |->
                    When(old.enums[i].name \notin Names(new.enums), drop(old.enums[i]))]
           f == FlattenSeq(ss)
<1>1. (dialect = "postgres" /\ RemovedEnums(old, new) = f) \/ RemovedEnums(old, new) = <<>>
  BY DEF RemovedEnums, Each
<1>2. \A e : drop(e).op = "dropEnum"
  BY Zenon DEF Stmt
<1>3. \A i \in DOMAIN old.enums : IsList(ss[i]) /\ \A st \in ToSet(ss[i]) : st.op = "dropEnum"
  <2> HIDE DEF drop
  <2> QED BY <1>2, WhenIs
<1>4. ss = [i \in DOMAIN old.enums |-> ss[i]]
  OBVIOUS
<1> HIDE DEF ss
<1>5. IsList(f) /\ \A st \in ToSet(f) : \E i \in DOMAIN old.enums : st \in ToSet(ss[i])
  BY <1>3, <1>4, EachIs
<1> HIDE DEF f
<1>6. IsList(<<>>) /\ ToSet(<<>>) = {}
  BY EmptyList DEF ToSet
<1>7. IsList(RemovedEnums(old, new)) /\ \A st \in ToSet(RemovedEnums(old, new)) : st.op = "dropEnum" /\ dialect = "postgres"
  BY <1>1, <1>3, <1>5, <1>6
<1>8. \A st \in ToSet(RemovedEnums(old, new)) : MeantFor(new, st)
  BY <1>7, OtherMeant DEF OfNoTable, OpsOf
<1> QED BY <1>7, <1>8 DEF StatementsFor, Leaves

LEMMA RemovedTablesAre ==
  ASSUME NEW old, IsList(old.tables), NEW new
  PROVE  StatementsFor(new, RemovedTables(old, new)) /\ Leaves(RemovedTables(old, new))
<1> DEFINE drop(t) == Stmt("dropTable", t.name, "")
           ss == [i \in DOMAIN old.tables |-> When(~HasTable(new, old.tables[i].name), drop(old.tables[i]))]
           f == RemovedTables(old, new)
<1>1. f = FlattenSeq(ss)
  BY DEF RemovedTables, Each
<1>2. \A t : drop(t).op = "dropTable" /\ drop(t).on = t.name
  BY Zenon DEF Stmt
<1>3. \A i \in DOMAIN old.tables :
        IsList(ss[i]) /\ \A st \in ToSet(ss[i]) : st.op = "dropTable" /\ ~HasTable(new, st.on)
  <2> TAKE i \in DOMAIN old.tables
  <2> DEFINE t == old.tables[i]
             gone == ~HasTable(new, t.name)
             y == drop(t)
  <2>1. ss[i] = When(gone, y)
    OBVIOUS
  <2>2. y.op = "dropTable" /\ y.on = t.name
    BY <1>2
  <2> HIDE DEF ss, y
  <2>3. IsList(ss[i]) /\ \A st \in ToSet(ss[i]) : gone /\ st = y
    <3> HIDE DEF gone
    <3> QED BY <2>1, WhenIs
  <2> QED BY <2>2, <2>3
<1>4. ss = [i \in DOMAIN old.tables |-> ss[i]]
  OBVIOUS
<1> HIDE DEF ss, f
<1>5. IsList(f) /\ \A st \in ToSet(f) : \E i \in DOMAIN old.tables : st \in ToSet(ss[i])
  BY <1>1, <1>3, <1>4, EachIs
<1>6. \A st \in ToSet(f) : st.op = "dropTable" /\ ~HasTable(new, st.on)
  BY <1>3, <1>5
<1>7. \A st \in ToSet(f) : MeantFor(new, st)
  BY <1>6 DEF MeantFor, HasTable, OpsOf
<1> QED BY <1>5, <1>6, <1>7 DEF StatementsFor, Leaves, f

\* The columns of a new table.
MadeColumns(t, db) == [i \in DOMAIN t.cols |-> RenderColumn(t.cols[i], InlinePK(t), db)]

LEMMA CreateTableIs ==
  ASSUME NEW t, NEW db
  PROVE  /\ CreateTable(t, db).op = "createTable" /\ CreateTable(t, db).on = t.name
         /\ CreateTable(t, db).what.cols = MadeColumns(t, db)
<1>1. CreateTable(t, db).op = "createTable"
  BY Zenon DEF CreateTable, Stmt
<1>2. CreateTable(t, db).on = t.name
  BY Zenon DEF CreateTable, Stmt
<1>3. CreateTable(t, db).what.cols = MadeColumns(t, db)
  BY Zenon DEF CreateTable, Stmt, MadeColumns
<1> QED BY <1>1, <1>2, <1>3

\* CREATE INDEX for an index of t.
Indexing(t, st) == st.op = "createIndex" /\ st.on = t.name /\ st.what \in ToSet(t.indexes)

LEMMA CreateIndexesAre ==
  ASSUME NEW t, IsList(t.indexes)
  PROVE  /\ IsList(CreateIndexes(t)) /\ DOMAIN CreateIndexes(t) = DOMAIN t.indexes
         /\ \A i \in DOMAIN t.indexes : Indexing(t, CreateIndexes(t)[i]) /\ CreateIndexes(t)[i].what = t.indexes[i]
         /\ \A st \in ToSet(CreateIndexes(t)) : Indexing(t, st)
<1> DEFINE f == CreateIndexes(t)
<1>1. DOMAIN t.indexes = 1 .. Len(t.indexes) /\ Len(t.indexes) \in Nat
  BY ListIs
<1>2. f = [i \in DOMAIN t.indexes |-> Stmt("createIndex", t.name, t.indexes[i])]
  BY DEF CreateIndexes
<1> HIDE DEF f
<1>3. DOMAIN f = DOMAIN t.indexes /\ f = [i \in 1 .. Len(t.indexes) |-> f[i]]
  BY <1>1, <1>2
<1>4. IsList(f)
  BY <1>1, <1>3, MadeList
<1>5. \A i \in DOMAIN t.indexes : Indexing(t, f[i]) /\ f[i].what = t.indexes[i]
  BY <1>2, StmtIs DEF Indexing, ToSet
<1>6. \A st \in ToSet(f) : Indexing(t, st)
  BY <1>3, <1>5 DEF ToSet
<1> QED BY <1>3, <1>4, <1>5, <1>6 DEF f

LEMMA IndexingMeant ==
  ASSUME NEW new, NEW t, t \in ToSet(new.tables), NEW st, Indexing(t, st)
  PROVE  MeantFor(new, st)
BY DEF MeantFor, Indexing, OpsOf

\* A table that is new, with its indexes.
Making(t, new) == <<CreateTable(t, new)>> \o CreateIndexes(t)

MadeBy(new, nt, E) ==
  CreateTable(nt, new) \in E /\ \A x \in ToSet(nt.indexes) : Stmt("createIndex", nt.name, x) \in E

LEMMA MakingIs ==
  ASSUME NEW new, NEW t \in ToSet(new.tables), TableTyped(t)
  PROVE  /\ StatementsFor(new, Making(t, new)) /\ Leaves(Making(t, new))
         /\ \A st \in ToSet(Making(t, new)) : st = CreateTable(t, new) \/ Indexing(t, st)
<1> DEFINE first == CreateTable(t, new)
           f == Making(t, new)
           one == <<first>>
           rest == CreateIndexes(t)
<1>1. IsList(t.indexes)
  BY DEF TableTyped
<1>2. first.op = "createTable" /\ MeantFor(new, first)
  BY CreateTableIs DEF MeantFor, OpsOf
<1>3. f = one \o rest
  BY DEF Making
<1> HIDE DEF first, f
<1>4. IsList(one) /\ ToSet(one) = {first}
  BY OneList DEF ToSet
<1>5. IsList(rest) /\ \A st \in ToSet(rest) : Indexing(t, st)
  BY <1>1, CreateIndexesAre
<1> HIDE DEF one, rest
<1>6. IsList(f) /\ ToSet(f) = ToSet(one) \cup ToSet(rest)
  BY <1>3, <1>4, <1>5, ConcatElements
<1>7. \A st \in ToSet(f) : st = first \/ Indexing(t, st)
  BY <1>4, <1>5, <1>6
<1>8. \A st \in ToSet(f) : MeantFor(new, st)
  BY <1>2, <1>7, IndexingMeant
<1>9. \A st \in ToSet(f) : st.op \notin {"dropIndex", "dropColumn"}
  BY <1>2, <1>7 DEF Indexing
<1> QED BY <1>6, <1>7, <1>8, <1>9 DEF StatementsFor, Leaves, f, first

\* The script for the tables of new, table by table.
LEMMA ByTable ==
  ASSUME NEW new, DbTyped(new), NEW ss, ss = [i \in DOMAIN new.tables |-> ss[i]],
         \A i \in DOMAIN new.tables : StatementsFor(new, ss[i]), NEW f, f = FlattenSeq(ss)
  PROVE  /\ StatementsFor(new, f) /\ IsListOfLists(ss)
         /\ (\A i \in DOMAIN new.tables : Leaves(ss[i])) => Leaves(f)
<1>1. IsList(new.tables)
  BY DEF DbTyped
<1>2. \A i \in DOMAIN new.tables : IsList(ss[i])
  BY DEF StatementsFor
<1>3. IsList(f) /\ IsListOfLists(ss) /\ \A y \in ToSet(f) : \E i \in DOMAIN new.tables : y \in ToSet(ss[i])
  BY <1>1, <1>2, EachIs
<1> QED BY <1>3 DEF StatementsFor, Leaves

LEMMA TablesTyped ==
  ASSUME NEW db, DbTyped(db), NEW i \in DOMAIN db.tables
  PROVE  db.tables[i] \in ToSet(db.tables) /\ TableTyped(db.tables[i])
BY DEF DbTyped, ToSet

LEMMA NothingFor ==
  ASSUME NEW new
  PROVE  StatementsFor(new, <<>>) /\ Leaves(<<>>)
<1>1. ToSet(<<>>) = {}
  BY EmptyList DEF ToSet
<1> QED BY <1>1, EmptyList DEF StatementsFor, Leaves

LEMMA NewTablesAre ==
  ASSUME NEW old, NEW new, DbTyped(new)
  PROVE  StatementsFor(new, NewTables(old, new)) /\ Leaves(NewTables(old, new))
<1> DEFINE ss == [i \in DOMAIN new.tables |->
                    IF HasTable(old, new.tables[i].name) THEN <<>> ELSE Making(new.tables[i], new)]
<1>1. NewTables(old, new) = FlattenSeq(ss)
  BY DEF NewTables, Each, Making
<1>2. \A i \in DOMAIN new.tables : StatementsFor(new, ss[i]) /\ Leaves(ss[i])
  BY TablesTyped, MakingIs, NothingFor
<1>3. ss = [i \in DOMAIN new.tables |-> ss[i]]
  OBVIOUS
<1> HIDE DEF ss
<1> QED BY <1>1, <1>2, <1>3, ByTable

LEMMA NewIndexesIs ==
  ASSUME NEW ot, NEW nt, IsList(nt.indexes), NEW f, f = NewIndexes(ot, nt)
  PROVE  /\ IsList(f) /\ ToSet(f) = {x \in ToSet(nt.indexes) : ~Unchanged(x, ot)}
         /\ Distinct(nt.indexes) => Distinct(f)
<1> DEFINE s == nt.indexes
           K == {x \in ToSet(s) : ~Unchanged(x, ot)}
<1>1. \A i \in DOMAIN s : s[i] \in K <=> ~Unchanged(s[i], ot)
  BY DEF ToSet
<1>2. f = Picked(s, K)
  <2> HIDE DEF K
  <2> QED BY <1>1 DEF NewIndexes, Without, Each, When, Picked
<1>3. IsList(f) /\ ToSet(f) = ToSet(s) \cap K /\ PartOf(f, s)
  <2> HIDE DEF K
  <2> QED BY <1>2, PickedIs
<1>4. Distinct(s) => Distinct(f)
  <2> HIDE DEF s
  <2> QED BY <1>3 DEF PartOf, Embeds, Distinct
<1> QED BY <1>3, <1>4

\* Every part of ss is nothing, or a CREATE INDEX for the index of s at its place.
Indexings(ss, s, nt) == \A i \in DOMAIN s : \E c : ss[i] = When(c, Stmt("createIndex", nt.name, s[i]))

\* Some of the new indexes of a table are made.
LEMMA SomeIndexed ==
  ASSUME NEW new, NEW nt \in ToSet(new.tables), NEW s, IsList(s), ToSet(s) \subseteq ToSet(nt.indexes),
         NEW ss, ss = [i \in DOMAIN s |-> ss[i]], Indexings(ss, s, nt),
         NEW f, f = FlattenSeq(ss)
  PROVE  StatementsFor(new, f) /\ Leaves(f)
<1>1. ASSUME NEW i \in DOMAIN s PROVE IsList(ss[i]) /\ \A st \in ToSet(ss[i]) : Indexing(nt, st)
  <2> DEFINE y == Stmt("createIndex", nt.name, s[i])
  <2>1. PICK c : ss[i] = When(c, y)
    BY DEF Indexings
  <2>2. Indexing(nt, y)
    BY StmtIs DEF Indexing, ToSet
  <2> HIDE DEF y
  <2> QED BY <2>1, <2>2, WhenIs
<1>2. IsList(f) /\ \A st \in ToSet(f) : Indexing(nt, st)
  BY <1>1, EachIs
<1>3. \A st \in ToSet(f) : MeantFor(new, st)
  BY <1>2, IndexingMeant
<1> QED BY <1>2, <1>3 DEF StatementsFor, Leaves, Indexing

LEMMA LateCreatesAre ==
  ASSUME NEW new, NEW ot, NEW nt \in ToSet(new.tables), TableTyped(nt), NEW removed
  PROVE  StatementsFor(new, LateCreates(ot, nt, removed)) /\ Leaves(LateCreates(ot, nt, removed))
<1> DEFINE s == NewIndexes(ot, nt)
           ss == [i \in DOMAIN s |-> When(s[i].name \in removed, Stmt("createIndex", nt.name, s[i]))]
<1>1. LateCreates(ot, nt, removed) = FlattenSeq(ss)
  BY DEF LateCreates, Each
<1>2. IsList(s) /\ ToSet(s) \subseteq ToSet(nt.indexes)
  BY NewIndexesIs DEF TableTyped
<1> HIDE DEF s
<1>3. ss = [i \in DOMAIN s |-> ss[i]] /\ Indexings(ss, s, nt)
  BY DEF Indexings
<1> HIDE DEF ss
<1> QED BY <1>1, <1>2, <1>3, SomeIndexed

LEMMA IndexCreatesAre ==
  ASSUME NEW new, NEW ot, NEW nt \in ToSet(new.tables), TableTyped(nt), NEW removed
  PROVE  StatementsFor(new, IndexCreates(ot, nt, removed)) /\ Leaves(IndexCreates(ot, nt, removed))
<1> DEFINE s == NewIndexes(ot, nt)
           ss == [i \in DOMAIN s |-> When(s[i].name \notin removed, Stmt("createIndex", nt.name, s[i]))]
<1>1. IndexCreates(ot, nt, removed) = FlattenSeq(ss)
  BY DEF IndexCreates, Each
<1>2. IsList(s) /\ ToSet(s) \subseteq ToSet(nt.indexes)
  BY NewIndexesIs DEF TableTyped
<1> HIDE DEF s
<1>3. ss = [i \in DOMAIN s |-> ss[i]] /\ Indexings(ss, s, nt)
  BY DEF Indexings
<1> HIDE DEF ss
<1> QED BY <1>1, <1>2, <1>3, SomeIndexed

LEMMA LateIndexesAre ==
  ASSUME NEW old, NEW new, DbTyped(new)
  PROVE  StatementsFor(new, LateIndexes(old, new)) /\ Leaves(LateIndexes(old, new))
<1> DEFINE removed == RemovedNames(old, new)
           late(i) == LateCreates(TableOf(old, new.tables[i].name), new.tables[i], removed)
           ss == [i \in DOMAIN new.tables |-> IF HasTable(old, new.tables[i].name) THEN late(i) ELSE <<>>]
<1>1. LateIndexes(old, new) = FlattenSeq(ss)
  BY DEF LateIndexes
<1>2. \A i \in DOMAIN new.tables : StatementsFor(new, late(i)) /\ Leaves(late(i))
  BY TablesTyped, LateCreatesAre
<1> HIDE DEF late
<1>3. \A i \in DOMAIN new.tables : StatementsFor(new, ss[i]) /\ Leaves(ss[i])
  BY <1>2, NothingFor
<1>4. ss = [i \in DOMAIN new.tables |-> ss[i]]
  OBVIOUS
<1> HIDE DEF ss
<1> QED BY <1>1, <1>3, <1>4, ByTable

LEMMA WhenMeant ==
  ASSUME NEW new, NEW c, NEW st, c => MeantFor(new, st) /\ st.op \notin {"dropIndex", "dropColumn"}
  PROVE  StatementsFor(new, When(c, st)) /\ Leaves(When(c, st))
BY WhenIs DEF StatementsFor, Leaves

LEMMA KeyDropsAre ==
  ASSUME NEW new, NEW ot, NEW nt \in ToSet(new.tables)
  PROVE  StatementsFor(new, KeyDrops(ot, nt)) /\ Leaves(KeyDrops(ot, nt))
<1> DEFINE c == ~SameKey(ot, nt) /\ dialect # "sqlite" /\ PkColumns(ot) # <<>>
           st == Stmt("dropKey", nt.name, PkConstraintName(ot))
<1>1. KeyDrops(ot, nt) = When(c, st)
  BY DEF KeyDrops
<1>2. st.op = "dropKey" /\ st.on = nt.name
  BY StmtIs
<1>4. c => dialect # "sqlite"
  OBVIOUS
<1> HIDE DEF c, st
<1>3. c => MeantFor(new, st)
  BY <1>2, <1>4 DEF MeantFor, OpsOf
<1> QED BY <1>1, <1>2, <1>3, WhenMeant

LEMMA KeyAddsAre ==
  ASSUME NEW new, NEW ot, NEW nt \in ToSet(new.tables)
  PROVE  StatementsFor(new, KeyAdds(ot, nt)) /\ Leaves(KeyAdds(ot, nt))
<1> DEFINE rename == Stmt("renameKey", nt.name, [from |-> PkConstraintName(ot), to |-> PkConstraintName(nt)])
           add == Stmt("addKey", nt.name, [keys |-> PkColumns(nt), name |-> nt.key])
           c == dialect = "postgres" /\ PkColumns(nt) # <<>> /\ PkConstraintName(ot) # PkConstraintName(nt)
           d == dialect # "sqlite" /\ PkColumns(nt) # <<>>
           e == ~SameKey(ot, nt) /\ dialect = "sqlite"
<1>1. \/ KeyAdds(ot, nt) = When(c, rename)
      \/ KeyAdds(ot, nt) = When(d, add)
      \/ e /\ KeyAdds(ot, nt) = <<Comment>>
  BY DEF KeyAdds
<1>2. rename.op = "renameKey" /\ rename.on = nt.name
  BY StmtIs
<1>3. add.op = "addKey" /\ add.on = nt.name /\ add.what = [keys |-> PkColumns(nt), name |-> nt.key]
  BY StmtIs
<1>9. add.what.keys = PkColumns(nt)
  BY <1>3
<1>10. c => dialect = "postgres"
  OBVIOUS
<1> HIDE DEF rename, add, c, e
<1>4. c => MeantFor(new, rename)
  BY <1>2, <1>10 DEF MeantFor, OpsOf
<1>5. d => MeantFor(new, add)
  BY <1>3, <1>9 DEF MeantFor, OpsOf
<1> HIDE DEF d
<1>6. StatementsFor(new, When(c, rename)) /\ Leaves(When(c, rename))
  BY <1>2, <1>4, WhenMeant
<1>7. StatementsFor(new, When(d, add)) /\ Leaves(When(d, add))
  BY <1>3, <1>5, WhenMeant
<1>8. StatementsFor(new, <<Comment>>) /\ Leaves(<<Comment>>)
  <2>1. MeantFor(new, Comment)
    BY CommentIs, OtherMeant DEF OfNoTable, OpsOf
  <2>2. When(TRUE, Comment) = <<Comment>>
    BY DEF When
  <2>3. StatementsFor(new, When(TRUE, Comment)) /\ Leaves(When(TRUE, Comment))
    BY <2>1, CommentIs, WhenMeant
  <2> QED BY <2>2, <2>3
<1> QED BY <1>1, <1>6, <1>7, <1>8

\* Two indexes of a table.
TwoIndexes(ot, a, b) ==
  \E i, j \in DOMAIN ot.indexes : i # j /\ ot.indexes[i].name = a /\ ot.indexes[j].name = b

\* What is dropped in a table.
DropsOf(ot, nt, st) ==
  /\ st.op = "dropIndex" =>
       st.on = nt.name /\ \E x \in ToSet(ot.indexes) : ~Unchanged(x, nt) /\ st.what = x.name
  /\ st.op = "dropColumn" => st.on = nt.name

DropsFirst(ot, s) ==
  \A p, q \in DOMAIN s : p < q /\ s[q].op = "dropIndex" =>
    s[p].op = "dropIndex" /\ TwoIndexes(ot, s[p].what, s[q].what)

TableScript(ot, nt, new, s) ==
  StatementsFor(new, s) /\ (\A st \in ToSet(s) : DropsOf(ot, nt, st)) /\ DropsFirst(ot, s)

\* Statements that drop no index, and no column of another table.
NoIndexDrops(nt, s) == \A st \in ToSet(s) : st.op # "dropIndex" /\ (st.op = "dropColumn" => st.on = nt.name)

LEMMA MoreStatements ==
  ASSUME NEW ot, NEW nt, NEW new, NEW a, TableScript(ot, nt, new, a),
         NEW b, StatementsFor(new, b), NoIndexDrops(nt, b), NEW u, u = a \o b
  PROVE  TableScript(ot, nt, new, u)
<1>1. StatementsFor(new, u) /\ ToSet(u) = ToSet(a) \cup ToSet(b)
  <2>1. StatementsFor(new, a)
    BY DEF TableScript
  <2>2. IsList(u) /\ ToSet(u) = ToSet(a) \cup ToSet(b)
    BY <2>1, ConcatElements DEF StatementsFor
  <2> QED BY <2>1, <2>2 DEF StatementsFor
<1>2. \A st \in ToSet(u) : DropsOf(ot, nt, st)
  BY <1>1 DEF TableScript, DropsOf, NoIndexDrops
<1>3. ASSUME NEW p \in DOMAIN u, NEW q \in DOMAIN u, p < q, u[q].op = "dropIndex"
      PROVE  u[p].op = "dropIndex" /\ TwoIndexes(ot, u[p].what, u[q].what)
  <2>1. \A st \in ToSet(b) : st.op # "dropIndex"
    BY DEF NoIndexDrops
  <2>2. IsList(a) /\ IsList(b)
    BY DEF TableScript, StatementsFor
  <2>3. ComesFirst(a, u[p], u[q]) \/ ComesFirst(b, u[p], u[q]) \/ (u[p] \in ToSet(a) /\ u[q] \in ToSet(b))
    BY <1>3, <2>2, ConcatOrder
  <2>4. u[q] \notin ToSet(b) /\ ~ComesFirst(b, u[p], u[q])
    BY <1>3, <2>1 DEF ComesFirst, ToSet
  <2>5. PICK k \in DOMAIN a, l \in DOMAIN a : k < l /\ a[k] = u[p] /\ a[l] = u[q]
    BY <2>3, <2>4 DEF ComesFirst
  <2> QED BY <1>3, <2>5 DEF TableScript, DropsFirst
<1> QED BY <1>1, <1>2, <1>3 DEF TableScript, DropsFirst

LEMMA IndexDropsAre ==
  ASSUME NEW new, NEW ot, TableTyped(ot), NEW nt \in ToSet(new.tables)
  PROVE  TableScript(ot, nt, new, IndexDrops(ot, nt))
<1> DEFINE s == ot.indexes
           K == {i \in DOMAIN s : ~Unchanged(s[i], nt)}
           g == [i \in DOMAIN s |-> Stmt("dropIndex", nt.name, s[i].name)]
           f == IndexDrops(ot, nt)
<1>1. f = Chosen(s, K, g)
  BY DEF IndexDrops, Each, When, Chosen
<1>2. IsList(s)
  BY DEF TableTyped
<1>3. \A i \in DOMAIN s : g[i].op = "dropIndex" /\ g[i].on = nt.name /\ g[i].what = s[i].name
  BY StmtIs
<1>4. \A i \in K : i \in DOMAIN s /\ s[i] \in ToSet(ot.indexes) /\ ~Unchanged(s[i], nt)
  BY DEF ToSet
<1> HIDE DEF K, g, f
<1>5. IsList(f) /\ \E at : ChosenAt(at, f, s, K, g)
  BY <1>1, <1>2, ChosenIs
<1>6. PICK at : ChosenAt(at, f, s, K, g)
  BY <1>5
<1>7. ASSUME NEW p \in DOMAIN f
      PROVE  /\ at[p] \in DOMAIN s /\ f[p].op = "dropIndex" /\ f[p].on = nt.name /\ f[p].what = s[at[p]].name
             /\ s[at[p]] \in ToSet(ot.indexes) /\ ~Unchanged(s[at[p]], nt)
  BY <1>3, <1>4, <1>6 DEF ChosenAt
<1>8. \A st \in ToSet(f) : DropsOf(ot, nt, st) /\ st.op = "dropIndex" /\ st.on = nt.name
  BY <1>7 DEF DropsOf, ToSet
<1>9. \A st \in ToSet(f) : MeantFor(new, st)
  BY <1>8 DEF MeantFor, OpsOf
<1>10. ASSUME NEW p \in DOMAIN f, NEW q \in DOMAIN f, p < q
       PROVE  f[p].op = "dropIndex" /\ TwoIndexes(ot, f[p].what, f[q].what)
  <2>1. at[p] < at[q] /\ at[p] \in DOMAIN s /\ at[q] \in DOMAIN s
    BY <1>6, <1>7, <1>10 DEF ChosenAt
  <2>2. DOMAIN s = 1 .. Len(s) /\ Len(s) \in Nat
    BY <1>2, ListIs
  <2>3. at[p] # at[q]
    BY <2>1, <2>2
  <2>4. f[p].op = "dropIndex" /\ f[p].what = s[at[p]].name /\ f[q].what = s[at[q]].name
    BY <1>7
  <2> QED BY <2>1, <2>3, <2>4 DEF TwoIndexes
<1>11. DropsFirst(ot, f)
  BY <1>10 DEF DropsFirst
<1> QED BY <1>5, <1>8, <1>9, <1>11 DEF TableScript, StatementsFor, f

LEMMA RenderedIs ==
  ASSUME NEW c, NEW inline, NEW db
  PROVE  /\ DOMAIN RenderColumn(c, inline, db) = DOMAIN c
         /\ DOMAIN c = Fields => RenderColumn(c, inline, db).name = c.name
BY DEF RenderColumn, Fields

\* The operations on a column that is there.
OnColumn == {"setType", "setNotNull", "dropNotNull", "modifyColumn"}

\* A statement for a column is about its table and its name.
AltersColumn(c, nt, new, st) ==
  /\ st.op \in OnColumn /\ st.op \in OpsOf(dialect) /\ st.on = nt.name /\ st.what.name = c.name
  /\ st.op = "modifyColumn" => st.what = RenderColumn(c, FALSE, new)
  /\ st.op = "setType" => st.what = [name |-> c.name, type |-> MapType(c.type, new)]
  /\ st.op = "setNotNull" => NotNull(c)
  /\ st.op = "dropNotNull" => ~NotNull(c)

LEMMA ForColumnIs ==
  ASSUME NEW new, NEW nt, NEW c, DOMAIN c = Fields, NEW st, ForColumn(c, nt, new, st)
  PROVE  AltersColumn(c, nt, new, st)
<1> DEFINE r == RenderColumn(c, FALSE, new)
           t == [name |-> c.name, type |-> MapType(c.type, new)]
           n == [name |-> c.name]
<1>1. r.name = c.name
  BY RenderedIs
<1>2. t.name = c.name /\ n.name = c.name
  OBVIOUS
<1>3. \/ dialect = "mariadb" /\ st = Stmt("modifyColumn", nt.name, r)
      \/ dialect = "postgres" /\ st = Stmt("setType", nt.name, t)
      \/ dialect = "postgres" /\ NotNull(c) /\ st = Stmt("setNotNull", nt.name, n)
      \/ dialect = "postgres" /\ ~NotNull(c) /\ st = Stmt("dropNotNull", nt.name, n)
  BY DEF ForColumn
<1> HIDE DEF r, t, n
<1>4. CASE dialect = "mariadb" /\ st = Stmt("modifyColumn", nt.name, r)
  <2>1. st.op = "modifyColumn" /\ st.on = nt.name /\ st.what = r
    BY <1>4, StmtIs
  <2> QED BY <1>1, <1>4, <2>1 DEF AltersColumn, OnColumn, OpsOf, r
<1>5. CASE dialect = "postgres" /\ st = Stmt("setType", nt.name, t)
  <2>1. st.op = "setType" /\ st.on = nt.name /\ st.what = t
    BY <1>5, StmtIs
  <2> QED BY <1>2, <1>5, <2>1 DEF AltersColumn, OnColumn, OpsOf, t
<1>6. CASE dialect = "postgres" /\ NotNull(c) /\ st = Stmt("setNotNull", nt.name, n)
  <2>1. st.op = "setNotNull" /\ st.on = nt.name /\ st.what = n
    BY <1>6, StmtIs
  <2> QED BY <1>2, <1>6, <2>1 DEF AltersColumn, OnColumn, OpsOf
<1>7. CASE dialect = "postgres" /\ ~NotNull(c) /\ st = Stmt("dropNotNull", nt.name, n)
  <2>1. st.op = "dropNotNull" /\ st.on = nt.name /\ st.what = n
    BY <1>7, StmtIs
  <2> QED BY <1>2, <1>7, <2>1 DEF AltersColumn, OnColumn, OpsOf
<1> QED BY <1>3, <1>4, <1>5, <1>6, <1>7

LEMMA ColumnStatements ==
  ASSUME NEW new, DbTyped(new), NEW ot, NEW nt \in ToSet(new.tables), TableTyped(nt), NEW st,
         ForColumns(ot, nt, new, st)
  PROVE  MeantFor(new, st) /\ st.op # "dropIndex" /\ (st.op = "dropColumn" => st.on = nt.name)
<1>1. CASE \E c \in ToSet(nt.cols) : st = Stmt("addColumn", nt.name, RenderColumn(c, FALSE, new))
  <2>1. PICK c \in ToSet(nt.cols) : st = Stmt("addColumn", nt.name, RenderColumn(c, FALSE, new))
    BY <1>1
  <2> DEFINE r == RenderColumn(c, FALSE, new)
  <2>2. st.op = "addColumn" /\ st.on = nt.name /\ st.what = r
    <3>1. st = Stmt("addColumn", nt.name, r)
      BY <2>1
    <3> HIDE DEF r
    <3> QED BY <3>1, StmtIs
  <2>3. \E t \in ToSet(new.tables) : t.name = st.on /\ \E d \in ToSet(t.cols) : st.what = RenderColumn(d, FALSE, new)
    BY <2>2
  <2> QED BY <2>2, <2>3 DEF MeantFor, OpsOf
<1>2. CASE dialect # "sqlite" /\
           \E c \in ToSet(ot.cols) : c.name \notin Names(nt.cols) /\ st = Stmt("dropColumn", nt.name, c.name)
  <2>1. PICK c \in ToSet(ot.cols) : c.name \notin Names(nt.cols) /\ st = Stmt("dropColumn", nt.name, c.name)
    BY <1>2
  <2>2. st.op = "dropColumn" /\ st.on = nt.name /\ st.what \notin Names(nt.cols)
    BY <2>1, StmtIs
  <2>3. \A t \in ToSet(new.tables) : t.name = st.on => t = nt
    BY <2>2 DEF DbTyped, Distinct, ToSet
  <2> QED BY <1>2, <2>2, <2>3 DEF MeantFor, OpsOf
<1>3. CASE \E c \in ToSet(nt.cols) : ForColumn(c, nt, new, st)
  <2>1. PICK c \in ToSet(nt.cols) : ForColumn(c, nt, new, st)
    BY <1>3
  <2>2. DOMAIN c = Fields
    BY DEF TableTyped
  <2>3. AltersColumn(c, nt, new, st)
    BY <2>1, <2>2, ForColumnIs
  <2>4. st.op \in {"setNotNull", "dropNotNull"} => NotNull(c) <=> (st.op = "setNotNull")
    BY <2>3 DEF AltersColumn
  <2>5. st.op = "modifyColumn" => dialect = "mariadb"
    BY <2>3 DEF AltersColumn, OpsOf
  <2> QED BY <2>3, <2>4, <2>5 DEF MeantFor, AltersColumn, OnColumn
<1>4. CASE st = Comment
  BY <1>4, CommentIs, OtherMeant DEF OfNoTable, OpsOf
<1> QED BY <1>1, <1>2, <1>3, <1>4 DEF ForColumns, AddsColumn, DropsColumn, ChangesColumn

LEMMA ModifiedTableIs ==
  ASSUME NEW new, DbTyped(new), NEW old, NEW ot, TableTyped(ot), NEW nt \in ToSet(new.tables), NEW removed
  PROVE  TableScript(ot, nt, new, ModifiedTable(ot, nt, old, new, removed))
<1>1. TableTyped(nt)
  BY DEF DbTyped
<1> DEFINE a == IndexDrops(ot, nt)
           b == KeyDrops(ot, nt)
           c == DiffTable(ot, nt, old, new)
           d == KeyAdds(ot, nt)
           e == IndexCreates(ot, nt, removed)
           ab == a \o b
           abc == ab \o c
           abcd == abc \o d
           abcde == abcd \o e
<1>2. ModifiedTable(ot, nt, old, new, removed) = abcde
  BY DEF ModifiedTable
<1>3. TableScript(ot, nt, new, a)
  BY IndexDropsAre
<1>4. StatementsFor(new, b) /\ NoIndexDrops(nt, b)
  BY KeyDropsAre DEF Leaves, NoIndexDrops
<1>5. StatementsFor(new, c) /\ NoIndexDrops(nt, c)
  <2>1. IsList(c) /\ \A st \in ToSet(c) : ForColumns(ot, nt, new, st)
    BY <1>1, DiffTableIs
  <2> HIDE DEF c
  <2>2. \A st \in ToSet(c) : MeantFor(new, st) /\ st.op # "dropIndex" /\ (st.op = "dropColumn" => st.on = nt.name)
    BY <1>1, <2>1, ColumnStatements
  <2> QED BY <2>1, <2>2 DEF StatementsFor, NoIndexDrops
<1>6. StatementsFor(new, d) /\ NoIndexDrops(nt, d)
  BY KeyAddsAre DEF Leaves, NoIndexDrops
<1>7. StatementsFor(new, e) /\ NoIndexDrops(nt, e)
  BY <1>1, IndexCreatesAre DEF Leaves, NoIndexDrops
<1> HIDE DEF a, b, c, d, e
<1>8. TableScript(ot, nt, new, ab)
  BY <1>3, <1>4, MoreStatements
<1> HIDE DEF ab
<1>9. TableScript(ot, nt, new, abc)
  BY <1>8, <1>5, MoreStatements
<1> HIDE DEF abc
<1>10. TableScript(ot, nt, new, abcd)
  BY <1>9, <1>6, MoreStatements
<1> HIDE DEF abcd
<1>11. TableScript(ot, nt, new, abcde)
  BY <1>10, <1>7, MoreStatements
<1> HIDE DEF abcde
<1> QED BY <1>2, <1>11

\* What the script from old to new drops.
DropIn(old, new, st) ==
  st.op = "dropIndex" =>
    \E nt \in ToSet(new.tables) :
      /\ st.on = nt.name /\ HasTable(old, nt.name)
      /\ \E x \in ToSet(TableOf(old, nt.name).indexes) : ~Unchanged(x, nt) /\ st.what = x.name

LEMMA InOrderOfTwo ==
  ASSUME NEW new, NEW ot, NEW ou, NEW nt, NEW nu, NEW a, NEW b, ot.name = nt.name, ou.name = nu.name,
         nt.name # nu.name, DropsOf(ot, nt, a), DropsOf(ou, nu, b),
         NEW L, IndexesApart(L, new), ot \in ToSet(L.tables), ou \in ToSet(L.tables)
  PROVE  Follows(new, a, b)
<1>1. ASSUME b.op = "dropIndex", a.op = "dropColumn" PROVE a.on # b.on
  BY <1>1 DEF DropsOf
<1>2. ASSUME b.op = "dropIndex", a.op = "dropIndex"
      PROVE  a.what # b.what \/ (dialect = "mariadb" /\ a.on # b.on)
  <2>1. a.on # b.on
    BY <1>2 DEF DropsOf
  <2>2. PICK i \in DOMAIN ot.indexes : a.what = ot.indexes[i].name
    BY <1>2 DEF DropsOf, ToSet
  <2>3. PICK j \in DOMAIN ou.indexes : b.what = ou.indexes[j].name
    BY <1>2 DEF DropsOf, ToSet
  <2>4. ASSUME a.what = b.what, dialect # "mariadb" PROVE FALSE
    <3>1. (ot = ou /\ i = j) \/ Second(new, ot.name, ot.indexes[i].name)
      BY <2>2, <2>3, <2>4 DEF IndexesApart
    <3> QED BY <2>4, <3>1 DEF Second
  <2> QED BY <2>1, <2>4
<1> QED BY <1>1, <1>2 DEF Follows

LEMMA InOrderOfOne ==
  ASSUME NEW new, NEW ot, NEW nt, NEW a, NEW b, ot.name = nt.name, DropsOf(ot, nt, a),
         b.op = "dropIndex" => a.op = "dropIndex" /\ TwoIndexes(ot, a.what, b.what),
         NEW L, IndexesApart(L, new), ot \in ToSet(L.tables)
  PROVE  Follows(new, a, b)
<1>1. ASSUME b.op = "dropIndex", a.what = b.what PROVE dialect = "mariadb" /\ Second(new, a.on, a.what)
  <2>1. a.op = "dropIndex" /\ TwoIndexes(ot, a.what, b.what) /\ a.on = ot.name
    BY <1>1 DEF DropsOf
  <2>2. PICK i \in DOMAIN ot.indexes, j \in DOMAIN ot.indexes :
          i # j /\ ot.indexes[i].name = a.what /\ ot.indexes[j].name = b.what
    BY <2>1 DEF TwoIndexes
  <2>3. (ot = ot /\ i = j) \/ Second(new, ot.name, ot.indexes[i].name)
    BY <1>1, <2>2 DEF IndexesApart
  <2>4. Second(new, a.on, a.what)
    BY <2>1, <2>2, <2>3
  <2> QED BY <2>4 DEF Second
<1>2. b.op = "dropIndex" => a.op = "dropIndex"
  OBVIOUS
<1> QED BY <1>1, <1>2 DEF Follows

LEMMA ModifiedTablesAre ==
  ASSUME NEW new, DbTyped(new), NEW old, DbTyped(old), IndexesApart(old, new)
  PROVE  LET f == ModifiedTables(old, new)
         IN  /\ StatementsFor(new, f) /\ InOrder(new, f)
             /\ \A st \in ToSet(f) : DropIn(old, new, st)
<1> DEFINE removed == RemovedNames(old, new)
           nt(i) == new.tables[i]
           ot(i) == TableOf(old, nt(i).name)
           mod(i) == ModifiedTable(ot(i), nt(i), old, new, removed)
           ss == [i \in DOMAIN new.tables |-> IF HasTable(old, nt(i).name) THEN mod(i) ELSE <<>>]
           f == ModifiedTables(old, new)
<1>1. f = FlattenSeq(ss)
  BY DEF ModifiedTables
<1>2. ASSUME NEW i \in DOMAIN new.tables, HasTable(old, nt(i).name)
      PROVE  ot(i) \in ToSet(old.tables) /\ ot(i).name = nt(i).name /\ TableScript(ot(i), nt(i), new, mod(i))
  <2>1. ot(i) \in ToSet(old.tables) /\ ot(i).name = nt(i).name /\ TableTyped(ot(i))
    BY <1>2, TableOfIs
  <2>2. nt(i) \in ToSet(new.tables)
    BY DEF ToSet
  <2> QED BY <2>1, <2>2, ModifiedTableIs
<1> HIDE DEF mod
<1>3. \A i \in DOMAIN new.tables : ss[i] = mod(i) \/ ss[i] = <<>>
  OBVIOUS
<1>4. \A i \in DOMAIN new.tables : HasTable(old, nt(i).name) => ss[i] = mod(i)
  OBVIOUS
<1>5. \A i \in DOMAIN new.tables : ~HasTable(old, nt(i).name) => ss[i] = <<>>
  OBVIOUS
<1>6. ss = [i \in DOMAIN new.tables |-> ss[i]] /\ DOMAIN ss = DOMAIN new.tables
  OBVIOUS
<1> HIDE DEF ss, f
<1>7. ToSet(<<>>) = {}
  BY EmptyList DEF ToSet
<1>8. ASSUME NEW i \in DOMAIN new.tables, NEW k \in DOMAIN ss[i]
      PROVE  /\ HasTable(old, nt(i).name) /\ ot(i) \in ToSet(old.tables) /\ ot(i).name = nt(i).name
             /\ ss[i] = mod(i) /\ TableScript(ot(i), nt(i), new, ss[i]) /\ DropsOf(ot(i), nt(i), ss[i][k])
  <2>1. ss[i] # <<>>
    BY <1>7 DEF ToSet
  <2>2. HasTable(old, nt(i).name) /\ ss[i] = mod(i)
    BY <1>4, <1>5, <2>1
  <2>3. TableScript(ot(i), nt(i), new, ss[i]) /\ ot(i) \in ToSet(old.tables) /\ ot(i).name = nt(i).name
    BY <1>2, <2>2
  <2>4. DropsOf(ot(i), nt(i), ss[i][k])
    BY <2>3 DEF TableScript, ToSet
  <2> QED BY <2>2, <2>3, <2>4
<1>9. \A i \in DOMAIN new.tables : StatementsFor(new, ss[i])
  <2> TAKE i \in DOMAIN new.tables
  <2>1. CASE HasTable(old, nt(i).name)
    BY <1>2, <1>4, <2>1 DEF TableScript
  <2>2. CASE ~HasTable(old, nt(i).name)
    BY <1>5, <2>2, NothingFor
  <2> QED BY <2>1, <2>2
<1>10. StatementsFor(new, f) /\ IsListOfLists(ss)
  BY <1>1, <1>6, <1>9, ByTable
<1>11. \A st \in ToSet(f) : \E i \in DOMAIN new.tables : st \in ToSet(ss[i])
  <2>1. IsList(new.tables) /\ \A i \in DOMAIN new.tables : IsList(ss[i])
    BY <1>9 DEF DbTyped, StatementsFor
  <2> QED BY <1>1, <1>6, <2>1, EachIs
<1>12. ASSUME NEW st \in ToSet(f) PROVE DropIn(old, new, st)
  <2>1. PICK i \in DOMAIN new.tables : st \in ToSet(ss[i])
    BY <1>11
  <2>2. PICK k \in DOMAIN ss[i] : st = ss[i][k]
    BY <2>1 DEF ToSet
  <2>3. HasTable(old, nt(i).name) /\ DropsOf(ot(i), nt(i), st) /\ nt(i) \in ToSet(new.tables)
    BY <1>8, <2>2 DEF ToSet
  <2> QED BY <2>3 DEF DropsOf, DropIn
<1>13. ASSUME NEW p \in DOMAIN f, NEW q \in DOMAIN f, p < q PROVE Follows(new, f[p], f[q])
  <2>1. \E i, k, j, l : ArePlaces(ss, p, q, i, k, j, l)
    BY <1>1, <1>10, <1>13, FlattenOrder
  <2>2. PICK i, k, j, l : ArePlaces(ss, p, q, i, k, j, l)
    BY <2>1
  <2>3. /\ i \in DOMAIN new.tables /\ k \in DOMAIN ss[i] /\ f[p] = ss[i][k]
        /\ j \in DOMAIN new.tables /\ l \in DOMAIN ss[j] /\ f[q] = ss[j][l]
        /\ i < j \/ (i = j /\ k < l)
        /\ i \in Nat /\ j \in Nat
    BY <1>1, <1>6, <2>2 DEF ArePlaces
  <2>4. /\ ot(i) \in ToSet(old.tables) /\ ot(i).name = nt(i).name /\ DropsOf(ot(i), nt(i), f[p])
        /\ TableScript(ot(i), nt(i), new, ss[i])
    BY <1>8, <2>3
  <2>5. ot(j) \in ToSet(old.tables) /\ ot(j).name = nt(j).name /\ DropsOf(ot(j), nt(j), f[q])
    BY <1>8, <2>3
  <2>6. CASE i < j
    <3>1. nt(i).name # nt(j).name
      BY <2>3, <2>6 DEF DbTyped, Distinct
    <3> HIDE DEF nt, ot
    <3> QED BY <2>4, <2>5, <3>1, InOrderOfTwo
  <2>7. CASE i = j /\ k < l
    <3>1. f[q].op = "dropIndex" => f[p].op = "dropIndex" /\ TwoIndexes(ot(i), f[p].what, f[q].what)
      BY <2>3, <2>4, <2>7 DEF TableScript, DropsFirst
    <3> HIDE DEF nt, ot
    <3> QED BY <2>4, <3>1, InOrderOfOne
  <2> QED BY <2>3, <2>6, <2>7
<1>14. InOrder(new, f)
  BY <1>13 DEF InOrder
<1> QED BY <1>10, <1>12, <1>14 DEF f

\* A part of a script: its statements are meant, in order, and drop what is there.
ScriptPart(old, new, s) ==
  StatementsFor(new, s) /\ InOrder(new, s) /\ \A st \in ToSet(s) : DropIn(old, new, st)

LEMMA LeavesPart ==
  ASSUME NEW old, NEW new, NEW s, StatementsFor(new, s), Leaves(s)
  PROVE  ScriptPart(old, new, s)
<1>1. \A st \in ToSet(s) : st.op # "dropIndex"
  BY DEF Leaves
<1>2. InOrder(new, s)
  BY <1>1 DEF InOrder, Follows, ToSet
<1> QED BY <1>1, <1>2 DEF ScriptPart, DropIn

LEMMA JoinParts ==
  ASSUME NEW old, NEW new, NEW a, ScriptPart(old, new, a), NEW b, ScriptPart(old, new, b),
         Leaves(a) \/ Leaves(b), NEW u, u = a \o b
  PROVE  ScriptPart(old, new, u)
<1>1. StatementsFor(new, a) /\ StatementsFor(new, b) /\ IsList(a) /\ IsList(b)
  BY DEF ScriptPart, StatementsFor
<1>2. IsList(u) /\ ToSet(u) = ToSet(a) \cup ToSet(b)
  BY <1>1, ConcatElements
<1>3. StatementsFor(new, u)
  BY <1>1, <1>2 DEF StatementsFor
<1>4. \A st \in ToSet(u) : DropIn(old, new, st)
  BY <1>2 DEF ScriptPart
<1>5. ASSUME NEW p \in DOMAIN u, NEW q \in DOMAIN u, p < q PROVE Follows(new, u[p], u[q])
  <2>1. ComesFirst(a, u[p], u[q]) \/ ComesFirst(b, u[p], u[q]) \/ (u[p] \in ToSet(a) /\ u[q] \in ToSet(b))
    BY <1>1, <1>5, ConcatOrder
  <2>2. CASE ComesFirst(a, u[p], u[q])
    BY <2>2 DEF ComesFirst, ScriptPart, InOrder
  <2>3. CASE ComesFirst(b, u[p], u[q])
    BY <2>3 DEF ComesFirst, ScriptPart, InOrder
  <2>4. CASE u[p] \in ToSet(a) /\ u[q] \in ToSet(b)
    BY <2>4 DEF Leaves, Follows
  <2> QED BY <2>1, <2>2, <2>3, <2>4
<1>6. InOrder(new, u)
  BY <1>5 DEF InOrder
<1> QED BY <1>3, <1>4, <1>6 DEF ScriptPart

\* The script between two schemas.
LEMMA ScriptIs ==
  ASSUME NEW new, DbTyped(new), NEW old, DbTyped(old), IndexesApart(old, new)
  PROVE  ScriptPart(old, new, Script(old, new))
<1> DEFINE a == NewEnums(old, new)
           b == ModifiedTables(old, new)
           c == RemovedTables(old, new)
           d == LateIndexes(old, new)
           e == NewTables(old, new)
           f == RemovedEnums(old, new)
           ab == a \o b
           abc == ab \o c
           abcd == abc \o d
           abcde == abcd \o e
           all == abcde \o f
<1>1. Script(old, new) = all
  BY DEF Script
<1>2. ScriptPart(old, new, a) /\ Leaves(a)
  BY NewEnumsAre, LeavesPart DEF DbTyped
<1>3. ScriptPart(old, new, b)
  BY ModifiedTablesAre DEF ScriptPart
<1>4. ScriptPart(old, new, c) /\ Leaves(c)
  BY RemovedTablesAre, LeavesPart DEF DbTyped
<1>5. ScriptPart(old, new, d) /\ Leaves(d)
  BY LateIndexesAre, LeavesPart
<1>6. ScriptPart(old, new, e) /\ Leaves(e)
  BY NewTablesAre, LeavesPart
<1>7. ScriptPart(old, new, f) /\ Leaves(f)
  BY RemovedEnumsAre, LeavesPart DEF DbTyped
<1> HIDE DEF a, b, c, d, e, f
<1>8. ScriptPart(old, new, ab)
  BY <1>2, <1>3, JoinParts
<1> HIDE DEF ab
<1>9. ScriptPart(old, new, abc)
  BY <1>8, <1>4, JoinParts
<1> HIDE DEF abc
<1>10. ScriptPart(old, new, abcd)
  BY <1>9, <1>5, JoinParts
<1> HIDE DEF abcd
<1>11. ScriptPart(old, new, abcde)
  BY <1>10, <1>6, JoinParts
<1> HIDE DEF abcde
<1>12. ScriptPart(old, new, all)
  BY <1>11, <1>7, JoinParts
<1> HIDE DEF all
<1> QED BY <1>1, <1>12

-----------------------------------------------------------------------------
(* A statement the database accepts has what it needs. *)

LEMMA MadeColumnsAre ==
  ASSUME NEW t, TableTyped(t), NEW db, NEW f, f = MadeColumns(t, db)
  PROVE  IsList(f) /\ Distinct(f) /\ Names(f) = Names(t.cols) /\ \A c \in ToSet(f) : DOMAIN c = Fields
<1> DEFINE inline == InlinePK(t)
<1>1. f = [i \in DOMAIN t.cols |-> RenderColumn(t.cols[i], inline, db)]
  BY DEF MadeColumns
<1> HIDE DEF inline
<1>2. \A i \in DOMAIN t.cols : f[i].name = t.cols[i].name /\ DOMAIN f[i] = Fields
  BY <1>1, RenderedIs, ColumnFields
<1>3. f = [i \in DOMAIN t.cols |-> f[i]]
  BY <1>1
<1>4. IsList(f) /\ DOMAIN f = DOMAIN t.cols /\ Names(f) = Names(t.cols) /\ Distinct(f)
  BY <1>2, <1>3, SameNames DEF TableTyped
<1> QED BY <1>2, <1>4 DEF ToSet

LEMMA HasColumnIs ==
  ASSUME NEW db, NEW t, NEW c
  PROVE  HasColumns(db, t, <<c>>) <=> HasTable(db, t) /\ c \in Names(TableOf(db, t).cols)
<1>1. ToSet(<<c>>) = {c}
  BY OneList DEF ToSet
<1> QED BY <1>1 DEF HasColumns

LEMMA AcceptsTable ==
  ASSUME NEW L, NEW st, Accepts(L, st)
  PROVE  /\ st.op \in OnColumn => HasColumns(L, st.on, <<st.what.name>>)
         /\ st.op = "dropColumn" => HasColumns(L, st.on, <<st.what>>)
         /\ st.op = "addColumn" => HasTable(L, st.on) /\ ~HasColumns(L, st.on, <<st.what.name>>)
         /\ st.op \in {"createIndex", "addKey"} => HasColumns(L, st.on, st.what.keys)
         /\ st.op \in {"dropKey", "renameKey"} => HasTable(L, st.on)
         /\ st.op = "createIndex" => st.what.name \notin Occupied(L, st.on)
         /\ st.op = "createTable" =>
              IF dialect = "mariadb" THEN ~HasTable(L, st.on) ELSE st.on \notin Occupied(L, st.on)
<1>1. st.op = "setType" => HasColumns(L, st.on, <<st.what.name>>)
  BY DEF Accepts
<1>2. st.op = "setNotNull" => HasColumns(L, st.on, <<st.what.name>>)
  BY DEF Accepts
<1>3. st.op = "dropNotNull" => HasColumns(L, st.on, <<st.what.name>>)
  BY DEF Accepts
<1>4. st.op = "modifyColumn" => HasColumns(L, st.on, <<st.what.name>>)
  BY DEF Accepts
<1>5. st.op = "dropColumn" => HasColumns(L, st.on, <<st.what>>)
  BY DEF Accepts
<1>6. st.op = "addColumn" => HasTable(L, st.on) /\ ~HasColumns(L, st.on, <<st.what.name>>)
  BY DEF Accepts
<1>7. st.op = "createIndex" => HasColumns(L, st.on, st.what.keys) /\ st.what.name \notin Occupied(L, st.on)
  BY DEF Accepts
<1>8. st.op = "addKey" => HasColumns(L, st.on, st.what.keys)
  BY DEF Accepts
<1>9. st.op = "dropKey" => HasTable(L, st.on)
  BY DEF Accepts
<1>10. st.op = "renameKey" => HasTable(L, st.on)
  BY DEF Accepts
<1>11. st.op = "createTable" =>
         IF dialect = "mariadb" THEN ~HasTable(L, st.on) ELSE st.on \notin Occupied(L, st.on)
  BY DEF Accepts
<1> QED BY <1>1, <1>2, <1>3, <1>4, <1>5, <1>6, <1>7, <1>8, <1>9, <1>10, <1>11 DEF OnColumn

\* Every dialect keeps an index from the name of an index of its table, and all
\* but MariaDB from those of all indexes and tables.
LEMMA OccupiedIs ==
  ASSUME NEW L, NEW t, NEW name, name \notin Occupied(L, t)
  PROVE  /\ dialect = "mariadb" => name \notin Names(TableOf(L, t).indexes)
         /\ dialect # "mariadb" => name \notin Names(L.tables) /\ \A u \in ToSet(L.tables) : name \notin Names(u.indexes)
<1>1. dialect = "mariadb" => name \notin Names(TableOf(L, t).indexes)
  BY DEF Occupied
<1>2. CASE dialect = "sqlite"
  BY <1>2 DEF Occupied
<1>3. CASE dialect \notin {"mariadb", "sqlite"}
  BY <1>3 DEF Occupied
<1> QED BY <1>1, <1>2, <1>3

LEMMA AcceptedRunnable ==
  ASSUME NEW new, DbTyped(new), NEW L, DbTyped(L), NEW st, MeantFor(new, st), Accepts(L, st)
  PROVE  Runnable(L, st)
<1>1. st.op \in {"dropColumn", "modifyColumn"} \/ AltersTable(st) => HasTable(L, st.on)
  BY AcceptsTable DEF AltersTable, OnColumn, HasColumns
<1>2. st.op \in {"setType", "setNotNull", "dropNotNull", "modifyColumn"} =>
        st.what.name \in Names(TableOf(L, st.on).cols)
  BY AcceptsTable, HasColumnIs DEF OnColumn
<1>3. st.op = "addColumn" => st.what.name \notin Names(TableOf(L, st.on).cols)
  BY AcceptsTable, HasColumnIs
<1>5. ASSUME st.op \in {"addColumn", "modifyColumn"} PROVE DOMAIN st.what = Fields
  <2>1. PICK t \in ToSet(new.tables) : \E c \in ToSet(t.cols) : st.what = RenderColumn(c, FALSE, new)
    BY <1>5 DEF MeantFor
  <2>2. PICK c \in ToSet(t.cols) : st.what = RenderColumn(c, FALSE, new)
    BY <2>1
  <2>3. DOMAIN c = Fields
    BY DEF DbTyped, TableTyped
  <2>4. DOMAIN st.what = DOMAIN c
    BY <2>2 DEF RenderColumn
  <2> QED BY <2>3, <2>4
<1>6. st.op = "createIndex" => ToSet(st.what.keys) \subseteq Names(TableOf(L, st.on).cols)
  BY AcceptsTable DEF HasColumns
<1>7. ASSUME st.op = "createTable"
      PROVE  /\ ~HasTable(L, st.on)
             /\ IsList(st.what.cols) /\ Distinct(st.what.cols)
             /\ \A c \in ToSet(st.what.cols) : DOMAIN c = Fields
  <2>1. PICK t \in ToSet(new.tables) : st = CreateTable(t, new)
    BY <1>7 DEF MeantFor
  <2>2. TableTyped(t) /\ st.what.cols = MadeColumns(t, new)
    BY <2>1, CreateTableIs DEF DbTyped
  <2>3. IsList(st.what.cols) /\ Distinct(st.what.cols) /\ \A c \in ToSet(st.what.cols) : DOMAIN c = Fields
    BY <2>2, MadeColumnsAre
  <2>4. ~HasTable(L, st.on)
    BY <1>7, AcceptsTable, OccupiedIs DEF HasTable
  <2> QED BY <2>3, <2>4
<1> QED BY <1>1, <1>2, <1>3, <1>5, <1>6, <1>7 DEF Runnable

-----------------------------------------------------------------------------
(* Where the indexes of a table come from. *)

\* Index i of w was index at[i] of v, or is what the statement adds: at[i] = 0.
Traced(at, v, w, st) ==
  /\ \A i \in DOMAIN w.indexes :
       \/ at[i] \in DOMAIN v.indexes /\ v.indexes[at[i]] = w.indexes[i]
       \/ v.name = st.on /\ Adds(st, w.indexes[i]) /\ at[i] = 0
  /\ \A i, j \in DOMAIN w.indexes : at[i] = at[j] => i = j

LEMMA TraceIndexes ==
  ASSUME NEW v, IsList(v.indexes), NEW w, NEW st, IndexesFrom(v, w, st)
  PROVE  \E at : Traced(at, v, w, st)
<1>1. CASE PartOf(w.indexes, v.indexes)
  <2>1. PICK at : Embeds(at, w.indexes, v.indexes)
    BY <1>1 DEF PartOf
  <2>2. Traced(at, v, w, st)
    BY <2>1 DEF Embeds, Traced
  <2> QED BY <2>2
<1>2. CASE v.name = st.on /\ \E x : Adds(st, x) /\ w.indexes = Append(v.indexes, x)
  <2>1. PICK x : Adds(st, x) /\ w.indexes = Append(v.indexes, x)
    BY <1>2
  <2> DEFINE s == v.indexes
             t == w.indexes
             n == Len(s)
             at == [i \in DOMAIN t |-> IF i = n + 1 THEN 0 ELSE i]
  <2>2. DOMAIN s = 1 .. n /\ n \in Nat /\ Len(s) = n
    BY ListIs
  <2>3. t = Append(s, x) /\ IsList(s)
    BY <2>1
  <2> HIDE DEF n
  <2>4. IsList(t) /\ Len(t) = n + 1 /\ (\A i \in 1 .. n : t[i] = s[i]) /\ t[n + 1] = x
    BY <2>2, <2>3, AppendList
  <2>5. DOMAIN t = 1 .. n + 1
    BY <2>4, ListIs
  <2>6. ASSUME NEW i \in DOMAIN t
        PROVE  (at[i] \in DOMAIN s /\ s[at[i]] = t[i]) \/ (v.name = st.on /\ Adds(st, t[i]) /\ at[i] = 0)
    <3>1. CASE i = n + 1
      <4>1. at[i] = 0
        BY <3>1
      <4>2. v.name = st.on /\ Adds(st, t[i])
        BY <1>2, <2>1, <2>4, <3>1
      <4> QED BY <4>1, <4>2
    <3>2. CASE i # n + 1
      <4>1. at[i] = i /\ i \in 1 .. n
        BY <2>2, <2>5, <3>2
      <4> HIDE DEF at
      <4> QED BY <2>2, <2>4, <4>1
    <3> QED BY <3>1, <3>2
  <2>7. ASSUME NEW i \in DOMAIN t, NEW j \in DOMAIN t, at[i] = at[j] PROVE i = j
    BY <2>2, <2>5, <2>7
  <2> HIDE DEF at
  <2>8. Traced(at, v, w, st)
    BY <2>6, <2>7 DEF Traced
  <2> QED BY <2>8
<1> QED BY <1>1, <1>2 DEF IndexesFrom

\* The name an index is given is free, or one of a second key.
FreshName(L, new, st) ==
  /\ st.op = "createIndex" =>
       \A v \in ToSet(L.tables) : \A i \in DOMAIN v.indexes :
         v.indexes[i].name = st.what.name => dialect = "mariadb" /\ v.name # st.on
  /\ st.op = "modifyColumn" /\ st.what.unique => Second(new, st.on, st.what.name \o "_2")

\* The table that a table of the database was, if it is not new.
LEMMA TableWas ==
  ASSUME NEW L, DbTyped(L), NEW M, NEW st, Stepped(L, M, st), st.op = "createTable" => NewTable(L, st).indexes = <<>>,
         NEW w \in ToSet(M.tables), NEW i \in DOMAIN w.indexes
  PROVE  \E v \in ToSet(L.tables) : Became(v, w, st) /\ w.name = v.name /\ IsList(v.indexes) /\ \E at : Traced(at, v, w, st)
<1>1. ~(st.op = "createTable" /\ w = NewTable(L, st))
  BY EmptyList
<1>2. PICK v \in ToSet(L.tables) : Became(v, w, st)
  BY <1>1 DEF Stepped
<1>3. IsList(v.indexes) /\ w.name = v.name /\ IndexesFrom(v, w, st)
  BY <1>2 DEF DbTyped, TableTyped, Became
<1>4. \E at : Traced(at, v, w, st)
  BY <1>3, TraceIndexes
<1> QED BY <1>2, <1>3, <1>4

\* Two places of one table, or of two.
LEMMA StillApart ==
  ASSUME NEW new, NEW L, DbTyped(L), IndexesApart(L, new), NEW st, FreshName(L, new, st),
         NEW v \in ToSet(L.tables), NEW w \in ToSet(L.tables),
         NEW v2, NEW w2, NEW at, NEW bt, Traced(at, v, v2, st), Traced(bt, w, w2, st),
         NEW i \in DOMAIN v2.indexes, NEW j \in DOMAIN w2.indexes,
         v2.indexes[i].name = w2.indexes[j].name, dialect = "mariadb" => v = w
  PROVE  (v = w /\ at[i] = bt[j]) \/ Second(new, v.name, v2.indexes[i].name)
<1> DEFINE x == v2.indexes[i]
           y == w2.indexes[j]
           OldX == at[i] \in DOMAIN v.indexes /\ v.indexes[at[i]] = x
           OldY == bt[j] \in DOMAIN w.indexes /\ w.indexes[bt[j]] = y
           NewX == v.name = st.on /\ Adds(st, x) /\ at[i] = 0
           NewY == w.name = st.on /\ Adds(st, y) /\ bt[j] = 0
<1>1. (OldX \/ NewX) /\ (OldY \/ NewY) /\ x.name = y.name
  BY DEF Traced
<1> HIDE DEF x, y
<1>2. CASE OldX /\ OldY
  <2>1. v.indexes[at[i]].name = w.indexes[bt[j]].name
    BY <1>1, <1>2
  <2> DEFINE p == at[i]
             q == bt[j]
  <2>2. p \in DOMAIN v.indexes /\ q \in DOMAIN w.indexes /\ v.indexes[p].name = w.indexes[q].name /\ v.indexes[p] = x
    BY <1>2, <2>1
  <2> HIDE DEF p, q
  <2>3. (v = w /\ p = q) \/ Second(new, v.name, v.indexes[p].name)
    BY <2>2 DEF IndexesApart
  <2> QED BY <2>2, <2>3 DEF p, q, x
<1>3. ASSUME NEW z, Adds(st, z), z.name = x.name, st.op = "modifyColumn",
             v.name = st.on \/ w.name = st.on
      PROVE  Second(new, v.name, x.name)
  <2>1. Second(new, st.on, x.name)
    BY <1>3 DEF Adds, FreshName
  <2> QED BY <1>3, <2>1 DEF Second
<1>4. CASE NewX /\ st.op = "modifyColumn"
  BY <1>3, <1>4 DEF x
<1>5. CASE NewY /\ st.op = "modifyColumn"
  BY <1>1, <1>3, <1>5 DEF x
<1>6. CASE OldX /\ NewY /\ st.op # "modifyColumn"
  <2>1. st.op = "createIndex" /\ y = st.what
    BY <1>6 DEF Adds
  <2>2. dialect = "mariadb" /\ v.name # st.on
    BY <1>1, <1>6, <2>1 DEF FreshName
  <2> QED BY <1>6, <2>2
<1>7. CASE NewX /\ OldY /\ st.op # "modifyColumn"
  <2>1. st.op = "createIndex" /\ x = st.what
    BY <1>7 DEF Adds
  <2>2. dialect = "mariadb" /\ w.name # st.on
    BY <1>1, <1>7, <2>1 DEF FreshName
  <2> QED BY <1>7, <2>2
<1>8. CASE NewX /\ NewY
  <2>1. v = w
    BY <1>8 DEF DbTyped, Distinct, ToSet
  <2> QED BY <1>8, <2>1
<1> QED BY <1>1, <1>2, <1>4, <1>5, <1>6, <1>7, <1>8

LEMMA ApartStep ==
  ASSUME NEW new, NEW L, DbTyped(L), IndexesApart(L, new), NEW st, FreshName(L, new, st),
         NEW M, Stepped(L, M, st), st.op = "createTable" => NewTable(L, st).indexes = <<>>
  PROVE  IndexesApart(M, new)
<1> SUFFICES ASSUME NEW v2 \in ToSet(M.tables), NEW w2 \in ToSet(M.tables),
                    NEW i \in DOMAIN v2.indexes, NEW j \in DOMAIN w2.indexes,
                    v2.indexes[i].name = w2.indexes[j].name, dialect = "mariadb" => v2 = w2
             PROVE  (v2 = w2 /\ i = j) \/ Second(new, v2.name, v2.indexes[i].name)
  BY DEF IndexesApart
<1>1. PICK v \in ToSet(L.tables) : Became(v, v2, st) /\ v2.name = v.name /\ \E at : Traced(at, v, v2, st)
  BY TableWas
<1>2. PICK at : Traced(at, v, v2, st)
  BY <1>1
<1>3. CASE v2 = w2
  <2>1. j \in DOMAIN v2.indexes /\ v2.indexes[i].name = v2.indexes[j].name
    BY <1>3
  <2>2. (v = v /\ at[i] = at[j]) \/ Second(new, v.name, v2.indexes[i].name)
    BY <1>2, <2>1, StillApart
  <2> QED BY <1>1, <1>2, <1>3, <2>1, <2>2 DEF Traced
<1>4. CASE v2 # w2
  <2>1. PICK w \in ToSet(L.tables) : Became(w, w2, st) /\ w2.name = w.name /\ \E bt : Traced(bt, w, w2, st)
    BY TableWas
  <2>2. PICK bt : Traced(bt, w, w2, st)
    BY <2>1
  <2>3. dialect # "mariadb"
    BY <1>4
  <2>4. (v = w /\ at[i] = bt[j]) \/ Second(new, v.name, v2.indexes[i].name)
    BY <1>2, <2>2, <2>3, StillApart
  <2>5. v2.name # w2.name
    BY <1>4 DEF Stepped, DbTyped, Distinct, ToSet
  <2> QED BY <1>1, <2>1, <2>4, <2>5
<1> QED BY <1>3, <1>4

\* A statement the database accepts gives an index no name that is taken.
LEMMA AcceptedFresh ==
  ASSUME NEW new, DbTyped(new), NEW L, DbTyped(L), NEW st, MeantFor(new, st), Accepts(L, st)
  PROVE  FreshName(L, new, st)
<1>1. ASSUME st.op = "createIndex", NEW v \in ToSet(L.tables), NEW i \in DOMAIN v.indexes,
             v.indexes[i].name = st.what.name
      PROVE  dialect = "mariadb" /\ v.name # st.on
  <2>1. st.what.name \notin Occupied(L, st.on) /\ HasTable(L, st.on)
    BY <1>1, AcceptsTable DEF HasColumns
  <2>2. st.what.name \in Names(v.indexes)
    BY <1>1 DEF Names
  <2>3. dialect = "mariadb"
    BY <2>1, <2>2, OccupiedIs
  <2>4. v # TableOf(L, st.on)
    BY <2>1, <2>2, <2>3, OccupiedIs
  <2>5. TableOf(L, st.on) \in ToSet(L.tables) /\ TableOf(L, st.on).name = st.on
    BY <2>1, TableOfIs
  <2>6. v.name # st.on
    BY <2>4, <2>5 DEF DbTyped, Distinct, ToSet
  <2> QED BY <2>3, <2>6
<1>2. ASSUME st.op = "modifyColumn", st.what.unique PROVE Second(new, st.on, st.what.name \o "_2")
  <2>1. dialect = "mariadb" /\ \E t \in ToSet(new.tables) :
          t.name = st.on /\ \E c \in ToSet(t.cols) : st.what = RenderColumn(c, FALSE, new)
    BY <1>2 DEF MeantFor
  <2>2. PICK t \in ToSet(new.tables) : t.name = st.on /\ \E c \in ToSet(t.cols) : st.what = RenderColumn(c, FALSE, new)
    BY <2>1
  <2>3. PICK c \in ToSet(t.cols) : st.what = RenderColumn(c, FALSE, new)
    BY <2>2
  <2>4. DOMAIN c = Fields
    BY DEF DbTyped, TableTyped
  <2>5. st.what.name = c.name /\ (st.what.unique => c.unique)
    BY <2>3, <2>4 DEF RenderColumn, Fields
  <2>6. st.what.name \o "_2" \in SecondKeys(t)
    BY <1>2, <2>5 DEF SecondKeys, ToSet
  <2> QED BY <2>1, <2>2, <2>6 DEF Second
<1> QED BY <1>1, <1>2 DEF FreshName

-----------------------------------------------------------------------------
(* What stays. *)

\* A table that is there before and after a statement.
LEMMA TableBecame ==
  ASSUME NEW L, DbTyped(L), NEW st, Runnable(L, st), NEW M, Stepped(L, M, st),
         st.op = "createTable" => NewTable(L, st).name = st.on,
         NEW n, HasTable(L, n), HasTable(M, n)
  PROVE  Became(TableOf(L, n), TableOf(M, n), st)
<1> DEFINE v == TableOf(L, n)
           w == TableOf(M, n)
<1>1. v \in ToSet(L.tables) /\ v.name = n
  BY TableOfIs
<1>2. w \in ToSet(M.tables) /\ w.name = n
  BY TableOfIs DEF Stepped
<1> HIDE DEF v, w
<1>3. ~(st.op = "createTable" /\ w = NewTable(L, st))
  BY <1>2 DEF Runnable
<1>4. PICK u \in ToSet(L.tables) : Became(u, w, st)
  BY <1>2, <1>3 DEF Stepped
<1>5. u = v
  BY <1>1, <1>2, <1>4 DEF Became, DbTyped, Distinct, ToSet
<1> QED BY <1>4, <1>5 DEF v, w

\* A table of the target is not dropped.
LEMMA TargetStays ==
  ASSUME NEW new, NEW L, DbTyped(L), NEW st, MeantFor(new, st), NEW M, Stepped(L, M, st),
         NEW n \in Names(new.tables), HasTable(L, n)
  PROVE  HasTable(M, n)
<1>1. TableOf(L, n) \in ToSet(L.tables) /\ TableOf(L, n).name = n
  BY TableOfIs
<1> QED BY <1>1 DEF Stepped, MeantFor

LEMMA NotSecond ==
  ASSUME NEW new, DbTyped(new), dialect = "mariadb" => SecondKeysFree(new),
         NEW t \in ToSet(new.tables), NEW x \in ToSet(t.indexes)
  PROVE  ~Second(new, t.name, x.name)
<1> SUFFICES ASSUME Second(new, t.name, x.name) PROVE FALSE
  OBVIOUS
<1>1. PICK u \in ToSet(new.tables) : u.name = t.name /\ x.name \in SecondKeys(u)
  BY DEF Second
<1>2. u = t
  BY <1>1 DEF DbTyped, Distinct, ToSet
<1>3. x.name \in Names(t.indexes)
  BY DEF Names, ToSet
<1> QED BY <1>1, <1>2, <1>3 DEF Second, SecondKeysFree

\* A DROP INDEX of the rest of the script stays meant.
LEMMA DropStays ==
  ASSUME NEW new, DbTyped(new), dialect = "mariadb" => SecondKeysFree(new),
         NEW L, DbTyped(L), NEW st, MeantFor(new, st), Runnable(L, st), FreshName(L, new, st),
         NEW M, Stepped(L, M, st), st.op = "createTable" => NewTable(L, st).name = st.on,
         NEW b, MeantFor(new, b), DropMeant(L, new, b), Follows(new, st, b)
  PROVE  DropMeant(M, new, b)
<1> SUFFICES ASSUME b.op = "dropIndex"
             PROVE  /\ HasTable(M, b.on)
                    /\ b.what \in Names(TableOf(M, b.on).indexes) \/ Second(new, b.on, b.what)
                    /\ \A t \in ToSet(new.tables) : t.name = b.on =>
                         \A x \in ToSet(t.indexes) : x.name = b.what => x \notin ToSet(TableOf(M, b.on).indexes)
  BY DEF DropMeant
<1> DEFINE v == TableOf(L, b.on)
           w == TableOf(M, b.on)
<1>1. /\ HasTable(L, b.on)
      /\ b.what \in Names(v.indexes) \/ Second(new, b.on, b.what)
      /\ \A t \in ToSet(new.tables) : t.name = b.on =>
           \A x \in ToSet(t.indexes) : x.name = b.what => x \notin ToSet(v.indexes)
  BY DEF DropMeant
<1>2. b.on \in Names(new.tables)
  BY DEF MeantFor, Names, ToSet
<1>3. HasTable(M, b.on)
  BY <1>1, <1>2, TargetStays
<1>4. Became(v, w, st) /\ v \in ToSet(L.tables) /\ v.name = b.on /\ IsList(v.indexes)
  BY <1>1, <1>3, TableBecame, TableOfIs DEF TableTyped
<1> HIDE DEF v, w
<1>5. ASSUME b.what \in Names(v.indexes) PROVE b.what \in Names(w.indexes) \/ Second(new, b.on, b.what)
  <2>1. PICK x \in ToSet(v.indexes) : x.name = b.what
    BY <1>5 DEF Names, ToSet
  <2>2. \/ x \in ToSet(w.indexes)
        \/ st.op = "dropColumn" /\ st.on = v.name
        \/ st.op = "dropIndex" /\ (dialect = "mariadb" => st.on = v.name) /\ st.what = x.name
    BY <1>4 DEF Became, IndexesKept
  <2>3. CASE x \in ToSet(w.indexes)
    BY <2>1, <2>3 DEF Names, ToSet
  <2>4. CASE st.op = "dropColumn" /\ st.on = v.name
    BY <1>4, <2>4 DEF Follows
  <2>5. CASE st.op = "dropIndex" /\ (dialect = "mariadb" => st.on = v.name) /\ st.what = x.name
    <3>1. dialect = "mariadb" /\ (st.on # b.on \/ Second(new, st.on, st.what))
      BY <2>1, <2>5 DEF Follows
    <3>2. st.on = b.on /\ st.what = b.what
      BY <1>4, <2>1, <2>5, <3>1
    <3> QED BY <3>1, <3>2
  <2> QED BY <2>2, <2>3, <2>4, <2>5
<1>6. ASSUME NEW t \in ToSet(new.tables), t.name = b.on, NEW x \in ToSet(t.indexes), x.name = b.what,
             x \in ToSet(w.indexes)
      PROVE  FALSE
  <2>1. ~Second(new, b.on, x.name)
    BY <1>6, NotSecond
  <2>2. b.what \in Names(v.indexes) /\ x \notin ToSet(v.indexes)
    BY <1>1, <1>6, <2>1
  <2>3. CASE PartOf(w.indexes, v.indexes)
    BY <1>6, <2>2, <2>3 DEF PartOf, Embeds, ToSet
  <2>4. CASE v.name = st.on /\ \E y : Adds(st, y) /\ w.indexes = Append(v.indexes, y)
    <3>1. PICK y : Adds(st, y) /\ w.indexes = Append(v.indexes, y)
      BY <2>4
    <3>2. ToSet(w.indexes) = ToSet(v.indexes) \cup {y}
      BY <1>4, <3>1, AppendElements
    <3>3. y = x
      BY <1>6, <2>2, <3>2
    <3>4. CASE st.op = "createIndex" /\ x = st.what
      <4>1. PICK i \in DOMAIN v.indexes : v.indexes[i].name = b.what
        BY <2>2 DEF Names
      <4> QED BY <1>4, <1>6, <2>4, <3>4, <4>1 DEF FreshName
    <3>5. CASE st.op = "modifyColumn" /\ st.what.unique /\ x.name = st.what.name \o "_2"
      BY <1>4, <2>1, <2>4, <3>5 DEF FreshName
    <3> QED BY <3>1, <3>3, <3>4, <3>5 DEF Adds
  <2> QED BY <1>4, <2>3, <2>4 DEF Became, IndexesFrom
<1> QED BY <1>1, <1>3, <1>5, <1>6 DEF w

\* A statement of the script takes away nothing that both sides have.
LEMMA SharedStays ==
  ASSUME NEW new, DbTyped(new), dialect = "mariadb" => SecondKeysFree(new),
         NEW L, DbTyped(L), IndexesApart(L, new), NEW st, MeantFor(new, st), Runnable(L, st),
         NEW M, Stepped(L, M, st), st.op = "createTable" => NewTable(L, st).name = st.on,
         DropMeant(L, new, st), NEW u \in ToSet(new.tables), HasTable(L, u.name)
  PROVE  /\ HasTable(M, u.name)
         /\ Names(u.cols) \cap Names(TableOf(L, u.name).cols) \subseteq Names(TableOf(M, u.name).cols)
         /\ ToSet(u.indexes) \cap ToSet(TableOf(L, u.name).indexes) \subseteq ToSet(TableOf(M, u.name).indexes)
<1> DEFINE v == TableOf(L, u.name)
           w == TableOf(M, u.name)
<1>1. HasTable(M, u.name)
  BY TargetStays DEF Names, ToSet
<1>2. Became(v, w, st) /\ v \in ToSet(L.tables) /\ v.name = u.name
  BY <1>1, TableBecame, TableOfIs
<1> HIDE DEF v, w
<1>3. st.op = "dropColumn" /\ st.on = v.name => st.what \notin Names(u.cols)
  BY <1>2 DEF MeantFor
<1>4. ASSUME NEW n \in Names(u.cols), n \in Names(v.cols) PROVE n \in Names(w.cols)
  BY <1>2, <1>3, <1>4 DEF Became, ColumnsKept
<1>5. ASSUME NEW x \in ToSet(u.indexes), x \in ToSet(v.indexes), x \notin ToSet(w.indexes) PROVE FALSE
  <2>1. \/ st.op = "dropColumn" /\ st.on = v.name /\ st.what \in ToSet(x.keys)
        \/ st.op = "dropIndex" /\ (dialect = "mariadb" => st.on = v.name) /\ st.what = x.name
    BY <1>2, <1>5 DEF Became, IndexesKept
  <2>2. CASE st.op = "dropColumn" /\ st.on = v.name /\ st.what \in ToSet(x.keys)
    <3>1. ToSet(x.keys) \subseteq Names(u.cols)
      BY DEF DbTyped, TableTyped
    <3> QED BY <1>3, <2>2, <3>1
  <2>3. CASE st.op = "dropIndex" /\ (dialect = "mariadb" => st.on = v.name) /\ st.what = x.name
    <3> DEFINE z == TableOf(L, st.on)
    <3>1. z \in ToSet(L.tables) /\ z.name = st.on
      BY <2>3, TableOfIs DEF DropMeant
    <3>2. st.what \in Names(z.indexes) \/ Second(new, st.on, st.what)
      BY <2>3 DEF DropMeant
    <3>3. \A t \in ToSet(new.tables) : t.name = st.on =>
            \A y \in ToSet(t.indexes) : y.name = st.what => y \notin ToSet(z.indexes)
      BY <2>3 DEF DropMeant
    <3> HIDE DEF z
    <3>4. ~Second(new, u.name, x.name)
      BY NotSecond
    <3>5. CASE dialect = "mariadb"
      <4>1. z = v
        BY <1>2, <2>3, <3>1, <3>5 DEF DbTyped, Distinct, ToSet
      <4> QED BY <1>2, <1>5, <2>3, <3>1, <3>3, <4>1
    <3>6. CASE dialect # "mariadb"
      <4>1. st.what \in Names(z.indexes)
        BY <3>2, <3>6 DEF Second
      <4>2. PICK i \in DOMAIN z.indexes : z.indexes[i].name = x.name
        BY <2>3, <4>1 DEF Names
      <4>3. PICK j \in DOMAIN v.indexes : v.indexes[j] = x
        BY <1>5 DEF ToSet
      <4>4. (z = v /\ i = j) \/ Second(new, z.name, z.indexes[i].name)
        BY <1>2, <3>1, <3>6, <4>2, <4>3 DEF IndexesApart
      <4>5. z = v
        BY <3>6, <4>4 DEF Second
      <4> QED BY <1>2, <1>5, <2>3, <3>1, <3>3, <4>5
    <3> QED BY <3>5, <3>6
  <2> QED BY <2>1, <2>2, <2>3
<1> QED BY <1>1, <1>4, <1>5 DEF v, w

-----------------------------------------------------------------------------
(* What a statement makes. *)

Made(M, st) ==
  /\ st.op = "addColumn" => HasTable(M, st.on) /\ st.what.name \in Names(TableOf(M, st.on).cols)
  /\ st.op = "createTable" => HasTable(M, st.on) /\ Names(TableOf(M, st.on).cols) = Names(st.what.cols)
  /\ st.op = "createIndex" => HasTable(M, st.on) /\ st.what \in ToSet(TableOf(M, st.on).indexes)

LEMMA AppliedMade ==
  ASSUME NEW L, DbTyped(L), NEW st, Runnable(L, st)
  PROVE  Made(Apply(L, st), st)
<1> DEFINE M == Apply(L, st)
<1>1. ASSUME st.op = "addColumn" PROVE HasTable(M, st.on) /\ st.what.name \in Names(TableOf(M, st.on).cols)
  <2> DEFINE v == TableOf(L, st.on)
             c == Stored(st.what)
             w == [v EXCEPT !.cols = Append(@, c)]
  <2>1. M = SetTable(L, st.on, w)
    BY <1>1, ApplyTable
  <2>2. HasTable(L, st.on) /\ DOMAIN st.what = Fields
    BY <1>1 DEF Runnable, AltersTable
  <2>3. TableTyped(v) /\ v.name = st.on
    BY <2>2, TableOfIs
  <2>4. c.name = st.what.name
    BY <2>2, StoredIs
  <2> HIDE DEF v, c, M
  <2>5. w.name = st.on /\ w.cols = Append(v.cols, c) /\ IsList(v.cols)
    BY <2>3 DEF TableTyped
  <2> HIDE DEF w
  <2>6. TableSet(M, L, w)
    BY <2>1, <2>2, <2>5, SetTableIs
  <2>7. w \in ToSet(M.tables) /\ Distinct(M.tables)
    BY <2>6 DEF TableSet
  <2>8. HasTable(M, st.on) /\ TableOf(M, st.on) = w
    BY <2>5, <2>7, NamedIs DEF HasTable, TableOf, Names, ToSet
  <2>9. Names(w.cols) = Names(v.cols) \cup {c.name}
    BY <2>5, AppendNames
  <2> QED BY <2>4, <2>8, <2>9
<1>2. ASSUME st.op = "createTable" PROVE HasTable(M, st.on) /\ Names(TableOf(M, st.on).cols) = Names(st.what.cols)
  <2> DEFINE w == NewTable(L, st)
             fks == L.fks \o SetToSeq(st.what.fks)
  <2>1. M = [L EXCEPT !.tables = Append(@, w), !.fks = fks]
    BY <1>2, ApplyOther
  <2>2. Stepped(L, M, st) /\ w.name = st.on /\ Names(w.cols) = Names(st.what.cols)
    BY <1>2, CreateTableStep
  <2> HIDE DEF M, w, fks
  <2>3. M.tables = Append(L.tables, w) /\ IsList(L.tables)
    BY <2>1 DEF DbTyped
  <2>4. ToSet(M.tables) = ToSet(L.tables) \cup {w}
    BY <2>3, AppendElements
  <2>5. HasTable(M, st.on) /\ TableOf(M, st.on) = w
    BY <2>2, <2>4, NamedIs DEF HasTable, TableOf, Names, ToSet, Stepped, DbTyped
  <2> QED BY <2>2, <2>5
<1>3. ASSUME st.op = "createIndex" PROVE HasTable(M, st.on) /\ st.what \in ToSet(TableOf(M, st.on).indexes)
  <2> DEFINE v == TableOf(L, st.on)
             w == [v EXCEPT !.indexes = Append(@, st.what)]
  <2>1. M = SetTable(L, st.on, w)
    BY <1>3, ApplyTable
  <2>2. HasTable(L, st.on)
    BY <1>3 DEF Runnable, AltersTable
  <2>3. TableTyped(v) /\ v.name = st.on
    BY <2>2, TableOfIs
  <2> HIDE DEF v, M
  <2>4. w.name = st.on /\ w.indexes = Append(v.indexes, st.what) /\ IsList(v.indexes)
    BY <2>3 DEF TableTyped
  <2> HIDE DEF w
  <2>5. TableSet(M, L, w)
    BY <2>1, <2>2, <2>4, SetTableIs
  <2>6. w \in ToSet(M.tables) /\ Distinct(M.tables)
    BY <2>5 DEF TableSet
  <2>7. HasTable(M, st.on) /\ TableOf(M, st.on) = w
    BY <2>4, <2>6, NamedIs DEF HasTable, TableOf, Names, ToSet
  <2>8. ToSet(w.indexes) = ToSet(v.indexes) \cup {st.what}
    BY <2>4, AppendElements
  <2> QED BY <2>7, <2>8
<1> QED BY <1>1, <1>2, <1>3 DEF Made

-----------------------------------------------------------------------------
(* The database that a schema declares. *)

\* A statement that creates something in db.
Creates(db, st) ==
  \/ \E t \in ToSet(db.tables) : st = CreateTable(t, db) \/ Indexing(t, st)
  \/ st.op \in {"createEnum", "addFk"}

\* What does not come before what when tables are created.
NotTwice(a, b) ==
  /\ b.op = "createTable" /\ a.op \in {"createTable", "createIndex"} => a.on # b.on
  /\ a.op = "createIndex" /\ b.op = "createIndex" /\ a.what.name = b.what.name =>
       dialect = "mariadb" /\ a.on # b.on

CreationPart(db, s) ==
  /\ IsList(s) /\ \A st \in ToSet(s) : Creates(db, st)
  /\ \A p, q \in DOMAIN s : p < q => NotTwice(s[p], s[q])

LEMMA CreatesIs ==
  ASSUME NEW db, DbTyped(db), NEW st, Creates(db, st)
  PROVE  /\ st.op \in {"createTable", "createIndex", "createEnum", "addFk"}
         /\ st.op = "createTable" =>
              \E t \in ToSet(db.tables) :
                st.on = t.name /\ IsList(st.what.cols) /\ Distinct(st.what.cols)
                /\ Names(st.what.cols) = Names(t.cols) /\ \A c \in ToSet(st.what.cols) : DOMAIN c = Fields
         /\ st.op = "createIndex" => \E t \in ToSet(db.tables) : Indexing(t, st)
<1>1. CASE \E t \in ToSet(db.tables) : st = CreateTable(t, db)
  <2>1. PICK t \in ToSet(db.tables) : st = CreateTable(t, db)
    BY <1>1
  <2>2. st.op = "createTable" /\ st.on = t.name /\ st.what.cols = MadeColumns(t, db) /\ TableTyped(t)
    BY <2>1, CreateTableIs DEF DbTyped
  <2>3. IsList(st.what.cols) /\ Distinct(st.what.cols)
        /\ Names(st.what.cols) = Names(t.cols) /\ \A c \in ToSet(st.what.cols) : DOMAIN c = Fields
    BY <2>2, MadeColumnsAre
  <2> QED BY <2>2, <2>3
<1>2. CASE \E t \in ToSet(db.tables) : Indexing(t, st)
  BY <1>2 DEF Indexing
<1>3. CASE st.op \in {"createEnum", "addFk"}
  BY <1>3
<1> QED BY <1>1, <1>2, <1>3 DEF Creates

NoneTwice(a, b) == \A x \in ToSet(a), y \in ToSet(b) : NotTwice(x, y)

LEMMA JoinCreation ==
  ASSUME NEW db, NEW a, CreationPart(db, a), NEW b, CreationPart(db, b),
         NoneTwice(a, b), NEW u, u = a \o b
  PROVE  CreationPart(db, u)
<1>1. IsList(a) /\ IsList(b)
  BY DEF CreationPart
<1>2. IsList(u) /\ ToSet(u) = ToSet(a) \cup ToSet(b)
  BY <1>1, ConcatElements
<1>3. \A st \in ToSet(u) : Creates(db, st)
  BY <1>2 DEF CreationPart
<1>4. ASSUME NEW p \in DOMAIN u, NEW q \in DOMAIN u, p < q PROVE NotTwice(u[p], u[q])
  <2>1. ComesFirst(a, u[p], u[q]) \/ ComesFirst(b, u[p], u[q]) \/ (u[p] \in ToSet(a) /\ u[q] \in ToSet(b))
    BY <1>1, <1>4, ConcatOrder
  <2>2. CASE ComesFirst(a, u[p], u[q])
    BY <2>2 DEF ComesFirst, CreationPart
  <2>3. CASE ComesFirst(b, u[p], u[q])
    BY <2>3 DEF ComesFirst, CreationPart
  <2>4. CASE u[p] \in ToSet(a) /\ u[q] \in ToSet(b)
    BY <2>4 DEF NoneTwice
  <2> QED BY <2>1, <2>2, <2>3, <2>4
<1> QED BY <1>2, <1>3, <1>4 DEF CreationPart

\* Statements that create no table and no index.
LEMMA QuietCreation ==
  ASSUME NEW db, NEW s, IsList(s), \A st \in ToSet(s) : st.op \in {"createEnum", "addFk"}
  PROVE  CreationPart(db, s)
BY DEF CreationPart, Creates, NotTwice, ToSet

\* A table with its indexes.
LEMMA MakingPart ==
  ASSUME NEW db, NEW t \in ToSet(db.tables), TableTyped(t), Distinct(t.indexes)
  PROVE  /\ CreationPart(db, Making(t, db))
         /\ MadeBy(db, t, ToSet(Making(t, db)))
         /\ \A st \in ToSet(Making(t, db)) : (st.op = "createTable" /\ st.on = t.name) \/ Indexing(t, st)
<1> DEFINE first == CreateTable(t, db)
           one == <<first>>
           rest == CreateIndexes(t)
           f == Making(t, db)
<1>1. f = one \o rest
  BY DEF Making
<1>2. first.op = "createTable" /\ first.on = t.name /\ Creates(db, first)
  BY CreateTableIs DEF Creates
<1>10. first = CreateTable(t, db)
  OBVIOUS
<1> HIDE DEF first
<1>3. IsList(one) /\ ToSet(one) = {first} /\ DOMAIN one = {1}
  BY OneList DEF ToSet
<1>4. CreationPart(db, one)
  BY <1>2, <1>3 DEF CreationPart
<1>5. /\ IsList(rest) /\ DOMAIN rest = DOMAIN t.indexes
      /\ \A i \in DOMAIN t.indexes : Indexing(t, rest[i]) /\ rest[i].what = t.indexes[i]
      /\ \A st \in ToSet(rest) : Indexing(t, st)
  BY CreateIndexesAre DEF TableTyped
<1>11. \A i \in DOMAIN t.indexes : rest[i] = Stmt("createIndex", t.name, t.indexes[i])
  BY DEF CreateIndexes
<1> HIDE DEF one, rest, f
<1>6. CreationPart(db, rest)
  <2>1. \A st \in ToSet(rest) : Creates(db, st)
    BY <1>5 DEF Creates
  <2>2. ASSUME NEW p \in DOMAIN rest, NEW q \in DOMAIN rest, p < q PROVE NotTwice(rest[p], rest[q])
    <3>1. rest[p].what.name # rest[q].what.name
      <4>1. DOMAIN rest \subseteq Nat
        BY <1>5, ListIs
      <4>2. p # q
        BY <2>2, <4>1
      <4> QED BY <1>5, <4>2 DEF Distinct
    <3>2. rest[q].op = "createIndex"
      BY <1>5 DEF Indexing
    <3> QED BY <3>1, <3>2 DEF NotTwice
  <2> QED BY <1>5, <2>1, <2>2 DEF CreationPart
<1>7. NoneTwice(one, rest)
  BY <1>2, <1>3, <1>5 DEF NoneTwice, NotTwice, Indexing
<1>8. CreationPart(db, f)
  BY <1>1, <1>4, <1>6, <1>7, JoinCreation
<1>9. ToSet(f) = ToSet(one) \cup ToSet(rest)
  BY <1>1, <1>3, <1>5, ConcatElements
<1>12. ASSUME NEW x \in ToSet(t.indexes) PROVE Stmt("createIndex", t.name, x) \in ToSet(f)
  <2>1. PICK i \in DOMAIN t.indexes : x = t.indexes[i]
    BY DEF ToSet
  <2>2. rest[i] \in ToSet(rest)
    BY <1>5, <2>1 DEF ToSet
  <2> QED BY <1>9, <1>11, <2>1, <2>2
<1>13. MadeBy(db, t, ToSet(f))
  BY <1>3, <1>9, <1>10, <1>12 DEF MadeBy
<1>14. \A st \in ToSet(f) : (st.op = "createTable" /\ st.on = t.name) \/ Indexing(t, st)
  BY <1>2, <1>3, <1>5, <1>9
<1> QED BY <1>8, <1>13, <1>14 DEF f

\* Creations of two tables.
LEMMA NotTwiceOfTwo ==
  ASSUME NEW db, Declared(dialect, db), NEW t \in ToSet(db.tables), NEW u \in ToSet(db.tables), t.name # u.name,
         NEW a, (a.op = "createTable" /\ a.on = t.name) \/ Indexing(t, a),
         NEW b, (b.op = "createTable" /\ b.on = u.name) \/ Indexing(u, b)
  PROVE  NotTwice(a, b)
<1>1. a.on = t.name /\ b.on = u.name
  BY DEF Indexing
<1>2. ASSUME a.op = "createIndex", b.op = "createIndex", a.what.name = b.what.name PROVE dialect = "mariadb"
  <2>1. a.what.name \in Names(t.indexes) /\ b.what.name \in Names(u.indexes)
    BY <1>2 DEF Indexing, Names, ToSet
  <2>2. a.what.name \in TakenNames(dialect, t) /\ a.what.name \in TakenNames(dialect, u)
    BY <1>2, <2>1 DEF TakenNames
  <2>3. NamesApart(dialect, db)
    BY DEF Declared
  <2> QED BY <2>2, <2>3 DEF NamesApart
<1> QED BY <1>1, <1>2 DEF NotTwice

LEMMA NewTablesPart ==
  ASSUME NEW db, Declared(dialect, db), DbTyped(db)
  PROVE  /\ CreationPart(db, NewTables(Empty, db))
         /\ \A t \in ToSet(db.tables) : MadeBy(db, t, ToSet(NewTables(Empty, db)))
         /\ \A st \in ToSet(NewTables(Empty, db)) : st.op \in {"createTable", "createIndex"}
<1> DEFINE t(i) == db.tables[i]
           ss == [i \in DOMAIN db.tables |-> Making(t(i), db)]
           f == NewTables(Empty, db)
<1>1. f = FlattenSeq(ss)
  <2>1. \A n : ~HasTable(Empty, n)
    BY EmptyList DEF HasTable, Empty, Names
  <2> QED BY <2>1 DEF NewTables, Each, Making
<1>2. IsList(db.tables) /\ DOMAIN ss = DOMAIN db.tables /\ ss = [i \in DOMAIN db.tables |-> ss[i]]
  BY DEF DbTyped
<1>3. ASSUME NEW i \in DOMAIN db.tables
      PROVE  /\ CreationPart(db, ss[i]) /\ MadeBy(db, t(i), ToSet(ss[i]))
             /\ \A st \in ToSet(ss[i]) : (st.op = "createTable" /\ st.on = t(i).name) \/ Indexing(t(i), st)
  <2>1. t(i) \in ToSet(db.tables) /\ TableTyped(t(i))
    BY TablesTyped
  <2>2. Distinct(t(i).indexes)
    BY <2>1 DEF Declared, NamesApart
  <2> QED BY <2>1, <2>2, MakingPart
<1> HIDE DEF ss, f
<1>4. \A i \in DOMAIN db.tables : IsList(ss[i])
  BY <1>3 DEF CreationPart
<1>5. /\ IsList(f) /\ IsListOfLists(ss)
      /\ \A y \in ToSet(f) : \E i \in DOMAIN db.tables : y \in ToSet(ss[i])
      /\ \A i \in DOMAIN db.tables : ToSet(ss[i]) \subseteq ToSet(f)
  <2> DEFINE s == db.tables
  <2>1. IsList(s) /\ ss = [i \in DOMAIN s |-> ss[i]] /\ \A i \in DOMAIN s : IsList(ss[i])
    BY <1>2, <1>4
  <2> HIDE DEF s
  <2>2. /\ IsList(f) /\ IsListOfLists(ss)
        /\ \A y \in ToSet(f) : \E i \in DOMAIN s : y \in ToSet(ss[i])
        /\ \A i \in DOMAIN s : ToSet(ss[i]) \subseteq ToSet(f)
    BY <1>1, <2>1, EachIs
  <2> QED BY <2>2 DEF s
<1>6. \A st \in ToSet(f) : Creates(db, st)
  BY <1>3, <1>5 DEF CreationPart
<1>7. ASSUME NEW p \in DOMAIN f, NEW q \in DOMAIN f, p < q PROVE NotTwice(f[p], f[q])
  <2>1. \E i, k, j, l : ArePlaces(ss, p, q, i, k, j, l)
    BY <1>1, <1>5, <1>7, FlattenOrder
  <2>2. PICK i, k, j, l : ArePlaces(ss, p, q, i, k, j, l)
    BY <2>1
  <2>3. /\ i \in DOMAIN db.tables /\ k \in DOMAIN ss[i] /\ f[p] = ss[i][k]
        /\ j \in DOMAIN db.tables /\ l \in DOMAIN ss[j] /\ f[q] = ss[j][l]
        /\ i < j \/ (i = j /\ k < l)
        /\ i \in Nat /\ j \in Nat
    BY <1>1, <1>2, <2>2 DEF ArePlaces
  <2>4. CASE i < j
    <3>1. t(i).name # t(j).name /\ t(i) \in ToSet(db.tables) /\ t(j) \in ToSet(db.tables)
      BY <2>3, <2>4 DEF DbTyped, Distinct, ToSet
    <3>2. /\ (f[p].op = "createTable" /\ f[p].on = t(i).name) \/ Indexing(t(i), f[p])
          /\ (f[q].op = "createTable" /\ f[q].on = t(j).name) \/ Indexing(t(j), f[q])
      BY <1>3, <2>3 DEF ToSet
    <3> HIDE DEF t
    <3> QED BY <3>1, <3>2, NotTwiceOfTwo
  <2>5. CASE i = j /\ k < l
    BY <1>3, <2>3, <2>5 DEF CreationPart
  <2> QED BY <2>3, <2>4, <2>5
<1>8. ASSUME NEW u \in ToSet(db.tables) PROVE MadeBy(db, u, ToSet(f))
  <2>1. PICK i \in DOMAIN db.tables : u = t(i)
    BY DEF ToSet
  <2>2. MadeBy(db, u, ToSet(ss[i])) /\ ToSet(ss[i]) \subseteq ToSet(f)
    BY <1>3, <1>5, <2>1
  <2> QED BY <2>2 DEF MadeBy
<1>9. \A st \in ToSet(f) : st.op \in {"createTable", "createIndex"}
  BY <1>3, <1>5 DEF Indexing
<1> QED BY <1>5, <1>6, <1>7, <1>8, <1>9 DEF CreationPart, f

LEMMA CreationIs ==
  ASSUME NEW db, Declared(dialect, db), DbTyped(db), IsList(db.fks)
  PROVE  /\ CreationPart(db, Creation(db))
         /\ \A t \in ToSet(db.tables) : MadeBy(db, t, ToSet(Creation(db)))
         /\ dialect # "postgres" => \A st \in ToSet(Creation(db)) : st.op # "createEnum"
<1> DEFINE a == NewEnums(Empty, db)
           b == NewTables(Empty, db)
           ss == [i \in DOMAIN db.fks |-> <<Stmt("addFk", db.fks[i].child, db.fks[i])>>]
           fks == FlattenSeq(ss)
           c == IF dialect = "sqlite" THEN <<>> ELSE fks
           ab == a \o b
           abc == ab \o c
<1>1. Creation(db) = abc
  BY DEF Creation, Each
<1>2. IsList(a) /\ \A st \in ToSet(a) : st.op = "createEnum"
  BY NewEnumsAre DEF DbTyped, StatementsFor
<1>13. dialect # "postgres" => ToSet(a) = {}
  <2>1. \A st \in ToSet(a) : MeantFor(db, st)
    BY NewEnumsAre DEF DbTyped, StatementsFor
  <2> QED BY <1>2, <2>1 DEF MeantFor, OpsOf
<1>3. /\ CreationPart(db, b) /\ \A t \in ToSet(db.tables) : MadeBy(db, t, ToSet(b))
      /\ \A st \in ToSet(b) : st.op \in {"createTable", "createIndex"}
  BY NewTablesPart
<1>4. IsList(c) /\ \A st \in ToSet(c) : st.op = "addFk"
  <2>1. \A i \in DOMAIN db.fks : IsList(ss[i]) /\ \A st \in ToSet(ss[i]) : st.op = "addFk"
    <3> TAKE i \in DOMAIN db.fks
    <3> DEFINE y == Stmt("addFk", db.fks[i].child, db.fks[i])
    <3>1. ss[i] = <<y>> /\ y.op = "addFk"
      BY StmtIs
    <3> HIDE DEF y, ss
    <3>2. IsList(<<y>>) /\ ToSet(<<y>>) = {y}
      BY OneList DEF ToSet
    <3> QED BY <3>1, <3>2
  <2>2. ss = [i \in DOMAIN db.fks |-> ss[i]]
    OBVIOUS
  <2> HIDE DEF ss
  <2>3. IsList(fks) /\ \A st \in ToSet(fks) : \E i \in DOMAIN db.fks : st \in ToSet(ss[i])
    BY <2>1, <2>2, EachIs
  <2>4. IsList(<<>>) /\ ToSet(<<>>) = {}
    BY EmptyList DEF ToSet
  <2> HIDE DEF fks
  <2>5. c = fks \/ c = <<>>
    OBVIOUS
  <2> HIDE DEF c
  <2> QED BY <2>1, <2>3, <2>4, <2>5
<1> HIDE DEF a, b, c
<1>5. CreationPart(db, a) /\ CreationPart(db, c)
  BY <1>2, <1>4, QuietCreation
<1>6. NoneTwice(a, b)
  BY <1>2 DEF NoneTwice, NotTwice
<1>7. CreationPart(db, ab)
  BY <1>3, <1>5, <1>6, JoinCreation
<1>10. IsList(a) /\ IsList(b) /\ IsList(ab) /\ IsList(c)
  BY <1>3, <1>5, <1>7 DEF CreationPart
<1>11. ToSet(ab) = ToSet(a) \cup ToSet(b)
  BY <1>10, ConcatElements
<1> HIDE DEF ab
<1>8. NoneTwice(ab, c)
  BY <1>4 DEF NoneTwice, NotTwice
<1>9. CreationPart(db, abc)
  BY <1>5, <1>7, <1>8, JoinCreation
<1>12. ToSet(abc) = ToSet(ab) \cup ToSet(c)
  BY <1>10, ConcatElements
<1> HIDE DEF abc
<1>14. \A t \in ToSet(db.tables) : MadeBy(db, t, ToSet(abc))
  BY <1>3, <1>11, <1>12 DEF MadeBy
<1>15. dialect # "postgres" => \A st \in ToSet(abc) : st.op # "createEnum"
  BY <1>3, <1>4, <1>11, <1>12, <1>13
<1> QED BY <1>1, <1>9, <1>14, <1>15

\* g is the recursive function in Created, up to k.
Runs(g, s, k) == g = [i \in 0 .. k |-> IF i = 0 THEN Empty ELSE Apply(g[i - 1], s[i])]

NotRun(s, n) == {k \in 0 .. n : ~ \E g : Runs(g, s, k)}

\* One more statement.
LEMMA RunsStep ==
  ASSUME NEW s, NEW k \in Nat \ {0}, NEW g, Runs(g, s, k - 1)
  PROVE  \E h : Runs(h, s, k)
<1> DEFINE h == [i \in 0 .. k |-> IF i = 0 THEN Empty ELSE Apply(g[i - 1], s[i])]
<1>1. ASSUME NEW i \in 0 .. k, i # 0 PROVE h[i - 1] = g[i - 1]
  <2>1. i - 1 \in 0 .. k - 1 /\ i - 1 \in 0 .. k
    BY <1>1
  <2>2. g[i - 1] = IF i - 1 = 0 THEN Empty ELSE Apply(g[i - 1 - 1], s[i - 1])
    BY <2>1 DEF Runs
  <2> QED BY <2>1, <2>2
<1>2. h = [i \in 0 .. k |-> IF i = 0 THEN Empty ELSE Apply(h[i - 1], s[i])]
  <2> DEFINE H(i) == IF i = 0 THEN Empty ELSE Apply(g[i - 1], s[i])
             K(i) == IF i = 0 THEN Empty ELSE Apply(h[i - 1], s[i])
  <2>1. \A i \in 0 .. k : H(i) = K(i)
    <3> HIDE DEF h
    <3> QED BY <1>1
  <2>2. h = [i \in 0 .. k |-> H(i)]
    OBVIOUS
  <2>3. [i \in 0 .. k |-> H(i)] = [i \in 0 .. k |-> K(i)]
    <3> HIDE DEF H, K
    <3> QED BY <2>1
  <2> HIDE DEF h
  <2> QED BY <2>2, <2>3
<1>3. Runs(h, s, k)
  <2> HIDE DEF h
  <2> QED BY <1>2 DEF Runs
<1> QED BY <1>3

LEMMA RunsExists ==
  ASSUME NEW s, NEW n \in Nat
  PROVE  \E g : Runs(g, s, n)
<1>1. NotRun(s, n) \subseteq Nat
  BY SMT DEF NotRun
<1>2. ASSUME NEW k \in NotRun(s, n), \A j \in NotRun(s, n) : k <= j PROVE FALSE
  <2>1. k \in 0 .. n /\ ~ \E g : Runs(g, s, k)
    BY DEF NotRun
  <2>2. k # 0
    <3> DEFINE g == [i \in 0 .. 0 |-> Empty]
    <3>1. g = [i \in 0 .. 0 |-> IF i = 0 THEN Empty ELSE Apply(g[i - 1], s[i])]
      OBVIOUS
    <3> HIDE DEF g
    <3>2. Runs(g, s, 0)
      BY <3>1 DEF Runs
    <3> QED BY <2>1, <3>2
  <2>3. k - 1 \notin NotRun(s, n) /\ k - 1 \in 0 .. n
    BY <1>2, <2>1, <2>2
  <2>4. PICK g : Runs(g, s, k - 1)
    BY <2>3 DEF NotRun
  <2> QED BY <2>1, <2>2, <2>4, RunsStep
<1>3. NotRun(s, n) = {}
  BY <1>1, <1>2, HasLeast
<1> QED BY <1>3 DEF NotRun

LEMMA CreatedIs ==
  ASSUME NEW db, NEW n \in Nat, Len(Creation(db)) = n
  PROVE  \E g : Runs(g, Creation(db), n) /\ Created(db) = g[n]
<1> DEFINE s == Creation(db)
           g == CHOOSE f : Runs(f, s, n)
<1>1. Runs(g, s, n)
  <2>1. \E f : Runs(f, s, n)
    BY RunsExists
  <2> QED BY <2>1, Zenon
<1>2. Created(db) = g[n]
  BY DEF Created, Runs
<1> QED BY <1>1, <1>2

\* What is there after the first i statements, and which of them made it.
MadeSoFar(new, s, i, L) ==
  /\ DbTyped(L) /\ IndexesApart(L, new)
  /\ \A w \in ToSet(L.tables) : \E p \in 1 .. i : s[p].op = "createTable" /\ s[p].on = w.name
  /\ \A p \in 1 .. i : Made(L, s[p])
  /\ \A w \in ToSet(L.tables) : \A k \in DOMAIN w.indexes :
       \E p \in 1 .. i : s[p].op = "createIndex" /\ s[p].on = w.name /\ s[p].what = w.indexes[k]
  /\ (\A p \in 1 .. i : s[p].op # "createEnum") => L.enums = <<>>

\* The list of statements that create db.
IsCreation(db, s, n) ==
  /\ CreationPart(db, s) /\ \A t \in ToSet(db.tables) : MadeBy(db, t, ToSet(s))
  /\ dialect # "postgres" => \A st \in ToSet(s) : st.op # "createEnum"
  /\ DbTyped(db) /\ n \in Nat /\ Len(s) = n /\ DOMAIN s = 1 .. n

\* An index is created after its table.
LEMMA TableFirst ==
  ASSUME NEW db, NEW s, NEW n, IsCreation(db, s, n), NEW i \in 1 .. n, s[i].op = "createIndex"
  PROVE  \E p \in 1 .. i - 1 : /\ s[p].op = "createTable" /\ s[p].on = s[i].on
                               /\ ToSet(s[i].what.keys) \subseteq Names(s[p].what.cols)
<1>1. s[i] \in ToSet(s) /\ Creates(db, s[i])
  BY DEF IsCreation, CreationPart, ToSet
<1>2. DbTyped(db)
  BY DEF IsCreation
<1>3. PICK t \in ToSet(db.tables) : Indexing(t, s[i])
  BY <1>1, <1>2, CreatesIs
<1>4. s[i].on = t.name /\ s[i].what \in ToSet(t.indexes) /\ TableTyped(t)
  BY <1>2, <1>3 DEF Indexing, DbTyped
<1>5. ToSet(s[i].what.keys) \subseteq Names(t.cols)
  BY <1>4 DEF TableTyped
<1>6. PICK p \in 1 .. n : s[p] = CreateTable(t, db)
  BY DEF IsCreation, MadeBy, ToSet
<1>7. s[p].op = "createTable" /\ s[p].on = t.name /\ s[p].what.cols = MadeColumns(t, db)
  BY <1>6, CreateTableIs
<1>8. Names(s[p].what.cols) = Names(t.cols)
  BY <1>4, <1>7, MadeColumnsAre
<1>9. p # i
  BY <1>7
<1>10. ~(i < p)
  <2>1. i < p => NotTwice(s[i], s[p])
    BY DEF IsCreation, CreationPart
  <2> QED BY <1>4, <1>7, <2>1 DEF NotTwice
<1>11. n \in Nat
  BY DEF IsCreation
<1>12. p \in 1 .. i - 1
  BY <1>9, <1>10, <1>11
<1> QED BY <1>4, <1>5, <1>7, <1>8, <1>12

\* What the next statement needs is there.
LEMMA CreationRunnable ==
  ASSUME NEW db, NEW s, NEW n, IsCreation(db, s, n), NEW i \in 1 .. n, NEW new, NEW L, MadeSoFar(new, s, i - 1, L)
  PROVE  Runnable(L, s[i]) /\ FreshName(L, new, s[i])
<1> DEFINE st == s[i]
<1>1. Creates(db, st) /\ DbTyped(db) /\ n \in Nat
  BY DEF IsCreation, CreationPart, ToSet
<1>2. \A p \in 1 .. i - 1 : NotTwice(s[p], st)
  <2>1. \A p \in 1 .. i - 1 : p \in 1 .. n /\ p < i
    BY <1>1
  <2> QED BY <2>1 DEF IsCreation, CreationPart
<1>3. CASE st.op = "createTable"
  <2>1. ~HasTable(L, st.on)
    <3> SUFFICES ASSUME HasTable(L, st.on) PROVE FALSE
      OBVIOUS
    <3>1. PICK w \in ToSet(L.tables) : w.name = st.on
      BY DEF HasTable, Names, ToSet
    <3>2. PICK p \in 1 .. i - 1 : s[p].op = "createTable" /\ s[p].on = w.name
      BY DEF MadeSoFar
    <3> QED BY <1>2, <1>3, <3>1, <3>2 DEF NotTwice
  <2>2. IsList(st.what.cols) /\ Distinct(st.what.cols) /\ \A c \in ToSet(st.what.cols) : DOMAIN c = Fields
    BY <1>1, <1>3, CreatesIs
  <2> QED BY <1>3, <2>1, <2>2 DEF Runnable, FreshName, AltersTable
<1>4. CASE st.op = "createIndex"
  <2>1. PICK p \in 1 .. i - 1 : /\ s[p].op = "createTable" /\ s[p].on = st.on
                                /\ ToSet(st.what.keys) \subseteq Names(s[p].what.cols)
    BY <1>4, TableFirst
  <2>2. HasTable(L, st.on) /\ ToSet(st.what.keys) \subseteq Names(TableOf(L, st.on).cols)
    BY <2>1 DEF MadeSoFar, Made
  <2>3. ASSUME NEW v \in ToSet(L.tables), NEW k \in DOMAIN v.indexes, v.indexes[k].name = st.what.name
        PROVE  dialect = "mariadb" /\ v.name # st.on
    <3>1. PICK q \in 1 .. i - 1 : s[q].op = "createIndex" /\ s[q].on = v.name /\ s[q].what = v.indexes[k]
      BY DEF MadeSoFar
    <3> QED BY <1>2, <1>4, <2>3, <3>1 DEF NotTwice
  <2> QED BY <1>4, <2>2, <2>3 DEF Runnable, FreshName
<1>5. CASE st.op \in {"createEnum", "addFk"}
  BY <1>5 DEF Runnable, FreshName, AltersTable
<1> QED BY <1>1, <1>3, <1>4, <1>5, CreatesIs

\* The statements that leave the enums alone, some of them.
LEMMA EnumsKept ==
  ASSUME NEW L, DbTyped(L), NEW st, Runnable(L, st),
         st.op \in {"comment", "createTable", "dropTable", "createIndex", "dropIndex", "addColumn", "addFk"}
  PROVE  Apply(L, st).enums = L.enums
<1> DEFINE M == Apply(L, st)
<1>1. CASE st.op = "createTable"
  <2> DEFINE w == NewTable(L, st)
             fks == L.fks \o SetToSeq(st.what.fks)
  <2>1. M = [L EXCEPT !.tables = Append(@, w), !.fks = fks]
    BY <1>1, ApplyOther
  <2> HIDE DEF M, w, fks
  <2>2. M.enums = L.enums
    BY <2>1 DEF DbTyped
  <2> QED BY <2>2 DEF M
<1>2. CASE st.op = "dropTable"
  <2> DEFINE fks == OthersKeys(L.fks, st.on)
             tables == WithoutNamed(L.tables, st.on)
  <2>1. M = [L EXCEPT !.tables = tables, !.fks = fks]
    BY <1>2, ApplyOther
  <2> HIDE DEF M, tables, fks
  <2>2. M.enums = L.enums
    BY <2>1 DEF DbTyped
  <2> QED BY <2>2 DEF M
<1>3. CASE st.op = "dropIndex"
  <2>1. M = DropIndex(L, st.on, st.what)
    BY <1>3, ApplyOther
  <2> HIDE DEF M
  <2>2. M.enums = L.enums
    BY <2>1 DEF DbTyped, DropIndex
  <2> QED BY <2>2 DEF M
<1>4. CASE st.op \in {"createIndex", "addColumn"}
  <2> DEFINE v == TableOf(L, st.on)
  <2>1. HasTable(L, st.on)
    BY <1>4 DEF Runnable, AltersTable
  <2>2. TableTyped(v) /\ v.name = st.on
    BY <2>1, TableOfIs
  <2>3. \E w : w.name = st.on /\ M = SetTable(L, st.on, w)
    <3>1. CASE st.op = "createIndex"
      <4> DEFINE w == [v EXCEPT !.indexes = Append(@, st.what)]
      <4>1. M = SetTable(L, st.on, w)
        BY <3>1, ApplyTable
      <4> HIDE DEF M, v
      <4>2. w.name = st.on
        BY <2>2 DEF TableTyped
      <4> QED BY <4>1, <4>2
    <3>2. CASE st.op = "addColumn"
      <4> DEFINE c == Stored(st.what)
                 w == [v EXCEPT !.cols = Append(@, c)]
      <4>1. M = SetTable(L, st.on, w)
        BY <3>2, ApplyTable
      <4> HIDE DEF M, v, c
      <4>2. w.name = st.on
        BY <2>2 DEF TableTyped
      <4> QED BY <4>1, <4>2
    <3> QED BY <1>4, <3>1, <3>2
  <2> HIDE DEF M, v
  <2>4. PICK w : w.name = st.on /\ M = SetTable(L, st.on, w)
    BY <2>3
  <2>5. TableSet(M, L, w)
    BY <2>1, <2>4, SetTableIs
  <2>6. M.enums = L.enums
    BY <2>5 DEF TableSet
  <2> QED BY <2>6 DEF M
<1>5. CASE st.op = "addFk"
  <2>1. M = [L EXCEPT !.fks = Append(@, st.what)]
    BY <1>5, ApplyOther
  <2> HIDE DEF M
  <2>2. M.enums = L.enums
    BY <2>1 DEF DbTyped
  <2> QED BY <2>2 DEF M
<1>6. CASE st.op = "comment"
  <2>1. M = L
    BY <1>6, ApplyOther DEF AltersTable
  <2> QED BY <2>1
<1> QED BY <1>1, <1>2, <1>3, <1>4, <1>5, <1>6

\* What a statement made stays when tables are created.
LEMMA StaysMade ==
  ASSUME NEW db, DbTyped(db), NEW a, Creates(db, a), NEW L, DbTyped(L), Made(L, a),
         NEW st, st.op \in {"createTable", "createIndex", "createEnum", "addFk"}, Runnable(L, st),
         NEW M, Stepped(L, M, st), st.op = "createTable" => NewTable(L, st).name = st.on
  PROVE  Made(M, a)
<1> DEFINE m == a.on
<1>1. a.op \in {"createTable", "createIndex", "createEnum", "addFk"}
  BY CreatesIs
<1>2. ASSUME a.op \in {"createTable", "createIndex"}
      PROVE  /\ HasTable(M, m) /\ Names(TableOf(M, m).cols) = Names(TableOf(L, m).cols)
             /\ ToSet(TableOf(L, m).indexes) \subseteq ToSet(TableOf(M, m).indexes)
  <2>1. HasTable(L, m)
    BY <1>2 DEF Made
  <2>2. TableOf(L, m) \in ToSet(L.tables) /\ TableOf(L, m).name = m
    BY <2>1, TableOfIs
  <2>3. HasTable(M, m)
    BY <2>2 DEF Stepped
  <2>4. Became(TableOf(L, m), TableOf(M, m), st)
    BY <2>1, <2>3, TableBecame
  <2>5. Names(TableOf(M, m).cols) = Names(TableOf(L, m).cols)
    BY <2>4 DEF Became, ColumnsKept, ColumnsFrom
  <2>6. ToSet(TableOf(L, m).indexes) \subseteq ToSet(TableOf(M, m).indexes)
    BY <2>4 DEF Became, IndexesKept
  <2> QED BY <2>3, <2>5, <2>6
<1> QED BY <1>1, <1>2 DEF Made

LEMMA CreationStep ==
  ASSUME NEW db, NEW s, NEW n, IsCreation(db, s, n), NEW i \in 1 .. n, NEW new, NEW L, MadeSoFar(new, s, i - 1, L)
  PROVE  MadeSoFar(new, s, i, Apply(L, s[i]))
<1> DEFINE st == s[i]
           M == Apply(L, st)
<1>1. Creates(db, st) /\ DbTyped(db) /\ n \in Nat
  BY DEF IsCreation, CreationPart, ToSet
<1>2. st.op \in {"createTable", "createIndex", "createEnum", "addFk"}
  BY <1>1, CreatesIs
<1>3. DbTyped(L) /\ IndexesApart(L, new)
  BY DEF MadeSoFar
<1>4. Runnable(L, st) /\ FreshName(L, new, st)
  BY CreationRunnable
<1>5. Stepped(L, M, st)
  BY <1>3, <1>4, ApplyStep
<1>6. st.op = "createTable" =>
        /\ NewTable(L, st).name = st.on /\ NewTable(L, st).indexes = <<>>
        /\ Names(NewTable(L, st).cols) = Names(st.what.cols)
  BY <1>3, <1>4, CreateTableStep
<1>7. Made(M, st)
  BY <1>3, <1>4, AppliedMade
<1>14. st.op # "createEnum" => M.enums = L.enums
  BY <1>2, <1>3, <1>4, EnumsKept
<1> HIDE DEF st, M
<1>8. IndexesApart(M, new)
  BY <1>3, <1>4, <1>5, <1>6, ApartStep
<1>9. \A p \in 1 .. i - 1 : p \in 1 .. i
  BY <1>1
<1>10. i \in 1 .. i
  BY <1>1
<1>11. ASSUME NEW w \in ToSet(M.tables) PROVE \E p \in 1 .. i : s[p].op = "createTable" /\ s[p].on = w.name
  <2>1. CASE st.op = "createTable" /\ w = NewTable(L, st)
    BY <1>6, <1>10, <2>1 DEF st
  <2>2. CASE \E v \in ToSet(L.tables) : Became(v, w, st)
    <3>1. PICK v \in ToSet(L.tables) : w.name = v.name
      BY <2>2 DEF Became
    <3>2. PICK p \in 1 .. i - 1 : s[p].op = "createTable" /\ s[p].on = v.name
      BY DEF MadeSoFar
    <3> QED BY <1>9, <3>1, <3>2
  <2> QED BY <1>5, <2>1, <2>2 DEF Stepped
<1>12. ASSUME NEW p \in 1 .. i PROVE Made(M, s[p])
  <2>1. CASE p = i
    BY <1>7, <2>1 DEF st
  <2>2. CASE p # i
    <3>1. p \in 1 .. i - 1
      BY <1>1, <2>2
    <3>2. Made(L, s[p])
      BY <3>1 DEF MadeSoFar
    <3>3. Creates(db, s[p])
      <4>1. p \in 1 .. n
        BY <1>1, <3>1
      <4> QED BY <4>1 DEF IsCreation, CreationPart, ToSet
    <3> QED BY <1>1, <1>2, <1>3, <1>4, <1>5, <1>6, <3>2, <3>3, StaysMade
  <2> QED BY <2>1, <2>2
<1>13. ASSUME NEW w \in ToSet(M.tables), NEW k \in DOMAIN w.indexes
       PROVE  \E p \in 1 .. i : s[p].op = "createIndex" /\ s[p].on = w.name /\ s[p].what = w.indexes[k]
  <2>1. PICK v \in ToSet(L.tables) :
          Became(v, w, st) /\ w.name = v.name /\ IsList(v.indexes) /\ \E at : Traced(at, v, w, st)
    BY <1>3, <1>5, <1>6, TableWas
  <2>2. PICK at : Traced(at, v, w, st)
    BY <2>1
  <2>3. CASE at[k] \in DOMAIN v.indexes /\ v.indexes[at[k]] = w.indexes[k]
    <3>1. PICK p \in 1 .. i - 1 : s[p].op = "createIndex" /\ s[p].on = v.name /\ s[p].what = v.indexes[at[k]]
      BY <2>3 DEF MadeSoFar
    <3> QED BY <1>9, <2>1, <2>3, <3>1
  <2>4. CASE v.name = st.on /\ Adds(st, w.indexes[k])
    <3>1. st.op = "createIndex" /\ w.indexes[k] = st.what
      BY <1>2, <2>4 DEF Adds
    <3> QED BY <1>10, <2>1, <2>4, <3>1 DEF st
  <2> QED BY <2>2, <2>3, <2>4 DEF Traced
<1>15. ASSUME \A p \in 1 .. i : s[p].op # "createEnum" PROVE M.enums = <<>>
  <2>1. L.enums = <<>>
    BY <1>9, <1>15 DEF MadeSoFar
  <2> QED BY <1>10, <1>14, <1>15, <2>1 DEF st
<1> QED BY <1>5, <1>8, <1>11, <1>12, <1>13, <1>15 DEF MadeSoFar, Stepped, M, st

LEMMA EmptyMade ==
  ASSUME NEW new, NEW s
  PROVE  MadeSoFar(new, s, 0, Empty)
<1>1. DOMAIN Empty = {"enums", "tables", "fks", "normalized"} /\ Empty.enums = <<>> /\ Empty.tables = <<>>
  BY Zenon DEF Empty
<1>2. IsList(<<>>) /\ DOMAIN <<>> = {} /\ ToSet(<<>>) = {}
  BY EmptyList DEF ToSet
<1>3. DbTyped(Empty)
  BY <1>1, <1>2 DEF DbTyped, Distinct
<1>4. IndexesApart(Empty, new)
  BY <1>1, <1>2 DEF IndexesApart
<1>5. 1 .. 0 = {}
  OBVIOUS
<1> QED BY <1>1, <1>2, <1>3, <1>4, <1>5 DEF MadeSoFar

\* The statements after which something is missing.
Unmade(new, s, g, n) == {i \in 0 .. n : ~MadeSoFar(new, s, i, g[i])}

\* What is created from db is what it declares, its columns and indexes.
SameParts(t, w) == t.name = w.name /\ Names(t.cols) = Names(w.cols) /\ ToSet(w.indexes) = ToSet(t.indexes)

MadeFrom(db, L) ==
  /\ \A w \in ToSet(L.tables) : \E t \in ToSet(db.tables) : SameParts(t, w)
  /\ \A t \in ToSet(db.tables) : HasTable(L, t.name)
  /\ dialect # "postgres" => L.enums = <<>>

LEMMA MadeFromDb ==
  ASSUME NEW db, NEW s, NEW n, IsCreation(db, s, n), NEW new, NEW L, MadeSoFar(new, s, n, L)
  PROVE  MadeFrom(db, L)
<1>1. /\ DbTyped(db) /\ DbTyped(L) /\ \A p \in 1 .. n : Creates(db, s[p]) /\ s[p] \in ToSet(s)
      /\ \A st \in ToSet(s) : Made(L, st)
  BY DEF IsCreation, CreationPart, MadeSoFar, ToSet
<1>2. ASSUME NEW w \in ToSet(L.tables) PROVE \E t \in ToSet(db.tables) : SameParts(t, w)
  <2>1. PICK p \in 1 .. n : s[p].op = "createTable" /\ s[p].on = w.name
    BY DEF MadeSoFar
  <2>2. PICK t \in ToSet(db.tables) : t.name = w.name /\ Names(s[p].what.cols) = Names(t.cols)
    BY <1>1, <2>1, CreatesIs
  <2>3. TableOf(L, w.name) = w
    BY <1>1, NamedIs DEF DbTyped, TableOf
  <2>4. Names(t.cols) = Names(w.cols)
    BY <1>1, <2>1, <2>2, <2>3 DEF Made
  <2>5. ASSUME NEW x \in ToSet(w.indexes) PROVE x \in ToSet(t.indexes)
    <3>1. PICK k \in DOMAIN w.indexes : x = w.indexes[k]
      BY DEF ToSet
    <3>2. PICK q \in 1 .. n : s[q].op = "createIndex" /\ s[q].on = w.name /\ s[q].what = x
      BY <3>1 DEF MadeSoFar
    <3>3. PICK u \in ToSet(db.tables) : Indexing(u, s[q])
      BY <1>1, <3>2, CreatesIs
    <3>4. u.name = t.name /\ x \in ToSet(u.indexes)
      BY <2>2, <3>2, <3>3 DEF Indexing
    <3>5. Distinct(db.tables)
      BY <1>1 DEF DbTyped
    <3>6. u = t
      BY <3>4, <3>5 DEF Distinct, ToSet
    <3> QED BY <3>4, <3>6
  <2>6. ASSUME NEW x \in ToSet(t.indexes) PROVE x \in ToSet(w.indexes)
    <3> DEFINE a == Stmt("createIndex", t.name, x)
    <3>1. a \in ToSet(s)
      BY DEF IsCreation, MadeBy
    <3>2. a.op = "createIndex" /\ a.on = t.name /\ a.what = x
      BY StmtIs
    <3> QED BY <1>1, <2>2, <2>3, <3>1, <3>2 DEF Made
  <2>7. SameParts(t, w)
    BY <2>2, <2>4, <2>5, <2>6 DEF SameParts
  <2> QED BY <2>7
<1>3. ASSUME NEW t \in ToSet(db.tables) PROVE HasTable(L, t.name)
  <2>1. CreateTable(t, db) \in ToSet(s)
    BY DEF IsCreation, MadeBy
  <2> QED BY <1>1, <2>1, CreateTableIs DEF Made
<1>4. dialect # "postgres" => L.enums = <<>>
  BY <1>1 DEF IsCreation, MadeSoFar
<1> QED BY <1>2, <1>3, <1>4 DEF MadeFrom

LEMMA CreatedTyped ==
  ASSUME NEW db, Declared(dialect, db), NEW new
  PROVE  DbTyped(Created(db)) /\ IndexesApart(Created(db), new) /\ MadeFrom(db, Created(db))
<1> DEFINE s == Creation(db)
           n == Len(s)
<1>1. DbTyped(db) /\ IsList(db.fks)
  BY DeclaredTyped
<1>2. /\ CreationPart(db, s) /\ \A t \in ToSet(db.tables) : MadeBy(db, t, ToSet(s))
      /\ dialect # "postgres" => \A st \in ToSet(s) : st.op # "createEnum"
  BY <1>1, CreationIs
<1>3. n \in Nat /\ DOMAIN s = 1 .. n /\ Len(s) = n
  BY <1>2, ListIs DEF CreationPart
<1>4. IsCreation(db, s, n)
  BY <1>1, <1>2, <1>3 DEF IsCreation
<1>5. PICK g : Runs(g, s, n) /\ Created(db) = g[n]
  BY <1>3, CreatedIs
<1> HIDE DEF s, n
<1>6. Unmade(new, s, g, n) \subseteq Nat
  BY SMT DEF Unmade
<1>7. ASSUME NEW k \in Unmade(new, s, g, n), \A j \in Unmade(new, s, g, n) : k <= j PROVE FALSE
  <2>1. k \in 0 .. n /\ ~MadeSoFar(new, s, k, g[k])
    BY DEF Unmade
  <2>2. g[k] = IF k = 0 THEN Empty ELSE Apply(g[k - 1], s[k])
    BY <1>5, <2>1 DEF Runs
  <2>3. CASE k = 0
    BY <2>1, <2>2, <2>3, EmptyMade
  <2>4. CASE k # 0
    <3>1. k \in 1 .. n /\ k - 1 \in 0 .. n /\ ~(k <= k - 1)
      BY <1>3, <2>1, <2>4
    <3>2. MadeSoFar(new, s, k - 1, g[k - 1])
      BY <1>7, <3>1 DEF Unmade
    <3>3. MadeSoFar(new, s, k, Apply(g[k - 1], s[k]))
      BY <1>4, <3>1, <3>2, CreationStep
    <3> QED BY <2>1, <2>2, <2>4, <3>3
  <2> QED BY <2>3, <2>4
<1>8. Unmade(new, s, g, n) = {}
  BY <1>6, <1>7, HasLeast
<1>9. n \in 0 .. n
  BY <1>3
<1>10. MadeSoFar(new, s, n, g[n])
  BY <1>8, <1>9 DEF Unmade
<1>11. MadeFrom(db, g[n])
  BY <1>4, <1>10, MadeFromDb
<1> QED BY <1>5, <1>10, <1>11 DEF MadeSoFar

-----------------------------------------------------------------------------
(* The theorems. *)

\* What the database reports is what it is, in some order.
LEMMA ReportedIs ==
  ASSUME NEW new, DbTyped(live), IndexesApart(live, new), NEW db \in Reported
  PROVE  /\ DbTyped(db) /\ IndexesApart(db, new)
         /\ \A n : HasTable(db, n) => HasTable(live, n) /\ TableOf(db, n) = TableOf(live, n)
<1>1. CASE db = live
  BY <1>1
<1>2. CASE \E order \in SetToSeqs(ToSet(live.tables)) : db = [live EXCEPT !.tables = order]
  <2> DEFINE S == ToSet(live.tables)
             k == Cardinality(S)
  <2>1. PICK order \in SetToSeqs(S) : db = [live EXCEPT !.tables = order]
    BY <1>2
  <2>2. order \in [1 .. k -> S] /\ \A i, j \in 1 .. k : i # j => order[i] # order[j]
    BY DEF SetToSeqs
  <2>3. IsFiniteSet(S) /\ IsList(live.tables)
    BY ListFinite DEF DbTyped
  <2>4. k \in Nat
    BY <2>3, FS_CardinalityType
  <2>5. DOMAIN db = DOMAIN live /\ db.tables = order /\ db.enums = live.enums
    BY <2>1 DEF DbTyped
  <2> HIDE DEF k
  <2>6. DOMAIN order = 1 .. k /\ order = [i \in 1 .. k |-> order[i]] /\ ToSet(order) \subseteq S
    BY <2>2 DEF ToSet
  <2>7. IsList(order)
    BY <2>4, <2>6, MadeList
  <2>8. \A t, u \in S : t.name = u.name => t = u
    BY DEF DbTyped, Distinct, ToSet
  <2>9. Distinct(order)
    BY <2>2, <2>6, <2>8 DEF Distinct
  <2>10. DbTyped(db)
    BY <2>5, <2>6, <2>7, <2>9 DEF DbTyped
  <2>11. IndexesApart(db, new)
    BY <2>5, <2>6 DEF IndexesApart
  <2>12. ASSUME NEW n, HasTable(db, n) PROVE HasTable(live, n) /\ TableOf(db, n) = TableOf(live, n)
    <3>1. TableOf(db, n) \in S /\ TableOf(db, n).name = n
      BY <2>5, <2>6, <2>10, <2>12, TableOfIs
    <3>2. HasTable(live, n)
      BY <3>1 DEF HasTable, Names, ToSet
    <3>3. TableOf(live, n) \in S /\ TableOf(live, n).name = n
      BY <3>2, TableOfIs
    <3> QED BY <2>8, <3>1, <3>2, <3>3
  <2> QED BY <2>10, <2>11, <2>12
<1> QED BY <1>1, <1>2 DEF Reported

LEMMA InitInv == Init => MigrateInv
<1> SUFFICES ASSUME Init PROVE MigrateInv
  OBVIOUS
<1>1. PICK m \in Migrations[dialect] : live = Created(m[1]) /\ target = m[2]
  BY DEF Init
<1>2. dialect \in Dialects /\ Declared(dialect, m[1]) /\ Declared(dialect, m[2])
  BY MigrationsAssumption DEF Init
<1>3. DbTyped(live) /\ IndexesApart(live, target)
  BY <1>1, <1>2, CreatedTyped
<1>4. status \in Statuses /\ interrupts \in 0 .. MaxInterrupts
  BY InterruptAssumption DEF Init, Statuses
<1>5. script = <<>> /\ IsList(<<>>) /\ DOMAIN <<>> = {}
  BY EmptyList DEF Init
<1> QED BY <1>1, <1>2, <1>3, <1>4, <1>5 DEF MigrateInv, TypeInv, OrderInv, InOrder

\* The script that is read.
LEMMA ReadScript ==
  ASSUME MigrateInv, NEW db \in Reported, NEW s, s = Script(db, target)
  PROVE  /\ IsList(s) /\ (\A j \in DOMAIN s : MeantFor(target, s[j])) /\ InOrder(target, s)
         /\ \A j \in DOMAIN s : DropIn(db, target, s[j])
<1>1. DbTyped(target) /\ DbTyped(live) /\ IndexesApart(live, target)
  BY DeclaredTyped DEF MigrateInv, TypeInv, OrderInv
<1>2. DbTyped(db) /\ IndexesApart(db, target)
  BY <1>1, ReportedIs
<1>3. ScriptPart(db, target, s)
  BY <1>1, <1>2, ScriptIs
<1> QED BY <1>3 DEF ScriptPart, StatementsFor, ToSet

\* What a statement of the script does when it is accepted.
LEMMA ExecuteIs ==
  ASSUME MigrateInv, Execute
  PROVE  LET st == Head(script)
         IN  /\ script # <<>> /\ st = script[1] /\ MeantFor(target, st) /\ live' = Apply(live, st)
             /\ Runnable(live, st) /\ FreshName(live, target, st) /\ Stepped(live, live', st)
             /\ st.op = "createTable" => NewTable(live, st).name = st.on /\ NewTable(live, st).indexes = <<>>
             /\ IsList(script') /\ \A j \in DOMAIN script' : j + 1 \in DOMAIN script /\ script'[j] = script[j + 1]
             /\ \A j \in DOMAIN script' : Follows(target, st, script[j + 1])
<1> DEFINE st == Head(script)
<1>1. DbTyped(target) /\ DbTyped(live) /\ IsList(script) /\ \A j \in DOMAIN script : MeantFor(target, script[j])
  BY DeclaredTyped DEF MigrateInv, TypeInv
<1>2. script # <<>> /\ Accepts(live, st) /\ live' = Apply(live, st) /\ script' = Tail(script)
  BY DEF Execute
<1>3. /\ Len(script) >= 1 /\ st = script[1] /\ IsList(Tail(script)) /\ Len(Tail(script)) = Len(script) - 1
      /\ \A i \in 1 .. Len(script) - 1 : Tail(script)[i] = script[i + 1]
  BY <1>1, <1>2, TailList
<1>4. DOMAIN script = 1 .. Len(script) /\ Len(script) \in Nat /\ DOMAIN Tail(script) = 1 .. Len(script) - 1
  BY <1>1, <1>3, ListIs
<1>5. 1 \in DOMAIN script /\ \A j \in DOMAIN script' : j + 1 \in DOMAIN script /\ script'[j] = script[j + 1] /\ 1 < j + 1
  BY <1>2, <1>3, <1>4
<1>6. MeantFor(target, st)
  BY <1>1, <1>3, <1>5
<1> HIDE DEF st
<1>7. Runnable(live, st) /\ FreshName(live, target, st)
  BY <1>1, <1>2, <1>6, AcceptedRunnable, AcceptedFresh
<1>8. Stepped(live, live', st)
  BY <1>1, <1>2, <1>7, ApplyStep
<1>9. st.op = "createTable" => NewTable(live, st).name = st.on /\ NewTable(live, st).indexes = <<>>
  BY <1>1, <1>7, CreateTableStep
<1>10. \A j \in DOMAIN script' : Follows(target, st, script[j + 1])
  BY <1>3, <1>5 DEF MigrateInv, OrderInv, InOrder
<1> QED BY <1>2, <1>3, <1>5, <1>6, <1>7, <1>8, <1>9, <1>10 DEF st

-----------------------------------------------------------------------------
(* The dialect is detected once: what depends on it alone stays. *)

LEMMA SameMapped ==
  ASSUME dialect' = dialect, NEW type, NEW new PROVE MapType(type, new)' = MapType(type, new)
BY DEF MapType

LEMMA SameColumnType ==
  ASSUME dialect' = dialect, NEW c, NEW inlinePK, NEW new
  PROVE  DeclaredType(c, inlinePK, new)' = DeclaredType(c, inlinePK, new)
<1>1. MapType(c.type, new)' = MapType(c.type, new)
  BY SameMapped
<1> QED BY <1>1 DEF DeclaredType

LEMMA SameRendered ==
  ASSUME dialect' = dialect, NEW c, NEW inlinePK, NEW new
  PROVE  RenderColumn(c, inlinePK, new)' = RenderColumn(c, inlinePK, new)
<1>1. DeclaredType(c, inlinePK, new)' = DeclaredType(c, inlinePK, new)
  BY SameColumnType
<1> QED BY <1>1 DEF RenderColumn

LEMMA SameCreate ==
  ASSUME dialect' = dialect, NEW t, NEW new PROVE CreateTable(t, new)' = CreateTable(t, new)
<1>1. ASSUME NEW c, NEW inlinePK PROVE RenderColumn(c, inlinePK, new)' = RenderColumn(c, inlinePK, new)
  BY SameRendered
<1>2. InlinePK(t)' = InlinePK(t)
  BY DEF InlinePK
<1> QED BY <1>1, <1>2 DEF CreateTable

LEMMA SameMeant ==
  ASSUME dialect' = dialect, NEW new, NEW st PROVE MeantFor(new, st)' <=> MeantFor(new, st)
<1>1. ASSUME NEW c, NEW inlinePK PROVE RenderColumn(c, inlinePK, new)' = RenderColumn(c, inlinePK, new)
  BY SameRendered
<1>2. ASSUME NEW t PROVE CreateTable(t, new)' = CreateTable(t, new)
  BY SameCreate
<1>3. ASSUME NEW type PROVE MapType(type, new)' = MapType(type, new)
  BY SameMapped
<1>4. OpsOf(dialect)' = OpsOf(dialect)
  BY DEF OpsOf
<1> QED BY <1>1, <1>2, <1>3, <1>4, Zenon DEF MeantFor

LEMMA SameSecond ==
  ASSUME dialect' = dialect, NEW new, NEW n, NEW name PROVE Second(new, n, name)' <=> Second(new, n, name)
BY DEF Second

LEMMA SameApart ==
  ASSUME dialect' = dialect, NEW L, NEW new PROVE IndexesApart(L, new)' <=> IndexesApart(L, new)
<1>1. ASSUME NEW n, NEW name PROVE Second(new, n, name)' <=> Second(new, n, name)
  BY SameSecond
<1> QED BY <1>1 DEF IndexesApart

LEMMA SameOrder ==
  ASSUME dialect' = dialect, NEW s, NEW new PROVE InOrder(new, s)' <=> InOrder(new, s)
<1>1. ASSUME NEW n, NEW name PROVE Second(new, n, name)' <=> Second(new, n, name)
  BY SameSecond
<1> QED BY <1>1, Zenon DEF InOrder, Follows

LEMMA SameDrop ==
  ASSUME dialect' = dialect, NEW L, NEW st, NEW new PROVE DropMeant(L, new, st)' <=> DropMeant(L, new, st)
<1>1. ASSUME NEW n, NEW name PROVE Second(new, n, name)' <=> Second(new, n, name)
  BY SameSecond
<1> QED BY <1>1, Zenon DEF DropMeant

\* What MigrateInv takes in the next state.
LEMMA MigrateInvNext ==
  ASSUME MigrateInv, UNCHANGED <<dialect, target>>, status' \in Statuses, interrupts' \in 0 .. MaxInterrupts,
         DbTyped(live'), IndexesApart(live', target),
         IsList(script'), \A j \in DOMAIN script' : MeantFor(target, script'[j]), InOrder(target, script')
  PROVE  MigrateInv'
<1>1. Declared(dialect, target)'
  BY DEF MigrateInv, TypeInv
<1>2. \A j \in DOMAIN script' : MeantFor(target, script[j])'
  BY SameMeant
<1>3. IndexesApart(live, target)'
  BY SameApart
<1>4. InOrder(target, script)'
  BY SameOrder
<1> QED BY <1>1, <1>2, <1>3, <1>4 DEF MigrateInv, TypeInv, OrderInv

LEMMA StepInv == MigrateInv /\ [Next]_vars => MigrateInv'
<1> SUFFICES ASSUME MigrateInv, [Next]_vars PROVE MigrateInv'
  OBVIOUS
<1>1. CASE Read
  <2>1. PICK db \in Reported : script' = Script(db, target)
    BY <1>1 DEF Read
  <2>2. IsList(script') /\ (\A j \in DOMAIN script' : MeantFor(target, script'[j])) /\ InOrder(target, script')
    BY <2>1, ReadScript
  <2>3. UNCHANGED <<dialect, live, target, interrupts>> /\ status' \in Statuses
    BY <1>1 DEF Read, Statuses
  <2>4. interrupts' \in 0 .. MaxInterrupts /\ DbTyped(live') /\ IndexesApart(live', target)
    BY <2>3 DEF MigrateInv, TypeInv, OrderInv
  <2> QED BY <2>2, <2>3, <2>4, MigrateInvNext
<1>2. CASE Execute
  <2> DEFINE st == Head(script)
  <2>1. UNCHANGED <<dialect, target, status, interrupts>>
    BY <1>2 DEF Execute
  <2>2. DbTyped(live')
    BY <1>2, ExecuteIs DEF Stepped
  <2>3. IsList(script') /\ \A j \in DOMAIN script' : j + 1 \in DOMAIN script /\ script'[j] = script[j + 1]
    BY <1>2, ExecuteIs
  <2>4. \A j \in DOMAIN script' : MeantFor(target, script'[j])
    BY <2>3 DEF MigrateInv, TypeInv
  <2>5. InOrder(target, script')
    <3>1. DOMAIN script' \subseteq Nat
      BY <2>3, ListIs
    <3>2. ASSUME NEW i \in DOMAIN script', NEW j \in DOMAIN script', i < j
          PROVE  Follows(target, script'[i], script'[j])
      <4>1. i + 1 < j + 1
        BY <3>1, <3>2
      <4> QED BY <2>3, <4>1 DEF MigrateInv, OrderInv, InOrder
    <3> QED BY <3>2 DEF InOrder
  <2>6. IndexesApart(live', target)
    <3>1. FreshName(live, target, st) /\ Stepped(live, live', st)
          /\ (st.op = "createTable" => NewTable(live, st).indexes = <<>>)
      BY <1>2, ExecuteIs
    <3>2. DbTyped(live) /\ IndexesApart(live, target)
      BY DEF MigrateInv, TypeInv, OrderInv
    <3> HIDE DEF st
    <3> QED BY <3>1, <3>2, ApartStep
  <2>7. status' \in Statuses /\ interrupts' \in 0 .. MaxInterrupts
    BY <2>1 DEF MigrateInv, TypeInv
  <2> QED BY <2>1, <2>2, <2>3, <2>4, <2>5, <2>6, <2>7, MigrateInvNext
<1>3. CASE Interrupt
  <2>1. UNCHANGED <<dialect, live, target>> /\ script' = <<>> /\ status' \in Statuses
    BY <1>3 DEF Interrupt, Statuses
  <2>2. interrupts' \in 0 .. MaxInterrupts
    BY <1>3, InterruptAssumption DEF Interrupt, MigrateInv, TypeInv
  <2>3. IsList(<<>>) /\ DOMAIN <<>> = {}
    BY EmptyList
  <2>4. DbTyped(live') /\ IndexesApart(live', target) /\ IsList(script') /\ DOMAIN script' = {}
    BY <2>1, <2>3 DEF MigrateInv, TypeInv, OrderInv
  <2>5. InOrder(target, script')
    BY <2>4 DEF InOrder
  <2> QED BY <2>1, <2>2, <2>4, <2>5, MigrateInvNext
<1>4. CASE Finish
  <2>1. UNCHANGED <<dialect, live, target, script, interrupts>> /\ status' \in Statuses
    BY <1>4 DEF Finish, Statuses
  <2>2. interrupts' \in 0 .. MaxInterrupts /\ DbTyped(live') /\ IndexesApart(live', target) /\ IsList(script')
        /\ (\A j \in DOMAIN script' : MeantFor(target, script'[j])) /\ InOrder(target, script')
    BY <2>1 DEF MigrateInv, TypeInv, OrderInv
  <2> QED BY <2>1, <2>2, MigrateInvNext
<1>5. CASE UNCHANGED vars
  <2>1. UNCHANGED <<dialect, live, target, script, status, interrupts>>
    BY <1>5 DEF vars
  <2>2. interrupts' \in 0 .. MaxInterrupts /\ DbTyped(live') /\ IndexesApart(live', target) /\ IsList(script')
        /\ (\A j \in DOMAIN script' : MeantFor(target, script'[j])) /\ InOrder(target, script')
        /\ status' \in Statuses
    BY <2>1 DEF MigrateInv, TypeInv, OrderInv
  <2> QED BY <2>1, <2>2, MigrateInvNext
<1> QED BY <1>1, <1>2, <1>3, <1>4, <1>5 DEF Next

-----------------------------------------------------------------------------
(* The types. *)

\* The database stays one that schemas can be compared with, and what is left of
\* the script was meant for the target: every statement, and the order of drops
\* (Migrate, diffTable, diffPK, diffIndexes).
THEOREM MigrateInvariant == Spec => []MigrateInv
BY InitInv, StepInv, PTL DEF Spec

LEMMA TypesFollow == MigrateInv => TypeOK
<1> SUFFICES ASSUME MigrateInv PROVE TypeOK
  OBVIOUS
<1>1. DbTyped(live) /\ IsList(script) /\ \A j \in DOMAIN script : MeantFor(target, script[j])
  BY DEF MigrateInv, TypeInv
<1>2. \A t, u \in DOMAIN live.tables : live.tables[t].name = live.tables[u].name => t = u
  BY <1>1 DEF DbTyped, Distinct
<1>3. ASSUME NEW t \in ToSet(live.tables)
      PROVE  /\ \A i, j \in DOMAIN t.cols : t.cols[i].name = t.cols[j].name => i = j
             /\ \A x \in ToSet(t.indexes) : ToSet(x.keys) \subseteq Names(t.cols)
  BY <1>1 DEF DbTyped, TableTyped, Distinct
<1>4. ASSUME NEW st \in ToSet(script), st.op \in {"addKey", "createIndex"} PROVE st.what.keys # <<>>
  <2>1. MeantFor(target, st)
    BY <1>1 DEF ToSet
  <2>2. CASE st.op = "addKey"
    BY <2>1, <2>2 DEF MeantFor
  <2>3. CASE st.op = "createIndex"
    <3>1. PICK t \in ToSet(target.tables) : st.what \in ToSet(t.indexes)
      BY <2>1, <2>3 DEF MeantFor
    <3>2. \A x \in ToSet(t.indexes) : x.keys # <<>>
      BY <3>1 DEF MigrateInv, TypeInv, Declared
    <3> QED BY <3>1, <3>2
  <2> QED BY <1>4, <2>2, <2>3
<1>5. status \in Statuses /\ interrupts \in 0 .. MaxInterrupts
  BY DEF MigrateInv, TypeInv
<1> QED BY <1>2, <1>3, <1>4, <1>5 DEF TypeOK

\* Whatever runs are cut off, no table of the database has two columns of one
\* name, an index lists columns of its table, and the script adds no key or
\* index without columns (diffPK, diffIndexes).
THEOREM TypeCorrect == Spec => []TypeOK
BY MigrateInvariant, TypesFollow, PTL

-----------------------------------------------------------------------------
(* What both sides have stays. *)

SecondFree == dialect = "mariadb" => SecondKeysFree(target)

SharedInv == MigrateInv /\ DropInv /\ SecondFree

LEMMA ReadDrops ==
  ASSUME MigrateInv, SecondFree, NEW db \in Reported, NEW st, DropIn(db, target, st)
  PROVE  DropMeant(live, target, st)
<1> SUFFICES ASSUME st.op = "dropIndex"
             PROVE  /\ HasTable(live, st.on)
                    /\ st.what \in Names(TableOf(live, st.on).indexes)
                    /\ \A t \in ToSet(target.tables) : t.name = st.on =>
                         \A x \in ToSet(t.indexes) :
                           x.name = st.what => x \notin ToSet(TableOf(live, st.on).indexes)
  BY DEF DropMeant
<1>1. DbTyped(target) /\ DbTyped(live) /\ IndexesApart(live, target)
  BY DeclaredTyped DEF MigrateInv, TypeInv, OrderInv
<1>2. PICK nt \in ToSet(target.tables) :
        /\ st.on = nt.name /\ HasTable(db, nt.name)
        /\ \E x \in ToSet(TableOf(db, nt.name).indexes) : ~Unchanged(x, nt) /\ st.what = x.name
  BY DEF DropIn
<1> DEFINE v == TableOf(live, st.on)
<1>3. HasTable(live, st.on) /\ TableOf(db, st.on) = v
  BY <1>1, <1>2, ReportedIs
<1>4. v \in ToSet(live.tables) /\ v.name = st.on
  <2>1. TableOf(live, st.on) \in ToSet(live.tables) /\ TableOf(live, st.on).name = st.on
    BY <1>1, <1>3, TableOfIs
  <2> QED BY <2>1
<1> HIDE DEF v
<1>5. PICK y \in ToSet(v.indexes) : ~Unchanged(y, nt) /\ st.what = y.name
  BY <1>2, <1>3
<1>6. st.what \in Names(v.indexes)
  BY <1>5 DEF Names, ToSet
<1>7. ASSUME NEW t \in ToSet(target.tables), t.name = st.on, NEW x \in ToSet(t.indexes), x.name = st.what,
             x \in ToSet(v.indexes)
      PROVE  FALSE
  <2>1. t = nt
    BY <1>1, <1>2, <1>7 DEF DbTyped, Distinct, ToSet
  <2>2. x # y
    BY <1>5, <1>7, <2>1 DEF Unchanged
  <2>3. PICK i \in DOMAIN v.indexes : v.indexes[i] = x
    BY <1>7 DEF ToSet
  <2>4. PICK j \in DOMAIN v.indexes : v.indexes[j] = y
    BY <1>5 DEF ToSet
  <2>5. i # j /\ v.indexes[i].name = v.indexes[j].name
    BY <1>5, <1>7, <2>2, <2>3, <2>4
  <2>6. Second(target, v.name, v.indexes[i].name)
    BY <1>1, <1>4, <2>5 DEF IndexesApart
  <2>7. ~Second(target, t.name, x.name)
    BY <1>1, NotSecond DEF SecondFree
  <2> QED BY <1>4, <1>7, <2>3, <2>6, <2>7
<1> QED BY <1>3, <1>6, <1>7 DEF v

LEMMA DropsInNext ==
  ASSUME UNCHANGED <<dialect, target>>, \A j \in DOMAIN script' : DropMeant(live', target, script'[j])
  PROVE  DropInv'
BY SameDrop DEF DropInv

LEMMA SecondFreeStep == SecondFree /\ [Next]_vars => SecondFree'
BY DEF SecondFree, Next, Read, Execute, Interrupt, Finish, vars

LEMMA DropStep == SharedInv /\ [Next]_vars => DropInv'
<1> SUFFICES ASSUME SharedInv, [Next]_vars PROVE DropInv'
  OBVIOUS
<1>1. MigrateInv /\ (\A j \in DOMAIN script : DropMeant(live, target, script[j])) /\ SecondFree
  BY DEF SharedInv, DropInv
<1>2. UNCHANGED <<dialect, target>>
  BY DEF Next, Read, Execute, Interrupt, Finish, vars
<1>3. CASE Read
  <2>1. PICK db \in Reported : script' = Script(db, target)
    BY <1>3 DEF Read
  <2>2. \A j \in DOMAIN script' : DropIn(db, target, script'[j])
    BY <1>1, <2>1, ReadScript
  <2>3. \A j \in DOMAIN script' : DropMeant(live, target, script'[j])
    BY <1>1, <2>2, ReadDrops
  <2>4. live' = live
    BY <1>3 DEF Read
  <2> QED BY <1>2, <2>3, <2>4, DropsInNext
<1>4. CASE Execute
  <2> DEFINE st == Head(script)
  <2>1. /\ script # <<>> /\ st = script[1] /\ MeantFor(target, st)
        /\ Runnable(live, st) /\ FreshName(live, target, st) /\ Stepped(live, live', st)
        /\ (st.op = "createTable" => NewTable(live, st).name = st.on)
        /\ \A j \in DOMAIN script' : j + 1 \in DOMAIN script /\ script'[j] = script[j + 1]
        /\ \A j \in DOMAIN script' : Follows(target, st, script[j + 1])
    BY <1>1, <1>4, ExecuteIs
  <2> HIDE DEF st
  <2>2. DbTyped(target) /\ DbTyped(live) /\ \A j \in DOMAIN script : MeantFor(target, script[j])
    BY <1>1, DeclaredTyped DEF MigrateInv, TypeInv
  <2>3. ASSUME NEW j \in DOMAIN script' PROVE DropMeant(live', target, script'[j])
    <3> DEFINE b == script[j + 1]
    <3>1. script'[j] = b /\ MeantFor(target, b) /\ DropMeant(live, target, b) /\ Follows(target, st, b)
      BY <1>1, <2>1, <2>2
    <3> HIDE DEF b
    <3>2. DropMeant(live', target, b)
      BY <1>1, <2>1, <2>2, <3>1, DropStays DEF SecondFree
    <3> QED BY <3>1, <3>2
  <2> QED BY <1>2, <2>3, DropsInNext
<1>5. CASE Interrupt
  <2>1. DOMAIN script' = {}
    BY <1>5, EmptyList DEF Interrupt
  <2> QED BY <1>2, <2>1, DropsInNext
<1>6. CASE UNCHANGED <<live, script>>
  BY <1>1, <1>2, <1>6, DropsInNext
<1>7. Finish \/ UNCHANGED vars => UNCHANGED <<live, script>>
  BY DEF Finish, vars
<1> QED BY <1>3, <1>4, <1>5, <1>6, <1>7 DEF Next

LEMMA SharedInitInv ==
  ASSUME "mariadb" \in Dialects => \A m \in Migrations["mariadb"] : SecondKeysFree(m[2])
  PROVE  Init => SharedInv
<1> SUFFICES ASSUME Init PROVE SharedInv
  OBVIOUS
<1>1. MigrateInv
  BY InitInv
<1>2. script = <<>> /\ DOMAIN <<>> = {}
  BY EmptyList DEF Init
<1>3. SecondFree
  BY DEF Init, SecondFree
<1> QED BY <1>1, <1>2, <1>3 DEF SharedInv, DropInv

\* Stays is what a step of KeepsShared may do.
Stays(L, M, u) ==
  HasTable(L, u.name) =>
    /\ HasTable(M, u.name)
    /\ Names(u.cols) \cap Names(TableOf(L, u.name).cols) \subseteq Names(TableOf(M, u.name).cols)
    /\ ToSet(u.indexes) \cap ToSet(TableOf(L, u.name).indexes) \subseteq ToSet(TableOf(M, u.name).indexes)

LEMMA SharedStep == SharedInv /\ [Next]_vars => \A u \in ToSet(target.tables) : Stays(live, live', u)
<1> SUFFICES ASSUME SharedInv, [Next]_vars, NEW u \in ToSet(target.tables) PROVE Stays(live, live', u)
  OBVIOUS
<1>1. CASE live' = live
  BY <1>1 DEF Stays
<1>2. CASE Execute
  <2> DEFINE st == Head(script)
  <2>1. MigrateInv /\ DropInv /\ SecondFree
    BY DEF SharedInv
  <2>2. /\ script # <<>> /\ st = script[1] /\ MeantFor(target, st)
        /\ Runnable(live, st) /\ Stepped(live, live', st)
        /\ (st.op = "createTable" => NewTable(live, st).name = st.on)
    BY <1>2, <2>1, ExecuteIs
  <2> HIDE DEF st
  <2>3. DbTyped(target) /\ DbTyped(live) /\ IndexesApart(live, target) /\ IsList(script)
    BY <2>1, DeclaredTyped DEF MigrateInv, TypeInv, OrderInv
  <2>4. 1 \in DOMAIN script
    <3>1. Len(script) # 0 /\ Len(script) \in Nat /\ DOMAIN script = 1 .. Len(script)
      BY <2>2, <2>3, ListIs
    <3> QED BY <3>1
  <2>5. DropMeant(live, target, st)
    BY <2>1, <2>2, <2>4 DEF DropInv
  <2> QED BY <2>1, <2>2, <2>3, <2>5, SharedStays DEF SecondFree, Stays
<1> QED BY <1>1, <1>2 DEF Next, Read, Interrupt, Finish, vars

\* Where no target gives an index the name of a second key of MariaDB, no step
\* of a migration, cut off or not, takes away a table, a column or an index
\* that the database and the target both have (Migrate, diffIndexes).
THEOREM SharedKept ==
  ASSUME "mariadb" \in Dialects => \A m \in Migrations["mariadb"] : SecondKeysFree(m[2])
  PROVE  Spec => KeepsShared
<1>1. Init => SharedInv
  BY SharedInitInv
<1>2. SharedInv /\ [Next]_vars => SharedInv'
  BY StepInv, DropStep, SecondFreeStep DEF SharedInv
<1>3. SharedInv /\ [Next]_vars =>
        [\A u \in ToSet(target.tables) :
           HasTable(live, u.name) =>
             /\ HasTable(live', u.name)
             /\ Names(u.cols) \cap Names(TableOf(live, u.name).cols)
                  \subseteq Names(TableOf(live', u.name).cols)
             /\ ToSet(u.indexes) \cap ToSet(TableOf(live, u.name).indexes)
                  \subseteq ToSet(TableOf(live', u.name).indexes)]_vars
  BY SharedStep DEF Stays
<1> QED BY <1>1, <1>2, <1>3, PTL DEF Spec, KeepsShared

-----------------------------------------------------------------------------
(* No statement is refused: what each needs is there, or comes before it.  *)

\* The statements before a place of a script.
Before(s, j) == {s[i] : i \in {k \in DOMAIN s : k < j}}

\* The holders of a name go with the statements of E.
NameFreed(L, E, n) ==
  \A v \in ToSet(L.tables) :
    /\ v.name = n => \E e \in E : e.op = "dropTable" /\ e.on = n
    /\ \A x \in ToSet(v.indexes) : x.name = n =>
         \E e \in E : (e.op = "dropIndex" /\ e.what = n) \/ (e.op = "dropTable" /\ e.on = v.name)

\* A column is in its table, or comes with the statements of E.
Brings(e, on, k) ==
  /\ e.on = on
  /\ (e.op = "addColumn" /\ e.what.name = k) \/ (e.op = "createTable" /\ k \in Names(e.what.cols))

Comes(L, E, on, k) ==
  \/ HasTable(L, on) /\ k \in Names(TableOf(L, on).cols)
  \/ \E e \in E : Brings(e, on, k)

\* After the statements of E the database has what st needs.
Ready(L, E, st) ==
  /\ st.op = "dropTable" => HasTable(L, st.on)
  /\ st.op = "createTable" => NameFreed(L, E, st.on)
  /\ st.op = "addColumn" => HasTable(L, st.on) /\ st.what.name \notin Names(TableOf(L, st.on).cols)
  /\ st.op = "createIndex" =>
       NameFreed(L, E, st.what.name) /\ \A k \in ToSet(st.what.keys) : Comes(L, E, st.on, k)

\* Statements of one kind are about different things.
Differ(a, b) ==
  /\ a.op \in {"createTable", "dropTable"} /\ b.op = a.op => a.on # b.on
  /\ a.op = "addColumn" /\ b.op = "addColumn" /\ a.on = b.on => a.what.name # b.what.name
  /\ a.op = "createIndex" /\ b.op = "createIndex" /\ a.what.name = b.what.name =>
       dialect = "mariadb" /\ a.on # b.on

Singles(s) == \A p, q \in DOMAIN s : p < q => Differ(s[p], s[q])

ReadyInv ==
  dialect = "sqlite" =>
    /\ NamesStay(live, target) /\ Addable(live, target)
    /\ Singles(script)
    /\ \A j \in DOMAIN script : Ready(live, Before(script, j), script[j])

-----------------------------------------------------------------------------
(* Places in a script. *)

InFirst(u, j, s) == j \in DOMAIN s /\ u[j] = s[j] /\ Before(u, j) = Before(s, j)

InSecond(u, j, s, t) == \E i \in DOMAIN t : u[j] = t[i] /\ Before(u, j) = ToSet(s) \cup Before(t, i)

LEMMA BeforeIs ==
  ASSUME NEW s, NEW t, IsList(s), IsList(t), NEW u, u = s \o t, NEW j \in DOMAIN u
  PROVE  InFirst(u, j, s) \/ InSecond(u, j, s, t)
<1> DEFINE m == Len(s)
           n == Len(t)
<1>1. m \in Nat /\ n \in Nat /\ DOMAIN s = 1 .. m /\ DOMAIN t = 1 .. n /\ Len(s) = m /\ Len(t) = n
  BY ListIs
<1> HIDE DEF m, n
<1>2. ConcatAt(u, s, t, m, n)
  BY <1>1, ConcatLengths
<1>3. DOMAIN u = 1 .. m + n
  BY <1>2, ListIs DEF ConcatAt
<1>4. \A i \in 1 .. m : u[i] = s[i]
  BY <1>2 DEF ConcatAt
<1>5. \A i \in 1 .. n : u[m + i] = t[i]
  BY <1>2 DEF ConcatAt
<1>6. CASE j <= m
  <2>1. j \in 1 .. m
    BY <1>1, <1>3, <1>6
  <2>2. {k \in 1 .. m + n : k < j} = {k \in 1 .. m : k < j}
    BY <1>1, <2>1
  <2>3. \A k \in {i \in 1 .. m : i < j} : u[k] = s[k]
    BY <1>4
  <2>4. Before(u, j) = Before(s, j)
    BY <1>1, <1>3, <2>2, <2>3 DEF Before
  <2> QED BY <1>1, <1>4, <2>1, <2>4 DEF InFirst
<1>7. CASE m < j
  <2> DEFINE i == j - m
  <2>1. i \in 1 .. n /\ j = m + i
    BY <1>1, <1>3, <1>7
  <2> HIDE DEF i
  <2>2. ASSUME NEW x \in Before(u, j) PROVE x \in ToSet(s) \cup Before(t, i)
    <3>1. PICK k \in 1 .. m + n : k < j /\ x = u[k]
      BY <1>3 DEF Before
    <3>2. CASE k <= m
      <4>1. k \in 1 .. m
        BY <1>1, <3>2
      <4> QED BY <1>1, <1>4, <3>1, <4>1 DEF ToSet
    <3>3. CASE m < k
      <4>1. k - m \in 1 .. n /\ k - m < i /\ m + (k - m) = k
        BY <1>1, <2>1, <3>1, <3>3
      <4>2. x = t[k - m]
        BY <1>5, <3>1, <4>1
      <4> QED BY <1>1, <4>1, <4>2 DEF Before
    <3> QED BY <1>1, <3>2, <3>3
  <2>3. ASSUME NEW x \in ToSet(s) PROVE x \in Before(u, j)
    <3>1. PICK k \in 1 .. m : x = s[k]
      BY <1>1 DEF ToSet
    <3>2. k \in 1 .. m + n /\ k < j
      BY <1>1, <1>7, <2>1
    <3> QED BY <1>3, <1>4, <3>1, <3>2 DEF Before
  <2>4. ASSUME NEW x \in Before(t, i) PROVE x \in Before(u, j)
    <3>1. PICK k \in 1 .. n : k < i /\ x = t[k]
      BY <1>1 DEF Before
    <3>2. m + k \in 1 .. m + n /\ m + k < j
      BY <1>1, <2>1, <3>1
    <3>3. x = u[m + k]
      BY <1>5, <3>1
    <3> QED BY <1>3, <3>2, <3>3 DEF Before
  <2>5. Before(u, j) = ToSet(s) \cup Before(t, i)
    BY <2>2, <2>3, <2>4
  <2> QED BY <1>1, <1>5, <2>1, <2>5 DEF InSecond
<1>8. j \in Nat
  BY <1>1, <1>3
<1> QED BY <1>1, <1>6, <1>7, <1>8

\* What comes before a statement in its list comes before it in a list of lists.
LEMMA FlattenBefore ==
  ASSUME NEW ss, IsListOfLists(ss), NEW f, f = FlattenSeq(ss), NEW p \in DOMAIN f
  PROVE  \E i \in DOMAIN ss : \E k \in DOMAIN ss[i] : f[p] = ss[i][k] /\ Before(ss[i], k) \subseteq Before(f, p)
<1>1. IsList(f) /\ \E at : Offsets(at, ss)
  BY FlattenOffsets
<1>2. PICK at : Offsets(at, ss)
  BY <1>1
<1>3. DOMAIN f = 1 .. Len(f) /\ Len(f) \in Nat
  BY <1>1, ListIs
<1>4. \E i, k : IsPlaceOf(p, ss, at, i, k)
  BY <1>2, <1>3, OffsetsCover
<1>5. PICK i, k : IsPlaceOf(p, ss, at, i, k)
  BY <1>4
<1>6. /\ i \in DOMAIN ss /\ k \in DOMAIN ss[i] /\ f[p] = ss[i][k]
      /\ i \in Nat /\ i <= Len(ss) /\ i >= 1 /\ k \in 1 .. Len(ss[i]) /\ Len(ss[i]) \in Nat
      /\ p = at[i - 1] + k /\ at[i - 1] \in Nat
  BY <1>2, <1>5, PlaceIs
<1>7. \A l \in 1 .. Len(ss[i]) : f[at[i - 1] + l] = ss[i][l]
  <2>1. IsList(ss)
    BY DEF IsListOfLists
  <2>2. i \in 1 .. Len(ss)
    BY <1>6, <2>1, ListIs
  <2> QED BY <1>2, <2>2 DEF Offsets
<1>8. ASSUME NEW x \in Before(ss[i], k) PROVE x \in Before(f, p)
  <2>1. DOMAIN ss[i] = 1 .. Len(ss[i])
    BY <1>6, ListIs DEF IsListOfLists
  <2>2. PICK l \in 1 .. Len(ss[i]) : l < k /\ x = ss[i][l]
    BY <2>1 DEF Before
  <2> DEFINE a == at[i - 1]
  <2>3. a \in Nat /\ p = a + k /\ f[a + l] = ss[i][l]
    BY <1>6, <1>7
  <2> HIDE DEF a
  <2>4. a + l \in 1 .. Len(f) /\ a + l < p
    BY <1>3, <1>6, <2>2, <2>3
  <2> QED BY <1>3, <2>2, <2>3, <2>4 DEF Before
<1> QED BY <1>6, <1>8

-----------------------------------------------------------------------------
(* Where statements stand in a script. *)

\* The statements of E drop the removed tables, and the changed indexes of the others.
TablesDropped(old, new, E) ==
  \A v \in ToSet(old.tables) : ~HasTable(new, v.name) => Stmt("dropTable", v.name, "") \in E

IndexesDropped(ot, nt, E) ==
  \A x \in ToSet(ot.indexes) : ~Unchanged(x, nt) => Stmt("dropIndex", nt.name, x.name) \in E

\* They change the indexes of a table, and add its columns.
ColumnsAdded(ot, nt, new, E) ==
  \A c \in ToSet(nt.cols) :
    c.name \notin Names(ot.cols) => Stmt("addColumn", nt.name, RenderColumn(c, FALSE, new)) \in E

Altered(ot, nt, new, E) == IndexesDropped(ot, nt, E) /\ ColumnsAdded(ot, nt, new, E)

\* They make its new indexes whose names are, or are not, those of removed tables.
CreatedSoon(ot, nt, removed, E) ==
  \A x \in ToSet(nt.indexes) :
    x \notin ToSet(ot.indexes) /\ x.name \notin removed => Stmt("createIndex", nt.name, x) \in E

CreatedLate(ot, nt, removed, E) ==
  \A x \in ToSet(nt.indexes) :
    x \notin ToSet(ot.indexes) /\ x.name \in removed => Stmt("createIndex", nt.name, x) \in E

Cleared(old, new, E) ==
  /\ TablesDropped(old, new, E)
  /\ \A nt \in ToSet(new.tables) :
       HasTable(old, nt.name) => IndexesDropped(TableOf(old, nt.name), nt, E)

IndexPlaced(old, new, E, nt, x) ==
  IF HasTable(old, nt.name)
  THEN /\ x \notin ToSet(TableOf(old, nt.name).indexes)
       /\ Altered(TableOf(old, nt.name), nt, new, E)
       /\ x.name \in RemovedNames(old, new) => TablesDropped(old, new, E)
  ELSE CreateTable(nt, new) \in E /\ Cleared(old, new, E)

\* A statement after those of E.
Placed(old, new, E, st) ==
  /\ st.op = "dropTable" => HasTable(old, st.on)
  /\ st.op = "createTable" => ~HasTable(old, st.on) /\ Cleared(old, new, E)
  /\ st.op = "addColumn" => HasTable(old, st.on) /\ st.what.name \notin Names(TableOf(old, st.on).cols)
  /\ st.op = "createIndex" =>
       \E nt \in ToSet(new.tables) : Indexing(nt, st) /\ IndexPlaced(old, new, E, nt, st.what)

LEMMA PlacedLater ==
  ASSUME NEW old, NEW new, NEW E, NEW st, Placed(old, new, E, st), NEW F, E \subseteq F
  PROVE  Placed(old, new, F, st)
<1>1. TablesDropped(old, new, E) => TablesDropped(old, new, F)
  BY DEF TablesDropped
<1>2. \A ot, nt : IndexesDropped(ot, nt, E) => IndexesDropped(ot, nt, F)
  BY DEF IndexesDropped
<1>3. \A ot, nt : Altered(ot, nt, new, E) => Altered(ot, nt, new, F)
  BY <1>2 DEF Altered, ColumnsAdded
<1>4. Cleared(old, new, E) => Cleared(old, new, F)
  BY <1>1, <1>2 DEF Cleared
<1>5. \A nt, x : IndexPlaced(old, new, E, nt, x) => IndexPlaced(old, new, F, nt, x)
  BY <1>1, <1>3, <1>4 DEF IndexPlaced
<1> QED BY <1>4, <1>5 DEF Placed

\* Part of a script, after the statements of E.
PlacedPart(old, new, E, s) ==
  /\ IsList(s) /\ Singles(s)
  /\ \A j \in DOMAIN s : Placed(old, new, E \cup Before(s, j), s[j])

AllDiffer(a, b) == \A x \in ToSet(a), y \in ToSet(b) : Differ(x, y)

LEMMA JoinPlaced ==
  ASSUME NEW old, NEW new, NEW E, NEW a, PlacedPart(old, new, E, a),
         NEW b, PlacedPart(old, new, E \cup ToSet(a), b), AllDiffer(a, b), NEW u, u = a \o b
  PROVE  PlacedPart(old, new, E, u)
<1>1. IsList(a) /\ IsList(b)
  BY DEF PlacedPart
<1>2. IsList(u) /\ ToSet(u) = ToSet(a) \cup ToSet(b)
  BY <1>1, ConcatElements
<1>3. ASSUME NEW p \in DOMAIN u, NEW q \in DOMAIN u, p < q PROVE Differ(u[p], u[q])
  <2>1. ComesFirst(a, u[p], u[q]) \/ ComesFirst(b, u[p], u[q]) \/ (u[p] \in ToSet(a) /\ u[q] \in ToSet(b))
    BY <1>1, <1>3, ConcatOrder
  <2>2. CASE ComesFirst(a, u[p], u[q])
    BY <2>2 DEF ComesFirst, PlacedPart, Singles
  <2>3. CASE ComesFirst(b, u[p], u[q])
    BY <2>3 DEF ComesFirst, PlacedPart, Singles
  <2>4. CASE u[p] \in ToSet(a) /\ u[q] \in ToSet(b)
    BY <2>4 DEF AllDiffer
  <2> QED BY <2>1, <2>2, <2>3, <2>4
<1>4. ASSUME NEW j \in DOMAIN u PROVE Placed(old, new, E \cup Before(u, j), u[j])
  <2>1. CASE InFirst(u, j, a)
    BY <2>1 DEF PlacedPart, InFirst
  <2>2. CASE InSecond(u, j, a, b)
    <3>1. PICK i \in DOMAIN b : u[j] = b[i] /\ Before(u, j) = ToSet(a) \cup Before(b, i)
      BY <2>2 DEF InSecond
    <3>2. E \cup Before(u, j) = (E \cup ToSet(a)) \cup Before(b, i)
      BY <3>1
    <3> QED BY <3>1, <3>2 DEF PlacedPart
  <2> QED BY <1>1, <2>1, <2>2, BeforeIs
<1>5. Singles(u)
  BY <1>3 DEF Singles
<1> QED BY <1>2, <1>4, <1>5 DEF PlacedPart

\* Statements that need no place.
Plain(s) == IsList(s) /\ \A st \in ToSet(s) : st.op \notin {"createTable", "dropTable", "addColumn", "createIndex"}

LEMMA PlainPlaced ==
  ASSUME NEW s, Plain(s), NEW old, NEW new, NEW E
  PROVE  PlacedPart(old, new, E, s)
<1>1. \A j \in DOMAIN s : s[j].op \notin {"createTable", "dropTable", "addColumn", "createIndex"}
  BY DEF Plain, ToSet
<1>2. Singles(s)
  BY <1>1 DEF Singles, Differ
<1>3. \A j \in DOMAIN s : Placed(old, new, E \cup Before(s, j), s[j])
  BY <1>1 DEF Placed
<1> QED BY <1>2, <1>3 DEF PlacedPart, Plain

LEMMA PlainDiffer ==
  ASSUME NEW s, Plain(s), NEW t
  PROVE  AllDiffer(s, t) /\ AllDiffer(t, s)
BY DEF Plain, AllDiffer, Differ

LEMMA JoinPlain ==
  ASSUME NEW a, Plain(a), NEW b, Plain(b), NEW u, u = a \o b
  PROVE  Plain(u)
<1>1. IsList(u) /\ ToSet(u) = ToSet(a) \cup ToSet(b)
  BY ConcatElements DEF Plain
<1> QED BY <1>1 DEF Plain

\* Statements for some of a list.
DifferentFor(s, K, g) == \A i, j \in DOMAIN s : i \in K /\ j \in K /\ i # j => Differ(g[i], g[j])
PlacedFor(old, new, E, s, K, g) == \A i \in DOMAIN s : i \in K => Placed(old, new, E, g[i])

ChosenFrom(f, s, K, g) ==
  /\ \A x \in ToSet(f) : \E i \in DOMAIN s : i \in K /\ x = g[i]
  /\ \A i \in DOMAIN s : i \in K => g[i] \in ToSet(f)

LEMMA ChosenPlaced ==
  ASSUME NEW old, NEW new, NEW E, NEW s, IsList(s), NEW K, NEW g, NEW f, f = Chosen(s, K, g),
         DifferentFor(s, K, g), PlacedFor(old, new, E, s, K, g)
  PROVE  PlacedPart(old, new, E, f) /\ ChosenFrom(f, s, K, g)
<1>1. IsList(f) /\ \E at : ChosenAt(at, f, s, K, g)
  BY ChosenIs
<1>2. PICK at : ChosenAt(at, f, s, K, g)
  BY <1>1
<1>3. DOMAIN s \subseteq Nat
  BY ListIs
<1>4. ASSUME NEW p \in DOMAIN f, NEW q \in DOMAIN f, p < q PROVE Differ(f[p], f[q])
  <2>1. at[p] \in DOMAIN s /\ at[p] \in K /\ f[p] = g[at[p]] /\ at[q] \in DOMAIN s /\ at[q] \in K /\ f[q] = g[at[q]]
    BY <1>2 DEF ChosenAt
  <2>2. at[p] < at[q]
    BY <1>2, <1>4 DEF ChosenAt
  <2>3. at[p] # at[q]
    BY <1>3, <2>1, <2>2
  <2> QED BY <2>1, <2>3 DEF DifferentFor
<1>5. ASSUME NEW j \in DOMAIN f PROVE Placed(old, new, E \cup Before(f, j), f[j])
  <2>1. at[j] \in DOMAIN s /\ at[j] \in K /\ f[j] = g[at[j]]
    BY <1>2 DEF ChosenAt
  <2>2. Placed(old, new, E, f[j])
    BY <2>1 DEF PlacedFor
  <2> QED BY <2>2, PlacedLater
<1>6. Singles(f)
  BY <1>4 DEF Singles
<1>7. PlacedPart(old, new, E, f)
  BY <1>1, <1>5, <1>6 DEF PlacedPart
<1>8. \A x \in ToSet(f) : \E i \in DOMAIN s : i \in K /\ x = g[i]
  BY <1>2 DEF ChosenAt, ToSet
<1>9. \A i \in DOMAIN s : i \in K => g[i] \in ToSet(f)
  BY <1>2 DEF ChosenAt, ToSet
<1> QED BY <1>7, <1>8, <1>9 DEF ChosenFrom

-----------------------------------------------------------------------------
(* The statements for a table of both schemas. *)

LEMMA IndexDropsPlain ==
  ASSUME NEW ot, IsList(ot.indexes), NEW nt
  PROVE  Plain(IndexDrops(ot, nt)) /\ IndexesDropped(ot, nt, ToSet(IndexDrops(ot, nt)))
<1> DEFINE s == ot.indexes
           K == {i \in DOMAIN s : ~Unchanged(s[i], nt)}
           g == [i \in DOMAIN s |-> Stmt("dropIndex", nt.name, s[i].name)]
           f == IndexDrops(ot, nt)
<1>1. f = Chosen(s, K, g)
  BY DEF IndexDrops, Each, When, Chosen
<1>2. \A i \in DOMAIN s : g[i].op = "dropIndex"
  BY StmtIs
<1>3. ASSUME NEW x \in ToSet(ot.indexes), ~Unchanged(x, nt)
      PROVE  \E i \in DOMAIN s : i \in K /\ g[i] = Stmt("dropIndex", nt.name, x.name)
  BY <1>3 DEF ToSet
<1> HIDE DEF K, g, f
<1>4. IsList(f) /\ \E at : ChosenAt(at, f, s, K, g)
  BY <1>1, ChosenIs
<1>5. PICK at : ChosenAt(at, f, s, K, g)
  BY <1>4
<1>6. \A st \in ToSet(f) : st.op = "dropIndex"
  BY <1>2, <1>5 DEF ChosenAt, ToSet
<1>7. \A i \in DOMAIN s : i \in K => g[i] \in ToSet(f)
  BY <1>5 DEF ChosenAt, ToSet
<1>8. IndexesDropped(ot, nt, ToSet(f))
  BY <1>3, <1>7 DEF IndexesDropped
<1> QED BY <1>4, <1>6, <1>8 DEF Plain, f

LEMMA KeyStatementsPlain ==
  ASSUME NEW ot, NEW nt
  PROVE  Plain(KeyDrops(ot, nt)) /\ Plain(KeyAdds(ot, nt))
<1>1. ASSUME NEW c, NEW st, st.op \in {"dropKey", "renameKey", "addKey", "comment"} PROVE Plain(When(c, st))
  BY <1>1, WhenIs DEF Plain
<1>2. Plain(KeyDrops(ot, nt))
  <2> DEFINE y == Stmt("dropKey", nt.name, PkConstraintName(ot))
  <2>1. \E c : KeyDrops(ot, nt) = When(c, y)
    BY DEF KeyDrops
  <2>2. y.op = "dropKey"
    BY StmtIs
  <2> HIDE DEF y
  <2> QED BY <1>1, <2>1, <2>2
<1>3. Plain(KeyAdds(ot, nt))
  <2> DEFINE y == Stmt("renameKey", nt.name, [from |-> PkConstraintName(ot), to |-> PkConstraintName(nt)])
             z == Stmt("addKey", nt.name, [keys |-> PkColumns(nt), name |-> nt.key])
  <2>1. \E c : KeyAdds(ot, nt) = When(c, y) \/ KeyAdds(ot, nt) = When(c, z) \/ KeyAdds(ot, nt) = When(c, Comment)
    <3>1. <<Comment>> = When(TRUE, Comment)
      BY DEF When
    <3> QED BY <3>1 DEF KeyAdds
  <2>2. y.op = "renameKey" /\ z.op = "addKey"
    BY StmtIs
  <2> HIDE DEF y, z
  <2> QED BY <1>1, <2>1, <2>2, CommentIs
<1> QED BY <1>2, <1>3

LEMMA ColumnsPlain ==
  ASSUME NEW ot, NEW nt, IsList(ot.cols), IsList(nt.cols), \A c \in ToSet(nt.cols) : DOMAIN c = Fields, NEW old, NEW new
  PROVE  Plain(ColumnDrops(ot, nt)) /\ Plain(ColumnChanges(ot, nt, old, new))
<1>1. ASSUME NEW st, DropsColumn(ot, nt, st) PROVE st.op \in {"comment", "dropColumn"}
  BY <1>1, StmtIs, CommentIs DEF DropsColumn
<1>2. ASSUME NEW st, ChangesColumn(nt, new, st) PROVE st.op \in {"comment"} \cup OnColumn
  <2>1. CASE st = Comment
    BY <2>1, CommentIs
  <2>2. CASE \E c \in ToSet(nt.cols) : ForColumn(c, nt, new, st)
    <3>1. PICK c \in ToSet(nt.cols) : ForColumn(c, nt, new, st)
      BY <2>2
    <3>2. AltersColumn(c, nt, new, st)
      BY <3>1, ForColumnIs
    <3> QED BY <3>2 DEF AltersColumn
  <2> QED BY <1>2, <2>1, <2>2 DEF ChangesColumn
<1>3. Plain(ColumnDrops(ot, nt))
  BY <1>1, ColumnDropsAre DEF Plain
<1>4. Plain(ColumnChanges(ot, nt, old, new))
  BY <1>2, ColumnChangesAre DEF Plain, OnColumn
<1> QED BY <1>3, <1>4

OnlyAdds(nt, f) == \A st \in ToSet(f) : st.op = "addColumn" /\ st.on = nt.name

\* Each column is added once.
LEMMA ColumnAddsPlaced ==
  ASSUME NEW old, NEW new, NEW ot, NEW nt, TableTyped(nt), HasTable(old, nt.name), ot = TableOf(old, nt.name),
         NEW E, NEW f, f = ColumnAdds(ot, nt, new)
  PROVE  PlacedPart(old, new, E, f) /\ ColumnsAdded(ot, nt, new, ToSet(f)) /\ OnlyAdds(nt, f)
<1> DEFINE s == nt.cols
           K == {i \in DOMAIN s : s[i].name \notin Names(ot.cols)}
           g == [i \in DOMAIN s |-> Stmt("addColumn", nt.name, RenderColumn(s[i], FALSE, new))]
<1>1. f = Chosen(s, K, g)
  BY DEF ColumnAdds, When, Chosen
<1>2. ASSUME NEW i \in DOMAIN s PROVE g[i].op = "addColumn" /\ g[i].on = nt.name /\ g[i].what.name = s[i].name
  <2>1. DOMAIN s[i] = Fields
    BY ColumnFields
  <2> DEFINE c == s[i]
             r == RenderColumn(c, FALSE, new)
  <2>2. r.name = c.name
    <3>1. DOMAIN c = Fields
      BY <2>1
    <3> HIDE DEF c
    <3> QED BY <3>1, RenderedIs
  <2>3. g[i] = Stmt("addColumn", nt.name, r)
    OBVIOUS
  <2> HIDE DEF g, r
  <2> QED BY <2>2, <2>3, StmtIs
<1>3. IsList(s) /\ Distinct(s)
  BY DEF TableTyped
<1>4. \A i \in K : s[i].name \notin Names(ot.cols)
  OBVIOUS
<1>5. ASSUME NEW c \in ToSet(nt.cols), c.name \notin Names(ot.cols)
      PROVE  \E i \in DOMAIN s : i \in K /\ g[i] = Stmt("addColumn", nt.name, RenderColumn(c, FALSE, new))
  BY <1>5 DEF ToSet
<1> HIDE DEF K, g
<1>6. DifferentFor(s, K, g)
  BY <1>2, <1>3 DEF DifferentFor, Differ, Distinct
<1>7. PlacedFor(old, new, E, s, K, g)
  BY <1>2, <1>4 DEF PlacedFor, Placed
<1>8. PlacedPart(old, new, E, f) /\ ChosenFrom(f, s, K, g)
  BY <1>1, <1>3, <1>6, <1>7, ChosenPlaced
<1>9. OnlyAdds(nt, f)
  BY <1>2, <1>8 DEF OnlyAdds, ChosenFrom
<1>10. ColumnsAdded(ot, nt, new, ToSet(f))
  BY <1>5, <1>8 DEF ColumnsAdded, ChosenFrom
<1> QED BY <1>8, <1>9, <1>10

\* New indexes of a table, after what they wait for.
WaitsFor(old, new, E, s, K) ==
  \A i \in DOMAIN s : i \in K /\ s[i].name \in RemovedNames(old, new) => TablesDropped(old, new, E)

CreatedFrom(nt, s, K, f) ==
  /\ \A st \in ToSet(f) : Indexing(nt, st) /\ \E i \in DOMAIN s : i \in K /\ st.what = s[i]
  /\ \A i \in DOMAIN s : i \in K => Stmt("createIndex", nt.name, s[i]) \in ToSet(f)

LEMMA CreatesPlaced ==
  ASSUME NEW old, NEW new, NEW nt \in ToSet(new.tables), TableTyped(nt), Distinct(nt.indexes), HasTable(old, nt.name),
         NEW ot, ot = TableOf(old, nt.name), NEW E, Altered(ot, nt, new, E),
         NEW s, s = NewIndexes(ot, nt), NEW K,
         WaitsFor(old, new, E, s, K),
         NEW f, f = Chosen(s, K, [i \in DOMAIN s |-> Stmt("createIndex", nt.name, s[i])])
  PROVE  PlacedPart(old, new, E, f) /\ CreatedFrom(nt, s, K, f)
<1> DEFINE g == [i \in DOMAIN s |-> Stmt("createIndex", nt.name, s[i])]
<1>1. IsList(s) /\ ToSet(s) = {x \in ToSet(nt.indexes) : ~Unchanged(x, ot)} /\ Distinct(s)
  BY NewIndexesIs DEF TableTyped
<1>2. ASSUME NEW i \in DOMAIN s
      PROVE  /\ g[i].op = "createIndex" /\ g[i].on = nt.name /\ g[i].what = s[i]
             /\ s[i] \in ToSet(nt.indexes) /\ ~Unchanged(s[i], ot)
  <2>1. s[i] \in ToSet(s)
    BY DEF ToSet
  <2> QED BY <1>1, <2>1, StmtIs
<1>3. f = Chosen(s, K, g)
  OBVIOUS
<1>10. \A i \in DOMAIN s : g[i] = Stmt("createIndex", nt.name, s[i])
  OBVIOUS
<1> HIDE DEF g
<1>4. DifferentFor(s, K, g)
  BY <1>1, <1>2 DEF DifferentFor, Differ, Distinct
<1>5. ASSUME NEW i \in DOMAIN s, i \in K PROVE Placed(old, new, E, g[i])
  <2>1. Indexing(nt, g[i])
    BY <1>2 DEF Indexing
  <2>2. s[i] \notin ToSet(ot.indexes)
    BY <1>2 DEF Unchanged
  <2>3. s[i].name \in RemovedNames(old, new) => TablesDropped(old, new, E)
    BY <1>5 DEF WaitsFor
  <2>4. IndexPlaced(old, new, E, nt, g[i].what)
    BY <1>2, <2>2, <2>3 DEF IndexPlaced
  <2> QED BY <1>2, <2>1, <2>4 DEF Placed
<1>6. PlacedFor(old, new, E, s, K, g)
  BY <1>5 DEF PlacedFor
<1>7. IsList(s)
  BY <1>1
<1>8. PlacedPart(old, new, E, f) /\ ChosenFrom(f, s, K, g)
  BY <1>3, <1>4, <1>6, <1>7, ChosenPlaced
<1>11. \A st \in ToSet(f) : Indexing(nt, st) /\ \E i \in DOMAIN s : i \in K /\ st.what = s[i]
  BY <1>2, <1>8 DEF Indexing, ChosenFrom
<1>12. \A i \in DOMAIN s : i \in K => Stmt("createIndex", nt.name, s[i]) \in ToSet(f)
  BY <1>8, <1>10 DEF ChosenFrom
<1>9. CreatedFrom(nt, s, K, f)
  BY <1>11, <1>12 DEF CreatedFrom
<1> QED BY <1>8, <1>9

\* An index that is new is one of those in CreatedFrom.
LEMMA NewIndexMade ==
  ASSUME NEW ot, NEW nt, NEW s, ToSet(s) = {y \in ToSet(nt.indexes) : ~Unchanged(y, ot)}, NEW K, NEW f,
         CreatedFrom(nt, s, K, f), NEW x \in ToSet(nt.indexes), x \notin ToSet(ot.indexes),
         \A i \in DOMAIN s : s[i] = x => i \in K
  PROVE  Stmt("createIndex", nt.name, x) \in ToSet(f)
<1>1. ~Unchanged(x, ot)
  BY DEF Unchanged
<1>2. PICK i \in DOMAIN s : s[i] = x
  BY <1>1 DEF ToSet
<1> QED BY <1>2 DEF CreatedFrom

\* A statement of a table that stays.
InTable(nt, removed, st) ==
  /\ st.op \notin {"createTable", "dropTable"}
  /\ st.op = "addColumn" => st.on = nt.name
  /\ st.op = "createIndex" => Indexing(nt, st) /\ st.what.name \notin removed

LEMMA ModifiedTablePlaced ==
  ASSUME NEW old, NEW new, NEW nt \in ToSet(new.tables), TableTyped(nt), Distinct(nt.indexes), HasTable(old, nt.name),
         NEW ot, ot = TableOf(old, nt.name), TableTyped(ot), NEW removed, removed = RemovedNames(old, new),
         NEW f, f = ModifiedTable(ot, nt, old, new, removed)
  PROVE  /\ PlacedPart(old, new, {}, f) /\ Altered(ot, nt, new, ToSet(f))
         /\ CreatedSoon(ot, nt, removed, ToSet(f))
         /\ \A st \in ToSet(f) : InTable(nt, removed, st)
<1> DEFINE a == IndexDrops(ot, nt)
           b == KeyDrops(ot, nt)
           c == ColumnAdds(ot, nt, new)
           d == ColumnDrops(ot, nt)
           e == ColumnChanges(ot, nt, old, new)
           h == KeyAdds(ot, nt)
           x == IndexCreates(ot, nt, removed)
           cd == c \o d
           cde == cd \o e
           ab == a \o b
           abc == ab \o cde
           abch == abc \o h
           all == abch \o x
<1>1. f = all
  <2>1. DiffTable(ot, nt, old, new) = cde
    BY ColumnParts
  <2> QED BY <2>1 DEF ModifiedTable
<1>2. IsList(ot.cols) /\ IsList(nt.cols) /\ IsList(ot.indexes) /\ \A y \in ToSet(nt.cols) : DOMAIN y = Fields
  BY DEF TableTyped
<1>3. Plain(a) /\ IndexesDropped(ot, nt, ToSet(a)) /\ Plain(b) /\ Plain(d) /\ Plain(e) /\ Plain(h)
  BY <1>2, IndexDropsPlain, KeyStatementsPlain, ColumnsPlain
<1>4. ASSUME NEW E PROVE PlacedPart(old, new, E, c) /\ ColumnsAdded(ot, nt, new, ToSet(c)) /\ OnlyAdds(nt, c)
  BY ColumnAddsPlaced
<1>5. ASSUME NEW E, Altered(ot, nt, new, E)
      PROVE  /\ PlacedPart(old, new, E, x) /\ CreatedSoon(ot, nt, removed, ToSet(x))
             /\ \A st \in ToSet(x) : Indexing(nt, st) /\ st.what.name \notin removed
  <2> DEFINE s == NewIndexes(ot, nt)
             K == {i \in DOMAIN s : s[i].name \notin removed}
  <2>1. x = Chosen(s, K, [i \in DOMAIN s |-> Stmt("createIndex", nt.name, s[i])])
    BY DEF IndexCreates, Each, When, Chosen
  <2>2. \A i \in DOMAIN s : i \in K <=> s[i].name \notin removed
    OBVIOUS
  <2>3. s = NewIndexes(ot, nt)
    OBVIOUS
  <2> HIDE DEF s, K, x
  <2>4. WaitsFor(old, new, E, s, K)
    BY <2>2 DEF WaitsFor
  <2>5. PlacedPart(old, new, E, x) /\ CreatedFrom(nt, s, K, x)
    BY <1>5, <2>1, <2>3, <2>4, CreatesPlaced
  <2>6. ToSet(s) = {y \in ToSet(nt.indexes) : ~Unchanged(y, ot)}
    BY <2>3, NewIndexesIs DEF TableTyped
  <2>8. ASSUME NEW y \in ToSet(nt.indexes), y \notin ToSet(ot.indexes), y.name \notin removed
        PROVE  Stmt("createIndex", nt.name, y) \in ToSet(x)
    <3>1. CreatedFrom(nt, s, K, x)
      BY <2>5
    <3>2. \A i \in DOMAIN s : s[i] = y => i \in K
      BY <2>2, <2>8
    <3> QED BY <2>6, <2>8, <3>1, <3>2, NewIndexMade
  <2>7. CreatedSoon(ot, nt, removed, ToSet(x))
    BY <2>8 DEF CreatedSoon
  <2> QED BY <2>2, <2>5, <2>7 DEF CreatedFrom
<1> HIDE DEF a, b, c, d, e, h, x
<1>6. ASSUME NEW E PROVE PlacedPart(old, new, E, cd)
  BY <1>3, <1>4, PlainPlaced, PlainDiffer, JoinPlaced
<1>7. ToSet(cd) = ToSet(c) \cup ToSet(d) /\ IsList(cd)
  BY <1>3, <1>4, ConcatElements DEF PlacedPart, Plain
<1> HIDE DEF cd
<1>8. ASSUME NEW E PROVE PlacedPart(old, new, E, cde)
  BY <1>3, <1>6, PlainPlaced, PlainDiffer, JoinPlaced
<1>9. ToSet(cde) = ToSet(cd) \cup ToSet(e) /\ IsList(cde)
  BY <1>3, <1>7, ConcatElements DEF Plain
<1> HIDE DEF cde
<1>10. Plain(ab) /\ ToSet(ab) = ToSet(a) \cup ToSet(b)
  BY <1>3, JoinPlain, ConcatElements DEF Plain
<1> HIDE DEF ab
<1>11. PlacedPart(old, new, {}, abc)
  <2>1. PlacedPart(old, new, {}, ab) /\ AllDiffer(ab, cde)
    BY <1>10, PlainPlaced, PlainDiffer
  <2> QED BY <1>8, <2>1, JoinPlaced
<1>12. ToSet(abc) = ToSet(ab) \cup ToSet(cde) /\ IsList(abc)
  BY <1>9, <1>10, ConcatElements DEF Plain
<1> HIDE DEF abc
<1>13. PlacedPart(old, new, {}, abch)
  <2>1. PlacedPart(old, new, {} \cup ToSet(abc), h) /\ AllDiffer(abc, h)
    BY <1>3, PlainPlaced, PlainDiffer
  <2> QED BY <1>11, <2>1, JoinPlaced
<1>14. ToSet(abch) = ToSet(abc) \cup ToSet(h) /\ IsList(abch)
  BY <1>3, <1>12, ConcatElements DEF Plain
<1> HIDE DEF abch
<1>15. ToSet(abch) = ToSet(a) \cup ToSet(b) \cup ToSet(c) \cup ToSet(d) \cup ToSet(e) \cup ToSet(h)
  BY <1>7, <1>9, <1>10, <1>12, <1>14
<1>16. Altered(ot, nt, new, {} \cup ToSet(abch))
  BY <1>3, <1>4, <1>15 DEF Altered, IndexesDropped, ColumnsAdded
<1>17. \A st \in ToSet(abch) : st.op \notin {"createTable", "dropTable", "createIndex"} /\ (st.op = "addColumn" => st.on = nt.name)
  BY <1>3, <1>4, <1>15 DEF Plain, OnlyAdds
<1>18. /\ PlacedPart(old, new, {} \cup ToSet(abch), x) /\ CreatedSoon(ot, nt, removed, ToSet(x))
       /\ \A st \in ToSet(x) : Indexing(nt, st) /\ st.what.name \notin removed
  BY <1>5, <1>16
<1>19. AllDiffer(abch, x)
  BY <1>17, <1>18 DEF AllDiffer, Differ, Indexing
<1>20. PlacedPart(old, new, {}, all)
  BY <1>13, <1>18, <1>19, JoinPlaced
<1>21. ToSet(all) = ToSet(abch) \cup ToSet(x)
  BY <1>14, <1>18, ConcatElements DEF PlacedPart
<1> HIDE DEF all
<1>22. Altered(ot, nt, new, ToSet(f))
  BY <1>1, <1>16, <1>21 DEF Altered, IndexesDropped, ColumnsAdded
<1>23. \A st \in ToSet(f) : InTable(nt, removed, st)
  BY <1>1, <1>17, <1>18, <1>21 DEF InTable, Indexing
<1>24. CreatedSoon(ot, nt, removed, ToSet(f))
  BY <1>1, <1>18, <1>21 DEF CreatedSoon
<1> QED BY <1>1, <1>20, <1>22, <1>23, <1>24

-----------------------------------------------------------------------------
(* The parts of a script. *)

PartsPlaced(old, new, E, s, ss) == \A i \in DOMAIN s : PlacedPart(old, new, E, ss[i])
PartsDiffer(s, ss) == \A i, j \in DOMAIN s : i # j => AllDiffer(ss[i], ss[j])

FromParts(f, s, ss) ==
  /\ \A y \in ToSet(f) : \E i \in DOMAIN s : y \in ToSet(ss[i])
  /\ \A i \in DOMAIN s : ToSet(ss[i]) \subseteq ToSet(f)

LEMMA FlattenPlaced ==
  ASSUME NEW old, NEW new, NEW E, NEW s, IsList(s), NEW ss, ss = [i \in DOMAIN s |-> ss[i]],
         PartsPlaced(old, new, E, s, ss), PartsDiffer(s, ss), NEW f, f = FlattenSeq(ss)
  PROVE  PlacedPart(old, new, E, f) /\ FromParts(f, s, ss)
<1>1. \A i \in DOMAIN s : IsList(ss[i])
  BY DEF PartsPlaced, PlacedPart
<1>2. /\ IsList(f) /\ IsListOfLists(ss)
      /\ \A y \in ToSet(f) : \E i \in DOMAIN s : y \in ToSet(ss[i])
      /\ \A i \in DOMAIN s : ToSet(ss[i]) \subseteq ToSet(f)
  BY <1>1, EachIs
<1>3. DOMAIN ss = DOMAIN s
  OBVIOUS
<1>4. ASSUME NEW p \in DOMAIN f, NEW q \in DOMAIN f, p < q PROVE Differ(f[p], f[q])
  <2>1. \E i, k, j, l : ArePlaces(ss, p, q, i, k, j, l)
    BY <1>2, <1>4, FlattenOrder
  <2>2. PICK i, k, j, l : ArePlaces(ss, p, q, i, k, j, l)
    BY <2>1
  <2>3. /\ i \in DOMAIN s /\ k \in DOMAIN ss[i] /\ f[p] = ss[i][k]
        /\ j \in DOMAIN s /\ l \in DOMAIN ss[j] /\ f[q] = ss[j][l]
        /\ i < j \/ (i = j /\ k < l)
        /\ i \in Nat /\ j \in Nat
    BY <1>2, <1>3, <2>2 DEF ArePlaces
  <2>4. CASE i < j
    <3>1. i # j
      BY <2>3, <2>4
    <3>2. AllDiffer(ss[i], ss[j])
      BY <2>3, <3>1 DEF PartsDiffer
    <3> QED BY <2>3, <3>2 DEF AllDiffer, ToSet
  <2>5. CASE i = j /\ k < l
    <3>1. Singles(ss[i])
      BY <2>3 DEF PartsPlaced, PlacedPart
    <3> QED BY <2>3, <2>5, <3>1 DEF Singles
  <2> QED BY <2>3, <2>4, <2>5
<1>5. ASSUME NEW p \in DOMAIN f PROVE Placed(old, new, E \cup Before(f, p), f[p])
  <2>1. PICK i \in DOMAIN s : \E k \in DOMAIN ss[i] : f[p] = ss[i][k] /\ Before(ss[i], k) \subseteq Before(f, p)
    BY <1>2, <1>3, FlattenBefore
  <2>2. PICK k \in DOMAIN ss[i] : f[p] = ss[i][k] /\ Before(ss[i], k) \subseteq Before(f, p)
    BY <2>1
  <2>3. Placed(old, new, E \cup Before(ss[i], k), ss[i][k])
    BY <2>2 DEF PartsPlaced, PlacedPart
  <2> DEFINE A == E \cup Before(ss[i], k)
             B == E \cup Before(f, p)
  <2>4. A \subseteq B
    BY <2>2
  <2>5. Placed(old, new, A, f[p])
    BY <2>2, <2>3
  <2> HIDE DEF A, B
  <2>6. Placed(old, new, B, f[p])
    BY <2>4, <2>5, PlacedLater
  <2> QED BY <2>6 DEF B
<1>6. Singles(f)
  BY <1>4 DEF Singles
<1>7. PlacedPart(old, new, E, f)
  BY <1>2, <1>5, <1>6 DEF PlacedPart
<1> QED BY <1>2, <1>7 DEF FromParts

LEMMA NothingPlaced ==
  ASSUME NEW old, NEW new, NEW E
  PROVE  PlacedPart(old, new, E, <<>>) /\ \A s : AllDiffer(<<>>, s) /\ AllDiffer(s, <<>>)
<1>1. Plain(<<>>)
  BY EmptyList DEF Plain, ToSet
<1> QED BY <1>1, PlainPlaced, PlainDiffer

-----------------------------------------------------------------------------
(* The tables of both schemas. *)

\* A statement of one of them.
OfStaying(old, new, st) == \E nt \in ToSet(new.tables) : HasTable(old, nt.name) /\ InTable(nt, RemovedNames(old, new), st)

AllAltered(old, new, E) ==
  \A nt \in ToSet(new.tables) : HasTable(old, nt.name) => Altered(TableOf(old, nt.name), nt, new, E)

AllSoon(old, new, E) ==
  \A nt \in ToSet(new.tables) :
    HasTable(old, nt.name) => CreatedSoon(TableOf(old, nt.name), nt, RemovedNames(old, new), E)

AllLate(old, new, E) ==
  \A nt \in ToSet(new.tables) :
    HasTable(old, nt.name) => CreatedLate(TableOf(old, nt.name), nt, RemovedNames(old, new), E)

\* Indexes of two tables have two names, outside MariaDB.
LEMMA TwoTablesDiffer ==
  ASSUME NEW new, NamesApart(dialect, new), NEW t \in ToSet(new.tables), NEW u \in ToSet(new.tables), t.name # u.name,
         NEW a, Indexing(t, a), NEW b, Indexing(u, b)
  PROVE  Differ(a, b)
<1>1. a.on = t.name /\ b.on = u.name /\ a.op = "createIndex" /\ b.op = "createIndex"
  BY DEF Indexing
<1>2. ASSUME a.what.name = b.what.name PROVE dialect = "mariadb"
  <2>1. a.what.name \in Names(t.indexes) /\ b.what.name \in Names(u.indexes)
    BY DEF Indexing, Names, ToSet
  <2>2. a.what.name \in TakenNames(dialect, t) /\ a.what.name \in TakenNames(dialect, u)
    BY <1>2, <2>1 DEF TakenNames
  <2> QED BY <2>2 DEF NamesApart
<1> QED BY <1>1, <1>2 DEF Differ

LEMMA TwoInTables ==
  ASSUME NEW new, NamesApart(dialect, new), NEW t \in ToSet(new.tables), NEW u \in ToSet(new.tables), t.name # u.name,
         NEW removed, NEW a, InTable(t, removed, a), NEW b, InTable(u, removed, b)
  PROVE  Differ(a, b)
<1>1. a.op = "createIndex" /\ b.op = "createIndex" => Differ(a, b)
  BY TwoTablesDiffer DEF InTable
<1>2. a.op = "addColumn" /\ b.op = "addColumn" => a.on # b.on
  BY DEF InTable
<1>3. a.op \notin {"createTable", "dropTable"}
  BY DEF InTable
<1> QED BY <1>1, <1>2, <1>3 DEF Differ

LEMMA ModifiedTablesPlaced ==
  ASSUME NEW old, DbTyped(old), NEW new, DbTyped(new), NamesApart(dialect, new), NEW f, f = ModifiedTables(old, new)
  PROVE  /\ PlacedPart(old, new, {}, f) /\ AllAltered(old, new, ToSet(f)) /\ AllSoon(old, new, ToSet(f))
         /\ \A st \in ToSet(f) : OfStaying(old, new, st)
<1> DEFINE removed == RemovedNames(old, new)
           s == new.tables
           mod(nt) == ModifiedTable(TableOf(old, nt.name), nt, old, new, removed)
           ss == [i \in DOMAIN s |-> IF HasTable(old, s[i].name) THEN mod(s[i]) ELSE <<>>]
<1>1. f = FlattenSeq(ss)
  BY DEF ModifiedTables
<1>2. ASSUME NEW nt \in ToSet(new.tables), HasTable(old, nt.name)
      PROVE  /\ PlacedPart(old, new, {}, mod(nt)) /\ Altered(TableOf(old, nt.name), nt, new, ToSet(mod(nt)))
             /\ CreatedSoon(TableOf(old, nt.name), nt, removed, ToSet(mod(nt)))
             /\ \A st \in ToSet(mod(nt)) : InTable(nt, removed, st)
  <2>1. TableTyped(nt) /\ Distinct(nt.indexes) /\ TableTyped(TableOf(old, nt.name))
    BY <1>2, TableOfIs DEF DbTyped, NamesApart
  <2> QED BY <1>2, <2>1, ModifiedTablePlaced
<1>3. \A i \in DOMAIN s : HasTable(old, s[i].name) => ss[i] = mod(s[i])
  OBVIOUS
<1>4. \A i \in DOMAIN s : ~HasTable(old, s[i].name) => ss[i] = <<>>
  OBVIOUS
<1>5. IsList(s) /\ ss = [i \in DOMAIN s |-> ss[i]] /\ \A i \in DOMAIN s : s[i] \in ToSet(new.tables)
  BY DEF DbTyped, ToSet
<1>6. \A i, j \in DOMAIN s : i # j => s[i].name # s[j].name
  BY DEF DbTyped, Distinct
<1> HIDE DEF mod, ss
<1>7. ASSUME NEW i \in DOMAIN s PROVE PlacedPart(old, new, {}, ss[i])
  BY <1>2, <1>3, <1>4, <1>5, NothingPlaced
<1>8. ASSUME NEW i \in DOMAIN s, NEW st \in ToSet(ss[i]) PROVE HasTable(old, s[i].name) /\ InTable(s[i], removed, st)
  <2>1. ToSet(<<>>) = {}
    BY EmptyList DEF ToSet
  <2>2. HasTable(old, s[i].name)
    BY <1>4, <1>8, <2>1
  <2> QED BY <1>2, <1>3, <1>5, <1>8, <2>2
<1>9. ASSUME NEW i \in DOMAIN s, NEW j \in DOMAIN s, i # j PROVE AllDiffer(ss[i], ss[j])
  <2>1. ASSUME NEW a \in ToSet(ss[i]), NEW b \in ToSet(ss[j]) PROVE Differ(a, b)
    <3>1. InTable(s[i], removed, a) /\ InTable(s[j], removed, b) /\ s[i].name # s[j].name
      BY <1>6, <1>8, <1>9
    <3>2. s[i] \in ToSet(new.tables) /\ s[j] \in ToSet(new.tables)
      BY <1>5
    <3> HIDE DEF s, removed
    <3> QED BY <3>1, <3>2, TwoInTables
  <2> QED BY <2>1 DEF AllDiffer
<1>10. PartsPlaced(old, new, {}, s, ss) /\ PartsDiffer(s, ss)
  BY <1>7, <1>9 DEF PartsPlaced, PartsDiffer
<1>11. PlacedPart(old, new, {}, f) /\ FromParts(f, s, ss)
  <2> HIDE DEF s
  <2> QED BY <1>1, <1>5, <1>10, FlattenPlaced
<1>12. \A st \in ToSet(f) : OfStaying(old, new, st)
  BY <1>5, <1>8, <1>11 DEF FromParts, OfStaying
<1>13. ASSUME NEW nt \in ToSet(new.tables), HasTable(old, nt.name)
       PROVE  Altered(TableOf(old, nt.name), nt, new, ToSet(f))
  <2>1. PICK i \in DOMAIN s : nt = s[i]
    BY DEF ToSet
  <2>2. Altered(TableOf(old, nt.name), nt, new, ToSet(ss[i])) /\ ToSet(ss[i]) \subseteq ToSet(f)
    BY <1>2, <1>3, <1>11, <1>13, <2>1 DEF FromParts
  <2> QED BY <2>2 DEF Altered, IndexesDropped, ColumnsAdded
<1>14. AllAltered(old, new, ToSet(f))
  BY <1>13 DEF AllAltered
<1>15. ASSUME NEW nt \in ToSet(new.tables), HasTable(old, nt.name)
       PROVE  CreatedSoon(TableOf(old, nt.name), nt, removed, ToSet(f))
  <2>1. PICK i \in DOMAIN s : nt = s[i]
    BY DEF ToSet
  <2>2. CreatedSoon(TableOf(old, nt.name), nt, removed, ToSet(ss[i])) /\ ToSet(ss[i]) \subseteq ToSet(f)
    BY <1>2, <1>3, <1>11, <1>15, <2>1 DEF FromParts
  <2> QED BY <2>2 DEF CreatedSoon
<1>16. AllSoon(old, new, ToSet(f))
  BY <1>15 DEF AllSoon
<1> QED BY <1>11, <1>12, <1>14, <1>16

-----------------------------------------------------------------------------
(* The tables that go, and the indexes that wait for them. *)

DropsTable(old, new, st) == st.op = "dropTable" /\ ~HasTable(new, st.on)

LEMMA RemovedTablesPlaced ==
  ASSUME NEW old, DbTyped(old), NEW new, NEW E, NEW f, f = RemovedTables(old, new)
  PROVE  /\ PlacedPart(old, new, E, f) /\ TablesDropped(old, new, ToSet(f))
         /\ \A st \in ToSet(f) : DropsTable(old, new, st)
<1> DEFINE s == old.tables
           K == {i \in DOMAIN s : ~HasTable(new, s[i].name)}
           g == [i \in DOMAIN s |-> Stmt("dropTable", s[i].name, "")]
<1>1. f = Chosen(s, K, g)
  BY DEF RemovedTables, Each, When, Chosen
<1>2. ASSUME NEW i \in DOMAIN s PROVE g[i].op = "dropTable" /\ g[i].on = s[i].name
  BY Zenon DEF Stmt
<1>3. IsList(s) /\ Distinct(s)
  BY DEF DbTyped
<1>4. \A i \in DOMAIN s : i \in K => ~HasTable(new, s[i].name)
  OBVIOUS
<1>5. ASSUME NEW v \in ToSet(old.tables), ~HasTable(new, v.name)
      PROVE  \E i \in DOMAIN s : i \in K /\ g[i] = Stmt("dropTable", v.name, "")
  <2>1. PICK i \in DOMAIN s : v = s[i]
    BY DEF ToSet
  <2>2. i \in K
    BY <1>5, <2>1
  <2>3. g[i] = Stmt("dropTable", v.name, "")
    BY <2>1, Zenon
  <2> QED BY <2>2, <2>3
<1>6. \A i \in DOMAIN s : HasTable(old, s[i].name)
  BY DEF HasTable, Names, ToSet
<1> HIDE DEF K, g
<1>7. DifferentFor(s, K, g)
  BY <1>2, <1>3 DEF DifferentFor, Differ, Distinct
<1>8. PlacedFor(old, new, E, s, K, g)
  BY <1>2, <1>6 DEF PlacedFor, Placed
<1>9. PlacedPart(old, new, E, f) /\ ChosenFrom(f, s, K, g)
  BY <1>1, <1>3, <1>7, <1>8, ChosenPlaced
<1>10. \A st \in ToSet(f) : DropsTable(old, new, st)
  BY <1>2, <1>4, <1>9 DEF ChosenFrom, DropsTable
<1>11. TablesDropped(old, new, ToSet(f))
  BY <1>5, <1>9 DEF ChosenFrom, TablesDropped
<1> QED BY <1>9, <1>10, <1>11

\* A CREATE INDEX that waits for a table to go.
LateIn(old, nt, removed, st) == HasTable(old, nt.name) /\ Indexing(nt, st) /\ st.what.name \in removed

OfLate(old, new, st) == \E nt \in ToSet(new.tables) : LateIn(old, nt, RemovedNames(old, new), st)

LEMMA LateCreatesPlaced ==
  ASSUME NEW old, NEW new, NEW nt \in ToSet(new.tables), TableTyped(nt), Distinct(nt.indexes), HasTable(old, nt.name),
         NEW ot, ot = TableOf(old, nt.name), NEW removed, removed = RemovedNames(old, new),
         NEW E, Altered(ot, nt, new, E), TablesDropped(old, new, E),
         NEW f, f = LateCreates(ot, nt, removed)
  PROVE  /\ PlacedPart(old, new, E, f) /\ CreatedLate(ot, nt, removed, ToSet(f))
         /\ \A st \in ToSet(f) : LateIn(old, nt, removed, st)
<1> DEFINE s == NewIndexes(ot, nt)
           K == {i \in DOMAIN s : s[i].name \in removed}
<1>1. f = Chosen(s, K, [i \in DOMAIN s |-> Stmt("createIndex", nt.name, s[i])])
  BY DEF LateCreates, Each, When, Chosen
<1>2. \A i \in DOMAIN s : i \in K <=> s[i].name \in removed
  OBVIOUS
<1>3. s = NewIndexes(ot, nt)
  OBVIOUS
<1> HIDE DEF s, K
<1>4. WaitsFor(old, new, E, s, K)
  BY DEF WaitsFor
<1>5. PlacedPart(old, new, E, f) /\ CreatedFrom(nt, s, K, f)
  BY <1>1, <1>3, <1>4, CreatesPlaced
<1>6. ToSet(s) = {y \in ToSet(nt.indexes) : ~Unchanged(y, ot)}
  BY <1>3, NewIndexesIs DEF TableTyped
<1>8. ASSUME NEW x \in ToSet(nt.indexes), x \notin ToSet(ot.indexes), x.name \in removed
      PROVE  Stmt("createIndex", nt.name, x) \in ToSet(f)
  <2>1. CreatedFrom(nt, s, K, f)
    BY <1>5
  <2>2. \A i \in DOMAIN s : s[i] = x => i \in K
    BY <1>2, <1>8
  <2> QED BY <1>6, <1>8, <2>1, <2>2, NewIndexMade
<1>7. CreatedLate(ot, nt, removed, ToSet(f))
  BY <1>8 DEF CreatedLate
<1> QED BY <1>2, <1>5, <1>7 DEF CreatedFrom, LateIn

LEMMA LateIndexesPlaced ==
  ASSUME NEW old, NEW new, DbTyped(new), NamesApart(dialect, new),
         NEW E, AllAltered(old, new, E), TablesDropped(old, new, E), NEW f, f = LateIndexes(old, new)
  PROVE  /\ PlacedPart(old, new, E, f) /\ AllLate(old, new, ToSet(f))
         /\ \A st \in ToSet(f) : OfLate(old, new, st)
<1> DEFINE removed == RemovedNames(old, new)
           s == new.tables
           late(nt) == LateCreates(TableOf(old, nt.name), nt, removed)
           ss == [i \in DOMAIN s |-> IF HasTable(old, s[i].name) THEN late(s[i]) ELSE <<>>]
<1>1. f = FlattenSeq(ss)
  BY DEF LateIndexes
<1>2. ASSUME NEW nt \in ToSet(new.tables), HasTable(old, nt.name)
      PROVE  /\ PlacedPart(old, new, E, late(nt)) /\ CreatedLate(TableOf(old, nt.name), nt, removed, ToSet(late(nt)))
             /\ \A st \in ToSet(late(nt)) : LateIn(old, nt, removed, st)
  <2>1. TableTyped(nt) /\ Distinct(nt.indexes) /\ Altered(TableOf(old, nt.name), nt, new, E)
    BY <1>2 DEF DbTyped, NamesApart, AllAltered
  <2> QED BY <1>2, <2>1, LateCreatesPlaced
<1>3. \A i \in DOMAIN s : HasTable(old, s[i].name) => ss[i] = late(s[i])
  OBVIOUS
<1>4. \A i \in DOMAIN s : ~HasTable(old, s[i].name) => ss[i] = <<>>
  OBVIOUS
<1>5. IsList(s) /\ ss = [i \in DOMAIN s |-> ss[i]] /\ \A i \in DOMAIN s : s[i] \in ToSet(new.tables)
  BY DEF DbTyped, ToSet
<1>6. \A i, j \in DOMAIN s : i # j => s[i].name # s[j].name
  BY DEF DbTyped, Distinct
<1> HIDE DEF late, ss
<1>7. ASSUME NEW i \in DOMAIN s PROVE PlacedPart(old, new, E, ss[i])
  BY <1>2, <1>3, <1>4, <1>5, NothingPlaced
<1>8. ASSUME NEW i \in DOMAIN s, NEW st \in ToSet(ss[i]) PROVE LateIn(old, s[i], removed, st)
  <2>1. ToSet(<<>>) = {}
    BY EmptyList DEF ToSet
  <2>2. HasTable(old, s[i].name)
    BY <1>4, <1>8, <2>1
  <2> QED BY <1>2, <1>3, <1>5, <1>8, <2>2
<1>9. ASSUME NEW i \in DOMAIN s, NEW j \in DOMAIN s, i # j PROVE AllDiffer(ss[i], ss[j])
  <2>1. ASSUME NEW a \in ToSet(ss[i]), NEW b \in ToSet(ss[j]) PROVE Differ(a, b)
    <3>1. Indexing(s[i], a) /\ Indexing(s[j], b) /\ s[i].name # s[j].name
      BY <1>6, <1>8, <1>9 DEF LateIn
    <3>2. s[i] \in ToSet(new.tables) /\ s[j] \in ToSet(new.tables)
      BY <1>5
    <3> HIDE DEF s
    <3> QED BY <3>1, <3>2, TwoTablesDiffer
  <2> QED BY <2>1 DEF AllDiffer
<1>10. PartsPlaced(old, new, E, s, ss) /\ PartsDiffer(s, ss)
  BY <1>7, <1>9 DEF PartsPlaced, PartsDiffer
<1>11. PlacedPart(old, new, E, f) /\ FromParts(f, s, ss)
  <2> HIDE DEF s
  <2> QED BY <1>1, <1>5, <1>10, FlattenPlaced
<1>12. ASSUME NEW nt \in ToSet(new.tables), HasTable(old, nt.name)
       PROVE  CreatedLate(TableOf(old, nt.name), nt, removed, ToSet(f))
  <2>1. PICK i \in DOMAIN s : nt = s[i]
    BY DEF ToSet
  <2>2. CreatedLate(TableOf(old, nt.name), nt, removed, ToSet(ss[i])) /\ ToSet(ss[i]) \subseteq ToSet(f)
    BY <1>2, <1>3, <1>11, <1>12, <2>1 DEF FromParts
  <2> QED BY <2>2 DEF CreatedLate
<1>13. AllLate(old, new, ToSet(f))
  BY <1>12 DEF AllLate
<1>14. \A st \in ToSet(f) : OfLate(old, new, st)
  BY <1>5, <1>8, <1>11 DEF FromParts, OfLate
<1> QED BY <1>11, <1>13, <1>14

-----------------------------------------------------------------------------
(* The tables that are new. *)

\* A statement that makes one of them.
AllMade(old, new, E) == \A nt \in ToSet(new.tables) : ~HasTable(old, nt.name) => MadeBy(new, nt, E)

OfNew(old, new, st) ==
  \E nt \in ToSet(new.tables) : ~HasTable(old, nt.name) /\ (st = CreateTable(nt, new) \/ Indexing(nt, st))

LEMMA MakingPlaced ==
  ASSUME NEW old, NEW new, NEW nt \in ToSet(new.tables), TableTyped(nt), Distinct(nt.indexes), ~HasTable(old, nt.name),
         NEW E, Cleared(old, new, E), NEW f, f = Making(nt, new)
  PROVE  /\ PlacedPart(old, new, E, f) /\ MadeBy(new, nt, ToSet(f))
         /\ \A st \in ToSet(f) : st = CreateTable(nt, new) \/ Indexing(nt, st)
<1> DEFINE first == CreateTable(nt, new)
           one == <<first>>
           rest == CreateIndexes(nt)
<1>1. f = one \o rest
  BY DEF Making
<1>2. first.op = "createTable" /\ first.on = nt.name
  BY CreateTableIs
<1>3. first = CreateTable(nt, new)
  OBVIOUS
<1> HIDE DEF first
<1>4. IsList(one) /\ DOMAIN one = {1} /\ one[1] = first /\ ToSet(one) = {first}
  BY OneList DEF ToSet
<1>5. /\ IsList(rest) /\ DOMAIN rest = DOMAIN nt.indexes
      /\ \A i \in DOMAIN nt.indexes : Indexing(nt, rest[i]) /\ rest[i].what = nt.indexes[i]
      /\ \A st \in ToSet(rest) : Indexing(nt, st)
  BY CreateIndexesAre DEF TableTyped
<1>11. \A i \in DOMAIN nt.indexes : rest[i] = Stmt("createIndex", nt.name, nt.indexes[i])
  BY DEF CreateIndexes
<1> HIDE DEF one, rest
<1>6. PlacedPart(old, new, E, one)
  <2>1. Placed(old, new, E, first)
    BY <1>2 DEF Placed
  <2>2. \A p \in DOMAIN one : Placed(old, new, E \cup Before(one, p), one[p])
    <3> TAKE p \in DOMAIN one
    <3> DEFINE F == E \cup Before(one, p)
    <3>1. E \subseteq F /\ one[p] = first
      BY <1>4
    <3> HIDE DEF F
    <3>2. Placed(old, new, F, one[p])
      BY <2>1, <3>1, PlacedLater
    <3> QED BY <3>2 DEF F
  <2>3. Singles(one)
    BY <1>4 DEF Singles
  <2> QED BY <1>4, <2>2, <2>3 DEF PlacedPart
<1>7. PlacedPart(old, new, E \cup ToSet(one), rest)
  <2> DEFINE F == E \cup ToSet(one)
  <2>1. Cleared(old, new, F) /\ first \in F
    BY <1>4 DEF Cleared, TablesDropped, IndexesDropped
  <2> HIDE DEF F
  <2>2. ASSUME NEW p \in DOMAIN rest PROVE Placed(old, new, F \cup Before(rest, p), rest[p])
    <3>1. Indexing(nt, rest[p])
      BY <1>5
    <3>2. IndexPlaced(old, new, F, nt, rest[p].what)
      BY <1>3, <2>1 DEF IndexPlaced
    <3>3. Placed(old, new, F, rest[p])
      BY <3>1, <3>2 DEF Placed, Indexing
    <3> DEFINE G == F \cup Before(rest, p)
    <3>4. F \subseteq G
      OBVIOUS
    <3> HIDE DEF G
    <3>5. Placed(old, new, G, rest[p])
      BY <3>3, <3>4, PlacedLater
    <3> QED BY <3>5 DEF G
  <2>3. ASSUME NEW p \in DOMAIN rest, NEW q \in DOMAIN rest, p < q PROVE Differ(rest[p], rest[q])
    <3>1. DOMAIN rest \subseteq Nat
      BY <1>5, ListIs
    <3>2. p # q
      BY <2>3, <3>1
    <3>3. rest[p].what.name # rest[q].what.name
      BY <1>5, <3>2 DEF Distinct
    <3>4. rest[p].op = "createIndex"
      BY <1>5 DEF Indexing
    <3> QED BY <3>3, <3>4 DEF Differ
  <2>4. Singles(rest)
    BY <2>3 DEF Singles
  <2>5. PlacedPart(old, new, F, rest)
    BY <1>5, <2>2, <2>4 DEF PlacedPart
  <2> QED BY <2>5 DEF F
<1>8. AllDiffer(one, rest)
  BY <1>2, <1>4, <1>5 DEF AllDiffer, Differ, Indexing
<1>9. PlacedPart(old, new, E, f)
  BY <1>1, <1>6, <1>7, <1>8, JoinPlaced
<1>10. ToSet(f) = ToSet(one) \cup ToSet(rest)
  BY <1>1, <1>4, <1>5, ConcatElements
<1>12. ASSUME NEW x \in ToSet(nt.indexes) PROVE Stmt("createIndex", nt.name, x) \in ToSet(f)
  <2>1. PICK i \in DOMAIN nt.indexes : x = nt.indexes[i]
    BY DEF ToSet
  <2>2. rest[i] \in ToSet(rest)
    BY <1>5, <2>1 DEF ToSet
  <2> QED BY <1>10, <1>11, <2>1, <2>2
<1>13. MadeBy(new, nt, ToSet(f))
  BY <1>3, <1>4, <1>10, <1>12 DEF MadeBy
<1> QED BY <1>3, <1>4, <1>5, <1>9, <1>10, <1>13

\* Statements that make two tables.
LEMMA TwoMadeDiffer ==
  ASSUME NEW new, NamesApart(dialect, new), NEW t \in ToSet(new.tables), NEW u \in ToSet(new.tables), t.name # u.name,
         NEW a, a = CreateTable(t, new) \/ Indexing(t, a), NEW b, b = CreateTable(u, new) \/ Indexing(u, b)
  PROVE  Differ(a, b)
<1>1. ASSUME a = CreateTable(t, new) PROVE a.op = "createTable" /\ a.on = t.name
  BY <1>1, CreateTableIs
<1>2. ASSUME b = CreateTable(u, new) PROVE b.op = "createTable" /\ b.on = u.name
  BY <1>2, CreateTableIs
<1>3. CASE Indexing(t, a) /\ Indexing(u, b)
  BY <1>3, TwoTablesDiffer
<1>4. CASE a = CreateTable(t, new)
  <2>1. b.op = "createTable" => b.on = u.name
    BY <1>2 DEF Indexing
  <2> QED BY <1>1, <1>4, <2>1 DEF Differ
<1>5. CASE Indexing(t, a) /\ b = CreateTable(u, new)
  BY <1>2, <1>5 DEF Differ, Indexing
<1> QED BY <1>3, <1>4, <1>5

LEMMA NewTablesPlaced ==
  ASSUME NEW old, NEW new, DbTyped(new), NamesApart(dialect, new),
         NEW E, Cleared(old, new, E), NEW f, f = NewTables(old, new)
  PROVE  /\ PlacedPart(old, new, E, f) /\ AllMade(old, new, ToSet(f))
         /\ \A st \in ToSet(f) : OfNew(old, new, st)
<1> DEFINE s == new.tables
           ss == [i \in DOMAIN s |-> IF HasTable(old, s[i].name) THEN <<>> ELSE Making(s[i], new)]
<1>1. f = FlattenSeq(ss)
  BY DEF NewTables, Each, Making
<1>2. ASSUME NEW nt \in ToSet(new.tables), ~HasTable(old, nt.name)
      PROVE  /\ PlacedPart(old, new, E, Making(nt, new)) /\ MadeBy(new, nt, ToSet(Making(nt, new)))
             /\ \A st \in ToSet(Making(nt, new)) : st = CreateTable(nt, new) \/ Indexing(nt, st)
  <2>1. TableTyped(nt) /\ Distinct(nt.indexes)
    BY DEF DbTyped, NamesApart
  <2> QED BY <1>2, <2>1, MakingPlaced
<1>3. \A i \in DOMAIN s : ~HasTable(old, s[i].name) => ss[i] = Making(s[i], new)
  OBVIOUS
<1>4. \A i \in DOMAIN s : HasTable(old, s[i].name) => ss[i] = <<>>
  OBVIOUS
<1>5. IsList(s) /\ ss = [i \in DOMAIN s |-> ss[i]] /\ \A i \in DOMAIN s : s[i] \in ToSet(new.tables)
  BY DEF DbTyped, ToSet
<1>6. \A i, j \in DOMAIN s : i # j => s[i].name # s[j].name
  BY DEF DbTyped, Distinct
<1> HIDE DEF ss
<1>7. ASSUME NEW i \in DOMAIN s PROVE PlacedPart(old, new, E, ss[i])
  <2>1. CASE HasTable(old, s[i].name)
    <3>1. ss[i] = <<>>
      BY <1>4, <2>1
    <3> QED BY <3>1, NothingPlaced
  <2>2. CASE ~HasTable(old, s[i].name)
    <3>1. PlacedPart(old, new, E, Making(s[i], new))
      BY <1>2, <1>5, <2>2
    <3>2. ss[i] = Making(s[i], new)
      BY <1>3, <2>2
    <3> QED BY <3>1, <3>2
  <2> QED BY <2>1, <2>2
<1>8. ASSUME NEW i \in DOMAIN s, NEW st \in ToSet(ss[i])
      PROVE  ~HasTable(old, s[i].name) /\ (st = CreateTable(s[i], new) \/ Indexing(s[i], st))
  <2>1. ToSet(<<>>) = {}
    BY EmptyList DEF ToSet
  <2>2. ~HasTable(old, s[i].name)
    BY <1>4, <1>8, <2>1
  <2> QED BY <1>2, <1>3, <1>5, <1>8, <2>2
<1>9. ASSUME NEW i \in DOMAIN s, NEW j \in DOMAIN s, i # j PROVE AllDiffer(ss[i], ss[j])
  <2>1. ASSUME NEW a \in ToSet(ss[i]), NEW b \in ToSet(ss[j]) PROVE Differ(a, b)
    <3>1. /\ a = CreateTable(s[i], new) \/ Indexing(s[i], a)
          /\ b = CreateTable(s[j], new) \/ Indexing(s[j], b)
          /\ s[i].name # s[j].name
      BY <1>6, <1>8, <1>9
    <3>2. s[i] \in ToSet(new.tables) /\ s[j] \in ToSet(new.tables)
      BY <1>5
    <3> HIDE DEF s
    <3> QED BY <3>1, <3>2, TwoMadeDiffer
  <2> QED BY <2>1 DEF AllDiffer
<1>10. PartsPlaced(old, new, E, s, ss) /\ PartsDiffer(s, ss)
  BY <1>7, <1>9 DEF PartsPlaced, PartsDiffer
<1>11. PlacedPart(old, new, E, f) /\ FromParts(f, s, ss)
  <2> HIDE DEF s
  <2> QED BY <1>1, <1>5, <1>10, FlattenPlaced
<1>12. ASSUME NEW nt \in ToSet(new.tables), ~HasTable(old, nt.name) PROVE MadeBy(new, nt, ToSet(f))
  <2>1. PICK i \in DOMAIN s : nt = s[i]
    BY DEF ToSet
  <2>2. ss[i] = Making(nt, new) /\ MadeBy(new, nt, ToSet(Making(nt, new)))
    BY <1>2, <1>3, <1>12, <2>1
  <2>3. MadeBy(new, nt, ToSet(ss[i])) /\ ToSet(ss[i]) \subseteq ToSet(f)
    BY <1>11, <2>1, <2>2 DEF FromParts
  <2> QED BY <2>3 DEF MadeBy
<1>13. AllMade(old, new, ToSet(f))
  BY <1>12 DEF AllMade
<1>14. \A st \in ToSet(f) : OfNew(old, new, st)
  BY <1>5, <1>8, <1>11 DEF FromParts, OfNew
<1> QED BY <1>11, <1>13, <1>14

-----------------------------------------------------------------------------
(* The whole script. *)

LEMMA PartLater ==
  ASSUME NEW old, NEW new, NEW E, NEW s, PlacedPart(old, new, E, s), NEW F, E \subseteq F
  PROVE  PlacedPart(old, new, F, s)
<1>1. ASSUME NEW j \in DOMAIN s PROVE Placed(old, new, F \cup Before(s, j), s[j])
  <2> DEFINE A == E \cup Before(s, j)
             B == F \cup Before(s, j)
  <2>1. A \subseteq B
    OBVIOUS
  <2>2. Placed(old, new, A, s[j])
    BY DEF PlacedPart
  <2> HIDE DEF A, B
  <2>3. Placed(old, new, B, s[j])
    BY <2>1, <2>2, PlacedLater
  <2> QED BY <2>3 DEF B
<1> QED BY <1>1 DEF PlacedPart

LEMMA PartsApart ==
  ASSUME NEW old, NEW new, NamesApart(dialect, new), NEW a, NEW b
  PROVE  /\ OfStaying(old, new, a) /\ DropsTable(old, new, b) => Differ(a, b)
         /\ OfStaying(old, new, a) /\ OfLate(old, new, b) => Differ(a, b)
         /\ OfStaying(old, new, a) /\ OfNew(old, new, b) => Differ(a, b)
         /\ DropsTable(old, new, a) /\ OfLate(old, new, b) => Differ(a, b)
         /\ DropsTable(old, new, a) /\ OfNew(old, new, b) => Differ(a, b)
         /\ OfLate(old, new, a) /\ OfNew(old, new, b) => Differ(a, b)
<1>1. \A nt : CreateTable(nt, new).op = "createTable"
  BY CreateTableIs
<1>2. OfStaying(old, new, a) =>
        /\ a.op \notin {"createTable", "dropTable"}
        /\ a.op = "createIndex" => a.what.name \notin RemovedNames(old, new)
        /\ a.op = "createIndex" => \E nt \in ToSet(new.tables) : HasTable(old, nt.name) /\ Indexing(nt, a)
  BY DEF OfStaying, InTable
<1>3. ASSUME NEW st, OfLate(old, new, st)
      PROVE  /\ st.op = "createIndex" /\ st.what.name \in RemovedNames(old, new)
             /\ \E nt \in ToSet(new.tables) : HasTable(old, nt.name) /\ Indexing(nt, st)
  BY <1>3 DEF OfLate, LateIn, Indexing
<1>4. OfNew(old, new, b) =>
        \/ b.op = "createTable"
        \/ b.op = "createIndex" /\ \E nt \in ToSet(new.tables) : ~HasTable(old, nt.name) /\ Indexing(nt, b)
  BY <1>1 DEF OfNew, Indexing
<1>5. ASSUME NEW t \in ToSet(new.tables), HasTable(old, t.name), Indexing(t, a),
             NEW u \in ToSet(new.tables), ~HasTable(old, u.name), Indexing(u, b)
      PROVE  Differ(a, b)
  <2>1. t.name # u.name
    BY <1>5
  <2> QED BY <1>5, <2>1, TwoTablesDiffer
<1>6. OfStaying(old, new, a) /\ DropsTable(old, new, b) => Differ(a, b)
  BY <1>2 DEF DropsTable, Differ
<1>7. OfStaying(old, new, a) /\ OfLate(old, new, b) => Differ(a, b)
  BY <1>2, <1>3 DEF Differ
<1>8. OfStaying(old, new, a) /\ OfNew(old, new, b) => Differ(a, b)
  <2>1. CASE b.op = "createTable"
    BY <1>2, <2>1 DEF Differ
  <2>2. CASE a.op # "createIndex" /\ b.op = "createIndex"
    BY <1>2, <2>2 DEF Differ
  <2>3. CASE a.op = "createIndex" /\ b.op = "createIndex"
    BY <1>2, <1>4, <1>5, <2>3
  <2> QED BY <1>4, <2>1, <2>2, <2>3
<1>9. DropsTable(old, new, a) /\ OfLate(old, new, b) => Differ(a, b)
  BY <1>3 DEF DropsTable, Differ
<1>10. DropsTable(old, new, a) /\ OfNew(old, new, b) => Differ(a, b)
  BY <1>4 DEF DropsTable, Differ
<1>11. OfLate(old, new, a) /\ OfNew(old, new, b) => Differ(a, b)
  <2>1. OfLate(old, new, a) /\ b.op = "createTable" => Differ(a, b)
    BY <1>3 DEF Differ
  <2> QED BY <1>3, <1>4, <1>5, <2>1
<1> QED BY <1>6, <1>7, <1>8, <1>9, <1>10, <1>11

\* The statements of E make of L a database with the tables, columns and indexes of new.
TablesMade(L, new, E) == \A nt \in ToSet(new.tables) : ~HasTable(L, nt.name) => CreateTable(nt, new) \in E

IndexesMade(L, new, E) ==
  \A nt \in ToSet(new.tables) : \A x \in ToSet(nt.indexes) :
    \/ HasTable(L, nt.name) /\ x \in ToSet(TableOf(L, nt.name).indexes)
    \/ Stmt("createIndex", nt.name, x) \in E

LeadsTo(L, new, E) ==
  TablesDropped(L, new, E) /\ AllAltered(L, new, E) /\ TablesMade(L, new, E) /\ IndexesMade(L, new, E)

LEMMA IndexesAllMade ==
  ASSUME NEW old, NEW new, NEW E, AllSoon(old, new, E), AllLate(old, new, E), AllMade(old, new, E)
  PROVE  IndexesMade(old, new, E)
<1> SUFFICES ASSUME NEW nt \in ToSet(new.tables), NEW x \in ToSet(nt.indexes),
                    ~(HasTable(old, nt.name) /\ x \in ToSet(TableOf(old, nt.name).indexes))
             PROVE  Stmt("createIndex", nt.name, x) \in E
  BY DEF IndexesMade
<1>1. CASE HasTable(old, nt.name)
  <2>1. CreatedSoon(TableOf(old, nt.name), nt, RemovedNames(old, new), E)
    BY <1>1 DEF AllSoon
  <2>2. CreatedLate(TableOf(old, nt.name), nt, RemovedNames(old, new), E)
    BY <1>1 DEF AllLate
  <2> QED BY <1>1, <2>1, <2>2 DEF CreatedSoon, CreatedLate
<1>2. CASE ~HasTable(old, nt.name)
  BY <1>2 DEF AllMade, MadeBy
<1> QED BY <1>1, <1>2

LEMMA ScriptPlaced ==
  ASSUME NEW old, DbTyped(old), NEW new, DbTyped(new), NamesApart(dialect, new)
  PROVE  PlacedPart(old, new, {}, Script(old, new)) /\ LeadsTo(old, new, ToSet(Script(old, new)))
<1> DEFINE a == NewEnums(old, new)
           b == ModifiedTables(old, new)
           c == RemovedTables(old, new)
           d == LateIndexes(old, new)
           e == NewTables(old, new)
           f == RemovedEnums(old, new)
           ab == a \o b
           abc == ab \o c
           abcd == abc \o d
           abcde == abcd \o e
           all == abcde \o f
<1>1. Script(old, new) = all
  BY DEF Script
<1>2. Plain(a) /\ Plain(f)
  <2>1. IsList(a) /\ \A st \in ToSet(a) : st.op = "createEnum"
    BY NewEnumsAre DEF DbTyped, StatementsFor
  <2>2. IsList(f) /\ \A st \in ToSet(f) : st.op = "dropEnum"
    BY RemovedEnumsAre DEF DbTyped, StatementsFor
  <2> QED BY <2>1, <2>2 DEF Plain
<1>3. /\ PlacedPart(old, new, {}, b) /\ AllAltered(old, new, ToSet(b)) /\ AllSoon(old, new, ToSet(b))
      /\ \A st \in ToSet(b) : OfStaying(old, new, st)
  BY ModifiedTablesPlaced
<1>4. ASSUME NEW E
      PROVE  /\ PlacedPart(old, new, E, c) /\ TablesDropped(old, new, ToSet(c))
             /\ \A st \in ToSet(c) : DropsTable(old, new, st)
  BY RemovedTablesPlaced
<1>5. ASSUME NEW E, AllAltered(old, new, E), TablesDropped(old, new, E)
      PROVE  /\ PlacedPart(old, new, E, d) /\ AllLate(old, new, ToSet(d))
             /\ \A st \in ToSet(d) : OfLate(old, new, st)
  BY <1>5, LateIndexesPlaced
<1>6. ASSUME NEW E, Cleared(old, new, E)
      PROVE  /\ PlacedPart(old, new, E, e) /\ AllMade(old, new, ToSet(e))
             /\ \A st \in ToSet(e) : OfNew(old, new, st)
  BY <1>6, NewTablesPlaced
<1> HIDE DEF a, b, c, d, e, f
<1>7. PlacedPart(old, new, {}, ab)
  <2>1. PlacedPart(old, new, {}, a) /\ AllDiffer(a, b)
    BY <1>2, PlainPlaced, PlainDiffer
  <2> DEFINE E == {} \cup ToSet(a)
  <2>2. PlacedPart(old, new, E, b)
    BY <1>3, PartLater
  <2> QED BY <2>1, <2>2, JoinPlaced
<1>8. IsList(ab) /\ ToSet(ab) = ToSet(a) \cup ToSet(b)
  BY <1>2, <1>3, ConcatElements DEF Plain, PlacedPart
<1>9. \A st : AllDiffer(a, st)
  BY <1>2, PlainDiffer
<1> HIDE DEF ab
<1>10. AllDiffer(ab, c)
  BY <1>3, <1>4, <1>8, <1>9, PartsApart DEF AllDiffer
<1>11. PlacedPart(old, new, {}, abc)
  <2>1. PlacedPart(old, new, {} \cup ToSet(ab), c)
    BY <1>4
  <2> QED BY <1>7, <1>10, <2>1, JoinPlaced
<1>12. IsList(abc) /\ ToSet(abc) = ToSet(ab) \cup ToSet(c)
  BY <1>4, <1>8, ConcatElements DEF PlacedPart
<1> HIDE DEF abc
<1>13. AllAltered(old, new, {} \cup ToSet(abc)) /\ TablesDropped(old, new, {} \cup ToSet(abc))
  <2>1. ToSet(b) \subseteq {} \cup ToSet(abc) /\ ToSet(c) \subseteq {} \cup ToSet(abc)
    BY <1>8, <1>12
  <2>2. AllAltered(old, new, {} \cup ToSet(abc))
    BY <1>3, <2>1 DEF AllAltered, Altered, IndexesDropped, ColumnsAdded
  <2>3. TablesDropped(old, new, {} \cup ToSet(abc))
    BY <1>4, <2>1 DEF TablesDropped
  <2> QED BY <2>2, <2>3
<1>14. /\ PlacedPart(old, new, {} \cup ToSet(abc), d) /\ AllLate(old, new, ToSet(d))
       /\ \A st \in ToSet(d) : OfLate(old, new, st)
  BY <1>5, <1>13
<1>15. AllDiffer(abc, d)
  BY <1>3, <1>4, <1>8, <1>9, <1>12, <1>14, PartsApart DEF AllDiffer
<1>16. PlacedPart(old, new, {}, abcd)
  BY <1>11, <1>14, <1>15, JoinPlaced
<1>17. IsList(abcd) /\ ToSet(abcd) = ToSet(abc) \cup ToSet(d)
  BY <1>12, <1>14, ConcatElements DEF PlacedPart
<1> HIDE DEF abcd
<1>18. Cleared(old, new, {} \cup ToSet(abcd))
  <2>1. {} \cup ToSet(abc) \subseteq {} \cup ToSet(abcd)
    BY <1>17
  <2>2. TablesDropped(old, new, {} \cup ToSet(abcd))
    BY <1>13, <2>1 DEF TablesDropped
  <2>3. AllAltered(old, new, {} \cup ToSet(abcd))
    BY <1>13, <2>1 DEF AllAltered, Altered, IndexesDropped, ColumnsAdded
  <2> QED BY <2>2, <2>3 DEF Cleared, AllAltered, Altered
<1>19. /\ PlacedPart(old, new, {} \cup ToSet(abcd), e) /\ AllMade(old, new, ToSet(e))
       /\ \A st \in ToSet(e) : OfNew(old, new, st)
  BY <1>6, <1>18
<1>20. AllDiffer(abcd, e)
  BY <1>3, <1>4, <1>8, <1>9, <1>12, <1>14, <1>17, <1>19, PartsApart DEF AllDiffer
<1>21. PlacedPart(old, new, {}, abcde)
  BY <1>16, <1>19, <1>20, JoinPlaced
<1>23. IsList(abcde) /\ ToSet(abcde) = ToSet(abcd) \cup ToSet(e)
  BY <1>17, <1>19, ConcatElements DEF PlacedPart
<1> HIDE DEF abcde
<1>22. PlacedPart(old, new, {}, all)
  <2>1. PlacedPart(old, new, {} \cup ToSet(abcde), f) /\ AllDiffer(abcde, f)
    BY <1>2, PlainPlaced, PlainDiffer
  <2> QED BY <1>21, <2>1, JoinPlaced
<1>24. ToSet(all) = ToSet(abcde) \cup ToSet(f)
  BY <1>2, <1>23, ConcatElements DEF Plain
<1> HIDE DEF all
<1>25. /\ ToSet(b) \subseteq ToSet(all) /\ ToSet(c) \subseteq ToSet(all)
       /\ ToSet(d) \subseteq ToSet(all) /\ ToSet(e) \subseteq ToSet(all)
  BY <1>8, <1>12, <1>17, <1>23, <1>24
<1>26. TablesDropped(old, new, ToSet(all))
  BY <1>4, <1>25 DEF TablesDropped
<1>27. AllAltered(old, new, ToSet(all))
  BY <1>3, <1>25 DEF AllAltered, Altered, IndexesDropped, ColumnsAdded
<1>28. AllMade(old, new, ToSet(all))
  BY <1>19, <1>25 DEF AllMade, MadeBy
<1>29. TablesMade(old, new, ToSet(all))
  BY <1>28 DEF TablesMade, AllMade, MadeBy
<1>30. AllSoon(old, new, ToSet(all)) /\ AllLate(old, new, ToSet(all))
  <2>1. AllSoon(old, new, ToSet(all))
    BY <1>3, <1>25 DEF AllSoon, CreatedSoon
  <2>2. AllLate(old, new, ToSet(all))
    BY <1>14, <1>25 DEF AllLate, CreatedLate
  <2> QED BY <2>1, <2>2
<1>31. IndexesMade(old, new, ToSet(all))
  BY <1>28, <1>30, IndexesAllMade
<1>32. LeadsTo(old, new, ToSet(all))
  BY <1>26, <1>27, <1>29, <1>31 DEF LeadsTo
<1> QED BY <1>1, <1>22, <1>32

-----------------------------------------------------------------------------
(* What a statement needs comes before it. *)

\* Outside MariaDB no index has the name of a table.
LEMMA NoTableName ==
  ASSUME dialect # "mariadb", dialect \in Dialects, NEW new, NamesApart(dialect, new),
         NEW t \in ToSet(new.tables), NEW u \in ToSet(new.tables), NEW n \in Names(t.indexes)
  PROVE  n # u.name
<1>1. dialect \in {"postgres", "sqlite"}
  BY SqlDialectsAssumption
<1>2. \A w : w.name \in OwnNames(dialect, w)
  BY <1>1 DEF OwnNames
<1>3. CASE t.name = u.name
  <2>1. n \notin OwnNames(dialect, t)
    BY DEF NamesApart
  <2> QED BY <1>2, <1>3, <2>1
<1>4. CASE t.name # u.name
  <2>1. n \in TakenNames(dialect, t) /\ u.name \in TakenNames(dialect, u)
    BY <1>2 DEF TakenNames
  <2> QED BY <1>4, <2>1 DEF NamesApart
<1> QED BY <1>3, <1>4

\* A name that is free in the target.
LEMMA ClearedFrees ==
  ASSUME NEW old, DbTyped(old), NEW new, DbTyped(new), NEW E, Cleared(old, new, E),
         NEW n, ~HasTable(old, n), \A u \in ToSet(new.tables) : n \notin Names(u.indexes)
  PROVE  NameFreed(old, E, n)
<1> SUFFICES ASSUME NEW v \in ToSet(old.tables), NEW x \in ToSet(v.indexes), x.name = n
             PROVE  \E e \in E : (e.op = "dropIndex" /\ e.what = n) \/ (e.op = "dropTable" /\ e.on = v.name)
  BY DEF NameFreed, HasTable, Names, ToSet
<1>1. CASE ~HasTable(new, v.name)
  <2> DEFINE y == Stmt("dropTable", v.name, "")
  <2>1. y \in E
    BY <1>1 DEF Cleared, TablesDropped
  <2>2. y.op = "dropTable" /\ y.on = v.name
    BY Zenon DEF Stmt
  <2> HIDE DEF y
  <2> QED BY <2>1, <2>2
<1>2. CASE HasTable(new, v.name)
  <2>1. PICK nt \in ToSet(new.tables) : nt.name = v.name
    BY <1>2 DEF HasTable, Names, ToSet
  <2>2. HasTable(old, nt.name) /\ TableOf(old, nt.name) = v
    BY <2>1, NamedIs DEF HasTable, Names, ToSet, TableOf, DbTyped
  <2>3. ~Unchanged(x, nt)
    BY DEF Unchanged, Names, ToSet
  <2> DEFINE y == Stmt("dropIndex", nt.name, x.name)
  <2>4. y \in E
    BY <2>2, <2>3 DEF Cleared, IndexesDropped
  <2>5. y.op = "dropIndex" /\ y.what = n
    BY Zenon DEF Stmt
  <2> HIDE DEF y
  <2> QED BY <2>4, <2>5
<1> QED BY <1>1, <1>2

\* A column of the target is there, or is added.
LEMMA KeyComes ==
  ASSUME NEW old, DbTyped(old), NEW new, DbTyped(new), NEW E, NEW nt \in ToSet(new.tables),
         NEW x \in ToSet(nt.indexes), IndexPlaced(old, new, E, nt, x), NEW k \in ToSet(x.keys)
  PROVE  Comes(old, E, nt.name, k)
<1>1. TableTyped(nt)
  BY DEF DbTyped
<1>2. k \in Names(nt.cols)
  BY <1>1 DEF TableTyped
<1>3. PICK c \in ToSet(nt.cols) : c.name = k
  BY <1>2 DEF Names, ToSet
<1>4. DOMAIN c = Fields
  BY <1>1, <1>3 DEF TableTyped
<1>5. CASE HasTable(old, nt.name) /\ k \notin Names(TableOf(old, nt.name).cols)
  <2> DEFINE r == RenderColumn(c, FALSE, new)
             y == Stmt("addColumn", nt.name, r)
  <2>1. y \in E
    BY <1>3, <1>5 DEF IndexPlaced, Altered, ColumnsAdded
  <2>2. r.name = k
    BY <1>3, <1>4, RenderedIs
  <2> HIDE DEF r
  <2>3. y.op = "addColumn" /\ y.on = nt.name /\ y.what = r
    BY StmtIs
  <2> HIDE DEF y
  <2>4. Brings(y, nt.name, k)
    BY <2>2, <2>3 DEF Brings
  <2> QED BY <2>1, <2>4 DEF Comes
<1>6. CASE ~HasTable(old, nt.name)
  <2> DEFINE y == CreateTable(nt, new)
  <2>1. y \in E
    BY <1>6 DEF IndexPlaced
  <2>2. y.op = "createTable" /\ y.on = nt.name /\ y.what.cols = MadeColumns(nt, new)
    BY CreateTableIs
  <2>3. Names(MadeColumns(nt, new)) = Names(nt.cols)
    BY <1>1, MadeColumnsAre
  <2> HIDE DEF y
  <2>4. Brings(y, nt.name, k)
    BY <1>2, <2>2, <2>3 DEF Brings
  <2> QED BY <2>1, <2>4 DEF Comes
<1> QED BY <1>5, <1>6 DEF Comes

LEMMA IndexNameFreed ==
  ASSUME dialect # "mariadb", dialect \in Dialects,
         NEW old, DbTyped(old), NEW new, DbTyped(new), NamesApart(dialect, new), NamesStay(old, new),
         NEW E, NEW nt \in ToSet(new.tables), NEW x \in ToSet(nt.indexes), IndexPlaced(old, new, E, nt, x)
  PROVE  NameFreed(old, E, x.name)
<1> DEFINE n == x.name
<1>1. n \in Names(nt.indexes)
  BY DEF Names, ToSet
<1>2. \A u \in ToSet(new.tables) : n # u.name
  BY <1>1, NoTableName
<1>3. n \in Names(old.tables) => TablesDropped(old, new, E)
  <2>1. n \in Names(old.tables) => n \in RemovedNames(old, new)
    BY <1>2 DEF RemovedNames, Names, ToSet
  <2> QED BY <2>1 DEF IndexPlaced, Cleared
<1>4. ASSUME NEW v \in ToSet(old.tables), v.name = n PROVE \E e \in E : e.op = "dropTable" /\ e.on = n
  <2>1. n \in Names(old.tables) /\ ~HasTable(new, v.name)
    BY <1>2, <1>4 DEF HasTable, Names, ToSet
  <2> DEFINE y == Stmt("dropTable", v.name, "")
  <2>2. y \in E
    BY <1>3, <2>1 DEF TablesDropped
  <2>3. y.op = "dropTable" /\ y.on = n
    BY <1>4, Zenon DEF Stmt
  <2> HIDE DEF y
  <2> QED BY <2>2, <2>3
<1>5. ASSUME NEW v \in ToSet(old.tables), NEW y \in ToSet(v.indexes), y.name = n
      PROVE  \E e \in E : e.op = "dropIndex" /\ e.what = n
  <2>1. n \in Names(v.indexes)
    BY <1>5 DEF Names, ToSet
  <2>2. v.name = nt.name
    BY <1>1, <2>1 DEF NamesStay
  <2>3. HasTable(old, nt.name) /\ TableOf(old, nt.name) = v
    BY <2>2, NamedIs DEF HasTable, Names, ToSet, TableOf, DbTyped
  <2>4. x \notin ToSet(v.indexes) /\ IndexesDropped(v, nt, E)
    BY <2>3 DEF IndexPlaced, Altered
  <2>5. ~Unchanged(y, nt)
    <3> SUFFICES ASSUME y \in ToSet(nt.indexes) PROVE FALSE
      BY DEF Unchanged
    <3>1. Distinct(nt.indexes)
      BY DEF NamesApart
    <3>2. x = y
      BY <1>5, <3>1 DEF Distinct, ToSet
    <3> QED BY <2>4, <3>2
  <2> DEFINE z == Stmt("dropIndex", nt.name, y.name)
  <2>6. z \in E
    BY <2>4, <2>5 DEF IndexesDropped
  <2>7. z.op = "dropIndex" /\ z.what = n
    BY <1>5, Zenon DEF Stmt
  <2> HIDE DEF z
  <2> QED BY <2>6, <2>7
<1> QED BY <1>4, <1>5 DEF NameFreed

LEMMA PlacedReady ==
  ASSUME dialect # "mariadb", dialect \in Dialects,
         NEW old, DbTyped(old), NEW new, DbTyped(new), NamesApart(dialect, new), NamesStay(old, new),
         NEW E, NEW st, MeantFor(new, st), Placed(old, new, E, st)
  PROVE  Ready(old, E, st)
<1>1. ASSUME st.op = "createTable" PROVE NameFreed(old, E, st.on)
  <2>1. PICK t \in ToSet(new.tables) : st = CreateTable(t, new)
    BY <1>1 DEF MeantFor
  <2>2. st.on = t.name
    BY <2>1, CreateTableIs
  <2>3. \A u \in ToSet(new.tables) : st.on \notin Names(u.indexes)
    BY <2>2, NoTableName
  <2>4. ~HasTable(old, st.on) /\ Cleared(old, new, E)
    BY <1>1 DEF Placed
  <2> QED BY <2>3, <2>4, ClearedFrees
<1>2. ASSUME st.op = "createIndex"
      PROVE  NameFreed(old, E, st.what.name) /\ \A k \in ToSet(st.what.keys) : Comes(old, E, st.on, k)
  <2>1. PICK nt \in ToSet(new.tables) : Indexing(nt, st) /\ IndexPlaced(old, new, E, nt, st.what)
    BY <1>2 DEF Placed
  <2>2. st.what \in ToSet(nt.indexes) /\ st.on = nt.name
    BY <2>1 DEF Indexing
  <2>3. NameFreed(old, E, st.what.name)
    BY <2>1, <2>2, IndexNameFreed
  <2>4. \A k \in ToSet(st.what.keys) : Comes(old, E, st.on, k)
    BY <2>1, <2>2, KeyComes
  <2> QED BY <2>3, <2>4
<1> QED BY <1>1, <1>2 DEF Ready, Placed

-----------------------------------------------------------------------------
(* What the database reports. *)

LEMMA OrdersAll ==
  ASSUME NEW S, IsFiniteSet(S), NEW order \in SetToSeqs(S)
  PROVE  ToSet(order) = S
<1> DEFINE k == Cardinality(S)
<1>1. order \in [1 .. k -> S] /\ \A i, j \in 1 .. k : i # j => order[i] # order[j]
  BY DEF SetToSeqs
<1>2. k \in Nat
  BY FS_CardinalityType
<1>3. \A v \in S : IsFiniteSet(S \ {v}) /\ Cardinality(S \ {v}) = k - 1
  BY FS_RemoveElement
<1> HIDE DEF k
<1>4. IsFiniteSet(1 .. k) /\ Cardinality(1 .. k) = k
  BY <1>2, FS_Interval
<1>5. ASSUME NEW v \in S, \A i \in 1 .. k : order[i] # v PROVE FALSE
  <2> DEFINE T == S \ {v}
  <2>1. order \in [1 .. k -> T]
    BY <1>1, <1>5
  <2>2. IsFiniteSet(T) /\ Cardinality(T) < Cardinality(1 .. k)
    BY <1>2, <1>3, <1>4
  <2> HIDE DEF T
  <2>3. \E x, y \in 1 .. k : x # y /\ order[x] = order[y]
    BY <1>4, <2>1, <2>2, FS_PigeonHole
  <2> QED BY <1>1, <2>3
<1>6. DOMAIN order = 1 .. k /\ \A i \in 1 .. k : order[i] \in S
  BY <1>1
<1> QED BY <1>5, <1>6 DEF ToSet

LEMMA ReportedTables ==
  ASSUME DbTyped(live), NEW db \in Reported
  PROVE  ToSet(db.tables) = ToSet(live.tables)
<1>1. CASE db = live
  BY <1>1
<1>2. CASE \E order \in SetToSeqs(ToSet(live.tables)) : db = [live EXCEPT !.tables = order]
  <2> DEFINE S == ToSet(live.tables)
  <2>1. PICK order \in SetToSeqs(S) : db = [live EXCEPT !.tables = order]
    BY <1>2
  <2>2. IsFiniteSet(S)
    BY ListFinite DEF DbTyped
  <2>3. db.tables = order
    BY <2>1 DEF DbTyped
  <2> HIDE DEF S
  <2>4. ToSet(order) = S
    BY <2>2, OrdersAll
  <2> QED BY <2>3, <2>4 DEF S
<1> QED BY <1>1, <1>2 DEF Reported

LEMMA ReportedReady ==
  ASSUME DbTyped(live), NEW db \in Reported, DbTyped(db), NEW E, NEW st, Ready(db, E, st)
  PROVE  Ready(live, E, st)
<1>1. ToSet(db.tables) = ToSet(live.tables)
  BY ReportedTables
<1>2. \A n : HasTable(db, n) <=> HasTable(live, n)
  BY <1>1 DEF HasTable, Names, ToSet
<1>3. ASSUME NEW n, HasTable(db, n) PROVE TableOf(db, n) = TableOf(live, n)
  <2>1. TableOf(db, n) \in ToSet(live.tables) /\ TableOf(db, n).name = n
    BY <1>1, <1>3, TableOfIs
  <2>2. TableOf(live, n) \in ToSet(live.tables) /\ TableOf(live, n).name = n
    BY <1>2, <1>3, TableOfIs
  <2> QED BY <2>1, <2>2 DEF DbTyped, Distinct, ToSet
<1>4. \A n : NameFreed(db, E, n) => NameFreed(live, E, n)
  BY <1>1 DEF NameFreed
<1>5. \A on, k : Comes(db, E, on, k) => Comes(live, E, on, k)
  BY <1>2, <1>3 DEF Comes
<1> QED BY <1>2, <1>3, <1>4, <1>5 DEF Ready

\* The script that is read has what it needs.
LEMMA ScriptReady ==
  ASSUME MigrateInv, dialect # "mariadb", NamesStay(live, target), NEW db \in Reported, NEW s, s = Script(db, target)
  PROVE  Singles(s) /\ \A j \in DOMAIN s : Ready(live, Before(s, j), s[j])
<1>1. DbTyped(live) /\ DbTyped(target) /\ NamesApart(dialect, target) /\ dialect \in Dialects
  BY DeclaredTyped DEF MigrateInv, TypeInv, Declared
<1>2. DbTyped(db)
  BY <1>1, ReportedIs DEF MigrateInv, OrderInv
<1>3. NamesStay(db, target)
  BY <1>1, ReportedTables DEF NamesStay
<1>4. PlacedPart(db, target, {}, s)
  BY <1>1, <1>2, ScriptPlaced
<1>5. \A j \in DOMAIN s : MeantFor(target, s[j])
  BY ReadScript
<1>6. ASSUME NEW j \in DOMAIN s PROVE Ready(live, Before(s, j), s[j])
  <2> DEFINE E == Before(s, j)
  <2>1. {} \cup E = E
    OBVIOUS
  <2>2. Placed(db, target, E, s[j])
    BY <1>4, <2>1 DEF PlacedPart
  <2> HIDE DEF E
  <2>3. Ready(db, E, s[j])
    BY <1>1, <1>2, <1>3, <1>5, <2>2, PlacedReady
  <2>4. Ready(live, E, s[j])
    BY <1>1, <1>2, <2>3, ReportedReady
  <2> QED BY <2>4 DEF E
<1>7. Singles(s)
  BY <1>4 DEF PlacedPart
<1> QED BY <1>6, <1>7

-----------------------------------------------------------------------------
(* What a statement takes away. *)

Gone(M, st) ==
  /\ st.op = "dropTable" => ~HasTable(M, st.on)
  /\ st.op = "dropIndex" => \A v \in ToSet(M.tables) : st.what \notin Names(v.indexes)

LEMMA AppliedGone ==
  ASSUME dialect # "mariadb", NEW L, DbTyped(L), NEW st
  PROVE  Gone(Apply(L, st), st)
<1> DEFINE M == Apply(L, st)
<1>1. ASSUME st.op = "dropTable" PROVE ~HasTable(M, st.on)
  <2> DEFINE fks == OthersKeys(L.fks, st.on)
  <2>1. M = [L EXCEPT !.tables = WithoutNamed(L.tables, st.on), !.fks = fks]
    BY <1>1, ApplyOther
  <2> HIDE DEF M, fks
  <2>2. M.tables = WithoutNamed(L.tables, st.on)
    BY <2>1 DEF DbTyped
  <2>3. ToSet(M.tables) = {u \in ToSet(L.tables) : u.name # st.on}
    BY <2>2, WithoutNamedIs DEF DbTyped
  <2> QED BY <2>3 DEF HasTable, Names, ToSet
<1>2. ASSUME st.op = "dropIndex", NEW w \in ToSet(M.tables) PROVE st.what \notin Names(w.indexes)
  <2> DEFINE kept == [i \in DOMAIN L.tables |->
                        IF dialect = "mariadb" /\ L.tables[i].name # st.on THEN L.tables[i]
                        ELSE [L.tables[i] EXCEPT !.indexes = WithoutNamed(@, st.what)]]
  <2>1. M = [L EXCEPT !.tables = kept]
    BY <1>2, ApplyOther DEF DropIndex
  <2>2. \A i \in DOMAIN L.tables : kept[i] = [L.tables[i] EXCEPT !.indexes = WithoutNamed(@, st.what)]
    OBVIOUS
  <2>3. DOMAIN kept = DOMAIN L.tables
    OBVIOUS
  <2> HIDE DEF M, kept
  <2>4. M.tables = kept
    BY <2>1 DEF DbTyped
  <2>5. PICK i \in DOMAIN L.tables : w = kept[i]
    BY <1>2, <2>3, <2>4 DEF ToSet
  <2> DEFINE v == L.tables[i]
  <2>6. TableTyped(v)
    BY DEF DbTyped, ToSet
  <2>7. w = [v EXCEPT !.indexes = WithoutNamed(@, st.what)]
    BY <2>2, <2>5
  <2> HIDE DEF v
  <2>8. w.indexes = WithoutNamed(v.indexes, st.what) /\ IsList(v.indexes)
    BY <2>6, <2>7 DEF TableTyped
  <2>9. ToSet(w.indexes) = {x \in ToSet(v.indexes) : x.name # st.what}
    BY <2>8, WithoutNamedIs
  <2> QED BY <2>9 DEF Names, ToSet
<1> QED BY <1>1, <1>2 DEF Gone

\* Where an index of a table comes from.
LEMMA IndexWas ==
  ASSUME NEW v, IsList(v.indexes), NEW w, NEW st, IndexesFrom(v, w, st), NEW x \in ToSet(w.indexes)
  PROVE  x \in ToSet(v.indexes) \/ (v.name = st.on /\ Adds(st, x))
<1>1. CASE PartOf(w.indexes, v.indexes)
  BY <1>1 DEF PartOf, Embeds, ToSet
<1>2. CASE v.name = st.on /\ \E y : Adds(st, y) /\ w.indexes = Append(v.indexes, y)
  <2>1. PICK y : Adds(st, y) /\ w.indexes = Append(v.indexes, y)
    BY <1>2
  <2>2. ToSet(w.indexes) = ToSet(v.indexes) \cup {y}
    BY <2>1, AppendElements
  <2> QED BY <1>2, <2>1, <2>2
<1> QED BY <1>1, <1>2 DEF IndexesFrom

\* A step of a script to new, outside MariaDB.
ScriptStep(new, L, M, st) ==
  /\ dialect # "mariadb" /\ dialect \in Dialects
  /\ DbTyped(new) /\ NamesApart(dialect, new) /\ DbTyped(L)
  /\ MeantFor(new, st) /\ Runnable(L, st) /\ Stepped(L, M, st)
  /\ st.op = "createTable" => NewTable(L, st).name = st.on /\ NewTable(L, st).indexes = <<>>
  /\ Gone(M, st) /\ Made(M, st)

\* The indexes of the target, and those that were there.
LEMMA StepIndexes ==
  ASSUME NEW new, NEW L, NEW M, NEW st, ScriptStep(new, L, M, st), NEW w \in ToSet(M.tables), NEW x \in ToSet(w.indexes)
  PROVE  \E v \in ToSet(L.tables) :
           /\ v.name = w.name
           /\ x \in ToSet(v.indexes) \/ (v.name = st.on /\ st.op = "createIndex" /\ x = st.what)
<1>1. w # NewTable(L, st) \/ st.op # "createTable"
  <2>1. ToSet(<<>>) = {}
    BY EmptyList DEF ToSet
  <2> QED BY <2>1 DEF ScriptStep
<1>2. PICK v \in ToSet(L.tables) : Became(v, w, st)
  BY <1>1 DEF ScriptStep, Stepped
<1>3. IsList(v.indexes)
  BY DEF ScriptStep, DbTyped, TableTyped
<1>4. v.name = w.name /\ IndexesFrom(v, w, st)
  BY <1>2 DEF Became
<1>5. x \in ToSet(v.indexes) \/ (v.name = st.on /\ Adds(st, x))
  BY <1>3, <1>4, IndexWas
<1>6. st.op # "modifyColumn"
  BY DEF ScriptStep, MeantFor
<1> QED BY <1>4, <1>5, <1>6 DEF Adds

\* A name that goes with the statements that follow still does.
LEMMA FreedStays ==
  ASSUME NEW new, NEW L, NEW M, NEW st, ScriptStep(new, L, M, st), NEW E, NEW n, NameFreed(L, {st} \cup E, n),
         st.op = "createTable" => st.on # n, st.op = "createIndex" => st.what.name # n
  PROVE  NameFreed(M, E, n)
<1>1. \A w \in ToSet(M.tables) : HasTable(M, w.name)
  BY DEF HasTable, Names, ToSet
<1>2. ASSUME NEW w \in ToSet(M.tables), w.name = n PROVE \E e \in E : e.op = "dropTable" /\ e.on = n
  <2>1. PICK v \in ToSet(L.tables) : Became(v, w, st)
    BY <1>2 DEF ScriptStep, Stepped
  <2>2. v.name = n
    BY <1>2, <2>1 DEF Became
  <2>3. PICK e \in {st} \cup E : e.op = "dropTable" /\ e.on = n
    BY <2>2 DEF NameFreed
  <2>4. e # st
    BY <1>1, <1>2, <2>3 DEF ScriptStep, Gone
  <2> QED BY <2>3, <2>4
<1>3. ASSUME NEW w \in ToSet(M.tables), NEW x \in ToSet(w.indexes), x.name = n
      PROVE  \E e \in E : (e.op = "dropIndex" /\ e.what = n) \/ (e.op = "dropTable" /\ e.on = w.name)
  <2>1. PICK v \in ToSet(L.tables) :
          v.name = w.name /\ (x \in ToSet(v.indexes) \/ (v.name = st.on /\ st.op = "createIndex" /\ x = st.what))
    BY StepIndexes
  <2>2. x \in ToSet(v.indexes)
    BY <1>3, <2>1
  <2>3. PICK e \in {st} \cup E : (e.op = "dropIndex" /\ e.what = n) \/ (e.op = "dropTable" /\ e.on = v.name)
    BY <1>3, <2>2 DEF NameFreed
  <2>4. n \in Names(w.indexes)
    BY <1>3 DEF Names, ToSet
  <2>5. e # st
    BY <1>1, <2>1, <2>3, <2>4 DEF ScriptStep, Gone
  <2> QED BY <2>1, <2>3, <2>5
<1> QED BY <1>2, <1>3 DEF NameFreed

\* A column that is there or still comes, of a table of the target.
LEMMA ComesStays ==
  ASSUME NEW new, NEW L, NEW M, NEW st, ScriptStep(new, L, M, st), NEW E, NEW nt \in ToSet(new.tables), NEW k \in Names(nt.cols),
         Comes(L, {st} \cup E, nt.name, k)
  PROVE  Comes(M, E, nt.name, k)
<1> DEFINE on == nt.name
<1>1. CASE HasTable(L, on) /\ k \in Names(TableOf(L, on).cols)
  <2>1. on \in Names(new.tables)
    BY DEF Names, ToSet
  <2>2. HasTable(M, on)
    <3>1. DbTyped(L) /\ MeantFor(new, st) /\ Stepped(L, M, st)
      BY DEF ScriptStep
    <3> HIDE DEF on
    <3> QED BY <1>1, <2>1, <3>1, TargetStays
  <2>3. Became(TableOf(L, on), TableOf(M, on), st)
    <3>1. DbTyped(L) /\ Runnable(L, st) /\ Stepped(L, M, st) /\ (st.op = "createTable" => NewTable(L, st).name = st.on)
      BY DEF ScriptStep
    <3> HIDE DEF on
    <3> QED BY <1>1, <2>2, <3>1, TableBecame
  <2>4. TableOf(L, on).name = on
    BY <1>1, TableOfIs DEF ScriptStep
  <2>5. ~(st.op = "dropColumn" /\ st.on = on /\ k = st.what)
    BY DEF ScriptStep, MeantFor
  <2>6. k \in Names(TableOf(M, on).cols)
    BY <1>1, <2>3, <2>4, <2>5 DEF Became, ColumnsKept
  <2> QED BY <2>2, <2>6 DEF Comes
<1>2. CASE \E e \in {st} \cup E : Brings(e, on, k)
  <2>1. CASE Brings(st, on, k)
    BY <2>1 DEF ScriptStep, Made, Comes, Brings
  <2>2. CASE \E e \in E : Brings(e, on, k)
    BY <2>2 DEF Comes
  <2> QED BY <1>2, <2>1, <2>2
<1> QED BY <1>1, <1>2 DEF Comes

\* What a statement needs is still there or comes, after the first that it
\* waits for is run.
LEMMA ReadyStays ==
  ASSUME NEW new, NEW L, NEW M, NEW st, ScriptStep(new, L, M, st), NEW b, MeantFor(new, b), Differ(st, b),
         NEW E, Ready(L, {st} \cup E, b)
  PROVE  Ready(M, E, b)
<1>1. DbTyped(L) /\ MeantFor(new, st) /\ Runnable(L, st) /\ Stepped(L, M, st) /\ dialect # "mariadb" /\ dialect \in Dialects
  BY DEF ScriptStep
<1>2. NamesApart(dialect, new) /\ DbTyped(new)
  BY DEF ScriptStep
<1>3. ASSUME b.op = "dropTable" PROVE HasTable(M, b.on)
  <2>1. PICK v \in ToSet(L.tables) : v.name = b.on
    BY <1>3 DEF Ready, HasTable, Names, ToSet
  <2>2. ~(st.op = "dropTable" /\ st.on = b.on)
    BY <1>3 DEF Differ
  <2> QED BY <1>1, <2>1, <2>2 DEF Stepped
<1>4. ASSUME b.op = "createTable" PROVE NameFreed(M, E, b.on)
  <2>1. PICK t \in ToSet(new.tables) : b = CreateTable(t, new)
    BY <1>4 DEF MeantFor
  <2>2. b.on = t.name
    BY <2>1, CreateTableIs
  <2>3. st.op = "createTable" => st.on # b.on
    BY <1>4 DEF Differ
  <2>4. ASSUME st.op = "createIndex" PROVE st.what.name # b.on
    <3>1. PICK u \in ToSet(new.tables) : st.what \in ToSet(u.indexes)
      BY <1>1, <2>4 DEF MeantFor
    <3>2. st.what.name \in Names(u.indexes)
      BY <3>1 DEF Names, ToSet
    <3> QED BY <1>1, <1>2, <2>2, <3>2, NoTableName
  <2>5. NameFreed(L, {st} \cup E, b.on)
    BY <1>4 DEF Ready
  <2> QED BY <2>3, <2>4, <2>5, FreedStays
<1>5. ASSUME b.op = "createIndex"
      PROVE  NameFreed(M, E, b.what.name) /\ \A k \in ToSet(b.what.keys) : Comes(M, E, b.on, k)
  <2>1. PICK nt \in ToSet(new.tables) : nt.name = b.on /\ b.what \in ToSet(nt.indexes)
    BY <1>5 DEF MeantFor
  <2>2. b.what.name \in Names(nt.indexes)
    BY <2>1 DEF Names, ToSet
  <2>3. st.op = "createIndex" => st.what.name # b.what.name
    BY <1>1, <1>5 DEF Differ
  <2>4. ASSUME st.op = "createTable" PROVE st.on # b.what.name
    <3>1. PICK t \in ToSet(new.tables) : st = CreateTable(t, new)
      BY <1>1, <2>4 DEF MeantFor
    <3>2. st.on = t.name
      BY <3>1, CreateTableIs
    <3> QED BY <1>1, <1>2, <2>2, <3>2, NoTableName
  <2>5. NameFreed(L, {st} \cup E, b.what.name) /\ \A k \in ToSet(b.what.keys) : Comes(L, {st} \cup E, b.on, k)
    BY <1>5 DEF Ready
  <2>6. NameFreed(M, E, b.what.name)
    BY <2>3, <2>4, <2>5, FreedStays
  <2>7. ASSUME NEW k \in ToSet(b.what.keys) PROVE Comes(M, E, b.on, k)
    <3>1. k \in Names(nt.cols)
      BY <1>2, <2>1 DEF DbTyped, TableTyped
    <3>2. Comes(L, {st} \cup E, nt.name, k)
      BY <2>1, <2>5
    <3>3. Comes(M, E, nt.name, k)
      BY <3>1, <3>2, ComesStays
    <3> QED BY <2>1, <3>3
  <2> QED BY <2>6, <2>7
<1>6. ASSUME b.op = "addColumn" PROVE HasTable(M, b.on) /\ b.what.name \notin Names(TableOf(M, b.on).cols)
  <2>1. b.on \in Names(new.tables)
    BY <1>6 DEF MeantFor, Names, ToSet
  <2>2. HasTable(L, b.on) /\ b.what.name \notin Names(TableOf(L, b.on).cols)
    BY <1>6 DEF Ready
  <2>3. HasTable(M, b.on)
    BY <1>1, <2>1, <2>2, TargetStays
  <2>4. Became(TableOf(L, b.on), TableOf(M, b.on), st)
    <3>1. st.op = "createTable" => NewTable(L, st).name = st.on
      BY DEF ScriptStep
    <3> QED BY <1>1, <2>2, <2>3, <3>1, TableBecame
  <2>5. TableOf(L, b.on).name = b.on
    BY <1>1, <2>2, TableOfIs
  <2>6. ~(st.op = "addColumn" /\ st.on = b.on /\ st.what.name = b.what.name)
    BY <1>6 DEF Differ
  <2> QED BY <2>2, <2>3, <2>4, <2>5, <2>6 DEF Became, ColumnsFrom
<1> QED BY <1>3, <1>4, <1>5, <1>6 DEF Ready

LEMMA NamesStayStep ==
  ASSUME NEW new, NEW L, NEW M, NEW st, ScriptStep(new, L, M, st), NamesStay(L, new)
  PROVE  NamesStay(M, new)
<1> SUFFICES ASSUME NEW w \in ToSet(M.tables), NEW u \in ToSet(new.tables), NEW n, n \in Names(w.indexes), n \in Names(u.indexes)
             PROVE  w.name = u.name
  BY DEF NamesStay
<1>1. PICK x \in ToSet(w.indexes) : x.name = n
  BY DEF Names, ToSet
<1>2. PICK v \in ToSet(L.tables) :
        v.name = w.name /\ (x \in ToSet(v.indexes) \/ (v.name = st.on /\ st.op = "createIndex" /\ x = st.what))
  BY StepIndexes
<1>3. CASE x \in ToSet(v.indexes)
  <2>1. n \in Names(v.indexes)
    BY <1>1, <1>3 DEF Names, ToSet
  <2>2. v.name = u.name
    BY <2>1 DEF NamesStay
  <2> QED BY <1>2, <2>2
<1>4. CASE v.name = st.on /\ st.op = "createIndex" /\ x = st.what
  <2>1. PICK t \in ToSet(new.tables) : t.name = st.on /\ st.what \in ToSet(t.indexes)
    BY <1>4 DEF ScriptStep, MeantFor
  <2>2. n \in Names(t.indexes)
    BY <1>1, <1>4, <2>1 DEF Names, ToSet
  <2>3. n \in TakenNames(dialect, t) /\ n \in TakenNames(dialect, u)
    BY <2>2 DEF TakenNames
  <2>4. t.name = u.name
    BY <2>3 DEF ScriptStep, NamesApart
  <2> QED BY <1>2, <1>4, <2>1, <2>4
<1> QED BY <1>2, <1>3, <1>4

LEMMA AddableStep ==
  ASSUME NEW new, NEW L, NEW M, NEW st, ScriptStep(new, L, M, st), Addable(L, new)
  PROVE  Addable(M, new)
<1> SUFFICES ASSUME NEW w \in ToSet(M.tables), NEW u \in ToSet(new.tables), w.name = u.name,
                    NEW e \in ToSet(u.cols), e.name \notin Names(w.cols), e.notnull \/ e.unique
             PROVE  e.pk
  BY DEF Addable
<1>1. e.name \in Names(u.cols)
  BY DEF Names, ToSet
<1>2. CASE st.op = "createTable" /\ w = NewTable(L, st)
  <2>1. PICK t \in ToSet(new.tables) : st = CreateTable(t, new)
    BY <1>2 DEF ScriptStep, MeantFor
  <2>2. st.on = t.name /\ st.what.cols = MadeColumns(t, new)
    BY <2>1, CreateTableIs
  <2>3. w.name = st.on
    BY <1>2 DEF ScriptStep
  <2>4. t = u
    <3>1. Distinct(new.tables)
      BY DEF ScriptStep, DbTyped
    <3>2. t.name = u.name
      BY <2>2, <2>3
    <3> QED BY <3>1, <3>2 DEF Distinct, ToSet
  <2>5. TableTyped(u)
    BY DEF ScriptStep, DbTyped
  <2>6. Names(st.what.cols) = Names(u.cols)
    BY <2>2, <2>4, <2>5, MadeColumnsAre
  <2>7. TableOf(M, st.on) = w
    BY <2>3, NamedIs DEF ScriptStep, Stepped, DbTyped, TableOf
  <2>8. Names(w.cols) = Names(st.what.cols)
    BY <1>2, <2>7 DEF ScriptStep, Made
  <2> QED BY <1>1, <2>6, <2>8
<1>3. CASE \E v \in ToSet(L.tables) : Became(v, w, st)
  <2>1. PICK v \in ToSet(L.tables) : Became(v, w, st)
    BY <1>3
  <2>2. v.name = u.name
    BY <2>1 DEF Became
  <2>3. e.name \notin Names(v.cols)
    <3>1. ~(st.op = "dropColumn" /\ st.on = v.name /\ e.name = st.what)
      BY <1>1, <2>2 DEF ScriptStep, MeantFor
    <3> QED BY <2>1, <3>1 DEF Became, ColumnsKept
  <2> QED BY <2>2, <2>3 DEF Addable
<1> QED BY <1>2, <1>3 DEF ScriptStep, Stepped

-----------------------------------------------------------------------------
(* SQLite refuses no statement. *)

\* An index of a declared schema has columns.
LEMMA HasKeys ==
  ASSUME NEW d, NEW db, Declared(d, db), NEW t \in ToSet(db.tables), NEW x \in ToSet(t.indexes)
  PROVE  \E k : k \in ToSet(x.keys)
<1> DEFINE R == {db.tables[i].records : i \in DOMAIN db.tables}
<1>1. db.tables \in Seq(TableWith(R)) /\ x.keys # <<>>
  BY DEF Declared
<1> HIDE DEF R
<1>2. IsList(db.tables) /\ IsList(t.indexes)
  BY DeclaredTyped DEF DbTyped, TableTyped
<1>3. PICK i \in DOMAIN db.tables : t = db.tables[i]
  BY DEF ToSet
<1>4. i \in 1 .. Len(db.tables)
  BY <1>2, ListIs
<1>5. t \in TableWith(R)
  BY <1>1, <1>3, <1>4, ElementOfSeq
<1>6. t.indexes \in Seq(Index)
  BY <1>5 DEF TableWith
<1>7. PICK j \in DOMAIN t.indexes : x = t.indexes[j]
  BY DEF ToSet
<1>8. j \in 1 .. Len(t.indexes)
  BY <1>2, ListIs
<1>9. x \in Index
  BY <1>6, <1>7, <1>8, ElementOfSeq
<1>10. x.keys \in Seq(STRING)
  BY <1>9 DEF Index
<1>11. 1 \in DOMAIN x.keys
  BY <1>1, <1>10
<1> QED BY <1>11 DEF ToSet

\* A name that no statement has to free is not occupied.
LEMMA FreedName ==
  ASSUME dialect = "sqlite", NEW L, NEW n, NameFreed(L, {}, n), NEW t
  PROVE  n \notin Occupied(L, t)
<1>1. \A v \in ToSet(L.tables) : v.name # n
  BY DEF NameFreed
<1>2. \A v \in ToSet(L.tables) : \A x \in ToSet(v.indexes) : x.name # n
  BY DEF NameFreed
<1>3. n \notin Names(L.tables)
  BY <1>1 DEF Names, ToSet
<1>4. \A v \in ToSet(L.tables) : n \notin Names(v.indexes)
  BY <1>2 DEF Names, ToSet
<1> QED BY <1>3, <1>4 DEF Occupied

LEMMA SqliteAccepts ==
  ASSUME dialect = "sqlite", NEW new, Declared(dialect, new), NEW L, DbTyped(L), Addable(L, new),
         NEW st, MeantFor(new, st), DropMeant(L, new, st), Ready(L, {}, st)
  PROVE  Accepts(L, st)
<1>1. DbTyped(new)
  BY DeclaredTyped
<1>2. st.op \in {"comment", "createTable", "dropTable", "createIndex", "dropIndex", "addColumn"}
  BY DEF MeantFor, OpsOf
<1>3. CASE st.op = "comment"
  BY <1>3 DEF Accepts
<1>4. CASE st.op = "createTable"
  <2>1. st.on \notin Occupied(L, st.on)
    BY <1>4, FreedName DEF Ready
  <2>2. IncrementFits(st.what.cols, st.what.pk) /\ \A c : EnumKnown(L, c.type)
    BY DEF EnumKnown, IncrementFits
  <2> QED BY <1>4, <2>1, <2>2 DEF Accepts
<1>5. CASE st.op = "dropTable"
  BY <1>5 DEF Accepts, Ready
<1>6. CASE st.op = "createIndex"
  <2>1. st.what.name \notin Occupied(L, st.on)
    BY <1>6, FreedName DEF Ready
  <2>2. \A k \in ToSet(st.what.keys) : HasTable(L, st.on) /\ k \in Names(TableOf(L, st.on).cols)
    BY <1>6 DEF Ready, Comes
  <2>3. \E t \in ToSet(new.tables) : st.what \in ToSet(t.indexes)
    BY <1>6 DEF MeantFor
  <2>4. \E k : k \in ToSet(st.what.keys)
    BY <2>3, HasKeys
  <2>5. HasColumns(L, st.on, st.what.keys)
    BY <2>2, <2>4 DEF HasColumns
  <2> QED BY <1>6, <2>1, <2>5 DEF Accepts
<1>7. CASE st.op = "dropIndex"
  <2>1. HasTable(L, st.on) /\ st.what \in Names(TableOf(L, st.on).indexes)
    BY <1>7 DEF DropMeant, Second
  <2>2. TableOf(L, st.on) \in ToSet(L.tables)
    BY <2>1, TableOfIs
  <2> QED BY <1>7, <2>1, <2>2 DEF Accepts
<1>8. CASE st.op = "addColumn"
  <2>1. HasTable(L, st.on) /\ st.what.name \notin Names(TableOf(L, st.on).cols)
    BY <1>8 DEF Ready
  <2>2. ~HasColumns(L, st.on, <<st.what.name>>)
    BY <2>1, HasColumnIs
  <2>3. PICK t \in ToSet(new.tables) : t.name = st.on /\ \E c \in ToSet(t.cols) : st.what = RenderColumn(c, FALSE, new)
    BY <1>8 DEF MeantFor
  <2>4. PICK c \in ToSet(t.cols) : st.what = RenderColumn(c, FALSE, new)
    BY <2>3
  <2>5. DOMAIN c = Fields
    BY <1>1 DEF DbTyped, TableTyped
  <2>6. st.what.name = c.name
    <3>1. RenderColumn(c, FALSE, new).name = c.name
      BY <2>5, RenderedIs, Zenon
    <3> QED BY <2>4, <3>1, Zenon
  <2>7. TableOf(L, st.on) \in ToSet(L.tables) /\ TableOf(L, st.on).name = st.on
    BY <2>1, TableOfIs
  <2>8. c.notnull \/ c.unique => c.pk
    BY <2>1, <2>3, <2>6, <2>7 DEF Addable
  <2>9. ~st.what.notnull /\ ~st.what.unique
    BY <2>4, <2>5, <2>8 DEF RenderColumn, Fields
  <2>10. EnumKnown(L, st.what.type)
    BY DEF EnumKnown
  <2> QED BY <1>8, <2>1, <2>2, <2>9, <2>10 DEF Accepts
<1> QED BY <1>2, <1>3, <1>4, <1>5, <1>6, <1>7, <1>8

-----------------------------------------------------------------------------
(* The invariant. *)

-----------------------------------------------------------------------------
(* What the statements that follow lead to. *)

\* When one of the statements has been run, the others still lead to new.
LEMMA TablesStep ==
  ASSUME NEW new, NEW L, NEW M, NEW st, ScriptStep(new, L, M, st), NEW E,
         TablesDropped(L, new, {st} \cup E), TablesMade(L, new, {st} \cup E)
  PROVE  TablesDropped(M, new, E) /\ TablesMade(M, new, E)
<1>1. /\ DbTyped(L) /\ MeantFor(new, st) /\ Stepped(L, M, st)
      /\ st.op = "createTable" => NewTable(L, st).name = st.on
      /\ Gone(M, st) /\ Made(M, st)
  BY DEF ScriptStep
<1>2. ASSUME NEW w \in ToSet(M.tables), ~HasTable(new, w.name) PROVE Stmt("dropTable", w.name, "") \in E
  <2>1. ~(st.op = "createTable" /\ w = NewTable(L, st))
    <3>1. ASSUME st.op = "createTable" PROVE HasTable(new, st.on)
      <4>1. PICK t \in ToSet(new.tables) : st = CreateTable(t, new)
        BY <1>1, <3>1 DEF MeantFor
      <4> QED BY <4>1, CreateTableIs DEF HasTable, Names, ToSet
    <3> QED BY <1>1, <1>2, <3>1
  <2>2. PICK v \in ToSet(L.tables) : v.name = w.name
    BY <1>1, <2>1 DEF Stepped, Became
  <2>3. Stmt("dropTable", w.name, "") \in {st} \cup E
    BY <1>2, <2>2 DEF TablesDropped
  <2>4. HasTable(M, w.name)
    BY DEF HasTable, Names, ToSet
  <2>5. Stmt("dropTable", w.name, "") # st
    <3>1. Stmt("dropTable", w.name, "").op = "dropTable" /\ Stmt("dropTable", w.name, "").on = w.name
      BY Zenon DEF Stmt
    <3> QED BY <1>1, <2>4, <3>1 DEF Gone
  <2> QED BY <2>3, <2>5
<1>3. ASSUME NEW nt \in ToSet(new.tables), ~HasTable(M, nt.name) PROVE CreateTable(nt, new) \in E
  <2>1. nt.name \in Names(new.tables)
    BY DEF Names, ToSet
  <2>2. ~HasTable(L, nt.name)
    BY <1>1, <1>3, <2>1, TargetStays
  <2>3. CreateTable(nt, new) \in {st} \cup E
    BY <2>2 DEF TablesMade
  <2>4. CreateTable(nt, new) # st
    BY <1>1, <1>3, CreateTableIs DEF Made
  <2> QED BY <2>3, <2>4
<1> QED BY <1>2, <1>3 DEF TablesDropped, TablesMade

\* The table of the target after a step, which was there or is new.
LEMMA TargetTable ==
  ASSUME NEW new, NEW L, NEW M, NEW st, ScriptStep(new, L, M, st), NEW nt \in ToSet(new.tables), HasTable(M, nt.name)
  PROVE  \/ HasTable(L, nt.name) /\ Became(TableOf(L, nt.name), TableOf(M, nt.name), st)
         \/ Names(nt.cols) \subseteq Names(TableOf(M, nt.name).cols) /\ TableOf(M, nt.name).indexes = <<>>
<1>1. /\ DbTyped(new) /\ DbTyped(L) /\ MeantFor(new, st) /\ Stepped(L, M, st) /\ Runnable(L, st)
      /\ st.op = "createTable" => NewTable(L, st).name = st.on /\ NewTable(L, st).indexes = <<>>
      /\ Made(M, st)
  BY DEF ScriptStep
<1>2. CASE HasTable(L, nt.name)
  BY <1>1, <1>2, TableBecame
<1>3. CASE ~HasTable(L, nt.name)
  <2> DEFINE w == TableOf(M, nt.name)
  <2>1. w \in ToSet(M.tables) /\ w.name = nt.name
    BY <1>1, TableOfIs DEF Stepped
  <2>2. \A v \in ToSet(L.tables) : v.name # nt.name
    BY <1>3 DEF HasTable, Names, ToSet
  <2>3. st.op = "createTable" /\ w = NewTable(L, st)
    BY <1>1, <2>1, <2>2 DEF Stepped, Became
  <2>4. st.on = nt.name /\ w.indexes = <<>> /\ Names(w.cols) = Names(st.what.cols)
    BY <1>1, <2>1, <2>3 DEF Made
  <2>5. PICK t \in ToSet(new.tables) : st = CreateTable(t, new)
    BY <1>1, <2>3 DEF MeantFor
  <2>6. t.name = nt.name /\ st.what.cols = MadeColumns(t, new)
    BY <2>4, <2>5, CreateTableIs
  <2>7. t = nt
    BY <1>1, <2>6 DEF DbTyped, Distinct, ToSet
  <2>8. Names(st.what.cols) = Names(nt.cols)
    BY <1>1, <2>6, <2>7, MadeColumnsAre DEF DbTyped
  <2> QED BY <2>4, <2>8
<1> QED BY <1>2, <1>3

LEMMA AlteredStep ==
  ASSUME dialect = "sqlite", NEW new, NEW L, NEW M, NEW st, ScriptStep(new, L, M, st), NEW E,
         AllAltered(L, new, {st} \cup E)
  PROVE  AllAltered(M, new, E)
<1>1. /\ DbTyped(new) /\ DbTyped(L) /\ MeantFor(new, st) /\ Stepped(L, M, st)
      /\ Gone(M, st) /\ Made(M, st)
  BY DEF ScriptStep
<1> SUFFICES ASSUME NEW nt \in ToSet(new.tables), HasTable(M, nt.name)
             PROVE  Altered(TableOf(M, nt.name), nt, new, E)
  BY DEF AllAltered
<1> DEFINE v == TableOf(L, nt.name)
           w == TableOf(M, nt.name)
<1>2. \/ HasTable(L, nt.name) /\ Became(v, w, st)
      \/ Names(nt.cols) \subseteq Names(w.cols) /\ w.indexes = <<>>
  BY TargetTable
<1>3. w \in ToSet(M.tables) /\ w.name = nt.name
  BY <1>1, TableOfIs DEF Stepped
<1>4. HasTable(L, nt.name) => Altered(v, nt, new, {st} \cup E) /\ v \in ToSet(L.tables) /\ v.name = nt.name
  BY <1>1, TableOfIs DEF AllAltered
<1>5. Made(M, st) => (st.op = "addColumn" /\ st.on = nt.name => st.what.name \in Names(w.cols))
  BY DEF Made
<1> HIDE DEF v, w
<1>6. ASSUME NEW x \in ToSet(w.indexes), ~Unchanged(x, nt) PROVE Stmt("dropIndex", nt.name, x.name) \in E
  <2>1. PICK u \in ToSet(L.tables) : /\ u.name = w.name
                                     /\ x \in ToSet(u.indexes) \/ (u.name = st.on /\ st.op = "createIndex" /\ x = st.what)
    BY <1>3, StepIndexes
  <2>2. ASSUME st.on = nt.name, st.op = "createIndex" PROVE x # st.what
    <3>1. PICK t \in ToSet(new.tables) : t.name = st.on /\ st.what \in ToSet(t.indexes)
      BY <1>1, <2>2 DEF MeantFor
    <3>2. t = nt
      BY <1>1, <2>2, <3>1 DEF DbTyped, Distinct, ToSet
    <3> QED BY <1>6, <3>1, <3>2 DEF Unchanged
  <2>3. x \in ToSet(u.indexes) /\ HasTable(L, nt.name)
    BY <1>3, <2>1, <2>2 DEF HasTable, Names, ToSet
  <2>4. u = v
    BY <1>1, <1>3, <1>4, <2>1, <2>3 DEF DbTyped, Distinct, ToSet
  <2>5. Stmt("dropIndex", nt.name, x.name) \in {st} \cup E
    BY <1>4, <1>6, <2>3, <2>4 DEF Altered, IndexesDropped
  <2>6. Stmt("dropIndex", nt.name, x.name).op = "dropIndex" /\ Stmt("dropIndex", nt.name, x.name).what = x.name
    BY StmtIs
  <2>7. x.name \in Names(w.indexes)
    BY DEF Names, ToSet
  <2> QED BY <1>1, <1>3, <2>5, <2>6, <2>7 DEF Gone
<1>7. ASSUME NEW c \in ToSet(nt.cols), c.name \notin Names(w.cols)
      PROVE  Stmt("addColumn", nt.name, RenderColumn(c, FALSE, new)) \in E
  <2> DEFINE col == RenderColumn(c, FALSE, new)
  <2>1. c.name \in Names(nt.cols) /\ DOMAIN c = Fields
    BY <1>1 DEF Names, ToSet, DbTyped, TableTyped
  <2>2. HasTable(L, nt.name) /\ Became(v, w, st)
    BY <1>2, <1>7, <2>1
  <2>3. col.name = c.name
    BY <2>1, RenderedIs
  <2> HIDE DEF col
  <2>4. st.op # "dropColumn"
    BY <1>1 DEF MeantFor, OpsOf
  <2>5. c.name \notin Names(v.cols)
    BY <1>7, <2>2, <2>4 DEF Became, ColumnsKept
  <2>6. Stmt("addColumn", nt.name, col) \in {st} \cup E
    BY <1>4, <2>2, <2>5 DEF Altered, ColumnsAdded, col
  <2>7. /\ Stmt("addColumn", nt.name, col).op = "addColumn" /\ Stmt("addColumn", nt.name, col).on = nt.name
        /\ Stmt("addColumn", nt.name, col).what = col
    BY StmtIs
  <2>8. Stmt("addColumn", nt.name, col) # st
    BY <1>1, <1>5, <1>7, <2>3, <2>7
  <2> QED BY <2>6, <2>8 DEF col
<1> QED BY <1>6, <1>7 DEF Altered, IndexesDropped, ColumnsAdded, w

LEMMA IndexesStep ==
  ASSUME dialect = "sqlite", NEW new, NEW L, NEW M, NEW st, ScriptStep(new, L, M, st),
         IndexesApart(L, new), DropMeant(L, new, st), NEW E, IndexesMade(L, new, {st} \cup E)
  PROVE  IndexesMade(M, new, E)
<1>1. /\ DbTyped(new) /\ DbTyped(L) /\ MeantFor(new, st) /\ Stepped(L, M, st) /\ Runnable(L, st)
      /\ st.op = "createTable" => NewTable(L, st).name = st.on
      /\ Made(M, st)
  BY DEF ScriptStep
<1> SUFFICES ASSUME NEW nt \in ToSet(new.tables), NEW x \in ToSet(nt.indexes),
                    ~(HasTable(M, nt.name) /\ x \in ToSet(TableOf(M, nt.name).indexes))
             PROVE  Stmt("createIndex", nt.name, x) \in E
  BY DEF IndexesMade
<1>2. ~(HasTable(L, nt.name) /\ x \in ToSet(TableOf(L, nt.name).indexes))
  <2> SUFFICES ASSUME HasTable(L, nt.name), x \in ToSet(TableOf(L, nt.name).indexes) PROVE FALSE
    OBVIOUS
  <2>1. HasTable(M, nt.name)
        /\ ToSet(nt.indexes) \cap ToSet(TableOf(L, nt.name).indexes) \subseteq ToSet(TableOf(M, nt.name).indexes)
    BY <1>1, SharedStays
  <2> QED BY <2>1
<1>3. Stmt("createIndex", nt.name, x) \in {st} \cup E
  BY <1>2 DEF IndexesMade
<1>4. /\ Stmt("createIndex", nt.name, x).op = "createIndex" /\ Stmt("createIndex", nt.name, x).on = nt.name
      /\ Stmt("createIndex", nt.name, x).what = x
  BY StmtIs
<1> QED BY <1>1, <1>3, <1>4 DEF Made

LEMMA LeadsStep ==
  ASSUME dialect = "sqlite", NEW new, NEW L, NEW M, NEW st, ScriptStep(new, L, M, st),
         IndexesApart(L, new), DropMeant(L, new, st), NEW E, LeadsTo(L, new, {st} \cup E)
  PROVE  LeadsTo(M, new, E)
BY TablesStep, AlteredStep, IndexesStep DEF LeadsTo

LEMMA SameSingles ==
  ASSUME dialect' = dialect, NEW s PROVE Singles(s)' <=> Singles(s)
BY Zenon DEF Singles, Differ

LEMMA ReadyInvNext ==
  ASSUME UNCHANGED <<dialect, target>>, dialect = "sqlite" => NamesStay(live', target) /\ Addable(live', target),
         dialect = "sqlite" => Singles(script'),
         dialect = "sqlite" => \A j \in DOMAIN script' : Ready(live', Before(script', j), script'[j])
  PROVE  ReadyInv'
BY SameSingles DEF ReadyInv

\* What comes before a statement, when the first has been run.
LEMMA TailBefore ==
  ASSUME NEW s, NEW t, IsList(s), IsList(t), NEW st, st = s[1],
         \A j \in DOMAIN t : j + 1 \in DOMAIN s /\ t[j] = s[j + 1], NEW j \in DOMAIN t
  PROVE  Before(s, j + 1) \subseteq {st} \cup Before(t, j)
<1>1. DOMAIN s = 1 .. Len(s) /\ Len(s) \in Nat /\ DOMAIN t = 1 .. Len(t) /\ Len(t) \in Nat
  BY ListIs
<1> SUFFICES ASSUME NEW i \in DOMAIN s, i < j + 1, i # 1 PROVE s[i] \in Before(t, j)
  BY DEF Before
<1> DEFINE n == Len(t)
           k == i - 1
<1>2. n \in Nat /\ DOMAIN t = 1 .. n
  BY <1>1
<1> HIDE DEF n
<1>3. i \in Nat /\ j \in 1 .. n
  BY <1>1, <1>2
<1>4. k \in 1 .. n /\ k < j /\ k + 1 = i
  BY <1>1, <1>2, <1>3
<1> HIDE DEF k
<1>5. s[i] = t[k]
  BY <1>2, <1>4
<1> QED BY <1>2, <1>4, <1>5 DEF Before

LEMMA ReadyMore ==
  ASSUME NEW L, NEW E, NEW st, Ready(L, E, st), NEW F, E \subseteq F
  PROVE  Ready(L, F, st)
<1>1. \A n : NameFreed(L, E, n) => NameFreed(L, F, n)
  BY DEF NameFreed
<1>2. \A on, k : Comes(L, E, on, k) => Comes(L, F, on, k)
  BY DEF Comes
<1> QED BY <1>1, <1>2 DEF Ready

LEMMA ReadyStep == MigrateInv /\ ReadyInv /\ [Next]_vars => ReadyInv'
<1> SUFFICES ASSUME MigrateInv, ReadyInv, [Next]_vars PROVE ReadyInv'
  OBVIOUS
<1>1. UNCHANGED <<dialect, target>>
  BY DEF Next, Read, Execute, Interrupt, Finish, vars
<1>2. CASE dialect # "sqlite"
  BY <1>1, <1>2, ReadyInvNext
<1>3. CASE dialect = "sqlite" /\ Read
  <2>1. PICK db \in Reported : script' = Script(db, target)
    BY <1>3 DEF Read
  <2>2. NamesStay(live, target) /\ Addable(live, target) /\ live' = live
    BY <1>3 DEF ReadyInv, Read
  <2>3. Singles(script') /\ \A j \in DOMAIN script' : Ready(live, Before(script', j), script'[j])
    BY <1>3, <2>1, <2>2, ScriptReady
  <2> QED BY <1>1, <2>2, <2>3, ReadyInvNext
<1>4. CASE dialect = "sqlite" /\ Execute
  <2> DEFINE st == Head(script)
  <2>1. /\ script # <<>> /\ st = script[1] /\ MeantFor(target, st) /\ live' = Apply(live, st)
        /\ Runnable(live, st) /\ Stepped(live, live', st)
        /\ (st.op = "createTable" => NewTable(live, st).name = st.on /\ NewTable(live, st).indexes = <<>>)
        /\ IsList(script')
        /\ \A j \in DOMAIN script' : j + 1 \in DOMAIN script /\ script'[j] = script[j + 1]
    BY <1>4, ExecuteIs
  <2> HIDE DEF st
  <2>2. /\ DbTyped(target) /\ NamesApart(dialect, target) /\ DbTyped(live) /\ dialect \in Dialects /\ IsList(script)
        /\ \A j \in DOMAIN script : MeantFor(target, script[j])
    BY DeclaredTyped DEF MigrateInv, TypeInv, Declared
  <2>3. /\ NamesStay(live, target) /\ Addable(live, target) /\ Singles(script)
        /\ \A j \in DOMAIN script : Ready(live, Before(script, j), script[j])
    BY <1>4 DEF ReadyInv
  <2>4. Gone(live', st) /\ Made(live', st)
    BY <1>4, <2>1, <2>2, AppliedGone, AppliedMade
  <2>5. ScriptStep(target, live, live', st)
    BY <1>4, <2>1, <2>2, <2>4 DEF ScriptStep
  <2>6. NamesStay(live', target) /\ Addable(live', target)
    BY <2>3, <2>5, NamesStayStep, AddableStep
  <2>7. /\ DOMAIN script' \subseteq Nat /\ 1 \in DOMAIN script
        /\ \A j \in DOMAIN script' : 1 < j + 1
    <3>1. Len(script) # 0 /\ Len(script) \in Nat /\ DOMAIN script = 1 .. Len(script)
      BY <2>1, <2>2, ListIs
    <3>2. Len(script') \in Nat /\ DOMAIN script' = 1 .. Len(script')
      BY <2>1, ListIs
    <3> QED BY <3>1, <3>2
  <2>8. ASSUME NEW j \in DOMAIN script' PROVE Ready(live', Before(script', j), script'[j])
    <3> DEFINE b == script[j + 1]
               E == Before(script', j)
    <3>1. script'[j] = b /\ MeantFor(target, b) /\ Ready(live, Before(script, j + 1), b)
      BY <2>1, <2>2, <2>3
    <3>2. Differ(st, b)
      BY <2>1, <2>3, <2>7 DEF Singles
    <3>3. Before(script, j + 1) \subseteq {st} \cup E
      <4> DEFINE t == script'
      <4>1. IsList(t) /\ j \in DOMAIN t /\ \A i \in DOMAIN t : i + 1 \in DOMAIN script /\ t[i] = script[i + 1]
        BY <2>1
      <4> HIDE DEF t
      <4>2. Before(script, j + 1) \subseteq {st} \cup Before(t, j)
        BY <2>1, <2>2, <4>1, TailBefore
      <4> QED BY <4>2 DEF t
    <3> HIDE DEF b, E
    <3>4. Ready(live, {st} \cup E, b)
      BY <3>1, <3>3, ReadyMore
    <3>5. Ready(live', E, b)
      BY <2>5, <3>1, <3>2, <3>4, ReadyStays
    <3> QED BY <3>1, <3>5 DEF E
  <2>9. Singles(script')
    <3> SUFFICES ASSUME NEW p \in DOMAIN script', NEW q \in DOMAIN script', p < q PROVE Differ(script'[p], script'[q])
      BY DEF Singles
    <3>1. p + 1 < q + 1
      BY <2>7
    <3> QED BY <2>1, <2>3, <3>1 DEF Singles
  <2> QED BY <1>1, <2>6, <2>8, <2>9, ReadyInvNext
<1>5. CASE dialect = "sqlite" /\ Interrupt
  <2>1. DOMAIN script' = {} /\ live' = live
    BY <1>5, EmptyList DEF Interrupt
  <2>2. Singles(script') /\ \A j \in DOMAIN script' : Ready(live', Before(script', j), script'[j])
    BY <2>1 DEF Singles
  <2>3. NamesStay(live', target) /\ Addable(live', target)
    BY <1>5, <2>1 DEF ReadyInv
  <2> QED BY <1>1, <2>2, <2>3, ReadyInvNext
<1>6. CASE dialect = "sqlite" /\ UNCHANGED <<live, script>>
  <2>1. /\ NamesStay(live, target) /\ Addable(live, target) /\ Singles(script)
        /\ \A j \in DOMAIN script : Ready(live, Before(script, j), script[j])
    BY <1>6 DEF ReadyInv
  <2> QED BY <1>1, <1>6, <2>1, ReadyInvNext
<1>7. Finish \/ UNCHANGED vars => UNCHANGED <<live, script>>
  BY DEF Finish, vars
<1> QED BY <1>2, <1>3, <1>4, <1>5, <1>6, <1>7 DEF Next

\* In SQLite, no index goes from one table to another, and no column is added that
\* takes a rebuild of its table.
SqliteMigrations ==
  "sqlite" \in Dialects => \A m \in Migrations["sqlite"] : NamesStay(m[1], m[2]) /\ Addable(m[1], m[2])

LEMMA ReadyInit ==
  ASSUME SqliteMigrations
  PROVE  Init => ReadyInv
<1> SUFFICES ASSUME Init, dialect = "sqlite" PROVE ReadyInv
  BY DEF ReadyInv
<1>1. PICK m \in Migrations[dialect] : live = Created(m[1]) /\ target = m[2]
  BY DEF Init
<1>2. dialect \in Dialects /\ Declared(dialect, m[1]) /\ NamesStay(m[1], m[2]) /\ Addable(m[1], m[2])
  BY MigrationsAssumption DEF Init, SqliteMigrations
<1>3. MadeFrom(m[1], live)
  BY <1>1, <1>2, CreatedTyped
<1>4. NamesStay(live, target)
  <2> SUFFICES ASSUME NEW w \in ToSet(live.tables), NEW u \in ToSet(target.tables),
                      NEW n, n \in Names(w.indexes), n \in Names(u.indexes)
               PROVE  w.name = u.name
    BY DEF NamesStay
  <2>1. PICK t \in ToSet(m[1].tables) : t.name = w.name /\ ToSet(w.indexes) \subseteq ToSet(t.indexes)
    BY <1>3 DEF MadeFrom, SameParts
  <2>2. n \in Names(t.indexes)
    BY <2>1 DEF Names, ToSet
  <2> QED BY <1>1, <1>2, <2>1, <2>2 DEF NamesStay
<1>5. Addable(live, target)
  <2> SUFFICES ASSUME NEW w \in ToSet(live.tables), NEW u \in ToSet(target.tables), w.name = u.name,
                      NEW e \in ToSet(u.cols), e.name \notin Names(w.cols), e.notnull \/ e.unique
               PROVE  e.pk
    BY DEF Addable
  <2>1. PICK t \in ToSet(m[1].tables) : t.name = w.name /\ Names(t.cols) \subseteq Names(w.cols)
    BY <1>3 DEF MadeFrom, SameParts
  <2> QED BY <1>1, <1>2, <2>1 DEF Addable
<1>6. DOMAIN script = {}
  BY EmptyList DEF Init
<1>7. Singles(script) /\ \A j \in DOMAIN script : Ready(live, Before(script, j), script[j])
  BY <1>6 DEF Singles
<1> QED BY <1>4, <1>5, <1>7 DEF ReadyInv

-----------------------------------------------------------------------------
\* In MariaDB SharedInv also asks for SecondFree, in SQLite it holds by itself.
SqliteInv == dialect = "sqlite" => SharedInv /\ ReadyInv

LEMMA SqliteInit ==
  ASSUME SqliteMigrations
  PROVE  Init => SqliteInv
<1> SUFFICES ASSUME Init, dialect = "sqlite" PROVE SharedInv /\ ReadyInv
  BY DEF SqliteInv
<1>1. MigrateInv /\ ReadyInv
  BY InitInv, ReadyInit
<1>2. SecondFree
  BY DEF SecondFree
<1>3. script = <<>> /\ DOMAIN <<>> = {}
  BY EmptyList DEF Init
<1> QED BY <1>1, <1>2, <1>3 DEF SharedInv, DropInv

LEMMA SqliteStep == SqliteInv /\ [Next]_vars => SqliteInv'
<1> SUFFICES ASSUME SqliteInv, [Next]_vars, dialect' = "sqlite" PROVE SharedInv' /\ ReadyInv'
  BY DEF SqliteInv
<1>1. dialect = "sqlite"
  BY DEF Next, Read, Execute, Interrupt, Finish, vars
<1>2. SharedInv /\ ReadyInv
  BY <1>1 DEF SqliteInv
<1>3. MigrateInv' /\ SecondFree'
  BY <1>2, StepInv, SecondFreeStep DEF SharedInv
<1>4. DropInv'
  BY <1>2, DropStep
<1>5. ReadyInv'
  BY <1>2, ReadyStep DEF SharedInv
<1> QED BY <1>3, <1>4, <1>5 DEF SharedInv

LEMMA HeadAccepted == SqliteInv => (dialect = "sqlite" => NoStatementRefused)
<1> SUFFICES ASSUME SqliteInv, dialect = "sqlite", script # <<>> PROVE Accepts(live, Head(script))
  BY DEF NoStatementRefused
<1>1. MigrateInv /\ DropInv /\ ReadyInv
  BY DEF SqliteInv, SharedInv
<1>2. /\ Declared(dialect, target) /\ DbTyped(live) /\ IsList(script)
      /\ \A j \in DOMAIN script : MeantFor(target, script[j])
  BY <1>1 DEF MigrateInv, TypeInv
<1>3. 1 \in DOMAIN script /\ Head(script) = script[1]
  BY <1>2, ListIs
<1>4. Before(script, 1) = {}
  <2>1. \A k \in DOMAIN script : ~(k < 1)
    BY <1>2, ListIs
  <2> QED BY <2>1 DEF Before
<1>5. MeantFor(target, script[1]) /\ DropMeant(live, target, script[1])
  BY <1>1, <1>2, <1>3 DEF DropInv
<1>6. Addable(live, target) /\ Ready(live, {}, script[1])
  BY <1>1, <1>3, <1>4 DEF ReadyInv
<1>7. Accepts(live, script[1])
  BY <1>2, <1>5, <1>6, SqliteAccepts
<1> QED BY <1>3, <1>7

-----------------------------------------------------------------------------
(* The end of a migration. *)

LEMMA ReportedLeads ==
  ASSUME DbTyped(live), NEW db \in Reported, DbTyped(db), NEW new, NEW E, LeadsTo(db, new, E)
  PROVE  LeadsTo(live, new, E)
<1>1. ToSet(db.tables) = ToSet(live.tables)
  BY ReportedTables
<1>2. \A n : HasTable(db, n) <=> HasTable(live, n)
  BY <1>1 DEF HasTable, Names, ToSet
<1>3. ASSUME NEW n, HasTable(db, n) PROVE TableOf(db, n) = TableOf(live, n)
  <2>1. TableOf(db, n) \in ToSet(live.tables) /\ TableOf(db, n).name = n
    BY <1>1, <1>3, TableOfIs
  <2>2. TableOf(live, n) \in ToSet(live.tables) /\ TableOf(live, n).name = n
    BY <1>2, <1>3, TableOfIs
  <2> QED BY <2>1, <2>2 DEF DbTyped, Distinct, ToSet
<1>4. TablesDropped(live, new, E)
  BY <1>1 DEF LeadsTo, TablesDropped
<1>5. AllAltered(live, new, E)
  BY <1>2, <1>3 DEF LeadsTo, AllAltered
<1>6. TablesMade(live, new, E)
  BY <1>2 DEF LeadsTo, TablesMade
<1>7. IndexesMade(live, new, E)
  <2> SUFFICES ASSUME NEW nt \in ToSet(new.tables), NEW x \in ToSet(nt.indexes), Stmt("createIndex", nt.name, x) \notin E
               PROVE  HasTable(live, nt.name) /\ x \in ToSet(TableOf(live, nt.name).indexes)
    BY DEF IndexesMade
  <2>1. HasTable(db, nt.name) /\ x \in ToSet(TableOf(db, nt.name).indexes)
    BY DEF LeadsTo, IndexesMade
  <2> QED BY <1>2, <1>3, <2>1
<1> QED BY <1>4, <1>5, <1>6, <1>7 DEF LeadsTo

\* A schema that is reached: nothing is left to do.
Reached(L, new) == LeadsTo(L, new, {})

LEMMA ReachedIs ==
  ASSUME NEW L, DbTyped(L), NEW new, Reached(L, new)
  PROVE  /\ \A n : HasTable(L, n) <=> HasTable(new, n)
         /\ \A nt \in ToSet(new.tables) :
              /\ ToSet(TableOf(L, nt.name).indexes) = ToSet(nt.indexes)
              /\ Names(nt.cols) \subseteq Names(TableOf(L, nt.name).cols)
<1>1. /\ TablesDropped(L, new, {}) /\ AllAltered(L, new, {})
      /\ TablesMade(L, new, {}) /\ IndexesMade(L, new, {})
  BY DEF Reached, LeadsTo
<1>2. \A v \in ToSet(L.tables) : HasTable(new, v.name)
  BY <1>1 DEF TablesDropped
<1>3. \A nt \in ToSet(new.tables) : HasTable(L, nt.name)
  BY <1>1 DEF TablesMade
<1>4. \A n : HasTable(L, n) <=> HasTable(new, n)
  BY <1>2, <1>3 DEF HasTable, Names, ToSet
<1>5. ASSUME NEW nt \in ToSet(new.tables)
      PROVE  /\ ToSet(TableOf(L, nt.name).indexes) = ToSet(nt.indexes)
             /\ Names(nt.cols) \subseteq Names(TableOf(L, nt.name).cols)
  <2>1. Altered(TableOf(L, nt.name), nt, new, {})
    BY <1>1, <1>3 DEF AllAltered
  <2>2. \A x \in ToSet(TableOf(L, nt.name).indexes) : x \in ToSet(nt.indexes)
    BY <2>1 DEF Altered, IndexesDropped, Unchanged
  <2>3. \A x \in ToSet(nt.indexes) : x \in ToSet(TableOf(L, nt.name).indexes)
    BY <1>1 DEF IndexesMade
  <2>4. Names(nt.cols) \subseteq Names(TableOf(L, nt.name).cols)
    BY <2>1 DEF Altered, ColumnsAdded, Names, ToSet
  <2> QED BY <2>2, <2>3, <2>4
<1> QED BY <1>4, <1>5

\* Such a script has comments only.
LEMMA ReachedComments ==
  ASSUME dialect = "sqlite", NEW L, DbTyped(L), NEW new, DbTyped(new), Reached(L, new),
         NEW E, NEW st, MeantFor(new, st), Placed(L, new, E, st), DropIn(L, new, st)
  PROVE  st.op = "comment"
<1>1. /\ \A n : HasTable(L, n) <=> HasTable(new, n)
      /\ \A nt \in ToSet(new.tables) :
           /\ ToSet(TableOf(L, nt.name).indexes) = ToSet(nt.indexes)
           /\ Names(nt.cols) \subseteq Names(TableOf(L, nt.name).cols)
  BY ReachedIs
<1>2. \A nt \in ToSet(new.tables) : HasTable(new, nt.name)
  BY DEF HasTable, Names, ToSet
<1>3. st.op # "dropTable"
  BY <1>1 DEF Placed, MeantFor, HasTable
<1>4. ASSUME st.op = "createTable" PROVE FALSE
  <2>1. PICK t \in ToSet(new.tables) : st = CreateTable(t, new)
    BY <1>4 DEF MeantFor
  <2>2. st.on = t.name
    BY <2>1, CreateTableIs
  <2> QED BY <1>1, <1>2, <1>4, <2>2 DEF Placed
<1>5. ASSUME st.op = "addColumn" PROVE FALSE
  <2>1. PICK t \in ToSet(new.tables) :
          t.name = st.on /\ \E c \in ToSet(t.cols) : st.what = RenderColumn(c, FALSE, new)
    BY <1>5 DEF MeantFor
  <2>2. PICK c \in ToSet(t.cols) : st.what = RenderColumn(c, FALSE, new)
    BY <2>1
  <2>3. DOMAIN c = Fields
    BY DEF DbTyped, TableTyped
  <2>4. st.what.name = c.name
    <3>1. RenderColumn(c, FALSE, new).name = c.name
      BY <2>3, RenderedIs
    <3> QED BY <2>2, <3>1, Zenon
  <2>5. c.name \in Names(t.cols)
    BY DEF Names, ToSet
  <2>6. st.what.name \notin Names(TableOf(L, st.on).cols)
    BY <1>5 DEF Placed
  <2> QED BY <1>1, <2>1, <2>4, <2>5, <2>6
<1>6. ASSUME st.op = "createIndex" PROVE FALSE
  <2>1. PICK nt \in ToSet(new.tables) : Indexing(nt, st) /\ IndexPlaced(L, new, E, nt, st.what)
    BY <1>6 DEF Placed
  <2>2. st.what \notin ToSet(TableOf(L, nt.name).indexes)
    BY <1>1, <1>2, <2>1 DEF IndexPlaced
  <2> QED BY <1>1, <2>1, <2>2 DEF Indexing
<1>7. ASSUME st.op = "dropIndex" PROVE FALSE
  <2>1. PICK nt \in ToSet(new.tables) : \E x \in ToSet(TableOf(L, nt.name).indexes) : ~Unchanged(x, nt)
    BY <1>7 DEF DropIn
  <2> QED BY <1>1, <2>1 DEF Unchanged
<1> QED BY <1>3, <1>4, <1>5, <1>6, <1>7 DEF MeantFor, OpsOf

LEMMA NothingLeft ==
  ASSUME dialect = "sqlite", NEW new, DbTyped(new), NamesApart(dialect, new),
         NEW L, DbTyped(L), IndexesApart(L, new), Reached(L, new)
  PROVE  Commands(Script(L, new)) = <<>>
<1> DEFINE s == Script(L, new)
           K == {st \in ToSet(s) : st.op # "comment"}
           f == Commands(s)
<1>1. PlacedPart(L, new, {}, s)
  BY ScriptPlaced
<1>2. ScriptPart(L, new, s)
  BY ScriptIs
<1> HIDE DEF s
<1>3. IsList(s)
  BY <1>1 DEF PlacedPart
<1>4. ASSUME NEW j \in DOMAIN s PROVE s[j].op = "comment"
  <2>1. s[j] \in ToSet(s)
    BY DEF ToSet
  <2>2. MeantFor(new, s[j]) /\ DropIn(L, new, s[j])
    BY <1>2, <2>1 DEF ScriptPart, StatementsFor
  <2> DEFINE E == {} \cup Before(s, j)
  <2>3. Placed(L, new, E, s[j])
    BY <1>1 DEF PlacedPart
  <2> HIDE DEF E
  <2> QED BY <2>2, <2>3, ReachedComments
<1>5. K = {}
  BY <1>4 DEF ToSet
<1>6. \A i \in DOMAIN s : s[i] \in K <=> ~(s[i].op = "comment")
  BY DEF ToSet
<1>7. f = Picked(s, K)
  <2> HIDE DEF K
  <2> QED BY <1>6 DEF Commands, Without, Each, When, Picked
<1>8. IsList(f) /\ ToSet(f) = {}
  <2> HIDE DEF K
  <2> QED BY <1>3, <1>5, <1>7, PickedIs
<1> HIDE DEF f
<1>9. f = <<>>
  BY <1>8, ListIs DEF ToSet
<1> QED BY <1>9 DEF f, s

\* A migration of SQLite is never refused a statement, cut off or not: whatever
\* order the database reports its tables in and however often the run is cut off and
\* begun again, what the next statement names is there and the name it gives is free.
\* Migrate drops an index before the columns and tables change, removes tables before
\* the indexes that take their names, and makes tables last.
THEOREM NeverRefused ==
  ASSUME SqliteMigrations
  PROVE  Spec => [](dialect = "sqlite" => NoStatementRefused)
<1>1. Init => SqliteInv
  BY SqliteInit
<1>2. SqliteInv /\ [Next]_vars => SqliteInv'
  BY SqliteStep
<1>3. SqliteInv => (dialect = "sqlite" => NoStatementRefused)
  BY HeadAccepted
<1> QED BY <1>1, <1>2, <1>3, PTL DEF Spec

\* The statements that are left lead to the target, and none is left at the end.
DueInv ==
  /\ dialect = "sqlite" => live.enums = <<>>
  /\ dialect = "sqlite" /\ status # "reading" => LeadsTo(live, target, ToSet(script))
  /\ status = "migrated" => script = <<>>

LEMMA SameLeads ==
  ASSUME dialect' = dialect, NEW L, NEW new, NEW E
  PROVE  LeadsTo(L, new, E)' <=> LeadsTo(L, new, E)
<1>1. TablesMade(L, new, E)' <=> TablesMade(L, new, E)
  <2>1. ASSUME NEW t PROVE CreateTable(t, new)' = CreateTable(t, new)
    BY SameCreate
  <2> QED BY <2>1 DEF TablesMade
<1>2. AllAltered(L, new, E)' <=> AllAltered(L, new, E)
  <2>1. ASSUME NEW c PROVE RenderColumn(c, FALSE, new)' = RenderColumn(c, FALSE, new)
    BY SameRendered
  <2>2. ASSUME NEW ot, NEW nt PROVE ColumnsAdded(ot, nt, new, E)' <=> ColumnsAdded(ot, nt, new, E)
    BY <2>1, Zenon DEF ColumnsAdded
  <2>3. ASSUME NEW ot, NEW nt PROVE Altered(ot, nt, new, E)' <=> Altered(ot, nt, new, E)
    BY <2>2 DEF Altered
  <2> QED BY <2>3 DEF AllAltered
<1> QED BY <1>1, <1>2 DEF LeadsTo

LEMMA DueInvNext ==
  ASSUME UNCHANGED <<dialect, target>>,
         dialect = "sqlite" => live'.enums = <<>>,
         dialect = "sqlite" /\ status' # "reading" => LeadsTo(live', target, ToSet(script')),
         status' = "migrated" => script' = <<>>
  PROVE  DueInv'
<1> DEFINE M == live'
           new == target'
           E == ToSet(script')
<1>1. dialect = "sqlite" /\ status' # "reading" => LeadsTo(M, new, E)
  OBVIOUS
<1>2. LeadsTo(live, target, ToSet(script))' <=> LeadsTo(M, new, E)
  BY SameLeads
<1> QED BY <1>1, <1>2 DEF DueInv

LEMMA DueInit == Init => DueInv
<1> SUFFICES ASSUME Init PROVE DueInv
  OBVIOUS
<1>1. PICK m \in Migrations[dialect] : live = Created(m[1]) /\ target = m[2]
  BY DEF Init
<1>2. Declared(dialect, m[1])
  BY MigrationsAssumption DEF Init
<1>3. MadeFrom(m[1], live)
  BY <1>1, <1>2, CreatedTyped
<1>4. dialect = "sqlite" => live.enums = <<>>
  BY <1>3 DEF MadeFrom
<1>5. status = "reading"
  BY DEF Init
<1> QED BY <1>4, <1>5 DEF DueInv

\* The statement that is run, and those that are left.
LEMMA HeadAndTail ==
  ASSUME NEW s, IsList(s), s # <<>>
  PROVE  ToSet(s) = {Head(s)} \cup ToSet(Tail(s))
<1> DEFINE n == Len(s)
<1>1. n \in Nat /\ DOMAIN s = 1 .. n
  BY ListIs
<1>2. /\ n >= 1 /\ Head(s) = s[1] /\ IsList(Tail(s)) /\ Len(Tail(s)) = n - 1
      /\ \A i \in 1 .. n - 1 : Tail(s)[i] = s[i + 1]
  BY TailList
<1> HIDE DEF n
<1>3. DOMAIN Tail(s) = 1 .. n - 1
  BY <1>2, ListIs
<1>4. ASSUME NEW i \in 1 .. n PROVE s[i] \in {Head(s)} \cup ToSet(Tail(s))
  <2>1. CASE i = 1
    BY <1>2, <2>1
  <2>2. CASE i # 1
    <3> DEFINE k == i - 1
    <3>1. k \in 1 .. n - 1 /\ k + 1 = i
      BY <1>1, <2>2
    <3> HIDE DEF k
    <3> QED BY <1>2, <1>3, <3>1 DEF ToSet
  <2> QED BY <2>1, <2>2
<1>5. ASSUME NEW i \in 1 .. n - 1 PROVE Tail(s)[i] \in ToSet(s)
  <2>1. i + 1 \in 1 .. n
    BY <1>1
  <2> QED BY <1>1, <1>2, <2>1 DEF ToSet
<1>6. Head(s) \in ToSet(s)
  <2>1. 1 \in 1 .. n
    BY <1>1, <1>2
  <2> QED BY <1>1, <1>2, <2>1 DEF ToSet
<1> QED BY <1>1, <1>3, <1>4, <1>5, <1>6 DEF ToSet

\* In SQLite SharedInv asks nothing of the schemas.
EndInv == (dialect = "sqlite" => SharedInv) /\ DueInv

LEMMA EndInit == Init => EndInv
<1> SUFFICES ASSUME Init PROVE EndInv
  OBVIOUS
<1>1. dialect = "sqlite" => SecondFree
  BY DEF SecondFree
<1>2. script = <<>> /\ DOMAIN <<>> = {}
  BY EmptyList DEF Init
<1> QED BY <1>1, <1>2, InitInv, DueInit DEF EndInv, SharedInv, DropInv

LEMMA EndShared == EndInv /\ [Next]_vars => (dialect = "sqlite" => SharedInv)'
<1> SUFFICES ASSUME EndInv, [Next]_vars, dialect' = "sqlite" PROVE SharedInv'
  OBVIOUS
<1>1. dialect = "sqlite"
  BY DEF Next, Read, Execute, Interrupt, Finish, vars
<1>2. SharedInv
  BY <1>1 DEF EndInv
<1>3. MigrateInv' /\ SecondFree'
  BY <1>2, StepInv, SecondFreeStep DEF SharedInv
<1>4. DropInv'
  BY <1>2, DropStep
<1> QED BY <1>3, <1>4 DEF SharedInv

LEMMA DueStep == EndInv /\ [Next]_vars => DueInv'
<1> SUFFICES ASSUME EndInv, [Next]_vars PROVE DueInv'
  OBVIOUS
<1>1. UNCHANGED <<dialect, target>>
  BY DEF Next, Read, Execute, Interrupt, Finish, vars
<1>2. status' = "migrated" => script' = <<>>
  BY DEF EndInv, DueInv, Next, Read, Execute, Interrupt, Finish, vars
<1>3. dialect = "sqlite" => MigrateInv /\ DropInv
  BY DEF EndInv, SharedInv
<1>4. CASE dialect # "sqlite"
  BY <1>1, <1>2, <1>4, DueInvNext
<1>5. CASE dialect = "sqlite" /\ Read
  <2>1. PICK db \in Reported : script' = Script(db, target)
    BY <1>5 DEF Read
  <2>2. DbTyped(live) /\ DbTyped(target) /\ NamesApart(dialect, target) /\ IndexesApart(live, target)
    BY <1>3, <1>5, DeclaredTyped DEF MigrateInv, TypeInv, OrderInv, Declared
  <2>3. DbTyped(db)
    BY <2>2, ReportedIs
  <2>4. LeadsTo(db, target, ToSet(script'))
    BY <2>1, <2>2, <2>3, ScriptPlaced
  <2>5. LeadsTo(live, target, ToSet(script'))
    BY <2>2, <2>3, <2>4, ReportedLeads
  <2>6. live' = live /\ live.enums = <<>>
    BY <1>5 DEF Read, EndInv, DueInv
  <2> QED BY <1>1, <1>2, <2>5, <2>6, DueInvNext
<1>6. CASE dialect = "sqlite" /\ Execute
  <2> DEFINE st == Head(script)
  <2>1. /\ script # <<>> /\ st = script[1] /\ MeantFor(target, st) /\ live' = Apply(live, st)
        /\ Runnable(live, st) /\ Stepped(live, live', st)
        /\ (st.op = "createTable" => NewTable(live, st).name = st.on /\ NewTable(live, st).indexes = <<>>)
    BY <1>3, <1>6, ExecuteIs
  <2>2. /\ DbTyped(target) /\ NamesApart(dialect, target) /\ DbTyped(live) /\ dialect \in Dialects /\ IsList(script)
        /\ IndexesApart(live, target)
    BY <1>3, <1>6, DeclaredTyped DEF MigrateInv, TypeInv, OrderInv, Declared
  <2>3. DropMeant(live, target, st)
    <3>1. 1 \in DOMAIN script
      BY <2>1, <2>2, ListIs
    <3> QED BY <1>3, <1>6, <2>1, <3>1 DEF DropInv
  <2>4. ToSet(script) = {st} \cup ToSet(script')
    <3>1. ToSet(script) = {st} \cup ToSet(Tail(script))
      BY <2>1, <2>2, HeadAndTail
    <3> QED BY <1>6, <3>1 DEF Execute
  <2>5. LeadsTo(live, target, {st} \cup ToSet(script')) /\ live.enums = <<>>
    <3>1. LeadsTo(live, target, ToSet(script))
      BY <1>6 DEF EndInv, DueInv, Execute
    <3> QED BY <1>6, <2>4, <3>1 DEF EndInv, DueInv
  <2> HIDE DEF st
  <2>6. Gone(live', st) /\ Made(live', st)
    BY <1>6, <2>1, <2>2, AppliedGone, AppliedMade
  <2>7. ScriptStep(target, live, live', st)
    BY <1>6, <2>1, <2>2, <2>6 DEF ScriptStep
  <2>8. LeadsTo(live', target, ToSet(script'))
    BY <1>6, <2>2, <2>3, <2>5, <2>7, LeadsStep
  <2>9. live'.enums = <<>>
    <3>1. st.op \in {"comment", "createTable", "dropTable", "createIndex", "dropIndex", "addColumn", "addFk"}
      BY <1>6, <2>1 DEF MeantFor, OpsOf
    <3>2. Apply(live, st).enums = live.enums
      BY <2>1, <2>2, <3>1, EnumsKept
    <3> QED BY <2>1, <2>5, <3>2
  <2> QED BY <1>1, <1>2, <2>8, <2>9, DueInvNext
<1>7. CASE dialect = "sqlite" /\ Interrupt
  <2>1. live' = live /\ status' = "reading" /\ live.enums = <<>>
    BY <1>7 DEF Interrupt, EndInv, DueInv
  <2> QED BY <1>1, <1>2, <2>1, DueInvNext
<1>8. CASE dialect = "sqlite" /\ (Finish \/ UNCHANGED vars)
  <2>1. live' = live /\ script' = script /\ (status' # "reading" => status # "reading")
    BY <1>8 DEF Finish, vars
  <2>2. live.enums = <<>> /\ (status # "reading" => LeadsTo(live, target, ToSet(script)))
    BY <1>8 DEF EndInv, DueInv
  <2> QED BY <1>1, <1>2, <2>1, <2>2, DueInvNext
<1> QED BY <1>4, <1>5, <1>6, <1>7, <1>8 DEF Next

\* What a migration leaves is what its target declares.
LEMMA EndReached == EndInv => (dialect = "sqlite" => Migrated)
<1> SUFFICES ASSUME EndInv, dialect = "sqlite", status = "migrated" PROVE Migrated
  BY DEF Migrated
<1> DEFINE made == Created(target)
<1>1. /\ Declared(dialect, target) /\ DbTyped(live) /\ DbTyped(target) /\ NamesApart(dialect, target)
      /\ IndexesApart(live, target)
  BY DeclaredTyped DEF EndInv, SharedInv, MigrateInv, TypeInv, OrderInv, Declared
<1>2. ToSet(script) = {}
  BY EmptyList DEF EndInv, DueInv, ToSet
<1>3. Reached(live, target) /\ live.enums = <<>>
  BY <1>2 DEF EndInv, DueInv, Reached
<1>4. MadeFrom(target, made) /\ DbTyped(made)
  BY <1>1, CreatedTyped
<1> HIDE DEF made
<1>5. /\ \A n : HasTable(live, n) <=> HasTable(target, n)
      /\ \A nt \in ToSet(target.tables) :
           /\ ToSet(TableOf(live, nt.name).indexes) = ToSet(nt.indexes)
           /\ Names(nt.cols) \subseteq Names(TableOf(live, nt.name).cols)
  BY <1>1, <1>3, ReachedIs
<1>6. Names(live.tables) = Names(made.tables)
  <2>1. \A n : HasTable(made, n) <=> HasTable(target, n)
    BY <1>4 DEF MadeFrom, SameParts, HasTable, Names, ToSet
  <2>2. \A n : HasTable(live, n) <=> HasTable(made, n)
    BY <1>5, <2>1
  <2> QED BY <2>2 DEF HasTable
<1>7. Names(live.enums) = Names(made.enums)
  BY <1>3, <1>4 DEF MadeFrom
<1>8. ASSUME NEW u \in ToSet(made.tables) PROVE SameTable(TableOf(live, u.name), u, target)
  <2>1. PICK t \in ToSet(target.tables) : SameParts(t, u)
    BY <1>4 DEF MadeFrom
  <2> QED BY <1>5, <2>1 DEF SameParts, SameTable
<1>9. Commands(Script(live, target)) = <<>>
  BY <1>1, <1>3, NothingLeft
<1> QED BY <1>6, <1>7, <1>8, <1>9 DEF Migrated, made

\* Whatever schemas it is between, however often it is cut off and in whatever order
\* the tables are reported, a migration of SQLite that ends has reached its target: the
\* tables, the indexes and all the columns that a database made from the target has,
\* and a further call of Migrate writes comments only.
THEOREM SqliteMigrated == Spec => [](dialect = "sqlite" => Migrated)
<1>1. Init => EndInv
  BY EndInit
<1>2. EndInv /\ [Next]_vars => EndInv'
  BY EndShared, DueStep DEF EndInv
<1>3. EndInv => (dialect = "sqlite" => Migrated)
  BY EndReached
<1> QED BY <1>1, <1>2, <1>3, PTL DEF Spec
=============================================================================
