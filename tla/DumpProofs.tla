------------------------------ MODULE DumpProofs ------------------------------
(***************************************************************************)
(* What a script of tosql does to an empty database, for every set of      *)
(* sound schemas (Dump.SchemasAssumption).                                 *)
(*                                                                         *)
(* The script does not change while it runs, so its order is stated of the *)
(* whole script (ScriptOps, ScriptComplete, ScriptOnce, ScriptOrder), and  *)
(* the inductive invariant says what the database is after the statements  *)
(* that have run.                                                          *)
(***************************************************************************)
EXTENDS Dump, BasicLemmas

-----------------------------------------------------------------------------
(* The script. *)

\* The schema as the tables are written from it.
Full(db) == [db EXCEPT !.fks = ForeignKeys(db)]

\* Each statement and where it comes from.
Writes(db, st) ==
  \/ dialect = "postgres" /\ \E e \in ToSet(db.enums) : st = CreateEnum(e)
  \/ \E t \in ToSet(db.tables) :
       \/ st = CreateTable(t, Full(db))
       \/ \E x \in ToSet(t.indexes) : st = Stmt("createIndex", t.name, x)
       \/ st = Stmt("insert", t.name, t.records)
  \/ dialect = "sqlite" /\ \E op \in {"begin", "defer", "commit"} : st = Stmt(op, "", "")
  \/ dialect # "sqlite" /\ \E fk \in ToSet(ForeignKeys(db)) : st = Stmt("addFk", fk.child, fk)

ScriptOps(db) == \A j \in DOMAIN Script(db) : Writes(db, Script(db)[j])

\* Nothing of the schema is left out.
ScriptComplete(db) ==
  LET Has(st) == st \in ToSet(Script(db))
  IN  /\ dialect = "postgres" => \A e \in ToSet(db.enums) : Has(CreateEnum(e))
      /\ \A t \in ToSet(db.tables) :
           /\ Has(CreateTable(t, Full(db)))
           /\ \A x \in ToSet(t.indexes) : Has(Stmt("createIndex", t.name, x))
           /\ t.records # <<>> => Has(Stmt("insert", t.name, t.records))
      /\ dialect # "sqlite" => \A fk \in ToSet(ForeignKeys(db)) : Has(Stmt("addFk", fk.child, fk))

\* Nothing is made twice (but foreign keys: two refs may have one name).
SameMade(a, b) ==
  /\ a.op = b.op /\ a.op \notin {"insert", "addFk"}
  /\ a.op = "createEnum"  => a.what.name = b.what.name
  /\ a.op = "createTable" => a.on = b.on
  /\ a.op = "createIndex" => a.on = b.on /\ a.what.name = b.what.name

ScriptOnce(db) ==
  \A i, j \in DOMAIN Script(db) : SameMade(Script(db)[i], Script(db)[j]) => i = j

Defining == {"createEnum", "createTable", "createIndex"}

\* What comes before what.
Precedes(before, after) ==
  \/ before = "createEnum" /\ after = "createTable"
  \/ before \in Defining /\ after \in {"begin", "defer", "commit", "addFk"}
  \/ before \in Defining /\ after = "insert" /\ dialect = "sqlite"
  \/ before = "begin" /\ after \in {"defer", "insert", "commit"}
  \/ before = "defer" /\ after \in {"insert", "commit"}
  \/ before = "insert" /\ after \in {"commit", "addFk"}

ScriptOrder(db) ==
  \A i, j \in DOMAIN Script(db) : Precedes(Script(db)[i].op, Script(db)[j].op) => i < j

\* An index and the records of a table come after it, and the records of SQLite
\* in a transaction.
Earlier(db, j, op) == \E i \in 1 .. j : Script(db)[i].op = op

TableEarlier(db, j, t) ==
  \E i \in 1 .. j : Script(db)[i].op = "createTable" /\ Script(db)[i].on = t

ScriptNeeds(db) ==
  \A j \in DOMAIN Script(db) :
    LET st == Script(db)[j]
    IN  /\ st.op \in {"createIndex", "insert"} => TableEarlier(db, j, st.on)
        /\ st.op = "insert" /\ dialect = "sqlite" => Earlier(db, j, "defer")
        /\ st.op \in {"defer", "commit"} => Earlier(db, j, "begin")
        /\ st.op = "begin" => \E i \in DOMAIN Script(db) : i > j /\ Script(db)[i].op = "commit"

ScriptShape(db) ==
  IsList(Script(db)) /\ ScriptOps(db) /\ ScriptComplete(db) /\ ScriptOnce(db)
    /\ ScriptOrder(db) /\ ScriptNeeds(db)

-----------------------------------------------------------------------------
(* The inductive invariant. *)

Whole == Script(schema)

Done == Len(Whole) - Len(script)

\* What is left of the script is its end.
Progress ==
  /\ IsList(script) /\ Len(script) <= Len(Whole)
  /\ \A i \in DOMAIN script : script[i] = Whole[Done + i]

\* The statements of a kind among the first n of W.
Ran(W, n, op) == {j \in 1 .. n : W[j].op = op}

\* What the first n statements of W make of an empty database of dialect d: L.
EnumsMade(W, n, L) ==
  IsList(L.enums) /\ Names(L.enums) = {W[j].what.name : j \in Ran(W, n, "createEnum")}

\* Table u of the database is what has been made of table t of the schema.
IndexesRun(W, n, t) == {W[j].what : j \in {i \in Ran(W, n, "createIndex") : W[i].on = t.name}}

Made(d, W, n, u, t) ==
  /\ DOMAIN u = {"name", "key", "indexes", "records", "cols"}
  /\ u.name = t.name
  /\ DOMAIN u.cols = DOMAIN t.cols
  /\ \A i \in DOMAIN t.cols :
       /\ u.cols[i].name = t.cols[i].name
       /\ u.cols[i].pk = t.cols[i].pk
       /\ u.cols[i].unique = (t.cols[i].unique /\ ~t.cols[i].pk)
       /\ u.cols[i].inc = AutoIncrement(t.cols[i])
  /\ d = "postgres" => u.key = "" \/ u.key \in KeyNames(t)
  /\ IsList(u.indexes) /\ ToSet(u.indexes) = IndexesRun(W, n, t)

TablesMade(d, W, n, L, db) ==
  /\ IsList(L.tables) /\ Distinct(L.tables)
  /\ Names(L.tables) = {W[j].on : j \in Ran(W, n, "createTable")}
  /\ \A u \in ToSet(L.tables) : \E t \in ToSet(db.tables) : Made(d, W, n, u, t)

KeysMade(W, n, L) ==
  /\ IsList(L.fks)
  /\ ToSet(L.fks) =
       {W[j].what : j \in Ran(W, n, "addFk")} \cup UNION {W[j].what.fks : j \in Ran(W, n, "createTable")}

LiveIs(d, W, n, L, db) ==
  /\ DOMAIN L = {"enums", "tables", "fks", "normalized"}
  /\ EnumsMade(W, n, L) /\ TablesMade(d, W, n, L, db) /\ KeysMade(W, n, L)

\* The rows of the records among the first n statements of W.
RowsRun(W, n) == UNION {TupleRows(W[j].on, W[j].what) : j \in Ran(W, n, "insert")}

ModeAfter(W, n) ==
  IF Ran(W, n, "begin") = {} \/ Ran(W, n, "commit") # {} THEN "auto"
  ELSE IF Ran(W, n, "defer") = {} THEN "open" ELSE "deferred"

\* What the records that have run have brought: in an open transaction they wait,
\* and in SQLite no row is in before the commit.
RowsIn ==
  /\ status = "loading" =>
       /\ rows \cup pending = RowsRun(Whole, Done)
       /\ mode = "auto" => pending = {}
       /\ mode = ModeAfter(Whole, Done)
  /\ status # "loading" => pending = {}
  /\ dialect = "sqlite" => rows = IF Ran(Whole, Done, "commit") = {} THEN {} ELSE AllRows
  /\ status = "loaded" => script = <<>> /\ rows = AllRows

IInv ==
  /\ dialect \in Dialects /\ schema \in Schemas
  /\ status \in {"loading", "loaded", "cut"}
  /\ Progress
  /\ LiveIs(dialect, Whole, Done, live, schema)
  /\ RowsIn

-----------------------------------------------------------------------------
(* The script has the shape that is said above. *)

LEMMA SoundLists ==
  ASSUME NEW db \in Schemas
  PROVE  /\ Sound(db)
         /\ IsList(db.enums) /\ IsList(db.tables) /\ IsList(db.refs)
         /\ \A i \in DOMAIN db.tables :
              /\ db.tables[i] \in ToSet(db.tables)
              /\ IsList(db.tables[i].indexes) /\ IsList(db.tables[i].cols)
<1>1. Sound(db) /\ Typed(db)
  BY SchemasAssumption DEF Sound
<1>2. IsList(db.enums) /\ IsList(db.tables) /\ IsList(db.refs)
  BY <1>1, SeqIsList DEF Typed
<1>3. ASSUME NEW i \in DOMAIN db.tables
      PROVE  db.tables[i] \in ToSet(db.tables) /\ IsList(db.tables[i].indexes) /\ IsList(db.tables[i].cols)
  <2> DEFINE L == {db.tables[j].records : j \in DOMAIN db.tables}
  <2>1. db.tables \in Seq(TableWith(L)) /\ i \in 1 .. Len(db.tables)
    BY <1>1, <1>2, ListIs DEF Typed
  <2> HIDE DEF L
  <2>2. db.tables[i] \in TableWith(L)
    BY <2>1, ElementOfSeq
  <2>3. db.tables[i].indexes \in Seq(Index) /\ db.tables[i].cols \in Seq(Column)
    BY <2>2 DEF TableWith
  <2>4. db.tables[i] \in ToSet(db.tables)
    BY DEF ToSet
  <2> QED BY <2>3, <2>4, SeqIsList
<1> QED BY <1>1, <1>2, <1>3

LEMMA WhenList ==
  ASSUME NEW c, NEW x
  PROVE  IsList(When(c, x)) /\ \A i \in DOMAIN When(c, x) : c /\ When(c, x)[i] = x
<1>1. CASE c
  BY <1>1, OneList DEF When
<1>2. CASE ~c
  BY <1>2, EmptyList DEF When
<1> QED BY <1>1, <1>2

\* A list made element by element from another is one.
LEMMA EachIsLists ==
  ASSUME NEW s, IsList(s), NEW ss, DOMAIN ss = DOMAIN s, ss = [i \in DOMAIN s |-> ss[i]],
         \A i \in DOMAIN s : IsList(ss[i])
  PROVE  IsListOfLists(ss) /\ Len(ss) = Len(s)
<1>1. Len(s) \in Nat /\ DOMAIN s = 1 .. Len(s)
  BY ListIs
<1>2. IsList(ss) /\ Len(ss) = Len(s)
  BY <1>1, MadeList
<1> QED BY <1>2 DEF IsListOfLists

LEMMA ForeignKeysList ==
  ASSUME NEW db \in Schemas
  PROVE  IsList(ForeignKeys(db))
<1> DEFINE C(r) == IF r[1].rel = "1" /\ r[2].rel = "*" THEN r[2] ELSE r[1]
           P(r) == IF r[1].rel = "1" /\ r[2].rel = "*" THEN r[1] ELSE r[2]
           ss == [i \in DOMAIN db.refs |->
                    When(~ManyToMany(db.refs[i]),
                         [child |-> C(db.refs[i]).table, cols |-> C(db.refs[i]).cols,
                          parent |-> P(db.refs[i]).table, pcols |-> P(db.refs[i]).cols])]
<1>1. ForeignKeys(db) = FlattenSeq(ss)
  BY DEF ForeignKeys, Each
<1>2. \A i \in DOMAIN db.refs : IsList(ss[i])
  BY WhenList
<1>3. DOMAIN ss = DOMAIN db.refs /\ ss = [i \in DOMAIN db.refs |-> ss[i]]
  OBVIOUS
<1> HIDE DEF ss
<1>4. IsListOfLists(ss)
  BY <1>2, <1>3, SoundLists, EachIsLists
<1> QED BY <1>1, <1>4, FlattenOffsets

TablePart(db, t) ==
  <<CreateTable(t, Full(db))>> \o CreateIndexes(t) \o IF dialect = "sqlite" THEN <<>> ELSE Insert(t)

TableParts(db) == [i \in DOMAIN db.tables |-> TablePart(db, db.tables[i])]

\* Statement k of a table.
PartIs(part, db, t) ==
  /\ IsList(part) /\ Len(part) >= 1 + Len(t.indexes)
  /\ part[1] = CreateTable(t, Full(db))
  /\ \A k \in DOMAIN t.indexes : part[1 + k] = Stmt("createIndex", t.name, t.indexes[k])
  /\ \A k \in DOMAIN part : k > 1 + Len(t.indexes) =>
       k = 2 + Len(t.indexes) /\ dialect # "sqlite" /\ part[k] = Stmt("insert", t.name, t.records)
  /\ dialect # "sqlite" /\ t.records # <<>> => Len(part) = 2 + Len(t.indexes)

LEMMA TablePartIs ==
  ASSUME NEW db, NEW t, IsList(t.indexes)
  PROVE  PartIs(TablePart(db, t), db, t)
<1> DEFINE a == <<CreateTable(t, Full(db))>>
           b == CreateIndexes(t)
           c == IF dialect = "sqlite" THEN <<>> ELSE Insert(t)
           ab == a \o b
           abc == ab \o c
           n == Len(t.indexes)
<1>1. IsList(a) /\ Len(a) = 1 /\ a[1] = CreateTable(t, Full(db))
  BY OneList
<1>2. n \in Nat /\ DOMAIN t.indexes = 1 .. n
  BY ListIs
<1>3. /\ IsList(b) /\ Len(b) = n
      /\ \A k \in 1 .. n : b[k] = Stmt("createIndex", t.name, t.indexes[k])
  <2>1. b = [k \in 1 .. n |-> Stmt("createIndex", t.name, t.indexes[k])]
    BY <1>2 DEF CreateIndexes
  <2>2. b = [k \in 1 .. n |-> b[k]]
    BY <2>1
  <2> HIDE DEF b, n
  <2> QED BY <1>2, <2>1, <2>2, MadeList
<1>4. /\ IsList(c) /\ (Len(c) = 0 \/ Len(c) = 1)
      /\ Len(c) = 1 => c[1] = Stmt("insert", t.name, t.records) /\ dialect # "sqlite"
      /\ dialect # "sqlite" /\ t.records # <<>> => Len(c) = 1
  BY EmptyList, OneList DEF Insert, When
<1> DEFINE m == Len(c)
<1>5. m = 0 \/ m = 1
  BY <1>4
<1> HIDE DEF a, b, c, n, m
<1>6. ConcatAt(ab, a, b, 1, n)
  BY <1>1, <1>3, ConcatLengths
<1>7. IsList(ab) /\ Len(ab) = 1 + n
  BY <1>6 DEF ConcatAt
<1> HIDE DEF ab
<1>8. ConcatAt(abc, ab, c, 1 + n, m)
  BY <1>4, <1>7, ConcatLengths DEF m
<1> HIDE DEF abc
<1>9. IsList(abc) /\ Len(abc) = 1 + n + m /\ DOMAIN abc = 1 .. 1 + n + m
  BY <1>8, ListIs DEF ConcatAt
<1>10. abc[1] = CreateTable(t, Full(db))
       /\ \A k \in 1 .. n : abc[1 + k] = Stmt("createIndex", t.name, t.indexes[k])
  <2>1. \A k \in 1 .. 1 + n : abc[k] = ab[k]
    BY <1>8 DEF ConcatAt
  <2>2. ab[1] = a[1] /\ \A k \in 1 .. n : ab[1 + k] = b[k]
    BY <1>6 DEF ConcatAt
  <2> QED BY <1>1, <1>2, <1>3, <2>1, <2>2
<1>11. ASSUME NEW k \in DOMAIN abc, k > 1 + n
       PROVE  k = 2 + n /\ m = 1 /\ abc[k] = c[1]
  <2>1. k = 2 + n /\ m = 1
    BY <1>2, <1>5, <1>9, <1>11
  <2>2. abc[1 + n + 1] = c[1] /\ 1 + n + 1 = k
    BY <1>2, <1>8, <2>1 DEF ConcatAt
  <2> QED BY <2>1, <2>2
<1>12. PartIs(abc, db, t)
  <2>1. Len(abc) >= 1 + n /\ (m = 1 => Len(abc) = 2 + n)
    BY <1>2, <1>5, <1>9
  <2>2. dialect # "sqlite" /\ t.records # <<>> => Len(abc) = 2 + n
    BY <1>4, <2>1 DEF m
  <2>3. \A k \in DOMAIN abc : k > 1 + n =>
          k = 2 + n /\ dialect # "sqlite" /\ abc[k] = Stmt("insert", t.name, t.records)
    BY <1>4, <1>11 DEF m
  <2> QED BY <1>2, <1>9, <1>10, <2>1, <2>2, <2>3 DEF PartIs, n
<1> QED BY <1>12 DEF abc, ab, a, b, c, TablePart

LEMMA TablePartsList ==
  ASSUME NEW db \in Schemas
  PROVE  /\ IsListOfLists(TableParts(db)) /\ Len(TableParts(db)) = Len(db.tables)
         /\ Tables(db) = FlattenSeq(TableParts(db))
         /\ \A i \in DOMAIN db.tables : PartIs(TableParts(db)[i], db, db.tables[i])
<1>1. \A i \in DOMAIN db.tables : PartIs(TableParts(db)[i], db, db.tables[i])
  BY SoundLists, TablePartIs DEF TableParts
<1>2. \A i \in DOMAIN db.tables : IsList(TableParts(db)[i])
  BY <1>1 DEF PartIs
<1>3. DOMAIN TableParts(db) = DOMAIN db.tables /\ TableParts(db) = [i \in DOMAIN db.tables |-> TableParts(db)[i]]
  BY DEF TableParts
<1>4. IsListOfLists(TableParts(db)) /\ Len(TableParts(db)) = Len(db.tables)
  BY <1>2, <1>3, SoundLists, EachIsLists
<1>5. Tables(db) = FlattenSeq(TableParts(db))
  BY DEF Tables, Each, TableParts, TablePart, Full
<1> QED BY <1>1, <1>4, <1>5

Inserts(db) == [i \in DOMAIN db.tables |-> Insert(db.tables[i])]

InsertsOf(db) == FlattenSeq(Inserts(db))

\* The insert statements of a whole schema.
LEMMA InsertsList ==
  ASSUME NEW db \in Schemas
  PROVE  /\ IsList(InsertsOf(db))
         /\ \A k \in DOMAIN InsertsOf(db) :
              \E t \in ToSet(db.tables) : t.records # <<>> /\ InsertsOf(db)[k] = Stmt("insert", t.name, t.records)
         /\ \A t \in ToSet(db.tables) : t.records # <<>> =>
              Stmt("insert", t.name, t.records) \in ToSet(InsertsOf(db))
<1> DEFINE ss == Inserts(db)
<1>1. \A i \in DOMAIN db.tables : IsList(ss[i])
  BY WhenList DEF Insert, Inserts
<1>2. DOMAIN ss = DOMAIN db.tables /\ ss = [i \in DOMAIN db.tables |-> ss[i]]
  BY DEF Inserts
<1>3. IsListOfLists(ss)
  <2> HIDE DEF ss
  <2> QED BY <1>1, <1>2, SoundLists, EachIsLists
<1>4. IsList(InsertsOf(db)) /\ ToSet(InsertsOf(db)) = Elements(ss)
  BY <1>3, FlattenOffsets, FlattenElements DEF InsertsOf
<1>5. ASSUME NEW st \in Elements(ss)
      PROVE  \E t \in ToSet(db.tables) : t.records # <<>> /\ st = Stmt("insert", t.name, t.records)
  <2>1. PICK i \in DOMAIN db.tables : \E k \in DOMAIN ss[i] : st = ss[i][k]
    BY <1>2, <1>5 DEF Elements
  <2>2. PICK k \in DOMAIN ss[i] : st = ss[i][k]
    BY <2>1
  <2>3. ss[i] = When(db.tables[i].records # <<>>, Stmt("insert", db.tables[i].name, db.tables[i].records))
    BY DEF Inserts, Insert
  <2> HIDE DEF ss
  <2>4. db.tables[i].records # <<>> /\ st = Stmt("insert", db.tables[i].name, db.tables[i].records)
    BY <2>2, <2>3, WhenList
  <2> QED BY <2>4, SoundLists
<1>6. ASSUME NEW t \in ToSet(db.tables), t.records # <<>>
      PROVE  Stmt("insert", t.name, t.records) \in Elements(ss)
  <2>1. PICK i \in DOMAIN db.tables : t = db.tables[i]
    BY DEF ToSet
  <2>2. ss[i] = <<Stmt("insert", t.name, t.records)>>
    BY <1>6, <2>1 DEF Inserts, Insert, When
  <2> HIDE DEF ss
  <2>3. 1 \in DOMAIN ss[i] /\ ss[i][1] = Stmt("insert", t.name, t.records)
    BY <2>2
  <2> QED BY <1>2, <2>3 DEF Elements
<1>7. \A k \in DOMAIN InsertsOf(db) : InsertsOf(db)[k] \in ToSet(InsertsOf(db))
  BY DEF ToSet
<1> HIDE DEF ss
<1> QED BY <1>4, <1>5, <1>6, <1>7

\* Records, in SQLite a transaction around the inserts.
RecordsAre(db) ==
  \/ Records(db) = <<>> /\ (dialect = "sqlite" => \A t \in ToSet(db.tables) : t.records = <<>>)
  \/ /\ dialect = "sqlite"
     /\ Len(Records(db)) = 3 + Len(InsertsOf(db))
     /\ Records(db)[1] = Stmt("begin", "", "")
     /\ Records(db)[2] = Stmt("defer", "", "")
     /\ \A k \in DOMAIN InsertsOf(db) : Records(db)[2 + k] = InsertsOf(db)[k]
     /\ Records(db)[3 + Len(InsertsOf(db))] = Stmt("commit", "", "")

LEMMA RecordsList ==
  ASSUME NEW db \in Schemas
  PROVE  IsList(Records(db)) /\ RecordsAre(db)
<1>1. CASE ~(dialect = "sqlite" /\ \E t \in ToSet(db.tables) : t.records # <<>>)
  BY <1>1, EmptyList DEF Records, RecordsAre
<1>2. CASE dialect = "sqlite" /\ \E t \in ToSet(db.tables) : t.records # <<>>
  <2> DEFINE a == <<Stmt("begin", "", ""), Stmt("defer", "", "")>>
             b == InsertsOf(db)
             c == <<Stmt("commit", "", "")>>
             ab == a \o b
             abc == ab \o c
             n == Len(b)
  <2>1. IsList(a) /\ Len(a) = 2 /\ a[1] = Stmt("begin", "", "") /\ a[2] = Stmt("defer", "", "")
    <3>1. a \in Seq({Stmt("begin", "", ""), Stmt("defer", "", "")})
      OBVIOUS
    <3> QED BY <3>1, SeqIsList
  <2>2. IsList(c) /\ Len(c) = 1 /\ c[1] = Stmt("commit", "", "")
    BY OneList
  <2>3. IsList(b) /\ n \in Nat /\ DOMAIN b = 1 .. n
    BY InsertsList, ListIs
  <2>4. Records(db) = abc
    BY <1>2 DEF Records, InsertsOf, Inserts, Each
  <2> HIDE DEF a, b, c
  <2> HIDE DEF n
  <2>5. ConcatAt(ab, a, b, 2, n)
    BY <2>1, <2>3, ConcatLengths DEF n
  <2>6. IsList(ab) /\ Len(ab) = 2 + n
    BY <2>5 DEF ConcatAt
  <2> HIDE DEF ab
  <2>7. ConcatAt(abc, ab, c, 2 + n, 1)
    BY <2>2, <2>6, ConcatLengths
  <2> HIDE DEF abc
  <2>8. Len(abc) = 3 + n
    BY <2>3, <2>7 DEF ConcatAt
  <2>9. abc[1] = a[1] /\ abc[2] = a[2] /\ \A k \in 1 .. n : abc[2 + k] = b[k]
    <3>1. ab[1] = a[1] /\ ab[2] = a[2] /\ \A k \in 1 .. n : ab[2 + k] = b[k]
      BY <2>5 DEF ConcatAt
    <3>2. \A k \in 1 .. 2 + n : abc[k] = ab[k]
      BY <2>7 DEF ConcatAt
    <3> QED BY <2>3, <3>1, <3>2
  <2>10. abc[3 + n] = c[1]
    <3>1. abc[2 + n + 1] = c[1]
      BY <2>7 DEF ConcatAt
    <3>2. 2 + n + 1 = 3 + n
      BY <2>3
    <3> QED BY <3>1, <3>2
  <2>11. IsList(abc)
    BY <2>7 DEF ConcatAt
  <2> QED BY <1>2, <2>1, <2>2, <2>3, <2>4, <2>8, <2>9, <2>10, <2>11 DEF RecordsAre, n, b
<1> QED BY <1>1, <1>2

\* Where the enums, the tables and the records end.
EnumEnd(db) == Len(Enums(db))
TableEnd(db) == EnumEnd(db) + Len(Tables(db))
RecordEnd(db) == TableEnd(db) + Len(Records(db))

LEMMA EnumsList ==
  ASSUME NEW db \in Schemas
  PROVE  /\ IsList(Enums(db)) /\ EnumEnd(db) \in Nat
         /\ \A i \in DOMAIN Enums(db) :
              dialect = "postgres" /\ i \in DOMAIN db.enums /\ Enums(db)[i] = CreateEnum(db.enums[i])
         /\ dialect = "postgres" => DOMAIN Enums(db) = DOMAIN db.enums
<1>1. CASE dialect # "postgres"
  BY <1>1, EmptyList DEF Enums, EnumEnd
<1>2. CASE dialect = "postgres"
  <2>1. Enums(db) = [i \in DOMAIN db.enums |-> CreateEnum(db.enums[i])]
    BY <1>2 DEF Enums
  <2>2. DOMAIN db.enums = 1 .. Len(db.enums) /\ Len(db.enums) \in Nat
    BY SoundLists, ListIs
  <2>3. Enums(db) = [i \in 1 .. Len(db.enums) |-> Enums(db)[i]]
    BY <2>1, <2>2
  <2>4. IsList(Enums(db)) /\ Len(Enums(db)) = Len(db.enums)
    BY <2>2, <2>3, MadeList
  <2> QED BY <1>2, <2>1, <2>2, <2>4 DEF EnumEnd
<1> QED BY <1>1, <1>2

AddFk(fk) == Stmt("addFk", fk.child, fk)

LEMMA ConstraintsList ==
  ASSUME NEW db \in Schemas
  PROVE  /\ IsList(Constraints(db))
         /\ \A i \in DOMAIN Constraints(db) :
              /\ dialect # "sqlite" /\ i \in DOMAIN ForeignKeys(db)
              /\ Constraints(db)[i] = AddFk(ForeignKeys(db)[i])
         /\ dialect # "sqlite" => DOMAIN Constraints(db) = DOMAIN ForeignKeys(db)
<1>1. CASE dialect = "sqlite"
  BY <1>1, EmptyList DEF Constraints
<1>2. CASE dialect # "sqlite"
  <2> DEFINE fks == ForeignKeys(db)
  <2>1. Constraints(db) = [i \in DOMAIN fks |-> AddFk(fks[i])]
    BY <1>2 DEF Constraints, AddFk
  <2>2. DOMAIN fks = 1 .. Len(fks) /\ Len(fks) \in Nat
    BY ForeignKeysList, ListIs
  <2> HIDE DEF fks
  <2>3. Constraints(db) = [i \in 1 .. Len(fks) |-> Constraints(db)[i]]
    BY <2>1, <2>2
  <2>4. IsList(Constraints(db)) /\ Len(Constraints(db)) = Len(fks)
    BY <2>2, <2>3, MadeList
  <2> QED BY <1>2, <2>1, <2>2, <2>4 DEF fks
<1> QED BY <1>1, <1>2

\* The script is its four parts.
LEMMA ScriptParts ==
  ASSUME NEW db \in Schemas
  PROVE  /\ IsList(Script(db))
         /\ EnumEnd(db) \in Nat /\ Len(Tables(db)) \in Nat /\ Len(Records(db)) \in Nat
         /\ TableEnd(db) \in Nat /\ RecordEnd(db) \in Nat /\ Len(Constraints(db)) \in Nat
         /\ DOMAIN Script(db) = 1 .. RecordEnd(db) + Len(Constraints(db))
         /\ \A i \in 1 .. EnumEnd(db) : Script(db)[i] = Enums(db)[i]
         /\ \A i \in 1 .. Len(Tables(db)) : Script(db)[EnumEnd(db) + i] = Tables(db)[i]
         /\ \A i \in 1 .. Len(Records(db)) : Script(db)[TableEnd(db) + i] = Records(db)[i]
         /\ \A i \in 1 .. Len(Constraints(db)) : Script(db)[RecordEnd(db) + i] = Constraints(db)[i]
<1> DEFINE a == Enums(db)
           b == Tables(db)
           c == Records(db)
           d == Constraints(db)
           ab == a \o b
           abc == ab \o c
           abcd == abc \o d
           k == Len(a)
           l == Len(b)
           m == Len(c)
           n == Len(d)
<1>1. IsList(a) /\ IsList(b) /\ IsList(c) /\ IsList(d)
  BY EnumsList, TablePartsList, FlattenOffsets, RecordsList, ConstraintsList
<1>2. k \in Nat /\ l \in Nat /\ m \in Nat /\ n \in Nat
  BY <1>1, ListIs
<1>3. Script(db) = abcd
  BY DEF Script
<1> HIDE DEF a, b, c, d, k, l, m, n
<1>4. ConcatAt(ab, a, b, k, l)
  BY <1>1, ConcatLengths DEF k, l
<1>5. IsList(ab) /\ Len(ab) = k + l
  BY <1>4 DEF ConcatAt
<1> HIDE DEF ab
<1>6. ConcatAt(abc, ab, c, k + l, m)
  BY <1>1, <1>5, ConcatLengths DEF m
<1>7. IsList(abc) /\ Len(abc) = k + l + m
  BY <1>6 DEF ConcatAt
<1> HIDE DEF abc
<1>8. ConcatAt(abcd, abc, d, k + l + m, n)
  BY <1>1, <1>7, ConcatLengths DEF n
<1> HIDE DEF abcd
<1>9. IsList(abcd) /\ DOMAIN abcd = 1 .. k + l + m + n
  BY <1>8, ListIs DEF ConcatAt
<1>10. \A i \in 1 .. k : abcd[i] = a[i]
  <2>1. \A i \in 1 .. k : i \in 1 .. k + l /\ i \in 1 .. k + l + m
    BY <1>2
  <2> QED BY <1>4, <1>6, <1>8, <2>1 DEF ConcatAt
<1>11. \A i \in 1 .. l : abcd[k + i] = b[i]
  <2>1. \A i \in 1 .. l : k + i \in 1 .. k + l /\ k + i \in 1 .. k + l + m
    BY <1>2
  <2> QED BY <1>4, <1>6, <1>8, <2>1 DEF ConcatAt
<1>12. \A i \in 1 .. m : abcd[k + l + i] = c[i]
  <2>1. \A i \in 1 .. m : k + l + i \in 1 .. k + l + m
    BY <1>2
  <2> QED BY <1>6, <1>8, <2>1 DEF ConcatAt
<1>13. \A i \in 1 .. n : abcd[k + l + m + i] = d[i]
  BY <1>8 DEF ConcatAt
<1>14. EnumEnd(db) = k /\ TableEnd(db) = k + l /\ RecordEnd(db) = k + l + m
  BY DEF EnumEnd, TableEnd, RecordEnd, a, b, c, k, l, m
<1> QED BY <1>2, <1>3, <1>9, <1>10, <1>11, <1>12, <1>13, <1>14 DEF a, b, c, d, k, l, m, n

\* Where the statements of each table start in Tables.
At(db) == CHOOSE at : Offsets(at, TableParts(db))

LEMMA AtOffsets ==
  ASSUME NEW db \in Schemas
  PROVE  Offsets(At(db), TableParts(db))
<1>1. \E at : Offsets(at, TableParts(db))
  BY TablePartsList, FlattenOffsets
<1> QED BY <1>1, Zenon DEF At

\* Statement j of the script is statement k of table i.
TablePlace(db, j, i, k) ==
  /\ i \in DOMAIN db.tables /\ k \in DOMAIN TableParts(db)[i]
  /\ j = EnumEnd(db) + At(db)[i - 1] + k
  /\ At(db)[i - 1] \in Nat /\ j \in EnumEnd(db) + 1 .. TableEnd(db)
  /\ Script(db)[j] = TableParts(db)[i][k]

EnumPlace(db, j) ==
  /\ dialect = "postgres" /\ j \in 1 .. EnumEnd(db) /\ j \in DOMAIN db.enums
  /\ Script(db)[j] = CreateEnum(db.enums[j])

RecordPlace(db, j, k) ==
  /\ k \in DOMAIN Records(db) /\ j = TableEnd(db) + k /\ j \in TableEnd(db) + 1 .. RecordEnd(db)
  /\ Script(db)[j] = Records(db)[k]

KeyPlace(db, j, k) ==
  /\ dialect # "sqlite" /\ k \in DOMAIN ForeignKeys(db) /\ j = RecordEnd(db) + k /\ j > RecordEnd(db)
  /\ Script(db)[j] = AddFk(ForeignKeys(db)[k])

\* Each part of the schema has its place in the script,
LEMMA TablePlaces ==
  ASSUME NEW db \in Schemas, NEW i \in DOMAIN db.tables, NEW k \in DOMAIN TableParts(db)[i]
  PROVE  EnumEnd(db) + At(db)[i - 1] + k \in DOMAIN Script(db)
         /\ TablePlace(db, EnumEnd(db) + At(db)[i - 1] + k, i, k)
<1> DEFINE ss == TableParts(db)
           at == At(db)
           n == Len(ss)
           l == Len(Tables(db))
           e == EnumEnd(db)
           m == Len(ss[i])
<1>1. IsListOfLists(ss) /\ IsList(ss) /\ IsList(ss[i]) /\ i \in 1 .. n /\ n \in Nat
  BY TablePartsList, SoundLists, ListIs DEF IsListOfLists
<1>2. Offsets(at, ss) /\ Tables(db) = FlattenSeq(ss)
  BY AtOffsets, TablePartsList
<1> HIDE DEF ss, at
<1>3. k \in 1 .. m /\ m \in Nat
  BY <1>1, ListIs DEF ss
<1> HIDE DEF n
<1>4. i - 1 \in 0 .. n /\ i \in 0 .. n /\ n \in i .. n
  BY <1>1
<1>5. at[i] <= at[n]
  BY <1>1, <1>2, <1>4, OffsetsGrow DEF IsListOfLists, n
<1>6. /\ at[i - 1] \in Nat /\ at[i] \in Nat /\ at[i] = at[i - 1] + m /\ at[n] = l
      /\ Tables(db)[at[i - 1] + k] = ss[i][k]
  BY <1>1, <1>2, <1>3, <1>4 DEF Offsets, n
<1>7. e \in Nat /\ l \in Nat /\ TableEnd(db) = e + l
  BY ScriptParts DEF TableEnd
<1> HIDE DEF l, e, m
<1>8. at[i - 1] + k \in 1 .. l
  BY <1>3, <1>5, <1>6, <1>7
<1>9. Script(db)[e + (at[i - 1] + k)] = ss[i][k]
  BY <1>6, <1>8, ScriptParts DEF e, l
<1>10. e + (at[i - 1] + k) = e + at[i - 1] + k /\ e + at[i - 1] + k \in e + 1 .. e + l
  BY <1>3, <1>6, <1>7, <1>8
<1>11. e + at[i - 1] + k \in DOMAIN Script(db)
  <2> DEFINE r == Len(Records(db))
             c == Len(Constraints(db))
  <2>1. r \in Nat /\ c \in Nat /\ RecordEnd(db) = e + l + r
    BY <1>7, ScriptParts DEF RecordEnd
  <2>2. DOMAIN Script(db) = 1 .. RecordEnd(db) + c
    BY ScriptParts
  <2> HIDE DEF r, c
  <2> QED BY <1>7, <1>10, <2>1, <2>2
<1>12. TablePlace(db, e + at[i - 1] + k, i, k)
  BY <1>6, <1>7, <1>9, <1>10 DEF TablePlace, ss, at, e
<1> QED BY <1>11, <1>12 DEF e, at

LEMMA OtherPlaces ==
  ASSUME NEW db \in Schemas
  PROVE  /\ dialect = "postgres" => \A j \in DOMAIN db.enums : j \in DOMAIN Script(db) /\ EnumPlace(db, j)
         /\ \A k \in DOMAIN Records(db) :
              TableEnd(db) + k \in DOMAIN Script(db) /\ RecordPlace(db, TableEnd(db) + k, k)
         /\ dialect # "sqlite" => \A k \in DOMAIN ForeignKeys(db) :
              RecordEnd(db) + k \in DOMAIN Script(db) /\ KeyPlace(db, RecordEnd(db) + k, k)
<1> DEFINE e == EnumEnd(db)
           l == Len(Tables(db))
           t == TableEnd(db)
           r == Len(Records(db))
           u == RecordEnd(db)
           c == Len(Constraints(db))
<1>1. /\ e \in Nat /\ l \in Nat /\ t = e + l /\ r \in Nat /\ u = t + r /\ c \in Nat
      /\ DOMAIN Script(db) = 1 .. u + c
  BY ScriptParts DEF TableEnd, RecordEnd
<1>2. /\ \A i \in 1 .. e : Script(db)[i] = Enums(db)[i]
      /\ \A i \in 1 .. r : Script(db)[t + i] = Records(db)[i]
      /\ \A i \in 1 .. c : Script(db)[u + i] = Constraints(db)[i]
  BY ScriptParts
<1>3. DOMAIN Enums(db) = 1 .. e /\ DOMAIN Records(db) = 1 .. r /\ DOMAIN Constraints(db) = 1 .. c
  BY EnumsList, RecordsList, ConstraintsList, ListIs DEF EnumEnd
<1> HIDE DEF e, l, t, r, u, c
<1>4. ASSUME dialect = "postgres", NEW j \in DOMAIN db.enums
      PROVE  j \in DOMAIN Script(db) /\ EnumPlace(db, j)
  <2>1. j \in 1 .. e /\ Enums(db)[j] = CreateEnum(db.enums[j])
    BY <1>3, <1>4, EnumsList
  <2>2. j \in DOMAIN Script(db)
    BY <1>1, <2>1
  <2> QED BY <1>2, <1>4, <2>1, <2>2 DEF EnumPlace, e
<1>5. ASSUME NEW k \in DOMAIN Records(db)
      PROVE  t + k \in DOMAIN Script(db) /\ RecordPlace(db, t + k, k)
  <2>1. k \in 1 .. r
    BY <1>3
  <2>2. t + k \in DOMAIN Script(db) /\ t + k \in t + 1 .. u
    BY <1>1, <2>1
  <2> QED BY <1>2, <2>1, <2>2 DEF RecordPlace, t, u
<1>6. ASSUME dialect # "sqlite", NEW k \in DOMAIN ForeignKeys(db)
      PROVE  u + k \in DOMAIN Script(db) /\ KeyPlace(db, u + k, k)
  <2>1. k \in 1 .. c /\ Constraints(db)[k] = AddFk(ForeignKeys(db)[k])
    BY <1>3, <1>6, ConstraintsList
  <2>2. u + k \in DOMAIN Script(db) /\ u + k > u
    BY <1>1, <2>1
  <2> QED BY <1>2, <1>6, <2>1, <2>2 DEF KeyPlace, u
<1> QED BY <1>4, <1>5, <1>6 DEF t, u

\* and nothing else is in it.
LEMMA Places ==
  ASSUME NEW db \in Schemas, NEW j \in DOMAIN Script(db)
  PROVE  \/ EnumPlace(db, j)
         \/ \E i, k : TablePlace(db, j, i, k)
         \/ \E k : RecordPlace(db, j, k)
         \/ \E k : KeyPlace(db, j, k)
<1> DEFINE e == EnumEnd(db)
           l == Len(Tables(db))
           t == TableEnd(db)
           r == Len(Records(db))
           u == RecordEnd(db)
           c == Len(Constraints(db))
<1>1. /\ e \in Nat /\ l \in Nat /\ t = e + l /\ r \in Nat /\ u = t + r /\ c \in Nat
      /\ j \in 1 .. u + c
  BY ScriptParts DEF TableEnd, RecordEnd
<1>2. /\ \A i \in 1 .. e : Script(db)[i] = Enums(db)[i]
      /\ \A i \in 1 .. c : Script(db)[u + i] = Constraints(db)[i]
  BY ScriptParts
<1>3. DOMAIN Enums(db) = 1 .. e /\ DOMAIN Records(db) = 1 .. r /\ DOMAIN Constraints(db) = 1 .. c
  BY EnumsList, RecordsList, ConstraintsList, ListIs DEF EnumEnd
<1> HIDE DEF e, l, t, r, u, c
<1>4. CASE j \in 1 .. e
  BY <1>2, <1>3, <1>4, EnumsList DEF EnumPlace, e
<1>5. CASE j \in e + 1 .. t
  <2> DEFINE ss == TableParts(db)
             at == At(db)
             p == j - e
  <2>1. IsListOfLists(ss) /\ Offsets(at, ss) /\ Tables(db) = FlattenSeq(ss)
    BY TablePartsList, AtOffsets
  <2>2. p \in 1 .. Len(FlattenSeq(ss)) /\ j = e + p
    <3>1. p \in 1 .. l /\ j = e + p
      BY <1>1, <1>5
    <3> QED BY <2>1, <3>1 DEF l
  <2> HIDE DEF ss, at, p
  <2>3. PICK i, k : IsPlaceOf(p, ss, at, i, k)
    BY <2>1, <2>2, OffsetsCover
  <2>4. i \in 1 .. Len(ss) /\ k \in 1 .. Len(ss[i]) /\ p = at[i - 1] + k
    BY <2>3 DEF IsPlaceOf
  <2>5. i \in DOMAIN db.tables /\ k \in DOMAIN ss[i]
    BY <2>1, <2>4, TablePartsList, SoundLists, ListIs DEF IsListOfLists, ss
  <2>6. TablePlace(db, e + at[i - 1] + k, i, k) /\ at[i - 1] \in Nat
    BY <2>5, TablePlaces DEF TablePlace, ss, at, e
  <2>7. e + at[i - 1] + k = j
    <3>1. k \in Nat
      <4>1. Len(ss[i]) \in Nat
        BY <2>1, <2>4, ListIs DEF IsListOfLists
      <4> QED BY <2>4, <4>1
    <3> QED BY <1>1, <2>2, <2>4, <2>6, <3>1
  <2> QED BY <2>6, <2>7
<1>6. CASE j \in t + 1 .. u
  <2>1. j - t \in 1 .. r /\ t + (j - t) = j
    BY <1>1, <1>6
  <2>2. RecordPlace(db, j, j - t)
    BY <1>3, <2>1, OtherPlaces DEF t
  <2> QED BY <2>2
<1>7. CASE j \in u + 1 .. u + c
  <2>1. j - u \in 1 .. c /\ u + (j - u) = j
    BY <1>1, <1>7
  <2>2. KeyPlace(db, j, j - u)
    BY <1>3, <2>1, OtherPlaces, ConstraintsList DEF u
  <2> QED BY <2>2
<1> QED BY <1>1, <1>4, <1>5, <1>6, <1>7

LEMMA StmtOps ==
  ASSUME NEW x
  PROVE  /\ x = Stmt("begin", "", "") => x.op = "begin"
         /\ x = Stmt("defer", "", "") => x.op = "defer"
         /\ x = Stmt("commit", "", "") => x.op = "commit"
         /\ \A e : x = CreateEnum(e) => x.op = "createEnum" /\ x.what = e
         /\ \A fk : x = AddFk(fk) => x.op = "addFk" /\ x.on = fk.child /\ x.what = fk
<1>1. ASSUME x = Stmt("begin", "", "") PROVE x.op = "begin"
  BY <1>1 DEF Stmt
<1>2. ASSUME x = Stmt("defer", "", "") PROVE x.op = "defer"
  BY <1>2 DEF Stmt
<1>3. ASSUME x = Stmt("commit", "", "") PROVE x.op = "commit"
  BY <1>3 DEF Stmt
<1>4. ASSUME NEW e, x = CreateEnum(e) PROVE x.op = "createEnum" /\ x.what = e
  BY <1>4 DEF Stmt, CreateEnum
<1>5. \A fk : x = AddFk(fk) => x.op = "addFk" /\ x.on = fk.child /\ x.what = fk
  BY DEF Stmt, AddFk
<1> QED BY <1>1, <1>2, <1>3, <1>4, <1>5

LEMMA IndexOp ==
  ASSUME NEW x, NEW t, NEW y, x = Stmt("createIndex", t, y)
  PROVE  x.op = "createIndex" /\ x.on = t /\ x.what = y
BY DEF Stmt

LEMMA InsertOp ==
  ASSUME NEW x, NEW t, NEW y, x = Stmt("insert", t, y)
  PROVE  x.op = "insert" /\ x.on = t /\ x.what = y
BY DEF Stmt

\* The argument of a CREATE TABLE.
TableBody(t, db) ==
  [cols |-> [i \in DOMAIN t.cols |-> RenderColumn(t.cols[i], InlinePK(t), db)],
   pk   |-> PkColumns(t),
   key  |-> IF dialect = "mariadb" \/ InlinePK(t) THEN "" ELSE t.key,
   fks  |-> IF dialect = "sqlite" THEN {fk \in ToSet(db.fks) : fk.child = t.name} ELSE {}]

LEMMA CreateTableOp ==
  ASSUME NEW x, NEW t, NEW db, x = CreateTable(t, db)
  PROVE  x.op = "createTable" /\ x.on = t.name /\ x.what = TableBody(t, db)
<1>1. x = Stmt("createTable", t.name, TableBody(t, db))
  BY DEF CreateTable, TableBody
<1> QED BY <1>1 DEF Stmt

\* The statement at place j of the script, by its kind.
EnumAt(db, j) == EnumPlace(db, j) /\ Script(db)[j].op = "createEnum"

TableAt(db, j, i) ==
  TablePlace(db, j, i, 1) /\ Script(db)[j] = CreateTable(db.tables[i], Full(db))

IndexAt(db, j, i, x) ==
  /\ TablePlace(db, j, i, 1 + x) /\ x \in DOMAIN db.tables[i].indexes
  /\ Script(db)[j] = Stmt("createIndex", db.tables[i].name, db.tables[i].indexes[x])

RecordsAt(db, j, i) ==
  /\ dialect # "sqlite" /\ TablePlace(db, j, i, 2 + Len(db.tables[i].indexes))
  /\ Script(db)[j] = Stmt("insert", db.tables[i].name, db.tables[i].records)

BeginAt(db, j) ==
  dialect = "sqlite" /\ j = TableEnd(db) + 1 /\ j < RecordEnd(db) /\ Script(db)[j] = Stmt("begin", "", "")

DeferAt(db, j) ==
  dialect = "sqlite" /\ j = TableEnd(db) + 2 /\ j < RecordEnd(db) /\ Script(db)[j] = Stmt("defer", "", "")

RowsAt(db, j) ==
  /\ dialect = "sqlite" /\ j > TableEnd(db) + 2 /\ j < RecordEnd(db)
  /\ \E t \in ToSet(db.tables) : Script(db)[j] = Stmt("insert", t.name, t.records)

CommitAt(db, j) ==
  dialect = "sqlite" /\ j = RecordEnd(db) /\ j > TableEnd(db) + 2 /\ Script(db)[j] = Stmt("commit", "", "")

KeyAt(db, j, k) == KeyPlace(db, j, k) /\ Script(db)[j].op = "addFk"

LEMMA TableKinds ==
  ASSUME NEW db \in Schemas, NEW j, NEW i, NEW k, TablePlace(db, j, i, k)
  PROVE  \/ TableAt(db, j, i)
         \/ \E x : IndexAt(db, j, i, x)
         \/ RecordsAt(db, j, i)
<1> DEFINE n == Len(db.tables[i].indexes)
           part == TableParts(db)[i]
<1>1. /\ i \in DOMAIN db.tables /\ k \in DOMAIN part /\ Script(db)[j] = part[k]
      /\ PartIs(part, db, db.tables[i]) /\ n \in Nat /\ DOMAIN db.tables[i].indexes = 1 .. n
  BY TablePartsList, SoundLists, ListIs DEF TablePlace
<1>2. k \in Nat /\ k >= 1
  BY <1>1, ListIs DEF PartIs
<1> HIDE DEF n, part
<1>3. CASE k = 1
  BY <1>1, <1>3 DEF PartIs, TableAt
<1>4. CASE k \in 2 .. 1 + n
  <2> DEFINE x == k - 1
  <2>1. x \in 1 .. n /\ 1 + x = k
    BY <1>1, <1>4
  <2> HIDE DEF x
  <2>2. part[1 + x] = Stmt("createIndex", db.tables[i].name, db.tables[i].indexes[x])
    BY <1>1, <2>1 DEF PartIs
  <2>3. IndexAt(db, j, i, x)
    BY <1>1, <2>1, <2>2 DEF IndexAt
  <2> QED BY <2>3
<1>5. CASE k > 1 + n
  BY <1>1, <1>5 DEF PartIs, RecordsAt, n
<1> QED BY <1>1, <1>2, <1>3, <1>4, <1>5

LEMMA RecordKinds ==
  ASSUME NEW db \in Schemas, NEW j, NEW k, RecordPlace(db, j, k)
  PROVE  BeginAt(db, j) \/ DeferAt(db, j) \/ RowsAt(db, j) \/ CommitAt(db, j)
<1> DEFINE m == Len(InsertsOf(db))
           e == TableEnd(db)
           l == Len(Records(db))
           u == RecordEnd(db)
<1>1. Script(db)[j] = Records(db)[k] /\ k \in DOMAIN Records(db) /\ DOMAIN Records(db) = 1 .. l
  BY RecordsList, ListIs DEF RecordPlace
<1>2. k \in 1 .. l /\ l \in Nat /\ m \in Nat /\ e \in Nat /\ j = e + k /\ u = e + l
  BY <1>1, ScriptParts, ListIs, InsertsList DEF RecordPlace, RecordEnd
<1>3. Records(db) # <<>>
  BY <1>1
<1>4. dialect = "sqlite" /\ l = 3 + m
  BY <1>3, RecordsList DEF RecordsAre
<1>5. Records(db)[1] = Stmt("begin", "", "") /\ Records(db)[2] = Stmt("defer", "", "")
  BY <1>3, RecordsList DEF RecordsAre
<1>6. DOMAIN InsertsOf(db) = 1 .. m /\ \A x \in DOMAIN InsertsOf(db) : Records(db)[2 + x] = InsertsOf(db)[x]
  BY <1>3, RecordsList, InsertsList, ListIs DEF RecordsAre
<1>7. Records(db)[3 + m] = Stmt("commit", "", "")
  BY <1>3, RecordsList DEF RecordsAre
<1>8. dialect = "sqlite"
  BY <1>4
<1> HIDE DEF m, e, l, u
<1>9. CASE k = 1
  <2>1. j = e + 1 /\ j < u
    BY <1>2, <1>4, <1>9
  <2> QED BY <1>1, <1>5, <1>8, <1>9, <2>1, Zenon DEF BeginAt, e, u
<1>10. CASE k = 2
  <2>1. j = e + 2 /\ j < u
    BY <1>2, <1>4, <1>10
  <2> QED BY <1>1, <1>5, <1>8, <1>10, <2>1, Zenon DEF DeferAt, e, u
<1>11. CASE k \in 3 .. 2 + m
  <2> DEFINE x == k - 2
  <2>1. x \in 1 .. m /\ 2 + x = k /\ j > e + 2 /\ j < u
    BY <1>2, <1>4, <1>11
  <2> HIDE DEF x
  <2>2. Records(db)[k] = InsertsOf(db)[x] /\ x \in DOMAIN InsertsOf(db)
    BY <1>6, <2>1
  <2>3. \E t \in ToSet(db.tables) : InsertsOf(db)[x] = Stmt("insert", t.name, t.records)
    BY <2>2, InsertsList
  <2> QED BY <1>1, <1>8, <2>1, <2>2, <2>3 DEF RowsAt, e, u
<1>12. CASE k = 3 + m
  <2>1. j = u /\ j > e + 2
    BY <1>2, <1>4, <1>12
  <2> QED BY <1>1, <1>7, <1>8, <1>12, <2>1, Zenon DEF CommitAt, e, u
<1> QED BY <1>2, <1>4, <1>9, <1>10, <1>11, <1>12

LEMMA Kinds ==
  ASSUME NEW db \in Schemas, NEW j \in DOMAIN Script(db)
  PROVE  \/ EnumAt(db, j)
         \/ \E i : TableAt(db, j, i) \/ (\E x : IndexAt(db, j, i, x)) \/ RecordsAt(db, j, i)
         \/ BeginAt(db, j) \/ DeferAt(db, j) \/ RowsAt(db, j) \/ CommitAt(db, j)
         \/ \E k : KeyAt(db, j, k)
<1>1. ASSUME EnumPlace(db, j) PROVE EnumAt(db, j)
  BY <1>1, StmtOps, Zenon DEF EnumPlace, EnumAt
<1>2. ASSUME NEW k, KeyPlace(db, j, k) PROVE KeyAt(db, j, k)
  BY <1>2, StmtOps DEF KeyPlace, KeyAt
<1>3. ASSUME NEW i, NEW k, TablePlace(db, j, i, k)
      PROVE  TableAt(db, j, i) \/ (\E x : IndexAt(db, j, i, x)) \/ RecordsAt(db, j, i)
  BY <1>3, TableKinds
<1>4. ASSUME NEW k, RecordPlace(db, j, k)
      PROVE  BeginAt(db, j) \/ DeferAt(db, j) \/ RowsAt(db, j) \/ CommitAt(db, j)
  BY <1>4, RecordKinds
<1> QED BY <1>1, <1>2, <1>3, <1>4, Places

\* Which kind a statement is can be told from its operation.
KindOf(db, j) ==
  LET st == Script(db)[j]
  IN  /\ st.op \in Defining \cup {"insert", "begin", "defer", "commit", "addFk"}
      /\ st.op = "createEnum" => EnumAt(db, j)
      /\ st.op = "createTable" => \E i : TableAt(db, j, i)
      /\ st.op = "createIndex" => \E i, x : IndexAt(db, j, i, x)
      /\ st.op = "insert" => IF dialect = "sqlite" THEN RowsAt(db, j) ELSE \E i : RecordsAt(db, j, i)
      /\ st.op = "begin" => BeginAt(db, j)
      /\ st.op = "defer" => DeferAt(db, j)
      /\ st.op = "commit" => CommitAt(db, j)
      /\ st.op = "addFk" => \E k : KeyAt(db, j, k)

LEMMA KindByOp ==
  ASSUME NEW db \in Schemas, NEW j \in DOMAIN Script(db)
  PROVE  KindOf(db, j)
<1>1. ASSUME EnumAt(db, j) PROVE KindOf(db, j)
  BY <1>1 DEF KindOf, EnumAt, Defining
<1>2. ASSUME NEW i, TableAt(db, j, i) PROVE KindOf(db, j)
  <2>1. Script(db)[j].op = "createTable"
    BY <1>2, CreateTableOp DEF TableAt
  <2> QED BY <1>2, <2>1 DEF KindOf, Defining
<1>3. ASSUME NEW i, NEW x, IndexAt(db, j, i, x) PROVE KindOf(db, j)
  <2>1. Script(db)[j].op = "createIndex"
    BY <1>3, IndexOp DEF IndexAt
  <2> QED BY <1>3, <2>1 DEF KindOf, Defining
<1>4. ASSUME NEW i, RecordsAt(db, j, i) PROVE KindOf(db, j)
  <2>1. Script(db)[j].op = "insert" /\ dialect # "sqlite"
    BY <1>4, InsertOp DEF RecordsAt
  <2> QED BY <1>4, <2>1 DEF KindOf, Defining
<1>5. ASSUME BeginAt(db, j) PROVE KindOf(db, j)
  <2>1. Script(db)[j].op = "begin"
    BY <1>5, StmtOps, Zenon DEF BeginAt
  <2> QED BY <1>5, <2>1 DEF KindOf, Defining
<1>6. ASSUME DeferAt(db, j) PROVE KindOf(db, j)
  <2>1. Script(db)[j].op = "defer"
    BY <1>6, StmtOps, Zenon DEF DeferAt
  <2> QED BY <1>6, <2>1 DEF KindOf, Defining
<1>7. ASSUME RowsAt(db, j) PROVE KindOf(db, j)
  <2>1. Script(db)[j].op = "insert" /\ dialect = "sqlite"
    BY <1>7, InsertOp DEF RowsAt
  <2> QED BY <1>7, <2>1 DEF KindOf, Defining
<1>8. ASSUME CommitAt(db, j) PROVE KindOf(db, j)
  <2>1. Script(db)[j].op = "commit"
    BY <1>8, StmtOps, Zenon DEF CommitAt
  <2> QED BY <1>8, <2>1 DEF KindOf, Defining
<1>9. ASSUME NEW k, KeyAt(db, j, k) PROVE KindOf(db, j)
  BY <1>9 DEF KindOf, KeyAt, Defining
<1> QED BY <1>1, <1>2, <1>3, <1>4, <1>5, <1>6, <1>7, <1>8, <1>9, Kinds

LEMMA ScriptOpsHold ==
  ASSUME NEW db \in Schemas
  PROVE  ScriptOps(db)
<1> SUFFICES ASSUME NEW j \in DOMAIN Script(db) PROVE Writes(db, Script(db)[j])
  BY DEF ScriptOps
<1>1. ASSUME EnumAt(db, j) PROVE Writes(db, Script(db)[j])
  <2>1. dialect = "postgres" /\ db.enums[j] \in ToSet(db.enums) /\ Script(db)[j] = CreateEnum(db.enums[j])
    BY <1>1 DEF EnumAt, EnumPlace, ToSet
  <2> QED BY <2>1 DEF Writes
<1>2. ASSUME NEW i, TableAt(db, j, i) PROVE Writes(db, Script(db)[j])
  <2>1. db.tables[i] \in ToSet(db.tables) /\ Script(db)[j] = CreateTable(db.tables[i], Full(db))
    BY <1>2, SoundLists DEF TableAt, TablePlace
  <2> QED BY <2>1 DEF Writes
<1>3. ASSUME NEW i, NEW x, IndexAt(db, j, i, x) PROVE Writes(db, Script(db)[j])
  <2> DEFINE t == db.tables[i]
  <2>1. t \in ToSet(db.tables) /\ t.indexes[x] \in ToSet(t.indexes)
        /\ Script(db)[j] = Stmt("createIndex", t.name, t.indexes[x])
    BY <1>3, SoundLists DEF IndexAt, TablePlace, ToSet
  <2> HIDE DEF t
  <2> QED BY <2>1 DEF Writes
<1>4. ASSUME NEW i, RecordsAt(db, j, i) PROVE Writes(db, Script(db)[j])
  <2> DEFINE t == db.tables[i]
  <2>1. t \in ToSet(db.tables) /\ Script(db)[j] = Stmt("insert", t.name, t.records)
    BY <1>4, SoundLists DEF RecordsAt, TablePlace
  <2> HIDE DEF t
  <2> QED BY <2>1 DEF Writes
<1>5. ASSUME BeginAt(db, j) \/ DeferAt(db, j) \/ CommitAt(db, j) PROVE Writes(db, Script(db)[j])
  <2>1. dialect = "sqlite" /\ \E op \in {"begin", "defer", "commit"} : Script(db)[j] = Stmt(op, "", "")
    BY <1>5 DEF BeginAt, DeferAt, CommitAt
  <2> QED BY <2>1 DEF Writes
<1>6. ASSUME RowsAt(db, j) PROVE Writes(db, Script(db)[j])
  BY <1>6 DEF RowsAt, Writes
<1>7. ASSUME NEW k, KeyAt(db, j, k) PROVE Writes(db, Script(db)[j])
  <2> DEFINE fk == ForeignKeys(db)[k]
  <2>1. dialect # "sqlite" /\ fk \in ToSet(ForeignKeys(db)) /\ Script(db)[j] = Stmt("addFk", fk.child, fk)
    BY <1>7 DEF KeyAt, KeyPlace, AddFk, ToSet
  <2> HIDE DEF fk
  <2> QED BY <2>1 DEF Writes
<1> QED BY <1>1, <1>2, <1>3, <1>4, <1>5, <1>6, <1>7, Kinds

LEMMA ScriptCompleteHolds ==
  ASSUME NEW db \in Schemas
  PROVE  ScriptComplete(db)
<1> DEFINE Has(st) == st \in ToSet(Script(db))
<1>1. ASSUME dialect = "postgres", NEW e \in ToSet(db.enums) PROVE Has(CreateEnum(e))
  <2>1. PICK j \in DOMAIN db.enums : e = db.enums[j]
    BY DEF ToSet
  <2> QED BY <1>1, <2>1, OtherPlaces DEF EnumPlace, ToSet
<1>2. ASSUME NEW t \in ToSet(db.tables)
      PROVE  /\ Has(CreateTable(t, Full(db)))
             /\ \A x \in ToSet(t.indexes) : Has(Stmt("createIndex", t.name, x))
             /\ dialect # "sqlite" /\ t.records # <<>> => Has(Stmt("insert", t.name, t.records))
  <2>1. PICK i \in DOMAIN db.tables : t = db.tables[i]
    BY DEF ToSet
  <2> DEFINE part == TableParts(db)[i]
             n == Len(t.indexes)
  <2>2. PartIs(part, db, t) /\ n \in Nat /\ DOMAIN t.indexes = 1 .. n
    BY <2>1, TablePartsList, SoundLists, ListIs
  <2>3. DOMAIN part = 1 .. Len(part) /\ Len(part) \in Nat /\ Len(part) >= 1 + n
    BY <2>2, ListIs DEF PartIs
  <2>4. \A k \in DOMAIN part : Has(part[k])
    BY <2>1, TablePlaces DEF TablePlace, ToSet
  <2> DEFINE l == Len(part)
  <2>5. n \in Nat /\ l \in Nat /\ l >= 1 + n /\ DOMAIN part = 1 .. l
    BY <2>2, <2>3
  <2> HIDE DEF part, n, l
  <2>6. 1 \in DOMAIN part /\ \A k \in 1 .. n : 1 + k \in DOMAIN part
    BY <2>5
  <2>7. 1 \in DOMAIN part /\ part[1] = CreateTable(t, Full(db))
    BY <2>2, <2>6 DEF PartIs
  <2>8. ASSUME NEW x \in ToSet(t.indexes) PROVE Has(Stmt("createIndex", t.name, x))
    <3>1. PICK k \in 1 .. n : x = t.indexes[k]
      BY <2>2 DEF ToSet
    <3>2. 1 + k \in DOMAIN part /\ part[1 + k] = Stmt("createIndex", t.name, x)
      BY <2>2, <2>6, <3>1 DEF PartIs
    <3> HIDE DEF Has
    <3> QED BY <2>4, <3>2
  <2>9. ASSUME dialect # "sqlite", t.records # <<>> PROVE Has(Stmt("insert", t.name, t.records))
    <3>1. Len(part) = 2 + n
      BY <2>2, <2>9 DEF PartIs, n
    <3>2. 2 + n \in DOMAIN part /\ 2 + n > 1 + n
      BY <2>2, <2>3, <3>1
    <3>3. part[2 + n] = Stmt("insert", t.name, t.records)
      BY <2>2, <3>2 DEF PartIs, n
    <3> HIDE DEF Has
    <3> QED BY <2>4, <3>2, <3>3
  <2> HIDE DEF Has
  <2> QED BY <2>4, <2>7, <2>8, <2>9
<1>3. ASSUME dialect = "sqlite", NEW t \in ToSet(db.tables), t.records # <<>>
      PROVE  Has(Stmt("insert", t.name, t.records))
  <2> DEFINE m == Len(InsertsOf(db))
             l == Len(Records(db))
  <2>1. PICK k \in DOMAIN InsertsOf(db) : InsertsOf(db)[k] = Stmt("insert", t.name, t.records)
    BY <1>3, InsertsList DEF ToSet
  <2>2. l = 3 + m /\ \A x \in DOMAIN InsertsOf(db) : Records(db)[2 + x] = InsertsOf(db)[x]
    BY <1>3, RecordsList DEF RecordsAre
  <2>3. DOMAIN Records(db) = 1 .. l /\ DOMAIN InsertsOf(db) = 1 .. m /\ m \in Nat
    BY RecordsList, InsertsList, ListIs
  <2> HIDE DEF l, m
  <2>4. 2 + k \in DOMAIN Records(db) /\ Records(db)[2 + k] = Stmt("insert", t.name, t.records)
    BY <2>1, <2>2, <2>3
  <2> QED BY <2>4, OtherPlaces DEF RecordPlace, ToSet
<1>4. ASSUME dialect # "sqlite", NEW fk \in ToSet(ForeignKeys(db)) PROVE Has(Stmt("addFk", fk.child, fk))
  <2>1. PICK k \in DOMAIN ForeignKeys(db) : fk = ForeignKeys(db)[k]
    BY DEF ToSet
  <2>2. RecordEnd(db) + k \in DOMAIN Script(db) /\ Script(db)[RecordEnd(db) + k] = Stmt("addFk", fk.child, fk)
    BY <1>4, <2>1, OtherPlaces DEF KeyPlace, AddFk
  <2> QED BY <2>2 DEF ToSet
<1> HIDE DEF Has
<1>5. \A t \in ToSet(db.tables) :
        /\ Has(CreateTable(t, Full(db)))
        /\ \A x \in ToSet(t.indexes) : Has(Stmt("createIndex", t.name, x))
        /\ t.records # <<>> => Has(Stmt("insert", t.name, t.records))
  BY <1>2, <1>3
<1> USE DEF Has
<1> QED BY <1>1, <1>4, <1>5 DEF ScriptComplete

LEMMA Ends ==
  ASSUME NEW db \in Schemas
  PROVE  /\ EnumEnd(db) \in Nat /\ TableEnd(db) \in Nat /\ RecordEnd(db) \in Nat
         /\ EnumEnd(db) <= TableEnd(db) /\ TableEnd(db) <= RecordEnd(db)
         /\ DOMAIN Script(db) \subseteq Nat \ {0}
<1> DEFINE e == EnumEnd(db)
           l == Len(Tables(db))
           r == Len(Records(db))
           c == Len(Constraints(db))
<1>1. e \in Nat /\ l \in Nat /\ r \in Nat /\ c \in Nat
  BY ScriptParts
<1>2. TableEnd(db) = e + l /\ RecordEnd(db) = e + l + r
  BY DEF TableEnd, RecordEnd
<1>3. DOMAIN Script(db) = 1 .. RecordEnd(db) + c
  BY ScriptParts
<1> HIDE DEF e, l, r, c
<1> QED BY <1>1, <1>2, <1>3 DEF e

\* The part of the script that a statement is in.
Region(db, j, op) ==
  /\ op = "createEnum" => j <= EnumEnd(db)
  /\ op \in {"createTable", "createIndex"} => j > EnumEnd(db) /\ j <= TableEnd(db)
  /\ op = "insert" => IF dialect = "sqlite" THEN j > TableEnd(db) + 2 /\ j < RecordEnd(db)
                      ELSE j > EnumEnd(db) /\ j <= TableEnd(db)
  /\ op \in {"begin", "defer", "commit"} => dialect = "sqlite" /\ RecordEnd(db) > TableEnd(db) + 2
  /\ op = "begin" => j = TableEnd(db) + 1
  /\ op = "defer" => j = TableEnd(db) + 2
  /\ op = "commit" => j = RecordEnd(db)
  /\ op = "addFk" => dialect # "sqlite" /\ j > RecordEnd(db)

\* A transaction that is begun is committed.
LEMMA TransactionWhole ==
  ASSUME NEW db \in Schemas, Records(db) # <<>>
  PROVE  /\ dialect = "sqlite" /\ RecordEnd(db) > TableEnd(db) + 2
         /\ TableEnd(db) + 1 \in DOMAIN Script(db) /\ Script(db)[TableEnd(db) + 1].op = "begin"
         /\ TableEnd(db) + 2 \in DOMAIN Script(db) /\ Script(db)[TableEnd(db) + 2].op = "defer"
         /\ RecordEnd(db) \in DOMAIN Script(db) /\ Script(db)[RecordEnd(db)].op = "commit"
<1> DEFINE m == Len(InsertsOf(db))
           e == TableEnd(db)
           l == Len(Records(db))
           u == RecordEnd(db)
<1>1. DOMAIN Records(db) = 1 .. l /\ l \in Nat /\ m \in Nat /\ e \in Nat /\ u = e + l
  BY RecordsList, ListIs, InsertsList, ScriptParts DEF RecordEnd
<1>2. dialect = "sqlite" /\ l = 3 + m
  BY RecordsList DEF RecordsAre
<1>3. /\ Records(db)[1] = Stmt("begin", "", "") /\ Records(db)[2] = Stmt("defer", "", "")
      /\ Records(db)[3 + m] = Stmt("commit", "", "")
  BY RecordsList DEF RecordsAre
<1>4. /\ Records(db)[1].op = "begin" /\ Records(db)[2].op = "defer"
      /\ Records(db)[3 + m].op = "commit"
  BY <1>3, StmtOps, Zenon
<1> HIDE DEF m, l, u
<1>5. /\ 1 \in DOMAIN Records(db) /\ 2 \in DOMAIN Records(db) /\ 3 + m \in DOMAIN Records(db)
      /\ u = e + (3 + m) /\ u > e + 2
  BY <1>1, <1>2
<1>6. \A k \in DOMAIN Records(db) : e + k \in DOMAIN Script(db) /\ Script(db)[e + k] = Records(db)[k]
  BY OtherPlaces DEF RecordPlace
<1> HIDE DEF e
<1>7. u \in DOMAIN Script(db) /\ Script(db)[u] = Records(db)[3 + m]
  BY <1>5, <1>6
<1> QED BY <1>2, <1>4, <1>5, <1>6, <1>7 DEF e, u

LEMMA Regions ==
  ASSUME NEW db \in Schemas, NEW j \in DOMAIN Script(db)
  PROVE  Region(db, j, Script(db)[j].op)
<1> DEFINE op == Script(db)[j].op
           e == EnumEnd(db)
           t == TableEnd(db)
           u == RecordEnd(db)
<1>1. e \in Nat /\ t \in Nat /\ u \in Nat /\ j \in Nat
  BY Ends
<1>2. KindOf(db, j)
  BY KindByOp
<1>3. \A i, k : TablePlace(db, j, i, k) => j > e /\ j <= t
  <2> SUFFICES ASSUME NEW i, NEW k, TablePlace(db, j, i, k) PROVE j > e /\ j <= t
    OBVIOUS
  <2>1. j \in e + 1 .. t
    BY DEF TablePlace
  <2> HIDE DEF e, t
  <2> QED BY <1>1, <2>1
<1>4. \A k : RecordPlace(db, j, k) => Records(db) # <<>>
  BY DEF RecordPlace
<1>5. op = "createEnum" => j <= e
  <2> SUFFICES ASSUME op = "createEnum" PROVE j <= e
    OBVIOUS
  <2>1. j \in 1 .. e
    BY <1>2 DEF KindOf, EnumAt, EnumPlace
  <2> HIDE DEF e
  <2> QED BY <1>1, <2>1
<1>6. op \in {"createTable", "createIndex"} => j > e /\ j <= t
  BY <1>2, <1>3 DEF KindOf, TableAt, IndexAt
<1>7. op = "insert" => IF dialect = "sqlite" THEN j > t + 2 /\ j < u ELSE j > e /\ j <= t
  BY <1>2, <1>3 DEF KindOf, RowsAt, RecordsAt
<1>8. op \in {"begin", "defer", "commit"} => dialect = "sqlite" /\ u > t + 2
  <2> SUFFICES ASSUME op \in {"begin", "defer", "commit"} PROVE dialect = "sqlite" /\ u > t + 2
    OBVIOUS
  <2>1. dialect = "sqlite" /\ j > t /\ j <= u
    <3>1. CASE op = "begin"
      <4>1. dialect = "sqlite" /\ j = t + 1 /\ j < u
        BY <1>2, <3>1 DEF KindOf, BeginAt
      <4> HIDE DEF op, e, t, u
      <4> QED BY <1>1, <4>1
    <3>2. CASE op = "defer"
      <4>1. dialect = "sqlite" /\ j = t + 2 /\ j < u
        BY <1>2, <3>2 DEF KindOf, DeferAt
      <4> HIDE DEF op, e, t, u
      <4> QED BY <1>1, <4>1
    <3>3. CASE op = "commit"
      <4>1. dialect = "sqlite" /\ j = u /\ j > t + 2
        BY <1>2, <3>3 DEF KindOf, CommitAt
      <4> HIDE DEF op, e, t, u
      <4> QED BY <1>1, <4>1
    <3> QED BY <3>1, <3>2, <3>3
  <2>2. Records(db) # <<>>
    <3>1. CASE Records(db) = <<>>
      <4>1. u = t
        BY <1>1, <3>1, EmptyList DEF RecordEnd
      <4> QED BY <1>1, <2>1, <4>1
    <3> QED BY <3>1
  <2> QED BY <2>1, <2>2, TransactionWhole
<1>9. op = "begin" => j = t + 1
  BY <1>2 DEF KindOf, BeginAt
<1>10. op = "defer" => j = t + 2
  BY <1>2 DEF KindOf, DeferAt
<1>11. op = "commit" => j = u
  BY <1>2 DEF KindOf, CommitAt
<1>12. op = "addFk" => dialect # "sqlite" /\ j > u
  BY <1>2 DEF KindOf, KeyAt, KeyPlace
<1> HIDE DEF op
<1>13. Region(db, j, op)
  BY <1>5, <1>6, <1>7, <1>8, <1>9, <1>10, <1>11, <1>12 DEF Region
<1> QED BY <1>13 DEF op

LEMMA ScriptOrderHolds ==
  ASSUME NEW db \in Schemas
  PROVE  ScriptOrder(db)
<1> SUFFICES ASSUME NEW i \in DOMAIN Script(db), NEW j \in DOMAIN Script(db), NEW a, NEW b,
                    a = Script(db)[i].op, b = Script(db)[j].op, Precedes(a, b)
             PROVE  i < j
  BY DEF ScriptOrder
<1> DEFINE e == EnumEnd(db)
           t == TableEnd(db)
           u == RecordEnd(db)
<1>1. e \in Nat /\ t \in Nat /\ u \in Nat /\ i \in Nat /\ j \in Nat /\ e <= t /\ t <= u
  BY Ends
<1>2. Region(db, i, a) /\ Region(db, j, b)
  BY Regions
<1>3. CASE a = "createEnum" /\ b = "createTable"
  <2>1. i <= e /\ j > e
    BY <1>2, <1>3 DEF Region
  <2> HIDE DEF e, t, u
  <2> QED BY <1>1, <2>1
<1>4. CASE a \in Defining /\ (b \in {"begin", "defer", "commit", "addFk"} \/ (b = "insert" /\ dialect = "sqlite"))
  <2>1. i <= e \/ i <= t
    BY <1>2, <1>4 DEF Region, Defining
  <2>2. j = t + 1 \/ j = t + 2 \/ (j = u /\ u > t + 2) \/ j > u \/ j > t + 2
    BY <1>2, <1>4 DEF Region
  <2> HIDE DEF e, t, u
  <2> QED BY <1>1, <2>1, <2>2
<1>5. CASE a = "begin" /\ b \in {"defer", "insert", "commit"}
  <2>1. i = t + 1 /\ u > t + 2 /\ (j = t + 2 \/ j > t + 2 \/ j = u)
    BY <1>2, <1>5 DEF Region
  <2> HIDE DEF e, t, u
  <2> QED BY <1>1, <2>1
<1>6. CASE a = "defer" /\ b \in {"insert", "commit"}
  <2>1. i = t + 2 /\ u > t + 2 /\ (j > t + 2 \/ j = u)
    BY <1>2, <1>6 DEF Region
  <2> HIDE DEF e, t, u
  <2> QED BY <1>1, <2>1
<1>7. CASE a = "insert" /\ b \in {"commit", "addFk"}
  <2>1. (i < u /\ j = u) \/ (i <= t /\ j > u)
    BY <1>2, <1>7 DEF Region
  <2> HIDE DEF e, t, u
  <2> QED BY <1>1, <2>1
<1> QED BY <1>3, <1>4, <1>5, <1>6, <1>7 DEF Precedes

LEMMA ScriptOnceHolds ==
  ASSUME NEW db \in Schemas, dialect \in Dialects
  PROVE  ScriptOnce(db)
<1> SUFFICES ASSUME NEW i \in DOMAIN Script(db), NEW j \in DOMAIN Script(db),
                    SameMade(Script(db)[i], Script(db)[j])
             PROVE  i = j
  BY DEF ScriptOnce
<1> DEFINE a == Script(db)[i]
           b == Script(db)[j]
<1>1. KindOf(db, i) /\ KindOf(db, j) /\ Region(db, i, a.op) /\ Region(db, j, b.op)
  BY KindByOp, Regions
<1>2. a.op = b.op /\ a.op \notin {"insert", "addFk"}
  BY DEF SameMade
<1>3. Distinct(db.tables) /\ Distinct(db.enums) /\ NamesApart(dialect, db)
  BY SoundLists DEF Sound
<1>4. CASE a.op = "createEnum"
  <2>1. /\ i \in DOMAIN db.enums /\ a = CreateEnum(db.enums[i])
        /\ j \in DOMAIN db.enums /\ b = CreateEnum(db.enums[j])
    BY <1>1, <1>2, <1>4 DEF KindOf, EnumAt, EnumPlace
  <2>2. a.what = db.enums[i] /\ b.what = db.enums[j]
    BY <2>1, StmtOps, Zenon
  <2>3. db.enums[i].name = db.enums[j].name
    BY <1>4, <2>2 DEF SameMade
  <2> QED BY <1>3, <2>1, <2>3 DEF Distinct
<1>5. CASE a.op = "createTable"
  <2>1. PICK x : TableAt(db, i, x)
    BY <1>1, <1>5 DEF KindOf
  <2>2. PICK y : TableAt(db, j, y)
    BY <1>1, <1>2, <1>5 DEF KindOf
  <2>3. a.on = db.tables[x].name /\ b.on = db.tables[y].name
    BY <2>1, <2>2, CreateTableOp DEF TableAt
  <2>4. x = y
    BY <1>3, <1>5, <2>1, <2>2, <2>3 DEF SameMade, Distinct, TableAt, TablePlace
  <2> QED BY <2>1, <2>2, <2>4 DEF TableAt, TablePlace
<1>6. CASE a.op = "createIndex"
  <2>1. PICK x, k : IndexAt(db, i, x, k)
    BY <1>1, <1>6 DEF KindOf
  <2>2. PICK y, l : IndexAt(db, j, y, l)
    BY <1>1, <1>2, <1>6 DEF KindOf
  <2>3. /\ a.on = db.tables[x].name /\ a.what = db.tables[x].indexes[k]
        /\ b.on = db.tables[y].name /\ b.what = db.tables[y].indexes[l]
    BY <2>1, <2>2, IndexOp DEF IndexAt
  <2>4. x = y
    BY <1>3, <1>6, <2>1, <2>2, <2>3 DEF SameMade, Distinct, IndexAt, TablePlace
  <2>5. Distinct(db.tables[x].indexes)
    BY <1>3, <2>1, SoundLists DEF NamesApart, IndexAt, TablePlace
  <2>6. k = l
    BY <1>6, <2>1, <2>2, <2>3, <2>4, <2>5 DEF SameMade, Distinct, IndexAt
  <2> QED BY <2>1, <2>2, <2>4, <2>6 DEF IndexAt, TablePlace
<1>7. CASE a.op \in {"begin", "defer", "commit"}
  BY <1>1, <1>2, <1>7 DEF Region
<1>8. a.op \in Defining \cup {"insert", "begin", "defer", "commit", "addFk"}
  BY <1>1 DEF KindOf
<1> QED BY <1>2, <1>4, <1>5, <1>6, <1>7, <1>8 DEF Defining

\* The CREATE TABLE of table i.
LEMMA TableStatement ==
  ASSUME NEW db \in Schemas, NEW i \in DOMAIN db.tables, NEW p, p = EnumEnd(db) + At(db)[i - 1] + 1
  PROVE  /\ p \in DOMAIN Script(db) /\ p <= TableEnd(db)
         /\ Script(db)[p] = CreateTable(db.tables[i], Full(db))
         /\ Script(db)[p].op = "createTable" /\ Script(db)[p].on = db.tables[i].name
<1>1. PartIs(TableParts(db)[i], db, db.tables[i]) /\ Len(db.tables[i].indexes) \in Nat
  BY TablePartsList, SoundLists, ListIs
<1>2. 1 \in DOMAIN TableParts(db)[i]
  <2> DEFINE part == TableParts(db)[i]
             n == Len(db.tables[i].indexes)
             l == Len(part)
  <2>1. DOMAIN part = 1 .. l /\ l \in Nat /\ l >= 1 + n /\ n \in Nat
    BY <1>1, ListIs DEF PartIs
  <2> HIDE DEF part, n, l
  <2> QED BY <2>1 DEF part
<1>3. p \in DOMAIN Script(db) /\ TablePlace(db, p, i, 1)
  BY <1>2, TablePlaces
<1>4. Script(db)[p] = CreateTable(db.tables[i], Full(db))
  BY <1>1, <1>3 DEF TablePlace, PartIs
<1>5. p \in EnumEnd(db) + 1 .. TableEnd(db)
  BY <1>3 DEF TablePlace
<1> QED BY <1>3, <1>4, <1>5, CreateTableOp

LEMMA ScriptNeedsHold ==
  ASSUME NEW db \in Schemas
  PROVE  ScriptNeeds(db)
<1> SUFFICES ASSUME NEW j \in DOMAIN Script(db), NEW st, st = Script(db)[j]
             PROVE  /\ st.op \in {"createIndex", "insert"} => TableEarlier(db, j, st.on)
                    /\ st.op = "insert" /\ dialect = "sqlite" => Earlier(db, j, "defer")
                    /\ st.op \in {"defer", "commit"} => Earlier(db, j, "begin")
                    /\ st.op = "begin" => \E i \in DOMAIN Script(db) : i > j /\ Script(db)[i].op = "commit"
  BY DEF ScriptNeeds
<1>1. KindOf(db, j) /\ Region(db, j, st.op)
  BY KindByOp, Regions
<1> DEFINE e == EnumEnd(db)
           t == TableEnd(db)
           u == RecordEnd(db)
<1>2. e \in Nat /\ t \in Nat /\ u \in Nat /\ j \in Nat \ {0} /\ e <= t /\ t <= u
      /\ DOMAIN Script(db) \subseteq Nat \ {0}
  BY Ends
<1>3. ASSUME NEW i, NEW k, TablePlace(db, j, i, k), st.on = db.tables[i].name
      PROVE  TableEarlier(db, j, st.on)
  <2> DEFINE at == At(db)[i - 1]
             p == e + at + 1
  <2>1. i \in DOMAIN db.tables /\ j = e + at + k /\ at \in Nat /\ k \in DOMAIN TableParts(db)[i]
    BY <1>3 DEF TablePlace
  <2>2. k \in Nat /\ k >= 1
    BY <2>1, TablePartsList, ListIs DEF PartIs
  <2>3. Script(db)[p].op = "createTable" /\ Script(db)[p].on = db.tables[i].name
    BY <2>1, TableStatement
  <2> HIDE DEF e, at
  <2>4. p \in 1 .. j
    BY <1>2, <2>1, <2>2
  <2> QED BY <1>3, <2>3, <2>4 DEF TableEarlier
<1>4. ASSUME st.op = "createIndex" PROVE TableEarlier(db, j, st.on)
  <2>1. PICK i, x : IndexAt(db, j, i, x)
    BY <1>1, <1>4 DEF KindOf
  <2>2. TablePlace(db, j, i, 1 + x) /\ st.on = db.tables[i].name
    BY <2>1, IndexOp DEF IndexAt
  <2> QED BY <1>3, <2>2
<1>5. ASSUME st.op = "insert", dialect # "sqlite" PROVE TableEarlier(db, j, st.on)
  <2>1. PICK i : RecordsAt(db, j, i)
    BY <1>1, <1>5 DEF KindOf
  <2> DEFINE n == Len(db.tables[i].indexes)
  <2>2. TablePlace(db, j, i, 2 + n) /\ st.on = db.tables[i].name
    BY <2>1, InsertOp DEF RecordsAt
  <2> QED BY <1>3, <2>2
<1>6. ASSUME st.op = "insert", dialect = "sqlite" PROVE TableEarlier(db, j, st.on)
  <2>1. RowsAt(db, j)
    BY <1>1, <1>6 DEF KindOf
  <2>2. PICK i \in DOMAIN db.tables : st.on = db.tables[i].name
    BY <2>1, InsertOp DEF RowsAt, ToSet
  <2> DEFINE p == e + At(db)[i - 1] + 1
  <2>3. p \in DOMAIN Script(db) /\ p <= t /\ Script(db)[p].op = "createTable" /\ Script(db)[p].on = st.on
    BY <2>2, TableStatement
  <2>4. j > t + 2
    BY <2>1 DEF RowsAt
  <2> HIDE DEF p, t, e, u
  <2>5. p \in 1 .. j
    BY <1>2, <2>3, <2>4
  <2> QED BY <2>3, <2>5 DEF TableEarlier
<1>7. ASSUME st.op \in {"begin", "defer", "commit"} \/ (st.op = "insert" /\ dialect = "sqlite")
      PROVE  /\ t + 1 \in DOMAIN Script(db) /\ Script(db)[t + 1].op = "begin"
             /\ t + 2 \in DOMAIN Script(db) /\ Script(db)[t + 2].op = "defer"
             /\ u \in DOMAIN Script(db) /\ Script(db)[u].op = "commit" /\ u > t + 2
  <2>1. u > t + 2 \/ (j > t + 2 /\ j < u)
    BY <1>1, <1>7 DEF Region
  <2>2. u # t
    <3> HIDE DEF t, u
    <3> QED BY <1>2, <2>1
  <2>3. CASE Records(db) = <<>>
    <3>1. u = t
      BY <1>2, <2>3, EmptyList DEF RecordEnd
    <3> QED BY <2>2, <3>1
  <2> QED BY <2>3, TransactionWhole
<1>8. ASSUME st.op = "insert", dialect = "sqlite" PROVE Earlier(db, j, "defer")
  <2>1. j > t + 2 /\ Script(db)[t + 2].op = "defer"
    BY <1>1, <1>7, <1>8 DEF Region
  <2> HIDE DEF t, u
  <2>2. t + 2 \in 1 .. j
    BY <1>2, <2>1
  <2> QED BY <2>1, <2>2 DEF Earlier
<1>9. ASSUME st.op \in {"defer", "commit"} PROVE Earlier(db, j, "begin")
  <2>1. (j = t + 2 \/ (j = u /\ u > t + 2)) /\ Script(db)[t + 1].op = "begin"
    BY <1>1, <1>7, <1>9 DEF Region
  <2> HIDE DEF t, u
  <2>2. t + 1 \in 1 .. j
    BY <1>2, <2>1
  <2> QED BY <2>1, <2>2 DEF Earlier
<1>10. ASSUME st.op = "begin" PROVE \E i \in DOMAIN Script(db) : i > j /\ Script(db)[i].op = "commit"
  <2>1. j = t + 1 /\ u \in DOMAIN Script(db) /\ Script(db)[u].op = "commit" /\ u > t + 2
    BY <1>1, <1>7, <1>10 DEF Region
  <2> HIDE DEF t, u
  <2>2. u > j
    BY <1>2, <2>1
  <2> QED BY <2>1, <2>2
<1> QED BY <1>4, <1>5, <1>6, <1>8, <1>9, <1>10

LEMMA ScriptHasShape ==
  ASSUME NEW db \in Schemas, dialect \in Dialects
  PROVE  ScriptShape(db)
BY ScriptParts, ScriptOpsHold, ScriptCompleteHolds, ScriptOnceHolds, ScriptOrderHolds, ScriptNeedsHold
   DEF ScriptShape

-----------------------------------------------------------------------------
(* One statement of the script and the database that it meets. *)

Reached(db, n, L) ==
  /\ db \in Schemas /\ dialect \in Dialects /\ n \in Nat /\ 1 .. n \subseteq DOMAIN Script(db)
  /\ LiveIs(dialect, Script(db), n, L, db)

Meets(db, n, L, st) ==
  Reached(db, n, L) /\ n + 1 \in DOMAIN Script(db) /\ st = Script(db)[n + 1]

LEMMA MeetsShape ==
  ASSUME NEW db, NEW n, NEW L, Reached(db, n, L)
  PROVE  ScriptShape(db) /\ Sound(db) /\ NamesApart(dialect, db)
<1>1. db \in Schemas /\ dialect \in Dialects
  BY DEF Reached
<1> QED BY <1>1, ScriptHasShape, SoundLists DEF Sound

LEMMA Before ==
  ASSUME NEW db, NEW n, NEW L, NEW st, Meets(db, n, L, st),
         NEW j \in DOMAIN Script(db), Precedes(Script(db)[j].op, st.op)
  PROVE  j \in 1 .. n
<1>1. n + 1 \in DOMAIN Script(db) /\ st = Script(db)[n + 1] /\ n \in Nat /\ ScriptOrder(db)
  BY MeetsShape DEF Meets, Reached, ScriptShape
<1>2. j < n + 1
  BY <1>1 DEF ScriptOrder
<1>3. j \in Nat \ {0}
  BY Ends DEF Meets, Reached
<1> QED BY <1>1, <1>2, <1>3

LEMMA NotAfter ==
  ASSUME NEW db, NEW n, NEW L, NEW st, Meets(db, n, L, st),
         NEW j \in 1 .. n
  PROVE  /\ j \in DOMAIN Script(db)
         /\ ~Precedes(st.op, Script(db)[j].op)
         /\ ~SameMade(Script(db)[j], st)
<1>1. /\ n + 1 \in DOMAIN Script(db) /\ st = Script(db)[n + 1] /\ n \in Nat /\ 1 .. n \subseteq DOMAIN Script(db)
      /\ ScriptOrder(db) /\ ScriptOnce(db)
  BY MeetsShape DEF Meets, Reached, ScriptShape
<1>2. ~(n + 1 < j) /\ j # n + 1 /\ j \in DOMAIN Script(db)
  BY <1>1
<1> QED BY <1>1, <1>2 DEF ScriptOrder, ScriptOnce

LEMMA RanNext ==
  ASSUME NEW W, NEW n \in Nat, NEW op
  PROVE  Ran(W, n + 1, op) = IF W[n + 1].op = op THEN Ran(W, n, op) \cup {n + 1} ELSE Ran(W, n, op)
<1>1. 1 .. n + 1 = (1 .. n) \cup {n + 1}
  OBVIOUS
<1> QED BY <1>1 DEF Ran

LEMMA RanOther ==
  ASSUME NEW db, NEW n, NEW L, NEW st, Meets(db, n, L, st), NEW op, st.op # op
  PROVE  Ran(Script(db), n + 1, op) = Ran(Script(db), n, op)
BY RanNext DEF Meets, Reached

LEMMA RanThis ==
  ASSUME NEW db, NEW n, NEW L, NEW st, Meets(db, n, L, st)
  PROVE  /\ Ran(Script(db), n + 1, st.op) = Ran(Script(db), n, st.op) \cup {n + 1}
         /\ \A j \in Ran(Script(db), n, st.op) : j \in 1 .. n /\ Script(db)[j].op = st.op
         /\ Script(db)[n + 1] = st
BY RanNext DEF Meets, Reached, Ran

LEMMA NamedIs ==
  ASSUME NEW s, Distinct(s), NEW x \in ToSet(s)
  PROVE  Named(s, x.name) = x
<1>1. \A y \in ToSet(s) : y.name = x.name => y = x
  BY DEF Distinct, ToSet
<1> QED BY <1>1, Zenon DEF Named

LEMMA SameTable ==
  ASSUME NEW db \in Schemas, NEW t \in ToSet(db.tables), NEW u \in ToSet(db.tables), t.name = u.name
  PROVE  t = u
<1>1. Distinct(db.tables)
  BY SoundLists DEF Sound
<1> QED BY <1>1 DEF Distinct, ToSet

LEMMA TableLists ==
  ASSUME NEW db \in Schemas, NEW t \in ToSet(db.tables)
  PROVE  /\ IsList(t.indexes) /\ IsList(t.cols) /\ Distinct(t.cols)
         /\ \A i \in DOMAIN t.cols : t.cols[i] \in Column
<1>1. PICK k \in DOMAIN db.tables : t = db.tables[k]
  BY DEF ToSet
<1>2. IsList(t.indexes) /\ IsList(t.cols) /\ Typed(db) /\ Distinct(t.cols)
  BY <1>1, SoundLists DEF Sound
<1> DEFINE T == {db.tables[j].records : j \in DOMAIN db.tables}
<1>3. db.tables \in Seq(TableWith(T)) /\ k \in 1 .. Len(db.tables)
  BY <1>1, <1>2, SoundLists, ListIs DEF Typed
<1> HIDE DEF T
<1>4. t \in TableWith(T)
  BY <1>1, <1>3, ElementOfSeq
<1>5. t.cols \in Seq(Column) /\ DOMAIN t.cols = 1 .. Len(t.cols)
  BY <1>2, <1>4, ListIs DEF TableWith
<1>6. \A i \in DOMAIN t.cols : t.cols[i] \in Column
  BY <1>5, ElementOfSeq
<1> QED BY <1>2, <1>6

LEMMA PkColumnsAre ==
  ASSUME NEW t, IsList(t.cols)
  PROVE  ToSet(PkColumns(t)) = {c.name : c \in {x \in ToSet(t.cols) : x.pk}}
<1> DEFINE ss == [i \in DOMAIN t.cols |-> When(t.cols[i].pk, t.cols[i].name)]
<1>1. PkColumns(t) = FlattenSeq(ss)
  BY DEF PkColumns, Each
<1>2. \A i \in DOMAIN t.cols : IsList(ss[i])
  BY WhenList
<1>3. DOMAIN ss = DOMAIN t.cols /\ ss = [i \in DOMAIN t.cols |-> ss[i]]
  OBVIOUS
<1>4. \A i \in DOMAIN t.cols : ss[i] = When(t.cols[i].pk, t.cols[i].name)
  OBVIOUS
<1> HIDE DEF ss
<1>5. ToSet(PkColumns(t)) = Elements(ss)
  BY <1>1, <1>2, <1>3, EachIsLists, FlattenElements
<1>6. ASSUME NEW y \in Elements(ss) PROVE y \in {c.name : c \in {x \in ToSet(t.cols) : x.pk}}
  <2>1. PICK i \in DOMAIN ss : \E k \in DOMAIN ss[i] : y = ss[i][k]
    BY <1>6 DEF Elements
  <2>2. t.cols[i].pk /\ y = t.cols[i].name
    BY <1>3, <1>4, <2>1, WhenList
  <2> QED BY <1>3, <2>2 DEF ToSet
<1>7. ASSUME NEW c \in ToSet(t.cols), c.pk PROVE c.name \in Elements(ss)
  <2>1. PICK i \in DOMAIN t.cols : c = t.cols[i]
    BY DEF ToSet
  <2>2. ss[i] = <<c.name>>
    BY <1>4, <1>7, <2>1 DEF When
  <2>3. 1 \in DOMAIN ss[i] /\ ss[i][1] = c.name
    BY <2>2
  <2> QED BY <1>3, <2>1, <2>3 DEF Elements
<1> QED BY <1>5, <1>6, <1>7

LEMMA PkColumnsSame ==
  ASSUME NEW t, NEW u, DOMAIN u.cols = DOMAIN t.cols,
         \A i \in DOMAIN t.cols : u.cols[i].name = t.cols[i].name /\ u.cols[i].pk = t.cols[i].pk
  PROVE  PkColumns(u) = PkColumns(t)
<1>1. [i \in DOMAIN u.cols |-> When(u.cols[i].pk, u.cols[i].name)]
      = [i \in DOMAIN t.cols |-> When(t.cols[i].pk, t.cols[i].name)]
  OBVIOUS
<1> QED BY <1>1 DEF PkColumns, Each

\* The indexes that have been made are indexes of their tables.
LEMMA IndexesRunWithin ==
  ASSUME NEW db, NEW n, NEW L, Reached(db, n, L), NEW t \in ToSet(db.tables)
  PROVE  IndexesRun(Script(db), n, t) \subseteq ToSet(t.indexes)
<1> SUFFICES ASSUME NEW j \in Ran(Script(db), n, "createIndex"), Script(db)[j].on = t.name
             PROVE  Script(db)[j].what \in ToSet(t.indexes)
  BY DEF IndexesRun
<1>1. db \in Schemas /\ j \in DOMAIN Script(db) /\ Script(db)[j].op = "createIndex"
  BY DEF Reached, Ran
<1>2. PICK i, x : IndexAt(db, j, i, x)
  BY <1>1, KindByOp DEF KindOf
<1>3. /\ db.tables[i] \in ToSet(db.tables) /\ Script(db)[j].on = db.tables[i].name
      /\ Script(db)[j].what = db.tables[i].indexes[x] /\ x \in DOMAIN db.tables[i].indexes
  BY <1>1, <1>2, IndexOp, SoundLists DEF IndexAt, TablePlace
<1>4. t = db.tables[i]
  BY <1>1, <1>3, SameTable
<1> QED BY <1>3, <1>4 DEF ToSet

\* Every table of the database is made of the one of its name.
LEMMA MadeOf ==
  ASSUME NEW db, NEW n, NEW L, Reached(db, n, L), NEW t \in ToSet(db.tables), HasTable(L, t.name)
  PROVE  TableOf(L, t.name) \in ToSet(L.tables) /\ Made(dialect, Script(db), n, TableOf(L, t.name), t)
<1>1. TablesMade(dialect, Script(db), n, L, db) /\ db \in Schemas
  BY DEF Reached, LiveIs
<1>2. PICK u \in ToSet(L.tables) : u.name = t.name
  BY DEF HasTable, Names, ToSet
<1>3. TableOf(L, t.name) = u
  BY <1>1, <1>2, NamedIs DEF TablesMade, TableOf
<1>4. PICK v \in ToSet(db.tables) : Made(dialect, Script(db), n, u, v)
  BY <1>1 DEF TablesMade
<1>5. v = t
  BY <1>1, <1>2, <1>4, SameTable DEF Made
<1> QED BY <1>3, <1>4, <1>5

\* The table that CREATE TABLE makes.
NewTable(L, st) ==
  Keyed(L, [name |-> st.on, key |-> "", indexes |-> <<>>, records |-> <<>>,
            cols |-> [i \in DOMAIN st.what.cols |-> Stored(st.what.cols[i])]],
        st.what.pk, st.what.key)

LEMMA ApplyIs ==
  ASSUME NEW L, NEW st
  PROVE  /\ st.op = "createEnum" => Apply(L, st) = [L EXCEPT !.enums = Append(@, st.what)]
         /\ st.op = "createTable" =>
              Apply(L, st) = [L EXCEPT !.tables = Append(@, NewTable(L, st)), !.fks = @ \o SetToSeq(st.what.fks)]
         /\ st.op = "createIndex" =>
              Apply(L, st) = SetTable(L, st.on, [TableOf(L, st.on) EXCEPT !.indexes = Append(@, st.what)])
         /\ st.op = "addFk" => Apply(L, st) = [L EXCEPT !.fks = Append(@, st.what)]
<1>1. ASSUME st.op = "createEnum" PROVE Apply(L, st) = [L EXCEPT !.enums = Append(@, st.what)]
  BY <1>1 DEF Apply
<1>2. ASSUME st.op = "createTable"
      PROVE  Apply(L, st) = [L EXCEPT !.tables = Append(@, NewTable(L, st)), !.fks = @ \o SetToSeq(st.what.fks)]
  BY <1>2 DEF Apply, NewTable
<1>3. ASSUME st.op = "createIndex"
      PROVE  Apply(L, st) = SetTable(L, st.on, [TableOf(L, st.on) EXCEPT !.indexes = Append(@, st.what)])
  BY <1>3 DEF Apply
<1>4. ASSUME st.op = "addFk" PROVE Apply(L, st) = [L EXCEPT !.fks = Append(@, st.what)]
  BY <1>4 DEF Apply
<1> QED BY <1>1, <1>2, <1>3, <1>4

LEMMA IndexesRunSame ==
  ASSUME NEW db, NEW n, NEW L, NEW st, Meets(db, n, L, st), NEW t, st.op # "createIndex" \/ st.on # t.name
  PROVE  IndexesRun(Script(db), n + 1, t) = IndexesRun(Script(db), n, t)
<1>1. CASE st.op # "createIndex"
  BY <1>1, RanOther DEF IndexesRun
<1>2. CASE st.op = "createIndex" /\ st.on # t.name
  BY <1>2, RanThis DEF IndexesRun
<1> QED BY <1>1, <1>2

LEMMA IndexesRunNext ==
  ASSUME NEW db, NEW n, NEW L, NEW st, Meets(db, n, L, st), NEW t, st.op = "createIndex", st.on = t.name
  PROVE  IndexesRun(Script(db), n + 1, t) = IndexesRun(Script(db), n, t) \cup {st.what}
BY RanThis DEF IndexesRun

LEMMA MadeSame ==
  ASSUME NEW d, NEW W, NEW m, NEW n, NEW u, NEW t, Made(d, W, n, u, t),
         IndexesRun(W, m, t) = IndexesRun(W, n, t)
  PROVE  Made(d, W, m, u, t)
BY DEF Made

LEMMA TablesSame ==
  ASSUME NEW db, NEW n, NEW L, NEW st, Meets(db, n, L, st), st.op \notin {"createTable", "createIndex"},
         NEW M, M.tables = L.tables
  PROVE  TablesMade(dialect, Script(db), n + 1, M, db)
<1>1. TablesMade(dialect, Script(db), n, L, db)
  BY DEF Meets, Reached, LiveIs
<1>2. Ran(Script(db), n + 1, "createTable") = Ran(Script(db), n, "createTable")
  BY RanOther
<1>3. \A u, t : Made(dialect, Script(db), n, u, t) => Made(dialect, Script(db), n + 1, u, t)
  BY IndexesRunSame, MadeSame
<1> QED BY <1>1, <1>2, <1>3 DEF TablesMade

LEMMA EnumsSame ==
  ASSUME NEW db, NEW n, NEW L, NEW st, Meets(db, n, L, st), st.op # "createEnum", NEW M, M.enums = L.enums
  PROVE  EnumsMade(Script(db), n + 1, M)
BY RanOther DEF Meets, Reached, LiveIs, EnumsMade

LEMMA KeysSame ==
  ASSUME NEW db, NEW n, NEW L, NEW st, Meets(db, n, L, st), st.op \notin {"createTable", "addFk"},
         NEW M, M.fks = L.fks
  PROVE  KeysMade(Script(db), n + 1, M)
BY RanOther DEF Meets, Reached, LiveIs, KeysMade

\* A statement that defines nothing leaves the database as it is.
LEMMA NothingDefined ==
  ASSUME NEW db, NEW n, NEW L, NEW st, Meets(db, n, L, st),
         st.op \notin {"createEnum", "createTable", "createIndex", "addFk"}
  PROVE  LiveIs(dialect, Script(db), n + 1, L, db)
BY TablesSame, EnumsSame, KeysSame DEF Meets, Reached, LiveIs

LEMMA AppendNames ==
  ASSUME NEW s, NEW x, IsList(s)
  PROVE  Names(Append(s, x)) = Names(s) \cup {x.name}
<1>1. ToSet(Append(s, x)) = ToSet(s) \cup {x}
  BY AppendElements
<1>2. \A t : Names(t) = {y.name : y \in ToSet(t)}
  BY DEF Names, ToSet
<1> QED BY <1>1, <1>2

-----------------------------------------------------------------------------
(* CREATE TYPE. *)

LEMMA CreateEnumStep ==
  ASSUME NEW db, NEW n, NEW L, NEW st, Meets(db, n, L, st), st.op = "createEnum"
  PROVE  Accepts(L, st) /\ LiveIs(dialect, Script(db), n + 1, Apply(L, st), db)
<1> DEFINE W == Script(db)
           M == [L EXCEPT !.enums = Append(@, st.what)]
<1>1. LiveIs(dialect, W, n, L, db) /\ n \in Nat
  BY DEF Meets, Reached
<1>2. st.what.name \notin Names(L.enums)
  <2> SUFFICES ASSUME NEW j \in Ran(W, n, "createEnum"), W[j].what.name = st.what.name PROVE FALSE
    BY <1>1 DEF LiveIs, EnumsMade
  <2>1. j \in 1 .. n /\ W[j].op = "createEnum"
    BY DEF Ran
  <2> QED BY <2>1, NotAfter DEF SameMade
<1>3. Accepts(L, st)
  <2>1. \A j \in 1 .. n : W[j].op # "createTable"
    BY NotAfter DEF Precedes
  <2>2. Names(L.tables) = {}
    BY <1>1, <2>1 DEF LiveIs, TablesMade, Ran
  <2> QED BY <1>2, <2>2 DEF Accepts
<1>4. Apply(L, st) = M
  BY ApplyIs
<1>5. DOMAIN M = DOMAIN L /\ M.enums = Append(L.enums, st.what) /\ M.tables = L.tables /\ M.fks = L.fks
  BY <1>1 DEF LiveIs
<1> HIDE DEF M
<1>6. EnumsMade(W, n + 1, M)
  <2>1. IsList(M.enums)
    BY <1>1, <1>5, AppendList DEF LiveIs, EnumsMade
  <2>2. Names(M.enums) = Names(L.enums) \cup {st.what.name}
    BY <1>1, <1>5, AppendNames DEF LiveIs, EnumsMade
  <2>3. Names(L.enums) = {W[j].what.name : j \in Ran(W, n, "createEnum")}
    BY <1>1 DEF LiveIs, EnumsMade
  <2>4. Ran(W, n + 1, "createEnum") = Ran(W, n, "createEnum") \cup {n + 1} /\ W[n + 1] = st
    BY RanThis
  <2> QED BY <2>1, <2>2, <2>3, <2>4 DEF EnumsMade
<1>7. LiveIs(dialect, W, n + 1, M, db)
  BY <1>1, <1>5, <1>6, TablesSame, KeysSame DEF LiveIs
<1> QED BY <1>3, <1>4, <1>7

-----------------------------------------------------------------------------
(* Names that are taken. *)

\* The names of keys and sequences that PostgreSQL has for a table of the database.
LEMMA KeyNamesWithin ==
  ASSUME NEW W, NEW n, NEW u, NEW t, Made("postgres", W, n, u, t)
  PROVE  KeyIndexes(u) \cup UniqueIndexes(u) \cup SequenceNames(u.name, u.cols) \subseteq KeyNames(t)
<1>1. ASSUME NEW y \in KeyIndexes(u) PROVE y \in KeyNames(t)
  <2>1. y = u.key /\ u.key # ""
    BY <1>1 DEF KeyIndexes
  <2> QED BY <2>1 DEF Made
<1>2. ASSUME NEW c \in ToSet(u.cols)
      PROVE  \E k \in ToSet(t.cols) : k.name = c.name /\ (c.unique => k.unique) /\ (c.inc => AutoIncrement(k))
  <2>1. PICK i \in DOMAIN u.cols : c = u.cols[i]
    BY DEF ToSet
  <2>2. /\ t.cols[i] \in ToSet(t.cols) /\ c.name = t.cols[i].name
        /\ c.unique => t.cols[i].unique
        /\ c.inc = AutoIncrement(t.cols[i])
    BY <2>1 DEF Made, ToSet
  <2> QED BY <2>2
<1>3. u.name = t.name
  BY DEF Made
<1>4. UniqueIndexes(u) \subseteq UniqueIndexes(t)
  BY <1>2, <1>3 DEF UniqueIndexes
<1>5. SequenceNames(u.name, u.cols) \subseteq SequencesOf(t)
  BY <1>2, <1>3 DEF SequenceNames, SequencesOf
<1> QED BY <1>1, <1>4, <1>5 DEF KeyNames

LEMMA IndexNamesWithin ==
  ASSUME NEW db, NEW n, NEW L, Reached(db, n, L), NEW u, NEW t \in ToSet(db.tables),
         Made(dialect, Script(db), n, u, t)
  PROVE  Names(u.indexes) \subseteq Names(t.indexes)
<1>1. ToSet(u.indexes) \subseteq ToSet(t.indexes)
  BY IndexesRunWithin DEF Made
<1>2. \A s : Names(s) = {y.name : y \in ToSet(s)}
  BY DEF Names, ToSet
<1> QED BY <1>1, <1>2

TakenBy(db, n, L, u, t, y) ==
  /\ u \in ToSet(L.tables) /\ t \in ToSet(db.tables) /\ Made(dialect, Script(db), n, u, t)
  /\ y \in OwnNames(dialect, t) \/ y \in Names(u.indexes)
  /\ y \in TakenNames(dialect, t)

\* A name that PostgreSQL has for a key or a sequence of a table that is made.
KeyTaken(db, L, t, y) == t \in ToSet(db.tables) /\ HasTable(L, t.name) /\ y \in KeyNames(t)

\* Outside MariaDB a name that is occupied is one that a table has taken, or one
\* that PostgreSQL has for it.
LEMMA OccupiedNames ==
  ASSUME NEW db, NEW n, NEW L, Reached(db, n, L), dialect # "mariadb", NEW on, NEW y \in Occupied(L, on)
  PROVE  \/ \E u, t : TakenBy(db, n, L, u, t, y)
         \/ dialect = "postgres" /\ \E t : KeyTaken(db, L, t, y)
<1>1. TablesMade(dialect, Script(db), n, L, db) /\ dialect \in {"postgres", "sqlite"}
  BY SqlDialectsAssumption DEF Reached, LiveIs
<1>2. ASSUME NEW u \in ToSet(L.tables), NEW t \in ToSet(db.tables), Made(dialect, Script(db), n, u, t),
             y \in OwnNames(dialect, t) \/ y \in Names(u.indexes)
      PROVE  TakenBy(db, n, L, u, t, y)
  BY <1>2, IndexNamesWithin DEF TakenBy, TakenNames
<1>3. PICK u \in ToSet(L.tables) :
             \/ y = u.name \/ y \in Names(u.indexes)
             \/ dialect = "postgres" /\ y \in KeyIndexes(u) \cup UniqueIndexes(u) \cup SequenceNames(u.name, u.cols)
  <2>1. \A s : Names(s) = {x.name : x \in ToSet(s)}
    BY DEF Names, ToSet
  <2>2. CASE dialect = "sqlite"
    BY <2>1, <2>2 DEF Occupied
  <2>3. CASE dialect = "postgres"
    BY <2>1, <2>3 DEF Occupied
  <2> QED BY <1>1, <2>2, <2>3
<1>4. PICK t \in ToSet(db.tables) : Made(dialect, Script(db), n, u, t)
  BY <1>1 DEF TablesMade
<1>5. CASE y = u.name
  <2>1. y \in OwnNames(dialect, t)
    BY <1>1, <1>4, <1>5 DEF OwnNames, Made
  <2> QED BY <1>2, <1>4, <2>1
<1>6. CASE y \in Names(u.indexes)
  BY <1>2, <1>4, <1>6
<1>7. CASE dialect = "postgres" /\ y \in KeyIndexes(u) \cup UniqueIndexes(u) \cup SequenceNames(u.name, u.cols)
  <2>1. y \in KeyNames(t)
    BY <1>4, <1>7, KeyNamesWithin
  <2>2. HasTable(L, t.name)
    BY <1>4 DEF HasTable, Names, ToSet, Made
  <2> QED BY <1>7, <2>1, <2>2 DEF KeyTaken
<1> QED BY <1>3, <1>5, <1>6, <1>7

LEMMA TakenApart ==
  ASSUME NEW db, NEW n, NEW L, Reached(db, n, L), dialect # "mariadb",
         NEW t \in ToSet(db.tables), NEW u \in ToSet(db.tables), NEW y,
         y \in TakenNames(dialect, t), y \in TakenNames(dialect, u)
  PROVE  t = u
<1>1. NamesApart(dialect, db) /\ db \in Schemas
  BY MeetsShape DEF Reached
<1>2. CASE t.name = u.name
  BY <1>1, <1>2, SameTable
<1>3. CASE t.name # u.name
  BY <1>1, <1>3 DEF NamesApart
<1> QED BY <1>2, <1>3

-----------------------------------------------------------------------------
(* CREATE INDEX. *)

\* The table that a statement is about has been created.
LEMMA TableThere ==
  ASSUME NEW db, NEW n, NEW L, NEW st, Meets(db, n, L, st), st.op \in {"createIndex", "insert"}
  PROVE  HasTable(L, st.on)
<1> DEFINE W == Script(db)
<1>1. TablesMade(dialect, W, n, L, db) /\ n \in Nat /\ st = W[n + 1] /\ n + 1 \in DOMAIN W
  BY DEF Meets, Reached, LiveIs
<1>2. TableEarlier(db, n + 1, st.on)
  BY <1>1, MeetsShape DEF Meets, ScriptShape, ScriptNeeds
<1>3. PICK i \in 1 .. n + 1 : W[i].op = "createTable" /\ W[i].on = st.on
  BY <1>2 DEF TableEarlier
<1>4. i # n + 1
  BY <1>1, <1>3
<1>5. i \in Ran(W, n, "createTable")
  BY <1>1, <1>3, <1>4 DEF Ran
<1> QED BY <1>1, <1>3, <1>5 DEF HasTable, TablesMade

LEMMA IndexStatement ==
  ASSUME NEW db, NEW n, NEW L, NEW st, Meets(db, n, L, st), st.op = "createIndex"
  PROVE  \E t \in ToSet(db.tables) : st.on = t.name /\ st.what \in ToSet(t.indexes)
<1>1. db \in Schemas /\ n + 1 \in DOMAIN Script(db) /\ st = Script(db)[n + 1]
  BY DEF Meets, Reached
<1>2. PICK i, x : IndexAt(db, n + 1, i, x)
  BY <1>1, KindByOp DEF KindOf
<1>3. /\ db.tables[i] \in ToSet(db.tables) /\ st.on = db.tables[i].name
      /\ st.what = db.tables[i].indexes[x] /\ x \in DOMAIN db.tables[i].indexes
  BY <1>1, <1>2, IndexOp, SoundLists DEF IndexAt, TablePlace
<1> QED BY <1>3 DEF ToSet

LEMMA CreateIndexAccepted ==
  ASSUME NEW n, NEW L, NEW st, Meets(schema, n, L, st), st.op = "createIndex"
  PROVE  Accepts(L, st) \/ KnownRefusal(st)
<1> DEFINE W == Script(schema)
<1>1. Reached(schema, n, L) /\ schema \in Schemas
  BY DEF Meets, Reached
<1>2. PICK t \in ToSet(schema.tables) : st.on = t.name /\ st.what \in ToSet(t.indexes)
  BY IndexStatement
<1> DEFINE u == TableOf(L, t.name)
<1>3. HasTable(L, t.name) /\ u \in ToSet(L.tables) /\ Made(dialect, W, n, u, t)
  BY <1>1, <1>2, TableThere, MadeOf
<1>4. HasColumns(L, st.on, st.what.keys)
  <2>1. ToSet(st.what.keys) \subseteq Names(t.cols)
    BY <1>1, <1>2, SoundLists DEF Sound
  <2>2. Names(t.cols) = Names(u.cols)
    BY <1>3 DEF Made, Names
  <2> QED BY <1>2, <1>3, <2>1, <2>2 DEF HasColumns
<1>5. NamesApart(dialect, schema)
  BY <1>1, MeetsShape
<1>6. st.what.name \in Names(t.indexes) /\ st.what.name \notin OwnNames(dialect, t)
  <2>1. st.what.name \in Names(t.indexes)
    BY <1>2 DEF Names, ToSet
  <2> QED BY <1>5, <2>1 DEF NamesApart
\* An index of the same name would be the same statement.
<1>7. st.what.name \notin Names(u.indexes)
  <2> SUFFICES ASSUME NEW x \in ToSet(u.indexes), x.name = st.what.name PROVE FALSE
    BY DEF Names, ToSet
  <2>1. x \in IndexesRun(W, n, t)
    BY <1>3 DEF Made
  <2>2. PICK j \in Ran(W, n, "createIndex") : W[j].on = t.name /\ x = W[j].what
    BY <2>1 DEF IndexesRun
  <2>3. j \in 1 .. n /\ W[j].op = "createIndex"
    BY <2>2 DEF Ran
  <2> QED BY <1>2, <2>2, <2>3, NotAfter DEF SameMade
<1>8. st.what.name \notin Occupied(L, st.on) \/ KnownRefusal(st)
  <2>1. CASE dialect = "mariadb"
    <3>1. ASSUME NEW c \in ToSet(u.cols), c.unique PROVE c.name \in OwnNames("mariadb", t)
      <4>1. PICK i \in DOMAIN u.cols : c = u.cols[i]
        BY DEF ToSet
      <4>2. t.cols[i] \in ToSet(t.cols) /\ t.cols[i].unique /\ ~t.cols[i].pk /\ c.name = t.cols[i].name
        BY <1>3, <3>1, <4>1 DEF Made, ToSet
      <4> QED BY <4>2 DEF OwnNames
    <3>2. Occupied(L, st.on) = Names(u.indexes) \cup {c.name : c \in {x \in ToSet(u.cols) : x.unique}}
      BY <1>2, <2>1 DEF Occupied
    <3> QED BY <1>6, <1>7, <2>1, <3>1, <3>2
  <2>2. CASE dialect # "mariadb"
    <3> SUFFICES ASSUME st.what.name \in Occupied(L, st.on) PROVE KnownRefusal(st)
      OBVIOUS
    <3>1. CASE \E v, x : TakenBy(schema, n, L, v, x, st.what.name)
      <4>1. PICK v, x : TakenBy(schema, n, L, v, x, st.what.name)
        BY <3>1
      <4>2. x = t
        BY <1>1, <1>6, <2>2, <4>1, TakenApart DEF TakenBy, TakenNames
      <4>3. v = u
        <5>1. v.name = t.name /\ Distinct(L.tables)
          BY <1>1, <4>1, <4>2 DEF TakenBy, Made, Reached, LiveIs, TablesMade
        <5>2. Named(L.tables, v.name) = v
          BY <4>1, <5>1, NamedIs DEF TakenBy
        <5> QED BY <5>1, <5>2 DEF TableOf
      <4> QED BY <1>6, <1>7, <4>1, <4>2, <4>3 DEF TakenBy
    <3>2. CASE dialect = "postgres" /\ \E x : KeyTaken(schema, L, x, st.what.name)
      <4>1. NameOfKey(st.what.name)
        BY <3>2 DEF KeyTaken, NameOfKey
      <4> QED BY <3>2, <4>1 DEF KnownRefusal
    <3> QED BY <1>1, <2>2, <3>1, <3>2, OccupiedNames
  <2> QED BY <2>1, <2>2
<1> QED BY <1>4, <1>8 DEF Accepts

\* M is L with another table of the same name.
TableSet(M, L, on, new) ==
  /\ DOMAIN M = DOMAIN L /\ M.enums = L.enums /\ M.fks = L.fks
  /\ IsList(M.tables) /\ Distinct(M.tables) /\ Names(M.tables) = Names(L.tables)
  /\ \A v \in ToSet(M.tables) : v = new \/ (v \in ToSet(L.tables) /\ v.name # on)

LEMMA SetTableIs ==
  ASSUME NEW L, DOMAIN L = {"enums", "tables", "fks", "normalized"}, IsList(L.tables), Distinct(L.tables),
         NEW on, NEW new, new.name = on, NEW M, M = SetTable(L, on, new)
  PROVE  TableSet(M, L, on, new)
<1> DEFINE old == L.tables
           tables == [i \in DOMAIN old |-> IF old[i].name = on THEN new ELSE old[i]]
<1>1. M = [L EXCEPT !.tables = tables]
  BY DEF SetTable
<1>2. DOMAIN M = DOMAIN L /\ M.enums = L.enums /\ M.fks = L.fks /\ M.tables = tables
  BY <1>1
<1>3. IsList(tables)
  <2>1. DOMAIN old = 1 .. Len(old) /\ Len(old) \in Nat
    BY ListIs
  <2>2. tables = [i \in 1 .. Len(old) |-> tables[i]]
    BY <2>1
  <2> HIDE DEF tables
  <2> QED BY <2>1, <2>2, MadeList
<1>4. DOMAIN tables = DOMAIN old /\ \A i \in DOMAIN old : tables[i].name = old[i].name
  OBVIOUS
<1>5. \A i \in DOMAIN tables : tables[i] = new \/ (tables[i] = old[i] /\ old[i].name # on)
  OBVIOUS
<1> HIDE DEF tables
<1>6. Distinct(tables) /\ Names(tables) = Names(old)
  BY <1>4 DEF Distinct, Names
<1>7. \A v \in ToSet(tables) : v = new \/ (v \in ToSet(old) /\ v.name # on)
  BY <1>4, <1>5 DEF ToSet
<1> QED BY <1>2, <1>3, <1>6, <1>7 DEF TableSet

LEMMA CreateIndexApplied ==
  ASSUME NEW db, NEW n, NEW L, NEW st, Meets(db, n, L, st), st.op = "createIndex"
  PROVE  LiveIs(dialect, Script(db), n + 1, Apply(L, st), db)
<1> DEFINE W == Script(db)
<1>1. Reached(db, n, L) /\ db \in Schemas /\ LiveIs(dialect, W, n, L, db)
  BY DEF Meets, Reached
<1>2. PICK t \in ToSet(db.tables) : st.on = t.name /\ st.what \in ToSet(t.indexes)
  BY IndexStatement
<1> DEFINE u == TableOf(L, t.name)
           new == [u EXCEPT !.indexes = Append(@, st.what)]
           M == Apply(L, st)
<1>3. u \in ToSet(L.tables) /\ Made(dialect, W, n, u, t)
  BY <1>1, <1>2, TableThere, MadeOf
<1>4. M = SetTable(L, st.on, new)
  <2>1. TableOf(L, st.on) = u
    BY <1>2
  <2>2. M = SetTable(L, st.on, [TableOf(L, st.on) EXCEPT !.indexes = Append(@, st.what)])
    BY ApplyIs, Zenon
  <2> QED BY <2>1, <2>2, Zenon
<1> HIDE DEF u
<1>5. /\ DOMAIN new = DOMAIN u /\ new.name = u.name /\ new.cols = u.cols /\ new.key = u.key
      /\ new.indexes = Append(u.indexes, st.what)
  BY <1>3 DEF Made
<1> HIDE DEF new, M
<1>6. Made(dialect, W, n + 1, new, t)
  <2>1. IsList(u.indexes) /\ ToSet(u.indexes) = IndexesRun(W, n, t)
    BY <1>3 DEF Made
  <2>2. IsList(new.indexes)
    BY <1>5, <2>1, AppendList
  <2>3. ToSet(new.indexes) = IndexesRun(W, n, t) \cup {st.what}
    BY <1>5, <2>1, AppendElements
  <2>4. IndexesRun(W, n + 1, t) = IndexesRun(W, n, t) \cup {st.what}
    BY <1>2, IndexesRunNext
  <2> QED BY <1>3, <1>5, <2>2, <2>3, <2>4 DEF Made
<1>7. new.name = st.on
  BY <1>2, <1>3, <1>5 DEF Made
<1>8. TableSet(M, L, st.on, new)
  <2>1. DOMAIN L = {"enums", "tables", "fks", "normalized"} /\ IsList(L.tables) /\ Distinct(L.tables)
    BY <1>1 DEF LiveIs, TablesMade
  <2> QED BY <1>4, <1>7, <2>1, SetTableIs
<1>9. ASSUME NEW v \in ToSet(M.tables) PROVE \E x \in ToSet(db.tables) : Made(dialect, W, n + 1, v, x)
  <2>1. CASE v = new
    BY <1>6, <2>1
  <2>2. CASE v \in ToSet(L.tables) /\ v.name # st.on
    <3>1. PICK x \in ToSet(db.tables) : Made(dialect, W, n, v, x)
      BY <1>1, <2>2 DEF LiveIs, TablesMade
    <3>2. IndexesRun(W, n + 1, x) = IndexesRun(W, n, x)
      <4>1. st.on # x.name
        BY <2>2, <3>1 DEF Made
      <4> QED BY <4>1, IndexesRunSame
    <3> QED BY <3>1, <3>2, MadeSame
  <2> QED BY <1>8, <2>1, <2>2 DEF TableSet
<1>10. TablesMade(dialect, W, n + 1, M, db)
  BY <1>1, <1>8, <1>9, RanOther DEF LiveIs, TablesMade, TableSet
<1>11. EnumsMade(W, n + 1, M) /\ KeysMade(W, n + 1, M)
  BY <1>8, EnumsSame, KeysSame DEF TableSet
<1> QED BY <1>1, <1>8, <1>10, <1>11 DEF LiveIs, M, TableSet

-----------------------------------------------------------------------------
(* CREATE TABLE. *)

BodyIs(b, t, db) ==
  /\ b.cols = [i \in DOMAIN t.cols |-> RenderColumn(t.cols[i], InlinePK(t), db)]
  /\ b.pk = PkColumns(t)
  /\ b.key = IF dialect = "mariadb" \/ InlinePK(t) THEN "" ELSE t.key
  /\ b.fks = IF dialect = "sqlite" THEN {fk \in ToSet(db.fks) : fk.child = t.name} ELSE {}

LEMMA TableBodyIs ==
  ASSUME NEW b, NEW t, NEW db, b = TableBody(t, db)
  PROVE  BodyIs(b, t, db)
<1> DEFINE cols == [i \in DOMAIN t.cols |-> RenderColumn(t.cols[i], InlinePK(t), db)]
           key  == IF dialect = "mariadb" \/ InlinePK(t) THEN "" ELSE t.key
           fks  == IF dialect = "sqlite" THEN {fk \in ToSet(db.fks) : fk.child = t.name} ELSE {}
<1>1. b = [cols |-> cols, pk |-> PkColumns(t), key |-> key, fks |-> fks]
  BY DEF TableBody
<1> HIDE DEF cols, key, fks
<1>2. b.cols = cols /\ b.pk = PkColumns(t) /\ b.key = key /\ b.fks = fks
  BY <1>1
<1> QED BY <1>2 DEF cols, key, fks, BodyIs

LEMMA TableKeys ==
  ASSUME NEW db \in Schemas, NEW j \in DOMAIN Script(db), Script(db)[j].op = "createTable"
  PROVE  \E t \in ToSet(db.tables) : Script(db)[j].on = t.name /\ BodyIs(Script(db)[j].what, t, Full(db))
<1>1. PICK i : TableAt(db, j, i)
  BY KindByOp DEF KindOf
<1>2. /\ db.tables[i] \in ToSet(db.tables) /\ Script(db)[j].on = db.tables[i].name
      /\ Script(db)[j].what = TableBody(db.tables[i], Full(db))
  BY <1>1, CreateTableOp, SoundLists DEF TableAt, TablePlace
<1> QED BY <1>2, TableBodyIs

LEMMA TableCreated ==
  ASSUME NEW db, NEW n, NEW L, NEW st, Meets(db, n, L, st), st.op = "createTable"
  PROVE  \E t \in ToSet(db.tables) : st.on = t.name /\ BodyIs(st.what, t, Full(db))
BY TableKeys DEF Meets, Reached

LEMMA TableNew ==
  ASSUME NEW db, NEW n, NEW L, NEW st, Meets(db, n, L, st), st.op = "createTable"
  PROVE  ~HasTable(L, st.on)
<1>1. TablesMade(dialect, Script(db), n, L, db)
  BY DEF Meets, Reached, LiveIs
<1> SUFFICES ASSUME NEW j \in Ran(Script(db), n, "createTable"), Script(db)[j].on = st.on PROVE FALSE
  BY <1>1 DEF HasTable, TablesMade
<1>2. j \in 1 .. n /\ Script(db)[j].op = "createTable"
  BY DEF Ran
<1> QED BY <1>2, NotAfter DEF SameMade

\* All the enums have been created when the first table is.
LEMMA EnumsThere ==
  ASSUME NEW db, NEW n, NEW L, NEW st, Meets(db, n, L, st), st.op = "createTable", dialect = "postgres"
  PROVE  Names(db.enums) \subseteq Names(L.enums)
<1> DEFINE W == Script(db)
<1>1. db \in Schemas /\ EnumsMade(W, n, L) /\ ScriptComplete(db)
  BY MeetsShape DEF Meets, Reached, LiveIs, ScriptShape
<1> SUFFICES ASSUME NEW e \in ToSet(db.enums) PROVE e.name \in Names(L.enums)
  BY DEF Names, ToSet
<1>2. CreateEnum(e) \in ToSet(W)
  BY <1>1 DEF ScriptComplete
<1>3. PICK j \in DOMAIN W : W[j] = CreateEnum(e)
  BY <1>2 DEF ToSet
<1>4. W[j].op = "createEnum" /\ W[j].what = e
  BY <1>3, StmtOps, Zenon
<1>5. Precedes(W[j].op, st.op)
  BY <1>4 DEF Precedes
<1>6. j \in 1 .. n
  BY <1>5, Before
<1> QED BY <1>1, <1>4, <1>6 DEF EnumsMade, Ran

LEMMA RenderIs ==
  ASSUME NEW c \in Column, NEW p, NEW db, NEW r, r = RenderColumn(c, p, db)
  PROVE  /\ DOMAIN r = {"name", "type", "notnull", "pk", "unique", "inc"}
         /\ r.name = c.name /\ r.pk = (c.pk /\ p) /\ r.unique = (c.unique /\ ~c.pk)
         /\ r.type = DeclaredType(c, p, db) /\ r.inc = AutoIncrement(c)
BY DEF RenderColumn, Column

\* A column as it is stored, in a key or not.
ColumnIs(k, c, p, K) ==
  /\ k.name = c.name /\ k.unique = (c.unique /\ ~c.pk) /\ k.pk = (c.name \in K \/ (c.pk /\ p))
  /\ k.inc = AutoIncrement(c)

LEMMA ColumnMade ==
  ASSUME NEW c \in Column, NEW p, NEW db, NEW K, NEW s, s = Stored(RenderColumn(c, p, db)),
         NEW k, k = IF s.name \in K THEN [s EXCEPT !.pk = TRUE, !.notnull = TRUE] ELSE s
  PROVE  ColumnIs(k, c, p, K)
<1> DEFINE r == RenderColumn(c, p, db)
<1>1. /\ DOMAIN r = {"name", "type", "notnull", "pk", "unique", "inc"}
      /\ r.name = c.name /\ r.pk = (c.pk /\ p) /\ r.unique = (c.unique /\ ~c.pk)
      /\ r.inc = AutoIncrement(c)
  BY RenderIs
<1> HIDE DEF r
<1>2. \E type : s = [r EXCEPT !.type = type]
  BY DEF Stored, r
<1>3. s.name = r.name /\ s.pk = r.pk /\ s.unique = r.unique /\ s.inc = r.inc /\ DOMAIN s = DOMAIN r
  BY <1>1, <1>2
<1>4. CASE s.name \in K
  BY <1>1, <1>3, <1>4 DEF ColumnIs
<1>5. CASE s.name \notin K
  BY <1>1, <1>3, <1>5 DEF ColumnIs
<1> QED BY <1>4, <1>5

\* The enums of the database are some of the schema.
LEMMA EnumsWithin ==
  ASSUME NEW db, NEW n, NEW L, Reached(db, n, L)
  PROVE  Names(L.enums) \subseteq Names(db.enums)
<1> SUFFICES ASSUME NEW j \in Ran(Script(db), n, "createEnum")
             PROVE  Script(db)[j].what.name \in Names(db.enums)
  BY DEF Reached, LiveIs, EnumsMade
<1>1. db \in Schemas /\ j \in DOMAIN Script(db) /\ Script(db)[j].op = "createEnum"
  BY DEF Reached, Ran
<1>2. EnumPlace(db, j)
  BY <1>1, KindByOp DEF KindOf, EnumAt
<1>3. j \in DOMAIN db.enums /\ Script(db)[j].what = db.enums[j]
  <2>1. j \in DOMAIN db.enums /\ Script(db)[j] = CreateEnum(db.enums[j])
    BY <1>2 DEF EnumPlace
  <2>2. CreateEnum(db.enums[j]).what = db.enums[j]
    BY DEF CreateEnum, Stmt
  <2> QED BY <2>1, <2>2
<1> QED BY <1>3 DEF Names

\* The columns of a CREATE TABLE are those of its table, as they are written.
LEMMA BodyColumns ==
  ASSUME NEW db \in Schemas, NEW t \in ToSet(db.tables), NEW b, BodyIs(b, t, Full(db)),
         NEW c \in ToSet(b.cols)
  PROVE  \E k \in ToSet(t.cols) :
           /\ k \in Column
           /\ c.name = k.name /\ c.unique = (k.unique /\ ~k.pk) /\ c.inc = AutoIncrement(k)
           /\ c.type = DeclaredType(k, InlinePK(t), Full(db))
<1>1. DOMAIN b.cols = DOMAIN t.cols
      /\ \A i \in DOMAIN t.cols : b.cols[i] = RenderColumn(t.cols[i], InlinePK(t), Full(db))
  BY DEF BodyIs
<1>2. PICK i \in DOMAIN t.cols : c = RenderColumn(t.cols[i], InlinePK(t), Full(db))
  BY <1>1 DEF ToSet
<1> DEFINE k == t.cols[i]
<1>3. k \in Column /\ k \in ToSet(t.cols)
  BY TableLists DEF ToSet
<1> HIDE DEF k
<1>4. /\ c.name = k.name /\ c.unique = (k.unique /\ ~k.pk) /\ c.inc = AutoIncrement(k)
      /\ c.type = DeclaredType(k, InlinePK(t), Full(db))
  BY <1>2, <1>3, RenderIs DEF k
<1> QED BY <1>3, <1>4

LEMMA EnumTypesKnown ==
  ASSUME NEW db, NEW n, NEW L, NEW st, Meets(db, n, L, st), st.op = "createTable"
  PROVE  \A c \in ToSet(st.what.cols) : EnumKnown(L, c.type)
<1>1. db \in Schemas
  BY DEF Meets, Reached
<1>2. PICK t \in ToSet(db.tables) : st.on = t.name /\ BodyIs(st.what, t, Full(db))
  BY TableCreated
<1> SUFFICES ASSUME NEW c \in ToSet(st.what.cols), dialect = "postgres", c.type[1] = "enum"
             PROVE  c.type[2] \in Names(L.enums)
  BY DEF EnumKnown
<1>3. PICK k \in ToSet(t.cols) : c.type = DeclaredType(k, InlinePK(t), Full(db))
  BY <1>1, <1>2, BodyColumns
<1>4. c.type = k.type
  <2>1. MapType(k.type, Full(db)) = k.type
    BY DEF MapType
  <2>2. \/ c.type = <<"bigserial">> \/ c.type = <<"serial">>
        \/ c.type = MapType(k.type, Full(db))
    BY <1>3 DEF DeclaredType
  <2> QED BY <2>1, <2>2
<1>5. k.type[2] \in Names(db.enums)
  <2>1. Sound(db)
    BY <1>1, SoundLists
  <2>2. \A x \in ToSet(t.cols) : x.type[1] = "enum" => x.type[2] \in Names(db.enums)
    BY <2>1 DEF Sound
  <2> QED BY <1>4, <2>2
<1> QED BY <1>4, <1>5, EnumsThere

LEMMA CreateTableAccepted ==
  ASSUME NEW n, NEW L, NEW st, Meets(schema, n, L, st), st.op = "createTable"
  PROVE  Accepts(L, st) \/ KnownRefusal(st)
<1>1. /\ Reached(schema, n, L) /\ schema \in Schemas /\ dialect \in {"postgres", "mariadb", "sqlite"}
      /\ \A c \in ToSet(st.what.cols) : EnumKnown(L, c.type)
  BY SqlDialectsAssumption, EnumTypesKnown DEF Meets, Reached
<1>2. PICK t \in ToSet(schema.tables) : st.on = t.name /\ BodyIs(st.what, t, Full(schema))
  BY TableCreated
<1>3. ~HasTable(L, st.on) /\ TableOf(schema, st.on) = t
  <2>1. Distinct(schema.tables)
    BY <1>1, SoundLists DEF Sound
  <2> QED BY <1>2, <2>1, TableNew, NamedIs DEF TableOf
\* What has a name that is occupied is another table,
<1>4. ASSUME NEW u, NEW x, NEW y, TakenBy(schema, n, L, u, x, y) PROVE HasTable(L, x.name) /\ x.name # t.name
  <2>1. HasTable(L, x.name)
    BY <1>4 DEF TakenBy, Made, HasTable, Names, ToSet
  <2> QED BY <1>2, <1>3, <2>1
\* and nothing of it is named like this one.
<1>5. ASSUME dialect # "mariadb", NEW u, NEW x, TakenBy(schema, n, L, u, x, st.on) PROVE FALSE
  <2>1. st.on \in TakenNames(dialect, t)
    BY <1>1, <1>2, <1>5 DEF TakenNames, OwnNames
  <2>2. x \in ToSet(schema.tables) /\ st.on \in TakenNames(dialect, x)
    BY <1>5 DEF TakenBy
  <2>3. x = t
    BY <1>1, <1>5, <2>1, <2>2, TakenApart
  <2> QED BY <1>4, <1>5, <2>3
<1>6. CASE dialect = "sqlite"
  <2>1. st.on \notin Occupied(L, st.on)
    BY <1>1, <1>5, <1>6, OccupiedNames
  <2>2. IncrementFits(st.what.cols, st.what.pk)
    BY <1>6 DEF IncrementFits
  <2> QED BY <1>1, <1>6, <2>1, <2>2 DEF Accepts
<1>7. CASE dialect = "mariadb"
  <2>1. ASSUME ~FreeIncrement(t) PROVE IncrementFits(st.what.cols, st.what.pk)
    <3> SUFFICES ASSUME NEW c \in ToSet(st.what.cols), c.inc
                 PROVE  /\ c.unique \/ (st.what.pk # <<>> /\ st.what.pk[1] = c.name)
                        /\ \A e \in ToSet(st.what.cols) : e.inc => e.name = c.name
      BY DEF IncrementFits
    <3>1. st.what.pk = PkColumns(t)
      BY <1>2 DEF BodyIs
    <3>2. PICK k \in ToSet(t.cols) :
            c.name = k.name /\ c.unique = (k.unique /\ ~k.pk) /\ c.inc = AutoIncrement(k)
      BY <1>1, <1>2, BodyColumns
    <3>3. \A e \in ToSet(st.what.cols) : e.inc =>
            \E i \in ToSet(t.cols) : e.name = i.name /\ AutoIncrement(i)
      BY <1>1, <1>2, BodyColumns
    <3> QED BY <2>1, <3>1, <3>2, <3>3 DEF FreeIncrement
  <2>2. KnownRefusal(st) <=> FreeIncrement(t)
    BY <1>3, <1>7 DEF KnownRefusal
  <2> QED BY <1>1, <1>3, <1>7, <2>1, <2>2 DEF Accepts
<1>8. CASE dialect = "postgres"
  <2> DEFINE key == st.what.key
  <2>1. KnownRefusal(st) <=> NameOfKey(st.on) \/ st.on \in Names(schema.enums) \/ KeyNamedTwice(st.on, t.key)
    BY <1>3, <1>8 DEF KnownRefusal
  <2>2. st.on \in Occupied(L, st.on) => NameOfKey(st.on)
    <3> SUFFICES ASSUME st.on \in Occupied(L, st.on) PROVE NameOfKey(st.on)
      OBVIOUS
    <3>1. PICK x : KeyTaken(schema, L, x, st.on)
      BY <1>1, <1>5, <1>8, OccupiedNames
    <3> QED BY <3>1 DEF KeyTaken, NameOfKey
  <2>3. Names(L.enums) \subseteq Names(schema.enums)
    BY <1>1, EnumsWithin
  <2>4. ASSUME key # "", key \in Occupied(L, st.on) \cup {st.on} \cup SequenceNames(st.on, st.what.cols)
        PROVE  KeyNamedTwice(st.on, t.key)
    <3>1. key = t.key
      BY <1>2, <2>4 DEF BodyIs
    <3>2. ASSUME NEW x \in ToSet(schema.tables),
                 \/ key = x.name
                 \/ x = t /\ key \in SequencesOf(t)
                 \/ x.name # t.name /\ key \in Names(x.indexes) \cup KeyNames(x)
          PROVE  KeyNamedTwice(st.on, t.key)
      BY <1>2, <2>4, <3>1, <3>2 DEF KeyNamedTwice
    <3>3. CASE key = st.on
      BY <1>2, <3>2, <3>3
    <3>4. CASE key \in SequenceNames(st.on, st.what.cols)
      <4>1. PICK c \in ToSet(st.what.cols) : c.inc /\ key = st.on \o "_" \o c.name \o "_seq"
        BY <3>4 DEF SequenceNames
      <4>2. PICK k \in ToSet(t.cols) : c.name = k.name /\ c.inc = AutoIncrement(k)
        BY <1>1, <1>2, BodyColumns
      <4>3. key \in SequencesOf(t)
        BY <1>2, <4>1, <4>2 DEF SequencesOf
      <4> QED BY <3>2, <4>3
    <3>5. CASE \E u, x : TakenBy(schema, n, L, u, x, key)
      <4>1. PICK u, x : TakenBy(schema, n, L, u, x, key)
        BY <3>5
      <4>2. x \in ToSet(schema.tables) /\ x.name # t.name /\ (key = x.name \/ key \in Names(x.indexes))
        BY <1>4, <1>8, <4>1 DEF TakenBy, TakenNames, OwnNames
      <4> QED BY <3>2, <4>2
    <3>6. CASE \E x : KeyTaken(schema, L, x, key)
      <4>1. PICK x : KeyTaken(schema, L, x, key)
        BY <3>6
      <4>2. x.name # t.name /\ x \in ToSet(schema.tables) /\ key \in KeyNames(x)
        BY <1>2, <1>3, <4>1 DEF KeyTaken
      <4> QED BY <3>2, <4>2
    <3> HIDE DEF key
    <3>7. key \in Occupied(L, st.on) =>
            (\E u, x : TakenBy(schema, n, L, u, x, key)) \/ (\E x : KeyTaken(schema, L, x, key))
      BY <1>1, <1>8, OccupiedNames
    <3> QED BY <2>4, <3>3, <3>4, <3>5, <3>6, <3>7
  <2>5. IncrementFits(st.what.cols, st.what.pk)
    BY <1>8 DEF IncrementFits
  <2> QED BY <1>1, <1>8, <2>1, <2>2, <2>3, <2>4, <2>5 DEF Accepts
<1> QED BY <1>1, <1>6, <1>7, <1>8

LEMMA NewTableMade ==
  ASSUME NEW db, NEW n, NEW L, NEW st, Meets(db, n, L, st), st.op = "createTable",
         NEW t \in ToSet(db.tables), st.on = t.name, BodyIs(st.what, t, Full(db))
  PROVE  Made(dialect, Script(db), n + 1, NewTable(L, st), t)
<1> DEFINE W == Script(db)
           u == NewTable(L, st)
           K == ToSet(PkColumns(t))
           stored == [i \in DOMAIN t.cols |-> Stored(RenderColumn(t.cols[i], InlinePK(t), Full(db)))]
           new == [name |-> t.name, key |-> "", indexes |-> <<>>, records |-> <<>>, cols |-> stored]
<1>1. db \in Schemas /\ n \in Nat
  BY DEF Meets, Reached
<1>2. u = Keyed(L, new, PkColumns(t), st.what.key)
  <2>1. st.what.pk = PkColumns(t)
    BY DEF BodyIs
  <2>2. st.what.cols = [i \in DOMAIN t.cols |-> RenderColumn(t.cols[i], InlinePK(t), Full(db))]
    BY DEF BodyIs
  <2>3. [i \in DOMAIN st.what.cols |-> Stored(st.what.cols[i])] = stored
    BY <2>2
  <2> QED BY <2>1, <2>3, Zenon DEF NewTable
<1> HIDE DEF u
<1>3. /\ DOMAIN u = {"name", "key", "indexes", "records", "cols"} /\ u.name = t.name /\ u.indexes = <<>>
      /\ u.cols = [i \in DOMAIN stored |-> IF stored[i].name \in K
                     THEN [stored[i] EXCEPT !.pk = TRUE, !.notnull = TRUE] ELSE stored[i]]
  BY <1>2 DEF Keyed
<1>4. ASSUME NEW i \in DOMAIN t.cols
      PROVE  /\ u.cols[i].name = t.cols[i].name
             /\ u.cols[i].pk = t.cols[i].pk
             /\ u.cols[i].unique = (t.cols[i].unique /\ ~t.cols[i].pk)
             /\ u.cols[i].inc = AutoIncrement(t.cols[i])
  <2> DEFINE c == t.cols[i]
             s == stored[i]
             k == u.cols[i]
  <2>1. c \in Column /\ c \in ToSet(t.cols) /\ Distinct(t.cols) /\ IsList(t.cols)
    BY <1>1, TableLists DEF ToSet
  <2>2. s = Stored(RenderColumn(c, InlinePK(t), Full(db)))
    OBVIOUS
  <2>3. k = IF s.name \in K THEN [s EXCEPT !.pk = TRUE, !.notnull = TRUE] ELSE s
    BY <1>3
  <2> HIDE DEF c, s, k, K
  <2>4. ColumnIs(k, c, InlinePK(t), K)
    BY <2>1, <2>2, <2>3, ColumnMade
  <2>5. K = {x.name : x \in {y \in ToSet(t.cols) : y.pk}}
    BY <2>1, PkColumnsAre DEF K
  <2>6. \A x \in ToSet(t.cols) : x.name = c.name => x = c
    BY <2>1 DEF Distinct, ToSet
  <2>7. c.name \in K <=> c.pk
    BY <2>1, <2>5, <2>6
  <2>8. c.pk \in BOOLEAN
    BY <2>1 DEF Column
  <2>9. k.pk = c.pk
    BY <2>4, <2>7, <2>8 DEF ColumnIs
  <2> QED BY <2>4, <2>9 DEF c, k, ColumnIs
<1>5. DOMAIN u.cols = DOMAIN t.cols
  BY <1>3
<1>6. dialect = "postgres" => u.key = "" \/ u.key \in KeyNames(t)
  <2> HIDE DEF stored
  <2>1. dialect = "postgres" =>
          u.key = IF PkColumns(t) = <<>> THEN ""
                  ELSE IF st.what.key # "" THEN st.what.key
                  ELSE IF t.name \o "_pkey" \in Occupied(L, t.name) THEN t.name \o "_pkey1"
                  ELSE t.name \o "_pkey"
    BY <1>2 DEF Keyed
  <2>2. st.what.key # "" => st.what.key \in KeyNames(t)
    BY DEF BodyIs, KeyNames, KeyIndexes
  <2>3. t.name \o "_pkey" \in KeyNames(t) /\ t.name \o "_pkey1" \in KeyNames(t)
    BY DEF KeyNames
  <2> QED BY <2>1, <2>2, <2>3
<1>7. IndexesRun(W, n + 1, t) = {}
  <2> SUFFICES ASSUME NEW j \in Ran(W, n + 1, "createIndex"), W[j].on = t.name PROVE FALSE
    BY DEF IndexesRun
  <2>1. j \in Ran(W, n, "createIndex")
    BY RanOther
  <2>2. j \in 1 .. n /\ W[j].op = "createIndex" /\ j \in DOMAIN W
    BY <2>1, NotAfter DEF Ran
  <2>3. TableEarlier(db, j, t.name)
    BY <2>2, MeetsShape DEF Meets, ScriptShape, ScriptNeeds
  <2>4. PICK i \in 1 .. j : W[i].op = "createTable" /\ W[i].on = t.name
    BY <2>3 DEF TableEarlier
  <2>5. i \in 1 .. n
    BY <1>1, <2>2, <2>4
  <2> QED BY <2>4, <2>5, NotAfter DEF SameMade
<1>8. IsList(u.indexes) /\ ToSet(u.indexes) = {}
  BY <1>3, EmptyList DEF ToSet
<1>9. Made(dialect, W, n + 1, u, t)
  BY <1>3, <1>4, <1>5, <1>6, <1>7, <1>8 DEF Made
<1> QED BY <1>9 DEF u

\* The foreign keys of a statement are some of the schema.
LEMMA BodyKeys ==
  ASSUME NEW db \in Schemas, NEW b, NEW t, BodyIs(b, t, Full(db))
  PROVE  /\ b.fks \subseteq ToSet(ForeignKeys(db)) /\ IsFiniteSet(b.fks)
         /\ dialect # "sqlite" => b.fks = {}
         /\ dialect = "sqlite" => b.fks = {fk \in ToSet(ForeignKeys(db)) : fk.child = t.name}
<1>1. Full(db).fks = ForeignKeys(db)
  <2>1. "fks" \in DOMAIN db
    BY SoundLists DEF Sound, Typed
  <2> QED BY <2>1 DEF Full
<1>2. /\ dialect # "sqlite" => b.fks = {}
      /\ dialect = "sqlite" => b.fks = {fk \in ToSet(ForeignKeys(db)) : fk.child = t.name}
  BY <1>1 DEF BodyIs
<1>3. b.fks \subseteq ToSet(ForeignKeys(db))
  BY <1>2
<1>4. IsFiniteSet(ToSet(ForeignKeys(db)))
  BY ForeignKeysList, ListFinite
<1> QED BY <1>2, <1>3, <1>4, FS_Subset

LEMMA CreateTableApplied ==
  ASSUME NEW db, NEW n, NEW L, NEW st, Meets(db, n, L, st), st.op = "createTable"
  PROVE  LiveIs(dialect, Script(db), n + 1, Apply(L, st), db)
<1> DEFINE W == Script(db)
           new == NewTable(L, st)
           fks == SetToSeq(st.what.fks)
           M == Apply(L, st)
<1>1. Reached(db, n, L) /\ db \in Schemas /\ LiveIs(dialect, W, n, L, db)
  BY DEF Meets, Reached
<1>2. PICK t \in ToSet(db.tables) : st.on = t.name /\ BodyIs(st.what, t, Full(db))
  BY TableCreated
<1>3. Made(dialect, W, n + 1, new, t)
  BY <1>2, NewTableMade
<1>4. ~HasTable(L, t.name)
  BY <1>2, TableNew
<1>5. M = [L EXCEPT !.tables = Append(@, new), !.fks = @ \o fks]
  BY ApplyIs, Zenon
<1> HIDE DEF new, M
<1>6. IsList(fks) /\ ToSet(fks) = st.what.fks
  <2>1. IsFiniteSet(st.what.fks)
    BY <1>1, <1>2, BodyKeys
  <2> QED BY <2>1, SetToSeqIs
<1> HIDE DEF fks
<1>7. /\ DOMAIN M = DOMAIN L /\ M.enums = L.enums
      /\ M.tables = Append(L.tables, new) /\ M.fks = L.fks \o fks
  BY <1>1, <1>5 DEF LiveIs
<1>8. TablesMade(dialect, W, n + 1, M, db)
  <2>1. IsList(L.tables) /\ Distinct(L.tables) /\ Names(L.tables) = {W[j].on : j \in Ran(W, n, "createTable")}
    BY <1>1 DEF LiveIs, TablesMade
  <2>2. IsList(M.tables) /\ ToSet(M.tables) = ToSet(L.tables) \cup {new}
    BY <1>7, <2>1, AppendList, AppendElements
  <2>3. Distinct(M.tables)
    <3> DEFINE m == Len(L.tables)
    <3>1. m \in Nat /\ DOMAIN L.tables = 1 .. m
      BY <2>1, ListIs
    <3>2. \A i \in 1 .. m : M.tables[i] = L.tables[i]
      BY <1>7, <2>1, AppendList
    <3>3. M.tables[m + 1] = new /\ Len(M.tables) = m + 1
      BY <1>7, <2>1, AppendList
    <3>4. DOMAIN M.tables = 1 .. m + 1
      BY <2>2, <3>3, ListIs
    <3>5. \A i \in 1 .. m : L.tables[i].name # new.name
      BY <1>3, <1>4, <3>1 DEF HasTable, Names, Made
    <3> HIDE DEF m
    <3>6. ASSUME NEW i \in 1 .. m + 1, NEW j \in 1 .. m + 1, M.tables[i].name = M.tables[j].name PROVE i = j
      <4>1. (i \in 1 .. m \/ i = m + 1) /\ (j \in 1 .. m \/ j = m + 1)
        BY <3>1
      <4>2. CASE i \in 1 .. m /\ j \in 1 .. m
        BY <2>1, <3>1, <3>2, <3>6, <4>2 DEF Distinct
      <4>3. CASE i \in 1 .. m /\ j = m + 1
        BY <3>2, <3>3, <3>5, <3>6, <4>3
      <4>4. CASE i = m + 1 /\ j \in 1 .. m
        BY <3>2, <3>3, <3>5, <3>6, <4>4
      <4> QED BY <4>1, <4>2, <4>3, <4>4
    <3> QED BY <3>4, <3>6 DEF Distinct
  <2>4. Names(M.tables) = {W[j].on : j \in Ran(W, n + 1, "createTable")}
    <3>1. Names(M.tables) = Names(L.tables) \cup {t.name}
      <4>1. Names(Append(L.tables, new)) = Names(L.tables) \cup {new.name}
        BY <2>1, AppendNames
      <4>2. new.name = t.name
        BY <1>3 DEF Made
      <4> QED BY <1>7, <4>1, <4>2
    <3>2. Ran(W, n + 1, "createTable") = Ran(W, n, "createTable") \cup {n + 1} /\ W[n + 1].on = t.name
      BY <1>2, RanThis
    <3> QED BY <2>1, <3>1, <3>2
  <2>5. ASSUME NEW v \in ToSet(M.tables) PROVE \E x \in ToSet(db.tables) : Made(dialect, W, n + 1, v, x)
    <3>1. CASE v = new
      BY <1>3, <3>1
    <3>2. CASE v \in ToSet(L.tables)
      <4>1. PICK x \in ToSet(db.tables) : Made(dialect, W, n, v, x)
        BY <1>1, <3>2 DEF LiveIs, TablesMade
      <4> QED BY <4>1, IndexesRunSame, MadeSame
    <3> QED BY <2>2, <3>1, <3>2
  <2> QED BY <2>2, <2>3, <2>4, <2>5 DEF TablesMade
<1>9. KeysMade(W, n + 1, M)
  <2>1. /\ IsList(L.fks)
        /\ ToSet(L.fks) = {W[j].what : j \in Ran(W, n, "addFk")} \cup UNION {W[j].what.fks : j \in Ran(W, n, "createTable")}
    BY <1>1 DEF LiveIs, KeysMade
  <2>2. IsList(M.fks) /\ ToSet(M.fks) = ToSet(L.fks) \cup st.what.fks
    <3>1. IsList(L.fks) /\ IsList(fks) /\ M.fks = L.fks \o fks
      BY <1>6, <1>7, <2>1
    <3>2. IsList(M.fks) /\ ToSet(M.fks) = ToSet(L.fks) \cup ToSet(fks)
      BY <3>1, ConcatElements
    <3> QED BY <1>6, <3>2
  <2>3. Ran(W, n + 1, "createTable") = Ran(W, n, "createTable") \cup {n + 1} /\ W[n + 1] = st
    BY RanThis
  <2>4. Ran(W, n + 1, "addFk") = Ran(W, n, "addFk")
    BY RanOther
  <2> QED BY <2>1, <2>2, <2>3, <2>4 DEF KeysMade
<1>10. EnumsMade(W, n + 1, M)
  BY <1>7, EnumsSame
<1>11. LiveIs(dialect, W, n + 1, M, db)
  BY <1>1, <1>7, <1>8, <1>9, <1>10 DEF LiveIs
<1> QED BY <1>11 DEF M

-----------------------------------------------------------------------------
(* ALTER TABLE .. ADD FOREIGN KEY. *)

LEMMA KeyStatement ==
  ASSUME NEW db \in Schemas, NEW j \in DOMAIN Script(db), Script(db)[j].op = "addFk"
  PROVE  dialect # "sqlite" /\ Script(db)[j].what \in ToSet(ForeignKeys(db))
<1>1. PICK k : KeyAt(db, j, k)
  BY KindByOp DEF KindOf
<1>2. dialect # "sqlite" /\ k \in DOMAIN ForeignKeys(db) /\ Script(db)[j].what = ForeignKeys(db)[k]
  BY <1>1, StmtOps DEF KeyAt, KeyPlace
<1> QED BY <1>2 DEF ToSet

\* The foreign keys of the database, outside SQLite those of their statements.
LEMMA LiveKeys ==
  ASSUME NEW db, NEW n, NEW L, Reached(db, n, L)
  PROVE  /\ ToSet(L.fks) \subseteq ToSet(ForeignKeys(db))
         /\ dialect # "sqlite" => ToSet(L.fks) = {Script(db)[j].what : j \in Ran(Script(db), n, "addFk")}
<1> DEFINE W == Script(db)
<1>1. /\ db \in Schemas
      /\ ToSet(L.fks) = {W[j].what : j \in Ran(W, n, "addFk")} \cup UNION {W[j].what.fks : j \in Ran(W, n, "createTable")}
  BY DEF Reached, LiveIs, KeysMade
<1>2. ASSUME NEW j \in Ran(W, n, "addFk") PROVE W[j].what \in ToSet(ForeignKeys(db))
  <2>1. j \in DOMAIN W /\ W[j].op = "addFk"
    BY DEF Reached, Ran
  <2> QED BY <1>1, <2>1, KeyStatement
<1>3. ASSUME NEW j \in Ran(W, n, "createTable")
      PROVE  W[j].what.fks \subseteq ToSet(ForeignKeys(db)) /\ (dialect # "sqlite" => W[j].what.fks = {})
  <2>1. j \in DOMAIN W /\ W[j].op = "createTable"
    BY DEF Reached, Ran
  <2> QED BY <1>1, <2>1, TableKeys, BodyKeys
<1> QED BY <1>1, <1>2, <1>3

\* Where the tables have to be there, they are, with all their indexes.
LEMMA AllTablesThere ==
  ASSUME NEW db, NEW n, NEW L, NEW st, Meets(db, n, L, st),
         Precedes("createTable", st.op), Precedes("createIndex", st.op),
         NEW t \in ToSet(db.tables)
  PROVE  HasTable(L, t.name) /\ IndexesRun(Script(db), n, t) = ToSet(t.indexes)
<1> DEFINE W == Script(db)
<1>1. /\ Reached(db, n, L) /\ db \in Schemas /\ TablesMade(dialect, W, n, L, db)
      /\ ScriptComplete(db)
  BY MeetsShape DEF Meets, Reached, LiveIs, ScriptShape
<1>2. HasTable(L, t.name)
  <2>1. PICK j \in DOMAIN W : W[j] = CreateTable(t, Full(db))
    BY <1>1 DEF ScriptComplete, ToSet
  <2>2. W[j].op = "createTable" /\ W[j].on = t.name
    BY <2>1, CreateTableOp
  <2>3. j \in 1 .. n
    BY <2>2, Before
  <2> QED BY <1>1, <2>2, <2>3 DEF HasTable, TablesMade, Ran
<1>3. ASSUME NEW x \in ToSet(t.indexes) PROVE x \in IndexesRun(W, n, t)
  <2>1. PICK j \in DOMAIN W : W[j] = Stmt("createIndex", t.name, x)
    BY <1>1 DEF ScriptComplete, ToSet
  <2>2. W[j].op = "createIndex" /\ W[j].on = t.name /\ W[j].what = x
    BY <2>1, IndexOp
  <2>3. j \in 1 .. n
    BY <2>2, Before
  <2> QED BY <2>2, <2>3 DEF IndexesRun, Ran
<1> QED BY <1>1, <1>2, <1>3, IndexesRunWithin

\* The columns of a table that is made are those of the schema.
LEMMA ColumnsThere ==
  ASSUME NEW db, NEW n, NEW L, NEW st, Meets(db, n, L, st), st.op = "addFk", NEW t, NEW cols,
         HasColumns(db, t, cols)
  PROVE  HasColumns(L, t, cols)
<1>1. Reached(db, n, L) /\ db \in Schemas /\ Distinct(db.tables)
  BY SoundLists DEF Meets, Reached, Sound
<1>2. PICK x \in ToSet(db.tables) : x.name = t
  BY DEF HasColumns, HasTable, Names, ToSet
<1>3. TableOf(db, t) = x
  BY <1>1, <1>2, NamedIs DEF TableOf
<1>4. HasTable(L, t)
  BY <1>2, AllTablesThere DEF Precedes, Defining
<1>5. Made(dialect, Script(db), n, TableOf(L, t), x)
  BY <1>1, <1>2, <1>4, MadeOf
<1>6. Names(TableOf(L, t).cols) = Names(x.cols)
  BY <1>5 DEF Made, Names
<1> QED BY <1>3, <1>4, <1>6 DEF HasColumns

\* A key that a table is written with is one of the table that is made.
LEMMA KeyThere ==
  ASSUME NEW d, NEW W, NEW n, NEW u, NEW t, Made(d, W, n, u, t), IndexesRun(W, n, t) = ToSet(t.indexes),
         NEW cols, WrittenKey(t, cols)
  PROVE  IsKey(u, cols)
<1>1. CASE PkColumns(t) = cols
  <2>1. PkColumns(u) = PkColumns(t)
    BY PkColumnsSame DEF Made
  <2> QED BY <1>1, <2>1 DEF IsKey
<1>2. ASSUME NEW c \in ToSet(t.cols), cols = <<c.name>>, c.unique, ~c.pk PROVE IsKey(u, cols)
  <2>1. PICK i \in DOMAIN t.cols : c = t.cols[i]
    BY DEF ToSet
  <2>2. u.cols[i] \in ToSet(u.cols) /\ u.cols[i].name = c.name /\ u.cols[i].unique
    BY <1>2, <2>1 DEF Made, ToSet
  <2>3. Len(cols) = 1 /\ cols[1] = c.name
    BY <1>2
  <2> QED BY <2>2, <2>3 DEF IsKey
<1>3. ASSUME NEW x \in ToSet(t.indexes), x.unique, x.keys = cols PROVE IsKey(u, cols)
  <2>1. x \in ToSet(u.indexes)
    BY DEF Made
  <2> QED BY <1>3, <2>1 DEF IsKey
<1> QED BY <1>1, <1>2, <1>3 DEF WrittenKey

\* A ref leads to a key of the database, or to one that is not written.
LEMMA RefLeadsToKey ==
  ASSUME NEW n, NEW L, NEW st, Meets(schema, n, L, st),
         Precedes("createTable", st.op), Precedes("createIndex", st.op),
         NEW fk \in ToSet(ForeignKeys(schema))
  PROVE  HasTable(L, fk.parent) /\ (ToNoKey(fk) \/ IsKey(TableOf(L, fk.parent), fk.pcols))
<1>1. Reached(schema, n, L) /\ schema \in Schemas /\ Distinct(schema.tables) /\ HasTable(schema, fk.parent)
  BY MeetsShape DEF Meets, Reached, Sound, HasColumns
<1>2. PICK x \in ToSet(schema.tables) : x.name = fk.parent
  BY <1>1 DEF HasTable, Names, ToSet
<1>3. TableOf(schema, fk.parent) = x
  BY <1>1, <1>2, NamedIs DEF TableOf
<1>4. HasTable(L, x.name) /\ IndexesRun(Script(schema), n, x) = ToSet(x.indexes)
  BY <1>2, AllTablesThere
<1>5. Made(dialect, Script(schema), n, TableOf(L, x.name), x)
  BY <1>1, <1>4, MadeOf
<1>6. ToNoKey(fk) \/ WrittenKey(x, fk.pcols)
  BY <1>3 DEF ToNoKey
<1>7. WrittenKey(x, fk.pcols) => IsKey(TableOf(L, x.name), fk.pcols)
  BY <1>4, <1>5, KeyThere
<1> QED BY <1>2, <1>4, <1>6, <1>7

LEMMA AddFkAccepted ==
  ASSUME NEW n, NEW L, NEW st, Meets(schema, n, L, st), st.op = "addFk"
  PROVE  Accepts(L, st) \/ KnownRefusal(st)
<1> DEFINE W == Script(schema)
           fk == st.what
<1>1. Reached(schema, n, L) /\ schema \in Schemas /\ n + 1 \in DOMAIN W /\ st = W[n + 1] /\ n \in Nat
  BY DEF Meets, Reached
<1>2. dialect # "sqlite" /\ fk \in ToSet(ForeignKeys(schema))
  BY <1>1, KeyStatement
<1>3. HasColumns(schema, fk.child, fk.cols) /\ HasColumns(schema, fk.parent, fk.pcols)
  BY <1>1, <1>2, MeetsShape DEF Sound
<1> HIDE DEF fk
<1>4. HasColumns(L, fk.child, fk.cols) /\ HasColumns(L, fk.parent, fk.pcols)
  BY <1>3, ColumnsThere
<1>5. ToNoKey(fk) \/ IsKey(TableOf(L, fk.parent), fk.pcols)
  BY <1>2, RefLeadsToKey DEF Precedes, Defining
<1>6. ASSUME NEW f \in ToSet(L.fks), SameFk(f, fk) PROVE NamedTwice(fk)
  <2>1. PICK j \in Ran(W, n, "addFk") : f = W[j].what
    BY <1>1, <1>2, LiveKeys
  <2>2. j \in 1 .. n /\ j \in DOMAIN W /\ W[j].op = "addFk"
    BY <2>1, NotAfter DEF Ran
  <2>3. PICK k : KeyAt(schema, j, k)
    BY <1>1, <2>2, KindByOp DEF KindOf
  <2>4. PICK l : KeyAt(schema, n + 1, l)
    BY <1>1, KindByOp DEF KindOf
  <2>5. /\ k \in DOMAIN ForeignKeys(schema) /\ j = RecordEnd(schema) + k /\ f = ForeignKeys(schema)[k]
        /\ l \in DOMAIN ForeignKeys(schema) /\ n + 1 = RecordEnd(schema) + l /\ fk = ForeignKeys(schema)[l]
    BY <1>1, <2>1, <2>3, <2>4, StmtOps DEF KeyAt, KeyPlace, fk
  <2>6. k # l
    BY <1>1, <2>2, <2>5
  <2> QED BY <1>6, <2>5, <2>6 DEF NamedTwice
<1>7. KnownRefusal(st) <=> NamedTwice(fk) \/ ToNoKey(fk)
  BY <1>2 DEF KnownRefusal, fk
<1> QED BY <1>4, <1>5, <1>6, <1>7 DEF Accepts, fk

LEMMA AddFkApplied ==
  ASSUME NEW db, NEW n, NEW L, NEW st, Meets(db, n, L, st), st.op = "addFk"
  PROVE  LiveIs(dialect, Script(db), n + 1, Apply(L, st), db)
<1> DEFINE W == Script(db)
           M == [L EXCEPT !.fks = Append(@, st.what)]
<1>1. LiveIs(dialect, W, n, L, db)
  BY DEF Meets, Reached
<1>2. Apply(L, st) = M
  BY ApplyIs
<1>3. DOMAIN M = DOMAIN L /\ M.fks = Append(L.fks, st.what) /\ M.tables = L.tables /\ M.enums = L.enums
  BY <1>1 DEF LiveIs
<1> HIDE DEF M
<1>4. KeysMade(W, n + 1, M)
  <2>1. IsList(L.fks)
    BY <1>1 DEF LiveIs, KeysMade
  <2>2. IsList(M.fks) /\ ToSet(M.fks) = ToSet(L.fks) \cup {st.what}
    BY <1>3, <2>1, AppendList, AppendElements
  <2>3. Ran(W, n + 1, "addFk") = Ran(W, n, "addFk") \cup {n + 1} /\ W[n + 1] = st
    BY RanThis
  <2>4. Ran(W, n + 1, "createTable") = Ran(W, n, "createTable")
    BY RanOther
  <2>5. ToSet(L.fks) = {W[j].what : j \in Ran(W, n, "addFk")} \cup UNION {W[j].what.fks : j \in Ran(W, n, "createTable")}
    BY <1>1 DEF LiveIs, KeysMade
  <2> QED BY <2>2, <2>3, <2>4, <2>5 DEF KeysMade
<1>5. TablesMade(dialect, W, n + 1, M, db) /\ EnumsMade(W, n + 1, M)
  BY <1>3, TablesSame, EnumsSame
<1>6. LiveIs(dialect, W, n + 1, M, db)
  BY <1>1, <1>3, <1>4, <1>5 DEF LiveIs
<1> QED BY <1>2, <1>6

\* What a defining statement of the script does.
LEMMA DefineStep ==
  ASSUME NEW db, NEW n, NEW L, NEW st, Meets(db, n, L, st),
         st.op \in {"createEnum", "createTable", "createIndex", "addFk"}
  PROVE  LiveIs(dialect, Script(db), n + 1, Apply(L, st), db)
BY CreateEnumStep, CreateTableApplied, CreateIndexApplied, AddFkApplied

\* It is accepted, or refused for a known reason.
LEMMA DefineAccepted ==
  ASSUME NEW n, NEW L, NEW st, Meets(schema, n, L, st),
         st.op \in {"createEnum", "createTable", "createIndex", "addFk"}
  PROVE  Accepts(L, st) \/ KnownRefusal(st)
BY CreateEnumStep, CreateTableAccepted, CreateIndexAccepted, AddFkAccepted

-----------------------------------------------------------------------------
(* The records. *)

\* The records that come before a statement that all records come before.
LEMMA AllRun ==
  ASSUME NEW db \in Schemas, dialect \in Dialects, NEW n \in Nat,
         \A j \in DOMAIN Script(db) : Script(db)[j].op = "insert" => j \in 1 .. n,
         1 .. n \subseteq DOMAIN Script(db)
  PROVE  RowsRun(Script(db), n) = AllRowsOf(db)
<1> DEFINE W == Script(db)
<1>1. ScriptOps(db) /\ ScriptComplete(db)
  BY ScriptHasShape DEF ScriptShape
<1>2. ASSUME NEW j \in Ran(W, n, "insert")
      PROVE  \E t \in ToSet(db.tables) : W[j].on = t.name /\ W[j].what = t.records
  <2>1. j \in DOMAIN W /\ W[j].op = "insert"
    BY DEF Ran
  <2>2. KindOf(db, j)
    BY <2>1, KindByOp
  <2>3. CASE dialect = "sqlite"
    BY <2>1, <2>2, <2>3, InsertOp DEF KindOf, RowsAt
  <2>4. CASE dialect # "sqlite"
    <3>1. PICK i : RecordsAt(db, j, i)
      BY <2>1, <2>2, <2>4 DEF KindOf
    <3> QED BY <3>1, InsertOp, SoundLists DEF RecordsAt, TablePlace
  <2> QED BY <2>3, <2>4
<1>3. RowsRun(W, n) \subseteq AllRowsOf(db)
  <2> SUFFICES ASSUME NEW j \in Ran(W, n, "insert") PROVE TupleRows(W[j].on, W[j].what) \subseteq AllRowsOf(db)
    BY DEF RowsRun
  <2>1. PICK t \in ToSet(db.tables) : W[j].on = t.name /\ W[j].what = t.records
    BY <1>2
  <2> QED BY <2>1 DEF AllRowsOf
<1>4. ASSUME NEW t \in ToSet(db.tables) PROVE TupleRows(t.name, t.records) \subseteq RowsRun(W, n)
  <2>1. CASE t.records = <<>>
    <3>1. DOMAIN t.records = {}
      BY <2>1, EmptyList
    <3> QED BY <3>1 DEF TupleRows
  <2>2. CASE t.records # <<>>
    <3>1. PICK j \in DOMAIN W : W[j] = Stmt("insert", t.name, t.records)
      BY <1>1, <2>2 DEF ScriptComplete, ToSet
    <3>2. W[j].op = "insert" /\ W[j].on = t.name /\ W[j].what = t.records
      BY <3>1, InsertOp
    <3>3. j \in Ran(W, n, "insert")
      BY <3>2 DEF Ran
    <3> QED BY <3>2, <3>3 DEF RowsRun
  <2> QED BY <2>1, <2>2
<1> QED BY <1>3, <1>4 DEF AllRowsOf

\* Another statement inserts no rows.
LEMMA RowsStay ==
  ASSUME NEW db, NEW n, NEW L, NEW st, Meets(db, n, L, st), st.op # "insert"
  PROVE  RowsRun(Script(db), n + 1) = RowsRun(Script(db), n)
BY RanOther DEF RowsRun

LEMMA RowsNext ==
  ASSUME NEW db, NEW n, NEW L, NEW st, Meets(db, n, L, st)
  PROVE  RowsRun(Script(db), n + 1) =
           RowsRun(Script(db), n) \cup IF st.op = "insert" THEN TupleRows(st.on, st.what) ELSE {}
<1> DEFINE W == Script(db)
<1>1. CASE st.op = "insert"
  <2>1. Ran(W, n + 1, "insert") = Ran(W, n, "insert") \cup {n + 1} /\ W[n + 1] = st
    BY <1>1, RanThis
  <2> QED BY <1>1, <2>1 DEF RowsRun
<1>2. CASE st.op # "insert"
  BY <1>2, RowsStay
<1> QED BY <1>1, <1>2

\* Only SQLite has a transaction.
LEMMA NoTransaction ==
  ASSUME NEW db \in Schemas, dialect # "sqlite", NEW n, 1 .. n \subseteq DOMAIN Script(db)
  PROVE  ModeAfter(Script(db), n) = "auto"
<1>1. Ran(Script(db), n, "begin") = {}
  <2> SUFFICES ASSUME NEW j \in DOMAIN Script(db), Script(db)[j].op = "begin" PROVE FALSE
    BY DEF Ran
  <2> QED BY Regions DEF Region
<1> QED BY <1>1 DEF ModeAfter

\* The transaction at a statement that needs one.
LEMMA ModeMet ==
  ASSUME NEW db, NEW n, NEW L, NEW st, Meets(db, n, L, st), dialect = "sqlite",
         st.op \in {"insert", "begin", "defer", "commit"}
  PROVE  /\ Ran(Script(db), n, "commit") = {}
         /\ st.op = "begin" <=> Ran(Script(db), n, "begin") = {}
         /\ st.op \in {"begin", "defer"} => Ran(Script(db), n, "defer") = {}
         /\ st.op = "insert" => Ran(Script(db), n, "defer") # {}
<1> DEFINE W == Script(db)
<1>1. n \in Nat /\ n + 1 \in DOMAIN W /\ st = W[n + 1] /\ ScriptNeeds(db) /\ 1 .. n \subseteq DOMAIN W
  BY MeetsShape DEF Meets, Reached, ScriptShape
<1>2. ASSUME NEW op, Precedes(st.op, op) \/ (st.op = op /\ op # "insert" /\ op \notin Defining /\ op # "addFk")
      PROVE  Ran(W, n, op) = {}
  <2> SUFFICES ASSUME NEW j \in 1 .. n, W[j].op = op PROVE FALSE
    BY DEF Ran
  <2> QED BY <1>2, NotAfter DEF SameMade, Defining
<1>3. Ran(W, n, "commit") = {}
  BY <1>2 DEF Precedes, Defining
<1>4. st.op \in {"begin", "defer"} => Ran(W, n, "defer") = {}
  BY <1>2 DEF Precedes, Defining
<1>5. st.op = "begin" => Ran(W, n, "begin") = {}
  BY <1>2 DEF Precedes, Defining
<1>6. ASSUME NEW op, Earlier(db, n + 1, op), st.op # op PROVE \E i \in 1 .. n : W[i].op = op
  <2>1. PICK i \in 1 .. n + 1 : W[i].op = op
    BY <1>6 DEF Earlier
  <2>2. i # n + 1
    BY <1>1, <1>6, <2>1
  <2> QED BY <1>1, <2>1, <2>2
<1>7. ASSUME st.op = "insert" PROVE Ran(W, n, "defer") # {} /\ Ran(W, n, "begin") # {}
  <2>1. Earlier(db, n + 1, "defer")
    BY <1>1, <1>7 DEF ScriptNeeds
  <2>2. PICK i \in 1 .. n : W[i].op = "defer"
    BY <1>6, <1>7, <2>1
  <2>3. Earlier(db, i, "begin")
    BY <1>1, <2>2 DEF ScriptNeeds
  <2>4. PICK k \in 1 .. i : W[k].op = "begin"
    BY <2>3 DEF Earlier
  <2>5. k \in 1 .. n
    BY <1>1
  <2> QED BY <2>2, <2>4, <2>5 DEF Ran
<1>8. ASSUME st.op \in {"defer", "commit"} PROVE Ran(W, n, "begin") # {}
  <2>1. Earlier(db, n + 1, "begin")
    BY <1>1, <1>8 DEF ScriptNeeds
  <2> QED BY <1>6, <1>8, <2>1 DEF Ran
<1> QED BY <1>3, <1>4, <1>5, <1>7, <1>8

\* What a statement of the script does to the transaction.
LEMMA ModeNext ==
  ASSUME NEW db, NEW n, NEW L, NEW st, Meets(db, n, L, st)
  PROVE  /\ st.op \notin {"begin", "defer", "commit"} => ModeAfter(Script(db), n + 1) = ModeAfter(Script(db), n)
         /\ st.op = "begin" => ModeAfter(Script(db), n) = "auto" /\ ModeAfter(Script(db), n + 1) = "open"
         /\ st.op = "defer" => ModeAfter(Script(db), n) = "open" /\ ModeAfter(Script(db), n + 1) = "deferred"
         /\ st.op = "commit" => ModeAfter(Script(db), n) # "auto" /\ ModeAfter(Script(db), n + 1) = "auto"
         /\ st.op = "insert" /\ dialect = "sqlite" => ModeAfter(Script(db), n) = "deferred"
<1> DEFINE W == Script(db)
<1>1. CASE st.op \notin {"begin", "defer", "commit"}
  <2>1. \A op \in {"begin", "defer", "commit"} : Ran(W, n + 1, op) = Ran(W, n, op)
    BY <1>1, RanOther
  <2>2. st.op = "insert" /\ dialect = "sqlite" => ModeAfter(W, n) = "deferred"
    BY ModeMet DEF ModeAfter
  <2> QED BY <1>1, <2>1, <2>2 DEF ModeAfter
<1>2. CASE st.op \in {"begin", "defer", "commit"}
  <2>1. dialect = "sqlite"
    <3>1. db \in Schemas /\ n + 1 \in DOMAIN W /\ st = W[n + 1]
      BY DEF Meets, Reached
    <3> QED BY <1>2, <3>1, Regions DEF Region
  <2>2. /\ Ran(W, n, "commit") = {}
        /\ st.op = "begin" <=> Ran(W, n, "begin") = {}
        /\ st.op \in {"begin", "defer"} => Ran(W, n, "defer") = {}
    BY <1>2, <2>1, ModeMet
  <2>3. \A op \in {"begin", "defer", "commit"} :
          Ran(W, n + 1, op) = IF st.op = op THEN Ran(W, n, op) \cup {n + 1} ELSE Ran(W, n, op)
    <3> SUFFICES ASSUME NEW op
                 PROVE  Ran(W, n + 1, op) = IF st.op = op THEN Ran(W, n, op) \cup {n + 1} ELSE Ran(W, n, op)
      OBVIOUS
    <3>1. CASE st.op = op
      <4>1. Ran(W, n + 1, st.op) = Ran(W, n, st.op) \cup {n + 1}
        BY RanThis
      <4> QED BY <3>1, <4>1
    <3>2. CASE st.op # op
      BY <3>2, RanOther
    <3> QED BY <3>1, <3>2
  <2> QED BY <1>2, <2>2, <2>3 DEF ModeAfter
<1> QED BY <1>1, <1>2

\* A transaction is over when the script is.
LEMMA ModeAtEnd ==
  ASSUME NEW db \in Schemas, dialect \in Dialects, NEW n \in Nat, DOMAIN Script(db) = 1 .. n
  PROVE  ModeAfter(Script(db), n) = "auto"
<1> DEFINE W == Script(db)
<1> SUFFICES ASSUME NEW j \in Ran(W, n, "begin") PROVE Ran(W, n, "commit") # {}
  BY DEF ModeAfter
<1>1. \E i \in DOMAIN W : i > j /\ W[i].op = "commit"
  BY ScriptHasShape DEF ScriptShape, ScriptNeeds, Ran
<1> QED BY <1>1 DEF Ran

-----------------------------------------------------------------------------
(* The steps. *)

LEMMA WholeList ==
  ASSUME IInv
  PROVE  /\ IsList(Whole) /\ Len(Whole) \in Nat /\ DOMAIN Whole = 1 .. Len(Whole)
         /\ IsList(script) /\ Len(script) \in Nat /\ Len(script) <= Len(Whole)
         /\ Done \in 0 .. Len(Whole) /\ (script = <<>> => Done = Len(Whole))
<1>1. IsList(Whole)
  BY ScriptHasShape DEF IInv, ScriptShape, Whole
<1>2. IsList(script) /\ Len(script) <= Len(Whole)
  BY DEF IInv, Progress
<1>3. Len(Whole) \in Nat /\ DOMAIN Whole = 1 .. Len(Whole) /\ Len(script) \in Nat
  BY <1>1, <1>2, ListIs
<1>4. script = <<>> => Len(script) = 0
  BY EmptyList
<1>5. Done \in 0 .. Len(Whole) /\ (script = <<>> => Done = Len(Whole))
  <2> DEFINE w == Len(Whole)
             l == Len(script)
  <2>1. Done = w - l /\ w \in Nat /\ l \in Nat /\ l <= w
    BY <1>2, <1>3 DEF Done
  <2> HIDE DEF w, l
  <2>2. Done \in 0 .. w /\ (l = 0 => Done = w)
    BY <2>1
  <2> QED BY <1>4, <2>2 DEF w, l
<1> QED BY <1>1, <1>2, <1>3, <1>5

\* The statement that is next meets the database that those before it made.
LEMMA NextMeets ==
  ASSUME IInv
  PROVE  /\ Reached(schema, Done, live)
         /\ script # <<>> => Meets(schema, Done, live, Head(script)) /\ Done + 1 \in 1 .. Len(Whole)
<1>1. /\ Done \in 0 .. Len(Whole) /\ Len(Whole) \in Nat /\ DOMAIN Whole = 1 .. Len(Whole)
      /\ Len(script) \in Nat
  BY WholeList
<1>2. Reached(schema, Done, live)
  <2>1. Done \in Nat /\ 1 .. Done \subseteq DOMAIN Whole
    <3> HIDE DEF Done, Whole
    <3> QED BY <1>1
  <2> QED BY <2>1 DEF IInv, Reached, Whole
<1>3. ASSUME script # <<>> PROVE Meets(schema, Done, live, Head(script)) /\ Done + 1 \in 1 .. Len(Whole)
  <2>1. Len(script) >= 1 /\ Head(script) = script[1] /\ DOMAIN script = 1 .. Len(script)
    BY <1>3, TailList, ListIs DEF IInv, Progress
  <2>2. Head(script) = Whole[Done + 1]
    <3>1. 1 \in DOMAIN script
      BY <1>1, <2>1
    <3> QED BY <2>1, <3>1 DEF IInv, Progress
  <2>3. Done + 1 \in 1 .. Len(Whole)
    <3>1. Done = Len(Whole) - Len(script)
      BY DEF Done
    <3> HIDE DEF Done, Whole
    <3> QED BY <1>1, <2>1, <3>1
  <2>4. Done + 1 \in DOMAIN Whole
    BY <1>1, <2>3
  <2> QED BY <1>2, <2>2, <2>3, <2>4 DEF Meets, Whole
<1> QED BY <1>2, <1>3

\* The rows that are in when a statement comes that all records come before.
LEMMA RowsAllIn ==
  ASSUME IInv, status = "loading", script # <<>>, Precedes("insert", Head(script).op)
  PROVE  rows \cup pending = AllRows
<1>1. /\ Meets(schema, Done, live, Head(script)) /\ schema \in Schemas /\ dialect \in Dialects
      /\ rows \cup pending = RowsRun(Whole, Done)
  BY NextMeets DEF IInv, RowsIn
<1>2. \A j \in DOMAIN Script(schema) : Script(schema)[j].op = "insert" => j \in 1 .. Done
  BY <1>1, Before
<1>3. Done \in Nat /\ 1 .. Done \subseteq DOMAIN Script(schema)
  BY <1>1 DEF Meets, Reached
<1> HIDE DEF Done
<1>4. RowsRun(Script(schema), Done) = AllRowsOf(schema)
  BY <1>1, <1>2, <1>3, AllRun
<1> QED BY <1>1, <1>4 DEF Whole, AllRows

LEMMA InsertRunnable ==
  ASSUME IInv, status = "loading", script # <<>>, Head(script).op = "insert"
  PROVE  Runnable(Head(script)) \/ KnownRefusal(Head(script))
<1> DEFINE st == Head(script)
           n == Done
           Asked == ForeignKeysOf(live, st.on) \cup References(live, st.on)
<1>1. /\ Meets(schema, n, live, st) /\ Reached(schema, n, live) /\ mode = ModeAfter(Whole, n)
  BY NextMeets DEF IInv, RowsIn
<1>2. HasTable(live, st.on)
  BY <1>1, TableThere
<1>3. CASE dialect = "sqlite"
  <2>1. mode = "deferred"
    BY <1>1, <1>3, ModeNext DEF Whole
  <2>2. ASSUME NEW fk \in Asked
        PROVE  HasTable(live, fk.parent) /\ (KnownRefusal(st) \/ IsKey(TableOf(live, fk.parent), fk.pcols))
    <3>1. fk \in ToSet(ForeignKeys(schema)) /\ st.on \in {fk.child, fk.parent}
      BY <1>1, LiveKeys DEF ForeignKeysOf, References
    <3>2. Precedes("createTable", st.op) /\ Precedes("createIndex", st.op)
      BY <1>3 DEF Precedes, Defining
    <3>3. ToNoKey(fk) => KnownRefusal(st)
      BY <1>3, <3>1 DEF KnownRefusal
    <3> HIDE DEF st, n
    <3> QED BY <1>1, <3>1, <3>2, <3>3, RefLeadsToKey
  <2> QED BY <1>2, <2>1, <2>2 DEF Runnable
<1>4. CASE dialect # "sqlite"
  <2>1. ToSet(live.fks) = {}
    <3>1. ASSUME NEW j \in 1 .. n PROVE Script(schema)[j].op # "addFk"
      BY <1>1, NotAfter DEF Precedes
    <3>2. Ran(Script(schema), n, "addFk") = {}
      BY <3>1 DEF Ran
    <3> QED BY <1>1, <1>4, <3>2, LiveKeys
  <2> QED BY <1>2, <2>1 DEF Runnable, ForeignKeysOf, References, Consistent
<1> QED BY <1>3, <1>4

LEMMA CommitRunnable ==
  ASSUME IInv, status = "loading", script # <<>>, Head(script).op = "commit"
  PROVE  Runnable(Head(script))
<1>1. /\ Meets(schema, Done, live, Head(script)) /\ Reached(schema, Done, live)
      /\ mode = ModeAfter(Whole, Done)
  BY NextMeets DEF IInv, RowsIn
<1>2. mode # "auto"
  BY <1>1, ModeNext DEF Whole
<1>3. rows \cup pending = AllRows
  BY RowsAllIn DEF Precedes
<1>4. \A fk \in ToSet(live.fks) : Holds(fk, AllRowsOf(schema))
  BY <1>1, LiveKeys, MeetsShape DEF Sound
<1> QED BY <1>2, <1>3, <1>4 DEF Runnable, Consistent, AllRows

\* Outside SQLite every row is in at once.
LEMMA NothingWaits ==
  ASSUME IInv, status = "loading", dialect # "sqlite"
  PROVE  mode = "auto" /\ pending = {} /\ rows = RowsRun(Whole, Done)
<1>1. Reached(schema, Done, live)
  BY NextMeets
<1>2. ModeAfter(Whole, Done) = "auto"
  BY <1>1, NoTransaction DEF Reached, Whole
<1> QED BY <1>2 DEF IInv, RowsIn

LEMMA AddFkRunnable ==
  ASSUME IInv, status = "loading", script # <<>>, Head(script).op = "addFk"
  PROVE  Runnable(Head(script)) \/ KnownRefusal(Head(script))
<1> DEFINE st == Head(script)
<1>1. Meets(schema, Done, live, st) /\ Reached(schema, Done, live)
  BY NextMeets
<1>2. Accepts(live, st) \/ KnownRefusal(st)
  BY <1>1, AddFkAccepted
<1>3. dialect # "sqlite" /\ st.what \in ToSet(ForeignKeys(schema))
  BY <1>1, KeyStatement DEF Meets, Reached
<1>4. rows = AllRows
  BY <1>3, RowsAllIn, NothingWaits DEF Precedes
<1>5. Holds(st.what, AllRowsOf(schema))
  BY <1>1, <1>3, MeetsShape DEF Sound
<1> QED BY <1>2, <1>4, <1>5 DEF Runnable, AllRows

LEMMA Runs ==
  ASSUME IInv, status = "loading", script # <<>>
  PROVE  Runnable(Head(script)) \/ KnownRefusal(Head(script))
<1> DEFINE st == Head(script)
<1>1. Meets(schema, Done, live, st)
  BY NextMeets
<1>2. st.op \in Defining \cup {"insert", "begin", "defer", "commit", "addFk"}
  BY <1>1, KindByOp DEF KindOf, Meets, Reached
<1>3. CASE st.op \in Defining
  <2>1. Accepts(live, st) \/ KnownRefusal(st)
    BY <1>1, <1>3, DefineAccepted DEF Defining
  <2> QED BY <1>3, <2>1 DEF Runnable, Defining
<1>4. CASE st.op \in {"begin", "defer"}
  <2>1. Accepts(live, st)
    BY <1>4 DEF Accepts
  <2> QED BY <1>4, <2>1 DEF Runnable
<1> QED BY <1>2, <1>3, <1>4, InsertRunnable, CommitRunnable, AddFkRunnable

\* The script is the same throughout.
LEMMA WholeSame ==
  ASSUME UNCHANGED <<dialect, schema>>
  PROVE  Whole' = Whole
BY SMT DEF Whole, Script, Enums, Tables, Records, Constraints, Each, CreateTable, CreateIndexes, Insert,
   InlinePK, PkColumns, RenderColumn, DeclaredType, MapType, AutoIncrement, Serials, ForeignKeys, Stmt, When, CreateEnum

LEMMA Advance ==
  ASSUME IInv, script # <<>>, script' = Tail(script), UNCHANGED <<dialect, schema>>
  PROVE  Progress' /\ Done' = Done + 1 /\ Whole' = Whole
<1> DEFINE W == Whole
           w == Len(Whole)
           s == script
           l == Len(script)
           n == Done
<1>1. Whole' = W
  BY WholeSame
<1>2. /\ w \in Nat /\ l \in Nat /\ l <= w /\ l >= 1 /\ n = w - l /\ DOMAIN s = 1 .. l
      /\ IsList(Tail(s)) /\ Len(Tail(s)) = l - 1 /\ \A i \in 1 .. l - 1 : Tail(s)[i] = s[i + 1]
      /\ \A i \in DOMAIN s : s[i] = W[n + i]
  BY WholeList, TailList, ListIs DEF Done, IInv, Progress
<1>3. DOMAIN Tail(s) = 1 .. l - 1
  BY <1>2, ListIs
<1>4. Done' = Len(Whole') - Len(script')
  BY DEF Done
<1>5. Done' = w - (l - 1)
  BY <1>1, <1>2, <1>4
<1>6. Progress' <=> /\ IsList(script') /\ Len(script') <= Len(Whole')
                    /\ \A i \in DOMAIN script' : script'[i] = Whole'[Done' + i]
  BY DEF Progress
<1> HIDE DEF W, w, l, n
<1>7. Done' = n + 1
  BY <1>2, <1>5
<1>8. \A i \in 1 .. l - 1 : i + 1 \in DOMAIN s /\ s[i + 1] = W[n + 1 + i]
  <2> SUFFICES ASSUME NEW i \in 1 .. l - 1 PROVE i + 1 \in DOMAIN s /\ s[i + 1] = W[n + 1 + i]
    OBVIOUS
  <2>1. i + 1 \in DOMAIN s /\ n + (i + 1) = n + 1 + i
    BY <1>2
  <2> QED BY <1>2, <2>1
<1>9. \A i \in DOMAIN script' : script'[i] = Whole'[Done' + i]
  BY <1>1, <1>2, <1>3, <1>7, <1>8
<1>10. Len(script') <= Len(Whole')
  <2>1. Len(Whole') = w
    BY <1>1 DEF W, w
  <2> QED BY <1>2, <2>1
<1> QED BY <1>1, <1>2, <1>6, <1>7, <1>9, <1>10 DEF W, n

LEMMA Still ==
  ASSUME IInv, UNCHANGED <<dialect, schema, script>>
  PROVE  Progress' /\ Done' = Done /\ Whole' = Whole
<1>1. Whole' = Whole
  BY WholeSame
<1>2. Done' = Done
  BY <1>1 DEF Done
<1>3. Progress
  BY DEF IInv
<1> QED BY <1>1, <1>2, <1>3 DEF Progress

LEMMA InitInv == Init => IInv
<1> SUFFICES ASSUME Init PROVE IInv
  OBVIOUS
<1>1. schema \in Schemas /\ dialect \in Dialects /\ script = Whole /\ status = "loading"
  BY DEF Init, Whole
<1>2. IsList(Whole)
  BY <1>1, ScriptHasShape DEF ScriptShape, Whole
<1>3. Len(Whole) \in Nat
  BY <1>2, ListIs
<1>4. Done = 0
  BY <1>1, <1>3 DEF Done
<1>5. Progress
  <2>1. DOMAIN Whole = 1 .. Len(Whole)
    BY <1>2, ListIs
  <2>2. \A i \in DOMAIN script : script[i] = Whole[Done + i]
    <3> HIDE DEF Done, Whole
    <3> QED BY <1>1, <1>3, <1>4, <2>1
  <2> QED BY <1>1, <1>2, <1>3, <2>2 DEF Progress
<1>6. \A op : Ran(Whole, Done, op) = {}
  BY <1>4 DEF Ran
<1>7. LiveIs(dialect, Whole, Done, live, schema)
  <2>1. /\ DOMAIN live = {"enums", "tables", "fks", "normalized"}
        /\ live.enums = <<>> /\ live.tables = <<>> /\ live.fks = <<>>
    BY DEF Init
  <2>2. ToSet(<<>>) = {} /\ Names(<<>>) = {} /\ Distinct(<<>>)
    BY EmptyList DEF ToSet, Names, Distinct
  <2>3. EnumsMade(Whole, Done, live)
    BY <1>6, <2>1, <2>2, EmptyList DEF EnumsMade
  <2>4. TablesMade(dialect, Whole, Done, live, schema)
    BY <1>6, <2>1, <2>2, EmptyList DEF TablesMade
  <2>5. KeysMade(Whole, Done, live)
    BY <1>6, <2>1, <2>2, EmptyList DEF KeysMade
  <2> QED BY <2>1, <2>3, <2>4, <2>5 DEF LiveIs
<1>8. RowsIn
  <2>1. RowsRun(Whole, Done) = {}
    BY <1>6 DEF RowsRun
  <2>2. ModeAfter(Whole, Done) = "auto"
    BY <1>6 DEF ModeAfter
  <2> QED BY <1>1, <1>6, <2>1, <2>2 DEF Init, RowsIn
<1> QED BY <1>1, <1>5, <1>7, <1>8 DEF IInv

\* The live database after a statement that defines nothing.
LEMMA LiveAdvance ==
  ASSUME IInv, script # <<>>, script' = Tail(script), UNCHANGED <<dialect, schema>>,
         NEW L, LiveIs(dialect, Whole, Done + 1, L, schema), live' = L
  PROVE  LiveIs(dialect, Whole, Done, live, schema)'
BY Advance

LEMMA DefineInv ==
  ASSUME IInv, Define
  PROVE  IInv'
<1> DEFINE st == Head(script)
<1>1. /\ status = "loading" /\ script # <<>> /\ st.op \notin {"insert", "begin", "defer", "commit"}
      /\ live' = Apply(live, st) /\ script' = Tail(script)
      /\ UNCHANGED <<dialect, schema, rows, pending, mode, status>>
  BY DEF Define, Ready
<1>2. Meets(schema, Done, live, st)
  BY <1>1, NextMeets
<1>3. st.op \in {"createEnum", "createTable", "createIndex", "addFk"}
  BY <1>1, <1>2, KindByOp DEF KindOf, Meets, Reached, Defining
<1>4. Progress' /\ Done' = Done + 1 /\ Whole' = Whole
  BY <1>1, Advance
<1>5. LiveIs(dialect, Whole, Done, live, schema)'
  <2>1. LiveIs(dialect, Script(schema), Done + 1, Apply(live, st), schema)
    BY <1>2, <1>3, DefineStep
  <2> QED BY <1>1, <2>1, LiveAdvance DEF Whole
<1>6. RowsIn'
  <2>1. RowsRun(Whole, Done + 1) = RowsRun(Whole, Done)
    <3>1. st.op # "insert"
      BY <1>3
    <3> HIDE DEF st
    <3> QED BY <1>2, <3>1, RowsStay DEF Whole
  <2>2. ModeAfter(Whole, Done + 1) = ModeAfter(Whole, Done)
    BY <1>2, <1>3, ModeNext DEF Whole
  <2>3. Ran(Whole, Done + 1, "commit") = Ran(Whole, Done, "commit")
    BY <1>2, <1>3, RanOther DEF Whole
  <2>4. AllRows' = AllRows
    BY <1>1 DEF AllRows, AllRowsOf
  <2>5. RowsIn
    BY DEF IInv
  <2> QED BY <1>1, <1>4, <2>1, <2>2, <2>3, <2>4, <2>5 DEF RowsIn
<1> QED BY <1>1, <1>4, <1>5, <1>6 DEF IInv

\* The database is the same after a record or a statement of a transaction.
LEMMA LiveSame ==
  ASSUME IInv, script # <<>>, script' = Tail(script), UNCHANGED <<dialect, schema, live>>,
         Head(script).op \in {"insert", "begin", "defer", "commit"}
  PROVE  LiveIs(dialect, Whole, Done, live, schema)'
<1>1. Meets(schema, Done, live, Head(script))
  BY NextMeets
<1>2. LiveIs(dialect, Script(schema), Done + 1, live, schema)
  BY <1>1, NothingDefined
<1> QED BY <1>2, LiveAdvance DEF Whole

LEMMA InsertInv ==
  ASSUME IInv, InsertRows
  PROVE  IInv'
<1> DEFINE st == Head(script)
           new == TupleRows(st.on, st.what)
<1>1. /\ status = "loading" /\ script # <<>> /\ st.op = "insert" /\ script' = Tail(script)
      /\ UNCHANGED <<dialect, schema, live, mode, status>>
      /\ mode = "auto" => rows' = rows \cup new /\ pending' = pending
      /\ mode # "auto" => pending' = pending \cup new /\ rows' = rows
  BY DEF InsertRows, Ready
<1>2. Meets(schema, Done, live, st)
  BY <1>1, NextMeets
<1>3. Progress' /\ Done' = Done + 1 /\ Whole' = Whole
  BY <1>1, Advance
<1>4. LiveIs(dialect, Whole, Done, live, schema)'
  BY <1>1, LiveSame
<1> HIDE DEF new
<1>5. RowsIn'
  <2>1. RowsRun(Whole, Done + 1) = RowsRun(Whole, Done) \cup new
    BY <1>1, <1>2, RowsNext DEF Whole, new
  <2>2. /\ ModeAfter(Whole, Done + 1) = ModeAfter(Whole, Done)
        /\ dialect = "sqlite" => ModeAfter(Whole, Done) = "deferred"
    BY <1>1, <1>2, ModeNext DEF Whole
  <2>3. Ran(Whole, Done + 1, "commit") = Ran(Whole, Done, "commit")
    BY <1>1, <1>2, RanOther DEF Whole
  <2>4. AllRows' = AllRows
    BY <1>1 DEF AllRows, AllRowsOf
  <2>5. RowsIn
    BY DEF IInv
  <2>6. rows' \cup pending' = rows \cup pending \cup new
    BY <1>1
  <2> QED BY <1>1, <1>3, <2>1, <2>2, <2>3, <2>4, <2>5, <2>6 DEF RowsIn
<1> QED BY <1>1, <1>3, <1>4, <1>5 DEF IInv

LEMMA TransactionInv ==
  ASSUME IInv, OpenTransaction
  PROVE  IInv'
<1> DEFINE st == Head(script)
<1>1. /\ status = "loading" /\ script # <<>> /\ st.op \in {"begin", "defer"} /\ script' = Tail(script)
      /\ mode' = IF st.op = "begin" THEN "open" ELSE IF mode = "open" THEN "deferred" ELSE mode
      /\ UNCHANGED <<dialect, schema, live, rows, pending, status>>
  BY DEF OpenTransaction, Ready
<1>2. Meets(schema, Done, live, st)
  BY <1>1, NextMeets
<1>3. Progress' /\ Done' = Done + 1 /\ Whole' = Whole
  BY <1>1, Advance
<1>4. LiveIs(dialect, Whole, Done, live, schema)'
  BY <1>1, LiveSame
<1>5. RowsIn'
  <2>1. RowsRun(Whole, Done + 1) = RowsRun(Whole, Done)
    <3>1. st.op # "insert"
      BY <1>1
    <3> HIDE DEF st
    <3> QED BY <1>2, <3>1, RowsStay DEF Whole
  <2>2. /\ st.op = "begin" => ModeAfter(Whole, Done) = "auto" /\ ModeAfter(Whole, Done + 1) = "open"
        /\ st.op = "defer" => ModeAfter(Whole, Done) = "open" /\ ModeAfter(Whole, Done + 1) = "deferred"
    BY <1>2, ModeNext DEF Whole
  <2>3. Ran(Whole, Done + 1, "commit") = Ran(Whole, Done, "commit")
    BY <1>1, <1>2, RanOther DEF Whole
  <2>4. AllRows' = AllRows
    BY <1>1 DEF AllRows, AllRowsOf
  <2>5. RowsIn
    BY DEF IInv
  <2>6. mode' = ModeAfter(Whole, Done + 1) /\ mode' # "auto"
    BY <1>1, <2>2, <2>5 DEF RowsIn
  <2> QED BY <1>1, <1>3, <2>1, <2>3, <2>4, <2>5, <2>6 DEF RowsIn
<1> QED BY <1>1, <1>3, <1>4, <1>5 DEF IInv

LEMMA CommitInv ==
  ASSUME IInv, Commit
  PROVE  IInv'
<1> DEFINE st == Head(script)
<1>1. /\ status = "loading" /\ script # <<>> /\ st.op = "commit" /\ script' = Tail(script)
      /\ rows' = rows \cup pending /\ pending' = {} /\ mode' = "auto"
      /\ UNCHANGED <<dialect, schema, live, status>>
  BY DEF Commit, Ready
<1>2. Meets(schema, Done, live, st)
  BY <1>1, NextMeets
<1>3. Progress' /\ Done' = Done + 1 /\ Whole' = Whole
  BY <1>1, Advance
<1>4. LiveIs(dialect, Whole, Done, live, schema)'
  BY <1>1, LiveSame
<1>5. RowsIn'
  <2>1. RowsRun(Whole, Done + 1) = RowsRun(Whole, Done)
    <3>1. st.op # "insert"
      BY <1>1
    <3> HIDE DEF st
    <3> QED BY <1>2, <3>1, RowsStay DEF Whole
  <2>2. ModeAfter(Whole, Done + 1) = "auto"
    BY <1>1, <1>2, ModeNext DEF Whole
  <2>3. Ran(Whole, Done + 1, "commit") # {}
    <3>1. Ran(Script(schema), Done + 1, st.op) = Ran(Script(schema), Done, st.op) \cup {Done + 1}
      BY <1>2, RanThis
    <3> QED BY <1>1, <3>1 DEF Whole
  <2>4. AllRows' = AllRows
    BY <1>1 DEF AllRows, AllRowsOf
  <2>5. rows \cup pending = AllRows
    BY <1>1, RowsAllIn DEF Precedes
  <2>6. rows \cup pending = RowsRun(Whole, Done)
    BY <1>1 DEF IInv, RowsIn
  <2> QED BY <1>1, <1>3, <2>1, <2>2, <2>3, <2>4, <2>5, <2>6 DEF RowsIn
<1> QED BY <1>1, <1>3, <1>4, <1>5 DEF IInv

\* All rows are in when the script has run.
LEMMA RowsAtEnd ==
  ASSUME IInv, status = "loading", script = <<>>
  PROVE  rows = AllRows
<1> DEFINE n == Done
<1>1. n \in Nat /\ DOMAIN Script(schema) = 1 .. n
  BY WholeList DEF Whole
<1>2. schema \in Schemas /\ dialect \in Dialects
  BY DEF IInv
<1>3. rows \cup pending = RowsRun(Whole, n) /\ mode = ModeAfter(Whole, n) /\ (mode = "auto" => pending = {})
  BY DEF IInv, RowsIn
<1> HIDE DEF n
<1>4. ModeAfter(Script(schema), n) = "auto"
  BY <1>1, <1>2, ModeAtEnd
<1>5. RowsRun(Script(schema), n) = AllRowsOf(schema)
  BY <1>1, <1>2, AllRun
<1> QED BY <1>3, <1>4, <1>5 DEF Whole, AllRows

LEMMA FinishInv ==
  ASSUME IInv, Finish
  PROVE  IInv'
<1>1. /\ status = "loading" /\ script = <<>> /\ status' = "loaded" /\ pending' = {}
      /\ UNCHANGED <<dialect, schema, live, rows, mode, script>>
  BY DEF Finish
<1>2. Progress' /\ Done' = Done /\ Whole' = Whole
  BY <1>1, Still
<1>3. LiveIs(dialect, Whole, Done, live, schema)'
  BY <1>1, <1>2 DEF IInv
<1>4. rows = AllRows
  BY <1>1, RowsAtEnd
<1>5. AllRows' = AllRows
  BY <1>1 DEF AllRows, AllRowsOf
<1>6. RowsIn'
  BY <1>1, <1>2, <1>4, <1>5 DEF IInv, RowsIn
<1> QED BY <1>1, <1>2, <1>3, <1>6 DEF IInv

LEMMA CutOffInv ==
  ASSUME IInv, CutOff
  PROVE  IInv'
<1>1. /\ status' = "cut" /\ pending' = {}
      /\ UNCHANGED <<dialect, schema, live, rows, mode, script>>
  BY DEF CutOff
<1>2. Progress' /\ Done' = Done /\ Whole' = Whole
  BY <1>1, Still
<1>3. LiveIs(dialect, Whole, Done, live, schema)'
  BY <1>1, <1>2 DEF IInv
<1>4. AllRows' = AllRows
  BY <1>1 DEF AllRows, AllRowsOf
<1>5. RowsIn'
  BY <1>1, <1>2, <1>4 DEF IInv, RowsIn
<1> QED BY <1>1, <1>2, <1>3, <1>5 DEF IInv

LEMMA StutterInv ==
  ASSUME IInv, UNCHANGED vars
  PROVE  IInv'
<1>1. UNCHANGED <<dialect, schema, live, rows, pending, mode, script, status>>
  BY DEF vars
<1>2. Progress' /\ Done' = Done /\ Whole' = Whole
  BY <1>1, Still
<1>3. LiveIs(dialect, Whole, Done, live, schema)'
  BY <1>1, <1>2 DEF IInv
<1>4. AllRows' = AllRows
  BY <1>1 DEF AllRows, AllRowsOf
<1>5. RowsIn'
  BY <1>1, <1>2, <1>4 DEF IInv, RowsIn
<1> QED BY <1>1, <1>2, <1>3, <1>5 DEF IInv

LEMMA StepInv ==
  ASSUME IInv, [Next]_vars
  PROVE  IInv'
BY DefineInv, InsertInv, TransactionInv, CommitInv, FinishInv, CutOffInv, StutterInv DEF Next

-----------------------------------------------------------------------------
(* What holds of every set of sound schemas. *)

\* The database is always what the statements that have run make of an empty one,
\* and the rows are those of the records among them (generator.Dump).
THEOREM DumpInvariant == Spec => []IInv
<1>1. IInv /\ [Next]_vars => IInv'
  BY StepInv
<1> QED BY InitInv, <1>1, PTL DEF Spec

\* A statement of the script is refused only for a name that PostgreSQL needs for a
\* key, a sequence or an enum, for two refs of one name, a key that is not written or
\* a column that counts up and is no key: never for the order in which tables, refs
\* and records are declared, or for what the records refer to (generator.go, Dump).
THEOREM ScriptRuns == Spec => []OnlyKnownRefusals
<1>1. IInv => OnlyKnownRefusals
  BY Runs DEF OnlyKnownRefusals, Ready
<1> QED BY <1>1, DumpInvariant, PTL

\* A load of SQLite that is cut off leaves all the records or none: no row is in
\* before the COMMIT, and all are when it is done (generator.go, dumpData).
THEOREM CutLeavesNoPart == Spec => []AllRowsOrNone
<1>1. IInv => AllRowsOrNone
  BY DEF IInv, RowsIn, AllRowsOrNone
<1> QED BY <1>1, DumpInvariant, PTL

\* A foreign key is one of the ends of its ref.
LEMMA RefKept ==
  ASSUME NEW db \in Schemas, NEW i \in DOMAIN db.refs, ~ManyToMany(db.refs[i])
  PROVE  \E fk \in ToSet(ForeignKeys(db)) : KeptBy(db.refs[i], fk)
<1> DEFINE C(r) == IF r[1].rel = "1" /\ r[2].rel = "*" THEN r[2] ELSE r[1]
           P(r) == IF r[1].rel = "1" /\ r[2].rel = "*" THEN r[1] ELSE r[2]
           Key(r) == [child |-> C(r).table, cols |-> C(r).cols, parent |-> P(r).table, pcols |-> P(r).cols]
           ss == [j \in DOMAIN db.refs |-> When(~ManyToMany(db.refs[j]), Key(db.refs[j]))]
           r == db.refs[i]
           fk == Key(r)
<1>1. ForeignKeys(db) = FlattenSeq(ss)
  BY DEF ForeignKeys, Each
<1>2. \A j \in DOMAIN db.refs : IsList(ss[j])
  BY WhenList
<1>3. DOMAIN ss = DOMAIN db.refs /\ ss = [j \in DOMAIN db.refs |-> ss[j]]
  OBVIOUS
<1>4. ss[i] = <<fk>>
  BY DEF When
<1>5. KeptBy(r, fk)
  <2>1. r[1].rel \in {"1", "*"} /\ r[2].rel \in {"1", "*"}
    <3>1. IsList(db.refs) /\ db.refs \in Seq([1 .. 2 -> [table : STRING, cols : Seq(STRING), rel : {"1", "*"}]])
      BY SoundLists DEF Sound, Typed
    <3>2. r \in [1 .. 2 -> [table : STRING, cols : Seq(STRING), rel : {"1", "*"}]]
      BY <3>1, ListIs, ElementOfSeq
    <3> QED BY <3>2
  <2>2. CASE r[1].rel = "1" /\ r[2].rel = "*"
    BY <2>2 DEF KeptBy
  <2>3. CASE ~(r[1].rel = "1" /\ r[2].rel = "*")
    <3>1. r[2].rel = "1"
      BY <2>1, <2>3 DEF ManyToMany
    <3> QED BY <2>3, <3>1 DEF KeptBy
  <2> QED BY <2>2, <2>3
<1> HIDE DEF ss, fk, r
<1>6. IsListOfLists(ss)
  BY <1>2, <1>3, SoundLists, EachIsLists
<1>7. fk \in Elements(ss)
  BY <1>3, <1>4 DEF Elements
<1>8. fk \in ToSet(ForeignKeys(db))
  BY <1>1, <1>6, <1>7, FlattenElements
<1> QED BY <1>5, <1>8 DEF r

\* When the script has run, the database has all that the schema has.
LEMMA EndOfScript ==
  ASSUME IInv, script = <<>>
  PROVE  /\ Names(live.tables) = Names(schema.tables)
         /\ \A t \in ToSet(schema.tables) :
              ToSet(TableOf(live, t.name).indexes) = ToSet(t.indexes)
         /\ ToSet(live.fks) = ToSet(ForeignKeys(schema))
<1> DEFINE W == Script(schema)
           n == Done
<1>1. n \in Nat /\ DOMAIN W = 1 .. n
  BY WholeList DEF Whole
<1>2. Reached(schema, n, live) /\ schema \in Schemas /\ dialect \in Dialects
  BY NextMeets DEF IInv
<1> HIDE DEF n
<1>3. /\ TablesMade(dialect, W, n, live, schema) /\ KeysMade(W, n, live) /\ ScriptComplete(schema)
  BY <1>2, MeetsShape DEF Reached, LiveIs, ScriptShape
<1>4. Names(live.tables) \subseteq Names(schema.tables)
  <2> SUFFICES ASSUME NEW j \in Ran(W, n, "createTable") PROVE W[j].on \in Names(schema.tables)
    BY <1>3 DEF TablesMade
  <2>1. j \in DOMAIN W /\ W[j].op = "createTable"
    BY <1>1 DEF Ran
  <2> QED BY <1>2, <2>1, TableKeys DEF Names, ToSet
<1>5. ASSUME NEW t \in ToSet(schema.tables)
      PROVE  \E j \in Ran(W, n, "createTable") : W[j] = CreateTable(t, Full(schema)) /\ W[j].on = t.name
  <2>1. PICK j \in DOMAIN W : W[j] = CreateTable(t, Full(schema))
    BY <1>3 DEF ScriptComplete, ToSet
  <2>2. W[j].op = "createTable" /\ W[j].on = t.name
    BY <2>1, CreateTableOp
  <2> QED BY <1>1, <2>1, <2>2 DEF Ran
<1>6. ASSUME NEW t \in ToSet(schema.tables) PROVE HasTable(live, t.name)
  BY <1>3, <1>5 DEF HasTable, TablesMade
<1>7. ASSUME NEW t \in ToSet(schema.tables)
      PROVE  ToSet(TableOf(live, t.name).indexes) = ToSet(t.indexes)
  <2>1. Made(dialect, W, n, TableOf(live, t.name), t)
    BY <1>2, <1>6, MadeOf
  <2>2. IndexesRun(W, n, t) \subseteq ToSet(t.indexes)
    BY <1>2, IndexesRunWithin
  <2>3. ASSUME NEW x \in ToSet(t.indexes) PROVE x \in IndexesRun(W, n, t)
    <3>1. PICK j \in DOMAIN W : W[j] = Stmt("createIndex", t.name, x)
      BY <1>3 DEF ScriptComplete, ToSet
    <3>2. W[j].op = "createIndex" /\ W[j].on = t.name /\ W[j].what = x
      BY <3>1, IndexOp
    <3> QED BY <1>1, <3>2 DEF IndexesRun, Ran
  <2> QED BY <2>1, <2>2, <2>3 DEF Made
<1>8. ASSUME NEW fk \in ToSet(ForeignKeys(schema)) PROVE fk \in ToSet(live.fks)
  <2>1. CASE dialect = "sqlite"
    <3>1. PICK t \in ToSet(schema.tables) : t.name = fk.child
      BY <1>2, MeetsShape DEF Sound, HasColumns, HasTable, Names, ToSet
    <3>2. PICK j \in Ran(W, n, "createTable") : W[j] = CreateTable(t, Full(schema))
      BY <1>5
    <3>3. BodyIs(W[j].what, t, Full(schema))
      BY <3>2, CreateTableOp, TableBodyIs
    <3>4. fk \in W[j].what.fks
      BY <1>2, <2>1, <3>1, <3>3, BodyKeys
    <3> QED BY <1>3, <3>4 DEF KeysMade
  <2>2. CASE dialect # "sqlite"
    <3>1. PICK j \in DOMAIN W : W[j] = Stmt("addFk", fk.child, fk)
      BY <1>3, <2>2 DEF ScriptComplete, ToSet
    <3>2. W[j].op = "addFk" /\ W[j].what = fk
      BY <3>1, StmtOps DEF AddFk
    <3> QED BY <1>1, <1>3, <3>2 DEF KeysMade, Ran
  <2> QED BY <2>1, <2>2
<1>9. Names(schema.tables) \subseteq Names(live.tables)
  BY <1>6 DEF HasTable, Names, ToSet
<1> QED BY <1>2, <1>4, <1>7, <1>8, <1>9, LiveKeys

\* A script that has run has made every table with its indexes, a foreign key of
\* every ref that is not many-to-many, on its many end, and every row
\* (generator.Dump).
THEOREM LoadComplete == Spec => []Loaded
<1>1. IInv => Loaded
  <2> SUFFICES ASSUME IInv, status = "loaded" PROVE Loaded
    BY DEF Loaded
  <2>1. script = <<>> /\ rows = AllRows /\ schema \in Schemas
    BY DEF IInv, RowsIn
  <2>2. \A i \in DOMAIN schema.refs :
          ManyToMany(schema.refs[i]) \/ \E fk \in ToSet(live.fks) : KeptBy(schema.refs[i], fk)
    BY <2>1, EndOfScript, RefKept
  <2> QED BY <2>1, <2>2, EndOfScript DEF Loaded
<1> QED BY <1>1, DumpInvariant, PTL
=============================================================================
