----------------------------- MODULE IndexNames -----------------------------
(***************************************************************************)
(* The index-name resolver of the SQL generator (generator/indexes.go).    *)
(*                                                                         *)
(* tosql and migrate give every index of a schema the name it will have in *)
(* the database.  The name is the declared one or <table>_<columns>_idx,   *)
(* cut to the length the database takes; a name used more than once in its *)
(* scope gets the table as a prefix; a name that is still taken gets a     *)
(* number.  migrate then compares the indexes of two schemas by these      *)
(* names alone, so they have to be distinct in their scope, to fit, and to *)
(* be the names that come out when the database they were created in is    *)
(* read back and resolved again.                                           *)
(*                                                                         *)
(* The first passes of indexNames are functions of the schema (Base, Uses, *)
(* Prefixed).  The last pass, a loop over the indexes with a numbering     *)
(* loop inside, is the state machine below.  After it the schema is read   *)
(* back from the database (Reload) and resolved a second time.             *)
(*                                                                         *)
(* Data.  A character is a natural number: 0..9 are the digits, US is '_', *)
(* IDX and EXPR stand for the words "idx" and "expr".  A name is a         *)
(* sequence of characters.  A column has a name of one character.          *)
(***************************************************************************)
EXTENDS Naturals, FiniteSets, Sequences, SequencesExt

CONSTANTS
  Dialects,   \* the dialects to write SQL for
  Limit,      \* the longest identifier: bytes in PostgreSQL, characters in MariaDB
  Wide,       \* the characters that take two bytes
  Databases,  \* for every dialect the schemas to resolve
  MaxNumber   \* bound on the numbering loop, which has none in the code

US   == 10
IDX  == 11
EXPR == 12

Name   == Seq(Nat)
Column == [name: Nat, unique: BOOLEAN, pk: BOOLEAN]
Index  == [pk: BOOLEAN, unique: BOOLEAN, name: Name, keys: Seq(Nat)]
Table  == [schema: Nat, name: Name, cols: Seq(Column), indexes: Seq(Index)]

ASSUME DialectsAssumption == Dialects \subseteq {"generic", "postgres", "mariadb", "sqlite"}

\* A number is at most two characters (MaxNumber), which have to fit, and
\* digits are one byte each.
ASSUME LimitAssumption == Limit \in Nat /\ Limit >= 2 /\ Wide \cap (0 .. 9) = {}

ASSUME NumberAssumption == MaxNumber \in 1 .. 99

\* Every table is declared once: tables are matched by schema and name.
ASSUME DatabaseAssumption ==
  \A e \in Dialects : \A d \in Databases[e] :
    /\ d \in Seq(Table)
    /\ \A t, u \in DOMAIN d :
         t # u => <<d[t].schema, d[t].name>> # <<d[u].schema, d[u].name>>

VARIABLES
  dialect,  \* the dialect, detected once when the program starts
  db,       \* the schema being resolved
  base,     \* the name of every index after the first passes, by slot
  names,    \* the name of every index, by slot; final for the slots before at
  taken,    \* the scoped names given out or reserved
  at,       \* the loop's position: the slot whose turn it is
  n,        \* the next number the numbering loop tries
  round,    \* 1: the declared schema, 2: what the database reports of it
  created   \* the indexes the database was created with, by their names

vars == <<dialect, db, base, names, taken, at, n, round, created>>

-----------------------------------------------------------------------------
(* Identifiers and their length. *)

\* len(name): the bytes of a name.
Bytes(name) == Len(name) + Cardinality({i \in DOMAIN name : name[i] \in Wide})

\* truncateIdent(name) = name.
Fits(name) ==
  /\ dialect = "postgres" => Bytes(name) <= Limit
  /\ dialect = "mariadb"  => Len(name) <= Limit

\* The longest prefix of name that fits with tail behind it.
Cut(name, tail) ==
  SubSeq(name, 1, Max({k \in 0 .. Len(name) : Fits(SubSeq(name, 1, k) \o tail)}))

\* PostgreSQL cuts in bytes but not inside a character, MariaDB in characters.
Truncate(name) == IF Fits(name) THEN name ELSE Cut(name, <<>>)

Itoa(k) == IF k < 10 THEN <<k>> ELSE <<k \div 10, k % 10>>

\* A faulty form of WithSuffix: no cut at all.
UncutSuffix(name, k) == name \o Itoa(k)

\* The name is cut, not the number: a cut number would be the same for
\* every k, and the loop that asks for a free name would not end.
WithSuffix(name, k) == Cut(name, Itoa(k)) \o Itoa(k)

-----------------------------------------------------------------------------
(* The first three passes, functions of a schema d. *)

\* The place of an index: the position of its table and its own in the table.
Slots(d) == UNION {{t} \X DOMAIN d[t].indexes : t \in DOMAIN d}

IndexAt(d, s) == d[s[1]].indexes[s[2]]

DefaultName(tbl, idx) ==
  tbl.name
    \o [i \in 1 .. 2 * Len(idx.keys) |-> IF i % 2 = 1 THEN US ELSE idx.keys[i \div 2]]
    \o <<US, IDX>>

Base(tbl, idx) ==
  IF idx.pk THEN <<>>
  ELSE Truncate(IF idx.name # <<>> THEN idx.name ELSE DefaultName(tbl, idx))

ScopeOf(tbl) ==
  IF dialect = "mariadb" THEN <<tbl.schema, tbl.name>> ELSE <<tbl.schema, <<>>>>

\* What else has a name in the scope of an index, by scope and name: a unique
\* column of the table in MariaDB, a table of the schema elsewhere.
Reserved(d) ==
  IF dialect = "mariadb"
  THEN UNION {{<<ScopeOf(d[t]), <<d[t].cols[c].name>>>> :
                 c \in {x \in DOMAIN d[t].cols : d[t].cols[x].unique /\ ~d[t].cols[x].pk}} :
              t \in DOMAIN d}
  ELSE {<<ScopeOf(d[t]), d[t].name>> : t \in DOMAIN d}

\* used[scope + name]; a scope reserves a name at most once.
Uses(d, scope, name) ==
  Cardinality({<<scope, name>>} \cap Reserved(d)) +
  Cardinality({s \in Slots(d) : ScopeOf(d[s[1]]) = scope
                                /\ Base(d[s[1]], IndexAt(d, s)) = name})

\* A faulty form of Prefixed: every name in use counts as used twice.
AlwaysPrefixed(d, s) ==
  LET tbl  == d[s[1]]
      name == Base(tbl, IndexAt(d, s))
  IN  IF name # <<>> /\ Uses(d, ScopeOf(tbl), name) > 0
      THEN Truncate(tbl.name \o <<US>> \o name)
      ELSE name

Prefixed(d, s) ==
  LET tbl  == d[s[1]]
      name == Base(tbl, IndexAt(d, s))
  IN  IF name # <<>> /\ Uses(d, ScopeOf(tbl), name) > 1
      THEN Truncate(tbl.name \o <<US>> \o name)
      ELSE name

-----------------------------------------------------------------------------
Init ==
  /\ dialect \in Dialects
  /\ db \in Databases[dialect]
  /\ base = [s \in Slots(db) |-> Prefixed(db, s)]
  /\ names = base
  /\ taken = Reserved(db)
  /\ at = <<1, 1>>
  /\ n = 1
  /\ round = 1
  /\ created = {}

Finished == at[1] > Len(db)

AtIndex == ~Finished /\ at[2] <= Len(db[at[1]].indexes)

Key(s) == <<ScopeOf(db[s[1]]), names[s]>>

\* A faulty form of NextTable: the index loop starts at 0.
NextTableFromZero ==
  /\ ~Finished
  /\ at[2] > Len(db[at[1]].indexes)
  /\ at' = <<at[1] + 1, 0>>
  /\ UNCHANGED <<dialect, db, base, names, taken, n, round, created>>

\* The inner loop over a table's indexes ends.
NextTable ==
  /\ ~Finished
  /\ at[2] > Len(db[at[1]].indexes)
  /\ at' = <<at[1] + 1, 1>>
  /\ UNCHANGED <<dialect, db, base, names, taken, n, round, created>>

SkipPK ==
  /\ AtIndex
  /\ names[at] = <<>>
  /\ at' = <<at[1], at[2] + 1>>
  /\ UNCHANGED <<dialect, db, base, names, taken, n, round, created>>

\* A faulty form of Number: the number is not counted up.
NumberOnce ==
  /\ AtIndex
  /\ names[at] # <<>>
  /\ Key(at) \in taken
  /\ names' = [names EXCEPT ![at] = WithSuffix(base[at], n)]
  /\ UNCHANGED <<dialect, db, base, taken, at, n, round, created>>

\* The name is taken: try the next number behind the name it had at first.
Number ==
  /\ AtIndex
  /\ names[at] # <<>>
  /\ Key(at) \in taken
  /\ n <= MaxNumber
  /\ names' = [names EXCEPT ![at] = WithSuffix(base[at], n)]
  /\ n' = n + 1
  /\ UNCHANGED <<dialect, db, base, taken, at, round, created>>

\* A faulty form of Claim: the name is not marked as taken.
ClaimUnmarked ==
  /\ AtIndex
  /\ names[at] # <<>>
  /\ Key(at) \notin taken
  /\ at' = <<at[1], at[2] + 1>>
  /\ n' = 1
  /\ UNCHANGED <<dialect, db, base, names, taken, round, created>>

Claim ==
  /\ AtIndex
  /\ names[at] # <<>>
  /\ Key(at) \notin taken
  /\ taken' = taken \cup {Key(at)}
  /\ at' = <<at[1], at[2] + 1>>
  /\ n' = 1
  /\ UNCHANGED <<dialect, db, base, names, round, created>>

-----------------------------------------------------------------------------
(* The database is created with these names and read back.  Its catalogue  *)
(* lists tables and indexes in an order of its own.                        *)

\* createIndexSQL writes a comment for an expression index in MariaDB.
Creates(idx) == dialect = "mariadb" => EXPR \notin ToSet(idx.keys)

\* What identifies an index: its table, what it indexes and its name.
Described ==
  {[schema |-> db[s[1]].schema, table |-> db[s[1]].name, keys |-> IndexAt(db, s).keys,
    unique |-> IndexAt(db, s).unique, name |-> names[s]] :
     s \in {x \in Slots(db) : ~IndexAt(db, x).pk /\ Creates(IndexAt(db, x))}}

\* MariaDB lists a unique index as a constraint; one named after its only
\* column is read as the column's own UNIQUE.
ReadAsColumn(t, i) ==
  LET idx == db[t].indexes[i]
  IN  dialect = "mariadb" /\ ~idx.pk /\ idx.unique /\ Len(idx.keys) = 1 /\ names[<<t, i>>] = idx.keys

ReportedIndexes(t) ==
  {[db[t].indexes[i] EXCEPT !.name = IF db[t].indexes[i].pk THEN @ ELSE names[<<t, i>>]] :
     i \in {x \in DOMAIN db[t].indexes : Creates(db[t].indexes[x]) /\ ~ReadAsColumn(t, x)}}

ReportedColumns(t) ==
  [c \in DOMAIN db[t].cols |->
     [db[t].cols[c] EXCEPT !.unique =
        @ \/ \E i \in DOMAIN db[t].indexes :
               ReadAsColumn(t, i) /\ names[<<t, i>>] = <<db[t].cols[c].name>>]]

ReportedTables(t) ==
  {[db[t] EXCEPT !.cols = ReportedColumns(t), !.indexes = list] :
     list \in SetToSeqs(ReportedIndexes(t))}

\* The schemas the database may report: one reading of each table, in any order.
Reported ==
  {d \in [DOMAIN db -> UNION {ReportedTables(t) : t \in DOMAIN db}] :
     \A t \in DOMAIN db : \E i \in DOMAIN db : d[i] \in ReportedTables(t)}

Reload ==
  /\ Finished
  /\ round = 1
  /\ db' \in Reported
  /\ base' = [s \in Slots(db') |-> Prefixed(db', s)]
  /\ names' = base'
  /\ taken' = Reserved(db')
  /\ at' = <<1, 1>>
  /\ n' = 1
  /\ round' = 2
  /\ created' = Described
  /\ UNCHANGED dialect

\* Both schemas are resolved.
Done == Finished /\ round = 2 /\ UNCHANGED vars

Next == NextTable \/ SkipPK \/ Number \/ Claim \/ Reload \/ Done

Spec == Init /\ [][Next]_vars

\* indexNames runs to its end in one call.
FairSpec == Spec /\ WF_vars(Next)

-----------------------------------------------------------------------------
(* Properties. *)

TypeOK ==
  /\ dialect \in Dialects
  /\ db \in Seq(Table)
  /\ base \in [Slots(db) -> Name]
  /\ names \in [Slots(db) -> Name]
  /\ at \in (Nat \ {0}) \X (Nat \ {0})
  /\ n \in 1 .. MaxNumber + 1
  /\ round \in {1, 2}

Before(s, p) == s[1] < p[1] \/ (s[1] = p[1] /\ s[2] < p[2])

\* The named indexes the loop has passed: their names are final.
Settled == {s \in Slots(db) : Before(s, at) /\ names[s] # <<>>}

\* Two indexes of one scope never get the same name, and none gets the name
\* of a table (of a unique column in MariaDB): CREATE INDEX would fail, and
\* migrate, which keys indexes by name, would lose one of the two.
NoClash ==
  \A s \in Settled :
    /\ Key(s) \notin Reserved(db)
    /\ \A r \in Settled : Key(r) = Key(s) => r = s

\* Every name ever considered fits, prefixed and numbered ones included: a
\* longer one would be cut by the database and not be the name migrate
\* looks for.
AllFit == \A s \in Slots(db) : Fits(names[s])

\* No unique index of a schema is named after its only column: MariaDB would
\* report the column as unique and not the index.
NoneIsItsColumn(d) ==
  \A t \in DOMAIN d : \A i \in DOMAIN d[t].indexes :
    LET idx == d[t].indexes[i]
    IN  idx.unique /\ ~idx.pk /\ Len(idx.keys) = 1 => idx.name # idx.keys

\* A database created with these names and read back, in any order, resolves
\* to the same names, so migrate finds nothing to do.
RoundTrip == (Finished /\ round = 2) => Described = created

\* Both resolutions end: no index keeps finding its name taken.
Terminates == <>(Finished /\ round = 2)
=============================================================================
