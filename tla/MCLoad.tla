------------------------------- MODULE MCLoad -------------------------------
(***************************************************************************)
(* Small databases to read.  Table a has every kind of key, a foreign key  *)
(* to p, an enum and types with arguments; table b takes names that a has  *)
(* too; other clients give a, b and p another form, or drop them.          *)
(*                                                                         *)
(* Small files to read: two tables that refer to each other, an enum and a *)
(* group, written in several ways.                                         *)
(***************************************************************************)
EXTENDS LoadSchema, TLC

MCNumerals == {"1", "2", "10", "11", "20"}
MCExpressions == {"now()", "lower(x)", "X'00'"}

Col(name, type, flags) ==
  [name |-> name, type |-> type, notnull |-> "nn" \in flags, inc |-> "inc" \in flags,
   default |-> << >>, comment |-> ""]

Key(name, cols, kind) == [name |-> name, cols |-> cols, kind |-> kind]

Fk(name, col, parent) ==
  [name |-> name, cols |-> <<col>>, parent |-> parent, pcols |-> <<"id">>,
   ondelete |-> <<"set", "null">>, onupdate |-> <<"restrict">>]

Form(cols, keys, fks, rows) ==
  [cols |-> cols, keys |-> keys, fks |-> fks, rows |-> rows, comment |-> ""]

\* The types of a column that counts, of a long one, of an enum and of text.
Integer(d) == IF d = "mariadb" THEN <<"int", "(", "11", ")">> ELSE <<"integer">>
BigInt(d) == IF d = "mariadb" THEN <<"bigint", "(", "20", ")", "unsigned">> ELSE <<"bigint">>
Enum(d) ==
  CASE d = "postgres" -> <<"e">> [] d = "mariadb" -> <<"ENUM", "v", "w">> [] d = "sqlite" -> <<"text">>
Varchar(d) == IF d = "postgres" THEN <<"character", "varying", "(", "20", ")">> ELSE <<"varchar", "(", "20", ")">>
Decimal(d) == <<IF d = "postgres" THEN "numeric" ELSE "decimal", "(", "10", ",", "2", ")">>
Double(d) == IF d = "mariadb" THEN <<"double", "unsigned">> ELSE <<"double", "precision">>

Counting(d) == IF d = "sqlite" THEN {} ELSE {"nn", "inc"}

Id(d) == Col("id", Integer(d), Counting(d))

PkName(d, table) ==
  CASE d = "postgres" -> table \o "_pkey" [] d = "mariadb" -> "PRIMARY" [] d = "sqlite" -> ""

Pk(d, table, cols) == Key(PkName(d, table), cols, "primary")

\* A UNIQUE column has a key of its own, named by the database.
Own(d, table, c) ==
  Key(CASE d = "postgres" -> table \o "_" \o c \o "_key"
        [] d = "mariadb" -> c
        [] d = "sqlite" -> "sqlite_autoindex_" \o table \o "_1", <<c>>, "unique")

UniqueIndex(d) == IF d = "mariadb" THEN "unique" ELSE "uniqueindex"

A1(d) ==
  [Form(<<Id(d), Col("x", Enum(d), {"nn"}), Col("p", BigInt(d), {}),
          [Col("t", Varchar(d), {}) EXCEPT !.default = <<"string", "v">>, !.comment = "T"]>>,
        {Pk(d, "a", <<"id">>), Own(d, "a", "x"), Key("a_i", <<"x", "p">>, "index"), Key("a_u", <<"p">>, UniqueIndex(d))}
          \cup (IF d = "sqlite" THEN {} ELSE {Key("a_two", <<"t", "p">>, "unique")}),
        {Fk("a_p", "p", "p")},
        {[id |-> "1", x |-> "v", p |-> "null", t |-> "X'00'"], [id |-> "2", x |-> "w", p |-> "1", t |-> "t"]})
   EXCEPT !.comment = "A"]

\* Another form of a: a key of two columns, without the reference.
A2(d) ==
  Form(<<[Col("x", BigInt(d), {"nn"}) EXCEPT !.default = <<"number", "1">>],
         [Col("id", Integer(d), {"nn"}) EXCEPT !.default = <<"boolean", "null">>],
         [Col("p", Decimal(d), {}) EXCEPT !.default = <<"expression", "now()">>]>>,
       {Pk(d, "a", <<"x", "id">>), Key("a_i", <<IF d = "mariadb" THEN "p" ELSE "lower(x)">>, "index")}, {},
       {[id |-> "1", x |-> "10", p |-> "null"]})

\* The key of p has a name of its own in PostgreSQL.
P1(d) ==
  Form(<<Id(d), Col("d", Double(d), {})>>,
       {[Pk(d, "p", <<"id">>) EXCEPT !.name = IF d = "postgres" THEN "p_key" ELSE @]}, {},
       {[id |-> "1", d |-> "null"]})
P2(d) ==
  Form(<<Id(d), Col("x", Enum(d), {})>>,
       {Own(d, "p", "x"), IF d = "mariadb" THEN Own(d, "p", "id") ELSE Pk(d, "p", <<"id">>)}, {}, {})

B1(d) == Form(<<Id(d), Col("x", Enum(d), {})>>,
              {Key(IF d = "mariadb" THEN "a_i" ELSE "b_i", <<"x">>, "index"), Pk(d, "b", <<"id">>)},
              {Fk("b_a", "id", "a")}, {})

E1 == [e |-> <<"v", "w">>]

MCDatabases ==
  [d \in Engines |->
     {[tables |-> [a |-> A1(d), p |-> P1(d)], enums |-> IF d = "postgres" THEN E1 ELSE << >>]}]

\* A key of two columns, and a foreign key to it.
Composite(d) ==
  LET cols == <<Col("x", Integer(d), {"nn"}), Col("y", Integer(d), {"nn"})>>
  IN  [c |-> Form(cols, {}, {[Fk("c_p", "x", "p") EXCEPT !.cols = <<"x", "y">>, !.pcols = <<"x", "y">>]}, {}),
       p |-> Form(cols, {Pk(d, "p", <<"x", "y">>)}, {}, {})]

CompositeDatabases == [d \in Engines |-> {[tables |-> Composite(d), enums |-> << >>]}]

MCVersions == [d \in Engines |-> [a |-> {A2(d)}, p |-> {P2(d)}, b |-> {B1(d)}]]

\* The hypothesis of NothingIsInvented (IntrospectProofs).
ASSUME MCDatabasesReportable == \A d \in Engines : AllReportable(d, MCDatabases[d], MCVersions[d])

MCEnumVersions ==
  [d \in Engines |-> IF d = "postgres" THEN {[e |-> <<"v">>], E1 @@ [f |-> <<"v">>]} ELSE {<< >>}]

Command(include, exclude, data, normalize, schema, path) ==
  [include |-> include, exclude |-> exclude, data |-> data, normalize |-> normalize,
   schema |-> schema, path |-> path]

\* A table a in the schema public, of other rows.
MCElsewhere ==
  [a |-> [A1("postgres") EXCEPT !.rows = {[id |-> "20", x |-> "w", p |-> "null", t |-> "t"]}]]

MCOptions ==
  {Command({}, {}, FALSE, FALSE, "public", "public"),
   Command({}, {{"b"}}, TRUE, FALSE, "s", "s"),
   Command({{"a"}, {"b"}}, {{"a"}}, TRUE, FALSE, "public", "public"),
   Command({{"a"}}, {}, TRUE, FALSE, "s", "public"),
   Command({}, {}, TRUE, TRUE, "s", "s")}

MCSpaced == << >>

-----------------------------------------------------------------------------
(* Files. *)

Tokens(ws) == [i \in DOMAIN ws |-> IF ws[i] \in {"text", "k", "v"} THEN String(ws[i]) ELSE Word(ws[i])]

File(lines) == FlattenSeq([i \in DOMAIN lines |-> Line(Tokens(lines[i]))])

Tail1 ==
  << <<"Enum", "s", ".", "e", "{">>, <<"w", "[", "note", ":", "text", "]">>, <<"x", "y">>, <<"}">>,
     <<"TableGroup", "g", "{">>, <<"u">>, <<"p">>, <<"}">>,
     <<"Note", "n", "{">>, <<"text">>, <<"}">>,
     <<"Project", "d", "{">>, <<"database_type", ":", "text">>, <<"Note", ":", "text">>, <<"}">> >>

\* Keys and refs in the lines of the columns.
Inline ==
  File(<< <<"Table", "u", "as", "U", "{">>,
          <<"id", "int", "[", "pk", ",", "increment", ",", "note", ":", "text", "]">>,
          <<"t", "double", "precision", "[", "unique", ",", "default", ":", "1", "]">>,
          <<"Note", ":", "text">>, <<"}">>,
          <<"Table", "s", ".", "p", "{">>,
          <<"id", "bigint", "(", "20", ")", "unsigned", "[", "primary", "key", "]">>,
          <<"u", "int", "[", "not", "null", ",", "ref", ":", ">", "u", ".", "id", "]">>,
          <<"v1", "s", ".", "e", "[", "ref", ":", "<>", "u", ".", "t", ",", "default", ":", "v", "]">>,
          <<"indexes", "{">>, <<"u", "[", "unique", ",", "name", ":", "k", "]">>,
          <<"(", "u", ",", "v1", ")">>, <<"}">>, <<"}">> >> \o Tail1)

\* The same beside them, and the indexes before the columns.
Apart ==
  File(<< <<"Table", "u", "as", "U", "{">>,
          <<"Note", ":", "text">>,
          <<"id", "int", "[">>, <<"increment", ",">>, <<"note", ":", "text", "]">>,
          <<"t", "double", "precision", "[", "default", ":", "1", ",", "unique", "]">>,
          <<"indexes", "{">>, <<"id", "[", "pk", "]">>, <<"}">>, <<"}">>,
          <<"Table", "s", ".", "p", "{">>,
          <<"indexes", "{">>, <<"(", "u", ",", "v1", ")">>, <<"(", "id", ")", "[", "primary", "key", "]">>,
          <<"(", "u", ")", "[", "name", ":", "k", ",", "unique", "]">>, <<"}">>,
          <<"id", "bigint", "(", "20", ")", "unsigned">>,
          <<"u", "int", "[", "null", ",", "not", "null", "]">>,
          <<"v1", "s", ".", "e", "[", "default", ":", "v", "]">>, <<"}">>,
          <<"Ref", ":", "u", ".", "id", "<", "s", ".", "p", ".", "u">>,
          <<"Ref", "{">>, <<"s", ".", "p", ".", "v1", "<>", "u", ".", "t">>, <<"}">> >> \o Tail1)

\* Refs with settings, to two columns and to one.
Settled ==
  File(<< <<"Ref", "r", ":", "a", ".", "(", "x", ",", "y", ")", ">", "s", ".", "b", ".", "(", "z", ",", "t", ")",
            "[", "delete", ":", "set", "null", ",", "update", ":", "cascade", "]">>,
          <<"Ref", ":", "a", ".", "x", "-", "a", ".", "y">> >>)

Unsettled ==
  File(<< <<"Ref", "{">>,
          <<"a", ".", "y", "-", "a", ".", "x">>,
          <<"s", ".", "b", ".", "(", "z", ",", "t", ")", "<", "a", ".", "(", "x", ",", "y", ")",
            "[", "update", ":", "cascade", ",", "delete", ":", "set", "null", "]">>, <<"}">> >>)

MCSpellings == {{Inline, Apart}, {Settled, Unsettled}}
=============================================================================
