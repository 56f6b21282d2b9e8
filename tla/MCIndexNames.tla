---------------------------- MODULE MCIndexNames ----------------------------
(* Instances of IndexNames for TLC: small families of schemas whose names  *)
(* meet in every way the passes tell apart.                                *)
EXTENDS IndexNames

\* t, u are tables, a and b columns (b is a wide character), x an index.
t == 13
u == 14
a == 15
b == 16
x == 17

MCWide == {b}

Unnamed(keys)    == [pk |-> FALSE, unique |-> FALSE, name |-> <<>>, keys |-> keys]
Named(name)      == [pk |-> FALSE, unique |-> FALSE, name |-> name, keys |-> <<a>>]
UniqueNamed(name) == [pk |-> FALSE, unique |-> TRUE, name |-> name, keys |-> <<a>>]
PKIndex          == [pk |-> TRUE, unique |-> FALSE, name |-> <<x>>, keys |-> <<a>>]

Tbl(name, uniqueA, list) ==
  [schema |-> 0, name |-> name, indexes |-> list,
   cols |-> <<[name |-> a, unique |-> uniqueA, pk |-> FALSE],
              [name |-> b, unique |-> FALSE, pk |-> TRUE]>>]

Lists(kinds, max) == UNION {[1 .. k -> kinds] : k \in 0 .. max}

\* Declared names that meet the names of the other passes: x and its prefixed
\* and numbered forms, a table's name, the pk index, default names that meet
\* (t_a (b) and t (a, b)) and names that are too long.
MCKinds == {Unnamed(<<a>>), Unnamed(<<a, b>>), Named(<<x>>), Named(<<t, US, x>>),
            Named(<<x, 1>>), Named(<<u>>), PKIndex}

MCDatabases ==
  {<<Tbl(<<t>>, TRUE, l1), Tbl(name, TRUE, l2)>> :
     l1 \in Lists(MCKinds, 3), l2 \in Lists({Named(<<x>>), Unnamed(<<b>>)}, 1),
     name \in {<<u>>, <<t, US, a>>}}

\* MariaDB: index names meet the key names of unique columns of the table.
\* No unique index on one column has that column's name.
MCMariaKinds == {Unnamed(<<a>>), Unnamed(<<EXPR>>), Named(<<a>>), Named(<<t, US, a>>),
                 Named(<<x, x, x, x, x, x>>), UniqueNamed(<<x>>), PKIndex}

MCMariaDatabases ==
  {<<Tbl(<<t>>, TRUE, l1), Tbl(<<u>>, FALSE, l2)>> :
     l1 \in Lists(MCMariaKinds, 3), l2 \in Lists({Named(<<a>>), Unnamed(<<b>>)}, 1)}

\* The theorem on the round trip assumes it.
ASSUME MCNoneIsItsColumn == \A d \in MCMariaDatabases : NoneIsItsColumn(d)

SmallDatabases == [d \in Dialects |-> IF d = "mariadb" THEN MCMariaDatabases ELSE MCDatabases]
=============================================================================
