------------------------------- MODULE MCDump -------------------------------
(***************************************************************************)
(* Two tables that refer to themselves and to each other, with and without *)
(* records, declared in either order.  Where their records are consistent  *)
(* a database may still not take them as they are written: they may have   *)
(* two refs of one column, a key that is left out, names that PostgreSQL   *)
(* needs for its own, or a second column that counts up.                   *)
(***************************************************************************)
EXTENDS Dump

Col(name, type, pk) ==
  [name |-> name, type |-> type, notnull |-> FALSE, pk |-> pk, unique |-> FALSE, inc |-> FALSE]

Tbl(name, more, records) ==
  [name |-> name, key |-> "", records |-> records,
   cols |-> <<Col("id", <<"int">>, TRUE)>> \o more,
   indexes |-> <<[name |-> name \o "_idx", keys |-> <<"id">>, unique |-> FALSE]>>]

RefCol(name) == Col(name, <<"int">>, FALSE)

End(table, col, rel) == [table |-> table, cols |-> <<col>>, rel |-> rel]

\* a.up refers to a, a.b_id to b and b.a_id to a.
SelfRef == <<End("a", "up", "*"), End("a", "id", "1")>>
ToB     == <<End("b", "id", "1"), End("a", "b_id", "*")>>
ToA     == <<End("b", "a_id", "1"), End("a", "id", "1")>>
Many    == <<End("a", "b_id", "*"), End("b", "a_id", "*")>>

ARows == {<<>>,
          <<[id |-> "1", up |-> "2", b_id |-> "1"], [id |-> "2", up |-> Null, b_id |-> Null]>>}
BRows == {<<>>, <<[id |-> "1", a_id |-> "2"]>>}

Declared(refs, arows, brows, orders) ==
  {[enums |-> <<[name |-> "e", values |-> <<"v">>]>>, fks |-> <<>>, normalized |-> FALSE,
    refs |-> r,
    tables |-> [i \in 1 .. 2 |->
      IF o[i] = "a"
      THEN Tbl("a", <<RefCol("up"), RefCol("b_id"), Col("kind", <<"enum", "e">>, FALSE)>>, ar)
      ELSE Tbl("b", <<RefCol("a_id")>>, br)]] :
     r \in refs, ar \in arows, br \in brows, o \in orders}

Orders == {<<"a", "b">>, <<"b", "a">>}

\* The records are consistent: a row of a only refers to b where b has rows,
\* and the other way round.
Consistency(db) ==
  LET all == UNION {TupleRows(db.tables[i].name, db.tables[i].records) : i \in {1, 2}}
  IN  \A fk \in ToSet(ForeignKeys(db)) : Holds(fk, all)

RefSets == {SetToSeq(s) : s \in SUBSET {SelfRef, ToB, ToA, Many}}

\* b counts up in n, its key may be (id, n) with id unique, and it may be an enum too;
\* a has an index and a key of any name, and refers to b and itself by one column.
OneColumn == {<<ToB>>, <<ToB, <<End("a", "b_id", "*"), End("a", "id", "1")>>>>}

Awkward ==
  {[enums |-> <<[name |-> e, values |-> <<"v">>]>>, fks |-> <<>>, normalized |-> FALSE,
    refs |-> r,
    tables |-> [i \in 1 .. 2 |->
      IF o[i] = "a"
      THEN [Tbl("a", <<RefCol("b_id")>>, <<[id |-> "1", b_id |-> "1"]>>) EXCEPT
              !.indexes[1].name = x, !.key = k]
      ELSE [Tbl("b", <<[RefCol("a_id") EXCEPT !.unique = TRUE],
                       [Col("n", <<"serial">>, composite) EXCEPT !.unique = FALSE]>>,
                <<[id |-> "1", a_id |-> "1", n |-> "1"]>>) EXCEPT !.cols[1].unique = TRUE]]] :
     e \in {"e", "b"}, r \in OneColumn, x \in {"a_idx", "b_pkey", "b_a_id_key", "b_n_seq"},
     k \in {"", "b", "b_idx"}, composite \in BOOLEAN, o \in Orders}

ConsistentSchemas ==
  Awkward \cup {db \in Declared(RefSets, ARows, BRows, Orders) : Consistency(db)}
=============================================================================
