-------------------------- MODULE IndexNamesProofs --------------------------
(* Proofs about the index-name resolver, for every dialect, every limit    *)
(* and every schema.                                                       *)
EXTENDS IndexNames, BasicLemmas, SequenceTheorems, FiniteSetTheorems, TLAPS

-----------------------------------------------------------------------------
(* Identifiers. *)

\* A bounded non-empty set of naturals has a largest element: Cut is defined.
LEMMA MaxInSet ==
  ASSUME NEW k \in Nat, NEW S \in SUBSET (0 .. k), S # {}
  PROVE  Max(S) \in S /\ \A y \in S : y <= Max(S)
<1>1. PICK x \in S : \A y \in S : y <= x
  BY HasGreatest
<1>2. \A y \in S : x >= y
  BY <1>1
<1> QED BY <1>2 DEF Max

\* The empty name fits, whatever the limit.
LEMMA EmptyFits == <<>> \in Name /\ Fits(<<>>)
<1>1. {i \in DOMAIN <<>> : <<>>[i] \in Wide} = {}
  OBVIOUS
<1>2. Cardinality({}) = 0
  BY FS_EmptySet
<1>3. Bytes(<<>>) = 0
  BY <1>1, <1>2 DEF Bytes
<1> QED BY <1>3, LimitAssumption DEF Fits, Name

\* Cutting a name for a tail that fits alone gives a name that fits with it.
LEMMA CutFits ==
  ASSUME NEW name \in Name, NEW tail \in Name, Fits(tail)
  PROVE  /\ Cut(name, tail) \in Name
         /\ Cut(name, tail) \o tail \in Name
         /\ Fits(Cut(name, tail) \o tail)
<1> DEFINE S == {k \in 0 .. Len(name) : Fits(SubSeq(name, 1, k) \o tail)}
           m == Max(S)
<1>1. Len(name) \in Nat
  BY DEF Name
<1>2. 0 \in S
  <2>1. SubSeq(name, 1, 0) = <<>>
    BY SubSeqEmpty DEF Name
  <2>2. <<>> \o tail = tail
    BY ConcatEmptySeq DEF Name
  <2>3. Fits(SubSeq(name, 1, 0) \o tail)
    BY <2>1, <2>2, Zenon
  <2>4. 0 \in 0 .. Len(name)
    BY <1>1
  <2> QED BY <2>3, <2>4, Zenon
<1>3. m \in S
  <2> HIDE DEF S
  <2>1. S \in SUBSET (0 .. Len(name))
    BY DEF S
  <2> QED BY <1>1, <1>2, <2>1, MaxInSet
<1>4. m \in 0 .. Len(name) /\ Fits(SubSeq(name, 1, m) \o tail)
  BY <1>3
<1>5. Cut(name, tail) = SubSeq(name, 1, m)
  BY DEF Cut
<1>6. SubSeq(name, 1, m) \in Seq(Nat)
  <2> HIDE DEF m
  <2> QED BY <1>1, <1>4, SubSeqProperties DEF Name
<1>7. SubSeq(name, 1, m) \o tail \in Seq(Nat)
  <2> HIDE DEF m
  <2> QED BY <1>6, ConcatProperties DEF Name
<1> QED BY <1>4, <1>5, <1>6, <1>7 DEF Name

\* truncateIdent returns a name the database takes.
LEMMA TruncateFits ==
  ASSUME NEW name \in Name
  PROVE  Truncate(name) \in Name /\ Fits(Truncate(name))
<1>1. CASE Fits(name)
  BY <1>1 DEF Truncate
<1>2. CASE ~Fits(name)
  <2>1. /\ Cut(name, <<>>) \in Name
        /\ Fits(Cut(name, <<>>) \o <<>>)
    BY EmptyFits, CutFits
  <2>2. Cut(name, <<>>) \o <<>> = Cut(name, <<>>)
    BY <2>1, ConcatEmptySeq DEF Name
  <2> QED BY <1>2, <2>1, <2>2 DEF Truncate
<1> QED BY <1>1, <1>2

\* A number of up to two digits fits.
LEMMA NumberFits ==
  ASSUME NEW k \in 1 .. MaxNumber
  PROVE  Itoa(k) \in Name /\ Fits(Itoa(k))
<1>1. k \in 1 .. 99
  BY NumberAssumption
<1>2. Itoa(k) \in Seq(0 .. 9) /\ Len(Itoa(k)) <= 2 /\ Len(Itoa(k)) \in Nat
  <2>1. CASE k < 10
    BY <1>1, <2>1 DEF Itoa
  <2>2. CASE k >= 10
    <3>1. k \div 10 \in 0 .. 9 /\ k % 10 \in 0 .. 9
      BY <1>1, <2>2, SMT
    <3>2. Itoa(k) = <<k \div 10, k % 10>>
      BY <1>1, <2>2 DEF Itoa
    <3>3. \A x, y \in 0 .. 9 : /\ <<x, y>> \in Seq(0 .. 9)
                               /\ Len(<<x, y>>) = 2
      OBVIOUS
    <3> QED BY <3>1, <3>2, <3>3
  <2> QED BY <1>1, <2>1, <2>2
<1>3. {i \in DOMAIN Itoa(k) : Itoa(k)[i] \in Wide} = {}
  BY <1>2, LimitAssumption, ElementOfSeq
<1>4. Bytes(Itoa(k)) = Len(Itoa(k))
  <2>1. Cardinality({i \in DOMAIN Itoa(k) : Itoa(k)[i] \in Wide}) = 0
    BY <1>3, FS_EmptySet, Zenon
  <2>2. Bytes(Itoa(k)) = Len(Itoa(k)) + 0
    BY <2>1 DEF Bytes
  <2> QED BY <1>2, <2>2
<1>5. Itoa(k) \in Seq(Nat)
  BY <1>2, SeqMonotonic
<1> QED BY <1>2, <1>4, <1>5, LimitAssumption DEF Fits, Name

\* withSuffix returns a name the database takes, number included.
LEMMA WithSuffixFits ==
  ASSUME NEW name \in Name, NEW k \in 1 .. MaxNumber
  PROVE  WithSuffix(name, k) \in Name /\ Fits(WithSuffix(name, k))
BY NumberFits, CutFits DEF WithSuffix

-----------------------------------------------------------------------------
(* The first passes. *)

LEMMA SlotType ==
  ASSUME NEW d \in Seq(Table), NEW s \in Slots(d)
  PROVE  /\ s \in (Nat \ {0}) \X (Nat \ {0})
         /\ s[1] \in DOMAIN d /\ s[2] \in DOMAIN d[s[1]].indexes
         /\ d[s[1]] \in Table
         /\ IndexAt(d, s) \in Index
<1>1. PICK t \in DOMAIN d : s \in {t} \X DOMAIN d[t].indexes
  BY DEF Slots
<1>2. s[1] = t /\ s[2] \in DOMAIN d[t].indexes /\ s = <<s[1], s[2]>>
  BY <1>1
<1>3. d[t] \in Table /\ t \in Nat \ {0}
  BY ElementOfSeq
<1>4. d[t].indexes \in Seq(Index)
  BY <1>3 DEF Table
<1>5. d[t].indexes[s[2]] \in Index /\ s[2] \in Nat \ {0}
  BY <1>2, <1>4, ElementOfSeq
<1> QED BY <1>2, <1>3, <1>5 DEF IndexAt

LEMMA DefaultNameType ==
  ASSUME NEW tbl \in Table, NEW idx \in Index
  PROVE  DefaultName(tbl, idx) \in Name
<1> DEFINE keys == [i \in 1 .. 2 * Len(idx.keys) |->
                      IF i % 2 = 1 THEN US ELSE idx.keys[i \div 2]]
<1>1. idx.keys \in Seq(Nat) /\ tbl.name \in Seq(Nat)
  BY DEF Index, Table, Name
<1>2. Len(idx.keys) \in Nat /\ 2 * Len(idx.keys) \in Nat
  BY <1>1
<1>3. ASSUME NEW i \in 1 .. 2 * Len(idx.keys)
      PROVE  (IF i % 2 = 1 THEN US ELSE idx.keys[i \div 2]) \in Nat
  <2>1. CASE i % 2 = 1
    BY <2>1 DEF US
  <2>2. CASE i % 2 # 1
    <3>1. i \div 2 \in 1 .. Len(idx.keys)
      BY <1>2, <2>2, SMT
    <3> QED BY <1>1, <2>2, <3>1, ElementOfSeq
  <2> QED BY <2>1, <2>2
<1>4. keys \in Seq(Nat)
  BY <1>2, <1>3, IsASeq
<1>5. <<US, IDX>> \in Seq(Nat)
  BY DEF US, IDX
<1>6. tbl.name \o keys \in Seq(Nat)
  <2> HIDE DEF keys
  <2> QED BY <1>1, <1>4, ConcatProperties
<1>7. (tbl.name \o keys) \o <<US, IDX>> \in Seq(Nat)
  <2> HIDE DEF keys
  <2> QED BY <1>5, <1>6, ConcatProperties
<1> QED BY <1>7 DEF DefaultName, Name

LEMMA BaseFits ==
  ASSUME NEW tbl \in Table, NEW idx \in Index
  PROVE  Base(tbl, idx) \in Name /\ Fits(Base(tbl, idx))
<1>1. idx.name \in Name
  BY DEF Index
<1> QED BY <1>1, EmptyFits, TruncateFits, DefaultNameType DEF Base

LEMMA PrefixedFits ==
  ASSUME NEW d \in Seq(Table), NEW s \in Slots(d)
  PROVE  Prefixed(d, s) \in Name /\ Fits(Prefixed(d, s))
<1> DEFINE name == Base(d[s[1]], IndexAt(d, s))
           long == d[s[1]].name \o <<US>> \o name
<1>1. d[s[1]] \in Table /\ IndexAt(d, s) \in Index
  BY SlotType
<1>2. name \in Name /\ Fits(name)
  BY <1>1, BaseFits
<1>3. long \in Name
  <2> HIDE DEF name
  <2>1. d[s[1]].name \in Seq(Nat) /\ <<US>> \in Seq(Nat)
    BY <1>1 DEF Table, Name, US
  <2> QED BY <1>2, <2>1, ConcatProperties DEF Name
<1>4. Truncate(long) \in Name /\ Fits(Truncate(long))
  <2> HIDE DEF long
  <2> QED BY <1>3, TruncateFits
<1> QED BY <1>2, <1>4 DEF Prefixed

-----------------------------------------------------------------------------
(* Reading the schema back. *)

\* A table and its indexes, and the names they have.
LEMMA TableTypes ==
  ASSUME db \in Seq(Table), names \in [Slots(db) -> Name], NEW t \in DOMAIN db
  PROVE  /\ db[t] \in Table
         /\ Len(db[t].indexes) \in Nat
         /\ DOMAIN db[t].indexes = 1 .. Len(db[t].indexes)
         /\ \A i \in DOMAIN db[t].indexes : db[t].indexes[i] \in Index
         /\ \A i \in DOMAIN db[t].indexes : <<t, i>> \in Slots(db) /\ names[<<t, i>>] \in Name
<1>1. db[t] \in Table
  BY ElementOfSeq
<1>2. db[t].indexes \in Seq(Index)
  BY <1>1 DEF Table
<1>3. \A i \in DOMAIN db[t].indexes : <<t, i>> \in Slots(db)
  BY DEF Slots
<1> QED BY <1>1, <1>2, <1>3, ElementOfSeq, LenProperties

\* Finitely many indexes are reported of a table.
LEMMA ReportedFinite ==
  ASSUME db \in Seq(Table), names \in [Slots(db) -> Name], NEW t \in DOMAIN db
  PROVE  ReportedIndexes(t) \in SUBSET Index /\ IsFiniteSet(ReportedIndexes(t))
<1> DEFINE I == {x \in DOMAIN db[t].indexes :
                   Creates(db[t].indexes[x]) /\ ~ReadAsColumn(t, x)}
           r(i) == [db[t].indexes[i] EXCEPT
                      !.name = IF db[t].indexes[i].pk THEN @ ELSE names[<<t, i>>]]
<1>1. \A i \in I : r(i) \in Index
  BY TableTypes DEF Index
<1>2. IsFiniteSet(1 .. Len(db[t].indexes))
  BY TableTypes, FS_Interval
<1>3. IsFiniteSet(I)
  BY TableTypes, <1>2, FS_Subset
<1>4. ReportedIndexes(t) = {r(i) : i \in I}
  BY DEF ReportedIndexes
<1>5. IsFiniteSet({r(i) : i \in I})
  <2> HIDE DEF I, r
  <2> DEFINE f == [i \in I |-> r(i)]
  <2>1. f \in Surjection(I, {r(i) : i \in I})
    BY DEF Surjection
  <2> QED BY <1>3, <2>1, FS_Surjection
<1>6. \A x \in {r(i) : i \in I} : x \in Index
  <2> HIDE DEF I, r
  <2> QED BY <1>1
<1> QED BY <1>4, <1>5, <1>6

LEMMA ReportedType ==
  ASSUME db \in Seq(Table), names \in [Slots(db) -> Name]
  PROVE  Reported \subseteq Seq(Table)
<1>1. ASSUME NEW t \in DOMAIN db
      PROVE  db[t] \in Table
  BY TableTypes
<1>2. ASSUME NEW t \in DOMAIN db
      PROVE  ReportedIndexes(t) \in SUBSET Index /\ IsFiniteSet(ReportedIndexes(t))
  BY ReportedFinite
<1>3. ASSUME NEW t \in DOMAIN db
      PROVE  ReportedTables(t) \subseteq Table
  <2>1. SUFFICES ASSUME NEW list \in SetToSeqs(ReportedIndexes(t))
                 PROVE  [db[t] EXCEPT !.cols = ReportedColumns(t), !.indexes = list] \in Table
    BY DEF ReportedTables
  <2>2. list \in Seq(Index)
    <3>1. Cardinality(ReportedIndexes(t)) \in Nat
      BY <1>2, FS_CardinalityType
    <3>2. list \in [1 .. Cardinality(ReportedIndexes(t)) -> Index]
      BY <1>2 DEF SetToSeqs
    <3> QED BY <3>1, <3>2
  <2>3. ReportedColumns(t) \in Seq(Column)
    <3>1. db[t].cols \in Seq(Column)
      BY <1>1 DEF Table
    <3>2. DOMAIN db[t].cols = 1 .. Len(db[t].cols) /\ Len(db[t].cols) \in Nat
      BY <3>1, LenProperties
    <3>3. ASSUME NEW c \in DOMAIN db[t].cols, NEW u \in BOOLEAN
          PROVE  [db[t].cols[c] EXCEPT !.unique = u] \in Column
      <4>1. db[t].cols[c] \in Column
        BY <3>1, ElementOfSeq
      <4>2. \A r \in Column : [r EXCEPT !.unique = u] \in Column
        BY DEF Column
      <4> QED BY <4>1, <4>2
    <3>4. ASSUME NEW c \in DOMAIN db[t].cols
          PROVE  (db[t].cols[c].unique \/ \E i \in DOMAIN db[t].indexes :
                    ReadAsColumn(t, i) /\ names[<<t, i>>] = <<db[t].cols[c].name>>) \in BOOLEAN
      OBVIOUS
    <3>5. \A c \in DOMAIN db[t].cols : ReportedColumns(t)[c] \in Column
      BY <3>3, <3>4, Zenon DEF ReportedColumns
    <3>6. ReportedColumns(t) = [c \in 1 .. Len(db[t].cols) |-> ReportedColumns(t)[c]]
      BY <3>2, Zenon DEF ReportedColumns
    <3>7. ReportedColumns(t) \in [1 .. Len(db[t].cols) -> Column]
      BY <3>2, <3>5, <3>6
    <3> QED BY <3>2, <3>7
  <2> QED BY <1>1, <2>2, <2>3 DEF Table
<1>4. SUFFICES ASSUME NEW d \in Reported
               PROVE  d \in Seq(Table)
  OBVIOUS
<1>5. d \in [1 .. Len(db) -> UNION {ReportedTables(t) : t \in DOMAIN db}]
  <2>1. DOMAIN db = 1 .. Len(db)
    BY LenProperties
  <2> QED BY <2>1, Zenon DEF Reported
<1>6. d \in [1 .. Len(db) -> Table]
  BY <1>3, <1>5
<1> QED BY <1>6

-----------------------------------------------------------------------------
(* The resolver keeps its types, and every name it considers fits. *)

TypeInv == TypeOK /\ (\A s \in Slots(db) : Fits(base[s])) /\ AllFit

\* The dialect stays, and with it what depends on it.
LEMMA DialectStays ==
  ASSUME UNCHANGED dialect
  PROVE  /\ \A name : Fits(name)' <=> Fits(name)
         /\ \A tbl : ScopeOf(tbl)' = ScopeOf(tbl)
BY DEF Fits, ScopeOf

LEMMA InitTypeInv == Init => TypeInv
<1> SUFFICES ASSUME Init PROVE TypeInv
  OBVIOUS
<1>1. db \in Seq(Table)
  BY DatabaseAssumption DEF Init
<1>2. base \in [Slots(db) -> Name] /\ \A s \in Slots(db) : Fits(base[s])
  BY <1>1, PrefixedFits DEF Init
<1> QED BY <1>1, <1>2, NumberAssumption DEF Init, TypeInv, TypeOK, AllFit

LEMMA NextTypeInv == TypeInv /\ [Next]_vars => TypeInv'
<1> SUFFICES ASSUME TypeInv, [Next]_vars PROVE TypeInv'
  OBVIOUS
<1> USE DEF TypeInv, TypeOK, AllFit
<1>0. UNCHANGED dialect /\ \A name : Fits(name)' <=> Fits(name)
  <2>1. UNCHANGED dialect
    BY DEF Next, NextTable, SkipPK, Number, Claim, Reload, Done, vars
  <2> QED BY <2>1, DialectStays
<1>1. CASE NextTable
  BY <1>0, <1>1 DEF NextTable
<1>2. CASE SkipPK
  BY <1>0, <1>2 DEF SkipPK
<1>3. CASE Number
  <2>1. n \in 1 .. MaxNumber
    BY <1>3, NumberAssumption DEF Number
  <2>2. at \in Slots(db)
    <3>1. at[1] \in DOMAIN db /\ at[2] \in 1 .. Len(db[at[1]].indexes)
      BY <1>3 DEF Number, AtIndex, Finished
    <3>2. db[at[1]] \in Table
      BY <3>1, ElementOfSeq
    <3>3. db[at[1]].indexes \in Seq(Index)
      BY <3>2 DEF Table
    <3> QED BY <3>1, <3>3 DEF Slots
  <2>3. /\ WithSuffix(base[at], n) \in Name
        /\ Fits(WithSuffix(base[at], n))
    BY <2>1, <2>2, WithSuffixFits
  <2>4. names' \in [Slots(db) -> Name] /\ \A s \in Slots(db) : Fits(names'[s])
    BY <1>3, <2>2, <2>3 DEF Number
  <2> QED BY <1>0, <1>3, <2>1, <2>4, NumberAssumption DEF Number
<1>4. CASE Claim
  BY <1>0, <1>4, NumberAssumption DEF Claim
<1>5. CASE Reload
  <2>1. db' \in Seq(Table)
    BY <1>5, ReportedType DEF Reload
  <2>2. base' \in [Slots(db') -> Name] /\ \A s \in Slots(db') : Fits(base'[s])
    BY <1>5, <2>1, PrefixedFits DEF Reload
  <2> QED BY <1>0, <1>5, <2>1, <2>2, NumberAssumption DEF Reload
<1>6. CASE UNCHANGED vars
  BY <1>0, <1>6 DEF vars
<1> QED BY <1>1, <1>2, <1>3, <1>4, <1>5, <1>6 DEF Next, Done

\* Type correctness.
THEOREM TypeCorrect == Spec => []TypeOK
<1>1. TypeInv => TypeOK
  BY DEF TypeInv
<1> QED BY <1>1, InitTypeInv, NextTypeInv, PTL DEF Spec

\* Every name the resolver gives or tries is one the database takes uncut.
THEOREM NamesFit == Spec => []AllFit
<1>1. TypeInv => AllFit
  BY DEF TypeInv
<1> QED BY <1>1, InitTypeInv, NextTypeInv, PTL DEF Spec

-----------------------------------------------------------------------------
(* No two indexes of one scope get the same name.                          *)
(*                                                                         *)
(* NoClash speaks of the named slots before the loop's position.  It is    *)
(* not inductive alone: that Claim's name is new follows from its absence  *)
(* in taken only because every settled and every reserved name is there.   *)

AllMarked ==
  /\ Reserved(db) \subseteq taken
  /\ \A s \in Settled : Key(s) \in taken

IInv == TypeOK /\ AllMarked /\ NoClash

\* Moving on by one index settles that index and no other.
LEMMA SettleNext ==
  ASSUME TypeOK, at' = <<at[1], at[2] + 1>>, UNCHANGED <<db, names>>
  PROVE  Settled' \subseteq Settled \cup ({at} \cap {s \in Slots(db) : names[s] # <<>>})
<1> SUFFICES ASSUME NEW s \in Slots(db), Before(s, at)', names[s] # <<>>, ~Before(s, at)
             PROVE  s = at
  BY DEF Settled
<1>1. s \in (Nat \ {0}) \X (Nat \ {0}) /\ at \in (Nat \ {0}) \X (Nat \ {0})
  BY SlotType DEF TypeOK
<1> QED BY <1>1 DEF Before

\* Moving on to the next table settles nothing: the loop is behind the last
\* index of its table.
LEMMA SettleNone ==
  ASSUME TypeOK, NextTable
  PROVE  Settled' \subseteq Settled
<1> SUFFICES ASSUME NEW s \in Slots(db), Before(s, at)'
             PROVE  Before(s, at)
  BY DEF Settled, NextTable
<1>1. /\ s \in (Nat \ {0}) \X (Nat \ {0})
      /\ at \in (Nat \ {0}) \X (Nat \ {0})
      /\ s[1] \in DOMAIN db /\ s[2] \in DOMAIN db[s[1]].indexes
  BY SlotType DEF TypeOK
<1>2. db[s[1]].indexes \in Seq(Index)
  <2>1. db[s[1]] \in Table
    BY SlotType DEF TypeOK
  <2> QED BY <2>1 DEF Table
<1>3. s[2] <= Len(db[s[1]].indexes) /\ Len(db[s[1]].indexes) \in Nat
  BY <1>1, <1>2
<1>4. CASE s[1] = at[1]
  <2>1. at[2] > Len(db[s[1]].indexes)
    BY <1>4 DEF NextTable
  <2> QED BY <1>1, <1>3, <1>4, <2>1 DEF Before
<1>5. CASE s[1] # at[1]
  BY <1>1, <1>5 DEF Before, NextTable
<1> QED BY <1>4, <1>5

\* The loop's own slot is not among the settled ones.
LEMMA AtUnsettled == ASSUME TypeOK PROVE at \notin Settled
BY DEF TypeOK, Settled, Before

LEMMA InitIInv == Init => AllMarked /\ NoClash
<1> SUFFICES ASSUME Init PROVE AllMarked /\ NoClash
  OBVIOUS
<1>1. TypeOK
  BY InitTypeInv DEF TypeInv
<1>2. Settled = {}
  <2> SUFFICES ASSUME NEW s \in Slots(db), Before(s, at) PROVE FALSE
    BY DEF Settled
  <2>1. s \in (Nat \ {0}) \X (Nat \ {0}) /\ at = <<1, 1>>
    BY <1>1, SlotType DEF TypeOK, Init
  <2> QED BY <2>1 DEF Before
<1> QED BY <1>2 DEF AllMarked, NoClash, Init

LEMMA NextIInv == TypeOK' /\ IInv /\ [Next]_vars => IInv'
<1> SUFFICES ASSUME TypeOK', IInv, [Next]_vars PROVE AllMarked' /\ NoClash'
  BY DEF IInv
<1>1. CASE NextTable
  <2>1. Settled' \subseteq Settled
    BY <1>1, SettleNone DEF IInv
  <2>2. UNCHANGED <<dialect, db, names, taken>>
    BY <1>1 DEF NextTable
  <2>3. \A s : Key(s)' = Key(s)
    BY <2>2 DEF Key, ScopeOf
  <2>4. Reserved(db)' = Reserved(db)
    BY <2>2 DEF Reserved, ScopeOf
  <2> QED BY <2>1, <2>2, <2>3, <2>4 DEF IInv, AllMarked, NoClash
<1>2. CASE SkipPK
  <2>1. UNCHANGED <<dialect, db, names, taken>> /\ names[at] = <<>>
    BY <1>2 DEF SkipPK
  <2>2. Settled' \subseteq Settled
    BY <1>2, <2>1, SettleNext DEF IInv, SkipPK
  <2>3. \A s : Key(s)' = Key(s)
    BY <2>1 DEF Key, ScopeOf
  <2>4. Reserved(db)' = Reserved(db)
    BY <2>1 DEF Reserved, ScopeOf
  <2> QED BY <2>1, <2>2, <2>3, <2>4 DEF IInv, AllMarked, NoClash
<1>3. CASE Number
  <2>1. UNCHANGED <<dialect, db, taken, at>>
    BY <1>3 DEF Number
  <2>2. \A s \in Slots(db) : s # at => names'[s] = names[s]
    BY <1>3 DEF Number, IInv, TypeOK
  <2>3. Settled' = Settled
    <3>1. ~Before(at, at)
      BY DEF Before, IInv, TypeOK
    <3> QED BY <2>1, <2>2, <3>1 DEF Settled
  <2>4. \A s \in Settled : Key(s)' = Key(s)
    <3>1. \A s \in Settled : s \in Slots(db) /\ s # at
      BY AtUnsettled DEF IInv, Settled
    <3> QED BY <2>1, <2>2, <3>1 DEF Key, ScopeOf
  <2>5. Reserved(db)' = Reserved(db)
    BY <2>1 DEF Reserved, ScopeOf
  <2> QED BY <2>1, <2>3, <2>4, <2>5 DEF IInv, AllMarked, NoClash
<1>4. CASE Claim
  <2>1. UNCHANGED <<dialect, db, names>> /\ taken' = taken \cup {Key(at)} /\ Key(at) \notin taken
    BY <1>4 DEF Claim
  <2>2. Settled' \subseteq Settled \cup {at}
    BY <1>4, <2>1, SettleNext DEF IInv, Claim
  <2>3. \A s : Key(s)' = Key(s)
    BY <2>1 DEF Key, ScopeOf
  <2>4. Reserved(db)' = Reserved(db)
    BY <2>1 DEF Reserved, ScopeOf
  <2>5. AllMarked'
    BY <2>1, <2>2, <2>3, <2>4 DEF IInv, AllMarked
  <2>6. NoClash'
    <3>1. \A s \in Settled : Key(s) # Key(at)
      BY <2>1 DEF IInv, AllMarked
    <3>2. Key(at) \notin Reserved(db)
      BY <2>1 DEF IInv, AllMarked
    <3> QED BY <2>2, <2>3, <2>4, <3>1, <3>2 DEF IInv, NoClash
  <2> QED BY <2>5, <2>6
<1>5. CASE Reload
  <2>1. taken' = Reserved(db)' /\ at' = <<1, 1>>
    BY <1>5 DEF Reload, Reserved, ScopeOf
  <2>2. Settled' = {}
    <3> SUFFICES ASSUME NEW s \in Slots(db'), Before(s, at)' PROVE FALSE
      BY DEF Settled
    <3>1. s \in (Nat \ {0}) \X (Nat \ {0})
      BY SlotType DEF TypeOK
    <3> QED BY <2>1, <3>1 DEF Before
  <2> QED BY <2>1, <2>2 DEF AllMarked, NoClash
<1>6. CASE UNCHANGED vars
  <2>1. UNCHANGED <<dialect, db, names, taken, at>>
    BY <1>6 DEF vars
  <2>2. Settled' = Settled
    BY <2>1 DEF Settled, Before
  <2>3. \A s : Key(s)' = Key(s)
    BY <2>1 DEF Key, ScopeOf
  <2>4. Reserved(db)' = Reserved(db)
    BY <2>1 DEF Reserved, ScopeOf
  <2> QED BY <2>1, <2>2, <2>3, <2>4 DEF IInv, AllMarked, NoClash
<1> QED BY <1>1, <1>2, <1>3, <1>4, <1>5, <1>6 DEF Next, Done

\* The names an index shares its scope with are never given to it: CREATE
\* INDEX finds its name free, and migrate can tell indexes by their names.
THEOREM NamesDistinct == Spec => []NoClash
<1>1. Init => IInv
  BY InitIInv, InitTypeInv DEF IInv, TypeInv
<1>2. IInv /\ TypeOK' /\ [Next]_vars => IInv'
  BY NextIInv
<1>3. IInv => NoClash
  BY DEF IInv
<1> QED BY <1>1, <1>2, <1>3, TypeCorrect, PTL DEF Spec

-----------------------------------------------------------------------------
(* Read back and resolved again, the names stay.                           *)
(*                                                                         *)
(* The names of the first round are names that the database holds, so they *)
(* come back as declared names.  They fit, none is in use twice, and so no *)
(* pass of the second round touches them.  In MariaDB this takes that no   *)
(* index comes back as a UNIQUE column: the names that the passes make are *)
(* longer than a column's (Named).                                         *)

\* A name of one character fits, in MariaDB one of two as well.
LEMMA ShortFits ==
  ASSUME NEW name \in Name, Len(name) <= 1 \/ (dialect = "mariadb" /\ Len(name) <= 2)
  PROVE  Fits(name)
<1> DEFINE wide == {i \in DOMAIN name : name[i] \in Wide}
           l == Len(name)
<1>1. l \in Nat /\ DOMAIN name = 1 .. l
  BY LenProperties DEF Name
<1> HIDE DEF l
<1>2. IsFiniteSet(1 .. l) /\ Cardinality(1 .. l) = l
  BY <1>1, FS_Interval
<1>3. Cardinality(wide) <= l /\ Cardinality(wide) \in Nat
  <2>1. wide \subseteq 1 .. l
    BY <1>1
  <2> HIDE DEF wide
  <2>2. IsFiniteSet(wide) /\ Cardinality(wide) <= Cardinality(1 .. l)
    BY <1>2, <2>1, FS_Subset
  <2> QED BY <1>2, <2>2, FS_CardinalityType
<1>4. Bytes(name) = l + Cardinality(wide)
  BY DEF Bytes, l
<1> HIDE DEF wide
<1> QED BY <1>1, <1>3, <1>4, LimitAssumption DEF Fits, l

\* A cut leaves all that fits.
LEMMA CutLeaves ==
  ASSUME NEW name \in Name, NEW tail \in Name, NEW m \in 0 .. Len(name),
         Fits(SubSeq(name, 1, m) \o tail)
  PROVE  Cut(name, tail) \in Name /\ Len(Cut(name, tail)) >= m
<1> DEFINE S == {k \in 0 .. Len(name) : Fits(SubSeq(name, 1, k) \o tail)}
           x == Max(S)
<1>1. Len(name) \in Nat /\ name \in Seq(Nat)
  BY DEF Name
<1>2. x \in S /\ m <= x
  <2>1. m \in S /\ S \in SUBSET (0 .. Len(name))
    OBVIOUS
  <2> HIDE DEF S
  <2> QED BY <1>1, <2>1, MaxInSet
<1>3. x \in 0 .. Len(name)
  BY <1>2
<1>4. Cut(name, tail) = SubSeq(name, 1, x)
  BY DEF Cut
<1> HIDE DEF x
<1>5. SubSeq(name, 1, x) \in Seq(Nat) /\ Len(SubSeq(name, 1, x)) = x
  BY <1>1, <1>3
<1> QED BY <1>2, <1>3, <1>4, <1>5 DEF Name

\* A name does not get lost in a cut.
LEMMA TruncateLeaves ==
  ASSUME NEW name \in Name, name # <<>>
  PROVE  /\ Truncate(name) # <<>>
         /\ dialect = "mariadb" /\ Len(name) >= 2 => Len(Truncate(name)) >= 2
<1>1. Len(name) \in Nat /\ Len(name) >= 1 /\ name \in Seq(Nat)
  BY DEF Name
<1>2. ASSUME NEW m \in 1 .. 2, m <= Len(name), m = 2 => dialect = "mariadb"
      PROVE  Len(Truncate(name)) >= m
  <2>1. CASE Fits(name)
    BY <1>1, <1>2, <2>1 DEF Truncate
  <2>2. CASE ~Fits(name)
    <3> DEFINE short == SubSeq(name, 1, m)
    <3>1. short \in Seq(Nat) /\ Len(short) = m
      BY <1>1, <1>2
    <3> HIDE DEF short
    <3>2. short \o <<>> = short
      BY <3>1, ConcatEmptySeq
    <3>3. Fits(short)
      BY <1>2, <3>1, ShortFits DEF Name
    <3>4. m \in 0 .. Len(name) /\ Fits(short \o <<>>) /\ <<>> \in Name
      BY <1>1, <1>2, <3>2, <3>3, EmptyFits
    <3>5. Len(Cut(name, <<>>)) >= m
      BY <3>4, CutLeaves DEF short
    <3> QED BY <2>2, <3>5 DEF Truncate
  <2> QED BY <2>1, <2>2
<1>3. Len(Truncate(name)) >= 1
  BY <1>1, <1>2
<1>4. Truncate(name) # <<>>
  BY <1>3
<1>5. dialect = "mariadb" /\ Len(name) >= 2 => Len(Truncate(name)) >= 2
  BY <1>1, <1>2
<1> QED BY <1>4, <1>5

\* A number makes a name of two characters.
LEMMA SuffixLeaves ==
  ASSUME NEW name \in Name, NEW k \in 1 .. MaxNumber
  PROVE  /\ WithSuffix(name, k) # <<>>
         /\ dialect = "mariadb" /\ name # <<>> => Len(WithSuffix(name, k)) >= 2
<1>1. k \in 1 .. 99
  BY NumberAssumption
<1>2. Itoa(k) \in Seq(Nat) /\ Fits(Itoa(k))
  BY NumberFits DEF Name
<1>3. Len(Itoa(k)) >= 1 /\ Len(Itoa(k)) \in Nat /\ (k >= 10 => Len(Itoa(k)) = 2) /\ (k < 10 => Len(Itoa(k)) = 1)
  BY <1>1 DEF Itoa
<1> DEFINE number == Itoa(k)
           cut == Cut(name, number)
<1> HIDE DEF number
<1>4. cut \in Seq(Nat) /\ Len(cut) \in Nat
  BY <1>2, CutFits DEF Name, number
<1>5. Len(WithSuffix(name, k)) = Len(cut) + Len(number)
  <2> HIDE DEF cut
  <2>1. Len(cut \o number) = Len(cut) + Len(number)
    BY <1>2, <1>4 DEF number
  <2> QED BY <2>1 DEF WithSuffix, cut, number
<1>6. Len(WithSuffix(name, k)) >= 1
  BY <1>3, <1>4, <1>5 DEF number
<1>7. ASSUME dialect = "mariadb", name # <<>>, k < 10
      PROVE  Len(cut) >= 1
  <2> DEFINE first == SubSeq(name, 1, 1)
  <2>1. Len(name) \in Nat /\ Len(name) >= 1 /\ name \in Seq(Nat)
    BY <1>7 DEF Name
  <2>2. first \in Seq(Nat) /\ Len(first) = 1
    BY <2>1
  <2> HIDE DEF first, cut
  <2> DEFINE both == first \o number
  <2>3. both \in Seq(Nat) /\ Len(both) = 2
    <3>1. number \in Seq(Nat) /\ Len(number) = 1
      BY <1>2, <1>3, <1>7 DEF number
    <3>2. first \o number \in Seq(Nat) /\ Len(first \o number) = Len(first) + Len(number)
      BY <2>2, <3>1, ConcatProperties
    <3> QED BY <2>2, <3>1, <3>2
  <2> HIDE DEF both
  <2>4. Fits(both)
    <3>1. both \in Name /\ Len(both) <= 2
      BY <2>3 DEF Name
    <3> QED BY <1>7, <3>1, ShortFits
  <2>5. number \in Name /\ 1 \in 0 .. Len(name) /\ Fits(SubSeq(name, 1, 1) \o number)
    BY <1>2, <2>1, <2>4 DEF Name, number, first, both
  <2> QED BY <2>5, CutLeaves DEF cut
<1>8. dialect = "mariadb" /\ name # <<>> => Len(WithSuffix(name, k)) >= 2
  <2> HIDE DEF cut
  <2> QED BY <1>1, <1>3, <1>4, <1>5, <1>7 DEF number
<1>9. WithSuffix(name, k) # <<>>
  BY <1>6
<1> QED BY <1>8, <1>9

\* The name of an index is no name of a column, unless it was declared so.
Named(idx, name) ==
  /\ name # <<>>
  /\ dialect = "mariadb" => Len(name) >= 2 \/ name = idx.name

LEMMA DefaultNameLong ==
  ASSUME NEW tbl \in Table, NEW idx \in Index
  PROVE  Len(DefaultName(tbl, idx)) >= 2
<1> DEFINE keys == [i \in 1 .. 2 * Len(idx.keys) |->
                      IF i % 2 = 1 THEN US ELSE idx.keys[i \div 2]]
<1>1. DefaultName(tbl, idx) \in Seq(Nat)
  BY DefaultNameType DEF Name
<1>2. DefaultName(tbl, idx) = (tbl.name \o keys) \o <<US, IDX>>
  BY DEF DefaultName
<1>3. Len(tbl.name) \in Nat /\ tbl.name \in Seq(Nat) /\ Len(idx.keys) \in Nat
  BY DEF Table, Index, Name
<1>4. Len(keys) = 2 * Len(idx.keys)
  BY <1>3
<1> HIDE DEF keys
<1>5. Len(tbl.name \o keys) = Len(tbl.name) + Len(keys)
  OBVIOUS
<1>6. Len((tbl.name \o keys) \o <<US, IDX>>) = Len(tbl.name \o keys) + 2
  OBVIOUS
<1> QED BY <1>2, <1>3, <1>4, <1>5, <1>6

LEMMA BaseNamed ==
  ASSUME NEW tbl \in Table, NEW idx \in Index, ~idx.pk
  PROVE  Base(tbl, idx) \in Name /\ Named(idx, Base(tbl, idx))
<1>1. idx.name \in Name /\ Base(tbl, idx) \in Name
  BY BaseFits DEF Index
<1>2. CASE idx.name = <<>>
  <2> DEFINE name == DefaultName(tbl, idx)
  <2>1. name \in Name /\ Len(name) >= 2
    BY DefaultNameType, DefaultNameLong
  <2> HIDE DEF name
  <2>2. name # <<>>
    BY <2>1
  <2>3. Truncate(name) # <<>> /\ (dialect = "mariadb" => Len(Truncate(name)) >= 2)
    BY <2>1, <2>2, TruncateLeaves
  <2>4. Base(tbl, idx) = Truncate(name)
    BY <1>2 DEF Base, name
  <2> QED BY <1>1, <2>3, <2>4 DEF Named
<1>3. CASE idx.name # <<>>
  <2> DEFINE name == idx.name
  <2>1. Truncate(name) # <<>> /\ (dialect = "mariadb" /\ Len(name) >= 2 => Len(Truncate(name)) >= 2)
    BY <1>1, <1>3, TruncateLeaves
  <2>2. Len(name) \in Nat
    BY <1>1 DEF Name
  <2>3. dialect = "mariadb" /\ Len(name) < 2 => Truncate(name) = name
    BY <1>1, <2>2, ShortFits DEF Truncate
  <2>4. Base(tbl, idx) = Truncate(name)
    BY <1>3 DEF Base
  <2> QED BY <1>1, <2>1, <2>2, <2>3, <2>4 DEF Named
<1> QED BY <1>2, <1>3

\* What the first passes make of a name.
LEMMA PrefixedNamed ==
  ASSUME NEW d \in Seq(Table), NEW s \in Slots(d)
  PROVE  /\ IndexAt(d, s).pk => Prefixed(d, s) = <<>>
         /\ ~IndexAt(d, s).pk => Named(IndexAt(d, s), Prefixed(d, s))
<1> DEFINE tbl == d[s[1]]
           idx == IndexAt(d, s)
           name == Base(tbl, idx)
           long == tbl.name \o <<US>> \o name
<1>1. tbl \in Table /\ idx \in Index
  BY SlotType
<1>2. name \in Name
  BY <1>1, BaseFits
<1>3. Prefixed(d, s) = name \/ (name # <<>> /\ Prefixed(d, s) = Truncate(long))
  BY DEF Prefixed
<1>4. CASE idx.pk
  <2>1. name = <<>>
    BY <1>4 DEF Base
  <2> QED BY <1>3, <1>4, <2>1
<1>5. CASE ~idx.pk
  <2> HIDE DEF tbl, idx
  <2>1. Named(idx, name)
    BY <1>1, <1>5, BaseNamed
  <2>2. long \in Name /\ Len(long) >= 2
    <3> HIDE DEF name
    <3>1. tbl.name \in Seq(Nat) /\ <<US>> \in Seq(Nat) /\ Len(<<US>>) = 1 /\ name \in Seq(Nat) /\ name # <<>>
      BY <1>1, <1>2, <2>1 DEF Table, Name, US, Named
    <3>2. tbl.name \o <<US>> \in Seq(Nat) /\ Len(tbl.name \o <<US>>) = Len(tbl.name) + 1
      BY <3>1
    <3> DEFINE begin == tbl.name \o <<US>>
    <3> HIDE DEF begin
    <3>3. begin \o name \in Seq(Nat) /\ Len(begin \o name) = Len(begin) + Len(name)
      BY <3>1, <3>2 DEF begin
    <3> QED BY <3>1, <3>2, <3>3 DEF begin, Name
  <2> HIDE DEF long
  <2>3. long # <<>>
    BY <2>2
  <2>4. Named(idx, Truncate(long))
    BY <2>2, <2>3, TruncateLeaves DEF Named
  <2> HIDE DEF name
  <2> QED BY <1>3, <1>5, <2>1, <2>4 DEF idx
<1> QED BY <1>4, <1>5

\* Tables are told apart by schema and name, and no index is read as a column.
Readable ==
  /\ db \in Seq(Table) /\ names \in [Slots(db) -> Name]
  /\ \A t, u \in DOMAIN db : t # u => <<db[t].schema, db[t].name>> # <<db[u].schema, db[u].name>>
  /\ \A t \in DOMAIN db : \A i \in DOMAIN db[t].indexes : ~ReadAsColumn(t, i)

\* An index that comes from index i of table t, under the name it was given.
Comes(idx, t, i) ==
  /\ Creates(db[t].indexes[i])
  /\ idx = [db[t].indexes[i] EXCEPT !.name = IF db[t].indexes[i].pk THEN @ ELSE names[<<t, i>>]]

\* A table comes back with its columns, and with the indexes it was created
\* with, each of them once.
LEMMA TableRead ==
  ASSUME Readable, NEW t \in DOMAIN db, NEW tbl \in ReportedTables(t)
  PROVE  /\ tbl.schema = db[t].schema /\ tbl.name = db[t].name /\ tbl.cols = db[t].cols
         /\ \A j \in DOMAIN tbl.indexes : \E i \in DOMAIN db[t].indexes : Comes(tbl.indexes[j], t, i)
         /\ \A i \in DOMAIN db[t].indexes :
              Creates(db[t].indexes[i]) => \E j \in DOMAIN tbl.indexes : Comes(tbl.indexes[j], t, i)
         /\ \A j, k \in DOMAIN tbl.indexes : tbl.indexes[j] = tbl.indexes[k] => j = k
<1> DEFINE S == ReportedIndexes(t)
           N == Cardinality(S)
<1>1. PICK list \in SetToSeqs(S) : tbl = [db[t] EXCEPT !.cols = ReportedColumns(t), !.indexes = list]
  BY DEF ReportedTables
<1>2. db[t] \in Table
  BY TableTypes DEF Readable
<1>3. IsFiniteSet(S) /\ N \in Nat
  BY ReportedFinite, FS_CardinalityType DEF Readable
<1>4. list \in [1 .. N -> S] /\ \A i, j \in 1 .. N : i # j => list[i] # list[j]
  BY <1>1 DEF SetToSeqs
<1>5. /\ tbl.schema = db[t].schema /\ tbl.name = db[t].name
      /\ tbl.cols = ReportedColumns(t) /\ tbl.indexes = list
  BY <1>1, <1>2 DEF Table
<1>6. ReportedColumns(t) = db[t].cols
  <2>1. db[t].cols \in Seq(Column)
    BY <1>2 DEF Table
  <2>2. \A i \in DOMAIN db[t].indexes : ~ReadAsColumn(t, i)
    BY DEF Readable
  <2>3. ReportedColumns(t) = [c \in DOMAIN db[t].cols |-> [db[t].cols[c] EXCEPT !.unique = db[t].cols[c].unique \/ FALSE]]
    BY <2>2 DEF ReportedColumns
  <2>4. ASSUME NEW c \in DOMAIN db[t].cols
        PROVE  [db[t].cols[c] EXCEPT !.unique = db[t].cols[c].unique \/ FALSE] = db[t].cols[c]
    <3>1. db[t].cols[c] \in Column
      BY <2>1, ElementOfSeq
    <3>2. \A col \in Column : [col EXCEPT !.unique = col.unique \/ FALSE] = col
      BY DEF Column
    <3> QED BY <3>1, <3>2
  <2>5. ReportedColumns(t) = [c \in DOMAIN db[t].cols |-> db[t].cols[c]]
    BY <2>3, <2>4
  <2>6. DOMAIN db[t].cols = 1 .. Len(db[t].cols) /\ db[t].cols = [c \in DOMAIN db[t].cols |-> db[t].cols[c]]
    BY <2>1
  <2> QED BY <2>5, <2>6
<1>7. \A x \in S : \E i \in DOMAIN db[t].indexes : Comes(x, t, i)
  BY DEF ReportedIndexes, Comes
<1>8. ASSUME NEW i \in DOMAIN db[t].indexes, Creates(db[t].indexes[i])
      PROVE  \E x \in S : Comes(x, t, i)
  BY <1>8 DEF ReportedIndexes, Comes, Readable
<1> HIDE DEF S
<1>9. \A x \in S : \E j \in 1 .. N : list[j] = x
  <2>1. list \in Injection(1 .. N, S)
    BY <1>4 DEF Injection, IsInjective
  <2>2. IsFiniteSet(1 .. N) /\ Cardinality(1 .. N) = N
    BY <1>3, FS_Interval
  <2>3. list \in Surjection(1 .. N, S)
    BY <1>3, <2>1, <2>2, FS_Injection
  <2> QED BY <2>3 DEF Surjection
<1> HIDE DEF N
<1>10. DOMAIN list = 1 .. N
  BY <1>4
<1>11. \A j \in DOMAIN list : \E i \in DOMAIN db[t].indexes : Comes(list[j], t, i)
  BY <1>4, <1>7, <1>10
<1>12. \A i \in DOMAIN db[t].indexes : Creates(db[t].indexes[i]) => \E j \in DOMAIN list : Comes(list[j], t, i)
  BY <1>8, <1>9, <1>10
<1>13. \A j, k \in DOMAIN list : list[j] = list[k] => j = k
  BY <1>4, <1>10
<1> QED BY <1>5, <1>6, <1>11, <1>12, <1>13

\* Every table comes back at one place.
LEMMA TablesRead ==
  ASSUME Readable, NEW d \in Reported
  PROVE  /\ DOMAIN d = DOMAIN db
         /\ \A i \in DOMAIN d : \E t \in DOMAIN db : d[i] \in ReportedTables(t)
         /\ \A t \in DOMAIN db : \E i \in DOMAIN d : d[i] \in ReportedTables(t)
         /\ \A i, j \in DOMAIN d : \A t \in DOMAIN db :
              d[i] \in ReportedTables(t) /\ d[j] \in ReportedTables(t) => i = j
<1>1. /\ DOMAIN d = DOMAIN db
      /\ \A i \in DOMAIN d : \E t \in DOMAIN db : d[i] \in ReportedTables(t)
      /\ \A t \in DOMAIN db : \E i \in DOMAIN d : d[i] \in ReportedTables(t)
  BY DEF Reported
<1> DEFINE D == DOMAIN db
           p == [i \in D |-> CHOOSE t \in D : d[i] \in ReportedTables(t)]
<1>2. \A i \in D : p[i] \in D /\ d[i] \in ReportedTables(p[i])
  BY <1>1
<1>3. ASSUME NEW i \in D, NEW t \in D, d[i] \in ReportedTables(t)
      PROVE  p[i] = t
  <2>1. p[i] \in D /\ d[i] \in ReportedTables(p[i])
    BY <1>2
  <2> HIDE DEF p
  <2>2. /\ d[i].schema = db[t].schema /\ d[i].name = db[t].name
        /\ d[i].schema = db[p[i]].schema /\ d[i].name = db[p[i]].name
    BY <1>3, <2>1, TableRead
  <2> QED BY <2>1, <2>2 DEF Readable
<1>4. p \in [D -> D]
  BY <1>2
<1> HIDE DEF p
<1>5. p \in Surjection(D, D)
  <2>1. \A t \in D : \E i \in D : p[i] = t
    BY <1>1, <1>3
  <2> QED BY <1>4, <2>1 DEF Surjection
<1>6. IsFiniteSet(D)
  <2>1. D = 1 .. Len(db) /\ Len(db) \in Nat
    BY DEF Readable
  <2> QED BY <2>1, FS_Interval
<1>7. p \in Injection(D, D)
  <2> HIDE DEF D
  <2> QED BY <1>5, <1>6, FS_SurjSameCardinalityImpliesInj
<1>8. \A i, j \in D : p[i] = p[j] => i = j
  BY <1>7 DEF Injection, IsInjective
<1>9. ASSUME NEW i \in D, NEW j \in D, NEW t \in D,
             d[i] \in ReportedTables(t), d[j] \in ReportedTables(t)
      PROVE  i = j
  <2>1. p[i] = t
    BY <1>3, <1>9
  <2>2. p[j] = t
    BY <1>3, <1>9
  <2> QED BY <1>8, <2>1, <2>2
<1>10. \A i, j \in D : \A t \in D :
         d[i] \in ReportedTables(t) /\ d[j] \in ReportedTables(t) => i = j
  BY <1>9
<1>11. DOMAIN d = D
  BY <1>1
<1> QED BY <1>1, <1>10, <1>11, Zenon

\* The index at o is the one that came back at s.
Origin(d, s, o) == d[s[1]] \in ReportedTables(o[1]) /\ Comes(IndexAt(d, s), o[1], o[2])

LEMMA OriginIs ==
  ASSUME Readable, NEW d \in Reported
  PROVE  /\ \A s \in Slots(d) : \E o \in Slots(db) : Origin(d, s, o)
         /\ \A o \in Slots(db) : Creates(IndexAt(db, o)) => \E s \in Slots(d) : Origin(d, s, o)
         /\ \A s, r \in Slots(d) : \A o \in Slots(db) : Origin(d, s, o) /\ Origin(d, r, o) => s = r
<1>1. db \in Seq(Table) /\ d \in Seq(Table)
  BY ReportedType DEF Readable
<1>2. ASSUME NEW e \in Seq(Table), NEW i \in DOMAIN e, NEW j \in DOMAIN e[i].indexes
      PROVE  <<i, j>> \in Slots(e)
  BY DEF Slots
<1>3. ASSUME NEW s \in Slots(d)
      PROVE  \E o \in Slots(db) : Origin(d, s, o)
  <2>1. s[1] \in DOMAIN d /\ s[2] \in DOMAIN d[s[1]].indexes
    BY <1>1, SlotType
  <2>2. PICK t \in DOMAIN db : d[s[1]] \in ReportedTables(t)
    BY <2>1, TablesRead
  <2>3. PICK i \in DOMAIN db[t].indexes : Comes(d[s[1]].indexes[s[2]], t, i)
    BY <2>1, <2>2, TableRead
  <2> DEFINE o == <<t, i>>
  <2>4. o \in Slots(db) /\ o[1] = t /\ o[2] = i
    BY <1>1, <1>2
  <2> HIDE DEF o
  <2>5. Origin(d, s, o)
    BY <2>2, <2>3, <2>4 DEF Origin, IndexAt
  <2> QED BY <2>4, <2>5
<1>4. ASSUME NEW o \in Slots(db), Creates(IndexAt(db, o))
      PROVE  \E s \in Slots(d) : Origin(d, s, o)
  <2>1. o[1] \in DOMAIN db /\ o[2] \in DOMAIN db[o[1]].indexes
    BY <1>1, SlotType
  <2>2. PICK i \in DOMAIN d : d[i] \in ReportedTables(o[1])
    BY <2>1, TablesRead
  <2>3. PICK j \in DOMAIN d[i].indexes : Comes(d[i].indexes[j], o[1], o[2])
    BY <1>4, <2>1, <2>2, TableRead DEF IndexAt
  <2> DEFINE s == <<i, j>>
  <2>4. s \in Slots(d) /\ s[1] = i /\ s[2] = j
    BY <1>1, <1>2
  <2> HIDE DEF s
  <2>5. Origin(d, s, o)
    BY <2>2, <2>3, <2>4 DEF Origin, IndexAt
  <2> QED BY <2>4, <2>5
<1>5. ASSUME NEW s \in Slots(d), NEW r \in Slots(d), NEW o \in Slots(db), Origin(d, s, o), Origin(d, r, o)
      PROVE  s = r
  <2>1. /\ s \in (Nat \ {0}) \X (Nat \ {0}) /\ s[1] \in DOMAIN d /\ s[2] \in DOMAIN d[s[1]].indexes
        /\ r \in (Nat \ {0}) \X (Nat \ {0}) /\ r[1] \in DOMAIN d /\ r[2] \in DOMAIN d[r[1]].indexes
        /\ o[1] \in DOMAIN db
    BY <1>1, SlotType
  <2>2. s[1] = r[1]
    BY <1>5, <2>1, TablesRead DEF Origin
  <2>3. d[s[1]].indexes[s[2]] = d[s[1]].indexes[r[2]]
    BY <1>5, <2>2 DEF Origin, Comes, IndexAt
  <2>4. s[2] = r[2]
    BY <1>5, <2>1, <2>2, <2>3, TableRead DEF Origin
  <2> QED BY <2>1, <2>2, <2>4
<1> QED BY <1>3, <1>4, <1>5

\* What an index keeps on the way.
LEMMA OriginKeeps ==
  ASSUME Readable, NEW d \in Reported, NEW s \in Slots(d), NEW o \in Slots(db), Origin(d, s, o)
  PROVE  /\ d[s[1]].schema = db[o[1]].schema /\ d[s[1]].name = db[o[1]].name
         /\ ScopeOf(d[s[1]]) = ScopeOf(db[o[1]])
         /\ IndexAt(d, s).pk = IndexAt(db, o).pk
         /\ IndexAt(d, s).keys = IndexAt(db, o).keys
         /\ IndexAt(d, s).unique = IndexAt(db, o).unique
         /\ ~IndexAt(db, o).pk => IndexAt(d, s).name = names[o]
         /\ Creates(IndexAt(db, o))
<1>1. o[1] \in DOMAIN db /\ IndexAt(db, o) \in Index /\ o = <<o[1], o[2]>>
  BY SlotType DEF Readable
<1>2. d[s[1]].schema = db[o[1]].schema /\ d[s[1]].name = db[o[1]].name
  BY <1>1, TableRead DEF Origin
<1>3. Creates(IndexAt(db, o)) /\
      IndexAt(d, s) = [IndexAt(db, o) EXCEPT !.name = IF IndexAt(db, o).pk THEN @ ELSE names[o]]
  BY <1>1 DEF Origin, Comes, IndexAt
<1>4. ScopeOf(d[s[1]]) = ScopeOf(db[o[1]])
  BY <1>2 DEF ScopeOf
<1> DEFINE x == IndexAt(db, o)
           y == IndexAt(d, s)
<1> HIDE DEF x, y
<1>5. x \in Index /\ y = [x EXCEPT !.name = IF x.pk THEN x.name ELSE names[o]]
  BY <1>1, <1>3 DEF x, y
<1>6. y.pk = x.pk /\ y.keys = x.keys /\ y.unique = x.unique /\ (~x.pk => y.name = names[o])
  BY <1>5 DEF Index
<1> QED BY <1>2, <1>3, <1>4, <1>6 DEF x, y

\* The names of an index are its own, and no reserved ones.
Apart ==
  \A s \in Slots(db) : names[s] # <<>> =>
    /\ Key(s) \notin Reserved(db)
    /\ \A r \in Slots(db) : Key(r) = Key(s) => r = s

\* An index has a name unless it is the primary key.
Nameful == \A s \in Slots(db) : names[s] = <<>> <=> IndexAt(db, s).pk

\* The same names are reserved.
LEMMA ReservedAgain ==
  ASSUME Readable, NEW d \in Reported
  PROVE  Reserved(d) = Reserved(db)
<1>1. /\ DOMAIN d = DOMAIN db
      /\ \A i \in DOMAIN d : \E t \in DOMAIN db : d[i] \in ReportedTables(t)
      /\ \A t \in DOMAIN db : \E i \in DOMAIN d : d[i] \in ReportedTables(t)
  BY TablesRead
<1>2. ASSUME NEW i \in DOMAIN d, NEW t \in DOMAIN db, d[i] \in ReportedTables(t)
      PROVE  ScopeOf(d[i]) = ScopeOf(db[t]) /\ d[i].name = db[t].name /\ d[i].cols = db[t].cols
  <2>1. d[i].schema = db[t].schema /\ d[i].name = db[t].name /\ d[i].cols = db[t].cols
    BY <1>2, TableRead
  <2> QED BY <2>1 DEF ScopeOf
<1>3. CASE dialect = "mariadb"
  <2> DEFINE unique(tbl) == {x \in DOMAIN tbl.cols : tbl.cols[x].unique /\ ~tbl.cols[x].pk}
             own(tbl) == {<<ScopeOf(tbl), <<tbl.cols[c].name>>>> : c \in unique(tbl)}
  <2>1. \A i \in DOMAIN d : \A t \in DOMAIN db : d[i] \in ReportedTables(t) => own(d[i]) = own(db[t])
    BY <1>2
  <2>2. \A e : Reserved(e) = UNION {own(e[t]) : t \in DOMAIN e}
    BY <1>3 DEF Reserved
  <2> HIDE DEF own
  <2>3. {own(d[t]) : t \in DOMAIN d} = {own(db[t]) : t \in DOMAIN db}
    BY <1>1, <2>1
  <2> QED BY <2>2, <2>3
<1>4. CASE dialect # "mariadb"
  <2> DEFINE own(tbl) == <<ScopeOf(tbl), tbl.name>>
  <2>1. \A i \in DOMAIN d : \A t \in DOMAIN db : d[i] \in ReportedTables(t) => own(d[i]) = own(db[t])
    BY <1>2
  <2>2. \A e : Reserved(e) = {own(e[t]) : t \in DOMAIN e}
    BY <1>4 DEF Reserved
  <2> HIDE DEF own
  <2>3. {own(d[t]) : t \in DOMAIN d} = {own(db[t]) : t \in DOMAIN db}
    BY <1>1, <2>1
  <2> QED BY <2>2, <2>3
<1> QED BY <1>3, <1>4

\* A name that comes back fits.
LEMMA BaseAgain ==
  ASSUME Readable, AllFit, Nameful, NEW d \in Reported, NEW s \in Slots(d), NEW o \in Slots(db), Origin(d, s, o)
  PROVE  Base(d[s[1]], IndexAt(d, s)) = names[o]
<1> DEFINE idx == IndexAt(d, s)
<1>1. /\ idx.pk = IndexAt(db, o).pk
      /\ ~IndexAt(db, o).pk => idx.name = names[o]
  BY OriginKeeps
<1>2. Fits(names[o]) /\ (names[o] = <<>> <=> IndexAt(db, o).pk)
  BY DEF AllFit, Nameful
<1> HIDE DEF idx
<1>3. Base(d[s[1]], idx) = names[o]
  <2>1. CASE idx.pk
    BY <1>1, <1>2, <2>1 DEF Base
  <2>2. CASE ~idx.pk
    BY <1>1, <1>2, <2>2 DEF Base, Truncate
  <2> QED BY <2>1, <2>2
<1> QED BY <1>3 DEF idx

\* It is in use once, so it gets no prefix.
LEMMA PrefixedAgain ==
  ASSUME Readable, AllFit, Nameful, Apart,
         NEW d \in Reported, NEW s \in Slots(d), NEW o \in Slots(db), Origin(d, s, o)
  PROVE  Prefixed(d, s) = names[o]
<1> DEFINE name == Base(d[s[1]], IndexAt(d, s))
           scope == ScopeOf(d[s[1]])
           users == {r \in Slots(d) : ScopeOf(d[r[1]]) = scope /\ Base(d[r[1]], IndexAt(d, r)) = name}
           held == {<<scope, name>>} \cap Reserved(d)
<1>1. name = names[o] /\ scope = ScopeOf(db[o[1]])
  BY BaseAgain, OriginKeeps
<1>2. Uses(d, scope, name) = Cardinality(held) + Cardinality(users)
  BY DEF Uses
<1>3. CASE name = <<>>
  BY <1>1, <1>3 DEF Prefixed
<1>4. CASE name # <<>>
  <2>1. held = {}
    <3>1. <<scope, name>> \notin Reserved(db)
      BY <1>1, <1>4 DEF Apart, Key
    <3> QED BY <3>1, ReservedAgain
  <2>2. ASSUME NEW r \in users PROVE r = s
    <3>1. PICK q \in Slots(db) : Origin(d, r, q)
      BY OriginIs
    <3>2. r \in Slots(d) /\ ScopeOf(d[r[1]]) = scope /\ Base(d[r[1]], IndexAt(d, r)) = name
      BY <2>2
    <3>3. names[q] = name /\ ScopeOf(db[q[1]]) = scope
      BY <3>1, <3>2, BaseAgain, OriginKeeps
    <3>4. Key(q) = Key(o) /\ names[o] # <<>>
      BY <1>1, <1>4, <3>3 DEF Key
    <3>5. q = o
      BY <3>4 DEF Apart
    <3> QED BY <3>1, <3>2, <3>5, OriginIs
  <2>3. users = {s}
    <3>1. s \in users
      OBVIOUS
    <3> HIDE DEF users
    <3> QED BY <2>2, <3>1
  <2>4. Cardinality(held) = 0 /\ Cardinality(users) = 1
    <3> HIDE DEF held, users
    <3> QED BY <2>1, <2>3, FS_EmptySet, FS_Singleton
  <2>5. ~(Uses(d, scope, name) > 1)
    <3> HIDE DEF held, users, name, scope
    <3> QED BY <1>2, <2>4
  <2>6. Prefixed(d, s) = name
    BY <2>5 DEF Prefixed
  <2> QED BY <1>1, <2>6
<1> QED BY <1>3, <1>4

\* The indexes are described as they were, if they are given their names.
LEMMA DescribedAgain ==
  ASSUME Readable, UNCHANGED dialect, db' \in Reported,
         \A s \in Slots(db') : \A o \in Slots(db) : Origin(db', s, o) => names'[s] = names[o]
  PROVE  Described' = Described
<1> DEFINE d == db'
           description(e, nm, s) ==
             [schema |-> e[s[1]].schema, table |-> e[s[1]].name, keys |-> IndexAt(e, s).keys,
              unique |-> IndexAt(e, s).unique, name |-> nm[s]]
           told(e) == {s \in Slots(e) : ~IndexAt(e, s).pk /\ Creates(IndexAt(e, s))}
<1>1. Described = {description(db, names, s) : s \in told(db)}
  BY DEF Described
<1>2. Described' = {description(d, names', s) : s \in told(d)}
  <2>1. \A idx : Creates(idx)' = Creates(idx)
    BY DEF Creates
  <2>2. \A e, s : IndexAt(e, s)' = IndexAt(e, s)
    BY DEF IndexAt
  <2> QED BY <2>1, <2>2 DEF Described, IndexAt, Slots, Creates
<1>3. ASSUME NEW s \in Slots(d), NEW o \in Slots(db), Origin(d, s, o)
      PROVE  /\ description(d, names', s) = description(db, names, o)
             /\ s \in told(d) <=> o \in told(db)
  <2> HIDE DEF d
  <2>1. d \in Reported /\ names'[s] = names[o]
    BY <1>3 DEF d
  <2>2. /\ d[s[1]].schema = db[o[1]].schema /\ d[s[1]].name = db[o[1]].name
        /\ IndexAt(d, s).pk = IndexAt(db, o).pk
        /\ IndexAt(d, s).keys = IndexAt(db, o).keys
        /\ IndexAt(d, s).unique = IndexAt(db, o).unique
        /\ Creates(IndexAt(db, o))
    BY <1>3, <2>1, OriginKeeps
  <2>3. Creates(IndexAt(d, s))
    BY <2>2 DEF Creates
  <2> QED BY <2>1, <2>2, <2>3
<1> HIDE DEF description
<1>4. \A s \in told(d) : \E o \in told(db) : description(d, names', s) = description(db, names, o)
  <2> SUFFICES ASSUME NEW s \in told(d) PROVE \E o \in told(db) : description(d, names', s) = description(db, names, o)
    OBVIOUS
  <2>1. s \in Slots(d)
    OBVIOUS
  <2>2. PICK o \in Slots(db) : Origin(d, s, o)
    BY <2>1, OriginIs
  <2> QED BY <1>3, <2>1, <2>2
<1>5. \A o \in told(db) : \E s \in told(d) : description(d, names', s) = description(db, names, o)
  <2> SUFFICES ASSUME NEW o \in told(db) PROVE \E s \in told(d) : description(d, names', s) = description(db, names, o)
    OBVIOUS
  <2>1. o \in Slots(db) /\ Creates(IndexAt(db, o))
    OBVIOUS
  <2>2. PICK s \in Slots(d) : Origin(d, s, o)
    BY <2>1, OriginIs
  <2> QED BY <1>3, <2>1, <2>2
<1> HIDE DEF told, d
<1>6. {description(d, names', s) : s \in told(d)} = {description(db, names, s) : s \in told(db)}
  BY <1>4, <1>5
<1> QED BY <1>1, <1>2, <1>6

\* What indexes are called in any round.
Nameds ==
  \A s \in Slots(db) :
    IF IndexAt(db, s).pk THEN base[s] = <<>> /\ names[s] = <<>>
    ELSE base[s] # <<>> /\ Named(IndexAt(db, s), names[s])

FirstRound == round = 1 => db \in Databases[dialect]

\* In the second round no name is touched: the ones that are taken are
\* reserved, or those of the indexes that were passed.
SecondRound ==
  round = 2 =>
    /\ names = base
    /\ Described = created
    /\ Apart
    /\ taken \subseteq Reserved(db) \cup {Key(s) : s \in Settled}

RoundInv == TypeInv /\ AllMarked /\ NoClash /\ Nameds /\ FirstRound /\ SecondRound

LEMMA InitRoundInv == Init => RoundInv
<1> SUFFICES ASSUME Init PROVE RoundInv
  OBVIOUS
<1>1. TypeInv /\ AllMarked /\ NoClash
  BY InitTypeInv, InitIInv
<1>2. Nameds
  <2> SUFFICES ASSUME NEW s \in Slots(db)
               PROVE  IF IndexAt(db, s).pk THEN base[s] = <<>> /\ names[s] = <<>>
                      ELSE base[s] # <<>> /\ Named(IndexAt(db, s), names[s])
    BY DEF Nameds
  <2>1. base[s] = Prefixed(db, s) /\ names[s] = Prefixed(db, s) /\ db \in Seq(Table)
    BY <1>1 DEF Init, TypeInv, TypeOK
  <2>2. /\ IndexAt(db, s).pk => Prefixed(db, s) = <<>>
        /\ ~IndexAt(db, s).pk => Named(IndexAt(db, s), Prefixed(db, s))
    BY <2>1, PrefixedNamed
  <2> QED BY <2>1, <2>2 DEF Named
<1>3. FirstRound /\ SecondRound
  BY DEF Init, FirstRound, SecondRound
<1> QED BY <1>1, <1>2, <1>3 DEF RoundInv

\* The loop's own slot is a slot.
LEMMA AtSlot == ASSUME TypeOK, AtIndex PROVE at \in Slots(db)
<1>1. at[1] \in DOMAIN db /\ at[2] \in 1 .. Len(db[at[1]].indexes) /\ at = <<at[1], at[2]>>
  BY DEF AtIndex, Finished, TypeOK
<1>2. db[at[1]].indexes \in Seq(Index)
  <2>1. db[at[1]] \in Table
    BY <1>1, ElementOfSeq DEF TypeOK
  <2> QED BY <2>1 DEF Table
<1> QED BY <1>1, <1>2 DEF Slots

\* The loop passes on.
LEMMA SettledStay ==
  ASSUME TypeOK, UNCHANGED <<db, names>>, at' = <<at[1] + 1, 1>> \/ at' = <<at[1], at[2] + 1>>
  PROVE  /\ Settled \subseteq Settled'
         /\ at \in Slots(db) /\ names[at] # <<>> => at \in Settled'
<1>1. at \in (Nat \ {0}) \X (Nat \ {0})
  BY DEF TypeOK
<1>2. \A s \in Slots(db) : s \in (Nat \ {0}) \X (Nat \ {0})
  BY SlotType DEF TypeOK
<1>3. \A s \in Slots(db) : Before(s, at) => Before(s, at)'
  BY <1>1, <1>2 DEF Before
<1>4. Before(at, at')
  BY <1>1 DEF Before
<1>5. \A s \in Settled : s \in Settled'
  BY <1>3 DEF Settled
<1>6. at \in Slots(db) /\ names[at] # <<>> => at \in Settled'
  BY <1>4 DEF Settled, Before
<1> QED BY <1>5, <1>6

\* In the second round the name of an index is free when its turn comes.
LEMMA FreeAgain ==
  ASSUME RoundInv, round = 2, AtIndex, names[at] # <<>>
  PROVE  Key(at) \notin taken
<1>1. at \in Slots(db) /\ at \notin Settled
  BY AtSlot, AtUnsettled DEF RoundInv, TypeInv
<1>2. Key(at) \notin Reserved(db) /\ \A s \in Settled : Key(s) # Key(at)
  BY <1>1 DEF RoundInv, SecondRound, Apart, Settled
<1> QED BY <1>2 DEF RoundInv, SecondRound

\* The steps of the loop.
LEMMA LoopKeepsNames ==
  ASSUME RoundInv, NextTable \/ SkipPK \/ Claim \/ Number \/ UNCHANGED vars
  PROVE  Nameds' /\ FirstRound' /\ SecondRound'
<1>0. UNCHANGED <<dialect, db, base, round, created>> /\ TypeOK
  BY DEF NextTable, SkipPK, Claim, Number, vars, RoundInv, TypeInv
<1>1. /\ Reserved(db)' = Reserved(db)
      /\ \A idx, name : Named(idx, name)' = Named(idx, name)
  BY <1>0 DEF ScopeOf, Reserved, Named
<1>2. FirstRound'
  BY <1>0 DEF RoundInv, FirstRound
<1>3. CASE UNCHANGED names
  <2>1. Nameds'
    <3>1. \A s : IndexAt(db', s) = IndexAt(db, s)
      BY <1>0
    <3> QED BY <1>0, <1>1, <1>3, <3>1 DEF RoundInv, Nameds, IndexAt, Slots
  <2>2. SecondRound'
    <3> SUFFICES ASSUME round = 2
                 PROVE  /\ names' = base' /\ Described' = created' /\ Apart'
                        /\ taken' \subseteq Reserved(db') \cup {Key(s)' : s \in Settled'}
      BY <1>0, <1>1 DEF SecondRound, Reserved, ScopeOf
    <3>1. names = base /\ Described = created /\ Apart /\ taken \subseteq Reserved(db) \cup {Key(s) : s \in Settled}
      BY DEF RoundInv, SecondRound
    <3>2. Described' = Described
      BY <1>0, <1>3 DEF Described, IndexAt, Slots, Creates
    <3>3. \A s : Key(s)' = Key(s)
      BY <1>0, <1>3 DEF Key, ScopeOf
    <3>4. Apart'
      BY <1>0, <1>1, <1>3, <3>1, <3>3 DEF Apart, Slots
    <3>5. taken' \subseteq Reserved(db) \cup {Key(s) : s \in Settled'}
      <4>1. CASE UNCHANGED <<taken, at>>
        <5>1. Settled' = Settled
          BY <1>0, <1>3, <4>1 DEF Settled, Before, Slots
        <5> QED BY <3>1, <4>1, <5>1
      <4>2. CASE NextTable \/ SkipPK
        <5>1. Settled \subseteq Settled' /\ taken' = taken
          BY <1>0, <1>3, <4>2, SettledStay DEF NextTable, SkipPK
        <5> QED BY <3>1, <5>1
      <4>3. CASE Claim
        <5>1. Settled \subseteq Settled' /\ at \in Settled' /\ taken' = taken \cup {Key(at)}
          BY <1>0, <1>3, <4>3, SettledStay, AtSlot DEF Claim
        <5> QED BY <3>1, <5>1
      <4>4. CASE Number
        BY <4>4, FreeAgain DEF Number
      <4> QED BY <4>1, <4>2, <4>3, <4>4 DEF vars
    <3>6. {Key(s)' : s \in Settled'} = {Key(s) : s \in Settled'}
      BY <3>3
    <3> QED BY <1>0, <1>3, <3>1, <3>2, <3>4, <3>5, <3>6
  <2> QED BY <1>2, <2>1, <2>2
<1>4. CASE Number
  <2>1. round # 2
    BY <1>4, FreeAgain DEF Number
  <2>2. at \in Slots(db) /\ ~IndexAt(db, at).pk /\ base[at] # <<>> /\ base[at] \in Name
    BY <1>0, <1>4, AtSlot DEF Number, RoundInv, Nameds, TypeOK
  <2>3. n \in 1 .. MaxNumber
    BY <1>0, <1>4, NumberAssumption DEF Number, TypeOK
  <2>4. Named(IndexAt(db, at), WithSuffix(base[at], n))
    BY <2>2, <2>3, SuffixLeaves DEF Named
  <2>5. names' = [names EXCEPT ![at] = WithSuffix(base[at], n)] /\ names \in [Slots(db) -> Name]
    BY <1>0, <1>4 DEF Number, TypeOK
  <2>6. ASSUME NEW s \in Slots(db)
        PROVE  IF IndexAt(db, s).pk THEN base[s] = <<>> /\ names'[s] = <<>>
               ELSE base[s] # <<>> /\ Named(IndexAt(db, s), names'[s])
    <3>1. CASE s = at
      BY <2>2, <2>4, <2>5, <3>1
    <3>2. CASE s # at
      BY <2>5, <3>2 DEF RoundInv, Nameds
    <3> QED BY <3>1, <3>2
  <2>7. Nameds'
    <3>1. \A s : IndexAt(db', s) = IndexAt(db, s)
      BY <1>0
    <3> QED BY <1>0, <1>1, <2>6, <3>1 DEF Nameds, IndexAt, Slots
  <2> QED BY <1>0, <1>2, <2>1, <2>7 DEF SecondRound
<1> QED BY <1>3, <1>4 DEF NextTable, SkipPK, Claim, vars

\* What the database is created with can be read back.
LEMMA IsReadable ==
  ASSUME RoundInv, round = 1,
         "mariadb" \in Dialects => \A d \in Databases["mariadb"] : NoneIsItsColumn(d)
  PROVE  Readable
<1>1. /\ db \in Databases[dialect] /\ dialect \in Dialects
      /\ db \in Seq(Table) /\ names \in [Slots(db) -> Name]
  BY DEF RoundInv, FirstRound, TypeInv, TypeOK
<1>2. \A t, u \in DOMAIN db : t # u => <<db[t].schema, db[t].name>> # <<db[u].schema, db[u].name>>
  BY <1>1, DatabaseAssumption
<1>3. ASSUME NEW t \in DOMAIN db, NEW i \in DOMAIN db[t].indexes, ReadAsColumn(t, i)
      PROVE  FALSE
  <2> DEFINE idx == db[t].indexes[i]
             o == <<t, i>>
  <2>1. dialect = "mariadb" /\ ~idx.pk /\ idx.unique /\ Len(idx.keys) = 1 /\ names[o] = idx.keys
    BY <1>3 DEF ReadAsColumn
  <2>2. o \in Slots(db) /\ IndexAt(db, o) = idx
    BY <1>1, TableTypes DEF IndexAt
  <2> HIDE DEF o
  <2>3. Named(idx, names[o])
    BY <2>1, <2>2 DEF RoundInv, Nameds
  <2> DEFINE name == names[o]
             len == Len(name)
  <2> HIDE DEF idx, len
  <2>6. dialect = "mariadb" => len >= 2 \/ name = idx.name
    BY <2>3, Zenon DEF Named, len
  <2>7. len = 1
    BY <2>1 DEF len
  <2>8. name = idx.name
    BY <2>1, <2>6, <2>7
  <2>4. idx.name = idx.keys
    BY <2>1, <2>8
  <2> USE DEF idx
  <2>5. NoneIsItsColumn(db)
    BY <1>1, <2>1
  <2> QED BY <2>1, <2>4, <2>5 DEF NoneIsItsColumn
<1> QED BY <1>1, <1>2, <1>3 DEF Readable

\* Reading the schema back.
LEMMA ReloadKeepsNames ==
  ASSUME RoundInv, Reload, TypeOK',
         "mariadb" \in Dialects => \A d \in Databases["mariadb"] : NoneIsItsColumn(d)
  PROVE  Nameds' /\ FirstRound' /\ SecondRound'
<1>1. /\ Finished /\ round = 1 /\ db' \in Reported /\ UNCHANGED dialect
      /\ base' = [s \in Slots(db') |-> Prefixed(db', s)] /\ names' = base'
      /\ taken' = Reserved(db') /\ round' = 2 /\ created' = Described
  BY DEF Reload
<1>2. Readable
  BY <1>1, IsReadable
<1>3. /\ \A idx, name : Named(idx, name)' = Named(idx, name)
      /\ \A tbl : ScopeOf(tbl)' = ScopeOf(tbl)
      /\ Reserved(db)' = Reserved(db')
  BY <1>1 DEF Named, ScopeOf, Reserved
<1>4. Nameful /\ AllFit
  <2>1. \A s \in Slots(db) : names[s] = <<>> <=> IndexAt(db, s).pk
    BY DEF RoundInv, Nameds, Named
  <2> QED BY <2>1 DEF Nameful, RoundInv, TypeInv
<1>5. Apart
  <2>1. \A s \in Slots(db) : Before(s, at)
    BY <1>1, SlotType DEF Finished, Before, RoundInv, TypeInv, TypeOK
  <2>2. \A s \in Slots(db) : names[s] # <<>> => s \in Settled
    BY <2>1 DEF Settled
  <2>3. \A s, r \in Slots(db) : Key(r) = Key(s) => names[r] = names[s]
    BY DEF Key
  <2> QED BY <2>2, <2>3 DEF RoundInv, NoClash, Apart
<1>6. ASSUME NEW s \in Slots(db'), NEW o \in Slots(db), Origin(db', s, o)
      PROVE  names'[s] = names[o] /\ Key(s)' = Key(o)
  <2> DEFINE d == db'
  <2> HIDE DEF d
  <2>1. d \in Reported /\ s \in Slots(d) /\ Origin(d, s, o)
    BY <1>1, <1>6 DEF d
  <2>2. Prefixed(d, s) = names[o] /\ ScopeOf(d[s[1]]) = ScopeOf(db[o[1]])
    BY <1>2, <1>4, <1>5, <2>1, PrefixedAgain, OriginKeeps
  <2>3. names'[s] = names[o]
    BY <1>1, <2>2 DEF d
  <2>4. Key(s)' = <<ScopeOf(d[s[1]]), names'[s]>>
    BY <1>3 DEF Key, d
  <2> QED BY <2>2, <2>3, <2>4 DEF Key
<1>7. \A s \in Slots(db') : \E o \in Slots(db) : Origin(db', s, o)
  BY <1>1, <1>2, OriginIs
<1>8. Described' = Described
  BY <1>1, <1>2, <1>6, DescribedAgain
<1>9. Reserved(db') = Reserved(db)
  BY <1>1, <1>2, ReservedAgain
<1>10. Apart'
  <2>1. ASSUME NEW s \in Slots(db'), names'[s] # <<>>
        PROVE  Key(s)' \notin Reserved(db) /\ \A r \in Slots(db') : Key(r)' = Key(s)' => r = s
    <3>1. PICK o \in Slots(db) : Origin(db', s, o)
      BY <1>7
    <3>2. Key(s)' = Key(o) /\ names[o] # <<>>
      BY <1>6, <2>1, <3>1
    <3>3. ASSUME NEW r \in Slots(db'), Key(r)' = Key(s)' PROVE r = s
      <4>1. PICK q \in Slots(db) : Origin(db', r, q)
        BY <1>7
      <4>2. Key(q) = Key(o)
        BY <1>6, <3>2, <3>3, <4>1
      <4>3. q = o
        BY <1>5, <3>2, <4>2 DEF Apart
      <4> QED BY <1>1, <1>2, <3>1, <4>1, <4>3, OriginIs
    <3> QED BY <1>5, <3>2, <3>3 DEF Apart
  <2>2. Reserved(db)' = Reserved(db)
    BY <1>3, <1>9
  <2> QED BY <2>1, <2>2 DEF Apart, Slots
<1>11. Nameds'
  <2>1. ASSUME NEW s \in Slots(db')
        PROVE  IF IndexAt(db', s).pk THEN base'[s] = <<>> /\ names'[s] = <<>>
               ELSE base'[s] # <<>> /\ Named(IndexAt(db', s), names'[s])
    <3> DEFINE d == db'
    <3> HIDE DEF d
    <3>1. d \in Seq(Table) /\ s \in Slots(d)
      BY <2>1 DEF TypeOK, d, Slots
    <3>2. /\ IndexAt(d, s).pk => Prefixed(d, s) = <<>>
          /\ ~IndexAt(d, s).pk => Named(IndexAt(d, s), Prefixed(d, s))
      BY <3>1, PrefixedNamed
    <3>3. names'[s] = Prefixed(d, s) /\ base'[s] = Prefixed(d, s)
      BY <1>1, <2>1 DEF d
    <3> QED BY <3>2, <3>3 DEF Named, d
  <2> QED BY <1>3, <2>1 DEF Nameds, Slots, IndexAt
<1>12. FirstRound' /\ SecondRound'
  BY <1>1, <1>3, <1>8, <1>10 DEF FirstRound, SecondRound
<1> QED BY <1>11, <1>12

\* A database created with these names and read back, in any order, resolves
\* to the same names: migrate has nothing to do.
THEOREM NamesComeBack ==
  ASSUME "mariadb" \in Dialects => \A d \in Databases["mariadb"] : NoneIsItsColumn(d)
  PROVE  Spec => []RoundTrip
<1>1. RoundInv /\ [Next]_vars => RoundInv'
  <2> SUFFICES ASSUME RoundInv, [Next]_vars PROVE RoundInv'
    OBVIOUS
  <2>1. TypeInv' /\ TypeOK'
    BY NextTypeInv DEF RoundInv, TypeInv
  <2>2. AllMarked' /\ NoClash'
    <3>1. IInv
      BY DEF RoundInv, IInv, TypeInv
    <3> QED BY <2>1, <3>1, NextIInv DEF IInv
  <2>3. Nameds' /\ FirstRound' /\ SecondRound'
    <3>1. CASE Reload
      BY <2>1, <3>1, ReloadKeepsNames
    <3>2. CASE NextTable \/ SkipPK \/ Claim \/ Number \/ UNCHANGED vars
      BY <3>2, LoopKeepsNames
    <3> QED BY <3>1, <3>2 DEF Next, Done
  <2> QED BY <2>1, <2>2, <2>3 DEF RoundInv
<1>2. RoundInv => RoundTrip
  BY DEF RoundInv, SecondRound, RoundTrip
<1> QED BY <1>1, <1>2, InitRoundInv, PTL DEF Spec
=============================================================================
