---------------------------- MODULE RenameProofs -----------------------------
(***************************************************************************)
(* A rename to a name that is new to the document keeps what every name is *)
(* bound to, for documents of any size.                                    *)
(*                                                                         *)
(* The argument is on one rename of one document, d, and carries over to   *)
(* any number of them: the document stays well-formed.  A name is looked   *)
(* up among declarations of a kind, by the last that has it.  A rename     *)
(* changes one declaration, s, so it changes what is found for two names   *)
(* only: the new one, which finds s, and the old one of s, which finds     *)
(* something else or nothing.  But whatever found s has the new name now.  *)
(***************************************************************************)
EXTENDS Rename, BasicLemmas, TLAPS

-----------------------------------------------------------------------------
(* The last of some sites. *)

\* A non-empty set of places has a last one: a map keeps one declaration.
LEMMA HasLast ==
  ASSUME NEW N \in Nat, NEW S, S \subseteq 1 .. N, S # {}
  PROVE  Latest(S) \in S /\ \A j \in S : j <= Latest(S)
<1>1. S \subseteq 0 .. N
  OBVIOUS
<1>2. \E i \in S : \A j \in S : j <= i
  BY <1>1, HasGreatest
<1> QED BY <1>2, Zenon DEF Latest

\* The last of no sites is none, and a last one is one of them.
LEMMA LastIn ==
  ASSUME NEW N \in Nat, NEW S, S \subseteq 1 .. N
  PROVE  /\ Latest(S) = 0 <=> S = {}
         /\ Latest(S) # 0 => Latest(S) \in S
<1>1. CASE S = {}
  BY <1>1 DEF Latest
<1>2. CASE S # {}
  <2>1. Latest(S) \in S
    BY <1>2, HasLast
  <2>2. \A j \in S : j # 0
    OBVIOUS
  <2> QED BY <1>2, <2>1, <2>2
<1> QED BY <1>1, <1>2

\* Another site less does not change the last one.
LEMMA LastWithout ==
  ASSUME NEW N \in Nat, NEW S, S \subseteq 1 .. N, NEW s, s # Latest(S)
  PROVE  Latest(S \ {s}) = Latest(S)
<1>1. CASE S = {}
  <2>1. S \ {s} = S
    BY <1>1
  <2> QED BY <2>1
<1>2. CASE S # {}
  <2>1. Latest(S) \in S /\ \A j \in S : j <= Latest(S)
    BY <1>2, HasLast
  <2>2. S \ {s} # {} /\ S \ {s} \subseteq 1 .. N
    BY <2>1
  <2>3. Latest(S \ {s}) \in S \ {s} /\ \A j \in S \ {s} : j <= Latest(S \ {s})
    BY <2>2, HasLast
  <2>4. Latest(S) \in Nat /\ Latest(S \ {s}) \in Nat
    <3>1. \A j \in S : j \in Nat
      OBVIOUS
    <3> QED BY <2>1, <2>3, <3>1
  <2>5. Latest(S) <= Latest(S \ {s}) /\ Latest(S \ {s}) <= Latest(S)
    BY <2>1, <2>3
  <2> QED BY <2>4, <2>5
<1> QED BY <1>1, <1>2

\* Of one site, it is the last.
LEMMA LastOne ==
  ASSUME NEW N \in Nat, NEW s \in 1 .. N
  PROVE  Latest({s}) = s
BY HasLast

-----------------------------------------------------------------------------
(* One rename. *)

ReferenceKinds == {"refTable", "refColumn", "member", "type", "schema"}

\* s is a declaration that can be renamed, and n a name that is new to d.
Renaming(d, s, n) ==
  /\ WellFormed(d)
  /\ s \in DOMAIN d
  /\ d[s].kind \notin ReferenceKinds \cup {"alias"}
  /\ d[s].kind = "column" => s \in Columns(d)
  /\ n \in STRING
  /\ Fold(n) \notin Pseudo
  /\ IsNew(d, n)

After(d, s, n) == Replaced(d, Edits(d, s), n)

\* What a rename leaves alone: all but the names, and the names of all but the
\* edited sites.
LEMMA AfterSites ==
  ASSUME NEW d, NEW s, NEW n, Renaming(d, s, n)
  PROVE  /\ After(d, s, n) \in Seq(Site)
         /\ Len(d) \in Nat /\ DOMAIN d = 1 .. Len(d) /\ DOMAIN After(d, s, n) = DOMAIN d
         /\ \A i \in DOMAIN d :
              /\ d[i] \in Site
              /\ After(d, s, n)[i].kind = d[i].kind
              /\ After(d, s, n)[i].of = d[i].of
              /\ After(d, s, n)[i].name = IF i \in Edits(d, s) THEN n ELSE d[i].name
<1>1. d \in Seq(Site) /\ n \in STRING
  BY DEF Renaming, WellFormed
<1>2. Len(d) \in Nat /\ DOMAIN d = 1 .. Len(d) /\ \A i \in DOMAIN d : d[i] \in Site
  BY <1>1
<1>3. \A i \in DOMAIN d : [d[i] EXCEPT !.name = n] \in Site
  BY <1>1, <1>2 DEF Site
<1>4. After(d, s, n) = [i \in 1 .. Len(d) |->
        IF i \in Edits(d, s) THEN [d[i] EXCEPT !.name = n] ELSE d[i]]
  BY <1>2 DEF After, Replaced
<1>5. \A i \in 1 .. Len(d) : After(d, s, n)[i] \in Site
  BY <1>2, <1>3, <1>4
<1>6. After(d, s, n) \in Seq(Site)
  <2>1. After(d, s, n) \in [1 .. Len(d) -> Site]
    BY <1>4, <1>5
  <2> QED BY <1>2, <2>1
<1>7. \A i \in DOMAIN d :
        /\ After(d, s, n)[i].kind = d[i].kind
        /\ After(d, s, n)[i].of = d[i].of
        /\ After(d, s, n)[i].name = IF i \in Edits(d, s) THEN n ELSE d[i].name
  BY <1>2, <1>4 DEF Site
<1> QED BY <1>2, <1>4, <1>6, <1>7

\* References are of the kinds of a use, so of all declarations s alone is edited.
LEMMA EditedDeclaration ==
  ASSUME NEW d, NEW s, NEW i \in Edits(d, s), d[i].kind \notin ReferenceKinds
  PROVE  i = s
BY DEF Edits, Refs, Leads, ReferenceKinds

\* The same sites have the same kinds, and are columns.
LEMMA SameSites ==
  ASSUME NEW d, NEW s, NEW n, Renaming(d, s, n)
  PROVE  /\ \A kind : Sites(After(d, s, n), kind) = Sites(d, kind)
         /\ Columns(After(d, s, n)) = Columns(d)
<1> DEFINE e == After(d, s, n)
<1>1. /\ DOMAIN e = DOMAIN d
      /\ \A i \in DOMAIN d : /\ e[i].kind = d[i].kind
                             /\ e[i].name = IF i \in Edits(d, s) THEN n ELSE d[i].name
  BY AfterSites
<1> HIDE DEF e
<1>2. \A kind : Sites(e, kind) = Sites(d, kind)
  BY <1>1 DEF Sites
<1>3. ASSUME NEW i \in Sites(d, "column")
      PROVE  Fold(e[i].name) \notin Pseudo <=> Fold(d[i].name) \notin Pseudo
  <2>1. i \in DOMAIN d /\ d[i].kind = "column"
    BY <1>3 DEF Sites
  <2>2. CASE i \in Edits(d, s)
    <3>1. i = s
      BY <2>1, <2>2, EditedDeclaration DEF ReferenceKinds
    <3> QED BY <1>1, <2>1, <2>2, <3>1 DEF Renaming, Columns
  <2>3. CASE i \notin Edits(d, s)
    BY <1>1, <2>1, <2>3
  <2> QED BY <2>2, <2>3
<1>4. Columns(e) = Columns(d)
  BY <1>2, <1>3 DEF Columns
<1> QED BY <1>2, <1>4 DEF e

\* What a lookup among declarations K finds: what it found, for a name that did
\* not find s and is not new; and s for the new name.
LEMMA Lookup ==
  ASSUME NEW d, NEW s, NEW n, Renaming(d, s, n),
         NEW K, K \subseteq DOMAIN d, \A i \in K : d[i].kind \notin ReferenceKinds
  PROVE  /\ \A i \in DOMAIN d :
              Latest(Named(d, K, d[i].name)) # s =>
                Latest(Named(After(d, s, n), K, d[i].name)) = Latest(Named(d, K, d[i].name))
         /\ Latest(Named(After(d, s, n), K, n)) = IF s \in K THEN s ELSE 0
<1> DEFINE e == After(d, s, n)
<1>1. /\ Len(d) \in Nat /\ DOMAIN d = 1 .. Len(d)
      /\ \A i \in DOMAIN d : e[i].name = IF i \in Edits(d, s) THEN n ELSE d[i].name
  BY AfterSites
<1> HIDE DEF e
<1>2. \A i \in K : e[i].name = IF i = s THEN n ELSE d[i].name
  <2>1. \A i \in K : i \in Edits(d, s) => i = s
    BY EditedDeclaration
  <2>2. s \in Edits(d, s)
    BY DEF Edits
  <2> QED BY <1>1, <2>1, <2>2
<1>3. \A i \in DOMAIN d : Fold(d[i].name) # Fold(n)
  BY DEF Renaming, IsNew
<1>4. ASSUME NEW i \in DOMAIN d, Latest(Named(d, K, d[i].name)) # s
      PROVE  Latest(Named(e, K, d[i].name)) = Latest(Named(d, K, d[i].name))
  <2>1. Named(e, K, d[i].name) = Named(d, K, d[i].name) \ {s}
    BY <1>2, <1>3 DEF Named
  <2>2. Named(d, K, d[i].name) \subseteq 1 .. Len(d)
    BY <1>1 DEF Named
  <2> QED BY <1>1, <1>4, <2>1, <2>2, LastWithout
<1>5. Latest(Named(e, K, n)) = IF s \in K THEN s ELSE 0
  <2>1. Named(e, K, n) = K \cap {s}
    BY <1>2, <1>3 DEF Named
  <2>2. CASE s \in K
    <3>1. Named(e, K, n) = {s} /\ s \in 1 .. Len(d)
      BY <1>1, <2>1, <2>2
    <3> QED BY <1>1, <2>2, <3>1, LastOne
  <2>3. CASE s \notin K
    <3>1. Named(e, K, n) = {}
      BY <2>1, <2>3
    <3> QED BY <2>3, <3>1 DEF Latest
  <2> QED BY <2>2, <2>3
<1> QED BY <1>4, <1>5 DEF e

-----------------------------------------------------------------------------
(* What names are bound to. *)

\* Tables, aliases, enums and the columns of a table are declarations, and what
\* is found of them is one of them.
LEMMA Declarations ==
  ASSUME NEW d, WellFormed(d)
  PROVE  /\ \A kind : Sites(d, kind) \subseteq DOMAIN d /\ \A i \in Sites(d, kind) : d[i].kind = kind
         /\ Columns(d) \subseteq Sites(d, "column")
         /\ \A name : TableNamed(d, name) # 0 => TableNamed(d, name) \in Sites(d, "table")
         /\ \A name : AliasNamed(d, name) # 0 => AliasNamed(d, name) \in Sites(d, "alias")
         /\ \A name : EnumNamed(d, name) # 0 => EnumNamed(d, name) \in Sites(d, "enum")
         /\ \A t, name : ColumnNamed(d, t, name) # 0 => ColumnNamed(d, t, name) \in Columns(d)
         /\ \A name : ResolveTable(d, name) # 0 => ResolveTable(d, name) \in Sites(d, "table")
         /\ \A t \in Sites(d, "table") : TableNamed(d, d[t].name) = t
<1>1. Len(d) \in Nat /\ DOMAIN d = 1 .. Len(d)
  BY DEF WellFormed
<1>2. /\ \A kind : Sites(d, kind) \subseteq DOMAIN d /\ \A i \in Sites(d, kind) : d[i].kind = kind
      /\ Columns(d) \subseteq Sites(d, "column")
  BY DEF Sites, Columns
<1>3. ASSUME NEW S, S \subseteq DOMAIN d, NEW name
      PROVE  Latest(Named(d, S, name)) # 0 => Latest(Named(d, S, name)) \in S
  <2>1. Named(d, S, name) \subseteq 1 .. Len(d) /\ Named(d, S, name) \subseteq S
    BY <1>1, <1>3 DEF Named
  <2>2. Latest(Named(d, S, name)) # 0 => Latest(Named(d, S, name)) \in Named(d, S, name)
    BY <1>1, <2>1, LastIn
  <2> QED BY <2>1, <2>2
<1>4. \A name : TableNamed(d, name) # 0 => TableNamed(d, name) \in Sites(d, "table")
  BY <1>2, <1>3 DEF TableNamed
<1>5. \A name : AliasNamed(d, name) # 0 => AliasNamed(d, name) \in Sites(d, "alias")
  BY <1>2, <1>3 DEF AliasNamed
<1>6. \A name : EnumNamed(d, name) # 0 => EnumNamed(d, name) \in Sites(d, "enum")
  BY <1>2, <1>3 DEF EnumNamed
<1>7. ASSUME NEW t, NEW name, ColumnNamed(d, t, name) # 0
      PROVE  ColumnNamed(d, t, name) \in Columns(d)
  <2> DEFINE S == {i \in Named(d, Columns(d), name) : d[i].of = TableNamed(d, d[t].name)}
  <2>1. S \subseteq 1 .. Len(d) /\ S \subseteq Columns(d)
    BY <1>1, <1>2 DEF Named
  <2>2. ColumnNamed(d, t, name) = Latest(S)
    BY <1>7 DEF ColumnNamed
  <2> HIDE DEF S
  <2>3. Latest(S) \in S
    BY <1>1, <1>7, <2>1, <2>2, LastIn
  <2> QED BY <2>1, <2>2, <2>3
<1>8. ASSUME NEW name, ResolveTable(d, name) # 0
      PROVE  ResolveTable(d, name) \in Sites(d, "table")
  <2>1. \A a \in Sites(d, "alias") : d[a].of \in Sites(d, "table")
    BY DEF Sites, WellFormed
  <2> QED BY <1>4, <1>5, <1>8, <2>1 DEF ResolveTable
<1>9. ASSUME NEW t \in Sites(d, "table")
      PROVE  TableNamed(d, d[t].name) = t
  <2>1. Named(d, Sites(d, "table"), d[t].name) = {t}
    BY <1>9 DEF Named, Sites, WellFormed
  <2>2. t \in 1 .. Len(d)
    BY <1>1, <1>2
  <2> QED BY <1>1, <2>1, <2>2, LastOne DEF TableNamed
<1> QED BY <1>2, <1>4, <1>5, <1>6, <1>7, <1>8, <1>9

\* A place that names a table, and is edited if it finds s, finds the same one.
LEMMA TableKept ==
  ASSUME NEW d, NEW s, NEW n, Renaming(d, s, n),
         NEW i \in DOMAIN d, i \in Edits(d, s) <=> ResolveTable(d, d[i].name) = s
  PROVE  ResolveTable(After(d, s, n), After(d, s, n)[i].name) = ResolveTable(d, d[i].name)
<1> DEFINE e == After(d, s, n)
           N == d[i].name
<1>1. /\ \A kind : Sites(e, kind) = Sites(d, kind)
      /\ \A a \in DOMAIN d : e[a].of = d[a].of
      /\ e[i].name = IF i \in Edits(d, s) THEN n ELSE N
      /\ WellFormed(d) /\ s \in DOMAIN d /\ d[s].kind # "alias" /\ s # 0
  <2>1. DOMAIN d = 1 .. Len(d) /\ s \in DOMAIN d
    BY AfterSites DEF Renaming
  <2> QED BY <2>1, AfterSites, SameSites DEF Renaming
<1>2. /\ Sites(d, "table") \subseteq DOMAIN d
      /\ \A k \in Sites(d, "table") : d[k].kind \notin ReferenceKinds
      /\ Sites(d, "alias") \subseteq DOMAIN d
      /\ \A k \in Sites(d, "alias") : d[k].kind \notin ReferenceKinds
  BY DEF Sites, ReferenceKinds
<1>3. /\ TableNamed(d, N) # s => TableNamed(e, N) = TableNamed(d, N)
      /\ TableNamed(e, n) = IF s \in Sites(d, "table") THEN s ELSE 0
  BY <1>1, <1>2, Lookup DEF TableNamed
<1>4. AliasNamed(d, N) # s => AliasNamed(e, N) = AliasNamed(d, N)
  BY <1>1, <1>2, Lookup DEF AliasNamed
<1>5. /\ TableNamed(d, N) # 0 => TableNamed(d, N) \in Sites(d, "table")
      /\ AliasNamed(d, N) # 0 => AliasNamed(d, N) \in Sites(d, "alias")
      /\ ResolveTable(d, N) # 0 => ResolveTable(d, N) \in Sites(d, "table")
  BY <1>1, Declarations
<1> HIDE DEF e, N
<1>6. CASE ResolveTable(d, N) = s
  <2>1. s \in Sites(d, "table") /\ e[i].name = n
    BY <1>1, <1>5, <1>6 DEF N
  <2> QED BY <1>1, <1>3, <1>6, <2>1 DEF ResolveTable, e, N
<1>7. CASE ResolveTable(d, N) # s
  <2>1. e[i].name = N
    BY <1>1, <1>7 DEF N
  <2>2. TableNamed(e, N) = TableNamed(d, N)
    BY <1>1, <1>3, <1>7 DEF ResolveTable
  <2>3. AliasNamed(d, N) # s
    BY <1>1, <1>5 DEF Sites
  <2>4. AliasNamed(d, N) # 0 => e[AliasNamed(d, N)].of = d[AliasNamed(d, N)].of
    BY <1>1, <1>2, <1>5
  <2>5. ResolveTable(e, N) = ResolveTable(d, N)
    BY <1>4, <2>2, <2>3, <2>4 DEF ResolveTable
  <2> QED BY <2>1, <2>5 DEF e, N
<1> QED BY <1>6, <1>7

\* A place that names an enum, and is edited if it finds s, finds the same one.
LEMMA EnumKept ==
  ASSUME NEW d, NEW s, NEW n, Renaming(d, s, n),
         NEW i \in DOMAIN d, i \in Edits(d, s) <=> EnumNamed(d, d[i].name) = s
  PROVE  EnumNamed(After(d, s, n), After(d, s, n)[i].name) = EnumNamed(d, d[i].name)
<1> DEFINE e == After(d, s, n)
           N == d[i].name
<1>1. /\ Sites(e, "enum") = Sites(d, "enum")
      /\ e[i].name = IF i \in Edits(d, s) THEN n ELSE N
      /\ s # 0 /\ WellFormed(d)
  <2>1. DOMAIN d = 1 .. Len(d) /\ s \in DOMAIN d
    BY AfterSites DEF Renaming
  <2> QED BY <2>1, AfterSites, SameSites DEF Renaming
<1>2. /\ Sites(d, "enum") \subseteq DOMAIN d
      /\ \A k \in Sites(d, "enum") : d[k].kind \notin ReferenceKinds
  BY DEF Sites, ReferenceKinds
<1>3. /\ EnumNamed(d, N) # s => EnumNamed(e, N) = EnumNamed(d, N)
      /\ EnumNamed(e, n) = IF s \in Sites(d, "enum") THEN s ELSE 0
  <2> DEFINE K == Sites(d, "enum")
  <2>k. K \subseteq DOMAIN d /\ \A k \in K : d[k].kind \notin ReferenceKinds
    BY <1>2
  <2>1. /\ Latest(Named(d, K, N)) # s => Latest(Named(e, K, N)) = Latest(Named(d, K, N))
        /\ Latest(Named(e, K, n)) = IF s \in K THEN s ELSE 0
    <3> HIDE DEF K
    <3> QED BY <2>k, Lookup
  <2>2. EnumNamed(d, N) = Latest(Named(d, K, N))
    BY DEF EnumNamed
  <2>3. \A name : EnumNamed(e, name) = Latest(Named(e, K, name))
    BY <1>1 DEF EnumNamed
  <2> HIDE DEF e, N, K
  <2>4. EnumNamed(d, N) # s => EnumNamed(e, N) = EnumNamed(d, N)
    BY <2>1, <2>2, <2>3
  <2>5. EnumNamed(e, n) = IF s \in K THEN s ELSE 0
    BY <2>1, <2>3
  <2> QED BY <2>4, <2>5 DEF e, N, K
<1>4. EnumNamed(d, N) # 0 => EnumNamed(d, N) \in Sites(d, "enum")
  BY <1>1, Declarations
<1>5. i \in Edits(d, s) <=> EnumNamed(d, N) = s
  OBVIOUS
<1> HIDE DEF e, N
<1>6. EnumNamed(e, e[i].name) = EnumNamed(d, N)
  BY <1>1, <1>3, <1>4, <1>5
<1> QED BY <1>6 DEF e, N

\* A place that names a column of table t, and is edited if it finds s, finds
\* the same one.
LEMMA ColumnKept ==
  ASSUME NEW d, NEW s, NEW n, Renaming(d, s, n),
         NEW t, t = 0 \/ t \in Sites(d, "table"),
         NEW i \in DOMAIN d, i \in Edits(d, s) <=> ColumnNamed(d, t, d[i].name) = s
  PROVE  ColumnNamed(After(d, s, n), t, After(d, s, n)[i].name) = ColumnNamed(d, t, d[i].name)
<1> DEFINE e == After(d, s, n)
           N == d[i].name
           K == {c \in Columns(d) : d[c].of = t}
<1>1. /\ Columns(e) = Columns(d)
      /\ \A a \in DOMAIN d : e[a].of = d[a].of
      /\ e[i].name = IF i \in Edits(d, s) THEN n ELSE N
      /\ s # 0 /\ WellFormed(d)
  <2>1. DOMAIN d = 1 .. Len(d) /\ s \in DOMAIN d
    BY AfterSites DEF Renaming
  <2> QED BY <2>1, AfterSites, SameSites DEF Renaming
<1>0. CASE t = 0
  BY <1>0 DEF ColumnNamed
<1>2. K \subseteq DOMAIN d /\ \A k \in K : d[k].kind \notin ReferenceKinds
  BY DEF Columns, Sites, ReferenceKinds
<1>3. /\ Latest(Named(d, K, N)) # s => Latest(Named(e, K, N)) = Latest(Named(d, K, N))
      /\ Latest(Named(e, K, n)) = IF s \in K THEN s ELSE 0
  BY <1>2, Lookup
<1>4. Latest(Named(d, K, N)) # 0 => Latest(Named(d, K, N)) \in K
  <2>1. Named(d, K, N) \subseteq 1 .. Len(d) /\ Named(d, K, N) \subseteq K /\ Len(d) \in Nat
    BY <1>2, AfterSites DEF Named
  <2> QED BY <2>1, LastIn
<1>5. CASE t \in Sites(d, "table")
  <2>1. t # 0 /\ t \in DOMAIN d
    BY <1>5, AfterSites DEF Sites
  <2>2. TableNamed(d, d[t].name) = t
    BY <1>1, <1>5, Declarations
  <2>3. TableNamed(e, e[t].name) = t
    <3>1. /\ Sites(e, "table") = Sites(d, "table")
          /\ Sites(d, "table") \subseteq DOMAIN d
          /\ \A k \in Sites(d, "table") : d[k].kind \notin ReferenceKinds
      BY SameSites DEF Sites, ReferenceKinds
    <3>2. /\ TableNamed(d, d[t].name) # s => TableNamed(e, d[t].name) = TableNamed(d, d[t].name)
          /\ TableNamed(e, n) = IF s \in Sites(d, "table") THEN s ELSE 0
      BY <2>1, <3>1, Lookup DEF TableNamed
    <3>3. e[t].name = IF t = s THEN n ELSE d[t].name
      <4>1. t \in Edits(d, s) <=> t = s
        <5>1. d[t].kind \notin ReferenceKinds
          BY <1>5 DEF Sites, ReferenceKinds
        <5> QED BY <5>1, EditedDeclaration DEF Edits
      <4> QED BY <2>1, <4>1, AfterSites
    <3> QED BY <1>5, <2>2, <3>2, <3>3
  <2>4. \A name : ColumnNamed(d, t, name) = Latest(Named(d, K, name))
    <3>1. \A name : {c \in Named(d, Columns(d), name) : d[c].of = t} = Named(d, K, name)
      BY DEF Named
    <3> QED BY <2>1, <2>2, <3>1 DEF ColumnNamed
  <2>5. \A name : ColumnNamed(e, t, name) = Latest(Named(e, K, name))
    <3>1. \A name : {c \in Named(e, Columns(e), name) : e[c].of = t} = Named(e, K, name)
      <4>1. \A c \in Columns(d) : e[c].of = d[c].of
        BY <1>1 DEF Columns, Sites
      <4> QED BY <1>1, <4>1 DEF Named
    <3> QED BY <2>1, <2>3, <3>1 DEF ColumnNamed
  <2> HIDE DEF e, N, K
  <2> QED BY <1>1, <1>3, <1>4, <2>4, <2>5 DEF e, N
<1> QED BY <1>0, <1>5

-----------------------------------------------------------------------------
(* References, and what they resolve to. *)

\* A reference is edited if it resolves to s.
LEMMA EditedReference ==
  ASSUME NEW d, NEW s, NEW n, Renaming(d, s, n), NEW i \in Refs(d)
  PROVE  i \in Edits(d, s) <=> Target(d, i) = s
<1>1. i # s
  BY DEF Renaming, Refs, Leads, ReferenceKinds
<1> QED BY <1>1 DEF Edits

\* The sites that lead a type or a group member stay the same.
LEMMA SameLeads ==
  ASSUME NEW d, NEW s, NEW n, Renaming(d, s, n), NEW i \in DOMAIN d
  PROVE  /\ \A kind : Leads(After(d, s, n), i, kind) <=> Leads(d, i, kind)
         /\ Leads(d, i, "type") =>
              (TypeOfColumn(After(d, s, n), i) <=> TypeOfColumn(d, i))
<1> DEFINE e == After(d, s, n)
<1>1. /\ \A kind : Sites(e, kind) = Sites(d, kind)
      /\ Columns(e) = Columns(d)
      /\ \A j \in DOMAIN d : e[j].kind = d[j].kind /\ e[j].of = d[j].of
      /\ d[i].kind = "schema" => d[i].of \in DOMAIN d
      /\ \A kind : Sites(d, kind) \subseteq DOMAIN d
  BY AfterSites, SameSites DEF Renaming, WellFormed, Sites
<1> HIDE DEF e
<1>2. Qualified(e, i) <=> Qualified(d, i)
  BY <1>1 DEF Qualified
<1>3. \A kind : Leads(e, i, kind) <=> Leads(d, i, kind)
  BY <1>1, <1>2 DEF Leads
<1>4. TypeOfColumn(e, i) <=> TypeOfColumn(d, i)
  BY <1>1 DEF TypeOfColumn
<1> QED BY <1>3, <1>4 DEF e

\* The first word of a type finds the enum it found, or none.
LEMMA TypeKept ==
  ASSUME NEW d, NEW s, NEW n, Renaming(d, s, n),
         NEW i \in DOMAIN d, Leads(d, i, "type"), TypeOfColumn(d, i)
  PROVE  EnumNamed(After(d, s, n), After(d, s, n)[i].name) = EnumNamed(d, d[i].name)
<1>1. s # 0 /\ i # s
  <2>1. DOMAIN d = 1 .. Len(d)
    BY AfterSites
  <2> QED BY <2>1 DEF Renaming, Leads, ReferenceKinds
<1>2. Target(d, i) = EnumNamed(d, d[i].name)
  <2>1. d[i].kind # "refColumn"
    BY DEF Leads
  <2> QED BY <2>1 DEF Target
<1>3. CASE EnumNamed(d, d[i].name) # 0
  <2>1. i \in Refs(d)
    BY <1>3 DEF Refs
  <2>2. i \in Edits(d, s) <=> EnumNamed(d, d[i].name) = s
    BY <1>2, <2>1, EditedReference
  <2> QED BY <2>2, EnumKept
<1>4. CASE EnumNamed(d, d[i].name) = 0
  <2>1. i \notin Edits(d, s)
    BY <1>1, <1>2, <1>4 DEF Edits
  <2> QED BY <1>1, <1>4, <2>1, EnumKept
<1> QED BY <1>3, <1>4

\* The same sites are references.
LEMMA RefsKept ==
  ASSUME NEW d, NEW s, NEW n, Renaming(d, s, n)
  PROVE  Refs(After(d, s, n)) = Refs(d)
<1> DEFINE e == After(d, s, n)
<1>1. DOMAIN e = DOMAIN d /\ \A i \in DOMAIN d : e[i].kind = d[i].kind
  BY AfterSites
<1>2. ASSUME NEW i \in DOMAIN d
      PROVE  i \in Refs(e) <=> i \in Refs(d)
  <2>1. /\ \A kind : Leads(e, i, kind) <=> Leads(d, i, kind)
        /\ Leads(d, i, "type") => (TypeOfColumn(e, i) <=> TypeOfColumn(d, i))
    BY SameLeads
  <2>2. Leads(d, i, "type") /\ TypeOfColumn(d, i) =>
          EnumNamed(e, e[i].name) = EnumNamed(d, d[i].name)
    BY TypeKept
  <2> HIDE DEF e
  <2> QED BY <1>1, <2>1, <2>2 DEF Refs
<1> HIDE DEF e
<1>3. Refs(e) \subseteq DOMAIN d /\ Refs(d) \subseteq DOMAIN d
  BY <1>1 DEF Refs
<1>4. Refs(e) = Refs(d)
  BY <1>2, <1>3
<1> QED BY <1>4 DEF e

\* Every reference resolves to the declaration it resolved to.
LEMMA TargetKept ==
  ASSUME NEW d, NEW s, NEW n, Renaming(d, s, n), NEW i \in Refs(d)
  PROVE  Target(After(d, s, n), i) = Target(d, i)
<1> DEFINE e == After(d, s, n)
<1>1. i \in DOMAIN d /\ e[i].kind = d[i].kind /\ e[i].of = d[i].of /\ WellFormed(d)
  BY AfterSites DEF Refs, Renaming
<1>2. i \in Edits(d, s) <=> Target(d, i) = s
  BY EditedReference
<1>3. \A kind : Leads(e, i, kind) <=> Leads(d, i, kind)
  BY <1>1, SameLeads
<1>4. CASE Leads(d, i, "type")
  <2>1. d[i].kind # "refColumn"
    BY <1>4 DEF Leads
  <2>2. Target(d, i) = EnumNamed(d, d[i].name) /\ Target(e, i) = EnumNamed(e, e[i].name)
    BY <1>1, <1>3, <1>4, <2>1 DEF Target
  <2> QED BY <1>1, <1>2, <2>2, EnumKept
<1>5. CASE d[i].kind = "refColumn"
  <2> DEFINE j == d[i].of
             t == ResolveTable(d, d[j].name)
  <2>1. ~Leads(d, i, "type") /\ ~Leads(e, i, "type")
    BY <1>3, <1>5 DEF Leads
  <2>2. /\ Target(d, i) = ColumnNamed(d, t, d[i].name)
        /\ Target(e, i) = ColumnNamed(e, ResolveTable(e, e[j].name), e[i].name)
    BY <1>1, <1>5, <2>1 DEF Target
  <2>3. j \in DOMAIN d /\ d[j].kind = "refTable"
    BY <1>1, <1>5 DEF WellFormed
  <2>4. j \in Refs(d) /\ Target(d, j) = t
    BY <2>3 DEF Refs, Target, Leads
  <2>5. j \in Edits(d, s) <=> t = s
    BY <2>4, EditedReference
  <2>6. ResolveTable(e, e[j].name) = t
    BY <2>3, <2>5, TableKept
  <2>7. t = 0 \/ t \in Sites(d, "table")
    BY <1>1, Declarations
  <2> HIDE DEF t
  <2>8. ColumnNamed(e, t, e[i].name) = ColumnNamed(d, t, d[i].name)
    BY <1>1, <1>2, <2>2, <2>7, ColumnKept
  <2> QED BY <2>2, <2>6, <2>8
<1>6. CASE ~Leads(d, i, "type") /\ d[i].kind # "refColumn"
  <2>1. Target(d, i) = ResolveTable(d, d[i].name) /\ Target(e, i) = ResolveTable(e, e[i].name)
    BY <1>1, <1>3, <1>6 DEF Target
  <2> QED BY <1>1, <1>2, <2>1, TableKept
<1> QED BY <1>4, <1>5, <1>6

-----------------------------------------------------------------------------
(* Declarations. *)

\* No declaration is lost: what is the last of its name stays it.
LEMMA DeclaredKept ==
  ASSUME NEW d, NEW s, NEW n, Renaming(d, s, n)
  PROVE  Declared(d) \subseteq Declared(After(d, s, n))
<1> DEFINE e == After(d, s, n)
<1>1. /\ \A kind : Sites(e, kind) = Sites(d, kind)
      /\ Columns(e) = Columns(d)
      /\ \A i \in DOMAIN d : e[i].kind = d[i].kind
  BY AfterSites, SameSites
<1>2. ASSUME NEW kind \in {"group", "refname", "alias"}, NEW i \in Sites(d, kind),
             i = Latest(Named(d, Sites(d, kind), d[i].name))
      PROVE  i = Latest(Named(e, Sites(d, kind), e[i].name))
  <2> DEFINE K == Sites(d, kind)
  <2>1. K \subseteq DOMAIN d /\ \A k \in K : d[k].kind \notin ReferenceKinds
    BY DEF Sites, ReferenceKinds
  <2>2. i \in DOMAIN d /\ (i \in Edits(d, s) <=> i = s)
    BY <2>1, EditedDeclaration DEF Edits
  <2>3. /\ Latest(Named(d, K, d[i].name)) # s => Latest(Named(e, K, d[i].name)) = Latest(Named(d, K, d[i].name))
        /\ Latest(Named(e, K, n)) = IF s \in K THEN s ELSE 0
    <3> HIDE DEF K
    <3> QED BY <2>1, <2>2, Lookup
  <2>4. e[i].name = IF i = s THEN n ELSE d[i].name
    BY <2>2, AfterSites
  <2> QED BY <1>2, <2>3, <2>4
<1> HIDE DEF e
<1>3. Declared(d) \subseteq Declared(e)
  <2> DEFINE Kept(f) == {i \in Sites(f, "group") \cup Sites(f, "refname") \cup Sites(f, "alias") :
                           i = Latest(Named(f, Sites(f, f[i].kind), f[i].name))}
  <2>1. ASSUME NEW i \in Kept(d)
        PROVE  i \in Kept(e)
    <3>1. /\ i \in DOMAIN d /\ i \in Sites(d, d[i].kind)
          /\ d[i].kind \in {"group", "refname", "alias"}
      BY DEF Sites
    <3>2. i = Latest(Named(e, Sites(d, d[i].kind), e[i].name))
      BY <1>2, <3>1
    <3> QED BY <1>1, <3>1, <3>2
  <2>2. \A f : Declared(f) = Sites(f, "table") \cup Columns(f) \cup Sites(f, "enum")
                               \cup Sites(f, "value") \cup Kept(f)
    BY DEF Declared
  <2> HIDE DEF Kept
  <2> QED BY <1>1, <2>1, <2>2
<1> QED BY <1>3 DEF e

\* The document stays well-formed: no other table has the new name.
LEMMA WellFormedKept ==
  ASSUME NEW d, NEW s, NEW n, Renaming(d, s, n)
  PROVE  WellFormed(After(d, s, n))
<1> DEFINE e == After(d, s, n)
<1>1. /\ e \in Seq(Site) /\ DOMAIN e = DOMAIN d
      /\ \A i \in DOMAIN d : /\ e[i].kind = d[i].kind
                             /\ e[i].of = d[i].of
                             /\ e[i].name = IF i \in Edits(d, s) THEN n ELSE d[i].name
      /\ WellFormed(d)
  BY AfterSites DEF Renaming
<1>2. ASSUME NEW t \in DOMAIN d, d[t].kind = "table"
      PROVE  t \in Edits(d, s) <=> t = s
  BY <1>2, EditedDeclaration DEF Edits, ReferenceKinds
<1>3. \A i \in DOMAIN d : Fold(d[i].name) # Fold(n)
  BY DEF Renaming, IsNew
<1> HIDE DEF e
<1>4. \A t, u \in DOMAIN d :
        d[t].kind = "table" /\ d[u].kind = "table" /\ Fold(e[t].name) = Fold(e[u].name) => t = u
  BY <1>1, <1>2, <1>3 DEF WellFormed
<1>5. WellFormed(e)
  BY <1>1, <1>4 DEF WellFormed
<1> QED BY <1>5 DEF e

-----------------------------------------------------------------------------
(* What the uses stand for. *)

\* No schema is taken for the name of a table or an enum.
SchemasApart(d) == \A q \in Sites(d, "schema") \cap Refs(d) : Target(d, q) = 0

\* A rename changes no schema.
LEMMA SchemaKept ==
  ASSUME NEW d, NEW s, NEW n, Renaming(d, s, n), SchemasApart(d)
  PROVE  /\ SchemasApart(After(d, s, n))
         /\ \A i : SchemaOf(After(d, s, n), i) = SchemaOf(d, i)
<1> DEFINE e == After(d, s, n)
<1>1. /\ Sites(e, "schema") = Sites(d, "schema")
      /\ Refs(e) = Refs(d)
      /\ \A q \in Refs(d) : Target(e, q) = Target(d, q)
  BY SameSites, RefsKept, TargetKept
<1>2. \A j \in DOMAIN d : /\ e[j].of = d[j].of
                          /\ e[j].name = IF j \in Edits(d, s) THEN n ELSE d[j].name
  BY AfterSites
<1>3. ASSUME NEW q \in Sites(d, "schema")
      PROVE  q \in DOMAIN d /\ q \notin Edits(d, s)
  <2>1. q \in DOMAIN d /\ d[q].kind = "schema"
    BY DEF Sites
  <2>2. q # s /\ s # 0
    <3>1. DOMAIN d = 1 .. Len(d)
      BY AfterSites
    <3> QED BY <2>1, <3>1 DEF Renaming, ReferenceKinds
  <2>3. q \in Refs(d) => Target(d, q) = 0
    BY DEF SchemasApart
  <2> QED BY <2>1, <2>2, <2>3 DEF Edits
<1> HIDE DEF e
<1>4. SchemasApart(e)
  BY <1>1 DEF SchemasApart
<1>5. ASSUME NEW i
      PROVE  SchemaOf(e, i) = SchemaOf(d, i)
  <2>1. \A q \in Sites(d, "schema") : e[q].of = d[q].of /\ e[q].name = d[q].name
    BY <1>2, <1>3
  <2> QED BY <1>1, <2>1 DEF SchemaOf
<1> QED BY <1>4, <1>5 DEF e

\* The last of the declarations K with the name and the schema of site i.
LastSame(d, K, i) == Latest({k \in K : Same(d, k, i)})

\* A lookup by the very name and the schema: it finds s still, if the use is
\* edited and in the schema of s, and what it found, if that is not s.
LEMMA SameKept ==
  ASSUME NEW d, NEW s, NEW n, Renaming(d, s, n), SchemasApart(d),
         NEW K, K \subseteq DOMAIN d, \A k \in K : d[k].kind \notin ReferenceKinds,
         NEW i \in DOMAIN d
  PROVE  /\ i \notin Edits(d, s) =>
              {k \in K : Same(After(d, s, n), k, i)} = {k \in K : Same(d, k, i)} \ {s}
         /\ i \in Edits(d, s) /\ s \in K /\ SchemaOf(d, i) = SchemaOf(d, s) =>
              {k \in K : Same(After(d, s, n), k, i)} = {s}
<1> DEFINE e == After(d, s, n)
<1>1. \A k \in K : e[k].name = IF k = s THEN n ELSE d[k].name
  <2>1. s \in Edits(d, s)
    BY DEF Edits
  <2> QED BY <2>1, AfterSites, EditedDeclaration
<1>2. e[i].name = IF i \in Edits(d, s) THEN n ELSE d[i].name
  BY AfterSites
<1>3. \A j : SchemaOf(e, j) = SchemaOf(d, j)
  BY SchemaKept
<1>4. \A j \in DOMAIN d : d[j].name # n
  BY DEF Renaming, IsNew
<1> HIDE DEF e
<1>5. ASSUME i \notin Edits(d, s)
      PROVE  {k \in K : Same(e, k, i)} = {k \in K : Same(d, k, i)} \ {s}
  <2>1. \A k \in K : Same(e, k, i) <=> (Same(d, k, i) /\ k # s)
    BY <1>1, <1>2, <1>3, <1>4, <1>5 DEF Same
  <2> QED BY <2>1
<1>6. ASSUME i \in Edits(d, s), s \in K, SchemaOf(d, i) = SchemaOf(d, s)
      PROVE  {k \in K : Same(e, k, i)} = {s}
  <2>1. \A k \in K : Same(e, k, i) <=> k = s
    BY <1>1, <1>2, <1>3, <1>4, <1>6 DEF Same
  <2> QED BY <1>6, <2>1
<1> QED BY <1>5, <1>6 DEF e

\* Declarations of a kind are no uses.
LEMMA KindsOfDeclarations ==
  ASSUME NEW d, NEW kind \in {"table", "alias", "enum"}
  PROVE  /\ Sites(d, kind) \subseteq DOMAIN d
         /\ \A k \in Sites(d, kind) : d[k].kind \notin ReferenceKinds
BY DEF Sites, ReferenceKinds

\* The table that a use stands for.
LEMMA TableMeaningKept ==
  ASSUME NEW d, NEW s, NEW n, Renaming(d, s, n), SchemasApart(d),
         NEW i \in DOMAIN d, TableUnderstood(d, i)
  PROVE  /\ DenotedTable(After(d, s, n), i) = DenotedTable(d, i)
         /\ TableUnderstood(After(d, s, n), i)
<1> DEFINE e == After(d, s, n)
           tables == {t \in Sites(d, "table") : Same(d, t, i)}
           aliases == {a \in Sites(d, "alias") : Same(d, a, i)}
           newTables == {t \in Sites(d, "table") : Same(e, t, i)}
           newAliases == {a \in Sites(d, "alias") : Same(e, a, i)}
           x == DenotedTable(d, i)
<1>1. /\ i \in Refs(d) /\ x # 0 /\ Target(d, i) = x
      /\ SchemaOf(d, i) = SchemaOf(d, x)
  BY DEF TableUnderstood
<1>2. i \in Edits(d, s) <=> x = s
  BY <1>1, EditedReference
<1>3. /\ Sites(e, "table") = Sites(d, "table") /\ Sites(e, "alias") = Sites(d, "alias")
      /\ \A a \in DOMAIN d : e[a].of = d[a].of
      /\ Len(d) \in Nat /\ DOMAIN d = 1 .. Len(d)
  BY SameSites, AfterSites
<1>4. /\ Sites(d, "table") \subseteq 1 .. Len(d) /\ Sites(d, "alias") \subseteq 1 .. Len(d)
      /\ \A a \in Sites(d, "alias") : d[a].of \in Sites(d, "table")
      /\ s \in 1 .. Len(d) /\ s \notin Sites(d, "alias")
  BY <1>3 DEF Sites, Renaming, WellFormed
<1>5. /\ i \notin Edits(d, s) => newTables = tables \ {s}
      /\ i \in Edits(d, s) /\ s \in Sites(d, "table") /\ SchemaOf(d, i) = SchemaOf(d, s) =>
           newTables = {s}
  BY KindsOfDeclarations, SameKept
<1>6. i \notin Edits(d, s) => newAliases = aliases \ {s}
  BY KindsOfDeclarations, SameKept
<1>7. x = IF tables # {} THEN Latest(tables)
          ELSE IF aliases # {} THEN d[Latest(aliases)].of ELSE 0
  BY DEF DenotedTable
<1>8. DenotedTable(e, i) = IF newTables # {} THEN Latest(newTables)
                           ELSE IF newAliases # {} THEN e[Latest(newAliases)].of ELSE 0
  BY <1>3 DEF DenotedTable
<1>9. tables \subseteq Sites(d, "table") /\ aliases \subseteq Sites(d, "alias")
  OBVIOUS
<1>10. /\ tables # {} => Latest(tables) \in tables
       /\ aliases # {} => Latest(aliases) \in aliases
  <2>1. tables \subseteq 1 .. Len(d) /\ aliases \subseteq 1 .. Len(d)
    BY <1>4, <1>9
  <2> HIDE DEF tables, aliases
  <2> QED BY <1>3, <2>1, HasLast
<1> HIDE DEF tables, aliases, newTables, newAliases, x
<1>11. DenotedTable(e, i) = x
  <2>1. CASE x = s
    <3>1. x \in Sites(d, "table")
      BY <1>1, <1>4, <1>7, <1>9, <1>10
    <3>2. newTables = {s}
      BY <1>1, <1>2, <1>5, <2>1, <3>1
    <3> QED BY <1>3, <1>4, <1>8, <2>1, <3>2, LastOne
  <2>2. CASE x # s
    <3>1. newTables = tables \ {s} /\ newAliases = aliases
      BY <1>2, <1>4, <1>5, <1>6, <1>9, <2>2
    <3>2. CASE tables # {}
      <4>1. x = Latest(tables) /\ x \in tables
        BY <1>7, <1>10, <3>2
      <4>2. Latest(newTables) = Latest(tables) /\ newTables # {}
        <5>1. tables \subseteq 1 .. Len(d)
          BY <1>4, <1>9
        <5> QED BY <1>3, <2>2, <3>1, <4>1, <5>1, LastWithout
      <4> QED BY <1>8, <4>1, <4>2
    <3>3. CASE tables = {}
      <4>1. newTables = {}
        BY <3>1, <3>3
      <4>2. aliases # {} /\ Latest(aliases) \in DOMAIN d
        BY <1>1, <1>3, <1>4, <1>7, <1>9, <1>10, <3>3
      <4> QED BY <1>3, <1>7, <1>8, <3>1, <3>3, <4>1, <4>2
    <3> QED BY <3>2, <3>3
  <2> QED BY <2>1, <2>2
<1>12. /\ i \in Refs(e) /\ Target(e, i) = x
       /\ SchemaOf(e, i) = SchemaOf(e, x)
  BY <1>1, RefsKept, TargetKept, SchemaKept
<1> HIDE DEF e
<1>13. TableUnderstood(e, i)
  BY <1>1, <1>11, <1>12 DEF TableUnderstood
<1> QED BY <1>11, <1>13 DEF e, x

\* The column that a use stands for, of a table T.
LEMMA ColumnMeaningKept ==
  ASSUME NEW d, NEW s, NEW n, Renaming(d, s, n), NEW T, NEW i \in DOMAIN d,
         DenotedColumn(d, T, i) # 0,
         i \in Edits(d, s) <=> DenotedColumn(d, T, i) = s
  PROVE  DenotedColumn(After(d, s, n), T, i) = DenotedColumn(d, T, i)
<1> DEFINE e == After(d, s, n)
           columns == {c \in Columns(d) : d[c].of = T /\ d[c].name = d[i].name}
           newColumns == {c \in Columns(d) : e[c].of = T /\ e[c].name = e[i].name}
<1>1. /\ Columns(e) = Columns(d) /\ Len(d) \in Nat /\ DOMAIN d = 1 .. Len(d)
      /\ \A c \in DOMAIN d : e[c].of = d[c].of
      /\ e[i].name = IF i \in Edits(d, s) THEN n ELSE d[i].name
  BY SameSites, AfterSites
<1>2. \A c \in Columns(d) : c \in DOMAIN d /\ e[c].name = IF c = s THEN n ELSE d[c].name
  <2>1. \A c \in Columns(d) : c \in DOMAIN d /\ d[c].kind \notin ReferenceKinds
    BY DEF Columns, Sites, ReferenceKinds
  <2>2. s \in Edits(d, s)
    BY DEF Edits
  <2> QED BY <2>1, <2>2, AfterSites, EditedDeclaration
<1>3. \A j \in DOMAIN d : d[j].name # n
  BY DEF Renaming, IsNew
<1>4. DenotedColumn(d, T, i) = Latest(columns) /\ DenotedColumn(e, T, i) = Latest(newColumns)
  BY <1>1 DEF DenotedColumn
<1>5. columns \subseteq 1 .. Len(d)
  BY <1>1, <1>2
<1>6. Latest(columns) \in columns
  <2> HIDE DEF columns
  <2> QED BY <1>1, <1>4, <1>5, LastIn
<1> HIDE DEF e
<1>7. CASE Latest(columns) = s
  <2>1. s \in columns /\ i \in Edits(d, s)
    BY <1>4, <1>6, <1>7
  <2>2. newColumns = {s}
    BY <1>1, <1>2, <1>3, <2>1
  <2> QED BY <1>1, <1>4, <1>5, <1>7, <2>1, <2>2, LastOne DEF e
<1>8. CASE Latest(columns) # s
  <2>1. i \notin Edits(d, s)
    BY <1>4, <1>8
  <2>2. newColumns = columns \ {s}
    BY <1>1, <1>2, <1>3, <2>1
  <2>3. Latest(columns \ {s}) = Latest(columns)
    <3> HIDE DEF columns
    <3> QED BY <1>1, <1>5, <1>8, LastWithout
  <2> QED BY <1>4, <2>2, <2>3 DEF e
<1> QED BY <1>7, <1>8

\* The enum that a type stands for.
LEMMA EnumMeaningKept ==
  ASSUME NEW d, NEW s, NEW n, Renaming(d, s, n), SchemasApart(d), NEW i \in DOMAIN d,
         LastSame(d, Sites(d, "enum"), i) # 0,
         i \in Edits(d, s) <=> LastSame(d, Sites(d, "enum"), i) = s
  PROVE  LastSame(After(d, s, n), Sites(d, "enum"), i) = LastSame(d, Sites(d, "enum"), i)
<1> DEFINE e == After(d, s, n)
           K == Sites(d, "enum")
           enums == {k \in K : Same(d, k, i)}
           newEnums == {k \in K : Same(e, k, i)}
<1>1. Len(d) \in Nat /\ K \subseteq 1 .. Len(d)
  BY AfterSites, KindsOfDeclarations
<1>2. LastSame(d, K, i) = Latest(enums) /\ LastSame(e, K, i) = Latest(newEnums)
  BY DEF LastSame
<1>3. /\ i \notin Edits(d, s) => newEnums = enums \ {s}
      /\ i \in Edits(d, s) /\ s \in K /\ SchemaOf(d, i) = SchemaOf(d, s) => newEnums = {s}
  <2>1. K \subseteq DOMAIN d /\ \A k \in K : d[k].kind \notin ReferenceKinds
    BY KindsOfDeclarations
  <2> HIDE DEF K, e
  <2>2. /\ i \notin Edits(d, s) => newEnums = {k \in K : Same(d, k, i)} \ {s}
        /\ i \in Edits(d, s) /\ s \in K /\ SchemaOf(d, i) = SchemaOf(d, s) => newEnums = {s}
    BY <2>1, SameKept DEF e
  <2> QED BY <2>2
<1>4. enums \subseteq 1 .. Len(d)
  BY <1>1
<1>5. Latest(enums) \in enums
  <2> HIDE DEF enums
  <2> QED BY <1>1, <1>2, <1>4, LastIn
<1>6. Latest(enums) \in K /\ SchemaOf(d, Latest(enums)) = SchemaOf(d, i)
  BY <1>5 DEF Same
<1> HIDE DEF enums, newEnums
<1>7. CASE Latest(enums) = s
  <2>1. newEnums = {s}
    BY <1>2, <1>3, <1>6, <1>7
  <2> QED BY <1>1, <1>2, <1>6, <1>7, <2>1, LastOne
<1>8. CASE Latest(enums) # s
  <2>1. newEnums = enums \ {s}
    BY <1>2, <1>3, <1>8
  <2>2. Latest(newEnums) = Latest(enums)
    BY <1>1, <1>4, <1>8, <2>1, LastWithout
  <2> QED BY <1>2, <2>2
<1> QED BY <1>7, <1>8

\* A use that the server understands stands for what it stood for, and is
\* understood still.
LEMMA MeaningStep ==
  ASSUME NEW d, NEW s, NEW n, Renaming(d, s, n), SchemasApart(d),
         NEW i \in DOMAIN d, Denoted(d, i) # 0, UseUnderstood(d, i)
  PROVE  /\ Denoted(After(d, s, n), i) = Denoted(d, i)
         /\ UseUnderstood(After(d, s, n), i)
<1> DEFINE e == After(d, s, n)
<1>1. /\ i \in Refs(d) /\ Target(d, i) = Denoted(d, i)
      /\ i \in Refs(e) /\ Target(e, i) = Denoted(d, i)
  BY RefsKept, TargetKept DEF UseUnderstood
<1>2. i \in Edits(d, s) <=> Denoted(d, i) = s
  BY <1>1, EditedReference
<1>3. e[i].kind = d[i].kind /\ e[i].of = d[i].of
  BY AfterSites
<1>4. CASE d[i].kind \in {"refTable", "member"}
  <2>1. TableUnderstood(d, i)
    BY <1>4 DEF UseUnderstood
  <2>2. DenotedTable(e, i) = DenotedTable(d, i) /\ TableUnderstood(e, i)
    BY <2>1, TableMeaningKept
  <2>3. Denoted(d, i) = DenotedTable(d, i)
    BY <1>4 DEF Denoted
  <2> HIDE DEF e
  <2>4. Denoted(e, i) = DenotedTable(e, i)
    BY <1>3, <1>4 DEF Denoted
  <2>5. UseUnderstood(e, i)
    BY <1>1, <1>3, <1>4, <2>2, <2>3, <2>4 DEF UseUnderstood
  <2> QED BY <2>2, <2>3, <2>4, <2>5 DEF e
<1>5. CASE d[i].kind = "refColumn"
  <2> DEFINE j == d[i].of
             T == DenotedTable(d, j)
  <2>1. TableUnderstood(d, j) /\ j \in DOMAIN d
    BY <1>5 DEF UseUnderstood, Renaming, WellFormed
  <2>2. DenotedTable(e, j) = T /\ TableUnderstood(e, j)
    BY <2>1, TableMeaningKept
  <2>3. Denoted(d, i) = DenotedColumn(d, T, i)
    BY <1>5 DEF Denoted
  <2> HIDE DEF T, j
  <2>4. DenotedColumn(e, T, i) = DenotedColumn(d, T, i)
    BY <1>2, <2>3, ColumnMeaningKept
  <2> HIDE DEF e
  <2>5. Denoted(e, i) = DenotedColumn(e, DenotedTable(e, j), i)
    BY <1>3, <1>5 DEF Denoted, j
  <2>6. Denoted(e, i) = Denoted(d, i)
    BY <2>2, <2>3, <2>4, <2>5
  <2>7. UseUnderstood(e, i)
    BY <1>1, <1>3, <1>5, <2>2, <2>6 DEF UseUnderstood, j
  <2> QED BY <2>6, <2>7 DEF e
<1>6. CASE d[i].kind = "type"
  <2> DEFINE K == Sites(d, "enum")
  <2>1. Denoted(d, i) = LastSame(d, K, i)
    BY <1>6 DEF Denoted, LastSame
  <2>2. LastSame(e, K, i) = LastSame(d, K, i)
    BY <1>2, <2>1, EnumMeaningKept
  <2>3. Sites(e, "enum") = K
    BY SameSites
  <2> HIDE DEF e, K
  <2>4. Denoted(e, i) = LastSame(e, K, i)
    BY <1>3, <1>6, <2>3 DEF Denoted, LastSame
  <2>5. UseUnderstood(e, i)
    BY <1>1, <1>3, <1>6, <2>1, <2>2, <2>4 DEF UseUnderstood
  <2> QED BY <2>1, <2>2, <2>4, <2>5 DEF e
<1>7. CASE d[i].kind \notin {"refTable", "member", "refColumn", "type"}
  <2>1. d[i].kind = "index"
    BY <1>7 DEF Denoted
  <2> QED BY <1>1, <2>1 DEF Refs, Leads
<1> QED BY <1>4, <1>5, <1>6, <1>7

-----------------------------------------------------------------------------
(* Any number of renames. *)

\* A user's rename to a new name is one of these.
LEMMA RenameAtIsRenaming ==
  ASSUME NEW i \in DOMAIN doc, NEW name \in NewNames, RenameAt(i, name),
         WellFormed(doc), IsNew(doc, name)
  PROVE  /\ Renaming(doc, Symbol(doc, i), name)
         /\ doc' = After(doc, Symbol(doc, i), name)
<1> DEFINE s == Symbol(doc, i)
<1>1. s # 0 /\ doc[s].kind # "alias" /\ doc' = After(doc, s, name)
  BY DEF RenameAt, Renames, After
<1>2. name \in STRING /\ Fold(name) \notin Pseudo
  BY NewNamesAssumption
<1>3. s \in Sites(doc, "table") \cup Columns(doc) \cup Sites(doc, "enum") \cup Sites(doc, "value")
           \cup Sites(doc, "group") \cup Sites(doc, "refname") \cup Sites(doc, "alias")
  <2>1. CASE i \in Refs(doc)
    <3>1. s = Target(doc, i)
      BY <2>1 DEF Symbol
    <3>2. \/ Target(doc, i) = EnumNamed(doc, doc[i].name)
          \/ Target(doc, i) = ColumnNamed(doc, ResolveTable(doc, doc[doc[i].of].name), doc[i].name)
          \/ Target(doc, i) = ResolveTable(doc, doc[i].name)
      BY DEF Target
    <3> HIDE DEF s
    <3> QED BY <1>1, <3>1, <3>2, Declarations
  <2>2. CASE i \in Declared(doc)
    <3>1. CASE i \notin Refs(doc)
      <4>1. s = i
        BY <2>2, <3>1 DEF Symbol
      <4> HIDE DEF s
      <4> QED BY <2>2, <4>1 DEF Declared
    <3> QED BY <2>1, <3>1
  <2> QED BY <1>1, <2>1, <2>2 DEF Symbol
<1> HIDE DEF s
<1>4. /\ s \in DOMAIN doc /\ doc[s].kind \notin ReferenceKinds
      /\ doc[s].kind = "column" => s \in Columns(doc)
  BY <1>3 DEF Sites, Columns, ReferenceKinds
<1>5. Renaming(doc, s, name)
  BY <1>1, <1>2, <1>4 DEF Renaming
<1> QED BY <1>1, <1>5 DEF s

\* BindingsKept speaks of the first document; that a further rename keeps it
\* needs that the document is well-formed still.
Inv == (fresh => WellFormed(doc)) /\ BindingsKept

LEMMA InitInv == Init => Inv
BY DocumentsAssumption DEF Init, Inv, BindingsKept

LEMMA StepInv == Inv /\ [Next]_vars => Inv'
<1> SUFFICES ASSUME Inv, [Next]_vars PROVE Inv'
  OBVIOUS
<1>1. CASE Next
  <2>1. PICK i \in DOMAIN doc, name \in NewNames : RenameAt(i, name)
    BY <1>1 DEF Next
  <2>2. first' = first /\ (fresh' = (fresh /\ IsNew(doc, name)))
    BY <2>1 DEF RenameAt
  <2>3. CASE fresh /\ IsNew(doc, name)
    <3> DEFINE s == Symbol(doc, i)
    <3>1. /\ WellFormed(doc)
          /\ Refs(doc) = Refs(first) /\ Declared(first) \subseteq Declared(doc)
          /\ \A r \in Refs(doc) : Target(doc, r) = Target(first, r)
      BY <2>3 DEF Inv, BindingsKept
    <3>2. Renaming(doc, s, name) /\ doc' = After(doc, s, name)
      BY <2>1, <2>3, <3>1, RenameAtIsRenaming
    <3> HIDE DEF s
    <3>3. /\ WellFormed(doc')
          /\ Refs(doc') = Refs(doc) /\ Declared(doc) \subseteq Declared(doc')
          /\ \A r \in Refs(doc) : Target(doc', r) = Target(doc, r)
      BY <3>2, WellFormedKept, RefsKept, DeclaredKept, TargetKept
    <3>4. BindingsKept'
      BY <2>2, <3>1, <3>3 DEF BindingsKept
    <3> QED BY <3>3, <3>4 DEF Inv
  <2>4. CASE ~(fresh /\ IsNew(doc, name))
    BY <2>2, <2>4 DEF Inv, BindingsKept
  <2> QED BY <2>3, <2>4
<1>2. CASE UNCHANGED vars
  BY <1>2 DEF vars, Inv, BindingsKept
<1> QED BY <1>1, <1>2

\* In a document of any size, any number of renames to names that are new to it
\* keep every reference a reference to the same declaration, through aliases,
\* prefixes and differences of case, and lose no declaration (Rename).
THEOREM BindingsStay == Spec => []BindingsKept
<1>1. Inv => BindingsKept
  BY DEF Inv
<1> QED BY InitInv, StepInv, <1>1, PTL DEF Spec

\* What was understood in the first document is understood still: the lookups of
\* the language and of the server agree, so that the edited uses are those that
\* stand for the renamed declaration.
MeaningInv ==
  fresh => /\ DOMAIN doc = DOMAIN first
           /\ WellFormed(doc)
           /\ SchemasApart(doc)
           /\ \A i \in DOMAIN doc :
                Denoted(first, i) # 0 =>
                  Denoted(doc, i) = Denoted(first, i) /\ UseUnderstood(doc, i)

LEMMA MeaningStepInv == MeaningInv /\ [Next]_vars => MeaningInv'
<1> SUFFICES ASSUME MeaningInv, [Next]_vars PROVE MeaningInv'
  OBVIOUS
<1>1. CASE Next
  <2>1. PICK i \in DOMAIN doc, name \in NewNames : RenameAt(i, name)
    BY <1>1 DEF Next
  <2>2. first' = first /\ (fresh' = (fresh /\ IsNew(doc, name)))
    BY <2>1 DEF RenameAt
  <2>3. CASE fresh /\ IsNew(doc, name)
    <3> DEFINE s == Symbol(doc, i)
    <3>1. /\ DOMAIN doc = DOMAIN first /\ WellFormed(doc) /\ SchemasApart(doc)
          /\ \A u \in DOMAIN doc :
               Denoted(first, u) # 0 =>
                 Denoted(doc, u) = Denoted(first, u) /\ UseUnderstood(doc, u)
      BY <2>3 DEF MeaningInv
    <3>2. Renaming(doc, s, name) /\ doc' = After(doc, s, name)
      BY <2>1, <2>3, <3>1, RenameAtIsRenaming
    <3> HIDE DEF s
    <3>3. DOMAIN doc' = DOMAIN doc /\ WellFormed(doc') /\ SchemasApart(doc')
      BY <3>1, <3>2, AfterSites, WellFormedKept, SchemaKept
    <3>4. ASSUME NEW u \in DOMAIN doc, Denoted(first, u) # 0
          PROVE  Denoted(doc', u) = Denoted(first, u) /\ UseUnderstood(doc', u)
      <4>1. Denoted(doc, u) = Denoted(first, u) /\ UseUnderstood(doc, u)
        BY <3>1, <3>4
      <4> QED BY <3>1, <3>2, <3>4, <4>1, MeaningStep
    <3> QED BY <2>2, <3>1, <3>3, <3>4 DEF MeaningInv
  <2>4. CASE ~(fresh /\ IsNew(doc, name))
    BY <2>2, <2>4 DEF MeaningInv
  <2> QED BY <2>3, <2>4
<1>2. CASE UNCHANGED vars
  BY <1>2 DEF vars, MeaningInv
<1> QED BY <1>1, <1>2

\* In documents that the server understands, with no index that lists a column and
\* no group member or type in a schema, renames to new names keep what every use
\* stands for: the rest of the program reads the document as it did (Rename).
THEOREM MeaningStays ==
  ASSUME \A d \in Documents : Understood(d)
  PROVE  Spec => []MeaningKept
<1>1. Init => MeaningInv
  BY DocumentsAssumption DEF Init, MeaningInv, Understood, SchemasApart
<1>2. MeaningInv => MeaningKept
  BY DEF MeaningInv, MeaningKept
<1> QED BY <1>1, <1>2, MeaningStepInv, PTL DEF Spec

=============================================================================
