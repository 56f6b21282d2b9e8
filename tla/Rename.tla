------------------------------- MODULE Rename -------------------------------
(***************************************************************************)
(* Names in a DBML document: the symbol index and the resolved references  *)
(* of the language server (analysis/symbols.go, analysis/refs.go) and the  *)
(* rename that is built on them (analysis/rename.go).                      *)
(*                                                                         *)
(* A document is the sequence of its identifiers, each a site [kind, name, *)
(* of].  of is the site that it belongs to, or 0:                          *)
(*   "table", "enum", "group", "refname"  declarations                     *)
(*   "alias", "column"                    declarations, of their table     *)
(*   "value"                              a declaration, of its enum       *)
(*   "type"       the first word of the type of its column                 *)
(*   "index"      a column listed in an index or in records of its table   *)
(*   "member"     a table listed in a group                                *)
(*   "refTable"   the table of an endpoint of a Ref                        *)
(*   "refColumn"  a column of an endpoint, of its refTable                 *)
(*   "schema"     a prefix, of the site that it qualifies                  *)
(* Applying the edits of a rename replaces names and leaves the rest of    *)
(* the document as it is; the document is then analysed anew.              *)
(***************************************************************************)
EXTENDS Naturals, Sequences, FiniteSets

CONSTANTS
  Documents,   \* the documents to start from
  NewNames,    \* the names a user may ask for
  Invalid,     \* empty names, names with white space or a leading digit
  Fold(_),     \* a name in lower case
  Pseudo,      \* note, indexes and records: no column has such a name
  MaxRenames   \* bound on the renames of a behaviour

Site == [kind : STRING, name : STRING, of : Nat]

\* What a site belongs to is there: an alias has its table, a column of an
\* endpoint the table before it.  No table is declared twice.
WellFormed(d) ==
  /\ d \in Seq(Site)
  /\ \A i \in DOMAIN d :
       /\ d[i].kind \in {"schema", "type"} => d[i].of \in DOMAIN d
       /\ d[i].kind = "alias" => d[i].of \in DOMAIN d /\ d[d[i].of].kind = "table"
       /\ d[i].kind = "refColumn" => d[i].of \in DOMAIN d /\ d[d[i].of].kind = "refTable"
  /\ \A t, u \in DOMAIN d :
       d[t].kind = "table" /\ d[u].kind = "table" /\ Fold(d[t].name) = Fold(d[u].name) => t = u

ASSUME DocumentsAssumption == \A d \in Documents : WellFormed(d)

\* A user who asks for the name of a pseudo-column gets no column of that name.
ASSUME NewNamesAssumption ==
  NewNames \subseteq STRING /\ \A name \in NewNames : Fold(name) \notin Pseudo

VARIABLES
  first,     \* the document at the start
  doc,       \* the document
  fresh,     \* every name asked for so far was new to the document
  renames    \* how many renames there have been

vars == <<first, doc, fresh, renames>>

Latest(S) == IF S = {} THEN 0 ELSE CHOOSE i \in S : \A j \in S : j <= i

Sites(d, kind) == {i \in DOMAIN d : d[i].kind = kind}

Named(d, S, name) == {i \in S : Fold(d[i].name) = Fold(name)}

-----------------------------------------------------------------------------
(* The symbol index (BuildSymbolIndex): maps by the name in lower case, in *)
(* which a later declaration takes the place of an earlier one.            *)

TableNamed(d, name) == Latest(Named(d, Sites(d, "table"), name))

AliasNamed(d, name) == Latest(Named(d, Sites(d, "alias"), name))

EnumNamed(d, name) == Latest(Named(d, Sites(d, "enum"), name))

\* A line that starts with note, indexes or records is no column.
Columns(d) == {i \in Sites(d, "column") : Fold(d[i].name) \notin Pseudo}

ResolveTable(d, name) ==
  IF TableNamed(d, name) # 0 THEN TableNamed(d, name)
  ELSE IF AliasNamed(d, name) # 0 THEN d[AliasNamed(d, name)].of
  ELSE 0

\* The columns are kept by the name of their table.
ColumnNamed(d, table, name) ==
  IF table = 0 THEN 0
  ELSE Latest({i \in Named(d, Columns(d), name) : d[i].of = TableNamed(d, d[table].name)})

-----------------------------------------------------------------------------
(* The resolved references (ResolveRefs). *)

Qualified(d, i) == \E q \in Sites(d, "schema") : d[q].of = i

\* A group member and a type are read by their first identifier, which is the
\* schema when they have one.
Leads(d, i, kind) ==
  \/ d[i].kind = kind /\ ~Qualified(d, i)
  \/ d[i].kind = "schema" /\ d[d[i].of].kind = kind

\* The column whose type site i leads is one.
TypeOfColumn(d, i) ==
  LET t == IF d[i].kind = "schema" THEN d[i].of ELSE i
  IN  d[t].of \in Columns(d)

\* The sites that are recorded as references.
Refs(d) ==
  {i \in DOMAIN d :
     \/ d[i].kind \in {"refTable", "refColumn"}
     \/ Leads(d, i, "member")
     \/ Leads(d, i, "type") /\ TypeOfColumn(d, i) /\ EnumNamed(d, d[i].name) # 0}

\* The declaration that a reference resolves to, or 0.
Target(d, i) ==
  CASE Leads(d, i, "type") -> EnumNamed(d, d[i].name)
    [] d[i].kind = "refColumn" -> ColumnNamed(d, ResolveTable(d, d[d[i].of].name), d[i].name)
    [] OTHER -> ResolveTable(d, d[i].name)

-----------------------------------------------------------------------------
(* Rename. *)

\* The declarations that symbolAtDecl finds: all tables and enums with what is
\* in them, and what is left in the maps of the others.
Declared(d) ==
  Sites(d, "table") \cup Columns(d) \cup Sites(d, "enum") \cup Sites(d, "value")
    \cup {i \in Sites(d, "group") \cup Sites(d, "refname") \cup Sites(d, "alias") :
            i = Latest(Named(d, Sites(d, d[i].kind), d[i].name))}

\* resolveRenameTarget: the symbol under the cursor, or 0.
Symbol(d, i) ==
  IF i \in Refs(d) THEN Target(d, i)
  ELSE IF i \in Declared(d) THEN i
  ELSE 0

\* Rename returns an error for the name of an alias.
Renames(d, i) == Symbol(d, i) # 0 /\ d[Symbol(d, i)].kind # "alias"

\* A faulty form of Edits: the uses are changed where they have the name that
\* the declaration has.
EditsByText(d, s) == {s} \cup {r \in Refs(d) : Target(d, r) = s /\ d[r].name = d[s].name}

\* A faulty form of Edits: the references of Ref declarations only.
EditsOfRefs(d, s) ==
  {s} \cup {r \in Refs(d) : d[r].kind \in {"refTable", "refColumn"} /\ Target(d, r) = s}

\* The sites that are changed when symbol s is renamed.
Edits(d, s) == {s} \cup {r \in Refs(d) : Target(d, r) = s}

Replaced(d, S, name) == [i \in DOMAIN d |-> IF i \in S THEN [d[i] EXCEPT !.name = name] ELSE d[i]]

IsNew(d, name) == \A i \in DOMAIN d : Fold(d[i].name) # Fold(name)

Init ==
  /\ first \in Documents
  /\ doc = first
  /\ fresh = TRUE
  /\ renames = 0

\* The cursor is on site i, and the edits are applied to the document they were
\* made for.
RenameAt(i, name) ==
  /\ renames < MaxRenames
  /\ name \notin Invalid
  /\ Renames(doc, i)
  /\ doc' = Replaced(doc, Edits(doc, Symbol(doc, i)), name)
  /\ fresh' = (fresh /\ IsNew(doc, name))
  /\ renames' = renames + 1
  /\ UNCHANGED first

Next == \E i \in DOMAIN doc, name \in NewNames : RenameAt(i, name)

Spec == Init /\ [][Next]_vars

-----------------------------------------------------------------------------
(* What the names stand for in the language: the vocabulary of MeaningKept *)
(* and no code of the server.  A schema and the case are part of a name    *)
(* (the interpreter keeps both), an alias stands for its table, and an     *)
(* index lists columns of its table.                                       *)

SchemaOf(d, i) == {d[q].name : q \in {q \in Sites(d, "schema") : d[q].of = i}}

Same(d, i, j) == d[i].name = d[j].name /\ SchemaOf(d, i) = SchemaOf(d, j)

DenotedTable(d, i) ==
  LET tables == {t \in Sites(d, "table") : Same(d, t, i)}
      aliases == {a \in Sites(d, "alias") : Same(d, a, i)}
  IN  IF tables # {} THEN Latest(tables)
      ELSE IF aliases # {} THEN d[Latest(aliases)].of
      ELSE 0

DenotedColumn(d, table, i) ==
  Latest({c \in Columns(d) : d[c].of = table /\ d[c].name = d[i].name})

\* The declaration that a use stands for, or 0.
Denoted(d, i) ==
  CASE d[i].kind \in {"refTable", "member"} -> DenotedTable(d, i)
    [] d[i].kind = "refColumn" -> DenotedColumn(d, DenotedTable(d, d[i].of), i)
    [] d[i].kind = "index" -> DenotedColumn(d, d[i].of, i)
    [] d[i].kind = "type" -> Latest({e \in Sites(d, "enum") : Same(d, e, i)})
    [] OTHER -> 0

\* The server reads the table at site i as the language does.
TableUnderstood(d, i) ==
  /\ i \in Refs(d) /\ DenotedTable(d, i) # 0
  /\ Target(d, i) = DenotedTable(d, i)
  /\ SchemaOf(d, i) = SchemaOf(d, DenotedTable(d, i))

UseUnderstood(d, i) ==
  /\ i \in Refs(d) /\ Target(d, i) = Denoted(d, i)
  /\ d[i].kind \in {"refTable", "member"} => TableUnderstood(d, i)
  /\ d[i].kind = "refColumn" => TableUnderstood(d, d[i].of)

\* The server sees every use that stands for something, for the same thing, and
\* takes no schema for the name of a table or an enum.  It does not see what an
\* index lists, nor a group member or a type that has a schema.
Understood(d) ==
  /\ \A q \in Sites(d, "schema") \cap Refs(d) : Target(d, q) = 0
  /\ \A i \in DOMAIN d : Denoted(d, i) # 0 => UseUnderstood(d, i)

-----------------------------------------------------------------------------
(* Properties. *)

\* Names that are new to the document capture nothing and lose nothing: after
\* any renames the same sites are references, to the same declarations, and no
\* declaration is lost.
BindingsKept ==
  fresh => /\ Refs(doc) = Refs(first)
           /\ Declared(first) \subseteq Declared(doc)
           /\ \A i \in Refs(doc) : Target(doc, i) = Target(first, i)

\* What a use stands for does not change either, for the rest of the program.
MeaningKept ==
  fresh => \A i \in DOMAIN doc : Denoted(first, i) # 0 => Denoted(doc, i) = Denoted(first, i)
=============================================================================
