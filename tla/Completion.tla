----------------------------- MODULE Completion -----------------------------
(***************************************************************************)
(* What the language server offers at a cursor (analysis/completion.go)    *)
(* and tells of a word that is no name (analysis/hover.go), from the tree  *)
(* and the tokens of a text that may not be complete.                      *)
(*                                                                         *)
(* A cursor in the white space between two tokens is on one side of the    *)
(* line break there or on the other.  An item that is offered is its       *)
(* label; documentation, snippets and the filter by what is typed already  *)
(* are left out.  Words are written in one case.                           *)
(***************************************************************************)
EXTENDS SyntaxTree

Read == INSTANCE Interpreter

NoDeclaration == [kind |-> "none", first |-> 0, last |-> 0, parts |-> << >>]

-----------------------------------------------------------------------------
(* What there is to offer. *)

Keywords == Known \cup {"TablePartial"}
ColumnAttributes == {"pk", "primary key", "unique", "not null", "null", "increment", "default", "note", "ref"}
BuiltinTypes == {"int", "varchar"}   \* of 29
DefaultValues == {"null", "true", "false", "now()"}
ProjectSettings == {"database_type", "note"}
DatabaseTypes == {"MariaDB", "PostgreSQL"}   \* of 6

IsName(token) == token.kind \in Identifier \cup {"quoted"}

\* extractDeclName: the table of schema.table.
RECURSIVE DeclName(_)
DeclName(n) ==
  IF n.kind = "infix" /\ n.parts[2].token.kind = "." THEN DeclName(n.parts[3]) ELSE Read!Name(n)

\* The declarations that the symbol index takes up.
Declared(t, keyword) ==
  SelectSeq(t.parts, LAMBDA d : d.parts[1].token.kind = keyword /\ DeclName(Read!NameOf(d)) # "")

NamesOf(decls) == {DeclName(Read!NameOf(d)) : d \in ToSet(decls)}

AliasesOf(decls) == {DeclName(Read!AliasOf(d)) : d \in ToSet(decls)} \ {""}

\* The lines of a table that say more than a name.
ColumnsOf(decl) ==
  {DeclName(item) : item \in {i \in ToSet(Read!BlockItemsOf(decl)) :
     i.kind = "apply" /\ Read!Lower(Read!Name(i)) \notin {"note", "indexes", "records"}}} \ {""}

\* columnItemsFor: of the table of that name, or else of the one with that
\* alias; of two the later is the one.
ColumnItemsFor(t, name) ==
  LET tables == Declared(t, "Table")
      named == SelectSeq(tables, LAMBDA d : DeclName(Read!NameOf(d)) = name)
      known == SelectSeq(tables, LAMBDA d : DeclName(Read!AliasOf(d)) = name)
  IN  CASE named # << >> -> ColumnsOf(Last(named))
        [] named = << >> /\ known # << >> /\ name # "" -> ColumnsOf(Last(known))
        [] OTHER -> {}

TableItems(t) == NamesOf(Declared(t, "Table")) \cup AliasesOf(Declared(t, "Table"))

\* itemsForContext.
Items(t, context) ==
  CASE context.kind = "keyword"   -> Keywords
    [] context.kind = "type"      -> BuiltinTypes \cup NamesOf(Declared(t, "Enum"))
    [] context.kind = "attribute" -> ColumnAttributes
    [] context.kind = "default"   -> DefaultValues
    [] context.kind = "table"     -> TableItems(t)
    [] context.kind = "column"    -> ColumnItemsFor(t, context.hint)
    [] context.kind = "setting"   -> ProjectSettings
    [] context.kind = "database"  -> DatabaseTypes
    [] context.kind = "relation"  -> Relation
    [] OTHER -> {}

-----------------------------------------------------------------------------
(* Where the cursor is. *)

Context(kind) == [kind |-> kind, hint |-> ""]

ColumnOf(name) == [kind |-> "column", hint |-> name]

Covers(n, offset) == StartOf(n.first) <= offset /\ offset <= EndOf(n.last)

\* The line of an offset, from a break to a break (lineExtent).
LineStart(d, offset) == Max({0} \cup {5 * i - 3 : i \in {j \in DOMAIN d : d[j].newline /\ 5 * j - 3 <= offset}})

LineEnd(d, offset) ==
  Min({5 * Len(d) + 3} \cup {5 * i - 4 : i \in {j \in DOMAIN d : d[j].newline /\ 5 * j - 4 >= offset}})

\* The tokens before an offset that end after start and start before end.
Between(d, start, end, offset) ==
  {i \in DOMAIN d : EndOf(i) > start /\ StartOf(i) < end /\ StartOf(i) < offset}

\* The innermost node of a kind.
LastOn(path, kind) ==
  LET k == SelectLastInSeq(path, LAMBDA n : n.kind = kind) IN IF k = 0 THEN NoDeclaration ELSE path[k]

ColonOf(decl) == {p \in ToSet(decl.parts) : p.kind = "token" /\ p.token.kind = ":"}

\* A declaration that an offset behind it may still belong to: its block is
\* the one around the offset, or the line goes on behind its colon.
GoesOnTo(d, decl, body, offset) ==
  IF body.kind = "block" THEN Covers(body, offset)
  ELSE ColonOf(decl) # {} /\ ~\E i \in DOMAIN d : d[i].newline /\ 5 * i - 4 \in EndOf(decl.last) .. offset - 1

\* enclosingDeclByToken, where no declaration covers the offset: the last one
\* before it, if it goes on.
DeclByToken(t, d, offset) ==
  LET k == SelectLastInSeq(t.parts, LAMBDA p : StartOf(p.first) <= offset)
      best == t.parts[k]
  IN  IF k # 0 /\ GoesOnTo(d, best, Read!BodyOf(best), offset) THEN best ELSE NoDeclaration

\* The last token before the body of a Ref.
BeforeBody(decl, body) ==
  CASE body.kind = "block" -> body.parts[1].last
    [] body.kind # "block" /\ ColonOf(decl) # {} -> (CHOOSE c \in ColonOf(decl) : TRUE).last
    [] OTHER -> decl.first

\* By the last two of the tokens that are between from and a cursor.
AfterTokens(d, from, prev) ==
  CASE prev = from -> Context("table")
    [] prev # from /\ d[prev].kind = "." ->
         ColumnOf(IF prev - 1 # from /\ IsName(d[prev - 1]) THEN d[prev - 1].value ELSE "")
    [] prev # from /\ IsName(d[prev]) -> Context("relation")
    [] OTHER -> Context("table")

AfterFrom(d, from, offset) ==
  AfterTokens(d, from, Max({from} \cup {i \in DOMAIN d : StartOf(i) >= EndOf(from) /\ EndOf(i) <= offset}))

\* classifyRefBodyByTokens: by the two tokens before the offset.
RefContext(d, decl, offset) == AfterFrom(d, BeforeBody(decl, Read!BodyOf(decl)), offset)

\* The tokens of a value one after the other (flatten).
RECURSIVE Atoms(_)
Atoms(n) ==
  CASE n.kind = "token" -> <<n>>
    [] n.kind \in {"tuple", "stream"} -> << >>
    [] OTHER -> FlattenSeq([k \in DOMAIN n.parts |-> Atoms(n.parts[k])])

\* inlineRefTableHint: the name before the first dot, or "".
InlineHint(value, offset) ==
  LET atoms == SelectSeq(Atoms(value), LAMBDA a : EndOf(a.last) <= offset)
      dot == SelectInSeq(atoms, LAMBDA a : a.token.kind = ".")
  IN  IF dot > 1 /\ IsName(atoms[dot - 1].token) THEN atoms[dot - 1].token.value ELSE ""

\* In a list: the value of a setting, or else the name of one.
ListContext(list, offset) ==
  LET k == SelectInSeq(list.parts, LAMBDA p : p.kind = "attribute" /\ Covers(p, offset))
      attr == list.parts[k]
      name == Read!Name(attr.parts[1])
      hint == InlineHint(attr.parts[3], offset)
  IN  IF k = 0 \/ Len(attr.parts) < 3 \/ offset <= EndOf(attr.parts[2].last) THEN Context("attribute")
      ELSE CASE name = "default" -> Context("default")
             [] name = "ref" /\ hint # "" -> ColumnOf(hint)
             [] name = "ref" /\ hint = "" -> Context("table")
             [] OTHER -> Context("none")

\* projectLineContext: by the first identifier of the line and a colon on it.
ProjectContext(d, offset) ==
  LET line == Between(d, LineStart(d, offset), LineEnd(d, offset), offset)
      names == {i \in line : d[i].kind \in Identifier}
      colons == {i \in line : d[i].kind = ":"}
  IN  CASE names = {} \/ colons = {} \/ offset <= EndOf(Max(colons)) -> Context("setting")
        [] d[Min(names)].value = "database_type" -> Context("database")
        [] OTHER -> Context("none")

\* isColumnTypePosition: within the first argument of an application.
InFirstArgument(path, offset) ==
  \E n \in ToSet(path) : n.kind = "apply" /\ Len(n.parts) > 1 /\ Covers(n.parts[2], offset)

\* A faulty form of TypeSlot: the line is not cut off at the brace.
TypeSlotWholeLine(path, d, block, offset) ==
  LET line == Between(d, LineStart(d, offset), LineEnd(d, offset), offset)
  IN  \/ InFirstArgument(path, offset)
      \/ /\ {i \in line : d[i].kind \in {"[", "]"}} = {}
         /\ Cardinality({i \in line : IsName(d[i])}) = 1

\* atColumnTypeSlot: behind the one name on the line, within the braces.
TypeSlot(path, d, block, offset) ==
  LET line == Between(d, Max({LineStart(d, offset), EndOf(block.parts[1].last)}),
                         Min({LineEnd(d, offset), StartOf(Last(block.parts).first)}), offset)
  IN  \/ InFirstArgument(path, offset)
      \/ /\ {i \in line : d[i].kind \in {"[", "]"}} = {}
         /\ Cardinality({i \in line : IsName(d[i])}) = 1

\* enclosingDeclByToken and the enclosing nodes of a path.
DeclOf(path, t, d, offset) ==
  LET k == SelectLastInSeq(path, LAMBDA n : n.kind = "declaration")
  IN  IF k = 0 THEN DeclByToken(t, d, offset) ELSE path[k]

BlockOf(path, decl) ==
  LET k == SelectLastInSeq(path, LAMBDA n : n.kind = "block")
  IN  CASE k # 0 -> path[k]
        [] k = 0 /\ decl.kind # "none" -> Read!BodyOf(decl)
        [] OTHER -> NoDeclaration

KeywordOf(decl) == IF decl.kind = "none" THEN "none" ELSE decl.parts[1].token.kind

BlockContext(path, d, keyword, block, offset) ==
  CASE keyword = "Project"    -> ProjectContext(d, offset)
    [] keyword = "TableGroup" -> Context("table")
    [] keyword = "Table"      -> Context(IF TypeSlot(path, d, block, offset) THEN "type" ELSE "none")
    [] OTHER -> Context("keyword")

InDeclaration(path, d, decl, block, offset) ==
  CASE KeywordOf(decl) = "Ref" -> RefContext(d, decl, offset)
    [] KeywordOf(decl) # "Ref" /\ block.kind = "block" -> BlockContext(path, d, KeywordOf(decl), block, offset)
    [] OTHER -> Context("keyword")

InLiteral(d, offset) ==
  \E i \in DOMAIN d : StartOf(i) <= offset /\ offset <= EndOf(i) /\ d[i].kind \in {"string", "expr"}

OnPath(path, d, decl, list, offset) ==
  CASE InLiteral(d, offset) -> Context("none")
    [] ~InLiteral(d, offset) /\ list.kind # "none" -> ListContext(list, offset)
    [] OTHER -> InDeclaration(path, d, decl, BlockOf(path, decl), offset)

ClassifyOn(path, t, d, offset) == OnPath(path, d, DeclOf(path, t, d, offset), LastOn(path, "list"), offset)

\* classifyCompletion.
Classify(t, d, offset) == ClassifyOn(Innermost(AllNodes(t), offset), t, d, offset)

-----------------------------------------------------------------------------
(* Hover on a word that is no name: those that declare or refer to a name  *)
(* are looked up first (Rename).                                           *)

\* The setting whose name an offset is in, or "".
AttributeNameAt(path, offset) ==
  LET k == SelectInSeq(path, LAMBDA n : n.kind = "attribute" /\ Covers(n.parts[1], offset))
  IN  IF k = 0 THEN "" ELSE Read!Name(path[k].parts[1])

Hover(t, d, i) ==
  LET path == Innermost(AllNodes(t), StartOf(i))
  IN  CASE d[i].kind \notin Identifier -> "none"
        [] d[i].value \in Keywords /\ \E decl \in ToSet(t.parts) : decl.first = i -> "keyword"
        [] AttributeNameAt(path, StartOf(i)) \in ColumnAttributes -> "attribute"
        [] d[i].value \in BuiltinTypes /\ InFirstArgument(path, StartOf(i)) -> "type"
        [] OTHER -> "none"

-----------------------------------------------------------------------------
(* Properties. *)

\* The word of a name, or of a token.
WordOf(n) == IF n.kind = "token" THEN n.token.value ELSE Read!Name(n)

\* The place in a document of a word, the tokens from at to to.
SlotFor(context, n, to) == [context |-> context, word |-> WordOf(n), at |-> n.first, to |-> to]

SlotsFor(context, nodes) ==
  {SlotFor(context, n, n.last) : n \in {m \in nodes : m.kind \in {"primary", "stream", "token"}}}

Slots(kind, nodes) == SlotsFor(Context(kind), nodes)

Nodes(t, kind) == {n \in ToSet(AllNodes(t)) : n.kind = kind}

ItemsOf(t, keyword) ==
  UNION {ToSet(Read!BlockItemsOf(d)) : d \in {e \in ToSet(t.parts) : e.parts[1].token.kind = keyword}}

Settings(t) == {i \in ItemsOf(t, "Project") : i.kind = "apply"}

ValuesOf(t, name) ==
  {a.parts[3] : a \in {b \in Nodes(t, "attribute") : Len(b.parts) = 3 /\ Read!Name(b.parts[1]) = name}}

\* What relates two endpoints.
Links(t) == {n \in Nodes(t, "infix") : n.parts[2].token.kind \in Relation}

\* A relation that is read on from the line above, in the block of a Ref.
GoesOn(d, link) == link.first > 1 /\ IsName(d[link.first - 1]) /\ d[link.first].newline

\* The table of an endpoint, the table with what follows, and the column.  A
\* table behind its schema is taken for a column.
EndpointSlots(n) ==
  LET table == n.parts[1]
  IN  IF ~Read!IsDotted(n) \/ Read!IsDotted(table) THEN {}
      ELSE Slots("table", {table}) \cup SlotsFor(ColumnOf(Read!Name(table)), {n.parts[3]})
             \cup {SlotFor(Context("table"), table, n.last)}

\* A relation behind a tuple is taken for a table, and so is a table that
\* goes on from the line above for a relation.
LinkSlots(d, n) ==
  EndpointSlots(n.parts[3])
    \cup (IF GoesOn(d, n) THEN {} ELSE EndpointSlots(n.parts[1]))
    \cup (IF ~Read!IsDotted(n.parts[1]) \/ n.parts[1].parts[3].kind = "tuple" THEN {} ELSE Slots("relation", {n.parts[2]}))

\* A database_type on the line of its Project is taken for a setting of that name.
AllSlots(t, d) ==
  UNION {
    Slots("keyword", {decl.parts[1] : decl \in ToSet(t.parts)}),
    Slots("type", {i.parts[2] : i \in {j \in ItemsOf(t, "Table") : j.kind = "apply" /\ Read!IsColumnName(Read!Name(j))}}),
    Slots("attribute", {a.parts[1] : a \in Nodes(t, "attribute")}),
    {SlotFor(Context("attribute"), a.parts[1], a.last) : a \in Nodes(t, "attribute")},
    Slots("default", ValuesOf(t, "default")),
    UNION {EndpointSlots(v.parts[2]) : v \in {w \in ValuesOf(t, "ref") : w.kind = "apply"}},
    UNION {LinkSlots(d, n) : n \in Links(t)},
    Slots("table", ItemsOf(t, "TableGroup")),
    Slots("setting", {i.parts[1] : i \in Settings(t)}),
    Slots("database", {i.parts[3] : i \in {j \in Settings(t) : Len(j.parts) > 2 /\ Read!Name(j) = "database_type" /\ d[j.first].newline}}) }

\* The document without the tokens of a slot, and the cursor in their place.
Without(d, slot) ==
  LET rest == SubSeq(d, slot.to + 1, Len(d))
      break == \E i \in slot.at .. slot.to : d[i].newline
  IN  SubSeq(d, 1, slot.at - 1)
        \o [i \in DOMAIN rest |-> [rest[i] EXCEPT !.newline = @ \/ (i = 1 /\ break)]]

CursorAt(d, slot) == IF d[slot.at].newline THEN 5 * slot.at - 3 ELSE 5 * slot.at - 4

\* A word that is missing at the end of a line or of a list is made up by the
\* parser from the bracket or the keyword behind it, and what is declared there
\* may be lost.
FollowedOnLine(d, slot) ==
  slot.to < Len(d) /\ ~d[slot.to + 1].newline /\ d[slot.to + 1].kind \notin Bracket

OfferedIn(t, d, slot, rest, left) ==
  LET known == slot.context.kind \notin {"table", "column"} \/ FollowedOnLine(d, slot)
  IN  /\ Classify(left, rest, CursorAt(d, slot)) = slot.context
      /\ known /\ slot.word \in Items(t, slot.context) => slot.word \in Items(left, slot.context)

\* The cursor in the place of the word.
Offered(t, d, slot, rest) == OfferedIn(t, d, slot, rest, Parse(rest))

\* The pointer on the word.
Told(t, d, slot) ==
  LET catalogue == [keyword |-> Keywords, attribute |-> ColumnAttributes, type |-> BuiltinTypes]
      kind == slot.context.kind
  IN  kind \in DOMAIN catalogue /\ slot.word \in catalogue[kind] => Hover(t, d, slot.at) = kind

WordsOfferedIn(t, d) ==
  Correct(t) =>
    \A slot \in AllSlots(t, d) : Offered(t, d, slot, Without(d, slot)) /\ Told(t, d, slot)

\* Take a word out of a document without errors, or the whole setting or
\* endpoint that it starts.  Though the text that is left has errors, a cursor
\* in the place of the word is offered what belongs there, and the word among
\* it: names that are declared, at least where the line goes on behind it.
\* While the word is there, hover takes it for the same.
WordsOffered == WordsOfferedIn(tree, doc)
=============================================================================
