------------------------------- MODULE Parser -------------------------------
(***************************************************************************)
(* The recursive-descent parser (parser/parser.go).                        *)
(*                                                                         *)
(* A token is [kind, newline], with what it says as its value where that   *)
(* matters: newline when it starts on a later line than the token before   *)
(* it, which is all that the parser asks of a position.  Identifiers that  *)
(* the parser knows, and operators, are kinds of their own.  Token i of    *)
(* the document is number i, the end of the text is number Len(doc) + 1,   *)
(* and 0 is the token that cur makes up after that.                        *)
(*                                                                         *)
(* The parser's state is a record: the document, the position, the tokens  *)
(* that errors were reported at, and the parts of the node under           *)
(* construction.  A function of the parser maps a state with no parts to   *)
(* one whose only part is the node it returns.  A node has its parts, in   *)
(* the order of the fields in the source, and its first and last token.    *)
(***************************************************************************)
EXTENDS Integers, Sequences, FiniteSets

Known == {"Table", "Ref", "Project", "Enum", "TableGroup", "Note"}   \* declaration keywords
RequiresName == {"Table", "Enum", "TableGroup"}
RequiresBlock == {"Table", "Enum", "Project", "TableGroup"}
Identifier == Known \cup {"as", "id"}
Literal == {"string", "number", "expr"}
Op == {".", ">", "<", "-", "<>", "~"}
Relation == {">", "<", "-", "<>"}
Bracket == {"{", "}", "[", "]", "(", ")"}
OperandUnquoted == Identifier \cup Literal   \* a faulty form of Operand
Operand == Identifier \cup Literal \cup {"quoted"}
TokenKind == Operand \cup Op \cup Bracket \cup {":", ","}
ExprStart == Operand \cup {"[", "("}

EndToken == [kind |-> "eof", newline |-> FALSE, value |-> ""]

Cur(s) == IF s.pos <= Len(s.doc) THEN s.doc[s.pos] ELSE EndToken

Kind(s) == Cur(s).kind

\* hasNewlineBefore.
NewLine(s) == s.pos > 1 /\ Cur(s).newline

Number(s) == IF s.pos <= Len(s.doc) + 1 THEN s.pos ELSE 0

\* A faulty form of Skip: it goes on after the end of the text.
SkipUnbounded(s) == [s EXCEPT !.pos = @ + 1]

Skip(s) == [s EXCEPT !.pos = IF s.pos <= Len(s.doc) + 1 THEN @ + 1 ELSE @]

Report(s, at) == [s EXCEPT !.errors = @ \cup {at}]

\* consume, into the node under construction.
Shift(s) ==
  [Skip(s) EXCEPT !.parts =
     Append(@, [kind |-> "token", first |-> Number(s), last |-> Number(s), parts |-> << >>, token |-> Cur(s)])]

\* A faulty form of Expect: what is missing is not reported.
ExpectSilently(s, kind) == Shift(s)

Expect(s, kind) == IF Kind(s) = kind THEN Shift(s) ELSE Report(Shift(s), Number(s))

Fresh(s) == [s EXCEPT !.parts = << >>]

\* What r parsed becomes the next part of s.
Into(s, r) == [r EXCEPT !.parts = s.parts \o r.parts]

\* The parts become a node that ends with token last.
NodeTo(s, kind, last) ==
  [s EXCEPT !.parts = << [kind |-> kind, first |-> s.parts[1].first, last |-> last, parts |-> s.parts] >>]

Node(s, kind) == NodeTo(s, kind, s.parts[Len(s.parts)].last)

-----------------------------------------------------------------------------
(* Expressions. *)

ParsePrimaryExpr(s) ==
  IF Kind(s) \in Operand THEN Node(Shift(s), "primary")
  ELSE Report(Node(Shift(s), "primary"), Number(s))

RECURSIVE DotExprFrom(_), TupleItems(_)

ParseDotExpr(s) == DotExprFrom(ParsePrimaryExpr(s))

MoreTupleItems(s) == IF Kind(s) = "," THEN TupleItems(Shift(s)) ELSE s

TupleItems(s) == MoreTupleItems(Into(s, ParseDotExpr(Fresh(s))))

ParseTupleExpr(s) ==
  LET open == Expect(s, "(")
      items == IF Kind(open) = ")" THEN open ELSE TupleItems(open)
  IN  Node(Expect(items, ")"), "tuple")

\* As long as a dot follows on the line, what there is becomes its left side.
DotExprFrom(s) ==
  IF Kind(s) # "." \/ NewLine(s) THEN s
  ELSE LET op == Shift(s)
           right == IF Kind(op) = "(" THEN ParseTupleExpr(Fresh(op)) ELSE ParsePrimaryExpr(Fresh(op))
       IN  DotExprFrom(Node(Into(op, right), "infix"))

RECURSIVE Identifiers(_), IdentifiersOnLine(_), ListItems(_)

Identifiers(s) == IF Kind(s) \in Identifier THEN Identifiers(Shift(s)) ELSE s

IdentifiersOnLine(s) ==
  IF Kind(s) \in Identifier /\ ~NewLine(s) THEN IdentifiersOnLine(Shift(s)) ELSE s

Words(s) == Node(s, IF Len(s.parts) = 1 THEN "primary" ELSE "stream")

\* An identifier alone may be the first of several.
OrWords(s) ==
  IF s.parts[1].kind # "primary" THEN s
  ELSE Words(IdentifiersOnLine([s EXCEPT !.parts = s.parts[1].parts]))

ParseIdentAttrValue(s) == OrWords(ParseDotExpr(s))

ParseAttrValue(s) ==
  CASE Kind(s) \in Identifier -> ParseIdentAttrValue(s)
    [] Kind(s) \in Op ->
         LET op == Node(Shift(s), "primary") IN Node(Into(op, ParseDotExpr(Fresh(op))), "apply")
    [] OTHER -> Node(Shift(s), "primary")

ValueOf(colon) == Into(colon, ParseAttrValue(Fresh(colon)))

\* A name becomes an attribute, with the value that follows.
AttributeOf(name) ==
  Node(IF Kind(name) = ":" THEN ValueOf(Shift(name)) ELSE name, "attribute")

\* A faulty form of ParseAttribute: what is no name is passed over.
AttributePassesOver(s) ==
  IF Kind(s) \in Identifier THEN AttributeOf(Words(Identifiers(s)))
  ELSE Node(Words(Shift(Skip(s))), "attribute")

ParseAttribute(s) ==
  IF Kind(s) \in Identifier THEN AttributeOf(Words(Identifiers(s)))
  ELSE Node(Words(Shift(s)), "attribute")

MoreListItems(s) == IF Kind(s) = "," THEN ListItems(Shift(s)) ELSE s

ListItems(s) == MoreListItems(Into(s, ParseAttribute(Fresh(s))))

ParseListExpr(s) ==
  LET open == Expect(s, "[")
      items == IF Kind(open) = "]" THEN open ELSE ListItems(open)
  IN  Node(Expect(items, "]"), "list")

-----------------------------------------------------------------------------
(* Statements and declarations. *)

Apply(s) == IF Len(s.parts) = 1 THEN s ELSE Node(s, "apply")

RECURSIVE Args(_), ColonArgs(_), ParseBlockExpr(_, _), BlockItems(_, _)

\* The arguments of a function application, as far as the line goes.
Args(s) ==
  IF NewLine(s) \/ Kind(s) \notin ExprStart \cup {":"} \cup Op THEN s
  ELSE LET f == Fresh(s)
       IN  Args(Into(s, CASE Kind(s) = "[" -> ParseListExpr(f)
                          [] Kind(s) = "(" -> ParseTupleExpr(f)
                          [] Kind(s) \in Op \cup {":"} -> Node(Shift(f), "primary")
                          [] OTHER -> ParsePrimaryExpr(f)))

ParseFuncApp(s) ==
  LET sign == Node(Shift(s), "primary")
      callee == CASE Kind(s) = "(" -> ParseTupleExpr(s)
                  [] Kind(s) = "," -> sign
                  [] OTHER -> ParsePrimaryExpr(s)
  IN  IF Kind(s) # "~" THEN Apply(Args(callee))
      ELSE IF Kind(sign) \in Identifier THEN Node(Into(sign, ParsePrimaryExpr(Fresh(sign))), "apply")
      ELSE sign

ColonArgs(s) ==
  IF NewLine(s) \/ Kind(s) \notin ExprStart THEN s
  ELSE ColonArgs(Into(s, IF Kind(s) = "[" THEN ParseListExpr(Fresh(s)) ELSE ParsePrimaryExpr(Fresh(s))))

\* What there is becomes the left side of the relation op.
Relate(op) == Node(Into(op, ParseDotExpr(Fresh(op))), "infix")

\* A faulty form of OrRelation: a relation is looked for on the next line.
RelationOverLines(left) == IF Kind(left) \in Relation THEN Relate(Shift(left)) ELSE left

OrRelation(left) ==
  IF Kind(left) \in Relation /\ ~NewLine(left) THEN Relate(Shift(left)) ELSE left

ParseColonBody(s) == Apply(ColonArgs(OrRelation(ParseDotExpr(s))))

\* The items up to the closing brace or the end of the text.  A block inside
\* another one has the default items.
BlockItems(s, ref) ==
  IF Kind(s) \in {"}", "eof"} THEN s
  ELSE BlockItems(Into(s, CASE Kind(s) = "{" -> ParseBlockExpr(Fresh(s), FALSE)
                            [] Kind(s) # "{" /\ ref -> ParseColonBody(Fresh(s))
                            [] OTHER -> ParseFuncApp(Fresh(s))), ref)

ParseBlockExpr(s, ref) == Node(Expect(BlockItems(Expect(s, "{"), ref), "}"), "block")

\* One optional part after the other: the name, the alias, the settings.
WithName(s) ==
  IF Kind(s) \in {":", "{", "eof"} \/ NewLine(s) THEN s ELSE Into(s, ParseDotExpr(Fresh(s)))

WithAlias(s) ==
  IF Kind(s) = "as" /\ ~NewLine(s)
  THEN LET as == Shift(s) IN Into(as, ParsePrimaryExpr(Fresh(as)))
  ELSE s

WithAttrs(s) ==
  IF Kind(s) = "[" /\ ~NewLine(s) THEN Into(s, ParseListExpr(Fresh(s))) ELSE s

WithBody(s, ref) ==
  LET colon == Shift(s)
  IN  CASE Kind(s) = "{" -> Into(s, ParseBlockExpr(Fresh(s), ref))
        [] Kind(s) = ":" /\ ~NewLine(s) -> Into(colon, ParseColonBody(Fresh(colon)))
        [] OTHER -> s

LastOf(s) == s.parts[Len(s.parts)].last

\* The declaration s starts, from what was parsed up to its name, its alias,
\* its settings and its body: it ends with its settings or its body, without
\* them with its name or its keyword.
Declaration(s, named, aliased, settings, whole) ==
  LET hasBody == Len(whole.parts) > Len(settings.parts)
      last == IF Len(settings.parts) > Len(aliased.parts) \/ hasBody THEN LastOf(whole) ELSE LastOf(named)
      wrong == \/ Kind(s) \notin Known
               \/ Kind(s) \in RequiresName /\ Len(named.parts) = 1
               \/ ~hasBody
               \/ Kind(s) \in RequiresBlock /\ whole.parts[Len(whole.parts)].kind # "block"
  IN  NodeTo(IF wrong THEN Report(whole, Number(s)) ELSE whole, "declaration", last)

\* The declaration s starts, from what was parsed up to its settings, its
\* alias, its name.
FromSettings(s, named, aliased, settings) ==
  Declaration(s, named, aliased, settings, WithBody(settings, Kind(s) = "Ref"))

FromAlias(s, named, aliased) == FromSettings(s, named, aliased, WithAttrs(aliased))

FromName(s, named) == FromAlias(s, named, WithAlias(named))

\* What is no identifier is skipped, and no part of the tree.
ParseDeclaration(s) ==
  IF Kind(s) \notin Identifier THEN Skip(Report(s, Number(s)))
  ELSE FromName(s, WithName(Shift(s)))

RECURSIVE Declarations(_)
Declarations(s) ==
  IF Kind(s) = "eof" THEN s ELSE Declarations(Into(s, ParseDeclaration(Fresh(s))))

\* The declarations of a document, as the parts of a state.
Parse(d) == Declarations([doc |-> d, pos |-> 1, errors |-> {}, parts |-> << >>])
=============================================================================
