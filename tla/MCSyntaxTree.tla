---------------------------- MODULE MCSyntaxTree ----------------------------
(***************************************************************************)
(* Every way to go on by a few tokens from every place in documents that   *)
(* between them have every construct, and documents that are finished, as  *)
(* they are and with one line broken or joined anywhere.                   *)
(***************************************************************************)
EXTENDS Completion

\* The words that are no kind of token of their own.
Vocabulary ==
  {"t", "u", "o", "s", "g", "a", "b", "c", "int", "mood", "pk", "not", "null", "default", "note", "ref", "delete",
   "indexes", "database_type"}

KindOf(word) ==
  CASE word \in Vocabulary -> "id"
    [] word = "MariaDB" -> "string"
    [] OTHER -> word

\* The tokens of a line, and of lines.
Line(words) ==
  [i \in DOMAIN words |-> [kind |-> KindOf(words[i]), newline |-> i = 1, value |-> words[i]]]

\* Table t as u [note: string] {
\*   a int [not null: o.c, ref: > t.a]
\*   ~ id
\*   (a, b) [pk]
\* }
TableDocument ==
  Line(<<"Table", "t", "as", "u", "[", "note", ":", "string", "]", "{">>)
    \o Line(<<"a", "int", "[", "not", "null", ":", "o", ".", "c", ",", "ref", ":", ">", "t", ".", "a", "]">>)
    \o Line(<<"~", "id">>)
    \o Line(<<"(", "a", ",", "b", ")", "[", "pk", "]">>)
    \o Line(<<"}">>)

\* Ref t: t.(a, b) > o.c [delete: null]
\* Project { note: string }
\* Ref { o.c > t.a }
RefDocument ==
  Line(<<"Ref", "t", ":", "t", ".", "(", "a", ",", "b", ")", ">", "o", ".", "c", "[", "delete", ":", "null", "]">>)
    \o Line(<<"Project", "{", "note", ":", "string", "}">>)
    \o Line(<<"Ref", "{", "o", ".", "c", ">", "t", ".", "a", "}">>)

\* Table t as u {
\*   a int [ref: > o.c, default: null]
\*   b mood [not null, ref: - u.a, pk]
\*   indexes {
\*     (a, b) [pk]
\*   }
\*   Note: string
\* }
\* Table o { c int }
\* Enum mood { a b }
TablesDocument ==
  Line(<<"Table", "t", "as", "u", "{">>)
    \o Line(<<"a", "int", "[", "ref", ":", ">", "o", ".", "c", ",", "default", ":", "null", "]">>)
    \o Line(<<"b", "mood", "[", "not", "null", ",", "ref", ":", "-", "u", ".", "a", ",", "pk", "]">>)
    \o Line(<<"indexes", "{">>) \o Line(<<"(", "a", ",", "b", ")", "[", "pk", "]">>) \o Line(<<"}">>)
    \o Line(<<"Note", ":", "string">>)
    \o Line(<<"}">>)
    \o Line(<<"Table", "o", "{", "c", "int", "}">>)
    \o Line(<<"Enum", "mood", "{", "a", "b", "}">>)

\* Ref g: u.a > o.c [delete: null]
\* Table t as u { a int }
\* Ref {
\*   t.(a, b) > o.(c, c)
\*   o.c < s.t.a [delete: null]
\*   u.a - o.c
\* }
\* TableGroup g {
\*   t
\*   o
\* }
\* Project {
\*   database_type: 'MariaDB'
\*   note: string
\* }
\* Table o { c int }
LinksDocument ==
  Line(<<"Ref", "g", ":", "u", ".", "a", ">", "o", ".", "c", "[", "delete", ":", "null", "]">>)
    \o Line(<<"Table", "t", "as", "u", "{", "a", "int", "}">>)
    \o Line(<<"Ref", "{">>) \o Line(<<"t", ".", "(", "a", ",", "b", ")", ">", "o", ".", "(", "c", ",", "c", ")">>)
    \o Line(<<"o", ".", "c", "<", "s", ".", "t", ".", "a", "[", "delete", ":", "null", "]">>)
    \o Line(<<"u", ".", "a", "-", "o", ".", "c">>)
    \o Line(<<"}">>)
    \o Line(<<"TableGroup", "g", "{">>) \o Line(<<"t">>) \o Line(<<"o">>) \o Line(<<"}">>)
    \o Line(<<"Project", "{">>) \o Line(<<"database_type", ":", "MariaDB">>) \o Line(<<"note", ":", "string">>)
    \o Line(<<"}">>)
    \o Line(<<"Table", "o", "{", "c", "int", "}">>)

\* One kind of every group that the parser treats alike.
MCTyped == TokenKind \ {"number", "expr", "<", "-", "<>", "TableGroup", "Enum"}

PrefixesOf(seq) == {SubSeq(seq, 1, k) : k \in 0 .. Len(seq)}

\* A document with the line broken before a token, or joined with the one before.
LayoutsOf(seq) == {seq} \cup {[seq EXCEPT ![i].newline = ~@] : i \in DOMAIN seq}

MCStarts == PrefixesOf(TableDocument) \cup PrefixesOf(RefDocument)

MCFinished == LayoutsOf(TablesDocument) \cup LayoutsOf(LinksDocument)
=============================================================================
