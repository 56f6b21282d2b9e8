----------------------------- MODULE SyntaxTree -----------------------------
(***************************************************************************)
(* A document that is being typed, its syntax tree after every token, and  *)
(* the index of the tree by offset that hover and completion look things   *)
(* up in (analysis/analysis.go, analysis/span.go).                         *)
(*                                                                         *)
(* Every token is two runes long, the end of the text as well, and there   *)
(* are three runes before it: white space, with a line break in the middle *)
(* if it starts a line.                                                    *)
(***************************************************************************)
EXTENDS Parser, SequencesExt

CONSTANTS
  Typed,      \* the kinds of token that are typed
  Starts,     \* the documents to start from
  Finished,   \* documents that nothing more is typed to
  MaxTyped    \* bound on the tokens that are typed

ASSUME TypedAssumption == Typed \subseteq TokenKind /\ MaxTyped \in Nat

VARIABLES
  doc,    \* the document
  typed   \* how many tokens were typed

vars == <<doc, typed>>

\* The analysis of the document.
tree == Parse(doc)

Init ==
  \/ doc \in Starts /\ typed = 0
  \/ doc \in Finished /\ typed = MaxTyped

Type(token) ==
  /\ typed < MaxTyped
  /\ doc' = Append(doc, token)
  /\ typed' = typed + 1

Next ==
  \E kind \in Typed, newline \in BOOLEAN :
    Type([kind |-> kind, newline |-> newline, value |-> kind])

Spec == Init /\ [][Next]_vars

-----------------------------------------------------------------------------
(* The span index. *)

StartOf(i) == IF i = 0 THEN 0 ELSE 5 * i - 2
EndOf(i) == IF i = 0 THEN 0 ELSE 5 * i

\* walk: the nodes of a tree, a node before its parts.
RECURSIVE Walk(_)
Walk(n) ==
  IF n.kind = "token" THEN << >>
  ELSE <<n>> \o FlattenSeq([k \in DOMAIN n.parts |-> Walk(n.parts[k])])

AllNodes(t) == FlattenSeq([k \in DOMAIN t.parts |-> Walk(t.parts[k])])

\* A faulty form of Precedes: of two that start together the shorter is first.
PrecedesShortest(nodes, i, j) ==
  LET a == nodes[i]  b == nodes[j]
  IN  \/ StartOf(a.first) < StartOf(b.first)
      \/ StartOf(a.first) = StartOf(b.first) /\ EndOf(a.last) < EndOf(b.last)
      \/ StartOf(a.first) = StartOf(b.first) /\ EndOf(a.last) = EndOf(b.last) /\ i < j

\* The order of the index: the sort is stable.
Precedes(nodes, i, j) ==
  LET a == nodes[i]  b == nodes[j]
  IN  \/ StartOf(a.first) < StartOf(b.first)
      \/ StartOf(a.first) = StartOf(b.first) /\ EndOf(a.last) > EndOf(b.last)
      \/ StartOf(a.first) = StartOf(b.first) /\ EndOf(a.last) = EndOf(b.last) /\ i < j

\* The nodes that contain an offset.
Innermost(nodes, offset) ==
  LET hits == {i \in DOMAIN nodes : StartOf(nodes[i].first) <= offset /\ offset <= EndOf(nodes[i].last)}
  IN  [k \in 1 .. Cardinality(hits) |->
         nodes[CHOOSE i \in hits : Cardinality({j \in hits : Precedes(nodes, j, i)}) = k - 1]]

-----------------------------------------------------------------------------
(* Properties. *)

\* The tokens of a node, in order.
RECURSIVE Leaves(_)
Leaves(n) ==
  IF n.kind = "token" THEN <<n.first>>
  ELSE FlattenSeq([k \in DOMAIN n.parts |-> Leaves(n.parts[k])])

\* The tokens of the document that are in a tree, in the tree's order.
Kept(t) ==
  SelectSeq(FlattenSeq([k \in DOMAIN t.parts |-> Leaves(t.parts[k])]), LAMBDA i : i \in DOMAIN doc)

Correct(t) == t.errors = {}

WellFormed(t) ==
  /\ t.pos \in Len(doc) + 1 .. Len(doc) + 2
  /\ t.errors \subseteq 0 .. Len(doc) + 1
  /\ \A k \in DOMAIN t.parts : t.parts[k].kind = "declaration"

\* The parser stops at the end of the text, with declarations of its tokens.
TypeOK == typed \in 0 .. MaxTyped /\ WellFormed(tree)

InOrder(numbers) == \A i \in 1 .. Len(numbers) - 1 : numbers[i] < numbers[i + 1]

KeepsOrReports(t, kept) == InOrder(kept) /\ DOMAIN doc \ ToSet(kept) \subseteq t.errors

\* A token is in the tree once and in its place, or it was reported.
EveryTokenKept == KeepsOrReports(tree, Kept(tree))

\* The nodes of path are one within the other, from a declaration to the node
\* that token i is a part of.
LeadsTo(path, i) ==
  /\ path # << >> /\ path[1].kind = "declaration"
  /\ \A k \in 1 .. Len(path) - 1 : path[k + 1] \in ToSet(path[k].parts)
  /\ \E part \in ToSet(path[Len(path)].parts) : part.kind = "token" /\ part.first = i

PathsLead(t, nodes) ==
  Correct(t) => \A i \in DOMAIN doc : LeadsTo(Innermost(nodes, StartOf(i) + 1), i)

\* In a document without errors every token is on the path to it: what contains
\* an offset inside the token are nodes one within the other, and the innermost
\* has the token as its part.
InnermostIsPath == PathsLead(tree, AllNodes(tree))

KeepsDeclarations(before, after) == Correct(before) => IsPrefix(before.parts, after.parts)

\* A token on a new line, after a document without errors, changes no
\* declaration that was there.
NewLineKeepsDeclarations ==
  doc # << >> /\ doc[Len(doc)].newline => KeepsDeclarations(Parse(Front(doc)), tree)

\* A range is half-open, [Start, End).
RangesForward ==
  \A n \in ToSet(AllNodes(tree)) : StartOf(n.first) <= EndOf(n.last)
=============================================================================
