-------------------------------- MODULE Lexer --------------------------------
(***************************************************************************)
(* The lexer (lexer/lexer.go): scanAll cuts the text into tokens, white    *)
(* space and comments included, and counts lines and columns as it goes;   *)
(* attachTrivia then hangs the white space and comments on the tokens.     *)
(*                                                                         *)
(* Offsets count runes from 0, as in the code.  The tokens carry where     *)
(* they start and end in place of their text.  Runes that the lexer treats *)
(* alike are one rune here; the ones that are hard to read in a string are *)
(* named below.                                                            *)
(***************************************************************************)
EXTENDS Integers, FiniteSets, SequencesExt

CONSTANT Texts   \* the texts to lex

LF == "LF"   \* a line feed
CR == "CR"   \* a carriage return
DQ == "DQ"   \* a double quote
BT == "BT"   \* a back-tick
EndOfText == ""

Digit == {"1"}
Hex == Digit \cup {"e"}
Letter == {"e", "x"}
Punct == {"{", "}", "[", "]", "(", ")", ":", ",", ";"}
Op == {".", ">", "<", "-", "+", "*"}
Rune == {" ", LF, CR, "'", DQ, BT, "#", "/", "?"} \cup Digit \cup Letter \cup Punct \cup Op

ASSUME TextsAssumption == Texts \subseteq Seq(Rune)

TriviaKind == {"space", "newline", "line-comment", "block-comment"}
Kind == TriviaKind \cup {"string", "long-string", "quoted", "func-expr", "color",
                         "numeric", "identifier", "op", "punct", "eof"}

VARIABLES
  src,         \* the text
  pos,         \* the offset that the lexer is at
  line, col,   \* its line and column, counted from 0
  raw,         \* the tokens so far
  errors,      \* where the tokens start that an error was reported for
  tokens       \* the result: the tokens with their trivia

vars == <<src, pos, line, col, raw, errors, tokens>>

Least(S) == CHOOSE i \in S : \A j \in S : i <= j
Greatest(S) == CHOOSE i \in S : \A j \in S : j <= i

At(s, p) == IF p < Len(s) THEN s[p + 1] ELSE EndOfText

\* The first offset from p on that Holds, or the end of the text.
First(s, p, Holds(_)) ==
  CHOOSE q \in p .. Len(s) : /\ q = Len(s) \/ Holds(q)
                             /\ \A r \in p .. q - 1 : ~Holds(r)

Until(s, p, S) == First(s, p, LAMBDA q : At(s, q) \in S)

While(s, p, S) == First(s, p, LAMBDA q : At(s, q) \notin S)

\* A faulty form of Forward: a lone carriage return ends a line too.
ForwardAnyBreak(s, at, p, q) ==
  LET breaks == {i \in p .. q - 1 : At(s, i) = LF \/ (At(s, i) = CR /\ At(s, i + 1) # LF)}
  IN  [line |-> at.line + Cardinality(breaks),
       col  |-> IF breaks = {} THEN at.col + (q - p)
                ELSE q - 1 - Greatest(breaks)]

\* The line and column after advancing over p .. q - 1.
Forward(s, at, p, q) ==
  LET breaks == {i \in p .. q - 1 : At(s, i) = LF}
  IN  [line |-> at.line + Cardinality(breaks),
       col  |-> IF breaks = {} THEN at.col + (q - p)
                ELSE q - 1 - Greatest(breaks)]

Init ==
  /\ src \in Texts
  /\ pos = 0 /\ line = 0 /\ col = 0
  /\ raw = << >> /\ errors = {} /\ tokens = << >>

\* The token from pos to q.
Emit(kind, q, ok) ==
  LET at == Forward(src, [line |-> line, col |-> col], pos, q)
  IN  /\ raw' = Append(raw, [kind |-> kind, start |-> pos, end |-> q, line |-> line, col |-> col])
      /\ errors' = IF ok THEN errors ELSE errors \cup {pos}
      /\ pos' = q /\ line' = at.line /\ col' = at.col
      /\ UNCHANGED <<src, tokens>>

Here == At(src, pos)
Peek == At(src, pos + 1)

-----------------------------------------------------------------------------
(* One action for each way to cut a token (next). *)

Space == Here = " " /\ Emit("space", pos + 1, TRUE)

Newline ==
  \/ Here = LF /\ Emit("newline", pos + 1, TRUE)
  \/ Here = CR /\ Emit("newline", IF Peek = LF THEN pos + 2 ELSE pos + 1, TRUE)

LineComment ==
  /\ Here = "/" /\ Peek = "/"
  /\ Emit("line-comment", Until(src, pos + 2, {LF}), TRUE)

BlockComment ==
  /\ Here = "/" /\ Peek = "*"
  /\ LET close == First(src, pos + 2, LAMBDA q : At(src, q) = "*" /\ At(src, q + 1) = "/")
     IN  IF close < Len(src) THEN Emit("block-comment", close + 2, TRUE)
         ELSE Emit("block-comment", close, FALSE)

Triple(s, p) == At(s, p) = "'" /\ At(s, p + 1) = "'" /\ At(s, p + 2) = "'"

\* A faulty form of String: one that the line ends is not reported.
StringUnreported ==
  /\ Here = "'" /\ ~Triple(src, pos)
  /\ LET close == Until(src, pos + 1, {"'", LF})
     IN  IF At(src, close) = "'" THEN Emit("string", close + 1, TRUE)
         ELSE Emit("string", close, At(src, close) = LF)

String ==
  /\ Here = "'" /\ ~Triple(src, pos)
  /\ LET close == Until(src, pos + 1, {"'", LF})
     IN  IF At(src, close) = "'" THEN Emit("string", close + 1, TRUE)
         ELSE Emit("string", close, FALSE)

LongString ==
  /\ Triple(src, pos)
  /\ LET close == First(src, pos + 3, LAMBDA q : Triple(src, q))
     IN  IF close < Len(src) THEN Emit("long-string", close + 3, TRUE)
         ELSE Emit("long-string", close, FALSE)

Quoted ==
  /\ Here = DQ
  /\ LET close == Until(src, pos + 1, {DQ, LF})
     IN  IF At(src, close) = DQ THEN Emit("quoted", close + 1, TRUE)
         ELSE Emit("quoted", close, FALSE)

\* A faulty form of FuncExpr: it steps over the end of the text.
FuncExprUnbounded ==
  Here = BT /\ Emit("func-expr", Until(src, pos + 1, {BT}) + 1, TRUE)

FuncExpr ==
  /\ Here = BT
  /\ LET close == Until(src, pos + 1, {BT})
     IN  IF close < Len(src) THEN Emit("func-expr", close + 1, TRUE)
         ELSE Emit("func-expr", close, FALSE)

\* A faulty form of Color: the # is not consumed.
ColorStandsStill == Here = "#" /\ Emit("color", While(src, pos, Hex), TRUE)

Color == Here = "#" /\ Emit("color", While(src, pos + 1, Hex), TRUE)

\* Digits, a point and digits, an e with a sign and digits: digits may be none.
AfterFraction(s, p) == IF At(s, p) = "." THEN While(s, p + 1, Digit) ELSE p

AfterExponent(s, p) ==
  IF At(s, p) = "e"
  THEN While(s, IF At(s, p + 1) \in {"+", "-"} THEN p + 2 ELSE p + 1, Digit)
  ELSE p

Number ==
  /\ Here \in Digit
  /\ Emit("numeric", AfterExponent(src, AfterFraction(src, While(src, pos, Digit))), TRUE)

Ident == Here \in Letter /\ Emit("identifier", While(src, pos, Letter \cup Digit), TRUE)

Operator ==
  \/ Here = "<" /\ Emit("op", IF Peek = ">" THEN pos + 2 ELSE pos + 1, TRUE)
  \/ Here \in Op \ {"<"} /\ Emit("op", pos + 1, TRUE)
  \/ Here = "/" /\ Peek \notin {"/", "*"} /\ Emit("op", pos + 1, TRUE)

Punctuation == Here \in Punct /\ Emit("punct", pos + 1, TRUE)

Unexpected == Here = "?" /\ Emit("identifier", pos + 1, FALSE)

AtEof == raw # << >> /\ raw[Len(raw)].kind = "eof"

End == pos = Len(src) /\ ~AtEof /\ Emit("eof", pos, TRUE)

-----------------------------------------------------------------------------
(* attachTrivia. *)

\* A faulty form of TriviaSplit: it goes on after the end of the line.
SplitPastNewline(buf) ==
  LET stops == {i \in DOMAIN buf : buf[i].kind = "block-comment"}
  IN  IF stops = {} THEN Len(buf) ELSE Least(stops) - 1

\* How much of the trivia between two tokens belongs to the first of them:
\* what is on its line up to a comment in /* */, and the end of the line.
TriviaSplit(buf) ==
  LET stops == {i \in DOMAIN buf : buf[i].kind \in {"newline", "block-comment"}}
  IN  IF stops = {} THEN Len(buf)
      ELSE IF buf[Least(stops)].kind = "newline" THEN Least(stops)
      ELSE Least(stops) - 1

Significant(r) == {i \in DOMAIN r : r[i].kind \notin TriviaKind}

\* The significant tokens before and after i, or 0.
Before(r, i) ==
  LET S == {j \in Significant(r) : j < i} IN IF S = {} THEN 0 ELSE Greatest(S)

After(r, i) ==
  LET S == {j \in Significant(r) : j > i} IN IF S = {} THEN 0 ELSE Least(S)

\* A faulty form of Leading: it leaves out the token at the split.
LeadingShort(r, i) ==
  LET buf == SubSeq(r, Before(r, i) + 1, i - 1)
  IN  IF Before(r, i) = 0 THEN buf ELSE SubSeq(buf, TriviaSplit(buf) + 2, Len(buf))

Leading(r, i) ==
  LET buf == SubSeq(r, Before(r, i) + 1, i - 1)
  IN  IF Before(r, i) = 0 THEN buf ELSE SubSeq(buf, TriviaSplit(buf) + 1, Len(buf))

Trailing(r, i) ==
  IF After(r, i) = 0 THEN << >>
  ELSE LET buf == SubSeq(r, i + 1, After(r, i) - 1) IN SubSeq(buf, 1, TriviaSplit(buf))

\* The k-th significant token.
Nth(r, k) == CHOOSE i \in Significant(r) : Cardinality({j \in Significant(r) : j <= i}) = k

Attach ==
  /\ AtEof /\ tokens = << >>
  /\ tokens' = [k \in 1 .. Cardinality(Significant(raw)) |->
                  LET i == Nth(raw, k)
                  IN  [token |-> raw[i], leading |-> Leading(raw, i), trailing |-> Trailing(raw, i)]]
  /\ UNCHANGED <<src, pos, line, col, raw, errors>>

Next ==
  \/ Space \/ Newline \/ LineComment \/ BlockComment
  \/ String \/ LongString \/ Quoted \/ FuncExpr
  \/ Color \/ Number \/ Ident \/ Operator \/ Punctuation \/ Unexpected
  \/ End \/ Attach

Spec == Init /\ [][Next]_vars

-----------------------------------------------------------------------------
(* What the analysis makes of an offset (computeLineOffsets and            *)
(* OffsetToPosition in analysis/analysis.go).                              *)

\* The offsets that lines start at.
LineOffsets(s) == {0} \cup {p \in 1 .. Len(s) : s[p] = LF}

OffsetToPosition(s, p) ==
  LET before == {q \in LineOffsets(s) : q <= p}
  IN  [line |-> Cardinality(before) - 1, col |-> p - Greatest(before)]

-----------------------------------------------------------------------------
(* Properties. *)

RawToken == [kind : Kind, start : Nat, end : Nat, line : Nat, col : Nat]

TypeOK ==
  /\ src \in Texts
  /\ pos \in 0 .. Len(src)
  /\ line \in Nat /\ col \in Nat
  /\ raw \in Seq(RawToken)
  /\ errors \subseteq 0 .. Len(src)
  /\ tokens \in Seq([token : RawToken, leading : Seq(RawToken), trailing : Seq(RawToken)])

\* The tokens tile the text that was read: the first starts at 0, each starts
\* where the one before it ends, and none but the end is empty.
Tiles ==
  /\ raw = << >> => pos = 0
  /\ raw # << >> => raw[1].start = 0 /\ raw[Len(raw)].end = pos
  /\ \A i \in DOMAIN raw :
       /\ i > 1 => raw[i].start = raw[i - 1].end
       /\ raw[i].kind # "eof" => raw[i].start < raw[i].end

\* The lines and columns that the lexer counts are the ones that the analysis
\* computes from the offset.
AgreesWithOffsets ==
  \A i \in DOMAIN raw :
    [line |-> raw[i].line, col |-> raw[i].col] = OffsetToPosition(src, raw[i].start)

\* Attaching the trivia loses nothing and keeps the order: the tokens with their
\* trivia are the raw tokens.
NothingLost ==
  tokens # << >> =>
    raw = FlattenSeq([k \in DOMAIN tokens |->
                        tokens[k].leading \o <<tokens[k].token>> \o tokens[k].trailing])

\* What trails a token is on its line, and leads up to the next token or to the
\* end of the line: a comment after a field is the field's, one on a line of its
\* own belongs to what follows.
TrailsOnItsLine ==
  \A k \in DOMAIN tokens :
    LET own == tokens[k]
        end == OffsetToPosition(src, own.token.end).line
    IN  /\ \A i \in DOMAIN own.trailing :
             /\ own.trailing[i].line = end
             /\ own.trailing[i].kind = "newline" => i = Len(own.trailing)
        /\ k < Len(tokens) /\ tokens[k + 1].leading # << >> /\ tokens[k + 1].leading[1].line = end =>
             \/ own.trailing # << >> /\ own.trailing[Len(own.trailing)].kind = "newline"
             \/ tokens[k + 1].leading[1].kind = "block-comment"

\* Every comment and space is kept, once, with the token that it is about.
TriviaAttached == NothingLost /\ TrailsOnItsLine

Delimiter == [kind \in {"string", "long-string", "quoted", "func-expr"} |->
                CASE kind = "string" -> <<"'">>
                  [] kind = "long-string" -> <<"'", "'", "'">>
                  [] kind = "quoted" -> <<DQ>>
                  [] kind = "func-expr" -> <<BT>>]

Occurs(d, p) == \A m \in DOMAIN d : At(src, p + m - 1) = d[m]

\* A string, a quoted name or an expression that no error was reported for has
\* its delimiter at both ends, and no other in between.
Delimited ==
  \A i \in DOMAIN raw :
    raw[i].kind \in DOMAIN Delimiter /\ raw[i].start \notin errors =>
      LET d == Delimiter[raw[i].kind]
          close == raw[i].end - Len(d)
      IN  /\ raw[i].start + Len(d) <= close
          /\ Occurs(d, raw[i].start) /\ Occurs(d, close)
          /\ \A p \in raw[i].start + Len(d) .. close - 1 : ~Occurs(d, p)
=============================================================================
