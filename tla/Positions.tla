------------------------------ MODULE Positions ------------------------------
(***************************************************************************)
(* Offsets and positions (lsp/conv.go).  The analysis counts runes from    *)
(* the start of the text; the editor counts lines and, on a line, UTF-16   *)
(* units.  The server converts what it is asked about to an offset, and    *)
(* every range that it answers with to positions.                          *)
(***************************************************************************)
EXTENDS Integers, FiniteSets, SequencesExt

\* A line feed, a carriage return, a rune of one UTF-16 unit and one of two.
Rune == {"lf", "cr", "narrow", "wide"}

VARIABLE text   \* the text, a sequence of runes

-----------------------------------------------------------------------------
\* The offsets that lines start at.
Starts(t) == {0} \cup {p \in 1 .. Len(t) : t[p] = "lf"}

\* The offset that each line starts at, in their order.
Lines(t) ==
  [l \in 1 .. Cardinality(Starts(t)) |->
     CHOOSE p \in Starts(t) : Cardinality({q \in Starts(t) : q <= p}) = l]

\* A faulty form of Units: every rune is one unit.
RunesOnly(t, p, q) == q - p

\* The UTF-16 units of the runes from offset p up to q.
Units(t, p, q) == (q - p) + Cardinality({i \in p + 1 .. q : t[i] = "wide"})

\* The line that an offset is on, from 1: the binary search.
LineOf(t, off) ==
  LET start == Lines(t)
  IN  CHOOSE l \in DOMAIN start :
        start[l] <= off /\ \A m \in DOMAIN start : start[m] <= off => m <= l

RuneOffsetToPosition(t, offset) ==
  LET off == IF offset < 0 THEN 0 ELSE IF offset > Len(t) THEN Len(t) ELSE offset
      l   == LineOf(t, off)
  IN  [line |-> l - 1, character |-> Units(t, Lines(t)[l], off)]

\* A faulty form of LineEnd: the line feed is on the line.
LineEndWithBreak(t, l) == IF l < Len(Lines(t)) THEN Lines(t)[l + 1] ELSE Len(t)

\* Where line l ends, its line feed not included.
LineEnd(t, l) == IF l < Len(Lines(t)) THEN Lines(t)[l + 1] - 1 ELSE Len(t)

\* The first rune of the line that does not start before the character, or its end.
PositionToRuneOffset(t, p) ==
  IF p.line < 0 THEN 0
  ELSE IF p.line >= Len(Lines(t)) THEN Len(t)
  ELSE LET start == Lines(t)[p.line + 1]
           end   == LineEnd(t, p.line + 1)
       IN  CHOOSE i \in start .. end :
             /\ i = end \/ Units(t, start, i) >= p.character
             /\ \A j \in start .. i - 1 : Units(t, start, j) < p.character

-----------------------------------------------------------------------------
(* Properties. *)

Offsets == 0 .. Len(text)

\* Positions of the text and around it.
Positions == [line : -1 .. Len(Lines(text)) + 1, character : -1 .. 2 * Len(text) + 1]

Precedes(p, q) == p.line < q.line \/ (p.line = q.line /\ p.character < q.character)

\* The text as the editor holds it.
Encoded(t) ==
  FlattenSeq([i \in DOMAIN t |-> IF t[i] = "wide" THEN <<"high", "low">> ELSE <<t[i]>>])

\* The place that the editor is told of is the place it means when it names it,
\* and it is that many units into the line.
RoundTrip ==
  \A off \in Offsets :
    LET p == RuneOffsetToPosition(text, off)
    IN  /\ PositionToRuneOffset(text, p) = off
        /\ Len(Encoded(SubSeq(text, Lines(text)[p.line + 1] + 1, off))) = p.character

\* A position that is none of the text is taken for the next place on its line,
\* or for the end of the line or the text: it never ends up on another line, nor
\* before a place that it is behind.  With RoundTrip, places keep their order: the
\* later of two offsets has the later position.
Clamped ==
  \A p \in Positions :
    LET off == PositionToRuneOffset(text, p)
        at  == RuneOffsetToPosition(text, off)
    IN  /\ off \in Offsets
        /\ p.line \in 0 .. Len(Lines(text)) - 1 =>
             /\ at.line = p.line
             /\ \A other \in Offsets :
                  Precedes(RuneOffsetToPosition(text, other), p) => other <= off
=============================================================================
