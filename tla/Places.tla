------------------------------- MODULE Places --------------------------------
(***************************************************************************)
(* The places of tokens.  The lexer counts lines and columns as it reads,  *)
(* the analysis computes them from an offset, and the server converts the  *)
(* same offset to the position that the editor understands (module         *)
(* Positions), and back.                                                   *)
(***************************************************************************)
EXTENDS Lexer

\* The text as far as UTF-16 is concerned.  A rune that no token is made of is
\* one outside the basic plane.
Seen ==
  [i \in DOMAIN src |->
     CASE src[i] = LF -> "lf" [] src[i] = CR -> "cr" [] src[i] = "?" -> "wide" [] OTHER -> "narrow"]

Editor == INSTANCE Positions WITH text <- Seen

\* The lexer and the analysis agree, and the editor is told the same line: an
\* error, a range and what the editor marks are the same place.
TokensInPlace ==
  /\ AgreesWithOffsets
  /\ \A i \in DOMAIN raw : Editor!RuneOffsetToPosition(Seen, raw[i].start).line = raw[i].line

\* Tokens have one place; and for every offset of the text, tokens or not, the
\* position of it leads back to it, and positions that are none lead to the
\* nearest place on their line.
PlacesAgree ==
  /\ TokensInPlace
  /\ pos = 0 => Editor!RoundTrip /\ Editor!Clamped
=============================================================================
