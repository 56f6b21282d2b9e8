------------------------------ MODULE MCLexer -------------------------------
(***************************************************************************)
(* The lexer on all short texts: of any runes, and longer ones of the runes *)
(* that a kind of token is made of.                                        *)
(***************************************************************************)
EXTENDS Places

TextsOf(S, n) == UNION {[1 .. m -> S] : m \in 0 .. n}

\* One rune of each kind that next tells apart.
AnyRune == {" ", LF, CR, "'", DQ, BT, "#", "/", "*", "<", ">", "{", "1", "x", "?"}

MCTexts ==
  TextsOf(AnyRune, 3) \cup TextsOf({"'", "x", LF}, 7) \cup TextsOf({"/", "*", LF, "x"}, 5)
    \cup TextsOf({" ", LF, CR, "x", "/"}, 5) \cup TextsOf({"1", ".", "e", "+"}, 4)
    \cup TextsOf({DQ, BT, LF, "x"}, 4) \cup TextsOf({"#", "e", "x", ","}, 3)
    \cup TextsOf({LF, CR, "x", "?"}, 5)
=============================================================================
