---------------------------- MODULE MCLspServer -----------------------------
(***************************************************************************)
(* An editor with one or two documents of two texts.  A didChange carries  *)
(* no, one or two changes.                                                 *)
(***************************************************************************)
EXTENDS LspServer

CONSTANTS t1, t2

MCTexts == {t1, t2}
MCChangeLists == {<<>>, <<t1>>, <<t2>>, <<t1, t2>>}
=============================================================================
