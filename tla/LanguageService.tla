-------------------------- MODULE LanguageService ---------------------------
(***************************************************************************)
(* What a language server promises an editor, without the server: the      *)
(* editor writes messages; every request gets at most one answer, made     *)
(* from the text the document had when the request was written; and the    *)
(* diagnostics shown for a document are those of one of its texts, never   *)
(* an older one than was shown before.                                     *)
(***************************************************************************)
EXTENDS LspMessages

VARIABLES
  log,      \* what the editor has written
  answers,  \* the answers given: [at, text], at the place of the request
  shown     \* for every document the message whose diagnostics are shown, or 0

vars == <<log, answers, shown>>

Init ==
  /\ log = <<>>
  /\ answers = {}
  /\ shown = [u \in Uris |-> 0]

Write ==
  /\ \E m \in Message : log' = Append(log, m)
  /\ UNCHANGED <<answers, shown>>

Answer ==
  /\ \E k \in DOMAIN log, t \in Texts \cup {NoDoc, Error, Static} :
       /\ IsRequest(log[k])
       /\ AnswerTo(log, k, t)
       /\ \A a \in answers : a.at # k
       /\ answers' = answers \cup {[at |-> k, text |-> t]}
  /\ UNCHANGED <<log, shown>>

Refresh ==
  /\ \E u \in Uris, k \in DOMAIN log :
       /\ Syncs(log[k], u)
       /\ shown[u] < k
       /\ shown' = [shown EXCEPT ![u] = k]
  /\ UNCHANGED <<log, answers>>

Next == Write \/ Answer \/ Refresh

Spec == Init /\ [][Next]_vars
=============================================================================
