---------------------------- MODULE LspMessages -----------------------------
(***************************************************************************)
(* The messages an editor sends to the language server (lsp/protocol.go)   *)
(* and what they say about its documents.                                  *)
(*                                                                         *)
(* A message is [op, uri, changes].  changes are the texts of a didOpen    *)
(* (one) or of a didChange (any number, each a whole text: the server asks *)
(* for full synchronisation).  The id of a request is its place in what    *)
(* the editor has sent.                                                    *)
(***************************************************************************)
EXTENDS Naturals, Sequences

CONSTANTS
  Uris,         \* the documents
  Texts,        \* what a document can contain
  NoDoc,        \* in place of a text: the document is not open
  ChangeLists   \* the lists of changes a didChange can carry

ASSUME NoDocAssumption == NoDoc \notin Texts
ASSUME ChangeListsAssumption == ChangeLists \subseteq Seq(Texts)

\* "document" stands for the requests that read the analysis of a document:
\* hover, completion, definition, references, rename, prepareRename and
\* documentSymbol; "initialize" for itself and shutdown, which changes
\* nothing; "unknown" for every other method; "badParams" for a known method
\* whose params do not parse.
Requests == {"document", "initialize", "unknown", "badParams"}

\* "other" stands for the notifications without effect, unknown ones and
\* those whose params do not parse included; "badJSON" is a payload that does
\* not parse, "badHeader" a frame without a readable length, "cutOff" one that
\* is never completed.
Broken == {"badHeader", "cutOff"}
Plain == Requests \cup Broken \cup {"didClose", "other", "exit", "badJSON"}

Message ==
  [op: Plain, uri: Uris, changes: {<<>>}]
    \cup [op: {"didOpen"}, uri: Uris, changes: {<<t>> : t \in Texts}]
    \cup [op: {"didChange"}, uri: Uris, changes: ChangeLists]

IsRequest(m) == m.op \in Requests

\* A message that gives document u a text, or takes it away.
Syncs(m, u) ==
  /\ m.uri = u
  /\ \/ m.op \in {"didOpen", "didChange"} /\ m.changes # <<>>
     \/ m.op = "didClose"

\* The text that it leaves: the last one wins.
TextAfter(m) == IF m.op = "didClose" THEN NoDoc ELSE m.changes[Len(m.changes)]

\* t is the text document u has before message k of log.
TextBefore(log, k, u, t) ==
  \/ t = NoDoc /\ \A i \in 1 .. k - 1 : ~Syncs(log[i], u)
  \/ \E j \in 1 .. k - 1 :
       /\ Syncs(log[j], u)
       /\ t = TextAfter(log[j])
       /\ \A i \in j + 1 .. k - 1 : ~Syncs(log[i], u)

Error == "error"    \* a JSON-RPC error, whatever the document
Static == "static"  \* a result that depends on no document

\* t is what an answer to message k is made from.
AnswerTo(log, k, t) ==
  CASE log[k].op = "initialize"             -> t = Static
    [] log[k].op \in {"unknown", "badParams"} -> t = Error
    [] OTHER                                -> TextBefore(log, k, log[k].uri, t)
=============================================================================
