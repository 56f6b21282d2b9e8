----------------------------- MODULE LspServer ------------------------------
(***************************************************************************)
(* The language server (lsp/server.go, lsp/handlers.go, lsp/transport.go)  *)
(* and the editor at the other end of its pipes.                           *)
(*                                                                         *)
(* The server is one loop: it reads a message, handles it and writes what  *)
(* it answers, before it reads the next one.  The editor does not wait: it *)
(* goes on editing while requests are under way, and reads what the server *)
(* wrote when it gets to it.  The pipes keep their order.                  *)
(*                                                                         *)
(* An analysis is a function of the text, so an answer or a diagnostics    *)
(* message carries the text it was made from.  at is the id of a request,  *)
(* echoed in its reply; in diagnostics it is no field of the message but   *)
(* tells where they are from.                                              *)
(***************************************************************************)
EXTENDS LspMessages, SequencesExt

CONSTANTS
  MaxSent,   \* bound on the messages an editor writes
  PipeSize   \* how many messages of the server fit into stdout unread

ASSUME MaxSentAssumption == MaxSent \in Nat
ASSUME PipeSizeAssumption == PipeSize \in Nat \ {0}

VARIABLES
  sent,     \* stdin: all the editor has written
  hungUp,   \* the editor has closed its ends of the pipes
  read,     \* how many messages of stdin the server has read
  docs,     \* the server's documents: their text, or NoDoc
  closed,   \* the channel that exit closes
  status,   \* the server's loop: "running", or it "returned" or "failed"
  written,  \* stdout: all the server has written
  seen,     \* how many messages of stdout the editor has read
  shown     \* for every document the message whose diagnostics are shown, or 0

editorVars == <<sent, hungUp, seen, shown>>
serverVars == <<read, docs, closed, status, written>>
vars == <<sent, hungUp, read, docs, closed, status, written, seen, shown>>

Init ==
  /\ sent = <<>>
  /\ hungUp = FALSE
  /\ read = 0
  /\ docs = [u \in Uris |-> NoDoc]
  /\ closed = FALSE
  /\ status = "running"
  /\ written = <<>>
  /\ seen = 0
  /\ shown = [u \in Uris |-> 0]

-----------------------------------------------------------------------------
(* The editor. *)

\* The editor may write anything at any time: changes of a document it has not
\* opened, a second didOpen, requests after an exit.
Write ==
  /\ ~hungUp
  /\ Len(sent) < MaxSent
  /\ \A i \in DOMAIN sent : sent[i].op # "cutOff"
  /\ \E m \in Message : sent' = Append(sent, m)
  /\ UNCHANGED <<hungUp, seen, shown>>
  /\ UNCHANGED serverVars

HangUp ==
  /\ ~hungUp
  /\ hungUp' = TRUE
  /\ UNCHANGED <<sent, seen, shown>>
  /\ UNCHANGED serverVars

\* The next message of the server: diagnostics replace the ones shown.
Receive ==
  /\ ~hungUp
  /\ seen < Len(written)
  /\ seen' = seen + 1
  /\ shown' = IF written[seen + 1].op = "diagnostics"
              THEN [shown EXCEPT ![written[seen + 1].uri] = written[seen + 1].at]
              ELSE shown
  /\ UNCHANGED <<sent, hungUp>>
  /\ UNCHANGED serverVars

-----------------------------------------------------------------------------
(* The server. *)

\* A faulty form of Reply: it carries the id of the request before.
ReplyToPrevious(k, text) ==
  <<[op |-> "reply", uri |-> sent[k].uri, at |-> k - 1, text |-> text]>>

Reply(k, text) == <<[op |-> "reply", uri |-> sent[k].uri, at |-> k, text |-> text]>>

Diagnostics(k, text) == <<[op |-> "diagnostics", uri |-> sent[k].uri, at |-> k, text |-> text]>>

\* A faulty form of Put: what does not fit is dropped.
PutOrDrop(message) ==
  IF Len(written) - seen < PipeSize
  THEN written' = written \o message
  ELSE written' = written

\* writeMessage: the server waits for room in the pipe; what cannot be written
\* to an editor that is gone is logged and lost.
Put(message) ==
  \/ Len(written) - seen < PipeSize /\ written' = written \o message
  \/ hungUp /\ written' = written

\* A faulty form of Reading: the channel is not looked at.
ReadingOn(ops) ==
  /\ status = "running"
  /\ read < Len(sent)
  /\ sent[read + 1].op \in ops
  /\ read' = read + 1

\* The loop reads the next message, one of ops.
Reading(ops) ==
  /\ status = "running"
  /\ ~closed
  /\ read < Len(sent)
  /\ sent[read + 1].op \in ops
  /\ read' = read + 1

DidOpen ==
  /\ Reading({"didOpen"})
  /\ docs' = [docs EXCEPT ![sent[read + 1].uri] = sent[read + 1].changes[1]]
  /\ Put(Diagnostics(read + 1, sent[read + 1].changes[1]))
  /\ UNCHANGED <<closed, status>>
  /\ UNCHANGED editorVars

\* A faulty form of DidChange: the first of several changes is taken.
DidChangeFirst ==
  /\ Reading({"didChange"})
  /\ LET m == sent[read + 1]
     IN  IF m.changes = <<>>
         THEN UNCHANGED <<docs, written>>
         ELSE /\ docs' = [docs EXCEPT ![m.uri] = m.changes[1]]
              /\ Put(Diagnostics(read + 1, m.changes[1]))
  /\ UNCHANGED <<closed, status>>
  /\ UNCHANGED editorVars

\* A full text replaces the document; one that is not known is made.
DidChange ==
  /\ Reading({"didChange"})
  /\ LET m == sent[read + 1]
     IN  IF m.changes = <<>>
         THEN UNCHANGED <<docs, written>>
         ELSE /\ docs' = [docs EXCEPT ![m.uri] = m.changes[Len(m.changes)]]
              /\ Put(Diagnostics(read + 1, m.changes[Len(m.changes)]))
  /\ UNCHANGED <<closed, status>>
  /\ UNCHANGED editorVars

\* A faulty form of DidClose: the document stays.
DidCloseKeeps ==
  /\ Reading({"didClose"})
  /\ Put(Diagnostics(read + 1, NoDoc))
  /\ UNCHANGED <<docs, closed, status>>
  /\ UNCHANGED editorVars

\* A faulty form of DidClose: the diagnostics of the document stay.
DidCloseSilent ==
  /\ Reading({"didClose"})
  /\ docs' = [docs EXCEPT ![sent[read + 1].uri] = NoDoc]
  /\ UNCHANGED <<closed, status, written>>
  /\ UNCHANGED editorVars

\* The document goes, and an empty list of diagnostics clears it.
DidClose ==
  /\ Reading({"didClose"})
  /\ docs' = [docs EXCEPT ![sent[read + 1].uri] = NoDoc]
  /\ Put(Diagnostics(read + 1, NoDoc))
  /\ UNCHANGED <<closed, status>>
  /\ UNCHANGED editorVars

\* A request about a document is answered from its analysis; of a document
\* that is not open nothing is known.
Respond ==
  /\ Reading({"document"})
  /\ Put(Reply(read + 1, docs[sent[read + 1].uri]))
  /\ UNCHANGED <<docs, closed, status>>
  /\ UNCHANGED editorVars

\* A faulty form of RespondOther: the error does not end the handling.
RespondTwice ==
  /\ Reading(Requests \ {"document"})
  /\ Put(IF sent[read + 1].op = "initialize" THEN Reply(read + 1, Static)
         ELSE Reply(read + 1, Error) \o Reply(read + 1, Static))
  /\ UNCHANGED <<docs, closed, status>>
  /\ UNCHANGED editorVars

\* The other requests: a fixed result, or an error.
RespondOther ==
  /\ Reading(Requests \ {"document"})
  /\ Put(Reply(read + 1, IF sent[read + 1].op = "initialize" THEN Static ELSE Error))
  /\ UNCHANGED <<docs, closed, status>>
  /\ UNCHANGED editorVars

\* A faulty form of Ignore: a payload that does not parse ends the loop.
IgnoreOrFail ==
  /\ Reading({"other", "badJSON"})
  /\ status' = IF sent[read + 1].op = "badJSON" THEN "failed" ELSE status
  /\ UNCHANGED <<docs, closed, written>>
  /\ UNCHANGED editorVars

\* Notifications without effect, and payloads that do not parse.
Ignore ==
  /\ Reading({"other", "badJSON"})
  /\ UNCHANGED <<docs, closed, status, written>>
  /\ UNCHANGED editorVars

Exit ==
  /\ Reading({"exit"})
  /\ closed' = TRUE
  /\ UNCHANGED <<docs, status, written>>
  /\ UNCHANGED editorVars

\* A frame that cannot be read ends the loop with an error; of one that is not
\* completed the server waits for the rest until the editor hangs up, and takes
\* it for the end of stdin when it was cut off in or right after its header.
Fail ==
  /\ Reading(Broken)
  /\ sent[read + 1].op = "cutOff" => hungUp
  /\ status' \in IF sent[read + 1].op = "cutOff" THEN {"failed", "returned"} ELSE {"failed"}
  /\ UNCHANGED <<docs, closed, written>>
  /\ UNCHANGED editorVars

\* A faulty form of Return: the end of stdin is no end.
ReturnOnExit ==
  /\ status = "running"
  /\ closed
  /\ status' = "returned"
  /\ UNCHANGED <<read, docs, closed, written>>
  /\ UNCHANGED editorVars

\* The loop returns: the channel is closed, or stdin has come to its end.
Return ==
  /\ status = "running"
  /\ closed \/ (hungUp /\ read = Len(sent))
  /\ status' = "returned"
  /\ UNCHANGED <<read, docs, closed, written>>
  /\ UNCHANGED editorVars

Serve == DidOpen \/ DidChange \/ DidClose \/ Respond \/ RespondOther \/ Ignore \/ Exit \/ Fail \/ Return

Next == Write \/ HangUp \/ Receive \/ Serve

Spec == Init /\ [][Next]_vars

\* The server's loop runs, and the editor reads what it gets; nothing makes
\* the editor write or hang up.
FairSpec == Spec /\ WF_vars(Serve) /\ WF_vars(Receive)

-----------------------------------------------------------------------------
(* Properties. *)

Out == [op: {"reply", "diagnostics"}, uri: Uris, at: Nat \ {0},
        text: Texts \cup {NoDoc, Error, Static}]

TypeOK ==
  /\ sent \in Seq(Message)
  /\ hungUp \in BOOLEAN
  /\ read \in 0 .. Len(sent)
  /\ docs \in [Uris -> Texts \cup {NoDoc}]
  /\ closed \in BOOLEAN
  /\ status \in {"running", "returned", "failed"}
  /\ written \in Seq(Out)
  /\ seen \in 0 .. Len(written)
  /\ shown \in [Uris -> Nat]

\* The server's documents are those of the messages it has read: whatever it
\* makes of them is made from the text the editor had when it wrote them.
DocsFollow == \A u \in Uris : TextBefore(sent, read + 1, u, docs[u])

\* w is made from the text that its document had at the message of log that it
\* belongs to.
Made(log, w) ==
  /\ w.at \in DOMAIN log
  /\ w.uri = log[w.at].uri
  /\ w.op = "reply" => IsRequest(log[w.at]) /\ AnswerTo(log, w.at, w.text)
  /\ w.op = "diagnostics" => Syncs(log[w.at], w.uri) /\ w.text = TextAfter(log[w.at])

\* Every reply and every diagnostics message is made from the text that the
\* document had at the message it belongs to, however far the editor is ahead.
MadeFromItsText == \A i \in DOMAIN written : written[i].at <= read /\ Made(sent, written[i])

\* What the server writes is in the order of what it has read, one message
\* for one: no request is answered twice, no notification answered, and no
\* older diagnostics come after newer ones.
OneForOne ==
  \A i, j \in DOMAIN written : i < j => written[i].at < written[j].at

\* An exit is handled once, and nothing after it: closing the channel a
\* second time would end the server with a panic.
NothingAfterExit == [][closed => read' = read /\ docs' = docs /\ written' = written]_vars

\* When the pipes are empty the editor shows the diagnostics of the text that
\* it has.
ShownIsCurrent ==
  read = Len(sent) /\ seen = Len(written) /\ ~hungUp =>
    \A u \in Uris :
      IF shown[u] = 0 THEN TextBefore(sent, Len(sent) + 1, u, NoDoc)
      ELSE /\ Syncs(sent[shown[u]], u)
           /\ \A i \in shown[u] + 1 .. Len(sent) : ~Syncs(sent[i], u)

Answers == {[at |-> written[i].at, text |-> written[i].text] :
              i \in {x \in 1 .. Len(written) : written[x].op = "reply"}}

\* A message before k that ends the loop.
EndsBefore(k) == \E i \in 1 .. k - 1 : i \in DOMAIN sent /\ sent[i].op \in Broken \cup {"exit"}

\* Every request is answered, errors included, and the answer reaches the
\* editor, unless that hangs up or has ended the loop before.
EveryRequestAnswered ==
  \A k \in 1 .. MaxSent :
    (k <= Len(sent) /\ IsRequest(sent[k])) ~>
      \/ hungUp \/ EndsBefore(k)
      \/ \E i \in 1 .. seen : written[i].op = "reply" /\ written[i].at = k

\* The pipes run empty, however small stdout is: the server and the editor
\* never wait for each other.
CatchesUp ==
  <>[](hungUp \/ EndsBefore(MaxSent + 1) \/ (read = Len(sent) /\ seen = Len(written)))

\* An exit, or the end of stdin, ends the loop whatever was sent before.
LoopEnds == (closed \/ hungUp) ~> status # "running"

\* The server does what a language service promises.
LS == INSTANCE LanguageService WITH log <- sent, answers <- Answers, shown <- shown
ServiceSpec == LS!Spec
=============================================================================
