-------------------------- MODULE LspServerProofs ---------------------------
(***************************************************************************)
(* The language server keeps its documents in step with what it has read,  *)
(* makes every message from the text it belongs to, and implements         *)
(* LanguageService, for any number of documents, texts and messages.       *)
(***************************************************************************)
EXTENDS LspServer, TLAPS

\* What is still in stdout is newer than what the editor shows.
ShownBehind ==
  \A u \in Uris :
    /\ shown[u] <= read
    /\ \A i \in seen + 1 .. Len(written) : shown[u] < written[i].at

\* DocsFollow and MadeFromItsText need each other's types only; OneForOne needs
\* that nothing written is from ahead of read; the refinement needs that the
\* order of stdout carries over to what is shown.
Inv == TypeOK /\ DocsFollow /\ MadeFromItsText /\ OneForOne /\ ShownBehind

-----------------------------------------------------------------------------
(* Sequences. *)

\* A sequence and what it can have become by one message.
LEMMA Grown ==
  ASSUME NEW S, NEW s \in Seq(S), NEW x \in S, NEW r, r = s \/ r = Append(s, x)
  PROVE  /\ r \in Seq(S)
         /\ DOMAIN s = 1 .. Len(s) /\ DOMAIN r = 1 .. Len(r)
         /\ Len(s) \in Nat /\ Len(r) \in Nat
         /\ Len(r) = Len(s) \/ Len(r) = Len(s) + 1
         /\ \A i \in 1 .. Len(r) :
              \/ i \in 1 .. Len(s) /\ r[i] = s[i]
              \/ i = Len(s) + 1 /\ r[i] = x
<1>1. CASE r = s
  BY <1>1
<1>2. CASE r = Append(s, x)
  BY <1>2
<1> QED BY <1>1, <1>2

\* Its elements.
LEMMA Elements ==
  ASSUME NEW S, NEW s \in Seq(S)
  PROVE  Len(s) \in Nat /\ DOMAIN s = 1 .. Len(s) /\ \A i \in 1 .. Len(s) : s[i] \in S
OBVIOUS

-----------------------------------------------------------------------------
(* The text of a document along a log. *)

\* A longer log says the same of its older places.
LEMMA TextBeforeExtends ==
  ASSUME NEW log \in Seq(Message), NEW m \in Message,
         NEW k \in 1 .. Len(log) + 1, NEW u, NEW t
  PROVE  TextBefore(Append(log, m), k, u, t) <=> TextBefore(log, k, u, t)
<1>1. \A i \in 1 .. k - 1 : Append(log, m)[i] = log[i]
  BY SMTT(20)
<1> QED BY <1>1, SMTT(20) DEF TextBefore

\* Past a message that syncs the document, the document has that text.
LEMMA TextAfterSync ==
  ASSUME NEW log \in Seq(Message), NEW k \in 1 .. Len(log), NEW u, Syncs(log[k], u)
  PROVE  TextBefore(log, k + 1, u, TextAfter(log[k]))
BY DEF TextBefore

\* Past any other message, it has the text it had.
LEMMA TextAfterOther ==
  ASSUME NEW log \in Seq(Message), NEW k \in 1 .. Len(log), NEW u, NEW t,
         ~Syncs(log[k], u), TextBefore(log, k, u, t)
  PROVE  TextBefore(log, k + 1, u, t)
<1>1. \A i \in 1 .. k : i = k \/ i \in 1 .. k - 1
  OBVIOUS
<1>2. CASE t = NoDoc /\ \A i \in 1 .. k - 1 : ~Syncs(log[i], u)
  BY <1>1, <1>2 DEF TextBefore
<1>3. CASE \E j \in 1 .. k - 1 : /\ Syncs(log[j], u)
                                 /\ t = TextAfter(log[j])
                                 /\ \A i \in j + 1 .. k - 1 : ~Syncs(log[i], u)
  <2>1. PICK j \in 1 .. k - 1 : /\ Syncs(log[j], u)
                                /\ t = TextAfter(log[j])
                                /\ \A i \in j + 1 .. k - 1 : ~Syncs(log[i], u)
    BY <1>3
  <2>2. \A i \in j + 1 .. k : ~Syncs(log[i], u)
    BY <2>1
  <2>3. j \in 1 .. (k + 1) - 1 /\ (k + 1) - 1 = k
    OBVIOUS
  <2> QED BY <2>1, <2>2, <2>3 DEF TextBefore
<1> QED BY <1>2, <1>3 DEF TextBefore

\* What is right of a log stays right when it grows.
LEMMA AnswerExtends ==
  ASSUME NEW log \in Seq(Message), NEW m \in Message, NEW k \in 1 .. Len(log), NEW t,
         AnswerTo(log, k, t)
  PROVE  AnswerTo(Append(log, m), k, t)
<1>1. Append(log, m)[k] = log[k]
  OBVIOUS
<1>2. TextBefore(Append(log, m), k, log[k].uri, t) <=> TextBefore(log, k, log[k].uri, t)
  BY TextBeforeExtends
<1> QED BY <1>1, <1>2 DEF AnswerTo

-----------------------------------------------------------------------------
(* What a step does to each part of the invariant. *)

\* One good message more, or none, keeps what is said of the messages.
LEMMA PutOne ==
  ASSUME Inv, UNCHANGED editorVars, read < Len(sent), read' = read + 1,
         NEW w \in Out, w.at = read + 1, Made(sent, w),
         written' = written \/ written' = Append(written, w)
  PROVE  /\ written' \in Seq(Out)
         /\ read' \in 0 .. Len(sent')
         /\ seen' \in 0 .. Len(written')
         /\ MadeFromItsText'
         /\ OneForOne'
         /\ ShownBehind'
<1>1. /\ written \in Seq(Out) /\ shown \in [Uris -> Nat]
      /\ sent' = sent /\ seen' = seen /\ shown' = shown
      /\ seen \in Nat /\ seen <= Len(written)
      /\ read \in Nat /\ Len(sent) \in Nat
  BY DEF Inv, TypeOK, editorVars
<1>2. /\ written' \in Seq(Out) /\ DOMAIN written' = 1 .. Len(written')
      /\ DOMAIN written = 1 .. Len(written)
      /\ Len(written) \in Nat /\ Len(written') \in Nat
      /\ Len(written') = Len(written) \/ Len(written') = Len(written) + 1
  BY <1>1, Grown
<1>n. /\ seen \in Nat /\ Len(written) \in Nat /\ Len(written') \in Nat
      /\ seen <= Len(written) /\ Len(written) <= Len(written')
  <2>1. \A n, k \in Nat : k = n \/ k = n + 1 => n <= k
    OBVIOUS
  <2> QED BY <1>1, <1>2, <2>1, Zenon
<1>3. \A i \in 1 .. Len(written') :
        \/ i \in 1 .. Len(written) /\ written'[i] = written[i]
        \/ i = Len(written) + 1 /\ written'[i] = w
  BY <1>1, Grown
<1>4. \A i \in 1 .. Len(written) :
        /\ written[i].at \in Nat
        /\ written[i].at <= read
        /\ Made(sent, written[i])
  <2>1. \A i \in 1 .. Len(written) : written[i] \in Out
    BY <1>1, Elements
  <2>2. \A x \in Out : x.at \in Nat
    BY DEF Out
  <2> QED BY <2>1, <2>2, <1>2 DEF Inv, MadeFromItsText
<1>5. MadeFromItsText'
  <2>1. \A i \in 1 .. Len(written') : written'[i].at <= read' /\ Made(sent', written'[i])
    BY <1>1, <1>3, <1>4
  <2> QED BY <1>2, <2>1 DEF MadeFromItsText
<1>6. OneForOne'
  <2>1. ASSUME NEW i \in 1 .. Len(written'), NEW j \in 1 .. Len(written'), i < j
        PROVE  written'[i].at < written'[j].at
    <3>1. i \in 1 .. Len(written)
      <4>1. j \in 1 .. Len(written) \/ j = Len(written) + 1
        BY <1>3
      <4>2. \A n, b \in Nat : \A x, y \in 1 .. b :
              x < y /\ (y \in 1 .. n \/ y = n + 1) => x \in 1 .. n
        OBVIOUS
      <4> QED BY <1>n, <2>1, <4>1, <4>2, Zenon
    <3>2. written'[i] = written[i] /\ written[i].at <= read /\ written[i].at \in Nat
      <4>1. i # Len(written) + 1
        <5>1. \A n \in Nat : \A x \in 1 .. n : x # n + 1
          OBVIOUS
        <5> QED BY <3>1, <1>n, <5>1, Zenon
      <4> QED BY <3>1, <4>1, <1>3, <1>4
    <3>3. CASE j \in 1 .. Len(written) /\ written'[j] = written[j]
      BY <3>1, <3>2, <3>3, <1>2, <2>1 DEF Inv, OneForOne
    <3>4. CASE written'[j] = w
      BY <3>2, <3>4, <1>1
    <3> QED BY <3>3, <3>4, <1>3
  <2> QED BY <2>1, <1>2 DEF OneForOne
<1>7. ShownBehind'
  <2>1. ASSUME NEW u \in Uris, NEW i \in seen + 1 .. Len(written')
        PROVE  shown[u] < written'[i].at
    <3>1. shown[u] \in Nat /\ shown[u] <= read
      BY <1>1 DEF Inv, ShownBehind
    <3>2. i \in 1 .. Len(written') /\ i \in seen + 1 .. Len(written')
      <4>1. \A a, b \in Nat : \A x \in a + 1 .. b : x \in 1 .. b
        OBVIOUS
      <4> QED BY <4>1, <1>n, Zenon
    <3>3. CASE i \in 1 .. Len(written) /\ written'[i] = written[i]
      <4>1. i \in seen + 1 .. Len(written)
        <5>1. \A a, b, c \in Nat : \A x \in 1 .. b : x \in a + 1 .. c => x \in a + 1 .. b
          OBVIOUS
        <5> QED BY <3>2, <3>3, <1>n, <5>1, Zenon
      <4> QED BY <4>1, <3>3 DEF Inv, ShownBehind
    <3>4. CASE written'[i] = w
      BY <3>1, <3>4, <1>1
    <3> QED BY <3>2, <3>3, <3>4, <1>3
  <2>2. \A u \in Uris : shown[u] <= read'
    BY <1>1 DEF Inv, ShownBehind
  <2> QED BY <2>1, <2>2, <1>1 DEF ShownBehind
<1>8. read' \in 0 .. Len(sent')
  BY <1>1
<1>9. seen' \in 0 .. Len(written')
  <2>1. \A a, b, c \in Nat : a <= b /\ b <= c => a \in 0 .. c
    OBVIOUS
  <2> QED BY <1>1, <1>n, <2>1, Zenon
<1> QED BY <1>2, <1>5, <1>6, <1>7, <1>8, <1>9

\* The same when nothing is written.
LEMMA PutNone ==
  ASSUME Inv, UNCHANGED editorVars, read < Len(sent), read' = read + 1, written' = written
  PROVE  /\ read' \in 0 .. Len(sent')
         /\ MadeFromItsText'
         /\ OneForOne'
         /\ ShownBehind'
<1>1. /\ written \in Seq(Out) /\ seen \in 0 .. Len(written) /\ Len(written) \in Nat
      /\ read \in Nat /\ Len(sent) \in Nat /\ shown \in [Uris -> Nat]
      /\ sent' = sent /\ seen' = seen /\ shown' = shown
  BY DEF Inv, TypeOK, editorVars
<1>2. MadeFromItsText'
  <2>1. \A i \in DOMAIN written : written[i].at \in Nat
    <3>1. \A i \in DOMAIN written : written[i] \in Out
      BY <1>1, Elements
    <3>2. \A x \in Out : x.at \in Nat
      BY DEF Out
    <3> QED BY <3>1, <3>2
  <2>2. \A i \in DOMAIN written : written[i].at <= read + 1 /\ Made(sent, written[i])
    BY <2>1, <1>1 DEF Inv, MadeFromItsText
  <2> QED BY <2>2, <1>1 DEF MadeFromItsText
<1>3. OneForOne'
  BY DEF Inv, OneForOne
<1>4. ShownBehind'
  <2>1. \A u \in Uris : shown[u] \in Nat /\ shown[u] <= read
    BY <1>1 DEF Inv, ShownBehind
  <2>2. \A u \in Uris : \A i \in seen + 1 .. Len(written) : shown[u] < written[i].at
    BY DEF Inv, ShownBehind
  <2> QED BY <2>1, <2>2, <1>1 DEF ShownBehind
<1>5. read' \in 0 .. Len(sent')
  BY <1>1
<1> QED BY <1>2, <1>3, <1>4, <1>5

\* The documents follow a message that gives one of them a text.
LEMMA DocsFollowSync ==
  ASSUME Inv, sent' = sent, read < Len(sent), read' = read + 1,
         Syncs(sent[read + 1], sent[read + 1].uri),
         docs' = [docs EXCEPT ![sent[read + 1].uri] = TextAfter(sent[read + 1])]
  PROVE  DocsFollow'
<1> USE DEF Inv, TypeOK
<1> DEFINE m == sent[read + 1]
<1>1. m \in Message /\ m.uri \in Uris /\ read + 1 \in 1 .. Len(sent)
  BY DEF Message
<1>2. TextBefore(sent, (read + 1) + 1, m.uri, TextAfter(m))
  BY <1>1, TextAfterSync
<1>3. ASSUME NEW u \in Uris, u # m.uri
      PROVE  TextBefore(sent, (read + 1) + 1, u, docs[u])
  <2>1. TextBefore(sent, read + 1, u, docs[u]) /\ ~Syncs(m, u)
    BY <1>3 DEF DocsFollow, Syncs
  <2> QED BY <1>1, <2>1, TextAfterOther
<1>4. \A u \in Uris : TextBefore(sent, (read + 1) + 1, u, docs'[u])
  BY <1>1, <1>2, <1>3
<1>5. read' + 1 = (read + 1) + 1
  OBVIOUS
<1> QED BY <1>4, <1>5 DEF DocsFollow

\* And any other message.
LEMMA DocsFollowOther ==
  ASSUME Inv, sent' = sent, read < Len(sent), read' = read + 1, docs' = docs,
         \A u \in Uris : ~Syncs(sent[read + 1], u)
  PROVE  DocsFollow'
<1> USE DEF Inv, TypeOK
<1>1. read + 1 \in 1 .. Len(sent) /\ read' + 1 = (read + 1) + 1
  OBVIOUS
<1>2. \A u \in Uris : TextBefore(sent, (read + 1) + 1, u, docs[u])
  BY <1>1, TextAfterOther DEF DocsFollow
<1> QED BY <1>1, <1>2 DEF DocsFollow

-----------------------------------------------------------------------------
(* The messages. *)

\* What a message that gives a document a text gives it.
LEMMA TextOfMessage ==
  ASSUME NEW m \in Message
  PROVE  /\ m.uri \in Uris
         /\ m.op = "didOpen" =>
              /\ Syncs(m, m.uri)
              /\ m.changes[1] = TextAfter(m)
              /\ m.changes[1] \in Texts
         /\ m.op = "didChange" /\ m.changes # <<>> =>
              /\ Syncs(m, m.uri)
              /\ m.changes[Len(m.changes)] = TextAfter(m)
              /\ m.changes[Len(m.changes)] \in Texts
         /\ m.op = "didClose" => Syncs(m, m.uri) /\ TextAfter(m) = NoDoc
         /\ m.op \notin {"didOpen", "didChange", "didClose"} => \A u : ~Syncs(m, u)
         /\ m.op = "didChange" /\ m.changes = <<>> => \A u : ~Syncs(m, u)
<1>1. m.uri \in Uris
  BY DEF Message
<1>2. ASSUME m.op = "didOpen"
      PROVE  m.changes # <<>> /\ m.changes[1] = TextAfter(m) /\ m.changes[1] \in Texts
  <2>1. PICK t \in Texts : m.changes = <<t>>
    BY <1>2 DEF Message, Plain, Requests, Broken
  <2> QED BY <1>2, <2>1 DEF TextAfter
<1>3. ASSUME m.op = "didChange", m.changes # <<>>
      PROVE  m.changes[Len(m.changes)] = TextAfter(m) /\ m.changes[Len(m.changes)] \in Texts
  <2>1. m.changes \in ChangeLists
    BY <1>3 DEF Message, Plain, Requests, Broken
  <2>2. m.changes \in Seq(Texts)
    BY <2>1, ChangeListsAssumption
  <2> QED BY <1>3, <2>2 DEF TextAfter
<1> QED BY <1>1, <1>2, <1>3 DEF Syncs, TextAfter

\* A single message put at the end.
LEMMA PutIsAppend ==
  ASSUME NEW w \in Out, written \in Seq(Out), Put(<<w>>)
  PROVE  written' = written \/ written' = Append(written, w)
<1>1. written \o <<w>> = Append(written, w)
  OBVIOUS
<1> QED BY <1>1 DEF Put

-----------------------------------------------------------------------------
(* The invariant is inductive. *)

LEMMA InitInv == Init => Inv
<1> SUFFICES ASSUME Init PROVE Inv
  OBVIOUS
<1>1. TypeOK
  <2>1. sent \in Seq(Message) /\ written \in Seq(Out) /\ Len(sent) = 0 /\ Len(written) = 0
    BY DEF Init
  <2>2. docs \in [Uris -> Texts \cup {NoDoc}] /\ shown \in [Uris -> Nat]
    BY DEF Init
  <2>3. 0 \in 0 .. 0
    OBVIOUS
  <2>4. read \in 0 .. Len(sent) /\ seen \in 0 .. Len(written)
    BY <2>1, <2>3, Zenon DEF Init
  <2>5. hungUp \in BOOLEAN /\ closed \in BOOLEAN /\ status \in {"running", "returned", "failed"}
    BY DEF Init
  <2> QED BY <2>1, <2>2, <2>4, <2>5, Zenon DEF TypeOK
<1>2. DocsFollow
  <2>1. \A i \in 1 .. (0 + 1) - 1 : FALSE
    OBVIOUS
  <2> QED BY <2>1 DEF Init, DocsFollow, TextBefore
<1>3. MadeFromItsText /\ OneForOne /\ ShownBehind
  BY DEF Init, MadeFromItsText, OneForOne, ShownBehind
<1> QED BY <1>1, <1>2, <1>3 DEF Inv

LEMMA WriteInv == Inv /\ Write => Inv'
<1> SUFFICES ASSUME Inv, Write PROVE Inv'
  OBVIOUS
<1>1. PICK m \in Message : sent' = Append(sent, m)
  BY DEF Write
<1>2. /\ sent \in Seq(Message) /\ read \in 0 .. Len(sent)
      /\ UNCHANGED <<hungUp, read, docs, closed, status, written, seen, shown>>
  BY DEF Inv, TypeOK, Write, serverVars
<1>3. /\ sent' \in Seq(Message) /\ Len(sent') = Len(sent) + 1 /\ read \in 0 .. Len(sent')
      /\ \A i \in 1 .. Len(sent) : sent'[i] = sent[i]
      /\ DOMAIN sent = 1 .. Len(sent) /\ DOMAIN sent' = 1 .. Len(sent')
  BY <1>1, <1>2
<1>4. TypeOK'
  BY <1>2, <1>3 DEF Inv, TypeOK
<1>5. DocsFollow'
  <2>1. read + 1 \in 1 .. Len(sent) + 1
    BY <1>2
  <2>2. \A u \in Uris : TextBefore(sent', read + 1, u, docs[u])
    BY <1>1, <1>2, <2>1, TextBeforeExtends DEF Inv, DocsFollow
  <2> QED BY <1>2, <2>2 DEF DocsFollow
<1>6. MadeFromItsText'
  <2>1. ASSUME NEW w, Made(sent, w)
        PROVE  Made(sent', w)
    <3>1. w.at \in 1 .. Len(sent) /\ w.at \in DOMAIN sent' /\ sent'[w.at] = sent[w.at]
      BY <2>1, <1>3 DEF Made
    <3>2. AnswerTo(sent, w.at, w.text) => AnswerTo(sent', w.at, w.text)
      BY <1>1, <1>2, <3>1, AnswerExtends
    <3> QED BY <2>1, <3>1, <3>2 DEF Made
  <2> QED BY <1>2, <2>1 DEF Inv, MadeFromItsText
<1>7. OneForOne' /\ ShownBehind'
  BY <1>2 DEF Inv, OneForOne, ShownBehind
<1> QED BY <1>4, <1>5, <1>6, <1>7 DEF Inv

LEMMA ReceiveInv == Inv /\ Receive => Inv'
<1> SUFFICES ASSUME Inv, Receive PROVE Inv'
  OBVIOUS
<1>1. UNCHANGED <<sent, hungUp, read, docs, closed, status, written>>
  BY DEF Receive, serverVars
<1>2. /\ written \in Seq(Out) /\ seen \in Nat /\ Len(written) \in Nat /\ read \in Nat
      /\ seen < Len(written) /\ seen' = seen + 1 /\ shown \in [Uris -> Nat]
      /\ DOMAIN written = 1 .. Len(written)
  BY DEF Inv, TypeOK, Receive
<1> DEFINE w == written[seen + 1]
<1>3. seen + 1 \in 1 .. Len(written) /\ w \in Out
  BY <1>2
<1>4. w.uri \in Uris /\ w.at \in Nat /\ w.at <= read
  BY <1>2, <1>3 DEF Inv, MadeFromItsText, Out
<1>5. shown' = shown \/ shown' = [shown EXCEPT ![w.uri] = w.at]
  BY DEF Receive
<1>6. TypeOK'
  <2>1. shown' \in [Uris -> Nat]
    BY <1>2, <1>4, <1>5
  <2>2. seen' \in 0 .. Len(written)
    BY <1>2
  <2> QED BY <1>1, <2>1, <2>2 DEF Inv, TypeOK
<1>7. DocsFollow' /\ MadeFromItsText' /\ OneForOne'
  BY <1>1 DEF Inv, DocsFollow, MadeFromItsText, OneForOne
<1>8. ShownBehind'
  <2>1. ASSUME NEW u \in Uris
        PROVE  shown'[u] \in {shown[u], w.at}
    BY <1>2, <1>5
  <2>2. ASSUME NEW u \in Uris
        PROVE  shown'[u] <= read
    BY <2>1, <1>4 DEF Inv, ShownBehind
  <2>3. ASSUME NEW u \in Uris, NEW i \in seen' + 1 .. Len(written)
        PROVE  shown'[u] < written[i].at
    <3>1. i \in seen + 1 .. Len(written) /\ i \in 1 .. Len(written) /\ seen + 1 < i
      BY <1>2
    <3>2. shown[u] < written[i].at
      BY <3>1 DEF Inv, ShownBehind
    <3>3. w.at < written[i].at
      BY <1>2, <1>3, <3>1 DEF Inv, OneForOne
    <3> QED BY <2>1, <3>2, <3>3
  <2> QED BY <1>1, <2>2, <2>3 DEF ShownBehind
<1> QED BY <1>6, <1>7, <1>8 DEF Inv

\* A message read that gives its document a text: didOpen, didChange, didClose.
LEMMA SyncInv ==
  ASSUME Inv, UNCHANGED <<editorVars, closed, status>>,
         read < Len(sent), read' = read + 1,
         Syncs(sent[read + 1], sent[read + 1].uri),
         TextAfter(sent[read + 1]) \in Texts \cup {NoDoc},
         docs' = [docs EXCEPT ![sent[read + 1].uri] = TextAfter(sent[read + 1])],
         Put(Diagnostics(read + 1, TextAfter(sent[read + 1])))
  PROVE  Inv'
<1> DEFINE m == sent[read + 1]
           w == [op |-> "diagnostics", uri |-> m.uri, at |-> read + 1, text |-> TextAfter(m)]
<1>1. /\ sent \in Seq(Message) /\ read \in Nat /\ read + 1 \in DOMAIN sent
      /\ written \in Seq(Out) /\ docs \in [Uris -> Texts \cup {NoDoc}]
  BY DEF Inv, TypeOK
<1>2. m \in Message /\ m.uri \in Uris
  BY <1>1, TextOfMessage
<1>3. w \in Out
  BY <1>1, <1>2 DEF Out
<1>4. Made(sent, w)
  BY <1>1 DEF Made
<1>5. written' = written \/ written' = Append(written, w)
  BY <1>1, <1>3, PutIsAppend DEF Diagnostics
<1>6. /\ written' \in Seq(Out) /\ read' \in 0 .. Len(sent') /\ seen' \in 0 .. Len(written')
      /\ MadeFromItsText' /\ OneForOne' /\ ShownBehind'
  BY <1>3, <1>4, <1>5, PutOne
<1>7. docs' \in [Uris -> Texts \cup {NoDoc}]
  BY <1>1
<1>8. DocsFollow'
  BY DocsFollowSync DEF editorVars
<1>9. TypeOK'
  BY <1>6, <1>7 DEF Inv, TypeOK, editorVars
<1> QED BY <1>6, <1>8, <1>9 DEF Inv

\* A request, answered.
LEMMA ReplyInv ==
  ASSUME Inv, UNCHANGED <<editorVars, docs, closed, status>>,
         read < Len(sent), read' = read + 1,
         IsRequest(sent[read + 1]),
         NEW t \in Texts \cup {NoDoc, Error, Static},
         AnswerTo(sent, read + 1, t),
         Put(Reply(read + 1, t))
  PROVE  Inv'
<1> DEFINE m == sent[read + 1]
           w == [op |-> "reply", uri |-> m.uri, at |-> read + 1, text |-> t]
<1>1. /\ sent \in Seq(Message) /\ read \in Nat /\ read + 1 \in DOMAIN sent
      /\ written \in Seq(Out)
  BY DEF Inv, TypeOK
<1>2. m \in Message /\ m.uri \in Uris /\ \A u : ~Syncs(m, u)
  BY <1>1, TextOfMessage DEF IsRequest, Requests
<1>3. w \in Out
  BY <1>1, <1>2 DEF Out
<1>4. Made(sent, w)
  BY <1>1 DEF Made
<1>5. written' = written \/ written' = Append(written, w)
  BY <1>1, <1>3, PutIsAppend DEF Reply
<1>6. /\ written' \in Seq(Out) /\ read' \in 0 .. Len(sent') /\ seen' \in 0 .. Len(written')
      /\ MadeFromItsText' /\ OneForOne' /\ ShownBehind'
  BY <1>3, <1>4, <1>5, PutOne
<1>7. DocsFollow'
  BY <1>2, DocsFollowOther DEF editorVars
<1>8. TypeOK'
  BY <1>6 DEF Inv, TypeOK, editorVars
<1> QED BY <1>6, <1>7, <1>8 DEF Inv

\* Any other message: nothing is written, and no document changes.
LEMMA QuietInv ==
  ASSUME Inv, UNCHANGED <<editorVars, docs, written>>,
         read < Len(sent), read' = read + 1,
         \A u : ~Syncs(sent[read + 1], u),
         closed' \in BOOLEAN, status' \in {"running", "returned", "failed"}
  PROVE  Inv'
<1>1. /\ read' \in 0 .. Len(sent')
      /\ MadeFromItsText' /\ OneForOne' /\ ShownBehind'
  BY PutNone
<1>2. DocsFollow'
  BY DocsFollowOther DEF editorVars
<1>3. TypeOK'
  BY <1>1 DEF Inv, TypeOK, editorVars
<1> QED BY <1>1, <1>2, <1>3 DEF Inv

LEMMA ServeInv == Inv /\ Serve => Inv'
<1> SUFFICES ASSUME Inv, Serve PROVE Inv'
  OBVIOUS
<1> DEFINE m == sent[read + 1]
<1>t. /\ sent \in Seq(Message) /\ read \in Nat /\ docs \in [Uris -> Texts \cup {NoDoc}]
      /\ closed \in BOOLEAN /\ status \in {"running", "returned", "failed"}
  BY DEF Inv, TypeOK
<1>m. ASSUME read < Len(sent)
      PROVE  m \in Message /\ read + 1 \in 1 .. Len(sent)
  BY <1>t, <1>m
<1>1. CASE DidOpen
  <2>1. /\ read < Len(sent) /\ read' = read + 1 /\ m.op = "didOpen"
        /\ UNCHANGED <<editorVars, closed, status>>
    BY <1>1 DEF DidOpen, Reading
  <2>2. Syncs(m, m.uri) /\ m.changes[1] = TextAfter(m) /\ TextAfter(m) \in Texts
    BY <2>1, <1>m, TextOfMessage
  <2> QED BY <1>1, <2>1, <2>2, SyncInv DEF DidOpen
<1>2. CASE DidChange
  <2>1. /\ read < Len(sent) /\ read' = read + 1 /\ m.op = "didChange"
        /\ UNCHANGED <<editorVars, closed, status>>
    BY <1>2 DEF DidChange, Reading
  <2>2. CASE m.changes = <<>>
    <3>1. \A u : ~Syncs(m, u)
      BY <2>1, <2>2, <1>m, TextOfMessage
    <3> QED BY <1>2, <1>t, <2>1, <2>2, <3>1, QuietInv DEF DidChange
  <2>3. CASE m.changes # <<>>
    <3>1. Syncs(m, m.uri) /\ m.changes[Len(m.changes)] = TextAfter(m) /\ TextAfter(m) \in Texts
      BY <2>1, <2>3, <1>m, TextOfMessage
    <3> QED BY <1>2, <2>1, <2>3, <3>1, SyncInv DEF DidChange
  <2> QED BY <2>2, <2>3
<1>3. CASE DidClose
  <2>1. /\ read < Len(sent) /\ read' = read + 1 /\ m.op = "didClose"
        /\ UNCHANGED <<editorVars, closed, status>>
    BY <1>3 DEF DidClose, Reading
  <2>2. Syncs(m, m.uri) /\ TextAfter(m) = NoDoc
    BY <2>1, <1>m, TextOfMessage
  <2> QED BY <1>3, <2>1, <2>2, SyncInv DEF DidClose
<1>4. CASE Respond
  <2>1. /\ read < Len(sent) /\ read' = read + 1 /\ m.op = "document"
        /\ UNCHANGED <<editorVars, docs, closed, status>>
    BY <1>4 DEF Respond, Reading
  <2>2. m.uri \in Uris /\ IsRequest(m)
    BY <2>1, <1>m, TextOfMessage DEF IsRequest, Requests
  <2>3. docs[m.uri] \in Texts \cup {NoDoc, Error, Static}
    BY <1>t, <2>2
  <2>4. AnswerTo(sent, read + 1, docs[m.uri])
    BY <2>1, <2>2 DEF Inv, DocsFollow, AnswerTo
  <2> QED BY <1>4, <2>1, <2>2, <2>3, <2>4, ReplyInv DEF Respond
<1>5. CASE RespondOther
  <2> DEFINE t == IF m.op = "initialize" THEN Static ELSE Error
  <2>1. /\ read < Len(sent) /\ read' = read + 1 /\ m.op \in Requests \ {"document"}
        /\ UNCHANGED <<editorVars, docs, closed, status>>
        /\ Put(Reply(read + 1, t))
    BY <1>5 DEF RespondOther, Reading
  <2>2. IsRequest(m) /\ t \in Texts \cup {NoDoc, Error, Static} /\ AnswerTo(sent, read + 1, t)
    BY <2>1 DEF IsRequest, Requests, AnswerTo
  <2> HIDE DEF t
  <2> QED BY <2>1, <2>2, ReplyInv
<1>6. CASE Ignore
  <2>1. /\ read < Len(sent) /\ read' = read + 1 /\ m.op \in {"other", "badJSON"}
        /\ UNCHANGED <<editorVars, docs, written, closed, status>>
    BY <1>6 DEF Ignore, Reading
  <2> QED BY <1>t, <1>m, <2>1, TextOfMessage, QuietInv
<1>7. CASE Exit
  <2>1. /\ read < Len(sent) /\ read' = read + 1 /\ m.op \in {"exit"}
        /\ UNCHANGED <<editorVars, docs, written, status>> /\ closed' = TRUE
    BY <1>7 DEF Exit, Reading
  <2> QED BY <1>t, <1>m, <2>1, TextOfMessage, QuietInv
<1>8. CASE Fail
  <2>1. /\ read < Len(sent) /\ read' = read + 1 /\ m.op \in Broken
        /\ UNCHANGED <<editorVars, docs, written, closed>>
        /\ status' \in {"running", "returned", "failed"}
    BY <1>8 DEF Fail, Reading
  <2> QED BY <1>t, <1>m, <2>1, TextOfMessage, QuietInv DEF Broken
<1>9. CASE Return
  <2>1. UNCHANGED <<editorVars, read, docs, closed, written>> /\ status' = "returned"
    BY <1>9 DEF Return, Reading
  <2> QED BY <2>1 DEF Inv, TypeOK, DocsFollow, MadeFromItsText, OneForOne, ShownBehind, editorVars
<1> QED BY <1>1, <1>2, <1>3, <1>4, <1>5, <1>6, <1>7, <1>8, <1>9 DEF Serve

LEMMA StepInv == Inv /\ [Next]_vars => Inv'
<1> SUFFICES ASSUME Inv, [Next]_vars PROVE Inv'
  OBVIOUS
<1>1. CASE HangUp
  BY <1>1 DEF HangUp, serverVars, Inv, TypeOK, DocsFollow, MadeFromItsText, OneForOne, ShownBehind
<1>2. CASE UNCHANGED vars
  BY <1>2 DEF vars, Inv, TypeOK, DocsFollow, MadeFromItsText, OneForOne, ShownBehind
<1> QED BY <1>1, <1>2, WriteInv, ReceiveInv, ServeInv DEF Next

\* The invariant holds of every behaviour.
THEOREM Invariance == Spec => []Inv
<1> QED BY InitInv, StepInv, PTL DEF Spec

\* The server and its editor keep their types, whatever is sent.
THEOREM TypeCorrect == Spec => []TypeOK
BY Invariance, PTL DEF Inv

\* After any prefix of stdin the server's documents are those of the prefix
\* (onDidOpen, onDidChange, onDidClose).
THEOREM DocumentsFollow == Spec => []DocsFollow
BY Invariance, PTL DEF Inv

\* However far the editor runs ahead of the server, every reply and every
\* diagnostics message is made from the text of the message it belongs to.
THEOREM MessagesMatch == Spec => []MadeFromItsText
BY Invariance, PTL DEF Inv

\* Nothing is answered twice or out of order.
THEOREM InOrder == Spec => []OneForOne
BY Invariance, PTL DEF Inv

\* After an exit nothing is read any more, so the channel is not closed twice
\* (onExit).
THEOREM ExitIsLast == Spec => NothingAfterExit
<1>1. [Next]_vars => (closed => read' = read /\ docs' = docs /\ written' = written)
  BY DEF Next, Serve, vars, Write, HangUp, Receive, serverVars, DidOpen, DidChange, DidClose,
     Respond, RespondOther, Ignore, Exit, Fail, Return, Reading
<1>2. [Next]_vars => [closed => read' = read /\ docs' = docs /\ written' = written]_vars
  BY <1>1
<1> QED BY <1>2, PTL DEF Spec, NothingAfterExit

-----------------------------------------------------------------------------
(* What the editor shows when the pipes are empty. *)

IsDiagnosis(w, u, k) == w.op = "diagnostics" /\ w.uri = u /\ w.at = k

\* While the editor is there, no message that gives a document a text has been
\* read without its diagnostics in stdout (publishDiagnostics ends every
\* handler that stores a document).
Diagnosed ==
  ~hungUp =>
    \A k \in 1 .. read, u \in Uris :
      Syncs(sent[k], u) => \E i \in DOMAIN written : IsDiagnosis(written[i], u, k)

\* What is shown of a document belongs to a message that gave it a text, and
\* nothing the editor has read of it is newer.
ShownNewest ==
  \A u \in Uris :
    /\ shown[u] # 0 => shown[u] \in DOMAIN sent /\ Syncs(sent[shown[u]], u)
    /\ \A i \in 1 .. seen : \A k \in Nat : IsDiagnosis(written[i], u, k) => k <= shown[u]

\* ShownIsCurrent is not inductive: it speaks only of empty pipes.
Shown == Diagnosed /\ ShownNewest

LEMMA InitShown == Init => Shown
<1> SUFFICES ASSUME Init PROVE Shown
  OBVIOUS
<1>1. \A i \in 1 .. 0 : FALSE
  OBVIOUS
<1> QED BY <1>1 DEF Init, Shown, Diagnosed, ShownNewest

\* A longer stdin changes nothing of what has been read.
LEMMA WriteShown == Inv /\ Shown /\ Write => Shown'
<1> SUFFICES ASSUME Inv, Shown, Write PROVE Shown'
  OBVIOUS
<1>1. PICK m \in Message : sent' = Append(sent, m)
  BY DEF Write
<1>2. /\ sent \in Seq(Message) /\ read \in 0 .. Len(sent)
      /\ UNCHANGED <<hungUp, read, written, seen, shown>>
  BY DEF Inv, TypeOK, Write, serverVars
<1>3. /\ \A i \in 1 .. Len(sent) : sent'[i] = sent[i] /\ i \in DOMAIN sent'
      /\ DOMAIN sent = 1 .. Len(sent)
  BY <1>1, <1>2
<1>4. Diagnosed'
  <2>1. \A k \in 1 .. read : sent'[k] = sent[k]
    BY <1>2, <1>3
  <2> QED BY <1>2, <2>1 DEF Shown, Diagnosed
<1>5. ShownNewest'
  BY <1>2, <1>3 DEF Shown, ShownNewest
<1> QED BY <1>4, <1>5 DEF Shown

\* What the editor reads next is newer than what it shows of the document.
LEMMA ReceiveShown == Inv /\ Shown /\ Receive => Shown'
<1> SUFFICES ASSUME Inv, Shown, Receive PROVE Shown'
  OBVIOUS
<1> DEFINE w == written[seen + 1]
<1>1. UNCHANGED <<sent, hungUp, read, written>>
  BY DEF Receive, serverVars
<1>2. /\ written \in Seq(Out) /\ seen \in Nat /\ shown \in [Uris -> Nat]
      /\ seen + 1 \in 1 .. Len(written) /\ seen + 1 \in seen + 1 .. Len(written)
      /\ DOMAIN written = 1 .. Len(written)
      /\ \A i \in 1 .. seen' : i \in 1 .. seen \/ i = seen + 1
  BY DEF Inv, TypeOK, Receive
<1>3. w \in Out /\ w.uri \in Uris /\ w.at \in Nat
  <2>1. w \in Out
    BY <1>2, Elements
  <2> QED BY <2>1 DEF Out
<1>4. Diagnosed'
  BY <1>1 DEF Shown, Diagnosed
<1>5. CASE w.op = "diagnostics"
  <2>1. w.at \in DOMAIN sent /\ Syncs(sent[w.at], w.uri)
    BY <1>2, <1>5 DEF Inv, MadeFromItsText, Made
  <2>2. shown[w.uri] < w.at
    BY <1>2, <1>3 DEF Inv, ShownBehind
  <2>3. shown' = [shown EXCEPT ![w.uri] = w.at]
    BY <1>5 DEF Receive
  <2>4. ASSUME NEW u \in Uris
        PROVE  shown'[u] # 0 => shown'[u] \in DOMAIN sent /\ Syncs(sent[shown'[u]], u)
    BY <1>2, <2>1, <2>3 DEF Shown, ShownNewest
  <2>5. ASSUME NEW u \in Uris, NEW i \in 1 .. seen', NEW k \in Nat, IsDiagnosis(written[i], u, k)
        PROVE  k <= shown'[u]
    <3>1. shown[u] \in Nat /\ shown[u] <= shown'[u] /\ shown'[u] \in Nat
      BY <1>2, <1>3, <2>2, <2>3
    <3>2. CASE i \in 1 .. seen
      <4>1. k <= shown[u]
        BY <2>5, <3>2 DEF Shown, ShownNewest
      <4> QED BY <3>1, <4>1
    <3>3. CASE i = seen + 1
      <4>1. u = w.uri /\ k = w.at
        BY <2>5, <3>3 DEF IsDiagnosis
      <4> QED BY <1>2, <2>3, <4>1
    <3> QED BY <1>2, <3>2, <3>3
  <2> QED BY <1>1, <1>4, <2>4, <2>5 DEF Shown, ShownNewest
<1>6. CASE w.op # "diagnostics"
  <2>1. shown' = shown
    BY <1>6 DEF Receive
  <2>2. \A u, k : ~IsDiagnosis(w, u, k)
    BY <1>6 DEF IsDiagnosis
  <2> QED BY <1>1, <1>2, <1>4, <2>1, <2>2 DEF Shown, ShownNewest
<1> QED BY <1>5, <1>6

\* What has been read is not written over.
LEMMA SeenKept ==
  ASSUME Inv, Shown, UNCHANGED editorVars, NEW w \in Out,
         written' = written \/ written' = Append(written, w)
  PROVE  ShownNewest' /\ \A i \in DOMAIN written : i \in DOMAIN written' /\ written'[i] = written[i]
<1>1. /\ written \in Seq(Out) /\ seen \in 0 .. Len(written)
      /\ sent' = sent /\ seen' = seen /\ shown' = shown
  BY DEF Inv, TypeOK, editorVars
<1>2. \A i \in DOMAIN written : i \in DOMAIN written' /\ written'[i] = written[i]
  BY <1>1
<1>3. \A i \in 1 .. seen : i \in DOMAIN written
  BY <1>1
<1> QED BY <1>1, <1>2, <1>3 DEF Shown, ShownNewest

\* A message that gives its document a text is read: while the editor is there,
\* its diagnostics are put into stdout.
LEMMA SyncShown ==
  ASSUME Inv, Shown, UNCHANGED editorVars,
         read < Len(sent), read' = read + 1,
         TextAfter(sent[read + 1]) \in Texts \cup {NoDoc},
         Put(Diagnostics(read + 1, TextAfter(sent[read + 1])))
  PROVE  Shown'
<1> DEFINE m == sent[read + 1]
           w == [op |-> "diagnostics", uri |-> m.uri, at |-> read + 1, text |-> TextAfter(m)]
<1>1. /\ sent \in Seq(Message) /\ read \in Nat /\ read + 1 \in DOMAIN sent
      /\ written \in Seq(Out) /\ sent' = sent /\ hungUp' = hungUp
  BY DEF Inv, TypeOK, editorVars
<1>2. w \in Out
  <2>1. m.uri \in Uris
    BY <1>1, TextOfMessage
  <2> QED BY <1>1, <2>1 DEF Out
<1>3. written' = written \/ written' = Append(written, w)
  BY <1>1, <1>2, PutIsAppend DEF Diagnostics
<1>4. ShownNewest' /\ \A i \in DOMAIN written : i \in DOMAIN written' /\ written'[i] = written[i]
  BY <1>2, <1>3, SeenKept
<1>5. ASSUME ~hungUp, NEW k \in 1 .. read', NEW u \in Uris, Syncs(sent[k], u)
      PROVE  \E i \in DOMAIN written' : IsDiagnosis(written'[i], u, k)
  <2>1. CASE k \in 1 .. read
    BY <1>4, <1>5, <2>1 DEF Shown, Diagnosed
  <2>2. CASE k = read + 1
    <3>1. written' = Append(written, w)
      BY <1>1, <1>5 DEF Put, Diagnostics
    <3>2. Len(written) + 1 \in DOMAIN written' /\ written'[Len(written) + 1] = w
      BY <1>1, <3>1
    <3>3. IsDiagnosis(w, u, k)
      BY <1>5, <2>2 DEF IsDiagnosis, Syncs
    <3> QED BY <3>2, <3>3
  <2> QED BY <1>1, <2>1, <2>2
<1>6. Diagnosed'
  BY <1>1, <1>5 DEF Diagnosed
<1> QED BY <1>4, <1>6 DEF Shown

\* Any other message is read: no document changes, and what is written, if
\* anything, comes after what was there.
LEMMA OtherShown ==
  ASSUME Inv, Shown, UNCHANGED editorVars,
         read < Len(sent), read' = read + 1,
         \A u : ~Syncs(sent[read + 1], u),
         \/ written' = written
         \/ \E t \in Texts \cup {NoDoc, Error, Static} : Put(Reply(read + 1, t))
  PROVE  Shown'
<1>1. /\ sent \in Seq(Message) /\ read \in Nat /\ read + 1 \in DOMAIN sent
      /\ written \in Seq(Out) /\ sent' = sent /\ hungUp' = hungUp
  BY DEF Inv, TypeOK, editorVars
<1>2. PICK w \in Out : written' = written \/ written' = Append(written, w)
  <2> DEFINE reply(t) == [op |-> "reply", uri |-> sent[read + 1].uri, at |-> read + 1, text |-> t]
  <2>1. sent[read + 1].uri \in Uris
    BY <1>1, TextOfMessage
  <2>2. \A t \in Texts \cup {NoDoc, Error, Static} : reply(t) \in Out
    BY <1>1, <2>1 DEF Out
  <2>3. CASE written' = written
    BY <2>2, <2>3
  <2>4. ASSUME NEW t \in Texts \cup {NoDoc, Error, Static}, Put(Reply(read + 1, t))
        PROVE  written' = written \/ written' = Append(written, reply(t))
    BY <1>1, <2>2, <2>4, PutIsAppend DEF Reply
  <2> QED BY <2>2, <2>3, <2>4
<1>3. ShownNewest' /\ \A i \in DOMAIN written : i \in DOMAIN written' /\ written'[i] = written[i]
  BY <1>2, SeenKept
<1>4. ASSUME ~hungUp, NEW k \in 1 .. read', NEW u \in Uris, Syncs(sent[k], u)
      PROVE  \E i \in DOMAIN written' : IsDiagnosis(written'[i], u, k)
  <2>1. k \in 1 .. read
    BY <1>1, <1>4
  <2> QED BY <1>3, <1>4, <2>1 DEF Shown, Diagnosed
<1>5. Diagnosed'
  BY <1>1, <1>4 DEF Diagnosed
<1> QED BY <1>3, <1>5 DEF Shown

LEMMA ServeShown == Inv /\ Shown /\ Serve => Shown'
<1> SUFFICES ASSUME Inv, Shown, Serve PROVE Shown'
  OBVIOUS
<1> DEFINE m == sent[read + 1]
<1>t. sent \in Seq(Message) /\ read \in Nat /\ docs \in [Uris -> Texts \cup {NoDoc}]
  BY DEF Inv, TypeOK
<1>m. ASSUME read < Len(sent)
      PROVE  m \in Message
  BY <1>t, <1>m
<1>1. CASE DidOpen
  <2>1. read < Len(sent) /\ read' = read + 1 /\ m.op = "didOpen" /\ UNCHANGED editorVars
    BY <1>1 DEF DidOpen, Reading
  <2>2. m.changes[1] = TextAfter(m) /\ TextAfter(m) \in Texts
    BY <2>1, <1>m, TextOfMessage
  <2> QED BY <1>1, <2>1, <2>2, SyncShown DEF DidOpen
<1>2. CASE DidChange
  <2>1. read < Len(sent) /\ read' = read + 1 /\ m.op = "didChange" /\ UNCHANGED editorVars
    BY <1>2 DEF DidChange, Reading
  <2>2. CASE m.changes = <<>>
    <3>1. \A u : ~Syncs(m, u)
      BY <2>1, <2>2, <1>m, TextOfMessage
    <3> QED BY <1>2, <2>1, <2>2, <3>1, OtherShown DEF DidChange
  <2>3. CASE m.changes # <<>>
    <3>1. m.changes[Len(m.changes)] = TextAfter(m) /\ TextAfter(m) \in Texts
      BY <2>1, <2>3, <1>m, TextOfMessage
    <3> QED BY <1>2, <2>1, <2>3, <3>1, SyncShown DEF DidChange
  <2> QED BY <2>2, <2>3
<1>3. CASE DidClose
  <2>1. read < Len(sent) /\ read' = read + 1 /\ m.op = "didClose" /\ UNCHANGED editorVars
    BY <1>3 DEF DidClose, Reading
  <2>2. TextAfter(m) = NoDoc
    BY <2>1, <1>m, TextOfMessage
  <2> QED BY <1>3, <2>1, <2>2, SyncShown DEF DidClose
<1>4. CASE Respond
  <2>1. /\ read < Len(sent) /\ read' = read + 1 /\ m.op = "document" /\ UNCHANGED editorVars
        /\ Put(Reply(read + 1, docs[m.uri]))
    BY <1>4 DEF Respond, Reading
  <2>2. docs[m.uri] \in Texts \cup {NoDoc, Error, Static} /\ \A u : ~Syncs(m, u)
    BY <1>t, <2>1, <1>m, TextOfMessage
  <2> QED BY <2>1, <2>2, OtherShown
<1>5. CASE RespondOther
  <2> DEFINE t == IF m.op = "initialize" THEN Static ELSE Error
  <2>1. /\ read < Len(sent) /\ read' = read + 1 /\ m.op \in Requests \ {"document"}
        /\ UNCHANGED editorVars /\ Put(Reply(read + 1, t))
    BY <1>5 DEF RespondOther, Reading
  <2>2. t \in Texts \cup {NoDoc, Error, Static} /\ \A u : ~Syncs(m, u)
    BY <2>1, <1>m, TextOfMessage DEF Requests
  <2> HIDE DEF t
  <2> QED BY <2>1, <2>2, OtherShown
<1>6. CASE Ignore \/ Exit \/ Fail
  <2>1. /\ read < Len(sent) /\ read' = read + 1 /\ written' = written /\ UNCHANGED editorVars
        /\ m.op \in {"other", "badJSON", "exit"} \cup Broken
    BY <1>6 DEF Ignore, Exit, Fail, Reading
  <2>2. \A u : ~Syncs(m, u)
    BY <2>1, <1>m, TextOfMessage DEF Broken
  <2> QED BY <2>1, <2>2, OtherShown
<1>7. CASE Return
  BY <1>7 DEF Return, Shown, Diagnosed, ShownNewest, editorVars
<1> QED BY <1>1, <1>2, <1>3, <1>4, <1>5, <1>6, <1>7 DEF Serve

LEMMA StepShown == Inv /\ Shown /\ [Next]_vars => Shown'
<1> SUFFICES ASSUME Inv, Shown, [Next]_vars PROVE Shown'
  OBVIOUS
<1>1. CASE HangUp
  BY <1>1 DEF HangUp, serverVars, Shown, Diagnosed, ShownNewest
<1>2. CASE UNCHANGED vars
  BY <1>2 DEF vars, Shown, Diagnosed, ShownNewest
<1> QED BY <1>1, <1>2, WriteShown, ReceiveShown, ServeShown DEF Next

\* With empty pipes everything diagnosed has been read, so nothing is newer
\* than what is shown.
LEMMA ShownSuffices == Inv /\ Shown => ShownIsCurrent
<1> SUFFICES ASSUME Inv, Shown, read = Len(sent), seen = Len(written), ~hungUp,
                    NEW u \in Uris
             PROVE  IF shown[u] = 0 THEN TextBefore(sent, Len(sent) + 1, u, NoDoc)
                    ELSE /\ Syncs(sent[shown[u]], u)
                         /\ \A i \in shown[u] + 1 .. Len(sent) : ~Syncs(sent[i], u)
  BY Zenon DEF ShownIsCurrent
<1>1. /\ sent \in Seq(Message) /\ written \in Seq(Out) /\ shown[u] \in Nat
      /\ Len(sent) \in Nat /\ DOMAIN written = 1 .. Len(written)
  BY DEF Inv, TypeOK
<1>2. ASSUME NEW k \in 1 .. Len(sent), Syncs(sent[k], u)
      PROVE  k <= shown[u]
  <2>1. PICK i \in DOMAIN written : IsDiagnosis(written[i], u, k)
    BY <1>2 DEF Shown, Diagnosed
  <2> QED BY <1>1, <2>1 DEF Shown, ShownNewest
<1>3. CASE shown[u] = 0
  <2>1. \A i \in 1 .. (Len(sent) + 1) - 1 : ~Syncs(sent[i], u)
    BY <1>1, <1>2, <1>3
  <2> QED BY <1>3, <2>1 DEF TextBefore
<1>4. CASE shown[u] # 0
  <2>1. \A i \in shown[u] + 1 .. Len(sent) : i \in 1 .. Len(sent) /\ ~(i <= shown[u])
    BY <1>1
  <2>2. Syncs(sent[shown[u]], u)
    BY <1>4 DEF Shown, ShownNewest
  <2> QED BY <1>2, <1>4, <2>1, <2>2
<1> QED BY <1>3, <1>4

\* However far the editor has run ahead: once both sides have read everything,
\* the diagnostics shown of every document are those of the last message that
\* gave it a text, or none if none did (publishDiagnostics, onDidClose).
THEOREM ShownUpToDate == Spec => []ShownIsCurrent
<1> QED BY Invariance, InitShown, StepShown, ShownSuffices, PTL DEF Spec

-----------------------------------------------------------------------------
(* The server implements LanguageService. *)

\* What is answered when one more reply has been written.
LEMMA AnswersAppend ==
  ASSUME written \in Seq(Out), NEW w \in Out, written' = Append(written, w)
  PROVE  Answers' = IF w.op = "reply" THEN Answers \cup {[at |-> w.at, text |-> w.text]}
                    ELSE Answers
<1>1. /\ Len(written') = Len(written) + 1 /\ Len(written) \in Nat
      /\ \A i \in 1 .. Len(written) : written'[i] = written[i]
      /\ written'[Len(written) + 1] = w
      /\ \A i : i \in 1 .. Len(written) + 1 <=> i \in 1 .. Len(written) \/ i = Len(written) + 1
  OBVIOUS
<1>2. \A x : x \in Answers <=> \E i \in 1 .. Len(written) :
                                 /\ written[i].op = "reply"
                                 /\ x = [at |-> written[i].at, text |-> written[i].text]
  BY DEF Answers
<1>3. \A x : x \in Answers' <=> \E i \in 1 .. Len(written) + 1 :
                                 /\ written'[i].op = "reply"
                                 /\ x = [at |-> written'[i].at, text |-> written'[i].text]
  BY <1>1 DEF Answers
<1> DEFINE answer(m) == [at |-> m.at, text |-> m.text]
<1>4. ASSUME NEW x
      PROVE  x \in Answers' <=> x \in Answers \/ (w.op = "reply" /\ x = answer(w))
  <2>1. ASSUME x \in Answers' PROVE x \in Answers \/ (w.op = "reply" /\ x = answer(w))
    <3>1. PICK i \in 1 .. Len(written) + 1 : written'[i].op = "reply" /\ x = answer(written'[i])
      BY <1>3, <2>1
    <3>2. CASE i \in 1 .. Len(written)
      BY <3>1, <3>2, <1>1, <1>2
    <3>3. CASE i = Len(written) + 1
      BY <3>1, <3>3, <1>1
    <3> QED BY <3>2, <3>3, <1>1
  <2>2. ASSUME x \in Answers PROVE x \in Answers'
    <3>1. PICK i \in 1 .. Len(written) : written[i].op = "reply" /\ x = answer(written[i])
      BY <1>2, <2>2
    <3>2. i \in 1 .. Len(written) + 1 /\ written'[i] = written[i]
      BY <1>1
    <3> QED BY <1>3, <3>1, <3>2
  <2>3. ASSUME w.op = "reply", x = answer(w) PROVE x \in Answers'
    BY <1>1, <1>3, <2>3
  <2> QED BY <2>1, <2>2, <2>3
<1>5. answer(w) = [at |-> w.at, text |-> w.text]
  OBVIOUS
<1> HIDE DEF answer
<1> QED BY <1>4, <1>5

LEMMA AnswersKept == written' = written => Answers' = Answers
BY DEF Answers

\* The abstract specification speaks of the same messages.
LEMMA SameMessages ==
  /\ LS!Message = Message
  /\ \A m : LS!IsRequest(m) <=> IsRequest(m)
  /\ \A m, u : LS!Syncs(m, u) <=> Syncs(m, u)
  /\ \A log, k, t : LS!AnswerTo(log, k, t) <=> AnswerTo(log, k, t)
  /\ LS!Error = Error /\ LS!Static = Static
<1>1. LS!Message = Message /\ \A m : LS!IsRequest(m) <=> IsRequest(m)
  BY DEF LS!Message, Message, LS!Plain, Plain, LS!Requests, Requests, LS!Broken, Broken,
     LS!IsRequest, IsRequest
<1>2. \A m, u : LS!Syncs(m, u) <=> Syncs(m, u)
  BY DEF LS!Syncs, Syncs
<1>3. \A m : LS!TextAfter(m) = TextAfter(m)
  BY DEF LS!TextAfter, TextAfter
<1>4. LS!Error = Error /\ LS!Static = Static
  BY DEF LS!Error, Error, LS!Static, Static
<1>5. \A log, k, u, t : LS!TextBefore(log, k, u, t) <=> TextBefore(log, k, u, t)
  BY <1>2, <1>3 DEF LS!TextBefore, TextBefore
<1>6. \A log, k, t : LS!AnswerTo(log, k, t) <=> AnswerTo(log, k, t)
  BY <1>4, <1>5 DEF LS!AnswerTo, AnswerTo
<1> QED BY <1>1, <1>2, <1>4, <1>6

LEMMA InitImplements == Init => LS!Init
<1> SUFFICES ASSUME Init PROVE LS!Init
  OBVIOUS
<1>1. Answers = {}
  <2>1. {x \in 1 .. 0 : written[x].op = "reply"} = {}
    OBVIOUS
  <2>2. Len(written) = 0
    BY DEF Init
  <2> QED BY <2>1, <2>2 DEF Answers
<1> QED BY <1>1 DEF Init, LS!Init

\* An answer of the server is an answer of the service, or it is lost.
LEMMA ReplyImplements ==
  ASSUME Inv, sent' = sent, shown' = shown, read < Len(sent),
         IsRequest(sent[read + 1]),
         NEW t \in Texts \cup {NoDoc, Error, Static},
         AnswerTo(sent, read + 1, t),
         Put(Reply(read + 1, t))
  PROVE  [LS!Next]_LS!vars
<1> DEFINE k == read + 1
           w == [op |-> "reply", uri |-> sent[k].uri, at |-> k, text |-> t]
<1>1. /\ sent \in Seq(Message) /\ read \in Nat /\ k \in DOMAIN sent /\ written \in Seq(Out)
      /\ DOMAIN written = 1 .. Len(written)
  BY DEF Inv, TypeOK
<1>2. w \in Out
  <2>1. sent[k].uri \in Uris
    BY <1>1, TextOfMessage
  <2> QED BY <1>1, <2>1 DEF Out
<1>3. CASE written' = written
  BY <1>3 DEF LS!vars, Answers
<1>4. CASE written' = Append(written, w)
  <2>1. Answers' = Answers \cup {[at |-> k, text |-> t]}
    BY <1>1, <1>2, <1>4, AnswersAppend
  <2>2. \A a \in Answers : a.at # k
    <3>1. \A i \in 1 .. Len(written) : written[i].at <= read /\ written[i] \in Out
      BY <1>1, Elements DEF Inv, MadeFromItsText
    <3>2. \A x \in Out : x.at \in Nat
      BY DEF Out
    <3>3. \A i \in 1 .. Len(written) : written[i].at # k
      BY <1>1, <3>1, <3>2
    <3> QED BY <3>3 DEF Answers
  <2>3. \E j \in DOMAIN sent, u \in Texts \cup {NoDoc, Error, Static} :
          /\ IsRequest(sent[j])
          /\ AnswerTo(sent, j, u)
          /\ \A a \in Answers : a.at # j
          /\ Answers' = Answers \cup {[at |-> j, text |-> u]}
    BY <1>1, <2>1, <2>2
  <2> QED BY <2>3, SameMessages DEF LS!Next, LS!Answer
<1> QED BY <1>1, <1>2, <1>3, <1>4, PutIsAppend DEF Reply

\* Diagnostics, or nothing, are no answer.
LEMMA NoReplyImplements ==
  ASSUME Inv, sent' = sent, shown' = shown,
         \/ written' = written
         \/ read < Len(sent) /\ \E t \in Texts \cup {NoDoc} : Put(Diagnostics(read + 1, t))
  PROVE  UNCHANGED LS!vars
<1>1. CASE written' = written
  BY <1>1 DEF LS!vars, Answers
<1>2. ASSUME read < Len(sent), NEW t \in Texts \cup {NoDoc}, Put(Diagnostics(read + 1, t))
      PROVE  UNCHANGED LS!vars
  <2> DEFINE w == [op |-> "diagnostics", uri |-> sent[read + 1].uri, at |-> read + 1, text |-> t]
  <2>1. /\ sent \in Seq(Message) /\ read \in Nat /\ read + 1 \in DOMAIN sent
        /\ written \in Seq(Out)
    BY <1>2 DEF Inv, TypeOK
  <2>2. sent[read + 1].uri \in Uris
    BY <2>1, TextOfMessage
  <2>3. w \in Out
    BY <2>1, <2>2 DEF Out
  <2>4. written' = written \/ written' = Append(written, w)
    BY <1>2, <2>1, <2>3, PutIsAppend DEF Diagnostics
  <2>5. Answers' = Answers
    BY <2>1, <2>3, <2>4, AnswersAppend, <1>1 DEF Answers
  <2> QED BY <2>5 DEF LS!vars
<1> QED BY <1>1, <1>2

LEMMA ServeImplements == Inv /\ Serve => [LS!Next]_LS!vars
<1> SUFFICES ASSUME Inv, Serve PROVE [LS!Next]_LS!vars
  OBVIOUS
<1> DEFINE m == sent[read + 1]
<1>t. sent \in Seq(Message) /\ read \in Nat /\ docs \in [Uris -> Texts \cup {NoDoc}]
  BY DEF Inv, TypeOK
<1>m. ASSUME read < Len(sent)
      PROVE  m \in Message
  BY <1>t, <1>m
<1>1. CASE DidOpen
  <2>1. read < Len(sent) /\ m.op = "didOpen" /\ UNCHANGED editorVars
    BY <1>1 DEF DidOpen, Reading
  <2>2. m.changes[1] \in Texts
    BY <2>1, <1>m, TextOfMessage
  <2> QED BY <1>1, <2>1, <2>2, NoReplyImplements DEF DidOpen, editorVars
<1>2. CASE DidChange
  <2>1. read < Len(sent) /\ m.op = "didChange" /\ UNCHANGED editorVars
    BY <1>2 DEF DidChange, Reading
  <2>2. m.changes # <<>> => m.changes[Len(m.changes)] \in Texts
    BY <2>1, <1>m, TextOfMessage
  <2> QED BY <1>2, <2>1, <2>2, NoReplyImplements DEF DidChange, editorVars
<1>3. CASE DidClose
  <2>1. read < Len(sent) /\ UNCHANGED editorVars
    BY <1>3 DEF DidClose, Reading
  <2> QED BY <1>3, <2>1, NoReplyImplements DEF DidClose, editorVars
<1>4. CASE Respond
  <2>1. read < Len(sent) /\ m.op = "document" /\ UNCHANGED editorVars
    BY <1>4 DEF Respond, Reading
  <2>2. m.uri \in Uris /\ IsRequest(m)
    BY <2>1, <1>m, TextOfMessage DEF IsRequest, Requests
  <2>3. AnswerTo(sent, read + 1, docs[m.uri])
    BY <2>1, <2>2 DEF Inv, DocsFollow, AnswerTo
  <2> QED BY <1>4, <1>t, <2>1, <2>2, <2>3, ReplyImplements DEF Respond, editorVars
<1>5. CASE RespondOther
  <2> DEFINE t == IF m.op = "initialize" THEN Static ELSE Error
  <2>1. /\ read < Len(sent) /\ m.op \in Requests \ {"document"} /\ UNCHANGED editorVars
        /\ Put(Reply(read + 1, t))
    BY <1>5 DEF RespondOther, Reading
  <2>2. IsRequest(m) /\ t \in Texts \cup {NoDoc, Error, Static} /\ AnswerTo(sent, read + 1, t)
    BY <2>1 DEF IsRequest, Requests, AnswerTo
  <2> HIDE DEF t
  <2> QED BY <2>1, <2>2, ReplyImplements DEF editorVars
<1>6. CASE Ignore \/ Exit \/ Fail \/ Return
  BY <1>6, NoReplyImplements DEF Ignore, Exit, Fail, Return, editorVars
<1> QED BY <1>1, <1>2, <1>3, <1>4, <1>5, <1>6 DEF Serve

LEMMA StepImplements == Inv /\ [Next]_vars => [LS!Next]_LS!vars
<1> SUFFICES ASSUME Inv, [Next]_vars PROVE [LS!Next]_LS!vars
  OBVIOUS
<1>1. CASE Write
  <2>1. Answers' = Answers
    BY <1>1, AnswersKept DEF Write, serverVars
  <2>2. shown' = shown /\ \E m \in Message : sent' = Append(sent, m)
    BY <1>1 DEF Write
  <2> QED BY <2>1, <2>2, SameMessages DEF LS!Next, LS!Write
<1>2. CASE Receive
  <2> DEFINE w == written[seen + 1]
  <2>1. /\ written \in Seq(Out) /\ seen \in Nat /\ seen + 1 \in 1 .. Len(written)
        /\ seen + 1 \in seen + 1 .. Len(written) /\ DOMAIN written = 1 .. Len(written)
        /\ sent' = sent /\ written' = written
    BY <1>2 DEF Receive, serverVars, Inv, TypeOK
  <2>2. CASE w.op = "diagnostics"
    <3>1. w.at \in DOMAIN sent /\ Syncs(sent[w.at], w.uri) /\ w \in Out
      BY <2>1, <2>2, Elements DEF Inv, MadeFromItsText, Made
    <3>2. w.uri \in Uris /\ shown[w.uri] < w.at
      BY <2>1, <3>1 DEF Inv, ShownBehind, Out
    <3>3. shown' = [shown EXCEPT ![w.uri] = w.at]
      BY <1>2, <2>2 DEF Receive
    <3>4. Answers' = Answers
      BY <2>1, AnswersKept
    <3> QED BY <2>1, <3>1, <3>2, <3>3, <3>4, SameMessages DEF LS!Next, LS!Refresh
  <2>3. CASE w.op # "diagnostics"
    BY <1>2, <2>1, <2>3 DEF Receive, LS!vars, Answers
  <2> QED BY <2>2, <2>3
<1>3. CASE HangUp \/ UNCHANGED vars
  BY <1>3 DEF HangUp, vars, serverVars, LS!vars, Answers
<1> QED BY <1>1, <1>2, <1>3, ServeImplements DEF Next

\* Whatever the editor sends, however it runs ahead, and whenever it hangs up,
\* the server does what LanguageService promises: every request gets at most
\* one answer, made from the text of its document when it was written, and the
\* diagnostics shown never go back to an older text.
THEOREM Implements == Spec => ServiceSpec
<1>1. LS!Init /\ [][LS!Next]_LS!vars => ServiceSpec
  BY DEF ServiceSpec, LS!Spec
<1> QED BY InitImplements, StepImplements, Invariance, <1>1, PTL DEF Spec
=============================================================================
