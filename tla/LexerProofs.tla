----------------------------- MODULE LexerProofs -----------------------------
(***************************************************************************)
(* The lexer cuts every text, of any length, into tokens that tile it;     *)
(* every comment and line feed is hung on one token, on its line or before *)
(* the next; and the lexer, the analysis and the editor mean the same      *)
(* place by the lines and columns that each of them counts.                *)
(***************************************************************************)
EXTENDS Places, BasicLemmas, SequenceTheorems, FiniteSetTheorems, TLAPS

-----------------------------------------------------------------------------
(* Places of a text. *)

\* Where a set of offsets is first met from p on.
LEMMA FirstMet ==
  ASSUME NEW n \in Nat, NEW p \in 0 .. n, NEW H
  PROVE  \E q \in p .. n : (q = n \/ q \in H) /\ \A r \in p .. q - 1 : r \notin H
<1> DEFINE S == {q \in p .. n : q = n \/ q \in H}
<1>1. S \subseteq Nat /\ n \in S
  OBVIOUS
<1>2. PICK q \in S : \A r \in S : q <= r
  <2> HIDE DEF S
  <2> QED BY <1>1, HasLeast
<1>3. \A r \in p .. q - 1 : r \notin H
  BY <1>2
<1> QED BY <1>2, <1>3

\* An offset at which there is a rune lies before the end of the text.
LEMMA InText ==
  ASSUME NEW s \in Seq(Rune), NEW p \in Nat
  PROVE  /\ p < Len(s) => At(s, p) \in Rune /\ At(s, p) = s[p + 1]
         /\ p >= Len(s) => At(s, p) = EndOfText
         /\ EndOfText \notin Rune
<1>1. EndOfText \notin Rune
  BY DEF EndOfText, Rune, Digit, Letter, Punct, Op, LF, CR, DQ, BT
<1>2. p < Len(s) => s[p + 1] \in Rune
  OBVIOUS
<1> QED BY <1>1, <1>2 DEF At

\* Until stops at the first rune of S, or at the end of the text.
LEMMA UntilStops ==
  ASSUME NEW s \in Seq(Rune), NEW p \in 0 .. Len(s), NEW S
  PROVE  /\ Until(s, p, S) \in p .. Len(s)
         /\ Until(s, p, S) = Len(s) \/ At(s, Until(s, p, S)) \in S
         /\ \A r \in p .. Until(s, p, S) - 1 : At(s, r) \notin S
<1> DEFINE H == {q \in p .. Len(s) : At(s, q) \in S}
<1>1. Len(s) \in Nat
  OBVIOUS
<1>2. PICK q \in p .. Len(s) : (q = Len(s) \/ q \in H) /\ \A r \in p .. q - 1 : r \notin H
  <2> HIDE DEF H
  <2> QED BY <1>1, FirstMet
<1>3. \E x \in p .. Len(s) : /\ x = Len(s) \/ At(s, x) \in S
                             /\ \A r \in p .. x - 1 : ~(At(s, r) \in S)
  BY <1>1, <1>2
<1> QED BY <1>3, Zenon DEF Until, First

\* While stops at the first rune that is not in S, or at the end of the text.
LEMMA WhileStops ==
  ASSUME NEW s \in Seq(Rune), NEW p \in 0 .. Len(s), NEW S
  PROVE  /\ While(s, p, S) \in p .. Len(s)
         /\ \A r \in p .. While(s, p, S) - 1 : At(s, r) \in S
         /\ p < Len(s) /\ At(s, p) \in S => While(s, p, S) \in p + 1 .. Len(s)
<1> DEFINE H == {q \in p .. Len(s) : At(s, q) \notin S}
<1>1. Len(s) \in Nat
  OBVIOUS
<1>2. PICK q \in p .. Len(s) : (q = Len(s) \/ q \in H) /\ \A r \in p .. q - 1 : r \notin H
  <2> HIDE DEF H
  <2> QED BY <1>1, FirstMet
<1>3. \E x \in p .. Len(s) : /\ x = Len(s) \/ At(s, x) \notin S
                             /\ \A r \in p .. x - 1 : ~(At(s, r) \notin S)
  BY <1>1, <1>2
<1>4. /\ While(s, p, S) \in p .. Len(s)
      /\ While(s, p, S) = Len(s) \/ At(s, While(s, p, S)) \notin S
      /\ \A r \in p .. While(s, p, S) - 1 : ~(At(s, r) \notin S)
  BY <1>3, Zenon DEF While, First
<1>5. p < Len(s) /\ At(s, p) \in S => While(s, p, S) # p
  BY <1>4
<1> QED BY <1>1, <1>4, <1>5

-----------------------------------------------------------------------------
(* Lines and columns. *)

\* The greatest of some offsets is the one that none exceeds.
LEMMA GreatestIs ==
  ASSUME NEW N \in Nat, NEW S, S \subseteq 0 .. N, NEW m \in S, \A j \in S : j <= m
  PROVE  Greatest(S) = m
<1>1. Greatest(S) \in S /\ \A j \in S : j <= Greatest(S)
  <2>1. \E i \in S : \A j \in S : j <= i
    OBVIOUS
  <2> QED BY <2>1, Zenon DEF Greatest
<1>2. \A x \in S : (\A j \in S : j <= x) => x = m
  <2>1. \A x \in S : x \in Nat
    OBVIOUS
  <2> QED BY <2>1
<1> QED BY <1>1, <1>2, Zenon

\* There are as many successors of some offsets as offsets.
LEMMA Successors ==
  ASSUME NEW N \in Nat, NEW B, B \subseteq 0 .. N
  PROVE  /\ IsFiniteSet(B) /\ IsFiniteSet({i + 1 : i \in B})
         /\ Cardinality({i + 1 : i \in B}) = Cardinality(B)
         /\ Cardinality(B) \in Nat
<1> DEFINE T == {i + 1 : i \in B}
           f == [i \in B |-> i + 1]
<1>1. IsFiniteSet(B)
  <2>1. IsFiniteSet(0 .. N)
    BY FS_Interval
  <2> QED BY <2>1, FS_Subset
<1>2. f \in [B -> T] /\ \A i \in B : f[i] = i + 1
  OBVIOUS
<1>3. \A i, j \in B : f[i] = f[j] => i = j
  <2>1. \A i \in B : i \in Nat
    OBVIOUS
  <2> HIDE DEF f
  <2> QED BY <1>2, <2>1
<1>4. \A y \in T : \E i \in B : f[i] = y
  BY <1>2
<1>5. f \in Bijection(B, T)
  <2> HIDE DEF f, T
  <2>1. f \in Injection(B, T)
    BY <1>2, <1>3 DEF Injection, IsInjective
  <2>2. f \in Surjection(B, T)
    BY <1>2, <1>4 DEF Surjection
  <2> QED BY <2>1, <2>2 DEF Bijection
<1>6. ExistsBijection(B, T)
  BY <1>5 DEF ExistsBijection
<1> HIDE DEF T
<1>7. IsFiniteSet(T) /\ Cardinality(T) = Cardinality(B)
  BY <1>1, <1>6, FS_Bijection
<1> QED BY <1>1, <1>7, FS_CardinalityType DEF T

\* From a place that the analysis computes for p, Forward gets to the one that
\* it computes for q: the line feeds in between start the lines in between.
LEMMA ForwardAgrees ==
  ASSUME NEW s \in Seq(Rune), NEW p \in 0 .. Len(s), NEW q \in p .. Len(s)
  PROVE  /\ Forward(s, OffsetToPosition(s, p), p, q) = OffsetToPosition(s, q)
         /\ OffsetToPosition(s, p).line \in Nat
         /\ OffsetToPosition(s, p).col \in Nat
<1> DEFINE before(x) == {l \in LineOffsets(s) : l <= x}
           B == {i \in p .. q - 1 : At(s, i) = LF}
           T == {i + 1 : i \in B}
<1>1. Len(s) \in Nat /\ p \in Nat /\ q \in Nat /\ p <= q /\ q <= Len(s)
  OBVIOUS
<1>2. \A x \in 0 .. Len(s) : before(x) \subseteq 0 .. x /\ 0 \in before(x)
  BY <1>1 DEF LineOffsets
<1>3. B \subseteq 0 .. Len(s)
  BY <1>1
<1>4. before(q) = before(p) \cup T
  <2>1. ASSUME NEW x \in before(q), x \notin before(p)
        PROVE  x \in T
    <3>1. x \in 1 .. Len(s) /\ s[x] = LF /\ x <= q /\ x > p
      BY <1>1, <2>1 DEF LineOffsets
    <3>2. x - 1 \in p .. q - 1 /\ At(s, x - 1) = LF
      BY <1>1, <3>1 DEF At
    <3> QED BY <3>1, <3>2
  <2>2. ASSUME NEW i \in B
        PROVE  i + 1 \in before(q)
    <3>1. i \in Nat /\ i < Len(s) /\ s[i + 1] = LF /\ i + 1 <= q
      BY <1>1, <2>2 DEF At
    <3> QED BY <3>1, <1>1 DEF LineOffsets
  <2>3. before(p) \subseteq before(q)
    BY <1>1, <1>2
  <2> QED BY <2>1, <2>2, <2>3
<1>5. before(p) \cap T = {}
  BY <1>1, <1>2
<1>6. /\ IsFiniteSet(before(p)) /\ Cardinality(before(p)) \in Nat
      /\ Cardinality(before(p)) >= 1
  <2>1. IsFiniteSet(0 .. p)
    BY FS_Interval
  <2>2. IsFiniteSet(before(p)) /\ 0 \in before(p)
    BY <1>1, <1>2, <2>1, FS_Subset
  <2>3. before(p) # {}
    BY <2>2
  <2> HIDE DEF before
  <2>4. Cardinality(before(p)) \in Nat /\ Cardinality(before(p)) # 0
    BY <2>2, <2>3, FS_CardinalityType, FS_EmptySet
  <2> QED BY <2>2, <2>4
<1>7. Cardinality(before(q)) = Cardinality(before(p)) + Cardinality(B) /\ Cardinality(B) \in Nat
  <2> HIDE DEF before, B
  <2>1. IsFiniteSet(T) /\ Cardinality(T) = Cardinality(B) /\ Cardinality(B) \in Nat
    BY <1>1, <1>3, Successors
  <2> HIDE DEF T
  <2>2. Cardinality(before(q)) =
          Cardinality(before(p)) + Cardinality(T) - Cardinality(before(p) \cap T)
    BY <1>4, <1>6, <2>1, FS_Union
  <2>3. Cardinality(before(p) \cap T) = 0
    BY <1>5, FS_EmptySet
  <2> QED BY <1>6, <2>1, <2>2, <2>3
<1>8. PICK g \in before(p) : \A l \in before(p) : l <= g
  <2> HIDE DEF before
  <2> QED BY <1>1, <1>2, HasGreatest
<1>9. g \in 0 .. p /\ Greatest(before(p)) = g
  <2> HIDE DEF before
  <2> QED BY <1>1, <1>2, <1>8, GreatestIs
<1>10. OffsetToPosition(s, p) = [line |-> Cardinality(before(p)) - 1, col |-> p - g]
  BY <1>9 DEF OffsetToPosition
<1>11. Forward(s, OffsetToPosition(s, p), p, q) =
         [line |-> (Cardinality(before(p)) - 1) + Cardinality(B),
          col  |-> IF B = {} THEN (p - g) + (q - p) ELSE q - 1 - Greatest(B)]
  BY <1>10 DEF Forward
<1>12. OffsetToPosition(s, q) = [line |-> Cardinality(before(q)) - 1,
                                 col  |-> q - Greatest(before(q))]
  BY DEF OffsetToPosition
<1>1a. (IF B = {} THEN (p - g) + (q - p) ELSE q - 1 - Greatest(B)) = q - Greatest(before(q))
  <2>1. CASE B = {}
    <3>1. before(q) = before(p)
      BY <1>4, <2>1
    <3> HIDE DEF before, B
    <3> QED BY <1>1, <1>9, <2>1, <3>1
  <2>2. CASE B # {}
    <3>1. PICK b \in B : \A i \in B : i <= b
      <4> HIDE DEF B
      <4> QED BY <1>1, <1>3, <2>2, HasGreatest
    <3>2. Greatest(B) = b /\ b \in p .. q - 1
      <4>1. b \in p .. q - 1
        OBVIOUS
      <4> HIDE DEF B
      <4> QED BY <1>1, <1>3, <3>1, <4>1, GreatestIs
    <3>3. b + 1 \in before(q)
      BY <1>4, <3>1
    <3>4. \A l \in before(q) : l <= b + 1
      <4>1. \A l \in before(p) : l <= b + 1
        BY <1>1, <1>2, <3>2
      <4>2. \A l \in T : l <= b + 1
        BY <3>1
      <4> HIDE DEF before, T
      <4> QED BY <1>4, <4>1, <4>2
    <3>5. Greatest(before(q)) = b + 1
      <4> HIDE DEF before
      <4> QED BY <1>1, <1>2, <3>3, <3>4, GreatestIs
    <3> HIDE DEF before, B
    <3> QED BY <1>1, <2>2, <3>2, <3>5
  <2> QED BY <2>1, <2>2
<1> HIDE DEF before, B
<1>14. Forward(s, OffsetToPosition(s, p), p, q) = OffsetToPosition(s, q)
  <2>1. (Cardinality(before(p)) - 1) + Cardinality(B) = Cardinality(before(q)) - 1
    BY <1>6, <1>7
  <2> QED BY <1>11, <1>12, <1>1a, <2>1
<1>15. OffsetToPosition(s, p).line \in Nat /\ OffsetToPosition(s, p).col \in Nat
  <2>1. Cardinality(before(p)) - 1 \in Nat /\ p - g \in Nat
    BY <1>1, <1>6, <1>9
  <2> QED BY <1>10, <2>1
<1> QED BY <1>14, <1>15

-----------------------------------------------------------------------------
(* The invariant. *)

\* The lexer's line and column are the place of its offset.
Counted == [line |-> line, col |-> col] = OffsetToPosition(src, pos)

Typed ==
  /\ src \in Texts
  /\ pos \in 0 .. Len(src)
  /\ line \in Nat /\ col \in Nat
  /\ raw \in Seq(RawToken)
  /\ errors \subseteq 0 .. Len(src)

\* A token without an error, from p to q, has its delimiter at both ends only.
CleanCut(kind, p, q) ==
  kind \in DOMAIN Delimiter =>
    LET d == Delimiter[kind]
        close == q - Len(d)
    IN  /\ p + Len(d) <= close
        /\ Occurs(d, p) /\ Occurs(d, close)
        /\ \A r \in p + Len(d) .. close - 1 : ~Occurs(d, r)

CleanCuts ==
  \A i \in DOMAIN raw :
    raw[i].start \notin errors => CleanCut(raw[i].kind, raw[i].start, raw[i].end)

LInv == Typed /\ Counted /\ Tiles /\ AgreesWithOffsets /\ CleanCuts

LEMMA CleanCutsAreDelimited == CleanCuts <=> Delimited
BY DEF CleanCuts, CleanCut, Delimited

LEMMA SourceIsText == ASSUME Typed PROVE src \in Seq(Rune) /\ pos \in Nat /\ Len(src) \in Nat
BY TextsAssumption DEF Typed

\* Cutting a token that is not empty, in the text, and whose delimiters are
\* right unless an error is reported, keeps the invariant.
LEMMA EmitKeeps ==
  ASSUME LInv, NEW kind \in Kind, NEW q \in pos .. Len(src), NEW ok \in BOOLEAN,
         kind = "eof" \/ pos < q, ok => CleanCut(kind, pos, q), Emit(kind, q, ok)
  PROVE  LInv'
<1> DEFINE new == [kind |-> kind, start |-> pos, end |-> q, line |-> line, col |-> col]
<1>1. /\ src \in Seq(Rune) /\ pos \in 0 .. Len(src) /\ Len(src) \in Nat
      /\ line \in Nat /\ col \in Nat /\ raw \in Seq(RawToken)
  BY SourceIsText DEF LInv, Typed
<1>2. /\ raw' = Append(raw, new) /\ pos' = q /\ src' = src
      /\ errors \subseteq errors' /\ (~ok => pos \in errors')
      /\ errors' \subseteq errors \cup {pos}
      /\ line' = Forward(src, [line |-> line, col |-> col], pos, q).line
      /\ col' = Forward(src, [line |-> line, col |-> col], pos, q).col
  BY DEF Emit
<1>3. new \in RawToken
  BY <1>1 DEF RawToken
<1> HIDE DEF new
<1>4. /\ raw' \in Seq(RawToken) /\ Len(raw') = Len(raw) + 1 /\ Len(raw) \in Nat
      /\ \A i \in 1 .. Len(raw) : raw'[i] = raw[i]
      /\ raw'[Len(raw) + 1] = new
      /\ DOMAIN raw' = 1 .. Len(raw) + 1 /\ DOMAIN raw = 1 .. Len(raw)
  BY <1>1, <1>2, <1>3
<1>5. /\ new.kind = kind /\ new.start = pos /\ new.end = q
      /\ new.line = line /\ new.col = col
  BY DEF new
<1>6. /\ Forward(src, [line |-> line, col |-> col], pos, q) = OffsetToPosition(src, q)
      /\ OffsetToPosition(src, q).line \in Nat /\ OffsetToPosition(src, q).col \in Nat
  <2>1. [line |-> line, col |-> col] = OffsetToPosition(src, pos)
    BY DEF LInv, Counted
  <2>2. q \in q .. Len(src) /\ q \in 0 .. Len(src)
    BY <1>1
  <2> QED BY <1>1, <2>1, <2>2, ForwardAgrees
<1>7. Typed'
  <2>1. src' \in Texts /\ pos' \in 0 .. Len(src') /\ errors' \subseteq 0 .. Len(src')
    BY <1>1, <1>2 DEF LInv, Typed
  <2> QED BY <1>2, <1>4, <1>6, <2>1 DEF Typed
<1>8. Counted'
  <2>1. OffsetToPosition(src, q) = [line |-> OffsetToPosition(src, q).line,
                                    col |-> OffsetToPosition(src, q).col]
    BY DEF OffsetToPosition
  <2>2. [line |-> line', col |-> col'] = OffsetToPosition(src', pos')
    BY <1>2, <1>6, <2>1
  <2> QED BY <2>2 DEF Counted
<1>9. Tiles'
  <2>1. raw' # << >> /\ raw'[1].start = 0 /\ raw'[Len(raw')].end = pos'
    <3>1. CASE raw = << >>
      BY <1>2, <1>4, <1>5, <3>1 DEF LInv, Tiles
    <3>2. CASE raw # << >>
      BY <1>1, <1>2, <1>4, <1>5, <3>2, SMTT(20) DEF LInv, Tiles
    <3> QED BY <3>1, <3>2
  <2>2. ASSUME NEW i \in 1 .. Len(raw) + 1
        PROVE  /\ i > 1 => raw'[i].start = raw'[i - 1].end
               /\ raw'[i].kind # "eof" => raw'[i].start < raw'[i].end
    <3>1. CASE i \in 1 .. Len(raw)
      <4>1. i > 1 => i - 1 \in 1 .. Len(raw)
        BY <1>4, <3>1
      <4>2. /\ i > 1 => raw[i].start = raw[i - 1].end
            /\ raw[i].kind # "eof" => raw[i].start < raw[i].end
        BY <1>4, <3>1 DEF LInv, Tiles
      <4> QED BY <1>4, <3>1, <4>1, <4>2
    <3>2. CASE i = Len(raw) + 1
      <4>1. raw'[i] = new
        BY <1>4, <3>2
      <4>2. i > 1 => raw'[i - 1] = raw[Len(raw)] /\ raw[Len(raw)].end = pos
        BY <1>1, <1>4, <3>2 DEF LInv, Tiles
      <4>3. new.kind # "eof" => new.start < new.end
        BY <1>5
      <4> QED BY <1>5, <4>1, <4>2, <4>3
    <3> QED BY <1>4, <3>1, <3>2
  <2>3. \A i \in DOMAIN raw' : /\ i > 1 => raw'[i].start = raw'[i - 1].end
                               /\ raw'[i].kind # "eof" => raw'[i].start < raw'[i].end
    BY <1>4, <2>2
  <2> QED BY <2>1, <2>3, Zenon DEF Tiles
<1>10. AgreesWithOffsets'
  <2>1. ASSUME NEW i \in 1 .. Len(raw) + 1
        PROVE  [line |-> raw'[i].line, col |-> raw'[i].col] = OffsetToPosition(src', raw'[i].start)
    <3>1. CASE i \in 1 .. Len(raw)
      BY <1>2, <1>4, <3>1 DEF LInv, AgreesWithOffsets
    <3>2. CASE i = Len(raw) + 1
      BY <1>2, <1>4, <1>5, <3>2 DEF LInv, Counted
    <3> QED BY <1>4, <3>1, <3>2
  <2> QED BY <1>4, <2>1 DEF AgreesWithOffsets
<1>11. CleanCuts'
  <2>1. \A k, a, b : CleanCut(k, a, b) <=> CleanCut(k, a, b)'
    BY <1>2 DEF CleanCut, Occurs, Delimiter, At
  <2>2. ASSUME NEW i \in 1 .. Len(raw) + 1, raw'[i].start \notin errors'
        PROVE  CleanCut(raw'[i].kind, raw'[i].start, raw'[i].end)
    <3>1. CASE i \in 1 .. Len(raw)
      BY <1>2, <1>4, <2>2, <3>1 DEF LInv, CleanCuts
    <3>2. CASE i = Len(raw) + 1
      BY <1>2, <1>4, <1>5, <2>2, <3>2
    <3> QED BY <1>4, <3>1, <3>2
  <2> QED BY <1>4, <2>1, <2>2 DEF CleanCuts
<1> QED BY <1>7, <1>8, <1>9, <1>10, <1>11 DEF LInv

-----------------------------------------------------------------------------
(* The ways to cut a token keep the invariant. *)

LEMMA RunesApart ==
  /\ EndOfText # " " /\ EndOfText # LF /\ EndOfText # CR /\ EndOfText # "'" /\ EndOfText # DQ
  /\ EndOfText # BT /\ EndOfText # "#" /\ EndOfText # "/" /\ EndOfText # "?" /\ EndOfText # "*"
  /\ EndOfText # "+" /\ EndOfText # "-" /\ EndOfText # "." /\ EndOfText # "e" /\ EndOfText # ">" /\ EndOfText # "<"
  /\ EndOfText \notin Digit /\ EndOfText \notin Letter /\ EndOfText \notin Punct
  /\ EndOfText \notin Op
BY DEF EndOfText, LF, CR, DQ, BT, Digit, Letter, Punct, Op

\* The text goes on where there is a rune.
LEMMA Room ==
  ASSUME NEW s \in Seq(Rune), NEW p \in Nat, At(s, p) # EndOfText
  PROVE  p \in 0 .. Len(s) /\ p + 1 \in 0 .. Len(s) /\ p < p + 1
<1>1. ~(p >= Len(s)) /\ Len(s) \in Nat
  BY InText
<1> QED BY <1>1

\* Where the lexer sees a rune it may take it.
LEMMA MayTake ==
  ASSUME Typed
  PROVE  /\ pos \in Nat /\ Len(src) \in Nat /\ pos <= Len(src)
         /\ Here # EndOfText => pos + 1 <= Len(src)
         /\ Peek # EndOfText => pos + 2 <= Len(src)
<1>1. src \in Seq(Rune) /\ pos \in 0 .. Len(src) /\ Len(src) \in Nat
  BY SourceIsText DEF Typed
<1>2. At(src, pos) # EndOfText => pos + 1 \in 0 .. Len(src)
  BY <1>1, Room
<1>3. At(src, pos + 1) # EndOfText => pos + 1 + 1 \in 0 .. Len(src)
  <2>1. pos + 1 \in Nat
    BY <1>1
  <2> QED BY <1>1, <2>1, Room
<1> QED BY <1>1, <1>2, <1>3 DEF Here, Peek

LEMMA KindsApart ==
  /\ {"string", "long-string", "quoted", "func-expr", "color", "numeric", "identifier",
      "op", "punct", "eof", "space", "newline", "line-comment", "block-comment"} \subseteq Kind
  /\ DOMAIN Delimiter = {"string", "long-string", "quoted", "func-expr"}
  /\ Delimiter["string"] = <<"'">> /\ Delimiter["long-string"] = <<"'", "'", "'">>
  /\ Delimiter["quoted"] = <<DQ>> /\ Delimiter["func-expr"] = <<BT>>
BY DEF Kind, TriviaKind, Delimiter

\* A delimiter of one rune.
LEMMA OneRune ==
  ASSUME NEW x, NEW p \in Nat
  PROVE  Len(<<x>>) = 1 /\ (Occurs(<<x>>, p) <=> At(src, p) = x)
<1>1. p + 1 - 1 = p
  OBVIOUS
<1> QED BY <1>1 DEF Occurs

LEMMA ThreeRunes ==
  ASSUME NEW p \in Nat
  PROVE  /\ Len(<<"'", "'", "'">>) = 3
         /\ Occurs(<<"'", "'", "'">>, p) <=> Triple(src, p)
<1> DEFINE d == <<"'", "'", "'">>
<1>1. Occurs(d, p) <=> At(src, p + 1 - 1) = "'" /\ At(src, p + 2 - 1) = "'" /\ At(src, p + 3 - 1) = "'"
  <2>1. DOMAIN d = {1, 2, 3} /\ d[1] = "'" /\ d[2] = "'" /\ d[3] = "'"
    OBVIOUS
  <2> HIDE DEF d
  <2> QED BY <2>1 DEF Occurs
<1>2. p + 1 - 1 = p /\ p + 2 - 1 = p + 1 /\ p + 3 - 1 = p + 2
  OBVIOUS
<1>3. Len(d) = 3
  OBVIOUS
<1> QED BY <1>1, <1>2, <1>3, Zenon DEF Triple

\* A text that lies between two of one delimiter, and holds no other.
LEMMA BetweenOne ==
  ASSUME Typed, NEW x, NEW kind, kind \in DOMAIN Delimiter, Delimiter[kind] = <<x>>,
         At(src, pos) = x, NEW close \in pos + 1 .. Len(src), At(src, close) = x,
         \A r \in pos + 1 .. close - 1 : At(src, r) # x
  PROVE  CleanCut(kind, pos, close + 1)
<1>1. pos \in Nat /\ close \in Nat /\ close + 1 - 1 = close /\ pos + 1 <= close
  BY SourceIsText
<1>2. Len(<<x>>) = 1 /\ Occurs(<<x>>, pos) /\ Occurs(<<x>>, close)
  BY <1>1, OneRune
<1>3. \A r \in pos + 1 .. close - 1 : ~Occurs(<<x>>, r)
  <2>1. \A r \in pos + 1 .. close - 1 : r \in Nat
    BY <1>1
  <2> QED BY <2>1, OneRune
<1> QED BY <1>1, <1>2, <1>3 DEF CleanCut

LEMMA SpaceKeeps == ASSUME LInv, Space PROVE LInv'
<1>1. Typed /\ Here # EndOfText
  BY RunesApart DEF LInv, Space
<1>2. pos + 1 \in pos .. Len(src) /\ pos < pos + 1
  BY <1>1, MayTake
<1>3. CleanCut("space", pos, pos + 1)
  BY KindsApart DEF CleanCut
<1> QED BY <1>2, <1>3, EmitKeeps, KindsApart DEF Space

LEMMA NewlineKeeps == ASSUME LInv, Newline PROVE LInv'
<1>1. Typed /\ Here # EndOfText
  BY RunesApart DEF LInv, Newline
<1>2. \A q : CleanCut("newline", pos, q)
  BY KindsApart DEF CleanCut
<1>3. \/ Emit("newline", pos + 1, TRUE)
      \/ Peek # EndOfText /\ Emit("newline", pos + 2, TRUE)
  <2>1. Peek = LF => Peek # EndOfText
    BY RunesApart
  <2> QED BY <2>1 DEF Newline
<1>4. CASE Emit("newline", pos + 1, TRUE)
  <2>1. pos + 1 \in pos .. Len(src) /\ pos < pos + 1
    BY <1>1, MayTake
  <2> QED BY <1>2, <1>4, <2>1, EmitKeeps, KindsApart
<1>5. CASE Peek # EndOfText /\ Emit("newline", pos + 2, TRUE)
  <2>1. pos + 2 \in pos .. Len(src) /\ pos < pos + 2
    BY <1>1, <1>5, MayTake
  <2> QED BY <1>2, <1>5, <2>1, EmitKeeps, KindsApart
<1> QED BY <1>3, <1>4, <1>5

LEMMA LineCommentKeeps == ASSUME LInv, LineComment PROVE LInv'
<1> DEFINE q == Until(src, pos + 2, {LF})
<1>1. Typed /\ src \in Seq(Rune) /\ pos \in Nat
  BY SourceIsText DEF LInv
<1>2. pos + 2 \in 0 .. Len(src)
  <2>1. Peek # EndOfText
    BY RunesApart DEF LineComment
  <2> QED BY <1>1, <2>1, MayTake
<1>3. q \in pos .. Len(src) /\ pos < q
  BY <1>1, <1>2, UntilStops
<1>4. CleanCut("line-comment", pos, q)
  BY KindsApart DEF CleanCut
<1> HIDE DEF q
<1>5. Emit("line-comment", q, TRUE)
  BY DEF LineComment, q
<1> QED BY <1>3, <1>4, <1>5, EmitKeeps, KindsApart

LEMMA BlockCommentKeeps == ASSUME LInv, BlockComment PROVE LInv'
<1> DEFINE H == {q \in pos + 2 .. Len(src) : At(src, q) = "*" /\ At(src, q + 1) = "/"}
           close == First(src, pos + 2, LAMBDA q : At(src, q) = "*" /\ At(src, q + 1) = "/")
<1>1. Typed /\ src \in Seq(Rune) /\ pos \in Nat /\ Len(src) \in Nat
  BY SourceIsText DEF LInv
<1>2. pos + 2 \in 0 .. Len(src)
  <2>1. Peek # EndOfText
    BY RunesApart DEF BlockComment
  <2> QED BY <1>1, <2>1, MayTake
<1>3. close \in pos + 2 .. Len(src) /\ (close = Len(src) \/ At(src, close + 1) = "/")
  <2>1. PICK q \in pos + 2 .. Len(src) : (q = Len(src) \/ q \in H) /\ \A r \in pos + 2 .. q - 1 : r \notin H
    <3> HIDE DEF H
    <3> QED BY <1>1, <1>2, FirstMet, ZenonT(40)
  <2>2. \E x \in pos + 2 .. Len(src) :
          /\ x = Len(src) \/ (At(src, x) = "*" /\ At(src, x + 1) = "/")
          /\ \A r \in pos + 2 .. x - 1 : ~(At(src, r) = "*" /\ At(src, r + 1) = "/")
    BY <1>1, <2>1
  <2> QED BY <2>2, Zenon DEF First
<1>4. close < Len(src) => close + 2 \in pos .. Len(src)
  <2>1. SUFFICES ASSUME close < Len(src) PROVE close + 2 \in pos .. Len(src)
    OBVIOUS
  <2>2. close + 1 \in Nat /\ At(src, close + 1) = "/"
    BY <1>1, <1>3, <2>1
  <2>3. close + 1 + 1 \in 0 .. Len(src)
    BY <1>1, <2>2, RunesApart, Room
  <2> QED BY <1>1, <1>3, <2>3
<1>5. \A q : CleanCut("block-comment", pos, q)
  BY KindsApart DEF CleanCut
<1>6. \/ close < Len(src) /\ Emit("block-comment", close + 2, TRUE)
      \/ Emit("block-comment", close, FALSE)
  BY Zenon DEF BlockComment
<1> HIDE DEF close
<1>7. PICK q \in pos .. Len(src), ok \in BOOLEAN : pos < q /\ Emit("block-comment", q, ok)
  <2>1. close \in pos .. Len(src) /\ pos < close /\ pos < close + 2
    BY <1>1, <1>3
  <2> QED BY <1>4, <1>6, <2>1
<1> QED BY <1>5, <1>7, EmitKeeps, KindsApart

LEMMA StringKeeps == ASSUME LInv, String PROVE LInv'
<1> DEFINE close == Until(src, pos + 1, {"'", LF})
<1>1. Typed /\ src \in Seq(Rune) /\ Here = "'" /\ At(src, pos) = "'"
  BY SourceIsText DEF LInv, String, Here
<1>2. pos \in Nat /\ pos + 1 \in 0 .. Len(src)
  <2>1. Here # EndOfText
    BY <1>1, RunesApart
  <2> QED BY <1>1, <2>1, MayTake
<1>3. /\ close \in pos + 1 .. Len(src)
      /\ \A r \in pos + 1 .. close - 1 : At(src, r) \notin {"'", LF}
  BY <1>1, <1>2, UntilStops
<1> HIDE DEF close
<1>4. \/ At(src, close) = "'" /\ Emit("string", close + 1, TRUE)
      \/ Emit("string", close, FALSE)
  BY DEF String, close
<1>5. CASE At(src, close) = "'" /\ Emit("string", close + 1, TRUE)
  <2>1. CleanCut("string", pos, close + 1)
    BY <1>1, <1>3, <1>5, BetweenOne, KindsApart
  <2>2. At(src, close) # EndOfText
    BY <1>5, RunesApart
  <2>3. close + 1 \in pos .. Len(src) /\ pos < close + 1
    <3>1. close \in Nat
      BY <1>2, <1>3
    <3> QED BY <1>1, <1>2, <1>3, <2>2, <3>1, Room
  <2> QED BY <1>5, <2>1, <2>3, EmitKeeps, KindsApart
<1>6. CASE Emit("string", close, FALSE)
  <2>1. close \in pos .. Len(src) /\ pos < close
    BY <1>2, <1>3
  <2> QED BY <1>6, <2>1, EmitKeeps, KindsApart
<1> QED BY <1>4, <1>5, <1>6

LEMMA QuotedKeeps == ASSUME LInv, Quoted PROVE LInv'
<1> DEFINE close == Until(src, pos + 1, {DQ, LF})
<1>1. Typed /\ src \in Seq(Rune) /\ Here = DQ /\ At(src, pos) = DQ
  BY SourceIsText DEF LInv, Quoted, Here
<1>2. pos \in Nat /\ pos + 1 \in 0 .. Len(src)
  <2>1. Here # EndOfText
    BY <1>1, RunesApart
  <2> QED BY <1>1, <2>1, MayTake
<1>3. /\ close \in pos + 1 .. Len(src)
      /\ \A r \in pos + 1 .. close - 1 : At(src, r) \notin {DQ, LF}
  BY <1>1, <1>2, UntilStops
<1> HIDE DEF close
<1>4. \/ At(src, close) = DQ /\ Emit("quoted", close + 1, TRUE)
      \/ Emit("quoted", close, FALSE)
  BY DEF Quoted, close
<1>5. CASE At(src, close) = DQ /\ Emit("quoted", close + 1, TRUE)
  <2>1. CleanCut("quoted", pos, close + 1)
    BY <1>1, <1>3, <1>5, BetweenOne, KindsApart
  <2>2. At(src, close) # EndOfText
    BY <1>5, RunesApart
  <2>3. close + 1 \in pos .. Len(src) /\ pos < close + 1
    <3>1. close \in Nat
      BY <1>2, <1>3
    <3> QED BY <1>1, <1>2, <1>3, <2>2, <3>1, Room
  <2> QED BY <1>5, <2>1, <2>3, EmitKeeps, KindsApart
<1>6. CASE Emit("quoted", close, FALSE)
  <2>1. close \in pos .. Len(src) /\ pos < close
    BY <1>2, <1>3
  <2> QED BY <1>6, <2>1, EmitKeeps, KindsApart
<1> QED BY <1>4, <1>5, <1>6

LEMMA FuncExprKeeps == ASSUME LInv, FuncExpr PROVE LInv'
<1> DEFINE close == Until(src, pos + 1, {BT})
<1>1. Typed /\ src \in Seq(Rune) /\ Here = BT /\ At(src, pos) = BT /\ Len(src) \in Nat
  BY SourceIsText DEF LInv, FuncExpr, Here
<1>2. pos \in Nat /\ pos + 1 \in 0 .. Len(src)
  <2>1. Here # EndOfText
    BY <1>1, RunesApart
  <2> QED BY <1>1, <2>1, MayTake
<1>3. /\ close \in pos + 1 .. Len(src)
      /\ close = Len(src) \/ At(src, close) \in {BT}
      /\ \A r \in pos + 1 .. close - 1 : At(src, r) \notin {BT}
  BY <1>1, <1>2, UntilStops
<1> HIDE DEF close
<1>4. \/ close < Len(src) /\ Emit("func-expr", close + 1, TRUE)
      \/ Emit("func-expr", close, FALSE)
  BY DEF FuncExpr, close
<1>5. CASE close < Len(src) /\ Emit("func-expr", close + 1, TRUE)
  <2>1. At(src, close) = BT
    BY <1>1, <1>3, <1>5
  <2>2. CleanCut("func-expr", pos, close + 1)
    BY <1>1, <1>3, <2>1, BetweenOne, KindsApart
  <2>3. close + 1 \in pos .. Len(src) /\ pos < close + 1
    BY <1>1, <1>2, <1>3, <1>5
  <2> QED BY <1>5, <2>2, <2>3, EmitKeeps, KindsApart
<1>6. CASE Emit("func-expr", close, FALSE)
  <2>1. close \in pos .. Len(src) /\ pos < close
    BY <1>2, <1>3
  <2> QED BY <1>6, <2>1, EmitKeeps, KindsApart
<1> QED BY <1>4, <1>5, <1>6

LEMMA LongStringKeeps == ASSUME LInv, LongString PROVE LInv'
<1> DEFINE H == {q \in pos + 3 .. Len(src) : Triple(src, q)}
           close == First(src, pos + 3, LAMBDA q : Triple(src, q))
           d == Delimiter["long-string"]
<1>1. Typed /\ src \in Seq(Rune) /\ pos \in Nat /\ Len(src) \in Nat /\ Triple(src, pos)
  BY SourceIsText DEF LInv, LongString
<1>2. \A p \in Nat : Triple(src, p) => p + 3 \in 0 .. Len(src)
  <2>1. ASSUME NEW p \in Nat, Triple(src, p)
        PROVE  p + 3 \in 0 .. Len(src)
    <3>1. At(src, p + 2) # EndOfText
      BY <2>1, RunesApart DEF Triple
    <3>2. p + 2 + 1 \in 0 .. Len(src)
      <4>1. p + 2 \in Nat
        OBVIOUS
      <4> QED BY <1>1, <3>1, <4>1, Room
    <3> QED BY <3>2
  <2> QED BY <2>1
<1>3. /\ close \in pos + 3 .. Len(src)
      /\ close = Len(src) \/ Triple(src, close)
      /\ \A r \in pos + 3 .. close - 1 : ~Triple(src, r)
  <2>1. PICK q \in pos + 3 .. Len(src) :
          (q = Len(src) \/ q \in H) /\ \A r \in pos + 3 .. q - 1 : r \notin H
    <3>1. pos + 3 \in 0 .. Len(src)
      BY <1>1, <1>2
    <3> HIDE DEF H
    <3> QED BY <1>1, <3>1, FirstMet, ZenonT(40)
  <2>2. \E x \in pos + 3 .. Len(src) :
          /\ x = Len(src) \/ Triple(src, x)
          /\ \A r \in pos + 3 .. x - 1 : ~Triple(src, r)
    BY <1>1, <2>1
  <2> QED BY <2>2, Zenon DEF First
<1>4. \/ close < Len(src) /\ Emit("long-string", close + 3, TRUE)
      \/ Emit("long-string", close, FALSE)
  BY Zenon DEF LongString
<1> HIDE DEF close, d
<1>5. CASE close < Len(src) /\ Emit("long-string", close + 3, TRUE)
  <2>1. close \in Nat /\ Triple(src, close) /\ close + 3 - 3 = close /\ pos + 3 <= close
    BY <1>1, <1>3, <1>5
  <2>2. close + 3 \in pos .. Len(src) /\ pos < close + 3
    BY <1>1, <1>2, <2>1
  <2>3. Len(d) = 3 /\ \A p \in Nat : Occurs(d, p) <=> Triple(src, p)
    BY ThreeRunes, KindsApart DEF d
  <2>4. \A r \in pos + 3 .. close - 1 : ~Occurs(d, r)
    BY <1>1, <1>3, <2>3
  <2>5. CleanCut("long-string", pos, close + 3)
    BY <1>1, <2>1, <2>3, <2>4 DEF CleanCut, d
  <2> QED BY <1>5, <2>2, <2>5, EmitKeeps, KindsApart
<1>6. CASE Emit("long-string", close, FALSE)
  <2>1. close \in pos .. Len(src) /\ pos < close
    BY <1>1, <1>3
  <2> QED BY <1>6, <2>1, EmitKeeps, KindsApart
<1> QED BY <1>4, <1>5, <1>6

\* No delimiter is asked of the other kinds of token.
LEMMA NoDelimiter ==
  ASSUME NEW kind \in {"color", "numeric", "identifier", "op", "punct", "eof"}, NEW q
  PROVE  CleanCut(kind, pos, q) /\ kind \in Kind
BY KindsApart DEF CleanCut

LEMMA ColorKeeps == ASSUME LInv, Color PROVE LInv'
<1> DEFINE q == While(src, pos + 1, Hex)
<1>1. Typed /\ src \in Seq(Rune) /\ Here # EndOfText
  BY SourceIsText, RunesApart DEF LInv, Color
<1>2. pos + 1 \in 0 .. Len(src) /\ pos \in Nat
  BY <1>1, MayTake
<1>3. q \in pos .. Len(src) /\ pos < q
  BY <1>1, <1>2, WhileStops
<1> HIDE DEF q
<1>4. Emit("color", q, TRUE)
  BY DEF Color, q
<1> QED BY <1>3, <1>4, NoDelimiter, EmitKeeps

LEMMA IdentKeeps == ASSUME LInv, Ident PROVE LInv'
<1> DEFINE q == While(src, pos, Letter \cup Digit)
<1>1. /\ Typed /\ src \in Seq(Rune) /\ Here # EndOfText
      /\ At(src, pos) \in Letter \cup Digit
  BY SourceIsText, RunesApart DEF LInv, Ident, Here
<1>2. pos \in 0 .. Len(src) /\ pos < Len(src) /\ pos \in Nat
  BY <1>1, MayTake
<1>3. q \in pos .. Len(src) /\ pos < q
  BY <1>1, <1>2, WhileStops
<1> HIDE DEF q
<1>4. Emit("identifier", q, TRUE)
  BY DEF Ident, q
<1> QED BY <1>3, <1>4, NoDelimiter, EmitKeeps

LEMMA NumberKeeps == ASSUME LInv, Number PROVE LInv'
<1> DEFINE whole == While(src, pos, Digit)
           fraction == AfterFraction(src, whole)
           q == AfterExponent(src, fraction)
<1>1. /\ Typed /\ src \in Seq(Rune) /\ Here # EndOfText /\ Len(src) \in Nat
      /\ At(src, pos) \in Digit
  BY SourceIsText, RunesApart DEF LInv, Number, Here
<1>2. pos \in 0 .. Len(src) /\ pos < Len(src) /\ pos \in Nat
  BY <1>1, MayTake
<1>3. whole \in pos + 1 .. Len(src)
  BY <1>1, <1>2, WhileStops
<1>4. ASSUME NEW p \in 0 .. Len(src), At(src, p) # EndOfText
      PROVE  p + 1 \in 0 .. Len(src)
  <2>1. p \in Nat
    OBVIOUS
  <2> QED BY <1>1, <1>4, <2>1, Room
<1>5. fraction \in whole .. Len(src)
  <2>1. whole \in 0 .. Len(src)
    BY <1>2, <1>3
  <2> HIDE DEF whole
  <2>2. CASE At(src, whole) = "."
    <3>1. At(src, whole) # EndOfText
      BY <2>2, RunesApart
    <3>2. whole + 1 \in 0 .. Len(src)
      BY <1>4, <2>1, <3>1
    <3>3. While(src, whole + 1, Digit) \in whole + 1 .. Len(src)
      BY <1>1, <3>2, WhileStops
    <3>4. fraction = While(src, whole + 1, Digit)
      BY <2>2 DEF AfterFraction
    <3> HIDE DEF fraction
    <3> QED BY <2>1, <3>3, <3>4
  <2>3. CASE At(src, whole) # "."
    BY <2>1, <2>3 DEF AfterFraction
  <2> QED BY <2>2, <2>3
<1>6. q \in fraction .. Len(src)
  <2>1. fraction \in 0 .. Len(src)
    BY <1>2, <1>3, <1>5
  <2> HIDE DEF fraction
  <2>2. CASE At(src, fraction) = "e"
    <3> DEFINE p == IF At(src, fraction + 1) \in {"+", "-"} THEN fraction + 2 ELSE fraction + 1
    <3>1. At(src, fraction) # EndOfText
      BY <2>2, RunesApart
    <3>2. fraction + 1 \in 0 .. Len(src)
      BY <1>4, <2>1, <3>1
    <3>3. p \in 0 .. Len(src) /\ fraction <= p
      <4>1. CASE At(src, fraction + 1) \in {"+", "-"}
        <5>1. At(src, fraction + 1) # EndOfText
          BY <4>1, RunesApart
        <5>2. fraction + 1 + 1 \in 0 .. Len(src)
          BY <1>4, <3>2, <5>1
        <5> QED BY <2>1, <4>1, <5>2
      <4>2. CASE At(src, fraction + 1) \notin {"+", "-"}
        BY <2>1, <3>2, <4>2
      <4> QED BY <4>1, <4>2
    <3>4. q = While(src, p, Digit)
      BY <2>2 DEF AfterExponent
    <3> HIDE DEF p
    <3>5. While(src, p, Digit) \in p .. Len(src)
      BY <1>1, <3>3, WhileStops
    <3> HIDE DEF q
    <3> QED BY <2>1, <3>3, <3>4, <3>5
  <2>3. CASE At(src, fraction) # "e"
    BY <2>1, <2>3 DEF AfterExponent
  <2> QED BY <2>2, <2>3
<1>7. Emit("numeric", q, TRUE)
  BY DEF Number
<1> HIDE DEF whole, fraction, q
<1>8. q \in pos .. Len(src) /\ pos < q
  BY <1>2, <1>3, <1>5, <1>6
<1> QED BY <1>7, <1>8, NoDelimiter, EmitKeeps

LEMMA OperatorKeeps == ASSUME LInv, Operator PROVE LInv'
<1>1. Typed /\ Here # EndOfText
  BY RunesApart DEF LInv, Operator
<1>2. \/ Emit("op", pos + 1, TRUE)
      \/ Peek # EndOfText /\ Emit("op", pos + 2, TRUE)
  <2>1. Peek = ">" => Peek # EndOfText
    BY RunesApart
  <2> QED BY <2>1 DEF Operator
<1>3. CASE Emit("op", pos + 1, TRUE)
  <2>1. pos + 1 \in pos .. Len(src) /\ pos < pos + 1
    BY <1>1, MayTake
  <2> QED BY <1>3, <2>1, NoDelimiter, EmitKeeps
<1>4. CASE Peek # EndOfText /\ Emit("op", pos + 2, TRUE)
  <2>1. pos + 2 \in pos .. Len(src) /\ pos < pos + 2
    BY <1>1, <1>4, MayTake
  <2> QED BY <1>4, <2>1, NoDelimiter, EmitKeeps
<1> QED BY <1>2, <1>3, <1>4

LEMMA PunctuationKeeps == ASSUME LInv, Punctuation PROVE LInv'
<1>1. Typed /\ Here # EndOfText
  BY RunesApart DEF LInv, Punctuation
<1>2. pos + 1 \in pos .. Len(src) /\ pos < pos + 1
  BY <1>1, MayTake
<1> QED BY <1>2, NoDelimiter, EmitKeeps DEF Punctuation

LEMMA UnexpectedKeeps == ASSUME LInv, Unexpected PROVE LInv'
<1>1. Typed /\ Here # EndOfText
  BY RunesApart DEF LInv, Unexpected
<1>2. pos + 1 \in pos .. Len(src) /\ pos < pos + 1
  BY <1>1, MayTake
<1> QED BY <1>2, NoDelimiter, EmitKeeps DEF Unexpected

LEMMA EndKeeps == ASSUME LInv, End PROVE LInv'
<1>1. Typed
  BY DEF LInv
<1>2. pos \in pos .. Len(src)
  BY <1>1, MayTake
<1> QED BY <1>2, NoDelimiter, EmitKeeps DEF End

\* What leaves the text, the place and the raw tokens alone.
LEMMA RestKeeps ==
  ASSUME LInv, UNCHANGED <<src, pos, line, col, raw, errors>>
  PROVE  LInv'
<1>1. Typed' /\ Counted'
  BY DEF LInv, Typed, Counted, OffsetToPosition, LineOffsets
<1>2. Tiles'
  BY DEF LInv, Tiles
<1>3. AgreesWithOffsets'
  BY DEF LInv, AgreesWithOffsets, OffsetToPosition, LineOffsets
<1>4. CleanCuts'
  BY DEF LInv, CleanCuts, CleanCut, Occurs, At
<1> QED BY <1>1, <1>2, <1>3, <1>4 DEF LInv

LEMMA InvariantHolds == Spec => []LInv
<1>1. Init => LInv
  <2>1. SUFFICES ASSUME Init PROVE LInv
    OBVIOUS
  <2>2. /\ src \in Texts /\ pos = 0 /\ line = 0 /\ col = 0
        /\ raw = << >> /\ errors = {} /\ src \in Seq(Rune)
    BY <2>1, TextsAssumption DEF Init
  <2>3. Typed
    BY <2>2 DEF Typed
  <2>4. Counted
    <3> DEFINE before == {q \in LineOffsets(src) : q <= 0}
    <3>1. before = {0}
      BY <2>2 DEF LineOffsets
    <3>2. Cardinality(before) = 1
      BY <3>1, FS_Singleton
    <3>3. Greatest(before) = 0
      BY <3>1, GreatestIs
    <3>4. OffsetToPosition(src, 0) = [line |-> Cardinality(before) - 1, col |-> 0 - Greatest(before)]
      BY DEF OffsetToPosition
    <3> HIDE DEF before
    <3> QED BY <2>2, <3>2, <3>3, <3>4 DEF Counted
  <2>5. Tiles /\ AgreesWithOffsets /\ CleanCuts
    BY <2>2 DEF Tiles, AgreesWithOffsets, CleanCuts
  <2> QED BY <2>3, <2>4, <2>5 DEF LInv
<1>2. LInv /\ [Next]_vars => LInv'
  <2> SUFFICES ASSUME LInv, [Next]_vars PROVE LInv'
    OBVIOUS
  <2>1. CASE Space
    BY <2>1, SpaceKeeps
  <2>2. CASE Newline
    BY <2>2, NewlineKeeps
  <2>3. CASE LineComment
    BY <2>3, LineCommentKeeps
  <2>4. CASE BlockComment
    BY <2>4, BlockCommentKeeps
  <2>5. CASE String
    BY <2>5, StringKeeps
  <2>6. CASE LongString
    BY <2>6, LongStringKeeps
  <2>7. CASE Quoted
    BY <2>7, QuotedKeeps
  <2>8. CASE FuncExpr
    BY <2>8, FuncExprKeeps
  <2>9. CASE Color
    BY <2>9, ColorKeeps
  <2>10. CASE Number
    BY <2>10, NumberKeeps
  <2>11. CASE Ident
    BY <2>11, IdentKeeps
  <2>12. CASE Operator
    BY <2>12, OperatorKeeps
  <2>13. CASE Punctuation
    BY <2>13, PunctuationKeeps
  <2>14. CASE Unexpected
    BY <2>14, UnexpectedKeeps
  <2>15. CASE End
    BY <2>15, EndKeeps
  <2>16. CASE Attach
    BY <2>16, RestKeeps DEF Attach
  <2>17. CASE UNCHANGED vars
    BY <2>17, RestKeeps DEF vars
  <2> QED BY <2>1, <2>2, <2>3, <2>4, <2>5, <2>6, <2>7, <2>8, <2>9, <2>10, <2>11, <2>12,
             <2>13, <2>14, <2>15, <2>16, <2>17 DEF Next
<1> QED BY <1>1, <1>2, PTL DEF Spec

\* The tokens tile the text, whatever is in it.
THEOREM TextTiled == Spec => []Tiles
<1>1. LInv => Tiles
  BY DEF LInv
<1> QED BY <1>1, InvariantHolds, PTL

\* Every token has the line and column that the analysis computes for it.
THEOREM PlacesCounted == Spec => []AgreesWithOffsets
<1>1. LInv => AgreesWithOffsets
  BY DEF LInv
<1> QED BY <1>1, InvariantHolds, PTL

\* A string, a quoted name and an expression end at their first delimiter.
THEOREM TokensDelimited == Spec => []Delimited
<1>1. LInv => Delimited
  BY CleanCutsAreDelimited DEF LInv
<1> QED BY <1>1, InvariantHolds, PTL

-----------------------------------------------------------------------------
(* The tokens with their trivia: there is a k-th significant token, and the  *)
(* trivia around it are raw tokens.                                          *)

LEMMA SignificantFinite ==
  ASSUME NEW r \in Seq(RawToken)
  PROVE  /\ Significant(r) \subseteq 1 .. Len(r) /\ Len(r) \in Nat
         /\ IsFiniteSet(Significant(r)) /\ Cardinality(Significant(r)) \in Nat
<1>1. Significant(r) \subseteq 1 .. Len(r) /\ Len(r) \in Nat
  BY DEF Significant
<1>2. IsFiniteSet(1 .. Len(r))
  BY <1>1, FS_Interval
<1>3. IsFiniteSet(Significant(r))
  BY <1>1, <1>2, FS_Subset
<1> QED BY <1>1, <1>3, FS_CardinalityType

LEMMA NthThere ==
  ASSUME NEW r \in Seq(RawToken), NEW k \in 1 .. Cardinality(Significant(r))
  PROVE  Nth(r, k) \in Significant(r) /\ Rank(Significant(r), Nth(r, k)) = k
<1>1. Significant(r) \subseteq 0 .. Len(r) /\ Len(r) \in Nat
  BY SignificantFinite
<1>2. \E i \in Significant(r) : Rank(Significant(r), i) = k
  BY <1>1, RankIs
<1>3. \E i \in Significant(r) : Cardinality({j \in Significant(r) : j <= i}) = k
  BY <1>2 DEF Rank
<1>4. /\ Nth(r, k) \in Significant(r)
      /\ Cardinality({j \in Significant(r) : j <= Nth(r, k)}) = k
  BY <1>3, Zenon DEF Nth
<1> QED BY <1>4 DEF Rank

LEMMA Part ==
  ASSUME NEW s \in Seq(RawToken), NEW a \in 1 .. Len(s) + 1, NEW b \in 0 .. Len(s)
  PROVE  SubSeq(s, a, b) \in Seq(RawToken)
<1>1. a \in Int /\ b \in Int /\ \A i \in a .. b : s[i] \in RawToken
  OBVIOUS
<1> QED BY <1>1, SubSeqProperties

\* The least of some places is one of them.
LEMMA LeastIs ==
  ASSUME NEW S, S \subseteq Nat, S # {}
  PROVE  Least(S) \in S /\ \A j \in S : Least(S) <= j
<1>1. \E i \in S : \A j \in S : i <= j
  BY HasLeast
<1> QED BY <1>1, Zenon DEF Least

LEMMA SplitWithin ==
  ASSUME NEW buf \in Seq(RawToken)
  PROVE  TriviaSplit(buf) \in 0 .. Len(buf)
<1> DEFINE stops == {i \in DOMAIN buf : buf[i].kind \in {"newline", "block-comment"}}
<1>1. stops \subseteq 1 .. Len(buf) /\ Len(buf) \in Nat
  OBVIOUS
<1>2. stops # {} => Least(stops) \in stops
  <2> HIDE DEF stops
  <2>1. stops \subseteq Nat
    BY <1>1
  <2> QED BY <2>1, LeastIs
<1>3. TriviaSplit(buf) =
        IF stops = {} THEN Len(buf)
        ELSE IF buf[Least(stops)].kind = "newline" THEN Least(stops) ELSE Least(stops) - 1
  BY DEF TriviaSplit
<1>4. \A x \in stops : x \in 0 .. Len(buf) /\ x - 1 \in 0 .. Len(buf)
  OBVIOUS
<1>5. Len(buf) \in 0 .. Len(buf)
  BY <1>1
<1> HIDE DEF stops
<1> QED BY <1>2, <1>3, <1>4, <1>5

LEMMA TriviaTyped ==
  ASSUME NEW r \in Seq(RawToken), NEW i \in Significant(r)
  PROVE  Leading(r, i) \in Seq(RawToken) /\ Trailing(r, i) \in Seq(RawToken)
<1>1. Significant(r) \subseteq 1 .. Len(r) /\ Len(r) \in Nat /\ i \in 1 .. Len(r)
  BY SignificantFinite
<1>2. Leading(r, i) \in Seq(RawToken)
  <2> DEFINE S == {j \in Significant(r) : j < i}
             b == Before(r, i)
             buf == SubSeq(r, b + 1, i - 1)
  <2>1. b \in 0 .. i - 1
    <3>1. S \subseteq 0 .. i - 1 /\ i - 1 \in Nat
      BY <1>1
    <3>2. b = IF S = {} THEN 0 ELSE Greatest(S)
      BY DEF Before
    <3> HIDE DEF S, b
    <3>3. S # {} => Greatest(S) \in S
      <4>1. S # {} => \E m \in S : \A j \in S : j <= m
        BY <3>1, HasGreatest
      <4> QED BY <4>1, Zenon DEF Greatest
    <3> QED BY <3>1, <3>2, <3>3
  <2> HIDE DEF b
  <2>2. b + 1 \in 1 .. Len(r) + 1 /\ i - 1 \in 0 .. Len(r)
    BY <1>1, <2>1
  <2>3. buf \in Seq(RawToken)
    BY <2>2, Part
  <2>4. Leading(r, i) = IF b = 0 THEN buf ELSE SubSeq(buf, TriviaSplit(buf) + 1, Len(buf))
    BY DEF Leading, b
  <2> HIDE DEF buf
  <2>5. TriviaSplit(buf) + 1 \in 1 .. Len(buf) + 1 /\ Len(buf) \in 0 .. Len(buf)
    <3>1. TriviaSplit(buf) \in 0 .. Len(buf) /\ Len(buf) \in Nat
      BY <2>3, SplitWithin
    <3> QED BY <3>1
  <2>6. SubSeq(buf, TriviaSplit(buf) + 1, Len(buf)) \in Seq(RawToken)
    BY <2>3, <2>5, Part
  <2> QED BY <2>3, <2>4, <2>6
<1>3. Trailing(r, i) \in Seq(RawToken)
  <2> DEFINE S == {j \in Significant(r) : j > i}
             a == After(r, i)
             buf == SubSeq(r, i + 1, a - 1)
  <2>1. a = 0 \/ a \in i + 1 .. Len(r)
    <3>1. S \subseteq i + 1 .. Len(r) /\ S \subseteq Nat
      BY <1>1
    <3>2. a = IF S = {} THEN 0 ELSE Least(S)
      BY DEF After
    <3> HIDE DEF S, a
    <3>3. S # {} => Least(S) \in S
      BY <3>1, LeastIs
    <3> QED BY <3>1, <3>2, <3>3
  <2>2. Trailing(r, i) = IF a = 0 THEN << >> ELSE SubSeq(buf, 1, TriviaSplit(buf))
    BY DEF Trailing
  <2> HIDE DEF a
  <2>3. CASE a = 0
    BY <2>2, <2>3
  <2>4. CASE a \in i + 1 .. Len(r)
    <3>1. i + 1 \in 1 .. Len(r) + 1 /\ a - 1 \in 0 .. Len(r) /\ a # 0
      BY <1>1, <2>4
    <3>2. buf \in Seq(RawToken)
      BY <3>1, Part
    <3> HIDE DEF buf
    <3>3. TriviaSplit(buf) \in 0 .. Len(buf) /\ 1 \in 1 .. Len(buf) + 1
      BY <3>2, SplitWithin
    <3>4. SubSeq(buf, 1, TriviaSplit(buf)) \in Seq(RawToken)
      BY <3>2, <3>3, Part
    <3> QED BY <2>2, <3>1, <3>4
  <2> QED BY <2>1, <2>3, <2>4
<1> QED BY <1>2, <1>3

\* The lexer's state has its type.
THEOREM TypeCorrect == Spec => []TypeOK
<1> DEFINE Token == [token : RawToken, leading : Seq(RawToken), trailing : Seq(RawToken)]
           TI == tokens \in Seq(Token)
<1>1. Init => TI
  BY DEF Init
<1>2. LInv /\ TI /\ [Next]_vars => TI'
  <2> SUFFICES ASSUME LInv, TI, [Next]_vars PROVE TI'
    OBVIOUS
  <2>1. CASE Attach
    <3> DEFINE n == Cardinality(Significant(raw))
               tok(k) == [token |-> raw[Nth(raw, k)], leading |-> Leading(raw, Nth(raw, k)),
                          trailing |-> Trailing(raw, Nth(raw, k))]
    <3>1. tokens' = [k \in 1 .. n |-> tok(k)]
      BY <2>1, Zenon DEF Attach
    <3>2. raw \in Seq(RawToken)
      BY DEF LInv, Typed
    <3>3. n \in Nat
      BY <3>2, SignificantFinite
    <3>4. ASSUME NEW k \in 1 .. n
          PROVE  tok(k) \in Token
      <4>1. Nth(raw, k) \in Significant(raw)
        BY <3>2, NthThere
      <4>2. raw[Nth(raw, k)] \in RawToken
        BY <3>2, <4>1, SignificantFinite
      <4>3. Leading(raw, Nth(raw, k)) \in Seq(RawToken) /\ Trailing(raw, Nth(raw, k)) \in Seq(RawToken)
        BY <3>2, <4>1, TriviaTyped
      <4> QED BY <4>2, <4>3
    <3> HIDE DEF n, tok, Token
    <3>5. [k \in 1 .. n |-> tok(k)] \in Seq(Token)
      BY <3>3, <3>4
    <3> QED BY <3>1, <3>5
  <2>2. CASE UNCHANGED tokens
    BY <2>2
  <2>3. Next => Attach \/ UNCHANGED tokens
    BY DEF Next, Space, Newline, LineComment, BlockComment, String, LongString, Quoted,
           FuncExpr, Color, Number, Ident, Operator, Punctuation, Unexpected, End, Emit
  <2>4. UNCHANGED vars => UNCHANGED tokens
    BY DEF vars
  <2> QED BY <2>1, <2>2, <2>3, <2>4
<1>3. LInv /\ TI => TypeOK
  BY DEF LInv, Typed, TypeOK
<1> QED BY <1>1, <1>2, <1>3, InvariantHolds, PTL DEF Spec

-----------------------------------------------------------------------------
(* Where the trivia go: between the k-th significant token of r, at s[k], and *)
(* the next one, the first b[k] - s[k] trivia trail, and the rest leads.      *)

LEMMA NthEnumerates ==
  ASSUME NEW r \in Seq(RawToken), NEW n, n = Cardinality(Significant(r)),
         NEW s, s = [k \in 1 .. n |-> Nth(r, k)]
  PROVE  Enumerates(s, n, Significant(r))
<1>1. Significant(r) \subseteq 0 .. Len(r) /\ Len(r) \in Nat
  BY SignificantFinite
<1>2. \A k \in 1 .. n : s[k] \in Significant(r) /\ Rank(Significant(r), s[k]) = k
  BY NthThere
<1> QED BY <1>1, <1>2, RankEnumerates

\* The tokens of r end with a significant one, and s lists those.
Listed(r, N, n, s) ==
  /\ r \in Seq(RawToken) /\ Len(r) = N
  /\ N \in Nat \ {0} /\ n \in Nat \ {0} /\ s[n] = N
  /\ Enumerates(s, n, Significant(r))
  /\ \A k \in 1 .. n : s[k] \in 1 .. N

LEMMA LastListed ==
  ASSUME NEW r \in Seq(RawToken), r # << >>, r[Len(r)].kind = "eof",
         NEW n, n = Cardinality(Significant(r)), NEW s, s = [k \in 1 .. n |-> Nth(r, k)]
  PROVE  Listed(r, Len(r), n, s)
<1> DEFINE N == Len(r)
           S == Significant(r)
<1>1. N \in Nat \ {0} /\ S \subseteq 1 .. N
  BY SignificantFinite
<1>2. N \in S
  BY <1>1 DEF Significant, TriviaKind
<1>3. Enumerates(s, n, S)
  BY NthEnumerates
<1> HIDE DEF N, S
<1>4. n \in Nat /\ \A k \in 1 .. n : s[k] \in 1 .. N
  BY <1>1, <1>3 DEF Enumerates
<1>5. PICK k \in 1 .. n : s[k] = N
  BY <1>2, <1>3 DEF Enumerates
<1>6. n # 0 /\ n \in 1 .. n /\ k <= n /\ k \in Nat
  BY <1>4, <1>5
<1>7. k = n
  <2>1. k < n => s[k] < s[n]
    BY <1>3, <1>6 DEF Enumerates
  <2>2. s[n] \in 1 .. N
    BY <1>4, <1>6
  <2> QED BY <1>1, <1>4, <1>5, <1>6, <2>1, <2>2
<1> QED BY <1>1, <1>3, <1>4, <1>5, <1>6, <1>7 DEF Listed, N, S

LEMMA Neighbours ==
  ASSUME NEW r, NEW N, NEW n, NEW s, Listed(r, N, n, s), NEW k \in 1 .. n
  PROVE  /\ Before(r, s[k]) = IF k = 1 THEN 0 ELSE s[k - 1]
         /\ After(r, s[k]) = IF k = n THEN 0 ELSE s[k + 1]
<1> DEFINE S == Significant(r)
           less == {j \in S : j < s[k]}
           more == {j \in S : j > s[k]}
<1>1. /\ n \in Nat /\ N \in Nat /\ k \in Nat /\ 1 <= k /\ k <= n
      /\ \A l \in 1 .. n : s[l] \in S /\ s[l] \in 1 .. N
      /\ \A l, m \in 1 .. n : l < m => s[l] < s[m]
      /\ \A p \in S : \E l \in 1 .. n : s[l] = p
  BY DEF Listed, Enumerates
<1>2. S \subseteq 0 .. N
  BY SignificantFinite DEF Listed
<1>3. \A l \in 1 .. n : l \in Nat
  BY <1>1
<1> HIDE DEF S
<1>4. Before(r, s[k]) = IF less = {} THEN 0 ELSE Greatest(less)
  BY DEF Before, S
<1>5. After(r, s[k]) = IF more = {} THEN 0 ELSE Least(more)
  BY DEF After, S
\* A place before s[k] is not behind s[k - 1].
<1>6. ASSUME NEW j \in S, NEW l \in 1 .. n, j < s[l], l # 1
      PROVE  j <= s[l - 1]
  <2>1. PICK m \in 1 .. n : s[m] = j
    BY <1>1
  <2>2. m \in Nat /\ l \in Nat /\ l - 1 \in 1 .. n
    BY <1>1, <1>6
  <2>3. s[m] \in Nat /\ s[l] \in Nat /\ s[l - 1] \in Nat
    BY <1>1, <2>2
  <2>4. m < l
    <3>1. l < m => s[l] < s[m]
      BY <1>1
    <3>2. l = m \/ l < m \/ m < l
      BY <2>2
    <3> QED BY <1>6, <2>1, <2>3, <3>1, <3>2
  <2>5. m < l - 1 => s[m] < s[l - 1]
    BY <1>1, <2>2
  <2>6. m = l - 1 \/ m < l - 1
    BY <2>2, <2>4
  <2> QED BY <2>1, <2>3, <2>5, <2>6
<1>7. ASSUME k = 1 PROVE Before(r, s[k]) = 0
  <2>1. less = {}
    <3> SUFFICES ASSUME NEW j \in S, j < s[k] PROVE FALSE
      OBVIOUS
    <3>1. PICK m \in 1 .. n : s[m] = j
      BY <1>1
    <3>2. k < m \/ k = m
      BY <1>3, <1>7
    <3>3. k < m => s[k] < s[m]
      BY <1>1
    <3>4. s[k] \in Nat /\ s[m] \in Nat
      BY <1>1
    <3> QED BY <3>1, <3>2, <3>3, <3>4
  <2> QED BY <1>4, <1>7, <2>1
<1>8. ASSUME k # 1 PROVE Before(r, s[k]) = s[k - 1]
  <2>1. k - 1 \in 1 .. n /\ k - 1 < k
    BY <1>1, <1>8
  <2>2. s[k - 1] \in less
    BY <1>1, <2>1
  <2>3. less \subseteq 0 .. N
    BY <1>2
  <2>4. \A j \in less : j <= s[k - 1]
    BY <1>6, <1>8
  <2> HIDE DEF less
  <2>5. Greatest(less) = s[k - 1]
    BY <1>1, <2>2, <2>3, <2>4, GreatestIs
  <2> QED BY <1>4, <1>8, <2>2, <2>5
<1>9. ASSUME k = n PROVE After(r, s[k]) = 0
  <2>1. more = {}
    <3> SUFFICES ASSUME NEW j \in S, j > s[k] PROVE FALSE
      OBVIOUS
    <3>1. PICK m \in 1 .. n : s[m] = j
      BY <1>1
    <3>2. m < k \/ k = m
      BY <1>1, <1>3, <1>9
    <3>3. m < k => s[m] < s[k]
      BY <1>1
    <3>4. s[k] \in Nat /\ s[m] \in Nat
      BY <1>1
    <3> QED BY <3>1, <3>2, <3>3, <3>4
  <2> QED BY <1>5, <1>9, <2>1
<1>10. ASSUME k # n PROVE After(r, s[k]) = s[k + 1]
  <2>1. k + 1 \in 1 .. n /\ k < k + 1 /\ k + 1 # 1 /\ k + 1 - 1 = k
    BY <1>1, <1>10
  <2>2. s[k + 1] \in more /\ s[k + 1] \in Nat
    <3>1. s[k] < s[k + 1] /\ s[k + 1] \in S /\ s[k] \in Nat /\ s[k + 1] \in Nat
      BY <1>1, <2>1
    <3> QED BY <3>1
  <2>3. more \subseteq Nat
    <3>1. \A j \in S : j \in Nat
      BY <1>2
    <3> QED BY <3>1
  <2>4. \A j \in more : s[k + 1] <= j
    <3> TAKE j \in more
    <3>1. j \in S /\ j > s[k] /\ j \in Nat /\ s[k] \in Nat
      BY <1>1, <1>2
    <3>2. j < s[k + 1] => j <= s[k]
      BY <1>6, <2>1, <3>1
    <3> HIDE DEF more
    <3> QED BY <2>2, <3>1, <3>2
  <2> HIDE DEF more
  <2>5. Least(more) \in more /\ \A j \in more : Least(more) <= j
    BY <2>2, <2>3, LeastIs
  <2>6. Least(more) = s[k + 1]
    <3>1. Least(more) \in Nat /\ Least(more) <= s[k + 1] /\ s[k + 1] <= Least(more)
      BY <2>2, <2>3, <2>4, <2>5
    <3> QED BY <2>2, <3>1
  <2> QED BY <1>5, <1>10, <2>2, <2>6
<1> QED BY <1>7, <1>8, <1>9, <1>10

\* Where a run of trivia is split.
LEMMA SplitIs ==
  ASSUME NEW buf \in Seq(RawToken), NEW d, d = TriviaSplit(buf)
  PROVE  /\ d \in 0 .. Len(buf)
         /\ \A i \in 1 .. d - 1 : buf[i].kind \notin {"newline", "block-comment"}
         /\ d > 0 => buf[d].kind # "block-comment"
         /\ d < Len(buf) =>
              \/ d > 0 /\ buf[d].kind = "newline"
              \/ buf[d + 1].kind = "block-comment"
<1> DEFINE stops == {i \in DOMAIN buf : buf[i].kind \in {"newline", "block-comment"}}
           l == Least(stops)
<1>1. stops \subseteq 1 .. Len(buf) /\ stops \subseteq Nat /\ Len(buf) \in Nat
      /\ DOMAIN buf = 1 .. Len(buf)
  OBVIOUS
<1>2. \A i \in 1 .. Len(buf) : i \in stops <=> buf[i].kind \in {"newline", "block-comment"}
  BY <1>1
<1>3. d = IF stops = {} THEN Len(buf) ELSE IF buf[l].kind = "newline" THEN l ELSE l - 1
  BY DEF TriviaSplit
<1> HIDE DEF stops, l
<1>4. CASE stops = {}
  <2>1. d = Len(buf) /\ \A i \in 1 .. Len(buf) : buf[i].kind \notin {"newline", "block-comment"}
    BY <1>2, <1>3, <1>4
  <2> DEFINE m == Len(buf)
  <2> HIDE DEF m
  <2>2. m \in Nat /\ d = m /\ \A i \in 1 .. m : buf[i].kind \notin {"newline", "block-comment"}
    BY <1>1, <2>1 DEF m
  <2>3. /\ d \in 0 .. m /\ ~(d < m)
        /\ \A i \in 1 .. d - 1 : i \in 1 .. m
        /\ d > 0 => d \in 1 .. m
    BY <2>2
  <2> QED BY <2>2, <2>3 DEF m
<1>5. CASE stops # {}
  <2>1. l \in stops /\ \A j \in stops : l <= j
    BY <1>1, <1>5, LeastIs DEF l
  <2>2. l \in 1 .. Len(buf) /\ buf[l].kind \in {"newline", "block-comment"}
    BY <1>1, <1>2, <2>1
  <2>3. \A i \in 1 .. l - 1 : buf[i].kind \notin {"newline", "block-comment"}
    <3> TAKE i \in 1 .. l - 1
    <3>1. i \in 1 .. Len(buf) /\ ~(l <= i)
      BY <1>1, <2>2
    <3> QED BY <1>2, <2>1, <3>1
  <2> DEFINE m == Len(buf)
  <2> HIDE DEF m
  <2>4. m \in Nat /\ l \in 1 .. m
    BY <1>1, <2>2 DEF m
  <2>5. CASE buf[l].kind = "newline"
    <3>1. d = l
      BY <1>3, <1>5, <2>5
    <3>2. d \in 0 .. m /\ d > 0
      BY <2>4, <3>1
    <3> QED BY <2>3, <2>5, <3>1, <3>2 DEF m
  <2>6. CASE buf[l].kind # "newline"
    <3>1. d = l - 1 /\ buf[l].kind = "block-comment"
      BY <1>3, <1>5, <2>2, <2>6
    <3>2. /\ d \in 0 .. m /\ d + 1 = l
          /\ \A i \in 1 .. d - 1 : i \in 1 .. l - 1
          /\ d > 0 => d \in 1 .. l - 1
      BY <2>4, <3>1
    <3> QED BY <2>3, <3>1, <3>2 DEF m
  <2> QED BY <2>5, <2>6
<1> QED BY <1>4, <1>5

\* What trails the tokens ends at the edges b.
Gap(r, s, k) == SubSeq(r, s[k] + 1, s[k + 1] - 1)

Edges(r, N, n, s) ==
  [k \in 0 .. n |->
     IF k = 0 THEN 0 ELSE IF k = n THEN N ELSE s[k] + TriviaSplit(Gap(r, s, k))]

LEMMA GapIs ==
  ASSUME NEW r, NEW N, NEW n, NEW s, Listed(r, N, n, s), NEW k \in 1 .. n, k # n,
         NEW d, d = TriviaSplit(Gap(r, s, k))
  PROVE  /\ IsSlice(Gap(r, s, k), r, s[k], s[k + 1] - s[k] - 1)
         /\ Gap(r, s, k) \in Seq(RawToken)
         /\ s[k] \in 1 .. N /\ s[k + 1] \in 1 .. N /\ s[k] < s[k + 1]
         /\ d \in 0 .. s[k + 1] - s[k] - 1
<1>1. /\ n \in Nat /\ N \in Nat /\ r \in Seq(RawToken) /\ Len(r) = N
      /\ \A l \in 1 .. n : s[l] \in 1 .. N
      /\ \A l, m \in 1 .. n : l < m => s[l] < s[m]
  BY DEF Listed, Enumerates
<1>2. k + 1 \in 1 .. n /\ k < k + 1
  BY <1>1
<1> DEFINE a == s[k]
           c == s[k + 1] - 1
           gap == SubSeq(r, a + 1, c)
<1>3. /\ s[k] \in 1 .. N /\ s[k + 1] \in 1 .. N /\ s[k] < s[k + 1]
      /\ a \in 0 .. N /\ c \in a .. N /\ c - a = s[k + 1] - s[k] - 1
      /\ a + 1 \in 1 .. N + 1 /\ c \in 0 .. N
  <2>1. s[k] \in 1 .. N /\ s[k + 1] \in 1 .. N /\ s[k] < s[k + 1]
    BY <1>1, <1>2
  <2> DEFINE y == s[k + 1]
  <2> HIDE DEF a, y
  <2>2. a \in 1 .. N /\ y \in 1 .. N /\ a < y
    BY <2>1 DEF a, y
  <2>3. /\ a \in 0 .. N /\ y - 1 \in a .. N /\ (y - 1) - a = y - a - 1
        /\ a + 1 \in 1 .. N + 1 /\ y - 1 \in 0 .. N
    BY <1>1, <2>2
  <2> QED BY <2>1, <2>3 DEF a, y
<1>4. Gap(r, s, k) = gap
  BY DEF Gap
<1> HIDE DEF a, c
<1>5. IsSlice(gap, r, a, c - a)
  BY <1>1, <1>3, SeqIsList, SubSeqSlice
<1>6. gap \in Seq(RawToken)
  BY <1>1, <1>3, Part
<1> HIDE DEF gap
<1>7. d \in 0 .. Len(gap) /\ Len(gap) = c - a
  BY <1>4, <1>5, <1>6, SplitIs DEF IsSlice
<1> QED BY <1>3, <1>4, <1>5, <1>6, <1>7 DEF a

\* The k-th significant token with its trivia is what lies between two edges.
PartIs(r, s, b, N, k) ==
  /\ b[k - 1] \in 0 .. N /\ b[k] \in 0 .. N /\ s[k] \in 1 .. N
  /\ b[k - 1] < s[k] /\ s[k] <= b[k]
  /\ IsSlice(Leading(r, s[k]), r, b[k - 1], s[k] - b[k - 1] - 1)
  /\ IsSlice(Trailing(r, s[k]), r, s[k], b[k] - s[k])

LEMMA PartsAre ==
  ASSUME NEW r, NEW N, NEW n, NEW s, Listed(r, N, n, s), NEW b, b = Edges(r, N, n, s),
         NEW k \in 1 .. n
  PROVE  PartIs(r, s, b, N, k)
<1>1. /\ n \in Nat \ {0} /\ N \in Nat /\ r \in Seq(RawToken) /\ Len(r) = N /\ s[n] = N
      /\ \A l \in 1 .. n : s[l] \in 1 .. N
  BY DEF Listed
<1>2. k \in Nat /\ 1 <= k /\ k <= n /\ k - 1 \in 0 .. n /\ k \in 0 .. n /\ s[k] \in 1 .. N
  BY <1>1
<1>3. b[k - 1] = IF k = 1 THEN 0 ELSE s[k - 1] + TriviaSplit(Gap(r, s, k - 1))
  <2>1. k - 1 # n /\ (k - 1 = 0 <=> k = 1)
    BY <1>1, <1>2
  <2> QED BY <1>2, <2>1 DEF Edges
<1>4. b[k] = IF k = n THEN N ELSE s[k] + TriviaSplit(Gap(r, s, k))
  BY <1>2 DEF Edges
<1> HIDE DEF Edges
<1>5. /\ b[k - 1] \in 0 .. N /\ b[k - 1] < s[k]
      /\ IsSlice(Leading(r, s[k]), r, b[k - 1], s[k] - b[k - 1] - 1)
  <2> DEFINE x == s[k]
  <2>1. CASE k = 1
    <3>1. Before(r, s[k]) = 0 /\ b[k - 1] = 0
      BY <1>3, <2>1, Neighbours
    <3>2. Leading(r, s[k]) = SubSeq(r, 1, s[k] - 1)
      <4>1. Leading(r, s[k]) = SubSeq(r, 0 + 1, s[k] - 1)
        BY <3>1 DEF Leading
      <4> QED BY <4>1
    <3> HIDE DEF x
    <3>3. x - 1 \in 0 .. N /\ x - 1 - 0 = x - 0 - 1 /\ 0 \in 0 .. N /\ x \in Nat /\ 0 < x
      BY <1>1, <1>2 DEF x
    <3>4. IsSlice(SubSeq(r, 0 + 1, x - 1), r, 0, x - 1 - 0)
      BY <1>1, <3>3, SeqIsList, SubSeqSlice
    <3> QED BY <3>1, <3>2, <3>3, <3>4 DEF x
  <2>2. CASE k # 1
    <3> DEFINE j == k - 1
               d == TriviaSplit(Gap(r, s, j))
               a == s[j]
               m == x - a - 1
               gap == Gap(r, s, j)
    <3>1. j \in 1 .. n /\ j # n /\ j + 1 = k
      BY <1>1, <1>2, <2>2
    <3> HIDE DEF j
    <3>2. IsSlice(gap, r, a, m) /\ a \in 1 .. N /\ x \in 1 .. N /\ a < x /\ d \in 0 .. m
      BY <3>1, GapIs
    <3>3. Before(r, x) = a
      BY <2>2, Neighbours DEF j
    <3>4. b[k - 1] = a + d
      BY <1>3, <2>2 DEF j
    <3> HIDE DEF x, a, d
    <3>5. Leading(r, x) = SubSeq(gap, d + 1, m)
      <4>1. gap = SubSeq(r, a + 1, x - 1)
        BY <3>1 DEF Gap, a, x
      <4>2. a # 0
        BY <3>2
      <4>3. Len(gap) = m
        BY <3>2 DEF IsSlice
      <4>4. d = TriviaSplit(gap)
        BY DEF d
      <4> HIDE DEF gap, m
      <4> QED BY <3>3, <4>1, <4>2, <4>3, <4>4 DEF Leading
    <3>6. m \in Nat /\ a \in Nat /\ d \in 0 .. m /\ m \in d .. m
      BY <1>1, <3>2
    <3> HIDE DEF gap
    <3>7. IsSlice(SubSeq(gap, d + 1, m), r, a + d, m - d)
      <4> HIDE DEF m
      <4> QED BY <3>2, <3>6, SliceSlice
    <3>8. m - d = x - (a + d) - 1 /\ a + d \in 0 .. N /\ a + d < x
      BY <1>1, <3>2, <3>6
    <3> QED BY <3>4, <3>5, <3>7, <3>8 DEF x
  <2> QED BY <2>1, <2>2
<1>6. /\ b[k] \in 0 .. N /\ s[k] <= b[k]
      /\ IsSlice(Trailing(r, s[k]), r, s[k], b[k] - s[k])
  <2>1. CASE k = n
    <3>1. Trailing(r, s[k]) = << >>
      BY <2>1, Neighbours DEF Trailing
    <3>2. b[k] = N /\ s[k] = N /\ b[k] - s[k] = 0
      BY <1>1, <1>4, <2>1
    <3>3. IsSlice(<< >>, r, s[k], 0)
      BY EmptyList DEF IsSlice
    <3> QED BY <1>1, <3>1, <3>2, <3>3
  <2>2. CASE k # n
    <3> DEFINE d == TriviaSplit(Gap(r, s, k))
               a == s[k]
               x == s[k + 1]
               m == x - a - 1
               gap == Gap(r, s, k)
    <3>2. IsSlice(gap, r, a, m) /\ a \in 1 .. N /\ x \in 1 .. N /\ a < x /\ d \in 0 .. m
      BY <2>2, GapIs
    <3>3. After(r, a) = x
      BY <2>2, Neighbours
    <3>4. b[k] = a + d
      BY <1>4, <2>2
    <3> HIDE DEF x, a, d
    <3>5. Trailing(r, a) = SubSeq(gap, 0 + 1, d)
      <4>1. gap = SubSeq(r, a + 1, x - 1)
        BY DEF Gap, a, x
      <4>2. x # 0
        BY <3>2
      <4>3. d = TriviaSplit(gap)
        BY DEF d
      <4> HIDE DEF gap, m
      <4>4. Trailing(r, a) = SubSeq(gap, 1, d)
        BY <3>3, <4>1, <4>2, <4>3, Zenon DEF Trailing
      <4>5. 0 + 1 = 1
        OBVIOUS
      <4> QED BY <4>4, <4>5
    <3>6. m \in Nat /\ a \in Nat /\ 0 \in 0 .. m /\ d \in 0 .. m
      BY <1>1, <3>2
    <3> HIDE DEF gap
    <3>7. IsSlice(SubSeq(gap, 0 + 1, d), r, a + 0, d - 0)
      <4> HIDE DEF m
      <4> QED BY <3>2, <3>6, SliceSlice
    <3>8. d - 0 = (a + d) - a /\ a + 0 = a /\ a + d \in 0 .. N /\ a <= a + d
      BY <1>1, <3>2, <3>6
    <3> QED BY <3>4, <3>5, <3>7, <3>8 DEF a
  <2> QED BY <2>1, <2>2
<1> QED BY <1>2, <1>5, <1>6 DEF PartIs

\* The tokens with their trivia.
Attached(r) ==
  [k \in 1 .. Cardinality(Significant(r)) |->
     LET i == Nth(r, k)
     IN  [token |-> r[i], leading |-> Leading(r, i), trailing |-> Trailing(r, i)]]

AttachedAre(r, n, s, list) ==
  /\ DOMAIN list = 1 .. n /\ Len(list) = n
  /\ \A k \in 1 .. n :
       /\ list[k].token = r[s[k]]
       /\ list[k].leading = Leading(r, s[k])
       /\ list[k].trailing = Trailing(r, s[k])

LEMMA AttachedLists ==
  ASSUME NEW r \in Seq(RawToken), NEW n, n = Cardinality(Significant(r)),
         NEW s, s = [k \in 1 .. n |-> Nth(r, k)], NEW list, list = Attached(r)
  PROVE  AttachedAre(r, n, s, list)
<1> DEFINE own(k) == [token |-> r[s[k]], leading |-> Leading(r, s[k]), trailing |-> Trailing(r, s[k])]
<1>1. list = [k \in 1 .. n |-> own(k)]
  BY DEF Attached
<1>2. \A k : /\ own(k).token = r[s[k]]
             /\ own(k).leading = Leading(r, s[k])
             /\ own(k).trailing = Trailing(r, s[k])
  OBVIOUS
<1> HIDE DEF own
<1>3. DOMAIN list = 1 .. n /\ \A k \in 1 .. n : list[k] = own(k)
  BY <1>1
<1>4. Len(list) = n
  <2>1. list = [k \in 1 .. n |-> list[k]]
    BY <1>1
  <2>2. n \in Nat
    BY SignificantFinite
  <2> QED BY <2>1, <2>2, MadeList
<1> QED BY <1>2, <1>3, <1>4 DEF AttachedAre

\* One token with its trivia is a part of the raw tokens.
LEMMA TokenPart ==
  ASSUME NEW r, NEW N, NEW n, NEW s, Listed(r, N, n, s), NEW b, NEW k \in 1 .. n,
         PartIs(r, s, b, N, k),
         NEW u, u = Leading(r, s[k]) \o <<r[s[k]]>> \o Trailing(r, s[k])
  PROVE  IsSlice(u, r, b[k - 1], b[k] - b[k - 1])
<1> DEFINE lead == Leading(r, s[k])
           trail == Trailing(r, s[k])
           x == s[k]
           a == b[k - 1]
           c == b[k]
<1>1. /\ a \in 0 .. N /\ c \in 0 .. N /\ x \in 1 .. N /\ a < x /\ x <= c /\ N \in Nat
      /\ IsSlice(lead, r, a, x - a - 1) /\ IsSlice(trail, r, x, c - x)
  BY DEF PartIs, Listed
<1>2. u = (lead \o <<r[x]>>) \o trail
  OBVIOUS
<1> HIDE DEF lead, trail, x, a, c
<1>3. IsSlice(<<r[x]>>, r, x - 1, 1)
  <2> DEFINE one == <<r[x]>>
  <2>1. IsList(one) /\ Len(one) = 1 /\ one[1] = r[x]
    BY OneList
  <2>2. \A i \in 1 .. 1 : i = 1 /\ x - 1 + i = x
    BY <1>1
  <2> HIDE DEF one
  <2>3. \A i \in 1 .. 1 : one[i] = r[x - 1 + i]
    BY <2>1, <2>2
  <2>4. IsSlice(one, r, x - 1, 1)
    BY <2>1, <2>3 DEF IsSlice
  <2> QED BY <2>4 DEF one
<1>4. a + (x - a - 1) = x - 1 /\ x - a - 1 \in Nat /\ a \in Nat /\ 1 \in Nat
  BY <1>1
<1>5. IsSlice(lead \o <<r[x]>>, r, a, (x - a - 1) + 1)
  <2> DEFINE m == x - a - 1
             one == <<r[x]>>
  <2>1. m \in Nat /\ a + m = x - 1
    BY <1>4
  <2>2. IsSlice(lead, r, a, m) /\ IsSlice(one, r, a + m, 1)
    BY <1>1, <1>3, <2>1
  <2> HIDE DEF m, one
  <2>3. IsSlice(lead \o one, r, a, m + 1)
    BY <1>4, <2>1, <2>2, SliceConcat
  <2> QED BY <2>3 DEF m, one
<1>6. (x - a - 1) + 1 = x - a /\ x - a \in Nat /\ a + (x - a) = x /\ c - x \in Nat
      /\ (x - a) + (c - x) = c - a
  BY <1>1
<1>7. IsSlice((lead \o <<r[x]>>) \o trail, r, a, (x - a) + (c - x))
  <2> DEFINE front == lead \o <<r[x]>>
             m == x - a
             l == c - x
  <2>1. m \in Nat /\ l \in Nat /\ a + m = x
    BY <1>6
  <2>2. IsSlice(front, r, a, m) /\ IsSlice(trail, r, a + m, l)
    BY <1>1, <1>5, <1>6
  <2> HIDE DEF front, m, l
  <2>3. IsSlice(front \o trail, r, a, m + l)
    BY <1>4, <2>1, <2>2, SliceConcat
  <2> QED BY <2>3 DEF front, m, l
<1> QED BY <1>2, <1>6, <1>7 DEF a, c

\* All of them are the raw tokens.
LEMMA PartsMakeAll ==
  ASSUME NEW r, NEW N, NEW n, NEW s, Listed(r, N, n, s), NEW list, AttachedAre(r, n, s, list)
  PROVE  r = FlattenSeq([k \in DOMAIN list |->
                           list[k].leading \o <<list[k].token>> \o list[k].trailing])
<1> DEFINE b == Edges(r, N, n, s)
           part(k) == list[k].leading \o <<list[k].token>> \o list[k].trailing
           ss == [k \in DOMAIN list |-> part(k)]
<1>1. n \in Nat \ {0} /\ N \in Nat /\ r \in Seq(RawToken) /\ Len(r) = N
  BY DEF Listed
<1>2. b[0] = 0 /\ b[n] = N
  BY <1>1 DEF Edges
<1>3. ASSUME NEW k \in 1 .. n
      PROVE  PartIs(r, s, b, N, k) /\ IsSlice(part(k), r, b[k - 1], b[k] - b[k - 1])
  <2> DEFINE x == b
  <2>1. x = Edges(r, N, n, s)
    OBVIOUS
  <2> HIDE DEF x
  <2>2. PartIs(r, s, x, N, k)
    BY <2>1, PartsAre
  <2> HIDE DEF b
  <2>3. part(k) = Leading(r, s[k]) \o <<r[s[k]]>> \o Trailing(r, s[k])
    BY DEF AttachedAre
  <2> HIDE DEF part
  <2>4. IsSlice(part(k), r, x[k - 1], x[k] - x[k - 1])
    BY <2>2, <2>3, TokenPart
  <2> QED BY <2>2, <2>4 DEF x
<1> HIDE DEF b
<1>4. \A k \in 0 .. n : b[k] \in Nat
  <2> TAKE k \in 0 .. n
  <2>1. k = 0 \/ k \in 1 .. n
    BY <1>1
  <2>2. k \in 1 .. n => b[k] \in 0 .. N
    BY <1>3 DEF PartIs
  <2> QED BY <1>1, <1>2, <2>1, <2>2
<1>5. DOMAIN ss = 1 .. n /\ \A k \in 1 .. n : ss[k] = part(k)
  BY DEF AttachedAre
<1> HIDE DEF part
<1>6. Len(ss) = n /\ IsListOfLists(ss)
  <2>1. ss = [k \in 1 .. n |-> ss[k]]
    BY DEF AttachedAre
  <2> HIDE DEF ss
  <2>2. IsList(ss) /\ Len(ss) = n
    BY <1>1, <2>1, MadeList
  <2>3. \A k \in 1 .. n : IsList(ss[k])
    BY <1>3, <1>5 DEF IsSlice
  <2> QED BY <1>5, <2>2, <2>3 DEF IsListOfLists
<1> HIDE DEF ss
<1>7. PICK at : Offsets(at, ss)
  BY <1>6, FlattenOffsets
<1>8. /\ at[0] = 0 /\ at[n] = Len(FlattenSeq(ss))
      /\ \A k \in 1 .. n : at[k] = at[k - 1] + (b[k] - b[k - 1])
  <2>1. /\ at[0] = 0 /\ at[n] = Len(FlattenSeq(ss))
        /\ \A k \in 1 .. n : at[k] = at[k - 1] + Len(ss[k])
    BY <1>6, <1>7 DEF Offsets
  <2>2. \A k \in 1 .. n : Len(ss[k]) = b[k] - b[k - 1]
    BY <1>3, <1>5 DEF IsSlice
  <2> QED BY <2>1, <2>2
<1>9. \A k \in 0 .. n : at[k] = b[k]
  <2> DEFINE Bad == {k \in 0 .. n : at[k] # b[k]}
  <2>1. Bad \subseteq Nat
    BY <1>1
  <2>2. ASSUME NEW k \in Bad, \A j \in Bad : k <= j PROVE FALSE
    <3>1. k \in 0 .. n /\ k \in Nat /\ at[k] # b[k]
      BY <1>1
    <3>2. k # 0
      <4> HIDE DEF Bad
      <4> QED BY <1>2, <1>8, <3>1
    <3>3. k \in 1 .. n /\ k - 1 \in 0 .. n /\ ~(k <= k - 1)
      BY <1>1, <3>1, <3>2
    <3>4. k - 1 \notin Bad
      <4> HIDE DEF Bad
      <4> QED BY <2>2, <3>3
    <3>5. at[k - 1] = b[k - 1]
      BY <3>3, <3>4
    <3> HIDE DEF Bad
    <3>6. b[k] \in Nat /\ b[k - 1] \in Nat
      BY <1>4, <3>1, <3>3
    <3>7. at[k] = b[k - 1] + (b[k] - b[k - 1])
      BY <1>8, <3>3, <3>5
    <3> QED BY <3>1, <3>6, <3>7
  <2>3. Bad = {}
    <3> HIDE DEF Bad
    <3> QED BY <2>1, <2>2, HasLeast
  <2> QED BY <2>3
<1>10. Len(FlattenSeq(ss)) = N
  <2>1. n \in 0 .. n
    BY <1>1
  <2> QED BY <1>2, <1>8, <1>9, <2>1
<1>11. ASSUME NEW p \in 1 .. N PROVE r[p] = FlattenSeq(ss)[p]
  <2>1. PICK i, k : IsPlaceOf(p, ss, at, i, k)
    BY <1>6, <1>7, <1>10, OffsetsCover
  <2>2. /\ i \in 1 .. n /\ k \in 1 .. Len(ss[i])
        /\ p = at[i - 1] + k /\ FlattenSeq(ss)[p] = ss[i][k]
    BY <1>6, <2>1 DEF IsPlaceOf
  <2>3. i - 1 \in 0 .. n
    BY <1>1, <2>2
  <2>4. IsSlice(ss[i], r, b[i - 1], b[i] - b[i - 1])
    BY <1>3, <1>5, <2>2
  <2>5. ss[i][k] = r[b[i - 1] + k]
    BY <2>2, <2>4 DEF IsSlice
  <2> QED BY <1>9, <2>2, <2>3, <2>5
<1>12. IsList(r) /\ IsList(FlattenSeq(ss))
  BY <1>1, <1>6, SeqIsList, FlattenOffsets
<1>13. r = FlattenSeq(ss)
  BY <1>1, <1>10, <1>11, <1>12, ListsEqual
<1> QED BY <1>13 DEF ss, part

-----------------------------------------------------------------------------
(* The lines that trivia are on. *)

NoBreak(p, q) == \A i \in p .. q - 1 : At(src, i) # LF

\* A token that is a space or a line comment has no line feed in it.
OnOneLine ==
  \A i \in DOMAIN raw :
    raw[i].kind \in {"space", "line-comment"} => NoBreak(raw[i].start, raw[i].end)

LEMMA SameLine ==
  ASSUME src \in Seq(Rune), NEW p \in Nat, NEW q \in Nat, p <= q, q <= Len(src), NoBreak(p, q)
  PROVE  OffsetToPosition(src, p).line = OffsetToPosition(src, q).line
<1> DEFINE S == LineOffsets(src)
<1>1. ASSUME NEW o \in S, o <= q PROVE o <= p
  <2> SUFFICES ASSUME ~(o <= p) PROVE FALSE
    OBVIOUS
  <2>1. Len(src) \in Nat
    OBVIOUS
  <2>2. o \in 1 .. Len(src) /\ src[o] = LF /\ o - 1 \in p .. q - 1
    BY <1>1, <2>1 DEF LineOffsets
  <2>3. At(src, o - 1) = src[o]
    BY <2>1, <2>2 DEF At
  <2> QED BY <2>2, <2>3 DEF NoBreak
<1>2. \A o \in S : o \in Nat
  BY DEF LineOffsets
<1> HIDE DEF S
<1>3. \A o \in S : o <= p <=> o <= q
  BY <1>1, <1>2
<1>4. {o \in S : o <= p} = {o \in S : o <= q}
  BY <1>3
<1>5. /\ OffsetToPosition(src, p).line = Cardinality({o \in S : o <= p}) - 1
      /\ OffsetToPosition(src, q).line = Cardinality({o \in S : o <= q}) - 1
  BY DEF OffsetToPosition, S
<1> QED BY <1>4, <1>5

\* What trails the k-th significant token is on its line.
LEMMA TrailsOn ==
  ASSUME LInv, OnOneLine, NEW N, NEW n, NEW s, Listed(raw, N, n, s), NEW k \in 1 .. n, k # n,
         NEW d, d = TriviaSplit(Gap(raw, s, k)), NEW j \in 1 .. d,
         pos <= Len(src), \A i \in DOMAIN raw : raw[i].end <= Len(src)
  PROVE  /\ raw[s[k] + j].line = OffsetToPosition(src, raw[s[k]].end).line
         /\ raw[s[k] + j].kind = "newline" => j = d
<1> DEFINE a == s[k]
           x == s[k + 1]
           gap == Gap(raw, s, k)
           m == x - a - 1
           end == OffsetToPosition(src, raw[a].end).line
           Bad == {i \in 1 .. d : raw[a + i].line # end}
<1>1. /\ raw \in Seq(RawToken) /\ Len(raw) = N /\ N \in Nat /\ DOMAIN raw = 1 .. N
      /\ src \in Seq(Rune)
  BY SourceIsText DEF Listed, LInv, Typed
<1>2. IsSlice(gap, raw, a, m) /\ gap \in Seq(RawToken) /\ a \in 1 .. N /\ x \in 1 .. N /\ d \in 0 .. m
  BY GapIs
<1> HIDE DEF a, x, gap, end
<1>3. m \in Int /\ \A i \in 1 .. d : i \in 1 .. m /\ a + i \in 1 .. N /\ gap[i] = raw[a + i]
  <2>1. m \in Int /\ \A i \in 1 .. d : i \in 1 .. m /\ a + i \in 1 .. N
    BY <1>1, <1>2
  <2> QED BY <1>2, <2>1 DEF IsSlice
<1>4. /\ \A i \in 1 .. d - 1 : gap[i].kind \notin {"newline", "block-comment"}
      /\ d = TriviaSplit(gap)
  BY <1>2, SplitIs DEF gap
<1>5. \A i \in 1 .. d - 1 : raw[a + i].kind \in {"space", "line-comment"}
  <2> TAKE i \in 1 .. d - 1
  <2>1. i \in 1 .. d /\ i \in 1 .. m
    BY <1>2, <1>3
  <2>2. raw[a + i] = gap[i] /\ raw[a + i].kind \notin {"newline", "block-comment"}
    BY <1>3, <1>4, <2>1
  <2>3. a + i \notin Significant(raw)
    <3>1. SUFFICES ASSUME a + i \in Significant(raw) PROVE FALSE
      OBVIOUS
    <3>2. /\ \A l \in 1 .. n : s[l] \in 1 .. N
          /\ \A l, h \in 1 .. n : l < h => s[l] < s[h]
          /\ \A p \in Significant(raw) : \E l \in 1 .. n : s[l] = p
          /\ n \in Nat
      BY DEF Listed, Enumerates
    <3>3. PICK l \in 1 .. n : s[l] = a + i
      BY <3>1, <3>2
    <3>4. l \in Nat /\ k \in Nat /\ k + 1 \in 1 .. n
      BY <3>2
    <3>5. (l < k => s[l] < s[k]) /\ (k + 1 < l => s[k + 1] < s[l])
      BY <3>2, <3>4
    <3>6. l < k \/ l = k \/ l = k + 1 \/ k + 1 < l
      BY <3>4
    <3>7. a < a + i /\ a + i < x
      BY <1>2, <2>1
    <3> DEFINE y == s[l]
    <3> HIDE DEF y
    <3>8. y \in Nat /\ a \in Nat /\ x \in Nat /\ a < y /\ y < x
      BY <1>1, <1>2, <3>2, <3>3, <3>7 DEF y
    <3>9. /\ l < k => y < a
          /\ l = k => y = a
          /\ l = k + 1 => y = x
          /\ k + 1 < l => x < y
      BY <3>5 DEF y, a, x
    <3> QED BY <3>6, <3>8, <3>9
  <2> QED BY <1>1, <1>3, <2>1, <2>2, <2>3 DEF Significant, TriviaKind
<1>6. \A i \in 1 .. N : raw[i].line = OffsetToPosition(src, raw[i].start).line
  <2> TAKE i \in 1 .. N
  <2>1. [line |-> raw[i].line, col |-> raw[i].col] = OffsetToPosition(src, raw[i].start)
    BY <1>1 DEF LInv, AgreesWithOffsets
  <2> QED BY <2>1
<1>7. \A i \in 1 .. N : i > 1 => raw[i].start = raw[i - 1].end
  BY <1>1 DEF LInv, Tiles
<1>8. Bad = {}
  <2>1. Bad \subseteq Nat
    OBVIOUS
  <2>2. ASSUME NEW i \in Bad, \A h \in Bad : i <= h PROVE FALSE
    <3>1. i \in 1 .. d /\ raw[a + i].line # end
      OBVIOUS
    <3>2. a + i \in 1 .. N /\ a + i > 1 /\ i \in Nat /\ a \in Nat
      BY <1>2, <1>3, <3>1
    <3>3. raw[a + i].line = OffsetToPosition(src, raw[a + i - 1].end).line
      BY <1>6, <1>7, <3>2
    <3>4. CASE i = 1
      <4>1. a + i - 1 = a
        BY <3>2, <3>4
      <4> HIDE DEF Bad
      <4> QED BY <3>1, <3>3, <4>1 DEF end
    <3>5. CASE i # 1
      <4> DEFINE h == i - 1
                 p == raw[a + h].start
                 q == raw[a + h].end
      <4>1. h \in 1 .. d - 1 /\ h \in 1 .. d /\ ~(i <= h) /\ a + i - 1 = a + h
        BY <1>2, <1>3, <3>1, <3>2, <3>5
      <4>2. h \notin Bad
        <5> HIDE DEF Bad, h
        <5> QED BY <2>2, <4>1
      <4>3. raw[a + h].line = end
        BY <4>1, <4>2
      <4> HIDE DEF Bad, h
      <4>4. a + h \in 1 .. N /\ raw[a + h] \in RawToken
        BY <1>1, <1>3, <4>1
      <4>5. p \in Nat /\ q \in Nat /\ q <= Len(src) /\ NoBreak(p, q)
        BY <1>1, <1>5, <4>1, <4>4 DEF RawToken, OnOneLine
      <4>6. p < q
        <5>1. raw[a + h].kind # "eof"
          BY <1>5, <4>1
        <5> QED BY <1>1, <4>4, <5>1 DEF LInv, Tiles
      <4>7. OffsetToPosition(src, p).line = OffsetToPosition(src, q).line
        <5>1. p <= q
          BY <4>5, <4>6
        <5> HIDE DEF p, q
        <5> QED BY <1>1, <4>5, <5>1, SameLine
      <4> QED BY <1>6, <3>1, <3>3, <4>1, <4>3, <4>4, <4>7
    <3> QED BY <3>4, <3>5
  <2> HIDE DEF Bad
  <2> QED BY <2>1, <2>2, HasLeast
<1>9. raw[a + j].kind = "newline" => j = d
  <2>1. j # d => j \in 1 .. d - 1
    BY <1>2, <1>3
  <2>2. j # d => raw[a + j].kind \in {"space", "line-comment"}
    BY <1>5, <2>1
  <2> QED BY <2>2
<1>10. raw[a + j].line = end
  BY <1>8
<1> QED BY <1>9, <1>10 DEF a, end

\* What is known of the trivia: the tokens that they hang on are cut once, after
\* the end of the text.
Within == \A i \in DOMAIN raw : raw[i].end <= Len(src)

HangOnce == tokens # << >> => AtEof /\ tokens = Attached(raw)

TriviaInv == Within /\ OnOneLine /\ HangOnce /\ (AtEof => pos = Len(src))

\* A cut that is not the end of the text, and keeps spaces and line comments on a line.
CleanStep ==
  \E kind, q, ok :
    /\ Emit(kind, q, ok) /\ kind # "eof"
    /\ kind \in {"space", "line-comment"} => NoBreak(pos, q)

LEMMA CutsClean ==
  ASSUME src \in Seq(Rune), pos \in 0 .. Len(src),
         \/ Space \/ Newline \/ LineComment \/ BlockComment
         \/ String \/ LongString \/ Quoted \/ FuncExpr
         \/ Color \/ Number \/ Ident \/ Operator \/ Punctuation \/ Unexpected
  PROVE  CleanStep /\ pos < Len(src)
<1>1. Len(src) \in Nat /\ pos \in Nat /\ pos <= Len(src)
  OBVIOUS
<1>2. Here \in Rune => pos < Len(src)
  <2>1. /\ pos >= Len(src) => At(src, pos) = EndOfText
        /\ EndOfText \notin Rune
    BY <1>1, InText
  <2> QED BY <1>1, <2>1 DEF Here
<1>3. ASSUME NEW kind, NEW q, NEW ok, Emit(kind, q, ok),
             kind \notin {"eof", "space", "line-comment"}
      PROVE  CleanStep
  BY <1>3, Zenon DEF CleanStep
<1>4. CASE Space
  <2>1. Here = " " /\ Emit("space", pos + 1, TRUE)
    BY <1>4 DEF Space
  <2>2. NoBreak(pos, pos + 1)
    <3>1. \A i \in pos .. pos + 1 - 1 : i = pos
      BY <1>1
    <3>2. At(src, pos) = " " /\ " " # LF
      BY <2>1 DEF Here, LF
    <3>3. \A i \in pos .. pos + 1 - 1 : At(src, i) # LF
      BY <3>1, <3>2
    <3> QED BY <3>3 DEF NoBreak
  <2>3. CleanStep
    BY <2>1, <2>2, Zenon DEF CleanStep
  <2> QED BY <1>2, <2>1, <2>3 DEF Rune
<1>5. CASE LineComment
  <2> DEFINE q == Until(src, pos + 2, {LF})
  <2>1. Here = "/" /\ Peek = "/" /\ Emit("line-comment", q, TRUE)
    BY <1>5 DEF LineComment
  <2>2. pos < Len(src)
    BY <1>2, <2>1 DEF Rune
  <2>3. pos + 1 < Len(src)
    <3>1. pos + 1 \in Nat
      BY <1>1
    <3>2. pos + 1 >= Len(src) => At(src, pos + 1) = EndOfText
      BY <3>1, InText
    <3>3. At(src, pos + 1) # EndOfText
      BY <2>1 DEF Peek, EndOfText
    <3>4. ~(pos + 1 >= Len(src))
      BY <3>2, <3>3
    <3> QED BY <1>1, <3>4
  <2>4. pos + 2 \in 0 .. Len(src)
    BY <1>1, <2>3
  <2>5. q \in pos + 2 .. Len(src) /\ \A i \in pos + 2 .. q - 1 : At(src, i) \notin {LF}
    BY <2>4, UntilStops
  <2> HIDE DEF q
  <2>6. NoBreak(pos, q)
    <3> SUFFICES ASSUME NEW i \in pos .. q - 1 PROVE At(src, i) # LF
      BY DEF NoBreak
    <3>1. i = pos \/ i = pos + 1 \/ i \in pos + 2 .. q - 1
      BY <1>1, <2>5
    <3> QED BY <2>1, <2>5, <3>1 DEF Here, Peek, LF
  <2>7. CleanStep
    BY <2>1, <2>6, Zenon DEF CleanStep
  <2> QED BY <2>2, <2>7
<1>6. CASE Newline
  <2>1. Here \in {LF, CR}
    BY <1>6 DEF Newline
  <2>2. PICK q : Emit("newline", q, TRUE)
    BY <1>6 DEF Newline
  <2> QED BY <1>2, <1>3, <2>1, <2>2 DEF Rune
<1>7. CASE BlockComment
  <2>1. Here = "/"
    BY <1>7 DEF BlockComment
  <2>2. PICK q, ok : Emit("block-comment", q, ok)
    BY <1>7, Zenon DEF BlockComment
  <2> QED BY <1>2, <1>3, <2>1, <2>2 DEF Rune
<1>8. CASE String
  <2>1. Here = "'"
    BY <1>8 DEF String
  <2>2. PICK q, ok : Emit("string", q, ok)
    BY <1>8, Zenon DEF String
  <2> QED BY <1>2, <1>3, <2>1, <2>2 DEF Rune
<1>9. CASE LongString
  <2>1. Here = "'"
    BY <1>9 DEF LongString, Triple, Here
  <2>2. PICK q, ok : Emit("long-string", q, ok)
    BY <1>9, Zenon DEF LongString
  <2> QED BY <1>2, <1>3, <2>1, <2>2 DEF Rune
<1>10. CASE Quoted
  <2>1. Here = DQ
    BY <1>10 DEF Quoted
  <2>2. PICK q, ok : Emit("quoted", q, ok)
    BY <1>10, Zenon DEF Quoted
  <2> QED BY <1>2, <1>3, <2>1, <2>2 DEF Rune
<1>11. CASE FuncExpr
  <2>1. Here = BT
    BY <1>11 DEF FuncExpr
  <2>2. PICK q, ok : Emit("func-expr", q, ok)
    BY <1>11, Zenon DEF FuncExpr
  <2> QED BY <1>2, <1>3, <2>1, <2>2 DEF Rune
<1>12. CASE Color
  <2>1. Here = "#" /\ Emit("color", While(src, pos + 1, Hex), TRUE)
    BY <1>12 DEF Color
  <2> QED BY <1>2, <1>3, <2>1 DEF Rune
<1>13. CASE Number
  <2>1. Here \in Digit
    BY <1>13 DEF Number
  <2>2. PICK q : Emit("numeric", q, TRUE)
    BY <1>13, Zenon DEF Number
  <2> QED BY <1>2, <1>3, <2>1, <2>2 DEF Rune
<1>14. CASE Ident
  <2>1. Here \in Letter
    BY <1>14 DEF Ident
  <2>2. PICK q : Emit("identifier", q, TRUE)
    BY <1>14, Zenon DEF Ident
  <2> QED BY <1>2, <1>3, <2>1, <2>2 DEF Rune
<1>15. CASE Operator
  <2>1. Here \in Op \cup {"/"}
    BY <1>15 DEF Operator, Op
  <2>2. PICK q : Emit("op", q, TRUE)
    BY <1>15, Zenon DEF Operator
  <2> QED BY <1>2, <1>3, <2>1, <2>2 DEF Rune
<1>16. CASE Punctuation
  <2>1. Here \in Punct /\ Emit("punct", pos + 1, TRUE)
    BY <1>16 DEF Punctuation
  <2> QED BY <1>2, <1>3, <2>1 DEF Rune
<1>17. CASE Unexpected
  <2>1. Here = "?" /\ Emit("identifier", pos + 1, FALSE)
    BY <1>17 DEF Unexpected
  <2> QED BY <1>2, <1>3, <2>1 DEF Rune
<1> QED BY <1>4, <1>5, <1>6, <1>7, <1>8, <1>9, <1>10, <1>11, <1>12, <1>13, <1>14, <1>15, <1>16, <1>17

\* A cut keeps the invariant, whatever was cut before.
LEMMA CutKeepsTrivia ==
  ASSUME LInv, LInv', TriviaInv, NEW kind, NEW q, NEW ok, Emit(kind, q, ok), tokens = << >>,
         kind \in {"space", "line-comment"} => NoBreak(pos, q),
         kind = "eof" => q = Len(src)
  PROVE  TriviaInv'
<1> DEFINE new == [kind |-> kind, start |-> pos, end |-> q, line |-> line, col |-> col]
           n == Len(raw)
<1>1. /\ raw' = Append(raw, new) /\ pos' = q /\ UNCHANGED <<src, tokens>>
      /\ raw \in Seq(RawToken)
  BY DEF Emit, LInv, Typed
<1>2. /\ DOMAIN raw' = 1 .. n + 1 /\ Len(raw') = n + 1 /\ n \in Nat
      /\ DOMAIN raw = 1 .. n
      /\ \A i \in 1 .. n : raw'[i] = raw[i]
      /\ raw'[n + 1] = new
  <2> HIDE DEF new
  <2>1. IsList(raw)
    BY <1>1, SeqIsList
  <2>2. /\ IsList(raw') /\ Len(raw') = Len(raw) + 1
        /\ \A i \in 1 .. Len(raw) : raw'[i] = raw[i]
        /\ raw'[Len(raw) + 1] = new
    BY <1>1, <2>1, AppendList
  <2>3. Len(raw) \in Nat /\ DOMAIN raw = 1 .. Len(raw) /\ DOMAIN raw' = 1 .. Len(raw')
    BY <2>1, <2>2, ListIs
  <2> QED BY <2>2, <2>3
<1>3. new.kind = kind /\ new.start = pos /\ new.end = q
  OBVIOUS
<1> HIDE DEF new, n
<1>4. \A i \in 1 .. n + 1 : i \in 1 .. n \/ i = n + 1
  BY <1>2
<1>5. Within'
  <2>1. q <= Len(src)
    <3>1. pos' \in 0 .. Len(src')
      BY DEF LInv, Typed
    <3>2. Len(src) \in Nat
      BY SourceIsText DEF LInv
    <3> QED BY <1>1, <3>1, <3>2
  <2>2. \A i \in 1 .. n + 1 : raw'[i].end <= Len(src')
    BY <1>1, <1>2, <1>3, <1>4, <2>1 DEF TriviaInv, Within
  <2> QED BY <1>2, <2>2 DEF Within
<1>6. OnOneLine'
  <2>1. \A x, y : NoBreak(x, y)' <=> NoBreak(x, y)
    BY <1>1 DEF NoBreak, At
  <2>2. \A i \in 1 .. n + 1 :
          raw'[i].kind \in {"space", "line-comment"} => NoBreak(raw'[i].start, raw'[i].end)
    BY <1>2, <1>3, <1>4 DEF TriviaInv, OnOneLine
  <2> QED BY <1>1, <1>2, <2>2 DEF OnOneLine, NoBreak, At
<1>7. AtEof' => pos' = Len(src')
  <2>1. AtEof' => kind = "eof"
    BY <1>2, <1>3 DEF AtEof
  <2> QED BY <1>1, <2>1
<1>8. HangOnce'
  BY <1>1 DEF HangOnce
<1> QED BY <1>5, <1>6, <1>7, <1>8 DEF TriviaInv

LEMMA TriviaInvHolds == Spec => [](LInv /\ TriviaInv)
<1>1. Init => TriviaInv
  BY DEF Init, TriviaInv, Within, OnOneLine, HangOnce, AtEof
<1>2. LInv /\ LInv' /\ TriviaInv /\ [Next]_vars => TriviaInv'
  <2> SUFFICES ASSUME LInv, LInv', TriviaInv, [Next]_vars PROVE TriviaInv'
    OBVIOUS
  <2>1. src \in Seq(Rune) /\ pos \in 0 .. Len(src)
    BY SourceIsText DEF LInv, Typed
  <2>2. AtEof => ~(pos < Len(src))
    BY <2>1 DEF TriviaInv
  <2>3. CASE \/ Space \/ Newline \/ LineComment \/ BlockComment
             \/ String \/ LongString \/ Quoted \/ FuncExpr
             \/ Color \/ Number \/ Ident \/ Operator \/ Punctuation \/ Unexpected
    <3>1. CleanStep /\ pos < Len(src)
      BY <2>1, <2>3, CutsClean
    <3>2. PICK kind, q, ok : /\ Emit(kind, q, ok) /\ kind # "eof"
                             /\ kind \in {"space", "line-comment"} => NoBreak(pos, q)
      BY <3>1, Zenon DEF CleanStep
    <3>3. tokens = << >>
      BY <2>2, <3>1 DEF TriviaInv, HangOnce
    <3> QED BY <3>2, <3>3, CutKeepsTrivia
  <2>4. CASE End
    <3>1. pos = Len(src) /\ ~AtEof /\ Emit("eof", pos, TRUE)
      BY <2>4 DEF End
    <3>2. tokens = << >>
      BY <3>1 DEF TriviaInv, HangOnce
    <3>3. "eof" \notin {"space", "line-comment"}
      OBVIOUS
    <3> QED BY <3>1, <3>2, <3>3, CutKeepsTrivia
  <2>5. CASE Attach
    <3>1. UNCHANGED <<src, pos, raw>> /\ AtEof /\ tokens' = Attached(raw)
      BY <2>5 DEF Attach, Attached
    <3>2. Within' /\ OnOneLine' /\ AtEof' /\ pos' = Len(src')
      BY <3>1 DEF TriviaInv, Within, OnOneLine, NoBreak, At, AtEof
    <3>3. Attached(raw)' = Attached(raw)
      BY <3>1
    <3> QED BY <3>1, <3>2, <3>3 DEF TriviaInv, HangOnce
  <2>6. CASE UNCHANGED vars
    <3>1. UNCHANGED <<src, pos, raw, tokens>>
      BY <2>6 DEF vars
    <3>2. Within' /\ OnOneLine' /\ (AtEof' => pos' = Len(src'))
      BY <3>1 DEF TriviaInv, Within, OnOneLine, NoBreak, At, AtEof
    <3>3. HangOnce'
      BY <3>1 DEF TriviaInv, HangOnce, AtEof
    <3> QED BY <3>2, <3>3 DEF TriviaInv
  <2> QED BY <2>3, <2>4, <2>5, <2>6 DEF Next
<1> QED BY <1>1, <1>2, InvariantHolds, PTL DEF Spec

\* Every comment and space of every text is kept, once and in order, with the
\* token that it is about: what trails a token is on its line.
THEOREM TriviaKept == Spec => []TriviaAttached
<1>1. LInv /\ TriviaInv => TriviaAttached
  <2> SUFFICES ASSUME LInv, TriviaInv PROVE TriviaAttached
    OBVIOUS
  <2>1. CASE tokens = << >>
    BY <2>1 DEF TriviaAttached, NothingLost, TrailsOnItsLine
  <2>2. CASE tokens # << >>
    <3> DEFINE N == Len(raw)
               n == Cardinality(Significant(raw))
               s == [k \in 1 .. n |-> Nth(raw, k)]
               b == Edges(raw, N, n, s)
    <3>1. /\ raw \in Seq(RawToken) /\ raw # << >> /\ raw[Len(raw)].kind = "eof"
          /\ tokens = Attached(raw) /\ pos <= Len(src)
      BY <2>2, SourceIsText DEF LInv, Typed, TriviaInv, HangOnce, AtEof
    <3>2. Listed(raw, N, n, s)
      BY <3>1, LastListed
    <3>3. AttachedAre(raw, n, s, tokens)
      BY <3>1, AttachedLists
    <3> HIDE DEF N, n, s
    <3>4. NothingLost
      <4>1. raw = FlattenSeq([k \in DOMAIN tokens |->
                                tokens[k].leading \o <<tokens[k].token>> \o tokens[k].trailing])
        BY <3>2, <3>3, PartsMakeAll
      <4> QED BY <4>1, Zenon DEF NothingLost
    <3>5. /\ DOMAIN tokens = 1 .. n /\ Len(tokens) = n /\ n \in Nat
          /\ \A k \in 1 .. n : /\ tokens[k].token = raw[s[k]]
                               /\ tokens[k].leading = Leading(raw, s[k])
                               /\ tokens[k].trailing = Trailing(raw, s[k])
      BY <3>2, <3>3 DEF AttachedAre, Listed
    <3>6. ASSUME NEW k \in 1 .. n
          PROVE  LET own == tokens[k]
                     end == OffsetToPosition(src, own.token.end).line
                 IN  /\ \A i \in DOMAIN own.trailing :
                          /\ own.trailing[i].line = end
                          /\ own.trailing[i].kind = "newline" => i = Len(own.trailing)
                     /\ k < n /\ tokens[k + 1].leading # << >> =>
                          \/ /\ own.trailing # << >>
                             /\ own.trailing[Len(own.trailing)].kind = "newline"
                          \/ tokens[k + 1].leading[1].kind = "block-comment"
      <4> DEFINE a == s[k]
                 trail == tokens[k].trailing
      <4>1. PartIs(raw, s, b, N, k)
        BY <3>2, PartsAre
      <4>2. tokens[k].token = raw[a] /\ IsSlice(trail, raw, a, b[k] - a)
        BY <3>5, <4>1 DEF PartIs
      <4>3. CASE k = n
        <5>1. trail = << >>
          <6>1. After(raw, s[k]) = 0
            BY <3>2, <4>3, Neighbours
          <6> QED BY <3>5, <6>1 DEF Trailing
        <5>2. DOMAIN trail = {} /\ ~(k < n)
          BY <3>5, <4>3, <5>1
        <5> QED BY <5>2
      <4>4. CASE k # n
        <5> DEFINE gap == Gap(raw, s, k)
                   d == TriviaSplit(gap)
                   x == s[k + 1]
                   m == x - a - 1
                   lead == tokens[k + 1].leading
        <5>1. /\ IsSlice(gap, raw, a, m) /\ gap \in Seq(RawToken)
              /\ a \in 1 .. N /\ x \in 1 .. N /\ a < x /\ d \in 0 .. m
          BY <3>2, <4>4, GapIs
        <5>2. k \in Nat /\ k + 1 \in 1 .. n /\ (k + 1) - 1 = k /\ k # 0 /\ k \in 0 .. n
          BY <3>5, <4>4
        <5>3. b[k] = a + d
          BY <4>4, <5>2 DEF Edges
        <5>4. PartIs(raw, s, b, N, k + 1)
          BY <3>2, <5>2, PartsAre
        <5>5. IsSlice(lead, raw, a + d, x - (a + d) - 1)
          <6> HIDE DEF a, x, lead, d, b
          <6>1. IsSlice(Leading(raw, x), raw, b[(k + 1) - 1], x - b[(k + 1) - 1] - 1)
            BY <5>4 DEF PartIs, x
          <6>2. lead = Leading(raw, x)
            BY <3>5, <5>2 DEF lead, x
          <6> QED BY <5>2, <5>3, <6>1, <6>2
        <5>6. IsSlice(trail, raw, a, d)
          <6> HIDE DEF a, trail, d, b
          <6>1. b[k] - a = d
            BY <3>2, <5>1, <5>3 DEF Listed
          <6> QED BY <4>2, <6>1
        <5> HIDE DEF trail, lead, d, gap, x, b
        <5>7. ASSUME NEW i \in DOMAIN trail
              PROVE  /\ trail[i].line = OffsetToPosition(src, raw[a].end).line
                     /\ trail[i].kind = "newline" => i = Len(trail)
          <6>1. i \in 1 .. d /\ trail[i] = raw[a + i] /\ Len(trail) = d
            BY <5>6, ListIs DEF IsSlice
          <6>2. /\ raw[a + i].line = OffsetToPosition(src, raw[a].end).line
                /\ raw[a + i].kind = "newline" => i = d
            <7>1. d = TriviaSplit(Gap(raw, s, k))
              BY DEF d, gap
            <7>2. OnOneLine /\ \A j \in DOMAIN raw : raw[j].end <= Len(src)
              BY DEF TriviaInv, Within
            <7> QED BY <3>1, <3>2, <4>4, <6>1, <7>1, <7>2, TrailsOn
          <6> QED BY <6>1, <6>2
        <5>8. ASSUME lead # << >>
              PROVE  \/ trail # << >> /\ trail[Len(trail)].kind = "newline"
                     \/ lead[1].kind = "block-comment"
          <6>1. d < m /\ lead[1] = raw[(a + d) + 1] /\ N \in Nat
            <7>1. IsList(lead) /\ Len(lead) = x - (a + d) - 1 /\ N \in Nat
              BY <3>2, <5>5 DEF IsSlice, Listed
            <7>2. Len(lead) >= 1
              BY <5>8, <7>1, TailList
            <7> HIDE DEF a
            <7>3. d < m /\ 1 \in 1 .. x - (a + d) - 1
              BY <5>1, <7>1, <7>2
            <7> QED BY <5>5, <7>1, <7>3 DEF IsSlice
          <6>2. Len(gap) = m /\ d \in Nat /\ m \in Nat
            BY <5>1, <6>1 DEF IsSlice
          <6>3. \/ d > 0 /\ gap[d].kind = "newline"
                \/ gap[d + 1].kind = "block-comment"
            BY <5>1, <6>1, <6>2, SplitIs DEF d
          <6>4. CASE d > 0 /\ gap[d].kind = "newline"
            <7>1. d \in 1 .. m /\ d \in 1 .. d
              BY <6>1, <6>2, <6>4
            <7>2. gap[d] = raw[a + d] /\ trail[d] = raw[a + d] /\ Len(trail) = d
              BY <5>1, <5>6, <7>1 DEF IsSlice
            <7>3. trail # << >>
              BY <6>4, <7>2, EmptyList
            <7> QED BY <6>4, <7>2, <7>3
          <6>5. CASE gap[d + 1].kind = "block-comment"
            <7> HIDE DEF a, m
            <7>0. a \in Nat /\ d \in Nat /\ m \in Nat /\ d < m
              <8>1. a \in 1 .. N /\ N \in Nat
                BY <5>1, <6>1
              <8> QED BY <6>1, <6>2, <8>1
            <7>1. d + 1 \in 1 .. m /\ a + (d + 1) = (a + d) + 1
              BY <7>0
            <7>2. gap[d + 1] = raw[a + (d + 1)]
              BY <5>1, <7>1 DEF IsSlice
            <7> QED BY <6>1, <6>5, <7>1, <7>2
          <6> QED BY <6>3, <6>4, <6>5
        <5> QED BY <4>2, <5>7, <5>8 DEF trail, lead
      <4> QED BY <4>3, <4>4
    <3>7. TrailsOnItsLine
      BY <3>5, <3>6 DEF TrailsOnItsLine
    <3> QED BY <3>4, <3>7 DEF TriviaAttached
  <2> QED BY <2>1, <2>2
<1> QED BY <1>1, TriviaInvHolds, PTL

-----------------------------------------------------------------------------
(* Positions of the editor, in any text. *)

Starts(t) == Editor!Starts(t)

\* The library's operators are the same in the instance.
LEMMA InstanceIs ==
  /\ \A S : Editor!Cardinality(S) = Cardinality(S)
  /\ \A ss : Editor!FlattenSeq(ss) = FlattenSeq(ss)
<1>1. \A S : Editor!Cardinality(S) = Cardinality(S)
  BY DEF Editor!Cardinality, Cardinality
<1>2. \A ss : Editor!FlattenSeq(ss) = FlattenSeq(ss)
  BY DEF Editor!FlattenSeq, FlattenSeq
<1> QED BY <1>1, <1>2

\* The lines of t: n of them, line l from offset at[l] on.
LineTable(t, n, at) ==
  /\ n \in Nat \ {0} /\ DOMAIN at = 1 .. n /\ Len(at) = n
  /\ at[1] = 0
  /\ \A l \in 1 .. n : at[l] \in Starts(t) /\ at[l] \in 0 .. Len(t)
  /\ \A l, m \in 1 .. n : l < m => at[l] < at[m]
  /\ \A p \in Starts(t) : \E l \in 1 .. n : at[l] = p
  /\ \A l \in 1 .. n : Rank(Starts(t), at[l]) = l

LEMMA LinesAre ==
  ASSUME NEW t, Len(t) \in Nat
  PROVE  LineTable(t, Cardinality(Starts(t)), Editor!Lines(t))
<1> DEFINE S == Starts(t)
           n == Cardinality(S)
           at == Editor!Lines(t)
<1>1. S \subseteq 0 .. Len(t) /\ 0 \in S
  BY DEF Starts, Editor!Starts
<1>2. at = [l \in 1 .. n |-> CHOOSE p \in S : Editor!Cardinality({q \in S : q <= p}) = l]
  BY InstanceIs DEF Editor!Lines, Starts
<1>2a. \A p : Editor!Cardinality({q \in S : q <= p}) = Rank(S, p)
  BY InstanceIs DEF Rank
<1> HIDE DEF S, n, at
<1>3. /\ IsFiniteSet(S) /\ Cardinality(S) \in Nat
      /\ \A p \in S : Rank(S, p) \in 1 .. Cardinality(S)
      /\ \A l \in 1 .. Cardinality(S) : \E p \in S : Rank(S, p) = l
  BY <1>1, RankIs
<1>4. n \in Nat \ {0}
  <2>1. Rank(S, 0) \in 1 .. Cardinality(S)
    BY <1>1, <1>3
  <2> QED BY <1>3, <2>1 DEF n
<1>5. \A l \in 1 .. n : at[l] \in S /\ Rank(S, at[l]) = l
  <2> TAKE l \in 1 .. n
  <2>1. at[l] = CHOOSE p \in S : Editor!Cardinality({q \in S : q <= p}) = l
    BY <1>2
  <2>2. \E p \in S : Editor!Cardinality({q \in S : q <= p}) = l
    BY <1>2a, <1>3 DEF n
  <2>3. at[l] \in S /\ Editor!Cardinality({q \in S : q <= at[l]}) = l
    BY <2>1, <2>2, Zenon
  <2> QED BY <1>2a, <2>3
<1>6. \A p \in S : p \in Nat /\ p \in 0 .. Len(t)
  BY <1>1
<1>7. Enumerates(at, n, S)
  BY <1>1, <1>5, RankEnumerates DEF n
<1>8. \A l, m \in 1 .. n : l < m => at[l] < at[m]
  BY <1>7 DEF Enumerates
<1>9. \A p \in S : \E l \in 1 .. n : at[l] = p
  BY <1>7 DEF Enumerates
<1>10. at[1] = 0
  <2>1. PICK l \in 1 .. n : at[l] = 0
    BY <1>1, <1>9
  <2>2. 1 \in 1 .. n /\ l \in Nat /\ 1 <= l
    BY <1>4
  <2>3. at[1] \in Nat
    BY <1>5, <1>6, <2>2
  <2>4. 1 < l => at[1] < at[l]
    BY <1>8, <2>2
  <2> QED BY <2>1, <2>2, <2>3, <2>4
<1>11. DOMAIN at = 1 .. n /\ Len(at) = n
  <2> DEFINE F(l) == CHOOSE p \in S : Editor!Cardinality({q \in S : q <= p}) = l
  <2>1. at = [l \in 1 .. n |-> at[l]]
    <3>1. at = [l \in 1 .. n |-> F(l)]
      BY <1>2
    <3> HIDE DEF F
    <3> QED BY <3>1
  <2>2. n \in Nat
    BY <1>4
  <2> QED BY <2>1, <2>2, MadeList
<1>12. \A l \in 1 .. n : at[l] \in S /\ at[l] \in 0 .. Len(t)
  BY <1>5, <1>6
<1>13. LineTable(t, n, at)
  BY <1>4, <1>5, <1>8, <1>9, <1>10, <1>11, <1>12 DEF LineTable, S
<1> QED BY <1>13 DEF n, S, at

\* Offset p is on line l of n.
OnLine(p, l, n, at) == l \in 1 .. n /\ at[l] <= p /\ (l < n => p < at[l + 1])

LEMMA LineOfIs ==
  ASSUME NEW t, Len(t) \in Nat, NEW n, NEW at, at = Editor!Lines(t), LineTable(t, n, at),
         NEW p \in 0 .. Len(t)
  PROVE  /\ OnLine(p, Editor!LineOf(t, p), n, at)
         /\ \A l : OnLine(p, l, n, at) => Editor!LineOf(t, p) = l
         /\ Rank(Starts(t), p) = Editor!LineOf(t, p)
<1> DEFINE L == {l \in 1 .. n : at[l] <= p}
           here == Editor!LineOf(t, p)
<1>1. /\ n \in Nat \ {0} /\ DOMAIN at = 1 .. n /\ at[1] = 0 /\ p \in Nat
      /\ \A l \in 1 .. n : at[l] \in Nat /\ at[l] \in Starts(t)
      /\ \A l, m \in 1 .. n : l < m => at[l] < at[m]
  BY DEF LineTable
<1>2. here = CHOOSE l \in 1 .. n : at[l] <= p /\ \A m \in 1 .. n : at[m] <= p => m <= l
  BY <1>1 DEF Editor!LineOf
<1>3. \E l \in 1 .. n : at[l] <= p /\ \A m \in 1 .. n : at[m] <= p => m <= l
  <2>1. 1 \in L /\ L \subseteq 0 .. n /\ n \in Nat
    BY <1>1
  <2>2. PICK l \in L : \A m \in L : m <= l
    <3> HIDE DEF L
    <3> QED BY <2>1, HasGreatest
  <2> QED BY <2>2
<1> HIDE DEF here
<1>4. here \in 1 .. n /\ at[here] <= p /\ \A m \in 1 .. n : at[m] <= p => m <= here
  BY <1>2, <1>3, Zenon
<1>5. OnLine(p, here, n, at)
  <2>1. here < n => here + 1 \in 1 .. n /\ ~(here + 1 <= here)
    BY <1>1, <1>4
  <2>2. here < n => ~(at[here + 1] <= p) /\ at[here + 1] \in Nat
    BY <1>1, <1>4, <2>1
  <2> QED BY <1>1, <1>4, <2>2 DEF OnLine
<1>6. ASSUME NEW l, OnLine(p, l, n, at) PROVE here = l
  <2>1. l \in 1 .. n /\ at[l] <= p /\ (l < n => p < at[l + 1])
    BY <1>6 DEF OnLine
  <2>2. l <= here /\ l \in Nat /\ here \in Nat /\ here <= n
    BY <1>1, <1>4, <2>1
  <2>3. ~(l < here)
    <3> SUFFICES ASSUME l < here PROVE FALSE
      OBVIOUS
    <3>1. l + 1 \in 1 .. n /\ l < n /\ (l + 1 = here \/ l + 1 < here)
      BY <1>1, <2>1, <2>2
    <3>2. at[l + 1] \in Nat /\ at[here] \in Nat
      BY <1>1, <1>4, <3>1
    <3>3. at[l + 1] <= at[here]
      <4>1. l + 1 < here => at[l + 1] < at[here]
        BY <1>1, <1>4, <3>1
      <4> QED BY <3>1, <3>2, <4>1
    <3> QED BY <1>1, <1>4, <2>1, <3>1, <3>2, <3>3
  <2> QED BY <2>2, <2>3
<1>7. Rank(Starts(t), p) = here
  <2>1. \A q \in Starts(t) : q <= p <=> q <= at[here]
    <3> TAKE q \in Starts(t)
    <3>1. PICK m \in 1 .. n : at[m] = q
      BY DEF LineTable
    <3>2. at[m] <= p => m <= here
      BY <1>4
    <3>3. m < here => at[m] < at[here]
      BY <1>1, <1>4
    <3>4. m \in Nat /\ here \in Nat /\ at[m] \in Nat /\ at[here] \in Nat
      BY <1>1, <1>4
    <3> QED BY <1>1, <1>4, <3>1, <3>2, <3>3, <3>4
  <2>2. {q \in Starts(t) : q <= p} = {q \in Starts(t) : q <= at[here]}
    BY <2>1
  <2>3. Rank(Starts(t), p) = Rank(Starts(t), at[here])
    BY <2>2 DEF Rank
  <2> QED BY <1>4, <2>3 DEF LineTable
<1>8. \A l : OnLine(p, l, n, at) => here = l
  BY <1>6
<1> QED BY <1>5, <1>7, <1>8 DEF here

\* A rune counts for one unit or for two.
LEMMA UnitsGrow ==
  ASSUME NEW t, NEW p \in Nat, NEW q \in Nat, p <= q
  PROVE  /\ Editor!Units(t, p, q) \in Nat
         /\ Editor!Units(t, p, p) = 0
         /\ Editor!Units(t, p, q + 1) =
              Editor!Units(t, p, q) + (IF t[q + 1] = "wide" THEN 2 ELSE 1)
         /\ \A r \in Nat : q < r => Editor!Units(t, p, q) < Editor!Units(t, p, r)
<1> DEFINE W(r) == {i \in p + 1 .. r : t[i] = "wide"}
           c(r) == Cardinality(W(r))
<1>1. \A r \in Nat : IsFiniteSet(W(r)) /\ c(r) \in Nat
  <2> TAKE r \in Nat
  <2>1. IsFiniteSet(p + 1 .. r) /\ W(r) \subseteq p + 1 .. r
    BY FS_Interval
  <2>2. IsFiniteSet(W(r))
    <3> HIDE DEF W
    <3> QED BY <2>1, FS_Subset
  <2> HIDE DEF W
  <2> QED BY <2>2, FS_CardinalityType
<1>2. \A r \in Nat : Editor!Units(t, p, r) = (r - p) + c(r)
  BY InstanceIs DEF Editor!Units
<1>3. c(p) = 0
  <2>1. W(p) = {}
    OBVIOUS
  <2> HIDE DEF W
  <2> QED BY <2>1, FS_EmptySet
<1>4. c(q + 1) = c(q) + (IF t[q + 1] = "wide" THEN 1 ELSE 0)
  <2>1. q + 1 \notin W(q) /\ q \in Nat
    OBVIOUS
  <2>2. CASE t[q + 1] = "wide"
    <3>1. W(q + 1) = W(q) \cup {q + 1}
      BY <2>2
    <3> HIDE DEF W
    <3>2. c(q + 1) = c(q) + 1
      BY <1>1, <2>1, <3>1, FS_AddElement
    <3> QED BY <2>2, <3>2
  <2>3. CASE t[q + 1] # "wide"
    <3>1. W(q + 1) = W(q)
      BY <2>3
    <3> HIDE DEF W
    <3> QED BY <1>1, <2>1, <2>3, <3>1
  <2> QED BY <2>2, <2>3
<1>5. \A r \in Nat : q < r => c(q) <= c(r)
  <2> TAKE r \in Nat
  <2> SUFFICES ASSUME q < r PROVE c(q) <= c(r)
    OBVIOUS
  <2>1. W(q) \in SUBSET W(r)
    OBVIOUS
  <2>2. IsFiniteSet(W(r))
    BY <1>1
  <2> HIDE DEF W
  <2> QED BY <2>1, <2>2, FS_Subset
<1>6. q + 1 \in Nat /\ c(q) \in Nat
  BY <1>1
<1> HIDE DEF c, W
<1>7. Editor!Units(t, p, q) \in Nat /\ Editor!Units(t, p, p) = 0
  BY <1>1, <1>2, <1>3
<1>8. Editor!Units(t, p, q + 1) = Editor!Units(t, p, q) + (IF t[q + 1] = "wide" THEN 2 ELSE 1)
  BY <1>2, <1>4, <1>6
<1>9. \A r \in Nat : q < r => Editor!Units(t, p, q) < Editor!Units(t, p, r)
  <2> TAKE r \in Nat
  <2>1. c(r) \in Nat
    BY <1>1
  <2> QED BY <1>2, <1>5, <1>6, <2>1
<1> QED BY <1>7, <1>8, <1>9
-----------------------------------------------------------------------------
(* There and back. *)

\* A text, a list of N runes.
IsText(t, N) == N \in Nat /\ Len(t) = N /\ t = [i \in 1 .. N |-> t[i]]

\* The place of offset p of t: line l, from offset s to offset e.
PlaceOf(t, N, p, l, s, e) ==
  /\ OnLine(p, l, Len(Editor!Lines(t)), Editor!Lines(t))
  /\ Editor!RuneOffsetToPosition(t, p) = [line |-> l - 1, character |-> Editor!Units(t, s, p)]
  /\ s = Editor!Lines(t)[l] /\ e = Editor!LineEnd(t, l)
  /\ s \in Nat /\ e \in s .. N /\ p \in s .. e

LEMMA OffsetHasPlace ==
  ASSUME NEW t, NEW N, IsText(t, N), NEW p \in 0 .. N
  PROVE  PlaceOf(t, N, p, Editor!LineOf(t, p), Editor!Lines(t)[Editor!LineOf(t, p)],
                 Editor!LineEnd(t, Editor!LineOf(t, p)))
<1> DEFINE at == Editor!Lines(t)
           n == Cardinality(Starts(t))
           l == Editor!LineOf(t, p)
           e == Editor!LineEnd(t, l)
<1>0. N \in Nat /\ Len(t) = N
  BY DEF IsText
<1>1. LineTable(t, n, at) /\ Len(at) = n
  BY <1>0, LinesAre DEF LineTable
<1>2. Editor!RuneOffsetToPosition(t, p) = [line |-> l - 1, character |-> Editor!Units(t, at[l], p)]
  BY <1>0 DEF Editor!RuneOffsetToPosition
<1>3. e = IF l < Len(at) THEN at[l + 1] - 1 ELSE Len(t)
  BY DEF Editor!LineEnd
<1> HIDE DEF n
<1>4. OnLine(p, l, n, at)
  <2> HIDE DEF l
  <2> DEFINE T == at
  <2>1. T = at
    OBVIOUS
  <2> QED BY <1>0, <1>1, LineOfIs DEF l
<1> HIDE DEF at, l, e
<1>5. n \in Nat /\ l \in 1 .. n /\ at[l] <= p /\ (l < n => p < at[l + 1])
  BY <1>1, <1>4 DEF OnLine, LineTable
<1>6. at[l] \in 0 .. N /\ (l < n => at[l + 1] \in 0 .. N)
  <2>1. \A m \in 1 .. n : at[m] \in 0 .. N
    BY <1>0, <1>1 DEF LineTable
  <2>2. l < n => l + 1 \in 1 .. n
    BY <1>5
  <2> QED BY <1>5, <2>1, <2>2
<1>7. e \in p .. N
  <2>1. CASE l < n
    BY <1>0, <1>1, <1>3, <1>5, <1>6, <2>1
  <2>2. CASE ~(l < n)
    BY <1>0, <1>1, <1>3, <2>2
  <2> QED BY <2>1, <2>2
<1>8. at[l] \in Nat /\ e \in at[l] .. N /\ p \in at[l] .. e
  BY <1>0, <1>5, <1>6, <1>7
<1> QED BY <1>1, <1>2, <1>4, <1>8 DEF PlaceOf, at, l, e

\* What a position on line l of the text is taken for.
Nearest(t, p, l, s, e) ==
  LET off == Editor!PositionToRuneOffset(t, p)
  IN  /\ off \in s .. e
      /\ off = e \/ Editor!Units(t, s, off) >= p.character
      /\ \A j \in s .. off - 1 : Editor!Units(t, s, j) < p.character

LEMMA PositionIsNearest ==
  ASSUME NEW t, NEW N, IsText(t, N), NEW p, p.line \in 0 .. Len(Editor!Lines(t)) - 1,
         NEW l, l = p.line + 1, NEW s, s = Editor!Lines(t)[l], NEW e, e = Editor!LineEnd(t, l),
         p.character \in Int
  PROVE  /\ s \in Nat /\ e \in s .. N
         /\ l \in 1 .. Len(Editor!Lines(t))
         /\ Nearest(t, p, l, s, e)
         /\ l < Len(Editor!Lines(t)) => e + 1 = Editor!Lines(t)[l + 1]
<1> DEFINE at == Editor!Lines(t)
           n == Cardinality(Starts(t))
           off == Editor!PositionToRuneOffset(t, p)
<1>0. N \in Nat /\ Len(t) = N
  BY DEF IsText
<1>1. LineTable(t, n, at) /\ Len(at) = n /\ n \in Nat
  BY <1>0, LinesAre DEF LineTable
<1>2. e = IF l < Len(at) THEN at[l + 1] - 1 ELSE Len(t)
  BY DEF Editor!LineEnd
<1>3. off = CHOOSE i \in s .. e :
              /\ i = e \/ Editor!Units(t, s, i) >= p.character
              /\ \A j \in s .. i - 1 : Editor!Units(t, s, j) < p.character
  <2>1. ~(p.line < 0) /\ ~(p.line >= Len(at))
    <3> HIDE DEF n, at
    <3> QED BY <1>1 DEF at
  <2> QED BY <2>1, Zenon DEF Editor!PositionToRuneOffset
<1> HIDE DEF n, at, off
<1>4. l \in 1 .. n
  BY <1>1 DEF at
<1>5. s \in Nat /\ e \in s .. N /\ (l < n => e + 1 = at[l + 1])
  <2>1. \A m \in 1 .. n : at[m] \in 0 .. N
    BY <1>0, <1>1 DEF LineTable
  <2>2. s \in 0 .. N
    BY <1>4, <2>1 DEF at
  <2>3. CASE l < n
    <3>1. l + 1 \in 1 .. n
      BY <1>1, <1>4, <2>3
    <3>2. at[l] < at[l + 1] /\ at[l + 1] \in 0 .. N
      BY <1>1, <1>4, <2>1, <2>3, <3>1 DEF LineTable
    <3>3. e = at[l + 1] - 1
      BY <1>1, <1>2, <2>3
    <3>4. s < at[l + 1]
      BY <3>2 DEF at
    <3> DEFINE next == at[l + 1]
    <3> HIDE DEF next
    <3>5. next \in 0 .. N /\ s < next /\ e = next - 1
      BY <3>2, <3>3, <3>4 DEF next
    <3>6. s \in Nat /\ e \in s .. N /\ e + 1 = next
      BY <1>0, <2>2, <3>5
    <3> QED BY <2>3, <3>6 DEF next
  <2>4. CASE ~(l < n)
    BY <1>0, <1>1, <1>2, <2>2, <2>4
  <2> QED BY <2>3, <2>4
<1>6. \E i \in s .. e :
        /\ i = e \/ Editor!Units(t, s, i) >= p.character
        /\ \A j \in s .. i - 1 : Editor!Units(t, s, j) < p.character
  <2> DEFINE G == {i \in s .. e : i = e \/ Editor!Units(t, s, i) >= p.character}
  <2>1. G \subseteq Nat /\ e \in G
    BY <1>5
  <2>2. PICK i \in G : \A j \in G : i <= j
    <3> HIDE DEF G
    <3> QED BY <2>1, HasLeast
  <2>3. ASSUME NEW j \in s .. i - 1 PROVE Editor!Units(t, s, j) < p.character
    <3>1. i \in s .. e /\ i \in Nat /\ e \in Nat
      BY <1>5
    <3>2. j \in s .. e /\ j # e /\ ~(i <= j) /\ j \in Nat
      BY <1>5, <3>1
    <3>3. j \notin G
      <4> HIDE DEF G
      <4> QED BY <2>2, <3>2
    <3>4. ~(Editor!Units(t, s, j) >= p.character)
      BY <3>2, <3>3
    <3>5. Editor!Units(t, s, j) \in Nat
      <4>1. s \in Nat /\ j \in Nat /\ s <= j
        BY <1>5, <3>2
      <4> HIDE DEF G
      <4> QED BY <4>1, UnitsGrow
    <3> HIDE DEF G
    <3> QED BY <3>4, <3>5
  <2> QED BY <2>2, <2>3
<1>7. Nearest(t, p, l, s, e)
  <2>1. /\ off \in s .. e
        /\ off = e \/ Editor!Units(t, s, off) >= p.character
        /\ \A j \in s .. off - 1 : Editor!Units(t, s, j) < p.character
    BY <1>3, <1>6, Zenon
  <2> QED BY <2>1 DEF Nearest, off
<1> QED BY <1>1, <1>4, <1>5, <1>7 DEF at
\* The offset of a place is the place's offset.
LEMMA ThereAndBack ==
  ASSUME NEW t, NEW N, IsText(t, N), NEW p \in 0 .. N
  PROVE  Editor!PositionToRuneOffset(t, Editor!RuneOffsetToPosition(t, p)) = p
<1> DEFINE n == Len(Editor!Lines(t))
           l == Editor!LineOf(t, p)
           s == Editor!Lines(t)[l]
           e == Editor!LineEnd(t, l)
           place == Editor!RuneOffsetToPosition(t, p)
           off == Editor!PositionToRuneOffset(t, place)
<1>1. PlaceOf(t, N, p, l, s, e)
  BY OffsetHasPlace
<1>2. /\ l \in 1 .. n /\ n \in Nat
      /\ place = [line |-> l - 1, character |-> Editor!Units(t, s, p)]
      /\ s \in Nat /\ e \in s .. N /\ p \in s .. e
  <2>1. n \in Nat
    <3>1. Len(t) \in Nat
      BY DEF IsText
    <3> QED BY <3>1, LinesAre DEF LineTable
  <2> HIDE DEF l, n
  <2> QED BY <1>1, <2>1 DEF PlaceOf, OnLine, n
<1>3. /\ place.line = l - 1 /\ place.character = Editor!Units(t, s, p)
      /\ Editor!Units(t, s, p) \in Nat
  <2>1. p \in Nat /\ s <= p
    BY <1>2
  <2>2. Editor!Units(t, s, p) \in Nat
    <3> HIDE DEF s
    <3> QED BY <1>2, <2>1, UnitsGrow
  <2> HIDE DEF l, s, place
  <2> QED BY <1>2, <2>2
<1>4. Nearest(t, place, l, s, e)
  <2>1. place.line \in 0 .. n - 1 /\ l = place.line + 1 /\ place.character \in Int
    <3> HIDE DEF l, s, n, place
    <3> QED BY <1>2, <1>3
  <2> HIDE DEF place, l
  <2> QED BY <2>1, PositionIsNearest DEF n
<1>5. /\ off \in s .. e
      /\ off = e \/ Editor!Units(t, s, off) >= Editor!Units(t, s, p)
      /\ \A j \in s .. off - 1 : Editor!Units(t, s, j) < Editor!Units(t, s, p)
  BY <1>3, <1>4, Zenon DEF Nearest
<1> HIDE DEF off, s, e, l, n, place
<1>6. off \in Nat /\ p \in Nat /\ s <= off /\ s <= p /\ off <= e /\ p <= e
  BY <1>2, <1>5
<1>7. ~(off < p)
  <2> SUFFICES ASSUME off < p PROVE FALSE
    OBVIOUS
  <2>1. Editor!Units(t, s, off) < Editor!Units(t, s, p) /\ Editor!Units(t, s, off) \in Nat
    BY <1>2, <1>6, UnitsGrow
  <2>2. off # e
    BY <1>2, <1>6
  <2> QED BY <1>3, <1>5, <2>1, <2>2
<1>8. ~(p < off)
  <2> SUFFICES ASSUME p < off PROVE FALSE
    OBVIOUS
  <2>1. p \in s .. off - 1
    BY <1>2, <1>6
  <2>2. Editor!Units(t, s, p) < Editor!Units(t, s, p)
    BY <1>5, <2>1
  <2> QED BY <1>3, <2>2
<1>9. off = p
  BY <1>6, <1>7, <1>8
<1> QED BY <1>9 DEF off, place

\* A position that is none of the text stays on its line, behind all that precedes it.
LEMMA StaysOnLine ==
  ASSUME NEW t, NEW N, IsText(t, N), NEW p, p.line \in 0 .. Len(Editor!Lines(t)) - 1,
         p.character \in Int, NEW off, off = Editor!PositionToRuneOffset(t, p)
  PROVE  /\ off \in 0 .. N
         /\ Editor!RuneOffsetToPosition(t, off).line = p.line
         /\ \A other \in 0 .. N :
              Editor!Precedes(Editor!RuneOffsetToPosition(t, other), p) => other <= off
<1> DEFINE at == Editor!Lines(t)
           n == Len(at)
           l == p.line + 1
           s == at[l]
           e == Editor!LineEnd(t, l)
<1>1. /\ s \in Nat /\ e \in s .. N /\ l \in 1 .. n /\ Nearest(t, p, l, s, e)
      /\ l < n => e + 1 = at[l + 1]
  <2>1. l = p.line + 1 /\ s = Editor!Lines(t)[l] /\ e = Editor!LineEnd(t, l)
    OBVIOUS
  <2> HIDE DEF l, s, e
  <2> QED BY <2>1, PositionIsNearest
<1>2. /\ off \in s .. e
      /\ off = e \/ Editor!Units(t, s, off) >= p.character
      /\ \A j \in s .. off - 1 : Editor!Units(t, s, j) < p.character
  BY <1>1, Zenon DEF Nearest
<1>3. N \in Nat /\ LineTable(t, n, at)
  <2>1. Len(t) \in Nat /\ N \in Nat
    BY DEF IsText
  <2>2. LineTable(t, Cardinality(Starts(t)), at)
    BY <2>1, LinesAre
  <2>3. n = Cardinality(Starts(t))
    BY <2>2 DEF LineTable
  <2> HIDE DEF n, at
  <2> QED BY <2>1, <2>2, <2>3
<1>4. \A m \in 1 .. n : at[m] \in 0 .. N /\ at[m] \in Nat
  BY <1>3 DEF LineTable, IsText
<1>5. n \in Nat /\ \A a, b \in 1 .. n : a < b => at[a] < at[b]
  BY <1>3 DEF LineTable
<1> HIDE DEF at, n, e
<1>6. off \in 0 .. N
  <2> HIDE DEF s, l
  <2> QED BY <1>1, <1>2, <1>3
<1>7. OnLine(off, l, n, at)
  <2>1. l < n => off < at[l + 1]
    <3>1. l < n => l + 1 \in 1 .. n
      BY <1>1, <1>5
    <3> HIDE DEF s, l
    <3> QED BY <1>1, <1>2, <1>3, <1>4, <3>1
  <2> HIDE DEF l
  <2> QED BY <1>1, <1>2, <2>1 DEF OnLine, s
<1>8. Editor!LineOf(t, off) = l
  <2>1. Len(t) = N
    BY DEF IsText
  <2> HIDE DEF l
  <2> QED BY <1>3, <1>6, <1>7, <2>1, LineOfIs DEF at
<1>9. Editor!RuneOffsetToPosition(t, off).line = p.line
  <2>1. Editor!RuneOffsetToPosition(t, off).line = l - 1
    <3> DEFINE place == Editor!RuneOffsetToPosition(t, off)
    <3>1. place = [line |-> l - 1, character |-> Editor!Units(t, Editor!Lines(t)[l], off)]
      <4> HIDE DEF l
      <4> QED BY <1>6, <1>8, OffsetHasPlace DEF PlaceOf
    <3> HIDE DEF place, l
    <3> QED BY <3>1 DEF place
  <2>2. p.line \in Int
    BY <1>5 DEF n, at
  <2> QED BY <2>1, <2>2
<1>10. ASSUME NEW other \in 0 .. N, Editor!Precedes(Editor!RuneOffsetToPosition(t, other), p)
       PROVE  other <= off
  <2> DEFINE place == Editor!RuneOffsetToPosition(t, other)
             m == Editor!LineOf(t, other)
  <2>1. PlaceOf(t, N, other, m, at[m], Editor!LineEnd(t, m))
    BY <1>10, OffsetHasPlace DEF at
  <2> HIDE DEF m
  <2>2. /\ OnLine(other, m, n, at)
        /\ place = [line |-> m - 1, character |-> Editor!Units(t, at[m], other)]
    BY <2>1 DEF PlaceOf, n, at
  <2>3. place.line = m - 1 /\ place.character = Editor!Units(t, at[m], other)
    <3> HIDE DEF place
    <3> QED BY <2>2
  <2>4. /\ m \in 1 .. n /\ at[m] <= other /\ (m < n => other < at[m + 1])
        /\ m \in Nat /\ other \in Nat /\ p.line \in Nat
    <3>1. m \in 1 .. n /\ at[m] <= other /\ (m < n => other < at[m + 1])
      BY <2>2 DEF OnLine
    <3>2. p.line \in Nat
      BY <1>5 DEF n, at
    <3> HIDE DEF place
    <3> QED BY <1>3, <1>5, <3>1, <3>2
  <2>5. place.line < p.line \/ (place.line = p.line /\ place.character < p.character)
    BY <1>10 DEF Editor!Precedes
  <2> HIDE DEF place
  <2>6. CASE place.line < p.line
    <3>1. m < l /\ m < n /\ m + 1 \in 1 .. n /\ (m + 1 = l \/ m + 1 < l)
      BY <1>1, <1>5, <2>3, <2>4, <2>6
    <3>2. at[m + 1] \in Nat /\ s \in Nat /\ (m + 1 < l => at[m + 1] < at[l])
      BY <1>1, <1>4, <1>5, <3>1
    <3>3. at[m + 1] <= s
      <4> HIDE DEF l
      <4> QED BY <3>1, <3>2 DEF s
    <3> HIDE DEF s, l
    <3> QED BY <1>1, <1>2, <2>4, <3>1, <3>2, <3>3
  <2>7. CASE place.line = p.line /\ place.character < p.character
    <3>1. m = l
      BY <2>3, <2>4, <2>7
    <3>2. Editor!Units(t, s, other) < p.character
      BY <2>3, <2>7, <3>1
    <3> SUFFICES ASSUME ~(other <= off) PROVE FALSE
      OBVIOUS
    <3> HIDE DEF l
    <3>3. other <= e
      <4>1. CASE l < n
        <5>1. e + 1 = at[l + 1] /\ other < at[l + 1]
          BY <1>1, <2>4, <3>1, <4>1
        <5> HIDE DEF s
        <5> QED BY <1>1, <2>4, <5>1
      <4>2. CASE ~(l < n)
        <5>1. e = N
          <6>1. e = IF l < Len(at) THEN at[l + 1] - 1 ELSE Len(t)
            BY DEF Editor!LineEnd, e, at
          <6> QED BY <4>2, <6>1 DEF IsText, n
        <5> QED BY <1>3, <5>1
      <4> QED BY <4>1, <4>2
    <3> HIDE DEF s
    <3>4. off \in Nat /\ s <= off /\ off < other /\ off # e
      BY <1>1, <1>2, <2>4, <3>3
    <3>5. Editor!Units(t, s, off) < Editor!Units(t, s, other) /\ Editor!Units(t, s, off) \in Nat
      BY <1>1, <2>4, <3>4, UnitsGrow
    <3>6. Editor!Units(t, s, other) \in Nat
      <4>1. s <= other
        BY <1>1, <2>4, <3>4
      <4> QED BY <1>1, <2>4, <4>1, UnitsGrow
    <3> QED BY <1>2, <3>2, <3>4, <3>5, <3>6
  <2> QED BY <2>5, <2>6, <2>7
<1> QED BY <1>6, <1>9, <1>10
\* Units are counted as the editor's text has them.
LEMMA UnitsAreEncoded ==
  ASSUME NEW t, NEW N, IsText(t, N), NEW a \in 0 .. N, NEW b \in a .. N
  PROVE  Len(Editor!Encoded(SubSeq(t, a + 1, b))) = Editor!Units(t, a, b)
<1> DEFINE T == {t[i] : i \in 1 .. N}
           sub == SubSeq(t, a + 1, b)
           k == b - a
           part(r) == IF r = "wide" THEN <<"high", "low">> ELSE <<r>>
           parts == [i \in DOMAIN sub |-> part(sub[i])]
<1>1. N \in Nat /\ a \in Nat /\ b \in Nat /\ k \in Nat /\ a <= b /\ b <= N
  BY DEF IsText
<1>2. sub \in Seq(T) /\ Len(sub) = k /\ \A i \in 1 .. k : sub[i] = t[a + i]
  <2>1. \A i \in a + 1 .. b : t[i] \in T
    BY <1>1
  <2> HIDE DEF T
  <2>2. /\ SubSeq(t, a + 1, b) \in Seq(T)
        /\ Len(SubSeq(t, a + 1, b)) = IF a + 1 <= b THEN b - (a + 1) + 1 ELSE 0
        /\ \A i \in 1 .. b - (a + 1) + 1 : SubSeq(t, a + 1, b)[i] = t[a + 1 + i - 1]
    <3>1. a + 1 \in Int /\ b \in Int
      BY <1>1
    <3> QED BY <2>1, <3>1, SubSeqProperties
  <2>3. (IF a + 1 <= b THEN b - (a + 1) + 1 ELSE 0) = k /\ b - (a + 1) + 1 = k
    BY <1>1
  <2>4. \A i \in 1 .. k : a + 1 + i - 1 = a + i
    BY <1>1
  <2> QED BY <2>2, <2>3, <2>4
<1> HIDE DEF sub, T
<1>3. DOMAIN sub = 1 .. k
  BY <1>2
<1>4. DOMAIN parts = 1 .. k /\ \A i \in 1 .. k : parts[i] = part(t[a + i])
  BY <1>2, <1>3
<1>5. \A r : IsList(part(r)) /\ Len(part(r)) = IF r = "wide" THEN 2 ELSE 1
  <2>1. \A r : <<r>> \in Seq({r}) /\ Len(<<r>>) = 1
    OBVIOUS
  <2>2. <<"high", "low">> \in Seq({"high", "low"}) /\ Len(<<"high", "low">>) = 2
    OBVIOUS
  <2>3. \A r : IsList(<<r>>)
    BY <2>1, SeqIsList
  <2>4. IsList(<<"high", "low">>)
    BY <2>2, SeqIsList
  <2> QED BY <2>1, <2>2, <2>3, <2>4
<1>6. Len(parts) = k /\ IsListOfLists(parts)
  <2>1. parts = [i \in 1 .. k |-> parts[i]]
    BY <1>3
  <2> HIDE DEF parts, part, k
  <2>2. IsList(parts) /\ Len(parts) = k
    BY <1>1, <2>1, MadeList
  <2> QED BY <1>4, <1>5, <2>2 DEF IsListOfLists
<1>7. Editor!Encoded(sub) = FlattenSeq(parts)
  <2>1. Editor!Encoded(sub) = Editor!FlattenSeq(parts)
    BY DEF Editor!Encoded
  <2> QED BY <2>1, InstanceIs
<1> HIDE DEF parts, part
<1>8. PICK at : Offsets(at, parts)
  BY <1>6, FlattenOffsets
<1> HIDE DEF k
<1>9. /\ at[0] = 0 /\ at[k] = Len(FlattenSeq(parts))
      /\ \A i \in 1 .. k : at[i] = at[i - 1] + (IF t[a + i] = "wide" THEN 2 ELSE 1)
  <2>1. /\ at[0] = 0 /\ at[k] = Len(FlattenSeq(parts))
        /\ \A i \in 1 .. k : at[i] = at[i - 1] + Len(parts[i])
    BY <1>6, <1>8 DEF Offsets
  <2> QED BY <1>4, <1>5, <2>1
<1>10. \A i \in 0 .. k : at[i] = Editor!Units(t, a, a + i)
  <2> DEFINE Bad == {i \in 0 .. k : at[i] # Editor!Units(t, a, a + i)}
  <2>1. Bad \subseteq Nat
    BY <1>1
  <2>2. ASSUME NEW i \in Bad, \A j \in Bad : i <= j PROVE FALSE
    <3>1. i \in 0 .. k /\ i \in Nat /\ at[i] # Editor!Units(t, a, a + i)
      OBVIOUS
    <3>2. i # 0
      <4>1. Editor!Units(t, a, a) = 0
        BY <1>1, UnitsGrow
      <4>2. a + 0 = a
        BY <1>1
      <4> HIDE DEF Bad
      <4> QED BY <1>9, <3>1, <4>1, <4>2
    <3>3. i \in 1 .. k /\ i - 1 \in 0 .. k /\ ~(i <= i - 1) /\ i - 1 \in Nat
      BY <1>1, <3>1, <3>2
    <3>4. i - 1 \notin Bad
      <4> HIDE DEF Bad
      <4> QED BY <2>2, <3>3
    <3>5. at[i - 1] = Editor!Units(t, a, a + (i - 1))
      BY <3>3, <3>4
    <3> HIDE DEF Bad
    <3>6. /\ a + (i - 1) \in Nat /\ a <= a + (i - 1)
          /\ (a + (i - 1)) + 1 = a + i
      BY <1>1, <3>3
    <3>7. Editor!Units(t, a, a + i) =
            Editor!Units(t, a, a + (i - 1)) + (IF t[a + i] = "wide" THEN 2 ELSE 1)
      <4> DEFINE q == a + (i - 1)
      <4>1. q \in Nat /\ a <= q /\ q + 1 = a + i
        BY <3>6
      <4> HIDE DEF q
      <4>2. Editor!Units(t, a, q + 1) = Editor!Units(t, a, q) + (IF t[q + 1] = "wide" THEN 2 ELSE 1)
        BY <1>1, <4>1, UnitsGrow
      <4> QED BY <4>1, <4>2 DEF q
    <3> QED BY <1>9, <3>1, <3>3, <3>5, <3>7
  <2>3. Bad = {}
    <3> HIDE DEF Bad
    <3> QED BY <2>1, <2>2, HasLeast
  <2> QED BY <2>3
<1>11. a + k = b /\ k \in 0 .. k
  BY <1>1 DEF k
<1> QED BY <1>7, <1>9, <1>10, <1>11 DEF sub

-----------------------------------------------------------------------------
(* The places of tokens. *)

LEMMA SeenIsText ==
  ASSUME src \in Seq(Rune)
  PROVE  /\ IsText(Seen, Len(src))
         /\ Starts(Seen) = LineOffsets(src)
<1> DEFINE N == Len(src)
           R(r) == CASE r = LF -> "lf" [] r = CR -> "cr" [] r = "?" -> "wide" [] OTHER -> "narrow"
<1>1. N \in Nat /\ DOMAIN src = 1 .. N
  OBVIOUS
<1>2. Seen = [i \in 1 .. N |-> R(src[i])]
  BY <1>1 DEF Seen
<1>3. \A r : R(r) = "lf" <=> r = LF
  BY DEF LF, CR
<1> HIDE DEF N, R
<1>4. DOMAIN Seen = 1 .. N /\ \A i \in 1 .. N : Seen[i] = R(src[i])
  BY <1>2
<1>5. Seen = [i \in 1 .. N |-> Seen[i]]
  BY <1>2
<1>6. Len(Seen) = N
  BY <1>1, <1>5, MadeList
<1>7. {0} \cup {p \in 1 .. Len(Seen) : Seen[p] = "lf"} = {0} \cup {p \in 1 .. N : src[p] = LF}
  BY <1>3, <1>4, <1>6
<1>8. Starts(Seen) = LineOffsets(src)
  BY <1>7 DEF Starts, Editor!Starts, LineOffsets, N
<1> QED BY <1>1, <1>5, <1>6, <1>8 DEF IsText, N

LEMMA EditorAgrees ==
  ASSUME src \in Seq(Rune)
  PROVE  Editor!RoundTrip /\ Editor!Clamped
<1> DEFINE N == Len(src)
<1>1. IsText(Seen, N)
  BY SeenIsText
<1>2. N \in Nat /\ Len(Seen) = N /\ Editor!Offsets = 0 .. N
  BY <1>1 DEF IsText, Editor!Offsets
<1> HIDE DEF N
<1>3. Editor!RoundTrip
  <2>1. ASSUME NEW off \in 0 .. N
        PROVE  LET p == Editor!RuneOffsetToPosition(Seen, off)
               IN  /\ Editor!PositionToRuneOffset(Seen, p) = off
                   /\ Len(Editor!Encoded(SubSeq(Seen, Editor!Lines(Seen)[p.line + 1] + 1, off))) =
                        p.character
    <3> DEFINE p == Editor!RuneOffsetToPosition(Seen, off)
               l == Editor!LineOf(Seen, off)
               s == Editor!Lines(Seen)[l]
               e == Editor!LineEnd(Seen, l)
    <3>1. Editor!PositionToRuneOffset(Seen, p) = off
      BY <1>1, ThereAndBack
    <3>2. PlaceOf(Seen, N, off, l, s, e)
      BY <1>1, OffsetHasPlace
    <3> HIDE DEF l, p
    <3>3. /\ p = [line |-> l - 1, character |-> Editor!Units(Seen, s, off)]
          /\ s \in Nat /\ e \in s .. N /\ off \in s .. e
          /\ l \in 1 .. Len(Editor!Lines(Seen))
      BY <3>2 DEF PlaceOf, OnLine, p
    <3>4. p.line = l - 1 /\ p.character = Editor!Units(Seen, s, off)
      BY <3>3, Zenon
    <3>5. p.line + 1 = l
      <4>1. Len(Editor!Lines(Seen)) \in Nat
        BY <1>2, LinesAre DEF LineTable
      <4> QED BY <3>3, <3>4, <4>1
    <3> HIDE DEF s, e
    <3>6. s \in 0 .. N /\ off \in s .. N
      BY <1>2, <3>3
    <3>7. Len(Editor!Encoded(SubSeq(Seen, s + 1, off))) = Editor!Units(Seen, s, off)
      BY <1>1, <3>6, UnitsAreEncoded
    <3> QED BY <3>1, <3>4, <3>5, <3>7 DEF s, p
  <2> QED BY <1>2, <2>1 DEF Editor!RoundTrip
<1>4. Editor!Clamped
  <2>1. ASSUME NEW p \in Editor!Positions
        PROVE  LET off == Editor!PositionToRuneOffset(Seen, p)
                   at  == Editor!RuneOffsetToPosition(Seen, off)
               IN  /\ off \in 0 .. N
                   /\ p.line \in 0 .. Len(Editor!Lines(Seen)) - 1 =>
                        /\ at.line = p.line
                        /\ \A other \in 0 .. N :
                             Editor!Precedes(Editor!RuneOffsetToPosition(Seen, other), p) => other <= off
    <3> DEFINE n == Len(Editor!Lines(Seen))
               off == Editor!PositionToRuneOffset(Seen, p)
    <3>1. p.line \in Int /\ p.character \in Int /\ n \in Nat
      <4>1. n \in Nat
        BY <1>2, LinesAre DEF LineTable
      <4> HIDE DEF n
      <4>2. p \in [line : -1 .. n + 1, character : -1 .. 2 * N + 1]
        BY <1>2 DEF Editor!Positions, n
      <4> QED BY <1>2, <4>1, <4>2
    <3>2. CASE p.line \in 0 .. n - 1
      BY <1>1, <3>1, <3>2, StaysOnLine
    <3>3. CASE p.line \notin 0 .. n - 1
      <4>1. p.line < 0 \/ p.line >= n
        <5> HIDE DEF n
        <5> QED BY <3>1, <3>3
      <4>2. off = 0 \/ off = N
        BY <1>2, <4>1, Zenon DEF Editor!PositionToRuneOffset
      <4> HIDE DEF off
      <4>3. off \in 0 .. N
        BY <1>2, <4>2
      <4> QED BY <3>3, <4>3 DEF off
    <3> QED BY <3>2, <3>3
  <2> QED BY <1>2, <2>1 DEF Editor!Clamped
<1> QED BY <1>3, <1>4

\* The lexer, the analysis and the editor mean the same place, for every token
\* and every offset of every text.
THEOREM PlacesAreOne == Spec => []PlacesAgree
<1>1. LInv => PlacesAgree
  <2> SUFFICES ASSUME LInv PROVE PlacesAgree
    OBVIOUS
  <2>1. src \in Seq(Rune) /\ raw \in Seq(RawToken) /\ Len(src) \in Nat
    BY SourceIsText DEF LInv, Typed
  <2>2. IsText(Seen, Len(src)) /\ Starts(Seen) = LineOffsets(src)
    BY <2>1, SeenIsText
  <2>3. ASSUME NEW i \in DOMAIN raw
        PROVE  Editor!RuneOffsetToPosition(Seen, raw[i].start).line = raw[i].line
    <3> DEFINE N == Len(src)
               q == raw[i].start
               p == IF q > N THEN N ELSE q
               S == LineOffsets(src)
               l == Editor!LineOf(Seen, p)
               at == Editor!Lines(Seen)
    <3>1. q \in Nat /\ raw[i].line \in Nat
      <4>1. raw[i] \in RawToken
        BY <2>1
      <4> QED BY <4>1 DEF RawToken
    <3>2. p \in 0 .. N /\ N \in Nat /\ Len(Seen) = N
      <4> HIDE DEF q
      <4> QED BY <2>1, <2>2, <3>1 DEF IsText
    <3>3. Editor!RuneOffsetToPosition(Seen, q).line = l - 1
      <4>1. (IF q < 0 THEN 0 ELSE IF q > Len(Seen) THEN Len(Seen) ELSE q) = p
        <5> HIDE DEF q
        <5> QED BY <3>1, <3>2
      <4>2. Editor!RuneOffsetToPosition(Seen, q) =
              [line |-> l - 1, character |-> Editor!Units(Seen, at[l], p)]
        <5> HIDE DEF p, q
        <5> QED BY <4>1, Zenon DEF Editor!RuneOffsetToPosition
      <4> HIDE DEF l, p, q, at
      <4> QED BY <4>2
    <3>4. Rank(S, p) = l
      <4>1. LineTable(Seen, Cardinality(Starts(Seen)), at)
        BY <3>2, LinesAre
      <4> HIDE DEF p
      <4> QED BY <2>2, <3>2, <4>1, LineOfIs
    <3>5. Rank(S, p) = Cardinality({o \in S : o <= q})
      <4>1. \A o \in S : o \in Nat /\ o <= N
        BY <2>1 DEF LineOffsets
      <4> HIDE DEF S, q
      <4>2. \A o \in S : o <= p <=> o <= q
        BY <3>1, <3>2, <4>1
      <4>3. {o \in S : o <= p} = {o \in S : o <= q}
        BY <4>2
      <4> QED BY <4>3 DEF Rank
    <3>6. raw[i].line = Cardinality({o \in S : o <= q}) - 1
      <4>1. [line |-> raw[i].line, col |-> raw[i].col] = OffsetToPosition(src, q)
        BY DEF LInv, AgreesWithOffsets
      <4>2. OffsetToPosition(src, q).line = Cardinality({o \in S : o <= q}) - 1
        BY DEF OffsetToPosition
      <4> QED BY <4>1, <4>2
    <3> QED BY <3>3, <3>4, <3>5, <3>6
  <2>4. TokensInPlace
    BY <2>3 DEF LInv, TokensInPlace
  <2> QED BY <2>1, <2>4, EditorAgrees DEF PlacesAgree
<1> QED BY <1>1, InvariantHolds, PTL
=============================================================================
