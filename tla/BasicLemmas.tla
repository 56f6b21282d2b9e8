----------------------------- MODULE BasicLemmas -----------------------------
(***************************************************************************)
(* What the proofs about several components need of numbers, lists and     *)
(* FlattenSeq.                                                             *)
(*                                                                         *)
(* A set of naturals has a least element: a fact about all numbers or all  *)
(* prefixes of a list is proved by the least one that it fails for.        *)
(* FlattenSeq is a recursive function, which is shown to exist and then    *)
(* described without recursion, by the offset that each part starts at.    *)
(***************************************************************************)
EXTENDS Integers, SequencesExt, SequenceTheorems, FiniteSetTheorems, WellFoundedInduction, TLAPS

-----------------------------------------------------------------------------
(* Least and greatest numbers. *)

\* The first of some places.
LEMMA HasLeast ==
  ASSUME NEW S, S \subseteq Nat, S # {}
  PROVE  \E m \in S : \A j \in S : m <= j
<1>1. PICK m \in S : \A j \in S : ~(<<j, m>> \in OpToRel(<, Nat))
  BY NatLessThanWellFounded, WFMin
<1>2. \A j \in S : ~(j < m)
  BY <1>1 DEF OpToRel
<1> QED BY <1>2

\* The last of some places of a text, a list or a document.
LEMMA HasGreatest ==
  ASSUME NEW N \in Nat, NEW S, S \subseteq 0 .. N, S # {}
  PROVE  \E m \in S : \A j \in S : j <= m
<1> DEFINE T == {x \in 0 .. N : N - x \in S}
<1>1. T \subseteq Nat
  OBVIOUS
<1>2. T # {}
  <2>1. PICK m \in S : TRUE
    OBVIOUS
  <2>2. N - m \in 0 .. N /\ N - (N - m) = m
    OBVIOUS
  <2> QED BY <2>1, <2>2
<1>3. PICK x \in T : \A y \in T : x <= y
  <2> HIDE DEF T
  <2> QED BY <1>1, <1>2, HasLeast
<1>4. ASSUME NEW j \in S PROVE j <= N - x
  <2>1. N - j \in T
    <3>1. N - j \in 0 .. N /\ N - (N - j) = j
      OBVIOUS
    <3> QED BY <3>1
  <2>2. x <= N - j /\ x \in 0 .. N /\ j \in 0 .. N
    <3>1. x \in 0 .. N /\ j \in 0 .. N
      OBVIOUS
    <3> HIDE DEF T
    <3> QED BY <1>3, <2>1, <3>1
  <2> HIDE DEF T
  <2> QED BY <2>2
<1>5. N - x \in S
  OBVIOUS
<1> HIDE DEF T
<1> QED BY <1>4, <1>5

\* How many of S are not beyond p.
Rank(S, p) == Cardinality({q \in S : q <= p})

\* Some places of a text or a list are counted from the first to the last.
LEMMA RankIs ==
  ASSUME NEW N \in Nat, NEW S, S \subseteq 0 .. N
  PROVE  /\ IsFiniteSet(S) /\ Cardinality(S) \in Nat
         /\ \A p \in S : Rank(S, p) \in 1 .. Cardinality(S)
         /\ \A p, q \in S : p < q => Rank(S, p) < Rank(S, q)
         /\ \A l \in 1 .. Cardinality(S) : \E p \in S : Rank(S, p) = l
<1> DEFINE upTo(p) == {q \in S : q <= p}
<1>1. \A p \in S : p \in Nat /\ 0 <= p /\ p <= N
  OBVIOUS
<1>2. IsFiniteSet(S) /\ Cardinality(S) \in Nat
  <2>1. IsFiniteSet(0 .. N)
    BY FS_Interval
  <2>2. IsFiniteSet(S)
    BY <2>1, FS_Subset
  <2> QED BY <2>2, FS_CardinalityType
<1>3. \A p : upTo(p) \in SUBSET S /\ IsFiniteSet(upTo(p)) /\ Rank(S, p) \in Nat
  <2>1. \A p : upTo(p) \in SUBSET S
    OBVIOUS
  <2>2. \A p : IsFiniteSet(upTo(p))
    BY <1>2, <2>1, FS_Subset
  <2>3. \A p : Rank(S, p) = Cardinality(upTo(p))
    BY DEF Rank
  <2> HIDE DEF upTo
  <2> QED BY <2>1, <2>2, <2>3, FS_CardinalityType
\* One more of them, one more in rank.
<1>4. ASSUME NEW p \in S, NEW a \in Int, a < p
      PROVE  Rank(S, a) < Rank(S, p)
  <2>1. upTo(a) \in SUBSET upTo(p) /\ p \in upTo(p) /\ p \notin upTo(a)
    <3>1. p \in Nat /\ p <= p /\ ~(p <= a)
      BY <1>1, <1>4
    <3>2. \A q \in S : q <= a => q <= p
      BY <1>1, <1>4, <3>1
    <3> QED BY <3>1, <3>2
  <2>2. IsFiniteSet(upTo(p)) /\ IsFiniteSet(upTo(a))
    BY <1>3
  <2>3. Rank(S, a) = Cardinality(upTo(a)) /\ Rank(S, p) = Cardinality(upTo(p))
    BY DEF Rank
  <2> HIDE DEF upTo
  <2>4. Cardinality(upTo(a)) <= Cardinality(upTo(p))
    BY <2>1, <2>2, FS_Subset
  <2>5. Cardinality(upTo(a)) # Cardinality(upTo(p))
    <3>1. Cardinality(upTo(a)) = Cardinality(upTo(p)) => upTo(a) = upTo(p)
      BY <2>1, <2>2, FS_Subset
    <3> QED BY <2>1, <3>1
  <2> QED BY <1>3, <2>3, <2>4, <2>5
<1>5. ASSUME NEW p \in S PROVE Rank(S, p) \in 1 .. Cardinality(S)
  <2>1. -1 \in Int /\ -1 < p /\ p \in Int
    BY <1>1
  <2>2. Rank(S, -1) < Rank(S, p)
    BY <1>4, <2>1
  <2>3. Cardinality(upTo(p)) <= Cardinality(S)
    <3>1. upTo(p) \in SUBSET S
      OBVIOUS
    <3> HIDE DEF upTo
    <3> QED BY <1>2, <3>1, FS_Subset
  <2>4. Rank(S, p) = Cardinality(upTo(p))
    BY DEF Rank
  <2>5. Rank(S, -1) \in Nat /\ Rank(S, p) \in Nat
    BY <1>3
  <2> HIDE DEF upTo
  <2>6. Rank(S, p) <= Cardinality(S)
    BY <2>3, <2>4
  <2>7. 1 <= Rank(S, p)
    BY <2>2, <2>5
  <2> QED BY <1>2, <2>5, <2>6, <2>7
<1>6. ASSUME NEW l \in 1 .. Cardinality(S) PROVE \E p \in S : Rank(S, p) = l
  <2> DEFINE G == {m \in 0 .. N : Rank(S, m) >= l}
  <2>1. l \in Nat /\ 1 <= l /\ l <= Cardinality(S)
    BY <1>2
  <2>2. N \in G
    <3>1. upTo(N) = S
      BY <1>1
    <3>2. Rank(S, N) = Cardinality(S)
      BY <3>1 DEF Rank
    <3> QED BY <1>2, <2>1, <3>2
  <2>3. PICK m \in G : \A j \in G : m <= j
    <3>1. G \subseteq Nat /\ G # {}
      BY <2>2
    <3> HIDE DEF G
    <3> QED BY <3>1, HasLeast
  <2>4. m \in 0 .. N /\ m \in Int /\ Rank(S, m) >= l
    OBVIOUS
  <2>5. ~(Rank(S, m - 1) >= l)
    <3>1. CASE m = 0
      <4>1. upTo(m - 1) = {}
        <5>1. \A q \in S : ~(q <= m - 1)
          BY <1>1, <3>1
        <5> QED BY <5>1
      <4>2. Rank(S, m - 1) = 0
        BY <4>1, FS_EmptySet DEF Rank
      <4> QED BY <2>1, <4>2
    <3>2. CASE m # 0
      <4>1. m - 1 \in 0 .. N /\ ~(m <= m - 1)
        BY <2>4, <3>2
      <4>2. m - 1 \notin G
        <5> HIDE DEF G
        <5> QED BY <2>3, <4>1
      <4> QED BY <4>1, <4>2
    <3> QED BY <3>1, <3>2
  <2> HIDE DEF G
  <2>6. m \in S
    <3>1. SUFFICES ASSUME m \notin S PROVE FALSE
      OBVIOUS
    <3>2. \A j \in S : j <= m <=> j <= m - 1
      BY <1>1, <2>4, <3>1
    <3>3. upTo(m) = upTo(m - 1)
      BY <3>2
    <3>4. Rank(S, m) = Rank(S, m - 1)
      BY <3>3 DEF Rank
    <3> QED BY <2>4, <2>5, <3>4
  <2>7. Rank(S, m) = Rank(S, m - 1) + 1
    <3>1. \A j \in S : j <= m <=> j <= m - 1 \/ j = m
      BY <1>1, <2>4
    <3>2. m <= m /\ ~(m <= m - 1)
      BY <2>4
    <3>3. upTo(m) = upTo(m - 1) \cup {m} /\ m \notin upTo(m - 1)
      BY <2>6, <3>1, <3>2
    <3>4. IsFiniteSet(upTo(m - 1))
      BY <1>3
    <3>5. Rank(S, m) = Cardinality(upTo(m)) /\ Rank(S, m - 1) = Cardinality(upTo(m - 1))
      BY DEF Rank
    <3> DEFINE u == upTo(m - 1)
    <3>6. IsFiniteSet(u) /\ m \notin u
      BY <3>3, <3>4
    <3> HIDE DEF u
    <3>7. Cardinality(u \cup {m}) = Cardinality(u) + 1
      BY <3>6, FS_AddElement
    <3> QED BY <3>3, <3>5, <3>7 DEF u
  <2>8. Rank(S, m) \in Nat /\ Rank(S, m - 1) \in Nat
    BY <1>3
  <2>9. Rank(S, m) = l
    BY <2>1, <2>4, <2>5, <2>7, <2>8
  <2> QED BY <2>6, <2>9
<1>7. \A p, q \in S : p < q => Rank(S, p) < Rank(S, q)
  <2>1. \A p \in S : p \in Int
    BY <1>1
  <2> QED BY <1>4, <2>1
<1> QED BY <1>2, <1>5, <1>6, <1>7

\* at lists the n members of S in their order.
Enumerates(at, n, S) ==
  /\ n \in Nat
  /\ \A l \in 1 .. n : at[l] \in S /\ Rank(S, at[l]) = l
  /\ \A l, m \in 1 .. n : l < m => at[l] < at[m]
  /\ \A p \in S : \E l \in 1 .. n : at[l] = p

LEMMA RankEnumerates ==
  ASSUME NEW N \in Nat, NEW S, S \subseteq 0 .. N, NEW at,
         \A l \in 1 .. Cardinality(S) : at[l] \in S /\ Rank(S, at[l]) = l
  PROVE  Enumerates(at, Cardinality(S), S)
<1> DEFINE n == Cardinality(S)
<1>1. /\ n \in Nat
      /\ \A p \in S : Rank(S, p) \in 1 .. n
      /\ \A p, q \in S : p < q => Rank(S, p) < Rank(S, q)
  BY RankIs
<1>2. \A p \in S : p \in Nat
  OBVIOUS
<1>3. \A l \in 1 .. n : at[l] \in S /\ Rank(S, at[l]) = l
  OBVIOUS
<1> HIDE DEF n
<1>4. \A p, q \in S : Rank(S, p) = Rank(S, q) => p = q
  <2> TAKE p, q \in S
  <2>1. p \in Nat /\ q \in Nat /\ Rank(S, p) \in Nat /\ Rank(S, q) \in Nat
    BY <1>1, <1>2
  <2>2. p < q => Rank(S, p) < Rank(S, q)
    BY <1>1
  <2>3. q < p => Rank(S, q) < Rank(S, p)
    BY <1>1
  <2> QED BY <2>1, <2>2, <2>3
<1>5. \A l, m \in 1 .. n : l < m => at[l] < at[m]
  <2> TAKE l, m \in 1 .. n
  <2>1. at[l] \in S /\ at[m] \in S /\ Rank(S, at[l]) = l /\ Rank(S, at[m]) = m
    BY <1>3
  <2>2. at[l] \in Nat /\ at[m] \in Nat
    BY <1>2, <2>1
  <2>4. l \in Nat /\ m \in Nat
    BY <1>1
  <2>3. at[m] < at[l] => m < l
    BY <1>1, <2>1
  <2> QED BY <2>1, <2>2, <2>4, <2>3
<1>6. \A p \in S : \E l \in 1 .. n : at[l] = p
  <2> TAKE p \in S
  <2>1. Rank(S, p) \in 1 .. n
    BY <1>1
  <2>2. at[Rank(S, p)] \in S /\ Rank(S, at[Rank(S, p)]) = Rank(S, p)
    BY <1>3, <2>1
  <2>3. at[Rank(S, p)] = p
    BY <1>4, <2>2
  <2> QED BY <2>1, <2>3
<1> QED BY <1>1, <1>3, <1>5, <1>6 DEF Enumerates, n

-----------------------------------------------------------------------------
(* Lists of any elements. *)

IsList(s) == s \in Seq({s[i] : i \in DOMAIN s})

LEMMA ListIs ==
  ASSUME NEW s, IsList(s)
  PROVE  Len(s) \in Nat /\ DOMAIN s = 1 .. Len(s) /\ s = [i \in 1 .. Len(s) |-> s[i]]
<1> DEFINE S == {s[i] : i \in DOMAIN s}
<1>1. s \in Seq(S)
  BY DEF IsList
<1> HIDE DEF S
<1> QED BY <1>1

LEMMA SeqIsList ==
  ASSUME NEW S, NEW s \in Seq(S)
  PROVE  IsList(s)
BY SeqOfRange DEF Range, IsList

LEMMA ListOver ==
  ASSUME NEW T, NEW s, IsList(s), \A i \in DOMAIN s : s[i] \in T
  PROVE  s \in Seq(T)
BY SeqMonotonic DEF IsList

LEMMA MadeList ==
  ASSUME NEW n \in Nat, NEW s, s = [i \in 1 .. n |-> s[i]]
  PROVE  IsList(s) /\ Len(s) = n
<1> DEFINE S == {s[i] : i \in DOMAIN s}
<1>1. DOMAIN s = 1 .. n /\ \A i \in 1 .. n : s[i] \in S
  <2>1. DOMAIN s = 1 .. n
    OBVIOUS
  <2> QED BY <2>1
<1>2. s \in [1 .. n -> S]
  <2> HIDE DEF S
  <2> QED BY <1>1
<1>3. s \in Seq(S)
  <2> HIDE DEF S
  <2> QED BY <1>2
<1>4. Len(s) = n
  <2> HIDE DEF S
  <2> QED BY <1>1, <1>3
<1> QED BY <1>3, <1>4 DEF IsList

LEMMA EmptyList == IsList(<<>>) /\ Len(<<>>) = 0 /\ DOMAIN <<>> = {}
BY EmptySeq DEF IsList

LEMMA OneList ==
  ASSUME NEW x
  PROVE  IsList(<<x>>) /\ Len(<<x>>) = 1 /\ <<x>>[1] = x /\ DOMAIN <<x>> = {1}
<1>1. <<x>> \in Seq({x})
  OBVIOUS
<1>2. IsList(<<x>>)
  BY <1>1, SeqIsList
<1> QED BY <1>2

\* u is two lists one after the other.
IsConcat(u, s, t) ==
  /\ IsList(u)
  /\ Len(u) = Len(s) + Len(t)
  /\ \A i \in 1 .. Len(s) : u[i] = s[i]
  /\ \A i \in 1 .. Len(t) : u[Len(s) + i] = t[i]

LEMMA ConcatLists ==
  ASSUME NEW s, NEW t, IsList(s), IsList(t), NEW u, u = s \o t
  PROVE  IsConcat(u, s, t)
<1> DEFINE S == {s[i] : i \in DOMAIN s}
           T == {t[i] : i \in DOMAIN t}
           U == S \cup T
<1>1. s \in Seq(S) /\ t \in Seq(T)
  BY DEF IsList
<1> HIDE DEF S, T
<1>2. s \in Seq(U) /\ t \in Seq(U)
  BY <1>1, SeqMonotonic
<1>3. Len(s) \in Nat /\ Len(t) \in Nat
  BY <1>1
<1> HIDE DEF U
<1>4. s \o t \in Seq(U) /\ Len(s \o t) = Len(s) + Len(t)
  BY <1>2, ConcatProperties
<1>5. \A i \in 1 .. Len(s) + Len(t) : (s \o t)[i] = IF i <= Len(s) THEN s[i] ELSE t[i - Len(s)]
  BY <1>2, ConcatProperties
<1>6. \A i \in 1 .. Len(s) : (s \o t)[i] = s[i]
  BY <1>3, <1>5
<1>7. \A i \in 1 .. Len(t) : (s \o t)[Len(s) + i] = t[i]
  BY <1>3, <1>5
<1>8. IsList(s \o t)
  BY <1>4, SeqIsList
<1> QED BY <1>4, <1>6, <1>7, <1>8 DEF IsConcat

\* The same with names for the lengths.
ConcatAt(u, s, t, m, n) ==
  /\ IsList(u) /\ Len(u) = m + n
  /\ \A i \in 1 .. m : u[i] = s[i]
  /\ \A i \in 1 .. n : u[m + i] = t[i]

LEMMA ConcatLengths ==
  ASSUME NEW s, NEW t, IsList(s), IsList(t), NEW u, u = s \o t, NEW m, NEW n, Len(s) = m, Len(t) = n
  PROVE  ConcatAt(u, s, t, m, n)
<1>1. IsConcat(u, s, t)
  BY ConcatLists
<1> QED BY <1>1, Zenon DEF IsConcat, ConcatAt

LEMMA AppendList ==
  ASSUME NEW s, NEW x, IsList(s)
  PROVE  /\ IsList(Append(s, x))
         /\ Len(Append(s, x)) = Len(s) + 1
         /\ \A i \in 1 .. Len(s) : Append(s, x)[i] = s[i]
         /\ Append(s, x)[Len(s) + 1] = x
<1> DEFINE S == {s[i] : i \in DOMAIN s}
           U == S \cup {x}
<1>1. s \in Seq(S)
  BY DEF IsList
<1> HIDE DEF S
<1>2. s \in Seq(U) /\ x \in U
  BY <1>1, SeqMonotonic
<1> HIDE DEF U
<1>3. IsList(Append(s, x))
  BY <1>2, AppendProperties, SeqIsList
<1> QED BY <1>2, <1>3, AppendProperties

LEMMA TailList ==
  ASSUME NEW s, IsList(s), s # <<>>
  PROVE  /\ Len(s) >= 1 /\ Head(s) = s[1]
         /\ IsList(Tail(s))
         /\ Len(Tail(s)) = Len(s) - 1
         /\ \A i \in 1 .. Len(s) - 1 : Tail(s)[i] = s[i + 1]
<1> DEFINE S == {s[i] : i \in DOMAIN s}
<1>1. s \in Seq(S)
  BY DEF IsList
<1> HIDE DEF S
<1>2. Len(s) >= 1 /\ Head(s) = s[1]
  BY <1>1
<1>3. Tail(s) \in Seq(S) /\ Len(Tail(s)) = Len(s) - 1 /\ \A i \in 1 .. Len(Tail(s)) : Tail(s)[i] = s[i + 1]
  BY <1>1, HeadTailProperties
<1>4. IsList(Tail(s))
  BY <1>3, SeqIsList
<1> QED BY <1>2, <1>3, <1>4

LEMMA ListsEqual ==
  ASSUME NEW s, NEW t, IsList(s), IsList(t), Len(s) = Len(t), \A i \in 1 .. Len(s) : s[i] = t[i]
  PROVE  s = t
<1>1. s = [i \in 1 .. Len(s) |-> s[i]] /\ t = [i \in 1 .. Len(t) |-> t[i]]
  BY ListIs
<1> QED BY <1>1

-----------------------------------------------------------------------------
(* Parts of lists. *)

\* u is the part of r of m elements behind the first a.
IsSlice(u, r, a, m) ==
  /\ IsList(u) /\ Len(u) = m
  /\ \A i \in 1 .. m : u[i] = r[a + i]

LEMMA SubSeqSlice ==
  ASSUME NEW r, IsList(r), NEW a \in 0 .. Len(r), NEW b \in a .. Len(r)
  PROVE  IsSlice(SubSeq(r, a + 1, b), r, a, b - a)
<1> DEFINE T == {r[i] : i \in DOMAIN r}
           u == SubSeq(r, a + 1, b)
<1>1. Len(r) \in Nat /\ DOMAIN r = 1 .. Len(r)
  BY ListIs
<1>2. a \in Nat /\ b \in Nat /\ a <= b
  BY <1>1
<1>3. \A i \in a + 1 .. b : r[i] \in T
  <2>1. \A i \in a + 1 .. b : i \in DOMAIN r
    BY <1>1, <1>2
  <2> QED BY <2>1
<1> HIDE DEF T
<1>4. /\ u \in Seq(T)
      /\ Len(u) = IF a + 1 <= b THEN b - (a + 1) + 1 ELSE 0
      /\ \A i \in 1 .. b - (a + 1) + 1 : u[i] = r[a + 1 + i - 1]
  <2>1. a + 1 \in Int /\ b \in Int
    BY <1>2
  <2> QED BY <1>3, <2>1, SubSeqProperties
<1>5. (IF a + 1 <= b THEN b - (a + 1) + 1 ELSE 0) = b - a /\ b - (a + 1) + 1 = b - a
  BY <1>2
<1>6. \A i \in 1 .. b - a : a + 1 + i - 1 = a + i
  BY <1>2
<1>7. IsList(u)
  BY <1>4, SeqIsList
<1> HIDE DEF u
<1>8. Len(u) = b - a /\ \A i \in 1 .. b - a : u[i] = r[a + i]
  BY <1>4, <1>5, <1>6
<1> QED BY <1>7, <1>8 DEF IsSlice, u

LEMMA SliceSlice ==
  ASSUME NEW u, NEW r, NEW a \in Nat, NEW m \in Nat, IsSlice(u, r, a, m),
         NEW x \in 0 .. m, NEW y \in x .. m
  PROVE  IsSlice(SubSeq(u, x + 1, y), r, a + x, y - x)
<1> DEFINE v == SubSeq(u, x + 1, y)
<1>1. IsList(u) /\ Len(u) = m /\ \A i \in 1 .. m : u[i] = r[a + i]
  BY DEF IsSlice
<1>2. IsSlice(v, u, x, y - x)
  BY <1>1, SubSeqSlice
<1> HIDE DEF v
<1>3. \A i \in 1 .. y - x : v[i] = r[(a + x) + i]
  <2> TAKE i \in 1 .. y - x
  <2>1. v[i] = u[x + i]
    BY <1>2 DEF IsSlice
  <2>2. x + i \in 1 .. m /\ a + (x + i) = (a + x) + i
    OBVIOUS
  <2>3. u[x + i] = r[a + (x + i)]
    BY <1>1, <2>2
  <2> QED BY <2>1, <2>2, <2>3
<1> QED BY <1>2, <1>3 DEF IsSlice, v

LEMMA SliceConcat ==
  ASSUME NEW u, NEW v, NEW r, NEW a \in Nat, NEW m \in Nat, NEW n \in Nat,
         IsSlice(u, r, a, m), IsSlice(v, r, a + m, n)
  PROVE  IsSlice(u \o v, r, a, m + n)
<1> DEFINE w == u \o v
<1>1. IsList(u) /\ IsList(v) /\ Len(u) = m /\ Len(v) = n
  BY DEF IsSlice
<1>2. ConcatAt(w, u, v, m, n)
  BY <1>1, ConcatLengths
<1> HIDE DEF w
<1>3. \A i \in 1 .. m + n : w[i] = r[a + i]
  <2> TAKE i \in 1 .. m + n
  <2>1. CASE i \in 1 .. m
    BY <1>2, <2>1 DEF ConcatAt, IsSlice
  <2>2. CASE i \notin 1 .. m
    <3>1. i - m \in 1 .. n /\ m + (i - m) = i /\ (a + m) + (i - m) = a + i
      BY <2>2
    <3>2. w[m + (i - m)] = v[i - m] /\ v[i - m] = r[(a + m) + (i - m)]
      BY <1>2, <3>1 DEF ConcatAt, IsSlice
    <3> QED BY <3>1, <3>2
  <2> QED BY <2>1, <2>2
<1> QED BY <1>2, <1>3 DEF IsSlice, ConcatAt, w

-----------------------------------------------------------------------------
(* Lists and sets. *)

LEMMA AppendElements ==
  ASSUME NEW s, NEW x, IsList(s)
  PROVE  ToSet(Append(s, x)) = ToSet(s) \cup {x}
<1> DEFINE t == Append(s, x)
           n == Len(s)
<1>1. n \in Nat /\ DOMAIN s = 1 .. n
  BY ListIs
<1>2. IsList(t) /\ Len(t) = n + 1 /\ (\A i \in 1 .. n : t[i] = s[i]) /\ t[n + 1] = x
  BY AppendList
<1>3. DOMAIN t = 1 .. n + 1
  BY <1>2, ListIs
<1> HIDE DEF t, n
<1>4. DOMAIN t = DOMAIN s \cup {n + 1}
  BY <1>1, <1>3
<1>5. ToSet(t) = ToSet(s) \cup {x}
  BY <1>1, <1>2, <1>4 DEF ToSet
<1> QED BY <1>5 DEF t

LEMMA ConcatElements ==
  ASSUME NEW s, NEW t, IsList(s), IsList(t), NEW u, u = s \o t
  PROVE  IsList(u) /\ ToSet(u) = ToSet(s) \cup ToSet(t)
<1> DEFINE m == Len(s)
           n == Len(t)
<1>1. m \in Nat /\ DOMAIN s = 1 .. m /\ n \in Nat /\ DOMAIN t = 1 .. n
  BY ListIs
<1>2. ConcatAt(u, s, t, m, n)
  BY ConcatLengths
<1>3. DOMAIN u = 1 .. m + n
  BY <1>2, ListIs DEF ConcatAt
<1> HIDE DEF m, n
<1>4. ASSUME NEW k \in DOMAIN u PROVE u[k] \in ToSet(s) \cup ToSet(t)
  <2>1. CASE k \in 1 .. m
    BY <1>1, <1>2, <2>1 DEF ConcatAt, ToSet
  <2>2. CASE k \notin 1 .. m
    <3>1. k - m \in 1 .. n /\ m + (k - m) = k
      BY <1>1, <1>3, <2>2
    <3>2. u[m + (k - m)] = t[k - m]
      BY <1>2, <3>1 DEF ConcatAt
    <3> QED BY <1>1, <3>1, <3>2 DEF ToSet
  <2> QED BY <2>1, <2>2
<1>5. ASSUME NEW k \in DOMAIN s PROVE s[k] \in ToSet(u)
  <2>1. k \in DOMAIN u /\ u[k] = s[k]
    BY <1>1, <1>2, <1>3 DEF ConcatAt
  <2> QED BY <2>1 DEF ToSet
<1>6. ASSUME NEW k \in DOMAIN t PROVE t[k] \in ToSet(u)
  <2>1. k \in 1 .. n
    BY <1>1
  <2>2. m + k \in 1 .. m + n
    BY <1>1, <2>1
  <2>3. u[m + k] = t[k]
    BY <1>2, <2>1 DEF ConcatAt
  <2>4. m + k \in DOMAIN u
    BY <1>3, <2>2
  <2> QED BY <2>3, <2>4 DEF ToSet
<1>7. IsList(u)
  BY <1>2 DEF ConcatAt
<1>8. ToSet(u) \subseteq ToSet(s) \cup ToSet(t)
  <2>1. \A x \in ToSet(u) : \E k \in DOMAIN u : x = u[k]
    BY DEF ToSet
  <2> QED BY <1>4, <2>1
<1>9. ToSet(s) \subseteq ToSet(u)
  <2>1. \A x \in ToSet(s) : \E k \in DOMAIN s : x = s[k]
    BY DEF ToSet
  <2> QED BY <1>5, <2>1
<1>10. ToSet(t) \subseteq ToSet(u)
  <2>1. \A x \in ToSet(t) : \E k \in DOMAIN t : x = t[k]
    BY DEF ToSet
  <2> QED BY <1>6, <2>1
<1> QED BY <1>7, <1>8, <1>9, <1>10

LEMMA ListFinite ==
  ASSUME NEW s, IsList(s)
  PROVE  IsFiniteSet(ToSet(s))
<1> DEFINE n == Len(s)
<1>1. n \in Nat /\ s = [i \in 1 .. n |-> s[i]] /\ DOMAIN s = 1 .. n
  BY ListIs
<1> HIDE DEF n
<1>2. s \in Surjection(1 .. n, ToSet(s))
  BY <1>1 DEF Surjection, ToSet
<1>3. IsFiniteSet(1 .. n)
  BY <1>1, FS_Interval
<1> QED BY <1>2, <1>3, FS_Surjection

LEMMA SetToSeqIs ==
  ASSUME NEW S, IsFiniteSet(S), NEW s, s = SetToSeq(S)
  PROVE  IsList(s) /\ ToSet(s) = S
<1> DEFINE n == Cardinality(S)
<1>1. n \in Nat /\ \E f : f \in Bijection(1 .. n, S)
  BY FS_CardinalityType DEF ExistsBijection
<1>2. IsFiniteSet(1 .. n) /\ Cardinality(1 .. n) = n
  BY <1>1, FS_Interval
<1>3. s = CHOOSE f \in [1 .. n -> S] : IsInjective(f)
  BY DEF SetToSeq
<1> HIDE DEF n
<1>4. \E f \in [1 .. n -> S] : IsInjective(f)
  BY <1>1 DEF Bijection, Injection, IsInjective
<1>5. s \in [1 .. n -> S] /\ IsInjective(s)
  BY <1>3, <1>4, Zenon
<1>6. s \in Injection(1 .. n, S)
  BY <1>5 DEF Injection, IsInjective
<1>7. s \in Surjection(1 .. n, S)
  BY <1>2, <1>6, FS_Injection DEF n
<1>8. ToSet(s) = S
  BY <1>5, <1>7 DEF Surjection, ToSet
<1>9. IsList(s)
  BY <1>1, <1>5, MadeList
<1> QED BY <1>8, <1>9

-----------------------------------------------------------------------------
(* FlattenSeq. *)

\* g is the recursive function in FlattenSeq(ss), up to k.
Flattens(g, ss, k) == g = [i \in 1 .. k |-> IF i = 1 THEN ss[i] ELSE g[i - 1] \o ss[i]]

Unflattened(ss, n) == {k \in 0 .. n : ~ \E g : Flattens(g, ss, k)}

\* One more sequence.
LEMMA FlattensStep ==
  ASSUME NEW ss, NEW k \in Nat \ {0}, NEW g, Flattens(g, ss, k - 1)
  PROVE  \E h : Flattens(h, ss, k)
<1> DEFINE h == [i \in 1 .. k |-> IF i = 1 THEN ss[i] ELSE g[i - 1] \o ss[i]]
<1>1. ASSUME NEW i \in 1 .. k, i # 1 PROVE h[i - 1] = g[i - 1]
  <2>1. i - 1 \in 1 .. k - 1 /\ i - 1 \in 1 .. k
    BY <1>1
  <2>2. g[i - 1] = IF i - 1 = 1 THEN ss[i - 1] ELSE g[i - 1 - 1] \o ss[i - 1]
    BY <2>1 DEF Flattens
  <2> QED BY <2>1, <2>2
<1>2. h = [i \in 1 .. k |-> IF i = 1 THEN ss[i] ELSE h[i - 1] \o ss[i]]
  <2> DEFINE H(i) == IF i = 1 THEN ss[i] ELSE g[i - 1] \o ss[i]
             K(i) == IF i = 1 THEN ss[i] ELSE h[i - 1] \o ss[i]
  <2>1. \A i \in 1 .. k : H(i) = K(i)
    <3> HIDE DEF h
    <3> QED BY <1>1
  <2>2. h = [i \in 1 .. k |-> H(i)]
    OBVIOUS
  <2>3. [i \in 1 .. k |-> H(i)] = [i \in 1 .. k |-> K(i)]
    <3> HIDE DEF H, K
    <3> QED BY <2>1
  <2> HIDE DEF h
  <2> QED BY <2>2, <2>3
<1>3. Flattens(h, ss, k)
  <2> HIDE DEF h
  <2> QED BY <1>2 DEF Flattens
<1> QED BY <1>3

LEMMA FlattensExists ==
  ASSUME NEW ss, NEW n \in Nat
  PROVE  \E g : Flattens(g, ss, n)
<1>1. Unflattened(ss, n) \subseteq Nat
  BY SMT DEF Unflattened
<1>2. ASSUME NEW k \in Unflattened(ss, n), \A j \in Unflattened(ss, n) : k <= j PROVE FALSE
  <2>1. k \in 0 .. n /\ ~ \E g : Flattens(g, ss, k)
    BY DEF Unflattened
  <2>2. k # 0
    <3>1. <<>> = [i \in 1 .. 0 |-> IF i = 1 THEN ss[i] ELSE <<>>[i - 1] \o ss[i]]
      OBVIOUS
    <3>2. Flattens(<<>>, ss, 0)
      BY <3>1 DEF Flattens
    <3> QED BY <2>1, <3>2
  <2>3. k - 1 \notin Unflattened(ss, n) /\ k - 1 \in 0 .. n
    BY <1>2, <2>1, <2>2
  <2>4. PICK g : Flattens(g, ss, k - 1)
    BY <2>3 DEF Unflattened
  <2> QED BY <2>1, <2>2, <2>4, FlattensStep
<1>3. Unflattened(ss, n) = {}
  BY <1>1, <1>2, HasLeast
<1> QED BY <1>3 DEF Unflattened

\* What the recursive function gives.
LEMMA FlattenIs ==
  ASSUME NEW S, NEW ss \in Seq(Seq(S)), Len(ss) # 0
  PROVE  \E g : Flattens(g, ss, Len(ss)) /\ FlattenSeq(ss) = g[Len(ss)]
<1> DEFINE g == CHOOSE f : Flattens(f, ss, Len(ss))
<1>1. Flattens(g, ss, Len(ss))
  <2>1. Len(ss) \in Nat
    OBVIOUS
  <2>2. \E f : Flattens(f, ss, Len(ss))
    BY <2>1, FlattensExists
  <2> QED BY <2>2, Zenon
<1>2. FlattenSeq(ss) = g[Len(ss)]
  BY DEF FlattenSeq, Flattens
<1> QED BY <1>1, <1>2

\* FlattenSeq(ss) is the last of the prefixes' concatenations: f[i] is that of the
\* first i sequences.
LEMMA FlattenPrefixes ==
  ASSUME NEW S, NEW ss \in Seq(Seq(S))
  PROVE  \E f \in [0 .. Len(ss) -> Seq(S)] :
           /\ f[0] = <<>>
           /\ \A i \in 1 .. Len(ss) : f[i] = f[i - 1] \o ss[i]
           /\ FlattenSeq(ss) = f[Len(ss)]
<1>1. CASE Len(ss) = 0
  <2> DEFINE f == [i \in 0 .. Len(ss) |-> <<>>]
  <2>1. f \in [0 .. Len(ss) -> Seq(S)] /\ f[0] = <<>> /\ f[Len(ss)] = <<>>
    BY <1>1
  <2>2. FlattenSeq(ss) = <<>>
    BY <1>1 DEF FlattenSeq
  <2>3. 1 .. Len(ss) = {}
    BY <1>1
  <2> HIDE DEF f
  <2> QED BY <2>1, <2>2, <2>3
<1>2. CASE Len(ss) # 0
  <2>1. PICK g : Flattens(g, ss, Len(ss)) /\ FlattenSeq(ss) = g[Len(ss)]
    BY <1>2, FlattenIs
  <2> DEFINE n == Len(ss)
             f == [i \in 0 .. n |-> IF i = 0 THEN <<>> ELSE g[i]]
             Bad == {i \in 0 .. n : f[i] \notin Seq(S)}
  <2>2. n \in Nat /\ n # 0 /\ \A i \in 1 .. n : ss[i] \in Seq(S)
    BY <1>2
  <2>3. f[0] = <<>> /\ f[n] = g[n] /\ DOMAIN f = 0 .. n /\ \A i \in 1 .. n : f[i] = g[i]
    BY <2>2
  <2>4. \A i \in 1 .. n : g[i] = IF i = 1 THEN ss[i] ELSE g[i - 1] \o ss[i]
    BY <2>1, <2>2 DEF Flattens
  <2> HIDE DEF f, n
  <2>5. ASSUME NEW i \in 1 .. n PROVE f[i] = f[i - 1] \o ss[i]
    <3>1. f[i] = g[i] /\ ss[i] \in Seq(S) /\ g[i] = IF i = 1 THEN ss[i] ELSE g[i - 1] \o ss[i]
      BY <2>2, <2>3, <2>4
    <3>2. CASE i = 1
      <4>1. f[i - 1] = <<>>
        BY <2>3, <3>2
      <4> QED BY <3>1, <3>2, <4>1
    <3>3. CASE i # 1
      <4>1. i - 1 \in 1 .. n
        BY <2>2, <3>3
      <4> QED BY <2>3, <3>1, <3>3, <4>1
    <3> QED BY <3>2, <3>3
  <2>6. Bad = {}
    <3>1. Bad \subseteq Nat
      BY <2>2
    <3>2. ASSUME NEW i \in Bad, \A j \in Bad : i <= j PROVE FALSE
      <4>1. i \in 0 .. n /\ f[i] \notin Seq(S)
        OBVIOUS
      <4>2. i # 0
        <5>1. <<>> \in Seq(S)
          OBVIOUS
        <5> HIDE DEF Bad
        <5> QED BY <2>3, <4>1, <5>1
      <4>3. i \in 1 .. n /\ i - 1 \in 0 .. n /\ i - 1 \notin Bad
        <5> HIDE DEF Bad
        <5> QED BY <2>2, <3>1, <3>2, <4>1, <4>2
      <4>4. f[i - 1] \in Seq(S)
        BY <4>3
      <4> HIDE DEF Bad
      <4>5. f[i] = f[i - 1] \o ss[i] /\ ss[i] \in Seq(S)
        BY <2>2, <2>5, <4>3
      <4> QED BY <4>1, <4>4, <4>5
    <3> HIDE DEF Bad
    <3> QED BY <3>1, <3>2, HasLeast
  <2>7. f \in [0 .. n -> Seq(S)]
    <3>1. \A i \in 0 .. n : f[i] \in Seq(S)
      BY <2>6
    <3>2. f = [i \in 0 .. n |-> f[i]]
      BY DEF f
    <3> QED BY <3>1, <3>2
  <2>8. FlattenSeq(ss) = f[n]
    BY <2>1, <2>3 DEF n
  <2> QED BY <2>3, <2>5, <2>7, <2>8 DEF n
<1> QED BY <1>1, <1>2

\* The parts of a list of lists in one set.
Elements(ss) == UNION {{ss[i][k] : k \in DOMAIN ss[i]} : i \in DOMAIN ss}

IsListOfLists(ss) == IsList(ss) /\ \A i \in DOMAIN ss : IsList(ss[i])

LEMMA ListOfListsOver ==
  ASSUME NEW ss, IsListOfLists(ss)
  PROVE  ss \in Seq(Seq(Elements(ss)))
<1>1. ASSUME NEW i \in DOMAIN ss PROVE ss[i] \in Seq(Elements(ss))
  <2>1. IsList(ss[i]) /\ \A k \in DOMAIN ss[i] : ss[i][k] \in Elements(ss)
    BY DEF IsListOfLists, Elements
  <2> QED BY <2>1, ListOver
<1> QED BY <1>1, ListOver DEF IsListOfLists

\* at[i - 1] is where part i starts in FlattenSeq(ss), at[i] where it ends.
Offsets(at, ss) ==
  /\ at \in [0 .. Len(ss) -> Nat]
  /\ at[0] = 0 /\ at[Len(ss)] = Len(FlattenSeq(ss))
  /\ \A i \in 1 .. Len(ss) : at[i] = at[i - 1] + Len(ss[i])
  /\ \A i \in 1 .. Len(ss) : \A k \in 1 .. Len(ss[i]) : FlattenSeq(ss)[at[i - 1] + k] = ss[i][k]

\* The offsets of FlattenSeq, and that it is a list.
LEMMA FlattenOffsets ==
  ASSUME NEW ss, IsListOfLists(ss)
  PROVE  IsList(FlattenSeq(ss)) /\ \E at : Offsets(at, ss)
<1> DEFINE S == Elements(ss)
           n == Len(ss)
<1>1. ss \in Seq(Seq(S))
  BY ListOfListsOver
<1> HIDE DEF S
<1>2. PICK f \in [0 .. n -> Seq(S)] :
        f[0] = <<>> /\ (\A i \in 1 .. n : f[i] = f[i - 1] \o ss[i]) /\ FlattenSeq(ss) = f[n]
  BY <1>1, FlattenPrefixes
<1>3. n \in Nat /\ \A i \in 1 .. n : ss[i] \in Seq(S) /\ IsList(ss[i]) /\ Len(ss[i]) \in Nat
  <2>1. n \in Nat /\ \A i \in 1 .. n : ss[i] \in Seq(S)
    BY <1>1
  <2>2. ASSUME NEW i \in 1 .. n PROVE IsList(ss[i]) /\ Len(ss[i]) \in Nat
    BY <2>1, SeqIsList, ListIs
  <2> QED BY <2>1, <2>2
<1> DEFINE at == [i \in 0 .. n |-> Len(f[i])]
<1> HIDE DEF n
<1>4. at \in [0 .. n -> Nat] /\ at[0] = 0 /\ at[n] = Len(f[n]) /\ \A i \in 0 .. n : at[i] = Len(f[i])
  BY <1>2, <1>3
<1> HIDE DEF at
<1>5. ASSUME NEW i \in 1 .. n
      PROVE  /\ at[i] = at[i - 1] + Len(ss[i])
             /\ \A p \in 1 .. at[i - 1] : f[i][p] = f[i - 1][p]
             /\ \A k \in 1 .. Len(ss[i]) : f[i][at[i - 1] + k] = ss[i][k]
  <2>1. i - 1 \in 0 .. n /\ i \in 0 .. n
    BY <1>3
  <2>2. f[i - 1] \in Seq(S) /\ ss[i] \in Seq(S) /\ f[i] = f[i - 1] \o ss[i]
    BY <1>2, <1>3, <2>1
  <2>3. at[i - 1] = Len(f[i - 1]) /\ at[i] = Len(f[i]) /\ at[i - 1] \in Nat /\ Len(ss[i]) \in Nat
    <3>1. Len(f[i - 1]) \in Nat
      BY <2>2, LenProperties
    <3> QED BY <1>3, <1>4, <2>1, <3>1
  <2> HIDE DEF S
  <2>4. IsList(f[i - 1]) /\ IsList(ss[i])
    BY <2>2, SeqIsList
  <2>5. IsConcat(f[i], f[i - 1], ss[i])
    BY <2>2, <2>4, ConcatLists
  <2> QED BY <2>3, <2>5 DEF IsConcat
\* Part i stays where it is in the longer prefixes.
<1>6. ASSUME NEW i \in 1 .. n, NEW k \in 1 .. Len(ss[i])
      PROVE  f[n][at[i - 1] + k] = ss[i][k]
  <2> DEFINE Bad == {j \in i .. n : f[j][at[i - 1] + k] # ss[i][k] \/ at[i - 1] + k > at[j]}
  <2> SUFFICES ASSUME Bad # {} PROVE FALSE
    <3>1. n \in i .. n
      BY <1>3
    <3> QED BY <3>1
  <2>1. Bad \subseteq Nat
    BY <1>3
  <2>2. ASSUME NEW j \in Bad, \A m \in Bad : j <= m PROVE FALSE
    <3>1. j \in i .. n /\ (f[j][at[i - 1] + k] # ss[i][k] \/ at[i - 1] + k > at[j])
      OBVIOUS
    <3>2. i - 1 \in 0 .. n /\ at[i - 1] \in Nat /\ Len(ss[i]) \in Nat /\ at[j] \in Nat
      <4>1. i - 1 \in 0 .. n /\ j \in 0 .. n
        BY <1>3, <3>1
      <4> QED BY <1>3, <1>4, <4>1
    <3>3. CASE j = i
      BY <1>5, <3>1, <3>2, <3>3
    <3>4. CASE j # i
      <4>1. j - 1 \in i .. n /\ j \in 1 .. n /\ j - 1 \notin Bad
        <5>1. j - 1 \in i .. n /\ j \in 1 .. n /\ j \in Nat
          BY <1>3, <3>1, <3>4
        <5> HIDE DEF Bad
        <5> QED BY <2>2, <5>1
      <4>2. f[j - 1][at[i - 1] + k] = ss[i][k] /\ at[i - 1] + k <= at[j - 1]
        <5>1. at[j - 1] \in Nat
          BY <1>3, <1>4, <4>1
        <5> QED BY <3>2, <4>1, <5>1
      <4>3. at[i - 1] + k \in 1 .. at[j - 1] /\ at[j - 1] \in Nat
        <5> DEFINE a == at[i - 1]
                   b == at[j - 1]
        <5>1. b \in Nat /\ k \in Nat \ {0}
          BY <1>3, <1>4, <4>1, <3>2
        <5>2. a \in Nat /\ a + k <= b
          BY <3>2, <4>2
        <5> HIDE DEF a, b, Bad
        <5>3. a + k \in 1 .. b
          BY <5>1, <5>2
        <5> QED BY <5>1, <5>3 DEF a, b
      <4>4. at[j] = at[j - 1] + Len(ss[j]) /\ Len(ss[j]) \in Nat
        BY <1>3, <1>5, <4>1
      <4> HIDE DEF Bad
      <4>5. f[j][at[i - 1] + k] = f[j - 1][at[i - 1] + k]
        <5>1. \A p \in 1 .. at[j - 1] : f[j][p] = f[j - 1][p]
          BY <1>5, <4>1
        <5> QED BY <4>3, <5>1
      <4>6. f[j][at[i - 1] + k] = ss[i][k]
        BY <4>2, <4>5
      <4>7. at[i - 1] + k <= at[j]
        <5> DEFINE a == at[i - 1]
                   b == at[j - 1]
                   l == Len(ss[j])
        <5>1. a \in Nat /\ k \in Nat /\ b \in Nat /\ l \in Nat /\ a + k <= b /\ at[j] = b + l
          BY <3>2, <4>2, <4>3, <4>4
        <5> HIDE DEF a, b, l
        <5>2. a + k <= at[j]
          BY <5>1
        <5> QED BY <5>2 DEF a
      <4> QED BY <3>1, <3>2, <4>6, <4>7
    <3> HIDE DEF Bad
    <3> QED BY <3>3, <3>4
  <2> HIDE DEF Bad
  <2> QED BY <2>1, <2>2, HasLeast
<1>7. IsList(FlattenSeq(ss))
  <2>1. f[n] \in Seq(S)
    BY <1>2, <1>3
  <2> QED BY <1>2, <2>1, SeqIsList
<1>8. Offsets(at, ss)
  BY <1>2, <1>4, <1>5, <1>6 DEF Offsets, n
<1> QED BY <1>7, <1>8

\* A part that comes first ends before another starts.
LEMMA OffsetsGrow ==
  ASSUME NEW ss, IsList(ss), NEW at, Offsets(at, ss), \A i \in DOMAIN ss : IsList(ss[i]),
         NEW i \in 0 .. Len(ss), NEW j \in i .. Len(ss)
  PROVE  at[i] <= at[j]
<1>1. Len(ss) \in Nat /\ DOMAIN ss = 1 .. Len(ss)
  BY ListIs
<1> DEFINE Bad == {m \in i .. Len(ss) : ~(at[i] <= at[m])}
<1>2. Bad \subseteq Nat
  BY <1>1
<1>3. ASSUME NEW m \in Bad, \A b \in Bad : m <= b PROVE FALSE
  <2>1. m \in i .. Len(ss) /\ ~(at[i] <= at[m])
    OBVIOUS
  <2>2. at[i] \in Nat
    BY <1>1 DEF Offsets
  <2>3. m # i
    BY <2>1, <2>2
  <2>4. m - 1 \in i .. Len(ss) /\ m \in 1 .. Len(ss) /\ m - 1 \in 0 .. Len(ss) /\ m - 1 \notin Bad
    <3>1. m - 1 \in i .. Len(ss) /\ m \in 1 .. Len(ss) /\ m - 1 \in 0 .. Len(ss) /\ m \in Nat
      BY <1>1, <2>1, <2>3
    <3> HIDE DEF Bad
    <3> QED BY <1>3, <3>1
  <2>5. at[i] <= at[m - 1]
    BY <2>4
  <2>6. at[m] = at[m - 1] + Len(ss[m]) /\ at[m - 1] \in Nat /\ Len(ss[m]) \in Nat
    <3>1. IsList(ss[m])
      BY <1>1, <2>4
    <3> QED BY <2>4, <3>1, ListIs DEF Offsets
  <2> HIDE DEF Bad
  <2> QED BY <2>1, <2>2, <2>5, <2>6
<1>4. Bad = {}
  <2> HIDE DEF Bad
  <2> QED BY <1>2, <1>3, HasLeast
<1>5. j \in i .. Len(ss)
  OBVIOUS
<1> QED BY <1>4, <1>5

\* Place p of FlattenSeq(ss) is place k of part i.
IsPlaceOf(p, ss, at, i, k) ==
  /\ i \in 1 .. Len(ss) /\ k \in 1 .. Len(ss[i])
  /\ p = at[i - 1] + k /\ FlattenSeq(ss)[p] = ss[i][k]

\* Every place of FlattenSeq(ss) is one of a part.
LEMMA OffsetsCover ==
  ASSUME NEW ss, IsListOfLists(ss), NEW at, Offsets(at, ss), NEW p \in 1 .. Len(FlattenSeq(ss))
  PROVE  \E i, k : IsPlaceOf(p, ss, at, i, k)
<1>1. Len(ss) \in Nat /\ DOMAIN ss = 1 .. Len(ss)
  BY ListIs DEF IsListOfLists
<1> DEFINE Beyond == {m \in 0 .. Len(ss) : p <= at[m]}
<1>2. Beyond \subseteq Nat /\ Len(ss) \in Beyond /\ p \in Nat /\ p >= 1
  <2>1. IsList(FlattenSeq(ss))
    BY FlattenOffsets
  <2>2. Len(FlattenSeq(ss)) \in Nat
    BY <2>1, ListIs
  <2> QED BY <1>1, <2>2 DEF Offsets
<1>3. PICK i \in Beyond : \A m \in Beyond : i <= m
  <2> HIDE DEF Beyond
  <2>1. Beyond # {}
    BY <1>2
  <2> QED BY <1>2, <2>1, HasLeast
<1>4. i \in 0 .. Len(ss) /\ p <= at[i]
  OBVIOUS
<1>5. i # 0
  BY <1>2, <1>4 DEF Offsets
<1>6. i \in 1 .. Len(ss) /\ i - 1 \in 0 .. Len(ss) /\ i - 1 \notin Beyond
  <2>1. i \in 1 .. Len(ss) /\ i - 1 \in 0 .. Len(ss) /\ i \in Nat
    BY <1>1, <1>4, <1>5
  <2> HIDE DEF Beyond
  <2> QED BY <1>3, <2>1
<1>7. ~(p <= at[i - 1])
  BY <1>6
<1>8. at[i] = at[i - 1] + Len(ss[i]) /\ at[i - 1] \in Nat /\ Len(ss[i]) \in Nat
  <2>1. IsList(ss[i])
    BY <1>1, <1>6 DEF IsListOfLists
  <2> QED BY <1>6, <2>1, ListIs DEF Offsets
<1> HIDE DEF Beyond
<1>9. p - at[i - 1] \in 1 .. Len(ss[i]) /\ at[i - 1] + (p - at[i - 1]) = p
  BY <1>2, <1>4, <1>7, <1>8
<1>10. FlattenSeq(ss)[at[i - 1] + (p - at[i - 1])] = ss[i][p - at[i - 1]]
  BY <1>6, <1>9 DEF Offsets
<1>11. IsPlaceOf(p, ss, at, i, p - at[i - 1])
  BY <1>6, <1>9, <1>10 DEF IsPlaceOf
<1> QED BY <1>11

\* What is in FlattenSeq(ss) is what is in its parts.
LEMMA FlattenElements ==
  ASSUME NEW ss, IsListOfLists(ss)
  PROVE  ToSet(FlattenSeq(ss)) = Elements(ss)
<1>1. PICK at : Offsets(at, ss)
  BY FlattenOffsets
<1>2. /\ DOMAIN FlattenSeq(ss) = 1 .. Len(FlattenSeq(ss))
      /\ Len(FlattenSeq(ss)) \in Nat
      /\ DOMAIN ss = 1 .. Len(ss) /\ Len(ss) \in Nat
      /\ \A i \in DOMAIN ss : DOMAIN ss[i] = 1 .. Len(ss[i]) /\ Len(ss[i]) \in Nat
  BY FlattenOffsets, ListIs DEF IsListOfLists
<1>3. ASSUME NEW p \in DOMAIN FlattenSeq(ss) PROVE FlattenSeq(ss)[p] \in Elements(ss)
  <2>1. PICK i, k : IsPlaceOf(p, ss, at, i, k)
    <3>1. p \in 1 .. Len(FlattenSeq(ss))
      BY <1>2
    <3> QED BY <1>1, <3>1, OffsetsCover
  <2> QED BY <1>2, <2>1 DEF Elements, IsPlaceOf
<1>4. ASSUME NEW i \in DOMAIN ss, NEW k \in DOMAIN ss[i] PROVE ss[i][k] \in ToSet(FlattenSeq(ss))
  <2>1. i \in 1 .. Len(ss) /\ k \in 1 .. Len(ss[i]) /\ Len(ss[i]) \in Nat
    BY <1>2
  <2>2. FlattenSeq(ss)[at[i - 1] + k] = ss[i][k]
    BY <1>1, <2>1 DEF Offsets
  <2>3. at[i] <= at[Len(ss)] /\ i - 1 \in 0 .. Len(ss)
    BY <1>1, <1>2, <2>1, OffsetsGrow DEF IsListOfLists
  <2>4. at[i - 1] + k \in DOMAIN FlattenSeq(ss)
    <3>1. at[i] = at[i - 1] + Len(ss[i]) /\ at[i - 1] \in Nat /\ at[Len(ss)] = Len(FlattenSeq(ss))
      BY <1>1, <2>1, <2>3 DEF Offsets
    <3> QED BY <1>2, <2>1, <2>3, <3>1
  <2> QED BY <2>2, <2>4 DEF ToSet
<1> QED BY <1>3, <1>4 DEF ToSet, Elements

\* Where two places of FlattenSeq(ss) are in its parts.
ArePlaces(ss, p, q, i, k, j, l) ==
  /\ i \in DOMAIN ss /\ k \in DOMAIN ss[i] /\ FlattenSeq(ss)[p] = ss[i][k]
  /\ j \in DOMAIN ss /\ l \in DOMAIN ss[j] /\ FlattenSeq(ss)[q] = ss[j][l]
  /\ i \in Nat /\ j \in Nat /\ k \in Nat /\ l \in Nat
  /\ i < j \/ (i = j /\ k < l)

LEMMA PlaceIs ==
  ASSUME NEW ss, IsListOfLists(ss), NEW at, Offsets(at, ss), NEW p, NEW i, NEW k, IsPlaceOf(p, ss, at, i, k)
  PROVE  /\ i \in DOMAIN ss /\ k \in DOMAIN ss[i] /\ FlattenSeq(ss)[p] = ss[i][k]
         /\ i \in Nat /\ i <= Len(ss) /\ i >= 1 /\ k \in 1 .. Len(ss[i]) /\ Len(ss[i]) \in Nat
         /\ p = at[i - 1] + k /\ at[i - 1] \in Nat /\ at[i] = at[i - 1] + Len(ss[i])
<1>1. DOMAIN ss = 1 .. Len(ss) /\ Len(ss) \in Nat
  BY ListIs DEF IsListOfLists
<1>2. i \in 1 .. Len(ss) /\ k \in 1 .. Len(ss[i]) /\ p = at[i - 1] + k /\ FlattenSeq(ss)[p] = ss[i][k]
  BY DEF IsPlaceOf
<1>3. IsList(ss[i])
  BY <1>1, <1>2 DEF IsListOfLists
<1>4. Len(ss[i]) \in Nat /\ DOMAIN ss[i] = 1 .. Len(ss[i])
  BY <1>3, ListIs
<1>5. i - 1 \in 0 .. Len(ss) /\ i \in Nat /\ i >= 1 /\ i <= Len(ss)
  BY <1>1, <1>2
<1>6. at[i - 1] \in Nat /\ at[i] = at[i - 1] + Len(ss[i])
  BY <1>2, <1>5 DEF Offsets
<1> QED BY <1>1, <1>2, <1>4, <1>5, <1>6

\* FlattenSeq keeps the order of its parts.
LEMMA FlattenOrder ==
  ASSUME NEW ss, IsListOfLists(ss), NEW p \in DOMAIN FlattenSeq(ss), NEW q \in DOMAIN FlattenSeq(ss), p < q
  PROVE  \E i, k, j, l : ArePlaces(ss, p, q, i, k, j, l)
<1>1. PICK at : Offsets(at, ss)
  BY FlattenOffsets
<1>2. p \in 1 .. Len(FlattenSeq(ss)) /\ q \in 1 .. Len(FlattenSeq(ss))
  BY FlattenOffsets, ListIs
<1>3. PICK i, k : IsPlaceOf(p, ss, at, i, k)
  BY <1>1, <1>2, OffsetsCover
<1>4. PICK j, l : IsPlaceOf(q, ss, at, j, l)
  BY <1>1, <1>2, OffsetsCover
<1>5. DOMAIN ss = 1 .. Len(ss) /\ Len(ss) \in Nat
  BY ListIs DEF IsListOfLists
<1>6. /\ i \in DOMAIN ss /\ k \in DOMAIN ss[i] /\ FlattenSeq(ss)[p] = ss[i][k]
      /\ i \in Nat /\ i <= Len(ss) /\ i >= 1 /\ k \in 1 .. Len(ss[i]) /\ Len(ss[i]) \in Nat
      /\ p = at[i - 1] + k /\ at[i - 1] \in Nat /\ at[i] = at[i - 1] + Len(ss[i])
  BY <1>1, <1>3, PlaceIs
<1>7. /\ j \in DOMAIN ss /\ l \in DOMAIN ss[j] /\ FlattenSeq(ss)[q] = ss[j][l]
      /\ j \in Nat /\ j <= Len(ss) /\ j >= 1 /\ l \in 1 .. Len(ss[j]) /\ Len(ss[j]) \in Nat
      /\ q = at[j - 1] + l /\ at[j - 1] \in Nat /\ at[j] = at[j - 1] + Len(ss[j])
  BY <1>1, <1>4, PlaceIs
<1>8. CASE j < i
  <2>1. j \in 0 .. Len(ss) /\ i - 1 \in j .. Len(ss)
    <3> DEFINE n == Len(ss)
    <3>1. n \in Nat /\ i \in Nat /\ j \in Nat /\ i <= n /\ j < i
      BY <1>5, <1>6, <1>7, <1>8
    <3> HIDE DEF n
    <3>2. j \in 0 .. n /\ i - 1 \in j .. n
      BY <3>1
    <3> QED BY <3>2 DEF n
  <2>2. at[j] <= at[i - 1]
    <3> DEFINE m == i - 1
    <3>1. j \in 0 .. Len(ss) /\ m \in j .. Len(ss)
      BY <2>1
    <3> HIDE DEF m
    <3>2. at[j] <= at[m]
      BY <1>1, <3>1, OffsetsGrow DEF IsListOfLists
    <3> QED BY <3>2 DEF m
  <2> DEFINE a == at[i - 1]
             b == at[j - 1]
             n == Len(ss[j])
  <2>3. a \in Nat /\ p = a + k /\ k \in 1 .. Len(ss[i]) /\ Len(ss[i]) \in Nat
    BY <1>6
  <2>4. b \in Nat /\ q = b + l /\ l \in 1 .. n /\ n \in Nat /\ at[j] = b + n
    BY <1>7
  <2>5. at[j] <= a
    BY <2>2
  <2> HIDE DEF a, b, n
  <2> QED BY <2>3, <2>4, <2>5
<1>9. CASE i = j
  <2> DEFINE a == at[i - 1]
  <2>1. a \in Nat /\ p = a + k /\ q = a + l /\ k \in Nat /\ l \in Nat
    BY <1>6, <1>7, <1>9
  <2> HIDE DEF a
  <2>2. k < l
    BY <2>1
  <2>3. ArePlaces(ss, p, q, i, k, j, l)
    BY <1>6, <1>7, <1>9, <2>1, <2>2 DEF ArePlaces
  <2> QED BY <2>3
<1>10. CASE i < j
  <2>1. k \in Nat /\ l \in Nat
    BY <1>6, <1>7
  <2>2. ArePlaces(ss, p, q, i, k, j, l)
    BY <1>6, <1>7, <1>10, <2>1 DEF ArePlaces
  <2> QED BY <2>2
<1> QED BY <1>6, <1>7, <1>8, <1>9, <1>10

-----------------------------------------------------------------------------
(* Some elements of a list. *)

Chosen(s, K, g) == FlattenSeq([i \in DOMAIN s |-> IF i \in K THEN <<g[i]>> ELSE <<>>])

\* Place p of f is made of place at[p] of s, one of K.
ChosenAt(at, f, s, K, g) ==
  /\ \A p \in DOMAIN f : at[p] \in DOMAIN s /\ at[p] \in K /\ f[p] = g[at[p]]
  /\ \A p, q \in DOMAIN f : p < q => at[p] < at[q]
  /\ \A i \in DOMAIN s : i \in K => \E p \in DOMAIN f : at[p] = i

\* What is made of the places of a set is in their order.
LEMMA ChosenIs ==
  ASSUME NEW s, IsList(s), NEW K, NEW g, NEW f, f = Chosen(s, K, g)
  PROVE  IsList(f) /\ \E at : ChosenAt(at, f, s, K, g)
<1> DEFINE ss == [i \in DOMAIN s |-> IF i \in K THEN <<g[i]>> ELSE <<>>]
<1>1. DOMAIN s = 1 .. Len(s) /\ Len(s) \in Nat
  BY ListIs
<1>2. ASSUME NEW i \in DOMAIN s
      PROVE  IsList(ss[i]) /\ (\A k \in DOMAIN ss[i] : k = 1 /\ ss[i][k] = g[i] /\ i \in K)
             /\ (i \in K => ss[i] = <<g[i]>>)
  <2>1. CASE i \in K
    <3>1. ss[i] = <<g[i]>>
      BY <2>1
    <3> HIDE DEF ss
    <3> QED BY <2>1, <3>1, OneList
  <2>2. CASE i \notin K
    <3>1. ss[i] = <<>>
      BY <2>2
    <3> HIDE DEF ss
    <3> QED BY <2>2, <3>1, EmptyList
  <2> QED BY <2>1, <2>2
<1>3. DOMAIN ss = DOMAIN s /\ ss = [i \in 1 .. Len(s) |-> ss[i]] /\ f = FlattenSeq(ss)
  BY <1>1 DEF Chosen
<1> HIDE DEF ss
<1>4. IsListOfLists(ss) /\ IsList(ss)
  <2>1. IsList(ss)
    BY <1>1, <1>3, MadeList
  <2> QED BY <1>2, <1>3, <2>1 DEF IsListOfLists
<1>5. IsList(f) /\ DOMAIN f = 1 .. Len(f) /\ Len(f) \in Nat
  <2>1. IsList(f)
    BY <1>3, <1>4, FlattenOffsets
  <2> QED BY <2>1, ListIs
<1>6. PICK offs : Offsets(offs, ss)
  BY <1>4, FlattenOffsets
<1> DEFINE at == [p \in DOMAIN f |-> CHOOSE i : \E k : IsPlaceOf(p, ss, offs, i, k)]
<1>7. ASSUME NEW p \in DOMAIN f
      PROVE  /\ at[p] \in DOMAIN s /\ at[p] \in K /\ f[p] = g[at[p]]
             /\ at[p] \in Nat /\ at[p] >= 1 /\ at[p] <= Len(ss)
             /\ offs[at[p] - 1] \in Nat /\ p = offs[at[p] - 1] + 1
  <2>1. p \in 1 .. Len(FlattenSeq(ss))
    BY <1>3, <1>5
  <2>2. \E i : \E k : IsPlaceOf(p, ss, offs, i, k)
    BY <1>4, <1>6, <2>1, OffsetsCover
  <2>3. \E k : IsPlaceOf(p, ss, offs, at[p], k)
    BY <2>2, Zenon
  <2> HIDE DEF at
  <2>4. PICK k : IsPlaceOf(p, ss, offs, at[p], k)
    BY <2>3
  <2>5. /\ at[p] \in DOMAIN ss /\ k \in DOMAIN ss[at[p]] /\ FlattenSeq(ss)[p] = ss[at[p]][k]
        /\ at[p] \in Nat /\ at[p] <= Len(ss) /\ at[p] >= 1
        /\ p = offs[at[p] - 1] + k /\ offs[at[p] - 1] \in Nat
    BY <1>4, <1>6, <2>4, PlaceIs
  <2>6. k = 1 /\ ss[at[p]][k] = g[at[p]] /\ at[p] \in K
    BY <1>2, <1>3, <2>5
  <2> QED BY <1>3, <2>5, <2>6
<1> HIDE DEF at
<1>8. ASSUME NEW p \in DOMAIN f, NEW q \in DOMAIN f, p < q PROVE at[p] < at[q]
  <2> DEFINE a == at[p]
             b == at[q]
  <2>1. a \in Nat /\ a >= 1 /\ a <= Len(ss) /\ offs[a - 1] \in Nat /\ p = offs[a - 1] + 1
    BY <1>7
  <2>2. b \in Nat /\ b >= 1 /\ b <= Len(ss) /\ offs[b - 1] \in Nat /\ q = offs[b - 1] + 1
    BY <1>7
  <2>3. Len(ss) \in Nat
    BY <1>4, ListIs
  <2> HIDE DEF a, b
  <2>4. CASE b <= a
    <3>1. b - 1 \in 0 .. Len(ss) /\ a - 1 \in b - 1 .. Len(ss)
      BY <2>1, <2>2, <2>3, <2>4
    <3>2. offs[b - 1] <= offs[a - 1]
      BY <1>4, <1>6, <3>1, OffsetsGrow DEF IsListOfLists
    <3> QED BY <1>8, <2>1, <2>2, <3>2
  <2>5. CASE ~(b <= a)
    BY <2>1, <2>2, <2>5 DEF a, b
  <2> QED BY <2>4, <2>5
<1>9. ASSUME NEW i \in DOMAIN s, i \in K PROVE \E p \in DOMAIN f : at[p] = i
  <2>1. ss[i] = <<g[i]>>
    BY <1>2, <1>9
  <2>2. i \in 1 .. Len(ss) /\ Len(ss) \in Nat /\ Len(ss[i]) = 1
    BY <1>3, <1>4, <2>1, ListIs
  <2> DEFINE p == offs[i - 1] + 1
  <2>3. /\ i - 1 \in 0 .. Len(ss) /\ i \in 0 .. Len(ss) /\ Len(ss) \in i .. Len(ss)
        /\ i \in Nat /\ i >= 1 /\ i <= Len(ss)
    BY <2>2
  <2>4. offs[i] <= offs[Len(ss)]
    BY <1>4, <1>6, <2>3, OffsetsGrow DEF IsListOfLists
  <2>5. offs[i - 1] \in Nat /\ offs[i] = offs[i - 1] + 1 /\ offs[Len(ss)] = Len(f)
    BY <1>3, <1>6, <2>2, <2>3 DEF Offsets
  <2>6. p \in DOMAIN f
    BY <1>5, <2>4, <2>5
  <2>7. offs[at[p] - 1] \in Nat /\ p = offs[at[p] - 1] + 1 /\ at[p] \in Nat /\ at[p] >= 1 /\ at[p] <= Len(ss)
    BY <1>7, <2>6
  <2>8. at[p] = i
    <3> DEFINE j == at[p]
               d == offs[i - 1]
    <3>1. j \in Nat /\ j >= 1 /\ j <= Len(ss) /\ offs[j - 1] = d /\ d \in Nat /\ offs[i] = d + 1
      <4>1. offs[j - 1] \in Nat /\ d \in Nat /\ d + 1 = offs[j - 1] + 1
        BY <2>5, <2>7
      <4> HIDE DEF j, d, p
      <4> QED BY <2>5, <2>7, <4>1 DEF j, d
    <3> HIDE DEF j, d, p
    <3>2. CASE j < i
      <4>1. ss[j] = <<g[j]>>
        BY <1>2, <1>7, <2>6 DEF j
      <4>2. j \in 1 .. Len(ss) /\ Len(ss[j]) = 1 /\ j \in 0 .. Len(ss) /\ i - 1 \in j .. Len(ss)
        BY <2>2, <2>3, <3>1, <3>2, <4>1
      <4>3. offs[j] = d + 1 /\ offs[j] <= offs[i - 1]
        BY <1>4, <1>6, <3>1, <4>2, OffsetsGrow DEF Offsets, IsListOfLists
      <4> QED BY <3>1, <4>3 DEF d
    <3>3. CASE i < j
      <4>1. j - 1 \in i .. Len(ss) /\ i \in 0 .. Len(ss)
        BY <2>2, <2>3, <3>1, <3>3
      <4>2. offs[i] <= offs[j - 1]
        BY <1>4, <1>6, <4>1, OffsetsGrow DEF IsListOfLists
      <4> QED BY <3>1, <4>2
    <3>4. CASE j = i
      BY <3>4 DEF j
    <3>5. i \in Nat /\ j \in Nat
      BY <2>3, <3>1
    <3> QED BY <3>2, <3>3, <3>4, <3>5
  <2> QED BY <2>6, <2>8
<1>10. ChosenAt(at, f, s, K, g)
  BY <1>7, <1>8, <1>9 DEF ChosenAt
<1> QED BY <1>5, <1>10

\* Place i of f is place at[i] of s.
Embeds(at, f, s) ==
  /\ \A i \in DOMAIN f : at[i] \in DOMAIN s /\ f[i] = s[at[i]]
  /\ \A i, j \in DOMAIN f : at[i] = at[j] => i = j

PartOf(f, s) == \E at : Embeds(at, f, s)

Picked(s, K) == FlattenSeq([i \in DOMAIN s |-> IF s[i] \in K THEN <<s[i]>> ELSE <<>>])

\* The elements of a list that are in a set.
LEMMA PickedIs ==
  ASSUME NEW s, IsList(s), NEW K
  PROVE  /\ IsList(Picked(s, K))
         /\ ToSet(Picked(s, K)) = ToSet(s) \cap K
         /\ PartOf(Picked(s, K), s)
<1> DEFINE places == {i \in DOMAIN s : s[i] \in K}
           f == Picked(s, K)
<1>1. f = Chosen(s, places, s)
  <2>1. \A i \in DOMAIN s : i \in places <=> s[i] \in K
    OBVIOUS
  <2> HIDE DEF places
  <2> QED BY <2>1 DEF Chosen, Picked
<1> HIDE DEF f
<1>2. IsList(f)
  BY <1>1, ChosenIs
<1>3. PICK at : ChosenAt(at, f, s, places, s)
  BY <1>1, ChosenIs
<1>4. DOMAIN f = 1 .. Len(f) /\ Len(f) \in Nat /\ DOMAIN s = 1 .. Len(s) /\ Len(s) \in Nat
  BY <1>2, ListIs
<1>5. Embeds(at, f, s)
  <2>1. ASSUME NEW i \in DOMAIN f, NEW j \in DOMAIN f, at[i] = at[j] PROVE i = j
    <3>1. at[i] \in Nat /\ at[j] \in Nat /\ i \in Nat /\ j \in Nat
      BY <1>3, <1>4 DEF ChosenAt
    <3>2. ~(i < j) /\ ~(j < i)
      BY <1>3, <2>1, <3>1 DEF ChosenAt
    <3> QED BY <3>1, <3>2
  <2> QED BY <1>3, <2>1 DEF ChosenAt, Embeds
<1>6. ToSet(f) = ToSet(s) \cap K
  <2>1. \A p \in DOMAIN f : f[p] \in ToSet(s) \cap K
    BY <1>3 DEF ChosenAt, ToSet
  <2>2. \A i \in DOMAIN s : s[i] \in K => \E p \in DOMAIN f : f[p] = s[i]
    BY <1>3 DEF ChosenAt
  <2> QED BY <2>1, <2>2 DEF ToSet
<1> QED BY <1>2, <1>5, <1>6 DEF f, PartOf

\* x comes before y in a list.
ComesFirst(s, x, y) == \E k, l \in DOMAIN s : k < l /\ s[k] = x /\ s[l] = y

LEMMA ConcatOrder ==
  ASSUME NEW s, NEW t, IsList(s), IsList(t), NEW u, u = s \o t,
         NEW p \in DOMAIN u, NEW q \in DOMAIN u, p < q
  PROVE  ComesFirst(s, u[p], u[q]) \/ ComesFirst(t, u[p], u[q]) \/ (u[p] \in ToSet(s) /\ u[q] \in ToSet(t))
<1> DEFINE m == Len(s)
           n == Len(t)
           x == u[p]
           y == u[q]
<1>1. DOMAIN s = 1 .. m /\ m \in Nat /\ DOMAIN t = 1 .. n /\ n \in Nat /\ Len(s) = m /\ Len(t) = n
  BY ListIs
<1> HIDE DEF m, n
<1>2. ConcatAt(u, s, t, m, n)
  BY <1>1, ConcatLengths
<1>3. DOMAIN u = 1 .. m + n /\ (\A i \in 1 .. m : u[i] = s[i]) /\ (\A i \in 1 .. n : u[m + i] = t[i])
  BY <1>2, ListIs DEF ConcatAt
<1>4. p \in 1 .. m + n /\ q \in 1 .. m + n
  BY <1>3
<1>5. CASE q <= m
  <2>1. p \in 1 .. m /\ q \in 1 .. m
    BY <1>1, <1>4, <1>5
  <2>2. s[p] = x /\ s[q] = y
    BY <1>3, <2>1
  <2> HIDE DEF x, y
  <2>3. ComesFirst(s, x, y)
    BY <1>1, <2>1, <2>2 DEF ComesFirst
  <2> QED BY <2>3 DEF x, y
<1>6. CASE p > m
  <2>1. p - m \in 1 .. n /\ q - m \in 1 .. n /\ p - m < q - m /\ m + (p - m) = p /\ m + (q - m) = q
    BY <1>1, <1>4, <1>6
  <2>2. t[p - m] = x /\ t[q - m] = y
    BY <1>3, <2>1
  <2> HIDE DEF x, y
  <2>3. ComesFirst(t, x, y)
    BY <1>1, <2>1, <2>2 DEF ComesFirst
  <2> QED BY <2>3 DEF x, y
<1>7. CASE p <= m /\ q > m
  <2>1. p \in 1 .. m /\ q - m \in 1 .. n /\ m + (q - m) = q
    BY <1>1, <1>4, <1>7
  <2>2. s[p] = x /\ t[q - m] = y
    BY <1>3, <2>1
  <2> HIDE DEF x, y
  <2>3. x \in ToSet(s) /\ y \in ToSet(t)
    BY <1>1, <2>1, <2>2 DEF ToSet
  <2> QED BY <2>3 DEF x, y
<1>8. q <= m \/ p > m \/ (p <= m /\ q > m)
  BY <1>1, <1>4
<1> QED BY <1>5, <1>6, <1>7, <1>8
=============================================================================
