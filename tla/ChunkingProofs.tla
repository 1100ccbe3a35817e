--------------------------- MODULE ChunkingProofs ---------------------------
(***************************************************************************)
(* Proof that the chunks of a document keep its text.                      *)
(*                                                                         *)
(* A text that comes up in a cut is solid: a stretch of the document with  *)
(* some blanks gone.  What it is split into is solid again, and has all of *)
(* its letters that are kept (GoodSplitsAre); so do windows (WindowsKeep). *)
(* Filling chunks keeps that (FillKeeps) if cutting again what is too      *)
(* large does (PiecesKeep), which it does for the last separator, hence    *)
(* for each before it (CutKeeps).                                          *)
(***************************************************************************)
EXTENDS Chunking, SequenceTheorems, NaturalsInduction, WellFoundedInduction, TLAPS

\* A set of numbers that is not empty has a least one,
LEMMA LeastOf == ASSUME NEW T, T \subseteq Nat, T # {} PROVE \E x \in T : \A y \in T : x <= y
<1> DEFINE R == OpToRel(<, Nat)
<1>1. IsWellFoundedOn(R, Nat)
  BY NatLessThanWellFounded
<1>2. \A x, y \in Nat : x < y => <<x, y>> \in R
  BY DEF OpToRel
<1> HIDE DEF R
<1>3. PICK x \in T : \A y \in T : ~ (<<y, x>> \in R)
  BY <1>1, WFMin, ZenonT(30)
<1>4. x \in Nat /\ \A y \in T : y \in Nat /\ ~ (y < x)
  BY <1>2, <1>3
<1> QED
  BY <1>4

\* which Min chooses,
LEMMA MinIs ==
  ASSUME NEW T, T \subseteq Nat, T # {} PROVE Min(T) \in T /\ \A y \in T : Min(T) <= y
<1>1. PICK x \in T : \A y \in T : x <= y
  BY LeastOf
<1> QED
  BY <1>1 DEF Min

\* and if it is bounded a greatest one.
LEMMA MaxIs ==
  ASSUME NEW n \in Nat, NEW T, T \subseteq 0..n, T # {} PROVE Max(T) \in T /\ \A y \in T : Max(T) >= y
<1> DEFINE D == {n - t : t \in T}
<1>1. D # {} /\ (\A y \in T : n - y \in D) /\ \A d \in D : \E x \in T : d = n - x
  OBVIOUS
<1>2. D \subseteq Nat
  OBVIOUS
<1> HIDE DEF D
<1>3. PICK d \in D : \A e \in D : d <= e
  BY <1>1, <1>2, LeastOf
<1>4. PICK x \in T : d = n - x
  BY <1>1
<1>5. \A y \in T : x >= y
  BY <1>1, <1>3, <1>4
<1> QED
  BY <1>5 DEF Max

---------------------------------------------------------------------------
(* Letters. *)

\* A recursion whose every step goes further ahead
Onward(N, V, g, ahead) ==
  N \in Nat /\ g \in [1..N -> Seq(V)] /\ ahead \in [1..N -> Nat] /\ \A p \in 1..N : p < ahead[p]

Chained(f, N, g, ahead) == \A p \in 1..N : f[p] = IF ahead[p] > N THEN g[p] ELSE g[p] \o f[ahead[p]]

\* has a solution.
LEMMA ChainIs ==
  ASSUME NEW N, NEW V, NEW g, NEW ahead, Onward(N, V, g, ahead)
  PROVE  \E f \in [1..N -> Seq(V)] : Chained(f, N, g, ahead)
<1> N \in Nat /\ g \in [1..N -> Seq(V)] /\ ahead \in [1..N -> Nat] /\ \A p \in 1..N : p < ahead[p]
  BY DEF Onward
<1> DEFINE Solves(f, p) == f[p] = IF ahead[p] > N THEN g[p] ELSE g[p] \o f[ahead[p]]
           Is(m) == \E f \in [m..N -> Seq(V)] : \A p \in m..N : Solves(f, p)
           T == {m \in 1..N : ~Is(m)}
<1>1. Is(N + 1)
  <2> DEFINE f == [p \in (N + 1)..N |-> <<>>]
  <2>1. (N + 1)..N = {}
    OBVIOUS
  <2>2. f \in [(N + 1)..N -> Seq(V)] /\ \A p \in (N + 1)..N : Solves(f, p)
    BY <2>1
  <2> HIDE DEF f
  <2> QED
    BY <2>2
<1>2. CASE T = {}
  <2>1. Is(1)
    <3> HIDE DEF Is
    <3>1. CASE N = 0
      BY <1>1, <3>1
    <3>2. CASE N # 0
      <4>1. 1 \in 1..N
        BY <3>2
      <4> QED
        BY <1>2, <4>1
    <3> QED
      BY <3>1, <3>2
  <2> QED
    BY <2>1 DEF Chained
<1>3. CASE T # {}
  <2> HIDE DEF Is
  <2>1. T \subseteq 0..N
    OBVIOUS
  <2>2. PICK m \in T : \A y \in T : m >= y
    <3> HIDE DEF T
    <3> QED
      BY <1>3, <2>1, MaxIs
  <2>3. m \in 1..N /\ ~Is(m)
    OBVIOUS
  <2>4. Is(m + 1)
    <3>1. CASE m = N
      BY <1>1, <3>1
    <3>2. CASE m # N
      <4>1. m + 1 \in 1..N /\ ~ (m >= m + 1)
        BY <2>3, <3>2
      <4> QED
        BY <2>2, <4>1
    <3> QED
      BY <3>1, <3>2
  <2>5. PICK f \in [(m + 1)..N -> Seq(V)] : \A p \in (m + 1)..N : Solves(f, p)
    BY <2>4 DEF Is
  <2> DEFINE h == [p \in m..N |-> IF p # m THEN f[p] ELSE IF ahead[m] > N THEN g[m] ELSE g[m] \o f[ahead[m]]]
  <2>6. \A p \in m..N : p # m => p \in (m + 1)..N
    BY <2>3
  <2>7. \A p \in m..N : ~ (ahead[p] > N) => ahead[p] \in (m + 1)..N /\ ahead[p] \in m..N /\ ahead[p] # m
    BY <2>3
  <2>8. \A p \in m..N : p \in 1..N
    BY <2>3
  <2>9. h \in [m..N -> Seq(V)]
    <3>1. ASSUME NEW p \in m..N PROVE h[p] \in Seq(V)
      <4>1. g[m] \in Seq(V)
        BY <2>3
      <4>2. CASE p # m
        BY <2>6, <4>2
      <4>3. CASE p = m /\ ahead[m] > N
        BY <4>1, <4>3
      <4>4. CASE p = m /\ ~ (ahead[m] > N)
        <5>1. f[ahead[m]] \in Seq(V)
          BY <2>7, <4>4
        <5>2. g[m] \o f[ahead[m]] \in Seq(V)
          BY <4>1, <5>1
        <5> QED
          BY <4>4, <5>2
      <4> QED
        BY <4>2, <4>3, <4>4
    <3>2. h = [p \in m..N |-> h[p]]
      OBVIOUS
    <3> HIDE DEF h
    <3> QED
      BY <3>1, <3>2
  <2>10. ASSUME NEW p \in m..N PROVE Solves(h, p)
    <3>1. \A q \in (m + 1)..N : h[q] = f[q]
      BY <2>3
    <3>2. CASE p # m
      <4>1. h[p] = f[p] /\ Solves(f, p)
        BY <2>5, <2>6, <3>1, <3>2
      <4>2. ~ (ahead[p] > N) => h[ahead[p]] = f[ahead[p]]
        BY <2>7, <3>1
      <4> HIDE DEF h
      <4> QED
        BY <4>1, <4>2
    <3>3. CASE p = m
      <4>1. h[m] = IF ahead[m] > N THEN g[m] ELSE g[m] \o f[ahead[m]]
        BY <3>3
      <4>2. ~ (ahead[m] > N) => h[ahead[m]] = f[ahead[m]]
        BY <2>7, <3>1, <3>3
      <4> HIDE DEF h
      <4> QED
        BY <3>3, <4>1, <4>2
    <3> QED
      BY <3>2, <3>3
  <2> HIDE DEF h
  <2> QED
    BY <2>3, <2>9, <2>10 DEF Is
<1> QED
  BY <1>2, <1>3

---------------------------------------------------------------------------
(* Texts. *)

\* s stands in t, after f characters.
Stands(s, t, f) ==
  /\ f \in Nat /\ Len(s) \in Nat /\ Len(t) \in Nat /\ f + Len(s) <= Len(t)
  /\ \A i \in 1..Len(s) : s[i] = t[f + i]

LEMMA LettersAre ==
  ASSUME NEW C, NEW t \in Seq(C)
  PROVE  /\ Len(t) \in Nat /\ DOMAIN t = 1..Len(t) /\ Letters(t) \subseteq 1..Len(t)
         /\ \A p \in 1..Len(t) : p \in Nat /\ t[p] \in C /\ (p \in Letters(t) <=> ~Blank(t[p].sign))
         /\ \A p \in Letters(t) : t[p].at \in PlacesIn(t)
         /\ \A x \in PlacesIn(t) : \E p \in Letters(t) : x = t[p].at
  BY LenProperties DEF Letters, PlacesIn

\* The letters of a text within another.
LEMMA StandingLetters ==
  ASSUME NEW C, NEW s \in Seq(C), NEW t \in Seq(C), NEW f, Stands(s, t, f)
  PROVE  /\ \A i \in 1..Len(s) : f + i \in 1..Len(t) /\ (i \in Letters(s) <=> f + i \in Letters(t)) /\ s[i].at = t[f + i].at
         /\ PlacesIn(s) \subseteq PlacesIn(t)
<1>1. \A i \in 1..Len(s) : f + i \in 1..Len(t) /\ (i \in Letters(s) <=> f + i \in Letters(t)) /\ s[i] = t[f + i]
  BY LettersAre DEF Stands
<1> QED
  BY <1>1, LettersAre

LEMMA SubSeqStands ==
  ASSUME NEW C, NEW t \in Seq(C), NEW i \in Nat, NEW j \in Int, 1 <= i, i <= j + 1, j <= Len(t)
  PROVE  SubSeq(t, i, j) \in Seq(C) /\ Len(SubSeq(t, i, j)) = j - i + 1 /\ Stands(SubSeq(t, i, j), t, i - 1)
<1>1. Len(t) \in Nat
  OBVIOUS
<1>2. SubSeq(t, i, j) = [k \in 1..(j - i + 1) |-> t[i + k - 1]]
  BY <1>1 DEF SubSeq
<1>3. j - i + 1 \in Nat /\ i - 1 \in Nat /\ i - 1 + (j - i + 1) <= Len(t)
  BY <1>1
<1>4. \A k \in 1..(j - i + 1) : i + k - 1 \in 1..Len(t) /\ i + k - 1 = i - 1 + k
  BY <1>1, <1>3
<1>5. PICK n \in Nat : n = j - i + 1
  BY <1>3
<1>6. \A k \in 1..n : t[i + k - 1] \in C
  BY <1>4, <1>5
<1>7. [k \in 1..n |-> t[i + k - 1]] \in Seq(C) /\ Len([k \in 1..n |-> t[i + k - 1]]) = n
  BY <1>6
<1> QED
  BY <1>1, <1>2, <1>3, <1>4, <1>5, <1>7 DEF Stands

\* Two texts, one after the other.
LEMMA JoinIs ==
  ASSUME NEW C, NEW s \in Seq(C), NEW t \in Seq(C)
  PROVE  /\ s \o t \in Seq(C) /\ Len(s \o t) = Len(s) + Len(t)
         /\ Stands(s, s \o t, 0) /\ Stands(t, s \o t, Len(s))
         /\ \A p \in Letters(s \o t) : p \in Letters(s) \/ (p - Len(s) \in Letters(t) /\ (s \o t)[p] = t[p - Len(s)])
         /\ PlacesIn(s \o t) = PlacesIn(s) \cup PlacesIn(t)
<1>1. /\ s \o t \in Seq(C) /\ Len(s \o t) = Len(s) + Len(t) /\ Len(s) \in Nat /\ Len(t) \in Nat
      /\ \A i \in 1..Len(s) : (s \o t)[i] = s[i]
      /\ \A i \in 1..Len(t) : (s \o t)[Len(s) + i] = t[i]
  OBVIOUS
<1>2. Stands(s, s \o t, 0) /\ Stands(t, s \o t, Len(s))
  BY <1>1 DEF Stands
<1>3. \A p \in 1..Len(s \o t) : p \in 1..Len(s) \/ (p - Len(s) \in 1..Len(t) /\ Len(s) + (p - Len(s)) = p)
  BY <1>1
<1>4. ASSUME NEW p \in Letters(s \o t)
      PROVE  p \in Letters(s) \/ (p - Len(s) \in Letters(t) /\ (s \o t)[p] = t[p - Len(s)])
  <2>1. p \in 1..Len(s \o t)
    BY <1>1, LettersAre
  <2>2. CASE p \in 1..Len(s)
    <3>1. \A i \in 1..Len(s) : i \in Letters(s) <=> 0 + i \in Letters(s \o t)
      BY <1>1, <1>2, StandingLetters
    <3>2. 0 + p = p
      BY <2>2
    <3> QED
      BY <2>2, <3>1, <3>2
  <2>3. CASE p - Len(s) \in 1..Len(t) /\ Len(s) + (p - Len(s)) = p
    <3>1. PICK i \in 1..Len(t) : i = p - Len(s)
      BY <2>3
    <3>2. i \in Letters(t) <=> Len(s) + i \in Letters(s \o t)
      BY <1>1, <1>2, StandingLetters
    <3> QED
      BY <1>1, <2>3, <3>1, <3>2
  <2> QED
    BY <1>3, <2>1, <2>2, <2>3
<1>5. PlacesIn(s \o t) \subseteq PlacesIn(s) \cup PlacesIn(t)
  <2> SUFFICES ASSUME NEW x \in PlacesIn(s \o t) PROVE x \in PlacesIn(s) \cup PlacesIn(t)
    OBVIOUS
  <2>1. PICK p \in Letters(s \o t) : x = (s \o t)[p].at
    BY <1>1, LettersAre
  <2>2. CASE p \in Letters(s)
    BY <1>1, <2>1, <2>2, LettersAre
  <2>3. CASE p - Len(s) \in Letters(t) /\ (s \o t)[p] = t[p - Len(s)]
    BY <2>1, <2>3, LettersAre
  <2> QED
    BY <1>4, <2>2, <2>3
<1>6. PlacesIn(s) \subseteq PlacesIn(s \o t) /\ PlacesIn(t) \subseteq PlacesIn(s \o t)
  BY <1>1, <1>2, StandingLetters
<1> QED
  BY <1>1, <1>2, <1>4, <1>5, <1>6

\* str.strip keeps the letters.
LEMMA StripIs ==
  ASSUME NEW C, NEW t \in Seq(C)
  PROVE  /\ Strip(t) \in Seq(C) /\ (Strip(t) = <<>> <=> Letters(t) = {})
         /\ \E f : /\ Stands(Strip(t), t, f)
                   /\ \A p \in Letters(t) : p - f \in 1..Len(Strip(t))
                   /\ Letters(t) # {} => f + 1 \in Letters(t) /\ f + Len(Strip(t)) \in Letters(t)
<1>1. Len(t) \in Nat /\ Letters(t) \subseteq 1..Len(t)
  BY LettersAre
<1>2. CASE Letters(t) = {}
  <2>1. Strip(t) = <<>> /\ Len(<<>>) = 0 /\ <<>> \in Seq(C)
    BY <1>2 DEF Strip
  <2>2. Stands(<<>>, t, 0)
    BY <1>1, <2>1 DEF Stands
  <2> QED
    BY <1>2, <2>1, <2>2
<1>3. CASE Letters(t) # {}
  <2>1. Letters(t) \subseteq Nat /\ Letters(t) \subseteq 0..Len(t)
    BY <1>1
  <2>2. PICK a \in Nat, z \in Nat : a = Min(Letters(t)) /\ z = Max(Letters(t)) /\ a \in Letters(t) /\ z \in Letters(t)
          /\ \A p \in Letters(t) : a <= p /\ p <= z
    BY <1>1, <1>3, <2>1, MinIs, MaxIs
  <2>3. 1 <= a /\ a <= z /\ z <= Len(t) /\ a <= z + 1 /\ z \in Int
    BY <1>1, <2>2
  <2>4. Strip(t) = SubSeq(t, a, z)
    BY <1>3, <2>2 DEF Strip
  <2>5. PICK s : s = Strip(t) /\ s \in Seq(C) /\ Len(s) = z - a + 1 /\ Stands(s, t, a - 1)
    BY <2>2, <2>3, <2>4, SubSeqStands
  <2>6. s # <<>>
    BY <2>3, <2>5
  <2>7. \A p \in Letters(t) : p - (a - 1) \in 1..Len(s)
    BY <1>1, <2>2, <2>5
  <2>8. a - 1 + 1 = a /\ a - 1 + Len(s) = z
    BY <2>5
  <2> QED
    BY <1>3, <2>2, <2>5, <2>6, <2>7, <2>8
<1> QED
  BY <1>2, <1>3

LEMMA StripAt == ASSUME NEW C, NEW t \in Seq(C) PROVE PlacesIn(Strip(t)) = PlacesIn(t)
<1>1. PICK f : Stands(Strip(t), t, f) /\ \A p \in Letters(t) : p - f \in 1..Len(Strip(t))
  BY StripIs
<1>2. Strip(t) \in Seq(C)
  BY StripIs
<1>3. PlacesIn(Strip(t)) \subseteq PlacesIn(t)
  BY <1>1, <1>2, StandingLetters
<1>4. ASSUME NEW x \in PlacesIn(t) PROVE x \in PlacesIn(Strip(t))
  <2>1. PICK p \in Letters(t) : x = t[p].at
    BY LettersAre
  <2>2. PICK i \in 1..Len(Strip(t)) : i = p - f
    BY <1>1
  <2>3. f + i = p
    BY <1>1, <2>1, <2>2, LettersAre DEF Stands
  <2>4. i \in Letters(Strip(t)) /\ Strip(t)[i].at = x
    BY <1>1, <1>2, <2>1, <2>3, StandingLetters
  <2> QED
    BY <1>2, <2>4, LettersAre
<1> QED
  BY <1>3, <1>4

---------------------------------------------------------------------------
(* Stretches of a document. *)

IsDoc(D) == D \in Seq(Chars) /\ \A i \in DOMAIN D : D[i].at = i

Of(D) == {D[i] : i \in DOMAIN D}

\* A text in the order of the document, which has each letter between two of its characters.
Solid(t, D) ==
  /\ t \in Seq(Of(D))
  /\ \A p, q \in 1..Len(t) : p < q => t[p].at < t[q].at
  /\ \A p, q \in 1..Len(t), x \in Letters(D) : t[p].at <= x /\ x <= t[q].at => x \in PlacesIn(t)

\* The places of the letters from i to j.
Span(t, i, j) == {t[k].at : k \in {k \in Letters(t) : i <= k /\ k <= j}}

\* What the characters of a document are.
LEMMA OfDoc ==
  ASSUME NEW D, IsDoc(D), NEW t \in Seq(Of(D))
  PROVE  /\ Len(D) \in Nat /\ DOMAIN D = 1..Len(D) /\ Letters(D) \subseteq 1..Len(D) /\ PlacesIn(t) \subseteq Letters(D)
         /\ \A p \in 1..Len(t) :
              /\ t[p].at \in 1..Len(D) /\ t[p].at \in Nat /\ t[p] = D[t[p].at]
              /\ p \in Letters(t) <=> t[p].at \in Letters(D)
<1>1. Len(D) \in Nat /\ DOMAIN D = 1..Len(D) /\ Letters(D) \subseteq 1..Len(D)
  BY LettersAre DEF IsDoc
<1>2. ASSUME NEW p \in 1..Len(t)
      PROVE  t[p].at \in 1..Len(D) /\ t[p].at \in Nat /\ t[p] = D[t[p].at] /\ (p \in Letters(t) <=> t[p].at \in Letters(D))
  <2>1. PICK i \in 1..Len(D) : t[p] = D[i]
    BY <1>1 DEF Of
  <2>2. D[i].at = i
    BY <1>1 DEF IsDoc
  <2>3. p \in Letters(t) <=> ~Blank(t[p].sign)
    BY LettersAre
  <2>4. i \in Letters(D) <=> ~Blank(D[i].sign)
    BY LettersAre DEF IsDoc
  <2> QED
    BY <2>1, <2>2, <2>3, <2>4
<1>3. PlacesIn(t) \subseteq Letters(D)
  BY <1>2, LettersAre
<1> QED
  BY <1>1, <1>2, <1>3

\* The order of a text is that of its characters,
LEMMA InOrder ==
  ASSUME NEW D, IsDoc(D), NEW t, Solid(t, D), NEW p \in 1..Len(t), NEW q \in 1..Len(t)
  PROVE  /\ t[p].at \in Nat /\ t[q].at \in Nat
         /\ t[p].at < t[q].at <=> p < q
         /\ t[p].at <= t[q].at <=> p <= q
<1>1. t \in Seq(Of(D)) /\ (p < q => t[p].at < t[q].at) /\ (q < p => t[q].at < t[p].at)
  BY DEF Solid
<1>2. t[p].at \in Nat /\ t[q].at \in Nat /\ p \in Nat /\ q \in Nat
  BY <1>1, OfDoc
<1>3. p = q => t[p].at = t[q].at
  OBVIOUS
<1> QED
  BY <1>1, <1>2, <1>3

\* whose places lie apart as far at least.
LEMMA Apart ==
  ASSUME NEW D, IsDoc(D), NEW t, Solid(t, D), NEW p \in 1..Len(t), NEW q \in 1..Len(t), p <= q
  PROVE  t[q].at - t[p].at >= q - p
<1> DEFINE T == {r \in 1..Len(t) : p <= r /\ ~ (t[r].at - t[p].at >= r - p)}
<1> SUFFICES ASSUME T # {} PROVE FALSE
  OBVIOUS
<1>1. T \subseteq Nat
  OBVIOUS
<1>2. PICK r \in T : \A y \in T : r <= y
  <2> HIDE DEF T
  <2> QED
    BY <1>1, LeastOf
<1>3. r \in 1..Len(t) /\ p <= r /\ ~ (t[r].at - t[p].at >= r - p) /\ t[r].at \in Nat /\ t[p].at \in Nat
  BY InOrder
<1>4. r # p
  BY <1>3
<1>5. r - 1 \in 1..Len(t) /\ p <= r - 1 /\ r - 1 < r /\ ~ (r <= r - 1)
  BY <1>3, <1>4
<1>6. t[r - 1].at < t[r].at /\ t[r - 1].at \in Nat
  BY <1>3, <1>5, InOrder
<1>7. t[r - 1].at - t[p].at >= r - 1 - p
  BY <1>2, <1>5
<1>8. PICK x \in Nat, y \in Nat, z \in Nat : x = t[p].at /\ y = t[r - 1].at /\ z = t[r].at
  BY <1>3, <1>6
<1>9. r \in Nat /\ p \in Nat /\ ~ (z - x >= r - p) /\ y < z /\ y - x >= r - 1 - p
  BY <1>3, <1>6, <1>7, <1>8
<1> QED
  BY <1>9

\* The letters of a separator that stands in a text are a copy of it in the document.
LEMMA CopyAt ==
  ASSUME NEW D, IsDoc(D), NEW t, Solid(t, D), NEW s \in Seq(Signs), NEW i \in Nat, 1 <= i, i + Len(s) - 1 <= Len(t),
         Reads(t, i, s)
  PROVE  Span(t, i, i + Len(s) - 1) \in Occurrences(D, s)
<1> DEFINE signs == {k \in DOMAIN s : ~Blank(s[k])}
           f == [k \in signs |-> t[i + k - 1].at]
<1>1. t \in Seq(Of(D)) /\ Len(t) \in Nat /\ Len(s) \in Nat /\ DOMAIN s = 1..Len(s)
  BY LettersAre DEF Solid
<1>2. ASSUME NEW k \in 1..Len(s)
      PROVE  /\ i + k - 1 \in 1..Len(t) /\ t[i + k - 1].at \in 1..Len(D) /\ t[i + k - 1].sign = s[k]
             /\ D[t[i + k - 1].at].sign = s[k]
             /\ k \in signs <=> i + k - 1 \in Letters(t)
             /\ k \in signs <=> t[i + k - 1].at \in Letters(D)
  <2>1. i + k - 1 \in 1..Len(t)
    BY <1>1
  <2>2. t[i + k - 1].sign = s[k]
    BY <1>1 DEF Reads
  <2>3. k \in signs <=> ~Blank(s[k])
    BY <1>1
  <2>4. PICK q \in 1..Len(t) : q = i + k - 1
    BY <2>1
  <2>5. /\ t[q].at \in 1..Len(D) /\ t[q] = D[t[q].at] /\ (q \in Letters(t) <=> t[q].at \in Letters(D))
        /\ q \in Letters(t) <=> ~Blank(t[q].sign)
    BY <1>1, OfDoc, LettersAre
  <2> QED
    BY <2>2, <2>3, <2>4, <2>5
<1>3. f \in [signs -> Letters(D)]
  BY <1>1, <1>2
<1>4. \A k \in signs : D[f[k]].sign = s[k]
  BY <1>1, <1>2
<1>5. ASSUME NEW j \in signs, NEW k \in signs, j < k PROVE f[j] < f[k]
  <2>1. j \in 1..Len(s) /\ k \in 1..Len(s) /\ i + j - 1 < i + k - 1
    BY <1>1, <1>5
  <2>2. i + j - 1 \in 1..Len(t) /\ i + k - 1 \in 1..Len(t)
    BY <1>2, <2>1
  <2> QED
    BY <2>1, <2>2, InOrder
<1>6. ASSUME NEW j \in signs, NEW k \in signs, NEW x \in Letters(D), f[j] <= x, x <= f[k] PROVE x \in Range(f)
  <2>1. j \in 1..Len(s) /\ k \in 1..Len(s)
    BY <1>1
  <2>2. PICK a \in 1..Len(t), b \in 1..Len(t) : a = i + j - 1 /\ b = i + k - 1 /\ f[j] = t[a].at /\ f[k] = t[b].at
    BY <1>2, <2>1
  <2>3. x \in PlacesIn(t)
    BY <1>6, <2>2 DEF Solid
  <2>4. PICK q \in Letters(t) : x = t[q].at
    BY <1>1, <2>3, LettersAre
  <2>5. q \in 1..Len(t)
    BY <1>1, LettersAre
  <2>6. a <= q /\ q <= b
    BY <1>6, <2>2, <2>4, <2>5, InOrder
  <2>7. PICK r \in 1..Len(s) : q = i + r - 1
    <3>1. q - i + 1 \in 1..Len(s) /\ q = i + (q - i + 1) - 1
      BY <1>1, <2>1, <2>2, <2>5, <2>6
    <3> QED
      BY <3>1
  <2>8. r \in signs /\ f[r] = x
    BY <1>2, <2>4, <2>7
  <2> QED
    BY <2>8 DEF Range
<1>7. Range(f) = Span(t, i, i + Len(s) - 1)
  <2>1. ASSUME NEW x \in Range(f) PROVE x \in Span(t, i, i + Len(s) - 1)
    <3>1. PICK k \in signs : x = t[i + k - 1].at
      BY DEF Range
    <3>2. k \in 1..Len(s) /\ i + k - 1 \in Letters(t) /\ i <= i + k - 1 /\ i + k - 1 <= i + Len(s) - 1
      BY <1>1, <1>2
    <3> QED
      BY <3>1, <3>2 DEF Span
  <2>2. ASSUME NEW x \in Span(t, i, i + Len(s) - 1) PROVE x \in Range(f)
    <3>1. PICK q \in Letters(t) : x = t[q].at /\ i <= q /\ q <= i + Len(s) - 1
      BY DEF Span
    <3>2. PICK k \in 1..Len(s) : q = i + k - 1
      <4>1. q \in 1..Len(t)
        BY <1>1, LettersAre
      <4>2. q - i + 1 \in 1..Len(s) /\ q = i + (q - i + 1) - 1
        BY <1>1, <3>1, <4>1
      <4> QED
        BY <4>2
    <3>3. k \in signs /\ f[k] = x
      BY <1>2, <3>1, <3>2
    <3> QED
      BY <3>3 DEF Range
  <2> QED
    BY <2>1, <2>2
<1> HIDE DEF f
<1>8. f \in {g \in [signs -> Letters(D)] :
         /\ \A k \in signs : D[g[k]].sign = s[k]
         /\ \A j, k \in signs : j < k => g[j] < g[k]
         /\ \A j, k \in signs, x \in Letters(D) : g[j] <= x /\ x <= g[k] => x \in Range(g)}
  BY <1>3, <1>4, <1>5, <1>6
<1> QED
  BY <1>7, <1>8 DEF Occurrences

---------------------------------------------------------------------------
(* Splits. *)

\* c is what stands in t from p to j but for blanks before i.
Drawn(c, t, p, i, j, f, m) ==
  /\ f \in Nat /\ m \in Nat /\ 1 <= m /\ p <= f + 1 /\ f + m < i /\ Len(c) = m + j - i + 1
  /\ \A k \in 1..m : c[k] = t[f + k]
  /\ \A k \in (m + 1)..Len(c) : c[k] = t[i + k - m - 1]
  /\ f + 1 \in Letters(t) /\ f + m \in Letters(t)
  /\ \A q \in Letters(t) : p <= q /\ q < i => f + 1 <= q /\ q <= f + m

LEMMA TrimmedIs ==
  ASSUME NEW C, NEW t \in Seq(C), NEW p \in Nat, NEW i \in Nat, NEW j \in Int, 1 <= p, p <= i, i <= j + 1, j <= Len(t),
         NEW r, r = Trimmed(SubSeq(t, p, i - 1), SubSeq(t, i, j))
  PROVE  \/ r = <<>> /\ \A q \in Letters(t) : ~ (p <= q /\ q < i)
         \/ \E c \in Seq(C) : \E f, m : r = <<c>> /\ Drawn(c, t, p, i, j, f, m)
<1>1. Len(t) \in Nat
  BY LettersAre
<1>2. PICK u : u = SubSeq(t, p, i - 1) /\ u \in Seq(C) /\ Len(u) = i - p /\ Stands(u, t, p - 1)
  <2>1. i - 1 \in Int /\ p <= i - 1 + 1 /\ i - 1 <= Len(t) /\ i - 1 - p + 1 = i - p
    BY <1>1
  <2> QED
    BY <2>1, SubSeqStands
<1>3. PICK e : e = SubSeq(t, i, j) /\ e \in Seq(C) /\ Len(e) = j - i + 1 /\ Stands(e, t, i - 1)
  <2>1. 1 <= i
    OBVIOUS
  <2> QED
    BY <2>1, SubSeqStands
<1>7. PICK b : b = p - 1 /\ Stands(u, t, b)
  BY <1>2
<1>8. \A k \in 1..Len(u) : k \in Letters(u) <=> b + k \in Letters(t)
  <2>1. u \in Seq(C) /\ Stands(u, t, b)
    BY <1>2, <1>7
  <2> QED
    BY <2>1, StandingLetters
<1>4. \A q \in Letters(t) : p <= q /\ q < i => q - (p - 1) \in Letters(u)
  <2> SUFFICES ASSUME NEW q \in Letters(t), p <= q, q < i PROVE q - (p - 1) \in Letters(u)
    OBVIOUS
  <2>1. q \in Nat
    BY LettersAre
  <2>2. PICK k \in 1..Len(u) : k = q - (p - 1) /\ p - 1 + k = q
    BY <1>2, <2>1
  <2> QED
    BY <1>7, <1>8, <2>2
<1>5. CASE Letters(u) = {}
  <2>1. r = <<>>
    BY <1>2, <1>5, StripIs DEF Trimmed
  <2> QED
    BY <1>4, <1>5, <2>1
<1>6. CASE Letters(u) # {}
  <2>1. PICK s : s = Strip(u) /\ s \in Seq(C) /\ s # <<>>
    BY <1>2, <1>6, StripIs
  <2>2. PICK g : /\ Stands(s, u, g) /\ \A q \in Letters(u) : q - g \in 1..Len(s)
                 /\ g + 1 \in Letters(u) /\ g + Len(s) \in Letters(u)
    BY <1>2, <1>6, <2>1, StripIs
  <2>3. PICK m \in Nat : m = Len(s) /\ 1 <= m
    BY <1>6, <2>2 DEF Stands
  <2>4. g \in Nat /\ g + m <= i - p /\ \A k \in 1..m : s[k] = u[g + k]
    BY <1>2, <2>2, <2>3 DEF Stands
  <2>5. PICK f \in Nat : f = p - 1 + g
    BY <2>4
  <2>6. PICK c : c = s \o e /\ c \in Seq(C) /\ r = <<c>>
    <3>1. r = Trimmed(u, e)
      BY <1>2, <1>3
    <3>2. r = <<s \o e>>
      BY <2>1, <3>1 DEF Trimmed
    <3>3. s \o e \in Seq(C)
      BY <1>3, <2>1
    <3> QED
      BY <3>2, <3>3
  <2>7. /\ Len(c) = m + j - i + 1 /\ Len(e) \in Nat
        /\ \A k \in 1..m : c[k] = s[k]
        /\ \A k \in 1..Len(e) : c[m + k] = e[k]
    <3>1. /\ Len(s \o e) = Len(s) + Len(e) /\ Len(e) \in Nat
          /\ \A k \in 1..Len(s) : (s \o e)[k] = s[k]
          /\ \A k \in 1..Len(e) : (s \o e)[Len(s) + k] = e[k]
      BY <1>3, <2>1
    <3> QED
      BY <1>3, <2>3, <2>6, <3>1
  <2>8. ASSUME NEW k \in 1..m PROVE c[k] = t[f + k]
    <3>1. g + k \in 1..Len(u) /\ p - 1 + (g + k) = f + k
      BY <1>2, <2>4, <2>5
    <3> QED
      BY <1>2, <2>4, <2>7, <3>1 DEF Stands
  <2>9. ASSUME NEW k \in (m + 1)..Len(c) PROVE c[k] = t[i + k - m - 1]
    <3>1. k - m \in 1..Len(e) /\ m + (k - m) = k /\ i - 1 + (k - m) = i + k - m - 1
      BY <1>3, <2>7
    <3>2. e[k - m] = t[i - 1 + (k - m)]
      BY <1>3, <3>1 DEF Stands
    <3>3. c[m + (k - m)] = e[k - m]
      BY <2>7, <3>1
    <3> QED
      BY <3>1, <3>2, <3>3
  <2>10. f + 1 \in Letters(t) /\ f + m \in Letters(t)
    <3>0. Letters(u) \subseteq 1..Len(u)
      BY <1>2, LettersAre
    <3>1. \A k \in Letters(u) : p - 1 + k \in Letters(t)
      BY <1>7, <1>8, <3>0
    <3>2. p - 1 + (g + 1) = f + 1 /\ p - 1 + (g + m) = f + m
      BY <2>4, <2>5
    <3>3. p - 1 + (g + 1) \in Letters(t) /\ p - 1 + (g + m) \in Letters(t)
      BY <2>2, <2>3, <3>1
    <3> QED
      BY <3>2, <3>3
  <2>11. ASSUME NEW q \in Letters(t), p <= q, q < i PROVE f + 1 <= q /\ q <= f + m
    <3>1. q - (p - 1) - g \in 1..m
      BY <1>4, <2>2, <2>3, <2>11
    <3>2. q \in Nat
      BY LettersAre
    <3> QED
      BY <2>4, <2>5, <3>1, <3>2
  <2>12. p <= f + 1 /\ f + m < i
    BY <2>4, <2>5
  <2>13. Drawn(c, t, p, i, j, f, m)
    BY <2>3, <2>7, <2>8, <2>9, <2>10, <2>11, <2>12 DEF Drawn
  <2> QED
    BY <2>6, <2>13
<1> QED
  BY <1>5, <1>6

\* Its characters are those of t, one after the other.
LEMMA DrawnMap ==
  ASSUME NEW C, NEW t \in Seq(C), NEW p \in Nat, NEW i \in Nat, NEW j \in Int, 1 <= p, p <= i, i <= j + 1, j <= Len(t),
         NEW c \in Seq(C), NEW f, NEW m, Drawn(c, t, p, i, j, f, m)
  PROVE  \E h \in [1..Len(c) -> p..j] :
           /\ \A k \in 1..Len(c) : h[k] \in 1..Len(t) /\ c[k] = t[h[k]]
           /\ \A k, n \in 1..Len(c) : k < n => h[k] < h[n]
           /\ \A q \in Letters(t) : p <= q /\ q <= j => \E k \in 1..Len(c) : h[k] = q
<1> DEFINE h == [k \in 1..Len(c) |-> IF k <= m THEN f + k ELSE i + k - m - 1]
<1>1. /\ Len(t) \in Nat /\ f \in Nat /\ m \in Nat /\ 1 <= m /\ p <= f + 1 /\ f + m < i
      /\ Len(c) = m + j - i + 1 /\ Len(c) \in Nat
  BY LettersAre DEF Drawn
<1>2. ASSUME NEW k \in 1..Len(c) PROVE h[k] \in p..j /\ h[k] \in 1..Len(t) /\ c[k] = t[h[k]]
  <2>1. CASE k <= m
    <3>1. h[k] = f + k /\ k \in 1..m
      BY <1>1, <2>1
    <3>2. f + k \in p..j /\ f + k \in 1..Len(t)
      BY <1>1, <3>1
    <3> QED
      BY <3>1, <3>2 DEF Drawn
  <2>2. CASE ~ (k <= m)
    <3>1. h[k] = i + k - m - 1 /\ k \in (m + 1)..Len(c)
      BY <1>1, <2>2
    <3>2. i + k - m - 1 \in p..j /\ i + k - m - 1 \in 1..Len(t)
      BY <1>1, <3>1
    <3> QED
      BY <3>1, <3>2 DEF Drawn
  <2> QED
    BY <2>1, <2>2
<1>3. h \in [1..Len(c) -> p..j]
  <2>1. \A k \in 1..Len(c) : (IF k <= m THEN f + k ELSE i + k - m - 1) \in p..j
    BY <1>2
  <2> QED
    BY <2>1
<1>4. \A k, n \in 1..Len(c) : k < n => h[k] < h[n]
  BY <1>1
<1>5. ASSUME NEW q \in Letters(t), p <= q, q <= j PROVE \E k \in 1..Len(c) : h[k] = q
  <2>1. q \in Nat
    BY LettersAre
  <2>2. CASE q < i
    <3>1. f + 1 <= q /\ q <= f + m
      BY <1>5, <2>2 DEF Drawn
    <3>2. q - f \in 1..Len(c) /\ q - f <= m /\ f + (q - f) = q
      BY <1>1, <2>1, <3>1
    <3> QED
      BY <3>2
  <2>3. CASE ~ (q < i)
    <3>1. q - i + m + 1 \in 1..Len(c) /\ ~ (q - i + m + 1 <= m) /\ i + (q - i + m + 1) - m - 1 = q
      BY <1>1, <1>5, <2>1, <2>3
    <3> QED
      BY <3>1
  <2> QED
    BY <2>2, <2>3
<1> HIDE DEF h
<1> QED
  BY <1>2, <1>3, <1>4, <1>5

\* So it is solid, if t is.
LEMMA DrawnSolid ==
  ASSUME NEW D, IsDoc(D), NEW t, Solid(t, D), NEW p \in Nat, NEW i \in Nat, NEW j \in Int, 1 <= p, p <= i, i <= j + 1,
         j <= Len(t), NEW c \in Seq(Of(D)), NEW f, NEW m, Drawn(c, t, p, i, j, f, m)
  PROVE  Solid(c, D) /\ PlacesIn(c) = Span(t, p, j) /\ PlacesIn(c) # {}
<1>1. t \in Seq(Of(D)) /\ Len(t) \in Nat /\ Len(c) \in Nat
  BY LettersAre DEF Solid
<1>2. PICK h \in [1..Len(c) -> p..j] :
           /\ \A k \in 1..Len(c) : h[k] \in 1..Len(t) /\ c[k] = t[h[k]]
           /\ \A k, n \in 1..Len(c) : k < n => h[k] < h[n]
           /\ \A q \in Letters(t) : p <= q /\ q <= j => \E k \in 1..Len(c) : h[k] = q
  BY <1>1, DrawnMap
<1>3. \A k \in 1..Len(c) : p <= h[k] /\ h[k] <= j /\ (k \in Letters(c) <=> h[k] \in Letters(t))
  BY <1>1, <1>2, LettersAre
<1>4. PlacesIn(c) = Span(t, p, j)
  <2>1. ASSUME NEW x \in PlacesIn(c) PROVE x \in Span(t, p, j)
    <3>1. PICK k \in Letters(c) : x = c[k].at
      BY LettersAre
    <3>2. k \in 1..Len(c)
      BY LettersAre
    <3> QED
      BY <1>2, <1>3, <3>1, <3>2 DEF Span
  <2>2. ASSUME NEW x \in Span(t, p, j) PROVE x \in PlacesIn(c)
    <3>1. PICK q \in Letters(t) : x = t[q].at /\ p <= q /\ q <= j
      BY DEF Span
    <3>2. PICK k \in 1..Len(c) : h[k] = q
      BY <1>2, <3>1
    <3>3. k \in Letters(c) /\ c[k].at = x
      BY <1>2, <1>3, <3>1, <3>2
    <3> QED
      BY <3>3, LettersAre
  <2> QED
    BY <2>1, <2>2
<1>5. PlacesIn(c) # {}
  <2>1. f + 1 \in Letters(t) /\ p <= f + 1 /\ f + 1 <= j
    BY <1>1 DEF Drawn
  <2>2. t[f + 1].at \in Span(t, p, j)
    BY <2>1 DEF Span
  <2> QED
    BY <1>4, <2>2
<1>6. ASSUME NEW k \in 1..Len(c), NEW n \in 1..Len(c), k < n PROVE c[k].at < c[n].at
  <2>1. PICK a \in 1..Len(t), b \in 1..Len(t) : a = h[k] /\ b = h[n] /\ c[k] = t[a] /\ c[n] = t[b]
    BY <1>2
  <2>2. a < b
    BY <1>2, <1>6, <2>1
  <2> QED
    BY <2>1, <2>2, InOrder
<1>7. ASSUME NEW k \in 1..Len(c), NEW n \in 1..Len(c), NEW x \in Letters(D), c[k].at <= x, x <= c[n].at
      PROVE  x \in PlacesIn(c)
  <2>1. PICK a \in 1..Len(t), b \in 1..Len(t) : a = h[k] /\ b = h[n] /\ t[a].at <= x /\ x <= t[b].at /\ p <= a /\ b <= j
    BY <1>2, <1>3, <1>7
  <2>2. x \in PlacesIn(t)
    BY <2>1 DEF Solid
  <2>3. PICK q \in Letters(t) : x = t[q].at
    BY <1>1, <2>2, LettersAre
  <2>4. q \in 1..Len(t)
    BY <1>1, LettersAre
  <2>5. a <= q /\ q <= b
    BY <2>1, <2>3, <2>4, InOrder
  <2>6. p <= q /\ q <= j
    BY <2>1, <2>4, <2>5
  <2> QED
    BY <1>4, <2>3, <2>6 DEF Span
<1> QED
  BY <1>4, <1>5, <1>6, <1>7 DEF Solid

\* X are the letters of a document that are kept, Z those of copies of separators: a copy of
\* s that ends nothing is not kept, nor is a letter alone before blanks as wide as a chunk.
Drops(s, D, X, Z, size) ==
  /\ \A c \in Occurrences(D, s) : c \subseteq Z /\ ((\A x \in c : x - 1 \in Letters(D) => x - 1 \in Z) => c \cap X = {})
  /\ \A x \in X : ~ (size <= Len(s) /\ (\A k \in DOMAIN s : Blank(s[k])) /\ (x + 1)..(x + Len(s)) \subseteq DOMAIN D \ Letters(D))

\* What is right before a letter of the text and no letter of it is a separator.
Fresh(t, D, Z) == \A y \in PlacesIn(t) : y - 1 \in Letters(D) => y - 1 \in PlacesIn(t) \cup Z

\* What a text that is split and its separator are.
Splitting(t, D, X, Z, s, size) ==
  /\ IsDoc(D) /\ Solid(t, D) /\ Fresh(t, D, Z) /\ size \in Nat /\ size > 1
  /\ s \in Seq(Signs) /\ s # <<>> /\ Drops(s, D, X, Z, size)

\* A part begins at p.
Begins(t, p, s) == p = 1 \/ (p - Len(s) >= 1 /\ Reads(t, p - Len(s), s))

\* Some part is wider than the size, with its separator, and the separator is not in it.
Uncut(c, s, size) ==
  \E i, j \in Letters(c) : j - i + 1 + Len(s) > size /\ \A k \in i..(j + 1 - Len(s)) : ~Reads(c, k, s)

\* A split that can be cut again, or put into a chunk.
Sound(c, D, X, Z, s, size) ==
  /\ Solid(c, D) /\ PlacesIn(c) # {} /\ Fresh(c, D, Z)
  /\ Len(c) > size => Uncut(c, s, size) /\ (Len(Strip(c)) < 2 => PlacesIn(c) \cap X = {})

\* What stands right before a letter of a part is of this part, or of a separator.
LEMMA Preceding ==
  ASSUME NEW D, NEW t, NEW X, NEW Z, NEW s, NEW size, Splitting(t, D, X, Z, s, size),
         NEW p \in Nat, p >= 1, Begins(t, p, s), NEW a \in Letters(t), p <= a, t[a].at - 1 \in Letters(D)
  PROVE  t[a].at - 1 \in Z \/ (a - 1 \in Letters(t) /\ p <= a - 1 /\ t[a - 1].at = t[a].at - 1)
<1>0. IsDoc(D) /\ Solid(t, D) /\ Fresh(t, D, Z) /\ s \in Seq(Signs) /\ s # <<>> /\ Drops(s, D, X, Z, size)
  BY DEF Splitting
<1>1. t \in Seq(Of(D)) /\ Len(t) \in Nat /\ a \in 1..Len(t) /\ t[a].at \in PlacesIn(t) /\ Len(s) \in Nat /\ Len(s) # 0
  BY <1>0, LettersAre DEF Solid
<1>2. SUFFICES ASSUME t[a].at - 1 \in PlacesIn(t) PROVE t[a].at - 1 \in Z \/ (a - 1 \in Letters(t) /\ p <= a - 1 /\ t[a - 1].at = t[a].at - 1)
  BY <1>0, <1>1 DEF Fresh
<1>3. PICK b \in Letters(t) : t[b].at = t[a].at - 1
  BY <1>1, <1>2, LettersAre
<1>4. b \in 1..Len(t)
  BY <1>1, LettersAre
<1>5. t[a].at \in Nat /\ t[b].at \in Nat
  BY <1>1, <1>4, <1>0, InOrder
<1>6. b < a
  BY <1>1, <1>3, <1>4, <1>5, <1>0, InOrder
<1>7. t[a].at - t[b].at >= a - b
  BY <1>1, <1>4, <1>6, <1>0, Apart
<1>8. t[a].at - t[b].at = 1
  BY <1>3, <1>5
<1>9. b = a - 1
  BY <1>1, <1>4, <1>6, <1>7, <1>8
<1>10. CASE p <= b
  BY <1>3, <1>9, <1>10
<1>11. CASE ~ (p <= b)
  <2>1. p = b + 1 /\ p # 1
    BY <1>1, <1>4, <1>9, <1>11
  <2>2. PICK i \in Nat : i = p - Len(s) /\ 1 <= i /\ Reads(t, i, s) /\ i + Len(s) - 1 = b
    BY <1>1, <1>4, <2>1 DEF Begins
  <2>3. i + Len(s) - 1 <= Len(t) /\ i <= b
    BY <1>1, <1>4, <2>2
  <2>4. Span(t, i, i + Len(s) - 1) \in Occurrences(D, s)
    BY <2>2, <2>3, <1>0, CopyAt
  <2>5. t[b].at \in Span(t, i, i + Len(s) - 1)
    BY <1>4, <2>2, <2>3 DEF Span
  <2> QED
    BY <1>0, <1>3, <2>4, <2>5 DEF Drops
<1> QED
  BY <1>10, <1>11

\* The separator after a blank part is not kept.
LEMMA BlankPart ==
  ASSUME NEW D, NEW t, NEW X, NEW Z, NEW s, NEW size, Splitting(t, D, X, Z, s, size),
         NEW p \in Nat, p >= 1, Begins(t, p, s), NEW i \in Nat, p <= i, i + Len(s) - 1 <= Len(t),
         Reads(t, i, s), \A q \in Letters(t) : ~ (p <= q /\ q < i)
  PROVE  Span(t, p, i + Len(s) - 1) \cap X = {}
<1>0. IsDoc(D) /\ Solid(t, D) /\ s \in Seq(Signs) /\ Drops(s, D, X, Z, size)
  BY DEF Splitting
<1>1. t \in Seq(Of(D)) /\ Letters(t) \subseteq Nat
  BY <1>0, LettersAre DEF Solid
<1>2. PICK c : c = Span(t, i, i + Len(s) - 1) /\ c \in Occurrences(D, s) /\ c \subseteq Z
  BY <1>0, CopyAt DEF Drops
<1>3. ASSUME NEW x \in c, x - 1 \in Letters(D) PROVE x - 1 \in Z
  <2>1. PICK a \in Letters(t) : x = t[a].at /\ i <= a /\ a <= i + Len(s) - 1
    BY <1>2 DEF Span
  <2>2. p <= a /\ a \in Nat
    BY <1>1, <2>1
  <2>3. CASE t[a].at - 1 \in Z
    BY <2>1, <2>3
  <2>4. CASE a - 1 \in Letters(t) /\ p <= a - 1 /\ t[a - 1].at = t[a].at - 1
    <3>1. i <= a - 1 /\ a - 1 <= i + Len(s) - 1
      BY <1>1, <2>1, <2>2, <2>4
    <3>2. t[a - 1].at \in c
      BY <1>2, <2>4, <3>1 DEF Span
    <3> QED
      BY <1>2, <2>1, <2>4, <3>2
  <2> QED
    <3>1. t[a].at - 1 \in Letters(D)
      BY <1>3, <2>1
    <3>2. t[a].at - 1 \in Z \/ (a - 1 \in Letters(t) /\ p <= a - 1 /\ t[a - 1].at = t[a].at - 1)
      BY <2>2, <3>1, Preceding
    <3> QED
      BY <2>3, <2>4, <3>2
<1>4. c \cap X = {}
  BY <1>0, <1>2, <1>3 DEF Drops
<1>5. Span(t, p, i + Len(s) - 1) \subseteq c
  BY <1>1, <1>2 DEF Span
<1> QED
  BY <1>4, <1>5

\* A part with its separator, if there is one after it.
LEMMA DrawnSound ==
  ASSUME NEW D, NEW t, NEW X, NEW Z, NEW s, NEW size, Splitting(t, D, X, Z, s, size),
         NEW p \in Nat, p >= 1, Begins(t, p, s), NEW i \in Nat, p <= i, NEW j \in Int, j = i - 1 \/ j = i + Len(s) - 1, j <= Len(t),
         j = i + Len(s) - 1 => Reads(t, i, s),
         \A q \in Nat : p <= q /\ q + Len(s) - 1 < i => ~Reads(t, q, s),
         NEW c \in Seq(Of(D)), NEW f, NEW m, Drawn(c, t, p, i, j, f, m)
  PROVE  Sound(c, D, X, Z, s, size) /\ PlacesIn(c) = Span(t, p, j)
<1>0. IsDoc(D) /\ Solid(t, D) /\ size \in Nat /\ size > 1 /\ s \in Seq(Signs) /\ s # <<>> /\ Drops(s, D, X, Z, size)
  BY DEF Splitting
<1>1. /\ t \in Seq(Of(D)) /\ Len(t) \in Nat /\ Letters(t) \subseteq 1..Len(t)
      /\ Len(s) \in Nat /\ Len(s) >= 1 /\ DOMAIN s = 1..Len(s) /\ Len(c) \in Nat
  BY <1>0, LettersAre DEF Solid
<1>2. i <= j + 1
  BY <1>1
<1>3. Solid(c, D) /\ PlacesIn(c) = Span(t, p, j) /\ PlacesIn(c) # {}
  BY <1>0, <1>2, DrawnSolid
<1>4. Fresh(c, D, Z)
  <2> SUFFICES ASSUME NEW y \in PlacesIn(c), y - 1 \in Letters(D) PROVE y - 1 \in PlacesIn(c) \cup Z
    BY DEF Fresh
  <2>1. PICK a \in Letters(t) : y = t[a].at /\ p <= a /\ a <= j
    BY <1>3 DEF Span
  <2>2. CASE a - 1 \in Letters(t) /\ p <= a - 1 /\ t[a - 1].at = t[a].at - 1
    <3>1. a - 1 <= j
      BY <1>1, <2>1
    <3>2. t[a - 1].at \in Span(t, p, j)
      BY <2>2, <3>1 DEF Span
    <3> QED
      BY <1>3, <2>1, <2>2, <3>2
  <2> QED
    <3>1. t[a].at - 1 \in Letters(D)
      BY <2>1
    <3>3. a \in Letters(t) /\ p <= a
      BY <2>1
    <3>2. t[a].at - 1 \in Z \/ (a - 1 \in Letters(t) /\ p <= a - 1 /\ t[a - 1].at = t[a].at - 1)
      BY <3>1, <3>3, Preceding
    <3> QED
      BY <2>1, <2>2, <3>2
<1>5. /\ f \in Nat /\ m \in Nat /\ 1 <= m /\ p <= f + 1 /\ f + m < i /\ Len(c) = m + j - i + 1
      /\ \A k \in 1..m : c[k] = t[f + k]
      /\ \A k \in (m + 1)..Len(c) : c[k] = t[i + k - m - 1]
      /\ f + 1 \in Letters(t) /\ f + m \in Letters(t)
      /\ \A q \in Letters(t) : p <= q /\ q < i => f + 1 <= q /\ q <= f + m
  BY DEF Drawn
<1>6. 1 \in Letters(c) /\ m \in Letters(c)
  <2>1. 1 \in 1..Len(c) /\ m \in 1..Len(c) /\ 1 \in 1..m /\ m \in 1..m /\ f + 1 \in 1..Len(t) /\ f + m \in 1..Len(t)
    BY <1>1, <1>2, <1>5
  <2>2. c[1] = t[f + 1] /\ c[m] = t[f + m]
    BY <1>5, <2>1
  <2>3. ~Blank(t[f + 1].sign) /\ ~Blank(t[f + m].sign)
    BY <1>1, <1>5, <2>1, LettersAre
  <2>4. (1 \in Letters(c) <=> ~Blank(c[1].sign)) /\ (m \in Letters(c) <=> ~Blank(c[m].sign))
    BY <2>1, LettersAre
  <2> QED
    BY <2>2, <2>3, <2>4
<1>7. ASSUME Len(c) > size PROVE Uncut(c, s, size)
  <2>1. m - 1 + 1 + Len(s) > size
    BY <1>0, <1>1, <1>5, <1>7
  <2>2. ASSUME NEW k \in 1..(m + 1 - Len(s)), Reads(c, k, s) PROVE FALSE
    <3>1. f + k \in Nat /\ p <= f + k /\ f + k + Len(s) - 1 < i
      BY <1>1, <1>5
    <3>2. ASSUME NEW l \in DOMAIN s PROVE t[f + k + l - 1].sign = s[l]
      <4>1. k + l - 1 \in 1..m /\ f + (k + l - 1) = f + k + l - 1
        <5>1. PICK n \in Nat : n = Len(s) /\ DOMAIN s = 1..n
          BY <1>1
        <5>2. m \in Nat /\ f \in Nat
          BY <1>5
        <5>3. l \in Nat /\ 1 <= l /\ l <= n
          BY <5>1
        <5>4. k \in 1..(m + 1 - n)
          BY <5>1
        <5>5. k \in Nat /\ 1 <= k /\ k + n <= m + 1
          BY <5>1, <5>2, <5>4
        <5> QED
          BY <5>2, <5>3, <5>5
      <4>2. c[k + l - 1] = t[f + (k + l - 1)]
        BY <1>5, <4>1
      <4>3. c[k + l - 1].sign = s[l]
        BY <2>2 DEF Reads
      <4> QED
        BY <4>1, <4>2, <4>3
    <3>3. Reads(t, f + k, s)
      BY <3>2 DEF Reads
    <3> QED
      BY <3>1, <3>3
  <2> QED
    BY <1>6, <2>1, <2>2 DEF Uncut
<1>8. ASSUME Len(c) > size, Len(Strip(c)) < 2 PROVE PlacesIn(c) \cap X = {}
  <2>1. PICK g : Stands(Strip(c), c, g) /\ \A q \in Letters(c) : q - g \in 1..Len(Strip(c))
    BY StripIs
  <2>2. \A q \in Letters(c) : q = 1
    <3>1. g \in Nat /\ Len(Strip(c)) \in Nat
      BY <2>1 DEF Stands
    <3>2. \A q \in Letters(c) : q \in Nat
      BY LettersAre
    <3>3. \A q \in Letters(c) : 1 <= q - g /\ q - g <= 1
      BY <1>8, <2>1, <3>1, <3>2
    <3> QED
      BY <1>6, <3>1, <3>2, <3>3
  <2>3. m = 1
    BY <1>6, <2>2
  <2>4. j = i + Len(s) - 1 /\ size <= Len(s)
    BY <1>0, <1>1, <1>5, <1>8, <2>3
  <2>5. ASSUME NEW k \in 1..Len(s) PROVE Blank(s[k]) /\ i + k - 1 \notin Letters(t)
    <3>1. k + 1 \in (m + 1)..Len(c) /\ i + (k + 1) - m - 1 = i + k - 1 /\ k + 1 # 1 /\ k + 1 \in 1..Len(c)
      BY <1>1, <1>5, <2>3, <2>4
    <3>2. c[k + 1] = t[i + k - 1]
      BY <1>5, <3>1
    <3>3. k + 1 \notin Letters(c)
      BY <2>2, <3>1
    <3>4. Blank(c[k + 1].sign)
      BY <3>1, <3>3, LettersAre
    <3>5. t[i + k - 1].sign = s[k]
      BY <1>1, <2>4 DEF Reads
    <3>6. i + k - 1 \in Letters(t) => ~Blank(t[i + k - 1].sign)
      BY <1>1, LettersAre
    <3> QED
      BY <3>2, <3>4, <3>5, <3>6
  <2>6. PICK a \in 1..Len(t), x \in Nat, n \in Nat :
          a = f + 1 /\ x = t[a].at /\ n = Len(s) /\ j \in 1..Len(t) /\ a <= j /\ j - a >= n
    <3>1. f + 1 \in 1..Len(t) /\ j \in 1..Len(t) /\ f + 1 <= j /\ j - (f + 1) >= Len(s)
      BY <1>1, <1>5, <2>3, <2>4
    <3> QED
      BY <1>1, <3>1, <1>0, OfDoc
  <2>7. t[j].at - x >= n /\ t[j].at \in 1..Len(D) /\ t[j].at \in Nat /\ DOMAIN D = 1..Len(D) /\ Len(D) \in Nat
    <3>1. t[j].at - t[a].at >= j - a
      BY <2>6, <1>0, Apart
    <3>2. t[j].at \in 1..Len(D) /\ t[j].at \in Nat /\ DOMAIN D = 1..Len(D) /\ Len(D) \in Nat
      BY <1>1, <2>6, <1>0, OfDoc
    <3> QED
      BY <2>6, <3>1, <3>2
  <2>8. ASSUME NEW y \in (x + 1)..(x + n) PROVE y \in DOMAIN D \ Letters(D)
    <3>0. PICK z \in Nat : z = t[j].at /\ z <= Len(D) /\ z - x >= n
      BY <2>7
    <3>1. y \in 1..Len(D) /\ x < y /\ y <= t[j].at
      <4>1. y \in Nat /\ x + 1 <= y /\ y <= x + n
        BY <2>6
      <4>2. PICK l \in Nat : l = Len(D)
        BY <2>7
      <4>3. y <= z /\ y <= l /\ x < y
        BY <3>0, <4>1, <4>2
      <4> QED
        BY <3>0, <4>1, <4>2, <4>3
    <3>2. ASSUME y \in Letters(D) PROVE FALSE
      <4>1. t[a].at <= y
        BY <2>6, <3>1
      <4>2. y \in PlacesIn(t)
        BY <1>0, <2>6, <3>1, <3>2, <4>1 DEF Solid
      <4>3. PICK q \in Letters(t) : y = t[q].at /\ q \in 1..Len(t)
        BY <1>1, <4>2, LettersAre
      <4>4. q <= j /\ a < q
        BY <2>6, <3>1, <4>3, <1>0, InOrder
      <4>5. CASE q < i
        BY <1>5, <2>3, <2>6, <4>3, <4>4, <4>5
      <4>6. CASE ~ (q < i)
        <5>1. q - i + 1 \in 1..Len(s) /\ i + (q - i + 1) - 1 = q
          BY <1>1, <2>4, <4>3, <4>4, <4>6
        <5> QED
          BY <2>5, <4>3, <5>1
      <4> QED
        BY <4>5, <4>6
    <3> QED
      BY <2>7, <3>1, <3>2
  <2>9. x \notin X
    BY <1>0, <1>1, <2>4, <2>5, <2>6, <2>8 DEF Drops
  <2>10. PlacesIn(c) \subseteq {x}
    <3>1. c[1] = t[f + 1]
      BY <1>5
    <3>2. \A y \in PlacesIn(c) : y = c[1].at
      BY <2>2, LettersAre
    <3> QED
      BY <2>6, <3>1, <3>2
  <2> QED
    BY <2>9, <2>10
<1> QED
  BY <1>3, <1>4, <1>7, <1>8 DEF Sound


\* A part of the letters S of a document in splits, one after the other.
Divided(ss, D, X, Z, s, size, S) ==
  /\ ss \in Seq(Seq(Of(D)))
  /\ \A i \in DOMAIN ss : Sound(ss[i], D, X, Z, s, size) /\ PlacesIn(ss[i]) \subseteq S
  /\ \A i, j \in DOMAIN ss : i < j => \A x \in PlacesIn(ss[i]), y \in PlacesIn(ss[j]) : x < y
  /\ \A x \in X \cap S : \E i \in DOMAIN ss : x \in PlacesIn(ss[i])

LEMMA DividedNone ==
  ASSUME NEW D, NEW X, NEW Z, NEW s, NEW size, NEW S, S \cap X = {}
  PROVE  Divided(<<>>, D, X, Z, s, size, S)
<1>1. <<>> \in Seq(Seq(Of(D))) /\ DOMAIN <<>> = {}
  OBVIOUS
<1> QED
  BY <1>1 DEF Divided

LEMMA DividedOne ==
  ASSUME NEW D, NEW X, NEW Z, NEW s, NEW size, NEW c, Sound(c, D, X, Z, s, size)
  PROVE  Divided(<<c>>, D, X, Z, s, size, PlacesIn(c))
<1>1. c \in Seq(Of(D))
  BY DEF Sound, Solid
<1>2. <<c>> \in Seq(Seq(Of(D))) /\ DOMAIN <<c>> = {1} /\ <<c>>[1] = c
  BY <1>1
<1> QED
  BY <1>2 DEF Divided

LEMMA DividedJoin ==
  ASSUME NEW D, NEW X, NEW Z, NEW s, NEW size, NEW S, NEW T, NEW a, NEW b, Divided(a, D, X, Z, s, size, S),
         Divided(b, D, X, Z, s, size, T), \A x \in S, y \in T : x < y
  PROVE  Divided(a \o b, D, X, Z, s, size, S \cup T)
<1>1. a \in Seq(Seq(Of(D))) /\ b \in Seq(Seq(Of(D)))
  BY DEF Divided
<1>2. /\ a \o b \in Seq(Seq(Of(D))) /\ Len(a) \in Nat /\ Len(b) \in Nat
      /\ DOMAIN a = 1..Len(a) /\ DOMAIN b = 1..Len(b) /\ DOMAIN (a \o b) = 1..(Len(a) + Len(b))
      /\ \A i \in 1..Len(a) : (a \o b)[i] = a[i]
      /\ \A i \in 1..Len(b) : (a \o b)[Len(a) + i] = b[i]
  BY <1>1
<1>3. ASSUME NEW i \in DOMAIN (a \o b)
      PROVE  \/ i \in 1..Len(a) /\ (a \o b)[i] = a[i]
             \/ \E k \in 1..Len(b) : i = Len(a) + k /\ (a \o b)[i] = b[k]
  <2>1. i \in 1..Len(a) \/ (i - Len(a) \in 1..Len(b) /\ i = Len(a) + (i - Len(a)))
    BY <1>2
  <2> QED
    BY <1>2, <2>1
<1>4. ASSUME NEW i \in DOMAIN (a \o b)
      PROVE  Sound((a \o b)[i], D, X, Z, s, size) /\ PlacesIn((a \o b)[i]) \subseteq S \cup T
  BY <1>2, <1>3 DEF Divided
<1>5. ASSUME NEW i \in DOMAIN (a \o b), NEW j \in DOMAIN (a \o b), i < j,
             NEW x \in PlacesIn((a \o b)[i]), NEW y \in PlacesIn((a \o b)[j])
      PROVE  x < y
  <2>1. i \in Nat /\ j \in Nat
    BY <1>2
  <2>2. CASE i \in 1..Len(a) /\ j \in 1..Len(a)
    <3>1. (a \o b)[i] = a[i] /\ (a \o b)[j] = a[j] /\ i \in DOMAIN a /\ j \in DOMAIN a
      BY <1>2, <2>2
    <3> QED
      BY <1>5, <3>1 DEF Divided
  <2>3. CASE i \in 1..Len(a) /\ j \notin 1..Len(a)
    <3>1. PICK k \in 1..Len(b) : (a \o b)[j] = b[k]
      BY <1>3, <2>3
    <3>2. PlacesIn(a[i]) \subseteq S /\ PlacesIn(b[k]) \subseteq T
      BY <1>2, <2>3, <3>1 DEF Divided
    <3> QED
      BY <1>2, <1>5, <2>3, <3>1, <3>2
  <2>4. CASE i \notin 1..Len(a)
    <3>1. j \notin 1..Len(a)
      BY <1>2, <1>5, <2>1, <2>4
    <3>2. PICK k \in 1..Len(b) : i = Len(a) + k /\ (a \o b)[i] = b[k]
      BY <1>3, <2>4
    <3>3. PICK l \in 1..Len(b) : j = Len(a) + l /\ (a \o b)[j] = b[l]
      BY <1>3, <3>1
    <3>4. k < l
      BY <1>2, <1>5, <3>2, <3>3
    <3> QED
      BY <1>2, <1>5, <3>2, <3>3, <3>4 DEF Divided
  <2> QED
    BY <2>2, <2>3, <2>4
<1>6. ASSUME NEW x \in X \cap (S \cup T) PROVE \E i \in DOMAIN (a \o b) : x \in PlacesIn((a \o b)[i])
  <2>1. CASE x \in S
    <3>1. PICK i \in DOMAIN a : x \in PlacesIn(a[i])
      BY <1>6, <2>1 DEF Divided
    <3>2. i \in DOMAIN (a \o b) /\ (a \o b)[i] = a[i]
      BY <1>2
    <3> QED
      BY <3>1, <3>2
  <2>2. CASE x \in T
    <3>1. PICK i \in DOMAIN b : x \in PlacesIn(b[i])
      BY <1>6, <2>2 DEF Divided
    <3>2. Len(a) + i \in DOMAIN (a \o b) /\ (a \o b)[Len(a) + i] = b[i]
      BY <1>2
    <3> QED
      BY <3>1, <3>2
  <2> QED
    BY <1>6, <2>1, <2>2
<1> QED
  BY <1>2, <1>4, <1>5, <1>6 DEF Divided

\* The part that begins at p, and where the next one does.
Places(t, s, p) == {i \in p..(Len(t) + 1 - Len(s)) : Reads(t, i, s)}

Part(t, s, p) ==
  IF Places(t, s, p) = {} THEN Trimmed(SubSeq(t, p, Len(t)), <<>>)
  ELSE LET i == Min(Places(t, s, p)) IN Trimmed(SubSeq(t, p, i - 1), SubSeq(t, i, i + Len(s) - 1))

After(t, s, p) == IF Places(t, s, p) = {} THEN Len(t) + 2 ELSE Min(Places(t, s, p)) + Len(s)

LEMMA PartIs ==
  ASSUME NEW D, NEW t, NEW X, NEW Z, NEW s, NEW size, Splitting(t, D, X, Z, s, size),
         NEW p \in Nat, p >= 1, p <= Len(t) + 1, Begins(t, p, s)
  PROVE  \E j \in Nat : /\ p <= j + 1 /\ j <= Len(t) /\ Divided(Part(t, s, p), D, X, Z, s, size, Span(t, p, j))
                        /\ After(t, s, p) \in Nat /\ p < After(t, s, p)
                        /\ \/ j = Len(t) /\ After(t, s, p) = Len(t) + 2
                           \/ After(t, s, p) = j + 1 /\ Begins(t, j + 1, s)
<1>0. IsDoc(D) /\ Solid(t, D) /\ s \in Seq(Signs) /\ s # <<>>
  BY DEF Splitting
<1>1. t \in Seq(Of(D)) /\ Len(t) \in Nat /\ Letters(t) \subseteq 1..Len(t) /\ Len(s) \in Nat /\ Len(s) >= 1
  BY <1>0, LettersAre DEF Solid
<1>2. CASE Places(t, s, p) = {}
  <2>1. PICK i \in Nat, j \in Nat : i = Len(t) + 1 /\ j = Len(t) /\ j = i - 1 /\ p <= i /\ i <= j + 1 /\ j <= Len(t)
    BY <1>1
  <2>2. Part(t, s, p) = Trimmed(SubSeq(t, p, i - 1), SubSeq(t, i, j))
    <3>1. SubSeq(t, i, j) = <<>>
      BY <1>1, <2>1
    <3> QED
      BY <1>2, <2>1, <3>1 DEF Part
  <2>3. \A q \in Nat : p <= q /\ q + Len(s) - 1 < i => ~Reads(t, q, s)
    <3>1. \A q \in Nat : p <= q /\ q + Len(s) - 1 < i => q \in p..(Len(t) + 1 - Len(s))
      BY <1>1, <2>1
    <3> QED
      BY <1>2, <3>1 DEF Places
  <2>4. Divided(Part(t, s, p), D, X, Z, s, size, Span(t, p, j))
    <3>1. CASE Part(t, s, p) = <<>> /\ \A q \in Letters(t) : ~ (p <= q /\ q < i)
      <4>1. Span(t, p, j) = {}
        BY <1>1, <2>1, <3>1 DEF Span
      <4> QED
        BY <3>1, <4>1, DividedNone
    <3>2. ASSUME NEW c \in Seq(Of(D)), NEW f, NEW m, Part(t, s, p) = <<c>>, Drawn(c, t, p, i, j, f, m)
          PROVE  Divided(Part(t, s, p), D, X, Z, s, size, Span(t, p, j))
      <4>1. j # i + Len(s) - 1
        BY <1>1, <2>1
      <4>2. Sound(c, D, X, Z, s, size) /\ PlacesIn(c) = Span(t, p, j)
        BY <2>1, <2>3, <3>2, <4>1, DrawnSound
      <4> QED
        BY <3>2, <4>2, DividedOne
    <3> QED
      BY <1>1, <2>1, <2>2, <3>1, <3>2, TrimmedIs
  <2>5. After(t, s, p) = Len(t) + 2
    BY <1>2 DEF After
  <2> QED
    BY <1>1, <2>1, <2>4, <2>5
<1>3. CASE Places(t, s, p) # {}
  <2>1. Places(t, s, p) \subseteq Nat
    BY <1>1 DEF Places
  <2>2. PICK i \in Nat : i = Min(Places(t, s, p)) /\ i \in Places(t, s, p) /\ \A y \in Places(t, s, p) : i <= y
    BY <1>3, <2>1, MinIs
  <2>3. p <= i /\ i <= Len(t) + 1 - Len(s) /\ Reads(t, i, s)
    BY <1>1, <2>2 DEF Places
  <2>4. PICK j \in Nat : j = i + Len(s) - 1 /\ i <= j + 1 /\ j <= Len(t) /\ p < j + 1
    <3>1. i + Len(s) - 1 \in Nat /\ i <= i + Len(s) - 1 + 1 /\ i + Len(s) - 1 <= Len(t) /\ p < i + Len(s) - 1 + 1
      BY <1>1, <2>3
    <3> QED
      BY <3>1
  <2>5. Part(t, s, p) = Trimmed(SubSeq(t, p, i - 1), SubSeq(t, i, j))
    BY <1>3, <2>2, <2>4 DEF Part
  <2>6. \A q \in Nat : p <= q /\ q + Len(s) - 1 < i => ~Reads(t, q, s)
    <3>1. \A q \in Nat : p <= q /\ q + Len(s) - 1 < i => q \in p..(Len(t) + 1 - Len(s)) /\ ~ (i <= q)
      BY <1>1, <2>3
    <3> QED
      BY <2>2, <3>1 DEF Places
  <2>7. Divided(Part(t, s, p), D, X, Z, s, size, Span(t, p, j))
    <3>1. CASE Part(t, s, p) = <<>> /\ \A q \in Letters(t) : ~ (p <= q /\ q < i)
      <4>0. i + Len(s) - 1 <= Len(t)
        BY <2>4
      <4>1. Span(t, p, i + Len(s) - 1) \cap X = {}
        BY <2>3, <3>1, <4>0, BlankPart
      <4>2. Span(t, p, j) \cap X = {}
        BY <2>4, <4>1
      <4> QED
        BY <3>1, <4>2, DividedNone
    <3>2. ASSUME NEW c \in Seq(Of(D)), NEW f, NEW m, Part(t, s, p) = <<c>>, Drawn(c, t, p, i, j, f, m)
          PROVE  Divided(Part(t, s, p), D, X, Z, s, size, Span(t, p, j))
      <4>2. Sound(c, D, X, Z, s, size) /\ PlacesIn(c) = Span(t, p, j)
        BY <2>3, <2>4, <2>6, <3>2, DrawnSound
      <4> QED
        BY <3>2, <4>2, DividedOne
    <3>3. \/ Part(t, s, p) = <<>> /\ \A q \in Letters(t) : ~ (p <= q /\ q < i)
          \/ \E c \in Seq(Of(D)) : \E f, m : Part(t, s, p) = <<c>> /\ Drawn(c, t, p, i, j, f, m)
      <4>1. 1 <= p /\ p <= i /\ i <= j + 1 /\ j <= Len(t) /\ j \in Int
        BY <2>3, <2>4
      <4> QED
        BY <1>1, <2>5, <4>1, TrimmedIs
    <3> QED
      BY <3>1, <3>2, <3>3
  <2>8. After(t, s, p) = j + 1
    BY <1>1, <1>3, <2>2, <2>4 DEF After
  <2>9. Begins(t, j + 1, s)
    <3>1. j + 1 - Len(s) = i /\ i >= 1
      BY <1>1, <2>3, <2>4
    <3> QED
      BY <2>3, <3>1 DEF Begins
  <2> QED
    BY <1>1, <2>3, <2>4, <2>7, <2>8, <2>9
<1> QED
  BY <1>2, <1>3

LEMMA TrimmedType ==
  ASSUME NEW C, NEW u \in Seq(C), NEW e \in Seq(C) PROVE Trimmed(u, e) \in Seq(Seq(C))
<1>1. Strip(u) \in Seq(C)
  BY StripIs
<1>2. Strip(u) \o e \in Seq(C)
  BY <1>1
<1>3. <<Strip(u) \o e>> \in Seq(Seq(C)) /\ <<>> \in Seq(Seq(C))
  BY <1>2
<1> QED
  BY <1>3 DEF Trimmed

\* Together the parts have all letters that are kept.
LEMMA GoodSplitsAre ==
  ASSUME NEW D, NEW t, NEW X, NEW Z, NEW s, NEW size, Splitting(t, D, X, Z, s, size)
  PROVE  Divided(GoodSplits(t, s), D, X, Z, s, size, Span(t, 1, Len(t)))
<1> DEFINE N == Len(t) + 1
           Body(f, p) == IF Places(t, s, p) = {} THEN Trimmed(SubSeq(t, p, Len(t)), <<>>)
                         ELSE LET i == Min(Places(t, s, p))
                              IN Trimmed(SubSeq(t, p, i - 1), SubSeq(t, i, i + Len(s) - 1)) \o f[i + Len(s)]
           splits == CHOOSE f : f = [p \in 1..N |-> Body(f, p)]
           Is(p) == Begins(t, p, s) => Divided(splits[p], D, X, Z, s, size, Span(t, p, Len(t)))
<1>0. IsDoc(D) /\ Solid(t, D) /\ s \in Seq(Signs) /\ s # <<>>
  BY DEF Splitting
<1>1. t \in Seq(Of(D)) /\ Len(t) \in Nat /\ N \in Nat /\ Letters(t) \subseteq 1..Len(t) /\ Len(s) \in Nat /\ Len(s) >= 1
  BY <1>0, LettersAre DEF Solid
<1>2. GoodSplits(t, s) = splits[1]
  BY DEF GoodSplits, Places
<1>3. \E f : f = [p \in 1..N |-> Body(f, p)]
  <2> DEFINE g == [p \in 1..N |-> Part(t, s, p)]
             ahead == [p \in 1..N |-> After(t, s, p)]
  <2>1. ASSUME NEW p \in 1..N
        PROVE  Part(t, s, p) \in Seq(Seq(Of(D))) /\ After(t, s, p) \in Nat /\ p < After(t, s, p)
               /\ (After(t, s, p) > N <=> Places(t, s, p) = {})
    <3>1. p \in Nat /\ p >= 1 /\ Places(t, s, p) \subseteq Nat /\ \A i \in Places(t, s, p) : p <= i /\ i + Len(s) <= N
      BY <1>1 DEF Places
    <3>2. CASE Places(t, s, p) = {}
      <4>1. SubSeq(t, p, Len(t)) \in Seq(Of(D)) /\ <<>> \in Seq(Of(D))
        <5>1. p <= Len(t) + 1
          BY <1>1
        <5> QED
          BY <1>1, <3>1, <5>1, SubSeqStands
      <4>2. Part(t, s, p) \in Seq(Seq(Of(D)))
        BY <3>2, <4>1, TrimmedType DEF Part
      <4> QED
        BY <1>1, <3>1, <3>2, <4>2 DEF After
    <3>3. CASE Places(t, s, p) # {}
      <4>1. PICK i \in Nat : i = Min(Places(t, s, p)) /\ p <= i /\ i + Len(s) <= N
        BY <3>1, <3>3, MinIs
      <4>2. SubSeq(t, p, i - 1) \in Seq(Of(D))
        <5>1. i - 1 \in Int /\ p <= i - 1 + 1 /\ i - 1 <= Len(t)
          BY <1>1, <4>1
        <5> QED
          BY <1>1, <3>1, <5>1, SubSeqStands
      <4>3. SubSeq(t, i, i + Len(s) - 1) \in Seq(Of(D))
        <5>1. 1 <= i /\ i + Len(s) - 1 \in Int /\ i <= i + Len(s) - 1 + 1 /\ i + Len(s) - 1 <= Len(t)
          BY <1>1, <3>1, <4>1
        <5> QED
          BY <1>1, <5>1, SubSeqStands
      <4>4. Part(t, s, p) \in Seq(Seq(Of(D)))
        BY <3>3, <4>1, <4>2, <4>3, TrimmedType DEF Part
      <4>5. After(t, s, p) = i + Len(s)
        BY <3>3, <4>1 DEF After
      <4> QED
        BY <1>1, <3>1, <3>3, <4>1, <4>4, <4>5
    <3> QED
      BY <3>2, <3>3
  <2>2. g \in [1..N -> Seq(Seq(Of(D)))] /\ ahead \in [1..N -> Nat] /\ \A p \in 1..N : p < ahead[p]
    BY <2>1
  <2>3. PICK f \in [1..N -> Seq(Seq(Of(D)))] :
          \A p \in 1..N : f[p] = IF ahead[p] > N THEN g[p] ELSE g[p] \o f[ahead[p]]
    <3>1. N \in Nat
      BY <1>1
    <3> HIDE DEF g, ahead, N
    <3>2. PICK V : V = Seq(Of(D))
      OBVIOUS
    <3>3. Onward(N, V, g, ahead)
      BY <2>2, <3>1, <3>2 DEF Onward
    <3>4. \E f \in [1..N -> Seq(V)] : Chained(f, N, g, ahead)
      BY <3>3, ChainIs
    <3> QED
      BY <3>2, <3>4 DEF Chained
  <2>4. ASSUME NEW p \in 1..N PROVE f[p] = Body(f, p)
    <3>1. f[p] = IF After(t, s, p) > N THEN Part(t, s, p) ELSE Part(t, s, p) \o f[After(t, s, p)]
      BY <2>3
    <3>2. CASE Places(t, s, p) = {}
      BY <2>1, <3>1, <3>2 DEF Part
    <3>3. CASE Places(t, s, p) # {}
      <4>1. f[p] = Part(t, s, p) \o f[After(t, s, p)]
        BY <2>1, <3>1, <3>3
      <4> QED
        BY <3>3, <4>1 DEF Part, After
    <3> QED
      BY <3>2, <3>3
  <2>5. f = [p \in 1..N |-> f[p]]
    BY <2>3
  <2>6. f = [p \in 1..N |-> Body(f, p)]
    <3> HIDE DEF Body, N
    <3> QED
      BY <2>4, <2>5
  <2> QED
    BY <2>6
<1>4. splits = [p \in 1..N |-> Body(splits, p)]
  <2> HIDE DEF Body
  <2> QED
    BY <1>3
<1> HIDE DEF splits
<1>5. ASSUME NEW p \in 1..N
      PROVE  splits[p] = IF Places(t, s, p) = {} THEN Part(t, s, p) ELSE Part(t, s, p) \o splits[After(t, s, p)]
  <2>1. splits[p] = Body(splits, p)
    <3> HIDE DEF Body, N
    <3> QED
      BY <1>4
  <2> QED
    BY <2>1 DEF Part, After
<1> DEFINE T == {p \in 1..N : ~Is(p)}
<1>6. T = {}
  <2> SUFFICES ASSUME T # {} PROVE FALSE
    OBVIOUS
  <2>1. PICK p \in T : \A y \in T : p >= y
    <3>1. T \subseteq 0..N
      BY <1>1
    <3>2. Max(T) \in T /\ \A y \in T : Max(T) >= y
      <4> HIDE DEF T, N
      <4> QED
        BY <1>1, <3>1, MaxIs
    <3> QED
      BY <3>2
  <2>2. p \in 1..N /\ Begins(t, p, s) /\ ~Divided(splits[p], D, X, Z, s, size, Span(t, p, Len(t))) /\ p \in Nat /\ p >= 1
    BY <1>1, <2>1
  <2>3. PICK j \in Nat : /\ p <= j + 1 /\ j <= Len(t) /\ Divided(Part(t, s, p), D, X, Z, s, size, Span(t, p, j))
                        /\ After(t, s, p) \in Nat /\ p < After(t, s, p)
                        /\ \/ j = Len(t) /\ After(t, s, p) = Len(t) + 2
                           \/ After(t, s, p) = j + 1 /\ Begins(t, j + 1, s)
    <3>1. p <= Len(t) + 1
      BY <1>1, <2>2
    <3> QED
      BY <2>2, <3>1, PartIs
  <2>4. Places(t, s, p) # {} => After(t, s, p) <= N
    <3>1. Places(t, s, p) \subseteq Nat /\ \A i \in Places(t, s, p) : i + Len(s) <= N
      BY <1>1, <2>2 DEF Places
    <3>2. Places(t, s, p) # {} => Min(Places(t, s, p)) \in Places(t, s, p)
      BY <3>1, MinIs
    <3> QED
      BY <3>1, <3>2 DEF After
  <2>5. CASE Places(t, s, p) = {}
    <3>1. j = Len(t)
      <4>1. After(t, s, p) = Len(t) + 2
        BY <2>5 DEF After
      <4> QED
        BY <1>1, <2>3, <4>1
    <3> QED
      BY <1>5, <2>2, <2>3, <2>5, <3>1
  <2>6. CASE Places(t, s, p) # {}
    <3>1. After(t, s, p) = j + 1 /\ Begins(t, j + 1, s) /\ j + 1 \in 1..N /\ p < j + 1
      BY <1>1, <2>3, <2>4, <2>6
    <3>2. j + 1 \notin T
      BY <1>1, <2>1, <2>2, <3>1
    <3>3. Divided(splits[j + 1], D, X, Z, s, size, Span(t, j + 1, Len(t)))
      BY <3>1, <3>2
    <3>4. splits[p] = Part(t, s, p) \o splits[j + 1]
      BY <1>5, <2>2, <2>6, <3>1
    <3>5. \A x \in Span(t, p, j), y \in Span(t, j + 1, Len(t)) : x < y
      <4> SUFFICES ASSUME NEW x \in Span(t, p, j), NEW y \in Span(t, j + 1, Len(t)) PROVE x < y
        OBVIOUS
      <4>1. PICK a \in Letters(t) : x = t[a].at /\ a <= j
        BY DEF Span
      <4>2. PICK b \in Letters(t) : y = t[b].at /\ j + 1 <= b
        BY DEF Span
      <4>3. a \in 1..Len(t) /\ b \in 1..Len(t) /\ a < b
        BY <1>1, <4>1, <4>2
      <4> QED
        BY <1>0, <4>1, <4>2, <4>3, InOrder
    <3>6. Span(t, p, Len(t)) = Span(t, p, j) \cup Span(t, j + 1, Len(t))
      <4>1. \A a \in Letters(t) : p <= a /\ a <= Len(t) <=> (p <= a /\ a <= j) \/ (j + 1 <= a /\ a <= Len(t))
        BY <1>1, <2>2, <2>3
      <4> QED
        BY <4>1 DEF Span
    <3> QED
      BY <2>2, <2>3, <3>3, <3>4, <3>5, <3>6, DividedJoin
  <2> QED
    BY <2>5, <2>6
<1>7. 1 \in 1..N /\ Begins(t, 1, s)
  BY <1>1 DEF Begins
<1>8. 1 \notin T
  BY <1>6
<1> QED
  BY <1>2, <1>7, <1>8

---------------------------------------------------------------------------
(* Chunks of a stretch of a document. *)

\* A chunk of the letters S.
Piece(c, X, S) == PlacesIn(c) # {} /\ PlacesIn(c) \subseteq S /\ Unbroken(c, X)

\* The chunks of the letters S of a document have those that are kept.
Keeps(cs, D, X, o, S) ==
  /\ cs \in Seq(Seq(Of(D)))
  /\ \A i \in 1..Len(cs) : Piece(cs[i], X, S)
  /\ \A i \in 1..Len(cs) : i > 1 => Follows(cs[i - 1], cs[i], o)
  /\ \A x \in X \cap S : \E i \in 1..Len(cs) : x \in PlacesIn(cs[i])
  /\ \A x \in X \cap S : \E y \in PlacesIn(cs[Len(cs)]) : x <= y

LEMMA KeepsNone ==
  ASSUME NEW D, NEW X, NEW o, NEW S, S \cap X = {} PROVE Keeps(<<>>, D, X, o, S)
<1>1. <<>> \in Seq(Seq(Of(D))) /\ 1..Len(<<>>) = {}
  OBVIOUS
<1> QED
  BY <1>1 DEF Keeps

\* Letters that are not kept make no difference.
LEMMA KeepsMore ==
  ASSUME NEW D, NEW X, NEW o, NEW S, NEW T, NEW cs, Keeps(cs, D, X, o, S), S \subseteq T, X \cap T \subseteq S
  PROVE  Keeps(cs, D, X, o, T)
<1>1. \A i \in 1..Len(cs) : Piece(cs[i], X, T)
  BY DEF Keeps, Piece
<1>2. X \cap T = X \cap S
  OBVIOUS
<1> QED
  BY <1>1, <1>2 DEF Keeps

LEMMA KeepsOne ==
  ASSUME NEW D, IsDoc(D), NEW X, NEW o, NEW c \in Seq(Of(D)), PlacesIn(c) # {}, Unbroken(c, X)
  PROVE  Keeps(<<c>>, D, X, o, PlacesIn(c))
<1>1. <<c>> \in Seq(Seq(Of(D))) /\ Len(<<c>>) = 1 /\ <<c>>[1] = c
  OBVIOUS
<1>2. 1..Len(<<c>>) = {1} /\ <<c>>[Len(<<c>>)] = c
  BY <1>1
<1>3. \A x \in PlacesIn(c) : x <= x
  <2>1. PlacesIn(c) \subseteq Nat
    BY OfDoc
  <2> QED
    BY <2>1
<1>4. Piece(c, X, PlacesIn(c))
  BY DEF Piece
<1> QED
  BY <1>1, <1>2, <1>3, <1>4 DEF Keeps

\* One list of chunks after the other.
LEMMA JoinOf ==
  ASSUME NEW C, NEW a \in Seq(C), NEW b \in Seq(C)
  PROVE  /\ a \o b \in Seq(C) /\ Len(a) \in Nat /\ Len(b) \in Nat /\ Len(a \o b) = Len(a) + Len(b)
         /\ \A i \in 1..Len(a) : (a \o b)[i] = a[i] /\ i \in 1..Len(a \o b)
         /\ \A k \in 1..Len(b) : (a \o b)[Len(a) + k] = b[k] /\ Len(a) + k \in 1..Len(a \o b)
         /\ \A i \in 1..Len(a \o b) : i \in 1..Len(a) \/ \E k \in 1..Len(b) : i = Len(a) + k
<1>1. /\ a \o b \in Seq(C) /\ Len(a) \in Nat /\ Len(b) \in Nat /\ Len(a \o b) = Len(a) + Len(b)
      /\ \A i \in 1..Len(a) : (a \o b)[i] = a[i]
      /\ \A k \in 1..Len(b) : (a \o b)[Len(a) + k] = b[k]
  OBVIOUS
<1>2. ASSUME NEW i \in 1..Len(a \o b) PROVE i \in 1..Len(a) \/ \E k \in 1..Len(b) : i = Len(a) + k
  <2>1. i \in 1..Len(a) \/ (i - Len(a) \in 1..Len(b) /\ i = Len(a) + (i - Len(a)))
    BY <1>1
  <2> QED
    BY <2>1
<1>3. (\A i \in 1..Len(a) : i \in 1..Len(a \o b)) /\ \A k \in 1..Len(b) : Len(a) + k \in 1..Len(a \o b)
  <2>1. PICK m \in Nat, n \in Nat : m = Len(a) /\ n = Len(b)
    BY <1>1
  <2>2. (\A i \in 1..m : i \in 1..(m + n)) /\ \A k \in 1..n : m + k \in 1..(m + n)
    OBVIOUS
  <2> QED
    BY <1>1, <2>1, <2>2
<1> QED
  BY <1>1, <1>2, <1>3

LEMMA KeepsJoin ==
  ASSUME NEW D, NEW X, NEW o, NEW S, NEW T, NEW a, NEW b, Keeps(a, D, X, o, S), Keeps(b, D, X, o, T), Len(b) > 0,
         Len(a) > 0 => Follows(a[Len(a)], b[1], o), \A x \in X \cap S : \E y \in PlacesIn(b[Len(b)]) : x <= y
  PROVE  Keeps(a \o b, D, X, o, S \cup T)
<1>0. a \in Seq(Seq(Of(D))) /\ b \in Seq(Seq(Of(D)))
  BY DEF Keeps
<1>1. /\ a \o b \in Seq(Seq(Of(D))) /\ Len(a) \in Nat /\ Len(b) \in Nat /\ Len(a \o b) = Len(a) + Len(b)
      /\ \A i \in 1..Len(a) : (a \o b)[i] = a[i] /\ i \in 1..Len(a \o b)
      /\ \A k \in 1..Len(b) : (a \o b)[Len(a) + k] = b[k] /\ Len(a) + k \in 1..Len(a \o b)
      /\ \A i \in 1..Len(a \o b) : i \in 1..Len(a) \/ \E k \in 1..Len(b) : i = Len(a) + k
  BY <1>0, JoinOf
<1>2. ASSUME NEW i \in 1..Len(a \o b) PROVE Piece((a \o b)[i], X, S \cup T)
  BY <1>1 DEF Keeps, Piece
<1>3. ASSUME NEW i \in 1..Len(a \o b), i > 1 PROVE Follows((a \o b)[i - 1], (a \o b)[i], o)
  <2>1. CASE i \in 1..Len(a)
    <3>1. i - 1 \in 1..Len(a)
      BY <1>1, <1>3, <2>1
    <3> QED
      BY <1>1, <1>3, <2>1, <3>1 DEF Keeps
  <2>2. ASSUME NEW k \in 1..Len(b), i = Len(a) + k PROVE Follows((a \o b)[i - 1], (a \o b)[i], o)
    <3>1. CASE k = 1
      <4>1. Len(a) > 0 /\ Len(a) \in 1..Len(a) /\ i - 1 = Len(a)
        BY <1>1, <1>3, <2>2, <3>1
      <4> QED
        BY <1>1, <2>2, <3>1, <4>1
    <3>2. CASE k # 1
      <4>1. k - 1 \in 1..Len(b) /\ i - 1 = Len(a) + (k - 1) /\ k > 1
        BY <1>1, <2>2, <3>2
      <4>2. (a \o b)[i - 1] = b[k - 1] /\ (a \o b)[i] = b[k]
        BY <1>1, <2>2, <4>1
      <4> QED
        BY <4>1, <4>2 DEF Keeps
    <3> QED
      BY <3>1, <3>2
  <2> QED
    BY <1>1, <2>1, <2>2
<1>4. ASSUME NEW x \in X \cap (S \cup T) PROVE \E i \in 1..Len(a \o b) : x \in PlacesIn((a \o b)[i])
  <2>1. CASE x \in S
    <3>1. PICK i \in 1..Len(a) : x \in PlacesIn(a[i])
      BY <1>4, <2>1 DEF Keeps
    <3> QED
      BY <1>1, <3>1
  <2>2. CASE x \in T
    <3>1. PICK k \in 1..Len(b) : x \in PlacesIn(b[k])
      BY <1>4, <2>2 DEF Keeps
    <3> QED
      BY <1>1, <3>1
  <2> QED
    BY <1>4, <2>1, <2>2
<1>5. (a \o b)[Len(a \o b)] = b[Len(b)]
  <2>1. Len(b) \in 1..Len(b)
    BY <1>1
  <2> QED
    BY <1>1, <2>1
<1>6. \A x \in X \cap (S \cup T) : \E y \in PlacesIn((a \o b)[Len(a \o b)]) : x <= y
  BY <1>5 DEF Keeps
<1> QED
  BY <1>1, <1>2, <1>3, <1>4, <1>6 DEF Keeps

LEMMA OneMore ==
  ASSUME NEW n \in Nat
  PROVE  n + 1 \in 1..(n + 1) /\ (\A i \in 1..(n + 1) : i \in 1..n \/ i = n + 1) /\ \A i \in 1..n : i \in 1..(n + 1)
  OBVIOUS

\* The last chunk may grow.
LEMMA KeepsLast ==
  ASSUME NEW D, IsDoc(D), NEW X, NEW o, NEW S, NEW cs \in Seq(Seq(Of(D))), NEW d \in Seq(Of(D)), NEW e \in Seq(Of(D)),
         Keeps(Append(cs, d), D, X, o, S), PlacesIn(d) \subseteq PlacesIn(e), Unbroken(e, X), Len(cs) > 0 => Follows(cs[Len(cs)], e, o)
  PROVE  Keeps(Append(cs, e), D, X, o, S \cup PlacesIn(e))
<1> DEFINE a == Append(cs, d)
           b == Append(cs, e)
<1>1. PICK n \in Nat : n = Len(cs)
  OBVIOUS
<1>2. /\ a \in Seq(Seq(Of(D))) /\ b \in Seq(Seq(Of(D))) /\ Len(a) = n + 1 /\ Len(b) = n + 1
      /\ a[n + 1] = d /\ b[n + 1] = e /\ \A i \in 1..n : a[i] = cs[i] /\ b[i] = cs[i]
  BY <1>1
<1>3. Keeps(a, D, X, o, S)
  OBVIOUS
<1> HIDE DEF a, b
<1>4. n + 1 \in 1..(n + 1) /\ (\A i \in 1..(n + 1) : i \in 1..n \/ i = n + 1) /\ \A i \in 1..n : i \in 1..(n + 1)
  BY OneMore
<1>5. ASSUME NEW i \in 1..(n + 1) PROVE Piece(b[i], X, S \cup PlacesIn(e))
  <2>1. Piece(a[i], X, S)
    BY <1>2, <1>3 DEF Keeps
  <2> QED
    BY <1>2, <1>4, <2>1 DEF Piece
<1>6. ASSUME NEW i \in 1..(n + 1), i > 1 PROVE Follows(b[i - 1], b[i], o)
  <2>1. i - 1 \in 1..n
    BY <1>6
  <2>2. CASE i = n + 1
    <3>1. i - 1 = n /\ n > 0 /\ b[i - 1] = cs[n] /\ b[i] = e
      BY <1>2, <1>6, <2>1, <2>2
    <3> QED
      BY <1>1, <3>1
  <2>3. CASE i # n + 1
    <3>1. Follows(a[i - 1], a[i], o)
      BY <1>2, <1>3, <1>6 DEF Keeps
    <3>2. i \in 1..n
      BY <1>4, <2>3
    <3> QED
      BY <1>2, <2>1, <3>1, <3>2
  <2> QED
    BY <2>2, <2>3
<1>7. ASSUME NEW x \in X \cap (S \cup PlacesIn(e))
      PROVE  (\E i \in 1..(n + 1) : x \in PlacesIn(b[i])) /\ (\E y \in PlacesIn(b[n + 1]) : x <= y)
  <2>1. CASE x \in PlacesIn(e)
    <3>1. x <= x
      <4>1. PlacesIn(e) \subseteq Nat
        BY OfDoc
      <4> QED
        BY <2>1, <4>1
    <3> QED
      BY <1>2, <1>4, <2>1, <3>1
  <2>2. CASE x \in S
    <3>1. (\E i \in 1..(n + 1) : x \in PlacesIn(a[i])) /\ (\E y \in PlacesIn(a[n + 1]) : x <= y)
      BY <1>2, <1>3, <1>7, <2>2 DEF Keeps
    <3>2. \A i \in 1..(n + 1) : PlacesIn(a[i]) \subseteq PlacesIn(b[i])
      BY <1>2, <1>4
    <3> QED
      BY <1>4, <3>1, <3>2
  <2> QED
    BY <1>7, <2>1, <2>2
<1>8. Keeps(b, D, X, o, S \cup PlacesIn(e))
  BY <1>2, <1>5, <1>6, <1>7 DEF Keeps
<1> QED
  BY <1>8 DEF b

---------------------------------------------------------------------------
(* Their sizes, and calls that do not return. *)

Fit(cs, s, size, o) == \A i \in 1..Len(cs) : Fits(cs[i], s, size, o)

\* What a call yields: what is asked of a document's chunks, or no end.
Sane(cs, D, X, o, S, s, size, stuck) ==
  /\ cs \in Seq(Seq(Of(D)))
  /\ \/ Endless \in ToSet(cs) /\ stuck
     \/ Keeps(cs, D, X, o, S) /\ Fit(cs, s, size, o)

LEMMA AmongJoin ==
  ASSUME NEW C, NEW a \in Seq(C), NEW b \in Seq(C), NEW c
  PROVE  c \in ToSet(a \o b) <=> c \in ToSet(a) \/ c \in ToSet(b)
<1>1. /\ Len(a) \in Nat /\ Len(b) \in Nat /\ a \o b \in Seq(C)
      /\ \A i \in 1..Len(a) : (a \o b)[i] = a[i] /\ i \in 1..Len(a \o b)
      /\ \A k \in 1..Len(b) : (a \o b)[Len(a) + k] = b[k] /\ Len(a) + k \in 1..Len(a \o b)
      /\ \A i \in 1..Len(a \o b) : i \in 1..Len(a) \/ \E k \in 1..Len(b) : i = Len(a) + k
  BY JoinOf
<1>2. DOMAIN a = 1..Len(a) /\ DOMAIN b = 1..Len(b) /\ DOMAIN (a \o b) = 1..Len(a \o b)
  BY <1>1
<1>3. ASSUME NEW i \in 1..Len(a \o b), c = (a \o b)[i] PROVE c \in ToSet(a) \/ c \in ToSet(b)
  <2>1. CASE i \in 1..Len(a)
    BY <1>1, <1>2, <1>3, <2>1 DEF ToSet
  <2>2. ASSUME NEW k \in 1..Len(b), i = Len(a) + k PROVE c \in ToSet(b)
    BY <1>1, <1>2, <1>3, <2>2 DEF ToSet
  <2> QED
    BY <1>1, <2>1, <2>2
<1>4. ASSUME NEW i \in 1..Len(a), c = a[i] PROVE c \in ToSet(a \o b)
  BY <1>1, <1>2, <1>4 DEF ToSet
<1>5. ASSUME NEW k \in 1..Len(b), c = b[k] PROVE c \in ToSet(a \o b)
  BY <1>1, <1>2, <1>5 DEF ToSet
<1> QED
  BY <1>2, <1>3, <1>4, <1>5 DEF ToSet

LEMMA FitJoin ==
  ASSUME NEW C, NEW a \in Seq(C), NEW b \in Seq(C), NEW s, NEW size, NEW o, Fit(a, s, size, o), Fit(b, s, size, o)
  PROVE  Fit(a \o b, s, size, o)
<1>1. /\ \A i \in 1..Len(a) : (a \o b)[i] = a[i]
      /\ \A k \in 1..Len(b) : (a \o b)[Len(a) + k] = b[k]
      /\ \A i \in 1..Len(a \o b) : i \in 1..Len(a) \/ \E k \in 1..Len(b) : i = Len(a) + k
  BY JoinOf
<1> QED
  BY <1>1 DEF Fit

LEMMA SaneMore ==
  ASSUME NEW D, NEW X, NEW o, NEW S, NEW T, NEW cs, NEW s, NEW size, NEW stuck, Sane(cs, D, X, o, S, s, size, stuck),
         S \subseteq T, X \cap T \subseteq S
  PROVE  Sane(cs, D, X, o, T, s, size, stuck)
<1>1. Keeps(cs, D, X, o, S) => Keeps(cs, D, X, o, T)
  BY KeepsMore
<1> QED
  BY <1>1 DEF Sane

\* Chunks of letters further on follow those before.
LEMMA SaneJoin ==
  ASSUME NEW D, IsDoc(D), NEW X, NEW o, NEW S, NEW T, NEW a, NEW b, NEW s, NEW size, NEW stuck,
         Sane(a, D, X, o, S, s, size, stuck), Sane(b, D, X, o, T, s, size, stuck), b # <<>>,
         S \subseteq Nat, T \subseteq Nat, \A x \in S, y \in T : x < y
  PROVE  Sane(a \o b, D, X, o, S \cup T, s, size, stuck)
<1>1. a \in Seq(Seq(Of(D))) /\ b \in Seq(Seq(Of(D))) /\ a \o b \in Seq(Seq(Of(D))) /\ Len(a) \in Nat /\ Len(b) \in Nat
  BY DEF Sane
<1>2. CASE (Endless \in ToSet(a) \/ Endless \in ToSet(b)) /\ stuck
  BY <1>1, <1>2, AmongJoin DEF Sane
<1>3. CASE Keeps(a, D, X, o, S) /\ Fit(a, s, size, o) /\ Keeps(b, D, X, o, T) /\ Fit(b, s, size, o)
  <2>1. Fit(a \o b, s, size, o)
    BY <1>1, <1>3, FitJoin
  <2>2. Len(b) > 0 /\ 1 \in 1..Len(b) /\ Len(b) \in 1..Len(b)
    <3>1. Len(b) # 0
      BY <1>1
    <3> QED
      BY <1>1, <3>1
  <2>3. /\ PlacesIn(b[1]) # {} /\ PlacesIn(b[1]) \subseteq T /\ PlacesIn(b[Len(b)]) # {} /\ PlacesIn(b[Len(b)]) \subseteq T
    BY <1>3, <2>2 DEF Keeps, Piece
  <2>4. ASSUME Len(a) > 0 PROVE Follows(a[Len(a)], b[1], o)
    <3>1. PICK c, d : c = a[Len(a)] /\ d = b[1]
      OBVIOUS
    <3>2. PlacesIn(c) \subseteq S
      <4>1. Len(a) \in 1..Len(a)
        BY <1>1, <2>4
      <4> QED
        BY <1>3, <3>1, <4>1 DEF Keeps, Piece
    <3>3. \A y \in PlacesIn(c) : \E z \in PlacesIn(d) : y <= z
      <4>1. PICK z : z \in PlacesIn(d) /\ z \in T
        BY <2>3, <3>1
      <4>2. \A y \in S : y < z /\ y \in Nat /\ z \in Nat
        BY <4>1
      <4>3. \A y \in S : y <= z
        BY <4>2
      <4> QED
        BY <3>2, <4>1, <4>3
    <3>4. ASSUME NEW q \in Letters(d), NEW y \in PlacesIn(c), d[q].at <= y PROVE q <= o
      <4>1. d[q].at \in PlacesIn(d)
        BY DEF PlacesIn
      <4>2. d[q].at \in T /\ y \in S
        BY <2>3, <3>1, <3>2, <4>1
      <4>3. y < d[q].at /\ y \in Nat /\ d[q].at \in Nat
        BY <4>2
      <4> QED
        BY <3>4, <4>3
    <3> QED
      BY <3>1, <3>3, <3>4 DEF Follows
  <2>5. \A x \in X \cap S : \E y \in PlacesIn(b[Len(b)]) : x <= y
    <3>1. PICK y : y \in PlacesIn(b[Len(b)]) /\ y \in T
      BY <2>3
    <3>2. \A x \in S : x < y /\ x \in Nat /\ y \in Nat
      BY <3>1
    <3>3. \A x \in S : x <= y
      BY <3>2
    <3> QED
      BY <3>1, <3>3
  <2>6. Keeps(a \o b, D, X, o, S \cup T)
    BY <1>3, <2>2, <2>4, <2>5, KeepsJoin
  <2> QED
    BY <1>1, <2>1, <2>6 DEF Sane
<1> QED
  BY <1>2, <1>3 DEF Sane

---------------------------------------------------------------------------
(* Windows. *)

Stop(t, size, p) == Min({p + size - 1, Len(t)})

Win(t, size, p) == Trimmed(SubSeq(t, p, Stop(t, size, p)), <<>>)

Hence(t, size, o, p) == IF Stop(t, size, p) = Len(t) THEN Len(t) + 1 ELSE Stop(t, size, p) - o + 1

LEMMA StopIs ==
  ASSUME NEW C, NEW t \in Seq(C), NEW size \in Nat, size > 0, NEW p \in 1..Len(t)
  PROVE  /\ Stop(t, size, p) \in Nat /\ p <= Stop(t, size, p) /\ Stop(t, size, p) <= Len(t)
         /\ Stop(t, size, p) <= p + size - 1 /\ (Stop(t, size, p) # Len(t) => Stop(t, size, p) = p + size - 1)
<1>1. PICK n \in Nat, k \in Nat : n = Len(t) /\ k = p + size - 1 /\ p <= n /\ p <= k
  BY LenProperties
<1>2. PICK T : T = {k, n} /\ T \subseteq Nat /\ T # {}
  BY <1>1
<1>3. Min(T) \in T /\ \A y \in T : Min(T) <= y
  BY <1>2, MinIs
<1>4. Stop(t, size, p) = Min(T)
  BY <1>1, <1>2 DEF Stop
<1> QED
  BY <1>1, <1>2, <1>3, <1>4

LEMMA SolidRuns ==
  ASSUME NEW D, IsDoc(D), NEW X, X \subseteq Letters(D), NEW c, Solid(c, D) PROVE c \in Seq(Of(D)) /\ Unbroken(c, X)
<1>0. c \in Seq(Of(D)) /\ Letters(c) \subseteq 1..Len(c)
  BY LettersAre DEF Solid
<1>1. \A p, q \in Letters(c) : p < q => c[p].at < c[q].at
  BY <1>0 DEF Solid
<1>2. ASSUME NEW y \in PlacesIn(c), NEW z \in PlacesIn(c), NEW x \in X, y < x, x < z PROVE x \in PlacesIn(c)
  <2>1. PICK p \in 1..Len(c), q \in 1..Len(c) : y = c[p].at /\ z = c[q].at
    BY <1>0, LettersAre
  <2>2. y \in Nat /\ z \in Nat /\ x \in Nat
    BY <1>0, <2>1, OfDoc
  <2>3. c[p].at <= x /\ x <= c[q].at /\ x \in Letters(D)
    BY <1>2, <2>1, <2>2
  <2> QED
    BY <2>3 DEF Solid
<1> QED
  BY <1>0, <1>1, <1>2 DEF Unbroken

\* The windows from p on: what there is of the text from p, and how the first one goes on
\* from a window that ends an overlap after p.
Onwards(cs, t, D, X, o, size, p) ==
  /\ Keeps(cs, D, X, o, Span(t, p, Len(t)))
  /\ \A i \in 1..Len(cs) : Len(cs[i]) <= size
  /\ Len(cs) > 0 =>
       /\ \A y \in Letters(t) : y <= Stop(t, size, p) => \E z \in PlacesIn(cs[1]) : t[y].at <= z
       /\ \A q \in Letters(cs[1]) : \E b \in Letters(t) : cs[1][q].at = t[b].at /\ p + q <= b + 1

\* One window, from p to j, if there are letters.
OneWin(w, t, D, X, size, p, j) ==
  \/ w = <<>> /\ \A q \in Letters(t) : ~ (p <= q /\ q <= j)
  \/ \E c \in Seq(Of(D)) :
       /\ w = <<c>> /\ PlacesIn(c) = Span(t, p, j) /\ PlacesIn(c) # {} /\ Unbroken(c, X) /\ Len(c) <= size
       /\ \A y \in Letters(t) : y <= j => \E z \in PlacesIn(c) : t[y].at <= z
       /\ \A q \in Letters(c) : \E b \in Letters(t) : c[q].at = t[b].at /\ p + q <= b + 1

LEMMA WinIs ==
  ASSUME NEW D, IsDoc(D), NEW X, X \subseteq Letters(D), NEW t, Solid(t, D), NEW size \in Nat, size > 0, NEW p \in 1..Len(t),
         NEW j, j = Stop(t, size, p)
  PROVE  OneWin(Win(t, size, p), t, D, X, size, p, j)
<1>1. t \in Seq(Of(D)) /\ Len(t) \in Nat /\ Letters(t) \subseteq 1..Len(t) /\ p \in Nat /\ 1 <= p /\ p <= Len(t)
  BY LettersAre DEF Solid
<1>2. j \in Nat /\ p <= j /\ j <= Len(t) /\ j <= p + size - 1
  BY <1>1, StopIs
<1>3. PICK i \in Nat : i = j + 1 /\ j = i - 1 /\ i <= j + 1 /\ p <= i
  BY <1>1, <1>2
<1>4. PICK w : w = Win(t, size, p) /\ w = Trimmed(SubSeq(t, p, i - 1), SubSeq(t, i, j))
  <2>1. SubSeq(t, i, j) = <<>>
    BY <1>1, <1>2, <1>3
  <2> QED
    BY <1>3, <2>1 DEF Win
<1>5. \/ w = <<>> /\ \A q \in Letters(t) : ~ (p <= q /\ q < i)
      \/ \E c \in Seq(Of(D)) : \E f, m : w = <<c>> /\ Drawn(c, t, p, i, j, f, m)
  <2>1. j \in Int /\ p \in Nat /\ 1 <= p /\ p <= i /\ i <= j + 1 /\ j <= Len(t)
    BY <1>1, <1>2, <1>3
  <2>2. w = Trimmed(SubSeq(t, p, i - 1), SubSeq(t, i, j)) /\ t \in Seq(Of(D))
    BY <1>1, <1>4
  <2> QED
    BY <2>1, <2>2, TrimmedIs
<1>6. CASE w = <<>> /\ \A q \in Letters(t) : ~ (p <= q /\ q < i)
  <2>1. \A q \in Letters(t) : ~ (p <= q /\ q <= j)
    BY <1>1, <1>2, <1>3, <1>6
  <2> QED
    BY <1>4, <1>6, <2>1 DEF OneWin
<1>7. ASSUME NEW c \in Seq(Of(D)), NEW f, NEW m, w = <<c>>, Drawn(c, t, p, i, j, f, m)
      PROVE  /\ PlacesIn(c) = Span(t, p, j) /\ PlacesIn(c) # {} /\ Unbroken(c, X) /\ Len(c) <= size
             /\ \A y \in Letters(t) : y <= j => \E z \in PlacesIn(c) : t[y].at <= z
             /\ \A q \in Letters(c) : \E b \in Letters(t) : c[q].at = t[b].at /\ p + q <= b + 1
  <2>1. Solid(c, D) /\ PlacesIn(c) = Span(t, p, j) /\ PlacesIn(c) # {}
    <3>1. j \in Int
      BY <1>2
    <3> QED
      BY <1>1, <1>2, <1>3, <1>7, <3>1, DrawnSolid
  <2>2. Unbroken(c, X)
    BY <2>1, SolidRuns
  <2>3. /\ f \in Nat /\ m \in Nat /\ p <= f + 1 /\ f + m < i /\ Len(c) = m + j - i + 1
        /\ \A k \in 1..m : c[k] = t[f + k]
    BY <1>7 DEF Drawn
  <2>4. Len(c) = m /\ m <= size
    <3>1. p \in Nat /\ f \in Nat /\ m \in Nat /\ p <= f + 1 /\ f + m < j + 1 /\ j <= p + size - 1
      BY <1>1, <1>2, <1>3, <2>3
    <3>2. m <= size
      BY <1>2, <3>1
    <3>3. m + j - i + 1 = m
      BY <1>2, <1>3, <3>1
    <3> QED
      BY <2>3, <3>2, <3>3
  <2>5. ASSUME NEW y \in Letters(t), y <= j PROVE \E z \in PlacesIn(c) : t[y].at <= z
    <3>0. y \in 1..Len(t)
      BY <1>1
    <3>1. CASE p <= y
      <4>1. t[y].at \in PlacesIn(c) /\ t[y].at \in Nat
        BY <1>1, <2>1, <2>5, <3>0, <3>1, OfDoc DEF Span
      <4>2. t[y].at <= t[y].at
        BY <4>1
      <4> QED
        BY <4>1, <4>2
    <3>2. CASE ~ (p <= y)
      <4>1. PICK q \in Letters(t) : t[q].at \in PlacesIn(c) /\ p <= q
        BY <2>1 DEF Span
      <4>2. q \in 1..Len(t) /\ y <= q
        BY <1>1, <3>0, <3>2, <4>1
      <4>3. t[y].at <= t[q].at
        BY <3>0, <4>2, InOrder
      <4> QED
        BY <4>1, <4>3
    <3> QED
      BY <3>1, <3>2
  <2>6. ASSUME NEW q \in Letters(c) PROVE \E b \in Letters(t) : c[q].at = t[b].at /\ p + q <= b + 1
    <3>1. q \in 1..m /\ q \in 1..Len(c)
      BY <2>4, LettersAre
    <3>2. PICK b : b = f + q /\ c[q] = t[b] /\ b \in 1..Len(t) /\ p + q <= b + 1
      <4>1. f + q \in 1..Len(t) /\ p + q <= f + q + 1
        BY <1>1, <1>2, <1>3, <2>3, <3>1
      <4> QED
        BY <2>3, <3>1, <4>1
    <3>3. b \in Letters(t)
      <4>1. (q \in Letters(c) <=> ~Blank(c[q].sign)) /\ (b \in Letters(t) <=> ~Blank(t[b].sign))
        BY <1>1, <3>1, <3>2, LettersAre
      <4> QED
        BY <3>2, <4>1
    <3> QED
      BY <3>2, <3>3
  <2> QED
    BY <2>1, <2>2, <2>4, <2>5, <2>6
<1> QED
  BY <1>4, <1>5, <1>6, <1>7 DEF OneWin

\* The last window,
LEMMA LastWin ==
  ASSUME NEW D, IsDoc(D), NEW X, X \subseteq Letters(D), NEW t, Solid(t, D), NEW size \in Nat, size > 0, NEW o \in Nat,
         NEW p \in 1..Len(t), Stop(t, size, p) = Len(t)
  PROVE  Onwards(Win(t, size, p), t, D, X, o, size, p)
<1>1. PICK w : w = Win(t, size, p)
  OBVIOUS
<1>2. CASE w = <<>> /\ \A q \in Letters(t) : ~ (p <= q /\ q <= Len(t))
  <2>1. Span(t, p, Len(t)) = {}
    BY <1>2 DEF Span
  <2>2. Keeps(w, D, X, o, Span(t, p, Len(t)))
    BY <1>2, <2>1, KeepsNone
  <2>3. Len(w) = 0 /\ 1..Len(w) = {}
    BY <1>2
  <2> QED
    BY <1>1, <2>2, <2>3 DEF Onwards
<1>3. ASSUME NEW c \in Seq(Of(D)),
             /\ w = <<c>> /\ PlacesIn(c) = Span(t, p, Len(t)) /\ PlacesIn(c) # {} /\ Unbroken(c, X) /\ Len(c) <= size
             /\ \A y \in Letters(t) : y <= Len(t) => \E z \in PlacesIn(c) : t[y].at <= z
             /\ \A q \in Letters(c) : \E b \in Letters(t) : c[q].at = t[b].at /\ p + q <= b + 1
      PROVE  Onwards(w, t, D, X, o, size, p)
  <2>1. Keeps(w, D, X, o, Span(t, p, Len(t)))
    BY <1>3, KeepsOne
  <2>2. Len(w) = 1 /\ w[1] = c /\ 1..Len(w) = {1}
    BY <1>3
  <2> QED
    BY <1>3, <2>1, <2>2 DEF Onwards
<1>4. OneWin(w, t, D, X, size, p, Len(t))
  BY <1>1, WinIs
<1> QED
  BY <1>1, <1>2, <1>3, <1>4 DEF OneWin

\* and one before others.
LEMMA NextWin ==
  ASSUME NEW D, IsDoc(D), NEW X, X \subseteq Letters(D), NEW t, Solid(t, D), NEW size \in Nat, NEW o \in Nat, o < size,
         NEW p \in 1..Len(t), Stop(t, size, p) # Len(t), NEW r, r = Stop(t, size, p) - o + 1,
         NEW cs, Onwards(cs, t, D, X, o, size, r)
  PROVE  Onwards(Win(t, size, p) \o cs, t, D, X, o, size, p)
<1>1. t \in Seq(Of(D)) /\ Len(t) \in Nat /\ Letters(t) \subseteq 1..Len(t) /\ p \in Nat /\ 1 <= p /\ p <= Len(t)
  BY LettersAre DEF Solid
<1>2. PICK j \in Nat : j = Stop(t, size, p) /\ p <= j /\ j < Len(t) /\ j = p + size - 1
  BY <1>1, StopIs
<1>3. r \in Nat /\ p < r /\ r <= j + 1 /\ r = j - o + 1 /\ r \in 1..Len(t)
  BY <1>1, <1>2
<1>4. Stop(t, size, r) \in Nat /\ j <= Stop(t, size, r)
  <2>1. PICK k \in Nat : /\ k = Stop(t, size, r) /\ k <= Len(t) /\ (k # Len(t) => k = r + size - 1)
    <3>1. size > 0 /\ r \in 1..Len(t) /\ t \in Seq(Of(D))
      BY <1>1, <1>3
    <3> QED
      BY <3>1, StopIs
  <2> QED
    BY <1>1, <1>2, <1>3, <2>1
<1>5. Span(t, p, Len(t)) = Span(t, p, j) \cup Span(t, r, Len(t))
  <2>1. \A a \in Letters(t) : p <= a /\ a <= Len(t) <=> (p <= a /\ a <= j) \/ (r <= a /\ a <= Len(t))
    BY <1>1, <1>2, <1>3
  <2> QED
    BY <2>1 DEF Span
<1>6. PICK w : w = Win(t, size, p)
  OBVIOUS
<1>7. Keeps(cs, D, X, o, Span(t, r, Len(t))) /\ cs \in Seq(Seq(Of(D))) /\ Len(cs) \in Nat /\ \A i \in 1..Len(cs) : Len(cs[i]) <= size
  <2>1. cs \in Seq(Seq(Of(D)))
    BY DEF Onwards, Keeps
  <2> QED
    BY <2>1 DEF Onwards
<1>8. ASSUME Len(cs) > 0
      PROVE  /\ \A y \in Letters(t) : y <= j => \E z \in PlacesIn(cs[1]) : t[y].at <= z
             /\ \A q \in Letters(cs[1]) : \E b \in Letters(t) : cs[1][q].at = t[b].at /\ r + q <= b + 1
  <2>1. \A y \in Letters(t) : y <= j => y <= Stop(t, size, r)
    BY <1>1, <1>4
  <2> QED
    BY <1>8, <2>1 DEF Onwards
<1>9. CASE w = <<>> /\ \A q \in Letters(t) : ~ (p <= q /\ q <= j)
  <2>1. w \o cs = cs
    BY <1>7, <1>9
  <2>2. Span(t, p, j) = {}
    BY <1>9 DEF Span
  <2>3. Keeps(cs, D, X, o, Span(t, p, Len(t)))
    BY <1>5, <1>7, <2>2
  <2>4. ASSUME Len(cs) > 0
        PROVE  \A q \in Letters(cs[1]) : \E b \in Letters(t) : cs[1][q].at = t[b].at /\ p + q <= b + 1
    <3>1. \A q \in Letters(cs[1]) : q \in Nat
      <4>1. 1 \in 1..Len(cs)
        BY <1>7, <2>4
      <4>2. cs[1] \in Seq(Of(D))
        BY <1>7, <4>1
      <4> QED
        BY <4>2, LettersAre
    <3>2. \A q \in Nat, b \in Nat : r + q <= b + 1 => p + q <= b + 1
      BY <1>1, <1>3
    <3> QED
      BY <1>1, <1>8, <2>4, <3>1, <3>2
  <2> QED
    BY <1>2, <1>6, <1>7, <1>8, <2>1, <2>3, <2>4 DEF Onwards
<1>10. ASSUME NEW c \in Seq(Of(D)),
              /\ w = <<c>> /\ PlacesIn(c) = Span(t, p, j) /\ PlacesIn(c) # {} /\ Unbroken(c, X) /\ Len(c) <= size
              /\ \A y \in Letters(t) : y <= j => \E z \in PlacesIn(c) : t[y].at <= z
              /\ \A q \in Letters(c) : \E b \in Letters(t) : c[q].at = t[b].at /\ p + q <= b + 1
       PROVE  Onwards(w \o cs, t, D, X, o, size, p)
  <2>1. Keeps(w, D, X, o, Span(t, p, j)) /\ Len(w) = 1 /\ w[1] = c /\ w \in Seq(Seq(Of(D)))
    BY <1>10, KeepsOne
  <2>2. /\ Len(w \o cs) = Len(w) + Len(cs)
        /\ \A i \in 1..Len(w) : (w \o cs)[i] = w[i]
        /\ \A k \in 1..Len(cs) : (w \o cs)[Len(w) + k] = cs[k]
        /\ \A i \in 1..Len(w \o cs) : i \in 1..Len(w) \/ \E k \in 1..Len(cs) : i = Len(w) + k
    <3>1. w \in Seq(Seq(Of(D))) /\ cs \in Seq(Seq(Of(D)))
      BY <1>7, <2>1
    <3>2. /\ Len(w \o cs) = Len(w) + Len(cs)
          /\ \A i \in 1..Len(w) : (w \o cs)[i] = w[i] /\ i \in 1..Len(w \o cs)
          /\ \A k \in 1..Len(cs) : (w \o cs)[Len(w) + k] = cs[k] /\ Len(w) + k \in 1..Len(w \o cs)
          /\ \A i \in 1..Len(w \o cs) : i \in 1..Len(w) \/ \E k \in 1..Len(cs) : i = Len(w) + k
      BY <3>1, JoinOf
    <3> QED
      BY <3>2
  <2>3. 1..1 = {1} /\ (w \o cs)[1] = c
    BY <2>1, <2>2
  <2>4. \A i \in 1..Len(w \o cs) : Len((w \o cs)[i]) <= size
    BY <1>7, <1>10, <2>1, <2>2, <2>3
  <2>5. Keeps(w \o cs, D, X, o, Span(t, p, Len(t)))
    <3>1. CASE Len(cs) = 0
      <4>1. cs = <<>> /\ w \o cs = w
        <5>1. cs = <<>>
          BY <1>7, <3>1, EmptySeq
        <5>2. w \in Seq(Seq(Of(D)))
          BY <2>1
        <5>3. w \o <<>> = w
          BY <5>2, ConcatEmptySeq
        <5> QED
          BY <5>1, <5>3
      <4>2. X \cap Span(t, r, Len(t)) = {}
        BY <1>7, <3>1 DEF Keeps
      <4>3. Span(t, p, j) \subseteq Span(t, p, Len(t)) /\ X \cap Span(t, p, Len(t)) \subseteq Span(t, p, j)
        BY <1>5, <4>2
      <4> QED
        BY <2>1, <4>1, <4>3, KeepsMore
    <3>2. CASE Len(cs) # 0
      <4>0. Len(cs) > 0 /\ 1 \in 1..Len(cs) /\ Len(cs) \in 1..Len(cs)
        BY <1>7, <3>2
      <4>1. PICK d \in Seq(Of(D)) : d = cs[1]
        BY <1>7, <4>0
      <4>2. \A y \in PlacesIn(c) : \E z \in PlacesIn(d) : y <= z
        <5>1. \A y \in PlacesIn(c) : \E a \in Letters(t) : y = t[a].at /\ a <= j
          BY <1>10 DEF Span
        <5> QED
          BY <1>8, <4>0, <4>1, <5>1
      <4>3. ASSUME NEW q \in Letters(d), NEW y \in PlacesIn(c), d[q].at <= y PROVE q <= o
        <5>1. PICK a \in Letters(t) : y = t[a].at /\ a <= j
          BY <1>10 DEF Span
        <5>2. PICK b \in Letters(t) : d[q].at = t[b].at /\ r + q <= b + 1
          BY <1>8, <4>0, <4>1
        <5>3. a \in 1..Len(t) /\ b \in 1..Len(t) /\ q \in Nat
          BY <1>1, LettersAre
        <5>4. b <= a
          BY <4>3, <5>1, <5>2, <5>3, InOrder
        <5>5. a \in Nat /\ b \in Nat /\ q \in Nat /\ r \in Nat
          BY <1>3, <5>3
        <5>6. r + q <= b + 1 /\ b <= a /\ a <= j /\ r = j - o + 1
          BY <1>3, <5>1, <5>2, <5>4
        <5> QED
          BY <5>5, <5>6
      <4>4. Follows(w[Len(w)], cs[1], o)
        BY <2>1, <4>1, <4>2, <4>3 DEF Follows
      <4>5. ASSUME NEW x \in X \cap Span(t, p, j) PROVE \E y \in PlacesIn(cs[Len(cs)]) : x <= y
        <5>1. CASE x \in Span(t, r, Len(t))
          BY <1>7, <5>1 DEF Keeps
        <5>2. CASE x \notin Span(t, r, Len(t))
          <6>1. PICK a \in Letters(t) : x = t[a].at /\ a <= j /\ a \in 1..Len(t)
            BY <1>1 DEF Span
          <6>2. a < r
            BY <1>1, <1>3, <5>2, <6>1 DEF Span
          <6>3. PICK y \in PlacesIn(cs[Len(cs)]) : y \in Span(t, r, Len(t))
            BY <1>7, <4>0 DEF Keeps, Piece
          <6>4. PICK b \in Letters(t) : y = t[b].at /\ r <= b /\ b \in 1..Len(t)
            BY <1>1, <6>3 DEF Span
          <6>5. a <= b
            BY <1>3, <6>1, <6>2, <6>4
          <6> QED
            BY <6>1, <6>3, <6>4, <6>5, InOrder
        <5> QED
          BY <5>1, <5>2
      <4>6. Keeps(w \o cs, D, X, o, Span(t, p, j) \cup Span(t, r, Len(t)))
        BY <1>7, <2>1, <4>0, <4>4, <4>5, KeepsJoin
      <4> QED
        BY <1>5, <4>6
    <3> QED
      BY <3>1, <3>2
  <2> QED
    BY <1>2, <1>10, <2>3, <2>4, <2>5 DEF Onwards
<1>11. size > 0
  BY <1>1, <1>2
<1>12. OneWin(w, t, D, X, size, p, j)
  <2>1. j = Stop(t, size, p)
    BY <1>2
  <2>2. OneWin(Win(t, size, p), t, D, X, size, p, j)
    BY <1>11, <2>1, WinIs
  <2> QED
    BY <1>6, <2>2
<1> QED
  BY <1>6, <1>9, <1>10, <1>12 DEF OneWin

\* Windows keep what they are of, and fit, if they advance.
LEMMA WindowsKeep ==
  ASSUME NEW D, IsDoc(D), NEW X, X \subseteq Letters(D), NEW t, Solid(t, D), Len(t) > 0, NEW size \in Nat, size > 0,
         NEW o \in Nat, NEW s, NEW stuck, size <= o => stuck
  PROVE  Sane(Windows(t, size, o), D, X, o, PlacesIn(t), s, size, stuck)
<1> DEFINE N == Len(t)
           Body(f, p) == IF Stop(t, size, p) = Len(t) THEN Win(t, size, p)
                         ELSE Win(t, size, p) \o f[Stop(t, size, p) - o + 1]
           windows == CHOOSE f : f = [p \in DOMAIN t |-> Body(f, p)]
<1>1. t \in Seq(Of(D)) /\ N \in Nat /\ DOMAIN t = 1..N /\ Letters(t) \subseteq 1..N
  BY LettersAre DEF Solid
<1>2. Windows(t, size, o) = IF size < Len(t) /\ size <= o THEN <<Endless>> ELSE windows[1]
  BY DEF Windows, Win, Stop
<1>3. CASE size < Len(t) /\ size <= o
  <2>1. Windows(t, size, o) = <<Endless>> /\ stuck
    BY <1>2, <1>3
  <2>2. <<Endless>> \in Seq(Seq(Of(D))) /\ DOMAIN <<Endless>> = {1} /\ <<Endless>>[1] = Endless
    BY DEF Endless
  <2>3. Endless \in ToSet(<<Endless>>)
    BY <2>2 DEF ToSet
  <2> QED
    BY <2>1, <2>2, <2>3 DEF Sane
<1>4. CASE ~ (size < Len(t) /\ size <= o)
  <2>1. ASSUME NEW p \in 1..N
        PROVE  /\ Win(t, size, p) \in Seq(Seq(Of(D))) /\ Hence(t, size, o, p) \in Nat /\ p < Hence(t, size, o, p)
               /\ Hence(t, size, o, p) > N <=> Stop(t, size, p) = Len(t)
               /\ Stop(t, size, p) # Len(t) => Hence(t, size, o, p) = Stop(t, size, p) - o + 1 /\ o < size
    <3>1. PICK j \in Nat : /\ j = Stop(t, size, p) /\ p <= j /\ j <= Len(t)
                           /\ j <= p + size - 1 /\ (j # Len(t) => j = p + size - 1)
      BY <1>1, StopIs
    <3>2. p \in Nat /\ p >= 1
      BY <1>1
    <3>3. Win(t, size, p) \in Seq(Seq(Of(D)))
      <4>1. SubSeq(t, p, j) \in Seq(Of(D)) /\ <<>> \in Seq(Of(D))
        <5>1. 1 <= p /\ j \in Int /\ p <= j + 1 /\ j <= Len(t)
          BY <3>1, <3>2
        <5> QED
          BY <1>1, <3>2, <5>1, SubSeqStands
      <4> QED
        BY <3>1, <4>1, TrimmedType DEF Win
    <3>4. CASE j = Len(t)
      <4>1. Hence(t, size, o, p) = Len(t) + 1
        BY <3>1, <3>4 DEF Hence
      <4> QED
        BY <1>1, <3>1, <3>3, <3>4, <4>1
    <3>5. CASE j # Len(t)
      <4>1. Hence(t, size, o, p) = j - o + 1
        BY <3>1, <3>5 DEF Hence
      <4>2. j = p + size - 1 /\ size < Len(t)
        BY <1>1, <3>1, <3>2, <3>5
      <4>3. o < size
        BY <1>4, <4>2
      <4>4. j - o + 1 \in Nat /\ p < j - o + 1 /\ ~ (j - o + 1 > Len(t))
        BY <1>1, <3>1, <3>2, <3>5, <4>2, <4>3
      <4> QED
        BY <3>1, <3>3, <3>5, <4>1, <4>3, <4>4
    <3> QED
      BY <3>4, <3>5
  <2>2. \E f : f = [p \in DOMAIN t |-> Body(f, p)]
    <3> DEFINE g == [p \in 1..N |-> Win(t, size, p)]
               ahead == [p \in 1..N |-> Hence(t, size, o, p)]
    <3>1. g \in [1..N -> Seq(Seq(Of(D)))] /\ ahead \in [1..N -> Nat] /\ \A p \in 1..N : p < ahead[p]
      BY <2>1
    <3>2. PICK f \in [1..N -> Seq(Seq(Of(D)))] : Chained(f, N, g, ahead)
      <4>1. N \in Nat
        BY <1>1
      <4> HIDE DEF g, ahead, N
      <4>2. PICK V : V = Seq(Of(D))
        OBVIOUS
      <4>3. Onward(N, V, g, ahead)
        BY <3>1, <4>1, <4>2 DEF Onward
      <4>4. \E f \in [1..N -> Seq(V)] : Chained(f, N, g, ahead)
        BY <4>3, ChainIs
      <4> QED
        BY <4>2, <4>4
    <3>3. ASSUME NEW p \in 1..N PROVE f[p] = Body(f, p)
      <4>1. f[p] = IF Hence(t, size, o, p) > N THEN Win(t, size, p) ELSE Win(t, size, p) \o f[Hence(t, size, o, p)]
        BY <3>2 DEF Chained
      <4>2. CASE Stop(t, size, p) = Len(t)
        BY <2>1, <4>1, <4>2
      <4>3. CASE Stop(t, size, p) # Len(t)
        BY <2>1, <4>1, <4>3
      <4> QED
        BY <4>2, <4>3
    <3>4. f = [p \in 1..N |-> f[p]]
      BY <3>2
    <3>5. f = [p \in 1..N |-> Body(f, p)]
      <4> HIDE DEF Body, N
      <4> QED
        BY <3>3, <3>4
    <3> QED
      BY <1>1, <3>5
  <2>3. windows = [p \in DOMAIN t |-> Body(windows, p)]
    <3> HIDE DEF Body
    <3> QED
      BY <2>2
  <2> HIDE DEF windows
  <2>4. ASSUME NEW p \in 1..N PROVE windows[p] = Body(windows, p)
    <3> HIDE DEF Body, N
    <3> QED
      BY <1>1, <2>3
  <2> DEFINE Is(p) == Onwards(windows[p], t, D, X, o, size, p)
             T == {p \in 1..N : ~Is(p)}
  <2>5. T = {}
    <3> SUFFICES ASSUME T # {} PROVE FALSE
      OBVIOUS
    <3>1. PICK p \in T : \A y \in T : p >= y
      <4>1. T \subseteq 0..N
        BY <1>1
      <4>2. Max(T) \in T /\ \A y \in T : Max(T) >= y
        <5> HIDE DEF T, N
        <5> QED
          BY <1>1, <4>1, MaxIs
      <4> QED
        BY <4>2
    <3>2. p \in 1..N /\ ~Is(p)
      BY <3>1
    <3>3. CASE Stop(t, size, p) = Len(t)
      <4>1. Onwards(Win(t, size, p), t, D, X, o, size, p)
        BY <3>2, <3>3, LastWin
      <4>2. windows[p] = Win(t, size, p)
        BY <2>4, <3>2, <3>3
      <4> QED
        BY <3>2, <4>1, <4>2
    <3>4. CASE Stop(t, size, p) # Len(t)
      <4>1. PICK r : r = Stop(t, size, p) - o + 1
        OBVIOUS
      <4>2. r \in 1..N /\ p < r /\ o < size
        BY <1>1, <2>1, <3>2, <3>4, <4>1
      <4>3. r \notin T
        BY <1>1, <3>1, <3>2, <4>2
      <4>4. Onwards(windows[r], t, D, X, o, size, r)
        BY <4>2, <4>3
      <4>5. PICK cs : cs = windows[r]
        OBVIOUS
      <4>6. Onwards(Win(t, size, p) \o cs, t, D, X, o, size, p)
        BY <3>2, <3>4, <4>1, <4>2, <4>4, <4>5, NextWin
      <4>7. windows[p] = Win(t, size, p) \o cs
        BY <2>4, <3>2, <3>4, <4>1, <4>5
      <4> QED
        BY <3>2, <4>6, <4>7
    <3> QED
      BY <3>3, <3>4
  <2>6. PICK cs : cs = windows[1] /\ Onwards(cs, t, D, X, o, size, 1)
    <3>1. 1 \in 1..N /\ 1 \notin T
      BY <1>1, <2>5
    <3> QED
      BY <3>1
  <2>7. Span(t, 1, Len(t)) = PlacesIn(t)
    <3>1. \A k \in Letters(t) : 1 <= k /\ k <= Len(t)
      BY <1>1
    <3> QED
      BY <3>1 DEF Span, PlacesIn
  <2>8. Keeps(cs, D, X, o, PlacesIn(t)) /\ cs \in Seq(Seq(Of(D)))
    BY <2>6, <2>7 DEF Onwards, Keeps
  <2>9. ASSUME NEW i \in 1..Len(cs) PROVE Fits(cs[i], s, size, o)
    <3>1. PICK n \in Nat : n = Len(cs[i]) /\ n <= size
      <4>1. cs[i] \in Seq(Of(D))
        BY <2>8
      <4>2. Len(cs[i]) \in Nat
        BY <4>1
      <4> QED
        BY <2>6, <4>2 DEF Onwards
    <3>2. ~ (n > size + o)
      BY <3>1
    <3> QED
      BY <3>1, <3>2 DEF Fits
  <2> QED
    BY <1>2, <1>4, <2>6, <2>8, <2>9 DEF Sane, Fit
<1> QED
  BY <1>3, <1>4

---------------------------------------------------------------------------
(* Filling. *)

\* A wide part stays one in a chunk that it stands in,
LEMMA UncutWithin ==
  ASSUME NEW C, NEW c \in Seq(C), NEW d \in Seq(C), NEW f, Stands(c, d, f), NEW s \in Seq(Signs), NEW size, Uncut(c, s, size)
  PROVE  Uncut(d, s, size)
<1>1. PICK i \in Letters(c), j \in Letters(c) : j - i + 1 + Len(s) > size /\ \A k \in i..(j + 1 - Len(s)) : ~Reads(c, k, s)
  BY DEF Uncut
<1>2. /\ i \in 1..Len(c) /\ j \in 1..Len(c) /\ f \in Nat /\ Len(c) \in Nat /\ Len(s) \in Nat /\ DOMAIN s = 1..Len(s)
      /\ \A k \in 1..Len(c) : f + k \in 1..Len(d) /\ c[k] = d[f + k] /\ (k \in Letters(c) <=> f + k \in Letters(d))
  BY LettersAre, StandingLetters DEF Stands
<1>3. f + i \in Letters(d) /\ f + j \in Letters(d)
  BY <1>2
<1>4. (f + j) - (f + i) + 1 + Len(s) > size
  <2>1. (f + j) - (f + i) = j - i
    BY <1>2
  <2> QED
    BY <1>1, <2>1
<1>5. ASSUME NEW k \in (f + i)..(f + j + 1 - Len(s)), Reads(d, k, s) PROVE FALSE
  <2>1. PICK l \in 1..Len(c) : l = k - f /\ l \in i..(j + 1 - Len(s)) /\ f + l = k
    <3>1. PICK n \in Nat : n = Len(s)
      BY <1>2
    <3>2. k - f \in i..(j + 1 - n) /\ k - f \in Nat /\ k - f >= 1
      BY <1>2, <3>1
    <3>3. CASE n = 0
      <4>1. k \in (f + i)..(f + j + 1 - Len(s)) /\ DOMAIN s = {}
        BY <1>2, <3>1, <3>3
      <4>2. i \in i..(j + 1 - Len(s)) \/ ~ (i <= j + 1 - Len(s))
        BY <1>2, <3>1
      <4>3. i <= j + 1 - Len(s)
        BY <1>2, <3>1, <3>2
      <4>4. Reads(c, i, s)
        BY <4>1 DEF Reads
      <4> QED
        BY <1>1, <4>2, <4>3, <4>4
    <3>4. CASE n # 0
      <4>1. k - f \in 1..Len(c)
        BY <1>2, <3>1, <3>2, <3>4
      <4> QED
        BY <1>2, <3>1, <3>2, <4>1
    <3> QED
      BY <3>3, <3>4
  <2>2. ASSUME NEW n \in DOMAIN s PROVE c[l + n - 1].sign = s[n]
    <3>1. l + n - 1 \in 1..Len(c) /\ f + (l + n - 1) = k + n - 1
      <4>1. PICK m \in Nat : m = Len(s) /\ l \in i..(j + 1 - m) /\ n \in 1..m
        BY <1>2, <2>1
      <4> QED
        BY <1>2, <2>1, <4>1
    <3>2. d[k + n - 1].sign = s[n]
      BY <1>5 DEF Reads
    <3> QED
      BY <1>2, <3>1, <3>2
  <2>3. Reads(c, l, s)
    BY <2>2 DEF Reads
  <2> QED
    BY <1>1, <2>1, <2>3
<1> QED
  BY <1>3, <1>4, <1>5 DEF Uncut

\* and when the chunk is stripped.
LEMMA UncutStrip ==
  ASSUME NEW C, NEW c \in Seq(C), NEW s \in Seq(Signs), NEW size, Uncut(c, s, size)
  PROVE  Uncut(Strip(c), s, size)
<1>1. PICK i \in Letters(c), j \in Letters(c) : j - i + 1 + Len(s) > size /\ \A k \in i..(j + 1 - Len(s)) : ~Reads(c, k, s)
  BY DEF Uncut
<1>2. PICK b : b = Strip(c) /\ b \in Seq(C)
  BY StripIs
<1>3. PICK f : Stands(b, c, f) /\ \A p \in Letters(c) : p - f \in 1..Len(b)
  BY <1>2, StripIs
<1>4. /\ i \in 1..Len(c) /\ j \in 1..Len(c) /\ f \in Nat /\ Len(b) \in Nat /\ Len(s) \in Nat /\ DOMAIN s = 1..Len(s)
      /\ \A k \in 1..Len(b) : f + k \in 1..Len(c) /\ b[k] = c[f + k] /\ (k \in Letters(b) <=> f + k \in Letters(c))
  BY <1>2, <1>3, LettersAre, StandingLetters DEF Stands
<1>5. PICK p \in 1..Len(b), q \in 1..Len(b) : p = i - f /\ q = j - f /\ f + p = i /\ f + q = j
  BY <1>3, <1>4
<1>6. p \in Letters(b) /\ q \in Letters(b) /\ q - p = j - i
  BY <1>4, <1>5
<1>7. ASSUME NEW k \in p..(q + 1 - Len(s)), Reads(b, k, s) PROVE FALSE
  <2>1. f + k \in i..(j + 1 - Len(s)) /\ k \in Nat
    BY <1>4, <1>5
  <2>2. ASSUME NEW n \in DOMAIN s PROVE c[f + k + n - 1].sign = s[n]
    <3>1. k + n - 1 \in 1..Len(b) /\ f + (k + n - 1) = f + k + n - 1
      <4>1. PICK m \in Nat : m = Len(s) /\ k \in p..(q + 1 - m) /\ n \in 1..m
        BY <1>4
      <4> QED
        BY <1>4, <1>5, <4>1
    <3>2. b[k + n - 1].sign = s[n]
      BY <1>7 DEF Reads
    <3> QED
      BY <1>4, <3>1, <3>2
  <2>3. Reads(c, f + k, s)
    BY <2>2 DEF Reads
  <2> QED
    BY <1>1, <2>1, <2>3
<1>8. q - p + 1 + Len(s) > size
  BY <1>1, <1>6
<1> QED
  BY <1>2, <1>6, <1>7, <1>8 DEF Uncut

LEMMA FitsIs ==
  ASSUME NEW c, NEW s, NEW size, NEW o
  PROVE  Fits(c, s, size, o) <=> (Len(c) > size + o => s # <<>> /\ Uncut(c, s, size))
BY DEF Fits, Uncut

LEMMA FitsStrip ==
  ASSUME NEW C, NEW c \in Seq(C), NEW s \in Seq(Signs), NEW size \in Nat, NEW o \in Nat, Fits(c, s, size, o)
  PROVE  Fits(Strip(c), s, size, o)
<1>1. PICK b : b = Strip(c) /\ b \in Seq(C)
  BY StripIs
<1>2. PICK f : Stands(b, c, f)
  BY <1>1, StripIs
<1>3. Len(b) > size + o => Len(c) > size + o
  BY <1>2 DEF Stands
<1>4. Uncut(c, s, size) => Uncut(b, s, size)
  BY <1>1, UncutStrip
<1> QED
  BY <1>1, <1>3, <1>4, FitsIs

\* What is known of the last chunk.
LEMMA LastOf ==
  ASSUME NEW D, NEW X, NEW o, NEW S, NEW cs \in Seq(Seq(Of(D))), NEW d \in Seq(Of(D)), Keeps(Append(cs, d), D, X, o, S)
  PROVE  /\ Piece(d, X, S) /\ \A x \in X \cap S : \E y \in PlacesIn(d) : x <= y
         /\ Len(cs) > 0 => Follows(cs[Len(cs)], d, o) /\ PlacesIn(cs[Len(cs)]) \subseteq S
<1>1. PICK n \in Nat : n = Len(cs)
  OBVIOUS
<1>2. PICK a : a = Append(cs, d)
  OBVIOUS
<1>3. Len(a) = n + 1 /\ a[n + 1] = d /\ \A i \in 1..n : a[i] = cs[i]
  BY <1>1, <1>2
<1>4. n + 1 \in 1..(n + 1) /\ (n > 0 => n \in 1..n /\ n \in 1..(n + 1) /\ n + 1 > 1 /\ n + 1 - 1 = n)
  OBVIOUS
<1>5. Keeps(a, D, X, o, S)
  BY <1>2
<1>6. Piece(d, X, S) /\ \A x \in X \cap S : \E y \in PlacesIn(d) : x <= y
  BY <1>3, <1>4, <1>5 DEF Keeps
<1>7. ASSUME n > 0 PROVE Follows(cs[n], d, o) /\ PlacesIn(cs[n]) \subseteq S
  <2>1. Follows(a[n + 1 - 1], a[n + 1], o) /\ Piece(a[n], X, S)
    BY <1>3, <1>4, <1>5, <1>7 DEF Keeps
  <2> QED
    BY <1>3, <1>4, <1>7, <2>1 DEF Piece
<1> QED
  BY <1>1, <1>6, <1>7

LEMMA AppendIs ==
  ASSUME NEW C, NEW cs \in Seq(C), NEW d \in C
  PROVE  /\ Append(cs, d) \in Seq(C) /\ Append(cs, d) = cs \o <<d>> /\ <<d>> \in Seq(C)
         /\ \A c : c \in ToSet(Append(cs, d)) <=> c \in ToSet(cs) \/ c = d
<1>1. Append(cs, d) \in Seq(C) /\ Append(cs, d) = cs \o <<d>> /\ <<d>> \in Seq(C)
  OBVIOUS
<1>2. \A c : c \in ToSet(<<d>>) <=> c = d
  BY DEF ToSet
<1>3. \A c : c \in ToSet(cs \o <<d>>) <=> c \in ToSet(cs) \/ c \in ToSet(<<d>>)
  BY <1>1, AmongJoin
<1> QED
  BY <1>1, <1>2, <1>3

LEMMA AmongAppend ==
  ASSUME NEW C, NEW cs \in Seq(C), NEW d \in C, NEW c PROVE c \in ToSet(Append(cs, d)) <=> c \in ToSet(cs) \/ c = d
BY AppendIs

\* The last chunk grows.
LEMMA SaneLast ==
  ASSUME NEW D, IsDoc(D), NEW X, NEW o, NEW S, NEW cs \in Seq(Seq(Of(D))), NEW d \in Seq(Of(D)), NEW e \in Seq(Of(D)),
         NEW s, NEW size, NEW stuck, Sane(Append(cs, d), D, X, o, S, s, size, stuck), d # <<>>, PlacesIn(d) \subseteq PlacesIn(e),
         Fits(e, s, size, o),
         Keeps(Append(cs, d), D, X, o, S) => Unbroken(e, X) /\ (Len(cs) > 0 => Follows(cs[Len(cs)], e, o))
  PROVE  Sane(Append(cs, e), D, X, o, S \cup PlacesIn(e), s, size, stuck)
<1>1. Append(cs, e) \in Seq(Seq(Of(D))) /\ Append(cs, d) \in Seq(Seq(Of(D)))
  BY AppendIs
<1>2. CASE Endless \in ToSet(Append(cs, d)) /\ stuck
  <2>1. Endless \in ToSet(cs)
    <3>1. Endless \in ToSet(cs) \/ Endless = d
      BY <1>2, AppendIs
    <3> QED
      BY <3>1 DEF Endless
  <2>2. Endless \in ToSet(Append(cs, e))
    BY <2>1, AppendIs
  <2> QED
    BY <1>1, <1>2, <2>2 DEF Sane
<1>3. CASE Keeps(Append(cs, d), D, X, o, S) /\ Fit(Append(cs, d), s, size, o)
  <2>1. Keeps(Append(cs, e), D, X, o, S \cup PlacesIn(e))
    BY <1>3, KeepsLast
  <2>2. Fit(Append(cs, e), s, size, o)
    <3>1. PICK n \in Nat : n = Len(cs)
      OBVIOUS
    <3>2. /\ Len(Append(cs, d)) = n + 1 /\ Len(Append(cs, e)) = n + 1 /\ Append(cs, e)[n + 1] = e
          /\ \A i \in 1..n : Append(cs, d)[i] = cs[i] /\ Append(cs, e)[i] = cs[i]
      BY <3>1
    <3>3. (\A i \in 1..(n + 1) : i \in 1..n \/ i = n + 1) /\ \A i \in 1..n : i \in 1..(n + 1)
      BY OneMore
    <3> QED
      BY <1>3, <3>2, <3>3 DEF Fit
  <2> QED
    BY <1>1, <2>1, <2>2 DEF Sane
<1> QED
  BY <1>2, <1>3 DEF Sane

\* The chunks done, and the one that is being filled.
All(acc) == IF acc.open = <<>> THEN acc.done ELSE Append(acc.done, acc.open)

Filling(acc, D, X, o, S, s, size, stuck) ==
  /\ acc \in [done : Seq(Seq(Of(D))), open : Seq(Of(D))]
  /\ (acc.open = <<>> \/ PlacesIn(acc.open) # {}) /\ PlacesIn(acc.open) \subseteq S
  /\ Sane(All(acc), D, X, o, S, s, size, stuck)

\* What can be filled, for the proofs of the steps.
Ground(D, X, o, s, size) ==
  IsDoc(D) /\ X \subseteq Letters(D) /\ o \in Nat /\ s \in Seq(Signs) /\ size \in Nat /\ size > 0

\* When it is put away.
Done(p, acc, D, X, o, S, s, size, stuck) ==
  /\ p \in [done : Seq(Seq(Of(D))), open : Seq(Of(D))] /\ p.open = <<>>
  /\ Sane(p.done, D, X, o, S, s, size, stuck)
  /\ acc.open = <<>> => p = acc
  /\ acc.open # <<>> => p.done = Append(acc.done, Strip(acc.open))

LEMMA PutAwayIs ==
  ASSUME NEW D, NEW X, NEW o, NEW S, NEW s, NEW size, NEW stuck, Ground(D, X, o, s, size),
         NEW acc, Filling(acc, D, X, o, S, s, size, stuck), S \subseteq Nat
  PROVE  Done(PutAway(acc), acc, D, X, o, S, s, size, stuck)
<1>0. IsDoc(D) /\ o \in Nat /\ s \in Seq(Signs) /\ size \in Nat
  BY DEF Ground
<1>1. PICK cs \in Seq(Seq(Of(D))), d \in Seq(Of(D)) : cs = acc.done /\ d = acc.open
  BY DEF Filling
<1>2. CASE d = <<>>
  <2>1. Strip(d) = <<>>
    <3>1. Letters(d) = {}
      BY <1>1, <1>2 DEF Letters
    <3> QED
      BY <3>1 DEF Strip
  <2>2. PutAway(acc) = acc
    BY <1>1, <2>1 DEF PutAway
  <2> QED
    BY <1>1, <1>2, <2>2 DEF Filling, All, Done
<1>3. CASE d # <<>>
  <2>1. PlacesIn(d) # {}
    BY <1>1, <1>3 DEF Filling
  <2>2. PICK e \in Seq(Of(D)) : e = Strip(d) /\ e # <<>> /\ PlacesIn(e) = PlacesIn(d)
    <3>1. Letters(d) # {}
      BY <2>1 DEF PlacesIn
    <3> QED
      BY <3>1, StripIs, StripAt
  <2>3. PutAway(acc) = [done |-> Append(cs, e), open |-> <<>>]
    BY <1>1, <2>2 DEF PutAway
  <2>4. Sane(Append(cs, d), D, X, o, S, s, size, stuck)
    BY <1>1, <1>3 DEF Filling, All
  <2>5. PICK f : Stands(e, d, f)
    BY <2>2, StripIs
  <2>6. /\ f \in Nat /\ \A i \in Letters(e) : i \in Nat /\ f + i \in Letters(d) /\ e[i].at = d[f + i].at
    <3>1. \A i \in 1..Len(e) : (i \in Letters(e) <=> f + i \in Letters(d)) /\ e[i].at = d[f + i].at
      BY <2>5, StandingLetters
    <3>2. Letters(e) \subseteq 1..Len(e) /\ Letters(e) \subseteq Nat
      BY LettersAre
    <3> QED
      BY <2>5, <3>1, <3>2 DEF Stands
  <2>7. ASSUME Keeps(Append(cs, d), D, X, o, S)
        PROVE  Unbroken(e, X) /\ PlacesIn(e) \subseteq S /\ (Len(cs) > 0 => Follows(cs[Len(cs)], e, o))
    <3>1. Unbroken(d, X) /\ PlacesIn(d) \subseteq S /\ (Len(cs) > 0 => Follows(cs[Len(cs)], d, o))
      BY <2>7, LastOf DEF Piece
    <3>2. \A p, q \in Letters(e) : p < q => e[p].at < e[q].at
      <4>1. \A p, q \in Letters(e) : p < q => f + p < f + q
        BY <2>6
      <4> QED
        BY <2>6, <3>1, <4>1 DEF Unbroken
    <3>3. Unbroken(e, X)
      BY <2>2, <3>1, <3>2 DEF Unbroken
    <3>4. ASSUME Len(cs) > 0 PROVE Follows(cs[Len(cs)], e, o)
      <4>1. PICK b : b = cs[Len(cs)] /\ Follows(b, d, o)
        BY <3>1, <3>4
      <4>2. ASSUME NEW q \in Letters(e), NEW y \in PlacesIn(b), e[q].at <= y PROVE q <= o
        <5>1. f + q <= o
          BY <2>6, <4>1, <4>2 DEF Follows
        <5> QED
          BY <1>0, <2>6, <5>1
      <4> QED
        BY <2>2, <4>1, <4>2 DEF Follows
    <3> QED
      BY <2>2, <3>1, <3>3, <3>4
  <2>8. ASSUME Keeps(Append(cs, d), D, X, o, S), Fit(Append(cs, d), s, size, o)
        PROVE  Fits(e, s, size, o)
    <3>1. Fits(d, s, size, o)
      <4>1. PICK n \in Nat : n = Len(cs)
        OBVIOUS
      <4>2. Len(Append(cs, d)) = n + 1 /\ Append(cs, d)[n + 1] = d /\ n + 1 \in 1..(n + 1)
        BY <4>1
      <4> QED
        BY <2>8, <4>2 DEF Fit
    <3> QED
      BY <1>0, <2>2, <3>1, FitsStrip
  <2>9. Sane(Append(cs, e), D, X, o, S, s, size, stuck)
    <3>1. CASE Endless \in ToSet(Append(cs, d)) /\ stuck
      <4>1. Endless \in ToSet(Append(cs, e))
        <5>1. Endless \in ToSet(cs) \/ Endless = d
          BY <3>1, AppendIs
        <5>2. Endless \in ToSet(cs)
          BY <1>3, <5>1 DEF Endless
        <5> QED
          BY <5>2, AppendIs
      <4> QED
        BY <3>1, <4>1, AppendIs DEF Sane
    <3>2. CASE Keeps(Append(cs, d), D, X, o, S) /\ Fit(Append(cs, d), s, size, o)
      <4>1. Fits(e, s, size, o) /\ Unbroken(e, X) /\ PlacesIn(e) \subseteq S /\ (Len(cs) > 0 => Follows(cs[Len(cs)], e, o))
        BY <2>7, <2>8, <3>2
      <4>2. Sane(Append(cs, e), D, X, o, S \cup PlacesIn(e), s, size, stuck)
        BY <1>0, <1>3, <2>2, <2>4, <4>1, SaneLast
      <4>3. S \cup PlacesIn(e) = S
        BY <4>1
      <4> QED
        BY <4>2, <4>3
    <3> QED
      BY <2>4, <3>1, <3>2 DEF Sane
  <2>10. Append(cs, e) \in Seq(Seq(Of(D))) /\ <<>> \in Seq(Of(D))
    BY AppendIs
  <2> QED
    BY <1>1, <1>3, <2>2, <2>3, <2>9, <2>10 DEF Done
<1> QED
  BY <1>2, <1>3

\* The letters of c come after S, and nothing that is kept between.
Beyond(S, c, X) ==
  /\ S \subseteq Nat /\ \A x \in S, y \in PlacesIn(c) : x < y
  /\ \A x \in X, y \in S, z \in PlacesIn(c) : y < x /\ x < z => x \in S \cup PlacesIn(c)

LEMMA MaxOfTwo ==
  ASSUME NEW a \in Int, NEW b \in Int PROVE Max({a, b}) \in {a, b} /\ Max({a, b}) >= a /\ Max({a, b}) >= b
<1>1. \E x \in {a, b} : \A y \in {a, b} : x >= y
  OBVIOUS
<1> QED
  BY <1>1 DEF Max

LEMMA EndOfIs ==
  ASSUME NEW C, NEW t \in Seq(C), NEW n \in Nat
  PROVE  EndOf(t, n) \in Seq(C) /\ Len(EndOf(t, n)) <= n /\ \E f : Stands(EndOf(t, n), t, f) /\ f + Len(EndOf(t, n)) = Len(t)
<1>1. PICK l \in Nat : l = Len(t)
  OBVIOUS
<1>2. PICK i \in Nat : i = Max({1, l - n + 1}) /\ i >= 1 /\ i >= l - n + 1 /\ (i = 1 \/ i = l - n + 1)
  <2>1. PICK k \in Int, i \in Int : k = l - n + 1 /\ i = Max({1, k})
    <3>1. l - n + 1 \in Int /\ 1 \in Int
      OBVIOUS
    <3>2. \A k \in Int : Max({1, k}) \in {1, k}
      BY <3>1, MaxOfTwo
    <3> QED
      BY <3>1, <3>2
  <2>2. i \in {1, k} /\ i >= 1 /\ i >= k
    <3>1. 1 \in Int /\ k \in Int
      BY <2>1
    <3>2. Max({1, k}) \in {1, k} /\ Max({1, k}) >= 1 /\ Max({1, k}) >= k
      BY <3>1, MaxOfTwo
    <3> QED
      BY <2>1, <3>2
  <2>3. i \in Nat
    BY <2>2
  <2> QED
    BY <2>1, <2>2, <2>3
<1>3. EndOf(t, n) = SubSeq(t, i, l) /\ i <= l + 1
  BY <1>1, <1>2 DEF EndOf
<1>4. 1 <= i /\ l \in Int /\ l <= Len(t)
  BY <1>1, <1>2
<1>5. SubSeq(t, i, l) \in Seq(C) /\ Len(SubSeq(t, i, l)) = l - i + 1 /\ Stands(SubSeq(t, i, l), t, i - 1)
  BY <1>3, <1>4, SubSeqStands
<1>6. i - 1 + (l - i + 1) = l /\ l - i + 1 <= n
  BY <1>2
<1> QED
  BY <1>1, <1>3, <1>5, <1>6

\* Where the letters of one text after another are.
FromEither(b, c, p) ==
  \/ p \in Letters(b) /\ (b \o c)[p] = b[p]
  \/ \E q \in Letters(c) : p = Len(b) + q /\ (b \o c)[p] = c[q]

LEMMA JoinedLetters ==
  ASSUME NEW C, NEW b \in Seq(C), NEW c \in Seq(C), NEW p \in Letters(b \o c)
  PROVE  FromEither(b, c, p)
<1>1. Stands(b, b \o c, 0) /\ (p \in Letters(b) \/ (p - Len(b) \in Letters(c) /\ (b \o c)[p] = c[p - Len(b)]))
  BY JoinIs
<1>2. p \in Nat /\ Len(b) \in Nat
  <2>1. b \o c \in Seq(C)
    OBVIOUS
  <2> QED
    BY <2>1, LettersAre
<1>3. CASE p \in Letters(b)
  <2>1. p \in 1..Len(b) /\ 0 + p = p
    BY <1>2, <1>3, LettersAre
  <2> QED
    BY <1>1, <1>3, <2>1 DEF Stands, FromEither
<1>4. CASE p - Len(b) \in Letters(c) /\ (b \o c)[p] = c[p - Len(b)]
  <2>1. p = Len(b) + (p - Len(b))
    BY <1>2
  <2> QED
    BY <1>4, <2>1 DEF FromEither
<1> QED
  BY <1>1, <1>3, <1>4

\* A split after what a chunk has, or the end of it.
LEMMA RunsOn ==
  ASSUME NEW D, IsDoc(D), NEW X, X \subseteq Letters(D), NEW S, NEW d \in Seq(Of(D)), Piece(d, X, S),
         \A x \in X \cap S : \E y \in PlacesIn(d) : x <= y, NEW b \in Seq(Of(D)), NEW f, Stands(b, d, f), f + Len(b) = Len(d),
         NEW c, Solid(c, D), Beyond(S, c, X)
  PROVE  Unbroken(b \o c, X)
<1>1. c \in Seq(Of(D)) /\ Unbroken(c, X)
  BY SolidRuns
<1>2. Unbroken(d, X) /\ PlacesIn(d) \subseteq S /\ PlacesIn(b) \subseteq PlacesIn(d) /\ PlacesIn(d) \subseteq Nat /\ PlacesIn(c) \subseteq Nat /\ X \subseteq Nat
  <2>1. PlacesIn(d) \subseteq Letters(D) /\ PlacesIn(c) \subseteq Letters(D) /\ Letters(D) \subseteq 1..Len(D)
    BY <1>1, OfDoc
  <2> QED
    BY <2>1, StandingLetters DEF Piece
<1>3. /\ f \in Nat /\ Letters(b) \subseteq 1..Len(b) /\ Letters(d) \subseteq 1..Len(d) /\ Len(b) \in Nat /\ Len(d) \in Nat
      /\ \A i \in 1..Len(b) : f + i \in 1..Len(d) /\ (i \in Letters(b) <=> f + i \in Letters(d)) /\ b[i].at = d[f + i].at
  BY LettersAre, StandingLetters DEF Stands
<1>4. \A p \in Letters(b) : b[p].at \in PlacesIn(b)
  BY LettersAre
<1>5. \A q \in Letters(c) : c[q].at \in PlacesIn(c)
  BY <1>1, LettersAre
<1>6. ASSUME NEW p \in Letters(b \o c), NEW q \in Letters(b \o c), p < q PROVE (b \o c)[p].at < (b \o c)[q].at
  <2>0. p \in Nat /\ q \in Nat /\ Letters(c) \subseteq Nat
    <3>1. b \o c \in Seq(Of(D))
      BY <1>1
    <3> QED
      BY <1>1, <3>1, LettersAre
  <2>1. \/ p \in Letters(b) /\ (b \o c)[p] = b[p]
        \/ \E r \in Letters(c) : p = Len(b) + r /\ (b \o c)[p] = c[r]
    <3>1. FromEither(b, c, p)
      BY <1>1, JoinedLetters
    <3> QED
      BY <3>1 DEF FromEither
  <2>2. \/ q \in Letters(b) /\ (b \o c)[q] = b[q]
        \/ \E r \in Letters(c) : q = Len(b) + r /\ (b \o c)[q] = c[r]
    <3>1. FromEither(b, c, q)
      BY <1>1, JoinedLetters
    <3> QED
      BY <3>1 DEF FromEither
  <2>3. CASE p \in Letters(b) /\ (b \o c)[p] = b[p] /\ q \in Letters(b) /\ (b \o c)[q] = b[q]
    <3>1. f + p \in Letters(d) /\ f + q \in Letters(d) /\ f + p < f + q /\ b[p].at = d[f + p].at /\ b[q].at = d[f + q].at
      BY <1>3, <1>6, <2>0, <2>3
    <3> QED
      BY <1>2, <2>3, <3>1 DEF Unbroken
  <2>4. ASSUME p \in Letters(b), (b \o c)[p] = b[p], NEW r \in Letters(c), (b \o c)[q] = c[r]
        PROVE  (b \o c)[p].at < (b \o c)[q].at
    <3>1. b[p].at \in S /\ c[r].at \in PlacesIn(c)
      BY <1>2, <1>4, <1>5, <2>4
    <3> QED
      BY <2>4, <3>1 DEF Beyond
  <2>5. ASSUME NEW k \in Letters(c), p = Len(b) + k, (b \o c)[p] = c[k]
        PROVE  (b \o c)[p].at < (b \o c)[q].at
    <3>1. q \notin Letters(b)
      BY <1>3, <1>6, <2>0, <2>5
    <3>2. PICK r \in Letters(c) : q = Len(b) + r /\ (b \o c)[q] = c[r]
      BY <2>2, <3>1
    <3>3. k < r
      BY <1>3, <1>6, <2>0, <2>5, <3>2
    <3> QED
      BY <1>1, <2>5, <3>2, <3>3 DEF Unbroken
  <2> QED
    BY <2>1, <2>2, <2>3, <2>4, <2>5
<1>7. PlacesIn(b \o c) = PlacesIn(b) \cup PlacesIn(c)
  BY <1>1, JoinIs
<1>8. ASSUME NEW y \in PlacesIn(b), NEW x \in PlacesIn(d), y < x PROVE x \in PlacesIn(b)
  <2>1. PICK p \in Letters(b) : y = b[p].at
    BY LettersAre
  <2>2. PICK r \in Letters(d) : x = d[r].at
    BY LettersAre
  <2>3. f + p \in Letters(d) /\ d[f + p].at = y
    BY <1>3, <2>1
  <2>4. f + p < r
    <3>1. r \in Nat /\ f + p \in Nat
      BY <1>3, <2>1
    <3>2. CASE r < f + p
      <4>1. x < y
        BY <1>2, <2>2, <2>3, <3>2 DEF Unbroken
      <4> QED
        BY <1>2, <1>8, <4>1
    <3>3. CASE r = f + p
      BY <1>2, <1>8, <2>2, <2>3, <3>3
    <3> QED
      BY <3>1, <3>2, <3>3
  <2>5. PICK k \in 1..Len(b) : f + k = r
    <3>1. r - f \in 1..Len(b) /\ f + (r - f) = r
      BY <1>3, <2>1, <2>2, <2>4
    <3> QED
      BY <3>1
  <2>6. k \in Letters(b) /\ b[k].at = x
    BY <1>3, <2>2, <2>5
  <2> QED
    BY <1>4, <2>6
<1>9. ASSUME NEW y \in PlacesIn(b \o c), NEW z \in PlacesIn(b \o c), NEW x \in X, y < x, x < z PROVE x \in PlacesIn(b \o c)
  <2>1. CASE y \in PlacesIn(c) /\ z \in PlacesIn(c)
    BY <1>1, <1>7, <1>9, <2>1 DEF Unbroken
  <2>2. CASE y \in PlacesIn(c) /\ z \in PlacesIn(b)
    <3>1. z < y /\ z \in Nat /\ y \in Nat /\ x \in Nat
      BY <1>2, <2>2 DEF Beyond
    <3> QED
      BY <1>9, <3>1
  <2>3. CASE y \in PlacesIn(b) /\ z \in PlacesIn(b)
    <3>1. x \in PlacesIn(d)
      BY <1>2, <1>9, <2>3 DEF Unbroken
    <3> QED
      BY <1>7, <1>8, <1>9, <2>3, <3>1
  <2>4. CASE y \in PlacesIn(b) /\ z \in PlacesIn(c)
    <3>1. x \in S \cup PlacesIn(c)
      BY <1>2, <1>9, <2>4 DEF Beyond
    <3>2. ASSUME x \in S PROVE x \in PlacesIn(d)
      <4>1. PICK w \in PlacesIn(d) : x <= w
        BY <3>2
      <4>2. x = w \/ x < w
        BY <1>2, <4>1
      <4>3. CASE x < w
        BY <1>2, <1>9, <2>4, <4>3 DEF Unbroken
      <4> QED
        BY <4>1, <4>2, <4>3
    <3> QED
      BY <1>7, <1>8, <1>9, <2>4, <3>1, <3>2
  <2> QED
    BY <1>7, <2>1, <2>2, <2>3, <2>4
<1> QED
  BY <1>6, <1>9 DEF Unbroken

\* A chunk that has what is beyond those before, and no more of the last of them than the overlap.
LEMMA FollowsOn ==
  ASSUME NEW D, IsDoc(D), NEW X, NEW o, NEW S, NEW b \in Seq(Of(D)), NEW c \in Seq(Of(D)), NEW d, PlacesIn(d) \subseteq S,
         Beyond(S, c, X), PlacesIn(c) # {}, \A q \in Letters(b), y \in PlacesIn(d) : b[q].at <= y => q <= o
  PROVE  Follows(d, b \o c, o)
<1>1. PlacesIn(b \o c) = PlacesIn(b) \cup PlacesIn(c) /\ PlacesIn(c) \subseteq Nat /\ S \subseteq Nat
  <2>1. PlacesIn(c) \subseteq Letters(D) /\ Letters(D) \subseteq 1..Len(D)
    BY OfDoc
  <2> QED
    BY <2>1, JoinIs DEF Beyond
<1>2. ASSUME NEW y \in PlacesIn(d) PROVE \E z \in PlacesIn(b \o c) : y <= z
  <2>1. PICK z \in PlacesIn(c) : z \in PlacesIn(b \o c)
    BY <1>1
  <2>2. y < z /\ y \in Nat /\ z \in Nat
    BY <1>1, <2>1 DEF Beyond
  <2>3. y <= z
    BY <2>2
  <2> QED
    BY <2>1, <2>3
<1>3. ASSUME NEW q \in Letters(b \o c), NEW y \in PlacesIn(d), (b \o c)[q].at <= y PROVE q <= o
  <2>1. FromEither(b, c, q)
    BY JoinedLetters
  <2>2. CASE q \in Letters(b) /\ (b \o c)[q] = b[q]
    BY <1>3, <2>2
  <2>3. ASSUME NEW r \in Letters(c), (b \o c)[q] = c[r] PROVE FALSE
    <3>1. c[r].at \in PlacesIn(c) /\ c[r].at <= y
      BY <1>3, <2>3, LettersAre
    <3>2. y < c[r].at /\ y \in Nat /\ c[r].at \in Nat
      BY <1>1, <3>1 DEF Beyond
    <3> QED
      BY <3>1, <3>2
  <2> QED
    BY <2>1, <2>2, <2>3 DEF FromEither
<1> QED
  BY <1>2, <1>3 DEF Follows

\* What a large split is cut into.
LEMMA FillLarge ==
  ASSUME NEW D, NEW X, NEW o, NEW S, NEW s, NEW size, NEW stuck, Ground(D, X, o, s, size),
         NEW acc, Filling(acc, D, X, o, S, s, size, stuck), NEW c \in Seq(Of(D)), Beyond(S, c, X),
         NEW below, Sane(below, D, X, o, PlacesIn(c), s, size, stuck)
  PROVE  Filling(TakeIn(acc, below), D, X, o, S \cup PlacesIn(c), s, size, stuck)
<1>0. IsDoc(D) /\ S \subseteq Nat /\ PlacesIn(c) \subseteq Nat /\ \A x \in S, y \in PlacesIn(c) : x < y
  <2>1. IsDoc(D)
    BY DEF Ground
  <2>2. PlacesIn(c) \subseteq Letters(D) /\ Letters(D) \subseteq 1..Len(D)
    BY <2>1, OfDoc
  <2> QED
    BY <2>1, <2>2 DEF Beyond
<1>1. CASE below = <<>>
  <2>1. TakeIn(acc, below) = acc
    BY <1>1 DEF TakeIn
  <2>2. X \cap PlacesIn(c) = {}
    <3>1. ToSet(<<>>) = {} /\ 1..Len(<<>>) = {}
      BY DEF ToSet
    <3> QED
      BY <1>1, <3>1 DEF Sane, Keeps
  <2>3. Sane(All(acc), D, X, o, S \cup PlacesIn(c), s, size, stuck)
    <3>1. S \subseteq S \cup PlacesIn(c) /\ X \cap (S \cup PlacesIn(c)) \subseteq S
      BY <2>2
    <3> QED
      BY <3>1, SaneMore DEF Filling
  <2> QED
    BY <2>1, <2>3 DEF Filling
<1>2. CASE below # <<>>
  <2>1. PICK p : /\ p = PutAway(acc) /\ p \in [done : Seq(Seq(Of(D))), open : Seq(Of(D))] /\ p.open = <<>>
                 /\ Sane(p.done, D, X, o, S, s, size, stuck)
    <3>1. Done(PutAway(acc), acc, D, X, o, S, s, size, stuck)
      BY <1>0, PutAwayIs
    <3> QED
      BY <3>1 DEF Done
  <2>2. Sane(p.done \o below, D, X, o, S \cup PlacesIn(c), s, size, stuck) /\ p.done \o below \in Seq(Seq(Of(D)))
    <3>1. Sane(p.done \o below, D, X, o, S \cup PlacesIn(c), s, size, stuck)
      BY <1>0, <1>2, <2>1, SaneJoin
    <3> QED
      BY <3>1 DEF Sane
  <2>3. TakeIn(acc, below) = [done |-> p.done \o below, open |-> <<>>]
    BY <1>2, <2>1 DEF TakeIn
  <2>4. PlacesIn(<<>>) = {} /\ <<>> \in Seq(Of(D))
    BY DEF PlacesIn, Letters
  <2> QED
    BY <2>2, <2>3, <2>4 DEF Filling, All
<1> QED
  BY <1>1, <1>2

\* A split that the chunk has room for.
LEMMA FillFits ==
  ASSUME NEW D, NEW X, NEW o, NEW S, NEW s, NEW size, NEW stuck, Ground(D, X, o, s, size),
         NEW acc, Filling(acc, D, X, o, S, s, size, stuck), NEW c, Solid(c, D), PlacesIn(c) # {}, Beyond(S, c, X),
         Len(acc.open) + Len(c) <= size
  PROVE  Filling([acc EXCEPT !.open = @ \o c], D, X, o, S \cup PlacesIn(c), s, size, stuck)
<1>0. IsDoc(D) /\ X \subseteq Letters(D) /\ o \in Nat /\ size \in Nat
  BY DEF Ground
<1>1. c \in Seq(Of(D)) /\ Unbroken(c, X) /\ Len(c) \in Nat
  <2>1. c \in Seq(Of(D)) /\ Unbroken(c, X)
    BY <1>0, SolidRuns
  <2> QED
    BY <2>1
<1>2. S \subseteq Nat /\ PlacesIn(c) \subseteq Nat /\ \A x \in S, y \in PlacesIn(c) : x < y
  <2>1. PlacesIn(c) \subseteq Letters(D) /\ Letters(D) \subseteq 1..Len(D)
    BY <1>0, <1>1, OfDoc
  <2> QED
    BY <2>1 DEF Beyond
<1>3. PICK cs \in Seq(Seq(Of(D))), d \in Seq(Of(D)) : cs = acc.done /\ d = acc.open /\ acc = [done |-> cs, open |-> d]
  BY DEF Filling
<1>4. PICK e : e = d \o c /\ e \in Seq(Of(D)) /\ Len(e) = Len(d) + Len(c) /\ PlacesIn(e) = PlacesIn(d) \cup PlacesIn(c)
  BY <1>1, JoinIs
<1>5. [acc EXCEPT !.open = @ \o c] = [done |-> cs, open |-> e]
  <2>1. acc \in [done : Seq(Seq(Of(D))), open : Seq(Of(D))] /\ acc.open \o c = e
    BY <1>3, <1>4 DEF Filling
  <2>2. [acc EXCEPT !.open = @ \o c] = [acc EXCEPT !.open = e]
    BY <2>1
  <2>3. [acc EXCEPT !.open = e] = [done |-> acc.done, open |-> e]
    BY <2>1
  <2> QED
    BY <1>3, <2>2, <2>3
<1>6. e # <<>>
  <2>1. PlacesIn(<<>>) = {}
    BY DEF PlacesIn, Letters
  <2> QED
    BY <1>4, <2>1
<1>7. Fits(e, s, size, o)
  <2>1. Len(e) <= size /\ Len(e) \in Nat
    BY <1>3, <1>4
  <2>2. ~ (Len(e) > size + o)
    BY <1>0, <2>1
  <2> QED
    BY <2>2 DEF Fits
<1>8. Sane(Append(cs, e), D, X, o, S \cup PlacesIn(c), s, size, stuck)
  <2>1. CASE d = <<>>
    <3>1. e = c
      BY <1>1, <1>4, <2>1
    <3>2. Sane(cs, D, X, o, S, s, size, stuck)
      BY <1>3, <2>1 DEF Filling, All
    <3>3. Keeps(<<c>>, D, X, o, PlacesIn(c)) /\ <<c>> \in Seq(Seq(Of(D)))
      BY <1>0, <1>1, KeepsOne DEF Keeps
    <3>4. Fit(<<c>>, s, size, o)
      <4>1. Len(<<c>>) = 1 /\ <<c>>[1] = c /\ 1..1 = {1}
        OBVIOUS
      <4> QED
        BY <1>7, <3>1, <4>1 DEF Fit
    <3>5. Sane(<<c>>, D, X, o, PlacesIn(c), s, size, stuck)
      BY <3>3, <3>4 DEF Sane
    <3>6. <<c>> # <<>>
      OBVIOUS
    <3>7. Sane(cs \o <<c>>, D, X, o, S \cup PlacesIn(c), s, size, stuck)
      BY <1>0, <1>2, <3>2, <3>5, <3>6, SaneJoin
    <3>8. Append(cs, c) = cs \o <<c>>
      BY <1>1, AppendIs
    <3> QED
      BY <3>1, <3>7, <3>8
  <2>2. CASE d # <<>>
    <3>1. Sane(Append(cs, d), D, X, o, S, s, size, stuck) /\ PlacesIn(d) \subseteq S
      BY <1>3, <2>2 DEF Filling, All
    <3>2. ASSUME Keeps(Append(cs, d), D, X, o, S) PROVE Unbroken(e, X) /\ (Len(cs) > 0 => Follows(cs[Len(cs)], e, o))
      <4>1. /\ Piece(d, X, S) /\ \A x \in X \cap S : \E y \in PlacesIn(d) : x <= y
            /\ Len(cs) > 0 => Follows(cs[Len(cs)], d, o) /\ PlacesIn(cs[Len(cs)]) \subseteq S
        BY <3>2, LastOf
      <4>2. Unbroken(e, X)
        <5>1. Stands(d, d, 0) /\ 0 + Len(d) = Len(d)
          BY DEF Stands
        <5>2. Unbroken(d \o c, X)
          BY <1>0, <4>1, <5>1, RunsOn
        <5> QED
          BY <1>4, <5>2
      <4>3. ASSUME Len(cs) > 0 PROVE Follows(cs[Len(cs)], e, o)
        <5>1. PICK b : b = cs[Len(cs)] /\ Follows(b, d, o) /\ PlacesIn(b) \subseteq S
          BY <4>1, <4>3
        <5>2. \A q \in Letters(d), y \in PlacesIn(b) : d[q].at <= y => q <= o
          BY <5>1 DEF Follows
        <5>3. Follows(b, d \o c, o)
          BY <1>0, <1>1, <5>1, <5>2, FollowsOn
        <5> QED
          BY <1>4, <5>1, <5>3
      <4> QED
        BY <4>2, <4>3
    <3>3. Sane(Append(cs, e), D, X, o, S \cup PlacesIn(e), s, size, stuck)
      <4>1. PlacesIn(d) \subseteq PlacesIn(e)
        BY <1>4
      <4> QED
        BY <1>0, <1>4, <1>7, <2>2, <3>1, <3>2, <4>1, SaneLast
    <3>4. S \cup PlacesIn(e) = S \cup PlacesIn(c)
      BY <1>4, <3>1
    <3> QED
      BY <3>3, <3>4
  <2> QED
    BY <2>1, <2>2
<1>9. PlacesIn(e) # {} /\ PlacesIn(e) \subseteq S \cup PlacesIn(c)
  BY <1>3, <1>4 DEF Filling
<1> QED
  BY <1>4, <1>5, <1>6, <1>8, <1>9 DEF Filling, All

\* A split that begins a chunk.
LEMMA FillNew ==
  ASSUME NEW D, NEW X, NEW o, NEW S, NEW s, NEW size, NEW stuck, Ground(D, X, o, s, size),
         NEW acc, Filling(acc, D, X, o, S, s, size, stuck), NEW c, Solid(c, D), PlacesIn(c) # {}, Beyond(S, c, X),
         Len(c) > size => s # <<>> /\ Uncut(c, s, size)
  PROVE  Filling([PutAway(acc) EXCEPT !.open = EndOf(acc.open, o) \o c], D, X, o, S \cup PlacesIn(c), s, size, stuck)
<1>0. IsDoc(D) /\ X \subseteq Letters(D) /\ o \in Nat /\ size \in Nat /\ s \in Seq(Signs) /\ S \subseteq Nat
  BY DEF Ground, Beyond
<1>1. c \in Seq(Of(D)) /\ Unbroken(c, X) /\ Len(c) \in Nat
  <2>1. c \in Seq(Of(D)) /\ Unbroken(c, X)
    BY <1>0, SolidRuns
  <2> QED
    BY <2>1
<1>2. PICK cs \in Seq(Seq(Of(D))), d \in Seq(Of(D)) :
        cs = acc.done /\ d = acc.open /\ PlacesIn(d) \subseteq S /\ (d = <<>> \/ PlacesIn(d) # {})
  BY DEF Filling
<1>3. PICK b, f : b \in Seq(Of(D)) /\ b = EndOf(d, o) /\ Len(b) <= o /\ Stands(b, d, f) /\ f + Len(b) = Len(d)
  BY <1>0, EndOfIs
<1>4. PICK e : e = b \o c /\ e \in Seq(Of(D)) /\ Len(e) = Len(b) + Len(c) /\ PlacesIn(e) = PlacesIn(b) \cup PlacesIn(c) /\ Stands(c, e, Len(b))
  BY <1>1, <1>3, JoinIs
<1>5. PICK p : /\ p = PutAway(acc) /\ p \in [done : Seq(Seq(Of(D))), open : Seq(Of(D))]
               /\ Sane(p.done, D, X, o, S, s, size, stuck)
               /\ d = <<>> => p.done = cs
               /\ d # <<>> => p.done = Append(cs, Strip(d))
  <2>1. Done(PutAway(acc), acc, D, X, o, S, s, size, stuck)
    BY <1>0, PutAwayIs
  <2> QED
    BY <1>2, <2>1 DEF Done
<1>6. [PutAway(acc) EXCEPT !.open = EndOf(acc.open, o) \o c] = [done |-> p.done, open |-> e]
  <2>1. EndOf(acc.open, o) \o c = e
    BY <1>2, <1>3, <1>4
  <2>2. [p EXCEPT !.open = e] = [done |-> p.done, open |-> e]
    BY <1>5
  <2> QED
    BY <1>5, <2>1, <2>2
<1>7. e # <<>> /\ PlacesIn(e) # {} /\ PlacesIn(e) \subseteq S \cup PlacesIn(c) /\ S \cup PlacesIn(e) = S \cup PlacesIn(c)
  <2>1. PlacesIn(<<>>) = {}
    BY DEF PlacesIn, Letters
  <2>2. PlacesIn(b) \subseteq PlacesIn(d)
    BY <1>3, StandingLetters
  <2> QED
    BY <1>2, <1>4, <2>1, <2>2
<1>8. Fits(e, s, size, o)
  <2>1. Len(e) > size + o => Len(c) > size
    <3>1. Len(b) \in Nat
      OBVIOUS
    <3> QED
      BY <1>0, <1>1, <1>3, <1>4, <3>1
  <2>2. Uncut(c, s, size) => Uncut(e, s, size)
    BY <1>0, <1>1, <1>4, UncutWithin
  <2> QED
    BY <2>1, <2>2, FitsIs
<1>9. p.done \in Seq(Seq(Of(D))) /\ Append(p.done, e) \in Seq(Seq(Of(D))) /\ Append(p.done, e) = p.done \o <<e>>
  <2>1. p.done \in Seq(Seq(Of(D)))
    BY <1>5
  <2>2. e \in Seq(Of(D))
    BY <1>4
  <2> QED
    BY <2>1, <2>2, AppendIs
<1>10. CASE Endless \in ToSet(p.done) /\ stuck
  <2>1. Endless \in ToSet(Append(p.done, e))
    BY <1>4, <1>9, <1>10, AppendIs
  <2> QED
    BY <1>4, <1>6, <1>7, <1>9, <1>10, <2>1 DEF Filling, All, Sane
<1>11. CASE Endless \in ToSet(All(acc)) /\ stuck
  <2>1. CASE d = <<>>
    BY <1>2, <1>5, <1>10, <1>11, <2>1 DEF All
  <2>2. CASE d # <<>>
    <3>1. Endless \in ToSet(cs)
      <4>1. Endless \in ToSet(Append(cs, d))
        BY <1>2, <1>11, <2>2 DEF All
      <4>2. Endless \in ToSet(cs) \/ Endless = d
        BY <4>1, AmongAppend
      <4> QED
        BY <2>2, <4>2 DEF Endless
    <3>2. Strip(d) \in Seq(Of(D))
      BY StripIs
    <3>3. Endless \in ToSet(p.done)
      BY <1>5, <2>2, <3>1, <3>2, AppendIs
    <3> QED
      BY <1>10, <1>11, <3>3
  <2> QED
    BY <2>1, <2>2
<1>12. CASE Keeps(All(acc), D, X, o, S) /\ Keeps(p.done, D, X, o, S) /\ Fit(p.done, s, size, o)
  <2>1. Unbroken(e, X)
    <3>1. CASE d = <<>>
      <4>1. b = <<>>
        <5>1. Len(b) \in Nat /\ f \in Nat /\ Len(d) = 0
          BY <1>3, <3>1 DEF Stands
        <5>2. Len(b) = 0
          BY <1>3, <5>1
        <5> QED
          BY <5>2, EmptySeq
      <4>2. e = c
        BY <1>1, <1>4, <4>1
      <4> QED
        BY <1>1, <4>2
    <3>2. CASE d # <<>>
      <4>1. Piece(d, X, S) /\ \A x \in X \cap S : \E y \in PlacesIn(d) : x <= y
        <5>1. Keeps(Append(cs, d), D, X, o, S)
          BY <1>2, <1>12, <3>2 DEF All
        <5>2. /\ Piece(d, X, S) /\ \A x \in X \cap S : \E y \in PlacesIn(d) : x <= y
              /\ Len(cs) > 0 => Follows(cs[Len(cs)], d, o) /\ PlacesIn(cs[Len(cs)]) \subseteq S
          BY <5>1, LastOf
        <5> QED
          BY <5>2
      <4>2. Unbroken(b \o c, X)
        BY <1>0, <1>3, <4>1, RunsOn
      <4> QED
        BY <1>4, <4>2
    <3> QED
      BY <3>1, <3>2
  <2>2. ASSUME Len(p.done) > 0 PROVE Follows(p.done[Len(p.done)], e, o)
    <3>1. PICK g : g = p.done[Len(p.done)] /\ PlacesIn(g) \subseteq S
      <4>1. Len(p.done) \in 1..Len(p.done)
        BY <1>9, <2>2
      <4> QED
        BY <1>12, <4>1 DEF Keeps, Piece
    <3>2. \A q \in Letters(b), y \in PlacesIn(g) : b[q].at <= y => q <= o
      <4>1. \A q \in Letters(b) : q \in 1..Len(b) /\ Len(b) \in Nat
        BY <1>3, LettersAre
      <4>2. \A q \in Letters(b) : q <= o
        BY <1>0, <1>3, <4>1
      <4> QED
        BY <4>2
    <3>3. Follows(g, b \o c, o)
      BY <1>0, <1>1, <1>3, <3>1, <3>2, FollowsOn
    <3> QED
      BY <1>4, <3>1, <3>3
  <2>3. Keeps(<<e>>, D, X, o, PlacesIn(e)) /\ Len(<<e>>) = 1 /\ <<e>>[1] = e
    BY <1>0, <1>4, <1>7, <2>1, KeepsOne
  <2>4. \A x \in X \cap S : \E y \in PlacesIn(e) : x <= y
    <3>1. PICK y : y \in PlacesIn(c) /\ y \in PlacesIn(e)
      BY <1>4
    <3>2. \A x \in S : x <= y
      <4>1. y \in Nat
        <5>1. PlacesIn(c) \subseteq Letters(D) /\ Letters(D) \subseteq 1..Len(D)
          BY <1>0, <1>1, OfDoc
        <5> QED
          BY <3>1, <5>1
      <4>2. \A x \in S : x < y /\ x \in Nat
        BY <1>0, <3>1 DEF Beyond
      <4> QED
        BY <4>1, <4>2
    <3> QED
      BY <3>1, <3>2
  <2>5. Keeps(p.done \o <<e>>, D, X, o, S \cup PlacesIn(e))
    <3>1. PICK l, r : l = p.done /\ r = <<e>>
      OBVIOUS
    <3>2. Len(r) > 0 /\ r[1] = e /\ r[Len(r)] = e
      BY <2>3, <3>1
    <3>3. Len(l) > 0 => Follows(l[Len(l)], r[1], o)
      BY <2>2, <3>1, <3>2
    <3>4. \A x \in X \cap S : \E y \in PlacesIn(r[Len(r)]) : x <= y
      BY <2>4, <3>2
    <3>5. Keeps(l, D, X, o, S) /\ Keeps(r, D, X, o, PlacesIn(e))
      BY <1>12, <2>3, <3>1
    <3>6. Keeps(l \o r, D, X, o, S \cup PlacesIn(e))
      BY <3>2, <3>3, <3>4, <3>5, KeepsJoin
    <3> QED
      BY <3>1, <3>6
  <2>6. Fit(<<e>>, s, size, o) /\ <<e>> \in Seq(Seq(Of(D)))
    <3>1. \A i \in 1..Len(<<e>>) : <<e>>[i] = e
      BY <2>3
    <3>2. <<e>> \in Seq(Seq(Of(D)))
      BY <1>4, AppendIs
    <3> QED
      BY <1>8, <3>1, <3>2 DEF Fit
  <2>7. Fit(p.done \o <<e>>, s, size, o)
    BY <1>9, <1>12, <2>6, FitJoin
  <2>8. Sane(Append(p.done, e), D, X, o, S \cup PlacesIn(c), s, size, stuck)
    BY <1>7, <1>9, <2>5, <2>7 DEF Sane
  <2> QED
    BY <1>4, <1>6, <1>7, <1>9, <2>8 DEF Filling, All
<1> QED
  BY <1>5, <1>10, <1>11, <1>12 DEF Filling, Sane

---------------------------------------------------------------------------
(* The loop over the splits. *)

LEMMA GreatestGone ==
  ASSUME NEW n \in Nat, n # 0, NEW s, s \subseteq 1..n, s # {}
  PROVE  Max(s) \in s /\ s \ {Max(s)} \subseteq 1..(n - 1)
<1>1. s \subseteq 0..n
  OBVIOUS
<1>2. Max(s) \in s /\ \A y \in s : Max(s) >= y
  BY <1>1, MaxIs
<1>3. ASSUME NEW y \in s \ {Max(s)} PROVE y \in 1..(n - 1)
  <2>1. y \in 1..n /\ Max(s) \in 1..n /\ Max(s) >= y /\ y # Max(s)
    BY <1>2
  <2> QED
    BY <2>1
<1> QED
  BY <1>2, <1>3

\* One split after the other.
FillTrace(v, N, splits, last, next, size, o) ==
  /\ v[0] = [done |-> <<>>, open |-> <<>>]
  /\ \A n \in 1..N : v[n] = Fill(v[n - 1], splits[n], last, next, size, o)

\* The loop over the splits, one step after the other.
LEMMA FillSteps ==
  ASSUME NEW text, NEW sep, sep # <<>>, ~ (Len(Strip(text)) < 2), NEW last, NEW next, NEW size, NEW o,
         NEW N \in Nat, NEW seq, seq = GoodSplits(text, sep), DOMAIN seq = 1..N
  PROVE  \E v : /\ FillTrace(v, N, seq, last, next, size, o)
                /\ Pieces(text, sep, last, next, size, o) = PutAway(v[N]).done
<1> PICK c : c = [done |-> <<>>, open |-> <<>>]
  OBVIOUS
<1> DEFINE Body(f, s) == IF s = {} THEN c ELSE Fill(f[s \ {Max(s)}], seq[Max(s)], last, next, size, o)
           iter == CHOOSE f : f = [s \in SUBSET (1..N) |-> Body(f, s)]
<1>1. Pieces(text, sep, last, next, size, o) = PutAway(iter[1..N]).done
  BY DEF Pieces, FoldLeft, MapThenFoldSet
<1>2. \A n \in 0..N : \E f : f = [s \in SUBSET (1..n) |-> Body(f, s)]
  <2> DEFINE Is(n) == \E f : f = [s \in SUBSET (1..n) |-> Body(f, s)]
             T == {n \in 0..N : ~Is(n)}
  <2> SUFFICES ASSUME T # {} PROVE FALSE
    OBVIOUS
  <2> HIDE DEF Is
  <2>1. PICK n \in T : \A m \in T : n <= m
    <3>1. T \subseteq Nat
      OBVIOUS
    <3> HIDE DEF T
    <3> QED
      BY <3>1, LeastOf
  <2>4. n \in 0..N /\ ~Is(n) /\ \A m \in 0..N : m < n => Is(m)
    BY <2>1
  <2>2. CASE n = 0
    <3> DEFINE h == [s \in SUBSET (1..0) |-> c]
    <3>1. h = [s \in SUBSET (1..0) |-> Body(h, s)]
      OBVIOUS
    <3> QED
      BY <2>2, <2>4, <3>1 DEF Is
  <2>3. CASE n # 0
    <3>1. n \in Nat /\ n - 1 \in 0..N /\ Is(n - 1)
      BY <2>3, <2>4
    <3>2. PICK g : g = [s \in SUBSET (1..(n - 1)) |-> Body(g, s)]
      BY <3>1 DEF Is
    <3> DEFINE h == [s \in SUBSET (1..n) |-> Body(g, s)]
    <3>3. ASSUME NEW s \in SUBSET (1..n)
          PROVE  Body(g, s) = Body(h, s)
      <4>1. CASE s = {}
        BY <4>1
      <4>2. CASE s # {}
        <5>1. PICK t : t = s \ {Max(s)}
          OBVIOUS
        <5>2. t \in SUBSET (1..(n - 1)) /\ t \in SUBSET (1..n)
          BY <2>3, <3>1, <4>2, <5>1, GreatestGone
        <5>3. h[t] = g[t]
          BY <3>2, <5>2
        <5> QED
          BY <4>2, <5>1, <5>3
      <4> QED
        BY <4>1, <4>2
    <3>4. h = [s \in SUBSET (1..n) |-> Body(h, s)]
      <4> HIDE DEF Body
      <4> QED
        BY <3>3
    <3> HIDE DEF h
    <3> QED
      BY <2>4, <3>4 DEF Is
  <2> QED
    BY <2>2, <2>3
<1>3. iter = [s \in SUBSET (1..N) |-> Body(iter, s)]
  <2> HIDE DEF Body
  <2>1. N \in 0..N
    OBVIOUS
  <2>2. \E f : f = [s \in SUBSET (1..N) |-> Body(f, s)]
    BY <1>2, <2>1
  <2> QED
    BY <2>2
<1> DEFINE v == [n \in 0..N |-> iter[1..n]]
<1>4. v[0] = c
  <2>1. 1..0 = {} /\ {} \in SUBSET (1..N)
    OBVIOUS
  <2> HIDE DEF iter
  <2> QED
    BY <1>3, <2>1
<1>5. ASSUME NEW n \in 1..N
      PROVE  v[n] = Fill(v[n - 1], seq[n], last, next, size, o)
  <2>1. 1..n \in SUBSET (1..N) /\ n \in 1..n /\ n \in 0..N /\ n - 1 \in 0..N
    <3> HIDE DEF Body, iter
    <3>1. n \in Nat /\ n <= N
      OBVIOUS
    <3> QED
      BY <3>1
  <2>2. Max(1..n) = n /\ (1..n) \ {n} = 1..(n - 1)
    BY DEF Max
  <2> HIDE DEF iter
  <2>3. iter[1..n] = Body(iter, 1..n)
    BY <1>3, <2>1
  <2> QED
    BY <2>1, <2>2, <2>3
<1>6. Pieces(text, sep, last, next, size, o) = PutAway(v[N]).done
  <2>1. N \in 0..N
    OBVIOUS
  <2> HIDE DEF iter
  <2> QED
    BY <1>1, <2>1
<1> HIDE DEF v
<1> QED
  BY <1>4, <1>5, <1>6 DEF FillTrace

Upto(ss, n) == UNION {PlacesIn(ss[i]) : i \in 1..n}

\* A text that may be cut.
Cuttable(u, D, X, Z) == Solid(u, D) /\ Fresh(u, D, Z) /\ (Len(Strip(u)) < 2 => PlacesIn(u) \cap X = {})

\* The next separator cuts each of them as it should.
Below(next, D, X, Z, o, s, size, stuck) ==
  \A u : Cuttable(u, D, X, Z) => Sane(next[u], D, X, o, PlacesIn(u), s, size, stuck)

LEMMA FillStep ==
  ASSUME NEW D, NEW X, NEW Z, NEW o, NEW S, NEW s, NEW size, NEW stuck, Ground(D, X, o, s, size),
         NEW acc, Filling(acc, D, X, o, S, s, size, stuck), NEW sep, sep # <<>>,
         NEW c, Sound(c, D, X, Z, sep, size), Beyond(S, c, X),
         NEW last \in BOOLEAN, last => s = sep, NEW next, ~last => Below(next, D, X, Z, o, s, size, stuck)
  PROVE  Filling(Fill(acc, c, last, next, size, o), D, X, o, S \cup PlacesIn(c), s, size, stuck)
<1>1. Solid(c, D) /\ PlacesIn(c) # {} /\ c \in Seq(Of(D))
  BY DEF Sound, Solid
<1>2. CASE Len(c) > size /\ ~last
  <2>1. Cuttable(c, D, X, Z)
    BY <1>2 DEF Cuttable, Sound
  <2>2. PICK below : below = next[c] /\ Sane(below, D, X, o, PlacesIn(c), s, size, stuck)
    BY <1>2, <2>1 DEF Below
  <2>3. Filling(TakeIn(acc, below), D, X, o, S \cup PlacesIn(c), s, size, stuck)
    BY <1>1, <2>2, FillLarge
  <2> QED
    BY <1>2, <2>2, <2>3 DEF Fill
<1>3. CASE ~ (Len(c) > size /\ ~last) /\ Len(acc.open) + Len(c) <= size
  <2>1. Filling([acc EXCEPT !.open = @ \o c], D, X, o, S \cup PlacesIn(c), s, size, stuck)
    BY <1>1, <1>3, FillFits
  <2> QED
    BY <1>3, <2>1 DEF Fill
<1>4. CASE ~ (Len(c) > size /\ ~last) /\ ~ (Len(acc.open) + Len(c) <= size)
  <2>1. Len(c) > size => s # <<>> /\ Uncut(c, s, size)
    BY <1>4 DEF Sound
  <2>2. Filling([PutAway(acc) EXCEPT !.open = EndOf(acc.open, o) \o c], D, X, o, S \cup PlacesIn(c), s, size, stuck)
    BY <1>1, <2>1, FillNew
  <2> QED
    BY <1>4, <2>2 DEF Fill
<1> QED
  BY <1>2, <1>3, <1>4

\* Filling chunks with all splits of a text.
LEMMA FillKeeps ==
  ASSUME NEW D, NEW X, NEW Z, NEW o, NEW s, NEW size, NEW stuck, Ground(D, X, o, s, size), NEW sep, sep # <<>>,
         NEW t, Solid(t, D), NEW ss, Divided(ss, D, X, Z, sep, size, PlacesIn(t)),
         NEW last \in BOOLEAN, last => s = sep, NEW next, ~last => Below(next, D, X, Z, o, s, size, stuck),
         NEW v, FillTrace(v, Len(ss), ss, last, next, size, o)
  PROVE  Sane(PutAway(v[Len(ss)]).done, D, X, o, PlacesIn(t), s, size, stuck)
<1>0. IsDoc(D) /\ X \subseteq Letters(D)
  BY DEF Ground
<1>1. PICK N \in Nat : N = Len(ss) /\ DOMAIN ss = 1..N /\ \A n \in 1..N : ss[n] \in Seq(Of(D))
  <2>1. ss \in Seq(Seq(Of(D)))
    BY DEF Divided
  <2>2. Len(ss) \in Nat /\ DOMAIN ss = 1..Len(ss)
    BY <2>1
  <2>3. \A n \in 1..Len(ss) : ss[n] \in Seq(Of(D))
    BY <2>1
  <2> QED
    BY <2>2, <2>3
<1>2. PlacesIn(t) \subseteq Nat
  <2>1. PlacesIn(t) \subseteq Letters(D) /\ Letters(D) \subseteq 1..Len(D)
    BY <1>0, OfDoc DEF Solid
  <2> QED
    BY <2>1
<1>3. \A n \in 0..N : Upto(ss, n) \subseteq PlacesIn(t)
  BY <1>1 DEF Upto, Divided
<1>4. ASSUME NEW n \in 1..N PROVE Beyond(Upto(ss, n - 1), ss[n], X) /\ Upto(ss, n) = Upto(ss, n - 1) \cup PlacesIn(ss[n])
  <2>1. Upto(ss, n - 1) \subseteq Nat
    BY <1>2, <1>3
  <2>2. ASSUME NEW x \in Upto(ss, n - 1), NEW y \in PlacesIn(ss[n]) PROVE x < y
    <3>1. PICK i \in 1..(n - 1) : x \in PlacesIn(ss[i])
      BY DEF Upto
    <3>2. i \in 1..N /\ i < n
      BY <1>1
    <3> QED
      BY <1>1, <3>1, <3>2 DEF Divided
  <2>3. ASSUME NEW x \in X, NEW y \in Upto(ss, n - 1), NEW z \in PlacesIn(ss[n]), y < x, x < z
        PROVE  x \in Upto(ss, n - 1) \cup PlacesIn(ss[n])
    <3>1. y \in PlacesIn(t) /\ z \in PlacesIn(t)
      <4>1. n - 1 \in 0..N
        BY <1>1
      <4> QED
        BY <1>1, <1>3, <4>1 DEF Divided
    <3>2. Unbroken(t, X)
      BY <1>0, SolidRuns
    <3>3. x \in PlacesIn(t)
      BY <2>3, <3>1, <3>2 DEF Unbroken
    <3>4. PICK k \in 1..N : x \in PlacesIn(ss[k])
      BY <1>1, <3>3 DEF Divided
    <3>5. ~ (n < k)
      <4>1. ASSUME n < k PROVE FALSE
        <5>1. z < x
          BY <1>1, <3>4, <4>1 DEF Divided
        <5>2. z \in Nat /\ x \in Nat
          BY <1>2, <3>1, <3>3
        <5> QED
          BY <2>3, <5>1, <5>2
      <4> QED
        BY <4>1
    <3>6. k = n \/ k \in 1..(n - 1)
      BY <3>5
    <3> QED
      BY <3>4, <3>6 DEF Upto
  <2>4. Upto(ss, n) = Upto(ss, n - 1) \cup PlacesIn(ss[n])
    <3>1. 1..n = (1..(n - 1)) \cup {n}
      OBVIOUS
    <3> QED
      BY <3>1 DEF Upto
  <2> QED
    BY <2>1, <2>2, <2>3, <2>4 DEF Beyond
<1> DEFINE Is(n) == Filling(v[n], D, X, o, Upto(ss, n), s, size, stuck)
           T == {n \in 0..N : ~Is(n)}
<1>5. Is(0)
  <2>1. v[0] = [done |-> <<>>, open |-> <<>>]
    BY <1>1 DEF FillTrace
  <2>2. Upto(ss, 0) = {}
    BY DEF Upto
  <2>3. Keeps(<<>>, D, X, o, {}) /\ Fit(<<>>, s, size, o) /\ <<>> \in Seq(Seq(Of(D)))
    BY KeepsNone DEF Fit
  <2>4. <<>> \in Seq(Of(D)) /\ PlacesIn(<<>>) = {}
    BY DEF PlacesIn, Letters
  <2>5. PICK acc : acc = v[0]
    OBVIOUS
  <2>6. acc.done = <<>> /\ acc.open = <<>> /\ All(acc) = <<>>
    BY <2>1, <2>5 DEF All
  <2>7. acc \in [done : Seq(Seq(Of(D))), open : Seq(Of(D))]
    BY <2>1, <2>3, <2>4, <2>5
  <2>8. Sane(<<>>, D, X, o, {}, s, size, stuck)
    BY <2>3 DEF Sane
  <2>9. Filling(acc, D, X, o, {}, s, size, stuck)
    BY <2>3, <2>4, <2>6, <2>7, <2>8 DEF Filling
  <2> QED
    BY <2>2, <2>5, <2>9
<1>6. ASSUME NEW n \in 1..N, Is(n - 1) PROVE Is(n)
  <2>1. PICK acc, c, S : acc = v[n - 1] /\ c = ss[n] /\ S = Upto(ss, n - 1)
    OBVIOUS
  <2>2. v[n] = Fill(acc, c, last, next, size, o)
    BY <1>1, <2>1 DEF FillTrace
  <2>3. Sound(c, D, X, Z, sep, size)
    BY <1>1, <2>1 DEF Divided
  <2>4. Filling(acc, D, X, o, S, s, size, stuck) /\ Beyond(S, c, X)
    BY <1>4, <1>6, <2>1
  <2>5. Filling(Fill(acc, c, last, next, size, o), D, X, o, S \cup PlacesIn(c), s, size, stuck)
    BY <2>3, <2>4, FillStep
  <2> QED
    BY <1>4, <2>1, <2>2, <2>5
<1>7. Is(N)
  <2> HIDE DEF Is
  <2> SUFFICES ASSUME T # {} PROVE FALSE
    BY <1>1
  <2>1. PICK n \in T : \A y \in T : n <= y
    <3>1. T \subseteq Nat
      OBVIOUS
    <3> HIDE DEF T
    <3> QED
      BY <3>1, LeastOf
  <2>2. n \in 0..N /\ ~Is(n)
    OBVIOUS
  <2>3. n \in 1..N /\ n - 1 \in 0..N /\ ~ (n <= n - 1)
    BY <1>5, <2>2
  <2>4. Is(n - 1)
    BY <2>1, <2>3
  <2> QED
    BY <1>6, <2>2, <2>3, <2>4
<1>8. PICK acc, S : acc = v[N] /\ S = Upto(ss, N) /\ Filling(acc, D, X, o, S, s, size, stuck) /\ S \subseteq PlacesIn(t)
  <2>1. N \in 0..N
    OBVIOUS
  <2> QED
    BY <1>3, <1>7, <2>1
<1>9. Sane(PutAway(acc).done, D, X, o, S, s, size, stuck)
  <2>1. S \subseteq Nat
    BY <1>2, <1>8
  <2>2. Done(PutAway(acc), acc, D, X, o, S, s, size, stuck)
    BY <1>8, <2>1, PutAwayIs
  <2> QED
    BY <2>2 DEF Done
<1>10. X \cap PlacesIn(t) \subseteq S
  BY <1>1, <1>8 DEF Divided, Upto
<1>11. Sane(PutAway(acc).done, D, X, o, PlacesIn(t), s, size, stuck)
  BY <1>8, <1>9, <1>10, SaneMore
<1> QED
  BY <1>1, <1>8, <1>11

---------------------------------------------------------------------------
(* Cutting. *)

\* One separator keeps a text if the next ones keep what is too large.
LEMMA PiecesKeep ==
  ASSUME NEW D, NEW X, NEW Z, NEW o, NEW s, NEW size, NEW stuck, Ground(D, X, o, s, size), size > 1,
         NEW t, Cuttable(t, D, X, Z), NEW sep \in Seq(Signs), Drops(sep, D, X, Z, size), sep = <<>> /\ size <= o => stuck,
         NEW last \in BOOLEAN, last => s = sep, NEW next, ~last => Below(next, D, X, Z, o, s, size, stuck)
  PROVE  Sane(Pieces(t, sep, last, next, size, o), D, X, o, PlacesIn(t), s, size, stuck)
<1>0. /\ IsDoc(D) /\ X \subseteq Letters(D) /\ o \in Nat /\ s \in Seq(Signs) /\ size \in Nat /\ size > 0
      /\ Solid(t, D) /\ Fresh(t, D, Z) /\ t \in Seq(Of(D)) /\ Len(t) \in Nat
  BY LettersAre DEF Ground, Cuttable, Solid
<1>1. CASE Len(Strip(t)) < 2
  <2>1. Pieces(t, sep, last, next, size, o) = <<>>
    BY <1>1 DEF Pieces
  <2>2. Keeps(<<>>, D, X, o, PlacesIn(t)) /\ Fit(<<>>, s, size, o) /\ <<>> \in Seq(Seq(Of(D)))
    BY <1>1, KeepsNone DEF Fit, Cuttable
  <2> QED
    BY <2>1, <2>2 DEF Sane
<1>2. CASE ~ (Len(Strip(t)) < 2) /\ sep = <<>>
  <2>1. Pieces(t, sep, last, next, size, o) = Windows(t, size, o)
    BY <1>2 DEF Pieces
  <2>2. Len(t) > 0
    <3>1. PICK f : Stands(Strip(t), t, f)
      BY <1>0, StripIs
    <3> QED
      BY <1>2, <3>1 DEF Stands
  <2>3. size <= o => stuck
    BY <1>2
  <2>4. Sane(Windows(t, size, o), D, X, o, PlacesIn(t), s, size, stuck)
    BY <1>0, <2>2, <2>3, WindowsKeep
  <2> QED
    BY <2>1, <2>4
<1>3. CASE ~ (Len(Strip(t)) < 2) /\ sep # <<>>
  <2>1. Splitting(t, D, X, Z, sep, size)
    BY <1>0, <1>3 DEF Splitting
  <2>2. PICK ss : ss = GoodSplits(t, sep)
    OBVIOUS
  <2>3. Span(t, 1, Len(t)) = PlacesIn(t)
    <3>1. \A k \in Letters(t) : 1 <= k /\ k <= Len(t)
      BY <1>0, LettersAre
    <3> QED
      BY <3>1 DEF Span, PlacesIn
  <2>4. Divided(ss, D, X, Z, sep, size, PlacesIn(t))
    BY <2>1, <2>2, <2>3, GoodSplitsAre
  <2>5. PICK N \in Nat : N = Len(ss) /\ DOMAIN ss = 1..N
    <3>1. ss \in Seq(Seq(Of(D)))
      BY <2>4 DEF Divided
    <3> QED
      BY <3>1
  <2>6. PICK v : /\ FillTrace(v, N, ss, last, next, size, o)
                 /\ Pieces(t, sep, last, next, size, o) = PutAway(v[N]).done
    BY <1>3, <2>2, <2>5, FillSteps
  <2>7. Sane(PutAway(v[Len(ss)]).done, D, X, o, PlacesIn(t), s, size, stuck)
    <3>1. FillTrace(v, Len(ss), ss, last, next, size, o)
      BY <2>5, <2>6
    <3> QED
      BY <1>0, <1>3, <2>4, <3>1, FillKeeps
  <2> QED
    BY <2>5, <2>6, <2>7
<1> QED
  BY <1>1, <1>2, <1>3
---------------------------------------------------------------------------
(* Lists, one after the other. *)

FlatTrace(v, N, ws) ==
  /\ v[0] = <<>> /\ \A n \in 1..N : v[n] = v[n - 1] \o ws[n]
  /\ FlattenSeq(ws) = v[N]

\* FlattenSeq puts one list after the other.
LEMMA FlattenSteps ==
  ASSUME NEW X, NEW N \in Nat, NEW ws \in Seq(Seq(X)), Len(ws) = N
  PROVE  \E v : FlatTrace(v, N, ws)
<1>0. DOMAIN ws = 1..N /\ \A n \in 1..N : ws[n] \in Seq(X)
  BY LenProperties
<1>1. CASE N = 0
  <2> DEFINE v == [n \in 0..0 |-> <<>>]
  <2>1. FlattenSeq(ws) = <<>>
    BY <1>1, EmptySeq DEF FlattenSeq
  <2>2. v[0] = <<>>
    OBVIOUS
  <2> HIDE DEF v
  <2> QED
    BY <1>1, <2>1, <2>2 DEF FlatTrace
<1>2. CASE N # 0
  <2> DEFINE Body(f, i) == IF i = 1 THEN ws[i] ELSE f[i - 1] \o ws[i]
             flat == CHOOSE f : f = [i \in 1..Len(ws) |-> Body(f, i)]
  <2>1. FlattenSeq(ws) = flat[N]
    BY <1>2 DEF FlattenSeq
  <2>2. \A n \in 1..N : \E f : f = [i \in 1..n |-> Body(f, i)]
    <3> DEFINE Is(n) == \E f : f = [i \in 1..n |-> Body(f, i)]
               T == {n \in 1..N : ~Is(n)}
    <3> SUFFICES ASSUME T # {} PROVE FALSE
      BY ZenonT(30)
    <3> HIDE DEF Is
    <3>1. PICK n \in T : \A m \in T : n <= m
      <4>1. T \subseteq Nat
        OBVIOUS
      <4> HIDE DEF T
      <4> QED
        BY <4>1, LeastOf
    <3>2. n \in 1..N /\ ~Is(n) /\ \A m \in 1..N : m < n => Is(m)
      BY <3>1
    <3>3. CASE n = 1
      <4> DEFINE h == [i \in 1..1 |-> ws[1]]
      <4>1. h = [i \in 1..1 |-> Body(h, i)]
        OBVIOUS
      <4> QED
        BY <3>2, <3>3, <4>1 DEF Is
    <3>4. CASE n # 1
      <4>1. n \in Nat /\ n - 1 \in 1..N /\ Is(n - 1)
        BY <3>2, <3>4
      <4>2. PICK g : g = [i \in 1..(n - 1) |-> Body(g, i)]
        BY <4>1 DEF Is
      <4> DEFINE h == [i \in 1..n |-> Body(g, i)]
      <4>3. ASSUME NEW i \in 1..n PROVE Body(g, i) = Body(h, i)
        <5>1. CASE i = 1
          BY <5>1
        <5>2. CASE i # 1
          <6>1. i - 1 \in 1..(n - 1) /\ i - 1 \in 1..n
            BY <4>1, <5>2
          <6>2. h[i - 1] = g[i - 1]
            BY <4>2, <6>1
          <6> QED
            BY <5>2, <6>2
        <5> QED
          BY <5>1, <5>2
      <4>4. h = [i \in 1..n |-> Body(h, i)]
        <5> HIDE DEF Body
        <5> QED
          BY <4>3
      <4> HIDE DEF h
      <4> QED
        BY <3>2, <4>4 DEF Is
    <3> QED
      BY <3>3, <3>4
  <2>3. flat = [i \in 1..N |-> Body(flat, i)]
    <3> HIDE DEF Body
    <3>1. N \in 1..N
      BY <1>2
    <3>2. \E f : f = [i \in 1..N |-> Body(f, i)]
      BY <2>2, <3>1
    <3> QED
      BY <3>2
  <2> DEFINE v == [n \in 0..N |-> IF n = 0 THEN <<>> ELSE flat[n]]
  <2> HIDE DEF flat
  <2>4. v[0] = <<>> /\ v[N] = FlattenSeq(ws)
    BY <1>2, <2>1
  <2>5. ASSUME NEW n \in 1..N PROVE v[n] = v[n - 1] \o ws[n]
    <3>0. n \in 0..N /\ n - 1 \in 0..N /\ n # 0
      OBVIOUS
    <3>4. flat[n] = Body(flat, n)
      <4> HIDE DEF Body
      <4> QED
        BY <2>3
    <3>1. n \in 0..N /\ n - 1 \in 0..N /\ n # 0 /\ flat[n] = Body(flat, n)
      BY <3>0, <3>4
    <3>2. CASE n = 1
      <4>1. <<>> \o ws[n] = ws[n]
        BY <1>0, ConcatEmptySeq
      <4>2. v[n] = ws[n] /\ v[n - 1] = <<>>
        BY <3>1, <3>2
      <4> QED
        BY <4>1, <4>2
    <3>3. CASE n # 1
      BY <3>1, <3>3
    <3> QED
      BY <3>2, <3>3
  <2> HIDE DEF v
  <2> QED
    BY <2>4, <2>5 DEF FlatTrace
<1> QED
  BY <1>1, <1>2

\* The chunks of every text with each separator and those that follow it.
PiecesOf(pieces, seps, size, o) ==
  \A n \in 1..Len(seps) : \A t \in Seq(Chars) :
    pieces[n][t] = Pieces(t, seps[n], n = Len(seps), IF n = Len(seps) THEN <<>> ELSE pieces[n + 1], size, o)

CutBy(pieces, text, seps, size, o) ==
  PiecesOf(pieces, seps, size, o) /\ Cut(text, seps, size, o) = pieces[1][WithPlaces(text)]

\* Cut is the recursion over the separators.
LEMMA CutIs ==
  ASSUME NEW seps \in Seq(Seq(Signs)), NEW size, NEW o, NEW text
  PROVE  \E pieces : CutBy(pieces, text, seps, size, o)
<1> DEFINE Body(f, n) == [t \in Seq(Chars) |->
                            Pieces(t, seps[n], n = Len(seps), IF n = Len(seps) THEN <<>> ELSE f[n + 1], size, o)]
           pieces == CHOOSE f : f = [n \in DOMAIN seps |-> Body(f, n)]
<1>1. Cut(text, seps, size, o) = pieces[1][WithPlaces(text)]
  BY DEF Cut
<1>2. PICK M \in Nat : M = Len(seps) /\ DOMAIN seps = 1..M
  <2>1. Len(seps) \in Nat /\ DOMAIN seps = 1..Len(seps)
    BY LenProperties
  <2> QED
    BY <2>1
<1>3. \A m \in 0..M : \E f : f = [n \in (M + 1 - m)..M |-> Body(f, n)]
  <2> DEFINE Is(m) == \E f : f = [n \in (M + 1 - m)..M |-> Body(f, n)]
             T == {m \in 0..M : ~Is(m)}
  <2> SUFFICES ASSUME T # {} PROVE FALSE
    OBVIOUS
  <2> HIDE DEF Is
  <2>1. PICK m \in T : \A y \in T : m <= y
    <3>1. T \subseteq Nat
      OBVIOUS
    <3> HIDE DEF T
    <3> QED
      BY <3>1, LeastOf
  <2>2. m \in 0..M /\ ~Is(m) /\ \A y \in 0..M : y < m => Is(y)
    BY <2>1
  <2>3. CASE m = 0
    <3> DEFINE h == [n \in {} |-> n]
    <3>1. (M + 1 - m)..M = {}
      BY <2>3
    <3>2. h = [n \in (M + 1 - m)..M |-> Body(h, n)]
      BY <3>1
    <3> HIDE DEF h
    <3> QED
      BY <2>2, <3>2 DEF Is
  <2>4. CASE m # 0
    <3>1. m - 1 \in 0..M /\ m - 1 < m /\ M + 1 - (m - 1) = M + 2 - m
      BY <2>2, <2>4
    <3>2. PICK g : g = [n \in (M + 2 - m)..M |-> Body(g, n)]
      <4>1. Is(m - 1)
        BY <2>2, <3>1
      <4> HIDE DEF Body
      <4>2. \E g : g = [n \in (M + 1 - (m - 1))..M |-> Body(g, n)]
        BY <4>1 DEF Is
      <4> QED
        BY <3>1, <4>2
    <3> DEFINE h == [n \in (M + 1 - m)..M |-> Body(g, n)]
    <3>3. ASSUME NEW n \in (M + 1 - m)..M PROVE Body(g, n) = Body(h, n)
      <4>1. CASE n = Len(seps)
        BY <4>1
      <4>2. CASE n # Len(seps)
        <5>1. n + 1 \in (M + 2 - m)..M /\ n + 1 \in (M + 1 - m)..M
          BY <1>2, <2>2, <4>2
        <5>2. g[n + 1] = Body(g, n + 1) /\ h[n + 1] = Body(g, n + 1)
          <6> HIDE DEF Body
          <6> QED
            BY <3>2, <5>1
        <5>3. g[n + 1] = h[n + 1]
          BY <5>2
        <5> HIDE DEF h
        <5> QED
          BY <4>2, <5>3
      <4> QED
        BY <4>1, <4>2
    <3>4. h = [n \in (M + 1 - m)..M |-> Body(h, n)]
      <4> HIDE DEF Body
      <4> QED
        BY <3>3
    <3> HIDE DEF h
    <3> QED
      BY <2>2, <3>4 DEF Is
  <2> QED
    BY <2>3, <2>4
<1>4. pieces = [n \in DOMAIN seps |-> Body(pieces, n)]
  <2> HIDE DEF Body
  <2>1. M \in 0..M /\ M + 1 - M = 1
    OBVIOUS
  <2>2. \E f : f = [n \in 1..M |-> Body(f, n)]
    BY <1>3, <2>1
  <2> QED
    BY <1>2, <2>2
<1> HIDE DEF pieces
<1>5. ASSUME NEW n \in 1..M, NEW t \in Seq(Chars)
      PROVE  pieces[n][t] = Pieces(t, seps[n], n = Len(seps), IF n = Len(seps) THEN <<>> ELSE pieces[n + 1], size, o)
  <2>1. pieces[n] = Body(pieces, n)
    <3> HIDE DEF Body
    <3> QED
      BY <1>2, <1>4
  <2> QED
    BY <2>1
<1>6. PiecesOf(pieces, seps, size, o)
  BY <1>2, <1>5 DEF PiecesOf
<1> QED
  BY <1>1, <1>6 DEF CutBy

\* Separators that drop what may be dropped, of which only the last one may leave a wide part.
Dividers(seps, D, X, Z, size, o, stuck) ==
  /\ seps \in Seq(Seq(Signs)) /\ seps # <<>>
  /\ \A i \in 1..Len(seps) : Drops(seps[i], D, X, Z, size) /\ (seps[i] = <<>> /\ size <= o => stuck)

\* From the last separator back to the first: Cut keeps each text that may be cut.
LEMMA CutKeeps ==
  ASSUME NEW text, NEW D, D = WithPlaces(text), NEW X, NEW Z, NEW o, NEW size, NEW stuck,
         NEW seps, Dividers(seps, D, X, Z, size, o, stuck), Ground(D, X, o, Last(seps), size), size > 1,
         Cuttable(D, D, X, Z)
  PROVE  Sane(Cut(text, seps, size, o), D, X, o, PlacesIn(D), Last(seps), size, stuck)
<1>1. seps \in Seq(Seq(Signs)) /\ seps # <<>>
  BY DEF Dividers
<1>2. PICK M \in Nat : M = Len(seps) /\ M >= 1
  <2>1. Len(seps) \in Nat /\ Len(seps) # 0
    BY <1>1
  <2> QED
    BY <2>1
<1>3. \A n \in 1..M : seps[n] \in Seq(Signs) /\ Drops(seps[n], D, X, Z, size) /\ (seps[n] = <<>> /\ size <= o => stuck)
  BY <1>1, <1>2 DEF Dividers
<1>4. PICK s : s = Last(seps) /\ s = seps[M]
  BY <1>2 DEF Last
<1>5. PICK pieces : PiecesOf(pieces, seps, size, o) /\ Cut(text, seps, size, o) = pieces[1][D]
  <2>1. \E pieces : CutBy(pieces, text, seps, size, o)
    BY <1>1, CutIs
  <2> QED
    BY <2>1 DEF CutBy
<1> DEFINE Is(n) == Below(pieces[n], D, X, Z, o, s, size, stuck)
<1>6. ASSUME NEW n \in 1..M, n # M => Is(n + 1) PROVE Is(n)
  <2> SUFFICES ASSUME NEW t, Cuttable(t, D, X, Z) PROVE Sane(pieces[n][t], D, X, o, PlacesIn(t), s, size, stuck)
    BY DEF Below
  <2>1. t \in Seq(Chars)
    <3>1. D \in Seq(Chars)
      BY DEF Ground, IsDoc
    <3>2. Of(D) \subseteq Chars
      BY <3>1 DEF Of
    <3>3. t \in Seq(Of(D))
      BY DEF Cuttable, Solid
    <3> QED
      BY <3>2, <3>3
  <2>2. PICK next : next = IF n = M THEN <<>> ELSE pieces[n + 1]
    OBVIOUS
  <2>3. pieces[n][t] = Pieces(t, seps[n], n = M, next, size, o)
    BY <1>2, <1>5, <2>1, <2>2 DEF PiecesOf
  <2>4. PICK last \in BOOLEAN : last = (n = M)
    OBVIOUS
  <2>5. last => seps[n] = s
    BY <1>4, <2>4
  <2>6. ~last => Below(next, D, X, Z, o, s, size, stuck)
    BY <1>6, <2>2, <2>4
  <2>7. PICK sep \in Seq(Signs) : sep = seps[n] /\ Drops(sep, D, X, Z, size) /\ (sep = <<>> /\ size <= o => stuck)
    BY <1>3
  <2>8. Ground(D, X, o, s, size)
    BY <1>4
  <2>9. PICK ps : ps = Pieces(t, sep, last, next, size, o)
    OBVIOUS
  <2>10. Sane(ps, D, X, o, PlacesIn(t), s, size, stuck)
    BY <2>5, <2>6, <2>7, <2>8, <2>9, PiecesKeep
  <2> QED
    BY <2>3, <2>4, <2>7, <2>9, <2>10
<1>7. Is(1)
  <2> DEFINE T == {m \in 0..(M - 1) : ~Is(M - m)}
  <2> HIDE DEF Is
  <2> SUFFICES ASSUME T # {} PROVE FALSE
    <3>1. M - 1 \in 0..(M - 1) /\ M - (M - 1) = 1
      BY <1>2
    <3> QED
      BY <3>1
  <2>1. PICK m \in T : \A y \in T : m <= y
    <3>1. T \subseteq Nat
      OBVIOUS
    <3> HIDE DEF T
    <3> QED
      BY <3>1, LeastOf
  <2>2. m \in 0..(M - 1) /\ ~Is(M - m)
    BY <2>1
  <2>3. PICK n \in 1..M : n = M - m
    BY <2>2
  <2>4. n # M /\ ~Is(n + 1)
    BY <1>6, <2>2, <2>3
  <2>5. m - 1 \in 0..(M - 1) /\ ~ (m <= m - 1) /\ M - (m - 1) = n + 1
    BY <2>2, <2>3, <2>4
  <2>6. m - 1 \in T
    BY <2>4, <2>5
  <2> QED
    BY <2>1, <2>5, <2>6
<1> QED
  BY <1>4, <1>5, <1>7 DEF Below

\* A text of a single character has no chunks.
LEMMA CutOfLittle ==
  ASSUME NEW text, NEW D, D = WithPlaces(text), D \in Seq(Chars), Len(Strip(D)) < 2, NEW size, NEW o,
         NEW seps, seps \in Seq(Seq(Signs)), seps # <<>>
  PROVE  Cut(text, seps, size, o) = <<>>
<1>1. PICK pieces : PiecesOf(pieces, seps, size, o) /\ Cut(text, seps, size, o) = pieces[1][D]
  <2>1. \E pieces : CutBy(pieces, text, seps, size, o)
    BY CutIs
  <2> QED
    BY <2>1 DEF CutBy
<1>2. 1 \in 1..Len(seps)
  <2>1. Len(seps) \in Nat /\ Len(seps) # 0
    OBVIOUS
  <2> QED
    BY <2>1
<1>3. pieces[1][D]
        = Pieces(D, seps[1], 1 = Len(seps), IF 1 = Len(seps) THEN <<>> ELSE pieces[1 + 1], size, o)
  BY <1>1, <1>2 DEF PiecesOf
<1> QED
  BY <1>1, <1>3 DEF Pieces

---------------------------------------------------------------------------
(* The whole of a text. *)

\* A text that is to be cut has the letters and the signs of the text.
LEMMA NumberedIs ==
  ASSUME NEW text \in Seq(Chars), NEW D, D = WithPlaces(text)
  PROVE  /\ IsDoc(D) /\ Letters(D) = Letters(text) /\ DOMAIN D = DOMAIN text
         /\ \A i \in DOMAIN text : D[i].sign = text[i].sign
         /\ PlacesIn(D) = Letters(D) /\ Len(Strip(D)) = Len(Strip(text))
<1>1. PICK n \in Nat : n = Len(text) /\ DOMAIN text = 1..n /\ \A i \in 1..n : text[i] \in Chars
  <2>1. Len(text) \in Nat /\ DOMAIN text = 1..Len(text)
    OBVIOUS
  <2>2. \A i \in 1..Len(text) : text[i] \in Chars
    OBVIOUS
  <2> QED
    BY <2>1, <2>2
<1>2. D = [i \in 1..n |-> [sign |-> text[i].sign, at |-> i]]
  BY <1>1 DEF WithPlaces
<1>3. ASSUME NEW i \in 1..n PROVE D[i] \in Chars /\ D[i].at = i /\ D[i].sign = text[i].sign
  <2>1. text[i].sign \in Signs
    BY <1>1 DEF Chars
  <2> QED
    BY <1>2, <2>1 DEF Chars
<1>4. D \in Seq(Chars) /\ DOMAIN D = 1..n /\ Len(D) = n
  <2>1. D \in [1..n -> Chars]
    BY <1>2, <1>3
  <2> QED
    BY <2>1
<1>5. Letters(D) = Letters(text)
  BY <1>1, <1>3, <1>4 DEF Letters
<1>6. PlacesIn(D) = Letters(D)
  BY <1>3, <1>4 DEF PlacesIn, Letters
<1>7. Len(Strip(D)) = Len(Strip(text))
  <2>1. CASE Letters(text) = {}
    BY <1>5, <2>1 DEF Strip
  <2>2. CASE Letters(text) # {}
    <3>1. PICK L : L = Letters(text)
      OBVIOUS
    <3>2. L \subseteq 1..n /\ L # {}
      BY <1>1, <2>2, <3>1 DEF Letters
    <3>3. PICK a \in 1..n, z \in 1..n : a = Min(L) /\ z = Max(L)
      <4>1. Min(L) \in L
        <5>1. L \subseteq Nat
          BY <3>2
        <5> QED
          BY <3>2, <5>1, MinIs
      <4>2. Max(L) \in L
        <5>1. L \subseteq 0..n
          BY <3>2
        <5> QED
          BY <3>2, <5>1, MaxIs
      <4> QED
        BY <3>2, <4>1, <4>2
    <3>4. Strip(D) = SubSeq(D, a, z) /\ Strip(text) = SubSeq(text, a, z)
      BY <1>5, <2>2, <3>1, <3>3 DEF Strip
    <3>5. Len(SubSeq(D, a, z)) = Len(SubSeq(text, a, z))
      BY <1>4
    <3> QED
      BY <3>4, <3>5
  <2> QED
    BY <2>1, <2>2
<1> QED
  BY <1>1, <1>3, <1>4, <1>5, <1>6, <1>7 DEF IsDoc

\* A separator has the same copies in both.
LEMMA SameOccurrences ==
  ASSUME NEW text, NEW D, Letters(D) = Letters(text), DOMAIN D = DOMAIN text,
         \A i \in DOMAIN text : D[i].sign = text[i].sign, NEW s
  PROVE  Occurrences(D, s) = Occurrences(text, s)
<1> DEFINE signs == {k \in DOMAIN s : ~Blank(s[k])}
           Placed(t, f) ==
             /\ \A k \in signs : t[f[k]].sign = s[k]
             /\ \A j, k \in signs : j < k => f[j] < f[k]
             /\ \A j, k \in signs, x \in Letters(t) : f[j] <= x /\ x <= f[k] => x \in Range(f)
<1>1. ASSUME NEW f \in [signs -> Letters(text)] PROVE Placed(D, f) <=> Placed(text, f)
  <2>1. \A k \in signs : f[k] \in DOMAIN text
    BY DEF Letters
  <2>2. \A k \in signs : D[f[k]].sign = text[f[k]].sign
    BY <2>1
  <2> QED
    BY <2>2
<1>2. {f \in [signs -> Letters(D)] : Placed(D, f)} = {f \in [signs -> Letters(text)] : Placed(text, f)}
  <2> HIDE DEF Placed
  <2> QED
    BY <1>1
<1>3. /\ Occurrences(D, s) = {Range(place) : place \in {f \in [signs -> Letters(D)] : Placed(D, f)}}
      /\ Occurrences(text, s) = {Range(place) : place \in {f \in [signs -> Letters(text)] : Placed(text, f)}}
  BY DEF Occurrences
<1> QED
  BY <1>2, <1>3

LEMMA SameLoose ==
  ASSUME NEW text, NEW D, Letters(D) = Letters(text), DOMAIN D = DOMAIN text,
         \A i \in DOMAIN text : D[i].sign = text[i].sign, NEW seps, NEW size
  PROVE  Loose(D, seps, size) = Loose(text, seps, size)
<1>1. {Occurrences(D, s) : s \in ToSet(seps)} = {Occurrences(text, s) : s \in ToSet(seps)}
  BY SameOccurrences
<1> QED
  BY <1>1 DEF Loose, EndingNothing, BeforeBlanks

\* What a separator of the list drops may be dropped.
LEMMA DropsIs ==
  ASSUME NEW D, NEW seps, NEW size, NEW X, X = Letters(D) \ Loose(D, seps, size),
         NEW Z, Z = UNION UNION {Occurrences(D, s) : s \in ToSet(seps)}, NEW sep \in ToSet(seps)
  PROVE  Drops(sep, D, X, Z, size)
<1> DEFINE copies == UNION {Occurrences(D, s) : s \in ToSet(seps)}
           endsNothing(c) == \A x \in c : x - 1 \in Letters(D) => x - 1 \in UNION copies
           wide(s) == size <= Len(s) /\ \A k \in DOMAIN s : Blank(s[k])
<1>1. ASSUME NEW c \in copies, endsNothing(c) PROVE c \subseteq Loose(D, seps, size)
  <2>1. c \subseteq EndingNothing(D, seps)
    BY <1>1 DEF EndingNothing
  <2> QED
    BY <2>1 DEF Loose
<1>2. Z = UNION copies
  OBVIOUS
<1>3. ASSUME NEW c \in Occurrences(D, sep)
      PROVE  c \subseteq Z /\ ((\A x \in c : x - 1 \in Letters(D) => x - 1 \in Z) => c \cap X = {})
  <2>1. c \in copies
    OBVIOUS
  <2> HIDE DEF copies
  <2>2. endsNothing(c) => c \subseteq Loose(D, seps, size)
    <3> HIDE DEF endsNothing
    <3> QED
      BY <1>1, <2>1
  <2>3. c \subseteq Z
    BY <1>2, <2>1
  <2>4. ASSUME \A x \in c : x - 1 \in Letters(D) => x - 1 \in Z PROVE c \cap X = {}
    <3>1. c \subseteq Loose(D, seps, size)
      BY <1>2, <2>2, <2>4
    <3> QED
      BY <3>1
  <2> QED
    BY <2>3, <2>4
<1>4. ASSUME NEW x \in X, wide(sep), (x + 1)..(x + Len(sep)) \subseteq DOMAIN D \ Letters(D) PROVE FALSE
  <2>1. x \in Letters(D) /\ x \notin Loose(D, seps, size)
    OBVIOUS
  <2>2. x \in BeforeBlanks(D, seps, size)
    BY <1>4, <2>1 DEF BeforeBlanks
  <2> QED
    BY <2>1, <2>2 DEF Loose
<1> QED
  BY <1>3, <1>4 DEF Drops

\* A document is cut into chunks that keep it.
LEMMA WholeIs ==
  ASSUME NEW text \in Seq(Chars), NEW size \in Nat, size > 1, NEW o \in Nat,
         NEW seps \in Seq(Seq(Signs)), seps # <<>>, NEW chunks, chunks = Cut(text, seps, size, o)
  PROVE  chunks \in Seq(Seq(Chars)) /\ Whole(text, chunks, seps, size, o)
<1>1. PICK D : D = WithPlaces(text)
  OBVIOUS
<1>2. /\ IsDoc(D) /\ Letters(D) = Letters(text) /\ DOMAIN D = DOMAIN text
      /\ \A i \in DOMAIN text : D[i].sign = text[i].sign
      /\ PlacesIn(D) = Letters(D) /\ Len(Strip(D)) = Len(Strip(text))
  BY <1>1, NumberedIs
<1>3. CASE Len(Strip(text)) < 2
  <2>1. D \in Seq(Chars)
    BY <1>2 DEF IsDoc
  <2>2. chunks = <<>>
    BY <1>1, <1>2, <1>3, <2>1, CutOfLittle
  <2>3. <<>> \in Seq(Seq(Chars)) /\ ToSet(<<>>) = {}
    BY DEF ToSet
  <2> QED
    BY <1>3, <2>2, <2>3 DEF Whole
<1>4. CASE ~ (Len(Strip(text)) < 2)
  <2>1. PICK X, Z, s, stuck :
          /\ X = Letters(D) \ Loose(D, seps, size) /\ Z = UNION UNION {Occurrences(D, r) : r \in ToSet(seps)}
          /\ s = Last(seps) /\ stuck = (size <= o /\ <<>> \in ToSet(seps))
    OBVIOUS
  <2>2. s \in Seq(Signs)
    <3>1. Len(seps) \in 1..Len(seps)
      <4>1. Len(seps) \in Nat /\ Len(seps) # 0
        OBVIOUS
      <4> QED
        BY <4>1
    <3>2. seps[Len(seps)] \in Seq(Signs)
      BY <3>1
    <3> QED
      BY <2>1, <3>2 DEF Last
  <2>3. Ground(D, X, o, s, size)
    <3>1. X \subseteq Letters(D)
      BY <2>1
    <3> QED
      BY <1>2, <2>2, <3>1 DEF Ground
  <2>4. Dividers(seps, D, X, Z, size, o, stuck)
    <3>1. ASSUME NEW i \in 1..Len(seps) PROVE Drops(seps[i], D, X, Z, size) /\ (seps[i] = <<>> /\ size <= o => stuck)
      <4>1. PICK r : r = seps[i] /\ r \in ToSet(seps)
        <5>1. seps[i] \in ToSet(seps)
          BY DEF ToSet
        <5> QED
          BY <5>1
      <4>2. Drops(r, D, X, Z, size)
        BY <2>1, <4>1, DropsIs
      <4> QED
        BY <2>1, <4>1, <4>2
    <3> QED
      BY <3>1 DEF Dividers
  <2>5. Cuttable(D, D, X, Z)
    <3>1. Solid(D, D)
      <4>1. D \in Seq(Of(D))
        <5>1. PICK n \in Nat : n = Len(D) /\ D \in [1..n -> Chars]
          BY <1>2 DEF IsDoc
        <5>2. D \in [1..n -> Of(D)]
          BY <5>1 DEF Of
        <5> QED
          BY <5>2
      <4>2. \A p \in 1..Len(D) : D[p].at = p
        BY <1>2 DEF IsDoc
      <4> QED
        BY <1>2, <4>1, <4>2 DEF Solid
    <3>2. Fresh(D, D, Z)
      BY <1>2 DEF Fresh
    <3> QED
      BY <1>2, <1>4, <3>1, <3>2 DEF Cuttable
  <2>6. Sane(chunks, D, X, o, PlacesIn(D), s, size, stuck)
    BY <1>1, <2>1, <2>3, <2>4, <2>5, CutKeeps
  <2>7. chunks \in Seq(Seq(Chars))
    <3>1. chunks \in Seq(Seq(Of(D)))
      BY <2>6 DEF Sane
    <3>2. Of(D) \subseteq Chars
      BY <1>2 DEF Of, IsDoc
    <3>3. Seq(Of(D)) \subseteq Seq(Chars)
      BY <3>2
    <3>4. PICK R, Q : R = Seq(Of(D)) /\ Q = Seq(Chars)
      OBVIOUS
    <3>5. R \subseteq Q /\ chunks \in Seq(R)
      BY <3>1, <3>3, <3>4
    <3>6. chunks \in Seq(Q)
      BY <3>5
    <3> QED
      BY <3>4, <3>6
  <2>8. CASE Endless \in ToSet(chunks)
    <3>1. stuck
      <4>1. CASE Keeps(chunks, D, X, o, PlacesIn(D))
        <5>1. PICK i \in 1..Len(chunks) : chunks[i] = Endless
          BY <2>7, <2>8 DEF ToSet
        <5>2. PlacesIn(chunks[i]) # {}
          BY <4>1 DEF Keeps, Piece
        <5>3. PlacesIn(<<>>) = {}
          BY DEF PlacesIn, Letters
        <5> QED
          BY <5>1, <5>2, <5>3 DEF Endless
      <4> QED
        BY <2>6, <4>1 DEF Sane
    <3> QED
      BY <2>1, <2>7, <2>8, <3>1 DEF Whole
  <2>9. CASE Endless \notin ToSet(chunks)
    <3>1. Keeps(chunks, D, X, o, PlacesIn(D)) /\ Fit(chunks, s, size, o)
      BY <2>6, <2>9 DEF Sane
    <3>2. X = Letters(text) \ Loose(text, seps, size)
      <4>1. Loose(D, seps, size) = Loose(text, seps, size)
        BY <1>2, SameLoose
      <4> QED
        BY <1>2, <2>1, <4>1
    <3>3. DOMAIN chunks = 1..Len(chunks)
      BY <2>7
    <3>4. \A x \in X : \E i \in DOMAIN chunks : x \in PlacesIn(chunks[i])
      <4>1. X \subseteq PlacesIn(D)
        BY <1>2, <2>1
      <4> QED
        BY <3>1, <3>3, <4>1 DEF Keeps
    <3>5. ASSUME NEW i \in DOMAIN chunks
          PROVE  /\ PlacesIn(chunks[i]) # {} /\ PlacesIn(chunks[i]) \subseteq Letters(text)
                 /\ Unbroken(chunks[i], X) /\ Fits(chunks[i], s, size, o)
                 /\ i > 1 => Follows(chunks[i - 1], chunks[i], o)
      <4>1. Piece(chunks[i], X, PlacesIn(D))
        BY <3>1, <3>3 DEF Keeps
      <4>2. i > 1 => Follows(chunks[i - 1], chunks[i], o)
        BY <3>1, <3>3 DEF Keeps
      <4>3. Fits(chunks[i], s, size, o)
        BY <3>1, <3>3 DEF Fit
      <4> QED
        BY <1>2, <4>1, <4>2, <4>3 DEF Piece
    <3> QED
      BY <1>4, <2>1, <2>7, <2>9, <3>2, <3>4, <3>5 DEF Whole
  <2> QED
    BY <2>8, <2>9
<1> QED
  BY <1>3, <1>4

---------------------------------------------------------------------------
(* Documents. *)

LEMMA TextsAre == ASSUME NEW text \in Texts PROVE text \in Seq(Chars)
<1>1. PICK signs \in BoundedSeq(Signs, MaxText) :
        text = [i \in DOMAIN signs |-> [sign |-> signs[i], at |-> i]]
  BY DEF Texts
<1>2. PICK n \in 0..MaxText : signs \in [1..n -> Signs]
  BY <1>1 DEF BoundedSeq, SeqOf
<1>3. n \in Nat
  BY <1>2, ChunkingAssumption
<1>4. \A i \in 1..n : [sign |-> signs[i], at |-> i] \in Chars
  BY <1>2 DEF Chars
<1>5. text \in [1..n -> Chars]
  BY <1>1, <1>2, <1>4
<1> QED
  BY <1>3, <1>5

\* What preprocess_text leaves of a document is made of characters.
LEMMA PreprocessedIs ==
  ASSUME NEW text \in Seq(Chars), NEW collapse \in BOOLEAN
  PROVE  Preprocessed(text, collapse) \in Seq(Chars)
<1>1. PICK t : t = Strip(text)
  OBVIOUS
<1>2. PICK n \in Nat : n = Len(t) /\ t \in Seq(Chars) /\ DOMAIN t = 1..n
  <2>1. t \in Seq(Chars)
    BY <1>1, StripIs
  <2>2. Len(t) \in Nat /\ DOMAIN t = 1..Len(t)
    BY <2>1
  <2> QED
    BY <2>1, <2>2
<1>3. CASE ~collapse
  BY <1>1, <1>2, <1>3 DEF Preprocessed
<1>4. CASE collapse
  <2> DEFINE kept(i) == IF i \in Letters(t) THEN <<t[i]>>
                        ELSE IF i - 1 \in Letters(t) THEN <<[t[i] EXCEPT !.sign = Space]>> ELSE <<>>
             ws == [i \in DOMAIN t |-> kept(i)]
  <2>1. ASSUME NEW i \in 1..n PROVE kept(i) \in Seq(Chars)
    <3>1. PICK c \in Chars : c = t[i]
      BY <1>2
    <3>2. [c EXCEPT !.sign = Space] \in Chars
      <4>1. Space \in Signs
        BY DEF Signs
      <4> QED
        BY <4>1 DEF Chars
    <3>3. PICK d \in Chars : d = [c EXCEPT !.sign = Space]
      BY <3>2
    <3>4. <<c>> \in Seq(Chars) /\ <<d>> \in Seq(Chars) /\ <<>> \in Seq(Chars)
      OBVIOUS
    <3> QED
      BY <3>1, <3>3, <3>4
  <2> HIDE DEF kept
  <2>2. ws \in [1..n -> Seq(Chars)]
    BY <1>2, <2>1
  <2>3. ws \in Seq(Seq(Chars)) /\ Len(ws) = n
    BY <2>2
  <2>4. FlattenSeq(ws) = Preprocessed(text, collapse)
    BY <1>1, <1>4 DEF Preprocessed, kept
  <2> HIDE DEF ws
  <2>5. PICK v : FlatTrace(v, n, ws)
    BY <2>3, FlattenSteps
  <2> DEFINE Is(m) == v[m] \in Seq(Chars)
             T == {m \in 0..n : ~Is(m)}
  <2>6. Is(0)
    BY <2>5 DEF FlatTrace
  <2>7. ASSUME NEW m \in 1..n, Is(m - 1) PROVE Is(m)
    <3>1. PICK a, b : a = v[m - 1] /\ b = ws[m] /\ v[m] = a \o b
      BY <2>5 DEF FlatTrace
    <3>2. a \in Seq(Chars) /\ b \in Seq(Chars)
      BY <2>2, <2>7, <3>1
    <3> QED
      BY <3>1, <3>2
  <2>8. Is(n)
    <3> HIDE DEF Is
    <3> SUFFICES ASSUME T # {} PROVE FALSE
      OBVIOUS
    <3>1. PICK m \in T : \A y \in T : m <= y
      <4>1. T \subseteq Nat
        OBVIOUS
      <4> HIDE DEF T
      <4> QED
        BY <4>1, LeastOf
    <3>2. m \in 0..n /\ ~Is(m)
      OBVIOUS
    <3>3. m \in 1..n /\ m - 1 \in 0..n /\ ~ (m <= m - 1)
      BY <2>6, <3>2
    <3>4. Is(m - 1)
      BY <3>1, <3>3
    <3> QED
      BY <2>7, <3>2, <3>3, <3>4
  <2> QED
    BY <2>4, <2>5, <2>8 DEF FlatTrace
<1> QED
  BY <1>3, <1>4

LEMMA ConfigIs ==
  ASSUME NEW config \in Configs
  PROVE  /\ ChunkSize \in Nat /\ ChunkSize > 1 /\ ParentSize \in Nat /\ ParentSize > 1
         /\ config.overlap \in Nat /\ config.overlap \div 2 \in Nat /\ config.collapse \in BOOLEAN
         /\ SeparatorsOf(config) \in Seq(Seq(Signs)) /\ SeparatorsOf(config) # <<>>
<1>1. config.separators \in SeparatorLists /\ config.overlap \in Overlaps /\ config.collapse \in BOOLEAN
  BY DEF Configs
<1>2. PICK o \in Nat : o = config.overlap
  BY <1>1, ChunkingAssumption
<1>3. o \div 2 \in Nat
  OBVIOUS
<1>4. DefaultSeparators \in Seq(Seq(Signs)) /\ DefaultSeparators # <<>>
  <2>1. LineEnd \in Signs
    BY DEF Signs
  <2>2. <<LineEnd, LineEnd>> \in Seq(Signs) /\ <<LineEnd>> \in Seq(Signs)
    BY <2>1
  <2>3. \A a, b \in Seq(Signs) : <<a, b>> \in Seq(Seq(Signs)) /\ <<a, b>> # <<>>
    OBVIOUS
  <2> QED
    BY <2>2, <2>3 DEF DefaultSeparators
<1>5. config.separators \in Seq(Seq(Signs))
  BY <1>1, ChunkingAssumption
<1> QED
  BY <1>1, <1>2, <1>3, <1>4, <1>5, ChunkingAssumption DEF SeparatorsOf

\* What is cut are the chunks of a text.
CutIsOfText ==
  cut # NoCut =>
    \E text \in Texts, config \in Configs : cut = [text |-> text, config |-> config, chunks |-> ChunkText(text, config)]

\* The parents and the chunks of every document keep it.
LEMMA DocumentIs ==
  ASSUME NEW text \in Texts, NEW config \in Configs, NEW plain, plain = Preprocessed(text, config.collapse),
         NEW parents, parents = ParentsOf(plain, config), NEW chunks, chunks = ChunkText(text, config)
  PROVE  /\ config.parents => Whole(plain, parents, SeparatorsOf(config), ParentSize, config.overlap \div 2)
         /\ \A p \in DOMAIN parents :
              Whole(parents[p], chunks[p], SeparatorsOf(config), ChunkSize, config.overlap)
<1>1. PICK seps \in Seq(Seq(Signs)) : seps = SeparatorsOf(config) /\ seps # <<>>
  BY ConfigIs
<1>2. PICK o \in Nat, h \in Nat, size \in Nat, large \in Nat :
        /\ o = config.overlap /\ h = config.overlap \div 2 /\ size = ChunkSize /\ large = ParentSize
        /\ size > 1 /\ large > 1
  BY ConfigIs
<1>3. plain \in Seq(Chars)
  <2>1. config.collapse \in BOOLEAN
    BY ConfigIs
  <2> QED
    BY <2>1, TextsAre, PreprocessedIs
<1>4. /\ config.parents => Whole(plain, parents, seps, large, h)
      /\ \A p \in DOMAIN parents : parents[p] \in Seq(Chars)
  <2>1. CASE config.parents
    <3>1. parents = Cut(plain, seps, large, h)
      BY <1>1, <1>2, <2>1 DEF ParentsOf
    <3>2. parents \in Seq(Seq(Chars)) /\ Whole(plain, parents, seps, large, h)
      BY <1>1, <1>2, <1>3, <3>1, WholeIs
    <3> QED
      BY <3>2
  <2>2. CASE ~config.parents
    <3>1. parents = <<plain>>
      BY <2>2 DEF ParentsOf
    <3>2. \A p \in DOMAIN parents : parents[p] = plain
      BY <3>1
    <3> QED
      BY <1>3, <2>2, <3>2
  <2> QED
    BY <2>1, <2>2
<1>5. ASSUME NEW p \in DOMAIN parents PROVE Whole(parents[p], chunks[p], seps, size, o)
  <2>1. chunks = [q \in DOMAIN parents |-> Cut(parents[q], seps, size, o)]
    BY <1>1, <1>2 DEF ChunkText
  <2>2. PICK t, c : t = parents[p] /\ c = chunks[p] /\ c = Cut(t, seps, size, o) /\ t \in Seq(Chars)
    BY <1>4, <2>1
  <2>3. Whole(t, c, seps, size, o)
    BY <1>1, <1>2, <2>2, WholeIs
  <2> QED
    BY <2>2, <2>3
<1> QED
  BY <1>1, <1>2, <1>4, <1>5

\* The property follows.
LEMMA OfTextKeepsIt == ASSUME CutIsOfText PROVE ChunksKeepText
<1> SUFFICES ASSUME cut # NoCut PROVE ChunksKeepText
  BY DEF ChunksKeepText
<1>1. PICK text \in Texts, config \in Configs :
        cut = [text |-> text, config |-> config, chunks |-> ChunkText(text, config)]
  BY DEF CutIsOfText
<1>2. PICK plain, parents, chunks :
        /\ plain = Preprocessed(text, config.collapse) /\ parents = ParentsOf(plain, config)
        /\ chunks = ChunkText(text, config)
  OBVIOUS
<1>3. /\ config.parents => Whole(plain, parents, SeparatorsOf(config), ParentSize, config.overlap \div 2)
      /\ \A p \in DOMAIN parents :
           Whole(parents[p], chunks[p], SeparatorsOf(config), ChunkSize, config.overlap)
  BY <1>2, DocumentIs
<1>4. cut.text = text /\ cut.config = config /\ cut.chunks = chunks
  BY <1>1, <1>2
<1> QED
  BY <1>2, <1>3, <1>4 DEF ChunksKeepText

\* Whatever separators, sizes above one and overlap a folder has, and whether it collapses
\* blanks or cuts parents first: the chunks of a document, and of each parent, have every
\* letter of it but those of a separator that ends nothing and a letter alone before blanks as
\* wide as a chunk, in order, and repeat no more than the overlap; they are wider than a chunk
\* only by a part that the last separator does not cut; and the call goes on for ever only if
\* the empty separator is in the list and the overlap is no less than the size
\* (chunk_text_with_config).
THEOREM ChunksAreWhole == ChunkSpec => []ChunksKeepText
<1>1. ChunkInit => CutIsOfText
  BY DEF ChunkInit, CutIsOfText
<1>2. CutIsOfText /\ [ChunkNext]_cut => CutIsOfText'
  <2> SUFFICES ASSUME CutIsOfText, [ChunkNext]_cut PROVE CutIsOfText'
    OBVIOUS
  <2>1. CASE EmbedText
    BY <2>1 DEF EmbedText, CutIsOfText
  <2>2. CASE UNCHANGED cut
    BY <2>2 DEF CutIsOfText
  <2> QED
    BY <2>1, <2>2 DEF ChunkNext
<1>3. CutIsOfText => ChunksKeepText
  BY OfTextKeepsIt
<1> QED
  BY <1>1, <1>2, <1>3, PTL DEF ChunkSpec
=============================================================================
