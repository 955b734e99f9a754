------------------------- MODULE CacheServerProofs -------------------------
(***************************************************************************)
(* The safety of CacheServer, for any connections, streams, line limit and  *)
(* number of servers, engines and calls of close().                         *)
(***************************************************************************)
EXTENDS CacheServer, KeyOrderProofs, SequenceTheorems

Chars == {"byte", "newline"}

-----------------------------------------------------------------------------
(* Sets of numbers                                                         *)

\* How many numbers of S there are up to i.
UpTo(S, i) == {h \in S : h <= i}

\* Every number of a finite set is the Nth of one place, and there is one for each place.
LEMMA NthFacts ==
    ASSUME NEW S, IsFiniteSet(S), S \subseteq Nat
    PROVE  /\ Cardinality(S) \in Nat
           /\ \A j \in 1..Cardinality(S) :
                Nth(S, j) \in S /\ Cardinality(UpTo(S, Nth(S, j))) = j
           /\ \A i \in S : Nth(S, Cardinality(UpTo(S, i))) = i
<1>. DEFINE R == {p \in S \X S : p[1] < p[2]}
            rank == [a \in S |-> Cardinality({b \in S : <<b, a>> \in R})]
<1>0. \A a, b \in S : <<a, b>> \in R <=> a < b
    OBVIOUS
<1>. HIDE DEF R
<1>1. /\ \A a \in S : <<a, a>> \notin R
      /\ \A a, b \in S : a # b => <<a, b>> \in R \/ <<b, a>> \in R
      /\ \A a, b, c \in S : <<a, b>> \in R /\ <<b, c>> \in R => <<a, c>> \in R
    BY <1>0
<1>2. /\ Cardinality(S) \in Nat
      /\ rank \in Bijection(S, 0..(Cardinality(S) - 1))
      /\ \A i \in 0..(Cardinality(S) - 1) : \E a \in S : rank[a] = i
    BY <1>1, RankFacts
<1>3. \A a \in S : rank[a] \in 0..(Cardinality(S) - 1) /\ rank[a] \in Nat
    <2>1. \A a \in S : rank[a] \in 0..(Cardinality(S) - 1)
        BY <1>2 DEF Bijection, Injection
    <2>. QED
        BY <1>2, <2>1
<1>4. ASSUME NEW i \in S PROVE Cardinality(UpTo(S, i)) = rank[i] + 1
    <2>. DEFINE before == {b \in S : <<b, i>> \in R}
    <2>1. UpTo(S, i) = before \cup {i} /\ i \notin before
        <3>1. \A b \in S : b <= i <=> <<b, i>> \in R \/ b = i
            BY <1>0
        <3>2. i \notin before /\ before \subseteq S
            BY <1>1
        <3>3. \A b \in S : b \in before <=> <<b, i>> \in R
            OBVIOUS
        <3>. HIDE DEF rank, before
        <3>. QED
            BY <3>1, <3>2, <3>3 DEF UpTo
    <2>2. IsFiniteSet(before) /\ rank[i] = Cardinality(before)
        BY FS_Subset
    <2>. QED
        BY <2>1, <2>2, FS_AddElement
<1>5. \A a, b \in S : rank[a] = rank[b] => a = b
    BY <1>2 DEF Bijection, Injection, IsInjective
<1>. HIDE DEF rank
<1>6. ASSUME NEW j \in 1..Cardinality(S)
      PROVE  Nth(S, j) \in S /\ Cardinality(UpTo(S, Nth(S, j))) = j
    <2>1. j - 1 \in 0..(Cardinality(S) - 1)
        BY <1>2
    <2>2. PICK a \in S : rank[a] = j - 1
        BY <1>2, <2>1
    <2>3. Cardinality(UpTo(S, a)) = j
        BY <1>2, <1>4, <2>2
    <2>. QED
        BY <2>3 DEF Nth, UpTo
<1>7. ASSUME NEW i \in S PROVE Nth(S, Cardinality(UpTo(S, i))) = i
    <2>. DEFINE j == Cardinality(UpTo(S, i))
    <2>1. j \in 1..Cardinality(S)
        BY <1>2, <1>3, <1>4
    <2>. HIDE DEF j
    <2>2. Nth(S, j) \in S /\ Cardinality(UpTo(S, Nth(S, j))) = j
        BY <1>6, <2>1
    <2>3. rank[Nth(S, j)] = rank[i]
        <3>1. rank[Nth(S, j)] + 1 = j
            BY <1>4, <2>2
        <3>2. rank[i] + 1 = j
            BY <1>4 DEF j
        <3>3. rank[i] \in Nat /\ rank[Nth(S, j)] \in Nat
            BY <1>3, <2>2
        <3>. QED
            BY <3>1, <3>2, <3>3
    <2>. QED
        BY <1>5, <2>2, <2>3 DEF j
<1>. QED
    BY <1>2, <1>6, <1>7

\* Adding p to every number of a set leaves their number as it is.
LEMMA ShiftFacts ==
    ASSUME NEW S, IsFiniteSet(S), S \subseteq Nat, NEW p \in Nat
    PROVE  /\ IsFiniteSet({p + x : x \in S})
           /\ Cardinality({p + x : x \in S}) = Cardinality(S)
<1>. DEFINE T == {p + x : x \in S}
            f == [x \in S |-> p + x]
<1>1. f \in [S -> T] /\ (\A x, y \in S : f[x] = f[y] => x = y)
    OBVIOUS
<1>2. \A t \in T : \E x \in S : f[x] = t
    OBVIOUS
<1>. HIDE DEF T, f
<1>3. f \in Bijection(S, T)
    BY <1>1, <1>2 DEF Bijection, Injection, Surjection, IsInjective
<1>4. IsFiniteSet(T) /\ Cardinality(T) = Cardinality(S)
    BY <1>3, FS_Bijection DEF ExistsBijection
<1>. QED
    BY <1>4 DEF T

\* L has the numbers of S up to p, and U those beyond it, counted from p.
IsCut(S, p, L, U) ==
    /\ IsFiniteSet(S) /\ S \subseteq Nat /\ p \in Nat
    /\ L \subseteq S /\ \A i \in S : i \in L <=> i <= p
    /\ U \subseteq Nat \ {0} /\ \A x \in Nat \ {0} : x \in U <=> p + x \in S

\* The numbers of L come first, and then those of U.
IsJoin(S, p, L, U) ==
    /\ Cardinality(L) \in Nat /\ Cardinality(U) \in Nat
    /\ Cardinality(S) = Cardinality(L) + Cardinality(U)
    /\ \A j \in 1..Cardinality(L) : Nth(S, j) = Nth(L, j) /\ Nth(L, j) \in L
    /\ \A j \in 1..Cardinality(U) :
         Nth(S, Cardinality(L) + j) = p + Nth(U, j) /\ Nth(U, j) \in U

LEMMA CutFacts ==
    ASSUME NEW S, NEW p, NEW L, NEW U, IsCut(S, p, L, U)
    PROVE  IsJoin(S, p, L, U)
<1>0. /\ IsFiniteSet(S) /\ S \subseteq Nat /\ p \in Nat
      /\ L \subseteq S /\ \A i \in S : i \in L <=> i <= p
      /\ U \subseteq Nat /\ 0 \notin U /\ \A x \in Nat \ {0} : x \in U <=> p + x \in S
    BY DEF IsCut
<1>. DEFINE H == {p + x : x \in U}
<1>1. L \subseteq S /\ L \subseteq Nat /\ IsFiniteSet(L)
    BY <1>0, FS_Subset
<1>2. S = L \cup H /\ L \cap H = {} /\ H \subseteq S
    <2>1. \A x \in U : x \in Nat \ {0}
        BY <1>0
    <2>2. \A i \in S : i > p => i - p \in Nat \ {0} /\ p + (i - p) = i
        BY <1>0
    <2>3. \A i \in S : i > p => i \in H
        BY <1>0, <2>2
    <2>4. \A h \in H : h \in S /\ h > p /\ h \in Nat
        BY <1>0, <2>1
    <2>5. \A i \in S : i \in L \/ i > p
        BY <1>0
    <2>6. \A i \in L : i \in S /\ ~(i > p)
        BY <1>0
    <2>. HIDE DEF H
    <2>. QED
        BY <1>0, <2>3, <2>4, <2>5, <2>6
<1>3. IsFiniteSet(H)
    BY <1>0, <1>2, FS_Subset
<1>4. IsFiniteSet(U) /\ Cardinality(H) = Cardinality(U)
    <2>. DEFINE g == [h \in H |-> h - p]
    <2>1. g \in [H -> U] /\ \A x, y \in H : g[x] = g[y] => x = y
        BY <1>0
    <2>2. \A x \in U : p + x \in H /\ g[p + x] = x
        BY <1>0
    <2>. HIDE DEF g, H
    <2>3. g \in Bijection(H, U)
        BY <1>0, <2>1, <2>2 DEF Bijection, Injection, Surjection, IsInjective
    <2>. QED
        BY <1>0, <1>3, <2>3, FS_Bijection DEF ExistsBijection
<1>5. Cardinality(S) = Cardinality(L) + Cardinality(U)
    <2>1. Cardinality(L \cup H) = Cardinality(L) + Cardinality(H) - Cardinality({})
        BY <1>0, <1>1, <1>2, <1>3, FS_Union
    <2>. QED
        <3>1. Cardinality({}) = 0
            BY FS_EmptySet
        <3>2. Cardinality(L) \in Nat /\ Cardinality(H) \in Nat
            BY <1>0, <1>1, <1>3, FS_CardinalityType
        <3>3. Cardinality(S) = Cardinality(L) + Cardinality(H) - 0
            BY <1>0, <1>2, <2>1, <3>1
        <3>. HIDE DEF H
        <3>. QED
            BY <1>0, <1>4, <3>2, <3>3
<1>6. ASSUME NEW j \in 1..Cardinality(L)
      PROVE  Nth(S, j) = Nth(L, j) /\ Nth(L, j) \in L
    <2>. DEFINE i == Nth(L, j)
    <2>1. i \in L /\ Cardinality(UpTo(L, i)) = j
        BY <1>0, <1>1, NthFacts
    <2>. HIDE DEF i
    <2>2. UpTo(S, i) = UpTo(L, i)
        <3>1. \A h \in S : h <= i => h <= p
            BY <1>0, <1>1, <2>1
        <3>2. \A h \in S : h <= i => h \in L
            BY <1>0, <3>1
        <3>. QED
            BY <1>0, <1>1, <3>2 DEF UpTo
    <2>3. Nth(S, j) = i
        BY <1>0, <1>1, <2>1, <2>2, NthFacts
    <2>. QED
        BY <1>0, <2>1, <2>3 DEF i
<1>7. ASSUME NEW j \in 1..Cardinality(U)
      PROVE  Nth(S, Cardinality(L) + j) = p + Nth(U, j) /\ Nth(U, j) \in U
    <2>. DEFINE u == Nth(U, j)
    <2>1. u \in U /\ Cardinality(UpTo(U, u)) = j
        BY <1>0, <1>4, NthFacts
    <2>. HIDE DEF u
    <2>2. p + u \in S
        BY <1>0, <2>1
    <2>3. UpTo(S, p + u) = L \cup {p + x : x \in UpTo(U, u)}
        <3>1. ASSUME NEW h \in S, h <= p + u
              PROVE  h \in L \/ \E x \in U : x <= u /\ h = p + x
            <4>1. CASE h \in H
                <5>1. PICK x \in U : h = p + x
                    BY <4>1
                <5>. QED
                    BY <1>0, <2>1, <3>1, <5>1
            <4>. QED
                BY <1>2, <4>1
        <3>2. \A h \in L : h \in S /\ h <= p + u
            BY <1>0, <2>1
        <3>3. \A x \in U : x <= u => p + x \in S /\ p + x <= p + u
            BY <1>0, <2>1
        <3>. QED
            BY <3>1, <3>2, <3>3 DEF UpTo
    <2>4. L \cap {p + x : x \in UpTo(U, u)} = {}
        BY <1>0, <1>2 DEF UpTo
    <2>5. IsFiniteSet(UpTo(U, u)) /\ UpTo(U, u) \subseteq Nat
        BY <1>0, <1>4, FS_Subset DEF UpTo
    <2>6. /\ IsFiniteSet({p + x : x \in UpTo(U, u)})
          /\ Cardinality({p + x : x \in UpTo(U, u)}) = j
        BY <1>0, <2>1, <2>5, ShiftFacts
    <2>7. Cardinality(UpTo(S, p + u)) = Cardinality(L) + j
        <3>1. Cardinality(UpTo(S, p + u)) = Cardinality(L) + j - Cardinality({})
            BY <1>0, <1>1, <2>3, <2>4, <2>6, FS_Union
        <3>. QED
            BY <1>0, <1>1, <3>1, FS_EmptySet, FS_CardinalityType
    <2>8. Nth(S, Cardinality(L) + j) = p + u
        BY <1>0, <2>2, <2>7, NthFacts
    <2>. QED
        BY <1>0, <2>1, <2>8 DEF u
<1>. QED
    BY <1>0, <1>1, <1>4, <1>5, <1>6, <1>7, FS_CardinalityType DEF IsJoin

-----------------------------------------------------------------------------
(* Lines                                                                   *)

\* The last newline before a position.
LEMMA LineEndFacts ==
    ASSUME NEW s \in Seq(Chars), NEW i \in 1..(Len(s) + 1)
    PROVE  /\ LineEnd(s, i) \in 0..(i - 1)
           /\ LineEnd(s, i) = 0 \/ LineEnd(s, i) \in Newlines(s)
           /\ \A h \in Newlines(s) : h < i => h <= LineEnd(s, i)
<1>. DEFINE T == {0} \cup {h \in Newlines(s) : h < i}
<1>1. Newlines(s) \subseteq 1..Len(s) /\ Len(s) \in Nat /\ i \in Nat
    BY LenProperties DEF Newlines
<1>2. T \subseteq 0..(i - 1) /\ 0 \in T /\ T \subseteq Nat
    BY <1>1
<1>. HIDE DEF T
<1>3. IsFiniteSet(T)
    <2>1. IsFiniteSet(0..(i - 1))
        BY <1>1, FS_Interval
    <2>2. T \in SUBSET (0..(i - 1))
        BY <1>2
    <2>. QED
        BY <2>1, <2>2, FS_Subset
<1>4. PICK g \in T : \A x \in T : x <= g
    BY <1>2, <1>3, GreatestFacts
<1>5. \A x \in T : g >= x
    BY <1>2, <1>4
<1>6. Max(T) \in T /\ \A x \in T : Max(T) >= x
    BY <1>5 DEF Max
<1>7. \A x \in T : x <= Max(T)
    BY <1>2, <1>6
<1>8. LineEnd(s, i) = Max(T)
    BY DEF LineEnd, T
<1>. QED
    BY <1>2, <1>6, <1>7, <1>8 DEF T

LEMMA LineEndIs ==
    ASSUME NEW s \in Seq(Chars), NEW i \in 1..(Len(s) + 1), NEW e \in 0..(i - 1),
           e = 0 \/ e \in Newlines(s), \A h \in Newlines(s) : h < i => h <= e
    PROVE  LineEnd(s, i) = e
<1>. DEFINE l == LineEnd(s, i)
<1>1. /\ l \in 0..(i - 1)
      /\ l = 0 \/ l \in Newlines(s)
      /\ \A h \in Newlines(s) : h < i => h <= l
    BY LineEndFacts
<1>2. i \in Nat
    BY LenProperties
<1>. HIDE DEF l
<1>3. l <= e /\ e <= l
    BY <1>1, <1>2
<1>4. l = e
    BY <1>1, <1>2, <1>3
<1>. QED
    BY <1>4 DEF l

LEMMA AskingFacts ==
    ASSUME NEW s \in Seq(Chars)
    PROVE  /\ Newlines(s) \subseteq 1..Len(s) /\ Asking(s) \subseteq Newlines(s)
           /\ IsFiniteSet(Asking(s)) /\ Asking(s) \subseteq Nat /\ 0 \notin Asking(s)
           /\ Cardinality(Asking(s)) \in Nat
<1>1. Newlines(s) \subseteq 1..Len(s) /\ Len(s) \in Nat
    BY LenProperties DEF Newlines
<1>2. Asking(s) \subseteq Newlines(s)
    BY DEF Asking
<1>3. IsFiniteSet(Asking(s))
    <2>1. IsFiniteSet(1..Len(s))
        BY <1>1, FS_Interval
    <2>2. Asking(s) \in SUBSET (1..Len(s))
        BY <1>1, <1>2
    <2>. QED
        BY <2>1, <2>2, FS_Subset
<1>. QED
    BY <1>1, <1>2, <1>3, FS_CardinalityType

LEMMA ResponsesFacts ==
    ASSUME NEW s \in Seq(Chars)
    PROVE  /\ Responses(s) \in Seq(Answers)
           /\ Len(Responses(s)) = Cardinality(Asking(s))
           /\ \A j \in 1..Cardinality(Asking(s)) :
                Responses(s)[j] = AnswerTo(LineLength(s, Nth(Asking(s), j)))
<1>. DEFINE n == Cardinality(Asking(s))
            e(j) == AnswerTo(LineLength(s, Nth(Asking(s), j)))
<1>1. n \in Nat
    BY AskingFacts
<1>2. \A j \in 1..n : e(j) \in Answers
    BY DEF AnswerTo, Answers
<1>3. Responses(s) = [j \in 1..n |-> e(j)]
    BY DEF Responses
<1>. HIDE DEF n, e
<1>4. [j \in 1..n |-> e(j)] \in Seq(Answers)
    BY <1>1, <1>2
<1>5. Len([j \in 1..n |-> e(j)]) = n
    BY <1>1
<1>. QED
    BY <1>3, <1>4, <1>5 DEF n, e

\* The first p characters of s, which are whole lines, and the others.
IsSplit(s, p, a, b) ==
    /\ s \in Seq(Chars) /\ p \in Nat /\ (p = 0 \/ s[p] = "newline")
    /\ a \in Seq(Chars) /\ Len(a) = p /\ \A i \in 1..p : a[i] = s[i]
    /\ b \in Seq(Chars) /\ Len(s) = p + Len(b) /\ \A x \in 1..Len(b) : b[x] = s[p + x]

\* The data handler's loop takes a stream apart: what it answers to a number of whole lines and
\* then to the others is what it answers to all.
LEMMA CutLines ==
    ASSUME NEW s, NEW p, NEW a, NEW b, IsSplit(s, p, a, b)
    PROVE  /\ Responses(s) = Responses(a) \o Responses(b)
           /\ Rest(s) = Rest(b)
<1>0. /\ s \in Seq(Chars) /\ p \in Nat /\ (p = 0 \/ s[p] = "newline")
      /\ a \in Seq(Chars) /\ Len(a) = p /\ \A i \in 1..p : a[i] = s[i]
      /\ b \in Seq(Chars) /\ Len(s) = p + Len(b) /\ \A x \in 1..Len(b) : b[x] = s[p + x]
    BY DEF IsSplit
<1>1. Len(s) \in Nat /\ p \in Nat /\ \A i \in 1..Len(s) : s[i] \in Chars
    BY <1>0, LenProperties, ElementOfSeq
<1>2. a \in Seq(Chars) /\ Len(a) = p /\ \A i \in 1..p : a[i] = s[i]
    BY <1>0
<1>3. /\ b \in Seq(Chars) /\ Len(b) \in Nat /\ Len(b) = Len(s) - p
      /\ \A x \in 1..Len(b) : b[x] = s[p + x]
    BY <1>0, <1>1, LenProperties
<1>4. DOMAIN s = 1..Len(s) /\ DOMAIN a = 1..p /\ DOMAIN b = 1..Len(b)
    BY <1>0, <1>2, <1>3, LenProperties
<1>5. \A i \in 1..p : i \in Newlines(a) <=> i \in Newlines(s)
    BY <1>0, <1>1, <1>2, <1>4 DEF Newlines
<1>6. \A x \in Nat \ {0} : x \in Newlines(b) <=> p + x \in Newlines(s)
    BY <1>0, <1>1, <1>3, <1>4 DEF Newlines
<1>7. /\ Newlines(s) \subseteq 1..Len(s) /\ Newlines(a) \subseteq 1..p
      /\ Newlines(b) \subseteq 1..Len(b)
      /\ p = 0 \/ p \in Newlines(s)
    BY <1>0, <1>1, <1>3, <1>4 DEF Newlines
<1>8. ASSUME NEW i \in 1..p PROVE LineEnd(a, i) = LineEnd(s, i)
    <2>. DEFINE e == LineEnd(s, i)
    <2>1. i \in 1..(Len(s) + 1) /\ i \in 1..(Len(a) + 1)
        BY <1>0, <1>1, <1>2
    <2>2. /\ e \in 0..(i - 1) /\ (e = 0 \/ e \in Newlines(s))
          /\ \A h \in Newlines(s) : h < i => h <= e
        BY <1>0, <2>1, LineEndFacts
    <2>. HIDE DEF e
    <2>3. /\ e = 0 \/ e \in Newlines(a)
          /\ \A h \in Newlines(a) : h < i => h <= e
        BY <1>0, <1>1, <1>5, <1>7, <2>2
    <2>4. LineEnd(a, i) = e
        BY <1>0, <1>2, <2>1, <2>2, <2>3, LineEndIs
    <2>. QED
        BY <1>0, <2>4 DEF e
<1>9. ASSUME NEW x \in 1..(Len(b) + 1) PROVE LineEnd(s, p + x) = p + LineEnd(b, x)
    <2>. DEFINE l == LineEnd(b, x)
    <2>1. /\ l \in 0..(x - 1) /\ (l = 0 \/ l \in Newlines(b))
          /\ \A h \in Newlines(b) : h < x => h <= l
        BY <1>0, <1>3, LineEndFacts
    <2>. HIDE DEF l
    <2>2. p + x \in 1..(Len(s) + 1) /\ x \in Nat /\ l \in Nat /\ p + l \in 0..(p + x - 1)
        BY <1>0, <1>1, <1>3, <2>1
    <2>3. p + l = 0 \/ p + l \in Newlines(s)
        <3>1. CASE l = 0
            BY <1>0, <1>1, <1>7, <3>1
        <3>2. CASE l \in Newlines(b)
            <4>1. l \in Nat \ {0}
                BY <1>0, <1>7, <3>2
            <4>. QED
                BY <1>0, <1>6, <3>2, <4>1
        <3>. QED
            BY <1>0, <2>1, <3>1, <3>2
    <2>4. ASSUME NEW h \in Newlines(s), h < p + x PROVE h <= p + l
        <3>1. h \in Nat
            BY <1>0, <1>7
        <3>2. CASE h <= p
            BY <1>0, <1>1, <2>2, <3>1, <3>2
        <3>3. CASE h > p
            <4>1. h - p \in Nat \ {0} /\ p + (h - p) = h /\ h - p < x
                BY <1>0, <1>1, <2>2, <2>4, <3>1, <3>3
            <4>2. h - p \in Newlines(b)
                BY <1>0, <1>6, <4>1
            <4>3. h - p <= l
                BY <1>0, <2>1, <4>1, <4>2
            <4>. QED
                BY <1>0, <1>1, <2>2, <3>1, <4>3
        <3>. QED
            BY <1>0, <1>1, <3>1, <3>2, <3>3
    <2>5. LineEnd(s, p + x) = p + l
        BY <1>0, <2>2, <2>3, <2>4, LineEndIs
    <2>. QED
        BY <1>0, <2>5 DEF l
<1>10. \A i \in Newlines(a) : LineLength(a, i) = LineLength(s, i)
    BY <1>0, <1>7, <1>8 DEF LineLength
<1>11. ASSUME NEW x \in 1..Len(b) PROVE LineLength(b, x) = LineLength(s, p + x)
    <2>1. LineEnd(s, p + x) = p + LineEnd(b, x) /\ LineEnd(b, x) \in 0..(x - 1)
        BY <1>0, <1>3, <1>9, LineEndFacts, LenProperties
    <2>. QED
        BY <1>0, <1>1, <2>1 DEF LineLength
<1>12. Asking(a) \subseteq Asking(s) /\ \A i \in Asking(s) : i \in Asking(a) <=> i <= p
    <2>1. \A i \in Newlines(s) : i <= p => i \in 1..p
        BY <1>0, <1>1, <1>7
    <2>2. \A i \in Newlines(a) : i \in 1..p /\ i <= p
        BY <1>0, <1>1, <1>7
    <2>. QED
        BY <1>0, <1>5, <1>10, <2>1, <2>2 DEF Asking
<1>13. \A x \in Nat \ {0} : x \in Asking(b) <=> p + x \in Asking(s)
    <2>1. \A x \in Newlines(b) : LineLength(b, x) = LineLength(s, p + x)
        BY <1>0, <1>7, <1>11
    <2>. QED
        BY <1>0, <1>6, <2>1 DEF Asking
<1>. DEFINE m == Cardinality(Asking(a))
            n == Cardinality(Asking(b))
<1>14. /\ m \in Nat /\ n \in Nat /\ Cardinality(Asking(s)) = m + n
       /\ \A j \in 1..m : Nth(Asking(s), j) = Nth(Asking(a), j) /\ Nth(Asking(a), j) \in Asking(a)
       /\ \A j \in 1..n : /\ Nth(Asking(s), m + j) = p + Nth(Asking(b), j)
                          /\ Nth(Asking(b), j) \in Asking(b)
    <2>1. IsFiniteSet(Asking(s)) /\ Asking(s) \subseteq Nat
        BY <1>0, AskingFacts
    <2>2. Asking(b) \subseteq Nat /\ 0 \notin Asking(b)
        BY <1>0, <1>3, AskingFacts
    <2>3. IsCut(Asking(s), p, Asking(a), Asking(b))
        BY <1>0, <1>12, <1>13, <2>1, <2>2 DEF IsCut
    <2>4. IsJoin(Asking(s), p, Asking(a), Asking(b))
        BY <1>0, <2>3, CutFacts
    <2>. QED
        BY <1>0, <2>4 DEF IsJoin
<1>. HIDE DEF m, n
<1>15. Asking(a) \subseteq Newlines(a) /\ Asking(b) \subseteq 1..Len(b)
    BY <1>0, <1>2, <1>3, AskingFacts
<1>16. /\ Responses(s) \in Seq(Answers) /\ Len(Responses(s)) = m + n
       /\ \A j \in 1..(m + n) :
            Responses(s)[j] = AnswerTo(LineLength(s, Nth(Asking(s), j)))
    BY <1>0, <1>14, ResponsesFacts
<1>17. /\ Responses(a) \in Seq(Answers) /\ Len(Responses(a)) = m
       /\ \A j \in 1..m : Responses(a)[j] = AnswerTo(LineLength(a, Nth(Asking(a), j)))
    BY <1>0, <1>2, ResponsesFacts DEF m
<1>18. /\ Responses(b) \in Seq(Answers) /\ Len(Responses(b)) = n
       /\ \A j \in 1..n : Responses(b)[j] = AnswerTo(LineLength(b, Nth(Asking(b), j)))
    BY <1>0, <1>3, ResponsesFacts DEF n
<1>19. \A j \in 1..m : Responses(s)[j] = Responses(a)[j]
    <2>. SUFFICES ASSUME NEW j \in 1..m PROVE Responses(s)[j] = Responses(a)[j]
        OBVIOUS
    <2>1. j \in 1..(m + n)
        BY <1>0, <1>14
    <2>2. LineLength(a, Nth(Asking(a), j)) = LineLength(s, Nth(Asking(s), j))
        BY <1>0, <1>10, <1>14, <1>15
    <2>. QED
        BY <1>0, <1>16, <1>17, <2>1, <2>2
<1>20. \A j \in 1..n : Responses(s)[m + j] = Responses(b)[j]
    <2>. SUFFICES ASSUME NEW j \in 1..n PROVE Responses(s)[m + j] = Responses(b)[j]
        OBVIOUS
    <2>1. m + j \in 1..(m + n)
        BY <1>0, <1>14
    <2>2. LineLength(b, Nth(Asking(b), j)) = LineLength(s, Nth(Asking(s), m + j))
        BY <1>0, <1>11, <1>14, <1>15
    <2>. QED
        BY <1>0, <1>16, <1>18, <2>1, <2>2
<1>21. Responses(s) = Responses(a) \o Responses(b)
    <2>. DEFINE t == Responses(a) \o Responses(b)
    <2>1. /\ t \in Seq(Answers) /\ Len(t) = m + n
          /\ \A i \in 1..(m + n) : t[i] = IF i <= m THEN Responses(a)[i] ELSE Responses(b)[i - m]
        <3>1. /\ t \in Seq(Answers) /\ Len(t) = Len(Responses(a)) + Len(Responses(b))
              /\ \A i \in 1..Len(Responses(a)) + Len(Responses(b)) :
                   t[i] = IF i <= Len(Responses(a)) THEN Responses(a)[i]
                                                    ELSE Responses(b)[i - Len(Responses(a))]
            BY <1>0, <1>17, <1>18, ConcatProperties
        <3>. HIDE DEF t
        <3>. QED
            BY <1>0, <1>17, <1>18, <3>1
    <2>. HIDE DEF t
    <2>2. ASSUME NEW i \in 1..(m + n) PROVE Responses(s)[i] = t[i]
        <3>1. CASE i <= m
            <4>1. i \in 1..m
                BY <1>0, <1>14, <3>1
            <4>. QED
                BY <1>0, <1>19, <2>1, <3>1, <4>1
        <3>2. CASE ~(i <= m)
            <4>1. i - m \in 1..n /\ m + (i - m) = i
                BY <1>0, <1>14, <3>2
            <4>. QED
                BY <1>0, <1>20, <2>1, <3>2, <4>1
        <3>. QED
            BY <3>1, <3>2
    <2>3. Responses(s) = t
        BY <1>0, <1>16, <2>1, <2>2, SeqEqual
    <2>. QED
        BY <1>0, <2>3 DEF t
<1>22. Rest(s) = Rest(b)
    <2>. DEFINE l == LineEnd(b, Len(b) + 1)
                u == SubSeq(s, p + l + 1, Len(s))
                v == SubSeq(b, l + 1, Len(b))
    <2>1. Len(b) + 1 \in 1..(Len(b) + 1) /\ Len(b) \in Nat /\ p + (Len(b) + 1) = Len(s) + 1
        BY <1>0, <1>1, <1>3
    <2>2. l \in 0..Len(b) /\ LineEnd(s, Len(s) + 1) = p + l
        BY <1>0, <1>3, <1>9, <2>1, LineEndFacts
    <2>3. Rest(s) = u /\ Rest(b) = v
        BY <1>0, <2>2 DEF Rest
    <2>. HIDE DEF l
    <2>4. /\ u \in Seq(Chars) /\ Len(u) = Len(s) - p - l
          /\ \A i \in 1..(Len(s) - p - l) : u[i] = s[p + l + i]
        <3>1. \A i \in (p + l + 1)..Len(s) : s[i] \in Chars
            BY <1>0, <1>1, <2>2
        <3>2. p + l + 1 \in Int /\ Len(s) \in Int
            BY <1>0, <1>1, <1>3, <2>2
        <3>3. /\ u \in Seq(Chars)
              /\ Len(u) = IF p + l + 1 <= Len(s) THEN Len(s) - (p + l + 1) + 1 ELSE 0
              /\ \A i \in 1..(Len(s) - (p + l + 1) + 1) : u[i] = s[(p + l + 1) + i - 1]
            BY <3>1, <3>2, SubSeqProperties
        <3>4. \A i \in 1..(Len(s) - p - l) : i \in 1..(Len(s) - (p + l + 1) + 1)
                                             /\ (p + l + 1) + i - 1 = p + l + i
            BY <1>0, <1>1, <1>3, <2>2
        <3>. HIDE DEF u
        <3>5. Len(u) = Len(s) - p - l
            <4>1. Len(s) \in Nat /\ p \in Nat /\ l \in Nat /\ p + l <= Len(s)
                BY <1>0, <1>1, <1>3, <2>2
            <4>. QED
                BY <3>3, <4>1
        <3>. QED
            BY <3>3, <3>4, <3>5
    <2>5. /\ v \in Seq(Chars) /\ Len(v) = Len(b) - l
          /\ \A i \in 1..(Len(b) - l) : v[i] = b[l + i]
        <3>1. \A i \in (l + 1)..Len(b) : b[i] \in Chars
            BY <1>0, <1>3, <2>1, <2>2, ElementOfSeq
        <3>2. l + 1 \in Int /\ Len(b) \in Int
            BY <1>0, <2>1, <2>2
        <3>3. /\ v \in Seq(Chars)
              /\ Len(v) = IF l + 1 <= Len(b) THEN Len(b) - (l + 1) + 1 ELSE 0
              /\ \A i \in 1..(Len(b) - (l + 1) + 1) : v[i] = b[(l + 1) + i - 1]
            BY <3>1, <3>2, SubSeqProperties
        <3>4. \A i \in 1..(Len(b) - l) : i \in 1..(Len(b) - (l + 1) + 1)
                                         /\ (l + 1) + i - 1 = l + i
            BY <1>0, <2>1, <2>2
        <3>. HIDE DEF v
        <3>5. Len(v) = Len(b) - l
            BY <1>0, <2>1, <2>2, <3>3
        <3>. QED
            BY <3>3, <3>4, <3>5
    <2>. HIDE DEF u, v
    <2>6. \A i \in 1..Len(u) : u[i] = v[i]
        <3>1. \A i \in 1..Len(u) : l + i \in 1..Len(b) /\ p + (l + i) = p + l + i
            BY <1>0, <1>1, <1>3, <2>1, <2>2, <2>4
        <3>. QED
            BY <1>0, <1>3, <2>1, <2>2, <2>4, <2>5, <3>1
    <2>7. u = v
        <3>1. Len(u) = Len(v)
            BY <1>0, <1>1, <1>3, <2>2, <2>4, <2>5
        <3>. QED
            BY <1>0, <2>4, <2>5, <2>6, <3>1, SeqEqual
    <2>. QED
        BY <1>0, <2>3, <2>7
<1>. QED
    BY <1>0, <1>2, <1>3, <1>21, <1>22

\* What is left after the last line: no line of its own.
LEMMA RestFacts ==
    ASSUME NEW s \in Seq(Chars)
    PROVE  LET l == LineEnd(s, Len(s) + 1)
           IN  /\ l \in 0..Len(s) /\ (l = 0 \/ s[l] = "newline")
               /\ Rest(s) \in Seq(Chars) /\ Len(s) = l + Len(Rest(s))
               /\ \A i \in 1..Len(Rest(s)) : Rest(s)[i] = s[l + i]
               /\ Responses(Rest(s)) = <<>>
<1>. DEFINE l == LineEnd(s, Len(s) + 1)
            r == SubSeq(s, l + 1, Len(s))
<1>1. Len(s) \in Nat /\ \A i \in 1..Len(s) : s[i] \in Chars
    BY LenProperties, ElementOfSeq
<1>2. /\ l \in 0..Len(s) /\ (l = 0 \/ l \in Newlines(s))
      /\ \A h \in Newlines(s) : h < Len(s) + 1 => h <= l
    <2>1. Len(s) + 1 \in 1..(Len(s) + 1) /\ Len(s) + 1 - 1 = Len(s)
        BY <1>1
    <2>. QED
        BY <2>1, LineEndFacts
<1>3. Rest(s) = r
    BY DEF Rest
<1>. HIDE DEF l
<1>4. /\ r \in Seq(Chars) /\ Len(s) = l + Len(r) /\ Len(r) \in Nat
      /\ \A i \in 1..Len(r) : r[i] = s[l + i]
    <2>1. \A i \in (l + 1)..Len(s) : s[i] \in Chars
        BY <1>1, <1>2
    <2>2. l + 1 \in Int /\ Len(s) \in Int
        BY <1>1, <1>2
    <2>3. /\ r \in Seq(Chars)
          /\ Len(r) = IF l + 1 <= Len(s) THEN Len(s) - (l + 1) + 1 ELSE 0
          /\ \A i \in 1..(Len(s) - (l + 1) + 1) : r[i] = s[(l + 1) + i - 1]
        BY <2>1, <2>2, SubSeqProperties
    <2>. HIDE DEF r
    <2>4. Len(r) = Len(s) - l
        BY <1>1, <1>2, <2>3
    <2>5. \A i \in 1..Len(r) : i \in 1..(Len(s) - (l + 1) + 1) /\ (l + 1) + i - 1 = l + i
        BY <1>1, <1>2, <2>4
    <2>6. \A i \in 1..Len(r) : r[i] = s[l + i]
        BY <2>3, <2>5
    <2>7. Len(s) = l + Len(r) /\ Len(r) \in Nat
        BY <1>1, <1>2, <2>4
    <2>. QED
        BY <2>3, <2>6, <2>7
<1>. HIDE DEF r
<1>5. DOMAIN s = 1..Len(s) /\ DOMAIN r = 1..Len(r)
    BY <1>4, LenProperties
<1>6. Newlines(r) = {}
    <2>. SUFFICES ASSUME NEW i \in Newlines(r) PROVE FALSE
        OBVIOUS
    <2>1. i \in 1..Len(r) /\ s[l + i] = "newline"
        BY <1>4, <1>5 DEF Newlines
    <2>2. l + i \in 1..Len(s) /\ l + i < Len(s) + 1 /\ l + i > l
        BY <1>1, <1>2, <1>4, <2>1
    <2>3. l + i \in Newlines(s)
        BY <1>5, <2>1, <2>2 DEF Newlines
    <2>. QED
        BY <1>1, <1>2, <2>2, <2>3
<1>7. Responses(r) = <<>>
    <2>1. Asking(r) = {}
        BY <1>6 DEF Asking
    <2>2. Responses(r) \in Seq(Answers) /\ Len(Responses(r)) = 0
        BY <1>4, <2>1, ResponsesFacts, FS_EmptySet
    <2>. QED
        BY <2>2, EmptySeq
<1>8. l = 0 \/ s[l] = "newline"
    BY <1>2 DEF Newlines
<1>. QED
    BY <1>2, <1>3, <1>4, <1>7, <1>8 DEF l

LEMMA PrefixFacts ==
    ASSUME NEW t \in Seq(Chars), NEW k \in 0..Len(t)
    PROVE  /\ SubSeq(t, 1, k) \in Seq(Chars) /\ Len(SubSeq(t, 1, k)) = k
           /\ \A i \in 1..k : SubSeq(t, 1, k)[i] = t[i]
<1>. DEFINE a == SubSeq(t, 1, k)
<1>1. k \in Int /\ k >= 0 /\ \A i \in 1..k : t[i] \in Chars
    <2>1. Len(t) \in Nat /\ \A i \in 1..Len(t) : t[i] \in Chars
        BY LenProperties, ElementOfSeq
    <2>. QED
        BY <2>1
<1>2. /\ a \in Seq(Chars) /\ Len(a) = IF 1 <= k THEN k - 1 + 1 ELSE 0
      /\ \A i \in 1..(k - 1 + 1) : a[i] = t[1 + i - 1]
    BY <1>1, SubSeqProperties
<1>. HIDE DEF a
<1>3. Len(a) = k /\ \A i \in 1..k : i \in 1..(k - 1 + 1) /\ 1 + i - 1 = i
    BY <1>1, <1>2
<1>4. \A i \in 1..k : a[i] = t[i]
    BY <1>2, <1>3
<1>. QED
    BY <1>2, <1>3, <1>4 DEF a

\* A chunk more: what was answered, and the answers to the lines that are complete now.
IsChunk(t, r, n, x, y, buffer) ==
    /\ t \in Seq(Chars) /\ r \in 0..Len(t) /\ n \in 1..(Len(t) - r)
    /\ x = SubSeq(t, 1, r) /\ y = SubSeq(t, 1, r + n)
    /\ buffer = Rest(x) \o SubSeq(t, r + 1, r + n)

LEMMA ChunkFacts ==
    ASSUME NEW t, NEW r, NEW n, NEW x, NEW y, NEW buffer, IsChunk(t, r, n, x, y, buffer)
    PROVE  /\ Responses(y) = Responses(x) \o Responses(buffer)
           /\ Rest(y) = Rest(buffer)
<1>0. /\ t \in Seq(Chars) /\ r \in 0..Len(t) /\ n \in 1..(Len(t) - r)
      /\ x = SubSeq(t, 1, r) /\ y = SubSeq(t, 1, r + n)
      /\ buffer = Rest(x) \o SubSeq(t, r + 1, r + n)
    BY DEF IsChunk
<1>1. /\ Len(t) \in Nat /\ r \in Nat /\ n \in Nat /\ r + n \in 0..Len(t)
      /\ \A i \in 1..Len(t) : t[i] \in Chars
    BY <1>0, LenProperties, ElementOfSeq
<1>2. /\ x \in Seq(Chars) /\ Len(x) = r /\ \A i \in 1..r : x[i] = t[i]
    BY <1>0, PrefixFacts
<1>3. /\ y \in Seq(Chars) /\ Len(y) = r + n /\ \A i \in 1..(r + n) : y[i] = t[i]
    BY <1>0, <1>1, PrefixFacts
<1>. DEFINE chunk == SubSeq(t, r + 1, r + n)
            l == LineEnd(x, Len(x) + 1)
            a == SubSeq(t, 1, l)
            z == Rest(x)
<1>4. /\ chunk \in Seq(Chars) /\ Len(chunk) = n /\ \A i \in 1..n : chunk[i] = t[r + i]
    <2>1. \A i \in (r + 1)..(r + n) : t[i] \in Chars
        BY <1>0, <1>1
    <2>2. /\ chunk \in Seq(Chars)
          /\ Len(chunk) = IF r + 1 <= r + n THEN (r + n) - (r + 1) + 1 ELSE 0
          /\ \A i \in 1..((r + n) - (r + 1) + 1) : chunk[i] = t[(r + 1) + i - 1]
        BY <1>0, <1>1, <2>1, SubSeqProperties
    <2>3. \A i \in 1..n : i \in 1..((r + n) - (r + 1) + 1) /\ (r + 1) + i - 1 = r + i
        BY <1>0, <1>1
    <2>. HIDE DEF chunk
    <2>4. Len(chunk) = n
        BY <1>0, <1>1, <2>2
    <2>. QED
        BY <2>2, <2>3, <2>4
<1>5. /\ l \in 0..r /\ (l = 0 \/ x[l] = "newline")
      /\ z \in Seq(Chars) /\ r = l + Len(z) /\ Len(z) \in Nat
      /\ \A i \in 1..Len(z) : z[i] = x[l + i]
      /\ Responses(z) = <<>>
    BY <1>2, RestFacts, LenProperties
<1>. HIDE DEF l
<1>6. /\ a \in Seq(Chars) /\ Len(a) = l /\ \A i \in 1..l : a[i] = t[i]
    <2>1. l \in Int /\ \A i \in 1..l : t[i] \in Chars
        BY <1>0, <1>1, <1>5
    <2>2. /\ a \in Seq(Chars) /\ Len(a) = IF 1 <= l THEN l - 1 + 1 ELSE 0
          /\ \A i \in 1..(l - 1 + 1) : a[i] = t[1 + i - 1]
        BY <2>1, SubSeqProperties
    <2>. HIDE DEF a
    <2>. QED
        BY <1>0, <1>1, <1>5, <2>2
<1>7. /\ buffer \in Seq(Chars) /\ Len(buffer) = Len(z) + n
      /\ \A i \in 1..(Len(z) + n) : buffer[i] = IF i <= Len(z) THEN z[i] ELSE chunk[i - Len(z)]
    <2>1. buffer = z \o chunk
        BY <1>0
    <2>. HIDE DEF z, chunk
    <2>2. /\ z \o chunk \in Seq(Chars) /\ Len(z \o chunk) = Len(z) + Len(chunk)
          /\ \A i \in 1..Len(z) + Len(chunk) :
               (z \o chunk)[i] = IF i <= Len(z) THEN z[i] ELSE chunk[i - Len(z)]
        BY <1>4, <1>5, ConcatProperties
    <2>. QED
        BY <1>4, <2>1, <2>2
<1>. HIDE DEF a, z, chunk
<1>8. /\ l \in Nat /\ \A i \in 1..l : i \in 1..r /\ i \in 1..(r + n)
    BY <1>0, <1>1, <1>5
<1>9. Responses(x) = Responses(a) \o Responses(z)
    <2>1. \A i \in 1..l : a[i] = x[i]
        BY <1>2, <1>6, <1>8
    <2>2. IsSplit(x, l, a, z)
        BY <1>2, <1>5, <1>6, <1>8, <2>1 DEF IsSplit
    <2>. QED
        BY <2>2, CutLines
<1>10. Responses(y) = Responses(a) \o Responses(buffer) /\ Rest(y) = Rest(buffer)
    <2>1. \A i \in 1..l : a[i] = y[i]
        BY <1>3, <1>6, <1>8
    <2>2. l = 0 \/ y[l] = "newline"
        <3>1. CASE l # 0
            <4>1. l \in 1..r /\ l \in 1..(r + n) /\ x[l] = "newline"
                BY <1>0, <1>1, <1>5, <3>1
            <4>. QED
                BY <1>2, <1>3, <4>1
        <3>. QED
            BY <3>1
    <2>3. Len(y) = l + Len(buffer)
        <3>1. Len(y) = r + n /\ r = l + Len(z) /\ Len(buffer) = Len(z) + n
            BY <1>3, <1>5, <1>7
        <3>2. l \in Nat /\ Len(z) \in Nat /\ n \in Nat
            BY <1>0, <1>1, <1>5, <1>8
        <3>3. \A u, v, w \in Nat : (u + v) + w = u + (v + w)
            OBVIOUS
        <3>. QED
            BY <3>1, <3>2, <3>3
    <2>4. ASSUME NEW i \in 1..Len(buffer) PROVE buffer[i] = y[l + i]
        <3>1. i \in 1..(Len(z) + n)
            BY <1>7
        <3>2. CASE i <= Len(z)
            <4>1. i \in 1..Len(z) /\ l + i \in 1..r /\ l + i \in 1..(r + n)
                BY <1>0, <1>1, <1>5, <3>1, <3>2
            <4>. QED
                BY <1>2, <1>3, <1>5, <1>7, <3>1, <3>2, <4>1
        <3>3. CASE ~(i <= Len(z))
            <4>1. i - Len(z) \in 1..n /\ r + (i - Len(z)) = l + i /\ l + i \in 1..(r + n)
                BY <1>0, <1>1, <1>5, <3>1, <3>3
            <4>2. buffer[i] = chunk[i - Len(z)]
                BY <1>7, <3>1, <3>3
            <4>3. chunk[i - Len(z)] = t[l + i]
                BY <1>4, <4>1
            <4>. QED
                BY <1>3, <4>1, <4>2, <4>3
        <3>. QED
            BY <3>2, <3>3
    <2>5. IsSplit(y, l, a, buffer)
        BY <1>3, <1>6, <1>7, <1>8, <2>1, <2>2, <2>3, <2>4 DEF IsSplit
    <2>. QED
        BY <2>5, CutLines
<1>11. Responses(x) = Responses(a)
    <2>1. Responses(a) \in Seq(Answers)
        BY <1>6, ResponsesFacts
    <2>. QED
        BY <1>5, <1>9, <2>1, ConcatEmptySeq
<1>. QED
    BY <1>10, <1>11

-----------------------------------------------------------------------------
(* The inductive invariant                                                 *)

\* What holds of one connection, whatever the others and the server do.
ConnOK(r) ==
    /\ r \in ConnType
    /\ r.read <= Len(r.stream)
    /\ r.tracked <=> r.sock \in {"open", "ended"}
    /\ r.sock = "open" => /\ r.answers = Responses(SubSeq(r.stream, 1, r.read))
                          /\ r.buffer = Rest(SubSeq(r.stream, 1, r.read))
    /\ r.replicated => r.alone = 0

ServerOK ==
    /\ server \in Servers \cup {None}
    /\ status \in [Servers -> Statuses]
    /\ closing \in BOOLEAN
    /\ engine \in Engines \cup {None}
    /\ engines \in 0..MaxEngines
    /\ closedEngines \subseteq Engines
    /\ closes \in [Closers -> CloseType]

\* A new engine is none of the closed ones, and #replicationEngine is never one of them.
EnginesInOrder ==
    /\ closedEngines \subseteq 1..engines
    /\ engine # None => engine \in 1..engines /\ engine \notin closedEngines

\* What is served on a connection that was accepted by a server that replicates is served with
\* an engine: close() ends the sockets in the step that takes the engine away.
ServedWithEngine == \A c \in Conns : conns[c].replicated /\ conns[c].sock = "open" => engine # None

Inv ==
    /\ TypeOK
    /\ FramingIsExact
    /\ AnsweredWritesAreHandedOver
    /\ EnginesInOrder
    /\ ServedWithEngine

ConnsOK == conns \in [Conns -> ConnType] /\ \A c \in Conns : ConnOK(conns[c])

LEMMA InvParts == Inv <=> ServerOK /\ ConnsOK /\ EnginesInOrder /\ ServedWithEngine
BY DEF Inv, TypeOK, FramingIsExact, AnsweredWritesAreHandedOver, Arrived, ServerOK, ConnsOK, ConnOK

LEMMA InvPartsNext == Inv' <=> ServerOK' /\ ConnsOK' /\ EnginesInOrder' /\ ServedWithEngine'
BY DEF Inv, TypeOK, FramingIsExact, AnsweredWritesAreHandedOver, Arrived, ServerOK, ConnsOK, ConnOK

\* A step that only touches connections, none of which is served that was not.
LEMMA OnlyConnsInv ==
    ASSUME Inv, UNCHANGED <<serverVars, engineVars, closes>>, conns' \in [Conns -> ConnType],
           \A c \in Conns : /\ ConnOK(conns'[c])
                            /\ conns'[c].replicated /\ conns'[c].sock = "open" =>
                                 engine # None \/ (conns[c].replicated /\ conns[c].sock = "open")
    PROVE  Inv'
<1>1. ServerOK' /\ EnginesInOrder'
    BY InvParts DEF ServerOK, EnginesInOrder, serverVars, engineVars
<1>2. ConnsOK'
    BY DEF ConnsOK, ConnOK
<1>3. ServedWithEngine'
    BY InvParts DEF ServedWithEngine, engineVars
<1>. QED
    BY <1>1, <1>2, <1>3, InvPartsNext

LEMMA OneConnInv ==
    ASSUME Inv, UNCHANGED <<serverVars, engineVars, closes>>, NEW c \in Conns, NEW r,
           conns' = [conns EXCEPT ![c] = r], ConnOK(r),
           r.replicated /\ r.sock = "open" =>
             engine # None \/ (conns[c].replicated /\ conns[c].sock = "open")
    PROVE  Inv'
<1>1. conns \in [Conns -> ConnType] /\ \A b \in Conns : ConnOK(conns[b])
    BY InvParts DEF ConnsOK
<1>2. r \in ConnType
    BY DEF ConnOK
<1>3. /\ conns' \in [Conns -> ConnType] /\ conns'[c] = r
      /\ \A b \in Conns : b # c => conns'[b] = conns[b]
    BY <1>1, <1>2
<1>4. \A b \in Conns : ConnOK(conns'[b])
    BY <1>1, <1>3
<1>5. \A b \in Conns : conns'[b].replicated /\ conns'[b].sock = "open" =>
        engine # None \/ (conns[b].replicated /\ conns[b].sock = "open")
    BY <1>3
<1>. QED
    BY <1>3, <1>4, <1>5, OnlyConnsInv

-----------------------------------------------------------------------------
(* Connections                                                             *)

LEMMA GoneFacts ==
    ASSUME NEW r \in ConnType, r.replicated => r.alone = 0
    PROVE  ConnOK(Gone(r)) /\ Gone(r).sock = "closed"
<1>. DEFINE g == Gone(r)
<1>1. /\ g \in ConnType /\ g.sock = "closed" /\ g.tracked = FALSE /\ g.read = 0
      /\ g.stream = <<>> /\ g.replicated = r.replicated /\ g.alone = r.alone
    <2>1. NoConn \in ConnType
        BY EmptySeq DEF NoConn, ConnType
    <2>2. NoConn.tracked = FALSE /\ NoConn.read = 0 /\ NoConn.stream = <<>>
        BY DEF NoConn
    <2>. HIDE DEF NoConn
    <2>3. r.of \in Servers \cup {None} /\ r.replicated \in BOOLEAN /\ r.alone \in Nat
        BY DEF ConnType
    <2>4. g \in ConnType
        BY <2>1, <2>3 DEF Gone, ConnType
    <2>5. g.sock = "closed" /\ g.alone = r.alone /\ g.replicated = r.replicated
        BY <2>1 DEF Gone, ConnType
    <2>6. g.tracked = NoConn.tracked /\ g.read = NoConn.read /\ g.stream = NoConn.stream
        BY <2>1 DEF Gone, ConnType
    <2>. QED
        BY <2>2, <2>4, <2>5, <2>6
<1>. HIDE DEF g
<1>2. ConnOK(g)
    BY <1>1 DEF ConnOK
<1>. QED
    BY <1>1, <1>2 DEF g

\* socket.end() needs no answers: what holds of a connection that is not served any more.
LEMMA EndFacts ==
    ASSUME NEW r \in ConnType, r.read <= Len(r.stream), r.tracked <=> r.sock \in {"open", "ended"},
           r.replicated => r.alone = 0
    PROVE  ConnOK(End(r)) /\ End(r).sock # "open"
<1>1. CASE r.sock = "open"
    <2>. DEFINE e == [r EXCEPT !.sock = "ended"]
    <2>1. /\ e \in ConnType /\ e.sock = "ended" /\ e.read = r.read /\ e.stream = r.stream
          /\ e.tracked = r.tracked /\ e.replicated = r.replicated /\ e.alone = r.alone
        BY DEF ConnType
    <2>2. End(r) = e
        BY <1>1 DEF End
    <2>. HIDE DEF e
    <2>. QED
        BY <1>1, <2>1, <2>2 DEF ConnOK
<1>2. CASE r.sock # "open"
    BY <1>2 DEF End, ConnOK
<1>. QED
    BY <1>1, <1>2

LEMMA AnswerAndEndFacts ==
    ASSUME NEW r \in ConnType, r.read <= Len(r.stream), r.tracked <=> r.sock \in {"open", "ended"},
           r.replicated => r.alone = 0, NEW a \in Answers
    PROVE  ConnOK(End(Answered(r, <<a>>))) /\ End(Answered(r, <<a>>)).sock # "open"
<1>1. CASE r.sock = "open"
    <2>. DEFINE w == [r EXCEPT !.answers = @ \o <<a>>]
    <2>1. r.answers \o <<a>> \in Seq(Answers)
        BY DEF ConnType
    <2>2. /\ w \in ConnType /\ w.sock = r.sock /\ w.read = r.read /\ w.stream = r.stream
          /\ w.tracked = r.tracked /\ w.replicated = r.replicated /\ w.alone = r.alone
        BY <2>1 DEF ConnType
    <2>3. Answered(r, <<a>>) = w
        BY <1>1 DEF Answered
    <2>. HIDE DEF w
    <2>. QED
        BY <2>2, <2>3, EndFacts
<1>2. CASE r.sock # "open"
    <2>1. Answered(r, <<a>>) = Gone(r)
        BY <1>2 DEF Answered
    <2>2. ConnOK(Gone(r)) /\ Gone(r).sock = "closed"
        BY GoneFacts
    <2>3. End(Gone(r)) = Gone(r)
        BY <2>2 DEF End
    <2>. QED
        BY <2>1, <2>2, <2>3
<1>. QED
    BY <1>1, <1>2

LEMMA PeerGoesInv ==
    ASSUME Inv, NEW c \in Conns, PeerGoes(c)
    PROVE  Inv'
<1>1. conns \in [Conns -> ConnType] /\ ConnOK(conns[c])
    BY InvParts DEF ConnsOK
<1>2. ConnOK(Gone(conns[c])) /\ Gone(conns[c]).sock = "closed"
    BY <1>1, GoneFacts DEF ConnOK
<1>3. conns' = [conns EXCEPT ![c] = Gone(conns[c])] /\ UNCHANGED <<serverVars, engineVars, closes>>
    BY DEF PeerGoes
<1>. QED
    BY <1>2, <1>3, OneConnInv

LEMMA TimeoutInv ==
    ASSUME Inv, NEW c \in Conns, Timeout(c)
    PROVE  Inv'
<1>. DEFINE r == End(Answered(conns[c], <<"idle timeout">>))
<1>1. conns[c] \in ConnType /\ ConnOK(conns[c])
    BY InvParts DEF ConnsOK
<1>2. ConnOK(r) /\ r.sock # "open"
    BY <1>1, AnswerAndEndFacts DEF ConnOK, Answers
<1>3. conns' = [conns EXCEPT ![c] = r] /\ UNCHANGED <<serverVars, engineVars, closes>>
    BY DEF Timeout
<1>. HIDE DEF r
<1>. QED
    BY <1>2, <1>3, OneConnInv

LEMMA ConnectInv ==
    ASSUME Inv, NEW c \in Conns, NEW s \in Servers, NEW stream \in Streams[c], Connect(c, s, stream)
    PROVE  Inv'
<1>. DEFINE r == IF closing THEN [NoConn EXCEPT !.sock = "closed", !.of = s]
                 ELSE [NoConn EXCEPT !.sock = "open", !.of = s, !.tracked = TRUE,
                                     !.stream = stream, !.replicated = engine # None]
<1>1. conns' = [conns EXCEPT ![c] = r] /\ UNCHANGED <<serverVars, engineVars, closes>>
    BY DEF Connect
<1>2. CASE closing
    <2>1. /\ r \in ConnType /\ r.sock = "closed" /\ r.tracked = FALSE /\ r.read = 0
          /\ r.stream = <<>> /\ r.replicated = FALSE
        <3>1. r = [sock |-> "closed", of |-> s, tracked |-> FALSE, stream |-> <<>>, read |-> 0,
                   buffer |-> <<>>, answers |-> <<>>, replicated |-> FALSE, alone |-> 0]
            BY <1>2 DEF NoConn
        <3>. HIDE DEF r
        <3>. QED
            BY <3>1, EmptySeq DEF ConnType
    <2>. HIDE DEF r
    <2>2. ConnOK(r)
        BY <2>1 DEF ConnOK
    <2>. QED
        BY <1>1, <2>1, <2>2, OneConnInv
<1>3. CASE ~closing
    <2>1. stream \in Seq({"byte", "newline"})
        BY ServerAssumption
    <2>2. /\ r \in ConnType /\ r.sock = "open" /\ r.tracked = TRUE /\ r.read = 0
          /\ r.stream = stream /\ r.replicated = (engine # None) /\ r.alone = 0
          /\ r.answers = <<>> /\ r.buffer = <<>>
        <3>1. r = [sock |-> "open", of |-> s, tracked |-> TRUE, stream |-> stream, read |-> 0,
                   buffer |-> <<>>, answers |-> <<>>, replicated |-> engine # None, alone |-> 0]
            BY <1>3 DEF NoConn
        <3>. HIDE DEF r
        <3>. QED
            BY <2>1, <3>1, EmptySeq DEF ConnType
    <2>3. SubSeq(stream, 1, 0) = <<>>
        BY SubSeqEmpty
    <2>4. Responses(<<>>) = <<>> /\ Rest(<<>>) = <<>>
        <3>1. <<>> \in Seq(Chars) /\ Len(<<>>) = 0
            BY EmptySeq
        <3>2. Newlines(<<>>) = {}
            BY DEF Newlines
        <3>3. Asking(<<>>) = {}
            BY <3>2 DEF Asking
        <3>4. Responses(<<>>) \in Seq(Answers) /\ Len(Responses(<<>>)) = 0
            BY <3>1, <3>3, ResponsesFacts, FS_EmptySet
        <3>5. LineEnd(<<>>, Len(<<>>) + 1) \in 0..Len(<<>>)
            BY <3>1, RestFacts
        <3>6. Len(<<>>) < LineEnd(<<>>, Len(<<>>) + 1) + 1
            BY <3>1, <3>5
        <3>7. Rest(<<>>) = <<>>
            BY <3>1, <3>5, <3>6, SubSeqEmpty DEF Rest
        <3>. QED
            BY <3>4, <3>7, EmptySeq
    <2>5. Len(stream) \in Nat
        BY <2>1, LenProperties
    <2>. HIDE DEF r
    <2>6. ConnOK(r)
        <3>1. r.answers = Responses(SubSeq(r.stream, 1, r.read))
              /\ r.buffer = Rest(SubSeq(r.stream, 1, r.read))
            BY <2>2, <2>3, <2>4
        <3>2. r \in ConnType /\ r.read <= Len(r.stream) /\ r.alone = 0
              /\ r.tracked = TRUE /\ r.sock = "open"
            BY <2>2, <2>5
        <3>. QED
            BY <3>1, <3>2 DEF ConnOK
    <2>. QED
        BY <1>1, <2>2, <2>6, OneConnInv
<1>. QED
    BY <1>2, <1>3

\* The writes answered are no more than the lines.
LEMMA WritesFacts ==
    ASSUME NEW s \in Seq(Chars)
    PROVE  Cardinality({j \in DOMAIN Responses(s) : Responses(s)[j] = "done"}) \in Nat
<1>1. Responses(s) \in Seq(Answers)
    BY ResponsesFacts
<1>2. DOMAIN Responses(s) = 1..Len(Responses(s)) /\ Len(Responses(s)) \in Nat
    BY <1>1, LenProperties
<1>3. IsFiniteSet(DOMAIN Responses(s))
    BY <1>2, FS_Interval
<1>4. {j \in DOMAIN Responses(s) : Responses(s)[j] = "done"} \in SUBSET DOMAIN Responses(s)
    OBVIOUS
<1>5. IsFiniteSet({j \in DOMAIN Responses(s) : Responses(s)[j] = "done"})
    BY <1>3, <1>4, FS_Subset
<1>. QED
    BY <1>5, FS_CardinalityType

LEMMA WithinFacts ==
    ASSUME NEW l \in Nat, NEW m \in Nat, NEW n \in Nat, n <= l - m
    PROVE  m + n \in Nat /\ m + n <= l /\ m \in 0..l /\ (n # 0 => n \in 1..(l - m))
OBVIOUS

\* A chunk too large: one answer, and the end.
LEMMA TooLargeFacts ==
    ASSUME NEW q \in ConnType, ConnOK(q), NEW n \in Nat, n <= Len(q.stream) - q.read,
           NEW buffer \in Seq(Chars),
           NEW r, r = End(Answered([q EXCEPT !.read = @ + n, !.buffer = buffer],
                                   <<"input too large">>))
    PROVE  ConnOK(r) /\ r.sock # "open"
<1>. DEFINE d == [q EXCEPT !.read = @ + n, !.buffer = buffer]
<1>1. q.read \in Nat /\ Len(q.stream) \in Nat
    BY LenProperties DEF ConnType
<1>2. q.read + n \in Nat /\ q.read + n <= Len(q.stream)
    BY <1>1, WithinFacts
<1>3. /\ d \in ConnType /\ d.read = q.read + n /\ d.stream = q.stream /\ d.sock = q.sock
      /\ d.tracked = q.tracked /\ d.replicated = q.replicated /\ d.alone = q.alone
    BY <1>2 DEF ConnType, Chars
<1>4. r = End(Answered(d, <<"input too large">>))
    OBVIOUS
<1>. HIDE DEF d
<1>5. /\ d.read <= Len(d.stream) /\ (d.tracked <=> d.sock \in {"open", "ended"})
      /\ (d.replicated => d.alone = 0)
    BY <1>2, <1>3 DEF ConnOK
<1>6. "input too large" \in Answers
    BY DEF Answers
<1>. QED
    BY <1>3, <1>4, <1>5, <1>6, AnswerAndEndFacts

\* A chunk whose lines are executed and answered, and what is known before it.
AfterLines(q, n, buffer, alone) ==
    Answered([q EXCEPT !.read = @ + n, !.buffer = Rest(buffer), !.alone = alone],
             Responses(buffer))

LinesReady(q, n, buffer, alone) ==
    /\ q \in ConnType /\ ConnOK(q) /\ n \in Nat \ {0} /\ n <= Len(q.stream) - q.read
    /\ buffer \in Seq(Chars) /\ buffer = q.buffer \o SubSeq(q.stream, q.read + 1, q.read + n)
    /\ alone \in Nat /\ (q.replicated => alone = 0)

LEMMA LinesFacts ==
    ASSUME NEW q, NEW n, NEW buffer, NEW alone, LinesReady(q, n, buffer, alone),
           NEW r, r = AfterLines(q, n, buffer, alone)
    PROVE  /\ ConnOK(r)
           /\ r.replicated /\ r.sock = "open" => q.replicated /\ q.sock = "open"
<1>0. /\ q \in ConnType /\ ConnOK(q) /\ n \in Nat \ {0} /\ n <= Len(q.stream) - q.read
      /\ buffer \in Seq(Chars)
      /\ buffer = q.buffer \o SubSeq(q.stream, q.read + 1, q.read + n)
      /\ alone \in Nat /\ (q.replicated => alone = 0)
    BY DEF LinesReady
<1>. DEFINE d == [q EXCEPT !.read = @ + n, !.buffer = Rest(buffer), !.alone = alone]
            x == SubSeq(q.stream, 1, q.read)
            y == SubSeq(q.stream, 1, q.read + n)
            more == Responses(buffer)
<1>1. q.read \in Nat /\ Len(q.stream) \in Nat /\ q.stream \in Seq(Chars)
    BY <1>0, LenProperties DEF ConnType, Chars
<1>2. /\ q.read + n \in Nat /\ q.read + n <= Len(q.stream)
      /\ q.read \in 0..Len(q.stream) /\ n \in 1..(Len(q.stream) - q.read)
    BY <1>0, <1>1, WithinFacts
<1>3. Rest(buffer) \in Seq(Chars) /\ more \in Seq(Answers) /\ q.answers \in Seq(Answers)
    BY <1>0, RestFacts, ResponsesFacts DEF ConnType
<1>4. /\ d \in ConnType /\ d.read = q.read + n /\ d.stream = q.stream /\ d.buffer = Rest(buffer)
      /\ d.alone = alone /\ d.answers = q.answers /\ d.sock = q.sock /\ d.tracked = q.tracked
      /\ d.replicated = q.replicated
    BY <1>0, <1>2, <1>3 DEF ConnType, Chars
<1>5. r = Answered(d, more)
    BY DEF AfterLines
<1>. DEFINE w == [d EXCEPT !.answers = @ \o more]
<1>. HIDE DEF d
<1>6. r = IF more = <<>> \/ d.sock = "open" THEN w ELSE Gone(d)
    BY <1>5 DEF Answered
<1>7. d.tracked <=> d.sock \in {"open", "ended"}
    BY <1>0, <1>4 DEF ConnOK
<1>8. CASE more = <<>> \/ d.sock = "open"
    <2>1. q.answers \o more \in Seq(Answers)
        BY <1>3, ConcatProperties
    <2>2. /\ w \in ConnType /\ w.sock = d.sock /\ w.read = d.read /\ w.stream = d.stream
          /\ w.buffer = d.buffer /\ w.alone = d.alone /\ w.tracked = d.tracked
          /\ w.replicated = d.replicated /\ w.answers = q.answers \o more
        BY <1>4, <2>1 DEF ConnType
    <2>3. r = w
        BY <1>6, <1>8
    <2>. HIDE DEF w
    <2>4. q.sock = "open" => q.answers \o more = Responses(y) /\ Rest(buffer) = Rest(y)
        <3>. SUFFICES ASSUME q.sock = "open"
                      PROVE  q.answers \o more = Responses(y) /\ Rest(buffer) = Rest(y)
            OBVIOUS
        <3>1. q.answers = Responses(x) /\ q.buffer = Rest(x)
            BY <1>0 DEF ConnOK
        <3>2. buffer = Rest(x) \o SubSeq(q.stream, q.read + 1, q.read + n)
            BY <1>0, <3>1
        <3>3. x = SubSeq(q.stream, 1, q.read) /\ y = SubSeq(q.stream, 1, q.read + n)
            OBVIOUS
        <3>. HIDE DEF x, y
        <3>4. Responses(y) = Responses(x) \o Responses(buffer) /\ Rest(y) = Rest(buffer)
            <4>1. IsChunk(q.stream, q.read, n, x, y, buffer)
                BY <1>0, <1>1, <1>2, <3>2, <3>3 DEF IsChunk
            <4>. QED
                BY <4>1, ChunkFacts
        <3>. QED
            BY <3>1, <3>4
    <2>5. r \in ConnType /\ r.read = q.read + n /\ r.stream = q.stream /\ r.sock = q.sock
          /\ r.tracked = d.tracked /\ r.replicated = q.replicated /\ r.alone = alone
          /\ r.answers = q.answers \o more /\ r.buffer = Rest(buffer)
        BY <1>4, <2>2, <2>3
    <2>6. r.sock = "open" => /\ r.answers = Responses(SubSeq(r.stream, 1, r.read))
                             /\ r.buffer = Rest(SubSeq(r.stream, 1, r.read))
        BY <2>4, <2>5
    <2>7. ConnOK(r)
        BY <1>0, <1>2, <1>4, <1>7, <2>5, <2>6 DEF ConnOK
    <2>. QED
        BY <2>5, <2>7
<1>9. CASE ~(more = <<>> \/ d.sock = "open")
    <2>1. r = Gone(d)
        BY <1>6, <1>9
    <2>2. ConnOK(Gone(d)) /\ Gone(d).sock = "closed"
        BY <1>0, <1>4, GoneFacts
    <2>. QED
        BY <2>1, <2>2
<1>. QED
    BY <1>8, <1>9

\* On a connection that is served and replicated there is an engine, and it is open: nothing is
\* added to alone.
LEMMA DataInv ==
    ASSUME Inv, NEW c \in Conns, NEW n \in Nat \ {0}, Data(c, n)
    PROVE  Inv'
<1>. DEFINE buffer == conns[c].buffer
                        \o SubSeq(conns[c].stream, conns[c].read + 1, conns[c].read + n)
            writes == Cardinality({j \in DOMAIN Responses(buffer) : Responses(buffer)[j] = "done"})
            alone == IF EngineTakes \/ conns[c].sock = "ended" THEN conns[c].alone
                     ELSE conns[c].alone + writes
<1>1. conns[c] \in ConnType
    BY InvParts DEF ConnsOK
<1>2. /\ conns[c].read \in Nat /\ Len(conns[c].stream) \in Nat
      /\ conns[c].stream \in Seq(Chars) /\ conns[c].buffer \in Seq(Chars)
    BY <1>1, LenProperties DEF ConnType, Chars
<1>3. n <= Len(conns[c].stream) - conns[c].read /\ UNCHANGED <<serverVars, engineVars, closes>>
    <2>1. n \in 1..(Len(conns[c].stream) - conns[c].read)
        BY DEF Data
    <2>2. UNCHANGED <<serverVars, engineVars, closes>>
        BY DEF Data
    <2>3. \A l, m \in Nat : n \in 1..(l - m) => n <= l - m
        OBVIOUS
    <2>. QED
        BY <1>2, <2>1, <2>2, <2>3
<1>4. buffer \in Seq(Chars)
    <2>. DEFINE chunk == SubSeq(conns[c].stream, conns[c].read + 1, conns[c].read + n)
    <2>1. \A i \in (conns[c].read + 1)..(conns[c].read + n) : i \in 1..Len(conns[c].stream)
        BY <1>2, <1>3
    <2>2. \A i \in (conns[c].read + 1)..(conns[c].read + n) : conns[c].stream[i] \in Chars
        BY <1>2, <2>1, ElementOfSeq
    <2>3. conns[c].read + 1 \in Int /\ conns[c].read + n \in Int
        BY <1>2
    <2>4. chunk \in Seq(Chars)
        BY <2>2, <2>3, SubSeqProperties
    <2>5. buffer = conns[c].buffer \o chunk
        OBVIOUS
    <2>. HIDE DEF chunk, buffer
    <2>. QED
        BY <1>2, <2>4, <2>5, ConcatProperties
<1>5. writes \in Nat
    BY <1>4, WritesFacts
<1>6. conns' = [conns EXCEPT ![c] =
                  IF Len(buffer) > 2 * MaxLine
                    THEN End(Answered([conns[c] EXCEPT !.read = @ + n, !.buffer = buffer],
                                      <<"input too large">>))
                    ELSE Answered([conns[c] EXCEPT !.read = @ + n, !.buffer = Rest(buffer),
                                                   !.alone = alone], Responses(buffer))]
    BY DEF Data
<1>7. buffer = conns[c].buffer
                 \o SubSeq(conns[c].stream, conns[c].read + 1, conns[c].read + n)
    OBVIOUS
<1>8. alone \in Nat
    <2>. HIDE DEF writes
    <2>. QED
        BY <1>1, <1>5 DEF ConnType
<1>9. ConnOK(conns[c])
    BY InvParts DEF ConnsOK
<1>10. conns[c].replicated => alone = 0
    <2>. HIDE DEF writes
    <2>. SUFFICES ASSUME conns[c].replicated PROVE alone = conns[c].alone
        BY <1>9 DEF ConnOK
    <2>1. CASE conns[c].sock = "open"
        <3>1. engine # None
            BY <2>1, InvParts DEF ServedWithEngine
        <3>2. EngineTakes
            BY <3>1, InvParts DEF EnginesInOrder, EngineTakes
        <3>. QED
            BY <3>2
    <2>2. CASE conns[c].sock # "open"
        <3>1. conns[c].sock = "ended"
            BY <1>9, <2>2 DEF ConnOK, Data
        <3>. QED
            BY <3>1
    <2>. QED
        BY <2>1, <2>2
<1>. HIDE DEF buffer, writes, alone
<1>11. CASE Len(buffer) > 2 * MaxLine
    <2>. DEFINE r == End(Answered([conns[c] EXCEPT !.read = @ + n, !.buffer = buffer],
                                  <<"input too large">>))
    <2>1. ConnOK(r) /\ r.sock # "open"
        BY <1>1, <1>3, <1>4, <1>9, TooLargeFacts
    <2>2. conns' = [conns EXCEPT ![c] = r]
        BY <1>6, <1>11
    <2>. HIDE DEF r
    <2>. QED
        BY <1>3, <2>1, <2>2, OneConnInv
<1>12. CASE ~(Len(buffer) > 2 * MaxLine)
    <2>. DEFINE r == AfterLines(conns[c], n, buffer, alone)
    <2>0. r = AfterLines(conns[c], n, buffer, alone)
        OBVIOUS
    <2>2. conns' = [conns EXCEPT ![c] = r]
        BY <1>6, <1>12 DEF AfterLines
    <2>. HIDE DEF r
    <2>3. LinesReady(conns[c], n, buffer, alone)
        BY <1>1, <1>3, <1>4, <1>7, <1>8, <1>9, <1>10 DEF LinesReady
    <2>1. ConnOK(r) /\ (r.replicated /\ r.sock = "open" =>
                          conns[c].replicated /\ conns[c].sock = "open")
        BY <2>0, <2>3, LinesFacts
    <2>. QED
        BY <1>3, <2>1, <2>2, OneConnInv
<1>. QED
    BY <1>11, <1>12

-----------------------------------------------------------------------------
(* The server and its engine                                               *)

LEMMA ListenInv ==
    ASSUME Inv, NEW s \in Servers, Listen(s)
    PROVE  Inv'
<1>1. ServerOK'
    <2>1. status' \in [Servers -> Statuses]
        BY InvParts DEF ServerOK, Listen, Statuses
    <2>. QED
        BY <2>1, InvParts DEF ServerOK, Listen, engineVars
<1>2. ConnsOK' /\ EnginesInOrder' /\ ServedWithEngine'
    BY InvParts DEF Listen, engineVars, ConnsOK, EnginesInOrder, ServedWithEngine
<1>. QED
    BY <1>1, <1>2, InvPartsNext

LEMMA ListenEndsInv ==
    ASSUME Inv, NEW s \in Servers, ListenEnds(s)
    PROVE  Inv'
<1>1. ServerOK'
    <2>1. status' \in [Servers -> Statuses]
        BY InvParts DEF ServerOK, ListenEnds, Statuses
    <2>. QED
        BY <2>1, InvParts DEF ServerOK, ListenEnds, engineVars
<1>2. ConnsOK' /\ EnginesInOrder' /\ ServedWithEngine'
    BY InvParts DEF ListenEnds, engineVars, ConnsOK, EnginesInOrder, ServedWithEngine
<1>. QED
    BY <1>1, <1>2, InvPartsNext

\* The new engine is none of those that were closed: they are older.
LEMMA EnableReplicationInv ==
    ASSUME Inv, EnableReplication
    PROVE  Inv'
<1>1. /\ engines \in 0..MaxEngines /\ engines < MaxEngines /\ MaxEngines \in Nat
      /\ engines' = engines + 1 /\ engine' = engines + 1 /\ closedEngines' = closedEngines
      /\ closedEngines \subseteq 1..engines
    BY ServerAssumption, InvParts DEF ServerOK, EnginesInOrder, EnableReplication
<1>2. engine' \in Engines /\ engine' # None /\ engines' \in 0..MaxEngines
    BY <1>1 DEF Engines, None
<1>3. ServerOK'
    BY <1>1, <1>2, InvParts DEF ServerOK, EnableReplication, serverVars
<1>4. EnginesInOrder'
    <2>1. engine' \in 1..engines' /\ \A e \in 1..engines : e \in 1..engines' /\ e # engine'
        BY <1>1
    <2>. QED
        BY <1>1, <2>1 DEF EnginesInOrder
<1>5. ConnsOK' /\ ServedWithEngine'
    BY <1>2, InvParts DEF EnableReplication, ConnsOK, ServedWithEngine
<1>. QED
    BY <1>3, <1>4, <1>5, InvPartsNext

LEMMA StopServerFacts ==
    ASSUME ServerOK, NEW p \in Closers, NEW s \in Servers \cup {None}, StopServer(p, s)
    PROVE  status' \in [Servers -> Statuses] /\ closes' \in [Closers -> CloseType]
<1>1. status \in [Servers -> Statuses] /\ closes \in [Closers -> CloseType]
    BY DEF ServerOK
<1>2. status' \in [Servers -> Statuses]
    BY <1>1 DEF StopServer, Statuses
<1>3. closes' \in [Closers -> CloseType]
    <2>1. [at |-> "waiting", of |-> s, timer |-> TRUE] \in CloseType
        BY DEF CloseType
    <2>2. [at |-> "rejected", of |-> s, timer |-> FALSE] \in CloseType
        BY DEF CloseType
    <2>. QED
        BY <1>1, <2>1, <2>2 DEF StopServer
<1>. QED
    BY <1>2, <1>3

\* close() ends every socket that is served, and only then is there no engine.
LEMMA CloseInv ==
    ASSUME Inv, NEW p \in Closers, Close(p)
    PROVE  Inv'
<1>1. ServerOK /\ EnginesInOrder /\ ConnsOK
    BY InvParts
<1>2. \A c \in Conns : ConnOK(conns'[c]) /\ conns'[c].sock # "open"
    <2>. SUFFICES ASSUME NEW c \in Conns PROVE ConnOK(conns'[c]) /\ conns'[c].sock # "open"
        OBVIOUS
    <2>1. conns[c] \in ConnType /\ ConnOK(conns[c])
        BY <1>1 DEF ConnsOK
    <2>2. conns'[c] = IF conns[c].tracked THEN End(conns[c]) ELSE conns[c]
        BY DEF Close, EndAll
    <2>3. CASE conns[c].tracked
        BY <2>1, <2>2, <2>3, EndFacts DEF ConnOK
    <2>4. CASE ~conns[c].tracked
        BY <2>1, <2>2, <2>4 DEF ConnOK
    <2>. QED
        BY <2>3, <2>4
<1>3. ConnsOK'
    <2>1. conns' = [c \in Conns |-> IF conns[c].tracked THEN End(conns[c]) ELSE conns[c]]
        BY DEF Close, EndAll
    <2>2. \A c \in Conns : conns'[c] \in ConnType
        BY <1>2 DEF ConnOK
    <2>3. conns' \in [Conns -> ConnType]
        BY <2>1, <2>2
    <2>. QED
        BY <1>2, <2>3 DEF ConnsOK
<1>4. ServedWithEngine'
    BY <1>2 DEF ServedWithEngine
<1>5. ServerOK' /\ EnginesInOrder'
    <2>1. server' = None /\ closing' = TRUE /\ engines' = engines
        BY DEF Close
    <2>2. CASE server = None
        <3>1. UNCHANGED <<status, engine, closedEngines>>
              /\ closes' = [closes EXCEPT ![p].at = "resolved"]
            BY <2>2 DEF Close
        <3>2. closes \in [Closers -> CloseType]
            BY <1>1 DEF ServerOK
        <3>3. closes' \in [Closers -> CloseType]
            <4>1. [closes[p] EXCEPT !.at = "resolved"] \in CloseType
                BY <3>2 DEF CloseType
            <4>2. closes' = [closes EXCEPT ![p] = [closes[p] EXCEPT !.at = "resolved"]]
                BY <3>1
            <4>. QED
                BY <3>2, <4>1, <4>2
        <3>. QED
            BY <1>1, <2>1, <3>1, <3>3 DEF ServerOK, EnginesInOrder
    <2>3. CASE server # None /\ engine # None
        <3>1. /\ engine' = None /\ closedEngines' = closedEngines \cup {engine}
              /\ closes' = [closes EXCEPT ![p] = [at |-> "engine", of |-> server, timer |-> FALSE]]
              /\ UNCHANGED status
            BY <2>3 DEF Close
        <3>2. [at |-> "engine", of |-> server, timer |-> FALSE] \in CloseType
            BY <1>1 DEF ServerOK, CloseType
        <3>3. closes' \in [Closers -> CloseType]
            BY <1>1, <3>1, <3>2 DEF ServerOK
        <3>. QED
            BY <1>1, <2>1, <2>3, <3>1, <3>3 DEF ServerOK, EnginesInOrder
    <2>4. CASE server # None /\ engine = None
        <3>1. engine' = None /\ closedEngines' = closedEngines /\ StopServer(p, server)
            BY <2>4 DEF Close
        <3>2. status' \in [Servers -> Statuses] /\ closes' \in [Closers -> CloseType]
            <4>1. server \in Servers \cup {None}
                BY <1>1 DEF ServerOK
            <4>. QED
                BY <1>1, <3>1, <4>1, StopServerFacts
        <3>. QED
            BY <1>1, <2>1, <3>1, <3>2 DEF ServerOK, EnginesInOrder
    <2>. QED
        BY <2>2, <2>3, <2>4
<1>. QED
    BY <1>3, <1>4, <1>5, InvPartsNext

LEMMA EngineClosedInv ==
    ASSUME Inv, NEW p \in Closers, EngineClosed(p)
    PROVE  Inv'
<1>1. ServerOK
    BY InvParts
<1>2. closes[p].of \in Servers \cup {None}
    BY <1>1 DEF ServerOK, CloseType
<1>3. status' \in [Servers -> Statuses] /\ closes' \in [Closers -> CloseType]
    BY <1>1, <1>2, StopServerFacts DEF EngineClosed
<1>4. ServerOK'
    BY <1>1, <1>3 DEF ServerOK, EngineClosed, engineVars
<1>5. ConnsOK' /\ EnginesInOrder' /\ ServedWithEngine'
    BY InvParts DEF EngineClosed, engineVars, ConnsOK, EnginesInOrder, ServedWithEngine
<1>. QED
    BY <1>4, <1>5, InvPartsNext

LEMMA TimerFiresInv ==
    ASSUME Inv, NEW p \in Closers, TimerFires(p)
    PROVE  Inv'
<1>1. ServerOK /\ EnginesInOrder /\ ConnsOK /\ ServedWithEngine
    BY InvParts
<1>2. conns' = DestroyAll /\ UNCHANGED <<serverVars, engineVars>>
      /\ closes' = [closes EXCEPT ![p].timer = FALSE]
    BY DEF TimerFires
<1>3. \A c \in Conns : ConnOK(conns'[c]) /\ conns'[c].sock # "open"
    <2>. SUFFICES ASSUME NEW c \in Conns PROVE ConnOK(conns'[c]) /\ conns'[c].sock # "open"
        OBVIOUS
    <2>1. conns[c] \in ConnType /\ ConnOK(conns[c])
        BY <1>1 DEF ConnsOK
    <2>2. conns'[c] = IF conns[c].tracked THEN Gone(conns[c]) ELSE conns[c]
        BY <1>2 DEF DestroyAll
    <2>3. CASE conns[c].tracked
        BY <2>1, <2>2, <2>3, GoneFacts DEF ConnOK
    <2>4. CASE ~conns[c].tracked
        BY <2>1, <2>2, <2>4 DEF ConnOK
    <2>. QED
        BY <2>3, <2>4
<1>4. ConnsOK'
    <2>1. conns' = [c \in Conns |-> IF conns[c].tracked THEN Gone(conns[c]) ELSE conns[c]]
        BY <1>2 DEF DestroyAll
    <2>2. \A c \in Conns : conns'[c] \in ConnType
        BY <1>3 DEF ConnOK
    <2>3. conns' \in [Conns -> ConnType]
        BY <2>1, <2>2
    <2>. QED
        BY <1>3, <2>3 DEF ConnsOK
<1>5. ServerOK'
    <2>1. closes \in [Closers -> CloseType]
        BY <1>1 DEF ServerOK
    <2>2. [closes[p] EXCEPT !.timer = FALSE] \in CloseType
        BY <2>1 DEF CloseType
    <2>3. closes' = [closes EXCEPT ![p] = [closes[p] EXCEPT !.timer = FALSE]]
        BY <1>2
    <2>4. closes' \in [Closers -> CloseType]
        BY <2>1, <2>2, <2>3
    <2>. QED
        BY <1>1, <1>2, <2>4 DEF ServerOK, serverVars, engineVars
<1>6. EnginesInOrder' /\ ServedWithEngine'
    BY <1>1, <1>2, <1>3 DEF EnginesInOrder, ServedWithEngine, engineVars
<1>. QED
    BY <1>4, <1>5, <1>6, InvPartsNext

LEMMA ServerClosedInv ==
    ASSUME Inv, NEW p \in Closers, ServerClosed(p)
    PROVE  Inv'
<1>1. ServerOK
    BY InvParts
<1>2. closes' \in [Closers -> CloseType]
    <2>1. closes \in [Closers -> CloseType]
        BY <1>1 DEF ServerOK
    <2>2. [closes[p] EXCEPT !.at = "resolved", !.timer = FALSE] \in CloseType
        BY <2>1 DEF CloseType
    <2>3. closes' = [closes EXCEPT ![p] = [closes[p] EXCEPT !.at = "resolved", !.timer = FALSE]]
        BY <2>1 DEF ServerClosed
    <2>. QED
        BY <2>1, <2>2, <2>3
<1>3. ServerOK'
    BY <1>1, <1>2 DEF ServerOK, ServerClosed, serverVars, engineVars
<1>4. ConnsOK' /\ EnginesInOrder' /\ ServedWithEngine'
    BY InvParts DEF ServerClosed, engineVars, ConnsOK, EnginesInOrder, ServedWithEngine
<1>. QED
    BY <1>3, <1>4, InvPartsNext

-----------------------------------------------------------------------------
(* The theorems                                                            *)

LEMMA InitInv == Init => Inv
<1>. SUFFICES ASSUME Init PROVE Inv
    OBVIOUS
<1>1. NoConn \in ConnType /\ ConnOK(NoConn) /\ NoConn.replicated = FALSE
    <2>1. NoConn \in ConnType
        BY EmptySeq DEF NoConn, ConnType
    <2>2. /\ NoConn.read = 0 /\ NoConn.stream = <<>> /\ NoConn.tracked = FALSE
          /\ NoConn.sock = "none" /\ NoConn.replicated = FALSE
        BY DEF NoConn
    <2>3. Len(<<>>) = 0
        BY EmptySeq
    <2>. HIDE DEF NoConn
    <2>. QED
        BY <2>1, <2>2, <2>3 DEF ConnOK
<1>2. ConnsOK
    <2>. HIDE DEF NoConn
    <2>. QED
        BY <1>1 DEF Init, ConnsOK
<1>3. engines \in 0..MaxEngines /\ engine \in Engines \cup {None}
      /\ (engine # None => engine \in 1..engines)
    BY ServerAssumption DEF Init, Engines, None
<1>4. ServerOK
    <2>1. [at |-> "none", of |-> None, timer |-> FALSE] \in CloseType
        BY DEF CloseType
    <2>2. closes \in [Closers -> CloseType]
        BY <2>1 DEF Init
    <2>3. server \in Servers \cup {None} /\ status \in [Servers -> Statuses]
          /\ closing \in BOOLEAN /\ closedEngines \subseteq Engines
        BY DEF Init, Statuses
    <2>. QED
        BY <1>3, <2>2, <2>3 DEF ServerOK
<1>5. EnginesInOrder
    BY <1>3 DEF Init, EnginesInOrder
<1>6. ServedWithEngine
    <2>. HIDE DEF NoConn
    <2>. QED
        BY <1>1 DEF Init, ServedWithEngine
<1>. QED
    BY <1>2, <1>4, <1>5, <1>6, InvParts

LEMMA NextInv == Inv /\ [Next]_vars => Inv'
<1>. SUFFICES ASSUME Inv, [Next]_vars PROVE Inv'
    OBVIOUS
<1>1. CASE UNCHANGED vars
    BY <1>1, InvParts, InvPartsNext
       DEF vars, serverVars, engineVars, ServerOK, ConnsOK, EnginesInOrder, ServedWithEngine
<1>2. ASSUME NEW c \in Conns, NEW s \in Servers, NEW stream \in Streams[c], Connect(c, s, stream)
      PROVE  Inv'
    BY <1>2, ConnectInv
<1>3. ASSUME NEW c \in Conns, NEW n \in 1..Len(conns[c].stream), Data(c, n)
      PROVE  Inv'
    <2>1. n \in Nat \ {0}
        OBVIOUS
    <2>. QED
        BY <1>3, <2>1, DataInv
<1>4. ASSUME NEW c \in Conns, Timeout(c) PROVE Inv'
    BY <1>4, TimeoutInv
<1>5. ASSUME NEW c \in Conns, PeerGoes(c) PROVE Inv'
    BY <1>5, PeerGoesInv
<1>6. ASSUME NEW s \in Servers, Listen(s) PROVE Inv'
    BY <1>6, ListenInv
<1>7. ASSUME NEW s \in Servers, ListenEnds(s) PROVE Inv'
    BY <1>7, ListenEndsInv
<1>8. CASE EnableReplication
    BY <1>8, EnableReplicationInv
<1>9. ASSUME NEW p \in Closers, Close(p) PROVE Inv'
    BY <1>9, CloseInv
<1>10. ASSUME NEW p \in Closers, EngineClosed(p) PROVE Inv'
    BY <1>10, EngineClosedInv
<1>11. ASSUME NEW p \in Closers, TimerFires(p) PROVE Inv'
    BY <1>11, TimerFiresInv
<1>12. ASSUME NEW p \in Closers, ServerClosed(p) PROVE Inv'
    BY <1>12, ServerClosedInv
<1>. QED
    BY <1>1, <1>2, <1>3, <1>4, <1>5, <1>6, <1>7, <1>8, <1>9, <1>10, <1>11, <1>12 DEF Next

\* Every state of every run satisfies the inductive invariant.
THEOREM Safety == Spec => []Inv
BY InitInv, NextInv, PTL DEF Spec

\* #sockets holds the connections that are not gone and no others, whatever opens, ends, times
\* out or is destroyed (server.js:178-236).
THEOREM TypeCorrect == Spec => []TypeOK
<1>1. Inv => TypeOK
    BY DEF Inv
<1>. QED
    BY Safety, <1>1, PTL

\* However a stream is cut into chunks, the lines a served connection got answers for are those
\* its stream has, in order (server.js:194-230).
THEOREM FramingIsExactHolds == Spec => []FramingIsExact
<1>1. Inv => FramingIsExact
    BY DEF Inv
<1>. QED
    BY Safety, <1>1, PTL

\* No write on a replicating connection is answered without an open engine that took it, whatever
\* closes or replaces the engine (server.js:139-153).
THEOREM AnsweredWritesAreHandedOverHolds == Spec => []AnsweredWritesAreHandedOver
<1>1. Inv => AnsweredWritesAreHandedOver
    BY DEF Inv
<1>. QED
    BY Safety, <1>1, PTL
=============================================================================
