-------------------------- MODULE SubsequenceProofs --------------------------
(***************************************************************************)
(* What Only does to the sequences the components are built from: nothing  *)
(* is left of an empty one, one that grows adds its new entry if that is   *)
(* in the set, and a concatenation is kept part by part; and the same of   *)
(* FlattenSeq, which concatenates the sequences of a sequence.             *)
(***************************************************************************)
EXTENDS Subsequences, SequencesExt, SequenceTheorems, WellFoundedInduction, TLAPS

-----------------------------------------------------------------------------
(* Induction, for a set of numbers and for a set of sequences: a set of    *)
(* naturals that is not empty has a least element, one that is closed      *)
(* under the successor and has 0 holds them all.                           *)

LEMMA LeastElement ==
    ASSUME NEW T \in SUBSET Nat, T # {}
    PROVE  \E n \in T : \A m \in T : n <= m
<1> DEFINE R == {ss \in Nat \X Nat : ss[1] < ss[2]}
<1>1. IsWellFoundedOn(R, Nat)
  BY NatLessThanWellFounded, Zenon DEF OpToRel
<1>2. \E n \in T : \A m \in T : <<m, n>> \notin R
  <2> HIDE DEF R
  <2> QED BY <1>1, WFMin
<1>3. \A m, n \in Nat : m < n => <<m, n>> \in R
  <2> TAKE m, n \in Nat
  <2> HAVE m < n
  <2>1. <<m, n>> \in Nat \X Nat /\ <<m, n>>[1] = m /\ <<m, n>>[2] = n
    OBVIOUS
  <2> QED BY <2>1, Zenon
<1> HIDE DEF R
<1>4. PICK n \in T : \A m \in T : <<m, n>> \notin R
  BY <1>2
<1>5. ASSUME NEW m \in T PROVE n <= m
  <2>1. ~(m < n)
    BY <1>3, <1>4
  <2> QED BY <2>1
<1> QED BY <1>5

LEMMA NaturalsInSet ==
    ASSUME NEW T, 0 \in T, \A n \in Nat : n \in T => n + 1 \in T
    PROVE  Nat \subseteq T
<1> SUFFICES ASSUME Nat \ T # {} PROVE FALSE
  OBVIOUS
<1>1. PICK n \in Nat \ T : \A m \in Nat \ T : n <= m
  BY LeastElement
<1>2. n - 1 \in Nat /\ n - 1 \notin Nat \ T
  BY <1>1
<1> QED BY <1>2

LEMMA SequencesInSet ==
    ASSUME NEW S, NEW T, <<>> \in T,
           \A s \in Seq(S), e \in S : s \in T => Append(s, e) \in T
    PROVE  Seq(S) \subseteq T
<1> DEFINE N == {n \in Nat : \A s \in Seq(S) : Len(s) = n => s \in T}
<1>1. 0 \in N
  BY EmptySeq
<1>2. ASSUME NEW n \in Nat, n \in N
      PROVE  n + 1 \in N
  <2> SUFFICES ASSUME NEW s \in Seq(S), Len(s) = n + 1 PROVE s \in T
    OBVIOUS
  <2> DEFINE f == SubSeq(s, 1, n)
  <2>1. f \in Seq(S) /\ Len(f) = n /\ s[n + 1] \in S /\ s = Append(f, s[n + 1])
    OBVIOUS
  <2>2. f \in T
    BY <1>2, <2>1
  <2> QED BY <2>1, <2>2
<1> HIDE DEF N
<1>3. Nat \subseteq N
  BY <1>1, <1>2, NaturalsInSet
<1> QED BY <1>3, LenProperties DEF N

-----------------------------------------------------------------------------
(* The recursion Only is defined by has a solution, and what it is up to   *)
(* an entry depends on the entries up to there.                            *)

Sieves(f, s, K) ==
    f = [i \in 0 .. Len(s) |->
            IF i = 0 THEN <<>>
            ELSE IF s[i] \in K THEN Append(f[i - 1], s[i])
            ELSE f[i - 1]]

LEMMA SieveAt ==
    ASSUME NEW f, NEW s, NEW K, Sieves(f, s, K), NEW i \in 0 .. Len(s)
    PROVE  f[i] = IF i = 0 THEN <<>>
                  ELSE IF s[i] \in K THEN Append(f[i - 1], s[i])
                  ELSE f[i - 1]
<1> DEFINE g == [j \in 0 .. Len(s) |->
                    IF j = 0 THEN <<>>
                    ELSE IF s[j] \in K THEN Append(f[j - 1], s[j])
                    ELSE f[j - 1]]
<1>1. f = g
  BY Zenon DEF Sieves
<1>2. g[i] = IF i = 0 THEN <<>>
             ELSE IF s[i] \in K THEN Append(f[i - 1], s[i])
             ELSE f[i - 1]
  BY Zenon
<1> HIDE DEF g
<1>3. f[i] = g[i]
  BY <1>1, Zenon
<1> QED BY <1>2, <1>3, Zenon

LEMMA SieveGrows ==
    ASSUME NEW S, NEW K, NEW s \in Seq(S), NEW e \in S, NEW f, Sieves(f, s, K)
    PROVE  LET n == Len(s) + 1
               g == [i \in 0 .. n |->
                        IF i < n THEN f[i]
                        ELSE IF e \in K THEN Append(f[n - 1], e) ELSE f[n - 1]]
           IN  Sieves(g, Append(s, e), K)
<1> DEFINE n == Len(s) + 1
           t == Append(s, e)
           g == [i \in 0 .. n |->
                    IF i < n THEN f[i]
                    ELSE IF e \in K THEN Append(f[n - 1], e) ELSE f[n - 1]]
<1>1. n \in Nat /\ n > 0 /\ Len(t) = n /\ t[n] = e /\ \A i \in 1 .. n - 1 : t[i] = s[i]
  OBVIOUS
<1>2. ASSUME NEW i \in 0 .. n
      PROVE  g[i] = IF i = 0 THEN <<>>
                    ELSE IF t[i] \in K THEN Append(g[i - 1], t[i])
                    ELSE g[i - 1]
  <2>1. CASE i = n
    BY <2>1, <1>1
  <2>2. CASE i = 0
    BY <2>2, <1>1 DEF Sieves
  <2>3. CASE 0 < i /\ i < n
    <3>1. g[i] = f[i] /\ g[i - 1] = f[i - 1] /\ i \in 0 .. Len(s) /\ t[i] = s[i]
      BY <2>3, <1>1
    <3>2. f[i] = IF s[i] \in K THEN Append(f[i - 1], s[i]) ELSE f[i - 1]
      <4>1. i # 0
        BY <2>3
      <4> QED BY <3>1, <4>1, SieveAt
    <3> QED BY <2>3, <3>1, <3>2
  <2> QED BY <2>1, <2>2, <2>3, <1>1
<1> HIDE DEF g, t
<1>3. g = [i \in 0 .. Len(t) |->
             IF i = 0 THEN <<>>
             ELSE IF t[i] \in K THEN Append(g[i - 1], t[i])
             ELSE g[i - 1]]
  <2>1. g = [i \in 0 .. n |-> g[i]]
    BY DEF g
  <2> QED BY <2>1, <1>1, <1>2
<1> QED BY <1>3 DEF Sieves, g, t

LEMMA SieveExists ==
    ASSUME NEW S, NEW K, NEW s \in Seq(S)
    PROVE  \E f : Sieves(f, s, K)
<1> DEFINE T == {t \in Seq(S) : \E f : Sieves(f, t, K)}
<1>1. <<>> \in T
  <2>1. Sieves([i \in 0 .. 0 |-> <<>>], <<>>, K)
    BY DEF Sieves
  <2> QED BY <2>1, EmptySeq
<1>2. ASSUME NEW t \in Seq(S), NEW e \in S, t \in T
      PROVE  Append(t, e) \in T
  <2>1. PICK f : Sieves(f, t, K)
    BY <1>2
  <2>2. \E g : Sieves(g, Append(t, e), K)
    BY <2>1, SieveGrows
  <2> QED BY <2>2
<1> HIDE DEF T
<1>3. Seq(S) \subseteq T
  BY <1>1, <1>2, SequencesInSet
<1> QED BY <1>3 DEF T

LEMMA SieveUnique ==
    ASSUME NEW s, Len(s) \in Nat, NEW K, NEW f, NEW g, Sieves(f, s, K), Sieves(g, s, K)
    PROVE  f[Len(s)] = g[Len(s)]
<1> DEFINE T == {n \in Nat : n <= Len(s) => f[n] = g[n]}
<1>1. 0 \in T
  BY DEF Sieves
<1>2. ASSUME NEW n \in Nat, n \in T
      PROVE  n + 1 \in T
  <2> SUFFICES ASSUME n + 1 <= Len(s) PROVE f[n + 1] = g[n + 1]
    OBVIOUS
  <2>1. f[n] = g[n] /\ n + 1 \in 0 .. Len(s) /\ n + 1 # 0 /\ n + 1 - 1 = n
    BY <1>2
  <2>2. f[n + 1] = IF s[n + 1] \in K THEN Append(f[n], s[n + 1]) ELSE f[n]
    BY <2>1, SieveAt
  <2>3. g[n + 1] = IF s[n + 1] \in K THEN Append(g[n], s[n + 1]) ELSE g[n]
    BY <2>1, SieveAt
  <2> QED BY <2>1, <2>2, <2>3
<1> HIDE DEF T
<1>3. Nat \subseteq T
  BY <1>1, <1>2, NaturalsInSet
<1> QED BY <1>3 DEF T

LEMMA OnlySieves ==
    ASSUME NEW S, NEW K, NEW s \in Seq(S), NEW f, Sieves(f, s, K)
    PROVE  Only(s, K) = f[Len(s)]
<1> DEFINE h == CHOOSE g : Sieves(g, s, K)
<1>1. Only(s, K) = h[Len(s)]
  BY DEF Only, Sieves
<1>2. Sieves(h, s, K)
  OBVIOUS
<1>3. Len(s) \in Nat
  OBVIOUS
<1> HIDE DEF h
<1> QED BY <1>1, <1>2, <1>3, SieveUnique

-----------------------------------------------------------------------------
(* The facts about Only.                                                   *)

LEMMA OnlyOfEmpty ==
    ASSUME NEW K
    PROVE  Only(<<>>, K) = <<>>
<1>1. Sieves([i \in 0 .. 0 |-> <<>>], <<>>, K)
  BY DEF Sieves
<1>2. <<>> \in Seq({})
  OBVIOUS
<1>3. Only(<<>>, K) = [i \in 0 .. 0 |-> <<>>][Len(<<>>)]
  BY <1>1, <1>2, OnlySieves
<1> QED BY <1>3

LEMMA OnlyOfAppend ==
    ASSUME NEW S, NEW K, NEW s \in Seq(S), NEW e \in S
    PROVE  /\ e \in K => Only(Append(s, e), K) = Append(Only(s, K), e)
           /\ e \notin K => Only(Append(s, e), K) = Only(s, K)
<1> DEFINE n == Len(s) + 1
<1>1. PICK f : Sieves(f, s, K)
  BY SieveExists
<1> DEFINE g == [i \in 0 .. n |->
                    IF i < n THEN f[i]
                    ELSE IF e \in K THEN Append(f[n - 1], e) ELSE f[n - 1]]
<1>2. Sieves(g, Append(s, e), K)
  BY <1>1, SieveGrows
<1>3. Append(s, e) \in Seq(S) /\ Len(Append(s, e)) = n /\ n \in Nat /\ n - 1 = Len(s)
  OBVIOUS
<1>4. Only(s, K) = f[n - 1]
  BY <1>1, <1>3, OnlySieves
<1>5. g[n] = IF e \in K THEN Append(f[n - 1], e) ELSE f[n - 1]
  BY <1>3
<1> HIDE DEF g
<1>6. Only(Append(s, e), K) = g[n]
  BY <1>2, <1>3, OnlySieves
<1> QED BY <1>4, <1>5, <1>6

LEMMA OnlyTyped ==
    ASSUME NEW S, NEW K, NEW s \in Seq(S)
    PROVE  Only(s, K) \in Seq(S \cap K) /\ Only(s, K) \in Seq(S)
<1> DEFINE R == S \cap K
           T == {t \in Seq(S) : Only(t, K) \in Seq(R)}
<1>1. <<>> \in T
  BY OnlyOfEmpty, EmptySeq
<1>2. ASSUME NEW t \in Seq(S), NEW e \in S, t \in T
      PROVE  Append(t, e) \in T
  <2>1. Only(t, K) \in Seq(R)
    BY <1>2
  <2>2. /\ e \in K => Only(Append(t, e), K) = Append(Only(t, K), e)
        /\ e \notin K => Only(Append(t, e), K) = Only(t, K)
    BY OnlyOfAppend
  <2>3. e \in K => e \in R
    OBVIOUS
  <2>4. Append(t, e) \in Seq(S)
    OBVIOUS
  <2> HIDE DEF R
  <2>5. Only(Append(t, e), K) \in Seq(R)
    BY SMTT(30), <2>1, <2>2, <2>3
  <2> QED BY <2>4, <2>5
<1> HIDE DEF T
<1>3. Seq(S) \subseteq T
  BY <1>1, <1>2, SequencesInSet
<1>4. Only(s, K) \in Seq(R)
  BY <1>3 DEF T
<1>5. Seq(R) \subseteq Seq(S)
  OBVIOUS
<1> QED BY <1>4, <1>5

LEMMA OnlyOfConcat ==
    ASSUME NEW S, NEW K, NEW s \in Seq(S), NEW t \in Seq(S)
    PROVE  Only(s \o t, K) = Only(s, K) \o Only(t, K)
<1> DEFINE T == {u \in Seq(S) : Only(s \o u, K) = Only(s, K) \o Only(u, K)}
<1>0. Only(s, K) \in Seq(S)
  BY OnlyTyped
<1>1. <<>> \in T
  <2>1. s \o <<>> = s
    OBVIOUS
  <2>2. Only(s, K) \o <<>> = Only(s, K)
    BY <1>0
  <2> QED BY <2>1, <2>2, OnlyOfEmpty, EmptySeq
<1>2. ASSUME NEW u \in Seq(S), NEW e \in S, u \in T
      PROVE  Append(u, e) \in T
  <2> DEFINE a == Only(s, K)
             b == Only(u, K)
  <2>0. a \in Seq(S) /\ b \in Seq(S)
    BY OnlyTyped
  <2>9. s \o u \in Seq(S) /\ Append(u, e) \in Seq(S)
    OBVIOUS
  <2>1. s \o Append(u, e) = Append(s \o u, e)
    OBVIOUS
  <2>2. Only(s \o u, K) = a \o b
    BY <1>2
  <2>3. /\ e \in K => Only(s \o Append(u, e), K) = Append(a \o b, e)
        /\ e \notin K => Only(s \o Append(u, e), K) = a \o b
    <3>1. /\ e \in K => Only(Append(s \o u, e), K) = Append(Only(s \o u, K), e)
          /\ e \notin K => Only(Append(s \o u, e), K) = Only(s \o u, K)
      BY <2>9, OnlyOfAppend, Zenon
    <3> QED BY <2>1, <2>2, <3>1, Zenon
  <2>4. /\ e \in K => Only(Append(u, e), K) = Append(b, e)
        /\ e \notin K => Only(Append(u, e), K) = b
    BY OnlyOfAppend
  <2> HIDE DEF a, b
  <2>5. a \o Append(b, e) = Append(a \o b, e)
    BY <2>0
  <2>6. Only(s \o Append(u, e), K) = a \o Only(Append(u, e), K)
    BY <2>3, <2>4, <2>5
  <2> QED BY <2>9, <2>6 DEF a
<1> HIDE DEF T
<1>3. Seq(S) \subseteq T
  BY <1>1, <1>2, SequencesInSet
<1> QED BY <1>3 DEF T

LEMMA OnlyOfHeadAndTail ==
    ASSUME NEW S, NEW K, NEW s \in Seq(S), s # <<>>
    PROVE  Only(s, K) = (IF Head(s) \in K THEN <<Head(s)>> ELSE <<>>) \o Only(Tail(s), K)
<1>1. /\ Head(s) \in S /\ Tail(s) \in Seq(S) /\ <<Head(s)>> \in Seq(S)
      /\ s = <<Head(s)>> \o Tail(s) /\ <<Head(s)>> = Append(<<>>, Head(s))
  OBVIOUS
<1>2. Only(<<Head(s)>>, K) = IF Head(s) \in K THEN <<Head(s)>> ELSE <<>>
  <2>1. /\ Head(s) \in K => Only(Append(<<>>, Head(s)), K) = Append(Only(<<>>, K), Head(s))
        /\ Head(s) \notin K => Only(Append(<<>>, Head(s)), K) = Only(<<>>, K)
    <3>1. <<>> \in Seq(S)
      OBVIOUS
    <3> QED BY <1>1, <3>1, OnlyOfAppend, Zenon
  <2>2. Append(<<>>, Head(s)) = <<Head(s)>>
    OBVIOUS
  <2> QED BY <2>1, <2>2, OnlyOfEmpty
<1>3. Only(<<Head(s)>> \o Tail(s), K) = Only(<<Head(s)>>, K) \o Only(Tail(s), K)
  BY <1>1, OnlyOfConcat
<1> QED BY <1>1, <1>2, <1>3

(* Sets that agree on the entries keep the same.                           *)
LEMMA OnlyDependsOnEntries ==
    ASSUME NEW S, NEW K, NEW L, NEW s \in Seq(S),
           \A i \in 1 .. Len(s) : s[i] \in K <=> s[i] \in L
    PROVE  Only(s, K) = Only(s, L)
<1> DEFINE T == {t \in Seq(S) : (\A i \in 1 .. Len(t) : t[i] \in K <=> t[i] \in L)
                                   => Only(t, K) = Only(t, L)}
<1>1. <<>> \in T
  BY OnlyOfEmpty
<1>2. ASSUME NEW t \in Seq(S), NEW e \in S, t \in T
      PROVE  Append(t, e) \in T
  <2>0. Append(t, e) \in Seq(S)
    OBVIOUS
  <2> SUFFICES ASSUME \A i \in 1 .. Len(Append(t, e)) :
                          Append(t, e)[i] \in K <=> Append(t, e)[i] \in L
               PROVE  Only(Append(t, e), K) = Only(Append(t, e), L)
    BY <2>0, Zenon
  <2>1. /\ \A i \in 1 .. Len(t) : t[i] \in K <=> t[i] \in L
        /\ e \in K <=> e \in L
    <3>1. Len(Append(t, e)) = Len(t) + 1 /\ Append(t, e)[Len(t) + 1] = e
          /\ \A i \in 1 .. Len(t) : Append(t, e)[i] = t[i] /\ Len(t) \in Nat
      OBVIOUS
    <3> QED BY <3>1
  <2>2. Only(t, K) = Only(t, L)
    BY <1>2, <2>1
  <2>3. /\ e \in K => Only(Append(t, e), K) = Append(Only(t, K), e)
        /\ e \notin K => Only(Append(t, e), K) = Only(t, K)
    BY OnlyOfAppend, Zenon
  <2>4. /\ e \in L => Only(Append(t, e), L) = Append(Only(t, L), e)
        /\ e \notin L => Only(Append(t, e), L) = Only(t, L)
    BY OnlyOfAppend, Zenon
  <2> QED BY <2>1, <2>2, <2>3, <2>4
<1> HIDE DEF T
<1>3. Seq(S) \subseteq T
  BY <1>1, <1>2, SequencesInSet
<1> QED BY <1>3 DEF T

(* What is kept twice is what is kept of the intersection.                 *)
LEMMA OnlyOfOnly ==
    ASSUME NEW S, NEW K, NEW L, NEW s \in Seq(S)
    PROVE  Only(Only(s, K), L) = Only(s, K \cap L)
<1> DEFINE T == {t \in Seq(S) : Only(Only(t, K), L) = Only(t, K \cap L)}
<1>1. <<>> \in T
  BY OnlyOfEmpty
<1>2. ASSUME NEW t \in Seq(S), NEW e \in S, t \in T
      PROVE  Append(t, e) \in T
  <2>1. Only(t, K) \in Seq(S)
    BY OnlyTyped
  <2>2. /\ e \in K \cap L => Only(Append(t, e), K \cap L) = Append(Only(t, K \cap L), e)
        /\ e \notin K \cap L => Only(Append(t, e), K \cap L) = Only(t, K \cap L)
    BY OnlyOfAppend, Zenon
  <2>3. CASE e \in K
    <3>1. Only(Append(t, e), K) = Append(Only(t, K), e)
      BY <2>3, OnlyOfAppend
    <3>2. /\ e \in L => Only(Append(Only(t, K), e), L) = Append(Only(Only(t, K), L), e)
          /\ e \notin L => Only(Append(Only(t, K), e), L) = Only(Only(t, K), L)
      BY <2>1, OnlyOfAppend, Zenon
    <3>3. Only(Only(t, K), L) = Only(t, K \cap L) /\ Append(t, e) \in Seq(S)
      BY <1>2
    <3>4. Only(Only(Append(t, e), K), L) = Only(Append(t, e), K \cap L)
      BY <2>2, <2>3, <3>1, <3>2, <3>3, Zenon
    <3> QED BY <3>3, <3>4
  <2>4. CASE e \notin K
    <3>1. Only(Append(t, e), K) = Only(t, K)
      BY <2>4, OnlyOfAppend
    <3> QED BY <1>2, <2>2, <2>4, <3>1
  <2> QED BY <2>3, <2>4
<1> HIDE DEF T
<1>3. Seq(S) \subseteq T
  BY <1>1, <1>2, SequencesInSet
<1> QED BY <1>3 DEF T

-----------------------------------------------------------------------------
(* FlattenSeq concatenates the sequences of a sequence, from the left.     *)

Accumulates(h, ss, S) ==
    /\ h \in [0 .. Len(ss) -> Seq(S)]
    /\ h[0] = <<>>
    /\ \A i \in 1 .. Len(ss) : h[i] = h[i - 1] \o ss[i]

LEMMA FlattenIs ==
    ASSUME NEW S, NEW ss \in Seq(Seq(S)), NEW h, Accumulates(h, ss, S)
    PROVE  FlattenSeq(ss) = h[Len(ss)]
<1> USE DEF Accumulates
<1> DEFINE n == Len(ss)
<1>0. n \in Nat /\ \A i \in 1 .. n : ss[i] \in Seq(S)
  OBVIOUS
<1>00. ASSUME NEW j \in Nat, j + 1 \in 1 .. n
       PROVE  h[j + 1] = h[j] \o ss[j + 1]
  <2>1. \A m \in 1 .. n : h[m] = h[m - 1] \o ss[m]
    OBVIOUS
  <2>2. PICK m \in 1 .. n : m = j + 1
    BY <1>00
  <2>3. h[m] = h[m - 1] \o ss[m]
    BY <2>1
  <2>4. m - 1 = j
    BY <2>2
  <2> QED BY <2>2, <2>3, <2>4
<1>1. CASE n = 0
  <2>1. ss = <<>>
    BY <1>1
  <2> QED BY <2>1, <1>1 DEF FlattenSeq
<1>2. CASE n > 0
  <2> DEFINE Flat(f) == f = [i \in 1 .. n |-> IF i = 1 THEN ss[i] ELSE f[i - 1] \o ss[i]]
             k == [i \in 1 .. n |-> h[i]]
             c == CHOOSE f : Flat(f)
  <2>1. Flat(k)
    <3>1. ASSUME NEW i \in 1 .. n
          PROVE  k[i] = IF i = 1 THEN ss[i] ELSE k[i - 1] \o ss[i]
      <4>1. CASE i = 1
        <5>1. k[1] = h[0] \o ss[1]
          <6>1. 1 \in 1 .. n /\ 1 - 1 = 0
            BY <1>0, <1>2
          <6>2. h[1] = h[1 - 1] \o ss[1] /\ k[1] = h[1]
            BY <6>1
          <6> QED BY <6>1, <6>2
        <5>2. \A s \in Seq(S) : <<>> \o s = s
          OBVIOUS
        <5> QED BY <5>1, <5>2, <4>1, <1>0
      <4>2. CASE i # 1
        <5>1. i - 1 \in 1 .. n
          BY <4>2, <1>0
        <5> QED BY <5>1, <4>2
      <4> QED BY <4>1, <4>2
    <3> QED BY <3>1
  <2>2. Flat(c)
    BY <2>1
  <2>3. FlattenSeq(ss) = c[n]
    BY <1>2 DEF FlattenSeq
  <2> HIDE DEF c
  <2> DEFINE T == {i \in Nat : i \in 1 .. n => c[i] = h[i]}
  <2>4. 0 \in T
    OBVIOUS
  <2>5. ASSUME NEW i \in Nat, i \in T
        PROVE  i + 1 \in T
    <3> SUFFICES ASSUME i + 1 \in 1 .. n PROVE c[i + 1] = h[i + 1]
      OBVIOUS
    <3>1. c[i + 1] = IF i + 1 = 1 THEN ss[i + 1] ELSE c[i + 1 - 1] \o ss[i + 1]
      <4> DEFINE body == [j \in 1 .. n |-> IF j = 1 THEN ss[j] ELSE c[j - 1] \o ss[j]]
      <4>1. c = body
        BY <2>2
      <4>2. body[i + 1] = IF i + 1 = 1 THEN ss[i + 1] ELSE c[i + 1 - 1] \o ss[i + 1]
        OBVIOUS
      <4> HIDE DEF body
      <4> QED BY <4>1, <4>2, Zenon
    <3>2. h[i + 1] = h[i] \o ss[i + 1] /\ ss[i + 1] \in Seq(S)
      <4>1. ss[i + 1] \in Seq(S)
        BY <1>0
      <4> QED BY <4>1, <1>00
    <3>3. CASE i = 0
      <4>1. \A s \in Seq(S) : <<>> \o s = s
        OBVIOUS
      <4>2. i + 1 = 1 /\ h[i] = <<>>
        BY <3>3
      <4>3. c[i + 1] = ss[i + 1]
        BY <4>2, <3>1
      <4>4. h[i + 1] = <<>> \o ss[i + 1]
        BY <4>2, <3>2
      <4> QED BY <4>1, <4>3, <4>4, <3>2
    <3>4. CASE i # 0
      <4>1. i \in 1 .. n /\ i + 1 # 1 /\ i + 1 - 1 = i
        BY <3>4
      <4>2. c[i] = h[i]
        BY <4>1, <2>5
      <4> QED BY <4>1, <4>2, <3>1, <3>2
    <3> QED BY <3>3, <3>4
  <2> HIDE DEF T
  <2>6. Nat \subseteq T
    BY <2>4, <2>5, NaturalsInSet
  <2>7. n \in 1 .. n
    BY <1>0, <1>2
  <2> QED BY <2>3, <2>6, <2>7, <1>0 DEF T
<1> QED BY <1>0, <1>1, <1>2

LEMMA OneConcatMore ==
    ASSUME NEW S, NEW ss \in Seq(Seq(S)), NEW e \in Seq(S),
           NEW h, Accumulates(h, ss, S)
    PROVE  \E g : Accumulates(g, Append(ss, e), S) /\ g[Len(Append(ss, e))] = h[Len(ss)] \o e
<1> DEFINE n == Len(ss)
           tt == Append(ss, e)
<1>1. /\ h \in [0 .. n -> Seq(S)] /\ h[0] = <<>>
      /\ \A i \in 1 .. n : h[i] = h[i - 1] \o ss[i]
  BY DEF Accumulates
<1>3. /\ n \in Nat /\ Len(tt) = n + 1 /\ tt[n + 1] = e
      /\ \A i \in 1 .. n : tt[i] = ss[i]
  OBVIOUS
<1> DEFINE g == [i \in 0 .. n + 1 |-> IF i <= n THEN h[i] ELSE h[n] \o e]
<1>4. h[n] \in Seq(S) /\ h[n] \o e \in Seq(S)
  BY <1>1, <1>3
<1>5. g \in [0 .. n + 1 -> Seq(S)] /\ g[0] = <<>> /\ g[n + 1] = h[n] \o e
  BY <1>1, <1>3, <1>4
<1>6. ASSUME NEW i \in 1 .. n + 1
      PROVE  g[i] = g[i - 1] \o tt[i]
  <2>1. CASE i <= n
    <3>1. i \in 1 .. n /\ g[i] = h[i] /\ g[i - 1] = h[i - 1]
      BY <2>1, <1>3
    <3> QED BY <3>1, <1>1, <1>3
  <2>2. CASE i = n + 1
    <3>1. g[i] = h[n] \o e /\ g[i - 1] = h[n]
      BY <2>2, <1>3
    <3> QED BY <3>1, <2>2, <1>3
  <2>3. i <= n \/ i = n + 1
    BY <1>3
  <2> QED BY <2>1, <2>2, <2>3, Zenon
<1> HIDE DEF g, tt
<1>7. g \in [0 .. Len(tt) -> Seq(S)] /\ g[Len(tt)] = h[n] \o e
  BY <1>3, <1>5
<1>8. \A i \in 1 .. Len(tt) : g[i] = g[i - 1] \o tt[i]
  BY <1>3, <1>6
<1>9. Accumulates(g, tt, S)
  BY <1>5, <1>7, <1>8 DEF Accumulates
<1> QED BY <1>7, <1>9, Zenon DEF tt, n

LEMMA Flattening ==
    ASSUME NEW S, NEW ss \in Seq(Seq(S))
    PROVE  \E h : Accumulates(h, ss, S)
<1> DEFINE T == {t \in Seq(Seq(S)) : \E h : Accumulates(h, t, S)}
<1>1. <<>> \in T
  <2> DEFINE h == [i \in 0 .. 0 |-> <<>>]
  <2>1. h \in [0 .. 0 -> Seq(S)] /\ h[0] = <<>> /\ Len(<<>>) = 0 /\ 1 .. 0 = {}
    OBVIOUS
  <2> HIDE DEF h
  <2>2. Accumulates(h, <<>>, S)
    BY <2>1 DEF Accumulates
  <2> QED BY <2>2
<1>2. ASSUME NEW t \in Seq(Seq(S)), NEW e \in Seq(S), t \in T
      PROVE  Append(t, e) \in T
  <2>1. PICK h : Accumulates(h, t, S)
    BY <1>2
  <2>2. \E g : Accumulates(g, Append(t, e), S)
    BY <2>1, OneConcatMore, Zenon
  <2>3. Append(t, e) \in Seq(Seq(S))
    OBVIOUS
  <2> QED BY <2>2, <2>3
<1> HIDE DEF T
<1>3. Seq(Seq(S)) \subseteq T
  BY <1>1, <1>2, SequencesInSet
<1> QED BY <1>3 DEF T

LEMMA FlattenTyped ==
    ASSUME NEW S, NEW ss \in Seq(Seq(S))
    PROVE  FlattenSeq(ss) \in Seq(S)
<1>1. PICK h : Accumulates(h, ss, S)
  BY Flattening
<1>2. FlattenSeq(ss) = h[Len(ss)]
  BY <1>1, FlattenIs
<1>3. h[Len(ss)] \in Seq(S)
  BY <1>1 DEF Accumulates
<1> QED BY <1>2, <1>3

LEMMA FlattenOfEmpty == FlattenSeq(<<>>) = <<>>
BY DEF FlattenSeq

LEMMA FlattenOfAppend ==
    ASSUME NEW S, NEW ss \in Seq(Seq(S)), NEW e \in Seq(S)
    PROVE  FlattenSeq(Append(ss, e)) = FlattenSeq(ss) \o e
<1>1. PICK h : Accumulates(h, ss, S)
  BY Flattening
<1>2. FlattenSeq(ss) = h[Len(ss)]
  BY <1>1, FlattenIs
<1>3. PICK g : Accumulates(g, Append(ss, e), S) /\ g[Len(Append(ss, e))] = h[Len(ss)] \o e
  BY <1>1, OneConcatMore, Zenon
<1>4. Append(ss, e) \in Seq(Seq(S))
  OBVIOUS
<1>5. FlattenSeq(Append(ss, e)) = g[Len(Append(ss, e))]
  BY <1>3, <1>4, FlattenIs, Zenon
<1> QED BY <1>2, <1>3, <1>5, Zenon

LEMMA OnlyOfWhole ==
    ASSUME NEW S, NEW s \in Seq(S)
    PROVE  Only(s, S) = s
<1> DEFINE T == {t \in Seq(S) : Only(t, S) = t}
<1>1. <<>> \in T
  BY OnlyOfEmpty, EmptySeq
<1>2. ASSUME NEW t \in Seq(S), NEW e \in S, t \in T
      PROVE  Append(t, e) \in T
  <2>1. Only(Append(t, e), S) = Append(Only(t, S), e)
    BY OnlyOfAppend, Zenon
  <2>2. Only(t, S) = t /\ Append(t, e) \in Seq(S)
    BY <1>2
  <2> QED BY <2>1, <2>2
<1> HIDE DEF T
<1>3. Seq(S) \subseteq T
  BY <1>1, <1>2, SequencesInSet
<1> QED BY <1>3 DEF T

-----------------------------------------------------------------------------
(* A function defined by recursion over 0 .. N exists, and what Only       *)
(* leaves of a sequence is embedded in it.                                 *)

(* A function on 0 .. N is given by its value at 0 and by how each further *)
(* value follows from the one before it.                                   *)
Recurs(f, base, g, N, V) ==
    /\ f \in [0 .. N -> V]
    /\ f[0] = base
    /\ \A k \in 1 .. N : f[k] = g[<<k, f[k - 1]>>]

LEMMA RecursionExists ==
    ASSUME NEW V, NEW N \in Nat, NEW base \in V, NEW g \in [(1 .. N) \X V -> V]
    PROVE  \E f : Recurs(f, base, g, N, V)
<1> DEFINE T == {n \in Nat : n <= N => \E f : Recurs(f, base, g, n, V)}
<1>1. 0 \in T
  <2> DEFINE f == [k \in 0 .. 0 |-> base]
  <2>1. Recurs(f, base, g, 0, V)
    BY DEF Recurs
  <2> QED BY <2>1
<1>2. ASSUME NEW n \in Nat, n \in T PROVE n + 1 \in T
  <2> SUFFICES ASSUME n + 1 <= N PROVE \E f : Recurs(f, base, g, n + 1, V)
    OBVIOUS
  <2>1. PICK f : Recurs(f, base, g, n, V)
    BY <1>2
  <2>2. n + 1 \in 1 .. N /\ f[n] \in V
    BY <2>1 DEF Recurs
  <2>3. g[<<n + 1, f[n]>>] \in V
    BY <2>2
  <2> DEFINE h == [k \in 0 .. n + 1 |-> IF k <= n THEN f[k] ELSE g[<<n + 1, f[n]>>]]
  <2>4. h \in [0 .. n + 1 -> V] /\ h[0] = base
    BY <2>1, <2>3 DEF Recurs
  <2>5. ASSUME NEW k \in 1 .. n + 1 PROVE h[k] = g[<<k, h[k - 1]>>]
    <3>1. CASE k <= n
      <4>1. k \in 1 .. n /\ h[k] = f[k] /\ h[k - 1] = f[k - 1]
        BY <3>1
      <4>2. f[k] = g[<<k, f[k - 1]>>]
        BY <4>1, <2>1 DEF Recurs
      <4> QED BY <4>1, <4>2
    <3>2. CASE k = n + 1
      <4>1. h[k] = g[<<n + 1, f[n]>>] /\ h[n] = f[n] /\ k - 1 = n
        BY <3>2
      <4> HIDE DEF h
      <4> QED BY <4>1, <3>2
    <3> QED BY <3>1, <3>2
  <2> HIDE DEF h
  <2> QED BY <2>4, <2>5 DEF Recurs
<1> HIDE DEF T
<1>3. N \in T
  BY <1>1, <1>2, NaturalsInSet
<1> QED BY <1>3 DEF T

(* What is left of a sequence stands in it, in the same order, and nothing *)
(* that is in the set is missing.                                          *)
Embeds(h, s, t, K) ==
    /\ h \in [1 .. Len(t) -> 1 .. Len(s)]
    /\ \A k \in 1 .. Len(t) : t[k] = s[h[k]] /\ s[h[k]] \in K
    /\ \A j, k \in 1 .. Len(t) : j < k => h[j] < h[k]
    /\ \A i \in 1 .. Len(s) : s[i] \in K => \E k \in 1 .. Len(t) : h[k] = i

LEMMA OnlyEmbeds ==
    ASSUME NEW S, NEW K, NEW s \in Seq(S)
    PROVE  \E h : Embeds(h, s, Only(s, K), K)
<1> DEFINE T == {r \in Seq(S) : \E h : Embeds(h, r, Only(r, K), K)}
<1>1. <<>> \in T
  <2> DEFINE h == [k \in 1 .. 0 |-> 0]
  <2>1. Embeds(h, <<>>, <<>>, K)
    BY DEF Embeds
  <2> QED BY <2>1, OnlyOfEmpty, EmptySeq
<1>2. ASSUME NEW r \in Seq(S), NEW e \in S, r \in T PROVE Append(r, e) \in T
  <2> DEFINE t == Only(r, K)
             q == Append(r, e)
             n == Len(t)
             m == Len(r)
  <2>1. PICK h : Embeds(h, r, t, K)
    BY <1>2
  <2>2. /\ t \in Seq(S) /\ n \in Nat /\ m \in Nat /\ q \in Seq(S) /\ Len(q) = m + 1
        /\ q[m + 1] = e /\ \A i \in 1 .. m : q[i] = r[i]
    <3>1. t \in Seq(S)
      BY OnlyTyped
    <3> HIDE DEF t
    <3> QED BY <3>1
  <2>3. /\ h \in [1 .. n -> 1 .. m]
        /\ \A k \in 1 .. n : t[k] = r[h[k]] /\ r[h[k]] \in K
        /\ \A j, k \in 1 .. n : j < k => h[j] < h[k]
        /\ \A i \in 1 .. m : r[i] \in K => \E k \in 1 .. n : h[k] = i
    BY <2>1 DEF Embeds
  <2>4. CASE e \notin K
    <3>1. Only(q, K) = t
      BY <2>4, OnlyOfAppend
    <3> HIDE DEF t, q, n, m
    <3>2. h \in [1 .. n -> 1 .. m + 1]
      BY <2>2, <2>3
    <3>3. \A k \in 1 .. n : t[k] = q[h[k]] /\ q[h[k]] \in K
      BY <2>2, <2>3
    <3>4. \A i \in 1 .. m + 1 : q[i] \in K => \E k \in 1 .. n : h[k] = i
      <4>1. \A i \in 1 .. m + 1 : i = m + 1 \/ i \in 1 .. m
        BY <2>2
      <4> QED BY <4>1, <2>2, <2>3, <2>4
    <3>5. Embeds(h, q, t, K)
      BY <3>2, <3>3, <3>4, <2>2, <2>3 DEF Embeds, n
    <3> QED BY <3>1, <3>5, <2>2 DEF q
  <2>5. CASE e \in K
    <3> DEFINE u == Append(t, e)
               g == [k \in 1 .. n + 1 |-> IF k <= n THEN h[k] ELSE m + 1]
    <3>1. Only(q, K) = u
      BY <2>5, OnlyOfAppend
    <3>2. Len(u) = n + 1 /\ u[n + 1] = e /\ \A k \in 1 .. n : u[k] = t[k]
      BY <2>2
    <3> HIDE DEF t, q, n, m, u
    <3>3. \A k \in 1 .. n + 1 : k = n + 1 \/ k \in 1 .. n
      BY <2>2
    <3>4. /\ g \in [1 .. n + 1 -> 1 .. m + 1] /\ g[n + 1] = m + 1
          /\ \A k \in 1 .. n : g[k] = h[k]
      BY <2>2, <2>3
    <3> HIDE DEF g
    <3>5. ASSUME NEW k \in 1 .. n + 1 PROVE u[k] = q[g[k]] /\ q[g[k]] \in K
      <4>1. CASE k = n + 1
        BY <4>1, <3>2, <3>4, <2>2, <2>5
      <4>2. CASE k \in 1 .. n
        <5>1. g[k] = h[k] /\ h[k] \in 1 .. m /\ u[k] = t[k]
          BY <4>2, <3>2, <3>4, <2>3
        <5> QED BY <5>1, <4>2, <2>2, <2>3
      <4> QED BY <4>1, <4>2, <3>3
    <3>6. ASSUME NEW j \in 1 .. n + 1, NEW k \in 1 .. n + 1, j < k PROVE g[j] < g[k]
      <4>1. j \in 1 .. n
        BY <3>6, <2>2
      <4>2. g[j] = h[j] /\ h[j] \in 1 .. m
        BY <4>1, <3>4, <2>3
      <4>3. CASE k = n + 1
        BY <4>2, <4>3, <3>4, <2>2
      <4>4. CASE k \in 1 .. n
        BY <4>1, <4>2, <4>4, <3>4, <3>6, <2>3
      <4> QED BY <4>3, <4>4, <3>3
    <3>7. ASSUME NEW i \in 1 .. m + 1, q[i] \in K PROVE \E k \in 1 .. n + 1 : g[k] = i
      <4>1. CASE i = m + 1
        <5>1. n + 1 \in 1 .. n + 1
          BY <2>2
        <5> QED BY <5>1, <4>1, <3>4
      <4>2. CASE i # m + 1
        <5>1. i \in 1 .. m /\ r[i] \in K
          BY <4>2, <3>7, <2>2
        <5>2. PICK k \in 1 .. n : h[k] = i
          BY <5>1, <2>3
        <5>3. k \in 1 .. n + 1 /\ g[k] = i
          BY <5>2, <3>4, <2>2
        <5> QED BY <5>3
      <4> QED BY <4>1, <4>2
    <3>8. Embeds(g, q, u, K)
      BY <3>2, <3>4, <3>5, <3>6, <3>7, <2>2 DEF Embeds
    <3> QED BY <3>1, <3>8, <2>2 DEF q
  <2> QED BY <2>4, <2>5
<1> HIDE DEF T
<1>3. Seq(S) \subseteq T
  BY <1>1, <1>2, SequencesInSet
<1> QED BY <1>3 DEF T

LEMMA OnlyNoLonger ==
    ASSUME NEW S, NEW K, NEW s \in Seq(S)
    PROVE  Len(Only(s, K)) \in Nat /\ Len(Only(s, K)) <= Len(s)
<1> DEFINE T == {r \in Seq(S) : Len(Only(r, K)) \in Nat /\ Len(Only(r, K)) <= Len(r)}
<1>1. <<>> \in T
  BY OnlyOfEmpty, EmptySeq
<1>2. ASSUME NEW r \in Seq(S), NEW e \in S, r \in T PROVE Append(r, e) \in T
  <2>1. PICK t \in Seq(S) : t = Only(r, K)
    BY OnlyTyped
  <2>2. Only(Append(r, e), K) \in {t, Append(t, e)}
    BY <2>1, OnlyOfAppend
  <2>3. Len(t) <= Len(r) /\ Len(Append(r, e)) = Len(r) + 1 /\ Append(r, e) \in Seq(S)
    BY <1>2, <2>1
  <2>4. Len(Append(t, e)) = Len(t) + 1
    BY <2>1
  <2> QED BY <2>1, <2>2, <2>3, <2>4
<1> HIDE DEF T
<1>3. Seq(S) \subseteq T
  BY <1>1, <1>2, SequencesInSet
<1> QED BY <1>3 DEF T
=============================================================================
