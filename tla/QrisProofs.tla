----------------------------- MODULE QrisProofs -----------------------------
(***************************************************************************)
(* What the codec does to every text: reading back what it has written,    *)
(* what Validate and Parse make of what Convert has written, and what the  *)
(* checksum is and tells apart.                                            *)
(*                                                                         *)
(* The functions of Qris are recursive, so the facts are shown by          *)
(* induction.  The induction theorems of the library take an operator and  *)
(* are not used; a predicate is given here as the set where it holds.      *)
(***************************************************************************)
EXTENDS Qris, FiniteSetTheorems, SequenceTheorems, TLAPS

-----------------------------------------------------------------------------
(* Induction                                                               *)

\* A set of naturals with 0 and with the successor of each is all of them: a
\* number that is missing bounds the set, and n + 1 would map its finite part
\* below into that part less 0.
LEMMA NatSetInduction ==
  ASSUME NEW S \in SUBSET Nat, 0 \in S, \A n \in S : n + 1 \in S
  PROVE  S = Nat
<1> SUFFICES ASSUME NEW n \in Nat, n \notin S PROVE FALSE
  OBVIOUS
<1> DEFINE A == {x \in S : x <= n}
           f == [x \in A |-> x + 1]
<1>1. IsFiniteSet(A)
  BY FS_BoundedSetOfNaturals
<1>2. \A x \in A : x + 1 \in A \ {0}
  OBVIOUS
<1>3. f \in [A -> A \ {0}]
  BY <1>2
<1>4. IsFiniteSet(A \ {0}) /\ Cardinality(A \ {0}) = Cardinality(A) - 1
  <2>1. 0 \in A
    OBVIOUS
  <2> QED BY <1>1, <2>1, FS_RemoveElement
<1>5. Cardinality(A) \in Nat
  BY <1>1, FS_CardinalityType
<1>6. \E x, y \in A : x # y /\ f[x] = f[y]
  <2>1. Cardinality(A \ {0}) < Cardinality(A)
    BY <1>4, <1>5
  <2> HIDE DEF A, f
  <2> QED BY <1>1, <1>3, <1>4, <2>1, FS_PigeonHole
<1> QED
  BY <1>6

\* The same for any set whose members have a measure.
LEMMA MeasureInduction ==
  ASSUME NEW D, NEW m \in [D -> Nat], NEW G \in SUBSET D,
         \A d \in D : (\A e \in D : m[e] < m[d] => e \in G) => d \in G
  PROVE  G = D
<1> DEFINE S == {n \in Nat : \A d \in D : m[d] < n => d \in G}
<1>1. 0 \in S
  OBVIOUS
<1>2. ASSUME NEW n \in S PROVE n + 1 \in S
  <2>1. ASSUME NEW d \in D, m[d] < n + 1 PROVE d \in G
    <3>1. \A e \in D : m[e] < m[d] => e \in G
      BY <2>1
    <3> QED BY <3>1
  <2> QED BY <2>1
<1>3. S = Nat
  <2> HIDE DEF S
  <2>1. S \in SUBSET Nat
    BY DEF S
  <2> QED BY <1>1, <1>2, <2>1, NatSetInduction
<1>4. ASSUME NEW d \in D PROVE d \in G
  <2>1. m[d] + 1 \in S
    BY <1>3
  <2> QED BY <2>1
<1> QED
  BY <1>4

\* A sequence is its first element and the rest.
LEMMA ConsOf ==
  ASSUME NEW T, NEW e \in T, NEW s \in Seq(T)
  PROVE  /\ <<e>> \o s \in Seq(T) /\ <<e>> \o s # <<>>
         /\ (<<e>> \o s)[1] = e /\ Tail(<<e>> \o s) = s
         /\ Len(<<e>> \o s) = Len(s) + 1
<1> DEFINE t == <<e>> \o s
<1>1. <<e>> \in Seq(T) /\ Len(<<e>>) = 1 /\ <<e>>[1] = e
  OBVIOUS
<1>2. Len(s) \in Nat
  OBVIOUS
<1>3. /\ t \in Seq(T) /\ Len(t) = 1 + Len(s)
      /\ \A i \in 1 .. 1 + Len(s) : t[i] = IF i <= 1 THEN <<e>>[i] ELSE s[i - 1]
  BY <1>1, ConcatProperties
<1> HIDE DEF t
<1>4. t # <<>> /\ t[1] = e
  BY <1>1, <1>2, <1>3
<1>5. Tail(t) = s
  <2>1. /\ Tail(t) \in Seq(T) /\ Len(Tail(t)) = Len(t) - 1
        /\ \A i \in 1 .. Len(Tail(t)) : Tail(t)[i] = t[i + 1]
    BY <1>3, <1>4, HeadTailProperties
  <2>2. Len(Tail(t)) = Len(s) /\ \A i \in 1 .. Len(s) : Tail(t)[i] = s[i]
    BY <1>2, <1>3, <2>1
  <2> QED BY <2>1, <2>2, SeqEqual
<1> QED
  BY <1>2, <1>3, <1>4, <1>5 DEF t

LEMMA ConsSplit ==
  ASSUME NEW T, NEW s \in Seq(T), s # <<>>
  PROVE  /\ s[1] \in T /\ Tail(s) \in Seq(T) /\ Len(Tail(s)) < Len(s)
         /\ s = <<s[1]>> \o Tail(s)
<1>1. /\ Tail(s) \in Seq(T) /\ Len(Tail(s)) = Len(s) - 1
      /\ \A i \in 1 .. Len(Tail(s)) : Tail(s)[i] = s[i + 1]
  BY HeadTailProperties
<1>2. Len(s) \in Nat /\ Len(s) > 0 /\ s[1] \in T
  BY EmptySeq, LenProperties
<1> DEFINE t == <<s[1]>> \o Tail(s)
<1>3. <<s[1]>> \in Seq(T) /\ Len(<<s[1]>>) = 1 /\ <<s[1]>>[1] = s[1]
  BY <1>2
<1>4. /\ t \in Seq(T) /\ Len(t) = 1 + Len(Tail(s))
      /\ \A i \in 1 .. 1 + Len(Tail(s)) : t[i] = IF i <= 1 THEN <<s[1]>>[i] ELSE Tail(s)[i - 1]
  BY <1>1, <1>3, ConcatProperties
<1> HIDE DEF t
<1>5. Len(t) = Len(s) /\ \A i \in 1 .. Len(s) : t[i] = s[i]
  BY <1>1, <1>2, <1>3, <1>4
<1>6. s = t
  BY <1>4, <1>5, SeqEqual
<1> QED
  BY <1>1, <1>2, <1>6 DEF t

\* A set of sequences with the empty one that is closed under putting one
\* more element in front.
LEMMA SeqInduction ==
  ASSUME NEW T, NEW G \in SUBSET Seq(T), <<>> \in G,
         \A e \in T, s \in G : <<e>> \o s \in G
  PROVE  G = Seq(T)
<1> DEFINE D == Seq(T)
           m == [s \in D |-> Len(s)]
<1>1. m \in [D -> Nat] /\ G \in SUBSET D
  OBVIOUS
<1>2. ASSUME NEW s \in D, \A r \in D : m[r] < m[s] => r \in G PROVE s \in G
  <2>1. CASE s = <<>>
    BY <2>1
  <2>2. CASE s # <<>>
    <3>1. s[1] \in T /\ Tail(s) \in D /\ Len(Tail(s)) < Len(s) /\ s = <<s[1]>> \o Tail(s)
      BY <2>2, ConsSplit
    <3>2. Tail(s) \in G
      BY <1>2, <3>1
    <3> QED BY <3>1, <3>2
  <2> QED BY <2>1, <2>2
<1>3. \A s \in D : (\A r \in D : m[r] < m[s] => r \in G) => s \in G
  BY <1>2
<1> HIDE DEF m, D
<1>4. G = D
  BY <1>1, <1>3, MeasureInduction, SMTT(30)
<1> QED
  BY <1>4 DEF D

\* Phi[f] is what a recursive definition makes of f; its value at d uses
\* values of f of lower measure only.
Descends(D, V, m, Phi) ==
  /\ V # {}
  /\ m \in [D -> Nat]
  /\ Phi \in [[D -> V] -> [D -> V]]
  /\ \A g, h \in [D -> V], d \in D :
       (\A e \in D : m[e] < m[d] => g[e] = h[e]) => Phi[g][d] = Phi[h][d]

\* Such a definition has a solution: f = Phi[f].
LEMMA RecursionExists ==
  ASSUME NEW D, NEW V, NEW m, NEW Phi, Descends(D, V, m, Phi)
  PROVE  \E f \in [D -> V] : f = Phi[f]
<1> USE DEF Descends
<1> DEFINE Solves(f, n) == \A d \in D : m[d] < n => f[d] = Phi[f][d]
           S == {n \in Nat : \E f \in [D -> V] : Solves(f, n)}
<1>1. 0 \in S
  <2>1. PICK v : v \in V
    OBVIOUS
  <2>2. [d \in D |-> v] \in [D -> V]
    BY <2>1
  <2>3. Solves([d \in D |-> v], 0)
    OBVIOUS
  <2> QED BY <2>2, <2>3
<1>2. ASSUME NEW n \in S PROVE n + 1 \in S
  <2>1. PICK f \in [D -> V] : Solves(f, n)
    OBVIOUS
  <2>2. Phi[f] \in [D -> V]
    OBVIOUS
  <2>3. ASSUME NEW d \in D, m[d] < n + 1 PROVE Phi[f][d] = Phi[Phi[f]][d]
    <3>1. \A e \in D : m[e] < m[d] => f[e] = Phi[f][e]
      BY <2>1, <2>3
    <3> QED BY <2>2, <3>1
  <2> QED BY <2>2, <2>3
<1>3. S = Nat
  <2> HIDE DEF S
  <2>1. S \in SUBSET Nat
    BY DEF S
  <2> QED BY <1>1, <1>2, <2>1, NatSetInduction
<1>4. \* two partial solutions agree where both are one
      ASSUME NEW n \in Nat, NEW g \in [D -> V], NEW h \in [D -> V], Solves(g, n), Solves(h, n),
             NEW d \in D, m[d] < n
      PROVE  g[d] = h[d]
  <2> DEFINE G == {e \in D : m[e] < n => g[e] = h[e]}
  <2>1. ASSUME NEW e \in D, \A x \in D : m[x] < m[e] => x \in G PROVE e \in G
    <3> SUFFICES ASSUME m[e] < n PROVE g[e] = h[e]
      OBVIOUS
    <3>1. \A x \in D : m[x] < m[e] => g[x] = h[x]
      BY <2>1
    <3>2. Phi[g][e] = Phi[h][e]
      BY <3>1
    <3> QED BY <1>4, <3>2
  <2>2. G = D
    <3> HIDE DEF G
    <3>1. G \in SUBSET D
      BY DEF G
    <3> QED BY <2>1, <3>1, MeasureInduction
  <2> QED BY <1>4, <2>2
<1> DEFINE At(n) == CHOOSE f \in [D -> V] : Solves(f, n)
           F == [d \in D |-> At(m[d] + 1)[d]]
<1>5. \A n \in Nat : At(n) \in [D -> V] /\ Solves(At(n), n)
  <2> SUFFICES ASSUME NEW n \in Nat PROVE At(n) \in [D -> V] /\ Solves(At(n), n)
    OBVIOUS
  <2>1. \E f \in [D -> V] : Solves(f, n)
    BY <1>3
  <2> HIDE DEF Solves
  <2> QED BY <2>1
<1> HIDE DEF At, S
<1>6. F \in [D -> V]
  BY <1>5
<1>7. ASSUME NEW d \in D PROVE F[d] = Phi[F][d]
  <2> DEFINE f == At(m[d] + 1)
  <2>1. f \in [D -> V] /\ Solves(f, m[d] + 1)
    BY <1>5
  <2> HIDE DEF f
  <2>2. ASSUME NEW e \in D, m[e] < m[d] PROVE F[e] = f[e]
    <3>1. At(m[e] + 1) \in [D -> V] /\ Solves(At(m[e] + 1), m[e] + 1)
      BY <1>5
    <3>2. Solves(f, m[e] + 1)
      BY <2>1, <2>2
    <3>3. At(m[e] + 1)[e] = f[e]
      BY <1>4, <2>1, <3>1, <3>2
    <3> QED BY <3>3
  <2>3. Phi[F][d] = Phi[f][d]
    <3> HIDE DEF F
    <3> QED BY <1>6, <2>1, <2>2
  <2>4. F[d] = f[d]
    BY DEF f
  <2> QED BY <2>1, <2>3, <2>4
<1> HIDE DEF F
<1>8. F = Phi[F]
  BY <1>6, <1>7
<1> QED
  BY <1>6, <1>8

-----------------------------------------------------------------------------
(* Texts: what the library says of sequences                               *)

LEMMA EmptyText == <<>> \in Text /\ Len(<<>>) = 0
  BY DEF Text

LEMMA TextConcat ==
  ASSUME NEW s \in Text, NEW t \in Text
  PROVE  /\ s \o t \in Text
         /\ Len(s \o t) = Len(s) + Len(t)
         /\ \A i \in 1 .. Len(s) : (s \o t)[i] = s[i]
         /\ \A i \in 1 .. Len(t) : (s \o t)[Len(s) + i] = t[i]
<1> DEFINE B == 0 .. 255
<1>1. s \in Seq(B) /\ t \in Seq(B)
  BY DEF Text
<1> HIDE DEF B
<1>2. Len(s) \in Nat /\ Len(t) \in Nat
  BY <1>1
<1>3. /\ s \o t \in Seq(B)
      /\ Len(s \o t) = Len(s) + Len(t)
      /\ \A i \in 1 .. Len(s) + Len(t) : (s \o t)[i] = IF i <= Len(s) THEN s[i] ELSE t[i - Len(s)]
  BY <1>1, ConcatProperties
<1>4. \A i \in 1 .. Len(s) : (s \o t)[i] = s[i]
  BY <1>2, <1>3
<1>5. \A i \in 1 .. Len(t) : (s \o t)[Len(s) + i] = t[i]
  BY <1>2, <1>3
<1> QED
  BY <1>3, <1>4, <1>5 DEF B, Text

LEMMA TextAssociative ==
  ASSUME NEW s \in Text, NEW t \in Text, NEW u \in Text
  PROVE  (s \o t) \o u = s \o (t \o u)
<1> DEFINE B == 0 .. 255
<1>1. s \in Seq(B) /\ t \in Seq(B) /\ u \in Seq(B)
  BY DEF Text
<1> HIDE DEF B
<1> QED
  BY <1>1, ConcatAssociative

LEMMA TextEqual ==
  ASSUME NEW s \in Text, NEW t \in Text, Len(s) = Len(t), \A i \in 1 .. Len(s) : s[i] = t[i]
  PROVE  s = t
<1> DEFINE B == 0 .. 255
<1>1. s \in Seq(B) /\ t \in Seq(B)
  BY DEF Text
<1> HIDE DEF B
<1> QED
  BY <1>1, SeqEqual

LEMMA TextAppend ==
  ASSUME NEW s \in Text, NEW b \in 0 .. 255
  PROVE  /\ Append(s, b) \in Text
         /\ Len(Append(s, b)) = Len(s) + 1
         /\ \A i \in 1 .. Len(s) : Append(s, b)[i] = s[i]
         /\ Append(s, b)[Len(s) + 1] = b
<1> DEFINE B == 0 .. 255
<1>1. s \in Seq(B) /\ b \in B
  BY DEF Text
<1> HIDE DEF B
<1>2. /\ Append(s, b) \in Seq(B)
      /\ Len(Append(s, b)) = Len(s) + 1
      /\ \A i \in 1 .. Len(s) : Append(s, b)[i] = s[i]
      /\ Append(s, b)[Len(s) + 1] = b
  BY <1>1, AppendProperties
<1> QED
  BY <1>2 DEF B, Text

LEMMA TextSub ==
  ASSUME NEW s \in Text, NEW m \in Nat \ {0}, NEW n \in Int, n <= Len(s)
  PROVE  /\ SubSeq(s, m, n) \in Text
         /\ Len(SubSeq(s, m, n)) = IF m <= n THEN n - m + 1 ELSE 0
         /\ \A i \in 1 .. n - m + 1 : SubSeq(s, m, n)[i] = s[m + i - 1]
<1> DEFINE B == 0 .. 255
<1>1. s \in Seq(B)
  BY DEF Text
<1> HIDE DEF B
<1>2. \A i \in m .. n : s[i] \in B
  BY <1>1
<1>3. /\ SubSeq(s, m, n) \in Seq(B)
      /\ Len(SubSeq(s, m, n)) = IF m <= n THEN n - m + 1 ELSE 0
      /\ \A i \in 1 .. n - m + 1 : SubSeq(s, m, n)[i] = s[m + i - 1]
  BY <1>2, SubSeqProperties
<1> QED
  BY <1>3 DEF B, Text

LEMMA TextByte ==
  ASSUME NEW s \in Text
  PROVE  Len(s) \in Nat /\ DOMAIN s = 1 .. Len(s) /\ \A i \in 1 .. Len(s) : s[i] \in 0 .. 255
<1> DEFINE B == 0 .. 255
<1>1. s \in Seq(B)
  BY DEF Text
<1> HIDE DEF B
<1>2. Len(s) \in Nat /\ DOMAIN s = 1 .. Len(s) /\ \A i \in 1 .. Len(s) : s[i] \in B
  BY <1>1
<1> QED
  BY <1>2 DEF B

\* Induction over the length of a text.
LEMMA TextInduction ==
  ASSUME NEW G \in SUBSET Text,
         \A s \in Text : (\A r \in Text : Len(r) < Len(s) => r \in G) => s \in G
  PROVE  G = Text
<1> DEFINE m == [s \in Text |-> Len(s)]
<1>1. m \in [Text -> Nat]
  BY TextByte
<1>2. \A s \in Text : (\A r \in Text : m[r] < m[s] => r \in G) => s \in G
  OBVIOUS
<1> HIDE DEF m
<1> QED
  BY <1>1, <1>2, MeasureInduction

-----------------------------------------------------------------------------
(* Numbers in a text                                                       *)

LEMMA DecimalExists ==
  \E f : f = [n \in Nat |-> IF n < 10 THEN <<48 + n>> ELSE Append(f[n \div 10], 48 + (n % 10))]
<1> DEFINE D == Nat
           V == Text
           Body(g) ==
             [n \in D |-> IF n < 10 THEN <<48 + n>> ELSE Append(g[n \div 10], 48 + (n % 10))]
           Phi == [g \in [D -> V] |-> Body(g)]
           m == [n \in D |-> n]
<1>1. ASSUME NEW g \in [D -> V], NEW n \in D
      PROVE  /\ n < 10 => <<48 + n>> \in V
             /\ n >= 10 => n \div 10 \in D /\ n \div 10 < n
             /\ n >= 10 => Append(g[n \div 10], 48 + (n % 10)) \in V
  <2>1. n >= 10 => n \div 10 \in Nat /\ n \div 10 < n /\ n % 10 \in 0 .. 9
    OBVIOUS
  <2> QED BY <2>1 DEF Text
<1>2. \A g \in [D -> V] : Body(g) \in [D -> V]
  BY <1>1
<1>3. \A g \in [D -> V] : Phi[g] = Body(g)
  BY <1>2
<1>4. Descends(D, V, m, Phi)
  <2>1. V # {}
    <3>1. <<>> \in V
      BY DEF Text
    <3> QED BY <3>1
  <2>2. Phi \in [[D -> V] -> [D -> V]]
    BY <1>2
  <2>3. \A g, h \in [D -> V], n \in D :
          (\A e \in D : m[e] < m[n] => g[e] = h[e]) => Phi[g][n] = Phi[h][n]
    BY <1>1, <1>3
  <2> QED BY <2>1, <2>2, <2>3 DEF Descends
<1> HIDE DEF Phi, m, D, V, Body
<1>5. PICK f \in [D -> V] : f = Phi[f]
  BY <1>4, RecursionExists
<1>6. f = Body(f)
  BY <1>3, <1>5
<1> QED
  BY <1>6 DEF D, Body

LEMMA DecimalDef ==
  \A n \in Nat : Decimal[n] = IF n < 10 THEN <<48 + n>> ELSE Append(Decimal[n \div 10], 48 + (n % 10))
<1>1. Decimal = [n \in Nat |-> IF n < 10 THEN <<48 + n>> ELSE Append(Decimal[n \div 10], 48 + (n % 10))]
  BY DecimalExists DEF Decimal
<1> QED
  BY <1>1, Zenon

LEMMA DecimalSmall ==
  ASSUME NEW n \in Nat, n < 10
  PROVE  Decimal[n] = <<48 + n>>
  BY DecimalDef, Zenon

LEMMA DecimalLarge ==
  ASSUME NEW n \in Nat, ~(n < 10)
  PROVE  Decimal[n] = Append(Decimal[n \div 10], 48 + (n % 10))
  BY DecimalDef, Zenon

LEMMA DecimalType == \A n \in Nat : Decimal[n] \in Text
<1> DEFINE D == Nat
           G == {n \in D : Decimal[n] \in Text}
           m == [n \in D |-> n]
<1>1. ASSUME NEW n \in D, \A e \in D : m[e] < m[n] => e \in G PROVE n \in G
  <2>1. CASE n < 10
    <3>1. Decimal[n] = <<48 + n>>
      BY <2>1, DecimalSmall
    <3>2. <<48 + n>> \in Text
      BY <2>1 DEF Text
    <3> QED BY <3>1, <3>2
  <2>2. CASE ~(n < 10)
    <3>1. n \div 10 \in Nat /\ n \div 10 < n /\ n % 10 \in 0 .. 9
      BY <2>2
    <3>2. Decimal[n \div 10] \in Text
      BY <1>1, <3>1
    <3>3. Decimal[n] = Append(Decimal[n \div 10], 48 + (n % 10))
      BY <2>2, DecimalLarge
    <3>4. \A t \in Text, b \in 0 .. 9 : Append(t, 48 + b) \in Text
      BY DEF Text
    <3> QED BY <3>1, <3>2, <3>3, <3>4
  <2> QED BY <2>1, <2>2
<1>2. m \in [D -> Nat] /\ G \in SUBSET D
  OBVIOUS
<1>3. \A n \in D : (\A e \in D : m[e] < m[n] => e \in G) => n \in G
  BY <1>1
<1>4. G = D
  <2> HIDE DEF G, m, D
  <2> QED BY <1>2, <1>3, MeasureInduction
<1> QED
  BY <1>4

\* What is written for a length can be read as that length.
LEMMA PaddedReads ==
  ASSUME NEW n \in 0 .. 99
  PROVE  /\ Padded(n) \in Text /\ Len(Padded(n)) = 2
         /\ IsInt(Padded(n)) /\ IntOf(Padded(n)) = n
<1>1. ASSUME NEW s \in Text, Len(s) = 2, NEW d \in 0 .. 9, NEW e \in 0 .. 9, s[1] = 48 + d, s[2] = 48 + e
      PROVE  IsInt(s) /\ IntOf(s) = 10 * d + e
  BY <1>1 DEF IsInt, IntOf, IsDigit
<1>2. CASE n < 10
  <2>1. Decimal[n] = <<48 + n>>
    BY <1>2, DecimalSmall
  <2> DEFINE z == <<48>>
             y == <<48 + n>>
             s == z \o y
  <2>2. z \in Text /\ y \in Text /\ Len(z) = 1 /\ Len(y) = 1 /\ z[1] = 48 /\ y[1] = 48 + n
    BY DEF Text
  <2>3. Padded(n) = s
    BY <1>2, <2>1 DEF Padded
  <2> HIDE DEF z, y
  <2>4. /\ s \in Text /\ Len(s) = Len(z) + Len(y)
        /\ \A i \in 1 .. Len(z) : s[i] = z[i]
        /\ \A i \in 1 .. Len(y) : s[Len(z) + i] = y[i]
    BY <2>2, TextConcat
  <2> HIDE DEF s
  <2>5. Len(s) = 2 /\ s[1] = 48 + 0 /\ s[2] = 48 + n
    BY <2>2, <2>4
  <2>6. IsInt(s) /\ IntOf(s) = n
    <3>1. PICK d \in 0 .. 9 : d = 0
      OBVIOUS
    <3>2. s \in Text /\ Len(s) = 2
      BY <2>4, <2>5
    <3>3. s[1] = 48 + d
      BY <2>5, <3>1
    <3>4. s[2] = 48 + n /\ n \in 0 .. 9
      BY <1>2, <2>5
    <3>5. IsInt(s) /\ IntOf(s) = 10 * d + n
      BY <1>1, <3>2, <3>3, <3>4
    <3> QED BY <3>1, <3>5
  <2> QED BY <2>3, <2>4, <2>5, <2>6
<1>3. CASE ~(n < 10)
  <2> DEFINE q == n \div 10
             r == n % 10
             y == <<48 + q>>
             s == Append(y, 48 + r)
  <2>1. q \in 1 .. 9
    BY <1>3
  <2>2. r \in 0 .. 9
    BY <1>3
  <2>3. n = 10 * q + r
    BY <1>3
  <2>4. Decimal[q] = y
    <3> HIDE DEF q
    <3> QED BY <2>1, DecimalSmall
  <2>5. Padded(n) = s
    <3>0. n \in Nat
      OBVIOUS
    <3>1. Decimal[n] = Append(Decimal[n \div 10], 48 + (n % 10))
      BY <1>3, <3>0, DecimalLarge, Zenon
    <3>2. Padded(n) = Decimal[n]
      BY <1>3 DEF Padded
    <3> HIDE DEF y
    <3> QED BY <2>4, <3>1, <3>2, Zenon
  <2> HIDE DEF q, r
  <2>6. y \in Text /\ Len(y) = 1 /\ y[1] = 48 + q
    BY <2>1 DEF Text
  <2> HIDE DEF y
  <2>7. /\ s \in Text /\ Len(s) = Len(y) + 1
        /\ \A i \in 1 .. Len(y) : s[i] = y[i]
        /\ s[Len(y) + 1] = 48 + r
    <3>1. 48 + r \in 0 .. 255
      BY <2>2
    <3> QED BY <2>6, <3>1, TextAppend
  <2> HIDE DEF s
  <2>8. Len(s) = 2 /\ s[1] = 48 + q /\ s[2] = 48 + r
    BY <2>6, <2>7
  <2>9. IsInt(s) /\ IntOf(s) = 10 * q + r
    <3>1. PICK d \in 0 .. 9, e \in 0 .. 9 : d = q /\ e = r
      BY <2>1, <2>2
    <3>2. s[1] = 48 + d /\ s[2] = 48 + e
      BY <2>8, <3>1
    <3> QED BY <1>1, <2>7, <2>8, <3>1, <3>2
  <2> QED BY <2>3, <2>5, <2>7, <2>8, <2>9
<1> QED
  BY <1>2, <1>3

-----------------------------------------------------------------------------
(* Reading                                                                 *)

\* An element as the reader makes it.
First(s) == [tag |-> SubSeq(s, 1, 2), value |-> ValueOf(s)]

\* An element that can be written so that it can be read.
Sound == {e \in Element : Len(e.tag) = 2 /\ Len(e.value) <= 99}

Elements == Seq(Element)

LEMMA IntOfRange ==
  ASSUME NEW s \in Text, Len(s) = 2, IsInt(s)
  PROVE  IntOf(s) \in -9 .. 99
<1>1. s[1] \in 0 .. 255 /\ s[2] \in 0 .. 255
  <2>1. \A i \in 1 .. 2 : s[i] \in 0 .. 255
    BY TextByte
  <2> QED BY <2>1
<1> QED
  BY <1>1 DEF IsInt, IntOf, IsDigit

LEMMA FirstSound ==
  ASSUME NEW s \in Text, Fits(s), ~Backwards(s)
  PROVE  /\ First(s) \in Sound
         /\ RestOf(s) \in Text
         /\ Len(RestOf(s)) = Len(s) - 4 - Len(ValueOf(s))
         /\ Len(RestOf(s)) < Len(s)
<1> DEFINE d == SubSeq(s, 3, 4)
           n == IntOf(d)
<1>1. Len(s) \in Nat /\ Len(s) >= 4
  BY TextByte DEF Fits
<1>2. d \in Text /\ Len(d) = 2
  <2>1. 3 \in Nat \ {0} /\ 4 \in Int /\ 4 <= Len(s)
    BY <1>1
  <2>2. SubSeq(s, 3, 4) \in Text /\ Len(SubSeq(s, 3, 4)) = IF 3 <= 4 THEN 4 - 3 + 1 ELSE 0
    BY <2>1, TextSub
  <2> QED BY <2>2
<1>3. n \in 0 .. 99 /\ 4 + n <= Len(s)
  <2>1. n \in -9 .. 99
    BY <1>2, IntOfRange DEF Fits
  <2>2. ~(n < 0) /\ 4 + n <= Len(s)
    BY DEF Fits, Backwards
  <2> HIDE DEF n
  <2> QED BY <2>1, <2>2
<1>4. ValueOf(s) = SubSeq(s, 5, 4 + n) /\ RestOf(s) = SubSeq(s, 5 + n, Len(s))
  BY DEF ValueOf, RestOf
<1> HIDE DEF n, d
<1>5. SubSeq(s, 1, 2) \in Text /\ Len(SubSeq(s, 1, 2)) = 2
  BY <1>1, TextSub
<1>6. ValueOf(s) \in Text /\ Len(ValueOf(s)) = n
  <2>1. 4 + n \in Int /\ 4 + n <= Len(s) /\ 5 \in Nat \ {0}
    BY <1>3
  <2>2. SubSeq(s, 5, 4 + n) \in Text /\ Len(SubSeq(s, 5, 4 + n)) = IF 5 <= 4 + n THEN (4 + n) - 5 + 1 ELSE 0
    BY <2>1, TextSub
  <2> QED BY <1>3, <1>4, <2>2
<1>7. RestOf(s) \in Text /\ Len(RestOf(s)) = Len(s) - 4 - n
  <2>1. 5 + n \in Nat \ {0} /\ Len(s) \in Int /\ Len(s) <= Len(s)
    BY <1>1, <1>3
  <2>2. /\ SubSeq(s, 5 + n, Len(s)) \in Text
        /\ Len(SubSeq(s, 5 + n, Len(s))) = IF 5 + n <= Len(s) THEN Len(s) - (5 + n) + 1 ELSE 0
    BY <2>1, TextSub
  <2> QED BY <1>1, <1>3, <1>4, <2>2
<1> QED
  BY <1>3, <1>5, <1>6, <1>7 DEF First, Sound, Element

LEMMA ParseExists ==
  \E f : f = [s \in Text |-> IF ~Fits(s) \/ Backwards(s) THEN <<>> ELSE <<First(s)>> \o f[RestOf(s)]]
<1> DEFINE D == Text
           V == Elements
           Body(g) ==
             [s \in D |-> IF ~Fits(s) \/ Backwards(s) THEN <<>> ELSE <<First(s)>> \o g[RestOf(s)]]
           Phi == [g \in [D -> V] |-> Body(g)]
           m == [s \in D |-> Len(s)]
<1>1. ASSUME NEW s \in D, Fits(s), ~Backwards(s)
      PROVE  First(s) \in Element /\ RestOf(s) \in D /\ m[RestOf(s)] < m[s]
  BY <1>1, FirstSound DEF Sound
<1>2. ASSUME NEW g \in [D -> V] PROVE Body(g) \in [D -> V]
  <2>1. \A e \in Element, es \in V : <<e>> \o es \in V
    BY DEF Elements
  <2>2. <<>> \in V
    BY DEF Elements
  <2> HIDE DEF V, D, m
  <2> QED BY <1>1, <2>1, <2>2
<1>3. \A g \in [D -> V] : Phi[g] = Body(g)
  OBVIOUS
<1>4. Descends(D, V, m, Phi)
  <2>1. V # {}
    <3>1. <<>> \in V
      BY DEF Elements
    <3> QED BY <3>1
  <2>2. m \in [D -> Nat]
    BY TextByte
  <2>3. Phi \in [[D -> V] -> [D -> V]]
    BY <1>2
  <2>4. ASSUME NEW g \in [D -> V], NEW h \in [D -> V], NEW s \in D,
               \A e \in D : m[e] < m[s] => g[e] = h[e]
        PROVE  Phi[g][s] = Phi[h][s]
    <3>1. Fits(s) /\ ~Backwards(s) => g[RestOf(s)] = h[RestOf(s)]
      BY <1>1, <2>4
    <3> HIDE DEF V, D, m
    <3> QED BY <1>3, <3>1
  <2> HIDE DEF Phi, m, D, V
  <2> QED BY <2>1, <2>2, <2>3, <2>4 DEF Descends
<1> HIDE DEF Phi, m, D, V, Body
<1>5. PICK f \in [D -> V] : f = Phi[f]
  BY <1>4, RecursionExists
<1>6. f = Body(f)
  BY <1>3, <1>5
<1> QED
  BY <1>6 DEF D, Body

LEMMA ParseDef ==
  \A s \in Text : ParseTLV[s] =
    IF ~Fits(s) \/ Backwards(s) THEN <<>> ELSE <<First(s)>> \o ParseTLV[RestOf(s)]
<1>1. ParseTLV = [s \in Text |->
        IF ~Fits(s) \/ Backwards(s) THEN <<>> ELSE <<First(s)>> \o ParseTLV[RestOf(s)]]
  BY ParseExists DEF ParseTLV, First
<1> QED
  BY <1>1, Zenon

LEMMA ParseStops ==
  ASSUME NEW s \in Text, ~Fits(s) \/ Backwards(s)
  PROVE  ParseTLV[s] = <<>>
  BY ParseDef, Zenon

LEMMA ParseGoesOn ==
  ASSUME NEW s \in Text, Fits(s), ~Backwards(s)
  PROVE  ParseTLV[s] = <<First(s)>> \o ParseTLV[RestOf(s)]
  BY ParseDef, Zenon

\* The reader makes sound elements of every text.
LEMMA ParseSound == \A s \in Text : ParseTLV[s] \in Seq(Sound)
<1> DEFINE G == {s \in Text : ParseTLV[s] \in Seq(Sound)}
<1>1. ASSUME NEW s \in Text, \A r \in Text : Len(r) < Len(s) => r \in G PROVE s \in G
  <2>1. CASE ~Fits(s) \/ Backwards(s)
    <3>1. ParseTLV[s] = <<>>
      BY <2>1, ParseStops
    <3>2. <<>> \in Seq(Sound)
      OBVIOUS
    <3> QED BY <3>1, <3>2
  <2>2. CASE Fits(s) /\ ~Backwards(s)
    <3>1. RestOf(s) \in Text /\ Len(RestOf(s)) < Len(s) /\ First(s) \in Sound
      BY <2>2, FirstSound
    <3>2. ParseTLV[RestOf(s)] \in Seq(Sound)
      BY <1>1, <3>1
    <3>3. <<First(s)>> \o ParseTLV[RestOf(s)] \in Seq(Sound)
      BY <3>1, <3>2
    <3> QED BY <2>2, <3>3, ParseGoesOn
  <2> QED BY <2>1, <2>2
<1> HIDE DEF G
<1>2. G = Text
  <2>1. G \in SUBSET Text
    BY DEF G
  <2> QED BY <1>1, <2>1, TextInduction
<1> QED
  BY <1>2 DEF G

-----------------------------------------------------------------------------
(* Writing                                                                 *)

\* What is written for elements and their children gets shorter: by Weight.
Weight[es \in Elements] ==
  IF es = <<>> THEN 0 ELSE 1 + Len(es[1].value) + Weight[Tail(es)]

LEMMA WeightExists ==
  \E f : f = [es \in Elements |-> IF es = <<>> THEN 0 ELSE 1 + Len(es[1].value) + f[Tail(es)]]
<1> DEFINE D == Elements
           V == Nat
           Body(g) == [es \in D |-> IF es = <<>> THEN 0 ELSE 1 + Len(es[1].value) + g[Tail(es)]]
           Phi == [g \in [D -> V] |-> Body(g)]
           m == [es \in D |-> Len(es)]
<1>1. ASSUME NEW es \in D, es # <<>>
      PROVE  Len(es[1].value) \in Nat /\ Tail(es) \in D /\ m[Tail(es)] < m[es]
  <2>1. es[1] \in Element /\ Tail(es) \in D /\ Len(Tail(es)) < Len(es)
    BY <1>1, ConsSplit DEF Elements
  <2> QED BY <2>1, TextByte DEF Element
<1>2. ASSUME NEW g \in [D -> V] PROVE Body(g) \in [D -> V]
  <2> HIDE DEF D, m
  <2> QED BY <1>1
<1>3. \A g \in [D -> V] : Phi[g] = Body(g)
  OBVIOUS
<1>4. Descends(D, V, m, Phi)
  <2>1. V # {}
    OBVIOUS
  <2>2. m \in [D -> Nat]
    BY DEF Elements
  <2>3. Phi \in [[D -> V] -> [D -> V]]
    BY <1>2
  <2>4. ASSUME NEW g \in [D -> V], NEW h \in [D -> V], NEW es \in D,
               \A e \in D : m[e] < m[es] => g[e] = h[e]
        PROVE  Phi[g][es] = Phi[h][es]
    <3>1. es # <<>> => g[Tail(es)] = h[Tail(es)]
      BY <1>1, <2>4
    <3> HIDE DEF D, m
    <3> QED BY <1>3, <3>1
  <2> HIDE DEF Phi, m, D, V
  <2> QED BY <2>1, <2>2, <2>3, <2>4 DEF Descends
<1> HIDE DEF Phi, m, D, V, Body
<1>5. PICK f \in [D -> V] : f = Phi[f]
  BY <1>4, RecursionExists
<1>6. f = Body(f)
  BY <1>3, <1>5
<1> QED
  BY <1>6 DEF D, Body

LEMMA WeightDef ==
  \A es \in Elements : Weight[es] = IF es = <<>> THEN 0 ELSE 1 + Len(es[1].value) + Weight[Tail(es)]
<1>1. Weight = [es \in Elements |-> IF es = <<>> THEN 0 ELSE 1 + Len(es[1].value) + Weight[Tail(es)]]
  BY WeightExists DEF Weight
<1> QED
  BY <1>1, Zenon

LEMMA WeightCons ==
  /\ Weight[<<>>] = 0
  /\ \A e \in Element, es \in Elements : Weight[<<e>> \o es] = 1 + Len(e.value) + Weight[es]
<1>1. Weight[<<>>] = 0
  <2>1. <<>> \in Elements
    BY DEF Elements
  <2> QED BY <2>1, WeightDef
<1>2. ASSUME NEW e \in Element, NEW es \in Elements
      PROVE  Weight[<<e>> \o es] = 1 + Len(e.value) + Weight[es]
  <2> DEFINE s == <<e>> \o es
  <2>1. s \in Elements /\ s # <<>> /\ s[1] = e /\ Tail(s) = es
    BY ConsOf DEF Elements
  <2> HIDE DEF s
  <2>2. Weight[s] = 1 + Len(s[1].value) + Weight[Tail(s)]
    BY <2>1, WeightDef, Zenon
  <2> QED BY <2>1, <2>2 DEF s
<1> QED
  BY <1>1, <1>2

LEMMA WeightType == \A es \in Elements : Weight[es] \in Nat
<1> DEFINE G == {es \in Seq(Element) : Weight[es] \in Nat}
<1>1. <<>> \in G
  BY WeightCons
<1>2. ASSUME NEW e \in Element, NEW es \in G PROVE <<e>> \o es \in G
  <2>1. <<e>> \o es \in Seq(Element)
    BY ConsOf
  <2>2. Weight[<<e>> \o es] = 1 + Len(e.value) + Weight[es]
    BY WeightCons DEF Elements
  <2>3. Len(e.value) \in Nat
    BY TextByte DEF Element
  <2> QED BY <2>1, <2>2, <2>3
<1>3. G = Seq(Element)
  <2>1. G \in SUBSET Seq(Element)
    OBVIOUS
  <2> HIDE DEF G
  <2> QED BY <1>1, <1>2, <2>1, SeqInduction
<1> QED
  BY <1>3 DEF Elements

LEMMA SoundSeq == \A es \in Seq(Sound) : es \in Elements
<1>1. Sound \subseteq Element
  BY DEF Sound
<1> HIDE DEF Sound
<1> QED
  BY <1>1, SeqMonotonic DEF Elements

\* The elements of a text weigh less than the text.
LEMMA ParseWeight == \A s \in Text : Weight[ParseTLV[s]] <= Len(s)
<1> DEFINE G == {s \in Text : Weight[ParseTLV[s]] <= Len(s)}
<1>1. ASSUME NEW s \in Text, \A r \in Text : Len(r) < Len(s) => r \in G PROVE s \in G
  <2>0. Len(s) \in Nat
    BY TextByte
  <2>1. CASE ~Fits(s) \/ Backwards(s)
    <3>1. ParseTLV[s] = <<>>
      BY <2>1, ParseStops
    <3>2. Weight[ParseTLV[s]] = 0
      BY <3>1, WeightCons
    <3> QED BY <2>0, <3>2
  <2>2. CASE Fits(s) /\ ~Backwards(s)
    <3> DEFINE rest == ParseTLV[RestOf(s)]
    <3>1. /\ RestOf(s) \in Text /\ First(s) \in Sound
          /\ Len(RestOf(s)) = Len(s) - 4 - Len(ValueOf(s)) /\ Len(RestOf(s)) < Len(s)
      BY <2>2, FirstSound
    <3>2. rest \in Elements
      BY <3>1, ParseSound, SoundSeq
    <3>3. Weight[rest] <= Len(RestOf(s))
      BY <1>1, <3>1
    <3>4. First(s) \in Element /\ First(s).value = ValueOf(s) /\ Len(ValueOf(s)) \in Nat
      <4>1. First(s) \in Element /\ First(s).value = ValueOf(s)
        BY <3>1 DEF Sound, First
      <4> QED BY <4>1, TextByte DEF Element
    <3>5. ParseTLV[s] = <<First(s)>> \o rest
      BY <2>2, ParseGoesOn
    <3> HIDE DEF rest
    <3>6. Weight[ParseTLV[s]] = 1 + Len(ValueOf(s)) + Weight[rest]
      BY <3>2, <3>4, <3>5, WeightCons
    <3>7. Weight[rest] \in Nat /\ Len(RestOf(s)) \in Nat
      BY <3>1, <3>2, WeightType, TextByte
    <3> QED BY <2>0, <3>1, <3>3, <3>4, <3>6, <3>7
  <2> QED BY <2>1, <2>2
<1> HIDE DEF G
<1>2. G = Text
  <2>1. G \in SUBSET Text
    BY DEF G
  <2> QED BY <1>1, <2>1, TextInduction
<1> QED
  BY <1>2 DEF G

LEMMA ChildrenSound ==
  ASSUME NEW e \in Element
  PROVE  Children(e) \in Seq(Sound) /\ Children(e) \in Elements /\ Weight[Children(e)] <= Len(e.value)
<1>1. e.value \in Text /\ Len(e.value) \in Nat
  BY TextByte DEF Element
<1>2. CASE Nested(e.tag)
  BY <1>1, <1>2, ParseSound, ParseWeight, SoundSeq DEF Children
<1>3. CASE ~Nested(e.tag)
  <2>1. Children(e) = <<>>
    BY <1>3 DEF Children
  <2>2. <<>> \in Seq(Sound) /\ <<>> \in Elements
    BY DEF Elements
  <2>3. Weight[Children(e)] = 0
    BY <2>1, WeightCons
  <2> QED BY <1>1, <2>1, <2>2, <2>3
<1> QED
  BY <1>2, <1>3

LEMMA PaddedType == \A n \in Nat : Padded(n) \in Text
<1> SUFFICES ASSUME NEW n \in Nat PROVE Padded(n) \in Text
  OBVIOUS
<1>1. Decimal[n] \in Text
  BY DecimalType
<1>2. <<48>> \in Text
  BY DEF Text
<1>3. <<48>> \o Decimal[n] \in Text
  BY <1>1, <1>2, TextConcat
<1> QED
  BY <1>1, <1>3 DEF Padded

LEMMA ThreeTexts ==
  ASSUME NEW a \in Text, NEW b \in Text, NEW c \in Text
  PROVE  /\ a \o b \o c \in Text
         /\ Len(a \o b \o c) = Len(a) + Len(b) + Len(c)
         /\ \A i \in 1 .. Len(a) : (a \o b \o c)[i] = a[i]
         /\ \A i \in 1 .. Len(b) : (a \o b \o c)[Len(a) + i] = b[i]
         /\ \A i \in 1 .. Len(c) : (a \o b \o c)[Len(a) + Len(b) + i] = c[i]
<1>0. Len(a) \in Nat /\ Len(b) \in Nat /\ Len(c) \in Nat
  BY TextByte
<1> DEFINE s == a \o b \o c
           ab == a \o b
<1>1. /\ ab \in Text /\ Len(ab) = Len(a) + Len(b)
      /\ \A i \in 1 .. Len(a) : ab[i] = a[i]
      /\ \A i \in 1 .. Len(b) : ab[Len(a) + i] = b[i]
  BY TextConcat
<1>2. s = ab \o c
  OBVIOUS
<1> HIDE DEF s, ab
<1>3. /\ ab \o c \in Text /\ Len(ab \o c) = Len(ab) + Len(c)
      /\ \A i \in 1 .. Len(ab) : (ab \o c)[i] = ab[i]
      /\ \A i \in 1 .. Len(c) : (ab \o c)[Len(ab) + i] = c[i]
  <2>1. ab \in Text
    BY <1>1
  <2> QED BY <2>1, TextConcat, Zenon
<1>4. /\ s \in Text /\ Len(s) = Len(ab) + Len(c)
      /\ \A i \in 1 .. Len(ab) : s[i] = ab[i]
      /\ \A i \in 1 .. Len(c) : s[Len(ab) + i] = c[i]
  BY <1>2, <1>3, Zenon
<1>5. \A i \in 1 .. Len(a) : s[i] = a[i]
  BY <1>0, <1>1, <1>4
<1>6. \A i \in 1 .. Len(b) : s[Len(a) + i] = b[i]
  BY <1>0, <1>1, <1>4
<1>7. \A i \in 1 .. Len(c) : s[Len(a) + Len(b) + i] = c[i]
  BY <1>1, <1>4
<1> QED
  BY <1>1, <1>4, <1>5, <1>6, <1>7 DEF s

\* A text of four parts; the equation is kept from the provers where it is
\* not needed.
Joins(s, a, b, c, d) == s = a \o b \o c \o d

Layout(s, a, b, c, d) ==
  /\ s \in Text
  /\ Len(s) = Len(a) + Len(b) + Len(c) + Len(d)
  /\ \A i \in 1 .. Len(a) : s[i] = a[i]
  /\ \A i \in 1 .. Len(b) : s[Len(a) + i] = b[i]
  /\ \A i \in 1 .. Len(c) : s[Len(a) + Len(b) + i] = c[i]
  /\ \A i \in 1 .. Len(d) : s[Len(a) + Len(b) + Len(c) + i] = d[i]

LEMMA FourTexts ==
  ASSUME NEW a \in Text, NEW b \in Text, NEW c \in Text, NEW d \in Text, NEW s,
         Joins(s, a, b, c, d)
  PROVE  Layout(s, a, b, c, d)
<1>0. Len(a) \in Nat /\ Len(b) \in Nat /\ Len(c) \in Nat
  BY TextByte
<1> DEFINE u == a \o b \o c
<1>2. /\ u \in Text /\ Len(u) = Len(a) + Len(b) + Len(c)
      /\ \A i \in 1 .. Len(a) : u[i] = a[i]
      /\ \A i \in 1 .. Len(b) : u[Len(a) + i] = b[i]
      /\ \A i \in 1 .. Len(c) : u[Len(a) + Len(b) + i] = c[i]
  <2>1. u \in Text
    BY ThreeTexts
  <2>2. Len(u) = Len(a) + Len(b) + Len(c)
    BY ThreeTexts
  <2>3. \A i \in 1 .. Len(a) : u[i] = a[i]
    BY ThreeTexts
  <2>4. \A i \in 1 .. Len(b) : u[Len(a) + i] = b[i]
    BY ThreeTexts
  <2>5. \A i \in 1 .. Len(c) : u[Len(a) + Len(b) + i] = c[i]
    BY ThreeTexts
  <2> HIDE DEF u
  <2> QED BY <2>1, <2>2, <2>3, <2>4, <2>5
<1>3. s = u \o d
  BY DEF Joins
<1> HIDE DEF u
<1>4. /\ s \in Text /\ Len(s) = Len(u) + Len(d)
      /\ \A i \in 1 .. Len(u) : s[i] = u[i]
      /\ \A i \in 1 .. Len(d) : s[Len(u) + i] = d[i]
  <2>1. u \in Text
    BY <1>2
  <2>2. /\ u \o d \in Text /\ Len(u \o d) = Len(u) + Len(d)
        /\ \A i \in 1 .. Len(u) : (u \o d)[i] = u[i]
        /\ \A i \in 1 .. Len(d) : (u \o d)[Len(u) + i] = d[i]
    BY <2>1, TextConcat, Zenon
  <2> QED BY <1>3, <2>2, Zenon
<1>5. \A i \in 1 .. Len(a) : s[i] = a[i]
  BY <1>0, <1>2, <1>4
<1>6. \A i \in 1 .. Len(b) : s[Len(a) + i] = b[i]
  BY <1>0, <1>2, <1>4
<1>7. \A i \in 1 .. Len(c) : s[Len(a) + Len(b) + i] = c[i]
  BY <1>0, <1>2, <1>4
<1>8. \A i \in 1 .. Len(d) : s[Len(a) + Len(b) + Len(c) + i] = d[i]
  BY <1>2, <1>4
<1> QED
  BY <1>2, <1>4, <1>5, <1>6, <1>7, <1>8 DEF Layout

LEMMA JoinType == \A a, b, c, d \in Text : a \o b \o c \o d \in Text
<1> SUFFICES ASSUME NEW a \in Text, NEW b \in Text, NEW c \in Text, NEW d \in Text
    PROVE  a \o b \o c \o d \in Text
  OBVIOUS
<1>1. a \o b \o c \in Text
  BY ThreeTexts
<1> QED
  BY <1>1, TextConcat, Zenon

\* An element's value as it is written, with g for what is written of its
\* children.
Value(g, e) == IF Children(e) = <<>> THEN e.value ELSE g[Children(e)]

LEMMA BuildExists ==
  \E f : f = [es \in Elements |->
    IF es = <<>> THEN <<>>
    ELSE es[1].tag \o Padded(Len(Value(f, es[1]))) \o Value(f, es[1]) \o f[Tail(es)]]
<1> DEFINE D == Elements
           V == Text
           Body(g) == [es \in D |->
             IF es = <<>> THEN <<>>
             ELSE es[1].tag \o Padded(Len(Value(g, es[1]))) \o Value(g, es[1]) \o g[Tail(es)]]
           Phi == [g \in [D -> V] |-> Body(g)]
           m == [es \in D |-> Weight[es]]
<1>1. ASSUME NEW es \in D, es # <<>>
      PROVE  /\ es[1] \in Element /\ Tail(es) \in D /\ Children(es[1]) \in D
             /\ m[Tail(es)] < m[es] /\ m[Children(es[1])] < m[es]
  <2>1. es[1] \in Element /\ Tail(es) \in D /\ es = <<es[1]>> \o Tail(es)
    BY <1>1, ConsSplit DEF Elements
  <2>2. Children(es[1]) \in D /\ Weight[Children(es[1])] <= Len(es[1].value)
    BY <2>1, ChildrenSound
  <2>3. Weight[es] = 1 + Len(es[1].value) + Weight[Tail(es)]
    BY <1>1, WeightDef, Zenon
  <2>4. Len(es[1].value) \in Nat /\ Weight[Tail(es)] \in Nat /\ Weight[Children(es[1])] \in Nat
    BY <2>1, <2>2, WeightType, TextByte DEF Element
  <2> QED BY <2>1, <2>2, <2>3, <2>4
<1>2. ASSUME NEW g \in [D -> V] PROVE Body(g) \in [D -> V]
  <2>1. <<>> \in V
    BY DEF Text
  <2>2. ASSUME NEW es \in D, es # <<>>
        PROVE  es[1].tag \o Padded(Len(Value(g, es[1]))) \o Value(g, es[1]) \o g[Tail(es)] \in V
    <3>1. es[1].tag \in Text /\ es[1].value \in Text /\ g[Tail(es)] \in Text /\ g[Children(es[1])] \in Text
      BY <1>1, <2>2 DEF Element
    <3>2. Value(g, es[1]) \in Text
      BY <3>1 DEF Value
    <3>3. Padded(Len(Value(g, es[1]))) \in Text
      BY <3>2, TextByte, PaddedType
    <3> QED BY <3>1, <3>2, <3>3, JoinType, Zenon
  <2> HIDE DEF D, V, m
  <2> QED BY <2>1, <2>2
<1>3. \A g \in [D -> V] : Phi[g] = Body(g)
  OBVIOUS
<1>4. Descends(D, V, m, Phi)
  <2>1. V # {}
    BY EmptyText
  <2>2. m \in [D -> Nat]
    BY WeightType
  <2>3. Phi \in [[D -> V] -> [D -> V]]
    BY <1>2
  <2>4. ASSUME NEW g \in [D -> V], NEW h \in [D -> V], NEW es \in D,
               \A e \in D : m[e] < m[es] => g[e] = h[e]
        PROVE  Phi[g][es] = Phi[h][es]
    <3>1. es # <<>> => g[Tail(es)] = h[Tail(es)] /\ Value(g, es[1]) = Value(h, es[1])
      BY <1>1, <2>4 DEF Value
    <3> HIDE DEF D, V, m
    <3> QED BY <1>3, <3>1
  <2> HIDE DEF Phi, m, D, V
  <2> QED BY <2>1, <2>2, <2>3, <2>4 DEF Descends
<1> HIDE DEF Phi, m, D, V, Body
<1>5. PICK f \in [D -> V] : f = Phi[f]
  BY <1>4, RecursionExists
<1>6. f = Body(f)
  BY <1>3, <1>5
<1> QED
  BY <1>6 DEF D, Body

LEMMA BuildDef ==
  \A es \in Elements : BuildTLV[es] =
    IF es = <<>> THEN <<>>
    ELSE es[1].tag \o Padded(Len(Value(BuildTLV, es[1]))) \o Value(BuildTLV, es[1]) \o BuildTLV[Tail(es)]
<1>1. BuildTLV = [es \in Elements |->
        IF es = <<>> THEN <<>>
        ELSE es[1].tag \o Padded(Len(Value(BuildTLV, es[1]))) \o Value(BuildTLV, es[1])
               \o BuildTLV[Tail(es)]]
  BY BuildExists DEF BuildTLV, Value, Elements
<1> QED
  BY <1>1, Zenon

LEMMA BuildEmpty == BuildTLV[<<>>] = <<>>
<1>1. <<>> \in Elements
  BY DEF Elements
<1> QED
  BY <1>1, BuildDef, Zenon

\* The value of an element as it is written.
Written(e) == Value(BuildTLV, e)

LEMMA BuildCons ==
  ASSUME NEW e \in Element, NEW es \in Elements
  PROVE  BuildTLV[<<e>> \o es] = e.tag \o Padded(Len(Written(e))) \o Written(e) \o BuildTLV[es]
<1> DEFINE s == <<e>> \o es
<1>1. s \in Elements /\ s # <<>> /\ s[1] = e /\ Tail(s) = es
  BY ConsOf DEF Elements
<1> HIDE DEF s
<1>2. BuildTLV[s] = s[1].tag \o Padded(Len(Value(BuildTLV, s[1]))) \o Value(BuildTLV, s[1])
                      \o BuildTLV[Tail(s)]
  BY <1>1, BuildDef, Zenon
<1> QED
  BY <1>1, <1>2 DEF s, Written

LEMMA BuildType == \A es \in Elements : BuildTLV[es] \in Text
<1> DEFINE G == {es \in Elements : BuildTLV[es] \in Text}
           m == [es \in Elements |-> Weight[es]]
<1>1. ASSUME NEW es \in Elements, \A r \in Elements : Weight[r] < Weight[es] => r \in G
      PROVE  es \in G
  <2>1. CASE es = <<>>
    BY <2>1, BuildEmpty, EmptyText
  <2>2. CASE es # <<>>
    <3>1. PICK e \in Element, rest \in Elements : es = <<e>> \o rest
      BY <2>2, ConsSplit DEF Elements
    <3>2. Weight[es] = 1 + Len(e.value) + Weight[rest]
      BY <3>1, WeightCons
    <3>3. Children(e) \in Elements /\ Weight[Children(e)] <= Len(e.value)
      BY ChildrenSound
    <3>4. Len(e.value) \in Nat /\ Weight[rest] \in Nat /\ Weight[Children(e)] \in Nat
      BY <3>3, WeightType, TextByte DEF Element
    <3>5. BuildTLV[rest] \in Text /\ BuildTLV[Children(e)] \in Text
      BY <1>1, <3>2, <3>3, <3>4
    <3>6. Written(e) \in Text
      BY <3>5 DEF Written, Value, Element
    <3>7. Padded(Len(Written(e))) \in Text
      BY <3>6, TextByte, PaddedType
    <3>8. e.tag \o Padded(Len(Written(e))) \o Written(e) \o BuildTLV[rest] \in Text
      <4>1. e.tag \in Text
        BY DEF Element
      <4> QED BY <3>5, <3>6, <3>7, <4>1, JoinType, Zenon
    <3> QED BY <3>1, <3>8, BuildCons
  <2> QED BY <2>1, <2>2
<1>2. m \in [Elements -> Nat] /\ G \in SUBSET Elements
  BY WeightType
<1>3. \A es \in Elements : (\A r \in Elements : m[r] < m[es] => r \in G) => es \in G
  BY <1>1
<1>4. G = Elements
  <2> HIDE DEF G, m
  <2> QED BY <1>2, <1>3, MeasureInduction
<1> QED
  BY <1>4

LEMMA WrittenType == \A e \in Element : Written(e) \in Text
  BY ChildrenSound, BuildType DEF Written, Value, Element

\* What is written of the elements of a text is no longer than the text.
LEMMA BuildShrinks == \A s \in Text : Len(BuildTLV[ParseTLV[s]]) <= Len(s)
<1> DEFINE G == {s \in Text : Len(BuildTLV[ParseTLV[s]]) <= Len(s)}
<1>1. ASSUME NEW s \in Text, \A r \in Text : Len(r) < Len(s) => r \in G PROVE s \in G
  <2>0. Len(s) \in Nat
    BY TextByte
  <2>1. CASE ~Fits(s) \/ Backwards(s)
    <3>1. ParseTLV[s] = <<>>
      BY <2>1, ParseStops
    <3>2. Len(BuildTLV[ParseTLV[s]]) = 0
      BY <3>1, BuildEmpty, EmptyText
    <3> QED BY <2>0, <3>2
  <2>2. CASE Fits(s) /\ ~Backwards(s)
    <3>1. /\ First(s) \in Sound /\ RestOf(s) \in Text /\ Len(RestOf(s)) < Len(s)
          /\ Len(RestOf(s)) = Len(s) - 4 - Len(ValueOf(s))
      BY <2>2, FirstSound
    <3>2. PICK e \in Element : e = First(s) /\ Len(e.tag) = 2 /\ Len(e.value) <= 99 /\ e.value = ValueOf(s)
      BY <3>1 DEF Sound, First
    <3>3. PICK rest \in Elements : rest = ParseTLV[RestOf(s)]
      BY <3>1, ParseSound, SoundSeq
    <3>4. e.value \in Text /\ e.tag \in Text
      BY DEF Element
    <3>5. Len(BuildTLV[rest]) <= Len(RestOf(s)) /\ Len(RestOf(s)) \in Nat
      BY <1>1, <3>1, <3>3, TextByte
    <3>6. Len(e.value) \in Nat /\ Len(e.value) < Len(s)
      BY <3>1, <3>2, <3>4, <3>5, TextByte
    <3>7. Written(e) \in Text /\ Len(Written(e)) <= Len(e.value)
      <4>1. CASE Children(e) = <<>>
        BY <3>4, <3>6, <4>1 DEF Written, Value
      <4>2. CASE Children(e) # <<>>
        <5>1. Children(e) = ParseTLV[e.value]
          BY <4>2 DEF Children
        <5>2. Written(e) = BuildTLV[ParseTLV[e.value]]
          BY <4>2, <5>1 DEF Written, Value
        <5>3. e.value \in G
          BY <1>1, <3>4, <3>6
        <5> QED BY <5>2, <5>3, WrittenType
      <4> QED BY <4>1, <4>2
    <3>8. PICK w \in Text : w = Written(e)
      BY <3>7
    <3>9. PICK n \in 0 .. 99 : n = Len(w)
      <4>1. Len(w) \in Nat
        BY TextByte
      <4>2. Len(w) <= Len(e.value) /\ Len(e.value) <= 99
        BY <3>2, <3>7, <3>8
      <4>3. \A x, y \in Nat : x <= y /\ y <= 99 => x \in 0 .. 99
        OBVIOUS
      <4>4. Len(w) \in 0 .. 99
        BY <3>6, <4>1, <4>2, <4>3, Zenon
      <4> QED BY <4>4
    <3>10. PICK p \in Text : p = Padded(n) /\ Len(p) = 2
      BY PaddedReads
    <3>11. PICK r \in Text : r = BuildTLV[rest]
      BY BuildType
    <3>12. PICK t : Joins(t, e.tag, p, w, r)
      BY DEF Joins
    <3>13. Len(t) = Len(e.tag) + Len(p) + Len(w) + Len(r)
      BY <3>4, <3>12, FourTexts, SMTT(30) DEF Layout
    <3>14. BuildTLV[<<e>> \o rest] = t
      BY <3>8, <3>9, <3>10, <3>11, <3>12, BuildCons DEF Joins
    <3>15. BuildTLV[ParseTLV[s]] = t
      BY <2>2, <3>2, <3>3, <3>14, ParseGoesOn
    <3>16. Len(r) <= Len(RestOf(s)) /\ Len(w) <= Len(e.value)
      BY <3>5, <3>7, <3>8, <3>11
    <3>17. Len(t) <= Len(s)
      <4>1. Len(r) \in Nat /\ Len(w) \in Nat
        BY TextByte
      <4>2. Len(t) = 2 + 2 + Len(w) + Len(r)
        BY <3>2, <3>10, <3>13
      <4>3. Len(RestOf(s)) = Len(s) - 4 - Len(e.value)
        BY <3>1, <3>2
      <4> QED BY <2>0, <3>5, <3>6, <3>16, <4>1, <4>2, <4>3
    <3> QED BY <3>15, <3>17
  <2> QED BY <2>1, <2>2
<1> HIDE DEF G
<1>2. G = Text
  <2>1. G \in SUBSET Text
    BY DEF G
  <2> QED BY <1>1, <2>1, TextInduction
<1> QED
  BY <1>2 DEF G

LEMMA WrittenShrinks ==
  ASSUME NEW e \in Element
  PROVE  Written(e) \in Text /\ Len(Written(e)) \in Nat /\ Len(Written(e)) <= Len(e.value)
<1>1. e.value \in Text /\ Len(e.value) \in Nat
  BY TextByte DEF Element
<1>2. Written(e) \in Text /\ Len(Written(e)) \in Nat
  BY WrittenType, TextByte
<1>3. CASE Children(e) = <<>>
  BY <1>1, <1>2, <1>3 DEF Written, Value
<1>4. CASE Children(e) # <<>>
  <2>1. Children(e) = ParseTLV[e.value]
    BY <1>4 DEF Children
  <2>2. Written(e) = BuildTLV[ParseTLV[e.value]]
    BY <1>4, <2>1 DEF Written, Value
  <2> QED BY <1>1, <1>2, <2>2, BuildShrinks
<1> QED
  BY <1>3, <1>4

-----------------------------------------------------------------------------
(* Reading what was written                                                *)

LEMMA Slice ==
  ASSUME NEW s \in Text, NEW t \in Text, NEW m \in Nat \ {0}, NEW n \in Nat,
         n = m + Len(t) - 1, n <= Len(s),
         \A i \in 1 .. Len(t) : s[m + i - 1] = t[i]
  PROVE  SubSeq(s, m, n) = t
<1> DEFINE u == SubSeq(s, m, n)
<1>1. Len(t) \in Nat
  BY TextByte
<1>2. n \in Int
  OBVIOUS
<1>3. /\ u \in Text
      /\ Len(u) = IF m <= n THEN n - m + 1 ELSE 0
      /\ \A i \in 1 .. n - m + 1 : u[i] = s[m + i - 1]
  BY <1>2, TextSub
<1> HIDE DEF u
<1>4. Len(u) = Len(t)
  BY <1>1, <1>3
<1>5. n - m + 1 = Len(t)
  BY <1>1
<1>6. \A i \in 1 .. Len(u) : u[i] = t[i]
  BY <1>3, <1>4, <1>5
<1>7. u = t
  BY <1>3, <1>4, <1>6, TextEqual
<1> QED
  BY <1>7 DEF u

\* s begins with the element of tag a and value v, and goes on with r.
Reads(s, a, v, r) ==
  /\ s \in Text /\ Fits(s) /\ ~Backwards(s)
  /\ First(s) = [tag |-> a, value |-> v] /\ RestOf(s) = r

LEMMA ReadBack ==
  ASSUME NEW a \in Text, NEW v \in Text, NEW r \in Text, NEW n \in 0 .. 99,
         Len(a) = 2, Len(v) = n, NEW s, Joins(s, a, Padded(n), v, r)
  PROVE  Reads(s, a, v, r)
<1>1. PICK d \in Text : d = Padded(n) /\ Len(d) = 2 /\ IsInt(d) /\ IntOf(d) = n
  BY PaddedReads
<1>2. Joins(s, a, d, v, r)
  BY <1>1
<1>3. /\ s \in Text
      /\ Len(s) = Len(a) + Len(d) + Len(v) + Len(r)
      /\ \A i \in 1 .. Len(a) : s[i] = a[i]
      /\ \A i \in 1 .. Len(d) : s[Len(a) + i] = d[i]
      /\ \A i \in 1 .. Len(v) : s[Len(a) + Len(d) + i] = v[i]
      /\ \A i \in 1 .. Len(r) : s[Len(a) + Len(d) + Len(v) + i] = r[i]
  <2>1. Layout(s, a, d, v, r)
    BY <1>2, FourTexts, Zenon
  <2> QED BY <2>1 DEF Layout
<1>4. PICK l \in Nat : l = Len(r)
  BY TextByte
<1>5. s \in Text /\ Len(s) = 4 + n + l
  BY <1>1, <1>3, <1>4
<1>6. SubSeq(s, 1, 2) = a
  <2>1. PICK x \in Nat \ {0}, y \in Nat : x = 1 /\ y = 2
    OBVIOUS
  <2>2. y = x + Len(a) - 1 /\ y <= Len(s)
    BY <1>5, <2>1
  <2>3. \A i \in 1 .. Len(a) : s[x + i - 1] = a[i]
    BY <1>3, <2>1
  <2>4. SubSeq(s, x, y) = a
    BY <1>5, <2>2, <2>3, Slice, Zenon
  <2> QED BY <2>1, <2>4
<1>7. SubSeq(s, 3, 4) = d
  <2>1. PICK x \in Nat \ {0}, y \in Nat : x = 3 /\ y = 4
    OBVIOUS
  <2>2. y = x + Len(d) - 1 /\ y <= Len(s)
    BY <1>1, <1>5, <2>1
  <2>3. \A i \in 1 .. Len(d) : s[x + i - 1] = d[i]
    <3>1. \A i \in 1 .. Len(d) : s[2 + i] = d[i]
      BY <1>3
    <3>2. \A i \in 1 .. Len(d) : x + i - 1 = 2 + i
      BY <1>1, <2>1
    <3> QED BY <3>1, <3>2
  <2>4. SubSeq(s, x, y) = d
    BY <1>5, <2>2, <2>3, Slice, Zenon
  <2> QED BY <2>1, <2>4
<1>8. SubSeq(s, 5, 4 + n) = v
  <2>1. PICK x \in Nat \ {0}, y \in Nat : x = 5 /\ y = 4 + n
    OBVIOUS
  <2>2. y = x + Len(v) - 1 /\ y <= Len(s)
    BY <1>5, <2>1
  <2>3. \A i \in 1 .. Len(v) : s[x + i - 1] = v[i]
    <3>1. \A i \in 1 .. Len(v) : s[4 + i] = v[i]
      BY <1>1, <1>3
    <3>2. \A i \in 1 .. Len(v) : x + i - 1 = 4 + i
      BY <2>1
    <3> QED BY <3>1, <3>2
  <2>4. SubSeq(s, x, y) = v
    BY <1>5, <2>2, <2>3, Slice, Zenon
  <2> QED BY <2>1, <2>4
<1>9. SubSeq(s, 5 + n, Len(s)) = r
  <2>1. PICK x \in Nat \ {0}, y \in Nat : x = 5 + n /\ y = Len(s)
    BY <1>5
  <2>2. y = x + Len(r) - 1 /\ y <= Len(s)
    BY <1>4, <1>5, <2>1
  <2>3. \A i \in 1 .. Len(r) : s[x + i - 1] = r[i]
    <3>1. \A i \in 1 .. Len(r) : s[4 + n + i] = r[i]
      BY <1>1, <1>3
    <3>2. \A i \in 1 .. Len(r) : x + i - 1 = 4 + n + i
      BY <1>4, <2>1
    <3> QED BY <3>1, <3>2
  <2>4. SubSeq(s, x, y) = r
    BY <1>5, <2>2, <2>3, Slice, Zenon
  <2> QED BY <2>1, <2>4
<1>10. Fits(s) /\ ~Backwards(s)
  <2>1. IsInt(SubSeq(s, 3, 4)) /\ IntOf(SubSeq(s, 3, 4)) = n
    BY <1>1, <1>7
  <2>2. Len(s) >= 4 /\ 4 + n <= Len(s) /\ ~(n < 0)
    BY <1>5
  <2> QED BY <2>1, <2>2, Zenon DEF Fits, Backwards
<1>11. First(s) = [tag |-> a, value |-> v]
  BY <1>1, <1>6, <1>7, <1>8 DEF First, ValueOf
<1>12. RestOf(s) = r
  BY <1>1, <1>7, <1>9 DEF RestOf
<1> QED
  BY <1>5, <1>10, <1>11, <1>12 DEF Reads

\* f of each element.
Mapped(f, es) == [i \in DOMAIN es |-> f[es[i]]]

MapsTo(f, e, es, U) ==
  /\ Mapped(f, es) \in Seq(U)
  /\ Mapped(f, <<e>> \o es) = <<f[e]>> \o Mapped(f, es)

LEMMA MapCons ==
  ASSUME NEW T, NEW U, NEW f \in [T -> U], NEW e \in T, NEW es \in Seq(T)
  PROVE  MapsTo(f, e, es, U)
<1> DEFINE s == <<e>> \o es
           t == Mapped(f, es)
           u == Mapped(f, s)
           v == <<f[e]>> \o t
<1>1. /\ <<e>> \in Seq(T) /\ Len(<<e>>) = 1 /\ <<e>>[1] = e
      /\ f[e] \in U /\ <<f[e]>> \in Seq(U) /\ Len(<<f[e]>>) = 1 /\ <<f[e]>>[1] = f[e]
  OBVIOUS
<1>2. PICK n \in Nat : n = Len(es)
  OBVIOUS
<1>3. t \in Seq(U) /\ Len(t) = n /\ \A i \in 1 .. n : t[i] = f[es[i]]
  BY <1>2 DEF Mapped
<1>4. /\ s \in Seq(T) /\ Len(s) = 1 + n
      /\ \A i \in 1 .. 1 + n : s[i] = IF i <= 1 THEN <<e>>[i] ELSE es[i - 1]
  BY <1>1, <1>2, ConcatProperties
<1>5. u \in Seq(U) /\ Len(u) = 1 + n /\ \A i \in 1 .. 1 + n : u[i] = f[s[i]]
  <2> HIDE DEF s
  <2> QED BY <1>4 DEF Mapped
<1> HIDE DEF t
<1>6. /\ v \in Seq(U) /\ Len(v) = 1 + n
      /\ \A i \in 1 .. 1 + n : v[i] = IF i <= 1 THEN <<f[e]>>[i] ELSE t[i - 1]
  BY <1>1, <1>3, ConcatProperties
<1> HIDE DEF s, u, v
<1>7. \A i \in 1 .. 1 + n : u[i] = v[i]
  <2> SUFFICES ASSUME NEW i \in 1 .. 1 + n PROVE u[i] = v[i]
    OBVIOUS
  <2>1. CASE i = 1
    BY <1>1, <1>4, <1>5, <1>6, <2>1
  <2>2. CASE i # 1
    <3>1. i - 1 \in 1 .. n /\ ~(i <= 1)
      BY <2>2
    <3>2. s[i] = es[i - 1] /\ v[i] = t[i - 1]
      BY <1>4, <1>6, <3>1
    <3> QED BY <1>3, <1>5, <3>1, <3>2
  <2> QED BY <2>1, <2>2
<1>8. u = v
  BY <1>5, <1>6, <1>7, SeqEqual
<1> QED
  BY <1>3, <1>8 DEF s, t, u, v, MapsTo

LEMMA MapEmpty == \A f : Mapped(f, <<>>) = <<>>
  BY DEF Mapped

\* An element as it is read again after it was written.
Rewrite == [e \in Element |-> [tag |-> e.tag, value |-> Written(e)]]

LEMMA RewriteType == Rewrite \in [Element -> Element]
  BY WrittenType DEF Rewrite, Element

LEMMA RewriteSound == \A e \in Sound : Rewrite[e] \in Sound
<1> SUFFICES ASSUME NEW e \in Sound PROVE Rewrite[e] \in Sound
  OBVIOUS
<1>1. e \in Element /\ Len(e.tag) = 2 /\ Len(e.value) <= 99
  BY DEF Sound
<1>2. Rewrite[e] \in Element /\ Rewrite[e].tag = e.tag /\ Rewrite[e].value = Written(e)
  BY <1>1, RewriteType DEF Rewrite
<1>3. Len(Written(e)) \in Nat /\ Len(Written(e)) <= Len(e.value) /\ Len(e.value) \in Nat
  BY <1>1, WrittenShrinks, TextByte DEF Element
<1> QED
  BY <1>1, <1>2, <1>3 DEF Sound

LEMMA JoinAssociative ==
  ASSUME NEW a \in Text, NEW b \in Text, NEW c \in Text, NEW d \in Text, NEW r \in Text,
         NEW s, Joins(s, a, b, c, d)
  PROVE  Joins(s \o r, a, b, c, d \o r)
<1>1. PICK x \in Text : x = a \o b \o c
  BY ThreeTexts
<1>2. (x \o d) \o r = x \o (d \o r)
  BY TextAssociative, Zenon
<1> QED
  BY <1>1, <1>2, Zenon DEF Joins

LEMMA SmallLength ==
  ASSUME NEW t \in Text, NEW n \in Nat, Len(t) <= n, n <= 99
  PROVE  Len(t) \in 0 .. 99
<1>1. Len(t) \in Nat
  BY TextByte
<1>2. \A x, y \in Nat : x <= y /\ y <= 99 => x \in 0 .. 99
  OBVIOUS
<1> QED
  BY <1>1, <1>2, Zenon

LEMMA RoundTripOne ==
  ASSUME NEW a \in Text, NEW w \in Text, NEW n \in 0 .. 99, NEW b \in Text, NEW r \in Text,
         Len(a) = 2, Len(w) = n, NEW s, Joins(s, a, Padded(n), w, b)
  PROVE  Reads(s \o r, a, w, b \o r)
<1>1. Padded(n) \in Text
  BY PaddedReads
<1>2. PICK x : x = s \o r
  OBVIOUS
<1>3. PICK t \in Text : t = b \o r
  BY TextConcat
<1>4. Joins(x, a, Padded(n), w, t)
  <2>1. Joins(s \o r, a, Padded(n), w, b \o r)
    BY <1>1, JoinAssociative, Zenon
  <2> QED BY <1>2, <1>3, <2>1, Zenon
<1>5. Reads(x, a, w, t)
  BY <1>4, ReadBack, Zenon
<1> QED
  BY <1>2, <1>3, <1>5, Zenon

LEMMA ElementsAssociative ==
  ASSUME NEW x \in Elements, NEW y \in Elements, NEW z \in Elements
  PROVE  (x \o y) \o z = x \o (y \o z)
<1>1. x \in Seq(Element) /\ y \in Seq(Element) /\ z \in Seq(Element)
  BY DEF Elements
<1> HIDE DEF Elements
<1> QED
  BY <1>1, ConcatAssociative

LEMMA RewriteCons ==
  ASSUME NEW e \in Element, NEW es \in Elements
  PROVE  /\ Mapped(Rewrite, es) \in Elements /\ <<Rewrite[e]>> \in Elements
         /\ Mapped(Rewrite, <<e>> \o es) = <<Rewrite[e]>> \o Mapped(Rewrite, es)
<1>1. es \in Seq(Element)
  BY DEF Elements
<1>2. /\ Mapped(Rewrite, es) \in Seq(Element)
      /\ Mapped(Rewrite, <<e>> \o es) = <<Rewrite[e]>> \o Mapped(Rewrite, es)
  <2>1. MapsTo(Rewrite, e, es, Element)
    BY <1>1, RewriteType, MapCons, Zenon
  <2> QED BY <2>1 DEF MapsTo
<1>3. Rewrite[e] \in Element
  BY RewriteType
<1>4. <<Rewrite[e]>> \in Seq(Element)
  BY <1>3
<1> QED
  BY <1>2, <1>4 DEF Elements

\* What is written is read element by element.
LEMMA WrittenReads ==
  ASSUME NEW e \in Sound, NEW es \in Elements, NEW r \in Text
  PROVE  Reads(BuildTLV[<<e>> \o es] \o r, e.tag, Written(e), BuildTLV[es] \o r)
<1>1. e \in Element /\ Len(e.tag) = 2 /\ Len(e.value) <= 99
  BY DEF Sound
<1>2. PICK a \in Text : a = e.tag /\ Len(a) = 2
  BY <1>1 DEF Element
<1>3. PICK w \in Text : w = Written(e) /\ Len(w) <= Len(e.value)
  BY <1>1, WrittenShrinks
<1>4. PICK n \in 0 .. 99 : n = Len(w)
  <2>1. Len(e.value) \in Nat
    BY <1>1, TextByte DEF Element
  <2>2. Len(w) \in 0 .. 99
    BY <1>1, <1>3, <2>1, SmallLength, ZenonT(60)
  <2> QED BY <2>2
<1>5. PICK b \in Text : b = BuildTLV[es]
  BY BuildType
<1>6. PICK t : t = BuildTLV[<<e>> \o es]
  OBVIOUS
<1>7. Joins(t, a, Padded(n), w, b)
  BY <1>1, <1>2, <1>3, <1>4, <1>5, <1>6, BuildCons DEF Joins
<1>8. Reads(t \o r, a, w, b \o r)
  BY <1>2, <1>4, <1>7, RoundTripOne, Zenon
<1> QED
  BY <1>2, <1>3, <1>5, <1>6, <1>8, Zenon

(* ParseTLV, buildTLVString: the reader gives back the elements that the   *)
(* writer was given, each value as it was written anew, and reads on in    *)
(* whatever follows them.                                                  *)
THEOREM RoundTrip ==
  ASSUME NEW r \in Text
  PROVE  \A es \in Seq(Sound) : ParseTLV[BuildTLV[es] \o r] = Mapped(Rewrite, es) \o ParseTLV[r]
<1> DEFINE G == {es \in Seq(Sound) : ParseTLV[BuildTLV[es] \o r] = Mapped(Rewrite, es) \o ParseTLV[r]}
<1>1. <<>> \in G
  <2>1. <<>> \o r = r
    BY DEF Text
  <2>2. <<>> \o ParseTLV[r] = ParseTLV[r]
    BY ParseSound
  <2>3. <<>> \in Seq(Sound)
    OBVIOUS
  <2> QED BY <2>1, <2>2, <2>3, BuildEmpty, MapEmpty, Zenon
<1>2. ASSUME NEW e \in Sound, NEW es \in G PROVE <<e>> \o es \in G
  <2>1. es \in Seq(Sound) /\ ParseTLV[BuildTLV[es] \o r] = Mapped(Rewrite, es) \o ParseTLV[r]
    OBVIOUS
  <2>2. <<e>> \o es \in Seq(Sound)
    BY <2>1, ConsOf
  <2> SUFFICES ParseTLV[BuildTLV[<<e>> \o es] \o r] = Mapped(Rewrite, <<e>> \o es) \o ParseTLV[r]
    BY <2>2
  <2> HIDE DEF G
  <2>3. e \in Element /\ es \in Elements
    BY <2>1, SoundSeq DEF Sound
  <2>4. PICK x, y : x = BuildTLV[<<e>> \o es] \o r /\ y = BuildTLV[es] \o r
    OBVIOUS
  <2>5. PICK f : f = Rewrite[e] /\ f = [tag |-> e.tag, value |-> Written(e)]
    BY <2>3 DEF Rewrite
  <2>6. ParseTLV[x] = <<f>> \o ParseTLV[y]
    <3>1. Reads(x, e.tag, Written(e), y)
      BY <2>3, <2>4, WrittenReads, Zenon
    <3>2. x \in Text /\ Fits(x) /\ ~Backwards(x) /\ First(x) = f /\ RestOf(x) = y
      BY <2>5, <3>1, Zenon DEF Reads
    <3> QED BY <3>2, ParseGoesOn, Zenon
  <2>7. PICK m \in Elements : m = Mapped(Rewrite, es)
    BY <2>3, RewriteCons
  <2>8. PICK q \in Elements : q = ParseTLV[r]
    BY ParseSound, SoundSeq
  <2>9. PICK h \in Elements : h = <<f>>
    BY <2>3, <2>5, RewriteCons
  <2>10. Mapped(Rewrite, <<e>> \o es) = h \o m
    BY <2>3, <2>5, <2>7, <2>9, RewriteCons, Zenon
  <2>11. h \o (m \o q) = (h \o m) \o q
    BY ElementsAssociative
  <2> QED
    BY <2>1, <2>4, <2>6, <2>7, <2>8, <2>9, <2>10, <2>11, Zenon
<1>3. G \in SUBSET Seq(Sound)
  OBVIOUS
<1>4. G = Seq(Sound)
  <2> HIDE DEF G
  <2> QED BY <1>1, <1>2, <1>3, SeqInduction
<1> QED
  BY <1>4

-----------------------------------------------------------------------------
(* Leaving out                                                             *)

\* What stays of an element.
Kept(e, tags) == IF e.tag \in tags THEN <<>> ELSE <<e>>

LEMMA WithoutExists ==
  ASSUME NEW tags
  PROVE  \E f : f = [es \in Elements |-> IF es = <<>> THEN <<>> ELSE Kept(es[1], tags) \o f[Tail(es)]]
<1> DEFINE D == Elements
           V == Elements
           Body(g) == [es \in D |-> IF es = <<>> THEN <<>> ELSE Kept(es[1], tags) \o g[Tail(es)]]
           Phi == [g \in [D -> V] |-> Body(g)]
           m == [es \in D |-> Len(es)]
<1>1. ASSUME NEW es \in D, es # <<>>
      PROVE  Kept(es[1], tags) \in V /\ Tail(es) \in D /\ m[Tail(es)] < m[es]
  <2>1. es[1] \in Element /\ Tail(es) \in D /\ Len(Tail(es)) < Len(es)
    BY <1>1, ConsSplit DEF Elements
  <2>2. <<es[1]>> \in Seq(Element) /\ <<>> \in Seq(Element)
    BY <2>1
  <2> QED BY <2>1, <2>2 DEF Kept, Elements
<1>2. ASSUME NEW g \in [D -> V] PROVE Body(g) \in [D -> V]
  <2>1. <<>> \in V
    BY DEF Elements
  <2>2. \A x, y \in V : x \o y \in V
    BY DEF Elements
  <2> HIDE DEF V, D, m
  <2> QED BY <1>1, <2>1, <2>2
<1>3. \A g \in [D -> V] : Phi[g] = Body(g)
  OBVIOUS
<1>4. Descends(D, V, m, Phi)
  <2>1. V # {}
    <3>1. <<>> \in V
      BY DEF Elements
    <3> QED BY <3>1
  <2>2. m \in [D -> Nat]
    BY DEF Elements
  <2>3. Phi \in [[D -> V] -> [D -> V]]
    BY <1>2
  <2>4. ASSUME NEW g \in [D -> V], NEW h \in [D -> V], NEW es \in D,
               \A e \in D : m[e] < m[es] => g[e] = h[e]
        PROVE  Phi[g][es] = Phi[h][es]
    <3>1. es # <<>> => g[Tail(es)] = h[Tail(es)]
      BY <1>1, <2>4
    <3> HIDE DEF D, V, m
    <3> QED BY <1>3, <3>1
  <2> HIDE DEF Phi, m, D, V
  <2> QED BY <2>1, <2>2, <2>3, <2>4 DEF Descends
<1> HIDE DEF Phi, m, D, V, Body
<1>5. PICK f \in [D -> V] : f = Phi[f]
  BY <1>4, RecursionExists
<1>6. f = Body(f)
  BY <1>3, <1>5
<1> QED
  BY <1>6 DEF D, Body

LEMMA WithoutDef ==
  ASSUME NEW tags
  PROVE  \A es \in Elements :
           Without(es, tags) =
             IF es = <<>> THEN <<>> ELSE Kept(es[1], tags) \o Without(Tail(es), tags)
<1> DEFINE Follows(f) ==
             f = [es \in Elements |-> IF es = <<>> THEN <<>> ELSE Kept(es[1], tags) \o f[Tail(es)]]
           others == CHOOSE f : Follows(f)
<1>1. Follows(others)
  <2>1. \E f : Follows(f)
    BY WithoutExists
  <2> HIDE DEF Follows
  <2> QED BY <2>1
<1>2. \A es : Without(es, tags) = others[es]
  BY DEF Without, Kept, Elements
<1> HIDE DEF others
<1>3. \A es \in Elements :
        others[es] = IF es = <<>> THEN <<>> ELSE Kept(es[1], tags) \o others[Tail(es)]
  BY <1>1, Zenon
<1> QED
  BY <1>2, <1>3, Zenon

LEMMA WithoutEmpty == \A tags : Without(<<>>, tags) = <<>>
<1>1. <<>> \in Elements
  BY DEF Elements
<1> QED
  BY <1>1, WithoutDef, Zenon

LEMMA WithoutCons ==
  ASSUME NEW tags, NEW e \in Element, NEW es \in Elements
  PROVE  Without(<<e>> \o es, tags) = Kept(e, tags) \o Without(es, tags)
<1> DEFINE s == <<e>> \o es
<1>1. s \in Elements /\ s # <<>> /\ s[1] = e /\ Tail(s) = es
  BY ConsOf DEF Elements
<1> HIDE DEF s
<1>2. Without(s, tags) = Kept(s[1], tags) \o Without(Tail(s), tags)
  BY <1>1, WithoutDef, Zenon
<1> QED
  BY <1>1, <1>2 DEF s

LEMMA EmptyElements == <<>> \in Elements /\ \A es \in Elements : <<>> \o es = es /\ es \o <<>> = es
  BY DEF Elements

LEMMA WithoutType == \A tags : \A es \in Elements : Without(es, tags) \in Elements
<1> SUFFICES ASSUME NEW tags PROVE \A es \in Elements : Without(es, tags) \in Elements
  OBVIOUS
<1> DEFINE G == {es \in Seq(Element) : Without(es, tags) \in Elements}
<1>1. <<>> \in G
  BY WithoutEmpty, EmptyElements DEF Elements
<1>2. ASSUME NEW e \in Element, NEW es \in G PROVE <<e>> \o es \in G
  <2>1. es \in Elements /\ Without(es, tags) \in Elements
    BY DEF Elements
  <2>2. <<e>> \o es \in Seq(Element)
    BY ConsOf
  <2>3. Without(<<e>> \o es, tags) = Kept(e, tags) \o Without(es, tags)
    BY <2>1, WithoutCons
  <2>4. Kept(e, tags) \in Elements
    BY DEF Kept, Elements
  <2>5. \A x, y \in Elements : x \o y \in Elements
    BY DEF Elements
  <2>6. Without(<<e>> \o es, tags) \in Elements
    BY <2>1, <2>3, <2>4, <2>5, Zenon
  <2> QED BY <2>2, <2>6
<1>3. G = Seq(Element)
  <2>1. G \in SUBSET Seq(Element)
    OBVIOUS
  <2> HIDE DEF G
  <2> QED BY <1>1, <1>2, <2>1, SeqInduction
<1> QED
  BY <1>3 DEF Elements

\* An element goes or stays.
LEMMA WithoutOut ==
  ASSUME NEW tags, NEW e \in Element, NEW es \in Elements, e.tag \in tags
  PROVE  Without(<<e>> \o es, tags) = Without(es, tags)
<1>1. Kept(e, tags) = <<>>
  BY Zenon DEF Kept
<1>2. Without(es, tags) \in Elements
  BY WithoutType
<1>3. Without(<<e>> \o es, tags) = <<>> \o Without(es, tags)
  BY <1>1, WithoutCons, Zenon
<1> QED
  BY <1>2, <1>3, EmptyElements, Zenon

LEMMA WithoutIn ==
  ASSUME NEW tags, NEW e \in Element, NEW es \in Elements, e.tag \notin tags
  PROVE  Without(<<e>> \o es, tags) = <<e>> \o Without(es, tags)
<1>1. Kept(e, tags) = <<e>>
  BY Zenon DEF Kept
<1> QED
  BY <1>1, WithoutCons, Zenon

LEMMA ElementsCons ==
  ASSUME NEW e \in Element, NEW es \in Elements
  PROVE  <<e>> \o es \in Elements /\ <<e>> \in Elements
<1>1. <<e>> \in Seq(Element)
  OBVIOUS
<1> QED
  BY <1>1, ConsOf DEF Elements

LEMMA ElementsConcat == \A x, y \in Elements : x \o y \in Elements
  BY DEF Elements

\* Induction over elements.
LEMMA ElementsInduction ==
  ASSUME NEW G \in SUBSET Elements, <<>> \in G, \A e \in Element, es \in G : <<e>> \o es \in G
  PROVE  G = Elements
  BY SeqInduction DEF Elements

LEMMA WithoutSound == \A tags : \A es \in Seq(Sound) : Without(es, tags) \in Seq(Sound)
<1> SUFFICES ASSUME NEW tags PROVE \A es \in Seq(Sound) : Without(es, tags) \in Seq(Sound)
  OBVIOUS
<1> DEFINE G == {es \in Seq(Sound) : Without(es, tags) \in Seq(Sound)}
<1>1. <<>> \in G
  <2>1. <<>> \in Seq(Sound)
    OBVIOUS
  <2> QED BY <2>1, WithoutEmpty
<1>2. ASSUME NEW e \in Sound, NEW es \in G PROVE <<e>> \o es \in G
  <2>1. es \in Seq(Sound) /\ es \in Elements /\ e \in Element
    BY SoundSeq DEF Sound
  <2>2. <<e>> \o es \in Seq(Sound)
    BY <2>1, ConsOf
  <2>3. Without(es, tags) \in Seq(Sound)
    OBVIOUS
  <2>4. <<e>> \o Without(es, tags) \in Seq(Sound)
    BY <2>3, ConsOf
  <2>5. Without(<<e>> \o es, tags) \in {Without(es, tags), <<e>> \o Without(es, tags)}
    BY <2>1, WithoutOut, WithoutIn
  <2>6. Without(<<e>> \o es, tags) \in Seq(Sound)
    BY <2>3, <2>4, <2>5, Zenon
  <2> QED BY <2>2, <2>6
<1>3. G = Seq(Sound)
  <2>1. G \in SUBSET Seq(Sound)
    OBVIOUS
  <2> HIDE DEF G
  <2> QED BY <1>1, <1>2, <2>1, SeqInduction
<1> QED
  BY <1>3

LEMMA WithoutConcat ==
  ASSUME NEW tags, NEW y \in Elements
  PROVE  \A x \in Elements : Without(x \o y, tags) = Without(x, tags) \o Without(y, tags)
<1> DEFINE G == {x \in Elements : Without(x \o y, tags) = Without(x, tags) \o Without(y, tags)}
<1>0. Without(y, tags) \in Elements
  BY WithoutType
<1>1. <<>> \in G
  <2>1. Without(<<>> \o y, tags) = Without(<<>>, tags) \o Without(y, tags)
    BY <1>0, WithoutEmpty, EmptyElements, Zenon
  <2> QED BY <2>1, EmptyElements
<1>2. ASSUME NEW e \in Element, NEW x \in G PROVE <<e>> \o x \in G
  <2>1. x \in Elements /\ Without(x \o y, tags) = Without(x, tags) \o Without(y, tags)
    OBVIOUS
  <2>2. <<e>> \o x \in Elements /\ <<e>> \in Elements /\ x \o y \in Elements
    BY <2>1, ElementsCons, ElementsConcat, Zenon
  <2> SUFFICES Without((<<e>> \o x) \o y, tags) = Without(<<e>> \o x, tags) \o Without(y, tags)
    BY <2>2
  <2> HIDE DEF G
  <2>3. (<<e>> \o x) \o y = <<e>> \o (x \o y)
    BY <2>1, <2>2, ElementsAssociative, Zenon
  <2>4. CASE e.tag \in tags
    <3>1. Without(<<e>> \o (x \o y), tags) = Without(x \o y, tags)
      BY <2>2, <2>4, WithoutOut, Zenon
    <3>2. Without(<<e>> \o x, tags) = Without(x, tags)
      BY <2>1, <2>4, WithoutOut, Zenon
    <3> QED BY <2>1, <2>3, <3>1, <3>2, Zenon
  <2>5. CASE e.tag \notin tags
    <3>1. Without(<<e>> \o (x \o y), tags) = <<e>> \o Without(x \o y, tags)
      BY <2>2, <2>5, WithoutIn, Zenon
    <3>2. Without(<<e>> \o x, tags) = <<e>> \o Without(x, tags)
      BY <2>1, <2>5, WithoutIn, Zenon
    <3>3. Without(x, tags) \in Elements
      BY <2>1, WithoutType
    <3>4. (<<e>> \o Without(x, tags)) \o Without(y, tags) = <<e>> \o (Without(x, tags) \o Without(y, tags))
      <4>1. PICK h \in Elements, a \in Elements, b \in Elements :
              h = <<e>> /\ a = Without(x, tags) /\ b = Without(y, tags)
        BY <1>0, <2>2, <3>3
      <4>2. (h \o a) \o b = h \o (a \o b)
        BY ElementsAssociative
      <4> QED BY <4>1, <4>2
    <3> QED BY <2>1, <2>3, <3>1, <3>2, <3>4, Zenon
  <2> QED BY <2>4, <2>5
<1>3. G = Elements
  <2>1. G \in SUBSET Elements
    OBVIOUS
  <2> HIDE DEF G
  <2> QED BY <1>1, <1>2, <2>1, ElementsInduction
<1> QED
  BY <1>3

LEMMA WithoutTwice ==
  ASSUME NEW less, NEW more, less \subseteq more
  PROVE  \A es \in Elements : Without(Without(es, less), more) = Without(es, more)
<1> DEFINE G == {es \in Elements : Without(Without(es, less), more) = Without(es, more)}
<1>1. <<>> \in G
  BY WithoutEmpty, EmptyElements
<1>2. ASSUME NEW e \in Element, NEW es \in G PROVE <<e>> \o es \in G
  <2>1. es \in Elements /\ Without(Without(es, less), more) = Without(es, more)
    OBVIOUS
  <2>2. <<e>> \o es \in Elements
    BY <2>1, ElementsCons
  <2> SUFFICES Without(Without(<<e>> \o es, less), more) = Without(<<e>> \o es, more)
    BY <2>2
  <2> HIDE DEF G
  <2>3. Without(es, less) \in Elements
    BY <2>1, WithoutType
  <2>4. CASE e.tag \in less
    <3>1. Without(<<e>> \o es, less) = Without(es, less)
      BY <2>1, <2>4, WithoutOut, Zenon
    <3>2. Without(<<e>> \o es, more) = Without(es, more)
      BY <2>1, <2>4, WithoutOut, Zenon
    <3> QED BY <2>1, <3>1, <3>2, Zenon
  <2>5. CASE e.tag \notin less /\ e.tag \in more
    <3>1. Without(<<e>> \o es, less) = <<e>> \o Without(es, less)
      BY <2>1, <2>5, WithoutIn, Zenon
    <3>2. Without(<<e>> \o Without(es, less), more) = Without(Without(es, less), more)
      BY <2>3, <2>5, WithoutOut, Zenon
    <3>3. Without(<<e>> \o es, more) = Without(es, more)
      BY <2>1, <2>5, WithoutOut, Zenon
    <3> QED BY <2>1, <3>1, <3>2, <3>3, Zenon
  <2>6. CASE e.tag \notin more
    <3>1. Without(<<e>> \o es, less) = <<e>> \o Without(es, less)
      BY <2>1, <2>6, WithoutIn, Zenon
    <3>2. Without(<<e>> \o Without(es, less), more) = <<e>> \o Without(Without(es, less), more)
      BY <2>3, <2>6, WithoutIn, Zenon
    <3>3. Without(<<e>> \o es, more) = <<e>> \o Without(es, more)
      BY <2>1, <2>6, WithoutIn, Zenon
    <3> QED BY <2>1, <3>1, <3>2, <3>3, Zenon
  <2> QED BY <2>4, <2>5, <2>6
<1>3. G = Elements
  <2>1. G \in SUBSET Elements
    OBVIOUS
  <2> HIDE DEF G
  <2> QED BY <1>1, <1>2, <2>1, ElementsInduction
<1> QED
  BY <1>3

LEMMA MapElements ==
  ASSUME NEW f \in [Element -> Element], NEW e \in Element, NEW es \in Elements
  PROVE  /\ Mapped(f, es) \in Elements
         /\ Mapped(f, <<e>> \o es) = <<f[e]>> \o Mapped(f, es)
<1>1. MapsTo(f, e, es, Element)
  <2>1. es \in Seq(Element)
    BY DEF Elements
  <2> QED BY <2>1, MapCons, Zenon
<1> QED
  BY <1>1 DEF MapsTo, Elements

\* What f does only to elements that are left out is not seen.
LEMMA WithoutChanged ==
  ASSUME NEW tags, NEW f \in [Element -> Element],
         \A e \in Element : IF e.tag \in tags THEN f[e].tag \in tags ELSE f[e] = e
  PROVE  \A es \in Elements : Without(Mapped(f, es), tags) = Without(es, tags)
<1> DEFINE G == {es \in Elements : Without(Mapped(f, es), tags) = Without(es, tags)}
<1>1. <<>> \in G
  BY WithoutEmpty, EmptyElements, MapEmpty
<1>2. ASSUME NEW e \in Element, NEW es \in G PROVE <<e>> \o es \in G
  <2>1. es \in Elements /\ Without(Mapped(f, es), tags) = Without(es, tags)
    OBVIOUS
  <2>2. <<e>> \o es \in Elements
    BY <2>1, ElementsCons
  <2> SUFFICES Without(Mapped(f, <<e>> \o es), tags) = Without(<<e>> \o es, tags)
    BY <2>2
  <2> HIDE DEF G
  <2>3. Mapped(f, es) \in Elements /\ Mapped(f, <<e>> \o es) = <<f[e]>> \o Mapped(f, es)
    BY <2>1, MapElements
  <2>4. f[e] \in Element
    OBVIOUS
  <2>5. CASE e.tag \in tags
    <3>0. f[e].tag \in tags
      BY <2>5
    <3>1. Without(<<f[e]>> \o Mapped(f, es), tags) = Without(Mapped(f, es), tags)
      BY <2>3, <2>4, <3>0, WithoutOut, Zenon
    <3>2. Without(<<e>> \o es, tags) = Without(es, tags)
      BY <2>1, <2>5, WithoutOut
    <3> QED BY <2>1, <2>3, <3>1, <3>2, Zenon
  <2>6. CASE e.tag \notin tags
    <3>0. f[e] = e
      BY <2>6
    <3>1. Without(<<e>> \o Mapped(f, es), tags) = <<e>> \o Without(Mapped(f, es), tags)
      BY <2>3, <2>6, WithoutIn, Zenon
    <3>2. Without(<<e>> \o es, tags) = <<e>> \o Without(es, tags)
      BY <2>1, <2>6, WithoutIn, Zenon
    <3> QED BY <2>1, <2>3, <3>0, <3>1, <3>2, Zenon
  <2> QED BY <2>5, <2>6
<1>3. G = Elements
  <2>1. G \in SUBSET Elements
    OBVIOUS
  <2> HIDE DEF G
  <2> QED BY <1>1, <1>2, <2>1, ElementsInduction
<1> QED
  BY <1>3

\* Reading again keeps the tags.
\* A function that keeps the tags leaves out the same elements.
LEMMA WithoutMapped ==
  ASSUME NEW tags, NEW f \in [Element -> Element], \A e \in Element : f[e].tag = e.tag
  PROVE  \A es \in Elements : Without(Mapped(f, es), tags) = Mapped(f, Without(es, tags))
<1> DEFINE G == {es \in Elements : Without(Mapped(f, es), tags) = Mapped(f, Without(es, tags))}
<1>1. <<>> \in G
  BY WithoutEmpty, EmptyElements, MapEmpty
<1>2. ASSUME NEW e \in Element, NEW es \in G PROVE <<e>> \o es \in G
  <2>1. es \in Elements /\ Without(Mapped(f, es), tags) = Mapped(f, Without(es, tags))
    OBVIOUS
  <2>2. <<e>> \o es \in Elements
    BY <2>1, ElementsCons
  <2> SUFFICES Without(Mapped(f, <<e>> \o es), tags) = Mapped(f, Without(<<e>> \o es, tags))
    BY <2>2
  <2> HIDE DEF G
  <2>3. PICK h : h = f[e]
    OBVIOUS
  <2>4. h \in Element /\ h.tag = e.tag
    BY <2>3
  <2>5. Mapped(f, es) \in Elements /\ Mapped(f, <<e>> \o es) = <<h>> \o Mapped(f, es)
    BY <2>1, <2>3, MapElements
  <2>6. CASE e.tag \in tags
    <3>0. h.tag \in tags
      BY <2>4, <2>6
    <3>1. Without(<<h>> \o Mapped(f, es), tags) = Without(Mapped(f, es), tags)
      BY <2>4, <2>5, <3>0, WithoutOut, Zenon
    <3>2. Without(<<e>> \o es, tags) = Without(es, tags)
      BY <2>1, <2>6, WithoutOut, Zenon
    <3> QED BY <2>1, <2>5, <3>1, <3>2, Zenon
  <2>7. CASE e.tag \notin tags
    <3>0. h.tag \notin tags
      BY <2>4, <2>7
    <3>1. Without(<<h>> \o Mapped(f, es), tags) = <<h>> \o Without(Mapped(f, es), tags)
      BY <2>4, <2>5, <3>0, WithoutIn, Zenon
    <3>2. Without(<<e>> \o es, tags) = <<e>> \o Without(es, tags)
      BY <2>1, <2>7, WithoutIn, Zenon
    <3>3. Mapped(f, <<e>> \o Without(es, tags)) = <<h>> \o Mapped(f, Without(es, tags))
      <4>1. PICK u \in Elements : u = Without(es, tags)
        BY <2>1, WithoutType
      <4>2. Mapped(f, <<e>> \o u) = <<h>> \o Mapped(f, u)
        BY <2>3, MapElements
      <4> QED BY <4>1, <4>2
    <3> QED BY <2>1, <2>5, <3>1, <3>2, <3>3, Zenon
  <2> QED BY <2>6, <2>7
<1>3. G = Elements
  <2>1. G \in SUBSET Elements
    OBVIOUS
  <2> HIDE DEF G
  <2> QED BY <1>1, <1>2, <2>1, ElementsInduction
<1> QED
  BY <1>3

LEMMA WithoutRewritten ==
  ASSUME NEW tags
  PROVE  \A es \in Elements : Without(Mapped(Rewrite, es), tags) = Mapped(Rewrite, Without(es, tags))
<1>1. Rewrite \in [Element -> Element] /\ \A e \in Element : Rewrite[e].tag = e.tag
  BY RewriteType DEF Rewrite
<1> QED
  BY <1>1, WithoutMapped

-----------------------------------------------------------------------------
(* Places in a sequence                                                    *)

LEMMA MinExists ==
  ASSUME NEW S \in SUBSET Nat, S # {}
  PROVE  \E x \in S : \A y \in S : x <= y
<1> SUFFICES ASSUME \A x \in S : \E y \in S : y < x PROVE FALSE
  OBVIOUS
<1> DEFINE D == Nat
           m == [n \in D |-> n]
           G == D \ S
<1>1. m \in [D -> Nat] /\ G \in SUBSET D
  OBVIOUS
<1>2. \A d \in D : (\A e \in D : m[e] < m[d] => e \in G) => d \in G
  OBVIOUS
<1>3. G = D
  <2> HIDE DEF G, m, D
  <2> QED BY <1>1, <1>2, MeasureInduction
<1> QED
  BY <1>3

LEMMA MaxExists ==
  ASSUME NEW n \in Nat, NEW I \in SUBSET (1 .. n), I # {}
  PROVE  \E x \in I : \A y \in I : x >= y
<1> DEFINE S == {k \in Nat : \E i \in I : k = n - i}
<1>1. S \in SUBSET Nat /\ S # {}
  <2>1. PICK i \in I : TRUE
    OBVIOUS
  <2>2. n - i \in S
    BY <2>1
  <2> QED BY <2>2
<1>2. PICK k \in S : \A j \in S : k <= j
  <2> HIDE DEF S
  <2> QED BY <1>1, MinExists
<1>3. PICK x \in I : k = n - x
  OBVIOUS
<1>4. \A y \in I : x >= y
  <2> SUFFICES ASSUME NEW y \in I PROVE x >= y
    OBVIOUS
  <2>1. n - y \in S /\ x \in Nat /\ y \in Nat
    OBVIOUS
  <2>2. k <= n - y
    BY <1>2, <2>1
  <2> QED BY <1>3, <2>1, <2>2
<1> QED
  BY <1>4

LEMMA Places ==
  ASSUME NEW n \in Nat, NEW I \in SUBSET (1 .. n), I # {}
  PROVE  Min(I) \in 1 .. n /\ Max(I) \in 1 .. n
<1>1. I \in SUBSET Nat
  OBVIOUS
<1>2. \E x \in I : \A y \in I : x <= y
  BY <1>1, MinExists
<1>3. \E x \in I : \A y \in I : x >= y
  BY MaxExists
<1>4. Min(I) \in I
  BY <1>2, Zenon DEF Min
<1>5. Max(I) \in I
  BY <1>3, Zenon DEF Max
<1> QED
  BY <1>4, <1>5

\* A sequence is its beginning and the rest.
LEMMA CutInTwo ==
  ASSUME NEW T, NEW s \in Seq(T), NEW k \in 1 .. Len(s)
  PROVE  /\ SubSeq(s, 1, k - 1) \in Seq(T) /\ SubSeq(s, k, Len(s)) \in Seq(T)
         /\ s = SubSeq(s, 1, k - 1) \o SubSeq(s, k, Len(s))
<1> DEFINE a == SubSeq(s, 1, k - 1)
           b == SubSeq(s, k, Len(s))
           t == a \o b
<1>1. PICK n \in Nat : n = Len(s)
  OBVIOUS
<1>2. k \in Nat /\ k >= 1 /\ k <= n
  BY <1>1
<1>3. \A i \in 1 .. n : s[i] \in T
  BY <1>1
<1>4. a \in Seq(T) /\ Len(a) = k - 1 /\ \A i \in 1 .. k - 1 : a[i] = s[i]
  <2>1. \A i \in 1 .. k - 1 : s[i] \in T
    BY <1>2, <1>3
  <2>2. /\ a \in Seq(T) /\ Len(a) = IF 1 <= k - 1 THEN (k - 1) - 1 + 1 ELSE 0
        /\ \A i \in 1 .. (k - 1) - 1 + 1 : a[i] = s[1 + i - 1]
    BY <1>2, <2>1, SubSeqProperties
  <2> HIDE DEF a
  <2> QED BY <1>2, <2>2
<1>5. b \in Seq(T) /\ Len(b) = n - k + 1 /\ \A i \in 1 .. n - k + 1 : b[i] = s[k + i - 1]
  <2>1. \A i \in k .. n : s[i] \in T
    BY <1>2, <1>3
  <2>2. /\ b \in Seq(T) /\ Len(b) = IF k <= n THEN n - k + 1 ELSE 0
        /\ \A i \in 1 .. n - k + 1 : b[i] = s[k + i - 1]
    BY <1>1, <1>2, <2>1, SubSeqProperties
  <2> HIDE DEF b
  <2> QED BY <1>2, <2>2
<1> HIDE DEF a, b
<1>6. /\ t \in Seq(T) /\ Len(t) = Len(a) + Len(b)
      /\ \A i \in 1 .. Len(a) + Len(b) : t[i] = IF i <= Len(a) THEN a[i] ELSE b[i - Len(a)]
  BY <1>4, <1>5, ConcatProperties
<1> HIDE DEF t
<1>7. Len(t) = n
  BY <1>2, <1>4, <1>5, <1>6
<1>8. \A i \in 1 .. n : t[i] = s[i]
  <2> SUFFICES ASSUME NEW i \in 1 .. n PROVE t[i] = s[i]
    OBVIOUS
  <2>0. i \in 1 .. Len(a) + Len(b)
    BY <1>6, <1>7
  <2>1. CASE i <= k - 1
    <3>1. i \in 1 .. k - 1 /\ i <= Len(a)
      BY <1>2, <1>4, <2>1
    <3>2. t[i] = a[i]
      BY <1>6, <2>0, <3>1
    <3> QED BY <1>4, <3>1, <3>2
  <2>2. CASE ~(i <= k - 1)
    <3>1. i - (k - 1) \in 1 .. n - k + 1 /\ ~(i <= Len(a))
      BY <1>2, <1>4, <2>2
    <3>2. t[i] = b[i - (k - 1)]
      BY <1>4, <1>6, <2>0, <3>1
    <3>3. b[i - (k - 1)] = s[k + (i - (k - 1)) - 1]
      BY <1>5, <3>1
    <3>4. k + (i - (k - 1)) - 1 = i
      BY <1>2
    <3> QED BY <3>2, <3>3, <3>4
  <2> QED BY <2>1, <2>2
<1>9. s = t
  BY <1>1, <1>6, <1>7, <1>8, SeqEqual
<1> QED
  BY <1>4, <1>5, <1>9 DEF a, b, t

-----------------------------------------------------------------------------
(* What Convert writes                                                     *)

LEMMA DecimalLength == \A n \in Nat : Len(Decimal[n]) \in Nat \ {0}
<1> SUFFICES ASSUME NEW n \in Nat PROVE Len(Decimal[n]) \in Nat \ {0}
  OBVIOUS
<1>1. CASE n < 10
  <2>1. Decimal[n] = <<48 + n>>
    BY <1>1, DecimalSmall
  <2> QED BY <2>1
<1>2. CASE ~(n < 10)
  <2>1. n \div 10 \in Nat /\ n % 10 \in 0 .. 9
    BY <1>2
  <2>2. PICK t \in Text : t = Decimal[n \div 10]
    BY <2>1, DecimalType
  <2>3. PICK b \in 0 .. 255 : b = 48 + (n % 10)
    BY <2>1
  <2>4. Decimal[n] = Append(t, b)
    BY <1>2, <2>2, <2>3, DecimalLarge
  <2>5. Len(Append(t, b)) = Len(t) + 1 /\ Len(t) \in Nat
    BY TextAppend, TextByte
  <2> QED BY <2>4, <2>5
<1> QED
  BY <1>1, <1>2

LEMMA ByteText == \A b \in 0 .. 255 : <<b>> \in Text /\ Len(<<b>>) = 1
  BY DEF Text

LEMMA ScientificType ==
  ASSUME NEW ds \in Text, Len(ds) > 0
  PROVE  Scientific(ds) \in Text
<1> DEFINE I == {i \in 1 .. Len(ds) : ds[i] # 48}
           last == IF I # {} THEN Max(I) ELSE 0
           fraction == IF last > 1 THEN <<46>> \o SubSeq(ds, 2, last) ELSE <<>>
           long == <<ds[1]>> \o fraction \o <<101, 43>> \o Padded(Len(ds) - 1)
<1>1. ds \in Text /\ Len(ds) \in Nat \ {0}
  BY TextByte
<1>2. Scientific(ds) = long
  BY Zenon DEF Scientific, SelectLastInSeq
<1>3. last \in 0 .. Len(ds)
  <2>1. I \in SUBSET (1 .. Len(ds)) /\ Len(ds) \in Nat
    BY <1>1
  <2> HIDE DEF I
  <2>2. CASE I = {}
    BY <2>1, <2>2
  <2>3. CASE I # {}
    <3>1. Max(I) \in 1 .. Len(ds)
      BY <2>1, <2>3, Places
    <3> QED BY <2>1, <2>3, <3>1
  <2> QED BY <2>2, <2>3
<1> HIDE DEF last
<1>4. fraction \in Text
  <2>1. PICK x \in Nat \ {0} : x = 2
    OBVIOUS
  <2>2. last \in Int /\ last <= Len(ds)
    BY <1>1, <1>3
  <2>3. SubSeq(ds, x, last) \in Text
    BY <1>1, <2>2, TextSub
  <2>4. PICK u \in Text : u = SubSeq(ds, 2, last)
    BY <2>1, <2>3
  <2>5. PICK v \in Text : v = <<46>>
    <3>1. 46 \in 0 .. 255
      OBVIOUS
    <3> QED BY <3>1, ByteText
  <2>6. v \o u \in Text
    BY TextConcat
  <2> QED BY <2>4, <2>5, <2>6, EmptyText
<1>5. <<ds[1]>> \in Text
  <2>1. 1 \in 1 .. Len(ds)
    BY <1>1
  <2>2. ds[1] \in 0 .. 255
    BY <1>1, <2>1, TextByte
  <2> QED BY <2>2, ByteText
<1>6. <<101, 43>> \in Text
  BY DEF Text
<1>7. Padded(Len(ds) - 1) \in Text
  <2>1. Len(ds) - 1 \in Nat
    BY <1>1
  <2> QED BY <2>1, PaddedType
<1> HIDE DEF fraction
<1>8. long \in Text
  BY <1>4, <1>5, <1>6, <1>7, JoinType, Zenon
<1> QED
  BY <1>2, <1>8, Zenon

LEMMA GeneralType == \A n \in Nat : General(n) \in Text
<1> SUFFICES ASSUME NEW n \in Nat PROVE General(n) \in Text
  OBVIOUS
<1>1. Decimal[n] \in Text /\ Len(Decimal[n]) > 0
  BY DecimalType, DecimalLength
<1>2. Scientific(Decimal[n]) \in Text
  BY <1>1, ScientificType
<1> QED
  BY <1>1, <1>2, SMT DEF General

LEMMA ChecksumType == \A s : Checksum(s) \in Text /\ Len(Checksum(s)) = 4
<1> SUFFICES ASSUME NEW crc PROVE Hex4(crc) \in Text /\ Len(Hex4(crc)) = 4
  BY DEF Checksum
<1> DEFINE digit(k) == (IF k + 3 \in crc THEN 8 ELSE 0) + (IF k + 2 \in crc THEN 4 ELSE 0)
                         + (IF k + 1 \in crc THEN 2 ELSE 0) + (IF k \in crc THEN 1 ELSE 0)
           byte(d) == IF d < 10 THEN 48 + d ELSE 55 + d
<1>1. \A k : digit(k) \in 0 .. 15
  OBVIOUS
<1>2. \A d \in 0 .. 15 : byte(d) \in 0 .. 255
  OBVIOUS
<1>3. Hex4(crc) = <<byte(digit(12)), byte(digit(8)), byte(digit(4)), byte(digit(0))>>
  BY DEF Hex4
<1> HIDE DEF digit, byte
<1>4. \A k : byte(digit(k)) \in 0 .. 255
  BY <1>1, <1>2, Zenon
<1>5. \A w, x, y, z \in 0 .. 255 : <<w, x, y, z>> \in Text /\ Len(<<w, x, y, z>>) = 4
  BY DEF Text
<1> QED
  BY <1>3, <1>4, <1>5, ZenonT(60)

LEMMA TagType == \A n \in 0 .. 99 : Tag(n) \in Text /\ Len(Tag(n)) = 2
  BY PaddedReads DEF Tag

LEMMA MakeSound ==
  ASSUME NEW n \in 0 .. 99, NEW value \in Text, Len(value) <= 99
  PROVE  MakeTLV(n, value) \in Sound /\ MakeTLV(n, value).tag = Tag(n)
  BY TagType DEF MakeTLV, Sound, Element

\* The tags that Convert writes.
Written6 == {1, 54, 55, 56, 57, 63}

LEMMA SoundOne == \A e \in Sound : <<e>> \in Seq(Sound)
  OBVIOUS

LEMMA SoundConcat == \A x, y \in Seq(Sound) : x \o y \in Seq(Sound)
  OBVIOUS

\* Nothing stays of an element whose tag is among those left out.
LEMMA WithoutOne ==
  ASSUME NEW tags, NEW e \in Element, e.tag \in tags
  PROVE  Without(<<e>>, tags) = <<>>
<1>1. <<>> \in Elements /\ <<e>> \in Elements
  BY EmptyElements, ElementsCons
<1>2. <<e>> = <<e>> \o <<>>
  BY <1>1, EmptyElements
<1>3. Without(<<e>> \o <<>>, tags) = Without(<<>>, tags)
  BY <1>1, WithoutOut, Zenon
<1> QED
  BY <1>2, <1>3, WithoutEmpty, Zenon

\* The amount and the fee that fit an element; int64 and float64 do.
Fitting(amount, fee) ==
  /\ amount \in Nat /\ Len(Decimal[amount]) <= 99
  /\ fee.value \in Nat /\ Len(General(fee.value)) <= 99

\* Elements that are all left out.
Hidden(es, tags) == es \in Seq(Sound) /\ Without(es, tags) = <<>>

LEMMA HiddenOne ==
  ASSUME NEW tags, NEW n \in 0 .. 99, Tag(n) \in tags, NEW value \in Text, Len(value) <= 99
  PROVE  Hidden(<<MakeTLV(n, value)>>, tags)
<1>1. MakeTLV(n, value) \in Sound /\ MakeTLV(n, value).tag \in tags
  BY MakeSound
<1>2. MakeTLV(n, value) \in Element
  BY <1>1 DEF Sound
<1>3. Without(<<MakeTLV(n, value)>>, tags) = <<>>
  BY <1>1, <1>2, WithoutOne, Zenon
<1>4. <<MakeTLV(n, value)>> \in Seq(Sound)
  BY <1>1, SoundOne
<1> QED
  BY <1>3, <1>4 DEF Hidden

LEMMA HiddenConcat ==
  ASSUME NEW tags, NEW x, NEW y, Hidden(x, tags), Hidden(y, tags)
  PROVE  Hidden(x \o y, tags)
<1>1. x \in Seq(Sound) /\ y \in Seq(Sound) /\ Without(x, tags) = <<>> /\ Without(y, tags) = <<>>
  BY DEF Hidden
<1>2. x \in Elements /\ y \in Elements
  BY <1>1, SoundSeq
<1>3. Without(x \o y, tags) = Without(x, tags) \o Without(y, tags)
  BY <1>2, WithoutConcat, Zenon
<1>4. Without(x \o y, tags) = <<>>
  BY <1>1, <1>3, EmptyElements, Zenon
<1>5. x \o y \in Seq(Sound)
  BY <1>1, SoundConcat
<1> QED
  BY <1>4, <1>5 DEF Hidden

LEMMA Pair == \A a, b : <<a, b>> = <<a>> \o <<b>>
<1> SUFFICES ASSUME NEW a, NEW b PROVE <<a, b>> = <<a>> \o <<b>>
  OBVIOUS
<1> DEFINE T == {a, b}
           x == <<a>>
           y == <<b>>
           z == <<a, b>>
           t == x \o y
<1>1. /\ x \in Seq(T) /\ Len(x) = 1 /\ x[1] = a
      /\ y \in Seq(T) /\ Len(y) = 1 /\ y[1] = b
  OBVIOUS
<1>2. z \in Seq(T) /\ Len(z) = 2 /\ z[1] = a /\ z[2] = b
  OBVIOUS
<1> HIDE DEF T, x, y, z
<1>3. /\ t \in Seq(T) /\ Len(t) = Len(x) + Len(y)
      /\ \A i \in 1 .. Len(x) + Len(y) : t[i] = IF i <= Len(x) THEN x[i] ELSE y[i - Len(x)]
  BY <1>1, ConcatProperties
<1> HIDE DEF t
<1>4. Len(t) = 2 /\ t[1] = a /\ t[2] = b
  BY <1>1, <1>3
<1>5. z = t
  <2>1. \A i \in 1 .. Len(z) : z[i] = t[i]
    BY <1>2, <1>4
  <2> QED BY <1>2, <1>3, <1>4, <2>1, SeqEqual
<1> QED
  BY <1>5 DEF x, y, z, t

LEMMA FeeHidden ==
  ASSUME NEW tags, \A n \in Written6 : Tag(n) \in tags, NEW amount, NEW fee, Fitting(amount, fee)
  PROVE  Hidden(<<MakeTLV(54, Decimal[amount])>>, tags) /\ Hidden(FeeElements(fee), tags)
<1>1. /\ Decimal[amount] \in Text /\ Len(Decimal[amount]) <= 99
      /\ General(fee.value) \in Text /\ Len(General(fee.value)) <= 99
  BY DecimalType, GeneralType DEF Fitting
<1>2. \A n \in Written6 : n \in 0 .. 99 /\ Tag(n) \in tags
  BY DEF Written6
<1>3. 54 \in Written6 /\ 55 \in Written6 /\ 56 \in Written6 /\ 57 \in Written6
  BY DEF Written6
<1> HIDE DEF Written6
<1>4. Hidden(<<MakeTLV(54, Decimal[amount])>>, tags)
  BY <1>1, <1>2, <1>3, HiddenOne, Zenon
<1>5. \A k \in {2, 3} : Padded(k) \in Text /\ Len(Padded(k)) <= 99
  <2>1. \A k \in {2, 3} : k \in 0 .. 99
    OBVIOUS
  <2>2. ASSUME NEW k \in 0 .. 99 PROVE Padded(k) \in Text /\ Len(Padded(k)) <= 99
    <3>1. Padded(k) \in Text /\ Len(Padded(k)) = 2
      BY PaddedReads
    <3> QED BY <3>1
  <2> QED BY <2>1, <2>2, Zenon
<1>6. Hidden(<<MakeTLV(55, Padded(2))>>, tags) /\ Hidden(<<MakeTLV(55, Padded(3))>>, tags)
  <2>1. 2 \in {2, 3} /\ 3 \in {2, 3}
    OBVIOUS
  <2>2. /\ Padded(2) \in Text /\ Len(Padded(2)) <= 99
        /\ Padded(3) \in Text /\ Len(Padded(3)) <= 99
    BY <1>5, <2>1, Zenon
  <2> QED BY <1>2, <1>3, <2>2, HiddenOne, Zenon
<1>7. Hidden(<<MakeTLV(56, General(fee.value))>>, tags) /\ Hidden(<<MakeTLV(57, General(fee.value))>>, tags)
  BY <1>1, <1>2, <1>3, HiddenOne, Zenon
<1>8. Hidden(<<>>, tags)
  BY WithoutEmpty DEF Hidden
<1>9. /\ Hidden(<<MakeTLV(55, Padded(2)), MakeTLV(56, General(fee.value))>>, tags)
      /\ Hidden(<<MakeTLV(55, Padded(3)), MakeTLV(57, General(fee.value))>>, tags)
  <2>1. /\ Hidden(<<MakeTLV(55, Padded(2))>> \o <<MakeTLV(56, General(fee.value))>>, tags)
        /\ Hidden(<<MakeTLV(55, Padded(3))>> \o <<MakeTLV(57, General(fee.value))>>, tags)
    BY <1>6, <1>7, HiddenConcat, Zenon
  <2> QED BY <2>1, Pair, Zenon
<1>10. \/ FeeElements(fee) = <<>>
       \/ FeeElements(fee) = <<MakeTLV(55, Padded(2)), MakeTLV(56, General(fee.value))>>
       \/ FeeElements(fee) = <<MakeTLV(55, Padded(3)), MakeTLV(57, General(fee.value))>>
  BY Zenon DEF FeeElements
<1> QED
  BY <1>4, <1>8, <1>9, <1>10, Zenon

\* What is put in and left out again leaves nothing.
LEMMA WithoutInserted ==
  ASSUME NEW tags, NEW a \in Seq(Sound), NEW b \in Seq(Sound), NEW x, NEW y,
         Hidden(x, tags), Hidden(y, tags)
  PROVE  /\ a \o x \o y \o b \in Seq(Sound)
         /\ Without(a \o x \o y \o b, tags) = Without(a \o b, tags)
<1>1. x \in Seq(Sound) /\ y \in Seq(Sound) /\ Without(x, tags) = <<>> /\ Without(y, tags) = <<>>
  BY DEF Hidden
<1>2. PICK ax \in Seq(Sound) : ax = a \o x
  BY <1>1, SoundConcat
<1>3. PICK axy \in Seq(Sound) : axy = ax \o y
  BY <1>1, SoundConcat
<1>4. axy \o b \in Seq(Sound)
  BY SoundConcat
<1>5. a \in Elements /\ b \in Elements /\ x \in Elements /\ y \in Elements /\ ax \in Elements /\ axy \in Elements
  BY <1>1, SoundSeq
<1>6. Without(a, tags) \in Elements
  BY <1>5, WithoutType
<1>7. Without(ax, tags) = Without(a, tags)
  <2>1. Without(a \o x, tags) = Without(a, tags) \o Without(x, tags)
    BY <1>5, WithoutConcat, Zenon
  <2> QED BY <1>1, <1>2, <1>6, <2>1, EmptyElements, Zenon
<1>8. Without(axy, tags) = Without(a, tags)
  <2>1. Without(ax \o y, tags) = Without(ax, tags) \o Without(y, tags)
    BY <1>5, WithoutConcat, Zenon
  <2> QED BY <1>1, <1>3, <1>6, <1>7, <2>1, EmptyElements, Zenon
<1>9. Without(axy \o b, tags) = Without(a \o b, tags)
  <2>1. Without(axy \o b, tags) = Without(axy, tags) \o Without(b, tags)
    BY <1>5, WithoutConcat, Zenon
  <2>2. Without(a \o b, tags) = Without(a, tags) \o Without(b, tags)
    BY <1>5, WithoutConcat, Zenon
  <2> QED BY <1>8, <2>1, <2>2, Zenon
<1> QED
  BY <1>2, <1>3, <1>4, <1>9, Zenon

\* The element of tag 01 says "dynamic", the others stay.
Dynamic == [e \in Element |-> IF e.tag = Tag(1) THEN MakeTLV(1, Padded(12)) ELSE e]

LEMMA DynamicType ==
  /\ Dynamic \in [Element -> Element]
  /\ \A e \in Sound : Dynamic[e] \in Sound
  /\ \A e \in Element : e.tag # Tag(1) => Dynamic[e] = e
  /\ \A e \in Element : e.tag = Tag(1) => Dynamic[e].tag = Tag(1)
<1>1. MakeTLV(1, Padded(12)) \in Sound /\ MakeTLV(1, Padded(12)).tag = Tag(1)
  <2>1. PICK n \in 0 .. 99, k \in 0 .. 99 : n = 1 /\ k = 12
    OBVIOUS
  <2>2. Padded(k) \in Text /\ Len(Padded(k)) <= 99
    <3>1. Padded(k) \in Text /\ Len(Padded(k)) = 2
      BY PaddedReads
    <3> QED BY <3>1
  <2>3. MakeTLV(n, Padded(k)) \in Sound /\ MakeTLV(n, Padded(k)).tag = Tag(n)
    BY <2>2, MakeSound
  <2> QED BY <2>1, <2>3
<1>2. \A e \in Sound : e \in Element
  BY DEF Sound
<1>3. \A e \in Element : Dynamic[e] = IF e.tag = Tag(1) THEN MakeTLV(1, Padded(12)) ELSE e
  BY Zenon DEF Dynamic
<1>4. \A e \in Element : Dynamic[e] \in Element
  BY <1>1, <1>2, <1>3, Zenon
<1>5. Dynamic \in [Element -> Element]
  BY <1>4, Zenon DEF Dynamic
<1> QED
  BY <1>1, <1>2, <1>3, <1>5, Zenon

LEMMA DynamicSound == \A es \in Seq(Sound) : Mapped(Dynamic, es) \in Seq(Sound)
<1> SUFFICES ASSUME NEW es \in Seq(Sound) PROVE Mapped(Dynamic, es) \in Seq(Sound)
  OBVIOUS
<1>1. PICK n \in Nat : DOMAIN es = 1 .. n /\ \A i \in 1 .. n : es[i] \in Sound
  OBVIOUS
<1>2. \A i \in 1 .. n : Dynamic[es[i]] \in Sound
  BY <1>1, DynamicType
<1>3. Mapped(Dynamic, es) = [i \in 1 .. n |-> Dynamic[es[i]]]
  BY <1>1 DEF Mapped
<1> QED
  BY <1>2, <1>3

\* A text with its checksum.
Sealed(es) == LET input == BuildTLV[es] \o Tag(63) \o Padded(4) IN input \o Checksum(input)

\* The merchant's elements as Convert takes them over.
Taken(text) == Mapped(Dynamic, Without(ParseTLV[text], Managed))

\* a is what comes before the country code of es, b begins with it.
Cut(es, a, b) == a \in Seq(Sound) /\ b \in Seq(Sound) /\ es = a \o b /\ b # <<>> /\ b[1].tag = Tag(58)

LEMMA TakenSound == \A text \in Text : Taken(text) \in Seq(Sound)
  BY ParseSound, WithoutSound, DynamicSound DEF Taken

LEMMA ConvertShape ==
  ASSUME NEW text \in Text, NEW amount, NEW fee
  PROVE  \/ ~HasTag(Taken(text), 58) /\ Convert(text, amount, fee) = Sealed(Taken(text))
         \/ \E a, b :
              /\ Cut(Taken(text), a, b)
              /\ Convert(text, amount, fee)
                   = Sealed(a \o <<MakeTLV(54, Decimal[amount])>> \o FeeElements(fee) \o b)
<1> DEFINE kept == Without(ParseTLV[text], Managed)
           dynamic == [i \in DOMAIN kept |->
             IF kept[i].tag = Tag(1) THEN MakeTLV(1, Padded(12)) ELSE kept[i]]
           country == SelectInSeq(dynamic, LAMBDA e : e.tag = Tag(58))
           before == SubSeq(dynamic, 1, country - 1)
           after == SubSeq(dynamic, country, Len(dynamic))
           result == IF country = 0 THEN dynamic
                     ELSE before \o <<MakeTLV(54, Decimal[amount])>> \o FeeElements(fee) \o after
<1>1. Convert(text, amount, fee) = Sealed(result)
  BY Zenon DEF Convert, Sealed
<1>2. kept \in Elements
  BY ParseSound, WithoutSound, SoundSeq
<1>3. dynamic = Taken(text)
  <2>1. Mapped(Dynamic, kept) = Taken(text)
    BY Zenon DEF Taken
  <2> HIDE DEF kept
  <2>2. \A i \in DOMAIN kept : kept[i] \in Element
    BY <1>2 DEF Elements
  <2>3. \A i \in DOMAIN kept :
          Dynamic[kept[i]] = IF kept[i].tag = Tag(1) THEN MakeTLV(1, Padded(12)) ELSE kept[i]
    BY <2>2 DEF Dynamic
  <2> QED BY <2>1, <2>3, Zenon DEF Mapped
<1> HIDE DEF dynamic
<1>4. dynamic \in Seq(Sound)
  BY <1>3, TakenSound
<1> DEFINE I == {i \in 1 .. Len(dynamic) : dynamic[i].tag = Tag(58)}
<1>5. country = IF I # {} THEN Min(I) ELSE 0
  BY Zenon DEF SelectInSeq
<1>6. I \in SUBSET (1 .. Len(dynamic)) /\ I \in SUBSET Nat /\ Len(dynamic) \in Nat
  BY <1>4
<1> HIDE DEF country
<1>7. CASE I = {}
  <2>1. ~HasTag(dynamic, 58)
    BY <1>4, <1>7 DEF HasTag
  <2>2. result = dynamic
    BY <1>5, <1>7
  <2> QED BY <1>1, <1>3, <2>1, <2>2, Zenon
<1>8. CASE I # {}
  <2>1. Min(I) \in I
    <3> HIDE DEF I
    <3>1. \E x \in I : \A y \in I : x <= y
      BY <1>6, <1>8, MinExists
    <3> QED BY <3>1, Zenon DEF Min
  <2>2. country \in 1 .. Len(dynamic) /\ dynamic[country].tag = Tag(58) /\ country # 0
    <3>1. country \in I
      <4> HIDE DEF I
      <4> QED BY <1>5, <1>8, <2>1, Zenon
    <3> QED BY <1>6, <3>1
  <2>3. before \in Seq(Sound) /\ after \in Seq(Sound) /\ dynamic = before \o after
    BY <1>4, <2>2, CutInTwo
  <2>4. after # <<>> /\ after[1] = dynamic[country]
    BY <1>4, <1>6, <2>2
  <2>5. result = before \o <<MakeTLV(54, Decimal[amount])>> \o FeeElements(fee) \o after
    BY <2>2
  <2>6. Cut(dynamic, before, after)
    <3> HIDE DEF before, after
    <3> QED BY <2>2, <2>3, <2>4, Zenon DEF Cut
  <2> HIDE DEF before, after, result
  <2> QED BY <1>1, <1>3, <2>5, <2>6, Zenon
<1> QED
  BY <1>7, <1>8

\* The two have the same elements but for those that Convert writes.
Spares(r, es) == \A tags : (\A n \in Written6 : Tag(n) \in tags) => Without(r, tags) = Without(es, tags)

LEMMA TakenSpares ==
  ASSUME NEW text \in Text
  PROVE  Spares(Taken(text), ParseTLV[text])
<1> SUFFICES ASSUME NEW tags, \A n \in Written6 : Tag(n) \in tags
             PROVE  Without(Taken(text), tags) = Without(ParseTLV[text], tags)
  BY Zenon DEF Spares
<1>1. PICK es \in Elements : es = ParseTLV[text]
  BY ParseSound, SoundSeq
<1>2. PICK kept \in Elements : kept = Without(es, Managed)
  BY WithoutType
<1>3. Managed \subseteq tags /\ Tag(1) \in tags
  BY DEF Managed, Written6
<1>4. Without(kept, tags) = Without(es, tags)
  BY <1>2, <1>3, WithoutTwice
<1>5. /\ Dynamic \in [Element -> Element]
      /\ \A e \in Element : IF e.tag \in tags THEN Dynamic[e].tag \in tags ELSE Dynamic[e] = e
  BY <1>3, DynamicType
<1>6. Without(Mapped(Dynamic, kept), tags) = Without(kept, tags)
  BY <1>5, WithoutChanged
<1> QED
  BY <1>1, <1>2, <1>4, <1>6, Zenon DEF Taken

\* Convert writes sound elements, which differ from those of the text in what
\* Convert takes out and puts in only.
LEMMA ConvertWrites ==
  ASSUME NEW text \in Text, NEW amount, NEW fee, Fitting(amount, fee)
  PROVE  \E r \in Seq(Sound) : Convert(text, amount, fee) = Sealed(r) /\ Spares(r, ParseTLV[text])
<1>1. PICK t \in Seq(Sound) : t = Taken(text) /\ Spares(t, ParseTLV[text])
  BY TakenSound, TakenSpares
<1>2. CASE Convert(text, amount, fee) = Sealed(t)
  BY <1>1, <1>2
<1>3. CASE \E a, b :
             /\ Cut(t, a, b)
             /\ Convert(text, amount, fee)
                  = Sealed(a \o <<MakeTLV(54, Decimal[amount])>> \o FeeElements(fee) \o b)
  <2> DEFINE x == <<MakeTLV(54, Decimal[amount])>>
             y == FeeElements(fee)
  <2>1. PICK a, b : Cut(t, a, b) /\ Convert(text, amount, fee) = Sealed(a \o x \o y \o b)
    BY <1>3
  <2>2. PICK r : r = a \o x \o y \o b
    OBVIOUS
  <2>3. a \in Seq(Sound) /\ b \in Seq(Sound) /\ t = a \o b
    BY <2>1, Zenon DEF Cut
  <2>4. ASSUME NEW tags, \A n \in Written6 : Tag(n) \in tags
        PROVE  Hidden(x, tags) /\ Hidden(y, tags)
    BY <2>4, FeeHidden
  <2> HIDE DEF x, y
  <2>5. ASSUME NEW tags, \A n \in Written6 : Tag(n) \in tags
        PROVE  r \in Seq(Sound) /\ Without(r, tags) = Without(t, tags)
    <3>1. Hidden(x, tags) /\ Hidden(y, tags)
      BY <2>4, <2>5
    <3>2. /\ a \o x \o y \o b \in Seq(Sound)
          /\ Without(a \o x \o y \o b, tags) = Without(a \o b, tags)
      BY <2>3, <3>1, WithoutInserted
    <3> QED BY <2>2, <2>3, <3>2, Zenon
  <2>6. r \in Seq(Sound)
    <3>1. \A n \in Written6 : Tag(n) \in {Tag(k) : k \in Written6}
      OBVIOUS
    <3> QED BY <2>5, <3>1
  <2>7. Spares(r, ParseTLV[text])
    BY <1>1, <2>5, Zenon DEF Spares
  <2> QED BY <2>1, <2>2, <2>6, <2>7, Zenon
<1>4. \/ ~HasTag(Taken(text), 58) /\ Convert(text, amount, fee) = Sealed(Taken(text))
      \/ \E a, b :
           /\ Cut(Taken(text), a, b)
           /\ Convert(text, amount, fee)
                = Sealed(a \o <<MakeTLV(54, Decimal[amount])>> \o FeeElements(fee) \o b)
  BY ConvertShape
<1> QED
  BY <1>1, <1>2, <1>3, <1>4, Zenon

LEMMA EmptyTextRight == \A s \in Text : s \o <<>> = s
<1> DEFINE B == 0 .. 255
<1>1. Text = Seq(B)
  BY DEF Text
<1> HIDE DEF B
<1> QED
  BY <1>1

Regrouped(b, t, p, c) == (b \o t \o p) \o c = b \o (t \o p \o c)

LEMMA FourAssociative ==
  ASSUME NEW b \in Text, NEW t \in Text, NEW p \in Text, NEW c \in Text
  PROVE  Regrouped(b, t, p, c)
<1>1. PICK bt : bt = b \o t /\ bt \in Text
  BY TextConcat
<1>2. PICK pc : pc = p \o c /\ pc \in Text
  BY TextConcat
<1>3. (bt \o p) \o c = bt \o (p \o c)
  BY <1>1, TextAssociative, Zenon
<1>4. (b \o t) \o pc = b \o (t \o pc)
  BY <1>2, TextAssociative, ZenonT(60)
<1>5. (t \o p) \o c = t \o (p \o c)
  BY TextAssociative, Zenon
<1> QED
  BY <1>1, <1>2, <1>3, <1>4, <1>5, Zenon DEF Regrouped

\* The checksum and its tag end the text; what is before them is what the
\* checksum is made of.
Ends(r, qr, i, c, u) ==
  /\ i = BuildTLV[r] \o Tag(63) \o Padded(4) /\ c = Checksum(i)
  /\ qr = i \o c /\ qr = BuildTLV[r] \o u
  /\ Reads(u, Tag(63), c, <<>>)

LEMMA SealedEnds ==
  ASSUME NEW r \in Seq(Sound)
  PROVE  Sealed(r) \in Text /\ \E i, c, u \in Text : Ends(r, Sealed(r), i, c, u)
<1>1. PICK b \in Text : b = BuildTLV[r]
  BY SoundSeq, BuildType
<1>2. PICK n \in 0 .. 99 : n = 4
  OBVIOUS
<1>3. PICK t \in Text : t = Tag(63) /\ Len(t) = 2
  <2>1. 63 \in 0 .. 99
    OBVIOUS
  <2> QED BY <2>1, TagType
<1>4. PICK p \in Text : p = Padded(n)
  BY PaddedReads
<1>5. PICK i \in Text : i = b \o t \o p
  BY ThreeTexts
<1>6. PICK c \in Text : c = Checksum(i) /\ Len(c) = 4
  BY ChecksumType
<1>7. Sealed(r) = i \o c
  BY <1>1, <1>2, <1>3, <1>4, <1>5, <1>6 DEF Sealed
<1>8. (b \o t \o p) \o c = b \o (t \o p \o c)
  <2>1. Regrouped(b, t, p, c)
    BY FourAssociative
  <2> QED BY <2>1, Zenon DEF Regrouped
<1>9. PICK u \in Text : u = t \o p \o c
  BY ThreeTexts
<1>10. Joins(u, t, Padded(n), c, <<>>)
  <2>1. u \o <<>> = u
    BY EmptyTextRight
  <2> QED BY <1>4, <1>9, <2>1, Zenon DEF Joins
<1>11. Reads(u, t, c, <<>>)
  <2>1. Len(c) = n /\ <<>> \in Text
    BY <1>2, <1>6, EmptyText
  <2> QED BY <1>3, <1>10, <2>1, ReadBack, Zenon
<1>12. Sealed(r) = b \o u
  BY <1>5, <1>7, <1>8, <1>9, Zenon
<1>13. Sealed(r) \in Text
  <2>1. i \o c \in Text
    BY TextConcat
  <2> QED BY <1>7, <2>1, Zenon
<1>14. Ends(r, Sealed(r), i, c, u)
  BY <1>1, <1>2, <1>3, <1>4, <1>5, <1>6, <1>7, <1>11, <1>12, Zenon DEF Ends
<1> QED
  BY <1>13, <1>14, Zenon

\* The last element that is read of a text with its checksum is the checksum.
LEMMA SealedReads ==
  ASSUME NEW r \in Seq(Sound)
  PROVE  /\ Sealed(r) \in Text
         /\ \E e \in Sound : e.tag = Tag(63) /\ ParseTLV[Sealed(r)] = Mapped(Rewrite, r) \o <<e>>
<1>1. PICK i \in Text, c \in Text, u \in Text : Ends(r, Sealed(r), i, c, u)
  BY SealedEnds
<1>2. PICK e \in Sound : e.tag = Tag(63) /\ ParseTLV[u] = <<e>>
  <2>1. Fits(u) /\ ~Backwards(u) /\ First(u) = [tag |-> Tag(63), value |-> c] /\ RestOf(u) = <<>>
    BY <1>1 DEF Ends, Reads
  <2>2. ParseTLV[<<>>] = <<>>
    <3>1. ~Fits(<<>>)
      BY DEF Fits
    <3> QED BY <3>1, EmptyText, ParseStops
  <2>3. ParseTLV[u] = <<First(u)>> \o <<>>
    BY <2>1, <2>2, ParseGoesOn, Zenon
  <2>4. First(u) \in Sound
    BY <2>1, FirstSound
  <2>5. <<First(u)>> \o <<>> = <<First(u)>>
    <3>1. <<First(u)>> \in Seq(Sound)
      BY <2>4, SoundOne
    <3> QED BY <3>1
  <2>6. First(u).tag = Tag(63)
    BY <2>1
  <2> QED BY <2>3, <2>4, <2>5, <2>6, Zenon
<1>3. Sealed(r) = BuildTLV[r] \o u
  BY <1>1, Zenon DEF Ends
<1>4. ParseTLV[BuildTLV[r] \o u] = Mapped(Rewrite, r) \o ParseTLV[u]
  BY RoundTrip, Zenon
<1> QED
  BY <1>2, <1>3, <1>4, SealedEnds, Zenon

\* The tags are among those that are left out.
Covers(tags) == \A n \in Written6 : Tag(n) \in tags

\* The reader finds in qr what it finds in text, each value written anew, but
\* for the tags left out.
Passes(text, qr, tags) ==
  qr \in Text /\ Without(ParseTLV[qr], tags) = Mapped(Rewrite, Without(ParseTLV[text], tags))

LEMMA ConvertPasses ==
  ASSUME NEW text \in Text, NEW amount, NEW fee, Fitting(amount, fee), NEW tags, Covers(tags)
  PROVE  Passes(text, Convert(text, amount, fee), tags)
<1>0. \A n \in Written6 : Tag(n) \in tags
  BY DEF Covers
<1>1. PICK r \in Seq(Sound) : Convert(text, amount, fee) = Sealed(r) /\ Spares(r, ParseTLV[text])
  BY ConvertWrites
<1>2. PICK e \in Sound : e.tag = Tag(63) /\ ParseTLV[Sealed(r)] = Mapped(Rewrite, r) \o <<e>>
  BY SealedReads
<1>3. Without(r, tags) = Without(ParseTLV[text], tags)
  BY <1>0, <1>1, Zenon DEF Spares
<1>4. r \in Elements /\ Mapped(Rewrite, r) \in Elements /\ e \in Element /\ <<e>> \in Elements
  <2>1. r \in Elements /\ e \in Element
    BY SoundSeq DEF Sound
  <2> QED BY <2>1, RewriteType, MapElements, ElementsCons
<1>5. Without(Mapped(Rewrite, r) \o <<e>>, tags) = Without(Mapped(Rewrite, r), tags) \o Without(<<e>>, tags)
  BY <1>4, WithoutConcat, Zenon
<1>6. Without(<<e>>, tags) = <<>>
  <2>1. 63 \in Written6
    BY DEF Written6
  <2>2. e.tag \in tags
    BY <1>0, <1>2, <2>1
  <2> QED BY <1>4, <2>2, WithoutOne, Zenon
<1>7. Without(Mapped(Rewrite, r), tags) = Mapped(Rewrite, Without(r, tags))
  BY <1>4, WithoutRewritten, Zenon
<1>8. Without(Mapped(Rewrite, r), tags) \in Elements
  BY <1>4, WithoutType
<1>9. Without(ParseTLV[Sealed(r)], tags) = Without(Mapped(Rewrite, r), tags)
  BY <1>2, <1>5, <1>6, <1>8, EmptyElements, Zenon
<1> QED
  BY <1>1, <1>3, <1>7, <1>9, SealedReads, Zenon DEF Passes

(* Convert: whatever text it is given, and whatever amount and fee fit an  *)
(* element, the text it returns is read with the same elements as the      *)
(* merchant's, in the same order, each value as it is written anew, but    *)
(* for those of the tags 01, 54, 55, 56, 57 and 63.                        *)
THEOREM ConvertKeeps ==
  ASSUME NEW text \in Text, NEW amount, NEW fee, Fitting(amount, fee),
         NEW tags, \A n \in Written6 : Tag(n) \in tags
  PROVE  /\ Convert(text, amount, fee) \in Text
         /\ Without(ParseTLV[Convert(text, amount, fee)], tags)
              = Mapped(Rewrite, Without(ParseTLV[text], tags))
<1>1. Covers(tags)
  BY Zenon DEF Covers
<1>2. Passes(text, Convert(text, amount, fee), tags)
  BY <1>1, ConvertPasses, Zenon
<1> QED
  BY <1>2, Zenon DEF Passes

LEMMA ParseEmpty == ParseTLV[<<>>] = <<>>
<1>1. ~Fits(<<>>)
  BY DEF Fits
<1> QED
  BY <1>1, EmptyText, ParseStops

(* buildTLVString, ParseTLV: an element that is written anew is read with  *)
(* the children it had, each as it is written anew; one without children   *)
(* is read as it was.                                                      *)
THEOREM ChildrenReadBack ==
  ASSUME NEW e \in Element
  PROVE  /\ Children(e) = <<>> => Rewrite[e] = e
         /\ Children(e) # <<>> => Children(Rewrite[e]) = Mapped(Rewrite, Children(e))
<1>1. Rewrite[e] = [tag |-> e.tag, value |-> Written(e)]
  BY DEF Rewrite
<1>2. CASE Children(e) = <<>>
  <2>1. Written(e) = e.value
    BY <1>2 DEF Written, Value
  <2>2. e = [tag |-> e.tag, value |-> e.value]
    BY DEF Element
  <2> QED BY <1>1, <1>2, <2>1, <2>2, Zenon
<1>3. CASE Children(e) # <<>>
  <2>1. Nested(e.tag) /\ Children(e) = ParseTLV[e.value]
    BY <1>3 DEF Children
  <2>2. PICK ch \in Seq(Sound) : ch = Children(e)
    BY ChildrenSound
  <2>3. Written(e) = BuildTLV[ch]
    BY <1>3, <2>2 DEF Written, Value
  <2>4. BuildTLV[ch] \in Text /\ Mapped(Rewrite, ch) \in Elements
    <3>1. ch \in Elements
      BY SoundSeq
    <3>2. Mapped(Rewrite, ch) \in Elements
      BY <3>1, RewriteType, MapElements, RewriteCons
    <3> QED BY <3>1, <3>2, BuildType
  <2>5. BuildTLV[ch] \o <<>> = BuildTLV[ch]
    BY <2>4, EmptyTextRight
  <2>6. ParseTLV[BuildTLV[ch] \o <<>>] = Mapped(Rewrite, ch) \o ParseTLV[<<>>]
    BY EmptyText, RoundTrip, Zenon
  <2>7. ParseTLV[BuildTLV[ch]] = Mapped(Rewrite, ch)
    BY <2>4, <2>5, <2>6, ParseEmpty, EmptyElements, Zenon
  <2>8. Children(Rewrite[e]) = ParseTLV[Written(e)]
    <3>1. Rewrite[e].tag = e.tag /\ Rewrite[e].value = Written(e)
      BY <1>1
    <3> QED BY <2>1, <3>1, Zenon DEF Children
  <2> QED BY <1>3, <2>2, <2>3, <2>7, <2>8, Zenon
<1> QED
  BY <1>2, <1>3

-----------------------------------------------------------------------------
(* The elements of one tag                                                 *)

Only(es, t) == Without(es, Text \ {t})

LEMMA OnlyEmpty == \A t : Only(<<>>, t) = <<>>
  BY WithoutEmpty, Zenon DEF Only

LEMMA OnlyType == \A t : \A es \in Elements : Only(es, t) \in Elements
  BY WithoutType, Zenon DEF Only

LEMMA OnlySound == \A t : \A es \in Seq(Sound) : Only(es, t) \in Seq(Sound)
  BY WithoutSound, Zenon DEF Only

LEMMA OnlyIn ==
  ASSUME NEW e \in Element, NEW es \in Elements
  PROVE  Only(<<e>> \o es, e.tag) = <<e>> \o Only(es, e.tag)
<1>1. e.tag \notin Text \ {e.tag}
  OBVIOUS
<1> QED
  BY <1>1, WithoutIn, Zenon DEF Only

LEMMA OnlyOut ==
  ASSUME NEW e \in Element, NEW es \in Elements, NEW t, e.tag # t
  PROVE  Only(<<e>> \o es, t) = Only(es, t)
<1>1. e.tag \in Text \ {t}
  BY DEF Element
<1> QED
  BY <1>1, WithoutOut, Zenon DEF Only

LEMMA OnlyConcat ==
  ASSUME NEW u \in Elements, NEW v \in Elements, NEW t
  PROVE  Only(u \o v, t) = Only(u, t) \o Only(v, t)
  BY WithoutConcat, Zenon DEF Only

LEMMA OnlyOne ==
  ASSUME NEW e \in Element
  PROVE  Only(<<e>>, e.tag) = <<e>> /\ \A t : e.tag # t => Only(<<e>>, t) = <<>>
<1>1. <<e>> \in Elements /\ <<>> \in Elements
  BY EmptyElements, ElementsCons
<1>2. <<e>> = <<e>> \o <<>>
  BY <1>1, EmptyElements
<1>3. Only(<<e>>, e.tag) = <<e>>
  <2>1. Only(<<e>> \o <<>>, e.tag) = <<e>> \o Only(<<>>, e.tag)
    BY <1>1, OnlyIn, Zenon
  <2> QED BY <1>2, <2>1, OnlyEmpty, Zenon
<1>4. ASSUME NEW t, e.tag # t PROVE Only(<<e>>, t) = <<>>
  <2>1. Only(<<e>> \o <<>>, t) = Only(<<>>, t)
    BY <1>1, <1>4, OnlyOut, Zenon
  <2> QED BY <1>2, <2>1, OnlyEmpty, Zenon
<1> QED
  BY <1>3, <1>4

\* The members of a sequence of elements.
Members(es) == {es[i] : i \in DOMAIN es}

LEMMA MembersEmpty == Members(<<>>) = {}
  BY DEF Members

LEMMA MembersCons ==
  ASSUME NEW e \in Element, NEW es \in Elements
  PROVE  Members(<<e>> \o es) = {e} \union Members(es)
<1> DEFINE s == <<e>> \o es
<1>1. es \in Seq(Element)
  BY DEF Elements
<1>2. /\ s \in Seq(Element) /\ s # <<>> /\ s[1] = e /\ Tail(s) = es /\ Len(s) = Len(es) + 1
  BY <1>1, ConsOf
<1> HIDE DEF s
<1>3. \A i \in 1 .. Len(es) : es[i] = s[i + 1]
  BY <1>1, <1>2, HeadTailProperties
<1>4. DOMAIN s = 1 .. Len(s) /\ DOMAIN es = 1 .. Len(es) /\ Len(es) \in Nat
  BY <1>1, <1>2
<1>5. ASSUME NEW x \in Members(s) PROVE x \in {e} \union Members(es)
  <2>1. PICK i \in 1 .. Len(s) : x = s[i]
    BY <1>4 DEF Members
  <2>2. CASE i = 1
    BY <1>2, <2>1, <2>2
  <2>3. CASE i # 1
    <3>1. i - 1 \in 1 .. Len(es)
      BY <1>2, <1>4, <2>1, <2>3
    <3>2. es[i - 1] = s[i]
      BY <1>3, <3>1
    <3> QED BY <1>4, <2>1, <3>1, <3>2 DEF Members
  <2> QED BY <2>2, <2>3
<1>6. ASSUME NEW x \in {e} \union Members(es) PROVE x \in Members(s)
  <2>1. 1 \in 1 .. Len(s)
    BY <1>2, <1>4
  <2>2. CASE x = e
    BY <1>2, <1>4, <2>1, <2>2 DEF Members
  <2>3. CASE x \in Members(es)
    <3>1. PICK i \in 1 .. Len(es) : x = es[i]
      BY <1>4, <2>3 DEF Members
    <3>2. i + 1 \in 1 .. Len(s) /\ x = s[i + 1]
      BY <1>2, <1>3, <1>4, <3>1
    <3> QED BY <1>4, <3>2 DEF Members
  <2> QED BY <2>2, <2>3
<1> QED
  BY <1>5, <1>6 DEF s

LEMMA WithoutMembers ==
  ASSUME NEW tags
  PROVE  \A es \in Elements : Members(Without(es, tags)) = {e \in Members(es) : e.tag \notin tags}
<1> DEFINE G == {es \in Elements : Members(Without(es, tags)) = {e \in Members(es) : e.tag \notin tags}}
<1>1. <<>> \in G
  BY WithoutEmpty, MembersEmpty, EmptyElements
<1>2. ASSUME NEW e \in Element, NEW es \in G PROVE <<e>> \o es \in G
  <2>1. es \in Elements /\ Members(Without(es, tags)) = {x \in Members(es) : x.tag \notin tags}
    OBVIOUS
  <2>2. <<e>> \o es \in Elements
    BY <2>1, ElementsCons
  <2>3. Members(<<e>> \o es) = {e} \union Members(es)
    BY <2>1, MembersCons
  <2>4. CASE e.tag \notin tags
    <3>1. PICK u \in Elements : u = Without(es, tags)
      BY <2>1, WithoutType
    <3>2. Without(<<e>> \o es, tags) = <<e>> \o u
      BY <2>1, <2>4, <3>1, WithoutIn, Zenon
    <3>3. Members(<<e>> \o u) = {e} \union Members(u)
      BY MembersCons
    <3>4. Members(Without(<<e>> \o es, tags)) = {e} \union {x \in Members(es) : x.tag \notin tags}
      BY <2>1, <3>1, <3>2, <3>3, Zenon
    <3>5. {e} \union {x \in Members(es) : x.tag \notin tags}
            = {x \in {e} \union Members(es) : x.tag \notin tags}
      BY <2>4
    <3> QED BY <2>2, <2>3, <3>4, <3>5, Zenon
  <2>5. CASE e.tag \in tags
    <3>1. Without(<<e>> \o es, tags) = Without(es, tags)
      BY <2>1, <2>5, WithoutOut, Zenon
    <3>2. {x \in Members(es) : x.tag \notin tags} = {x \in {e} \union Members(es) : x.tag \notin tags}
      BY <2>5
    <3> QED BY <2>1, <2>2, <2>3, <3>1, <3>2, Zenon
  <2> QED BY <2>4, <2>5
<1>3. G = Elements
  <2>1. G \in SUBSET Elements
    OBVIOUS
  <2> HIDE DEF G
  <2> QED BY <1>1, <1>2, <2>1, ElementsInduction
<1> QED
  BY <1>3

LEMMA MembersType ==
  ASSUME NEW es \in Elements
  PROVE  Members(es) \subseteq Element /\ (es = <<>> <=> Members(es) = {})
<1>1. \A i \in DOMAIN es : es[i] \in Element
  BY DEF Elements
<1>2. es # <<>> => Members(es) # {}
  <2>1. es # <<>> => 1 \in DOMAIN es
    BY DEF Elements
  <2> QED BY <2>1 DEF Members
<1>3. es = <<>> => Members(es) = {}
  BY MembersEmpty, Zenon
<1> QED
  BY <1>1, <1>2, <1>3 DEF Members

LEMMA OnlyMembers ==
  ASSUME NEW t
  PROVE  \A es \in Elements : Members(Only(es, t)) = {e \in Members(es) : e.tag = t}
<1> SUFFICES ASSUME NEW es \in Elements
    PROVE  Members(Only(es, t)) = {e \in Members(es) : e.tag = t}
  OBVIOUS
<1>1. Members(Only(es, t)) = {e \in Members(es) : e.tag \notin Text \ {t}}
  BY WithoutMembers, Zenon DEF Only
<1>2. \A e \in Members(es) : e.tag \in Text
  BY MembersType DEF Element
<1> QED
  BY <1>1, <1>2

\* A sequence has an element with the tag when its part of it is not empty.
LEMMA TagOnly ==
  ASSUME NEW es \in Elements, NEW t
  PROVE  (\E i \in DOMAIN es : es[i].tag = t) <=> Only(es, t) # <<>>
<1>1. Members(Only(es, t)) = {e \in Members(es) : e.tag = t}
  BY OnlyMembers
<1>2. (\E i \in DOMAIN es : es[i].tag = t) <=> {e \in Members(es) : e.tag = t} # {}
  BY DEF Members
<1>3. PICK u \in Elements : u = Only(es, t)
  BY OnlyType
<1>4. u # <<>> <=> Members(u) # {}
  BY MembersType
<1> QED
  BY <1>1, <1>2, <1>3, <1>4, Zenon

LEMMA HasTagOnly ==
  ASSUME NEW es \in Elements, NEW n
  PROVE  HasTag(es, n) <=> Only(es, Tag(n)) # <<>>
  BY TagOnly, Zenon DEF HasTag

\* Where the first element with the tag is.
LEMMA FindOnly ==
  ASSUME NEW es \in Elements, NEW n
  PROVE  Find(es, n) = IF Only(es, Tag(n)) = <<>> THEN <<>> ELSE Only(es, Tag(n))[1].value
<1> DEFINE t == Tag(n)
<1>1. CASE ~HasTag(es, n)
  BY <1>1, HasTagOnly, Zenon DEF Find
<1>2. CASE HasTag(es, n)
  <2> DEFINE I == {i \in 1 .. Len(es) : es[i].tag = Tag(n)}
             k == Min(I)
  <2>1. SelectInSeq(es, LAMBDA e : e.tag = Tag(n)) = IF I # {} THEN Min(I) ELSE 0
    BY Zenon DEF SelectInSeq
  <2>2. I # {} /\ I \in SUBSET Nat /\ I \in SUBSET (1 .. Len(es)) /\ Len(es) \in Nat
    BY <1>2 DEF HasTag, Elements
  <2>3. k \in I /\ \A j \in I : k <= j
    <3>1. \E x \in I : \A y \in I : x <= y
      <4> HIDE DEF I
      <4> QED BY <2>2, MinExists
    <3> HIDE DEF I
    <3> QED BY <3>1, Zenon DEF Min
  <2>4. Find(es, n) = es[k].value
    <3> HIDE DEF I
    <3> QED BY <1>2, <2>1, <2>2, Zenon DEF Find
  <2>5. k \in 1 .. Len(es) /\ es[k].tag = t /\ \A j \in 1 .. Len(es) : j < k => es[j].tag # t
    <3>1. k \in Nat /\ \A j \in 1 .. Len(es) : es[j].tag = t => k <= j
      BY <2>2, <2>3
    <3> HIDE DEF k
    <3> QED BY <2>2, <2>3, <3>1
  <2> HIDE DEF k, t
  <2>6. PICK a, b : /\ a = SubSeq(es, 1, k - 1) /\ b = SubSeq(es, k, Len(es))
                    /\ a \in Elements /\ b \in Elements
    <3>1. es \in Seq(Element)
      BY DEF Elements
    <3>2. SubSeq(es, 1, k - 1) \in Seq(Element) /\ SubSeq(es, k, Len(es)) \in Seq(Element)
      BY <2>5, <3>1, CutInTwo
    <3> QED BY <3>2 DEF Elements
  <2>7. es = a \o b
    <3>1. es \in Seq(Element)
      BY DEF Elements
    <3>2. es = SubSeq(es, 1, k - 1) \o SubSeq(es, k, Len(es))
      BY <2>5, <3>1, CutInTwo
    <3> QED BY <2>6, <3>2, Zenon
  <2>8. Only(a, t) = <<>>
    <3>1. \A i \in DOMAIN a : a[i].tag # t
      <4>1. \A i \in 1 .. k - 1 : a[i] = es[i] /\ es[i].tag # t
        BY <2>2, <2>5, <2>6
      <4>2. DOMAIN a = 1 .. k - 1
        BY <2>2, <2>5, <2>6
      <4> QED BY <4>1, <4>2
    <3>2. ~HasTag(a, n)
      BY <3>1 DEF HasTag, t
    <3> QED BY <2>6, <3>2, HasTagOnly DEF t
  <2>9. b # <<>> /\ b[1] = es[k]
    BY <2>2, <2>5, <2>6
  <2>10. Only(b, t) = <<es[k]>> \o Only(Tail(b), t) /\ es[k] \in Element /\ Tail(b) \in Elements
    <3>1. b[1] \in Element /\ Tail(b) \in Elements /\ b = <<b[1]>> \o Tail(b)
      BY <2>6, <2>9, ConsSplit DEF Elements
    <3>2. Only(<<b[1]>> \o Tail(b), b[1].tag) = <<b[1]>> \o Only(Tail(b), b[1].tag)
      BY <3>1, OnlyIn, Zenon
    <3> QED BY <2>5, <2>9, <3>1, <3>2, Zenon
  <2>11. Only(b, t) \in Elements /\ Only(b, t) # <<>> /\ Only(b, t)[1] = es[k]
    <3>1. PICK e \in Element, u \in Seq(Element) : e = es[k] /\ u = Only(Tail(b), t)
      BY <2>10, OnlyType DEF Elements
    <3>2. <<e>> \o u \in Seq(Element) /\ <<e>> \o u # <<>> /\ (<<e>> \o u)[1] = e
      BY ConsOf
    <3> QED BY <2>10, <3>1, <3>2, Zenon DEF Elements
  <2>12. Only(es, t) = Only(b, t)
    <3>1. Only(a \o b, t) = Only(a, t) \o Only(b, t)
      BY <2>6, OnlyConcat
    <3> QED BY <2>7, <2>8, <2>11, <3>1, EmptyElements, Zenon
  <2> QED BY <2>4, <2>11, <2>12, Zenon DEF t
<1> QED
  BY <1>1, <1>2

\* How often the tag occurs.
LEMMA CountOnly ==
  ASSUME NEW t
  PROVE  \A es \in Elements :
           /\ IsFiniteSet({i \in DOMAIN es : es[i].tag = t})
           /\ Cardinality({i \in DOMAIN es : es[i].tag = t}) = Len(Only(es, t))
<1> DEFINE Is(es) == {i \in DOMAIN es : es[i].tag = t}
           G == {es \in Elements : IsFiniteSet(Is(es)) /\ Cardinality(Is(es)) = Len(Only(es, t))}
<1>1. <<>> \in G
  <2>1. Is(<<>>) = {} /\ Len(<<>>) = 0
    OBVIOUS
  <2> QED BY <2>1, OnlyEmpty, EmptyElements, FS_EmptySet, Zenon
<1>2. ASSUME NEW e \in Element, NEW es \in G PROVE <<e>> \o es \in G
  <2> DEFINE s == <<e>> \o es
  <2>1. es \in Elements /\ IsFiniteSet(Is(es)) /\ Cardinality(Is(es)) = Len(Only(es, t))
    OBVIOUS
  <2>2. s \in Elements /\ s[1] = e /\ Len(s) = Len(es) + 1 /\ \A i \in 1 .. Len(es) : s[i + 1] = es[i]
    <3>1. es \in Seq(Element)
      BY <2>1 DEF Elements
    <3>2. s \in Seq(Element) /\ s # <<>> /\ s[1] = e /\ Tail(s) = es /\ Len(s) = Len(es) + 1
      BY <3>1, ConsOf
    <3> HIDE DEF s
    <3>3. \A i \in 1 .. Len(es) : es[i] = s[i + 1]
      BY <3>1, <3>2, HeadTailProperties
    <3> QED BY <3>2, <3>3 DEF Elements
  <2>3. DOMAIN s = 1 .. Len(s) /\ DOMAIN es = 1 .. Len(es) /\ Len(es) \in Nat
    <3> HIDE DEF s
    <3> QED BY <2>1, <2>2 DEF Elements
  <2> DEFINE J == {i \in DOMAIN s : s[i].tag = t /\ i # 1}
  <2>4. IsFiniteSet(J) /\ Cardinality(J) = Cardinality(Is(es))
    <3> DEFINE f == [i \in Is(es) |-> i + 1]
    <3> HIDE DEF s
    <3>1. \A i \in Is(es) : i \in 1 .. Len(es) /\ i + 1 \in J
      BY <2>2, <2>3
    <3>2. \A j \in J : j - 1 \in Is(es)
      <4> SUFFICES ASSUME NEW j \in J PROVE j - 1 \in Is(es)
        OBVIOUS
      <4>1. j \in 1 .. Len(s) /\ j # 1 /\ s[j].tag = t
        BY <2>3
      <4>2. j - 1 \in 1 .. Len(es) /\ (j - 1) + 1 = j
        BY <2>2, <2>3, <4>1
      <4>3. s[(j - 1) + 1] = es[j - 1]
        BY <2>2, <4>2
      <4> QED BY <2>3, <4>1, <4>2, <4>3
    <3>3. f \in [Is(es) -> J]
      BY <3>1
    <3>4. \A i, k \in Is(es) : f[i] = f[k] => i = k
      BY <3>1
    <3>5. \A j \in J : \E i \in Is(es) : f[i] = j
      <4> SUFFICES ASSUME NEW j \in J PROVE \E i \in Is(es) : f[i] = j
        OBVIOUS
      <4>1. j - 1 \in Is(es) /\ j \in Int
        BY <2>3, <3>2
      <4>2. f[j - 1] = j
        BY <4>1
      <4> QED BY <4>1, <4>2
    <3>6. f \in Bijection(Is(es), J)
      <4> HIDE DEF f, J, Is
      <4>1. DOMAIN f = Is(es)
        BY <3>3
      <4>2. IsInjective(f)
        BY <3>4, <4>1 DEF IsInjective
      <4> QED BY <3>3, <3>5, <4>2, Zenon DEF Bijection, Injection, Surjection
    <3> HIDE DEF f, J, Is
    <3> QED BY <2>1, <3>6, FS_Bijection DEF ExistsBijection
  <2>5. CASE e.tag = t
    <3>1. Is(s) = J \union {1} /\ 1 \notin J
      <4> HIDE DEF s
      <4>1. 1 \in DOMAIN s /\ s[1].tag = t
        BY <2>2, <2>3, <2>5
      <4> QED BY <4>1
    <3>2. IsFiniteSet(Is(s)) /\ Cardinality(Is(s)) = Cardinality(J) + 1
      <4> HIDE DEF J, Is, s
      <4> QED BY <2>4, <3>1, FS_AddElement
    <3>3. Len(Only(s, t)) = Len(Only(es, t)) + 1
      <4>1. PICK u \in Seq(Element) : u = Only(es, t)
        BY <2>1, OnlyType DEF Elements
      <4>2. Only(s, t) = <<e>> \o u
        BY <2>1, <2>5, <4>1, OnlyIn, Zenon
      <4>3. Len(<<e>> \o u) = Len(u) + 1
        BY ConsOf
      <4> QED BY <4>1, <4>2, <4>3, Zenon
    <3> HIDE DEF J, Is, s
    <3> QED BY <2>1, <2>2, <2>4, <3>2, <3>3, Zenon DEF G, s
  <2>6. CASE e.tag # t
    <3>1. Is(s) = J
      <4> HIDE DEF s
      <4>1. 1 \in DOMAIN s /\ s[1].tag # t
        BY <2>2, <2>3, <2>6
      <4> QED BY <4>1
    <3>2. Only(s, t) = Only(es, t)
      BY <2>1, <2>6, OnlyOut, Zenon
    <3> HIDE DEF J, Is
    <3> QED BY <2>1, <2>2, <2>4, <3>1, <3>2, Zenon
  <2> QED BY <2>5, <2>6
<1>3. G = Elements
  <2>1. G \in SUBSET Elements
    OBVIOUS
  <2> HIDE DEF G
  <2> QED BY <1>1, <1>2, <2>1, ElementsInduction
<1> QED
  BY <1>3

-----------------------------------------------------------------------------
(* Where the reader panics                                                 *)

LEMMA PanicsExists ==
  \E f : f = [s \in Text |->
    /\ Fits(s)
    /\ \/ Backwards(s)
       \/ Nested(SubSeq(s, 1, 2)) /\ f[ValueOf(s)]
       \/ f[RestOf(s)]]
<1> DEFINE D == Text
           V == {0, 1}
           Trips(g, s) ==
             /\ Fits(s)
             /\ \/ Backwards(s)
                \/ Nested(SubSeq(s, 1, 2)) /\ g[ValueOf(s)] = 1
                \/ g[RestOf(s)] = 1
           Body(g) == [s \in D |-> IF Trips(g, s) THEN 1 ELSE 0]
           Phi == [g \in [D -> V] |-> Body(g)]
           m == [s \in D |-> Len(s)]
<1>1. ASSUME NEW s \in D, Fits(s), ~Backwards(s)
      PROVE  /\ ValueOf(s) \in D /\ m[ValueOf(s)] < m[s]
             /\ RestOf(s) \in D /\ m[RestOf(s)] < m[s]
  <2>1. /\ First(s) \in Element /\ RestOf(s) \in Text /\ Len(RestOf(s)) < Len(s)
        /\ Len(RestOf(s)) = Len(s) - 4 - Len(ValueOf(s))
    BY <1>1, FirstSound DEF Sound
  <2>2. ValueOf(s) \in Text
    BY <2>1 DEF First, Element
  <2>3. Len(ValueOf(s)) \in Nat /\ Len(s) \in Nat /\ Len(RestOf(s)) \in Nat
    BY <2>1, <2>2, TextByte
  <2> QED BY <2>1, <2>2, <2>3
<1>2. ASSUME NEW g \in [D -> V] PROVE Body(g) \in [D -> V]
  OBVIOUS
<1>3. \A g \in [D -> V] : Phi[g] = Body(g)
  OBVIOUS
<1>4. Descends(D, V, m, Phi)
  <2>1. V # {}
    OBVIOUS
  <2>2. m \in [D -> Nat]
    BY TextByte
  <2>3. Phi \in [[D -> V] -> [D -> V]]
    BY <1>2
  <2>4. ASSUME NEW g \in [D -> V], NEW h \in [D -> V], NEW s \in D,
               \A e \in D : m[e] < m[s] => g[e] = h[e]
        PROVE  Phi[g][s] = Phi[h][s]
    <3>1. Fits(s) /\ ~Backwards(s) => g[ValueOf(s)] = h[ValueOf(s)] /\ g[RestOf(s)] = h[RestOf(s)]
      BY <1>1, <2>4
    <3> HIDE DEF V, D, m
    <3> QED BY <1>3, <3>1
  <2> HIDE DEF Phi, m, D, V
  <2> QED BY <2>1, <2>2, <2>3, <2>4 DEF Descends
<1> HIDE DEF Phi, m, V, Body
<1>5. PICK f \in [D -> V] : f = Phi[f]
  BY <1>4, RecursionExists
<1>6. \A s \in D : f[s] = 1 <=> Trips(f, s)
  <2>1. f = Body(f)
    BY <1>3, <1>5
  <2>2. \A s \in D : f[s] = IF Trips(f, s) THEN 1 ELSE 0
    <3> HIDE DEF Trips
    <3> QED BY <2>1, Zenon DEF Body
  <2>3. 0 # 1
    OBVIOUS
  <2> HIDE DEF Trips
  <2> QED BY <2>2, <2>3, Zenon
<1> DEFINE p == [s \in D |-> f[s] = 1]
           Panicking(s) ==
             /\ Fits(s)
             /\ \/ Backwards(s)
                \/ Nested(SubSeq(s, 1, 2)) /\ p[ValueOf(s)]
                \/ p[RestOf(s)]
<1>7. ASSUME NEW s \in D PROVE (f[s] = 1) = Panicking(s)
  <2>1. CASE Fits(s) /\ ~Backwards(s)
    <3>1. ValueOf(s) \in D /\ RestOf(s) \in D
      BY <1>1, <2>1
    <3>2. p[ValueOf(s)] = (f[ValueOf(s)] = 1) /\ p[RestOf(s)] = (f[RestOf(s)] = 1)
      BY <3>1, Zenon
    <3> QED BY <1>6, <3>2, Zenon
  <2>2. CASE ~Fits(s) \/ Backwards(s)
    BY <1>6, <2>2, Zenon
  <2> QED BY <2>1, <2>2, Zenon
<1>8. p = [s \in D |-> Panicking(s)]
  <2> HIDE DEF Panicking
  <2> QED BY <1>7, Zenon
<1> QED
  BY <1>8, Zenon DEF D

LEMMA PanicsDef ==
  \A s \in Text : Panics[s] <=>
    /\ Fits(s)
    /\ \/ Backwards(s)
       \/ Nested(SubSeq(s, 1, 2)) /\ Panics[ValueOf(s)]
       \/ Panics[RestOf(s)]
<1>1. Panics = [s \in Text |->
        /\ Fits(s)
        /\ \/ Backwards(s)
           \/ Nested(SubSeq(s, 1, 2)) /\ Panics[ValueOf(s)]
           \/ Panics[RestOf(s)]]
  BY PanicsExists DEF Panics
<1> QED
  BY <1>1, Zenon

LEMMA PanicsNot ==
  ASSUME NEW s \in Text, ~Fits(s)
  PROVE  ~Panics[s]
  BY PanicsDef, Zenon

\* Whether the reader panics at a text that it has begun to read.
LEMMA PanicsLater ==
  ASSUME NEW s, NEW a, NEW v, NEW r, Reads(s, a, v, r)
  PROVE  Panics[s] <=> (Nested(a) /\ Panics[v]) \/ Panics[r]
<1>1. s \in Text /\ Fits(s) /\ ~Backwards(s) /\ RestOf(s) = r
  BY DEF Reads
<1>2. SubSeq(s, 1, 2) = a /\ ValueOf(s) = v
  BY DEF Reads, First
<1> QED
  BY <1>1, <1>2, PanicsDef, Zenon

\* An element over whose children the reader does not panic.
Calm == {e \in Sound : Nested(e.tag) => ~Panics[e.value]}

LEMMA CalmSound == \A es \in Seq(Calm) : es \in Seq(Sound)
<1>1. Calm \subseteq Sound
  BY DEF Calm
<1> HIDE DEF Calm
<1> QED
  BY <1>1, SeqMonotonic

\* Where the reader does not panic it makes such elements.
LEMMA CalmParse == \A s \in Text : ~Panics[s] => ParseTLV[s] \in Seq(Calm)
<1> DEFINE G == {s \in Text : ~Panics[s] => ParseTLV[s] \in Seq(Calm)}
<1>1. ASSUME NEW s \in Text, \A r \in Text : Len(r) < Len(s) => r \in G PROVE s \in G
  <2> SUFFICES ASSUME ~Panics[s] PROVE ParseTLV[s] \in Seq(Calm)
    OBVIOUS
  <2>1. CASE ~Fits(s) \/ Backwards(s)
    <3>1. ParseTLV[s] = <<>>
      BY <2>1, ParseStops
    <3>2. <<>> \in Seq(Calm)
      OBVIOUS
    <3> QED BY <3>1, <3>2, Zenon
  <2>2. CASE Fits(s) /\ ~Backwards(s)
    <3>1. First(s) \in Sound /\ RestOf(s) \in Text /\ Len(RestOf(s)) < Len(s)
      BY <2>2, FirstSound
    <3>2. ~Panics[RestOf(s)] /\ (Nested(SubSeq(s, 1, 2)) => ~Panics[ValueOf(s)])
      BY <2>2, PanicsDef, Zenon
    <3>3. First(s) \in Calm
      BY <3>1, <3>2 DEF Calm, First
    <3>4. ParseTLV[RestOf(s)] \in Seq(Calm)
      BY <1>1, <3>1, <3>2
    <3>5. ParseTLV[s] = <<First(s)>> \o ParseTLV[RestOf(s)]
      BY <2>2, ParseGoesOn
    <3>6. PICK e \in Calm, u \in Seq(Calm) : e = First(s) /\ u = ParseTLV[RestOf(s)]
      BY <3>3, <3>4
    <3>7. <<e>> \o u \in Seq(Calm)
      <4> HIDE DEF Calm
      <4> QED BY ConsOf
    <3> QED BY <3>5, <3>6, <3>7, Zenon
  <2> QED BY <2>1, <2>2
<1>2. G = Text
  <2>1. G \in SUBSET Text
    OBVIOUS
  <2> HIDE DEF G
  <2> QED BY <1>1, <2>1, TextInduction
<1> QED
  BY <1>2

\* What is written of elements that are read without a panic is, too.
LEMMA CalmWritten ==
  \A es \in Seq(Calm) : \A r \in Text : ~Panics[r] => ~Panics[BuildTLV[es] \o r]
<1> DEFINE G == {es \in Elements :
             es \in Seq(Calm) => \A r \in Text : ~Panics[r] => ~Panics[BuildTLV[es] \o r]}
           m == [es \in Elements |-> Weight[es]]
<1>1. ASSUME NEW es \in Elements, \A d \in Elements : m[d] < m[es] => d \in G
      PROVE  es \in G
  <2> SUFFICES ASSUME es \in Seq(Calm), NEW r \in Text, ~Panics[r] PROVE ~Panics[BuildTLV[es] \o r]
    OBVIOUS
  <2>1. CASE es = <<>>
    <3>1. <<>> \o r = r
      BY DEF Text
    <3> QED BY <2>1, <3>1, BuildEmpty, Zenon
  <2>2. CASE es # <<>>
    <3>1. PICK e, rest : e = es[1] /\ rest = Tail(es)
      OBVIOUS
    <3>2. e \in Calm /\ rest \in Seq(Calm) /\ es = <<e>> \o rest
      BY <2>2, <3>1, ConsSplit, Zenon
    <3>3. e \in Sound /\ e \in Element /\ rest \in Elements
      BY <3>2, CalmSound, SoundSeq DEF Calm, Sound
    <3>4. Weight[rest] < Weight[es] /\ Weight[Children(e)] < Weight[es]
      <4>1. Weight[es] = 1 + Len(e.value) + Weight[rest]
        BY <3>2, <3>3, WeightCons, Zenon
      <4>2. Len(e.value) \in Nat
        BY <3>3, TextByte DEF Element
      <4>3. Children(e) \in Elements /\ Weight[Children(e)] <= Len(e.value)
        BY <3>3, ChildrenSound
      <4>4. Weight[rest] \in Nat /\ Weight[Children(e)] \in Nat
        BY <3>3, <4>3, WeightType
      <4> QED BY <4>1, <4>2, <4>3, <4>4
    <3>5. ~Panics[BuildTLV[rest] \o r]
      BY <1>1, <3>2, <3>3, <3>4
    <3>6. Nested(e.tag) => ~Panics[Written(e)]
      <4> SUFFICES ASSUME Nested(e.tag) PROVE ~Panics[Written(e)]
        OBVIOUS
      <4>1. ~Panics[e.value] /\ e.value \in Text
        BY <3>2, <3>3 DEF Calm, Element
      <4>2. PICK ch \in Elements : ch = Children(e) /\ ch \in Seq(Calm)
        <5>1. Children(e) = ParseTLV[e.value]
          BY DEF Children
        <5>2. Children(e) \in Seq(Calm) /\ Children(e) \in Elements
          BY <3>3, <4>1, <5>1, CalmParse, ChildrenSound
        <5> QED BY <5>2
      <4>3. CASE ch = <<>>
        <5>1. Written(e) = e.value
          BY <4>2, <4>3, Zenon DEF Written, Value
        <5> QED BY <4>1, <5>1, Zenon
      <4>4. CASE ch # <<>>
        <5>1. Written(e) = BuildTLV[ch]
          BY <4>2, <4>4, Zenon DEF Written, Value
        <5>2. ~Panics[<<>>] /\ <<>> \in Text
          <6>1. ~Fits(<<>>)
            BY DEF Fits
          <6> QED BY <6>1, EmptyText, PanicsNot
        <5>3. ch \in G
          BY <1>1, <3>4, <4>2
        <5>4. ~Panics[BuildTLV[ch] \o <<>>]
          BY <4>2, <5>2, <5>3
        <5>5. BuildTLV[ch] \o <<>> = BuildTLV[ch]
          BY BuildType, EmptyTextRight
        <5> QED BY <5>1, <5>4, <5>5, Zenon
      <4> QED BY <4>3, <4>4
    <3>7. Reads(BuildTLV[<<e>> \o rest] \o r, e.tag, Written(e), BuildTLV[rest] \o r)
      BY <3>3, WrittenReads, Zenon
    <3>8. ~Panics[BuildTLV[<<e>> \o rest] \o r]
      BY <3>5, <3>6, <3>7, PanicsLater, Zenon
    <3> QED BY <3>2, <3>8, Zenon
  <2> QED BY <2>1, <2>2
<1>2. G = Elements
  <2>1. m \in [Elements -> Nat]
    BY WeightType
  <2>2. G \in SUBSET Elements
    OBVIOUS
  <2> HIDE DEF G, m
  <2> QED BY <1>1, <2>1, <2>2, MeasureInduction
<1> QED
  BY <1>2, CalmSound, SoundSeq

-----------------------------------------------------------------------------
(* How Convert builds its text                                             *)

-----------------------------------------------------------------------------
(* What is read of a converted text, tag by tag                            *)

LEMMA TagsDiffer == \A m, n \in 0 .. 99 : Tag(m) = Tag(n) => m = n
<1>1. \A n \in 0 .. 99 : IntOf(Tag(n)) = n
  BY PaddedReads, Zenon DEF Tag
<1> QED
  BY <1>1, Zenon

\* A tag that is not nested.
LEMMA PlainTag ==
  ASSUME NEW n \in 0 .. 99, n # 62, n \notin 26 .. 51
  PROVE  ~Nested(Tag(n))
<1>1. IntOf(Tag(n)) = n
  BY PaddedReads DEF Tag
<1>2. Tag(n) # Tag(62)
  <2>1. PICK k \in 0 .. 99 : k = 62
    OBVIOUS
  <2> QED BY <2>1, TagsDiffer, Zenon
<1> QED
  BY <1>1, <1>2, Zenon DEF Nested, Account

LEMMA PlainRewrite ==
  ASSUME NEW e \in Element, ~Nested(e.tag)
  PROVE  Rewrite[e] = e
<1>1. Children(e) = <<>>
  BY Zenon DEF Children
<1> QED
  BY <1>1, ChildrenReadBack

LEMMA OnlyMapped ==
  ASSUME NEW f \in [Element -> Element], \A e \in Element : f[e].tag = e.tag, NEW t
  PROVE  \A es \in Elements : Only(Mapped(f, es), t) = Mapped(f, Only(es, t))
  BY WithoutMapped, Zenon DEF Only

LEMMA KeepTags ==
  /\ Rewrite \in [Element -> Element] /\ \A e \in Element : Rewrite[e].tag = e.tag
  /\ Dynamic \in [Element -> Element] /\ \A e \in Element : Dynamic[e].tag = e.tag
<1>1. \A e \in Element : Dynamic[e].tag = e.tag
  BY DynamicType
<1>2. \A e \in Element : Rewrite[e].tag = e.tag
  BY DEF Rewrite
<1> QED
  BY <1>1, <1>2, RewriteType, DynamicType

\* Of the tags that Convert takes out nothing is taken over, of the others
\* everything.
LEMMA OnlyTaken ==
  ASSUME NEW text \in Text, NEW t
  PROVE  /\ t \in Managed => Only(Taken(text), t) = <<>>
         /\ t \notin Managed => Only(Taken(text), t) = Mapped(Dynamic, Only(ParseTLV[text], t))
<1>1. PICK es \in Elements : es = ParseTLV[text]
  BY ParseSound, SoundSeq
<1>2. PICK kept \in Elements : kept = Without(es, Managed)
  BY WithoutType
<1>3. Only(Taken(text), t) = Mapped(Dynamic, Only(kept, t))
  <2>1. Taken(text) = Mapped(Dynamic, kept)
    BY <1>1, <1>2 DEF Taken
  <2> QED BY <2>1, KeepTags, OnlyMapped, Zenon
<1>4. CASE t \in Managed
  <2>1. Members(kept) = {e \in Members(es) : e.tag \notin Managed}
    BY <1>2, WithoutMembers
  <2>2. Members(Only(kept, t)) = {e \in Members(kept) : e.tag = t}
    BY OnlyMembers
  <2>3. Members(Only(kept, t)) = {}
    BY <1>4, <2>1, <2>2
  <2>4. Only(kept, t) = <<>>
    BY <2>3, OnlyType, MembersType
  <2> QED BY <1>3, <1>4, <2>4, MapEmpty, Zenon
<1>5. CASE t \notin Managed
  <2>1. Managed \subseteq Text \ {t}
    <3>1. Managed \subseteq Text
      <4>1. \A n \in {54, 55, 56, 57, 63} : n \in 0 .. 99
        OBVIOUS
      <4>2. \A n \in {54, 55, 56, 57, 63} : Tag(n) \in Text
        BY <4>1, TagType, Zenon
      <4> QED BY <4>2 DEF Managed
    <3> QED BY <1>5, <3>1
  <2>2. Without(Without(es, Managed), Text \ {t}) = Without(es, Text \ {t})
    BY <2>1, WithoutTwice
  <2>3. Only(kept, t) = Only(es, t)
    BY <1>2, <2>2, Zenon DEF Only
  <2> QED BY <1>1, <1>3, <1>5, <2>3, Zenon
<1> QED
  BY <1>4, <1>5

\* One sequence after another, kept closed: the provers search less than they
\* do among sequences that are built with \o.
Cat(u, v) == u \o v

LEMMA CatType == \A u, v \in Elements : Cat(u, v) \in Elements
  BY ElementsConcat DEF Cat

LEMMA CatNone == \A u \in Elements : Cat(<<>>, u) = u /\ Cat(u, <<>>) = u
  BY EmptyElements, Zenon DEF Cat

LEMMA CatLen ==
  ASSUME NEW u \in Elements, NEW v \in Elements
  PROVE  Len(Cat(u, v)) = Len(u) + Len(v)
<1>1. u \in Seq(Element) /\ v \in Seq(Element)
  BY DEF Elements
<1> QED
  BY <1>1, ConcatProperties DEF Cat

LEMMA CatEmpty ==
  ASSUME NEW u \in Elements, NEW v \in Elements, Cat(u, v) = <<>>
  PROVE  u = <<>> /\ v = <<>>
<1>1. u \in Seq(Element) /\ v \in Seq(Element)
  BY DEF Elements
<1>2. Len(u) \in Nat /\ Len(v) \in Nat /\ Len(u) + Len(v) = Len(<<>>)
  <2>1. Len(Cat(u, v)) = Len(<<>>)
    BY Zenon
  <2> QED BY <1>1, <2>1, CatLen
<1>3. Len(u) = 0 /\ Len(v) = 0
  BY <1>2
<1> QED
  BY <1>1, <1>3, EmptySeq

LEMMA OnlyCat ==
  ASSUME NEW t
  PROVE  \A u, v \in Elements : Only(Cat(u, v), t) = Cat(Only(u, t), Only(v, t))
  BY WithoutConcat, Zenon DEF Only, Cat

\* What Convert makes of the elements taken over: x and y are put in between.
Filled(a, x, y, b) == Cat(Cat(Cat(a, x), y), b)

\* What Convert puts in between the two parts is all that the result has of
\* the tags that Convert takes out; of the others it has what was taken over.
LEMMA OnlyFilled ==
  ASSUME NEW text \in Text, NEW a, NEW b, Cut(Taken(text), a, b),
         NEW x \in Elements, NEW y \in Elements, NEW t
  PROVE  /\ t \in Managed => Only(Filled(a, x, y, b), t) = Cat(Only(x, t), Only(y, t))
         /\ Only(x, t) = <<>> /\ Only(y, t) = <<>> =>
              Only(Filled(a, x, y, b), t) = Only(Taken(text), t)
<1>1. a \in Elements /\ b \in Elements /\ Taken(text) = Cat(a, b)
  BY SoundSeq, Zenon DEF Cut, Cat
<1>2. PICK oa \in Elements, ox \in Elements, oy \in Elements, ob \in Elements :
        oa = Only(a, t) /\ ox = Only(x, t) /\ oy = Only(y, t) /\ ob = Only(b, t)
  BY <1>1, OnlyType
<1>3. Only(Filled(a, x, y, b), t) = Cat(Cat(Cat(oa, ox), oy), ob)
  <2>1. PICK ax \in Elements : ax = Cat(a, x)
    BY <1>1, CatType
  <2>2. PICK axy \in Elements : axy = Cat(ax, y)
    BY CatType
  <2>3. Only(ax, t) = Cat(oa, ox)
    BY <1>1, <1>2, <2>1, OnlyCat
  <2>4. Only(axy, t) = Cat(Cat(oa, ox), oy)
    BY <1>2, <2>2, <2>3, OnlyCat
  <2>5. Only(Cat(axy, b), t) = Cat(Cat(Cat(oa, ox), oy), ob)
    BY <1>1, <1>2, <2>4, OnlyCat
  <2> QED BY <2>1, <2>2, <2>5, Zenon DEF Filled
<1>4. Only(Taken(text), t) = Cat(oa, ob)
  BY <1>1, <1>2, OnlyCat
<1>5. ASSUME t \in Managed PROVE Only(Filled(a, x, y, b), t) = Cat(ox, oy)
  <2>1. Cat(oa, ob) = <<>>
    BY <1>4, <1>5, OnlyTaken, Zenon
  <2>2. oa = <<>> /\ ob = <<>>
    BY <2>1, CatEmpty
  <2> QED BY <1>3, <2>2, CatNone, CatType
<1>6. ASSUME ox = <<>>, oy = <<>> PROVE Only(Filled(a, x, y, b), t) = Only(Taken(text), t)
  BY <1>3, <1>4, <1>6, CatNone
<1> QED
  BY <1>2, <1>5, <1>6

\* What is read of elements with their checksum.
LEMMA OnlySealed ==
  ASSUME NEW r \in Seq(Sound)
  PROVE  /\ ParseTLV[Sealed(r)] \in Elements
         /\ \A t : t # Tag(63) => Only(ParseTLV[Sealed(r)], t) = Mapped(Rewrite, Only(r, t))
         /\ Only(r, Tag(63)) = <<>> =>
              \E e \in Element : Only(ParseTLV[Sealed(r)], Tag(63)) = <<e>>
<1>1. PICK e \in Sound : e.tag = Tag(63) /\ ParseTLV[Sealed(r)] = Mapped(Rewrite, r) \o <<e>>
  BY SealedReads
<1>2. e \in Element /\ <<e>> \in Elements /\ r \in Elements /\ Mapped(Rewrite, r) \in Elements
  <2>1. e \in Element /\ r \in Elements
    BY SoundSeq DEF Sound
  <2> QED BY <2>1, ElementsCons, RewriteType, MapElements, EmptyElements
<1>3. ASSUME NEW t PROVE Only(ParseTLV[Sealed(r)], t) = Mapped(Rewrite, Only(r, t)) \o Only(<<e>>, t)
  <2>1. Only(Mapped(Rewrite, r) \o <<e>>, t) = Only(Mapped(Rewrite, r), t) \o Only(<<e>>, t)
    BY <1>2, OnlyConcat, Zenon
  <2>2. Only(Mapped(Rewrite, r), t) = Mapped(Rewrite, Only(r, t))
    BY <1>2, KeepTags, OnlyMapped, Zenon
  <2> QED BY <1>1, <2>1, <2>2, Zenon
<1>4. ASSUME NEW t, t # Tag(63) PROVE Only(ParseTLV[Sealed(r)], t) = Mapped(Rewrite, Only(r, t))
  <2>1. Only(<<e>>, t) = <<>>
    BY <1>1, <1>2, <1>4, OnlyOne, Zenon
  <2>2. Mapped(Rewrite, Only(r, t)) \in Elements
    <3>1. Only(r, t) \in Elements
      BY <1>2, OnlyType
    <3> QED BY <3>1, <1>2, RewriteType, MapElements
  <2> QED BY <1>3, <2>1, <2>2, EmptyElements, Zenon
<1>5. ASSUME Only(r, Tag(63)) = <<>> PROVE Only(ParseTLV[Sealed(r)], Tag(63)) = <<e>>
  <2>1. Only(<<e>>, Tag(63)) = <<e>>
    BY <1>1, <1>2, OnlyOne, Zenon
  <2>2. <<>> \o <<e>> = <<e>>
    BY <1>2, EmptyElements
  <2> QED BY <1>3, <1>5, <2>1, <2>2, MapEmpty, Zenon
<1>6. ParseTLV[Sealed(r)] \in Elements
  BY <1>1, <1>2, ElementsConcat, Zenon
<1> QED
  BY <1>2, <1>4, <1>5, <1>6

\* The tags whose elements the properties count, and the required ones: the
\* payment network's own tags, none of them nested.
Plains == {0, 1, 52, 53, 54, 55, 56, 57, 58, 59, 60, 63}

LEMMA PlainTags ==
  /\ \A n \in Plains : n \in 0 .. 99 /\ Tag(n) \in Text /\ ~Nested(Tag(n))
  /\ \A m, n \in Plains : m # n => Tag(m) # Tag(n)
<1>1. \A n \in Plains : n \in 0 .. 99 /\ n # 62 /\ n \notin 26 .. 51
  BY DEF Plains
<1> HIDE DEF Plains
<1>2. \A n \in Plains : Tag(n) \in Text
  BY <1>1, TagType, Zenon
<1>3. \A n \in Plains : ~Nested(Tag(n))
  BY <1>1, PlainTag
<1>4. \A m, n \in Plains : m # n => Tag(m) # Tag(n)
  BY <1>1, TagsDiffer, Zenon
<1> QED
  BY <1>1, <1>2, <1>3, <1>4

LEMMA MakeIs ==
  ASSUME NEW n \in Plains, NEW value \in Text
  PROVE  \E e \in Element :
           e = MakeTLV(n, value) /\ e.tag = Tag(n) /\ e.value = value /\ Rewrite[e] = e
<1>1. PICK t \in Text : t = Tag(n) /\ ~Nested(t)
  BY PlainTags
<1>2. MakeTLV(n, value) = [tag |-> t, value |-> value]
  BY <1>1 DEF MakeTLV
<1>3. [tag |-> t, value |-> value] \in Element
  BY DEF Element
<1>4. MakeTLV(n, value).tag = t /\ MakeTLV(n, value).value = value
  BY <1>2
<1>5. Rewrite[MakeTLV(n, value)] = MakeTLV(n, value)
  BY <1>1, <1>2, <1>3, <1>4, PlainRewrite
<1> QED
  BY <1>1, <1>2, <1>3, <1>4, <1>5, Zenon

\* The sequence of one element.
One(n, value) == <<MakeTLV(n, value)>>

LEMMA OneIs ==
  ASSUME NEW n \in Plains, NEW value \in Text
  PROVE  /\ One(n, value) \in Elements /\ One(n, value) # <<>> /\ One(n, value)[1].value = value
         /\ Only(One(n, value), Tag(n)) = One(n, value)
         /\ \A t : t # Tag(n) => Only(One(n, value), t) = <<>>
         /\ Mapped(Rewrite, One(n, value)) = One(n, value)
<1>1. PICK e \in Element :
        e = MakeTLV(n, value) /\ e.tag = Tag(n) /\ e.value = value /\ Rewrite[e] = e
  BY MakeIs
<1>2. <<e>> \in Elements /\ <<e>> # <<>> /\ <<e>>[1] = e
  BY EmptyElements, ElementsCons
<1>3. Only(<<e>>, Tag(n)) = <<e>> /\ \A t : t # Tag(n) => Only(<<e>>, t) = <<>>
  BY <1>1, OnlyOne, Zenon
<1>5. Mapped(Rewrite, <<e>>) = <<e>>
  BY <1>1 DEF Mapped
<1> QED
  BY <1>1, <1>2, <1>3, <1>5, Zenon DEF One

\* What is put in for the fee, tag by tag.
Tip(fee) ==
  CASE fee.type = "none" -> <<>> [] fee.type = "fixed" -> One(55, Padded(2)) [] OTHER -> One(55, Padded(3))
TipFixed(fee) == IF fee.type = "fixed" THEN One(56, General(fee.value)) ELSE <<>>
TipPercentage(fee) == IF fee.type = "percentage" THEN One(57, General(fee.value)) ELSE <<>>

LEMMA FeeOnly ==
  ASSUME NEW fee, fee.type \in {"none", "fixed", "percentage"}, fee.value \in Nat
  PROVE  /\ FeeElements(fee) \in Elements
         /\ Only(FeeElements(fee), Tag(55)) = Tip(fee)
         /\ Only(FeeElements(fee), Tag(56)) = TipFixed(fee)
         /\ Only(FeeElements(fee), Tag(57)) = TipPercentage(fee)
         /\ \A t : t \notin {Tag(55), Tag(56), Tag(57)} => Only(FeeElements(fee), t) = <<>>
<1>1. PICK g \in Text : g = General(fee.value)
  BY GeneralType
<1>2. PICK two \in Text, three \in Text : two = Padded(2) /\ three = Padded(3)
  BY PaddedType
<1>3. 55 \in Plains /\ 56 \in Plains /\ 57 \in Plains
  BY DEF Plains
<1>4. Tag(55) # Tag(56) /\ Tag(55) # Tag(57) /\ Tag(56) # Tag(57)
  BY <1>3, PlainTags
<1>5. CASE fee.type = "none"
  <2>1. FeeElements(fee) = <<>>
    BY <1>5 DEF FeeElements
  <2>2. Tip(fee) = <<>> /\ TipFixed(fee) = <<>> /\ TipPercentage(fee) = <<>>
    BY <1>5 DEF Tip, TipFixed, TipPercentage
  <2> QED BY <2>1, <2>2, OnlyEmpty, EmptyElements, Zenon
<1>6. CASE fee.type = "fixed"
  <2>1. FeeElements(fee) = <<MakeTLV(55, two), MakeTLV(56, g)>>
    BY <1>1, <1>2, <1>6 DEF FeeElements
  <2>2. FeeElements(fee) = Cat(One(55, two), One(56, g))
    BY <2>1, Pair, Zenon DEF Cat, One
  <2>3. Tip(fee) = One(55, two) /\ TipFixed(fee) = One(56, g) /\ TipPercentage(fee) = <<>>
    BY <1>1, <1>2, <1>6 DEF Tip, TipFixed, TipPercentage
  <2>4. PICK p \in Elements, q \in Elements :
          /\ p = One(55, two) /\ Only(p, Tag(55)) = p /\ \A t : t # Tag(55) => Only(p, t) = <<>>
          /\ q = One(56, g) /\ Only(q, Tag(56)) = q /\ \A t : t # Tag(56) => Only(q, t) = <<>>
    BY <1>3, OneIs
  <2>5. \A t : Only(Cat(p, q), t) = Cat(Only(p, t), Only(q, t))
    BY OnlyCat
  <2>6. Only(Cat(p, q), Tag(55)) = p /\ Only(Cat(p, q), Tag(56)) = q
    BY <1>4, <2>4, <2>5, CatNone
  <2>7. \A t : t \notin {Tag(55), Tag(56)} => Only(Cat(p, q), t) = <<>>
    BY <2>4, <2>5, CatNone, EmptyElements
  <2>8. Only(Cat(p, q), Tag(57)) = <<>>
    BY <1>4, <2>7
  <2>9. \A t : t \notin {Tag(55), Tag(56), Tag(57)} => Only(Cat(p, q), t) = <<>>
    BY <2>7
  <2>10. FeeElements(fee) = Cat(p, q)
    BY <2>2, <2>4, Zenon
  <2> QED BY <2>3, <2>4, <2>6, <2>8, <2>9, <2>10, CatType, ZenonT(60)
<1>7. CASE fee.type = "percentage"
  <2>1. FeeElements(fee) = <<MakeTLV(55, three), MakeTLV(57, g)>>
    BY <1>1, <1>2, <1>7 DEF FeeElements
  <2>2. FeeElements(fee) = Cat(One(55, three), One(57, g))
    BY <2>1, Pair, Zenon DEF Cat, One
  <2>3. Tip(fee) = One(55, three) /\ TipFixed(fee) = <<>> /\ TipPercentage(fee) = One(57, g)
    BY <1>1, <1>2, <1>7 DEF Tip, TipFixed, TipPercentage
  <2>4. PICK p \in Elements, q \in Elements :
          /\ p = One(55, three) /\ Only(p, Tag(55)) = p /\ \A t : t # Tag(55) => Only(p, t) = <<>>
          /\ q = One(57, g) /\ Only(q, Tag(57)) = q /\ \A t : t # Tag(57) => Only(q, t) = <<>>
    BY <1>3, OneIs
  <2>5. \A t : Only(Cat(p, q), t) = Cat(Only(p, t), Only(q, t))
    BY OnlyCat
  <2>6. Only(Cat(p, q), Tag(55)) = p /\ Only(Cat(p, q), Tag(57)) = q
    BY <1>4, <2>4, <2>5, CatNone
  <2>7. \A t : t \notin {Tag(55), Tag(57)} => Only(Cat(p, q), t) = <<>>
    BY <2>4, <2>5, CatNone, EmptyElements
  <2>8. Only(Cat(p, q), Tag(56)) = <<>>
    BY <1>4, <2>7
  <2>9. \A t : t \notin {Tag(55), Tag(56), Tag(57)} => Only(Cat(p, q), t) = <<>>
    BY <2>7
  <2>10. FeeElements(fee) = Cat(p, q)
    BY <2>2, <2>4, Zenon
  <2> QED BY <2>3, <2>4, <2>6, <2>8, <2>9, <2>10, CatType, ZenonT(60)
<1> QED
  BY <1>5, <1>6, <1>7

LEMMA FeeSound ==
  ASSUME NEW amount, NEW fee, Fitting(amount, fee)
  PROVE  One(54, Decimal[amount]) \in Seq(Sound) /\ FeeElements(fee) \in Seq(Sound)
<1>1. PICK tags : \A n \in Written6 : Tag(n) \in tags
  <2>1. \A n \in Written6 : Tag(n) \in {Tag(k) : k \in Written6}
    OBVIOUS
  <2> QED BY <2>1
<1>2. Hidden(<<MakeTLV(54, Decimal[amount])>>, tags) /\ Hidden(FeeElements(fee), tags)
  BY <1>1, FeeHidden, Zenon
<1> QED
  BY <1>2, Zenon DEF Hidden, One

\* What Convert makes of a text with a country code.
LEMMA ConvertFills ==
  ASSUME NEW text \in Text, HasTag(Taken(text), 58), NEW amount, NEW fee, Fitting(amount, fee)
  PROVE  \E a, b :
           /\ Cut(Taken(text), a, b)
           /\ Filled(a, One(54, Decimal[amount]), FeeElements(fee), b) \in Seq(Sound)
           /\ Convert(text, amount, fee)
                = Sealed(Filled(a, One(54, Decimal[amount]), FeeElements(fee), b))
<1>1. PICK a, b :
        /\ Cut(Taken(text), a, b)
        /\ Convert(text, amount, fee)
             = Sealed(a \o <<MakeTLV(54, Decimal[amount])>> \o FeeElements(fee) \o b)
  <2>1. \/ ~HasTag(Taken(text), 58) /\ Convert(text, amount, fee) = Sealed(Taken(text))
        \/ \E a, b :
             /\ Cut(Taken(text), a, b)
             /\ Convert(text, amount, fee)
                  = Sealed(a \o <<MakeTLV(54, Decimal[amount])>> \o FeeElements(fee) \o b)
    BY ConvertShape
  <2> QED BY <2>1, Zenon
<1>2. Filled(a, One(54, Decimal[amount]), FeeElements(fee), b)
        = a \o <<MakeTLV(54, Decimal[amount])>> \o FeeElements(fee) \o b
  BY Zenon DEF Filled, Cat, One
<1>3. \A u, v \in Seq(Sound) : Cat(u, v) \in Seq(Sound)
  BY SoundConcat, Zenon DEF Cat
<1>4. a \in Seq(Sound) /\ b \in Seq(Sound)
  BY <1>1, Zenon DEF Cut
<1>5. Filled(a, One(54, Decimal[amount]), FeeElements(fee), b) \in Seq(Sound)
  BY <1>3, <1>4, FeeSound, Zenon DEF Filled
<1> QED
  BY <1>1, <1>2, <1>5, Zenon

\* The elements of a converted text, tag by tag.
Converts(text, amount, fee, es) ==
  /\ es \in Elements
  /\ Only(es, Tag(54)) = One(54, Decimal[amount])
  /\ Only(es, Tag(55)) = Tip(fee)
  /\ Only(es, Tag(56)) = TipFixed(fee)
  /\ Only(es, Tag(57)) = TipPercentage(fee)
  /\ \E e \in Element : Only(es, Tag(63)) = <<e>>
  /\ \A t : t \notin Managed => Only(es, t) = Mapped(Rewrite, Mapped(Dynamic, Only(ParseTLV[text], t)))

LEMMA ConvertTags ==
  ASSUME NEW text \in Text, HasTag(Taken(text), 58),
         NEW amount, NEW fee, Fitting(amount, fee), fee.type \in {"none", "fixed", "percentage"}
  PROVE  Converts(text, amount, fee, ParseTLV[Convert(text, amount, fee)])
<1>1. PICK x \in Elements, y \in Elements :
        x = One(54, Decimal[amount]) /\ y = FeeElements(fee)
  BY FeeSound, SoundSeq
<1>2. PICK a, b, r :
        /\ Cut(Taken(text), a, b) /\ r = Filled(a, x, y, b) /\ r \in Seq(Sound)
        /\ Convert(text, amount, fee) = Sealed(r)
  <2>1. PICK a, b :
          /\ Cut(Taken(text), a, b)
          /\ Filled(a, One(54, Decimal[amount]), FeeElements(fee), b) \in Seq(Sound)
          /\ Convert(text, amount, fee)
               = Sealed(Filled(a, One(54, Decimal[amount]), FeeElements(fee), b))
    BY ConvertFills
  <2> QED BY <1>1, <2>1, Zenon
<1>3. PICK es \in Elements :
        /\ es = ParseTLV[Convert(text, amount, fee)]
        /\ \A t : t # Tag(63) => Only(es, t) = Mapped(Rewrite, Only(r, t))
        /\ Only(r, Tag(63)) = <<>> => \E e \in Element : Only(es, Tag(63)) = <<e>>
  BY <1>2, OnlySealed, Zenon
<1>4. \A t :
        /\ t \in Managed => Only(Filled(a, x, y, b), t) = Cat(Only(x, t), Only(y, t))
        /\ Only(x, t) = <<>> /\ Only(y, t) = <<>> =>
             Only(Filled(a, x, y, b), t) = Only(Taken(text), t)
  BY <1>2, OnlyFilled
<1>5. \A t :
        /\ t \in Managed => Only(r, t) = Cat(Only(x, t), Only(y, t))
        /\ Only(x, t) = <<>> /\ Only(y, t) = <<>> => Only(r, t) = Only(Taken(text), t)
  BY <1>2, <1>4, Zenon
<1>6. /\ Decimal[amount] \in Text /\ fee.value \in Nat
      /\ General(fee.value) \in Text /\ Padded(2) \in Text /\ Padded(3) \in Text
  BY DecimalType, GeneralType, PaddedType DEF Fitting
<1>7. /\ 54 \in Plains /\ 55 \in Plains /\ 56 \in Plains /\ 57 \in Plains /\ 63 \in Plains
      /\ Tag(54) # Tag(55) /\ Tag(54) # Tag(56) /\ Tag(54) # Tag(57) /\ Tag(63) # Tag(54)
      /\ Tag(63) # Tag(55) /\ Tag(63) # Tag(56) /\ Tag(63) # Tag(57)
  <2>1. 54 \in Plains /\ 55 \in Plains /\ 56 \in Plains /\ 57 \in Plains /\ 63 \in Plains
    BY DEF Plains
  <2> QED BY <2>1, PlainTags
<1>8. Tag(54) \in Managed /\ Tag(55) \in Managed /\ Tag(56) \in Managed /\ Tag(57) \in Managed
        /\ Tag(63) \in Managed
  BY DEF Managed
<1>9. /\ Only(x, Tag(54)) = x /\ Mapped(Rewrite, x) = x
      /\ \A t : t # Tag(54) => Only(x, t) = <<>>
  <2>1. PICK d \in Text : d = Decimal[amount]
    BY <1>6
  <2>2. /\ Only(One(54, d), Tag(54)) = One(54, d) /\ Mapped(Rewrite, One(54, d)) = One(54, d)
        /\ \A t : t # Tag(54) => Only(One(54, d), t) = <<>>
    BY <1>7, OneIs
  <2> QED BY <1>1, <2>1, <2>2, Zenon
<1>10. /\ Only(y, Tag(55)) = Tip(fee) /\ Only(y, Tag(56)) = TipFixed(fee)
       /\ Only(y, Tag(57)) = TipPercentage(fee)
       /\ \A t : t \notin {Tag(55), Tag(56), Tag(57)} => Only(y, t) = <<>>
  <2>1. /\ Only(FeeElements(fee), Tag(55)) = Tip(fee)
        /\ Only(FeeElements(fee), Tag(56)) = TipFixed(fee)
        /\ Only(FeeElements(fee), Tag(57)) = TipPercentage(fee)
        /\ \A t : t \notin {Tag(55), Tag(56), Tag(57)} => Only(FeeElements(fee), t) = <<>>
    BY <1>6, FeeOnly
  <2> QED BY <1>1, <2>1, Zenon
<1>11. \A t : Only(y, t) \in Elements
  BY OnlyType
<1>12. Only(es, Tag(54)) = x
  <2>1. Only(r, Tag(54)) = Cat(x, <<>>)
    BY <1>5, <1>7, <1>8, <1>9, <1>10
  <2>2. Only(es, Tag(54)) = Mapped(Rewrite, Only(r, Tag(54)))
    BY <1>3, <1>7, Zenon
  <2>3. Cat(x, <<>>) = x
    BY CatNone, Zenon
  <2> QED BY <1>9, <2>1, <2>2, <2>3, Zenon
<1>13. \A t : t \in Managed /\ t # Tag(54) /\ t # Tag(63) => Only(es, t) = Mapped(Rewrite, Only(y, t))
  BY <1>3, <1>5, <1>9, <1>11, CatNone, Zenon
<1>14. Mapped(Rewrite, Tip(fee)) = Tip(fee)
  <2>1. Tip(fee) \in {<<>>, One(55, Padded(2)), One(55, Padded(3))}
    BY DEF Tip
  <2>2. \A v \in Text : Mapped(Rewrite, One(55, v)) = One(55, v)
    BY <1>7, OneIs, ZenonT(60)
  <2> QED BY <1>6, <2>1, <2>2, MapEmpty, Zenon
<1>15. Mapped(Rewrite, TipFixed(fee)) = TipFixed(fee)
  <2>1. TipFixed(fee) = <<>> \/ TipFixed(fee) = One(56, General(fee.value))
    BY Zenon DEF TipFixed
  <2>2. Mapped(Rewrite, One(56, General(fee.value))) = One(56, General(fee.value))
    BY <1>6, <1>7, OneIs, ZenonT(60)
  <2> QED BY <2>1, <2>2, MapEmpty, Zenon
<1>16. Mapped(Rewrite, TipPercentage(fee)) = TipPercentage(fee)
  <2>1. TipPercentage(fee) = <<>> \/ TipPercentage(fee) = One(57, General(fee.value))
    BY Zenon DEF TipPercentage
  <2>2. Mapped(Rewrite, One(57, General(fee.value))) = One(57, General(fee.value))
    BY <1>6, <1>7, OneIs, ZenonT(60)
  <2> QED BY <2>1, <2>2, MapEmpty, Zenon
<1>17. /\ Only(es, Tag(55)) = Tip(fee) /\ Only(es, Tag(56)) = TipFixed(fee)
       /\ Only(es, Tag(57)) = TipPercentage(fee)
  BY <1>7, <1>8, <1>10, <1>13, <1>14, <1>15, <1>16, ZenonT(60)
<1>18. \E e \in Element : Only(es, Tag(63)) = <<e>>
  <2>1. Only(r, Tag(63)) = <<>>
    BY <1>5, <1>7, <1>8, <1>9, <1>10, CatNone, EmptyElements
  <2> QED BY <1>3, <2>1, Zenon
<1>19. ASSUME NEW t, t \notin Managed
       PROVE  Only(es, t) = Mapped(Rewrite, Mapped(Dynamic, Only(ParseTLV[text], t)))
  <2>1. t # Tag(54) /\ t # Tag(63) /\ t \notin {Tag(55), Tag(56), Tag(57)}
    BY <1>8, <1>19
  <2>2. Only(r, t) = Only(Taken(text), t)
    BY <1>5, <1>9, <1>10, <2>1, Zenon
  <2>3. Only(Taken(text), t) = Mapped(Dynamic, Only(ParseTLV[text], t))
    BY <1>19, OnlyTaken, Zenon
  <2> QED BY <1>3, <2>1, <2>2, <2>3, Zenon
<1> QED
  BY <1>1, <1>3, <1>12, <1>17, <1>18, <1>19, Zenon DEF Converts

-----------------------------------------------------------------------------
(* What is read of a converted text                                        *)

LEMMA MapLen ==
  ASSUME NEW f \in [Element -> Element], NEW u \in Elements
  PROVE  /\ Mapped(f, u) \in Elements /\ Len(Mapped(f, u)) = Len(u)
         /\ \A i \in DOMAIN u : Mapped(f, u)[i] = f[u[i]]
         /\ Mapped(f, u) # <<>> <=> u # <<>>
<1>1. Mapped(f, u) = [i \in 1 .. Len(u) |-> f[u[i]]] /\ \A i \in 1 .. Len(u) : f[u[i]] \in Element
  BY DEF Mapped, Elements
<1>2. Mapped(f, u) \in Seq(Element) /\ Len(Mapped(f, u)) = Len(u)
  BY <1>1 DEF Elements
<1>3. \A i \in DOMAIN u : Mapped(f, u)[i] = f[u[i]]
  BY DEF Mapped
<1>4. Mapped(f, u) # <<>> <=> u # <<>>
  BY <1>2, EmptySeq DEF Elements
<1> QED
  BY <1>2, <1>3, <1>4 DEF Elements

\* Of the tags that Convert does not take out, as many elements as before.
LEMMA AsMany ==
  ASSUME NEW text \in Text, NEW amount, NEW fee, NEW es, Converts(text, amount, fee, es),
         NEW t, t \notin Managed
  PROVE  /\ Len(Only(es, t)) = Len(Only(ParseTLV[text], t))
         /\ Only(es, t) # <<>> <=> Only(ParseTLV[text], t) # <<>>
<1>1. PICK u \in Elements : u = Only(ParseTLV[text], t)
  BY ParseSound, SoundSeq, OnlyType
<1>2. Only(es, t) = Mapped(Rewrite, Mapped(Dynamic, u))
  BY <1>1 DEF Converts
<1>3. PICK v \in Elements : v = Mapped(Dynamic, u) /\ Len(v) = Len(u) /\ (v # <<>> <=> u # <<>>)
  BY MapLen, KeepTags
<1>4. Len(Mapped(Rewrite, v)) = Len(v) /\ (Mapped(Rewrite, v) # <<>> <=> v # <<>>)
  BY MapLen, KeepTags
<1> QED
  BY <1>1, <1>2, <1>3, <1>4, Zenon

LEMMA TagOneStays == Tag(1) \notin Managed
<1>1. /\ \A n \in {54, 55, 56, 57, 63} : n \in Plains /\ n # 1
      /\ 1 \in Plains
  BY DEF Plains
<1>2. \A n \in {54, 55, 56, 57, 63} : Tag(1) # Tag(n)
  BY <1>1, PlainTags
<1> QED
  BY <1>2 DEF Managed

\* Every method of a converted text is the dynamic one.
LEMMA MethodDynamic ==
  ASSUME NEW text \in Text, NEW amount, NEW fee, NEW es, Converts(text, amount, fee, es)
  PROVE  \A i \in DOMAIN es : es[i].tag = Tag(1) => es[i].value = Padded(12)
<1>1. PICK u \in Elements : u = Only(ParseTLV[text], Tag(1))
  BY ParseSound, SoundSeq, OnlyType
<1>2. Only(es, Tag(1)) = Mapped(Rewrite, Mapped(Dynamic, u)) /\ es \in Elements
  BY <1>1, TagOneStays DEF Converts
<1>3. \A i \in DOMAIN u : u[i] \in Element /\ u[i].tag = Tag(1)
  <2>1. Members(u) = {e \in Members(ParseTLV[text]) : e.tag = Tag(1)}
    BY <1>1, ParseSound, SoundSeq, OnlyMembers
  <2>2. \A i \in DOMAIN u : u[i] \in Members(u)
    BY DEF Members
  <2>3. \A i \in DOMAIN u : u[i] \in Element
    BY DEF Elements
  <2> QED BY <2>1, <2>2, <2>3
<1>4. PICK m \in Element : m = MakeTLV(1, Padded(12)) /\ m.value = Padded(12) /\ Rewrite[m] = m
  <2>1. 1 \in Plains /\ Padded(12) \in Text
    BY PaddedType DEF Plains
  <2> QED BY <2>1, MakeIs, Zenon
<1>5. PICK v \in Elements : /\ v = Mapped(Dynamic, u) /\ Len(v) = Len(u)
                            /\ \A i \in DOMAIN u : v[i] = Dynamic[u[i]]
  BY MapLen, KeepTags
<1>6. PICK w \in Elements : /\ w = Mapped(Rewrite, v) /\ Len(w) = Len(v)
                            /\ \A i \in DOMAIN v : w[i] = Rewrite[v[i]]
  BY MapLen, KeepTags
<1>7. DOMAIN u = DOMAIN v /\ DOMAIN v = DOMAIN w
  BY <1>5, <1>6 DEF Elements
<1>8. \A i \in DOMAIN w : w[i] = m
  <2>1. \A i \in DOMAIN u : Dynamic[u[i]] = m
    BY <1>3, <1>4, Zenon DEF Dynamic
  <2>2. \A i \in DOMAIN w : v[i] = m
    BY <1>5, <1>7, <2>1, Zenon
  <2> QED BY <1>4, <1>6, <1>7, <2>2
<1>9. Members(w) = {e \in Members(es) : e.tag = Tag(1)}
  BY <1>2, <1>5, <1>6, OnlyMembers
<1>10. \A i \in DOMAIN es : es[i].tag = Tag(1) => es[i] \in Members(w)
  <2>1. \A i \in DOMAIN es : es[i] \in Members(es)
    BY DEF Members
  <2> QED BY <1>9, <2>1
<1>11. \A e \in Members(w) : e = m
  BY <1>8 DEF Members
<1> QED
  BY <1>4, <1>10, <1>11, Zenon

LEMMA NotManaged ==
  /\ \A n \in Plains \ {54, 55, 56, 57, 63} : Tag(n) \notin Managed
  /\ \A t : Account(t) => t \notin Managed
<1> DEFINE S == {54, 55, 56, 57, 63}
<1>1. S \subseteq Plains
  BY DEF Plains
<1>2. Managed = {Tag(n) : n \in S}
  BY DEF Managed
<1> HIDE DEF S
<1>3. \A m \in Plains \ S, n \in S : Tag(m) # Tag(n)
  BY <1>1, PlainTags
<1>4. \A n \in S : ~Account(Tag(n))
  BY <1>1, PlainTags DEF Nested
<1>5. \A t : t \in Managed => \E n \in S : t = Tag(n)
  BY <1>2
<1>6. \A m \in Plains \ S : Tag(m) \notin Managed
  BY <1>3, <1>5, Zenon
<1>7. \A t : Account(t) => t \notin Managed
  BY <1>4, <1>5, Zenon
<1> QED
  BY <1>6, <1>7 DEF S

\* What Validate asks of the elements of a text.
Complete(es) ==
  /\ \A n \in Required : HasTag(es, n)
  /\ \A i \in DOMAIN es : es[i].tag = Tag(1) => es[i].value \in {Padded(11), Padded(12)}
  /\ \E i \in DOMAIN es : Account(es[i].tag)

LEMMA ConvertComplete ==
  ASSUME NEW text \in Text, Complete(ParseTLV[text]),
         NEW amount, NEW fee, NEW es, Converts(text, amount, fee, es)
  PROVE  Complete(es)
<1>1. es \in Elements /\ ParseTLV[text] \in Elements
  BY ParseSound, SoundSeq DEF Converts
<1>2. ASSUME NEW n \in Required PROVE HasTag(es, n)
  <2>1. CASE n = 63
    <3>1. PICK e \in Element : Only(es, Tag(63)) = <<e>>
      BY DEF Converts
    <3>2. <<e>> # <<>>
      OBVIOUS
    <3> QED BY <1>1, <2>1, <3>1, <3>2, HasTagOnly, Zenon
  <2>2. CASE n # 63
    <3>1. n \in Plains \ {54, 55, 56, 57, 63}
      BY <1>2, <2>2 DEF Required, Plains
    <3>2. Tag(n) \notin Managed
      BY <3>1, NotManaged
    <3>3. HasTag(ParseTLV[text], n)
      BY <1>2 DEF Complete
    <3>4. Only(ParseTLV[text], Tag(n)) # <<>>
      BY <1>1, <3>3, HasTagOnly
    <3>5. Only(es, Tag(n)) # <<>>
      BY <3>2, <3>4, AsMany
    <3> QED BY <1>1, <3>5, HasTagOnly
  <2> QED BY <2>1, <2>2
<1>3. \A i \in DOMAIN es : es[i].tag = Tag(1) => es[i].value \in {Padded(11), Padded(12)}
  BY MethodDynamic
<1>4. \E i \in DOMAIN es : Account(es[i].tag)
  <2>1. PICK t : Account(t) /\ \E i \in DOMAIN ParseTLV[text] : ParseTLV[text][i].tag = t
    BY DEF Complete
  <2>2. Only(ParseTLV[text], t) # <<>>
    BY <1>1, <2>1, TagOnly
  <2>3. Only(es, t) # <<>>
    BY <2>1, <2>2, NotManaged, AsMany
  <2>4. \E i \in DOMAIN es : es[i].tag = t
    BY <1>1, <2>3, TagOnly
  <2> QED BY <2>1, <2>4
<1> QED
  BY <1>2, <1>3, <1>4 DEF Complete

\* The values that Parse reads of a converted text.
Shows(es, amount, fee) ==
  /\ Find(es, 1) = Padded(12)
  /\ Find(es, 54) = Decimal[amount]
  /\ Find(es, 55) = CASE fee.type = "none" -> <<>> [] fee.type = "fixed" -> Padded(2) [] OTHER -> Padded(3)
  /\ Find(es, 56) = IF fee.type = "fixed" THEN General(fee.value) ELSE <<>>
  /\ Find(es, 57) = IF fee.type = "percentage" THEN General(fee.value) ELSE <<>>

LEMMA ConvertShows ==
  ASSUME NEW text \in Text, NEW amount \in Nat, NEW fee, fee.value \in Nat,
         NEW es, Converts(text, amount, fee, es), HasTag(es, 1)
  PROVE  Shows(es, amount, fee)
<1>1. es \in Elements
  BY DEF Converts
<1>2. Find(es, 1) = Padded(12)
  <2>1. PICK u \in Elements : u = Only(es, Tag(1)) /\ u # <<>>
    BY <1>1, OnlyType, HasTagOnly
  <2>2. u[1] \in Members(u)
    BY <2>1 DEF Members, Elements
  <2>3. u[1] \in Members(es) /\ u[1].tag = Tag(1)
    BY <1>1, <2>1, <2>2, OnlyMembers
  <2>4. u[1].value = Padded(12)
    <3>1. PICK i \in DOMAIN es : u[1] = es[i]
      BY <2>3 DEF Members
    <3> QED BY <2>3, <3>1, MethodDynamic
  <2> QED BY <1>1, <2>1, <2>4, FindOnly
<1>3. 54 \in Plains /\ 55 \in Plains /\ 56 \in Plains /\ 57 \in Plains
  BY DEF Plains
<1>4. ASSUME NEW n \in Plains, NEW v \in Text, Only(es, Tag(n)) = One(n, v) PROVE Find(es, n) = v
  <2>1. One(n, v) # <<>> /\ One(n, v)[1].value = v
    BY OneIs
  <2> QED BY <1>1, <1>4, <2>1, FindOnly
<1>5. ASSUME NEW n \in Plains, Only(es, Tag(n)) = <<>> PROVE Find(es, n) = <<>>
  BY <1>1, <1>5, FindOnly
<1>6. PICK d \in Text, g \in Text, two \in Text, three \in Text :
        d = Decimal[amount] /\ g = General(fee.value) /\ two = Padded(2) /\ three = Padded(3)
  BY DecimalType, GeneralType, PaddedType
<1>7. Find(es, 54) = Decimal[amount]
  BY <1>3, <1>4, <1>6 DEF Converts
<1>8. Find(es, 55) = CASE fee.type = "none" -> <<>> [] fee.type = "fixed" -> Padded(2) [] OTHER -> Padded(3)
  <2>1. Only(es, Tag(55)) = Tip(fee)
    BY DEF Converts
  <2> QED BY <1>3, <1>4, <1>5, <1>6, <2>1 DEF Tip
<1>9. Find(es, 56) = IF fee.type = "fixed" THEN General(fee.value) ELSE <<>>
  <2>1. Only(es, Tag(56)) = TipFixed(fee)
    BY DEF Converts
  <2> QED BY <1>3, <1>4, <1>5, <1>6, <2>1 DEF TipFixed
<1>10. Find(es, 57) = IF fee.type = "percentage" THEN General(fee.value) ELSE <<>>
  <2>1. Only(es, Tag(57)) = TipPercentage(fee)
    BY DEF Converts
  <2> QED BY <1>3, <1>4, <1>5, <1>6, <2>1 DEF TipPercentage
<1> QED
  BY <1>2, <1>7, <1>8, <1>9, <1>10 DEF Shows

-----------------------------------------------------------------------------
(* What Validate asks of the bytes of a text                               *)

LEMMA ChecksumBytes ==
  ASSUME NEW s
  PROVE  /\ \A i \in 1 .. 4 : Checksum(s)[i] \in HexByte
         /\ Upper(Checksum(s)) = Checksum(s)
<1>1. ASSUME NEW crc PROVE \A i \in 1 .. 4 : Hex4(crc)[i] \in HexByte
  <2> DEFINE digit(k) == (IF k + 3 \in crc THEN 8 ELSE 0) + (IF k + 2 \in crc THEN 4 ELSE 0)
                           + (IF k + 1 \in crc THEN 2 ELSE 0) + (IF k \in crc THEN 1 ELSE 0)
             byte(d) == IF d < 10 THEN 48 + d ELSE 55 + d
  <2>1. \A k : digit(k) \in 0 .. 15
    OBVIOUS
  <2>2. \A d \in 0 .. 15 : byte(d) \in HexByte
    BY DEF HexByte
  <2>3. Hex4(crc) = <<byte(digit(12)), byte(digit(8)), byte(digit(4)), byte(digit(0))>>
    BY DEF Hex4
  <2> HIDE DEF digit, byte
  <2>4. \A k : byte(digit(k)) \in HexByte
    BY <2>1, <2>2, Zenon
  <2>5. \A w, x, y, z \in HexByte : \A i \in 1 .. 4 : <<w, x, y, z>>[i] \in HexByte
    OBVIOUS
  <2> QED BY <2>3, <2>4, <2>5, Zenon
<1>2. PICK c \in Text : c = Checksum(s) /\ Len(c) = 4
  BY ChecksumType
<1>3. \A i \in 1 .. 4 : c[i] \in HexByte
  BY <1>1, <1>2 DEF Checksum
<1>4. DOMAIN c = 1 .. 4
  BY <1>2, TextByte
<1>5. c = [i \in 1 .. 4 |-> c[i]]
  BY <1>2, <1>4 DEF Text
<1>6. \A i \in 1 .. 4 : c[i] \notin 97 .. 122
  BY <1>3 DEF HexByte
<1>7. Upper(c) = c
  BY <1>4, <1>5, <1>6 DEF Upper
<1> QED
  BY <1>2, <1>3, <1>7, Zenon

LEMMA SubAll ==
  ASSUME NEW s \in Text
  PROVE  SubSeq(s, 1, Len(s)) = s
<1>1. Len(s) \in Nat
  BY TextByte
<1> QED
  BY <1>1, Slice

\* A text without white space at its ends.
LEMMA TrimSame ==
  ASSUME NEW s \in Text, Len(s) > 0, s[1] \notin Space, s[Len(s)] \notin Space
  PROVE  TrimSpace(s) = s /\ SelectInSeq(s, LAMBDA b : b \notin Space) # 0
<1> DEFINE I == {i \in 1 .. Len(s) : s[i] \notin Space}
<1>1. SelectInSeq(s, LAMBDA b : b \notin Space) = IF I # {} THEN Min(I) ELSE 0
  BY Zenon DEF SelectInSeq
<1>2. SelectLastInSeq(s, LAMBDA b : b \notin Space) = IF I # {} THEN Max(I) ELSE 0
  BY Zenon DEF SelectLastInSeq
<1>3. Len(s) \in Nat
  BY TextByte
<1>4. 1 \in I /\ Len(s) \in I /\ I \in SUBSET (1 .. Len(s)) /\ I # {}
  BY <1>3
<1> HIDE DEF I
<1>5. Min(I) = 1
  <2>1. \A y \in I : 1 <= y /\ y \in Nat
    BY <1>4
  <2>2. Min(I) \in I /\ \A y \in I : Min(I) <= y
    BY <1>4, <2>1, Zenon DEF Min
  <2>3. PICK k \in Nat : k = Min(I) /\ 1 <= k /\ k <= 1
    BY <1>4, <2>1, <2>2, Zenon
  <2>4. k = 1
    BY <2>3
  <2> QED BY <2>3, <2>4, Zenon
<1>6. Max(I) = Len(s)
  <2>1. \A y \in I : Len(s) >= y /\ y \in Nat
    BY <1>3, <1>4
  <2>2. Max(I) \in I /\ \A y \in I : Max(I) >= y
    BY <1>4, <2>1, Zenon DEF Max
  <2>3. PICK k \in Nat, n \in Nat : k = Max(I) /\ n = Len(s) /\ n >= k /\ k >= n
    BY <1>3, <1>4, <2>1, <2>2, Zenon
  <2>4. k = n
    BY <2>3
  <2> QED BY <2>3, <2>4, Zenon
<1>7. SubSeq(s, 1, Len(s)) = s
  BY SubAll
<1>8. SelectInSeq(s, LAMBDA b : b \notin Space) = 1 /\ SelectLastInSeq(s, LAMBDA b : b \notin Space) = Len(s)
  BY <1>1, <1>2, <1>4, <1>5, <1>6, Zenon
<1>9. TrimSpace(s) = SubSeq(s, 1, Len(s))
  BY <1>8, Zenon DEF TrimSpace
<1> QED
  BY <1>7, <1>8, <1>9

\* The last four bytes are the checksum of those before them, and none of
\* them is white space.
LEMMA SealedChecks ==
  ASSUME NEW r \in Seq(Sound), NEW qr, qr = Sealed(r)
  PROVE  /\ qr \in Text /\ Len(qr) = Len(BuildTLV[r]) + 8
         /\ Checksum(SubSeq(qr, 1, Len(qr) - 4)) = Upper(SubSeq(qr, Len(qr) - 3, Len(qr)))
         /\ qr[Len(qr)] \notin Space
         /\ SubSeq(qr, Len(qr) - 3, Len(qr)) = Checksum(SubSeq(qr, 1, Len(qr) - 4))
         /\ \A k \in Len(qr) - 3 .. Len(qr) : qr[k] \in HexByte
<1>1. PICK i \in Text, c \in Text, u \in Text : Ends(r, qr, i, c, u)
  BY SealedEnds
<1>2. c = Checksum(i) /\ qr = i \o c
  BY <1>1, Zenon DEF Ends
<1>3. Len(c) = 4 /\ \A k \in 1 .. 4 : c[k] \in HexByte
  BY <1>2, ChecksumType, ChecksumBytes
<1>4. PICK m \in Nat : m = Len(i)
  BY TextByte
<1>5. /\ qr \in Text /\ Len(qr) = m + 4
      /\ \A k \in 1 .. m : qr[k] = i[k]
      /\ \A k \in 1 .. 4 : qr[m + k] = c[k]
  <2>1. /\ i \o c \in Text /\ Len(i \o c) = Len(i) + Len(c)
        /\ \A k \in 1 .. Len(i) : (i \o c)[k] = i[k]
        /\ \A k \in 1 .. Len(c) : (i \o c)[Len(i) + k] = c[k]
    BY TextConcat
  <2> QED BY <1>2, <1>3, <1>4, <2>1, Zenon
<1>6. m = Len(BuildTLV[r]) + 4
  <2>1. BuildTLV[r] \in Text /\ Tag(63) \in Text /\ Padded(4) \in Text
    <3>1. 63 \in Plains
      BY DEF Plains
    <3> QED BY <3>1, SoundSeq, BuildType, PlainTags, PaddedType
  <2>2. Len(Tag(63)) = 2 /\ Len(Padded(4)) = 2
    <3>1. 63 \in 0 .. 99 /\ 4 \in 0 .. 99
      OBVIOUS
    <3> QED BY <3>1, TagType, PaddedReads, Zenon
  <2>3. Len(BuildTLV[r] \o Tag(63) \o Padded(4)) = Len(BuildTLV[r]) + Len(Tag(63)) + Len(Padded(4))
    BY <2>1, ThreeTexts
  <2>4. Len(i) = Len(BuildTLV[r]) + Len(Tag(63)) + Len(Padded(4))
    BY <1>1, <2>3, Zenon DEF Ends
  <2>5. PICK n \in Nat : n = Len(BuildTLV[r])
    BY <2>1, TextByte
  <2>6. m = n + 2 + 2
    BY <1>4, <2>2, <2>4, <2>5, Zenon
  <2>7. m = n + 4
    BY <2>6
  <2> QED BY <2>5, <2>7, Zenon
<1>7. SubSeq(qr, 1, Len(qr) - 4) = i
  <2>1. m = 1 + Len(i) - 1 /\ m <= Len(qr) /\ \A k \in 1 .. Len(i) : qr[1 + k - 1] = i[k]
    BY <1>4, <1>5
  <2>2. SubSeq(qr, 1, m) = i
    BY <1>5, <2>1, Slice
  <2>3. Len(qr) - 4 = m
    BY <1>5
  <2> QED BY <2>2, <2>3, Zenon
<1>8. SubSeq(qr, Len(qr) - 3, Len(qr)) = c
  <2>1. /\ m + 1 \in Nat \ {0} /\ m + 4 \in Nat /\ m + 4 = (m + 1) + Len(c) - 1 /\ m + 4 <= Len(qr)
        /\ \A k \in 1 .. Len(c) : qr[(m + 1) + k - 1] = c[k]
    <3>1. \A k \in 1 .. 4 : (m + 1) + k - 1 = m + k
      OBVIOUS
    <3> QED BY <1>3, <1>5, <3>1
  <2>2. SubSeq(qr, m + 1, m + 4) = c
    BY <1>5, <2>1, Slice, ZenonT(60)
  <2>3. Len(qr) - 3 = m + 1 /\ Len(qr) = m + 4
    BY <1>5
  <2> QED BY <2>2, <2>3, Zenon
<1>9. qr[Len(qr)] \notin Space
  <2>1. qr[m + 4] \in HexByte
    <3>1. 4 \in 1 .. 4
      OBVIOUS
    <3> QED BY <1>3, <1>5, <3>1, Zenon
  <2>2. \A b \in HexByte : b \notin Space
    BY DEF HexByte, Space
  <2> QED BY <1>5, <2>1, <2>2, Zenon
<1>10. Checksum(SubSeq(qr, 1, Len(qr) - 4)) = Upper(SubSeq(qr, Len(qr) - 3, Len(qr)))
  BY <1>2, <1>7, <1>8, ChecksumBytes, Zenon
<1>11. Len(qr) = Len(BuildTLV[r]) + 8
  <2>1. Len(BuildTLV[r]) \in Nat
    BY SoundSeq, BuildType, TextByte
  <2> QED BY <1>5, <1>6, <2>1
<1>12. SubSeq(qr, Len(qr) - 3, Len(qr)) = Checksum(SubSeq(qr, 1, Len(qr) - 4))
  BY <1>2, <1>7, <1>8, Zenon
<1>13. ASSUME NEW k \in Len(qr) - 3 .. Len(qr) PROVE qr[k] \in HexByte
  <2>1. PICK j \in 1 .. 4 : m + j = k
    <3>1. k - m \in 1 .. 4 /\ m + (k - m) = k
      BY <1>5
    <3> QED BY <3>1
  <2> QED BY <1>3, <1>5, <2>1, Zenon
<1> QED
  BY <1>5, <1>9, <1>10, <1>11, <1>12, <1>13, Zenon

\* Each element that is written takes four bytes at least.
LEMMA BuildLong == \A es \in Seq(Sound) : Len(BuildTLV[es]) >= 4 * Len(es)
<1> DEFINE G == {es \in Seq(Sound) : Len(BuildTLV[es]) >= 4 * Len(es)}
<1>0. \A n, k \in Nat : n <= k /\ k <= 99 => n \in 0 .. 99
  OBVIOUS
<1>1. <<>> \in G
  <2>1. <<>> \in Seq(Sound) /\ Len(<<>>) = 0
    OBVIOUS
  <2>2. 0 >= 4 * 0
    OBVIOUS
  <2> QED BY <2>1, <2>2, BuildEmpty, Zenon
<1>2. ASSUME NEW e \in Sound, NEW es \in G PROVE <<e>> \o es \in G
  <2>1. es \in Seq(Sound) /\ Len(BuildTLV[es]) >= 4 * Len(es) /\ e \in Element /\ es \in Elements
    BY SoundSeq DEF Sound
  <2>2. <<e>> \o es \in Seq(Sound) /\ Len(<<e>> \o es) = Len(es) + 1
    BY <2>1, ConsOf
  <2>3. PICK a \in Text, w \in Text, b \in Text :
          a = e.tag /\ w = Written(e) /\ b = BuildTLV[es] /\ Len(a) = 2
    BY <2>1, WrittenType, BuildType DEF Sound, Element
  <2>4. PICK p \in Text : p = Padded(Len(w)) /\ Len(p) = 2
    <3>1. Len(w) <= Len(e.value) /\ Len(e.value) <= 99 /\ Len(w) \in Nat /\ Len(e.value) \in Nat
      <4>1. Len(w) <= Len(e.value)
        BY <2>1, <2>3, WrittenShrinks, Zenon
      <4> QED BY <2>1, <4>1, TextByte DEF Sound, Element
    <3>2. Len(w) \in 0 .. 99
      BY <1>0, <3>1, Zenon
    <3> QED BY <3>2, PaddedReads
  <2>5. PICK t : t = BuildTLV[<<e>> \o es]
    OBVIOUS
  <2>6. Joins(t, a, p, w, b)
    BY <2>1, <2>3, <2>4, <2>5, BuildCons, Zenon DEF Joins
  <2>7. Len(t) = Len(a) + Len(p) + Len(w) + Len(b)
    BY <2>6, FourTexts DEF Layout
  <2>8. Len(w) \in Nat /\ Len(b) \in Nat /\ Len(es) \in Nat
    BY <2>1, TextByte
  <2>9. Len(t) >= 4 * (Len(es) + 1)
    <3>1. PICK n \in Nat, k \in Nat, l \in Nat : n = Len(w) /\ k = Len(b) /\ l = Len(es)
      BY <2>8
    <3>2. k >= 4 * l /\ Len(t) = 2 + 2 + n + k
      BY <2>1, <2>3, <2>4, <2>7, <3>1, Zenon
    <3>3. 2 + 2 + n + k >= 4 * (l + 1)
      BY <3>2
    <3> QED BY <3>1, <3>2, <3>3, Zenon
  <2> QED BY <2>2, <2>5, <2>9, Zenon
<1>3. G = Seq(Sound)
  <2>1. G \in SUBSET Seq(Sound)
    OBVIOUS
  <2> HIDE DEF G
  <2> QED BY <1>1, <1>2, <2>1, SeqInduction
<1> QED
  BY <1>3

\* The version, 000201, as an element.
Version == MakeTLV(0, Padded(1))

LEMMA VersionIs ==
  /\ Version \in Sound /\ Version \in Element /\ Version.tag = Tag(0) /\ Version.value = Padded(1)
  /\ Written(Version) = Padded(1) /\ Len(Padded(1)) = 2 /\ Dynamic[Version] = Version
<1>1. 0 \in Plains /\ 1 \in Plains /\ 0 # 1
  BY DEF Plains
<1>2. PICK p \in Text : p = Padded(1) /\ Len(p) = 2
  <2>1. 1 \in 0 .. 99
    OBVIOUS
  <2> QED BY <2>1, PaddedReads
<1>3. Len(p) <= 99
  <2>1. 2 <= 99
    OBVIOUS
  <2> QED BY <1>2, <2>1, Zenon
<1>4. Version \in Element /\ Version.tag = Tag(0) /\ Version.value = p
  <2>1. PICK e \in Element : e = MakeTLV(0, p) /\ e.tag = Tag(0) /\ e.value = p
    BY <1>1, MakeIs
  <2> QED BY <1>2, <2>1, Zenon DEF Version
<1>5. Version \in Sound
  <2>1. 0 \in 0 .. 99
    OBVIOUS
  <2> QED BY <1>2, <1>3, <2>1, MakeSound, Zenon DEF Version
<1>6. Written(Version) = p
  <2>1. Children(Version) = <<>>
    BY <1>1, <1>4, PlainTags DEF Children
  <2> QED BY <1>4, <2>1, Zenon DEF Written, Value
<1>7. Dynamic[Version] = Version
  <2>1. Tag(0) # Tag(1)
    BY <1>1, PlainTags
  <2> QED BY <1>4, <2>1, DynamicType, Zenon
<1> QED
  BY <1>2, <1>4, <1>5, <1>6, <1>7, Zenon

LEMMA VersionText ==
  \E x \in Text : x = Tag(0) \o Padded(2) \o Padded(1) /\ Len(x) = 6 /\ x[1] = 48
<1>1. PICK a \in Text, p \in Text, v \in Text :
        /\ a = Tag(0) /\ Len(a) = 2 /\ p = Padded(2) /\ Len(p) = 2 /\ v = Padded(1) /\ Len(v) = 2
  <2>1. 0 \in 0 .. 99 /\ 1 \in 0 .. 99 /\ 2 \in 0 .. 99
    OBVIOUS
  <2> QED BY <2>1, TagType, PaddedReads
<1>2. PICK x \in Text : x = a \o p \o v /\ Len(x) = 6 /\ x[1] = a[1]
  <2>1. /\ a \o p \o v \in Text /\ Len(a \o p \o v) = Len(a) + Len(p) + Len(v)
        /\ \A k \in 1 .. Len(a) : (a \o p \o v)[k] = a[k]
    BY ThreeTexts
  <2>2. 2 + 2 + 2 = 6 /\ 1 \in 1 .. 2
    OBVIOUS
  <2> QED BY <1>1, <2>1, <2>2, Zenon
<1>3. a[1] = 48
  <2>1. Decimal[0] = <<48>>
    BY DecimalSmall
  <2>2. Tag(0) = <<48>> \o Decimal[0]
    BY DEF Tag, Padded
  <2>3. <<48>> \o <<48>> = <<48, 48>>
    BY Pair, Zenon
  <2>4. <<48, 48>>[1] = 48
    OBVIOUS
  <2> QED BY <1>1, <2>1, <2>2, <2>3, <2>4, Zenon
<1> QED
  BY <1>1, <1>2, <1>3, Zenon

\* What begins with the version is read as beginning with its element.
Begins(s) == IsPrefix(Tag(0) \o Padded(2) \o Padded(1), s)

LEMMA VersionRead ==
  ASSUME NEW s \in Text, Begins(s)
  PROVE  \E rest \in Seq(Sound) : ParseTLV[s] = <<Version>> \o rest
<1>1. PICK a \in Text, p \in Text, v \in Text, n \in 0 .. 99 :
        /\ a = Tag(0) /\ Len(a) = 2 /\ n = 2 /\ p = Padded(n) /\ Len(p) = 2
        /\ v = Padded(1) /\ Len(v) = 2
  <2>1. 0 \in 0 .. 99 /\ 1 \in 0 .. 99 /\ 2 \in 0 .. 99
    OBVIOUS
  <2> QED BY <2>1, TagType, PaddedReads
<1>2. PICK x \in Text : x = a \o p \o v /\ Len(x) = 6
  BY <1>1, VersionText, Zenon
<1>3. IsPrefix(x, s)
  BY <1>1, <1>2, Zenon DEF Begins
<1>4. Len(s) \in Nat /\ 6 <= Len(s) /\ SubSeq(x, 1, 6) = SubSeq(s, 1, 6)
  BY <1>2, <1>3, TextByte, Zenon DEF IsPrefix
<1>5. SubSeq(x, 1, 6) = x
  BY <1>2, SubAll, Zenon
<1>6. PICK r \in Text : r = SubSeq(s, 7, Len(s)) /\ s = x \o r
  <2>1. CASE Len(s) = 6
    <3>1. SubSeq(s, 1, 6) = s
      BY <2>1, SubAll, Zenon
    <3>2. SubSeq(s, 7, Len(s)) = <<>>
      <4>1. SubSeq(s, 7, 6) = <<>>
        OBVIOUS
      <4> QED BY <2>1, <4>1, Zenon
    <3> QED BY <1>4, <1>5, <3>1, <3>2, EmptyText, EmptyTextRight, Zenon
  <2>2. CASE Len(s) > 6
    <3>1. 7 \in 1 .. Len(s) /\ 7 - 1 = 6
      BY <1>4, <2>2
    <3>2. SubSeq(s, 7, Len(s)) \in Text /\ s = SubSeq(s, 1, 7 - 1) \o SubSeq(s, 7, Len(s))
      BY <3>1, CutInTwo, Zenon DEF Text
    <3> QED BY <1>4, <1>5, <3>1, <3>2, Zenon
  <2>3. Len(s) = 6 \/ Len(s) > 6
    <3>1. PICK k \in Nat : k = Len(s) /\ 6 <= k
      BY <1>4, Zenon
    <3>2. k = 6 \/ k > 6
      BY <3>1
    <3> QED BY <3>1, <3>2, Zenon
  <2> QED BY <2>1, <2>2, <2>3, Zenon
<1>7. Joins(s, a, Padded(n), v, r)
  BY <1>1, <1>2, <1>6, Zenon DEF Joins
<1>8. Reads(s, a, v, r)
  <2>1. Len(v) = n
    BY <1>1
  <2> QED BY <1>1, <1>7, <2>1, ReadBack, Zenon
<1>9. First(s) = Version
  BY <1>1, <1>8 DEF Reads, Version, MakeTLV
<1>10. ParseTLV[s] = <<First(s)>> \o ParseTLV[r]
  BY <1>8, ParseGoesOn, Zenon DEF Reads
<1> QED
  BY <1>9, <1>10, ParseSound, Zenon

LEMMA CatHead ==
  ASSUME NEW u \in Elements, NEW v \in Elements, u # <<>>
  PROVE  Cat(u, v) # <<>> /\ Cat(u, v)[1] = u[1]
<1>1. u \in Seq(Element) /\ v \in Seq(Element) /\ Len(u) \in Nat \ {0} /\ Len(v) \in Nat
  BY EmptySeq DEF Elements
<1>2. \A i \in 1 .. Len(u) + Len(v) : (u \o v)[i] = IF i <= Len(u) THEN u[i] ELSE v[i - Len(u)]
  BY <1>1, ConcatProperties
<1>3. 1 \in 1 .. Len(u) + Len(v) /\ 1 <= Len(u)
  BY <1>1
<1>4. (u \o v)[1] = u[1]
  BY <1>2, <1>3, Zenon
<1>5. Cat(u, v) # <<>>
  BY CatEmpty
<1> QED
  BY <1>4, <1>5, Zenon DEF Cat

LEMMA DynamicCat ==
  ASSUME NEW e \in Element, NEW es \in Elements
  PROVE  Mapped(Dynamic, Cat(<<e>>, es)) = Cat(<<Dynamic[e]>>, Mapped(Dynamic, es))
  BY KeepTags, MapElements, Zenon DEF Cat

LEMMA TakenVersion ==
  ASSUME NEW text \in Text, NEW rest \in Seq(Sound), ParseTLV[text] = <<Version>> \o rest
  PROVE  Taken(text) # <<>> /\ Taken(text)[1] = Version
<1>1. rest \in Elements /\ Version \in Element
  BY SoundSeq, VersionIs
<1>2. Tag(0) \notin Managed
  <2>1. 0 \in Plains \ {54, 55, 56, 57, 63}
    BY DEF Plains
  <2> QED BY <2>1, NotManaged
<1>3. PICK k \in Elements : k = Without(rest, Managed)
  BY <1>1, WithoutType
<1>4. Without(<<Version>> \o rest, Managed) = <<Version>> \o k
  BY <1>1, <1>2, <1>3, VersionIs, WithoutIn, Zenon
<1>5. PICK v \in Elements : v = Mapped(Dynamic, k)
  BY KeepTags, MapLen
<1>6. Mapped(Dynamic, <<Version>> \o k) = <<Version>> \o v
  <2>1. Mapped(Dynamic, Cat(<<Version>>, k)) = Cat(<<Dynamic[Version]>>, Mapped(Dynamic, k))
    BY <1>1, DynamicCat
  <2> QED BY <1>5, <2>1, VersionIs, Zenon DEF Cat
<1>7. Taken(text) = <<Version>> \o v
  BY <1>4, <1>6, Zenon DEF Taken
<1>8. <<Version>> \o v # <<>> /\ (<<Version>> \o v)[1] = Version
  BY <1>1, ConsOf, Zenon DEF Elements
<1> QED
  BY <1>7, <1>8, Zenon

\* The result begins with the version, too, and has three elements at least.
LEMMA FilledBegins ==
  ASSUME NEW text \in Text, Taken(text) # <<>>, Taken(text)[1] = Version,
         NEW a, NEW b, Cut(Taken(text), a, b),
         NEW x \in Elements, x # <<>>, NEW y \in Elements
  PROVE  /\ Filled(a, x, y, b) # <<>> /\ Filled(a, x, y, b)[1] = Version
         /\ Len(Filled(a, x, y, b)) >= 3
<1>1. /\ a \in Elements /\ b \in Elements /\ Taken(text) = Cat(a, b)
      /\ b # <<>> /\ b[1].tag = Tag(58)
  BY SoundSeq, Zenon DEF Cut, Cat
<1>2. a # <<>>
  <2> SUFFICES ASSUME a = <<>> PROVE FALSE
    OBVIOUS
  <2>1. Taken(text) = b
    BY <1>1, CatNone, Zenon
  <2>2. b[1] = Version /\ Version.tag = Tag(0)
    BY <2>1, VersionIs, Zenon
  <2>3. 0 \in Plains /\ 58 \in Plains /\ 0 # 58
    BY DEF Plains
  <2> QED BY <1>1, <2>2, <2>3, PlainTags, Zenon
<1>3. a[1] = Version
  BY <1>1, <1>2, CatHead
<1>4. PICK ax \in Elements : ax = Cat(a, x)
  BY <1>1, CatType
<1>5. PICK axy \in Elements : axy = Cat(ax, y)
  BY <1>4, CatType
<1>6. PICK r \in Elements : r = Cat(axy, b) /\ r = Filled(a, x, y, b)
  BY <1>1, <1>4, <1>5, CatType, Zenon DEF Filled
<1>7. ax # <<>> /\ ax[1] = Version
  BY <1>1, <1>2, <1>3, <1>4, CatHead, Zenon
<1>8. axy # <<>> /\ axy[1] = Version
  BY <1>5, <1>7, CatHead, Zenon
<1>9. r # <<>> /\ r[1] = Version
  BY <1>1, <1>6, <1>8, CatHead, Zenon
<1>10. \A s \in Elements : Len(s) \in Nat /\ (s # <<>> => Len(s) >= 1)
  BY EmptySeq DEF Elements
<1>11. Len(r) >= 3
  <2>1. Len(ax) = Len(a) + Len(x) /\ Len(axy) = Len(ax) + Len(y) /\ Len(r) = Len(axy) + Len(b)
    BY <1>1, <1>4, <1>5, <1>6, CatLen
  <2>2. PICK p \in Nat, q \in Nat, s \in Nat, t \in Nat :
          /\ p = Len(a) /\ q = Len(x) /\ s = Len(y) /\ t = Len(b)
          /\ p >= 1 /\ q >= 1 /\ t >= 1
    BY <1>1, <1>2, <1>10
  <2>3. ((p + q) + s) + t >= 3
    BY <2>2
  <2> QED BY <2>1, <2>2, <2>3, Zenon
<1> QED
  BY <1>6, <1>9, <1>11, Zenon

LEMMA PrefixOf ==
  ASSUME NEW x \in Text, NEW y \in Text
  PROVE  /\ Cat(x, y) \in Text /\ IsPrefix(x, Cat(x, y))
         /\ \A i \in 1 .. Len(x) : Cat(x, y)[i] = x[i]
<1>1. PICK s \in Text : s = x \o y /\ Len(s) = Len(x) + Len(y) /\ \A i \in 1 .. Len(x) : s[i] = x[i]
  BY TextConcat
<1>2. Len(x) \in Nat /\ Len(x) <= Len(s)
  BY <1>1, TextByte
<1>3. SubSeq(s, 1, Len(x)) = x
  BY <1>1, <1>2, Slice
<1>4. SubSeq(x, 1, Len(x)) = x
  BY SubAll
<1> QED
  BY <1>1, <1>2, <1>3, <1>4, Zenon DEF IsPrefix, Cat

LEMMA CatAssociative == \A x, y, z \in Text : Cat(Cat(x, y), z) = Cat(x, Cat(y, z))
  BY TextAssociative, Zenon DEF Cat

\* What is written of elements that begin with the version does, too.
LEMMA SealedBegins ==
  ASSUME NEW r \in Seq(Sound), r # <<>>, r[1] = Version
  PROVE  Begins(Sealed(r)) /\ Sealed(r)[1] \notin Space
<1>1. PICK rest \in Seq(Sound) : r = <<Version>> \o rest
  BY ConsSplit
<1>2. PICK x \in Text : x = Tag(0) \o Padded(2) \o Padded(1) /\ Len(x) = 6 /\ x[1] = 48
  BY VersionText
<1>3. PICK b \in Text : b = BuildTLV[rest]
  BY SoundSeq, BuildType
<1>4. BuildTLV[r] = Cat(x, b)
  <2>1. BuildTLV[<<Version>> \o rest]
          = Version.tag \o Padded(Len(Written(Version))) \o Written(Version) \o BuildTLV[rest]
    BY VersionIs, SoundSeq, BuildCons, Zenon
  <2>2. BuildTLV[r] = Tag(0) \o Padded(2) \o Padded(1) \o b
    BY <1>1, <1>3, <2>1, VersionIs, Zenon
  <2> QED BY <1>2, <2>2, Zenon DEF Cat
<1>5. PICK u \in Text : Sealed(r) = Cat(Cat(x, b), u)
  <2>1. PICK i \in Text, c \in Text, u \in Text : Ends(r, Sealed(r), i, c, u)
    BY SealedEnds
  <2>2. Sealed(r) = Cat(BuildTLV[r], u)
    BY <2>1, Zenon DEF Ends, Cat
  <2> QED BY <1>4, <2>2, Zenon
<1>6. PICK bu \in Text : bu = Cat(b, u)
  BY PrefixOf
<1>7. Sealed(r) = Cat(x, bu)
  BY <1>5, <1>6, CatAssociative
<1>8. Begins(Sealed(r))
  BY <1>2, <1>7, PrefixOf, Zenon DEF Begins
<1>9. Sealed(r)[1] = 48
  <2>1. 1 \in 1 .. 6
    OBVIOUS
  <2>2. \A i \in 1 .. Len(x) : Cat(x, bu)[i] = x[i]
    BY PrefixOf
  <2> QED BY <1>2, <1>7, <2>1, <2>2, ZenonT(60)
<1> QED
  BY <1>8, <1>9 DEF Space

-----------------------------------------------------------------------------
(* That the reader gets through a converted text                           *)

LEMMA CalmMembers ==
  ASSUME NEW es \in Elements
  PROVE  es \in Seq(Calm) <=> Members(es) \subseteq Calm
<1>1. DOMAIN es = 1 .. Len(es) /\ Len(es) \in Nat /\ es = [i \in 1 .. Len(es) |-> es[i]]
  BY DEF Elements
<1>2. es \in Seq(Calm) => Members(es) \subseteq Calm
  BY DEF Members
<1>3. ASSUME Members(es) \subseteq Calm PROVE es \in Seq(Calm)
  <2>1. \A i \in 1 .. Len(es) : es[i] \in Calm
    BY <1>1, <1>3 DEF Members
  <2> HIDE DEF Calm
  <2> QED BY <1>1, <2>1
<1> QED
  BY <1>2, <1>3

LEMMA CatMembers ==
  ASSUME NEW u \in Elements, NEW v \in Elements
  PROVE  Members(Cat(u, v)) = Members(u) \union Members(v)
<1>1. u \in Seq(Element) /\ v \in Seq(Element)
  BY DEF Elements
<1>2. PICK m \in Nat, n \in Nat : m = Len(u) /\ n = Len(v) /\ DOMAIN u = 1 .. m /\ DOMAIN v = 1 .. n
  BY <1>1
<1>3. /\ Len(u \o v) = m + n /\ u \o v \in Seq(Element)
      /\ \A i \in 1 .. m + n : (u \o v)[i] = IF i <= m THEN u[i] ELSE v[i - m]
  BY <1>1, <1>2, ConcatProperties
<1>4. PICK w \in Seq(Element) : w = Cat(u, v) /\ w = u \o v
  BY <1>3 DEF Cat
<1>5. /\ DOMAIN w = 1 .. m + n
      /\ \A i \in 1 .. m + n : w[i] = IF i <= m THEN u[i] ELSE v[i - m]
  <2>1. Len(w) = m + n /\ \A i \in 1 .. m + n : w[i] = IF i <= m THEN u[i] ELSE v[i - m]
    BY <1>3, <1>4, Zenon
  <2>2. DOMAIN w = 1 .. Len(w)
    OBVIOUS
  <2> QED BY <2>1, <2>2, Zenon
<1>6. \A x : x \in Members(w) => x \in Members(u) \union Members(v)
  <2> SUFFICES ASSUME NEW i \in 1 .. m + n PROVE w[i] \in Members(u) \union Members(v)
    BY <1>5 DEF Members
  <2>1. CASE i <= m
    BY <1>2, <1>5, <2>1 DEF Members
  <2>2. CASE ~(i <= m)
    <3>1. i - m \in 1 .. n /\ w[i] = v[i - m]
      BY <1>5, <2>2
    <3> QED BY <1>2, <3>1 DEF Members
  <2> QED BY <2>1, <2>2
<1>7. Members(u) \subseteq Members(w)
  <2>1. \A i \in 1 .. m : i \in 1 .. m + n /\ w[i] = u[i]
    BY <1>5
  <2> QED BY <1>2, <1>5, <2>1 DEF Members
<1>8. Members(v) \subseteq Members(w)
  <2>1. \A i \in 1 .. n : m + i \in 1 .. m + n /\ w[m + i] = v[i]
    <3> SUFFICES ASSUME NEW i \in 1 .. n PROVE m + i \in 1 .. m + n /\ w[m + i] = v[i]
      OBVIOUS
    <3>1. m + i \in 1 .. m + n /\ ~(m + i <= m) /\ (m + i) - m = i
      OBVIOUS
    <3> QED BY <1>5, <3>1
  <2>2. \A i \in DOMAIN v : \E k \in DOMAIN w : w[k] = v[i]
    BY <1>2, <1>5, <2>1, Zenon
  <2> QED BY <2>2, Zenon DEF Members
<1>9. Members(w) = Members(u) \union Members(v)
  BY <1>6, <1>7, <1>8
<1> QED
  BY <1>4, <1>9, Zenon

\* Elements that have no children are calm.
LEMMA PlainCalm ==
  ASSUME NEW es \in Seq(Sound), \A e \in Members(es) : ~Nested(e.tag)
  PROVE  es \in Elements /\ Members(es) \subseteq Calm
<1>1. \A e \in Members(es) : e \in Sound
  BY DEF Members
<1> QED
  BY <1>1, SoundSeq DEF Calm

LEMMA TakenCalm ==
  ASSUME NEW text \in Text, ~Panics[text]
  PROVE  Taken(text) \in Elements /\ Members(Taken(text)) \subseteq Calm
<1>1. PICK es \in Elements : es = ParseTLV[text] /\ Members(es) \subseteq Calm
  <2>1. ParseTLV[text] \in Elements /\ ParseTLV[text] \in Seq(Calm)
    BY CalmParse, ParseSound, SoundSeq
  <2> QED BY <2>1, CalmMembers
<1>2. PICK kept \in Elements : kept = Without(es, Managed) /\ Members(kept) \subseteq Calm
  BY <1>1, WithoutType, WithoutMembers
<1>3. \A e \in Calm : Dynamic[e] \in Calm
  <2>1. 1 \in Plains
    BY DEF Plains
  <2>2. \A e \in Calm : e \in Sound /\ e \in Element /\ (Nested(e.tag) => ~Panics[e.value])
    BY DEF Calm, Sound
  <2>3. ASSUME NEW e \in Calm, e.tag = Tag(1) PROVE Dynamic[e] \in Calm
    <3>1. Dynamic[e] \in Sound /\ Dynamic[e].tag = Tag(1)
      BY <2>2, <2>3, DynamicType
    <3> QED BY <2>1, <3>1, PlainTags DEF Calm
  <2>4. ASSUME NEW e \in Calm, e.tag # Tag(1) PROVE Dynamic[e] \in Calm
    BY <2>2, <2>4, DynamicType
  <2> QED BY <2>3, <2>4
<1>4. Mapped(Dynamic, kept) \in Elements
  BY KeepTags, MapLen
<1>5. Members(Mapped(Dynamic, kept)) \subseteq Calm
  <2>1. \A i \in DOMAIN kept : kept[i] \in Calm
    BY <1>2 DEF Members
  <2> QED BY <1>3, <2>1 DEF Members, Mapped
<1> QED
  BY <1>1, <1>2, <1>4, <1>5, Zenon DEF Taken

LEMMA FilledCalm ==
  ASSUME NEW text \in Text, ~Panics[text], NEW a, NEW b, Cut(Taken(text), a, b),
         NEW amount, NEW fee, Fitting(amount, fee), fee.type \in {"none", "fixed", "percentage"}
  PROVE  Filled(a, One(54, Decimal[amount]), FeeElements(fee), b) \in Seq(Calm)
<1>1. a \in Elements /\ b \in Elements /\ Taken(text) = Cat(a, b)
  BY SoundSeq, Zenon DEF Cut, Cat
<1>2. Members(a) \subseteq Calm /\ Members(b) \subseteq Calm
  BY <1>1, TakenCalm, CatMembers
<1>3. PICK x \in Elements : x = One(54, Decimal[amount]) /\ Members(x) \subseteq Calm
  <2>1. PICK d \in Text : d = Decimal[amount]
    BY DecimalType DEF Fitting
  <2>2. 54 \in Plains
    BY DEF Plains
  <2>3. PICK e \in Element : e = MakeTLV(54, d) /\ e.tag = Tag(54) /\ ~Nested(e.tag)
    BY <2>2, MakeIs, PlainTags
  <2>4. One(54, d) \in Seq(Sound)
    BY <2>1, FeeSound
  <2>5. \A z \in Members(One(54, d)) : z = e
    BY <2>3 DEF Members, One
  <2> QED BY <2>1, <2>3, <2>4, <2>5, PlainCalm
<1>4. PICK y \in Elements : y = FeeElements(fee) /\ Members(y) \subseteq Calm
  <2>1. PICK y \in Seq(Sound) : y = FeeElements(fee) /\ y \in Elements
    BY FeeSound, SoundSeq
  <2>2. \A t : t \notin {Tag(55), Tag(56), Tag(57)} => Only(y, t) = <<>>
    BY <2>1, FeeOnly DEF Fitting
  <2>3. 55 \in Plains /\ 56 \in Plains /\ 57 \in Plains
    BY DEF Plains
  <2>4. ASSUME NEW e \in Members(y) PROVE ~Nested(e.tag)
    <3>1. Only(y, e.tag) # <<>>
      <4>1. e \in Members(Only(y, e.tag))
        BY <2>1, OnlyMembers
      <4> QED BY <4>1, MembersEmpty
    <3>2. e.tag \in {Tag(55), Tag(56), Tag(57)}
      BY <2>2, <3>1
    <3> QED BY <2>3, <3>2, PlainTags
  <2> QED BY <2>1, <2>4, PlainCalm
<1>5. PICK ax \in Elements : ax = Cat(a, x) /\ Members(ax) \subseteq Calm
  BY <1>1, <1>2, <1>3, CatType, CatMembers
<1>6. PICK axy \in Elements : axy = Cat(ax, y) /\ Members(axy) \subseteq Calm
  BY <1>4, <1>5, CatType, CatMembers
<1>7. PICK r \in Elements : r = Cat(axy, b) /\ Members(r) \subseteq Calm
  BY <1>1, <1>2, <1>6, CatType, CatMembers
<1>8. r \in Seq(Calm)
  BY <1>7, CalmMembers
<1> QED
  BY <1>3, <1>4, <1>5, <1>6, <1>7, <1>8, Zenon DEF Filled

LEMMA SealedCalm ==
  ASSUME NEW r \in Seq(Calm)
  PROVE  ~Panics[Sealed(r)]
<1>1. r \in Seq(Sound)
  BY CalmSound
<1>2. PICK i \in Text, c \in Text, u \in Text : Ends(r, Sealed(r), i, c, u)
  BY <1>1, SealedEnds
<1>3. Sealed(r) = BuildTLV[r] \o u /\ Reads(u, Tag(63), c, <<>>)
  BY <1>2, Zenon DEF Ends
<1>4. ~Panics[<<>>]
  <2>1. ~Fits(<<>>)
    BY DEF Fits
  <2> QED BY <2>1, EmptyText, PanicsNot
<1>5. ~Nested(Tag(63))
  BY PlainTags DEF Plains
<1>6. ~Panics[u]
  BY <1>3, <1>4, <1>5, PanicsLater, Zenon
<1> QED
  BY <1>3, <1>6, CalmWritten, Zenon

-----------------------------------------------------------------------------
(* That a converted text is valid                                          *)

LEMMA TrimType == \A s \in Text : SelectInSeq(s, LAMBDA b : b \notin Space) # 0 => TrimSpace(s) \in Text
<1> SUFFICES ASSUME NEW s \in Text, SelectInSeq(s, LAMBDA b : b \notin Space) # 0
    PROVE  TrimSpace(s) \in Text
  OBVIOUS
<1> DEFINE I == {i \in 1 .. Len(s) : s[i] \notin Space}
<1>1. SelectInSeq(s, LAMBDA b : b \notin Space) = IF I # {} THEN Min(I) ELSE 0
  BY Zenon DEF SelectInSeq
<1>2. SelectLastInSeq(s, LAMBDA b : b \notin Space) = IF I # {} THEN Max(I) ELSE 0
  BY Zenon DEF SelectLastInSeq
<1>3. Len(s) \in Nat /\ I \in SUBSET (1 .. Len(s))
  BY TextByte
<1> HIDE DEF I
<1>4. Min(I) \in 1 .. Len(s) /\ Max(I) \in 1 .. Len(s)
  BY <1>1, <1>3, Places
<1>5. PICK m, n : m = Min(I) /\ n = Max(I) /\ TrimSpace(s) = SubSeq(s, m, n)
  BY <1>1, <1>2, Zenon DEF TrimSpace
<1>6. m \in Nat \ {0} /\ n \in Int /\ n <= Len(s)
  BY <1>3, <1>4, <1>5
<1> QED
  BY <1>5, <1>6, TextSub

\* What TrimSpace leaves begins and ends with something else.
LEMMA TrimEnds ==
  ASSUME NEW s \in Text, SelectInSeq(s, LAMBDA b : b \notin Space) # 0
  PROVE  LET t == TrimSpace(s)
         IN Len(t) > 0 /\ t[1] \notin Space /\ t[Len(t)] \notin Space
<1> DEFINE I == {i \in 1 .. Len(s) : s[i] \notin Space}
<1>1. SelectInSeq(s, LAMBDA b : b \notin Space) = IF I # {} THEN Min(I) ELSE 0
  BY Zenon DEF SelectInSeq
<1>2. SelectLastInSeq(s, LAMBDA b : b \notin Space) = IF I # {} THEN Max(I) ELSE 0
  BY Zenon DEF SelectLastInSeq
<1>3. Len(s) \in Nat /\ I \in SUBSET (1 .. Len(s)) /\ I \in SUBSET Nat
  BY TextByte
<1>4. \A i \in I : s[i] \notin Space
  OBVIOUS
<1> HIDE DEF I
<1>5. I # {}
  BY <1>1, Zenon
<1>6. \E x \in I : \A y \in I : x <= y
  BY <1>3, <1>5, MinExists
<1>7. \E x \in I : \A y \in I : x >= y
  BY <1>3, <1>5, MaxExists
<1>8. Min(I) \in I /\ \A y \in I : Min(I) <= y
  BY <1>6, Zenon DEF Min
<1>9. Max(I) \in I
  BY <1>7, Zenon DEF Max
<1>10. PICK m, n : m = Min(I) /\ n = Max(I) /\ TrimSpace(s) = SubSeq(s, m, n)
  BY <1>1, <1>2, <1>5, Zenon DEF TrimSpace
<1>11. m \in Nat \ {0} /\ n \in Nat /\ m <= n /\ n <= Len(s) /\ s[m] \notin Space /\ s[n] \notin Space
  BY <1>3, <1>4, <1>8, <1>9, <1>10
<1>12. PICK t : t = SubSeq(s, m, n) /\ Len(t) = n - m + 1 /\ \A i \in 1 .. n - m + 1 : t[i] = s[m + i - 1]
  <2>1. \A i \in m .. n : s[i] \in 0 .. 255
    <3>1. \A i \in m .. n : i \in 1 .. Len(s)
      BY <1>3, <1>11
    <3>2. \A i \in 1 .. Len(s) : s[i] \in 0 .. 255
      BY TextByte, Zenon
    <3> QED BY <3>1, <3>2, Zenon
  <2>2. /\ SubSeq(s, m, n) \in Seq(0 .. 255)
        /\ Len(SubSeq(s, m, n)) = IF m <= n THEN n - m + 1 ELSE 0
        /\ \A i \in 1 .. n - m + 1 : SubSeq(s, m, n)[i] = s[m + i - 1]
    BY <1>11, <2>1, SubSeqProperties
  <2> QED BY <1>11, <2>2
<1>13. Len(t) > 0 /\ t[1] = s[m] /\ t[Len(t)] = s[n]
  <2>1. 1 \in 1 .. n - m + 1 /\ n - m + 1 \in 1 .. n - m + 1
        /\ m + 1 - 1 = m /\ m + (n - m + 1) - 1 = n /\ n - m + 1 > 0
    BY <1>11
  <2> QED BY <1>12, <2>1
<1> QED
  BY <1>10, <1>11, <1>12, <1>13, Zenon

\* What Validate asks of a text without white space around it.
Checks(s) ==
  /\ Begins(s) /\ Len(s) >= 20 /\ ~Panics[s]
  /\ Checksum(SubSeq(s, 1, Len(s) - 4)) = Upper(SubSeq(s, Len(s) - 3, Len(s)))
  /\ Complete(ParseTLV[s])

LEMMA ValidChecks ==
  \A text : Valid(text) <=>
    SelectInSeq(text, LAMBDA b : b \notin Space) # 0 /\ Checks(TrimSpace(text))
  BY Zenon DEF Valid, Checks, Begins, Complete

\* A country code that Validate found is there for Convert.
LEMMA TakenCountry ==
  ASSUME NEW text \in Text, Complete(ParseTLV[text])
  PROVE  HasTag(Taken(text), 58)
<1>1. PICK es \in Elements : es = ParseTLV[text]
  BY ParseSound, SoundSeq
<1>2. 58 \in Plains \ {54, 55, 56, 57, 63} /\ 58 \in Required
  BY DEF Plains, Required
<1>3. Tag(58) \notin Managed
  BY <1>2, NotManaged
<1>4. Only(es, Tag(58)) # <<>>
  BY <1>1, <1>2, HasTagOnly DEF Complete
<1>5. Only(Taken(text), Tag(58)) # <<>>
  BY <1>1, <1>3, <1>4, OnlyTaken, OnlyType, KeepTags, MapLen
<1> QED
  BY <1>5, TakenSound, SoundSeq, HasTagOnly

\* A text that a call may be made of: Validate accepts it, and the white space
\* around it, which Validate does not read, changes nothing that Convert reads.
Clean(text) == text \in Text /\ Valid(text) /\ ~Panics[text] /\ ParseTLV[text] = ParseTLV[TrimSpace(text)]

\* A fee of a type that Convert is called with.
Chargeable(amount, fee) == Fitting(amount, fee) /\ fee.type \in {"none", "fixed", "percentage"}

LEMMA CleanText ==
  ASSUME NEW text, Clean(text)
  PROVE  /\ text \in Text /\ ~Panics[text] /\ Complete(ParseTLV[text])
         /\ HasTag(Taken(text), 58) /\ Taken(text) # <<>> /\ Taken(text)[1] = Version
<1>1. text \in Text /\ ~Panics[text] /\ ParseTLV[text] = ParseTLV[TrimSpace(text)]
  BY DEF Clean
<1>2. SelectInSeq(text, LAMBDA b : b \notin Space) # 0 /\ Checks(TrimSpace(text))
  BY ValidChecks, Zenon DEF Clean
<1>3. PICK s \in Text : s = TrimSpace(text)
  BY <1>1, <1>2, TrimType
<1>4. Begins(s) /\ Complete(ParseTLV[s])
  BY <1>2, <1>3, Zenon DEF Checks
<1>5. Complete(ParseTLV[text])
  BY <1>1, <1>3, <1>4, Zenon
<1>6. PICK rest \in Seq(Sound) : ParseTLV[s] = <<Version>> \o rest
  BY <1>4, VersionRead
<1>7. ParseTLV[text] = <<Version>> \o rest
  BY <1>1, <1>3, <1>6, Zenon
<1>8. Taken(text) # <<>> /\ Taken(text)[1] = Version
  BY <1>1, <1>7, TakenVersion
<1>9. HasTag(Taken(text), 58)
  BY <1>1, <1>5, TakenCountry
<1> QED
  BY <1>1, <1>5, <1>8, <1>9, Zenon

\* What is made of such a text is valid, and known tag by tag.
LEMMA CleanConverts ==
  ASSUME NEW text, Clean(text), NEW amount, NEW fee, Chargeable(amount, fee)
  PROVE  Valid(Convert(text, amount, fee)) /\ Converts(text, amount, fee, ParseTLV[Convert(text, amount, fee)])
<1>1. /\ text \in Text /\ ~Panics[text] /\ Complete(ParseTLV[text])
      /\ HasTag(Taken(text), 58) /\ Taken(text) # <<>> /\ Taken(text)[1] = Version
  BY CleanText
<1>2. Fitting(amount, fee) /\ fee.type \in {"none", "fixed", "percentage"}
  BY DEF Chargeable
<1>3. PICK x \in Elements : x = One(54, Decimal[amount]) /\ x # <<>>
  <2>1. 54 \in Plains
    BY DEF Plains
  <2>2. Decimal[amount] \in Text
    BY <1>2, DecimalType DEF Fitting
  <2> QED BY <2>1, <2>2, OneIs
<1>4. PICK y \in Elements : y = FeeElements(fee)
  BY <1>2, FeeSound, SoundSeq
<1>5. PICK r, qr :
        /\ r \in Seq(Calm) /\ r # <<>> /\ r[1] = Version /\ Len(r) >= 3
        /\ qr = Sealed(r) /\ qr = Convert(text, amount, fee)
  <2>1. PICK a, b :
          /\ Cut(Taken(text), a, b)
          /\ Convert(text, amount, fee)
               = Sealed(Filled(a, One(54, Decimal[amount]), FeeElements(fee), b))
    BY <1>1, <1>2, ConvertFills
  <2>2. PICK r : r = Filled(a, x, y, b)
    OBVIOUS
  <2>3. r \in Seq(Calm)
    BY <1>1, <1>2, <1>3, <1>4, <2>1, <2>2, FilledCalm, Zenon
  <2>4. r # <<>> /\ r[1] = Version /\ Len(r) >= 3
    BY <1>1, <1>3, <2>1, <2>2, FilledBegins, ZenonT(60)
  <2>5. Convert(text, amount, fee) = Sealed(r)
    BY <1>3, <1>4, <2>1, <2>2, Zenon
  <2> QED BY <2>3, <2>4, <2>5, Zenon
<1>6. r \in Seq(Sound)
  BY <1>5, CalmSound, Zenon
<1>7. /\ qr \in Text /\ Len(qr) = Len(BuildTLV[r]) + 8
      /\ Checksum(SubSeq(qr, 1, Len(qr) - 4)) = Upper(SubSeq(qr, Len(qr) - 3, Len(qr)))
      /\ qr[Len(qr)] \notin Space
  BY <1>5, <1>6, SealedChecks
<1>8. Begins(qr) /\ qr[1] \notin Space
  BY <1>5, <1>6, SealedBegins, Zenon
<1>9. ~Panics[qr]
  BY <1>5, SealedCalm, Zenon
<1>10. Len(qr) >= 20 /\ Len(qr) > 0
  <2>1. PICK m, n : m = Len(r) /\ n = Len(BuildTLV[r]) /\ n >= 4 * m /\ m >= 3 /\ Len(qr) = n + 8
    BY <1>5, <1>6, <1>7, BuildLong, Zenon
  <2>2. m \in Nat /\ n \in Nat
    <3>1. BuildTLV[r] \in Text
      BY <1>6, SoundSeq, BuildType
    <3>2. Len(BuildTLV[r]) \in Nat
      BY <3>1, TextByte
    <3>3. Len(r) \in Nat
      BY <1>6
    <3> QED BY <2>1, <3>2, <3>3, Zenon
  <2>3. n + 8 >= 20 /\ n + 8 > 0
    BY <2>1, <2>2
  <2> QED BY <2>1, <2>3, Zenon
<1>11. TrimSpace(qr) = qr /\ SelectInSeq(qr, LAMBDA b : b \notin Space) # 0
  BY <1>7, <1>8, <1>10, TrimSame
<1>12. Converts(text, amount, fee, ParseTLV[qr])
  BY <1>1, <1>2, <1>5, ConvertTags, Zenon
<1>13. Complete(ParseTLV[qr])
  BY <1>1, <1>12, ConvertComplete
<1>14. Checks(TrimSpace(qr))
  BY <1>7, <1>8, <1>9, <1>10, <1>11, <1>13, Zenon DEF Checks
<1>15. Valid(qr)
  BY <1>11, <1>14, ValidChecks, Zenon
<1> QED
  BY <1>5, <1>12, <1>15, Zenon

\* What a text es asks for that was made of the elements of text.
Asks(text, amount, fee, es) ==
  /\ Shows(es, amount, fee)
  /\ \A n \in {54, 55, 56, 57, 63} : Len(Only(es, Tag(n))) <= 1
  /\ Len(Only(es, Tag(1))) = Len(Only(ParseTLV[text], Tag(1)))

\* Parse reads of it the amount and the fee that it was made with, each tag
\* once; the method as often as the text has it.
LEMMA CleanAsks ==
  ASSUME NEW text, Clean(text), NEW amount, NEW fee, Chargeable(amount, fee)
  PROVE  Asks(text, amount, fee, ParseTLV[Convert(text, amount, fee)])
<1>0. PICK es : es = ParseTLV[Convert(text, amount, fee)]
  OBVIOUS
<1>1. text \in Text /\ Complete(ParseTLV[text]) /\ Converts(text, amount, fee, es)
  BY <1>0, CleanText, CleanConverts, Zenon
<1>2. Fitting(amount, fee) /\ amount \in Nat /\ fee.value \in Nat
  BY DEF Chargeable, Fitting
<1>3. HasTag(es, 1)
  <2>1. Complete(es)
    BY <1>1, ConvertComplete
  <2>2. 1 \in Required
    BY DEF Required
  <2> QED BY <2>1, <2>2 DEF Complete
<1>4. Shows(es, amount, fee)
  BY <1>1, <1>2, <1>3, ConvertShows
<1>5. Len(<<>>) <= 1 /\ \A e : Len(<<e>>) <= 1
  OBVIOUS
<1>6. \A n, value : Len(One(n, value)) <= 1
  BY <1>5, Zenon DEF One
<1>7. Len(Only(es, Tag(54))) <= 1
  BY <1>1, <1>6, Zenon DEF Converts
<1>8. Len(Only(es, Tag(55))) <= 1
  <2>1. Tip(fee) = <<>> \/ Tip(fee) = One(55, Padded(2)) \/ Tip(fee) = One(55, Padded(3))
    BY DEF Tip
  <2>2. Only(es, Tag(55)) = Tip(fee)
    BY <1>1, Zenon DEF Converts
  <2> QED BY <1>5, <1>6, <2>1, <2>2, Zenon
<1>9. Len(Only(es, Tag(56))) <= 1
  BY <1>1, <1>5, <1>6, Zenon DEF Converts, TipFixed
<1>10. Len(Only(es, Tag(57))) <= 1
  BY <1>1, <1>5, <1>6, Zenon DEF Converts, TipPercentage
<1>11. Len(Only(es, Tag(63))) <= 1
  BY <1>1, <1>5, Zenon DEF Converts
<1>12. \A n \in {54, 55, 56, 57, 63} : Len(Only(es, Tag(n))) <= 1
  BY <1>7, <1>8, <1>9, <1>10, <1>11
<1>13. Len(Only(es, Tag(1))) = Len(Only(ParseTLV[text], Tag(1)))
  BY <1>1, TagOneStays, AsMany
<1>14. Asks(text, amount, fee, es)
  BY <1>4, <1>12, <1>13, Zenon DEF Asks
<1> QED
  BY <1>0, <1>14, Zenon

\* The bytes that Validate has looked at are such a text, whatever white space
\* was around them.
LEMMA TrimmedClean ==
  ASSUME NEW text \in Text, Valid(text)
  PROVE  Clean(TrimSpace(text))
<1>1. SelectInSeq(text, LAMBDA b : b \notin Space) # 0 /\ Checks(TrimSpace(text))
  BY ValidChecks, Zenon
<1>2. PICK s \in Text : s = TrimSpace(text)
  BY <1>1, TrimType
<1>3. Len(s) > 0 /\ s[1] \notin Space /\ s[Len(s)] \notin Space
  BY <1>1, <1>2, TrimEnds
<1>4. TrimSpace(s) = s /\ SelectInSeq(s, LAMBDA b : b \notin Space) # 0
  BY <1>3, TrimSame
<1>5. Checks(s)
  BY <1>1, <1>2, Zenon
<1>6. Valid(s)
  BY <1>4, <1>5, ValidChecks, Zenon
<1>7. ~Panics[s]
  BY <1>5, Zenon DEF Checks
<1> QED
  BY <1>2, <1>4, <1>6, <1>7, Zenon DEF Clean

(* Validate, Convert: what Validate has looked at of any text that it      *)
(* accepts, which is the text without the white space around it, Convert   *)
(* makes into a text that Validate accepts again, whatever amount and fee: *)
(* with the checksum of its new bytes, every tag that a text must have,    *)
(* and nothing in it that the reader cannot get through.  Create gives     *)
(* Convert the text as it is stored: see PaymentsAskTheirAmount.           *)
THEOREM ConvertValid ==
  ASSUME NEW text \in Text, Valid(text), NEW amount, NEW fee, Chargeable(amount, fee)
  PROVE  Valid(Convert(TrimSpace(text), amount, fee))
  BY TrimmedClean, CleanConverts, Zenon

(* Convert, Parse: of a text converted so, Parse reads the amount and the  *)
(* fee that it was made with and no other, each tag once; the method as    *)
(* often as the text has it.                                               *)
THEOREM ConvertAsks ==
  ASSUME NEW text \in Text, Valid(text), NEW amount, NEW fee, Chargeable(amount, fee)
  PROVE  Asks(TrimSpace(text), amount, fee, ParseTLV[Convert(TrimSpace(text), amount, fee)])
  BY TrimmedClean, CleanAsks, Zenon

-----------------------------------------------------------------------------
(* The checksum: polynomials over GF(2)                                    *)

Polynomial == SUBSET Nat

LEMMA SumIs ==
  ASSUME NEW p \in Polynomial, NEW q \in Polynomial
  PROVE  /\ SymDiff(p, q) \in Polynomial
         /\ \A i \in Nat : i \in SymDiff(p, q) <=> ~(i \in p <=> i \in q)
  BY DEF SymDiff, Polynomial

LEMMA SamePolynomial ==
  ASSUME NEW p \in Polynomial, NEW q \in Polynomial, \A i \in Nat : i \in p <=> i \in q
  PROVE  p = q
  BY DEF Polynomial

LEMMA SumAssociative ==
  ASSUME NEW p \in Polynomial, NEW q \in Polynomial, NEW r \in Polynomial
  PROVE  SymDiff(SymDiff(p, q), r) = SymDiff(p, SymDiff(q, r))
  BY Zenon DEF SymDiff

LEMMA SumCommutes ==
  ASSUME NEW p, NEW q
  PROVE  SymDiff(p, q) = SymDiff(q, p)
  BY Zenon DEF SymDiff

LEMMA ShiftedIs ==
  ASSUME NEW p \in Polynomial, NEW d \in Nat
  PROVE  /\ Shifted(p, d) \in Polynomial
         /\ \A i \in Nat : i \in Shifted(p, d) <=> i - d \in p
  BY DEF Shifted, Polynomial

LEMMA ShiftedTwice ==
  ASSUME NEW p \in Polynomial, NEW c \in Nat, NEW d \in Nat
  PROVE  Shifted(Shifted(p, c), d) = Shifted(p, c + d)
<1>1. Shifted(p, c) \in Polynomial /\ c + d \in Nat
  BY ShiftedIs
<1>2. Shifted(Shifted(p, c), d) \in Polynomial /\ Shifted(p, c + d) \in Polynomial
  BY <1>1, ShiftedIs
<1>3. ASSUME NEW i \in Nat PROVE i \in Shifted(Shifted(p, c), d) <=> i \in Shifted(p, c + d)
  <2>1. i \in Shifted(Shifted(p, c), d) <=> i - d \in Shifted(p, c)
    BY <1>1, ShiftedIs
  <2>2. i \in Shifted(p, c + d) <=> i - (c + d) \in p
    BY <1>1, ShiftedIs
  <2>3. CASE i - d \in Nat
    <3>1. i - d \in Shifted(p, c) <=> (i - d) - c \in p
      BY <2>3, ShiftedIs
    <3>2. (i - d) - c = i - (c + d)
      OBVIOUS
    <3> QED BY <2>1, <2>2, <3>1, <3>2
  <2>4. CASE i - d \notin Nat
    <3>1. i - (c + d) \notin Nat
      BY <2>4
    <3> QED BY <1>1, <2>1, <2>2, <2>4, <3>1 DEF Polynomial
  <2> QED BY <2>3, <2>4
<1> QED
  BY <1>2, <1>3, SamePolynomial

LEMMA ShiftedSum ==
  ASSUME NEW p \in Polynomial, NEW q \in Polynomial, NEW d \in Nat
  PROVE  Shifted(SymDiff(p, q), d) = SymDiff(Shifted(p, d), Shifted(q, d))
<1>1. SymDiff(p, q) \in Polynomial /\ Shifted(p, d) \in Polynomial /\ Shifted(q, d) \in Polynomial
  BY ShiftedIs, SumIs
<1>2. /\ Shifted(SymDiff(p, q), d) \in Polynomial
      /\ SymDiff(Shifted(p, d), Shifted(q, d)) \in Polynomial
  BY <1>1, ShiftedIs, SumIs
<1>3. ASSUME NEW i \in Nat
      PROVE  i \in Shifted(SymDiff(p, q), d) <=> i \in SymDiff(Shifted(p, d), Shifted(q, d))
  <2>1. i \in Shifted(SymDiff(p, q), d) <=> i - d \in SymDiff(p, q)
    BY <1>1, ShiftedIs
  <2>2. i \in SymDiff(Shifted(p, d), Shifted(q, d)) <=> ~(i - d \in p <=> i - d \in q)
    BY <1>1, ShiftedIs, SumIs
  <2>3. i - d \in SymDiff(p, q) <=> ~(i - d \in p <=> i - d \in q)
    BY Zenon DEF SymDiff
  <2> QED BY <2>1, <2>2, <2>3
<1> QED
  BY <1>2, <1>3, SamePolynomial

-----------------------------------------------------------------------------
(* Long division                                                           *)

LEMMA SubtractType ==
  ASSUME NEW p \in Polynomial, NEW d \in Nat
  PROVE  Subtract(p, d) \in Polynomial
<1>1. Generator \in Polynomial
  BY DEF Generator, Polynomial
<1> QED
  BY <1>1, ShiftedIs, SumIs DEF Subtract

LEMMA DividedExists ==
  \E f : f = [w \in Nat \X Nat \X SUBSET Nat |->
    IF w[1] = 0 THEN w[3]
    ELSE IF w[1] = 1 THEN Subtract(w[3], w[2])
    ELSE f[<<w[1] \div 2, w[2], f[<<w[1] - w[1] \div 2, w[2] + w[1] \div 2, w[3]>>]>>]]
<1> DEFINE D == Nat \X Nat \X SUBSET Nat
           V == SUBSET Nat
           High(w) == <<w[1] - w[1] \div 2, w[2] + w[1] \div 2, w[3]>>
           Low(w, p) == <<w[1] \div 2, w[2], p>>
           Body(g) ==
             [w \in D |-> IF w[1] = 0 THEN w[3]
                          ELSE IF w[1] = 1 THEN Subtract(w[3], w[2])
                          ELSE g[Low(w, g[High(w)])]]
           Phi == [g \in [D -> V] |-> Body(g)]
           m == [w \in D |-> w[1]]
<1>1. ASSUME NEW w \in D
      PROVE  w[1] \in Nat /\ w[3] \in V /\ Subtract(w[3], w[2]) \in V
  BY SubtractType DEF Polynomial
<1>2. ASSUME NEW w \in D, w[1] # 0, w[1] # 1, NEW p \in V
      PROVE  /\ High(w) \in D /\ m[High(w)] < m[w]
             /\ Low(w, p) \in D /\ m[Low(w, p)] < m[w]
  <2>1. w[1] \div 2 \in Nat /\ w[1] \div 2 < w[1] /\ 0 < w[1] \div 2
    BY <1>1, <1>2
  <2>2. w[2] \in Nat /\ w[3] \in SUBSET Nat /\ w[1] \in Nat
    OBVIOUS
  <2>3. w[1] - w[1] \div 2 \in Nat /\ w[1] - w[1] \div 2 < w[1] /\ w[2] + w[1] \div 2 \in Nat
    BY <2>1, <2>2
  <2> QED BY <2>1, <2>2, <2>3
<1> HIDE DEF High, Low, m
<1>3. ASSUME NEW g \in [D -> V] PROVE Body(g) \in [D -> V]
  <2>1. \A w \in D : w[1] # 0 /\ w[1] # 1 => g[High(w)] \in V
    <3> HIDE DEF D, V
    <3> QED BY <1>1, <1>2
  <2>2. \A w \in D : w[1] # 0 /\ w[1] # 1 => g[Low(w, g[High(w)])] \in V
    <3> HIDE DEF D, V
    <3> QED BY <1>2, <2>1
  <2> HIDE DEF D, V
  <2> QED BY <1>1, <2>2
<1>4. \A g \in [D -> V] : Phi[g] = Body(g)
  OBVIOUS
<1>5. Descends(D, V, m, Phi)
  <2>1. V # {}
    OBVIOUS
  <2>2. m \in [D -> Nat]
    BY <1>1 DEF m
  <2>3. Phi \in [[D -> V] -> [D -> V]]
    BY <1>3
  <2>4. ASSUME NEW g \in [D -> V], NEW h \in [D -> V], NEW w \in D,
               \A e \in D : m[e] < m[w] => g[e] = h[e]
        PROVE  Phi[g][w] = Phi[h][w]
    <3>1. CASE w[1] # 0 /\ w[1] # 1
      <4>1. High(w) \in D /\ m[High(w)] < m[w]
        BY <1>1, <1>2, <3>1
      <4>2. g[High(w)] = h[High(w)]
        BY <2>4, <4>1
      <4>3. g[High(w)] \in V
        <5> HIDE DEF D, V
        <5> QED BY <4>1
      <4>4. Low(w, g[High(w)]) \in D /\ m[Low(w, g[High(w)])] < m[w]
        BY <1>2, <3>1, <4>3
      <4>5. g[Low(w, g[High(w)])] = h[Low(w, g[High(w)])]
        BY <2>4, <4>4
      <4> HIDE DEF D, V
      <4> QED BY <1>4, <3>1, <4>2, <4>5
    <3>2. CASE w[1] = 0 \/ w[1] = 1
      <4> HIDE DEF D, V
      <4> QED BY <1>4, <3>2
    <3> QED BY <3>1, <3>2
  <2> HIDE DEF Phi, D, V
  <2> QED BY <2>1, <2>2, <2>3, <2>4 DEF Descends
<1> HIDE DEF Phi, D, V, Body
<1>6. PICK f \in [D -> V] : f = Phi[f]
  BY <1>5, RecursionExists
<1>7. f = Body(f)
  BY <1>4, <1>6
<1> QED
  BY <1>7 DEF D, Body, High, Low

\* The n steps of the division that end with the quotient's x^low.
Steps(n, low, p) == Divided[<<n, low, p>>]

LEMMA StepsDef ==
  ASSUME NEW n \in Nat, NEW low \in Nat, NEW p \in Polynomial
  PROVE  Steps(n, low, p) =
           IF n = 0 THEN p
           ELSE IF n = 1 THEN Subtract(p, low)
           ELSE Steps(n \div 2, low, Steps(n - n \div 2, low + n \div 2, p))
<1>1. Divided = [w \in Nat \X Nat \X SUBSET Nat |->
        IF w[1] = 0 THEN w[3]
        ELSE IF w[1] = 1 THEN Subtract(w[3], w[2])
        ELSE Divided[<<w[1] \div 2, w[2], Divided[<<w[1] - w[1] \div 2, w[2] + w[1] \div 2, w[3]>>]>>]]
  BY DividedExists DEF Divided
<1>2. PICK w \in Nat \X Nat \X SUBSET Nat : w = <<n, low, p>>
  BY DEF Polynomial
<1>3. w[1] = n /\ w[2] = low /\ w[3] = p
  BY <1>2
<1>4. Divided[w] =
        IF w[1] = 0 THEN w[3]
        ELSE IF w[1] = 1 THEN Subtract(w[3], w[2])
        ELSE Divided[<<w[1] \div 2, w[2], Divided[<<w[1] - w[1] \div 2, w[2] + w[1] \div 2, w[3]>>]>>]
  BY <1>1, Zenon
<1> QED
  BY <1>2, <1>3, <1>4, ZenonT(60) DEF Steps

LEMMA StepsZero ==
  ASSUME NEW low \in Nat, NEW p \in Polynomial
  PROVE  Steps(0, low, p) = p
  BY StepsDef

LEMMA StepsOne ==
  ASSUME NEW low \in Nat, NEW p \in Polynomial
  PROVE  Steps(1, low, p) = Subtract(p, low)
  BY StepsDef

LEMMA StepsMany ==
  ASSUME NEW n \in Nat, n > 1, NEW low \in Nat, NEW p \in Polynomial
  PROVE  Steps(n, low, p) = Steps(n \div 2, low, Steps(n - n \div 2, low + n \div 2, p))
<1>1. n # 0 /\ n # 1
  OBVIOUS
<1> QED
  BY <1>1, StepsDef, Zenon

LEMMA StepsType ==
  \A n, low \in Nat, p \in Polynomial : Steps(n, low, p) \in Polynomial
<1> DEFINE D == Nat
           G == {n \in D : \A low \in Nat, p \in Polynomial : Steps(n, low, p) \in Polynomial}
           m == [n \in D |-> n]
<1>1. ASSUME NEW n \in D, \A e \in D : m[e] < m[n] => e \in G PROVE n \in G
  <2> SUFFICES ASSUME NEW low \in Nat, NEW p \in Polynomial PROVE Steps(n, low, p) \in Polynomial
    OBVIOUS
  <2>1. CASE n = 0
    BY <2>1, StepsZero
  <2>2. CASE n = 1
    BY <2>2, StepsOne, SubtractType
  <2>3. CASE n > 1
    <3>1. /\ n \div 2 \in Nat /\ n - n \div 2 \in Nat /\ low + n \div 2 \in Nat
          /\ n \div 2 < n /\ n - n \div 2 < n
      BY <2>3
    <3>2. Steps(n - n \div 2, low + n \div 2, p) \in Polynomial
      BY <1>1, <3>1
    <3>3. Steps(n \div 2, low, Steps(n - n \div 2, low + n \div 2, p)) \in Polynomial
      BY <1>1, <3>1, <3>2
    <3> QED BY <2>3, <3>3, StepsMany
  <2> QED BY <2>1, <2>2, <2>3
<1>2. m \in [D -> Nat] /\ G \in SUBSET D
  OBVIOUS
<1>3. \A n \in D : (\A e \in D : m[e] < m[n] => e \in G) => n \in G
  BY <1>1
<1>4. G = D
  <2> HIDE DEF G, m, D
  <2> QED BY <1>2, <1>3, MeasureInduction
<1> QED
  BY <1>4

\* A division can be cut in two anywhere, not only in its middle.
LEMMA StepsSplit ==
  \A m, k, low \in Nat, p \in Polynomial : Steps(m + k, low, p) = Steps(k, low, Steps(m, low + k, p))
<1> DEFINE D == Nat
           Splits(n) ==
             \A m, k, low \in Nat, p \in Polynomial :
               m + k = n => Steps(n, low, p) = Steps(k, low, Steps(m, low + k, p))
           G == {n \in D : Splits(n)}
           measure == [n \in D |-> n]
<1>1. ASSUME NEW n \in Nat, \A e \in Nat : e < n => Splits(e) PROVE Splits(n)
  <2> SUFFICES ASSUME NEW m \in Nat, NEW k \in Nat, NEW low \in Nat, NEW p \in Polynomial, m + k = n
      PROVE  Steps(n, low, p) = Steps(k, low, Steps(m, low + k, p))
    OBVIOUS
  <2>0. low + k \in Nat /\ Steps(m, low + k, p) \in Polynomial
    BY StepsType
  <2>1. CASE m = 0
    <3>1. Steps(m, low + k, p) = p
      BY <2>0, <2>1, StepsZero
    <3> QED BY <2>1, <3>1
  <2>2. CASE k = 0
    <3>1. Steps(k, low, Steps(m, low + k, p)) = Steps(m, low + k, p)
      BY <2>0, <2>2, StepsZero
    <3> QED BY <2>2, <3>1
  <2>3. CASE m # 0 /\ k # 0
    <3>1. PICK h \in Nat : h = n \div 2 /\ h < n /\ h # 0 /\ n - h \in Nat /\ n - h < n /\ n > 1
      <4>1. n > 1
        BY <2>3
      <4> QED BY <4>1
    <3>2. PICK q \in Polynomial : q = Steps(n - h, low + h, p)
      BY <3>1, StepsType
    <3>3. Steps(n, low, p) = Steps(h, low, q)
      <4>1. Steps(n, low, p) = Steps(n \div 2, low, Steps(n - n \div 2, low + n \div 2, p))
        <5>1. n > 1
          BY <3>1
        <5> QED BY <5>1, StepsMany, Zenon
      <4> QED BY <3>1, <3>2, <4>1
    <3>4. CASE k = h
      BY <3>2, <3>3, <3>4
    <3>5. CASE k < h
      <4>1. h - k \in Nat /\ (h - k) + k = h /\ m < n
        BY <2>3, <3>1, <3>5
      <4>2. Steps(h, low, q) = Steps(k, low, Steps(h - k, low + k, q))
        BY <1>1, <3>1, <4>1
      <4>3. /\ (n - h) + (h - k) = m /\ (low + k) + (h - k) = low + h
            /\ low + k \in Nat
        BY <3>1, <4>1
      <4>4. Steps(m, low + k, p) = Steps(h - k, low + k, Steps(n - h, (low + k) + (h - k), p))
        BY <1>1, <3>1, <4>1, <4>3
      <4> QED BY <3>2, <3>3, <4>2, <4>3, <4>4
    <3>6. CASE k > h
      <4>1. k - h \in Nat /\ m + (k - h) = n - h /\ low + h \in Nat /\ k < n
        BY <2>3, <3>1, <3>6
      <4>2. Steps(n - h, low + h, p) = Steps(k - h, low + h, Steps(m, (low + h) + (k - h), p))
        BY <1>1, <3>1, <4>1
      <4>3. (low + h) + (k - h) = low + k /\ (k - h) + h = k
        BY <3>1, <4>1
      <4>4. Steps(k, low, Steps(m, low + k, p)) = Steps(h, low, Steps(k - h, low + h, Steps(m, low + k, p)))
        BY <1>1, <2>0, <3>1, <4>1, <4>3
      <4> QED BY <3>2, <3>3, <4>2, <4>3, <4>4
    <3> QED BY <3>1, <3>4, <3>5, <3>6
  <2> QED BY <2>1, <2>2, <2>3
<1>2. \A n \in D : (\A e \in D : measure[e] < measure[n] => e \in G) => n \in G
  <2> HIDE DEF Splits
  <2> QED BY <1>1
<1>3. measure \in [D -> Nat] /\ G \in SUBSET D
  OBVIOUS
<1>4. G = D
  <2> HIDE DEF G, measure, D
  <2> QED BY <1>2, <1>3, MeasureInduction
<1>5. \A n \in Nat : Splits(n)
  BY <1>4
<1> SUFFICES ASSUME NEW m \in Nat, NEW k \in Nat, NEW low \in Nat, NEW p \in Polynomial
    PROVE  Steps(m + k, low, p) = Steps(k, low, Steps(m, low + k, p))
  OBVIOUS
<1> HIDE DEF G
<1>6. PICK n \in Nat : m + k = n
  OBVIOUS
<1>7. Splits(n)
  BY <1>5
<1> QED
  BY <1>6, <1>7, SMTT(30)

-----------------------------------------------------------------------------
(* The register                                                            *)

LEMMA CrcBitType == \A c \in Word : CrcBit(c) \in Word
  BY DEF Word, CrcBit, ShiftLeft, Poly, SymDiff

LEMMA WordPolynomial == \A c \in Word : c \in Polynomial
  BY DEF Word, Polynomial

LEMMA GeneratorType == Generator \in Polynomial
  BY DEF Generator, Polynomial

LEMMA CrcBitIs ==
  ASSUME NEW c \in Word, NEW x \in Int
  PROVE  x \in CrcBit(c) <=> IF 15 \in c THEN ~(x - 1 \in c <=> x \in Generator) ELSE x - 1 \in c
<1>1. x \in ShiftLeft(c) <=> x - 1 \in c /\ x # 16
  BY DEF ShiftLeft, Word
<1> QED
  BY <1>1 DEF CrcBit, Poly, Generator, SymDiff

\* One step of the register subtracts the generator when x^16 would appear.
LEMMA CrcBitShifted ==
  ASSUME NEW c \in Word, NEW e \in Nat
  PROVE  Shifted(CrcBit(c), e) =
           IF 15 \in c THEN SymDiff(Shifted(c, e + 1), Shifted(Generator, e)) ELSE Shifted(c, e + 1)
<1> DEFINE r == IF 15 \in c THEN SymDiff(Shifted(c, e + 1), Shifted(Generator, e)) ELSE Shifted(c, e + 1)
<1>1. /\ CrcBit(c) \in Polynomial /\ c \in Polynomial /\ Generator \in Polynomial /\ e + 1 \in Nat
  BY CrcBitType, WordPolynomial, GeneratorType
<1>2. Shifted(CrcBit(c), e) \in Polynomial /\ Shifted(c, e + 1) \in Polynomial /\ Shifted(Generator, e) \in Polynomial
  BY <1>1, ShiftedIs
<1>3. r \in Polynomial
  BY <1>2, SumIs
<1>4. ASSUME NEW i \in Nat PROVE i \in Shifted(CrcBit(c), e) <=> i \in r
  <2>1. i \in Shifted(CrcBit(c), e) <=> i - e \in CrcBit(c)
    BY <1>1, ShiftedIs
  <2>2. i \in Shifted(c, e + 1) <=> i - (e + 1) \in c
    BY <1>1, ShiftedIs
  <2>3. i \in Shifted(Generator, e) <=> i - e \in Generator
    BY <1>1, ShiftedIs
  <2>4. i - (e + 1) = (i - e) - 1
    OBVIOUS
  <2>5. i \in r <=> IF 15 \in c THEN ~(i - (e + 1) \in c <=> i - e \in Generator) ELSE i - (e + 1) \in c
    BY <1>2, <2>2, <2>3, SumIs
  <2>6. i - e \in Int
    OBVIOUS
  <2> QED BY <2>1, <2>4, <2>5, <2>6, CrcBitIs
<1> HIDE DEF r
<1>5. Shifted(CrcBit(c), e) = r
  BY <1>2, <1>3, <1>4, SamePolynomial
<1> QED
  BY <1>5 DEF r

\* Below x^(e + 16), where the register does not reach.
Below(e) == SUBSET (0 .. e + 15)

LEMMA BelowType == \A e \in Nat : \A r \in Below(e) : r \in Polynomial /\ e + 16 \notin r
  BY DEF Below, Polynomial

\* A step of the division does to the part of the polynomial that the register
\* holds what a step of the register does, and nothing to the part below.
LEMMA BitStep ==
  ASSUME NEW c \in Word, NEW e \in Nat, NEW r \in Below(e)
  PROVE  Steps(1, e, SymDiff(Shifted(c, e + 1), r)) = SymDiff(Shifted(CrcBit(c), e), r)
<1>1. c \in Polynomial /\ e + 1 \in Nat /\ r \in Polynomial /\ e + 16 \notin r /\ e + 16 \in Nat
  BY WordPolynomial, BelowType
<1>2. PICK s \in Polynomial : s = Shifted(c, e + 1)
  BY <1>1, ShiftedIs
<1>3. PICK g \in Polynomial : g = Shifted(Generator, e)
  BY GeneratorType, ShiftedIs
<1>4. e + 16 \in s <=> 15 \in c
  <2>1. e + 16 \in s <=> (e + 16) - (e + 1) \in c
    BY <1>1, <1>2, ShiftedIs
  <2> QED BY <2>1
<1>5. SymDiff(s, r) \in Polynomial /\ (e + 16 \in SymDiff(s, r) <=> 15 \in c)
  BY <1>1, <1>4, SumIs
<1>6. Steps(1, e, SymDiff(s, r)) = IF 15 \in c THEN SymDiff(SymDiff(s, r), g) ELSE SymDiff(s, r)
  BY <1>3, <1>5, StepsOne DEF Subtract
<1>7. SymDiff(SymDiff(s, r), g) = SymDiff(SymDiff(s, g), r)
  BY Zenon DEF SymDiff
<1>8. Shifted(CrcBit(c), e) = IF 15 \in c THEN SymDiff(s, g) ELSE s
  BY <1>2, <1>3, CrcBitShifted
<1> QED
  BY <1>2, <1>6, <1>7, <1>8

\* The register after the first j bits of a byte.
AfterBits(start) ==
  CHOOSE after : after = [j \in 0 .. 8 |-> IF j = 0 THEN start ELSE CrcBit(after[j - 1])]

Start(crc, b) == SymDiff(crc, Shifted(Bits(b), 8))

LEMMA AfterExists ==
  ASSUME NEW start \in Word
  PROVE  \E after : after = [j \in 0 .. 8 |-> IF j = 0 THEN start ELSE CrcBit(after[j - 1])]
<1> DEFINE D == 0 .. 8
           V == Word
           Body(g) == [j \in D |-> IF j = 0 THEN start ELSE CrcBit(g[j - 1])]
           Phi == [g \in [D -> V] |-> Body(g)]
           m == [j \in D |-> j]
<1>1. ASSUME NEW g \in [D -> V] PROVE Body(g) \in [D -> V]
  <2>1. \A j \in D : j # 0 => j - 1 \in D
    OBVIOUS
  <2> HIDE DEF D, V
  <2> QED BY <2>1, CrcBitType DEF V
<1>2. \A g \in [D -> V] : Phi[g] = Body(g)
  OBVIOUS
<1>3. Descends(D, V, m, Phi)
  <2>1. V # {}
    BY DEF Word
  <2>2. m \in [D -> Nat]
    OBVIOUS
  <2>3. Phi \in [[D -> V] -> [D -> V]]
    BY <1>1
  <2>4. ASSUME NEW g \in [D -> V], NEW h \in [D -> V], NEW j \in D,
               \A e \in D : m[e] < m[j] => g[e] = h[e]
        PROVE  Phi[g][j] = Phi[h][j]
    <3>1. j # 0 => g[j - 1] = h[j - 1]
      BY <2>4
    <3> HIDE DEF D, V, m
    <3> QED BY <1>2, <3>1
  <2> HIDE DEF Phi, m, D, V
  <2> QED BY <2>1, <2>2, <2>3, <2>4 DEF Descends
<1> HIDE DEF Phi, m, D, V, Body
<1>4. PICK f \in [D -> V] : f = Phi[f]
  BY <1>3, RecursionExists
<1>5. f = Body(f)
  BY <1>2, <1>4
<1> QED
  BY <1>5 DEF D, Body

LEMMA AfterDef ==
  ASSUME NEW start \in Word
  PROVE  /\ AfterBits(start)[0] = start
         /\ \A j \in 0 .. 7 : AfterBits(start)[j + 1] = CrcBit(AfterBits(start)[j])
<1> DEFINE Follows(f) == f = [j \in 0 .. 8 |-> IF j = 0 THEN start ELSE CrcBit(f[j - 1])]
<1>1. PICK after : after = AfterBits(start) /\ Follows(after)
  <2>1. \E f : Follows(f)
    BY AfterExists
  <2>2. Follows(CHOOSE f : Follows(f))
    <3> HIDE DEF Follows
    <3> QED BY <2>1
  <2> QED BY <2>2 DEF AfterBits
<1>2. \A j \in 0 .. 8 : after[j] = IF j = 0 THEN start ELSE CrcBit(after[j - 1])
  BY <1>1, Zenon
<1>3. after[0] = start
  BY <1>2
<1>4. ASSUME NEW j \in 0 .. 7 PROVE after[j + 1] = CrcBit(after[j])
  <2>1. j + 1 \in 0 .. 8 /\ j + 1 # 0 /\ (j + 1) - 1 = j
    OBVIOUS
  <2> HIDE DEF Follows
  <2> QED BY <1>2, <2>1
<1> QED
  BY <1>1, <1>3, <1>4

LEMMA ByteIs == \A crc, b : CrcByte(crc, b) = AfterBits(Start(crc, b))[8]
  BY DEF CrcByte, AfterBits, Start, Shifted

LEMMA BitsType == \A b : Bits(b) \in SUBSET (0 .. 7)
  BY Zenon DEF Bits

LEMMA StartType ==
  ASSUME NEW crc \in Word, NEW b
  PROVE  Start(crc, b) \in Word
<1>1. PICK bits \in SUBSET (0 .. 7) : bits = Bits(b)
  BY BitsType
<1>2. PICK high : high = Shifted(bits, 8)
  OBVIOUS
<1>3. high \in SUBSET (0 .. 15)
  BY <1>2 DEF Shifted
<1>4. SymDiff(crc, high) \in SUBSET (0 .. 15)
  BY <1>3 DEF SymDiff, Word
<1> QED
  BY <1>1, <1>2, <1>4 DEF Start, Word

\* The steps of the division by a byte are those of the register.
LEMMA BitsSteps ==
  ASSUME NEW start \in Word, NEW e \in Nat, NEW r \in Below(e)
  PROVE  \A j \in 0 .. 8 :
           /\ AfterBits(start)[j] \in Word
           /\ Steps(j, e + 8 - j, SymDiff(Shifted(start, e + 8), r))
                = SymDiff(Shifted(AfterBits(start)[j], e + 8 - j), r)
<1> DEFINE p == SymDiff(Shifted(start, e + 8), r)
           Holds(j) ==
             /\ AfterBits(start)[j] \in Word
             /\ Steps(j, e + 8 - j, p) = SymDiff(Shifted(AfterBits(start)[j], e + 8 - j), r)
           S == {n \in Nat : n <= 8 => Holds(n)}
<1>0. p \in Polynomial
  BY WordPolynomial, BelowType, ShiftedIs, SumIs
<1>1. 0 \in S
  <2>1. AfterBits(start)[0] = start /\ e + 8 - 0 = e + 8 /\ e + 8 \in Nat
    BY AfterDef
  <2> HIDE DEF p
  <2>2. Steps(0, e + 8, p) = p
    BY <1>0, <2>1, StepsZero
  <2> QED BY <2>1, <2>2 DEF p
<1>2. ASSUME NEW n \in S PROVE n + 1 \in S
  <2> SUFFICES ASSUME n + 1 <= 8 PROVE Holds(n + 1)
    OBVIOUS
  <2>1. n \in 0 .. 7 /\ Holds(n)
    OBVIOUS
  <2>2. PICK c \in Word : c = AfterBits(start)[n] /\ AfterBits(start)[n + 1] = CrcBit(c)
    BY <2>1, AfterDef
  <2>3. PICK low \in Nat : low = e + 8 - (n + 1) /\ low + 1 = e + 8 - n
    BY <2>1
  <2>4. r \in Below(low)
    BY <2>1, <2>3 DEF Below
  <2>5. Steps(n + 1, low, p) = Steps(1, low, Steps(n, low + 1, p))
    <3> HIDE DEF p
    <3> QED BY <1>0, <2>1, StepsSplit
  <2>6. Steps(n, low + 1, p) = SymDiff(Shifted(c, low + 1), r)
    BY <2>1, <2>2, <2>3
  <2>7. Steps(1, low, SymDiff(Shifted(c, low + 1), r)) = SymDiff(Shifted(CrcBit(c), low), r)
    BY <2>4, BitStep
  <2>8. CrcBit(c) \in Word
    BY CrcBitType
  <2> HIDE DEF p
  <2> QED BY <2>2, <2>3, <2>5, <2>6, <2>7, <2>8
<1>3. S = Nat
  <2> HIDE DEF S
  <2>1. S \in SUBSET Nat
    BY DEF S
  <2> QED BY <1>1, <1>2, <2>1, NatSetInduction
<1>4. \A j \in 0 .. 8 : Holds(j)
  BY <1>3
<1> QED
  BY <1>4

LEMMA CrcByteType ==
  ASSUME NEW crc \in Word, NEW b
  PROVE  CrcByte(crc, b) \in Word
<1>1. PICK start \in Word : start = Start(crc, b)
  BY StartType
<1>2. {} \in Below(0) /\ 8 \in 0 .. 8 /\ 0 \in Nat
  BY DEF Below
<1>3. AfterBits(start)[8] \in Word
  BY <1>2, BitsSteps
<1> QED
  BY <1>1, <1>3, ByteIs

FirstHalf(s) == SubSeq(s, 1, Len(s) \div 2)
SecondHalf(s) == SubSeq(s, Len(s) \div 2 + 1, Len(s))

LEMMA Halves ==
  ASSUME NEW s \in Text, Len(s) \div 2 # 0
  PROVE  /\ FirstHalf(s) \in Text /\ Len(FirstHalf(s)) < Len(s)
         /\ SecondHalf(s) \in Text /\ Len(SecondHalf(s)) < Len(s)
         /\ s = FirstHalf(s) \o SecondHalf(s)
<1> DEFINE B == 0 .. 255
<1>1. PICK h \in Nat : h = Len(s) \div 2 /\ h # 0 /\ h < Len(s) /\ Len(s) \in Nat
  BY TextByte
<1>2. PICK k \in 1 .. Len(s) : k = h + 1 /\ k - 1 = h
  BY <1>1
<1>3. SubSeq(s, 1, h) \in Text /\ Len(SubSeq(s, 1, h)) < Len(s)
  <2>1. 1 \in Nat \ {0} /\ h \in Int /\ h <= Len(s)
    BY <1>1
  <2>2. SubSeq(s, 1, h) \in Text /\ Len(SubSeq(s, 1, h)) = IF 1 <= h THEN h - 1 + 1 ELSE 0
    BY <2>1, TextSub
  <2> QED BY <1>1, <2>2
<1>4. SubSeq(s, k, Len(s)) \in Text /\ Len(SubSeq(s, k, Len(s))) < Len(s)
  <2>1. PICK n \in Nat : n = Len(s) /\ k \in Nat \ {0} /\ n \in Int /\ n <= Len(s)
    BY <1>1, <1>2
  <2>2. SubSeq(s, k, n) \in Text /\ Len(SubSeq(s, k, n)) = IF k <= n THEN n - k + 1 ELSE 0
    BY <2>1, TextSub
  <2>3. k <= n /\ n - k + 1 < n
    BY <1>1, <1>2, <2>1
  <2> QED BY <2>1, <2>2, <2>3
<1>5. s = SubSeq(s, 1, k - 1) \o SubSeq(s, k, Len(s))
  <2>1. s \in Seq(B)
    BY DEF Text
  <2> HIDE DEF B
  <2> QED BY <2>1, CutInTwo
<1> QED
  BY <1>1, <1>2, <1>3, <1>4, <1>5 DEF FirstHalf, SecondHalf

LEMMA CrcTextExists ==
  \E f : f = [w \in Word \X Text |->
    IF w[2] = <<>> THEN w[1]
    ELSE IF Len(w[2]) \div 2 = 0 THEN CrcByte(w[1], w[2][1])
    ELSE f[<<f[<<w[1], FirstHalf(w[2])>>], SecondHalf(w[2])>>]]
<1> DEFINE D == Word \X Text
           V == Word
           Begun(w) == <<w[1], FirstHalf(w[2])>>
           Then(w, crc) == <<crc, SecondHalf(w[2])>>
           Body(g) ==
             [w \in D |-> IF w[2] = <<>> THEN w[1]
                          ELSE IF Len(w[2]) \div 2 = 0 THEN CrcByte(w[1], w[2][1])
                          ELSE g[Then(w, g[Begun(w)])]]
           Phi == [g \in [D -> V] |-> Body(g)]
           m == [w \in D |-> Len(w[2])]
           Many(w) == ~(w[2] = <<>>) /\ ~(Len(w[2]) \div 2 = 0)
<1>1. ASSUME NEW w \in D
      PROVE  w[1] \in V /\ w[2] \in Text /\ CrcByte(w[1], w[2][1]) \in V /\ m[w] \in Nat
  BY CrcByteType, TextByte
<1>2. ASSUME NEW w \in D, Many(w), NEW crc \in V
      PROVE  /\ Begun(w) \in D /\ m[Begun(w)] < m[w]
             /\ Then(w, crc) \in D /\ m[Then(w, crc)] < m[w]
  <2>1. PICK s \in Text : s = w[2]
    BY <1>1
  <2>2. /\ FirstHalf(s) \in Text /\ Len(FirstHalf(s)) < Len(s)
        /\ SecondHalf(s) \in Text /\ Len(SecondHalf(s)) < Len(s)
    BY <1>2, <2>1, Halves
  <2>3. w[1] \in Word
    BY <1>1
  <2> QED BY <2>1, <2>2, <2>3
<1> HIDE DEF Begun, Then, m
<1>3. ASSUME NEW g \in [D -> V] PROVE Body(g) \in [D -> V]
  <2>1. \A w \in D : Many(w) => g[Begun(w)] \in V
    <3> HIDE DEF D, V, Many
    <3> QED BY <1>1, <1>2
  <2>2. \A w \in D : Many(w) => g[Then(w, g[Begun(w)])] \in V
    <3> HIDE DEF D, V, Many
    <3> QED BY <1>2, <2>1
  <2> HIDE DEF D, V
  <2> QED BY <1>1, <2>2
<1>4. \A g \in [D -> V] : Phi[g] = Body(g)
  OBVIOUS
<1>5. Descends(D, V, m, Phi)
  <2>1. V # {}
    BY DEF Word
  <2>2. m \in [D -> Nat]
    BY <1>1 DEF m
  <2>3. Phi \in [[D -> V] -> [D -> V]]
    BY <1>3
  <2>4. ASSUME NEW g \in [D -> V], NEW h \in [D -> V], NEW w \in D,
               \A e \in D : m[e] < m[w] => g[e] = h[e]
        PROVE  Phi[g][w] = Phi[h][w]
    <3>1. CASE Many(w)
      <4>1. Begun(w) \in D /\ m[Begun(w)] < m[w]
        BY <1>1, <1>2, <3>1
      <4>2. g[Begun(w)] = h[Begun(w)]
        BY <2>4, <4>1
      <4>3. g[Begun(w)] \in V
        <5> HIDE DEF D, V
        <5> QED BY <4>1
      <4>4. Then(w, g[Begun(w)]) \in D /\ m[Then(w, g[Begun(w)])] < m[w]
        BY <1>2, <3>1, <4>3
      <4>5. g[Then(w, g[Begun(w)])] = h[Then(w, g[Begun(w)])]
        BY <2>4, <4>4
      <4> HIDE DEF D, V
      <4> QED BY <1>4, <3>1, <4>2, <4>5
    <3>2. CASE ~Many(w)
      <4> HIDE DEF D, V
      <4> QED BY <1>4, <3>2
    <3> QED BY <3>1, <3>2
  <2> HIDE DEF Phi, D, V
  <2> QED BY <2>1, <2>2, <2>3, <2>4 DEF Descends
<1> HIDE DEF Phi, D, V, Body
<1>6. PICK f \in [D -> V] : f = Phi[f]
  BY <1>5, RecursionExists
<1>7. f = Body(f)
  BY <1>4, <1>6
<1> QED
  BY <1>7 DEF D, Body, Begun, Then

\* The register after a text.
After(crc, s) == CrcText[<<crc, s>>]

LEMMA AfterIs ==
  ASSUME NEW crc \in Word, NEW s \in Text
  PROVE  After(crc, s) =
           IF s = <<>> THEN crc
           ELSE IF Len(s) \div 2 = 0 THEN CrcByte(crc, s[1])
           ELSE After(After(crc, FirstHalf(s)), SecondHalf(s))
<1>1. CrcText = [w \in Word \X Text |->
        IF w[2] = <<>> THEN w[1]
        ELSE IF Len(w[2]) \div 2 = 0 THEN CrcByte(w[1], w[2][1])
        ELSE CrcText[<<CrcText[<<w[1], FirstHalf(w[2])>>], SecondHalf(w[2])>>]]
  BY CrcTextExists DEF CrcText, FirstHalf, SecondHalf
<1>2. PICK w \in Word \X Text : w = <<crc, s>>
  OBVIOUS
<1>3. w[1] = crc /\ w[2] = s
  BY <1>2
<1>4. CrcText[w] =
        IF w[2] = <<>> THEN w[1]
        ELSE IF Len(w[2]) \div 2 = 0 THEN CrcByte(w[1], w[2][1])
        ELSE CrcText[<<CrcText[<<w[1], FirstHalf(w[2])>>], SecondHalf(w[2])>>]
  BY <1>1, Zenon
<1> QED
  BY <1>2, <1>3, <1>4, Zenon DEF After

-----------------------------------------------------------------------------
(* The text as a polynomial                                                *)

Bit(i, s) == \E k \in 1 .. Len(s) : i - 8 * (Len(s) - k) - 16 \in Bits(s[k])

LEMMA MessageIs ==
  ASSUME NEW s \in Text
  PROVE  /\ Message(s) \in SUBSET (0 .. 8 * Len(s) + 15)
         /\ \A i \in Nat : i \in Message(s) <=> Bit(i, s)
<1>1. Len(s) \in Nat /\ DOMAIN s = 1 .. Len(s)
  BY TextByte, SMTT(30)
<1>2. PICK n \in Nat : n = Len(s) /\ DOMAIN s = 1 .. n
  BY <1>1
<1>3. \A k \in 1 .. n : Bits(s[k]) \in SUBSET (0 .. 7)
  BY BitsType
<1>4. \A i : i \in Message(s) <=> \E k \in 1 .. n : \E j \in Bits(s[k]) : i = j + (8 * (n - k) + 16)
  <2>1. \A i : i \in Message(s) <=>
          \E k \in DOMAIN s : i \in Shifted(Bits(s[k]), 8 * (Len(s) - k) + 16)
    BY Zenon DEF Message
  <2>3. \A i : i \in Message(s) <=> \E k \in 1 .. n : i \in Shifted(Bits(s[k]), 8 * (n - k) + 16)
    BY <1>2, <2>1
  <2>4. ASSUME NEW i, NEW k
        PROVE  i \in Shifted(Bits(s[k]), 8 * (n - k) + 16) <=> \E j \in Bits(s[k]) : i = j + (8 * (n - k) + 16)
    BY Zenon DEF Shifted
  <2> SUFFICES ASSUME NEW i
      PROVE  i \in Message(s) <=> \E k \in 1 .. n : \E j \in Bits(s[k]) : i = j + (8 * (n - k) + 16)
    OBVIOUS
  <2>5. i \in Message(s) <=> \E k \in 1 .. n : i \in Shifted(Bits(s[k]), 8 * (n - k) + 16)
    BY <2>3, Zenon
  <2> QED BY <2>4, <2>5, Zenon
<1>5. ASSUME NEW i \in Message(s) PROVE i \in 0 .. 8 * n + 15
  <2>1. PICK k \in 1 .. n : \E j \in Bits(s[k]) : i = j + (8 * (n - k) + 16)
    BY <1>4
  <2>2. PICK j \in 0 .. 7 : i = j + (8 * (n - k) + 16)
    BY <1>3, <2>1
  <2> QED BY <2>2
<1>6. ASSUME NEW i \in Nat PROVE i \in Message(s) <=> Bit(i, s)
  <2>1. ASSUME NEW k \in 1 .. n
        PROVE  (\E j \in Bits(s[k]) : i = j + (8 * (n - k) + 16)) <=> i - 8 * (n - k) - 16 \in Bits(s[k])
    <3>1. PICK bits \in SUBSET (0 .. 7) : bits = Bits(s[k])
      BY <1>3
    <3>2. (\E j \in bits : i = j + (8 * (n - k) + 16)) <=> i - 8 * (n - k) - 16 \in bits
      OBVIOUS
    <3> QED BY <3>1, <3>2
  <2>2. i \in Message(s) <=> \E k \in 1 .. n : i - 8 * (n - k) - 16 \in Bits(s[k])
    BY <1>4, <2>1
  <2> QED BY <1>2, <2>2 DEF Bit
<1> QED
  BY <1>2, <1>5, <1>6

LEMMA MessageType ==
  ASSUME NEW s \in Text
  PROVE  Message(s) \in Polynomial
<1>1. PICK n \in Nat : n = Len(s)
  BY TextByte
<1>2. Message(s) \in SUBSET (0 .. 8 * n + 15)
  BY <1>1, MessageIs
<1> QED
  BY <1>2 DEF Polynomial

LEMMA MessageConcat ==
  ASSUME NEW a \in Text, NEW b \in Text
  PROVE  Message(a \o b) = SymDiff(Shifted(Message(a), 8 * Len(b)), Message(b))
<1>1. PICK m \in Nat, n \in Nat : m = Len(a) /\ n = Len(b)
  BY TextByte
<1>2. PICK s \in Text :
        /\ s = a \o b /\ Len(s) = m + n
        /\ \A k \in 1 .. m : s[k] = a[k]
        /\ \A k \in 1 .. n : s[m + k] = b[k]
  <2>1. /\ a \o b \in Text /\ Len(a \o b) = Len(a) + Len(b)
        /\ \A k \in 1 .. Len(a) : (a \o b)[k] = a[k]
        /\ \A k \in 1 .. Len(b) : (a \o b)[Len(a) + k] = b[k]
    BY TextConcat
  <2> HIDE DEF Text
  <2> QED BY <1>1, <2>1
<1>3. PICK p \in Polynomial, q \in Polynomial, r \in Polynomial :
        /\ p = Message(a) /\ q = Message(b) /\ r = Message(s)
        /\ q \in SUBSET (0 .. 8 * n + 15)
  <2>1. Message(b) \in SUBSET (0 .. 8 * n + 15)
    BY <1>1, MessageIs
  <2> QED BY <2>1, MessageType
<1>4. \A i \in Nat : /\ i \in p <=> \E k \in 1 .. m : i - 8 * (m - k) - 16 \in Bits(a[k])
                     /\ i \in q <=> \E k \in 1 .. n : i - 8 * (n - k) - 16 \in Bits(b[k])
                     /\ i \in r <=> \E k \in 1 .. m + n : i - 8 * (m + n - k) - 16 \in Bits(s[k])
  <2> SUFFICES ASSUME NEW i \in Nat
      PROVE  /\ i \in p <=> \E k \in 1 .. m : i - 8 * (m - k) - 16 \in Bits(a[k])
             /\ i \in q <=> \E k \in 1 .. n : i - 8 * (n - k) - 16 \in Bits(b[k])
             /\ i \in r <=> \E k \in 1 .. m + n : i - 8 * (m + n - k) - 16 \in Bits(s[k])
    OBVIOUS
  <2>1. (i \in p <=> Bit(i, a)) /\ (i \in q <=> Bit(i, b)) /\ (i \in r <=> Bit(i, s))
    BY <1>3, MessageIs, Zenon
  <2>2. Bit(i, a) <=> \E k \in 1 .. m : i - 8 * (m - k) - 16 \in Bits(a[k])
    BY <1>1 DEF Bit
  <2>3. Bit(i, b) <=> \E k \in 1 .. n : i - 8 * (n - k) - 16 \in Bits(b[k])
    BY <1>1 DEF Bit
  <2>4. Bit(i, s) <=> \E k \in 1 .. m + n : i - 8 * (m + n - k) - 16 \in Bits(s[k])
    BY <1>2 DEF Bit
  <2> QED BY <2>1, <2>2, <2>3, <2>4, Zenon
<1>5. PICK u \in Polynomial : u = Shifted(p, 8 * n) /\ \A i \in Nat : i \in u <=> i - 8 * n \in p
  <2>1. 8 * n \in Nat
    OBVIOUS
  <2> QED BY <2>1, ShiftedIs
<1>6. \A i \in p : i >= 16
  <2> SUFFICES ASSUME NEW i \in p PROVE i >= 16
    OBVIOUS
  <2>1. i \in Nat
    BY DEF Polynomial
  <2>2. PICK k \in 1 .. m : i - 8 * (m - k) - 16 \in Bits(a[k])
    BY <1>4, <2>1
  <2>3. i - 8 * (m - k) - 16 \in 0 .. 7
    BY <2>2, BitsType
  <2> QED BY <2>1, <2>3
<1>7. ASSUME NEW i \in Nat PROVE ~(i \in u /\ i \in q)
  <2>1. i \in q => i <= 8 * n + 15
    BY <1>3
  <2>2. i \in u => i - 8 * n >= 16
    BY <1>5, <1>6
  <2> QED BY <2>1, <2>2
<1>8. ASSUME NEW i \in Nat PROVE i \in r <=> i \in u \/ i \in q
  <2>1. ASSUME NEW k \in 1 .. m
        PROVE  i - 8 * (m + n - k) - 16 \in Bits(s[k]) <=> (i - 8 * n) - 8 * (m - k) - 16 \in Bits(a[k])
    <3>1. i - 8 * (m + n - k) - 16 = (i - 8 * n) - 8 * (m - k) - 16 /\ s[k] = a[k]
      BY <1>2
    <3> QED BY <3>1
  <2>2. ASSUME NEW k \in 1 .. n
        PROVE  i - 8 * (m + n - (m + k)) - 16 \in Bits(s[m + k]) <=> i - 8 * (n - k) - 16 \in Bits(b[k])
    <3>1. i - 8 * (m + n - (m + k)) - 16 = i - 8 * (n - k) - 16 /\ s[m + k] = b[k]
      BY <1>2
    <3> QED BY <3>1
  <2>3. i \in u <=> \E k \in 1 .. m : (i - 8 * n) - 8 * (m - k) - 16 \in Bits(a[k])
    <3>1. CASE i - 8 * n \in Nat
      BY <1>4, <1>5, <3>1
    <3>2. CASE i - 8 * n \notin Nat
      <4>1. i \notin u
        BY <1>5, <3>2 DEF Polynomial
      <4>2. ASSUME NEW k \in 1 .. m PROVE (i - 8 * n) - 8 * (m - k) - 16 \notin Bits(a[k])
        <5>1. (i - 8 * n) - 8 * (m - k) - 16 \notin 0 .. 7
          BY <3>2
        <5> QED BY <5>1, BitsType
      <4> QED BY <4>1, <4>2
    <3> QED BY <3>1, <3>2
  <2> DEFINE Here(k) == i - 8 * (m + n - k) - 16 \in Bits(s[k])
  <2>4. i \in u <=> \E k \in 1 .. m : Here(k)
    BY <2>1, <2>3
  <2>5. i \in q <=> \E k \in 1 .. n : Here(m + k)
    BY <1>4, <2>2
  <2>6. i \in r <=> \E k \in 1 .. m + n : Here(k)
    BY <1>4
  <2> HIDE DEF Here
  <2>7. ASSUME NEW k \in 1 .. m + n
        PROVE  k \in 1 .. m \/ \E j \in 1 .. n : k = m + j
    <3>1. k > m => k - m \in 1 .. n /\ k = m + (k - m)
      OBVIOUS
    <3> QED BY <3>1
  <2>8. (1 .. m) \subseteq 1 .. m + n /\ \A k \in 1 .. n : m + k \in 1 .. m + n
    OBVIOUS
  <2> QED BY <2>4, <2>5, <2>6, <2>7, <2>8, Zenon
<1>9. ASSUME NEW i \in Nat PROVE i \in r <=> i \in SymDiff(u, q)
  BY <1>7, <1>8, SumIs
<1>10. r = SymDiff(u, q)
  BY <1>9, SumIs, SamePolynomial
<1> QED
  BY <1>1, <1>2, <1>3, <1>5, <1>10, Zenon

-----------------------------------------------------------------------------
(* The register holds the remainder                                        *)

\* n steps of the division turn a polynomial that the register c holds the first
\* bits of, and p the others, into what the register d holds, wherever they
\* stand and whatever comes below them.
Comes(n, p, c, d) ==
  \A e \in Nat : \A r \in Below(e) :
    Steps(n, e, SymDiff(Shifted(c, n + e), SymDiff(Shifted(p, e), r))) = SymDiff(Shifted(d, e), r)

Carries(s) ==
  \A crc \in Word : After(crc, s) \in Word /\ Comes(8 * Len(s), Message(s), crc, After(crc, s))

LEMMA CarriesEmpty ==
  ASSUME NEW s \in Text, s = <<>>
  PROVE  Carries(s)
<1> SUFFICES ASSUME NEW crc \in Word
    PROVE  After(crc, s) \in Word /\ Comes(8 * Len(s), Message(s), crc, After(crc, s))
  BY Zenon DEF Carries
<1>1. 8 * Len(s) = 0 /\ DOMAIN s = {}
  OBVIOUS
<1>2. After(crc, s) = crc
  BY AfterIs, Zenon
<1>3. Message(s) = {}
  BY <1>1, Zenon DEF Message
<1>4. Comes(0, {}, crc, crc)
  <2> SUFFICES ASSUME NEW e \in Nat, NEW r \in Below(e)
      PROVE  Steps(0, e, SymDiff(Shifted(crc, 0 + e), SymDiff(Shifted({}, e), r))) = SymDiff(Shifted(crc, e), r)
    BY Zenon DEF Comes
  <2>1. 0 + e = e
    OBVIOUS
  <2>2. SymDiff(Shifted({}, e), r) = r
    <3>1. Shifted({}, e) = {}
      BY Zenon DEF Shifted
    <3> QED BY <3>1, Zenon DEF SymDiff
  <2>3. SymDiff(Shifted(crc, e), r) \in Polynomial
    BY WordPolynomial, BelowType, ShiftedIs, SumIs
  <2>4. Steps(0, e, SymDiff(Shifted(crc, e), r)) = SymDiff(Shifted(crc, e), r)
    BY <2>3, StepsZero
  <2> QED BY <2>1, <2>2, <2>4, Zenon
<1> QED
  BY <1>1, <1>2, <1>3, <1>4, Zenon

LEMMA CarriesByte ==
  ASSUME NEW s \in Text, Len(s) = 1
  PROVE  Carries(s)
<1> SUFFICES ASSUME NEW crc \in Word
    PROVE  After(crc, s) \in Word /\ Comes(8 * Len(s), Message(s), crc, After(crc, s))
  BY Zenon DEF Carries
<1>1. PICK b : b = s[1]
  OBVIOUS
<1>2. PICK bits \in Polynomial : bits = Bits(b)
  BY BitsType DEF Polynomial
<1>3. PICK start \in Word : start = Start(crc, b)
  BY StartType
<1>4. After(crc, s) = AfterBits(start)[8]
  <2>1. Len(s) \div 2 = 0 /\ s # <<>>
    OBVIOUS
  <2>2. After(crc, s) = CrcByte(crc, s[1])
    BY <2>1, AfterIs, Zenon
  <2> QED BY <1>1, <1>3, <2>2, ByteIs, Zenon
<1>5. Message(s) = Shifted(bits, 16)
  <2>1. DOMAIN s = {1} /\ 8 * (Len(s) - 1) + 16 = 16
    BY TextByte
  <2>2. \A i : i \in Message(s) <=> i \in Shifted(Bits(s[1]), 8 * (Len(s) - 1) + 16)
    BY <2>1, Zenon DEF Message
  <2> QED BY <1>1, <1>2, <2>1, <2>2, Zenon
<1>6. AfterBits(start)[8] \in Word
  <2>1. {} \in Below(0) /\ 8 \in 0 .. 8 /\ 0 \in Nat
    BY DEF Below
  <2> QED BY <2>1, BitsSteps
<1>7. Comes(8, Message(s), crc, AfterBits(start)[8])
  <2> SUFFICES ASSUME NEW e \in Nat, NEW r \in Below(e)
      PROVE  Steps(8, e, SymDiff(Shifted(crc, 8 + e), SymDiff(Shifted(Message(s), e), r)))
               = SymDiff(Shifted(AfterBits(start)[8], e), r)
    BY Zenon DEF Comes
  <2>1. Shifted(start, e + 8) = SymDiff(Shifted(crc, e + 8), Shifted(Message(s), e))
    <3>1. crc \in Polynomial /\ Shifted(bits, 8) \in Polynomial /\ e + 8 \in Nat /\ 8 \in Nat /\ 16 \in Nat
      BY WordPolynomial, ShiftedIs
    <3>2. Shifted(start, e + 8) = SymDiff(Shifted(crc, e + 8), Shifted(Shifted(bits, 8), e + 8))
      BY <1>2, <1>3, <3>1, ShiftedSum DEF Start
    <3>3. Shifted(Shifted(bits, 8), e + 8) = Shifted(bits, 8 + (e + 8))
      BY <3>1, ShiftedTwice
    <3>4. Shifted(Shifted(bits, 16), e) = Shifted(bits, 16 + e)
      BY <3>1, ShiftedTwice
    <3>5. 8 + (e + 8) = 16 + e
      OBVIOUS
    <3> QED BY <1>5, <3>2, <3>3, <3>4, <3>5
  <2>2. Steps(8, e, SymDiff(Shifted(start, e + 8), r)) = SymDiff(Shifted(AfterBits(start)[8], e), r)
    <3>1. 8 \in 0 .. 8 /\ e + 8 - 8 = e
      OBVIOUS
    <3>2. Steps(8, e + 8 - 8, SymDiff(Shifted(start, e + 8), r))
            = SymDiff(Shifted(AfterBits(start)[8], e + 8 - 8), r)
      BY <3>1, BitsSteps
    <3> QED BY <3>1, <3>2
  <2>3. SymDiff(Shifted(start, e + 8), r) = SymDiff(Shifted(crc, e + 8), SymDiff(Shifted(Message(s), e), r))
    <3>1. Shifted(crc, e + 8) \in Polynomial /\ Shifted(Message(s), e) \in Polynomial /\ r \in Polynomial
      BY WordPolynomial, MessageType, BelowType, ShiftedIs
    <3> QED BY <2>1, <3>1, SumAssociative
  <2>4. 8 + e = e + 8
    OBVIOUS
  <2> QED BY <2>2, <2>3, <2>4, Zenon
<1>8. 8 * Len(s) = 8
  OBVIOUS
<1> QED
  BY <1>4, <1>6, <1>7, <1>8, Zenon

LEMMA ComesTogether ==
  ASSUME NEW m \in Nat, NEW n \in Nat, NEW p \in Polynomial, NEW q \in Polynomial, q \in SUBSET (0 .. n + 15),
         NEW c \in Word, NEW mid \in Word, NEW d \in Word,
         Comes(m, p, c, mid), Comes(n, q, mid, d)
  PROVE  Comes(m + n, SymDiff(Shifted(p, n), q), c, d)
<1> SUFFICES ASSUME NEW e \in Nat, NEW r \in Below(e)
    PROVE  Steps(m + n, e, SymDiff(Shifted(c, m + n + e), SymDiff(Shifted(SymDiff(Shifted(p, n), q), e), r)))
             = SymDiff(Shifted(d, e), r)
  BY Zenon DEF Comes
<1>1. PICK low \in Nat : low = e + n /\ n + e = low /\ m + n + e = m + low
  OBVIOUS
<1>2. PICK rest \in Below(low) : rest = SymDiff(Shifted(q, e), r)
  <2>1. Shifted(q, e) \in SUBSET (0 .. low + 15)
    BY <1>1 DEF Shifted
  <2>2. r \in SUBSET (0 .. low + 15)
    BY <1>1 DEF Below
  <2>3. SymDiff(Shifted(q, e), r) \in SUBSET (0 .. low + 15)
    BY <2>1, <2>2, Zenon DEF SymDiff
  <2> QED BY <2>3 DEF Below
<1>3. Steps(m, low, SymDiff(Shifted(c, m + low), SymDiff(Shifted(p, low), rest)))
        = SymDiff(Shifted(mid, low), rest)
  BY Zenon DEF Comes
<1>4. Steps(n, e, SymDiff(Shifted(mid, low), rest)) = SymDiff(Shifted(d, e), r)
  <2>1. Steps(n, e, SymDiff(Shifted(mid, n + e), SymDiff(Shifted(q, e), r))) = SymDiff(Shifted(d, e), r)
    BY Zenon DEF Comes
  <2> QED BY <1>1, <1>2, <2>1
<1>5. SymDiff(Shifted(SymDiff(Shifted(p, n), q), e), r) = SymDiff(Shifted(p, low), rest)
  <2>1. /\ Shifted(p, n) \in Polynomial /\ Shifted(p, low) \in Polynomial
        /\ Shifted(q, e) \in Polynomial /\ r \in Polynomial
    BY ShiftedIs, BelowType
  <2>2. Shifted(SymDiff(Shifted(p, n), q), e) = SymDiff(Shifted(Shifted(p, n), e), Shifted(q, e))
    BY <2>1, ShiftedSum
  <2>3. Shifted(Shifted(p, n), e) = Shifted(p, low)
    BY <1>1, ShiftedTwice
  <2>4. SymDiff(SymDiff(Shifted(p, low), Shifted(q, e)), r) = SymDiff(Shifted(p, low), SymDiff(Shifted(q, e), r))
    BY <2>1, SumAssociative
  <2> QED BY <1>2, <2>2, <2>3, <2>4, Zenon
<1>6. PICK w : w = SymDiff(Shifted(c, m + low), SymDiff(Shifted(p, low), rest)) /\ w \in Polynomial
  <2>1. m + low \in Nat /\ c \in Polynomial /\ rest \in Polynomial
    BY WordPolynomial, BelowType
  <2>2. Shifted(c, m + low) \in Polynomial /\ Shifted(p, low) \in Polynomial
    BY <2>1, ShiftedIs
  <2>3. SymDiff(Shifted(p, low), rest) \in Polynomial
    BY <2>1, <2>2, SumIs
  <2> QED BY <2>2, <2>3, SumIs
<1>7. Steps(m + n, e, w) = Steps(n, e, Steps(m, low, w))
  <2>1. Steps(m + n, e, w) = Steps(n, e, Steps(m, e + n, w))
    BY <1>6, StepsSplit
  <2> QED BY <1>1, <2>1
<1>8. Steps(m + n, e, w) = SymDiff(Shifted(d, e), r)
  BY <1>3, <1>4, <1>6, <1>7, Zenon
<1> QED
  BY <1>1, <1>5, <1>6, <1>8, Zenon

LEMMA ComesConcat ==
  ASSUME NEW a \in Text, NEW b \in Text, Carries(a), Carries(b), NEW crc \in Word
  PROVE  /\ After(After(crc, a), b) \in Word
         /\ Comes(8 * Len(a \o b), Message(a \o b), crc, After(After(crc, a), b))
<1>1. PICK m \in Nat, n \in Nat : m = 8 * Len(a) /\ n = 8 * Len(b) /\ 8 * Len(a \o b) = m + n
  <2>1. Len(a \o b) = Len(a) + Len(b)
    BY TextConcat
  <2>2. Len(a) \in Nat /\ Len(b) \in Nat
    BY TextByte
  <2> QED BY <2>1, <2>2
<1>2. PICK p \in Polynomial, q \in Polynomial : p = Message(a) /\ q = Message(b) /\ q \in SUBSET (0 .. n + 15)
  BY <1>1, MessageIs, MessageType
<1>3. PICK mid \in Word : mid = After(crc, a) /\ Comes(m, p, crc, mid)
  BY <1>1, <1>2, Zenon DEF Carries
<1>4. PICK d \in Word : d = After(mid, b) /\ Comes(n, q, mid, d)
  BY <1>1, <1>2, Zenon DEF Carries
<1>5. Comes(m + n, SymDiff(Shifted(p, n), q), crc, d)
  BY <1>2, <1>3, <1>4, ComesTogether, Zenon
<1>6. Message(a \o b) = SymDiff(Shifted(p, n), q)
  BY <1>1, <1>2, MessageConcat
<1> QED
  BY <1>1, <1>3, <1>4, <1>5, <1>6, Zenon

LEMMA CarriesHalves ==
  ASSUME NEW s \in Text, Len(s) \div 2 # 0, Carries(FirstHalf(s)), Carries(SecondHalf(s))
  PROVE  Carries(s)
<1> SUFFICES ASSUME NEW crc \in Word
    PROVE  After(crc, s) \in Word /\ Comes(8 * Len(s), Message(s), crc, After(crc, s))
  BY Zenon DEF Carries
<1>1. FirstHalf(s) \in Text /\ SecondHalf(s) \in Text /\ s = FirstHalf(s) \o SecondHalf(s)
  BY Halves
<1>2. After(crc, s) = After(After(crc, FirstHalf(s)), SecondHalf(s))
  <2>1. s # <<>>
    OBVIOUS
  <2> QED BY <2>1, AfterIs, Zenon
<1>3. PICK d \in Word : /\ d = After(After(crc, FirstHalf(s)), SecondHalf(s))
                        /\ Comes(8 * Len(s), Message(s), crc, d)
  <2>1. PICK t : t = FirstHalf(s) \o SecondHalf(s)
    OBVIOUS
  <2>2. /\ After(After(crc, FirstHalf(s)), SecondHalf(s)) \in Word
        /\ Comes(8 * Len(t), Message(t), crc, After(After(crc, FirstHalf(s)), SecondHalf(s)))
    BY <1>1, <2>1, ComesConcat, Zenon
  <2>3. s = t
    BY <1>1, <2>1, Zenon
  <2> QED BY <2>2, <2>3, Zenon
<1> QED
  BY <1>2, <1>3, Zenon

LEMMA AlwaysCarries == \A s \in Text : Carries(s)
<1> DEFINE G == {s \in Text : Carries(s)}
<1>1. ASSUME NEW s \in Text, \A r \in Text : Len(r) < Len(s) => r \in G PROVE s \in G
  <2>1. CASE s = <<>>
    BY <2>1, CarriesEmpty
  <2>2. CASE Len(s) = 1
    BY <2>2, CarriesByte
  <2>3. CASE Len(s) \div 2 # 0
    <3>1. FirstHalf(s) \in G /\ SecondHalf(s) \in G
      BY <1>1, <2>3, Halves
    <3> QED BY <2>3, <3>1, CarriesHalves
  <2>4. s = <<>> \/ Len(s) = 1 \/ Len(s) \div 2 # 0
    <3>1. Len(s) = 0 => s = <<>>
      BY DEF Text
    <3>2. PICK n \in Nat : n = Len(s)
      BY TextByte
    <3>3. n = 0 \/ n = 1 \/ n \div 2 # 0
      OBVIOUS
    <3> QED BY <3>1, <3>2, <3>3
  <2> QED BY <2>1, <2>2, <2>3, <2>4
<1> HIDE DEF G
<1>2. G = Text
  <2>1. G \in SUBSET Text
    BY DEF G
  <2> QED BY <1>1, <2>1, TextInduction
<1> QED
  BY <1>2 DEF G

LEMMA AfterType ==
  ASSUME NEW crc \in Word, NEW s \in Text
  PROVE  After(crc, s) \in Word
  BY AlwaysCarries, Zenon DEF Carries

LEMMA ShiftedNone == \A p \in Polynomial : Shifted(p, 0) = p
<1> SUFFICES ASSUME NEW p \in Polynomial PROVE Shifted(p, 0) = p
  OBVIOUS
<1>1. Shifted(p, 0) \in Polynomial /\ \A i \in Nat : i \in Shifted(p, 0) <=> i - 0 \in p
  BY ShiftedIs
<1>2. \A i \in Nat : i - 0 = i
  OBVIOUS
<1> QED
  BY <1>1, <1>2, SamePolynomial

LEMMA ComesTo ==
  ASSUME NEW n \in Nat, NEW p \in Polynomial, NEW c \in Word, NEW d \in Word, Comes(n, p, c, d)
  PROVE  d = Steps(n, 0, SymDiff(Shifted(c, n), p))
<1>1. {} \in Below(0) /\ 0 \in Nat /\ n + 0 = n
  BY DEF Below
<1>2. Steps(n, 0, SymDiff(Shifted(c, n + 0), SymDiff(Shifted(p, 0), {}))) = SymDiff(Shifted(d, 0), {})
  BY <1>1, Zenon DEF Comes
<1>3. \A x : SymDiff(x, {}) = x
  BY Zenon DEF SymDiff
<1>4. Shifted(p, 0) = p /\ Shifted(d, 0) = d
  BY WordPolynomial, ShiftedNone
<1> QED
  BY <1>1, <1>2, <1>3, <1>4

LEMMA AfterSteps ==
  ASSUME NEW crc \in Word, NEW s \in Text, NEW n \in Nat, n = 8 * Len(s)
  PROVE  After(crc, s) = Steps(n, 0, SymDiff(Shifted(crc, n), Message(s)))
<1>1. PICK d \in Word : d = After(crc, s) /\ Comes(8 * Len(s), Message(s), crc, d)
  BY AlwaysCarries, Zenon DEF Carries
<1>2. Comes(n, Message(s), crc, d)
  BY <1>1
<1> QED
  BY <1>1, <1>2, MessageType, ComesTo

(* CalculateCRC16 is what its comment says, "CRC16-CCITT, poly 0x1021,     *)
(* init 0xFFFF": for every text, the shift register leaves the remainder   *)
(* of the text's polynomial, the first 16 bits inverted.                   *)
THEOREM RegisterIsRemainder == \A s \in Text : CRC16(s) = Remainder(s)
<1> SUFFICES ASSUME NEW s \in Text PROVE CRC16(s) = Remainder(s)
  OBVIOUS
<1>1. PICK crc \in Word : crc = 0 .. 15
  BY DEF Word
<1>2. PICK n \in Nat : n = 8 * Len(s)
  BY TextByte
<1>3. After(crc, s) = Steps(n, 0, SymDiff(Message(s), Shifted(crc, n)))
  BY <1>2, AfterSteps, SumCommutes
<1> QED
  BY <1>1, <1>2, <1>3 DEF CRC16, Remainder, After, Steps

-----------------------------------------------------------------------------
(* What the checksum tells apart                                           *)

LEMMA AfterConcat ==
  ASSUME NEW crc \in Word, NEW a \in Text, NEW b \in Text
  PROVE  After(crc, a \o b) = After(After(crc, a), b)
<1>1. PICK s \in Text : s = a \o b
  BY TextConcat
<1>2. PICK n \in Nat, p \in Polynomial : n = 8 * Len(s) /\ p = Message(s)
  BY TextByte, MessageType
<1>3. PICK d \in Word : d = After(After(crc, a), b) /\ Comes(n, p, crc, d)
  <2>1. Carries(a) /\ Carries(b)
    BY AlwaysCarries
  <2>2. /\ After(After(crc, a), b) \in Word
        /\ Comes(8 * Len(a \o b), Message(a \o b), crc, After(After(crc, a), b))
    BY <2>1, ComesConcat, Zenon
  <2> QED BY <1>1, <1>2, <2>2, Zenon
<1>4. d = Steps(n, 0, SymDiff(Shifted(crc, n), p))
  BY <1>3, ComesTo
<1>5. After(crc, s) = Steps(n, 0, SymDiff(Shifted(crc, n), p))
  BY <1>2, AfterSteps
<1> QED
  BY <1>1, <1>3, <1>4, <1>5, Zenon

LEMMA SubtractLinear ==
  ASSUME NEW p \in Polynomial, NEW q \in Polynomial, NEW d \in Nat
  PROVE  Subtract(SymDiff(p, q), d) = SymDiff(Subtract(p, d), Subtract(q, d))
<1>1. PICK g : g = Shifted(Generator, d)
  OBVIOUS
<1>2. \A x \in Polynomial : Subtract(x, d) = IF d + 16 \in x THEN SymDiff(x, g) ELSE x
  BY <1>1, Zenon DEF Subtract
<1>3. SymDiff(p, q) \in Polynomial /\ (d + 16 \in SymDiff(p, q) <=> ~(d + 16 \in p <=> d + 16 \in q))
  BY SumIs
<1>4. /\ SymDiff(SymDiff(p, q), g) = SymDiff(SymDiff(p, g), q)
      /\ SymDiff(SymDiff(p, q), g) = SymDiff(p, SymDiff(q, g))
      /\ SymDiff(p, q) = SymDiff(SymDiff(p, g), SymDiff(q, g))
  <2>1. SymDiff(SymDiff(p, q), g) = SymDiff(SymDiff(p, g), q)
    BY Zenon DEF SymDiff
  <2>2. SymDiff(SymDiff(p, q), g) = SymDiff(p, SymDiff(q, g))
    BY Zenon DEF SymDiff
  <2>3. SymDiff(p, q) = SymDiff(SymDiff(p, g), SymDiff(q, g))
    BY Zenon DEF SymDiff
  <2> QED BY <2>1, <2>2, <2>3
<1> QED
  BY <1>2, <1>3, <1>4

LEMMA StepsLinear ==
  \A n, low \in Nat, p, q \in Polynomial :
    Steps(n, low, SymDiff(p, q)) = SymDiff(Steps(n, low, p), Steps(n, low, q))
<1> DEFINE D == Nat
           Linear(n) ==
             \A low \in Nat, p, q \in Polynomial :
               Steps(n, low, SymDiff(p, q)) = SymDiff(Steps(n, low, p), Steps(n, low, q))
           G == {n \in D : Linear(n)}
           m == [n \in D |-> n]
<1>1. ASSUME NEW n \in Nat, \A e \in Nat : e < n => Linear(e) PROVE Linear(n)
  <2> SUFFICES ASSUME NEW low \in Nat, NEW p \in Polynomial, NEW q \in Polynomial
      PROVE  Steps(n, low, SymDiff(p, q)) = SymDiff(Steps(n, low, p), Steps(n, low, q))
    OBVIOUS
  <2>0. PICK s \in Polynomial : s = SymDiff(p, q)
    BY SumIs
  <2>1. CASE n = 0
    BY <2>0, <2>1, StepsZero
  <2>2. CASE n = 1
    <3>1. Subtract(s, low) = SymDiff(Subtract(p, low), Subtract(q, low))
      BY <2>0, SubtractLinear
    <3> QED BY <2>0, <2>2, <3>1, StepsOne
  <2>3. CASE n > 1
    <3>1. PICK h \in Nat, k \in Nat, high \in Nat :
            h = n \div 2 /\ k = n - n \div 2 /\ high = low + n \div 2 /\ h < n /\ k < n
      BY <2>3
    <3>2. \A x \in Polynomial : Steps(n, low, x) = Steps(h, low, Steps(k, high, x))
      <4>1. n > 1
        BY <2>3
      <4>2. \A x \in Polynomial :
              Steps(n, low, x) = Steps(n \div 2, low, Steps(n - n \div 2, low + n \div 2, x))
        BY <4>1, StepsMany
      <4> QED BY <3>1, <4>2
    <3>3. PICK x \in Polynomial, y \in Polynomial : x = Steps(k, high, p) /\ y = Steps(k, high, q)
      BY StepsType
    <3>4. Steps(k, high, s) = SymDiff(x, y)
      BY <1>1, <2>0, <3>1, <3>3
    <3>5. Steps(h, low, SymDiff(x, y)) = SymDiff(Steps(h, low, x), Steps(h, low, y))
      BY <1>1, <3>1
    <3> QED BY <2>0, <3>2, <3>3, <3>4, <3>5
  <2> QED BY <2>1, <2>2, <2>3
<1>2. \A n \in D : (\A e \in D : m[e] < m[n] => e \in G) => n \in G
  <2> HIDE DEF Linear
  <2> QED BY <1>1
<1>3. m \in [D -> Nat] /\ G \in SUBSET D
  OBVIOUS
<1>4. G = D
  <2> HIDE DEF G, m, D
  <2> QED BY <1>2, <1>3, MeasureInduction
<1> QED
  BY <1>4

LEMMA CrcBitInjective ==
  ASSUME NEW c \in Word, NEW d \in Word, CrcBit(c) = CrcBit(d)
  PROVE  c = d
<1>1. 15 \in c <=> 15 \in d
  <2>1. 0 \in Int /\ 0 - 1 \notin c /\ 0 - 1 \notin d /\ 0 \in Generator
    BY DEF Word, Generator
  <2>2. (0 \in CrcBit(c) <=> 15 \in c) /\ (0 \in CrcBit(d) <=> 15 \in d)
    BY <2>1, CrcBitIs
  <2> QED BY <2>2
<1>2. ASSUME NEW i \in 0 .. 15 PROVE i \in c <=> i \in d
  <2>1. i + 1 \in Int /\ (i + 1) - 1 = i
    OBVIOUS
  <2>2. i + 1 \in CrcBit(c) <=> IF 15 \in c THEN ~(i \in c <=> i + 1 \in Generator) ELSE i \in c
    BY <2>1, CrcBitIs
  <2>3. i + 1 \in CrcBit(d) <=> IF 15 \in d THEN ~(i \in d <=> i + 1 \in Generator) ELSE i \in d
    BY <2>1, CrcBitIs
  <2> QED BY <1>1, <2>2, <2>3
<1> QED
  BY <1>2 DEF Word

\* The division keeps what it divides apart: x has an inverse modulo the
\* generator, whose constant term is 1.
LEMMA StepsInjective ==
  \A n \in Nat : \A c, d \in Word :
    Steps(n, 0, Shifted(c, n)) = Steps(n, 0, Shifted(d, n)) => c = d
<1> DEFINE Injects(n) ==
             \A c, d \in Word : Steps(n, 0, Shifted(c, n)) = Steps(n, 0, Shifted(d, n)) => c = d
           S == {n \in Nat : Injects(n)}
<1>1. 0 \in S
  <2> SUFFICES ASSUME NEW c \in Word, NEW d \in Word, Steps(0, 0, Shifted(c, 0)) = Steps(0, 0, Shifted(d, 0))
      PROVE  c = d
    OBVIOUS
  <2>1. ASSUME NEW x \in Word PROVE Steps(0, 0, Shifted(x, 0)) = x
    <3>1. x \in Polynomial
      BY WordPolynomial
    <3>2. Shifted(x, 0) = x
      BY <3>1 DEF Shifted, Polynomial
    <3> QED BY <3>1, <3>2, StepsZero
  <2> QED BY <2>1
<1>2. ASSUME NEW n \in S PROVE n + 1 \in S
  <2>0. n \in Nat /\ Injects(n)
    OBVIOUS
  <2>1. ASSUME NEW c \in Word
        PROVE  Steps(n + 1, 0, Shifted(c, n + 1)) = Steps(n, 0, Shifted(CrcBit(c), n))
    <3>1. PICK p \in Polynomial : p = Shifted(c, n + 1)
      BY <2>0, WordPolynomial, ShiftedIs
    <3>2. 1 + n = n + 1 /\ 0 + n = n /\ 1 \in Nat /\ 0 \in Nat
      BY <2>0
    <3>3. Steps(1 + n, 0, p) = Steps(n, 0, Steps(1, 0 + n, p))
      BY <2>0, <3>2, StepsSplit
    <3>4. {} \in Below(n) /\ \A x : SymDiff(x, {}) = x
      <4>1. {} \in Below(n)
        BY DEF Below
      <4>2. \A x : SymDiff(x, {}) = x
        BY Zenon DEF SymDiff
      <4> QED BY <4>1, <4>2
    <3>5. Steps(1, n, SymDiff(p, {})) = SymDiff(Shifted(CrcBit(c), n), {})
      BY <2>0, <3>1, <3>4, BitStep
    <3>6. Steps(1, n, p) = Shifted(CrcBit(c), n)
      BY <3>4, <3>5
    <3> QED BY <3>1, <3>2, <3>3, <3>6
  <2>2. ASSUME NEW c \in Word, NEW d \in Word,
               Steps(n + 1, 0, Shifted(c, n + 1)) = Steps(n + 1, 0, Shifted(d, n + 1))
        PROVE  c = d
    <3>1. Steps(n, 0, Shifted(CrcBit(c), n)) = Steps(n, 0, Shifted(CrcBit(d), n))
      BY <2>1, <2>2
    <3>2. CrcBit(c) = CrcBit(d)
      BY <2>0, <3>1, CrcBitType
    <3> QED BY <3>2, CrcBitInjective
  <2> QED BY <2>0, <2>2
<1>3. S = Nat
  <2> HIDE DEF S
  <2>1. S \in SUBSET Nat
    BY DEF S
  <2> QED BY <1>1, <1>2, <2>1, NatSetInduction
<1> QED
  BY <1>3

LEMMA SumCancels ==
  ASSUME NEW p, NEW q, NEW r, SymDiff(p, r) = SymDiff(q, r)
  PROVE  p = q
<1>1. \A x : SymDiff(SymDiff(x, r), r) = x
  BY Zenon DEF SymDiff
<1> QED
  BY <1>1

\* Two registers that differ still differ after any text.
LEMMA AfterInjective ==
  ASSUME NEW c \in Word, NEW d \in Word, NEW s \in Text, After(c, s) = After(d, s)
  PROVE  c = d
<1>1. PICK n \in Nat, p \in Polynomial : n = 8 * Len(s) /\ p = Message(s)
  BY TextByte, MessageType
<1>2. PICK x \in Polynomial, y \in Polynomial : x = Shifted(c, n) /\ y = Shifted(d, n)
  BY WordPolynomial, ShiftedIs
<1>3. Steps(n, 0, SymDiff(x, p)) = Steps(n, 0, SymDiff(y, p))
  BY <1>1, <1>2, AfterSteps
<1>4. SymDiff(Steps(n, 0, x), Steps(n, 0, p)) = SymDiff(Steps(n, 0, y), Steps(n, 0, p))
  BY <1>3, StepsLinear
<1>5. Steps(n, 0, x) = Steps(n, 0, y)
  BY <1>4, SumCancels
<1> QED
  BY <1>2, <1>5, StepsInjective

LEMMA BitsInjective ==
  ASSUME NEW a \in 0 .. 255, NEW b \in 0 .. 255, Bits(a) = Bits(b)
  PROVE  a = b
<1> DEFINE bit(x, k) == (x \div k) % 2
           Same(k) == bit(a, k) = 1 <=> bit(b, k) = 1
<1>1. \A i \in 0 .. 7 : Same(2^i)
  BY DEF Bits
<1>2. 2^0 = 1 /\ 2^1 = 2 /\ 2^2 = 4 /\ 2^3 = 8 /\ 2^4 = 16 /\ 2^5 = 32 /\ 2^6 = 64 /\ 2^7 = 128
  OBVIOUS
<1>3. Same(1) /\ Same(2) /\ Same(4) /\ Same(8) /\ Same(16) /\ Same(32) /\ Same(64) /\ Same(128)
  <2> HIDE DEF Same
  <2>1. Same(2^0) /\ Same(2^1) /\ Same(2^2) /\ Same(2^3) /\ Same(2^4) /\ Same(2^5) /\ Same(2^6) /\ Same(2^7)
    BY <1>1
  <2> QED BY <1>2, <2>1
<1>4. bit(a, 1) = bit(b, 1)
  <2>1. Same(1)
    BY <1>3, Zenon
  <2> QED BY <2>1
<1>5. bit(a, 2) = bit(b, 2)
  <2>1. Same(2)
    BY <1>3, Zenon
  <2> QED BY <2>1
<1>6. bit(a, 4) = bit(b, 4)
  <2>1. Same(4)
    BY <1>3, Zenon
  <2> QED BY <2>1
<1>7. bit(a, 8) = bit(b, 8)
  <2>1. Same(8)
    BY <1>3, Zenon
  <2> QED BY <2>1
<1>8. bit(a, 16) = bit(b, 16)
  <2>1. Same(16)
    BY <1>3, Zenon
  <2> QED BY <2>1
<1>9. bit(a, 32) = bit(b, 32)
  <2>1. Same(32)
    BY <1>3, Zenon
  <2> QED BY <2>1
<1>10. bit(a, 64) = bit(b, 64)
  <2>1. Same(64)
    BY <1>3, Zenon
  <2> QED BY <2>1
<1>11. bit(a, 128) = bit(b, 128)
  <2>1. Same(128)
    BY <1>3, Zenon
  <2> QED BY <2>1
<1>12. ASSUME NEW x \in 0 .. 255
       PROVE  x = bit(x, 1) + 2 * bit(x, 2) + 4 * bit(x, 4) + 8 * bit(x, 8)
                  + 16 * bit(x, 16) + 32 * bit(x, 32) + 64 * bit(x, 64) + 128 * bit(x, 128)
  BY SMTT(30)
<1> HIDE DEF bit
<1> QED
  BY <1>4, <1>5, <1>6, <1>7, <1>8, <1>9, <1>10, <1>11, <1>12

\* Two bytes as a word.
Both(x, y) == SymDiff(Shifted(Bits(x), 8), Bits(y))

LEMMA BothType ==
  ASSUME NEW x, NEW y
  PROVE  Both(x, y) \in Word
<1>1. PICK a \in SUBSET (0 .. 7), b \in SUBSET (0 .. 7) : a = Bits(x) /\ b = Bits(y)
  BY BitsType
<1>2. Shifted(a, 8) \in SUBSET (0 .. 15)
  BY DEF Shifted
<1>3. SymDiff(Shifted(a, 8), b) \in SUBSET (0 .. 15)
  <2>1. b \in SUBSET (0 .. 15)
    OBVIOUS
  <2> QED BY <1>2, <2>1, Zenon DEF SymDiff
<1> QED
  BY <1>1, <1>3 DEF Both, Word

Byte == 0 .. 255

LEMMA BothInjective ==
  \A x, y, v, w \in Byte : Both(x, y) = Both(v, w) => x = v /\ y = w
<1> SUFFICES ASSUME NEW x \in 0 .. 255, NEW y \in 0 .. 255, NEW v \in 0 .. 255, NEW w \in 0 .. 255,
                    Both(x, y) = Both(v, w)
    PROVE  x = v /\ y = w
  BY Zenon DEF Byte
<1>1. PICK a \in SUBSET (0 .. 7), b \in SUBSET (0 .. 7), c \in SUBSET (0 .. 7), d \in SUBSET (0 .. 7) :
        a = Bits(x) /\ b = Bits(y) /\ c = Bits(v) /\ d = Bits(w)
  BY BitsType
<1>2. SymDiff(Shifted(a, 8), b) = SymDiff(Shifted(c, 8), d)
  BY <1>1 DEF Both
<1>3. \A p \in SUBSET (0 .. 7) : \A i \in 0 .. 7 : i \notin Shifted(p, 8) /\ (i + 8 \in Shifted(p, 8) <=> i \in p)
  BY DEF Shifted
<1>4. \A p \in SUBSET (0 .. 7) : \A i \in 0 .. 7 : i + 8 \notin p
  OBVIOUS
<1>5. ASSUME NEW i \in 0 .. 7 PROVE (i \in a <=> i \in c) /\ (i \in b <=> i \in d)
  <2>1. (i \in SymDiff(Shifted(a, 8), b) <=> i \in b) /\ (i \in SymDiff(Shifted(c, 8), d) <=> i \in d)
    BY <1>3 DEF SymDiff
  <2>2. (i + 8 \in SymDiff(Shifted(a, 8), b) <=> i \in a) /\ (i + 8 \in SymDiff(Shifted(c, 8), d) <=> i \in c)
    BY <1>3, <1>4 DEF SymDiff
  <2> QED BY <1>2, <2>1, <2>2
<1>6. a = c /\ b = d
  BY <1>5
<1> QED
  BY <1>1, <1>6, BitsInjective

LEMMA MessageOne == \A x \in 0 .. 255 : <<x>> \in Text /\ Len(<<x>>) = 1 /\ Message(<<x>>) = Shifted(Bits(x), 16)
<1> SUFFICES ASSUME NEW x \in 0 .. 255
    PROVE  <<x>> \in Text /\ Len(<<x>>) = 1 /\ Message(<<x>>) = Shifted(Bits(x), 16)
  OBVIOUS
<1>1. PICK s \in Text : s = <<x>> /\ Len(s) = 1 /\ DOMAIN s = {1} /\ s[1] = x
  <2>1. <<x>> \in Text /\ Len(<<x>>) = 1
    BY ByteText
  <2>2. DOMAIN <<x>> = {1} /\ <<x>>[1] = x
    OBVIOUS
  <2> QED BY <2>1, <2>2
<1>2. 8 * (Len(s) - 1) + 16 = 16
  BY <1>1
<1>3. \A i : i \in Message(s) <=> i \in Shifted(Bits(s[1]), 8 * (Len(s) - 1) + 16)
  BY <1>1, Zenon DEF Message
<1>4. Message(s) = Shifted(Bits(s[1]), 8 * (Len(s) - 1) + 16)
  BY <1>3, Zenon
<1> QED
  BY <1>1, <1>2, <1>4

LEMMA MessageTwo ==
  ASSUME NEW x \in 0 .. 255, NEW y \in 0 .. 255
  PROVE  /\ <<x, y>> \in Text /\ Len(<<x, y>>) = 2
         /\ Message(<<x, y>>) = Shifted(Both(x, y), 16)
<1>1. PICK p \in Polynomial, q \in Polynomial : p = Bits(x) /\ q = Bits(y)
  BY BitsType DEF Polynomial
<1>2. <<x, y>> = <<x>> \o <<y>>
  BY Pair
<1>3. Message(<<x>> \o <<y>>) = SymDiff(Shifted(Message(<<x>>), 8 * Len(<<y>>)), Message(<<y>>))
  BY MessageOne, MessageConcat
<1>4. Message(<<x, y>>) = SymDiff(Shifted(Shifted(p, 16), 8), Shifted(q, 16))
  <2>1. 8 * Len(<<y>>) = 8
    BY MessageOne
  <2> QED BY <1>1, <1>2, <1>3, <2>1, MessageOne
<1>5. Shifted(SymDiff(Shifted(p, 8), q), 16) = SymDiff(Shifted(Shifted(p, 8), 16), Shifted(q, 16))
  <2>1. Shifted(p, 8) \in Polynomial /\ 16 \in Nat
    BY ShiftedIs
  <2> QED BY <2>1, ShiftedSum
<1>6. Shifted(Shifted(p, 16), 8) = Shifted(p, 24) /\ Shifted(Shifted(p, 8), 16) = Shifted(p, 24)
  <2>1. Shifted(Shifted(p, 16), 8) = Shifted(p, 16 + 8) /\ Shifted(Shifted(p, 8), 16) = Shifted(p, 8 + 16)
    BY ShiftedTwice
  <2> QED BY <2>1
<1>7. <<x, y>> \in Text /\ Len(<<x, y>>) = 2
  BY DEF Text
<1> QED
  BY <1>1, <1>4, <1>5, <1>6, <1>7 DEF Both

LEMMA PairInjective ==
  ASSUME NEW crc \in Word, NEW k \in Byte, NEW l \in Byte, NEW m \in Byte, NEW n \in Byte,
         After(crc, <<k, l>>) = After(crc, <<m, n>>)
  PROVE  k = m /\ l = n
<1>1. ASSUME NEW a \in Byte, NEW b \in Byte
      PROVE  After(crc, <<a, b>>) = SymDiff(Steps(16, 0, Shifted(Both(a, b), 16)), Steps(16, 0, Shifted(crc, 16)))
  <2>1. PICK s \in Text : s = <<a, b>> /\ 16 = 8 * Len(s) /\ Message(s) = Shifted(Both(a, b), 16)
    <3>1. /\ <<a, b>> \in Text /\ Len(<<a, b>>) = 2
          /\ Message(<<a, b>>) = Shifted(Both(a, b), 16)
      BY MessageTwo DEF Byte
    <3>2. 16 = 8 * 2
      OBVIOUS
    <3> QED BY <3>1, <3>2, ZenonT(60)
  <2>2. PICK p \in Polynomial, q \in Polynomial : p = Shifted(crc, 16) /\ q = Shifted(Both(a, b), 16)
    BY WordPolynomial, BothType, ShiftedIs
  <2>3. After(crc, s) = Steps(16, 0, SymDiff(p, q))
    BY <2>1, <2>2, AfterSteps
  <2>4. Steps(16, 0, SymDiff(p, q)) = SymDiff(Steps(16, 0, p), Steps(16, 0, q))
    BY StepsLinear
  <2> QED BY <2>1, <2>2, <2>3, <2>4, SumCommutes
<1>2. Steps(16, 0, Shifted(Both(k, l), 16)) = Steps(16, 0, Shifted(Both(m, n), 16))
  <2>1. PICK p, q, r : /\ p = Steps(16, 0, Shifted(Both(k, l), 16))
                       /\ q = Steps(16, 0, Shifted(Both(m, n), 16))
                       /\ r = Steps(16, 0, Shifted(crc, 16))
    OBVIOUS
  <2>2. SymDiff(p, r) = SymDiff(q, r)
    BY <1>1, <2>1
  <2>3. p = q
    BY <2>2, SumCancels, Zenon
  <2> QED BY <2>1, <2>3
<1>3. Both(k, l) = Both(m, n)
  BY <1>2, BothType, StepsInjective
<1>4. \A v, w \in Byte : Both(k, l) = Both(v, w) => k = v /\ l = w
  BY BothInjective, Zenon
<1> QED
  BY <1>3, <1>4
\* What upperHex4 writes tells two registers apart.
LEMMA HexInjective ==
  ASSUME NEW c \in Word, NEW d \in Word, Hex4(c) = Hex4(d)
  PROVE  c = d
<1> DEFINE digit(p, k) == (IF k + 3 \in p THEN 8 ELSE 0) + (IF k + 2 \in p THEN 4 ELSE 0)
                            + (IF k + 1 \in p THEN 2 ELSE 0) + (IF k \in p THEN 1 ELSE 0)
           byte(n) == IF n < 10 THEN 48 + n ELSE 55 + n
           Same(i) == i \in c <=> i \in d
<1>1. \A p : Hex4(p) = <<byte(digit(p, 12)), byte(digit(p, 8)), byte(digit(p, 4)), byte(digit(p, 0))>>
  BY DEF Hex4
<1>2. \A p, k : digit(p, k) \in 0 .. 15
  OBVIOUS
<1>3. \A m, n \in 0 .. 15 : byte(m) = byte(n) => m = n
  OBVIOUS
<1>4. ASSUME NEW k \in {0, 4, 8, 12}, digit(c, k) = digit(d, k)
      PROVE  Same(k) /\ Same(k + 1) /\ Same(k + 2) /\ Same(k + 3)
  BY <1>4
<1> HIDE DEF byte, digit
<1>5. ASSUME NEW k \in {0, 4, 8, 12} PROVE digit(c, k) = digit(d, k)
  <2>1. byte(digit(c, k)) = byte(digit(d, k))
    <3>1. \A k1, k2, k3, k4, l1, l2, l3, l4 : <<k1, k2, k3, k4>> = <<l1, l2, l3, l4>>
            => k1 = l1 /\ k2 = l2 /\ k3 = l3 /\ k4 = l4
      OBVIOUS
    <3>2. /\ byte(digit(c, 12)) = byte(digit(d, 12)) /\ byte(digit(c, 8)) = byte(digit(d, 8))
          /\ byte(digit(c, 4)) = byte(digit(d, 4)) /\ byte(digit(c, 0)) = byte(digit(d, 0))
      BY <1>1, <3>1, Zenon
    <3> QED BY <3>2
  <2> QED BY <1>2, <1>3, <2>1, Zenon
<1>6. ASSUME NEW i \in 0 .. 15 PROVE Same(i)
  <2>1. PICK k \in {0, 4, 8, 12} : i = k \/ i = k + 1 \/ i = k + 2 \/ i = k + 3
    <3>1. CASE i \in 0 .. 3
      BY <3>1
    <3>2. CASE i \in 4 .. 7
      BY <3>2
    <3>3. CASE i \in 8 .. 11
      BY <3>3
    <3>4. CASE i \in 12 .. 15
      BY <3>4
    <3> QED BY <3>1, <3>2, <3>3, <3>4
  <2>2. Same(k) /\ Same(k + 1) /\ Same(k + 2) /\ Same(k + 3)
    BY <1>4, <1>5, Zenon
  <2> HIDE DEF Same
  <2> QED BY <2>1, <2>2
<1> QED
  BY <1>6 DEF Word

\* Four bits of a register as a number, as upperHex4 takes them.
Nibble(crc, k) == (IF k + 3 \in crc THEN 8 ELSE 0) + (IF k + 2 \in crc THEN 4 ELSE 0)
                    + (IF k + 1 \in crc THEN 2 ELSE 0) + (IF k \in crc THEN 1 ELSE 0)

LEMMA NibbleBits ==
  ASSUME NEW crc, NEW k \in Nat
  PROVE  \A j : j \in Bits(Nibble(crc, k)) <=> j \in 0 .. 3 /\ k + j \in crc
<1>1. PICK a, b, c, d :
        /\ a \in {0, 1} /\ b \in {0, 1} /\ c \in {0, 1} /\ d \in {0, 1}
        /\ a = 1 <=> k + 3 \in crc
        /\ b = 1 <=> k + 2 \in crc
        /\ c = 1 <=> k + 1 \in crc
        /\ d = 1 <=> k \in crc
        /\ Nibble(crc, k) = 8 * a + 4 * b + 2 * c + d
  <2>1. \A x, y : \E a \in {0, 1} : (a = 1 <=> x \in crc) /\ (IF x \in crc THEN y ELSE 0) = IF a = 1 THEN y ELSE 0
    OBVIOUS
  <2>2. PICK a \in {0, 1} : (a = 1 <=> k + 3 \in crc) /\ (IF k + 3 \in crc THEN 8 ELSE 0) = 8 * a
    BY <2>1
  <2>3. PICK b \in {0, 1} : (b = 1 <=> k + 2 \in crc) /\ (IF k + 2 \in crc THEN 4 ELSE 0) = 4 * b
    BY <2>1
  <2>4. PICK c \in {0, 1} : (c = 1 <=> k + 1 \in crc) /\ (IF k + 1 \in crc THEN 2 ELSE 0) = 2 * c
    BY <2>1
  <2>5. PICK d \in {0, 1} : (d = 1 <=> k \in crc) /\ (IF k \in crc THEN 1 ELSE 0) = d
    BY <2>1
  <2>6. Nibble(crc, k) = 8 * a + 4 * b + 2 * c + d
    BY <2>2, <2>3, <2>4, <2>5, Zenon DEF Nibble
  <2> QED BY <2>2, <2>3, <2>4, <2>5, <2>6, Zenon
<1>2. PICK v \in 0 .. 15 : v = Nibble(crc, k) /\ v = 8 * a + 4 * b + 2 * c + d
  BY <1>1
<1> DEFINE bit(q) == (v \div q) % 2
<1>3. /\ bit(1) = d /\ bit(2) = c /\ bit(4) = b /\ bit(8) = a
      /\ bit(16) = 0 /\ bit(32) = 0 /\ bit(64) = 0 /\ bit(128) = 0
  BY <1>1, <1>2, SMTT(30)
<1>4. 2^0 = 1 /\ 2^1 = 2 /\ 2^2 = 4 /\ 2^3 = 8 /\ 2^4 = 16 /\ 2^5 = 32 /\ 2^6 = 64 /\ 2^7 = 128
  OBVIOUS
<1>5. \A j : j \in Bits(v) <=> j \in 0 .. 7 /\ bit(2^j) = 1
  BY Zenon DEF Bits
<1> HIDE DEF bit
<1>6. /\ 0 \in Bits(v) <=> d = 1
      /\ 1 \in Bits(v) <=> c = 1
      /\ 2 \in Bits(v) <=> b = 1
      /\ 3 \in Bits(v) <=> a = 1
  <2>1. bit(2^0) = d /\ bit(2^1) = c /\ bit(2^2) = b /\ bit(2^3) = a
    BY <1>3, <1>4, Zenon
  <2>2. 0 \in 0 .. 7 /\ 1 \in 0 .. 7 /\ 2 \in 0 .. 7 /\ 3 \in 0 .. 7
    OBVIOUS
  <2> QED BY <1>5, <2>1, <2>2, Zenon
<1>7. 4 \notin Bits(v) /\ 5 \notin Bits(v) /\ 6 \notin Bits(v) /\ 7 \notin Bits(v)
  <2>1. bit(2^4) = 0 /\ bit(2^5) = 0 /\ bit(2^6) = 0 /\ bit(2^7) = 0
    BY <1>3, <1>4, Zenon
  <2>2. 0 # 1
    OBVIOUS
  <2> QED BY <1>5, <2>1, <2>2, Zenon
<1>8. \A j : j \in Bits(v) => j \in 0 .. 7
  BY <1>5, Zenon
<1>9. k + 0 = k
  OBVIOUS
<1>10. \A j : j \in Bits(v) <=> j \in 0 .. 3 /\ k + j \in crc
  BY <1>1, <1>6, <1>7, <1>8, <1>9
<1> QED
  BY <1>2, <1>10, Zenon

\* The digits that upperHex4 writes stand for the register.
LEMMA HexReads ==
  ASSUME NEW w \in Word
  PROVE  FromHex(Hex4(w)) = w
<1> DEFINE byte(d) == IF d < 10 THEN 48 + d ELSE 55 + d
           h == Hex4(w)
<1>1. h = <<byte(Nibble(w, 12)), byte(Nibble(w, 8)), byte(Nibble(w, 4)), byte(Nibble(w, 0))>>
  BY DEF Hex4, Nibble
<1>2. \A k : Nibble(w, k) \in 0 .. 15
  BY DEF Nibble
<1>3. \A d \in 0 .. 15 : HexValue(byte(d)) = d
  BY DEF HexValue, IsDigit
<1> HIDE DEF byte
<1>4. \A a, b, c, d : LET t == <<a, b, c, d>> IN t[1] = a /\ t[2] = b /\ t[3] = c /\ t[4] = d
  OBVIOUS
<1>5. /\ HexValue(h[1]) = Nibble(w, 12) /\ HexValue(h[2]) = Nibble(w, 8)
      /\ HexValue(h[3]) = Nibble(w, 4) /\ HexValue(h[4]) = Nibble(w, 0)
  <2>1. \A k : HexValue(byte(Nibble(w, k))) = Nibble(w, k)
    BY <1>2, <1>3, Zenon
  <2>2. /\ h[1] = byte(Nibble(w, 12)) /\ h[2] = byte(Nibble(w, 8))
        /\ h[3] = byte(Nibble(w, 4)) /\ h[4] = byte(Nibble(w, 0))
    <3> HIDE DEF h
    <3> QED BY <1>1, <1>4
  <2> QED BY <2>1, <2>2, Zenon
<1> HIDE DEF h
<1> DEFINE part(k) == Shifted(Bits(HexValue(h[k])), 16 - 4 * k)
<1>6. ASSUME NEW k \in 1 .. 4
      PROVE  \A i : i \in part(k) <=> i \in 16 - 4 * k .. 19 - 4 * k /\ i \in w
  <2>1. PICK m \in Nat : m = 16 - 4 * k
    OBVIOUS
  <2>2. HexValue(h[k]) = Nibble(w, m)
    <3>1. \/ k = 1 /\ m = 12
          \/ k = 2 /\ m = 8
          \/ k = 3 /\ m = 4
          \/ k = 4 /\ m = 0
      BY <2>1
    <3> QED BY <1>5, <3>1, Zenon
  <2>3. PICK B : B = Bits(HexValue(h[k])) /\ \A j : j \in B <=> j \in 0 .. 3 /\ m + j \in w
    BY <2>2, NibbleBits, Zenon
  <2>4. Shifted(B, m) = {i \in m .. m + 3 : i \in w}
    <3>1. Shifted(B, m) = {j + m : j \in B}
      BY DEF Shifted
    <3>2. ASSUME NEW j \in B PROVE j + m \in m .. m + 3 /\ j + m \in w
      BY <2>3
    <3>3. ASSUME NEW i \in m .. m + 3, i \in w PROVE i - m \in B /\ i = (i - m) + m
      BY <2>3, <3>3
    <3> QED BY <3>1, <3>2, <3>3
  <2>5. part(k) = Shifted(B, m)
    BY <2>1, <2>3, Zenon
  <2>6. m + 3 = 19 - 4 * k
    BY <2>1
  <2> QED BY <2>1, <2>4, <2>5, <2>6
<1>7. FromHex(h) = UNION {part(k) : k \in 1 .. 4}
  BY Zenon DEF FromHex
<1> HIDE DEF part
<1>8. ASSUME NEW i \in w PROVE \E k \in 1 .. 4 : i \in part(k)
  <2>1. i \in 0 .. 15
    BY DEF Word
  <2>2. \E k \in 1 .. 4 : i \in 16 - 4 * k .. 19 - 4 * k
    <3>1. i \in 16 - 4 * 1 .. 19 - 4 * 1 \/ i \in 16 - 4 * 2 .. 19 - 4 * 2
          \/ i \in 16 - 4 * 3 .. 19 - 4 * 3 \/ i \in 16 - 4 * 4 .. 19 - 4 * 4
      BY <2>1
    <3> QED BY <3>1
  <2> QED BY <1>6, <2>2, Zenon
<1>9. \A i : i \in UNION {part(k) : k \in 1 .. 4} <=> i \in w
  <2>1. \A i : i \in UNION {part(k) : k \in 1 .. 4} <=> \E k \in 1 .. 4 : i \in part(k)
    BY Zenon
  <2> QED BY <1>6, <1>8, <2>1, Zenon
<1> QED
  BY <1>7, <1>9, Zenon DEF h

\* The last four bytes of a text that Convert has written stand for the
\* remainder of the bytes before them.
LEMMA SealedRemainder ==
  ASSUME NEW r \in Seq(Sound), NEW qr, qr = Sealed(r)
  PROVE  FromHex(SubSeq(qr, Len(qr) - 3, Len(qr))) = Remainder(SubSeq(qr, 1, Len(qr) - 4))
<1>1. qr \in Text
  BY SealedChecks
<1>2. PICK i : i = SubSeq(qr, 1, Len(qr) - 4)
  OBVIOUS
<1>3. i \in Text
  <2>1. Len(qr) - 4 \in Int /\ Len(qr) - 4 <= Len(qr) /\ 1 \in Nat \ {0}
    BY <1>1, TextByte
  <2> QED BY <1>1, <1>2, <2>1, TextSub
<1>4. SubSeq(qr, Len(qr) - 3, Len(qr)) = Hex4(CRC16(i))
  BY <1>2, SealedChecks, Zenon DEF Checksum
<1>5. CRC16(i) \in Word
  <2>1. (0 .. 15) \in Word
    BY DEF Word
  <2> QED BY <1>3, <2>1, AfterType, Zenon DEF CRC16, After
<1>6. FromHex(Hex4(CRC16(i))) = CRC16(i)
  BY <1>5, HexReads, Zenon
<1>7. CRC16(i) = Remainder(i)
  BY <1>3, RegisterIsRemainder, Zenon
<1> QED
  BY <1>2, <1>4, <1>6, <1>7, Zenon

\* A text in three parts, of which the second are two bytes.
Around(a, x, y, c) == (a \o <<x, y>>) \o c

LEMMA AroundType ==
  ASSUME NEW a \in Text, NEW c \in Text, NEW k \in Byte, NEW l \in Byte
  PROVE  /\ <<k, l>> \in Text /\ Around(a, k, l, c) \in Text
         /\ Len(Around(a, k, l, c)) = Len(a) + 2 + Len(c)
<1>1. PICK s \in Text : s = <<k, l>> /\ Len(s) = 2
  BY MessageTwo DEF Byte
<1>2. PICK u \in Text : u = a \o s /\ Len(u) = Len(a) + 2
  BY <1>1, TextConcat, ZenonT(60)
<1>3. u \o c \in Text /\ Len(u \o c) = Len(u) + Len(c)
  BY TextConcat
<1> QED
  BY <1>1, <1>2, <1>3, SMTT(30) DEF Around

LEMMA AroundAfter ==
  ASSUME NEW crc \in Word, NEW a \in Text, NEW c \in Text, NEW k \in Byte, NEW l \in Byte
  PROVE  After(crc, Around(a, k, l, c)) = After(After(After(crc, a), <<k, l>>), c)
<1>1. PICK s \in Text : s = <<k, l>>
  BY AroundType
<1>2. PICK u \in Text : u = a \o s
  BY TextConcat
<1>3. After(crc, u \o c) = After(After(crc, u), c)
  BY AfterConcat
<1>4. After(crc, a \o s) = After(After(crc, a), s)
  BY AfterConcat
<1> QED
  BY <1>1, <1>2, <1>3, <1>4 DEF Around

(* CalculateCRC16: two texts that differ in one byte, or in two bytes next *)
(* to each other as when they are swapped, never have the same checksum,   *)
(* whatever stands before and after them.                                  *)
THEOREM NeighboursShow ==
  ASSUME NEW a \in Text, NEW c \in Text,
         NEW k \in Byte, NEW l \in Byte, NEW m \in Byte, NEW n \in Byte,
         Checksum(Around(a, k, l, c)) = Checksum(Around(a, m, n, c))
  PROVE  k = m /\ l = n
<1>1. PICK crc \in Word : crc = 0 .. 15
  BY DEF Word
<1>2. PICK r \in Word : r = After(crc, a)
  BY AfterType
<1>3. After(r, <<k, l>>) \in Word /\ After(r, <<m, n>>) \in Word
  BY AroundType, AfterType
<1>4. PICK s \in Text, t \in Text : s = Around(a, k, l, c) /\ t = Around(a, m, n, c)
  BY AroundType
<1>5. After(crc, s) = After(crc, t)
  <2>1. After(crc, s) = CRC16(s) /\ After(crc, t) = CRC16(t)
    BY <1>1 DEF CRC16, After
  <2>2. Hex4(CRC16(s)) = Hex4(CRC16(t))
    BY <1>4 DEF Checksum
  <2>3. After(crc, s) \in Word /\ After(crc, t) \in Word
    BY AfterType
  <2> QED BY <2>1, <2>2, <2>3, HexInjective
<1>6. After(After(r, <<k, l>>), c) = After(After(r, <<m, n>>), c)
  BY <1>2, <1>4, <1>5, AroundAfter
<1>7. After(r, <<k, l>>) = After(r, <<m, n>>)
  BY <1>3, <1>6, AfterInjective
<1> QED
  BY <1>7, PairInjective
\* A text as Validate reads it that ends with its checksum.
LEMMA SealHolds ==
  ASSUME NEW s \in Text, NEW e \in Text, Len(e) = 4, TrimSpace(s \o e) = s \o e, Valid(s \o e)
  PROVE  Checksum(s) = Upper(e)
<1>1. PICK t \in Text, n \in Nat :
        /\ t = s \o e /\ n = Len(s) /\ Len(t) = n + 4
        /\ \A i \in 1 .. n : t[i] = s[i]
        /\ \A i \in 1 .. 4 : t[n + i] = e[i]
  <2>1. PICK n \in Nat : n = Len(s)
    BY TextByte
  <2>2. /\ s \o e \in Text /\ Len(s \o e) = Len(s) + Len(e)
        /\ \A i \in 1 .. Len(s) : (s \o e)[i] = s[i]
        /\ \A i \in 1 .. Len(e) : (s \o e)[Len(s) + i] = e[i]
    BY TextConcat
  <2>3. /\ s \o e \in Text /\ Len(s \o e) = n + 4
        /\ \A i \in 1 .. n : (s \o e)[i] = s[i]
        /\ \A i \in 1 .. 4 : (s \o e)[n + i] = e[i]
    BY <2>1, <2>2, Zenon
  <2> QED BY <2>1, <2>3, Zenon
<1>2. Checksum(SubSeq(t, 1, Len(t) - 4)) = Upper(SubSeq(t, Len(t) - 3, Len(t)))
  BY <1>1, Zenon DEF Valid
<1>3. Len(t) - 4 = n /\ Len(t) - 3 = n + 1
  BY <1>1
<1>4. SubSeq(t, 1, n) = s
  <2>1. n = 1 + Len(s) - 1 /\ n <= Len(t) /\ \A i \in 1 .. Len(s) : t[1 + i - 1] = s[i]
    BY <1>1
  <2> QED BY <2>1, Slice
<1>5. SubSeq(t, n + 1, n + 4) = e
  <2>1. /\ n + 1 \in Nat \ {0} /\ n + 4 \in Nat /\ n + 4 = (n + 1) + Len(e) - 1 /\ n + 4 <= Len(t)
        /\ \A i \in 1 .. Len(e) : t[(n + 1) + i - 1] = e[i]
    <3>1. \A i \in 1 .. 4 : (n + 1) + i - 1 = n + i
      OBVIOUS
    <3> QED BY <1>1, <3>1
  <2> QED BY <2>1, Slice
<1> QED
  BY <1>1, <1>2, <1>3, <1>4, <1>5, Zenon

(* Validate ("CRC mismatch"): of a text that it accepts, no copy in which  *)
(* one byte before the checksum is wrong, or two that stand next to each   *)
(* other, is accepted, for texts without white space around them.          *)
THEOREM WrongBytesRefused ==
  ASSUME NEW a \in Text, NEW c \in Text, NEW e \in Text, Len(e) = 4,
         NEW k \in Byte, NEW l \in Byte, NEW m \in Byte, NEW n \in Byte, k # m \/ l # n,
         TrimSpace(Around(a, k, l, c) \o e) = Around(a, k, l, c) \o e,
         TrimSpace(Around(a, m, n, c) \o e) = Around(a, m, n, c) \o e,
         Valid(Around(a, k, l, c) \o e)
  PROVE  ~Valid(Around(a, m, n, c) \o e)
<1> SUFFICES ASSUME Valid(Around(a, m, n, c) \o e) PROVE FALSE
  OBVIOUS
<1>1. PICK s \in Text, t \in Text : s = Around(a, k, l, c) /\ t = Around(a, m, n, c)
  BY AroundType
<1>2. Checksum(s) = Upper(e) /\ Checksum(t) = Upper(e)
  BY <1>1, SealHolds
<1> QED
  BY <1>1, <1>2, NeighboursShow
=============================================================================
