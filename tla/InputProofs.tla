------------------------------ MODULE InputProofs ------------------------------
(***************************************************************************)
(* Theorems about what comes into the server from outside and how it is read:    *)
(* Framing, for any packets of a robot and any portions in which TCP delivers    *)
(* them, HttpControl, for any CGI processes, requests and robots, Kmp, for any   *)
(* texts and patterns, and Text, for any strings, bytes and numbers.             *)
(***************************************************************************)
EXTENDS Framing, HttpControl, Kmp, Text, SequenceTheorems, WellFoundedInduction, TLAPS

-----------------------------------------------------------------------------
(* Induction: the numbers that have a property are a set                    *)

LEMMA Least ==
  ASSUME NEW T, T \subseteq Nat, T # {}
  PROVE  \E i_1 \in T : \A j \in T : i_1 <= j
<1> DEFINE R == OpToRel(<, Nat)
<1>1. \A m, j \in Nat : m < j => <<m, j>> \in R
  BY ZenonT(20) DEF OpToRel
<1>2. IsWellFoundedOn(R, Nat)
  BY NatLessThanWellFounded, Zenon
<1>3. PICK m \in T : \A j \in T : <<j, m>> \notin R
  <2> HIDE DEF R
  <2> QED
    BY <1>2, WFMin
<1> HIDE DEF R
<1>4. ASSUME NEW j \in T PROVE m <= j
  <2>1. m \in Nat /\ j \in Nat
    OBVIOUS
  <2>2. ~(j < m)
    BY <1>1, <1>3, <2>1, Zenon
  <2> QED
    BY <2>1, <2>2
<1> QED
  BY <1>4

\* Induction, with the set of the numbers that have the property.
LEMMA Counts ==
  ASSUME NEW m \in Nat, NEW T, 0 \in T, \A n \in 0..m - 1 : n \in T => n + 1 \in T
  PROVE  \A n \in 0..m : n \in T
<1> SUFFICES ASSUME {n \in 0..m : n \notin T} # {} PROVE FALSE
  OBVIOUS
<1>1. PICK n \in {k \in 0..m : k \notin T} : \A k \in {j \in 0..m : j \notin T} : n <= k
  <2>1. {n \in 0..m : n \notin T} \subseteq Nat
    OBVIOUS
  <2> QED
    BY <2>1, Least
<1>2. n # 0 /\ n - 1 \in 0..m - 1 /\ n - 1 \in 0..m
  BY <1>1
<1>3. n - 1 \in T
  BY <1>1, <1>2
<1>4. (n - 1) + 1 \in T
  BY <1>2, <1>3
<1> QED
  BY <1>1, <1>2, <1>4

(***************************************************************************)
(* FlattenSeq: a recursive function, which exists and is one               *)

Joins(g, s, m) == g = [k \in 1..m |-> IF k = 1 THEN s[k] ELSE g[k - 1] \o s[k]]

LEMMA JoinsExists ==
  ASSUME NEW s, NEW m \in Nat
  PROVE  \E g : Joins(g, s, m)
<1> DEFINE T == {n \in Nat : \E g : Joins(g, s, n)}
<1>1. 0 \in T
  <2>1. Joins([k \in 1..0 |-> s[k]], s, 0)
    BY DEF Joins
  <2> QED
    BY <2>1
<1>2. ASSUME NEW n \in 0..m - 1, n \in T PROVE n + 1 \in T
  <2>1. PICK g : Joins(g, s, n)
    BY <1>2
  <2> DEFINE h == [k \in 1..n + 1 |-> IF k <= n THEN g[k] ELSE IF k = 1 THEN s[k] ELSE g[k - 1] \o s[k]]
  <2>2. ASSUME NEW k \in 1..n + 1 PROVE h[k] = IF k = 1 THEN s[k] ELSE h[k - 1] \o s[k]
    <3>1. CASE k <= n
      <4>1. h[k] = g[k] /\ k \in 1..n /\ (k # 1 => h[k - 1] = g[k - 1])
        BY <3>1
      <4>2. g[k] = IF k = 1 THEN s[k] ELSE g[k - 1] \o s[k]
        BY <2>1, <4>1 DEF Joins
      <4> QED
        BY <4>1, <4>2
    <3>2. CASE ~(k <= n)
      <4>1. k = n + 1 /\ (k # 1 => k - 1 \in 1..n + 1 /\ k - 1 <= n)
        BY <3>2
      <4> QED
        BY <3>2, <4>1
    <3> QED
      BY <3>1, <3>2
  <2>3. Joins(h, s, n + 1)
    <3>1. h = [k \in 1..n + 1 |-> h[k]]
      OBVIOUS
    <3> HIDE DEF h
    <3> QED
      BY <2>2, <3>1 DEF Joins
  <2> QED
    BY <2>3
<1> HIDE DEF T
<1>3. m \in T
  BY <1>1, <1>2, Counts
<1> QED
  BY <1>3 DEF T

\* The first n values are those that the definition gives, and so there is one such function.
Chain(g, s, n) == \A k \in 1..n : g[k] = IF k = 1 THEN s[k] ELSE g[k - 1] \o s[k]

LEMMA ChainIsOne ==
  ASSUME NEW s, NEW g, NEW h, NEW n \in Nat, Chain(g, s, n), Chain(h, s, n)
  PROVE  \A k \in 1..n : g[k] = h[k]
<1> DEFINE T == {k \in Nat : k \in 1..n => g[k] = h[k]}
<1>1. 0 \in T
  OBVIOUS
<1>2. ASSUME NEW k \in 0..n - 1, k \in T PROVE k + 1 \in T
  <2>1. k + 1 \in 1..n /\ (k + 1) - 1 = k /\ (k + 1 # 1 => k \in 1..n)
    OBVIOUS
  <2>2. g[k + 1] = IF k + 1 = 1 THEN s[k + 1] ELSE g[(k + 1) - 1] \o s[k + 1]
    BY <2>1 DEF Chain
  <2>3. h[k + 1] = IF k + 1 = 1 THEN s[k + 1] ELSE h[(k + 1) - 1] \o s[k + 1]
    BY <2>1 DEF Chain
  <2> QED
    BY <1>2, <2>1, <2>2, <2>3
<1> HIDE DEF T
<1>3. \A k \in 0..n : k \in T
  BY <1>1, <1>2, Counts
<1>4. \A k \in 1..n : k \in T
  BY <1>3
<1> QED
  BY <1>4 DEF T

\* FlattenSeq is the last value of that function.
LEMMA FlattenIsLast ==
  ASSUME NEW s, Len(s) \in Nat, Len(s) # 0
  PROVE  \E g : Joins(g, s, Len(s)) /\ FlattenSeq(s) = g[Len(s)]
<1> DEFINE g == CHOOSE h : h = [k \in 1..Len(s) |-> IF k = 1 THEN s[k] ELSE h[k - 1] \o s[k]]
<1>1. FlattenSeq(s) = g[Len(s)]
  BY DEF FlattenSeq
<1>2. Joins(g, s, Len(s))
  BY JoinsExists DEF Joins
<1> QED
  BY <1>1, <1>2

(***************************************************************************)
(* The bytes before a packet                                               *)

\* The bytes of the first n packets.
Pre(s, n) == FlattenSeq(SubSeq(s, 1, n))

LEMMA PreSteps ==
  ASSUME NEW S, NEW s \in Seq(Seq(S))
  PROVE  /\ Pre(s, 0) = <<>>
         /\ \A n \in 0..Len(s) - 1 : Pre(s, n) \in Seq(S) => Pre(s, n + 1) = Pre(s, n) \o s[n + 1]
         /\ Pre(s, Len(s)) = FlattenSeq(s)
<1>0. Len(s) \in Nat /\ \A k \in 1..Len(s) : s[k] \in Seq(S)
  OBVIOUS
<1>1. ASSUME NEW n \in 0..Len(s)
      PROVE  /\ Len(SubSeq(s, 1, n)) = n
             /\ \A k \in 1..n : SubSeq(s, 1, n)[k] = s[k]
             /\ n # 0 => \E g : Joins(g, SubSeq(s, 1, n), n) /\ Pre(s, n) = g[n]
  <2>1. ASSUME NEW k \in 1..n PROVE s[k] \in Seq(S)
    BY <1>0
  <2>2. Len(SubSeq(s, 1, n)) = n /\ \A k \in 1..n : SubSeq(s, 1, n)[k] = s[k]
    BY <1>0
  <2>3. ASSUME n # 0 PROVE \E g : Joins(g, SubSeq(s, 1, n), n) /\ Pre(s, n) = g[n]
    <3> DEFINE t == SubSeq(s, 1, n)
    <3>1. Len(t) = n /\ Len(t) \in Nat /\ Len(t) # 0
      BY <2>2, <2>3
    <3>2. Pre(s, n) = FlattenSeq(t)
      BY DEF Pre
    <3> HIDE DEF t
    <3>3. PICK g : Joins(g, t, Len(t)) /\ FlattenSeq(t) = g[Len(t)]
      BY <3>1, FlattenIsLast
    <3>4. Joins(g, t, n) /\ Pre(s, n) = g[n]
      BY <3>1, <3>2, <3>3
    <3> QED
      BY <3>4 DEF t
  <2> QED
    BY <2>2, <2>3
<1>2. Pre(s, 0) = <<>>
  <2>1. SubSeq(s, 1, 0) = <<>>
    BY <1>0
  <2> QED
    BY <2>1 DEF Pre, FlattenSeq
<1>3. ASSUME NEW n \in 0..Len(s) - 1, Pre(s, n) \in Seq(S)
      PROVE  Pre(s, n + 1) = Pre(s, n) \o s[n + 1]
  <2>1. n + 1 \in 0..Len(s) /\ n \in 0..Len(s) /\ n + 1 # 0
    BY <1>0
  <2>2. PICK g : Joins(g, SubSeq(s, 1, n + 1), n + 1) /\ Pre(s, n + 1) = g[n + 1]
    BY <1>1, <2>1
  <2>3. SubSeq(s, 1, n + 1)[n + 1] = s[n + 1] /\ n + 1 \in 1..n + 1
    BY <1>1, <2>1
  <2>4. CASE n = 0
    <3>1. Pre(s, n + 1) = s[n + 1]
      BY <2>2, <2>3, <2>4 DEF Joins
    <3>2. s[n + 1] \in Seq(S)
      BY <1>0, <2>4
    <3> QED
      BY <1>2, <2>4, <3>1, <3>2
  <2>5. CASE n # 0
    <3>1. PICK h : Joins(h, SubSeq(s, 1, n), n) /\ Pre(s, n) = h[n]
      BY <1>1, <2>1, <2>5
    <3>3. n \in Nat /\ n \in 1..n
      BY <2>5
    <3>4. g[n] = h[n]
      <4>1. Chain(g, s, n)
        <5>1. \A k \in 1..n + 1 : g[k] = IF k = 1 THEN SubSeq(s, 1, n + 1)[k] ELSE g[k - 1] \o SubSeq(s, 1, n + 1)[k]
          BY <2>2 DEF Joins
        <5>2. \A k \in 1..n : k \in 1..n + 1 /\ SubSeq(s, 1, n + 1)[k] = s[k]
          BY <1>1, <2>1
        <5> QED
          BY <5>1, <5>2 DEF Chain
      <4>2. Chain(h, s, n)
        <5>1. \A k \in 1..n : h[k] = IF k = 1 THEN SubSeq(s, 1, n)[k] ELSE h[k - 1] \o SubSeq(s, 1, n)[k]
          BY <3>1 DEF Joins
        <5>2. \A k \in 1..n : SubSeq(s, 1, n)[k] = s[k]
          BY <1>1, <2>1
        <5> QED
          BY <5>1, <5>2 DEF Chain
      <4>3. \A k \in 1..n : g[k] = h[k]
        BY <3>3, <4>1, <4>2, ChainIsOne
      <4> QED
        BY <3>3, <4>3
    <3>5. g[n + 1] = g[n] \o SubSeq(s, 1, n + 1)[n + 1]
      <4>1. \A j \in 1..n + 1 : g[j] = IF j = 1 THEN SubSeq(s, 1, n + 1)[j] ELSE g[j - 1] \o SubSeq(s, 1, n + 1)[j]
        BY <2>2 DEF Joins
      <4>2. (n + 1) - 1 = n /\ n + 1 # 1
        BY <2>5
      <4>3. g[n + 1] = g[(n + 1) - 1] \o SubSeq(s, 1, n + 1)[n + 1]
        BY <2>3, <4>1, <4>2
      <4> QED
        BY <4>2, <4>3
    <3> QED
      BY <2>2, <2>3, <3>1, <3>4, <3>5
  <2> QED
    BY <2>4, <2>5
<1>4. Pre(s, Len(s)) = FlattenSeq(s)
  <2>1. SubSeq(s, 1, Len(s)) = s
    BY <1>0
  <2> QED
    BY <2>1 DEF Pre
<1> QED
  BY <1>2, <1>3, <1>4

\* The first n packets are bytes of the stream's kind.
LEMMA PreIsSeq ==
  ASSUME NEW S, NEW s \in Seq(Seq(S))
  PROVE  \A n \in 0..Len(s) : Pre(s, n) \in Seq(S)
<1> DEFINE T == {n \in Nat : Pre(s, n) \in Seq(S)}
<1>0. Len(s) \in Nat /\ \A k \in 1..Len(s) : s[k] \in Seq(S)
  OBVIOUS
<1>1. 0 \in T
  <2>1. Pre(s, 0) = <<>>
    BY PreSteps
  <2>2. <<>> \in Seq(S)
    OBVIOUS
  <2> QED
    BY <2>1, <2>2
<1>2. ASSUME NEW n \in 0..Len(s) - 1, n \in T PROVE n + 1 \in T
  <2>1. Pre(s, n + 1) = Pre(s, n) \o s[n + 1] /\ s[n + 1] \in Seq(S) /\ Pre(s, n) \in Seq(S)
    BY <1>0, <1>2, PreSteps
  <2>2. Pre(s, n + 1) \in Seq(S)
    BY <2>1, ConcatProperties
  <2> QED
    BY <1>0, <2>2
<1> HIDE DEF T
<1>3. \A n \in 0..Len(s) : n \in T
  BY <1>0, <1>1, <1>2, Counts
<1> QED
  BY <1>3 DEF T

\* Where a packet begins: after the packets before it.
LEMMA StartIsPre ==
  ASSUME NEW n \in Nat
  PROVE  StartOf(n + 1) = Len(Pre(stream, n))
<1>1. (n + 1) - 1 = n
  OBVIOUS
<1> QED
  BY <1>1 DEF StartOf, Pre

\* Every packet lies in the bytes of the stream at its place, behind the packets before
\* it; and every byte of the stream is a byte of some packet.
LEMMA Places ==
  ASSUME NEW S, stream \in Seq(Seq(S))
  PROVE  /\ FlattenSeq(stream) \in Seq(S)
         /\ \A n \in 1..Len(stream) : StartOf(n) \in Nat /\ StartOf(n) + Len(stream[n]) <= Len(FlattenSeq(stream))
         /\ \A n \in 1..Len(stream) : \A k \in 1..Len(stream[n]) : FlattenSeq(stream)[StartOf(n) + k] = stream[n][k]
         /\ \A n \in 1..Len(stream) : \A m \in 1..n - 1 : StartOf(m) + Len(stream[m]) <= StartOf(n)
         /\ \A n \in 1..Len(stream) - 1 : StartOf(n + 1) = StartOf(n) + Len(stream[n])
         /\ Len(stream) # 0 => Len(FlattenSeq(stream)) = StartOf(Len(stream)) + Len(stream[Len(stream)])
         /\ \A x \in 1..Len(FlattenSeq(stream)) :
              \E n \in 1..Len(stream) : \E k \in 1..Len(stream[n]) : x = StartOf(n) + k
<1> DEFINE N == Len(stream)
           len(n) == Len(Pre(stream, n))
<1>0. N \in Nat /\ \A n \in 1..N : stream[n] \in Seq(S) /\ Len(stream[n]) \in Nat
  OBVIOUS
<1>1. \A n \in 0..N : Pre(stream, n) \in Seq(S) /\ len(n) \in Nat
  BY PreIsSeq
<1>2. \A n \in 0..N - 1 : Pre(stream, n + 1) = Pre(stream, n) \o stream[n + 1]
  <2>1. ASSUME NEW n \in 0..N - 1 PROVE Pre(stream, n + 1) = Pre(stream, n) \o stream[n + 1]
    <3>1. Pre(stream, n) \in Seq(S)
      BY <1>0, <1>1
    <3> QED
      BY <3>1, PreSteps
  <2> QED
    BY <2>1
<1>3. ASSUME NEW n \in 0..N - 1
      PROVE  /\ len(n + 1) = len(n) + Len(stream[n + 1])
             /\ \A k \in 1..len(n) : Pre(stream, n + 1)[k] = Pre(stream, n)[k]
             /\ \A k \in 1..Len(stream[n + 1]) : Pre(stream, n + 1)[len(n) + k] = stream[n + 1][k]
  <2>1. PICK a, b : a = Pre(stream, n) /\ b = stream[n + 1] /\ a \in Seq(S) /\ b \in Seq(S)
    BY <1>0, <1>1
  <2>2. /\ Len(a \o b) = Len(a) + Len(b)
        /\ \A k \in 1..Len(a) : (a \o b)[k] = a[k]
        /\ \A k \in 1..Len(b) : (a \o b)[Len(a) + k] = b[k]
    BY <2>1
  <2>3. Pre(stream, n + 1) = a \o b
    BY <1>2, <2>1
  <2> QED
    BY <2>1, <2>2, <2>3
<1>4. FlattenSeq(stream) = Pre(stream, N)
  BY PreSteps
<1>5. ASSUME NEW n \in 1..N PROVE StartOf(n) = len(n - 1)
  <2>1. n - 1 \in Nat /\ (n - 1) + 1 = n
    OBVIOUS
  <2>2. StartOf((n - 1) + 1) = Len(Pre(stream, n - 1))
    BY <2>1, StartIsPre
  <2> QED
    BY <2>1, <2>2
<1> DEFINE Lies(n, m) == /\ len(m - 1) + Len(stream[m]) <= len(n)
                         /\ \A k \in 1..Len(stream[m]) : Pre(stream, n)[len(m - 1) + k] = stream[m][k]
           From(n) == \A x \in 1..len(n) : \E m \in 1..n : \E k \in 1..Len(stream[m]) : x = len(m - 1) + k
           T == {n \in 0..N : (\A m \in 1..n : Lies(n, m)) /\ From(n)}
<1> HIDE DEF len
<1>6. 0 \in T
  <2>1. len(0) = 0
    BY PreSteps DEF len
  <2> QED
    BY <1>0, <2>1
<1>7. ASSUME NEW n \in 0..N - 1, n \in T PROVE n + 1 \in T
  <2>0. /\ len(n) \in Nat /\ len(n + 1) \in Nat /\ Len(stream[n + 1]) \in Nat
        /\ len(n + 1) = len(n) + Len(stream[n + 1])
    <3>1. n \in 0..N /\ n + 1 \in 0..N /\ n + 1 \in 1..N
      BY <1>0
    <3> QED
      BY <1>0, <1>1, <1>3, <3>1
  <2>1. ASSUME NEW m \in 1..n + 1 PROVE Lies(n + 1, m)
    <3>1. CASE m = n + 1
      <4>1. m - 1 = n
        BY <3>1
      <4> QED
        BY <1>0, <1>1, <1>3, <3>1, <4>1
    <3>2. CASE m \in 1..n
      <4>1. Lies(n, m) /\ m - 1 \in 0..N /\ m \in 1..N
        BY <1>7, <3>2
      <4>0. len(m - 1) \in Nat /\ Len(stream[m]) \in Nat /\ len(m - 1) + Len(stream[m]) <= len(n)
        BY <1>0, <1>1, <4>1
      <4>2. \A k \in 1..Len(stream[m]) : len(m - 1) + k \in 1..len(n)
        <5>1. PICK p, q, l \in Nat : p = len(m - 1) /\ q = Len(stream[m]) /\ l = len(n)
          BY <2>0, <4>0
        <5>2. p + q <= l
          BY <4>0, <5>1
        <5>3. \A k \in 1..q : p + k \in 1..l
          BY ONLY p \in Nat, q \in Nat, l \in Nat, <5>2
        <5> SUFFICES ASSUME NEW k \in 1..Len(stream[m]) PROVE len(m - 1) + k \in 1..len(n)
          OBVIOUS
        <5>4. k \in 1..q
          <6>1. q = Len(stream[m])
            BY <5>1, Zenon
          <6> QED
            BY <6>1, Zenon
        <5>5. p + k \in 1..l
          BY ONLY <5>3, <5>4
        <5> QED
          BY ONLY <5>1, <5>5
      <4>4. len(m - 1) + Len(stream[m]) <= len(n + 1)
        <5>1. len(n) <= len(n + 1)
          BY ONLY <2>0
        <5> QED
          BY ONLY <2>0, <4>0, <5>1
      <4>5. \A k \in 1..Len(stream[m]) : Pre(stream, n + 1)[len(m - 1) + k] = stream[m][k]
        BY <1>3, <4>1, <4>2
      <4> QED
        BY <4>4, <4>5
    <3> QED
      BY <3>1, <3>2
  <2>2. From(n + 1)
    <3> SUFFICES ASSUME NEW x \in 1..len(n + 1)
                 PROVE  \E m \in 1..n + 1 : \E k \in 1..Len(stream[m]) : x = len(m - 1) + k
      OBVIOUS
    <3>1. CASE x <= len(n)
      <4>1. x \in 1..len(n)
        BY <2>0, <3>1
      <4>2. PICK m \in 1..n : \E k \in 1..Len(stream[m]) : x = len(m - 1) + k
        BY <1>7, <4>1
      <4>3. m \in 1..n + 1
        OBVIOUS
      <4> QED
        BY <4>2, <4>3, Zenon
    <3>2. CASE ~(x <= len(n))
      <4>1. x - len(n) \in 1..Len(stream[n + 1]) /\ x = len(n) + (x - len(n))
        <5>1. PICK p, q, l \in Nat : p = len(n + 1) /\ q = Len(stream[n + 1]) /\ l = len(n)
          BY <2>0
        <5>2. p = l + q /\ x \in 1..p /\ ~(x <= l)
          BY <2>0, <3>2, <5>1
        <5>3. x - l \in 1..q /\ x = l + (x - l)
          BY ONLY p \in Nat, q \in Nat, l \in Nat, <5>2
        <5> QED
          BY ONLY <5>1, <5>3
      <4>2. (n + 1) - 1 = n /\ n + 1 \in 1..n + 1
        OBVIOUS
      <4> QED
        BY <4>1, <4>2
    <3> QED
      BY <3>1, <3>2
  <2>3. n + 1 \in 0..N
    BY <1>0
  <2> QED
    BY <2>1, <2>2, <2>3
<1> HIDE DEF T
<1>8. \A n \in 0..N : n \in T
  BY <1>0, <1>6, <1>7, Counts
<1>9. \A n \in 0..N : (\A m \in 1..n : Lies(n, m)) /\ From(n)
  BY <1>8 DEF T
<1> HIDE DEF Lies, From, N
<1>10. FlattenSeq(stream) \in Seq(S) /\ Len(FlattenSeq(stream)) = len(N) /\ N \in 0..N
  BY <1>0, <1>1, <1>4 DEF len
<1>11. \A n \in 1..N : StartOf(n) \in Nat /\ StartOf(n) + Len(stream[n]) <= Len(FlattenSeq(stream))
  <2> SUFFICES ASSUME NEW n \in 1..N PROVE StartOf(n) \in Nat /\ StartOf(n) + Len(stream[n]) <= Len(FlattenSeq(stream))
    OBVIOUS
  <2>1. Lies(N, n) /\ n - 1 \in 0..N
    BY <1>0, <1>9, <1>10
  <2> QED
    BY <1>1, <1>5, <1>10, <2>1 DEF Lies
<1>12. ASSUME NEW n \in 1..N, NEW k \in 1..Len(stream[n]) PROVE FlattenSeq(stream)[StartOf(n) + k] = stream[n][k]
  <2>1. Lies(N, n)
    BY <1>9, <1>10
  <2> QED
    BY <1>4, <1>5, <2>1 DEF Lies
<1>13. ASSUME NEW n \in 1..N, NEW m \in 1..n - 1 PROVE StartOf(m) + Len(stream[m]) <= StartOf(n)
  <2>1. n - 1 \in 0..N /\ m \in 1..N
    BY <1>0
  <2>2. Lies(n - 1, m)
    BY <1>9, <2>1
  <2> QED
    BY <1>5, <2>1, <2>2 DEF Lies
<1>14. ASSUME NEW n \in 1..N - 1 PROVE StartOf(n + 1) = StartOf(n) + Len(stream[n])
  <2>1. n \in 1..N /\ n + 1 \in 1..N /\ (n + 1) - 1 = n /\ n - 1 \in 0..N - 1 /\ (n - 1) + 1 = n
    BY <1>0
  <2>2. StartOf(n + 1) = len(n) /\ StartOf(n) = len(n - 1)
    BY <1>5, <2>1
  <2>3. len((n - 1) + 1) = len(n - 1) + Len(stream[(n - 1) + 1])
    BY <1>3, <2>1
  <2> QED
    BY <2>1, <2>2, <2>3
<1>15. ASSUME N # 0 PROVE Len(FlattenSeq(stream)) = StartOf(N) + Len(stream[N])
  <2>1. N \in 1..N /\ N - 1 \in 0..N - 1 /\ (N - 1) + 1 = N
    BY <1>0, <1>15
  <2>2. len((N - 1) + 1) = len(N - 1) + Len(stream[(N - 1) + 1])
    BY <1>3, <2>1
  <2>3. StartOf(N) = len(N - 1)
    BY <1>5, <2>1
  <2> QED
    BY <1>10, <2>1, <2>2, <2>3
<1>16. ASSUME NEW x \in 1..Len(FlattenSeq(stream))
       PROVE  \E n \in 1..N : \E k \in 1..Len(stream[n]) : x = StartOf(n) + k
  <2>1. From(N)
    BY <1>9, <1>10
  <2>2. PICK n \in 1..N : \E k \in 1..Len(stream[n]) : x = len(n - 1) + k
    BY <1>10, <2>1 DEF From
  <2> QED
    BY <1>5, <2>2
<1> QED
  BY <1>10, <1>11, <1>12, <1>13, <1>14, <1>15, <1>16 DEF N

-----------------------------------------------------------------------------
(* Sequences cut in two and made longer                                    *)

LEMMA CutInTwo ==
  ASSUME NEW S, NEW s \in Seq(S), NEW k \in 0..Len(s)
  PROVE  /\ SubSeq(s, 1, k) \in Seq(S) /\ Len(SubSeq(s, 1, k)) = k
         /\ \A j \in 1..k : SubSeq(s, 1, k)[j] = s[j]
         /\ SubSeq(s, k + 1, Len(s)) \in Seq(S) /\ Len(SubSeq(s, k + 1, Len(s))) = Len(s) - k
         /\ \A j \in 1..Len(s) - k : SubSeq(s, k + 1, Len(s))[j] = s[k + j]
OBVIOUS

LEMMA OneMore ==
  ASSUME NEW S, NEW s \in Seq(S), NEW e
  PROVE  /\ Append(s, e) \in Seq(S \cup {e}) /\ Len(Append(s, e)) = Len(s) + 1
         /\ \A k \in 1..Len(s) : Append(s, e)[k] = s[k]
         /\ Append(s, e)[Len(s) + 1] = e
<1>1. PICK T : T = S \cup {e}
  OBVIOUS
<1>2. s \in Seq(T) /\ e \in T
  BY <1>1
<1>3. Append(s, e) \in Seq(T) /\ Len(Append(s, e)) = Len(s) + 1
  BY <1>2, AppendProperties
<1>4. (\A k \in 1..Len(s) : Append(s, e)[k] = s[k]) /\ Append(s, e)[Len(s) + 1] = e
  BY <1>2, AppendProperties
<1> QED
  BY <1>1, <1>3, <1>4

(***************************************************************************)
(* Framing                                                                 *)
(***************************************************************************)
Byte == 0..255

\* A packet that a robot sends: its length stands in it, and a report has a place of
\* four bytes for every identifier.
Packet ==
  {p \in Seq(Byte) : /\ Len(p) >= 6 /\ Len(p) < MAXRPL
                     /\ p[1] = Head_ /\ p[2] = Len(p) /\ p[Len(p)] = Tail_
                     /\ p[3] = 2 => \E n \in Nat : Len(p) = 4 + 4 * n}

Recorded == \E S : handled \in Seq(S)
FramingTypes ==
  /\ fpc \in {"idle", "read", "scan", "closed"}
  /\ stream \in Seq(Seq(Byte))
  /\ onWay \in Seq(Byte) /\ socket \in Seq(Byte) /\ rBuf \in Seq(Byte)
  /\ base \in Nat /\ i \in Nat /\ i <= rLen /\ rLen <= ReadSize
  /\ hungUp \in BOOLEAN /\ tflag \in BOOLEAN
  /\ Recorded

\* What was read, what TCP has delivered and what is on its way are the stream.
PlaceInv ==
  LET flat == FlattenSeq(stream) IN
  /\ base + rLen + Len(socket) + Len(onWay) = Len(flat)
  /\ \A k \in 1..rLen : rBuf[k] = flat[base + k]
  /\ \A k \in 1..Len(socket) : socket[k] = flat[base + rLen + k]
  /\ \A k \in 1..Len(onWay) : onWay[k] = flat[base + rLen + Len(socket) + k]

LEMMA FramingInitial ==
  ASSUME Streams \subseteq Seq(Seq(Byte)), ReadSize \in Nat, FramingInit
  PROVE  FramingTypes /\ PlaceInv
<1>1. stream \in Seq(Seq(Byte)) /\ FlattenSeq(stream) \in Seq(Byte)
  BY Places DEF FramingInit
<1>2. <<>> \in Seq(Byte) /\ Len(<<>>) = 0 /\ handled \in Seq({})
  BY DEF FramingInit
<1>3. FramingTypes
  <2>1. Recorded
    BY <1>2 DEF Recorded
  <2>2. onWay \in Seq(Byte) /\ socket \in Seq(Byte) /\ rBuf \in Seq(Byte)
    BY <1>1, <1>2 DEF FramingInit
  <2>3. base \in Nat /\ i \in Nat /\ i <= rLen /\ rLen <= ReadSize
    BY <1>2 DEF FramingInit, rLen
  <2>4. fpc \in {"idle", "read", "scan", "closed"} /\ hungUp \in BOOLEAN /\ tflag \in BOOLEAN
    BY DEF FramingInit
  <2> QED
    BY <1>1, <2>1, <2>2, <2>3, <2>4 DEF FramingTypes
<1>4. PlaceInv
  BY <1>1 DEF FramingInit, PlaceInv, rLen
<1> QED
  BY <1>3, <1>4

LEMMA DeliverPlaces ==
  ASSUME FramingTypes, PlaceInv, Deliver
  PROVE  FramingTypes' /\ PlaceInv'
<1>0. /\ onWay \in Seq(Byte) /\ socket \in Seq(Byte) /\ rBuf \in Seq(Byte)
      /\ Len(onWay) \in Nat /\ Len(socket) \in Nat /\ rLen \in Nat /\ base \in Nat
  BY DEF FramingTypes, rLen
<1>1. PICK k \in 1..Len(onWay) : socket' = socket \o SubSeq(onWay, 1, k) /\ onWay' = SubSeq(onWay, k + 1, Len(onWay))
  BY DEF Deliver
<1>2. UNCHANGED <<stream, hungUp, rBuf, base, i, tflag, handled>>
  BY DEF Deliver
<1>3. k \in 0..Len(onWay) /\ k \in Nat
  BY <1>0
<1>4. PICK a, b : /\ a = SubSeq(onWay, 1, k) /\ b = SubSeq(onWay, k + 1, Len(onWay))
                  /\ a \in Seq(Byte) /\ Len(a) = k /\ \A j \in 1..k : a[j] = onWay[j]
                  /\ b \in Seq(Byte) /\ Len(b) = Len(onWay) - k /\ \A j \in 1..Len(onWay) - k : b[j] = onWay[k + j]
  <2>1. /\ SubSeq(onWay, 1, k) \in Seq(Byte) /\ Len(SubSeq(onWay, 1, k)) = k
        /\ \A j \in 1..k : SubSeq(onWay, 1, k)[j] = onWay[j]
        /\ SubSeq(onWay, k + 1, Len(onWay)) \in Seq(Byte) /\ Len(SubSeq(onWay, k + 1, Len(onWay))) = Len(onWay) - k
        /\ \A j \in 1..Len(onWay) - k : SubSeq(onWay, k + 1, Len(onWay))[j] = onWay[k + j]
    BY <1>0, <1>3, CutInTwo, Zenon
  <2> QED
    BY <2>1, Zenon
<1>5. /\ socket' \in Seq(Byte) /\ Len(socket') = Len(socket) + k
      /\ \A j \in 1..Len(socket) : socket'[j] = socket[j]
      /\ \A j \in 1..k : socket'[Len(socket) + j] = onWay[j]
  <2>1. /\ socket \o a \in Seq(Byte) /\ Len(socket \o a) = Len(socket) + Len(a)
        /\ \A j \in 1..Len(socket) : (socket \o a)[j] = socket[j]
        /\ \A j \in 1..Len(a) : (socket \o a)[Len(socket) + j] = a[j]
    BY <1>0, <1>4
  <2>2. socket' = socket \o a /\ Len(a) = k /\ \A j \in 1..k : a[j] = onWay[j]
    BY <1>1, <1>4, Zenon
  <2> QED
    BY <2>1, <2>2
<1>6. onWay' \in Seq(Byte) /\ Len(onWay') = Len(onWay) - k /\ \A j \in 1..Len(onWay) - k : onWay'[j] = onWay[k + j]
  BY <1>1, <1>4
<1>7. FramingTypes'
  BY <1>2, <1>5, <1>6 DEF FramingTypes, Recorded, Deliver, rLen
<1> DEFINE flat == FlattenSeq(stream)
<1>8. /\ base + rLen + Len(socket) + Len(onWay) = Len(flat)
      /\ \A j \in 1..rLen : rBuf[j] = flat[base + j]
      /\ \A j \in 1..Len(socket) : socket[j] = flat[base + rLen + j]
      /\ \A j \in 1..Len(onWay) : onWay[j] = flat[base + rLen + Len(socket) + j]
  BY DEF PlaceInv
<1>9. flat' = flat /\ rLen' = rLen /\ base' = base /\ rBuf' = rBuf
  BY <1>2 DEF rLen
<1> HIDE DEF flat
<1>10. base' + rLen' + Len(socket') + Len(onWay') = Len(flat')
  <2>1. /\ base' + rLen' = base + rLen /\ Len(flat') = Len(flat)
        /\ Len(socket') = Len(socket) + k /\ Len(onWay') = Len(onWay) - k
    BY <1>5, <1>6, <1>9
  <2> QED
    BY <1>0, <1>3, <1>8, <2>1
<1>11. \A j \in 1..rLen' : rBuf'[j] = flat'[base' + j]
  BY <1>8, <1>9
<1>12. ASSUME NEW j \in 1..Len(socket') PROVE socket'[j] = flat'[base' + rLen' + j]
  <2>1. CASE j <= Len(socket)
    BY <1>0, <1>5, <1>8, <1>9, <2>1
  <2>2. CASE ~(j <= Len(socket))
    <3>1. j - Len(socket) \in 1..k /\ j = Len(socket) + (j - Len(socket)) /\ j - Len(socket) \in 1..Len(onWay)
      BY <1>0, <1>3, <1>5, <2>2
    <3>2. socket'[j] = onWay[j - Len(socket)]
      BY <1>5, <3>1
    <3>3. onWay[j - Len(socket)] = flat[base + rLen + Len(socket) + (j - Len(socket))]
      BY <1>8, <3>1
    <3>4. base + rLen + Len(socket) + (j - Len(socket)) = base + rLen + j
      BY <1>0, <1>3
    <3> QED
      BY <1>9, <3>2, <3>3, <3>4
  <2> QED
    BY <2>1, <2>2
<1>13. ASSUME NEW j \in 1..Len(onWay') PROVE onWay'[j] = flat'[base' + rLen' + Len(socket') + j]
  <2>1. j \in 1..Len(onWay) - k /\ k + j \in 1..Len(onWay)
    BY <1>0, <1>3, <1>6
  <2>2. onWay'[j] = flat[base + rLen + Len(socket) + (k + j)]
    BY <1>6, <1>8, <2>1
  <2>3. base + rLen + Len(socket) + (k + j) = base' + rLen' + Len(socket') + j
    BY <1>0, <1>3, <1>5, <1>9
  <2> QED
    BY <1>9, <2>2, <2>3
<1> QED
  BY <1>7, <1>10, <1>11, <1>12, <1>13 DEF PlaceInv, flat

LEMMA ReadPlaces ==
  ASSUME FramingTypes, PlaceInv, Read, ReadSize \in Nat
  PROVE  /\ FramingTypes' /\ PlaceInv' /\ UNCHANGED <<stream, handled>>
         /\ \/ fpc' = "scan" /\ i' = 0 /\ base' = base + rLen
            \/ fpc' # "scan" /\ UNCHANGED <<base, rBuf>>
<1>0. /\ onWay \in Seq(Byte) /\ socket \in Seq(Byte) /\ rBuf \in Seq(Byte)
      /\ Len(onWay) \in Nat /\ Len(socket) \in Nat /\ rLen \in Nat /\ base \in Nat
  BY DEF FramingTypes, rLen
<1>1. PICK k : k = IF Len(socket) < ReadSize THEN Len(socket) ELSE ReadSize
  OBVIOUS
<1>2. k \in 0..Len(socket) /\ k <= ReadSize /\ k \in Nat
  BY <1>0, <1>1
<1>3. UNCHANGED <<stream, onWay, hungUp, handled>>
  BY DEF Read
<1>4. CASE k > 0
  <2>1. /\ base' = base + rLen /\ rBuf' = SubSeq(socket, 1, k)
        /\ socket' = SubSeq(socket, k + 1, Len(socket)) /\ i' = 0 /\ fpc' = "scan" /\ UNCHANGED tflag
    BY <1>1, <1>4 DEF Read, rLen
  <2>2. /\ SubSeq(socket, 1, k) \in Seq(Byte) /\ Len(SubSeq(socket, 1, k)) = k
        /\ \A j \in 1..k : SubSeq(socket, 1, k)[j] = socket[j]
        /\ SubSeq(socket, k + 1, Len(socket)) \in Seq(Byte) /\ Len(SubSeq(socket, k + 1, Len(socket))) = Len(socket) - k
        /\ \A j \in 1..Len(socket) - k : SubSeq(socket, k + 1, Len(socket))[j] = socket[k + j]
    BY <1>0, <1>2, CutInTwo, Zenon
  <2>3. /\ rBuf' \in Seq(Byte) /\ Len(rBuf') = k /\ \A j \in 1..k : rBuf'[j] = socket[j]
        /\ socket' \in Seq(Byte) /\ Len(socket') = Len(socket) - k
        /\ \A j \in 1..Len(socket) - k : socket'[j] = socket[k + j]
    BY <2>1, <2>2, Zenon
  <2>4. FramingTypes'
    <3>1. base' \in Nat /\ i' \in Nat /\ i' <= rLen' /\ rLen' <= ReadSize
      BY <1>0, <1>2, <2>1, <2>3 DEF rLen
    <3>2. Recorded'
      BY <1>3 DEF FramingTypes, Recorded
    <3> QED
      BY <1>3, <2>1, <2>3, <3>1, <3>2 DEF FramingTypes
  <2>5. PlaceInv'
    <3> DEFINE flat == FlattenSeq(stream)
    <3>1. /\ base + rLen + Len(socket) + Len(onWay) = Len(flat)
          /\ \A j \in 1..rLen : rBuf[j] = flat[base + j]
          /\ \A j \in 1..Len(socket) : socket[j] = flat[base + rLen + j]
          /\ \A j \in 1..Len(onWay) : onWay[j] = flat[base + rLen + Len(socket) + j]
      BY DEF PlaceInv
    <3>2. flat' = flat /\ Len(flat') = Len(flat) /\ rLen' = k /\ onWay' = onWay /\ base' = base + rLen
      BY <1>3, <2>1, <2>3 DEF rLen
    <3> HIDE DEF flat
    <3>3. base' + rLen' + Len(socket') + Len(onWay') = Len(flat')
      <4>1. /\ base' + rLen' = base + rLen + k /\ Len(flat') = Len(flat)
            /\ Len(socket') = Len(socket) - k /\ Len(onWay') = Len(onWay)
        BY <1>0, <1>2, <2>3, <3>2
      <4> QED
        BY <1>0, <1>2, <3>1, <4>1
    <3>4. ASSUME NEW j \in 1..rLen' PROVE rBuf'[j] = flat'[base' + j]
      <4>1. j \in 1..k /\ j \in 1..Len(socket)
        BY <1>0, <1>2, <3>2
      <4> QED
        BY <2>3, <3>1, <3>2, <4>1
    <3>5. ASSUME NEW j \in 1..Len(socket') PROVE socket'[j] = flat'[base' + rLen' + j]
      <4>1. j \in 1..Len(socket) - k /\ k + j \in 1..Len(socket)
        BY <1>0, <1>2, <2>3
      <4>2. socket'[j] = flat[base + rLen + (k + j)]
        BY <2>3, <3>1, <4>1
      <4>3. base + rLen + (k + j) = base' + rLen' + j
        BY <1>0, <1>2, <3>2
      <4> QED
        BY <3>2, <4>2, <4>3
    <3>6. ASSUME NEW j \in 1..Len(onWay') PROVE onWay'[j] = flat'[base' + rLen' + Len(socket') + j]
      <4>1. j \in 1..Len(onWay)
        BY <3>2
      <4>2. onWay'[j] = flat[base + rLen + Len(socket) + j]
        BY <3>1, <3>2, <4>1
      <4>3. base' + rLen' + Len(socket') = base + rLen + Len(socket)
        BY <1>0, <1>2, <2>3, <3>2
      <4> QED
        BY <3>2, <4>2, <4>3
    <3> QED
      BY <3>3, <3>4, <3>5, <3>6 DEF PlaceInv, flat
  <2> QED
    BY <1>3, <2>1, <2>4, <2>5
<1>5. CASE ~(k > 0)
  <2>1. /\ fpc' = (IF hungUp THEN "closed" ELSE "idle") /\ tflag' = (tflag /\ ~hungUp)
        /\ UNCHANGED <<base, rBuf, socket, i>>
    BY <1>1, <1>5 DEF Read
  <2>2. FramingTypes'
    BY <1>3, <2>1 DEF FramingTypes, rLen, Recorded
  <2>3. PlaceInv'
    BY <1>3, <2>1 DEF PlaceInv, rLen
  <2> QED
    BY <1>3, <2>1, <2>2, <2>3
<1> QED
  BY <1>4, <1>5

-----------------------------------------------------------------------------
(* The scan                                                                *)

Pack(h) == [j \in 1..byte(h + 1) |-> IF h + j <= rLen THEN byte(h + j - 1) ELSE 0]
Taken(h) ==
  LET what == IF Len(Pack(h)) >= 3 /\ Last(Pack(h)) = Tail_ THEN Handling(Pack(h)) ELSE <<"rubbish">>
  IN  /\ handled' = IF what = <<"rubbish">> THEN handled ELSE Append(handled, <<base + h, what>>)
      /\ tflag' = (tflag \/ what[1] = "register")
      /\ i' = After(h)

\* The first head at or behind i, and what is done there.
LEMMA ScanAtHead ==
  ASSUME FramingTypes, Scan
  PROVE  /\ UNCHANGED <<stream, onWay, socket, hungUp, rBuf, base>> /\ fpc = "scan"
         /\ \E h \in Nat :
              /\ i <= h /\ h <= rLen /\ \A k \in i..h - 1 : byte(k) # Head_
              /\ h < rLen => byte(h) = Head_
              /\ \/ h + 5 >= rLen /\ fpc' = "read" /\ i' = h /\ UNCHANGED <<tflag, handled>>
                 \/ h + 5 < rLen /\ WholePacket(h) /\ fpc' = fpc /\ Taken(h)
                 \/ h + 5 < rLen /\ ~WholePacket(h) /\ i' = h + 1 /\ UNCHANGED <<fpc, tflag, handled>>
<1> DEFINE heads == {k \in i..rLen - 1 : byte(k) = Head_}
           h == IF heads = {} THEN rLen ELSE CHOOSE k \in heads : \A l \in heads : k <= l
<1>0. i \in Nat /\ rLen \in Nat /\ i <= rLen
  BY DEF FramingTypes, rLen
<1>1. /\ h \in Nat /\ i <= h /\ h <= rLen /\ \A k \in i..h - 1 : byte(k) # Head_
      /\ h < rLen => byte(h) = Head_
  <2>1. CASE heads = {}
    <3>1. h = rLen
      BY <2>1
    <3>2. \A k \in i..rLen - 1 : byte(k) # Head_
      BY <2>1
    <3> HIDE DEF h, heads
    <3> QED
      BY <1>0, <3>1, <3>2
  <2>2. CASE heads # {}
    <3>1. heads \subseteq Nat
      BY <1>0
    <3>2. \E k \in heads : \A l \in heads : k <= l
      BY <2>2, <3>1, Least
    <3>3. h \in heads /\ \A l \in heads : h <= l
      BY <2>2, <3>2
    <3> HIDE DEF h
    <3>4. h \in i..rLen - 1 /\ byte(h) = Head_
      BY <3>3
    <3>5. ASSUME NEW k \in i..h - 1, byte(k) = Head_ PROVE FALSE
      <4>1. k \in i..rLen - 1
        BY <1>0, <3>4
      <4>2. h <= k
        BY <3>3, <3>5, <4>1
      <4> QED
        BY <1>0, <3>4, <4>2
    <3> QED
      BY <1>0, <3>4, <3>5
  <2> QED
    BY <2>1, <2>2
<1>2. /\ UNCHANGED <<stream, onWay, socket, hungUp, rBuf, base>> /\ fpc = "scan"
      /\ \/ h + 5 >= rLen /\ fpc' = "read" /\ i' = h /\ UNCHANGED <<tflag, handled>>
         \/ ~(h + 5 >= rLen) /\ WholePacket(h) /\ fpc' = fpc /\ Taken(h)
         \/ ~(h + 5 >= rLen) /\ ~WholePacket(h) /\ i' = h + 1 /\ UNCHANGED <<fpc, tflag, handled>>
  BY Zenon DEF Scan, Taken, Pack
<1> HIDE DEF h
<1> QED
  BY <1>0, <1>1, <1>2

LEMMA BytesOfRead ==
  ASSUME FramingTypes, NEW k \in Nat, k < rLen
  PROVE  byte(k) \in Nat
<1>1. k + 1 \in 1..Len(rBuf) /\ rBuf \in Seq(Byte)
  BY DEF FramingTypes, rLen
<1>2. rBuf[k + 1] \in Byte
  BY <1>1, ElementOfSeq
<1> QED
  BY <1>2 DEF byte, Byte

\* What is handled is appended, behind what was handled before.
LEMMA TakenAppends ==
  ASSUME FramingTypes, NEW h \in Nat, Taken(h)
  PROVE  /\ Recorded' /\ tflag' \in BOOLEAN
         /\ \/ handled' = handled
            \/ /\ Len(handled') = Len(handled) + 1 /\ Len(handled) \in Nat
               /\ \A k \in 1..Len(handled) : handled'[k] = handled[k]
               /\ handled'[Len(handled) + 1] = <<base + h, Handling(Pack(h))>>
         /\ Len(Pack(h)) >= 3 /\ Last(Pack(h)) = Tail_ /\ Handling(Pack(h)) # <<"rubbish">>
              => handled' # handled
<1>1. PICK S : handled \in Seq(S)
  BY DEF FramingTypes, Recorded
<1>2. Len(handled) \in Nat
  BY <1>1
<1>3. tflag' \in BOOLEAN
  BY DEF Taken
<1>4. PICK what : /\ what = IF Len(Pack(h)) >= 3 /\ Last(Pack(h)) = Tail_ THEN Handling(Pack(h)) ELSE <<"rubbish">>
                  /\ handled' = IF what = <<"rubbish">> THEN handled ELSE Append(handled, <<base + h, what>>)
  BY Zenon DEF Taken
<1>5. CASE what = <<"rubbish">>
  <2>1. handled' = handled
    BY <1>4, <1>5
  <2>2. Recorded'
    BY <1>1, <2>1 DEF Recorded
  <2> QED
    BY <1>3, <1>4, <1>5, <2>1, <2>2
<1>6. CASE what # <<"rubbish">>
  <2>1. what = Handling(Pack(h)) /\ handled' = Append(handled, <<base + h, what>>)
    BY <1>4, <1>6
  <2>2. PICK e : e = <<base + h, what>>
    OBVIOUS
  <2>3. /\ Append(handled, e) \in Seq(S \cup {e}) /\ Len(Append(handled, e)) = Len(handled) + 1
        /\ \A k \in 1..Len(handled) : Append(handled, e)[k] = handled[k]
        /\ Append(handled, e)[Len(handled) + 1] = e
    BY <1>1, OneMore, Zenon
  <2>4. /\ handled' \in Seq(S \cup {e}) /\ Len(handled') = Len(handled) + 1
        /\ \A k \in 1..Len(handled) : handled'[k] = handled[k]
        /\ handled'[Len(handled) + 1] = e
    BY <2>1, <2>2, <2>3, Zenon
  <2>5. Recorded'
    BY <2>4 DEF Recorded
  <2>6. handled' # handled
    BY <1>2, <2>4
  <2> QED
    BY <1>2, <1>3, <2>1, <2>2, <2>4, <2>5, <2>6
<1> QED
  BY <1>5, <1>6

\* The scan stays in the read and the bytes stay where they are.
LEMMA ScanPlaces ==
  ASSUME FramingTypes, PlaceInv, Scan
  PROVE  FramingTypes' /\ PlaceInv'
<1>0. rBuf \in Seq(Byte) /\ rLen \in Nat /\ i \in Nat
  BY DEF FramingTypes, rLen
<1>1. UNCHANGED <<stream, onWay, socket, hungUp, rBuf, base>> /\ rLen' = rLen
  BY ScanAtHead DEF rLen
<1>2. PICK h \in Nat :
        /\ h <= rLen
        /\ \/ h + 5 >= rLen /\ fpc' = "read" /\ i' = h /\ UNCHANGED <<tflag, handled>>
           \/ h + 5 < rLen /\ WholePacket(h) /\ fpc' = fpc /\ Taken(h)
           \/ h + 5 < rLen /\ ~WholePacket(h) /\ i' = h + 1 /\ UNCHANGED <<fpc, tflag, handled>>
  BY ScanAtHead
<1>3. PlaceInv'
  BY <1>1 DEF PlaceInv
<1>4. /\ fpc' \in {"idle", "read", "scan", "closed"} /\ i' \in Nat /\ i' <= rLen
      /\ tflag' \in BOOLEAN /\ Recorded'
  <2>1. CASE h + 5 < rLen /\ WholePacket(h) /\ fpc' = fpc /\ Taken(h)
    <3>1. byte(h + 1) \in Nat
      <4>1. h + 1 \in Nat /\ h + 1 < rLen
        BY <1>0, <2>1
      <4> QED
        BY <4>1, BytesOfRead
    <3>2. i' = h + byte(h + 1) - 1 /\ h + byte(h + 1) <= rLen /\ byte(h + 1) >= 6
      BY <2>1 DEF Taken, After, WholePacket
    <3>3. tflag' \in BOOLEAN /\ Recorded'
      BY <2>1, TakenAppends
    <3> QED
      BY <1>0, <2>1, <3>1, <3>2, <3>3 DEF FramingTypes
  <2>2. CASE h + 5 >= rLen /\ fpc' = "read" /\ i' = h /\ UNCHANGED <<tflag, handled>>
    BY <1>2, <2>2 DEF FramingTypes, Recorded
  <2>3. CASE h + 5 < rLen /\ ~WholePacket(h) /\ i' = h + 1 /\ UNCHANGED <<fpc, tflag, handled>>
    BY <1>0, <1>2, <2>3 DEF FramingTypes, Recorded
  <2> QED
    BY <1>2, <2>1, <2>2, <2>3
<1> QED
  BY <1>1, <1>3, <1>4 DEF FramingTypes

\* The places of what was handled rise, and stay behind the scan.
OrderInv ==
  /\ \A a, b \in 1..Len(handled) : a < b => handled[a][1] < handled[b][1]
  /\ \A a \in 1..Len(handled) :
       /\ handled[a][1] \in Nat /\ handled[a][1] < base + rLen
       /\ fpc = "scan" => handled[a][1] < base + i

LEMMA ScanOrder ==
  ASSUME FramingTypes, OrderInv, Scan
  PROVE  OrderInv'
<1>0. rBuf \in Seq(Byte) /\ rLen \in Nat /\ i \in Nat /\ base \in Nat
  BY DEF FramingTypes, rLen
<1>1. UNCHANGED <<rBuf, base>> /\ rLen' = rLen /\ fpc = "scan"
  BY ScanAtHead DEF rLen
<1>2. PICK h \in Nat :
        /\ i <= h /\ h <= rLen
        /\ \/ h + 5 >= rLen /\ fpc' = "read" /\ i' = h /\ UNCHANGED <<tflag, handled>>
           \/ h + 5 < rLen /\ WholePacket(h) /\ fpc' = fpc /\ Taken(h)
           \/ h + 5 < rLen /\ ~WholePacket(h) /\ i' = h + 1 /\ UNCHANGED <<fpc, tflag, handled>>
  BY ScanAtHead
<1>3. \A a \in 1..Len(handled) : handled[a][1] \in Nat /\ handled[a][1] < base + i /\ handled[a][1] < base + h
  BY <1>0, <1>1, <1>2 DEF OrderInv
<1>4. CASE handled' = handled /\ i' \in Nat /\ h <= i'
  <2>1. \A a \in 1..Len(handled') : handled'[a][1] \in Nat /\ handled'[a][1] < base' + rLen' /\ handled'[a][1] < base' + i'
    BY <1>0, <1>1, <1>2, <1>3, <1>4 DEF OrderInv
  <2> QED
    BY <1>4, <2>1 DEF OrderInv
<1>5. CASE Taken(h) /\ h + 5 < rLen /\ WholePacket(h)
  <2>1. i' \in Nat /\ h < i'
    <3>1. h + 1 \in Nat /\ h + 1 < rLen
      BY <1>0, <1>5
    <3>2. byte(h + 1) \in Nat
      BY <3>1, BytesOfRead
    <3>3. i' = h + byte(h + 1) - 1 /\ byte(h + 1) >= 6
      BY <1>5 DEF Taken, After, WholePacket
    <3> QED
      BY <3>2, <3>3
  <2>2. CASE handled' = handled
    BY <1>4, <2>1, <2>2
  <2>3. CASE /\ Len(handled') = Len(handled) + 1 /\ Len(handled) \in Nat
             /\ \A k \in 1..Len(handled) : handled'[k] = handled[k]
             /\ handled'[Len(handled) + 1] = <<base + h, Handling(Pack(h))>>
    <3>1. handled'[Len(handled) + 1][1] = base + h
      BY <2>3
    <3>2. \A a \in 1..Len(handled') : a \in 1..Len(handled) \/ a = Len(handled) + 1
      BY <2>3
    <3>3. ASSUME NEW a \in 1..Len(handled') PROVE handled'[a][1] \in Nat /\ handled'[a][1] <= base + h
      <4>1. CASE a \in 1..Len(handled)
        <5>1. handled'[a] = handled[a]
          BY <2>3, <4>1
        <5>2. handled[a][1] \in Nat /\ handled[a][1] < base + h
          BY <1>3, <4>1
        <5> QED
          BY <1>0, <5>1, <5>2
      <4>2. CASE a = Len(handled) + 1
        BY <1>0, <3>1, <4>2
      <4> QED
        BY <3>2, <4>1, <4>2
    <3>4. \A a \in 1..Len(handled') : handled'[a][1] < base' + rLen' /\ handled'[a][1] < base' + i'
      BY <1>0, <1>1, <1>5, <2>1, <3>3
    <3>5. ASSUME NEW a \in 1..Len(handled'), NEW b \in 1..Len(handled'), a < b
          PROVE  handled'[a][1] < handled'[b][1]
      <4>1. a \in 1..Len(handled)
        BY <2>3, <3>5
      <4>2. CASE b \in 1..Len(handled)
        BY <2>3, <3>5, <4>1, <4>2 DEF OrderInv
      <4>3. CASE b = Len(handled) + 1
        BY <1>3, <2>3, <3>1, <4>1, <4>3
      <4> QED
        BY <3>2, <4>2, <4>3
    <3> QED
      BY <3>3, <3>4, <3>5 DEF OrderInv
  <2> QED
    BY <1>5, <2>2, <2>3, TakenAppends
<1> QED
  BY <1>2, <1>4, <1>5

(* The packets of the stream                                               *)

Packets == \A n \in 1..Len(stream) : stream[n] \in Packet

\* At the place of a packet the read has that packet's bytes.
LEMMA PacketInRead ==
  ASSUME FramingTypes, PlaceInv, Packets, NEW n \in 1..Len(stream), NEW h \in Nat,
         StartOf(n) = base + h
  PROVE  /\ \A j \in 1..Len(stream[n]) : h + j <= rLen => byte(h + j - 1) = stream[n][j]
         /\ h < rLen => byte(h) = Head_
         /\ h + 1 < rLen => byte(h + 1) = Len(stream[n])
         /\ h + 1 < rLen => (WholePacket(h) <=> InRead(n))
         /\ h + 1 < rLen /\ WholePacket(h) => Pack(h) = stream[n] /\ byte(After(h)) = Tail_
<1>0. rBuf \in Seq(Byte) /\ rLen \in Nat /\ base \in Nat /\ stream \in Seq(Seq(Byte))
  BY DEF FramingTypes, rLen
<1>1. PICK p : p = stream[n]
  OBVIOUS
<1>2. /\ p \in Seq(Byte) /\ Len(p) \in Nat /\ Len(p) >= 6 /\ Len(p) < MAXRPL
      /\ p[1] = Head_ /\ p[2] = Len(p) /\ p[Len(p)] = Tail_
  BY <1>1 DEF Packets, Packet
<1>3. ASSUME NEW j \in 1..Len(p), h + j <= rLen PROVE byte(h + j - 1) = p[j]
  <2>1. FlattenSeq(stream)[StartOf(n) + j] = p[j]
    BY <1>0, <1>1, Places
  <2>2. h + j \in 1..rLen /\ (h + j - 1) + 1 = h + j /\ base + (h + j) = StartOf(n) + j
    BY <1>0, <1>2, <1>3
  <2>3. rBuf[h + j] = FlattenSeq(stream)[base + (h + j)]
    BY <2>2 DEF PlaceInv
  <2> QED
    BY <2>1, <2>2, <2>3 DEF byte
<1>4. ASSUME h < rLen PROVE byte(h) = Head_
  <2>1. 1 \in 1..Len(p) /\ h + 1 <= rLen /\ h + 1 - 1 = h
    BY <1>0, <1>2, <1>4
  <2> QED
    BY <1>2, <1>3, <2>1
<1>5. ASSUME h + 1 < rLen PROVE byte(h + 1) = Len(p)
  <2>1. 2 \in 1..Len(p) /\ h + 2 <= rLen /\ h + 2 - 1 = h + 1
    BY <1>0, <1>2, <1>5
  <2> QED
    BY <1>2, <1>3, <2>1
<1>6. ASSUME h + 1 < rLen PROVE WholePacket(h) <=> InRead(n)
  <2>1. WholePacket(h) <=> h + Len(p) <= rLen
    BY <1>2, <1>5, <1>6 DEF WholePacket
  <2>2. InRead(n) <=> base + h + Len(p) <= base + rLen
    <3>1. InRead(n) <=> base + h >= base /\ base + h + Len(stream[n]) <= base + rLen
      BY Zenon DEF InRead
    <3>2. base + h >= base
      BY <1>0
    <3> QED
      BY <1>1, <3>1, <3>2
  <2> QED
    BY <1>0, <1>2, <2>1, <2>2
<1>7. ASSUME h + 1 < rLen, WholePacket(h) PROVE Pack(h) = p /\ byte(After(h)) = Tail_
  <2>1. byte(h + 1) = Len(p) /\ h + Len(p) <= rLen
    BY <1>5, <1>7 DEF WholePacket
  <2>2. ASSUME NEW j \in 1..Len(p) PROVE (IF h + j <= rLen THEN byte(h + j - 1) ELSE 0) = p[j]
    <3>1. h + j <= rLen
      BY <1>0, <1>2, <2>1
    <3> QED
      BY <1>3, <3>1
  <2>3. Pack(h) = [j \in 1..Len(p) |-> p[j]]
    BY <2>1, <2>2 DEF Pack
  <2>4. Pack(h) = p
    BY <1>2, <2>3
  <2>5. byte(After(h)) = Tail_
    <3>1. Len(p) \in 1..Len(p) /\ After(h) = h + Len(p) - 1
      BY <1>2, <2>1 DEF After
    <3>2. byte(h + Len(p) - 1) = p[Len(p)]
      BY <1>3, <2>1, <3>1
    <3> QED
      BY <1>2, <3>1, <3>2
  <2> QED
    BY <2>4, <2>5
<1> QED
  BY <1>1, <1>3, <1>4, <1>5, <1>6, <1>7

\* The server does for a packet what the packet asks for.
LEMMA HandlingIsAsked ==
  ASSUME NEW p \in Packet
  PROVE  /\ Handling(p) \in Asks(p) /\ Handling(p) # <<"rubbish">>
         /\ Len(p) >= 3 /\ Last(p) = Tail_
<1>1. p \in Seq(Byte) /\ Len(p) \in Nat /\ Len(p) >= 6 /\ p[2] = Len(p) /\ p[Len(p)] = Tail_
  BY DEF Packet
<1>2. Len(p) >= 3 /\ Last(p) = Tail_
  BY <1>1 DEF Last
<1>3. CASE p[3] = 0 /\ Len(p) = 6
  <2>1. Handling(p) = <<"heart">> /\ Asks(p) = {<<"heart">>}
    BY <1>1, <1>3 DEF Handling, Asks
  <2> QED
    BY <1>2, <2>1
<1>4. CASE p[3] = 1 /\ Len(p) = 12
  <2>1. Handling(p) \in {<<"again">>, <<"register", SubSeq(p, 4, 11)>>}
        /\ Asks(p) = {<<"register", SubSeq(p, 4, 11)>>, <<"again">>}
    BY <1>1, <1>4 DEF Handling, Asks
  <2> QED
    BY <1>2, <2>1
<1>5. CASE p[3] = 2
  <2>1. PICK n \in Nat : Len(p) = 4 + 4 * n
    BY <1>5 DEF Packet
  <2>2. (p[2] - 4 + 3) \div 4 = n /\ (p[2] - 4) \div 4 = n
    BY <1>1, <2>1
  <2>3. ASSUME NEW j \in 1..n
        PROVE  [b \in 1..4 |-> IF 3 + 4 * (j - 1) + b - 1 < Len(p) THEN p[3 + 4 * (j - 1) + b - 1 + 1] ELSE 0]
                 = SubSeq(p, 4 * j, 4 * j + 3)
    <3>1. SubSeq(p, 4 * j, 4 * j + 3) = [b \in 1..4 |-> p[4 * j + b - 1]]
      <4>1. ASSUME NEW k \in 4 * j..4 * j + 3 PROVE p[k] \in Byte
        <5>1. k \in 1..Len(p)
          BY <2>1
        <5> QED
          BY <1>1, <5>1, ElementOfSeq
      <4>2. /\ SubSeq(p, 4 * j, 4 * j + 3) \in Seq(Byte) /\ Len(SubSeq(p, 4 * j, 4 * j + 3)) = 4
            /\ \A b \in 1..4 : SubSeq(p, 4 * j, 4 * j + 3)[b] = p[4 * j + b - 1]
        <5>1. 4 * j \in Int /\ 4 * j + 3 \in Int /\ 4 * j <= 4 * j + 4 /\ 4 * j + 3 - 4 * j + 1 = 4
          OBVIOUS
        <5> QED
          BY <4>1, <5>1, SubSeqProperties
      <4> QED
        BY <4>2
    <3>2. \A b \in 1..4 : 3 + 4 * (j - 1) + b - 1 < Len(p) /\ 3 + 4 * (j - 1) + b - 1 + 1 = 4 * j + b - 1
      BY <2>1
    <3> QED
      BY <3>1, <3>2
  <2>4. GisInfo(p) = [j \in 1..n |-> SubSeq(p, 4 * j, 4 * j + 3)]
    BY <2>2, <2>3 DEF GisInfo
  <2>5. Handling(p) = <<"report", GisInfo(p)>>
    BY <1>5 DEF Handling
  <2>6. Asks(p) = {<<"report", [j \in 1..n |-> SubSeq(p, 4 * j, 4 * j + 3)]>>}
    BY <1>5, <2>2 DEF Asks
  <2> QED
    BY <1>2, <2>4, <2>5, <2>6
<1>6. CASE ~(p[3] = 0 /\ Len(p) = 6) /\ ~(p[3] = 1 /\ Len(p) = 12) /\ p[3] # 2
  <2>1. Handling(p) = <<"nothing">> /\ Asks(p) = {<<"nothing">>}
    BY <1>1, <1>6 DEF Handling, Asks
  <2> QED
    BY <1>2, <2>1
<1> QED
  BY <1>3, <1>4, <1>5, <1>6

(* OnlyPackets                                                             *)

NoOtherHead == \A n \in 1..Len(stream) : \A k \in 2..Len(stream[n]) : stream[n][k] # Head_
OnlyInv ==
  NoOtherHead =>
    \A a \in 1..Len(handled) :
      \E n \in 1..Len(stream) : handled[a][1] = StartOf(n) /\ handled[a][2] \in Asks(stream[n])

LEMMA ScanOnly ==
  ASSUME FramingTypes, PlaceInv, Packets, OnlyInv, Scan
  PROVE  OnlyInv'
<1> SUFFICES ASSUME NoOtherHead PROVE OnlyInv'
  BY ScanAtHead DEF OnlyInv, NoOtherHead
<1>0. rBuf \in Seq(Byte) /\ rLen \in Nat /\ i \in Nat /\ base \in Nat /\ stream \in Seq(Seq(Byte))
      /\ Len(socket) \in Nat /\ Len(onWay) \in Nat
  BY DEF FramingTypes, rLen
<1>1. stream' = stream
  BY ScanAtHead
<1>2. \A n \in 1..Len(stream) : StartOf(n)' = StartOf(n)
  BY <1>1 DEF StartOf
<1>3. PICK h \in Nat :
        /\ i <= h /\ h <= rLen
        /\ h < rLen => byte(h) = Head_
        /\ \/ h + 5 >= rLen /\ fpc' = "read" /\ i' = h /\ UNCHANGED <<tflag, handled>>
           \/ h + 5 < rLen /\ WholePacket(h) /\ fpc' = fpc /\ Taken(h)
           \/ h + 5 < rLen /\ ~WholePacket(h) /\ i' = h + 1 /\ UNCHANGED <<fpc, tflag, handled>>
  BY ScanAtHead
<1>4. CASE handled' = handled
  BY <1>1, <1>2, <1>4 DEF OnlyInv
<1>5. CASE /\ h + 5 < rLen /\ WholePacket(h)
           /\ Len(handled') = Len(handled) + 1 /\ Len(handled) \in Nat
           /\ \A k \in 1..Len(handled) : handled'[k] = handled[k]
           /\ handled'[Len(handled) + 1] = <<base + h, Handling(Pack(h))>>
  <2>1. PICK n \in 1..Len(stream) : StartOf(n) = base + h
    <3>1. h + 1 \in 1..rLen /\ h < rLen
      BY <1>0, <1>5
    <3>2. rBuf[h + 1] = FlattenSeq(stream)[base + (h + 1)] /\ rBuf[h + 1] = Head_
      BY <1>3, <3>1 DEF PlaceInv, byte
    <3>3. base + (h + 1) \in 1..Len(FlattenSeq(stream))
      <4>1. base + rLen + Len(socket) + Len(onWay) = Len(FlattenSeq(stream))
        BY DEF PlaceInv
      <4> QED
        BY <1>0, <3>1, <4>1
    <3>4. PICK n \in 1..Len(stream) : \E k \in 1..Len(stream[n]) : base + (h + 1) = StartOf(n) + k
      BY <1>0, <3>3, Places
    <3>5. PICK k \in 1..Len(stream[n]) : base + (h + 1) = StartOf(n) + k
      BY <3>4
    <3>6. stream[n][k] = Head_ /\ StartOf(n) \in Nat
      BY <1>0, <3>2, <3>5, Places
    <3>7. k = 1
      <4>1. Len(stream[n]) \in Nat
        BY <1>0
      <4> QED
        BY <3>6, <4>1 DEF NoOtherHead
    <3>8. StartOf(n) = base + h
      <4>1. base + (h + 1) = StartOf(n) + 1
        BY <3>5, <3>7
      <4>2. PICK x \in Nat : x = StartOf(n)
        BY <3>6
      <4>3. base \in Nat /\ base + (h + 1) = x + 1
        BY <1>0, <4>1, <4>2
      <4>4. x = base + h
        BY ONLY h \in Nat, x \in Nat, <4>3
      <4> QED
        BY <4>2, <4>4
    <3> QED
      BY <3>8
  <2>2. Pack(h) = stream[n] /\ stream[n] \in Packet
    BY <1>0, <1>5, <2>1, PacketInRead DEF Packets
  <2>3. Handling(Pack(h)) \in Asks(stream[n])
    BY <2>2, HandlingIsAsked
  <2>4. ASSUME NEW a \in 1..Len(handled')
        PROVE  \E m \in 1..Len(stream) : handled'[a][1] = StartOf(m) /\ handled'[a][2] \in Asks(stream[m])
    <3>1. CASE a \in 1..Len(handled)
      BY <1>5, <3>1 DEF OnlyInv
    <3>2. CASE a = Len(handled) + 1
      <4>1. handled'[a][1] = base + h /\ handled'[a][2] = Handling(Pack(h))
        BY <1>5, <3>2
      <4> QED
        BY <2>1, <2>3, <4>1
    <3> QED
      BY <1>5, <3>1, <3>2
  <2>5. \A m \in 1..Len(stream) : Asks(stream[m])' = Asks(stream[m])
    BY <1>1 DEF Asks
  <2> QED
    BY <1>1, <1>2, <2>4, <2>5 DEF OnlyInv
<1> QED
  BY <1>3, <1>4, <1>5, TakenAppends

(* WholeAreHandled                                                         *)

HandledAt(x) == \E a \in 1..Len(handled) : handled[a][1] = x
Done == \A n \in 1..Len(stream) : InRead(n) => HandledAt(StartOf(n))

\* The scan has come to the place of a packet, or to the last byte before it, and has
\* taken the packets of the read before that one.
UpTo(m) ==
  /\ \A n \in 1..m - 1 : InRead(n) => HandledAt(StartOf(n))
  /\ \/ StartOf(m) = base + i
     \/ StartOf(m) = base + i + 1 /\ i < rLen /\ byte(i) = Tail_

WholeInv ==
  base \in Placed =>
    /\ fpc = "scan" => Done \/ \E m \in 1..Len(stream) : UpTo(m)
    /\ fpc # "scan" /\ rBuf # <<>> => Done

\* A read begins at the place of a packet: the packets before it are in no part of it.
LEMMA ReadWhole ==
  ASSUME FramingTypes, FramingTypes', PlaceInv, Packets, WholeInv, Read, ReadSize \in Nat
  PROVE  WholeInv'
<1>0. stream \in Seq(Seq(Byte)) /\ base' \in Nat /\ rLen' \in Nat /\ base \in Nat /\ rLen \in Nat
  BY DEF FramingTypes, rLen
<1>1. stream' = stream /\ handled' = handled
  BY ReadPlaces
<1>2. \A n \in 1..Len(stream) : StartOf(n)' = StartOf(n) /\ StartOf(n) \in Nat
  BY <1>0, <1>1, Places DEF StartOf
<1>3. CASE fpc' = "scan" /\ i' = 0 /\ base' = base + rLen
  <2> SUFFICES ASSUME base' \in Placed' PROVE \E m \in 1..Len(stream) : UpTo(m)'
    BY <1>1, <1>3 DEF WholeInv
  <2>1. PICK m \in 1..Len(stream) : StartOf(m) = base'
    BY <1>1, <1>2 DEF Placed
  <2>2. ASSUME NEW n \in 1..m - 1, InRead(n)' PROVE FALSE
    <3>1. n \in 1..Len(stream) /\ Len(stream[n]) \in Nat /\ Len(stream[n]) >= 6
      BY <1>0 DEF Packets, Packet
    <3>2. StartOf(n) >= base'
      BY <1>1, <1>2, <2>2, <3>1 DEF InRead
    <3>3. StartOf(n) + Len(stream[n]) <= StartOf(m)
      BY <1>0, Places
    <3> QED
      BY <1>0, <1>2, <2>1, <3>1, <3>2, <3>3
  <2>3. StartOf(m)' = base' + i'
    BY <1>0, <1>2, <1>3, <2>1
  <2>4. UpTo(m)'
    BY <2>2, <2>3 DEF UpTo
  <2> QED
    BY <2>4
<1>4. CASE fpc' # "scan" /\ UNCHANGED <<base, rBuf>>
  <2>1. fpc # "scan"
    BY DEF Read
  <2>2. Placed' = Placed /\ rLen' = rLen
    BY <1>1, <1>2, <1>4 DEF Placed, rLen
  <2>3. Done => Done'
    BY <1>1, <1>2, <1>4, <2>2 DEF Done, InRead, HandledAt
  <2> QED
    BY <1>4, <2>1, <2>2, <2>3 DEF WholeInv
<1> QED
  BY <1>3, <1>4, ReadPlaces

\* A packet that the scan comes to is taken when the read has it whole; when it has not,
\* it has none of the packets behind it either.
LEMMA ScanWhole ==
  ASSUME FramingTypes, PlaceInv, Packets, WholeInv, Scan
  PROVE  WholeInv'
<1>0. /\ rBuf \in Seq(Byte) /\ rLen \in Nat /\ i \in Nat /\ base \in Nat /\ i <= rLen
      /\ stream \in Seq(Seq(Byte)) /\ Len(stream) \in Nat
  BY DEF FramingTypes, rLen
<1>1. UNCHANGED <<stream, rBuf, base>> /\ rLen' = rLen /\ fpc = "scan"
  BY ScanAtHead DEF rLen
<1>2. /\ \A n \in 1..Len(stream) : StartOf(n)' = StartOf(n) /\ (InRead(n)' <=> InRead(n))
      /\ Placed' = Placed
  BY <1>1 DEF StartOf, InRead, Placed
<1>3. \A n \in 1..Len(stream) : StartOf(n) \in Nat /\ Len(stream[n]) \in Nat /\ Len(stream[n]) >= 6
  BY <1>0, Places DEF Packets, Packet
<1>4. PICK h \in Nat :
        /\ i <= h /\ h <= rLen /\ \A k \in i..h - 1 : byte(k) # Head_
        /\ h < rLen => byte(h) = Head_
        /\ \/ h + 5 >= rLen /\ fpc' = "read" /\ i' = h /\ UNCHANGED <<tflag, handled>>
           \/ h + 5 < rLen /\ WholePacket(h) /\ fpc' = fpc /\ Taken(h)
           \/ h + 5 < rLen /\ ~WholePacket(h) /\ i' = h + 1 /\ UNCHANGED <<fpc, tflag, handled>>
  BY ScanAtHead
<1>5. \A x : HandledAt(x) => HandledAt(x)'
  <2>1. CASE handled' = handled
    BY <2>1 DEF HandledAt
  <2>2. CASE /\ Len(handled') = Len(handled) + 1 /\ Len(handled) \in Nat
             /\ \A k \in 1..Len(handled) : handled'[k] = handled[k]
    BY <2>2 DEF HandledAt
  <2> QED
    BY <1>4, <2>1, <2>2, TakenAppends
<1> SUFFICES ASSUME base \in Placed, base' \in Placed' PROVE WholeInv'
  BY <1>1, <1>2 DEF WholeInv
<1>6. ASSUME Done PROVE Done'
  BY <1>1, <1>2, <1>5, <1>6 DEF Done
<1>7. Done' => WholeInv'
  BY DEF WholeInv
<1>8. ASSUME NEW m \in 1..Len(stream), UpTo(m), ~Done PROVE WholeInv'
  <2>0. StartOf(m) \in Nat /\ Len(stream[m]) \in Nat /\ Len(stream[m]) >= 6
    BY <1>3
  <2>1. PICK s \in Nat : s = StartOf(m) - base /\ i <= s /\ s <= i + 1 /\ (s = i + 1 => i < rLen /\ byte(i) = Tail_)
    <3>1. CASE StartOf(m) = base + i
      BY <1>0, <3>1
    <3>2. CASE StartOf(m) = base + i + 1 /\ i < rLen /\ byte(i) = Tail_
      <4>1. i + 1 = StartOf(m) - base /\ i + 1 \in Nat
        BY <1>0, <3>2
      <4> QED
        BY <1>0, <3>2, <4>1
    <3> QED
      BY <1>8, <3>1, <3>2 DEF UpTo
  <2>2. StartOf(m) = base + s
    BY <1>0, <2>0, <2>1
  \* The packets from m on end behind the read, when m does.
  <2>3. ASSUME ~(s + Len(stream[m]) <= rLen), NEW n \in 1..Len(stream), InRead(n) PROVE HandledAt(StartOf(n))
    <3>1. CASE n \in 1..m - 1
      BY <1>8, <2>3, <3>1 DEF UpTo
    <3>2. CASE n = m
      BY <1>0, <2>0, <2>2, <2>3, <3>2 DEF InRead
    <3>3. CASE m \in 1..n - 1
      <4>1. StartOf(m) + Len(stream[m]) <= StartOf(n)
        BY <1>0, <3>3, Places
      <4>2. StartOf(n) + Len(stream[n]) <= base + rLen /\ StartOf(n) \in Nat /\ Len(stream[n]) >= 6 /\ Len(stream[n]) \in Nat
        BY <1>3, <2>3 DEF InRead
      <4> QED
        <5>1. PICK l, k, x, r \in Nat : l = Len(stream[m]) /\ k = Len(stream[n]) /\ x = StartOf(n) /\ r = rLen
          BY <1>0, <2>0, <4>2
        <5>2. base + s + l <= x /\ x + k <= base + r /\ ~(s + l <= r) /\ base \in Nat /\ s \in Nat
          BY <1>0, <2>1, <2>2, <2>3, <4>1, <4>2, <5>1
        <5> QED
          BY ONLY l \in Nat, k \in Nat, x \in Nat, r \in Nat, <5>2
    <3> QED
      BY <3>1, <3>2, <3>3
  <2>4. s + Len(stream[m]) <= rLen
    BY <1>8, <2>3 DEF Done
  <2>5. s < rLen /\ s + 1 < rLen /\ s + 5 < rLen
    BY <1>0, <2>0, <2>4
  <2>6. byte(s) = Head_
    BY <2>2, <2>5, PacketInRead
  <2>7. h = s
    <3>1. ~(s < h)
      <4>1. s < h => s \in i..h - 1
        BY <1>0, <2>1
      <4> QED
        BY <1>4, <2>6, <4>1
    <3>2. ~(h < s)
      <4>1. h < s => h = i /\ byte(i) = Tail_ /\ h < rLen
        <5>1. i <= h /\ h \in Nat /\ i \in Nat /\ s \in Nat /\ s <= i + 1 /\ s < rLen /\ rLen \in Nat
          BY <1>0, <1>4, <2>1, <2>5
        <5>2. h < s => h = i /\ s = i + 1 /\ h < rLen
          BY <5>1
        <5> QED
          BY <2>1, <5>2
      <4>2. Head_ # Tail_
        BY DEF Head_, Tail_
      <4> QED
        BY <1>4, <4>1, <4>2
    <3> QED
      BY <3>1, <3>2
  <2>8. WholePacket(h) /\ Pack(h) = stream[m] /\ byte(After(h)) = Tail_ /\ byte(h + 1) = Len(stream[m])
    <3>1. InRead(m)
      <4>1. InRead(m) <=> base + s >= base /\ base + s + Len(stream[m]) <= base + rLen
        BY <2>2, Zenon DEF InRead
      <4> QED
        <5>1. PICK l, r \in Nat : l = Len(stream[m]) /\ r = rLen
          BY <1>0, <2>0
        <5>2. s + l <= r /\ base \in Nat /\ s \in Nat
          BY <1>0, <2>1, <2>4, <5>1
        <5>3. base + s >= base /\ base + s + l <= base + r
          BY ONLY l \in Nat, r \in Nat, <5>2
        <5> QED
          BY <4>1, <5>1, <5>3
    <3> QED
      BY <2>2, <2>5, <2>7, <3>1, PacketInRead
  <2>9. fpc' = fpc /\ Taken(h)
    <3>1. h + 5 < rLen /\ ~(h + 5 >= rLen)
      BY <1>0, <2>5, <2>7
    <3> QED
      BY <1>4, <2>8, <3>1
  <2>10. HandledAt(StartOf(m))'
    <3>1. /\ Handling(Pack(h)) # <<"rubbish">> /\ Len(Pack(h)) >= 3 /\ Last(Pack(h)) = Tail_
      BY <2>8, HandlingIsAsked DEF Packets
    <3>2. /\ Len(handled') = Len(handled) + 1 /\ Len(handled) \in Nat
          /\ handled'[Len(handled) + 1] = <<base + h, Handling(Pack(h))>>
      BY <2>9, <3>1, TakenAppends
    <3>3. handled'[Len(handled) + 1][1] = base + h /\ Len(handled) + 1 \in 1..Len(handled')
      BY <3>2
    <3>4. StartOf(m)' = base + h
      BY <1>2, <2>2, <2>7
    <3> QED
      BY <3>3, <3>4 DEF HandledAt
  <2>11. \A n \in 1..m : InRead(n)' => HandledAt(StartOf(n))'
    <3> SUFFICES ASSUME NEW n \in 1..m, InRead(n)' PROVE HandledAt(StartOf(n))'
      OBVIOUS
    <3>1. CASE n = m
      BY <2>10, <3>1
    <3>2. CASE n \in 1..m - 1
      <4>1. n \in 1..Len(stream)
        BY <1>0, <3>2
      <4>2. HandledAt(StartOf(n))
        BY <1>2, <1>8, <3>2, <4>1 DEF UpTo
      <4> QED
        BY <1>2, <1>5, <4>1, <4>2 DEF HandledAt
    <3> QED
      BY <3>1, <3>2
  <2>12. CASE m = Len(stream)
    BY <1>1, <1>7, <2>11, <2>12 DEF Done
  <2>13. CASE m # Len(stream)
    <3>1. m \in 1..Len(stream) - 1 /\ m + 1 \in 1..Len(stream) /\ (m + 1) - 1 = m
      BY <1>0, <2>13
    <3>2. StartOf(m + 1) = StartOf(m) + Len(stream[m])
      BY <1>0, <3>1, Places
    <3>3. i' = s + Len(stream[m]) - 1
      BY <2>7, <2>8, <2>9 DEF Taken, After
    <3>4. StartOf(m + 1)' = base' + i' + 1 /\ i' < rLen'
      <4>1. StartOf(m + 1)' = base + s + Len(stream[m]) /\ base' = base /\ rLen' = rLen
        BY <1>1, <1>2, <2>2, <3>1, <3>2
      <4>2. PICK l, r \in Nat : l = Len(stream[m]) /\ l >= 6 /\ r = rLen
        BY <1>0, <2>0
      <4>3. s + l <= r /\ base \in Nat /\ s \in Nat /\ i' = s + l - 1 /\ l >= 6
        BY <1>0, <2>1, <2>4, <3>3, <4>2
      <4>4. base + s + l = base + i' + 1 /\ i' < r
        BY ONLY l \in Nat, r \in Nat, <4>3
      <4> QED
        BY <4>1, <4>2, <4>4
    <3>5. (byte(i) = Tail_)'
      BY <1>1, <2>8, <2>9 DEF Taken, byte, After
    <3>6. UpTo(m + 1)'
      BY <2>11, <3>1, <3>4, <3>5 DEF UpTo
    <3>7. fpc' = "scan"
      BY <1>1, <2>9
    <3> QED
      BY <1>1, <3>1, <3>6, <3>7 DEF WholeInv
  <2> QED
    BY <2>12, <2>13
<1>9. Done \/ \E m \in 1..Len(stream) : UpTo(m)
  BY <1>1 DEF WholeInv
<1> QED
  BY <1>6, <1>7, <1>8, <1>9

\* TCP and the end of the connection touch nothing that was read.
LEMMA OutsideKeeps ==
  ASSUME FramingTypes, PlaceInv, OrderInv, Deliver \/ HangUp \/ UNCHANGED framingVars
  PROVE  /\ FramingTypes' /\ PlaceInv' /\ OrderInv'
         /\ UNCHANGED <<stream, rBuf, base, handled>> /\ (fpc' = "scan" => fpc = "scan")
         /\ UNCHANGED <<i, tflag>> /\ (fpc = "scan" => fpc' = "scan")
<1>1. UNCHANGED <<stream, rBuf, base, handled, i, tflag>> /\ (fpc' = "scan" <=> fpc = "scan")
  BY DEF Deliver, HangUp, framingVars
<1>2. OrderInv'
  BY <1>1 DEF OrderInv, rLen
<1>3. CASE HangUp \/ UNCHANGED framingVars
  <2>1. FramingTypes' /\ PlaceInv'
    BY <1>3 DEF HangUp, framingVars, FramingTypes, PlaceInv, rLen, Recorded
  <2> QED
    BY <1>1, <1>2, <2>1
<1> QED
  BY <1>1, <1>2, <1>3, DeliverPlaces

LEMMA ReadOrder ==
  ASSUME FramingTypes, OrderInv, FramingTypes', PlaceInv, Read, ReadSize \in Nat
  PROVE  OrderInv'
<1>0. base \in Nat /\ rLen \in Nat /\ base' \in Nat /\ rLen' \in Nat /\ i' \in Nat
  BY DEF FramingTypes, rLen
<1>1. handled' = handled
  BY ReadPlaces
<1>2. \A a \in 1..Len(handled) : handled[a][1] \in Nat /\ handled[a][1] < base + rLen
  BY DEF OrderInv
<1>3. CASE fpc' = "scan" /\ i' = 0 /\ base' = base + rLen
  <2>1. \A a \in 1..Len(handled) : handled[a][1] < base' + rLen' /\ handled[a][1] < base' + i'
    BY <1>0, <1>2, <1>3
  <2> QED
    BY <1>1, <1>2, <2>1 DEF OrderInv
<1>4. CASE fpc' # "scan" /\ UNCHANGED <<base, rBuf>>
  BY <1>1, <1>4 DEF OrderInv, rLen
<1> QED
  BY <1>3, <1>4, ReadPlaces

FramingInv == FramingTypes /\ PlaceInv /\ OrderInv

LEMMA FramingStep ==
  ASSUME ReadSize \in Nat, FramingInv, [FramingNext]_framingVars
  PROVE  FramingInv'
<1>1. CASE Deliver \/ HangUp \/ UNCHANGED framingVars
  BY <1>1, OutsideKeeps DEF FramingInv
<1>2. CASE Read
  <2>1. FramingTypes' /\ PlaceInv'
    BY <1>2, ReadPlaces DEF FramingInv
  <2> QED
    BY <1>2, <2>1, ReadOrder DEF FramingInv
<1>3. CASE Scan
  BY <1>3, ScanPlaces, ScanOrder DEF FramingInv
<1> QED
  BY <1>1, <1>2, <1>3 DEF FramingNext, RobotProcess

LEMMA FramingInvariant ==
  ASSUME Streams \subseteq Seq(Seq(Byte)), ReadSize \in Nat
  PROVE  FramingSpec => []FramingInv
<1>1. FramingInit => FramingInv
  <2> SUFFICES ASSUME FramingInit PROVE FramingInv
    OBVIOUS
  <2>1. OrderInv
    BY DEF FramingInit, OrderInv
  <2> QED
    BY <2>1, FramingInitial DEF FramingInv
<1>2. FramingInv /\ [FramingNext]_framingVars => FramingInv'
  BY FramingStep
<1> QED
  BY <1>1, <1>2, PTL DEF FramingSpec

\* The scan stays in the buffer of the read, whatever bytes come (logic.c:31-69):
\* FramingTypeOK of Framing.
THEOREM ScanStaysInRead ==
  ASSUME Streams \subseteq Seq(Seq(Byte)), ReadSize \in Nat
  PROVE  FramingSpec => []FramingTypeOK
<1>1. FramingInv => FramingTypeOK
  <2> SUFFICES ASSUME FramingInv PROVE FramingTypeOK
    OBVIOUS
  <2>1. rLen \in Nat /\ rLen <= ReadSize /\ i \in Nat /\ i <= rLen
    BY DEF FramingInv, FramingTypes, rLen
  <2> QED
    BY <2>1 DEF FramingInv, FramingTypes, FramingTypeOK
<1> QED
  BY <1>1, FramingInvariant, PTL

\* No packet is handled twice, and none before one that came before it.
HandledInOrder == \A a, b \in 1..Len(handled) : a < b => handled[a][1] < handled[b][1]

\* What is handled is handled in the order of the stream and each place once, for any
\* bytes in any portions (logic.c:31-69).
THEOREM PacketsInOrder ==
  ASSUME Streams \subseteq Seq(Seq(Byte)), ReadSize \in Nat
  PROVE  FramingSpec => []HandledInOrder
<1>1. FramingInv => HandledInOrder
  BY DEF FramingInv, OrderInv, HandledInOrder
<1> QED
  BY <1>1, FramingInvariant, PTL

PacketInv == FramingInv /\ Packets /\ OnlyInv /\ WholeInv

LEMMA PacketInvariant ==
  ASSUME Streams \subseteq Seq(Packet), ReadSize \in Nat
  PROVE  FramingSpec => []PacketInv
<1>0. Streams \subseteq Seq(Seq(Byte))
  <2>1. Packet \subseteq Seq(Byte)
    BY DEF Packet
  <2>2. ASSUME NEW s \in Seq(Packet) PROVE s \in Seq(Seq(Byte))
    <3>1. \A n \in 1..Len(s) : s[n] \in Seq(Byte)
      BY <2>1
    <3> QED
      BY <2>1, <3>1
  <2> QED
    BY <2>2
<1>1. FramingInit => PacketInv
  <2> SUFFICES ASSUME FramingInit PROVE PacketInv
    OBVIOUS
  <2>1. Packets
    BY DEF FramingInit, Packets
  <2>2. OnlyInv /\ WholeInv /\ OrderInv
    BY DEF FramingInit, OnlyInv, WholeInv, OrderInv
  <2> QED
    BY <1>0, <2>1, <2>2, FramingInitial DEF PacketInv, FramingInv
<1>2. PacketInv /\ [FramingNext]_framingVars => PacketInv'
  <2> SUFFICES ASSUME PacketInv, [FramingNext]_framingVars PROVE PacketInv'
    OBVIOUS
  <2>0. FramingInv /\ FramingInv' /\ Packets /\ OnlyInv /\ WholeInv
    BY FramingStep DEF PacketInv
  <2>1. CASE Deliver \/ HangUp \/ UNCHANGED framingVars
    <3>1. UNCHANGED <<stream, rBuf, base, handled, i, tflag>> /\ (fpc' = "scan" <=> fpc = "scan")
      BY <2>0, <2>1, OutsideKeeps DEF FramingInv
    <3>2. \A n : StartOf(n)' = StartOf(n)
      BY <3>1 DEF StartOf
    <3>3. Packets'
      BY <2>0, <3>1 DEF Packets
    <3>4. OnlyInv'
      <4>1. \A n : Asks(stream[n])' = Asks(stream[n])
        BY <3>1 DEF Asks
      <4> QED
        BY <2>0, <3>1, <3>2, <4>1 DEF OnlyInv, NoOtherHead
    <3>5. Placed' = Placed /\ (Done' <=> Done) /\ \A m : UpTo(m)' <=> UpTo(m)
      BY <3>1, <3>2 DEF Placed, Done, UpTo, InRead, HandledAt, rLen, byte
    <3>6. WholeInv'
      BY <2>0, <3>1, <3>5 DEF WholeInv
    <3> QED
      BY <2>0, <3>3, <3>4, <3>6 DEF PacketInv
  <2>2. CASE Read
    <3>1. UNCHANGED <<stream, handled>>
      BY <2>0, <2>2, ReadPlaces DEF FramingInv
    <3>2. \A n : StartOf(n)' = StartOf(n)
      BY <3>1 DEF StartOf
    <3>3. Packets'
      BY <2>0, <3>1 DEF Packets
    <3>4. OnlyInv'
      <4>1. \A n : Asks(stream[n])' = Asks(stream[n])
        BY <3>1 DEF Asks
      <4> QED
        BY <2>0, <3>1, <3>2, <4>1 DEF OnlyInv, NoOtherHead
    <3>5. WholeInv'
      BY <2>0, <2>2, ReadWhole DEF FramingInv
    <3> QED
      BY <2>0, <3>3, <3>4, <3>5 DEF PacketInv
  <2>3. CASE Scan
    <3>1. stream' = stream
      BY <2>0, <2>3, ScanAtHead DEF FramingInv
    <3>2. Packets'
      BY <2>0, <3>1 DEF Packets
    <3>3. OnlyInv' /\ WholeInv'
      BY <2>0, <2>3, ScanOnly, ScanWhole DEF FramingInv
    <3> QED
      BY <2>0, <3>2, <3>3 DEF PacketInv
  <2> QED
    BY <2>1, <2>2, <2>3 DEF FramingNext, RobotProcess
<1> QED
  BY <1>1, <1>2, PTL DEF FramingSpec

\* A read that begins where a packet begins has all its whole packets handled, in their
\* order and each once, for any packets and any portions (logic.c:31-69):
\* WholeAreHandled of Framing.
THEOREM WholePacketsHandled ==
  ASSUME Streams \subseteq Seq(Packet), ReadSize \in Nat
  PROVE  FramingSpec => []WholeAreHandled
<1>1. PacketInv => WholeAreHandled
  <2> SUFFICES ASSUME PacketInv, Scanned, base \in Placed PROVE WholeAreHandled
    BY DEF WholeAreHandled
  <2>1. Done
    BY DEF PacketInv, WholeInv, Scanned
  <2>2. ASSUME NEW n \in 1..Len(stream), InRead(n) PROVE \E h \in Range(handled) : h[1] = StartOf(n)
    <3>1. PICK a \in 1..Len(handled) : handled[a][1] = StartOf(n)
      BY <2>1, <2>2 DEF Done, HandledAt
    <3>2. PICK S : handled \in Seq(S)
      BY DEF PacketInv, FramingInv, FramingTypes, Recorded
    <3>3. a \in DOMAIN handled
      BY <3>2
    <3> QED
      BY <3>1, <3>3 DEF Range
  <2>3. HandledInOrder
    BY DEF PacketInv, FramingInv, OrderInv, HandledInOrder
  <2> QED
    BY <2>2, <2>3 DEF WholeAreHandled, HandledInOrder
<1> QED
  BY <1>1, PacketInvariant, PTL

\* Of packets that carry no head byte nothing but what they ask for is done, with their
\* identifiers complete and in order (logic.c:31, robot.c:104-113): OnlyPackets of Framing.
THEOREM NothingElseHandled ==
  ASSUME Streams \subseteq Seq(Packet), ReadSize \in Nat
  PROVE  FramingSpec => []OnlyPackets
<1>1. PacketInv => OnlyPackets
  <2> SUFFICES ASSUME PacketInv, NoOtherHead, NEW h \in Range(handled)
               PROVE  \E n \in 1..Len(stream) : h[1] = StartOf(n) /\ h[2] \in Asks(stream[n])
    BY DEF OnlyPackets, NoOtherHead
  <2>1. PICK S : handled \in Seq(S)
    BY DEF PacketInv, FramingInv, FramingTypes, Recorded
  <2>2. PICK a \in 1..Len(handled) : h = handled[a]
    BY <2>1 DEF Range
  <2> QED
    BY <2>2 DEF PacketInv, OnlyInv
<1> QED
  BY <1>1, PacketInvariant, PTL

\* A function on 1..n is a sequence of length n.
LEMMA MadeSeq ==
  ASSUME NEW n \in Nat, NEW S, NEW f \in [1..n -> S]
  PROVE  f \in Seq(S) /\ Len(f) = n
OBVIOUS

\* The elements of two sequences one behind the other.
LEMMA Joined ==
  ASSUME NEW S, NEW a \in Seq(S), NEW b \in Seq(S)
  PROVE  /\ a \o b \in Seq(S) /\ Len(a \o b) = Len(a) + Len(b)
         /\ \A k \in 1..Len(a) : (a \o b)[k] = a[k]
         /\ \A k \in Len(a) + 1..Len(a) + Len(b) : (a \o b)[k] = b[k - Len(a)]
<1> DEFINE p == Len(a)
           q == Len(b)
<1>0. p \in Nat /\ q \in Nat
  OBVIOUS
<1>1. a \o b \in Seq(S) /\ Len(a \o b) = p + q
  BY ConcatProperties
<1>2. ASSUME NEW k \in 1..p + q PROVE (a \o b)[k] = IF k <= p THEN a[k] ELSE b[k - p]
  <2>1. k \in 1..Len(a) + Len(b)
    OBVIOUS
  <2> QED
    BY <2>1, ConcatProperties
<1>3. ASSUME NEW k \in 1..p PROVE (a \o b)[k] = a[k]
  <2>1. k \in 1..p + q /\ k <= p
    BY <1>0
  <2> QED
    BY <1>2, <2>1
<1>4. ASSUME NEW k \in p + 1..p + q PROVE (a \o b)[k] = b[k - p]
  <2>1. k \in 1..p + q /\ ~(k <= p)
    BY <1>0
  <2> QED
    BY <1>2, <2>1
<1> QED
  BY <1>1, <1>3, <1>4

(***************************************************************************)
(* HttpControl                                                             *)
(***************************************************************************)
Lengths == Nat \cup {Missing, Number}
Names == {"type", "nid", "gid", "zero"}
Char == (Callers \cup {Nobody}) \X Names \X Nat
Robots == {Targets[c] : c \in Callers}
Command == [to : Robots, word : Seq(Char), written : BOOLEAN]

\* A process that comes as far as connect has three fields of 25 characters.
Strings(c) == \A k \in 1..3 : fields[c][k] \in Nat
Good(c) ==
  /\ Strings(c)
  /\ fields[c][1] + fields[c][2] + fields[c][3] = 25

ControlTypes ==
  /\ cpc \in [Callers -> {"main", "connect", "send", "recv", "killed", "end"}]
  /\ fields \in [Callers -> [1..3 -> Lengths]]
  /\ output \in [Callers -> {"none", "0", "1", "-48", "fault", "Invalid json format!", "Invalid json data!"}]
  /\ backlog \in Seq(Callers)
  /\ spc \in {"accept", "recv", "find", "send"}
  /\ served \in Callers \cup {Nobody} /\ (spc # "accept" => served \in Callers)
  /\ buf \in Seq(Char) /\ Len(buf) = 25
  /\ back \in {"none", "0", "1"}
  /\ handed \in Seq(Command)
  /\ answers \in [Callers -> {"none", "0", "1", "-48"}]

GoodInv == \A c \in Callers : cpc[c] \notin {"main", "end"} => Good(c)

\* What is in the buffer is one message, whole, of a process that sent it.
BufInv == buf = Zeros \/ \E c \in Callers : Sent(c) /\ Good(c) /\ buf = Message(c)

-----------------------------------------------------------------------------
(* Messages                                                                *)

LEMMA MessageIsOfOne ==
  ASSUME NEW c \in Callers, Strings(c)
  PROVE  /\ Message(c) \in Seq(Char) /\ Len(Message(c)) = fields[c][1] + fields[c][2] + fields[c][3]
         /\ \A k \in 1..Len(Message(c)) : Message(c)[k][1] = c
         /\ fields[c] = Proper => SubSeq(Message(c), 1, 9) = WordOf(c)
<1> DEFINE a == Characters(c, "type", fields[c][1])
           b == Characters(c, "nid", fields[c][2])
           d == Characters(c, "gid", fields[c][3])
           p == fields[c][1]
           q == fields[c][2]
           r == fields[c][3]
<1>1. p \in Nat /\ q \in Nat /\ r \in Nat
  BY DEF Strings
<1> HIDE DEF p, q, r
<1>2. ASSUME NEW n \in Nat, NEW name \in Names
      PROVE  /\ Characters(c, name, n) \in Seq(Char) /\ Len(Characters(c, name, n)) = n
             /\ \A k \in 1..n : Characters(c, name, n)[k] = <<c, name, k>>
  <2>1. ASSUME NEW k \in 1..n PROVE <<c, name, k>> \in Char
    <3>1. c \in Callers \cup {Nobody} /\ k \in Nat
      OBVIOUS
    <3> QED
      BY <3>1 DEF Char
  <2>2. Characters(c, name, n) \in [1..n -> Char]
    BY <2>1, Zenon DEF Characters
  <2>3. \A k \in 1..n : Characters(c, name, n)[k] = <<c, name, k>>
    BY DEF Characters
  <2> QED
    BY <2>2, <2>3, MadeSeq
<1>3. /\ a \in Seq(Char) /\ Len(a) = p /\ \A k \in 1..p : a[k] = <<c, "type", k>>
      /\ b \in Seq(Char) /\ Len(b) = q /\ \A k \in 1..q : b[k] = <<c, "nid", k>>
      /\ d \in Seq(Char) /\ Len(d) = r /\ \A k \in 1..r : d[k] = <<c, "gid", k>>
  <2>1. "type" \in Names /\ "nid" \in Names /\ "gid" \in Names
    BY DEF Names
  <2> QED
    BY <1>1, <1>2, <2>1, Zenon DEF p, q, r
<1>4. Message(c) = (a \o b) \o d
  BY DEF Message
<1> HIDE DEF a, b, d
<1>5. /\ a \o b \in Seq(Char) /\ Len(a \o b) = p + q
      /\ \A k \in 1..p : (a \o b)[k] = a[k]
      /\ \A k \in p + 1..p + q : (a \o b)[k] = b[k - p]
  <2>1. a \in Seq(Char) /\ b \in Seq(Char) /\ Len(a) = p /\ Len(b) = q
    BY <1>3
  <2> QED
    <3>1. /\ a \o b \in Seq(Char) /\ Len(a \o b) = Len(a) + Len(b)
          /\ \A k \in 1..Len(a) : (a \o b)[k] = a[k]
          /\ \A k \in Len(a) + 1..Len(a) + Len(b) : (a \o b)[k] = b[k - Len(a)]
      BY ONLY <2>1, Joined, Zenon
    <3> QED
      BY ONLY <2>1, <3>1
<1>6. /\ Message(c) \in Seq(Char) /\ Len(Message(c)) = p + q + r
      /\ \A k \in 1..p + q : Message(c)[k] = (a \o b)[k]
      /\ \A k \in p + q + 1..p + q + r : Message(c)[k] = d[k - (p + q)]
  <2> DEFINE ab == a \o b
  <2>1. ab \in Seq(Char) /\ d \in Seq(Char) /\ Len(ab) = p + q /\ Len(d) = r
    BY <1>3, <1>5
  <2>2. Message(c) = ab \o d
    BY <1>4
  <2> HIDE DEF ab
  <2>3. /\ ab \o d \in Seq(Char) /\ Len(ab \o d) = Len(ab) + Len(d)
        /\ \A k \in 1..Len(ab) : (ab \o d)[k] = ab[k]
        /\ \A k \in Len(ab) + 1..Len(ab) + Len(d) : (ab \o d)[k] = d[k - Len(ab)]
    BY ONLY <2>1, Joined, Zenon
  <2>4. /\ Message(c) \in Seq(Char) /\ Len(Message(c)) = p + q + r
        /\ \A k \in 1..p + q : Message(c)[k] = ab[k]
        /\ \A k \in p + q + 1..p + q + r : Message(c)[k] = d[k - (p + q)]
    BY ONLY <2>1, <2>2, <2>3
  <2> QED
    BY <2>4 DEF ab
<1>7. ASSUME NEW k \in 1..p + q + r PROVE Message(c)[k][1] = c
  <2>1. CASE k \in 1..p
    BY <1>1, <1>3, <1>5, <1>6, <2>1
  <2>2. CASE k \in p + 1..p + q
    <3>1. k - p \in 1..q /\ b[k - p] = <<c, "nid", k - p>>
      BY <1>1, <1>3, <2>2
    <3>2. Message(c)[k] = b[k - p]
      <4>1. (a \o b)[k] = b[k - p]
        BY <1>5, <2>2
      <4>2. k \in 1..p + q
        BY <1>1, <2>2
      <4> QED
        BY <1>6, <4>1, <4>2
    <3> QED
      BY <3>1, <3>2
  <2>3. CASE k \in p + q + 1..p + q + r
    <3>1. k - (p + q) \in 1..r /\ d[k - (p + q)] = <<c, "gid", k - (p + q)>>
      BY <1>1, <1>3, <2>3
    <3>2. Message(c)[k] = d[k - (p + q)]
      BY <1>6, <2>3
    <3> QED
      BY <3>1, <3>2
  <2> QED
    BY <1>1, <2>1, <2>2, <2>3
<1>8. ASSUME fields[c] = Proper PROVE SubSeq(Message(c), 1, 9) = WordOf(c)
  <2>1. p = 1 /\ q = 8 /\ r = 16
    BY <1>8 DEF p, q, r, Proper
  <2>2. WordOf(c) = a \o b
    BY <1>8 DEF WordOf, a, b, Proper
  <2>3. /\ SubSeq(Message(c), 1, 9) \in Seq(Char) /\ Len(SubSeq(Message(c), 1, 9)) = 9
        /\ \A k \in 1..9 : SubSeq(Message(c), 1, 9)[k] = Message(c)[k]
    <3>1. ASSUME NEW k \in 1..9 PROVE Message(c)[k] \in Char
      <4>1. k \in 1..Len(Message(c))
        BY <1>6, <2>1
      <4> QED
        BY <1>6, <4>1, ElementOfSeq
    <3> QED
      BY <3>1, SubSeqProperties
  <2>4. \A k \in 1..9 : SubSeq(Message(c), 1, 9)[k] = (a \o b)[k]
    <3>1. 1..p + q = 1..9
      BY <2>1
    <3> QED
      BY <1>6, <2>3, <3>1
  <2> QED
    <3>1. a \o b \in Seq(Char) /\ Len(a \o b) = 9
      BY <1>5, <2>1
    <3> QED
      BY <2>2, <2>3, <2>4, <3>1, SeqEqual
<1> QED
  BY <1>6, <1>7, <1>8 DEF p, q, r

\* The serial number in the buffer is that of the process whose message it is, and the
\* buffer that is still empty has none.
LEMMA SerialIsIn ==
  ASSUME ControlTypes, NEW d \in Asked
  PROVE  d \in Callers /\ buf[25] = <<d, "gid", 16>>
<1>1. d \in Callers /\ SubSeq(buf, 10, 25) = Characters(d, "gid", 16)
  BY DEF Asked
<1>2. SubSeq(buf, 10, 25)[16] = buf[25]
  <2>1. ASSUME NEW k \in 10..25 PROVE buf[k] \in Char
    <3>1. Len(buf) = 25 /\ buf \in Seq(Char)
      BY Zenon DEF ControlTypes
    <3>2. k \in 1..Len(buf)
      BY <3>1
    <3> QED
      BY <3>1, <3>2, ElementOfSeq
  <2>2. SubSeq(buf, 10, 25)[16] = buf[10 + 16 - 1]
    BY <2>1, SubSeqProperties
  <2> QED
    BY <2>2
<1>3. Characters(d, "gid", 16)[16] = <<d, "gid", 16>>
  BY DEF Characters
<1> QED
  BY <1>1, <1>2, <1>3

LEMMA NobodyAsks ==
  ASSUME ControlTypes, buf = Zeros
  PROVE  Asked = {}
<1>1. buf[25][2] = "zero"
  BY DEF Zeros
<1> QED
  BY <1>1, SerialIsIn

LEMMA OneAsks ==
  ASSUME ControlTypes, NEW c \in Callers, Good(c), buf = Message(c)
  PROVE  Asked \subseteq {c}
<1>1. \A k \in 1..Len(Message(c)) : Message(c)[k][1] = c
  BY MessageIsOfOne, Zenon DEF Good
<1>2. Len(buf) = 25
  BY Zenon DEF ControlTypes
<1>3. buf[25][1] = c
  BY <1>1, <1>2
<1> QED
  BY <1>3, SerialIsIn

-----------------------------------------------------------------------------
(* The queue of connections and the answers                                *)

\* A process whose connection is open and that has no answer.
Open(at, got, c) == at[c] \in {"send", "recv", "killed"} /\ got[c] = "none"
Unanswered(c) == Open(cpc, answers, c)

\* Those that wait are different ones, none of them is served, and none is answered.
QueueInv ==
  /\ \A k \in 1..Len(backlog) : Unanswered(backlog[k])
  /\ \A j, k \in 1..Len(backlog) : backlog[j] = backlog[k] => j = k
  /\ spc # "accept" => Unanswered(served) /\ \A k \in 1..Len(backlog) : backlog[k] # served
  /\ \A c \in Callers : cpc[c] \in {"main", "connect"} => answers[c] = "none"

\* The thread looks for a robot when the process it serves has sent, and then the
\* message is in the buffer; an answer "1" is given when the command was given to _write.
Told(c) == fields[c] = Proper => Commands(c) # {}
AnswerInv ==
  /\ spc \in {"find", "send"} => cpc[served] \in {"recv", "killed"}
  /\ spc = "find" /\ cpc[served] = "recv" => buf = Message(served)
  /\ spc = "send" /\ cpc[served] = "recv" /\ back = "1" => Told(served)
  /\ \A c \in Callers : answers[c] = "1" /\ cpc[c] # "killed" => Told(c)
  /\ \A c \in Callers : output[c] = "1" => Told(c)

ControlInv == ControlTypes /\ GoodInv /\ BufInv /\ QueueInv /\ CommandsAreAsked /\ AnswerInv

LEMMA ControlInitial ==
  ASSUME Fields \subseteq [1..3 -> Lengths], ControlInit
  PROVE  ControlInv
<1>1. ControlTypes
  <2>1. Zeros \in Seq(Char) /\ Len(Zeros) = 25
    <3>1. <<Nobody, "zero", 0>> \in Char
      BY DEF Char, Names
    <3>2. Zeros \in [1..25 -> Char]
      BY <3>1 DEF Zeros
    <3> QED
      BY <3>2, MadeSeq
  <2>2. fields \in [Callers -> [1..3 -> Lengths]]
    BY DEF ControlInit
  <2>3. backlog \in Seq(Callers) /\ handed \in Seq(Command)
    BY DEF ControlInit
  <2> QED
    BY <2>1, <2>2, <2>3 DEF ControlTypes, ControlInit
<1>2. GoodInv /\ BufInv /\ QueueInv /\ CommandsAreAsked /\ AnswerInv
  BY DEF ControlInit, GoodInv, BufInv, QueueInv, CommandsAreAsked, AnswerInv, Told
<1> QED
  BY <1>1, <1>2 DEF ControlInv

\* A command that was written stays written.
LEMMA CommandsStay ==
  ASSUME ControlTypes, NEW c \in Callers, fields' = fields,
         \/ handed' = handed
         \/ \E cmd \in Command : handed' = Append(handed, cmd)
  PROVE  /\ Len(handed) <= Len(handed') /\ \A k \in 1..Len(handed) : handed'[k] = handed[k]
         /\ Told(c) => Told(c)'
<1>1. handed \in Seq(Command)
  BY Zenon DEF ControlTypes
<1>2. Len(handed) <= Len(handed') /\ \A k \in 1..Len(handed) : handed'[k] = handed[k]
  BY <1>1
<1>3. ASSUME NEW k \in Commands(c) PROVE k \in Commands(c)'
  <2>1. k \in 1..Len(handed) /\ handed[k].to = Targets[c] /\ handed[k].word = WordOf(c)
    BY DEF Commands
  <2>2. k \in 1..Len(handed') /\ handed'[k] = handed[k]
    BY <1>1, <1>2, <2>1
  <2>3. WordOf(c)' = WordOf(c)
    BY DEF WordOf
  <2> QED
    BY <2>1, <2>2, <2>3 DEF Commands
<1> QED
  BY <1>2, <1>3 DEF Told

-----------------------------------------------------------------------------
(* The steps                                                               *)

\* A command for a robot of some process, with nine of the characters in the buffer.
LEMMA CommandIsMade ==
  ASSUME ControlTypes, NEW r \in Found
  PROVE  /\ \A done \in BOOLEAN : [to |-> r, word |-> SubSeq(buf, 1, 9), written |-> done] \in Command
         /\ \E c \in Asked : r = Targets[c]
<1>1. PICK c \in Asked : r = Targets[c]
  BY DEF Found
<1>2. r \in Robots
  BY <1>1 DEF Asked, Robots
<1>3. SubSeq(buf, 1, 9) \in Seq(Char)
  <2>1. Len(buf) = 25 /\ buf \in Seq(Char)
    BY Zenon DEF ControlTypes
  <2>2. ASSUME NEW k \in 1..9 PROVE buf[k] \in Char
    <3>1. k \in 1..Len(buf)
      BY <2>1
    <3> QED
      BY <2>1, <3>1, ElementOfSeq
  <2> QED
    BY <2>2, SubSeqProperties
<1> QED
  BY <1>1, <1>2, <1>3 DEF Command

\* What every step keeps: the requests, what was sent, and the commands written.
LEMMA ControlKeeps ==
  ASSUME ControlInv, [ControlNext]_controlVars
  PROVE  /\ fields' = fields
         /\ \A c \in Callers : Sent(c) => Sent(c)'
         /\ \/ handed' = handed
            \/ \E cmd \in Command : handed' = Append(handed, cmd)
<1>0. ControlTypes
  BY Zenon DEF ControlInv
<1>1. cpc \in [Callers -> {"main", "connect", "send", "recv", "killed", "end"}]
  BY <1>0, Zenon DEF ControlTypes
<1>2. CASE UNCHANGED controlVars
  BY <1>2 DEF controlVars, Sent
<1>3. ASSUME NEW c \in Callers, Cgi(c)
      PROVE  fields' = fields /\ handed' = handed /\ \A d \in Callers : Sent(d) => Sent(d)'
  <2>1. CASE Main(c)
    BY <1>1, <2>1 DEF Main, Sent
  <2>2. CASE Connect(c)
    BY <1>1, <2>2 DEF Connect, Sent
  <2>3. CASE Send(c)
    BY <1>1, <2>3 DEF Send, Sent
  <2>4. CASE Recv(c)
    BY <1>1, <2>4 DEF Recv, Sent
  <2> QED
    BY <1>3, <2>1, <2>2, <2>3, <2>4 DEF Cgi
<1>4. CASE Accept \/ ServerRecv \/ SendAndClose \/ \E c \in Callers : RobotMoves(Targets[c])
  BY <1>4 DEF Accept, ServerRecv, Received, CloseServed, Serves, SendAndClose, RobotMoves, Sent
<1>5. CASE WriteWord
  <2>1. fields' = fields /\ cpc' = cpc
    BY <1>5 DEF WriteWord, Serves
  <2>2. \/ handed' = handed
        \/ \E r \in Found, done \in BOOLEAN :
             handed' = Append(handed, [to |-> r, word |-> SubSeq(buf, 1, 9), written |-> done])
    BY <1>5 DEF WriteWord, GiveToWrite
  <2> QED
    BY <1>0, <2>1, <2>2, CommandIsMade DEF Sent
<1> QED
  BY <1>2, <1>3, <1>4, <1>5 DEF ControlNext, HttpServer

\* recv gives something, or the connection is closed with an answer or without one.
Receives == spc = "recv" /\ Received
ClosesServed == \/ spc \in {"recv", "send"} /\ CloseServed("-48")
                \/ spc = "send" /\ CloseServed(back)

LEMMA ServerSteps ==
  ASSUME ControlNext
  PROVE  \/ \E c \in Callers : Cgi(c) \/ RobotMoves(Targets[c])
         \/ Accept \/ Receives \/ WriteWord \/ ClosesServed
BY DEF ControlNext, HttpServer, ServerRecv, SendAndClose, Receives, ClosesServed

LEMMA ControlTypesStep ==
  ASSUME ControlInv, [ControlNext]_controlVars
  PROVE  ControlTypes'
<1>0. ControlTypes
  BY Zenon DEF ControlInv
<1>1. fields' = fields /\ handed' \in Seq(Command)
  <2>1. handed \in Seq(Command)
    BY <1>0, Zenon DEF ControlTypes
  <2> QED
    BY <2>1, ControlKeeps
<1>2. ASSUME NEW c \in Callers, Cgi(c) PROVE ControlTypes'
  <2>1. CASE Main(c)
    <3>1. parseJson(c) \subseteq {"none", "fault", "Invalid json format!", "Invalid json data!", "control"}
      BY DEF parseJson
    <3>2. cpc' \in [Callers -> {"main", "connect", "send", "recv", "killed", "end"}]
      <4>1. cpc \in [Callers -> {"main", "connect", "send", "recv", "killed", "end"}]
        BY <1>0, Zenon DEF ControlTypes
      <4>2. \E to \in {"connect", "end"} : cpc' = [cpc EXCEPT ![c] = to]
        BY <2>1 DEF Main
      <4> QED
        BY <4>1, <4>2
    <3>3. output' \in [Callers -> {"none", "0", "1", "-48", "fault", "Invalid json format!", "Invalid json data!"}]
      BY <1>0, <2>1, <3>1 DEF Main, ControlTypes
    <3>4. UNCHANGED <<backlog, spc, served, buf, back, answers>>
      BY <2>1 DEF Main
    <3> QED
      BY <1>0, <1>1, <3>2, <3>3, <3>4 DEF ControlTypes
  <2>2. CASE Connect(c)
    <3>1. backlog' \in Seq(Callers)
      <4>1. backlog \in Seq(Callers)
        BY <1>0, Zenon DEF ControlTypes
      <4>2. backlog' = backlog \/ backlog' = Append(backlog, c)
        BY <2>2 DEF Connect
      <4> QED
        BY <4>1, <4>2
    <3>2. cpc' \in [Callers -> {"main", "connect", "send", "recv", "killed", "end"}]
      <4>1. cpc \in [Callers -> {"main", "connect", "send", "recv", "killed", "end"}]
        BY <1>0, Zenon DEF ControlTypes
      <4>2. \E to \in {"send", "end"} : cpc' = [cpc EXCEPT ![c] = to]
        BY <2>2 DEF Connect
      <4> QED
        BY <4>1, <4>2
    <3>3. UNCHANGED <<output, spc, served, buf, back, answers>>
      BY <2>2 DEF Connect
    <3> QED
      BY <1>0, <1>1, <3>1, <3>2, <3>3 DEF ControlTypes
  <2>3. CASE Send(c)
    <3>1. cpc' \in [Callers -> {"main", "connect", "send", "recv", "killed", "end"}]
      <4>1. cpc \in [Callers -> {"main", "connect", "send", "recv", "killed", "end"}]
        BY <1>0, Zenon DEF ControlTypes
      <4>2. \E to \in {"recv", "killed"} : cpc' = [cpc EXCEPT ![c] = to]
        BY <2>3 DEF Send
      <4> QED
        BY <4>1, <4>2
    <3> QED
      BY <1>0, <1>1, <2>3, <3>1 DEF Send, ControlTypes
  <2>4. CASE Recv(c)
    <3>1. cpc' \in [Callers -> {"main", "connect", "send", "recv", "killed", "end"}]
      <4>1. cpc \in [Callers -> {"main", "connect", "send", "recv", "killed", "end"}]
        BY <1>0, Zenon DEF ControlTypes
      <4>2. \E to \in {"end"} : cpc' = [cpc EXCEPT ![c] = to]
        BY <2>4 DEF Recv
      <4> QED
        BY <4>1, <4>2
    <3> QED
      BY <1>0, <1>1, <2>4, <3>1 DEF Recv, ControlTypes
  <2> QED
    BY <1>2, <2>1, <2>2, <2>3, <2>4 DEF Cgi
<1>3. CASE Accept
  <2>1. backlog \in Seq(Callers) /\ backlog # <<>>
    BY <1>0, <1>3 DEF Accept, ControlTypes
  <2>2. Head(backlog) \in Callers /\ Tail(backlog) \in Seq(Callers)
    BY <2>1
  <2> QED
    BY <1>0, <1>1, <1>3, <2>2 DEF Accept, ControlTypes
<1>4. CASE Receives
  <2>1. served \in Callers
    BY <1>0, <1>4 DEF Receives, ControlTypes
  <2>2. buf' \in Seq(Char) /\ Len(buf') = 25
    <3>1. CASE cpc[served] = "recv"
      <4>1. Good(served)
        BY <2>1, <3>1 DEF ControlInv, GoodInv
      <4>2. Message(served) \in Seq(Char) /\ Len(Message(served)) = 25
        BY <2>1, <4>1, MessageIsOfOne, Zenon DEF Good
      <4> QED
        BY <1>4, <3>1, <4>2 DEF Receives, Received
    <3>2. CASE cpc[served] # "recv"
      BY <1>0, <1>4, <3>2 DEF Receives, Received, ControlTypes
    <3> QED
      BY <3>1, <3>2
  <2> QED
    BY <1>0, <1>1, <1>4, <2>1, <2>2 DEF Receives, Received, Serves, ControlTypes
<1>5. CASE WriteWord
  <2>1. back' \in {"none", "0", "1"} /\ buf' = buf /\ served' = served
    BY <1>0, <1>5 DEF WriteWord, ControlTypes
  <2>2. served \in Callers
    BY <1>0, <1>5 DEF WriteWord, ControlTypes
  <2>3. spc' = "send" /\ UNCHANGED <<cpc, output, backlog, answers>>
    BY <1>5 DEF WriteWord, Serves
  <2> QED
    BY <1>0, <1>1, <2>1, <2>2, <2>3 DEF ControlTypes
<1>6. CASE ClosesServed
  <2>1. spc' = "accept" /\ served' = Nobody /\ UNCHANGED <<cpc, output, backlog, buf, back>>
    BY <1>6 DEF ClosesServed, CloseServed
  <2>2. answers' = [answers EXCEPT ![served] = "-48"] \/ answers' = [answers EXCEPT ![served] = back]
    BY <1>6 DEF ClosesServed, CloseServed
  <2>3. answers' \in [Callers -> {"none", "0", "1", "-48"}]
    BY <1>0, <2>2 DEF ControlTypes
  <2> QED
    BY <1>0, <1>1, <2>1, <2>3 DEF ControlTypes
<1>7. CASE (\E c \in Callers : RobotMoves(Targets[c])) \/ UNCHANGED controlVars
  BY <1>0, <1>1, <1>7 DEF RobotMoves, controlVars, ControlTypes
<1> QED
  BY <1>2, <1>3, <1>4, <1>5, <1>6, <1>7, ServerSteps

\* Who is let through to connect has three fields of 25 characters.
LEMMA GoodInvStep ==
  ASSUME ControlInv, [ControlNext]_controlVars
  PROVE  GoodInv'
<1>0. ControlTypes /\ GoodInv /\ fields' = fields
  BY ControlKeeps, Zenon DEF ControlInv
<1>1. \A c \in Callers : Good(c)' <=> Good(c)
  BY <1>0 DEF Good, Strings
<1>2. cpc \in [Callers -> {"main", "connect", "send", "recv", "killed", "end"}]
  BY <1>0, Zenon DEF ControlTypes
<1>3. ASSUME NEW c \in Callers, Main(c) PROVE GoodInv'
  <2>1. CASE "control" \in parseJson(c)
    <3>1. Good(c)
      <4>1. {k \in 1..3 : fields[c][k] \in {Missing, Number}} = {} /\ Len(Message(c)) = 25
        BY <2>1 DEF parseJson
      <4>2. \A k \in 1..3 : fields[c][k] \in Lengths
        BY <1>0 DEF ControlTypes
      <4>3. Strings(c)
        BY <4>1, <4>2 DEF Strings, Lengths
      <4> QED
        BY <4>1, <4>3, MessageIsOfOne, Zenon DEF Good
    <3> QED
      BY <1>0, <1>1, <1>2, <1>3, <3>1 DEF Main, GoodInv
  <2>2. CASE "control" \notin parseJson(c)
    BY <1>0, <1>1, <1>2, <1>3, <2>2 DEF Main, GoodInv
  <2> QED
    BY <2>1, <2>2
<1>4. ASSUME NEW c \in Callers, Connect(c) \/ Send(c) \/ Recv(c) PROVE GoodInv'
  BY <1>0, <1>1, <1>2, <1>4 DEF Connect, Send, Recv, GoodInv
<1>5. CASE cpc' = cpc
  BY <1>0, <1>1, <1>5 DEF GoodInv
<1>6. HttpServer \/ (\E c \in Callers : RobotMoves(Targets[c])) \/ UNCHANGED controlVars => cpc' = cpc
  BY DEF HttpServer, Accept, ServerRecv, Received, CloseServed, WriteWord, Serves, SendAndClose, RobotMoves, controlVars
<1> QED
  BY <1>3, <1>4, <1>5, <1>6 DEF ControlNext, Cgi

LEMMA BufInvStep ==
  ASSUME ControlInv, [ControlNext]_controlVars
  PROVE  BufInv'
<1>0. ControlTypes /\ GoodInv /\ BufInv /\ fields' = fields /\ \A c \in Callers : Sent(c) => Sent(c)'
  BY ControlKeeps, Zenon DEF ControlInv
<1>1. \A c \in Callers : (Good(c)' <=> Good(c)) /\ Message(c)' = Message(c)
  BY <1>0 DEF Good, Strings, Message, Characters
<1>2. CASE buf' = buf
  BY <1>0, <1>1, <1>2 DEF BufInv, Zeros
<1>3. CASE Receives /\ cpc[served] = "recv"
  <2>1. served \in Callers /\ buf' = Message(served) /\ Sent(served)
    BY <1>0, <1>3 DEF Receives, Received, ControlTypes, Sent
  <2>2. Good(served)
    BY <1>0, <1>3, <2>1 DEF GoodInv
  <2> QED
    BY <1>0, <1>1, <2>1, <2>2 DEF BufInv
<1>4. CASE Receives /\ cpc[served] # "recv"
  BY <1>2, <1>4 DEF Receives, Received
<1>5. Accept \/ WriteWord \/ ClosesServed \/ (\E c \in Callers : RobotMoves(Targets[c])) \/ UNCHANGED controlVars
      => buf' = buf
  BY DEF Accept, WriteWord, ClosesServed, CloseServed, RobotMoves, controlVars
<1>6. (\E c \in Callers : Cgi(c)) => buf' = buf
  BY DEF Cgi, Main, Connect, Send, Recv
<1> QED
  BY <1>2, <1>3, <1>4, <1>5, <1>6, ServerSteps

LEMMA QueueInvStep ==
  ASSUME ControlInv, [ControlNext]_controlVars
  PROVE  QueueInv'
<1>0. ControlTypes /\ QueueInv
  BY Zenon DEF ControlInv
<1>1. /\ cpc \in [Callers -> {"main", "connect", "send", "recv", "killed", "end"}]
      /\ answers \in [Callers -> {"none", "0", "1", "-48"}]
      /\ backlog \in Seq(Callers)
      /\ spc # "accept" => served \in Callers
  BY <1>0, Zenon DEF ControlTypes
<1>2. \A k \in 1..Len(backlog) : backlog[k] \in Callers
  BY <1>1
<1>3. ASSUME NEW c \in Callers, Main(c) \/ Send(c) PROVE QueueInv'
  <2>1. /\ UNCHANGED <<backlog, spc, served, answers>>
        /\ \A d \in Callers : Unanswered(d) => Unanswered(d)'
        /\ \A d \in Callers : cpc'[d] \in {"main", "connect"} => cpc[d] \in {"main", "connect"}
    BY <1>1, <1>3 DEF Main, Send, Unanswered, Open
  <2> QED
    BY <1>0, <1>1, <1>2, <2>1 DEF QueueInv
<1>4. ASSUME NEW c \in Callers, Connect(c) PROVE QueueInv'
  <2>1. /\ UNCHANGED <<spc, served, answers>>
        /\ \A d \in Callers : Unanswered(d) => Unanswered(d)'
        /\ \A d \in Callers : cpc'[d] \in {"main", "connect"} => cpc[d] \in {"main", "connect"}
        /\ ~Unanswered(c)
    BY <1>1, <1>4 DEF Connect, Unanswered, Open
  <2>2. CASE backlog' = backlog
    BY <1>0, <1>1, <1>2, <2>1, <2>2 DEF QueueInv
  <2>3. CASE backlog' = Append(backlog, c) /\ cpc' = [cpc EXCEPT ![c] = "send"]
    <3>1. answers[c] = "none" /\ cpc'[c] = "send"
      BY <1>0, <1>1, <1>4, <2>3 DEF Connect, QueueInv
    <3>2. Unanswered(c)'
      BY <2>1, <3>1 DEF Unanswered, Open
    <3>3. \A k \in 1..Len(backlog') : backlog'[k] = IF k <= Len(backlog) THEN backlog[k] ELSE c
      BY <1>1, <2>3
    <3>4. Len(backlog') = Len(backlog) + 1 /\ Len(backlog) \in Nat
      BY <1>1, <2>3
    <3>5. \A k \in 1..Len(backlog) : backlog[k] # c
      BY <1>0, <2>1 DEF QueueInv
    <3>6. \A k \in 1..Len(backlog') : Open(cpc', answers', backlog'[k])
      <4> SUFFICES ASSUME NEW k \in 1..Len(backlog') PROVE Open(cpc', answers', backlog'[k])
        OBVIOUS
      <4>1. CASE k <= Len(backlog)
        <5>1. k \in 1..Len(backlog) /\ backlog'[k] = backlog[k]
          BY <3>3, <3>4, <4>1
        <5>2. Unanswered(backlog[k]) /\ backlog[k] \in Callers
          BY <1>0, <1>2, <5>1 DEF QueueInv
        <5>3. PICK d \in Callers : d = backlog[k]
          BY <5>2
        <5>4. Unanswered(d)'
          BY <2>1, <5>2, <5>3
        <5> QED
          BY <5>1, <5>3, <5>4 DEF Unanswered, Open
      <4>2. CASE ~(k <= Len(backlog))
        BY <3>2, <3>3, <4>2 DEF Unanswered, Open
      <4> QED
        BY <4>1, <4>2
    <3>7. \A j, k \in 1..Len(backlog') : backlog'[j] = backlog'[k] => j = k
      BY <1>0, <3>3, <3>4, <3>5 DEF QueueInv
    <3>8. spc' # "accept" => Open(cpc', answers', served') /\ \A k \in 1..Len(backlog') : backlog'[k] # served'
      <4> SUFFICES ASSUME spc' # "accept"
                   PROVE  Open(cpc', answers', served') /\ \A k \in 1..Len(backlog') : backlog'[k] # served'
        OBVIOUS
      <4>1. Unanswered(served) /\ served \in Callers /\ \A k \in 1..Len(backlog) : backlog[k] # served
        BY <1>0, <1>1, <2>1 DEF QueueInv
      <4>2. served # c
        BY <2>1, <4>1
      <4> QED
        BY <2>1, <3>3, <3>4, <4>1, <4>2 DEF Unanswered, Open
    <3>9. \A d \in Callers : cpc'[d] \in {"main", "connect"} => answers'[d] = "none"
      BY <1>0, <2>1 DEF QueueInv
    <3> QED
      BY <3>6, <3>7, <3>8, <3>9 DEF QueueInv, Unanswered
  <2> QED
    BY <1>4, <2>2, <2>3 DEF Connect
<1>5. ASSUME NEW c \in Callers, Recv(c) PROVE QueueInv'
  <2>1. /\ UNCHANGED <<backlog, spc, served, answers>>
        /\ \A d \in Callers : Unanswered(d) => Unanswered(d)'
        /\ \A d \in Callers : cpc'[d] \in {"main", "connect"} => cpc[d] \in {"main", "connect"}
    BY <1>1, <1>5 DEF Recv, Unanswered, Open
  <2> QED
    BY <1>0, <1>1, <1>2, <2>1 DEF QueueInv
<1>6. CASE Accept
  <2>1. /\ UNCHANGED <<cpc, answers>> /\ spc' = "recv"
        /\ served' = backlog[1] /\ 1 \in 1..Len(backlog)
        /\ Len(backlog') = Len(backlog) - 1
        /\ \A k \in 1..Len(backlog') : k + 1 \in 1..Len(backlog) /\ backlog'[k] = backlog[k + 1]
    <3>1. /\ UNCHANGED <<cpc, answers>> /\ spc' = "recv" /\ backlog # <<>>
          /\ served' = Head(backlog) /\ backlog' = Tail(backlog)
      BY <1>6 DEF Accept
    <3>2. /\ Head(backlog) = backlog[1] /\ 1 \in 1..Len(backlog)
          /\ Len(Tail(backlog)) = Len(backlog) - 1
          /\ \A k \in 1..Len(Tail(backlog)) : k + 1 \in 1..Len(backlog) /\ Tail(backlog)[k] = backlog[k + 1]
      BY <1>1, <3>1
    <3> QED
      BY <3>1, <3>2, Zenon
  <2>2. \A k \in 1..Len(backlog') : Open(cpc', answers', backlog'[k])
    <3>1. \A k \in 1..Len(backlog) : Open(cpc, answers, backlog[k])
      BY <1>0, Zenon DEF QueueInv, Unanswered
    <3> QED
      BY <2>1, <3>1 DEF Open
  <2>3. \A j, k \in 1..Len(backlog') : backlog'[j] = backlog'[k] => j = k
    <3> SUFFICES ASSUME NEW j \in 1..Len(backlog'), NEW k \in 1..Len(backlog'), backlog'[j] = backlog'[k]
                 PROVE  j = k
      OBVIOUS
    <3>1. j + 1 \in 1..Len(backlog) /\ k + 1 \in 1..Len(backlog) /\ backlog[j + 1] = backlog[k + 1]
      BY <2>1
    <3>2. j + 1 = k + 1
      BY <1>0, <3>1 DEF QueueInv
    <3> QED
      BY <3>2
  <2>4. Open(cpc', answers', served')
    BY <1>0, <2>1 DEF QueueInv, Unanswered, Open
  <2>5. \A k \in 1..Len(backlog') : backlog'[k] # served'
    <3> SUFFICES ASSUME NEW k \in 1..Len(backlog'), backlog'[k] = served' PROVE FALSE
      OBVIOUS
    <3>1. k + 1 \in 1..Len(backlog) /\ backlog[k + 1] = backlog[1] /\ 1 \in 1..Len(backlog)
      BY <2>1
    <3>2. k + 1 = 1
      BY <1>0, <3>1 DEF QueueInv
    <3> QED
      BY <3>2
  <2>6. \A c \in Callers : cpc'[c] \in {"main", "connect"} => answers'[c] = "none"
    BY <1>0, <2>1 DEF QueueInv
  <2> QED
    BY <2>2, <2>3, <2>4, <2>5, <2>6 DEF QueueInv, Unanswered
<1>7. CASE ClosesServed
  <2>1. served \in Callers /\ \A k \in 1..Len(backlog) : backlog[k] # served
    BY <1>0, <1>1, <1>7 DEF ClosesServed, QueueInv
  <2>2. /\ UNCHANGED <<cpc, backlog>> /\ spc' = "accept"
        /\ \A d \in Callers : d # served => answers'[d] = answers[d]
    BY <1>1, <1>7 DEF ClosesServed, CloseServed
  <2>3. cpc[served] \in {"send", "recv", "killed"}
    BY <1>0, <1>7 DEF ClosesServed, QueueInv, Unanswered, Open
  <2> QED
    BY <1>0, <1>2, <2>1, <2>2, <2>3 DEF QueueInv, Unanswered, Open
<1>8. CASE Receives \/ WriteWord
  <2>1. UNCHANGED <<cpc, backlog, answers, served>> /\ spc # "accept"
    BY <1>8 DEF Receives, Received, WriteWord, Serves
  <2> QED
    BY <1>0, <2>1 DEF QueueInv, Unanswered, Open
<1>9. CASE (\E c \in Callers : RobotMoves(Targets[c])) \/ UNCHANGED controlVars
  <2>1. UNCHANGED <<cpc, backlog, answers, served, spc>>
    BY <1>9 DEF RobotMoves, controlVars
  <2> QED
    BY <1>0, <2>1 DEF QueueInv, Unanswered, Open
<1> QED
  BY <1>3, <1>4, <1>5, <1>6, <1>7, <1>8, <1>9, ServerSteps DEF Cgi

\* A command for c's robot with the characters in the buffer is given to _write.
HandsTo(c) ==
  \E cmd \in Command : /\ cmd.to = Targets[c] /\ cmd.word = SubSeq(buf, 1, 9)
                       /\ handed' = Append(handed, cmd)

\* The command that is given to _write is that of the process whose message is in the buffer.
LEMMA WriteWordAsked ==
  ASSUME ControlInv, WriteWord, Found # {}
  PROVE  \E c \in Callers :
           /\ Sent(c) /\ Good(c) /\ buf = Message(c)
           /\ HandsTo(c)
           /\ fields[c] = Proper => SubSeq(buf, 1, 9) = WordOf(c)
<1>0. ControlTypes /\ BufInv
  BY Zenon DEF ControlInv
<1>1. PICK r \in Found, done \in BOOLEAN :
        handed' = Append(handed, [to |-> r, word |-> SubSeq(buf, 1, 9), written |-> done])
  BY DEF WriteWord, GiveToWrite
<1>2. PICK d \in Asked : r = Targets[d]
  BY <1>0, CommandIsMade
<1>3. PICK c \in Callers : Sent(c) /\ Good(c) /\ buf = Message(c)
  BY <1>0, <1>2, NobodyAsks DEF BufInv
<1>4. d = c
  BY <1>0, <1>2, <1>3, OneAsks
<1>5. fields[c] = Proper => SubSeq(buf, 1, 9) = WordOf(c)
  BY <1>3, MessageIsOfOne DEF Good
<1>6. [to |-> r, word |-> SubSeq(buf, 1, 9), written |-> done] \in Command
  BY <1>0, CommandIsMade
<1>7. HandsTo(c)
  <2> DEFINE cmd == [to |-> r, word |-> SubSeq(buf, 1, 9), written |-> done]
  <2>1. cmd \in Command /\ cmd.to = Targets[c] /\ cmd.word = SubSeq(buf, 1, 9) /\ handed' = Append(handed, cmd)
    BY <1>1, <1>2, <1>4, <1>6
  <2> HIDE DEF cmd
  <2> QED
    BY <2>1 DEF HandsTo
<1> QED
  BY <1>3, <1>5, <1>7

LEMMA CommandsAreAskedStep ==
  ASSUME ControlInv, [ControlNext]_controlVars
  PROVE  CommandsAreAsked'
<1> DEFINE Wanted(k, c) == /\ Sent(c) /\ handed[k].to = Targets[c]
                           /\ fields[c] = Proper => handed[k].word = WordOf(c)
<1>0. ControlTypes /\ handed \in Seq(Command)
  BY Zenon DEF ControlInv, ControlTypes
<1>1. \A k \in 1..Len(handed) : \E c \in Callers : Wanted(k, c)
  BY DEF ControlInv, CommandsAreAsked
<1>2. \A c \in Callers : (Sent(c) => Sent(c)') /\ WordOf(c)' = WordOf(c) /\ fields'[c] = fields[c]
  BY ControlKeeps DEF WordOf, Characters
<1>3. \A k \in 1..Len(handed) : handed'[k] = handed[k] => \E c \in Callers : Wanted(k, c)'
  BY <1>1, <1>2
<1>4. CASE handed' = handed
  BY <1>3, <1>4 DEF CommandsAreAsked
<1>5. CASE WriteWord /\ Found # {}
  <2>1. PICK c \in Callers :
           /\ Sent(c)
           /\ HandsTo(c)
           /\ fields[c] = Proper => SubSeq(buf, 1, 9) = WordOf(c)
    BY <1>5, WriteWordAsked
  <2>2. /\ Len(handed') = Len(handed) + 1 /\ Len(handed) \in Nat
        /\ \A k \in 1..Len(handed) : handed'[k] = handed[k]
        /\ handed'[Len(handed) + 1].to = Targets[c]
        /\ handed'[Len(handed) + 1].word = SubSeq(buf, 1, 9)
    <3>1. PICK cmd \in Command : /\ cmd.to = Targets[c] /\ cmd.word = SubSeq(buf, 1, 9)
                                /\ handed' = Append(handed, cmd)
      BY <2>1 DEF HandsTo
    <3>2. /\ Len(handed') = Len(handed) + 1 /\ Len(handed) \in Nat
          /\ \A k \in 1..Len(handed) : handed'[k] = handed[k]
          /\ handed'[Len(handed) + 1] = cmd
      BY <1>0, <3>1, AppendProperties
    <3> QED
      BY <3>1, <3>2
  <2>3. PICK n \in Nat : n = Len(handed) + 1
    BY <2>2
  <2>5. Wanted(n, c)'
    BY <1>2, <2>1, <2>2, <2>3
  <2>4. ASSUME NEW k \in 1..Len(handed') PROVE \E d \in Callers : Wanted(k, d)'
    <3>1. k \in 1..Len(handed) \/ k = n
      BY <2>2, <2>3
    <3> QED
      BY <1>3, <2>2, <2>5, <3>1
  <2> QED
    BY <2>4 DEF CommandsAreAsked
<1>6. WriteWord /\ Found = {} => handed' = handed
  BY DEF WriteWord
<1>7. ~WriteWord => handed' = handed
  BY DEF ControlNext, Cgi, Main, Connect, Send, Recv, HttpServer, Accept, ServerRecv, Received, CloseServed,
         Serves, SendAndClose, RobotMoves, controlVars
<1> QED
  BY <1>4, <1>5, <1>6, <1>7

\* The thread answers "1" after it gave _write the command of the process it serves, and only
\* that process gets the answer.
LEMMA AnswerInvStep ==
  ASSUME ControlInv, [ControlNext]_controlVars
  PROVE  AnswerInv'
<1>0. ControlTypes /\ QueueInv /\ AnswerInv
  BY Zenon DEF ControlInv
<1>1. /\ cpc \in [Callers -> {"main", "connect", "send", "recv", "killed", "end"}]
      /\ answers \in [Callers -> {"none", "0", "1", "-48"}]
      /\ output \in [Callers -> {"none", "0", "1", "-48", "fault", "Invalid json format!", "Invalid json data!"}]
      /\ handed \in Seq(Command)
      /\ spc # "accept" => served \in Callers
  BY <1>0, Zenon DEF ControlTypes
<1>2. fields' = fields /\ \A c \in Callers : Told(c) => Told(c)'
  BY <1>0, ControlKeeps, CommandsStay
<1>3. \A c \in Callers : Message(c)' = Message(c)
  BY <1>2 DEF Message, Characters
<1>4. ASSUME NEW c \in Callers, Cgi(c) PROVE AnswerInv'
  <2>1. /\ UNCHANGED <<spc, served, buf, back, answers>>
        /\ \A d \in Callers : d # c => cpc'[d] = cpc[d] /\ output'[d] = output[d]
        /\ cpc[c] = "killed" => cpc'[c] = "killed"
        /\ cpc[c] \in {"recv", "killed"} => cpc[c] = "recv" /\ answers[c] # "none"
        /\ output'[c] = "1" => output[c] = "1" \/ (answers[c] = "1" /\ cpc[c] = "recv")
    <3>1. CASE Main(c)
      <4>1. "1" \notin parseJson(c)
        BY DEF parseJson
      <4> QED
        BY <1>1, <3>1, <4>1 DEF Main
    <3>2. CASE Connect(c)
      BY <1>1, <3>2 DEF Connect
    <3>3. CASE Send(c)
      BY <1>1, <3>3 DEF Send
    <3>4. CASE Recv(c)
      BY <1>1, <3>4 DEF Recv
    <3> QED
      BY <1>4, <3>1, <3>2, <3>3, <3>4 DEF Cgi
  <2>2. spc \in {"find", "send"} => served \in Callers /\ served # c
    BY <1>0, <1>1, <2>1 DEF QueueInv, AnswerInv, Unanswered, Open
  <2>3. spc' \in {"find", "send"} => cpc'[served'] \in {"recv", "killed"}
    BY <1>0, <2>1, <2>2 DEF AnswerInv
  <2>4. spc' = "find" /\ cpc'[served'] = "recv" => buf' = Message(served)'
    BY <1>0, <1>3, <2>1, <2>2 DEF AnswerInv
  <2>5. spc' = "send" /\ cpc'[served'] = "recv" /\ back' = "1" => Told(served)'
    <3> SUFFICES ASSUME spc' = "send", cpc'[served'] = "recv", back' = "1" PROVE Told(served)'
      OBVIOUS
    <3>1. PICK d \in Callers : d = served /\ d = served' /\ Told(d)
      BY <1>0, <2>1, <2>2 DEF AnswerInv
    <3>2. Told(d)'
      BY <1>2, <3>1
    <3> QED
      BY <3>1, <3>2 DEF Told, Commands, WordOf, Characters
  <2>6. \A d \in Callers : answers'[d] = "1" /\ cpc'[d] # "killed" => Told(d)'
    BY <1>0, <1>2, <2>1 DEF AnswerInv
  <2>7. \A d \in Callers : output'[d] = "1" => Told(d)'
    BY <1>0, <1>2, <2>1 DEF AnswerInv
  <2> QED
    BY <2>3, <2>4, <2>5, <2>6, <2>7 DEF AnswerInv
\* The thread and the robots leave the processes alone.
<1>5. ASSUME UNCHANGED <<cpc, output, answers>>
      PROVE  /\ \A d \in Callers : answers'[d] = "1" /\ cpc'[d] # "killed" => Told(d)'
             /\ \A d \in Callers : output'[d] = "1" => Told(d)'
  BY <1>0, <1>2, <1>5 DEF AnswerInv
<1>6. CASE Accept
  BY <1>5, <1>6 DEF Accept, AnswerInv
<1>7. CASE Receives
  <2>1. served \in Callers /\ cpc[served] \in {"recv", "killed"}
    BY <1>1, <1>7 DEF Receives, Received
  <2>2. spc' = "find" /\ UNCHANGED <<cpc, output, answers, served>>
    BY <1>7 DEF Receives, Received, Serves
  <2>3. cpc[served] = "recv" => buf' = Message(served)
    BY <1>7 DEF Receives, Received
  <2>4. Message(served)' = Message(served)
    BY <1>2, <2>2 DEF Message, Characters
  <2> QED
    BY <1>5, <2>1, <2>2, <2>3, <2>4 DEF AnswerInv
<1>8. CASE WriteWord
  <2>1. served \in Callers /\ cpc[served] \in {"recv", "killed"}
    BY <1>0, <1>1, <1>8 DEF WriteWord, AnswerInv
  <2>2. spc' = "send" /\ UNCHANGED <<cpc, output, answers, served>>
    BY <1>8 DEF WriteWord, Serves
  <2>3. ASSUME cpc[served] = "recv", back' = "1", fields[served] = Proper PROVE Commands(served)' # {}
    <3>1. Found # {}
      BY <1>8, <2>3 DEF WriteWord
    <3>2. PICK c \in Callers :
            /\ Good(c) /\ buf = Message(c)
            /\ HandsTo(c)
            /\ fields[c] = Proper => SubSeq(buf, 1, 9) = WordOf(c)
      BY <1>8, <3>1, WriteWordAsked
    <3>3. c = served
      <4>1. buf = Message(served) /\ Good(served)
        BY <1>0, <1>8, <2>1, <2>3 DEF WriteWord, AnswerInv, ControlInv, GoodInv
      <4>2. Asked \subseteq {served} /\ Asked \subseteq {c}
        BY <1>0, <2>1, <3>2, <4>1, OneAsks
      <4>3. Asked # {}
        BY <3>1 DEF Found
      <4> QED
        BY <4>2, <4>3
    <3>4. /\ Len(handed') = Len(handed) + 1 /\ Len(handed) \in Nat
          /\ handed'[Len(handed) + 1].to = Targets[served]
          /\ handed'[Len(handed) + 1].word = WordOf(served)
      <4>1. SubSeq(buf, 1, 9) = WordOf(served)
        BY <2>3, <3>2, <3>3
      <4>2. PICK cmd \in Command : /\ cmd.to = Targets[served] /\ cmd.word = WordOf(served)
                                  /\ handed' = Append(handed, cmd)
        BY <3>2, <3>3, <4>1 DEF HandsTo
      <4>3. Len(handed') = Len(handed) + 1 /\ Len(handed) \in Nat /\ handed'[Len(handed) + 1] = cmd
        <5>1. handed \in Seq(Command)
          BY <1>1
        <5>2. /\ Len(Append(handed, cmd)) = Len(handed) + 1
              /\ Append(handed, cmd)[Len(handed) + 1] = cmd
          BY ONLY <5>1, <4>2, AppendProperties, Zenon
        <5> QED
          BY ONLY <5>1, <4>2, <5>2
      <4> QED
        BY <4>2, <4>3
    <3>5. WordOf(served)' = WordOf(served)
      BY <2>2 DEF WordOf, Characters
    <3>6. Len(handed) + 1 \in 1..Len(handed')
      BY <3>4
    <3> QED
      BY <2>2, <3>4, <3>5, <3>6 DEF Commands
  <2> QED
    BY <1>2, <1>5, <2>1, <2>2, <2>3 DEF AnswerInv, Told
<1>9. CASE ClosesServed
  <2>1. served \in Callers
    BY <1>1, <1>9 DEF ClosesServed
  <2>2. spc' = "accept" /\ UNCHANGED <<cpc, output>>
    BY <1>9 DEF ClosesServed, CloseServed
  <2>3. \A d \in Callers : answers'[d] = "1" => answers[d] = "1" \/ (d = served /\ spc = "send" /\ back = "1")
    <3>1. CASE answers' = [answers EXCEPT ![served] = "-48"]
      BY <1>1, <2>1, <3>1
    <3>2. CASE answers' = [answers EXCEPT ![served] = back] /\ spc = "send"
      BY <1>1, <2>1, <3>2
    <3> QED
      BY <1>9, <3>1, <3>2 DEF ClosesServed, CloseServed
  <2>4. ASSUME NEW d \in Callers, answers'[d] = "1", cpc'[d] # "killed" PROVE Told(d)'
    <3>1. CASE answers[d] = "1"
      BY <1>0, <1>2, <2>2, <2>4, <3>1 DEF AnswerInv
    <3>2. CASE d = served /\ spc = "send" /\ back = "1"
      <4>1. cpc[served] = "recv"
        BY <1>0, <2>2, <2>4, <3>2 DEF AnswerInv
      <4> QED
        BY <1>0, <1>2, <2>1, <3>2, <4>1 DEF AnswerInv
    <3> QED
      BY <2>3, <2>4, <3>1, <3>2
  <2> QED
    BY <1>0, <1>2, <2>2, <2>4 DEF AnswerInv
<1>10. CASE (\E c \in Callers : RobotMoves(Targets[c])) \/ UNCHANGED controlVars
  <2>1. UNCHANGED <<cpc, output, answers, spc, served, buf, back, handed>>
    BY <1>10 DEF RobotMoves, controlVars
  <2>2. Message(served)' = Message(served) /\ (Told(served)' <=> Told(served))
    BY <1>2, <2>1 DEF Message, Characters, Told, Commands, WordOf
  <2> QED
    BY <1>0, <1>5, <2>1, <2>2 DEF AnswerInv
<1> QED
  BY <1>4, <1>6, <1>7, <1>8, <1>9, <1>10, ServerSteps

-----------------------------------------------------------------------------
\* The invariant, for any processes, any robots and any fields.
LEMMA ControlInvariant ==
  ASSUME Fields \subseteq [1..3 -> Lengths]
  PROVE  ControlSpec => []ControlInv
<1>1. ControlInit => ControlInv
  BY ControlInitial
<1>2. ControlInv /\ [ControlNext]_controlVars => ControlInv'
  <2> SUFFICES ASSUME ControlInv, [ControlNext]_controlVars PROVE ControlInv'
    OBVIOUS
  <2> QED
    BY ControlTypesStep, GoodInvStep, BufInvStep, QueueInvStep, CommandsAreAskedStep, AnswerInvStep DEF ControlInv
<1> QED
  BY <1>1, <1>2, PTL DEF ControlSpec

\* A robot is sent only what a process sent for that robot, with the type and the number
\* of that request, though one buffer that is never cleared serves all the requests
\* (cgi.c:67-95, socket.c:164-182): CommandsAreAsked of HttpControl.
THEOREM OnlyAskedCommands ==
  ASSUME Fields \subseteq [1..3 -> Lengths]
  PROVE  ControlSpec => []CommandsAreAsked
<1>1. ControlInv => CommandsAreAsked
  BY DEF ControlInv
<1> QED
  BY <1>1, ControlInvariant, PTL

\* A process that prints success had its own command given to _write, for its own robot;
\* whether that wrote it the answer does not say (socket.c:174-182): SuccessIsHanded of
\* HttpControl.
THEOREM SuccessMeansHanded ==
  ASSUME Fields \subseteq [1..3 -> Lengths]
  PROVE  ControlSpec => []SuccessIsHanded
<1>1. ControlInv => SuccessIsHanded
  BY DEF ControlInv, AnswerInv, Told, SuccessIsHanded
<1> QED
  BY <1>1, ControlInvariant, PTL

-----------------------------------------------------------------------------
(***************************************************************************)
(* Kmp                                                                     *)
(***************************************************************************)
(* Borders                                                                 *)

\* The character at y.  A border of the first x characters is a shorter beginning of them
\* that is their end, too.
P(y) == Ch(pattern, y)
Border(x, m) == m \in 0..x - 1 /\ \A y \in 0..m - 1 : P(y) = P(x - m + y)

\* n is the longest border after which the pattern goes on otherwise than at x.
IsNext(x, n) ==
  /\ n = -1 \/ (Border(x, n) /\ P(n) # P(x))
  /\ \A m \in 0..x - 1 : Border(x, m) /\ P(m) # P(x) => m <= n

LEMMA BorderOfBorder ==
  ASSUME NEW x \in Nat, NEW k, NEW n, Border(x, k), Border(k, n)
  PROVE  Border(x, n)
<1>1. k \in 0..x - 1 /\ n \in 0..k - 1 /\ n \in 0..x - 1
  BY DEF Border
<1>2. ASSUME NEW y \in 0..n - 1 PROVE P(y) = P(x - n + y)
  <2>1. P(y) = P(k - n + y)
    BY DEF Border
  <2>2. k - n + y \in 0..k - 1 /\ x - k + (k - n + y) = x - n + y
    BY <1>1
  <2>3. P(k - n + y) = P(x - k + (k - n + y))
    BY <2>2 DEF Border
  <2> QED
    BY <2>1, <2>2, <2>3
<1> QED
  BY <1>1, <1>2 DEF Border

LEMMA BorderInBorder ==
  ASSUME NEW x \in Nat, NEW k, NEW m, Border(x, k), Border(x, m), m < k
  PROVE  Border(k, m)
<1>1. k \in 0..x - 1 /\ m \in 0..k - 1
  BY DEF Border
<1>2. ASSUME NEW y \in 0..m - 1 PROVE P(y) = P(k - m + y)
  <2>1. P(y) = P(x - m + y)
    BY DEF Border
  <2>2. k - m + y \in 0..k - 1 /\ x - k + (k - m + y) = x - m + y
    BY <1>1
  <2>3. P(k - m + y) = P(x - k + (k - m + y))
    BY <2>2 DEF Border
  <2> QED
    BY <2>1, <2>2, <2>3
<1> QED
  BY <1>1, <1>2 DEF Border

\* The borders of one character more are those that go on with it, and the empty one.
LEMMA BorderGrows ==
  ASSUME NEW x \in Nat, NEW k, Border(x, k), P(k) = P(x)
  PROVE  Border(x + 1, k + 1)
<1>1. k \in 0..x - 1 /\ k + 1 \in 0..(x + 1) - 1
  BY DEF Border
<1>2. ASSUME NEW y \in 0..(k + 1) - 1 PROVE P(y) = P((x + 1) - (k + 1) + y)
  <2>1. (x + 1) - (k + 1) + y = x - k + y /\ (y \in 0..k - 1 \/ y = k)
    BY <1>1
  <2>2. CASE y \in 0..k - 1
    BY <2>1, <2>2 DEF Border
  <2>3. CASE y = k
    <3>1. x - k + y = x
      BY <1>1, <2>3
    <3> QED
      BY <2>1, <2>3, <3>1
  <2> QED
    BY <2>1, <2>2, <2>3
<1> QED
  BY <1>1, <1>2 DEF Border

LEMMA BorderShrinks ==
  ASSUME NEW x \in Nat, NEW m, Border(x + 1, m), m # 0
  PROVE  Border(x, m - 1) /\ P(m - 1) = P(x)
<1>1. m \in 1..x /\ m - 1 \in 0..x - 1
  BY DEF Border
<1>2. ASSUME NEW y \in 0..m - 1 PROVE P(y) = P(x - (m - 1) + y)
  <2>1. (x + 1) - m + y = x - (m - 1) + y
    BY <1>1
  <2> QED
    BY <2>1 DEF Border
<1>3. m - 1 \in 0..m - 1 /\ x - (m - 1) + (m - 1) = x
  BY <1>1
<1>4. P(m - 1) = P(x - (m - 1) + (m - 1))
  BY <1>2, <1>3
<1>5. \A y \in 0..(m - 1) - 1 : y \in 0..m - 1
  BY <1>1
<1> QED
  BY <1>1, <1>2, <1>3, <1>4, <1>5 DEF Border

-----------------------------------------------------------------------------
KmpTypes ==
  /\ kmpc \in {"idle", "nextval", "search", "done"}
  /\ text \in Seq(Nat) /\ pattern \in Seq(Nat)
  /\ kmpc \in {"nextval", "search"} => text # <<>> /\ pattern # <<>>
  /\ nextval = [j |-> nextval.j, k |-> nextval.k]
  /\ search = [i |-> search.i, j |-> search.j, index |-> search.index]

\* The table is right as far as it was written.
Written(j) ==
  /\ DOMAIN table = 0..j
  /\ \A x \in 0..j : table[x] \in -1..x - 1 /\ IsNext(x, table[x])

\* What is tried next is the longest border that can go on.
TableInv(j, k) ==
  /\ j \in 0..Len(pattern) /\ k \in -1..j - 1
  /\ Written(j)
  /\ k = -1 \/ Border(j, k)
  /\ \A m \in 0..j - 1 : Border(j, m) /\ P(m) = P(j) => m <= k

\* Before index the pattern does not occur, and from there on it agrees with the text as far
\* as i.
SearchInv(at, j, index) ==
  /\ at \in 0..Len(text) /\ j \in 0..Len(pattern) /\ index \in 0..Len(text) /\ index = at - j
  /\ Written(Len(pattern))
  /\ \A y \in 0..j - 1 : P(y) = Ch(text, index + y)
  /\ \A q \in 0..index - 1 : ~Occurs(q)

KmpInv ==
  /\ KmpTypes
  /\ kmpc = "idle" => nextval = [j |-> 0, k |-> -1] /\ search = [i |-> 0, j |-> 0, index |-> 0]
                      /\ table = [x \in {0} |-> -1] /\ place = -1
  /\ kmpc = "nextval" => TableInv(nextval.j, nextval.k)
                      /\ search = [i |-> 0, j |-> 0, index |-> 0]
  /\ kmpc = "search" => SearchInv(search.i, search.j, search.index)
  /\ KmpFindsFirst

StringsGiven == Searched \subseteq Seq(Nat) /\ Sought \subseteq Seq(Nat)

LEMMA KmpTypesKept ==
  ASSUME StringsGiven, KmpInv, [KmpNext]_kmpVars
  PROVE  KmpTypes'
<1> USE DEF KmpInv, KmpTypes, kmpVars
<1>1. ASSUME NEW t \in Searched, NEW p \in Sought, kmp(t, p) PROVE KmpTypes'
  BY <1>1 DEF kmp, StringsGiven
<1>2. CASE NextvalGoesOn
  BY <1>2 DEF NextvalGoesOn
<1>3. CASE NextvalGoesBack
  BY <1>3 DEF NextvalGoesBack
<1>4. CASE NextvalEnds
  BY <1>4 DEF NextvalEnds
<1>5. CASE Agree
  BY <1>5 DEF Agree, Searching
<1>6. CASE Shift
  BY <1>6 DEF Shift, Searching
<1>7. CASE StartAnew
  BY <1>7 DEF StartAnew, Searching
<1>8. CASE SearchEnds
  BY <1>8 DEF SearchEnds
<1>9. CASE KmpReturns
  BY <1>9 DEF KmpReturns
<1> QED
  BY <1>1, <1>2, <1>3, <1>4, <1>5, <1>6, <1>7, <1>8, <1>9 DEF KmpNext

\* What borders are depends on the pattern only.
LEMMA PatternStays ==
  ASSUME pattern' = pattern
  PROVE  /\ \A y : P(y)' = P(y)
         /\ \A x, m : Border(x, m)' <=> Border(x, m)
         /\ \A x, n : IsNext(x, n)' <=> IsNext(x, n)
<1>1. \A y : P(y)' = P(y)
  BY DEF P, Ch
<1>2. \A x, m : Border(x, m)' <=> Border(x, m)
  BY <1>1 DEF Border
<1> QED
  BY <1>1, <1>2 DEF IsNext

\* The longest border that goes on is the longest border of one character more.
LEMMA NextBorder ==
  ASSUME NEW j \in Nat, NEW k \in -1..j - 1,
         k = -1 \/ (Border(j, k) /\ P(j) = P(k)),
         \A m \in 0..j - 1 : Border(j, m) /\ P(m) = P(j) => m <= k
  PROVE  /\ Border(j + 1, k + 1)
         /\ \A m \in 0..j : Border(j + 1, m) => m <= k + 1
<1>1. Border(j + 1, k + 1)
  <2>1. CASE k = -1
    BY <2>1 DEF Border
  <2>2. CASE k # -1
    BY <2>2, BorderGrows
  <2> QED
    BY <2>1, <2>2
<1>2. ASSUME NEW m \in 0..j, Border(j + 1, m) PROVE m <= k + 1
  <2>1. CASE m = 0
    BY <2>1
  <2>2. CASE m # 0
    <3>1. Border(j, m - 1) /\ P(m - 1) = P(j) /\ m - 1 \in 0..j - 1
      BY <1>2, <2>2, BorderShrinks
    <3> QED
      BY <3>1
  <2> QED
    BY <2>1, <2>2
<1> QED
  BY <1>1, <1>2

\* What get_nextval writes is right.
LEMMA NextIsRight ==
  ASSUME NEW x \in Nat, NEW k \in 0..x - 1, NEW n,
         Border(x, k), \A m \in 0..x - 1 : Border(x, m) => m <= k,
         IF P(x) # P(k) THEN n = k ELSE n \in -1..k - 1 /\ IsNext(k, n)
  PROVE  n \in -1..x - 1 /\ IsNext(x, n)
<1>1. CASE P(x) # P(k)
  BY <1>1 DEF IsNext
<1>2. CASE P(x) = P(k)
  <2>1. n \in -1..k - 1 /\ IsNext(k, n)
    BY <1>2
  <2>2. n = -1 \/ (Border(x, n) /\ P(n) # P(x))
    BY <1>2, <2>1, BorderOfBorder DEF IsNext
  <2>3. ASSUME NEW m \in 0..x - 1, Border(x, m), P(m) # P(x) PROVE m <= n
    <3>1. m <= k /\ m # k /\ m < k /\ m \in 0..k - 1
      BY <1>2, <2>3
    <3>2. Border(k, m)
      BY <2>3, <3>1, BorderInBorder
    <3> QED
      BY <1>2, <2>1, <2>3, <3>1, <3>2 DEF IsNext
  <2> QED
    BY <2>1, <2>2, <2>3 DEF IsNext
<1> QED
  BY <1>1, <1>2

LEMMA GoesOnKeeps ==
  ASSUME KmpInv, NextvalGoesOn, NEW j, NEW k, j = nextval.j, k = nextval.k
  PROVE  TableInv(j + 1, k + 1)'
<1>1. /\ TableInv(j, k) /\ j < Len(pattern) /\ Len(pattern) \in Nat
      /\ k = -1 \/ P(j) = P(k)
      /\ pattern' = pattern
  BY DEF KmpInv, KmpTypes, NextvalGoesOn, P
<1>2. table' = [x \in 0..j + 1 |-> IF x < j + 1 THEN table[x]
                                   ELSE IF P(j + 1) # P(k + 1) THEN k + 1 ELSE table[k + 1]]
  BY DEF NextvalGoesOn, P
<1>3. j \in Nat /\ j + 1 \in 0..Len(pattern) /\ k \in -1..j - 1 /\ Written(j)
  BY <1>1 DEF TableInv
<1>4. /\ Border(j + 1, k + 1)
      /\ \A m \in 0..j : Border(j + 1, m) => m <= k + 1
  <2>1. k = -1 \/ (Border(j, k) /\ P(j) = P(k))
    BY <1>1 DEF TableInv
  <2>2. \A m \in 0..j - 1 : Border(j, m) /\ P(m) = P(j) => m <= k
    BY <1>1 DEF TableInv
  <2> QED
    BY <1>3, <2>1, <2>2, NextBorder
<1>5. table'[j + 1] \in -1..j /\ IsNext(j + 1, table'[j + 1])
  <2>1. j + 1 \in Nat /\ k + 1 \in 0..(j + 1) - 1 /\ (j + 1) - 1 = j /\ k + 1 \in 0..j
    BY <1>3
  <2>2. table'[j + 1] = IF P(j + 1) # P(k + 1) THEN k + 1 ELSE table[k + 1]
    BY <1>2, <1>3
  <2>3. table[k + 1] \in -1..(k + 1) - 1 /\ IsNext(k + 1, table[k + 1])
    BY <1>3, <2>1 DEF Written
  <2> QED
    BY <1>4, <2>1, <2>2, <2>3, NextIsRight
<1>6. ASSUME NEW x \in 0..j + 1 PROVE table'[x] \in -1..x - 1 /\ IsNext(x, table'[x])
  <2>1. CASE x = j + 1
    <3>1. (j + 1) - 1 = j
      BY <1>3
    <3> QED
      BY <1>5, <2>1, <3>1
  <2>2. CASE x # j + 1
    <3>1. x \in 0..j /\ x < j + 1
      BY <1>3, <2>2
    <3>2. table'[x] = table[x]
      BY <1>2, <3>1
    <3> QED
      BY <1>3, <3>1, <3>2 DEF Written
  <2> QED
    BY <2>1, <2>2
<1>7. Written(j + 1)'
  <2>1. DOMAIN table' = 0..j + 1
    BY <1>2
  <2> QED
    BY <1>1, <1>6, <2>1, PatternStays DEF Written
<1>8. \A m \in 0..(j + 1) - 1 : Border(j + 1, m) /\ P(m) = P(j + 1) => m <= k + 1
  BY <1>3, <1>4
<1>9. (k + 1) \in -1..(j + 1) - 1
  BY <1>3
<1> QED
  <2>1. /\ Border(j + 1, k + 1)'
        /\ \A m \in 0..(j + 1) - 1 : (Border(j + 1, m) /\ P(m) = P(j + 1))' => m <= k + 1
    BY <1>1, <1>4, <1>8, PatternStays
  <2> QED
    BY <1>1, <1>3, <1>7, <1>9, <2>1 DEF TableInv

LEMMA GoesBackKeeps ==
  ASSUME KmpInv, NextvalGoesBack, NEW j, NEW k, j = nextval.j, k = nextval.k
  PROVE  TableInv(j, table[k])' /\ table[k] \in -1..k - 1
<1>1. /\ TableInv(j, k) /\ j < Len(pattern)
      /\ k # -1 /\ P(j) # P(k)
      /\ pattern' = pattern /\ table' = table
  BY DEF KmpInv, NextvalGoesBack, P
<1>2. j \in Nat /\ k \in 0..j - 1 /\ k \in 0..j /\ Border(j, k) /\ Written(j)
  BY <1>1 DEF TableInv
<1>3. table[k] \in -1..k - 1 /\ IsNext(k, table[k])
  BY <1>2 DEF Written
<1>4. table[k] = -1 \/ Border(j, table[k])
  BY <1>2, <1>3, BorderOfBorder DEF IsNext
<1>5. ASSUME NEW m \in 0..j - 1, Border(j, m), P(m) = P(j) PROVE m <= table[k]
  <2>1. m <= k /\ m # k
    BY <1>1, <1>5 DEF TableInv
  <2>2. m < k /\ m \in 0..k - 1 /\ P(m) # P(k)
    BY <1>1, <1>2, <1>5, <2>1
  <2>3. Border(k, m)
    BY <1>2, <1>5, <2>2, BorderInBorder
  <2> QED
    BY <1>3, <2>2, <2>3 DEF IsNext
<1>6. Written(j)'
  BY <1>1, <1>2, PatternStays DEF Written
<1>7. table[k] \in -1..j - 1
  BY <1>2, <1>3
<1>8. /\ table[k] = -1 \/ Border(j, table[k])'
      /\ \A m \in 0..j - 1 : (Border(j, m) /\ P(m) = P(j))' => m <= table[k]
  BY <1>1, <1>4, <1>5, PatternStays
<1>9. j \in 0..Len(pattern')
  BY <1>1 DEF TableInv
<1>10. table'[k] = table[k]
  BY <1>1
<1> QED
  BY <1>3, <1>6, <1>7, <1>8, <1>9, <1>10 DEF TableInv

-----------------------------------------------------------------------------
(* The search                                                              *)

SearchIs(at, j, index) == at = search.i /\ j = search.j /\ index = search.index

LEMMA AgreeKeeps ==
  ASSUME KmpInv, Agree, NEW at, NEW j, NEW index,
         SearchIs(at, j, index)
  PROVE  SearchInv(at + 1, j + 1, index)'
<1>1. /\ SearchInv(at, j, index) /\ at < Len(text) /\ j < Len(pattern)
      /\ Len(text) \in Nat /\ Len(pattern) \in Nat
      /\ Ch(text, at) = P(j)
      /\ pattern' = pattern /\ table' = table /\ text' = text
  BY DEF SearchIs, KmpInv, KmpTypes, Agree, Searching, Same, P
<1> DEFINE lt == Len(text)
           lp == Len(pattern)
<1> HIDE DEF lt, lp
<1>a. at \in 0..lt /\ j \in 0..lp /\ index \in 0..lt /\ index = at - j
  BY <1>1 DEF SearchInv, lt, lp
<1>b. lt \in Nat /\ lp \in Nat /\ at < lt /\ j < lp
  BY <1>1 DEF lt, lp
<1>c. /\ at + 1 \in 0..lt /\ j + 1 \in 0..lp /\ index = (at + 1) - (j + 1)
      /\ index \in 0..lt /\ index + j = at /\ j \in Nat
  BY <1>a, <1>b
<1>2. /\ at + 1 \in 0..Len(text) /\ j + 1 \in 0..Len(pattern) /\ index = (at + 1) - (j + 1)
      /\ index \in 0..Len(text) /\ index + j = at /\ j \in Nat
  BY <1>c DEF lt, lp
<1>3. ASSUME NEW y \in 0..(j + 1) - 1 PROVE P(y) = Ch(text, index + y)
  <2>1. CASE y = j
    BY <1>1, <1>2, <2>1
  <2>2. CASE y # j
    <3>1. y \in 0..j - 1
      BY <1>c, <2>2
    <3> QED
      BY <1>1, <3>1 DEF SearchInv
  <2> QED
    BY <2>1, <2>2
<1> QED
  BY <1>1, <1>2, <1>3, PatternStays DEF SearchInv, Written, Occurs, P

\* Where the text and the pattern part, the pattern occurs at no place that a border does
\* not reach.
LEMMA NotBetween ==
  ASSUME KmpInv, Searching, ~Same, NEW at, NEW j, NEW index,
         SearchIs(at, j, index), NEW n, n = table[j]
  PROVE  \A q \in 0..(index + j - n) - 1 : ~Occurs(q)
<1>1. /\ SearchInv(at, j, index) /\ at < Len(text) /\ j < Len(pattern)
      /\ Len(text) \in Nat /\ Len(pattern) \in Nat
      /\ Ch(text, at) # P(j)
  BY DEF SearchIs, KmpInv, KmpTypes, Searching, Same, P
<1>2. /\ at \in Nat /\ j \in 0..Len(pattern) - 1 /\ j \in 0..Len(pattern) /\ index \in Nat
      /\ index + j = at
  BY <1>1 DEF SearchInv
<1>3. n \in -1..j - 1 /\ IsNext(j, n)
  BY <1>1, <1>2 DEF SearchInv, Written
<1>4. ASSUME NEW q \in 0..(index + j - n) - 1, Occurs(q) PROVE FALSE
  <2>1. \A y \in 0..Len(pattern) - 1 : P(y) = Ch(text, q + y)
    BY <1>4 DEF Occurs, P
  <2>2. index <= q
    BY <1>1, <1>2, <1>4 DEF SearchInv
  <2>3. q # index
    BY <1>1, <1>2, <2>1
  <2>4. /\ at - q \in 0..j - 1 /\ n < at - q
    <3>1. \A t \in -1..j - 1 : q \in 0..(index + j - t) - 1 => at - q \in 0..j - 1 /\ t < at - q
      <4> HIDE DEF KmpInv, Searching
      <4> QED
        BY <1>2, <2>2, <2>3
    <3> QED
      BY <1>3, <1>4, <3>1
  <2>5. Border(j, at - q)
    <3>1. ASSUME NEW y \in 0..(at - q) - 1 PROVE P(y) = P(j - (at - q) + y)
      <4>0. q \in Int /\ at \in Int /\ j \in Int /\ index \in Int /\ y \in Int
        BY <1>2, <2>4, <2>2
      <4>1. /\ y \in 0..Len(pattern) - 1 /\ j - (at - q) + y \in 0..j - 1
            /\ index + (j - (at - q) + y) = q + y
        BY <1>2, <2>4, <4>0
      <4>2. P(y) = Ch(text, q + y)
        BY <2>1, <4>1
      <4>3. P(j - (at - q) + y) = Ch(text, index + (j - (at - q) + y))
        BY <1>1, <4>1 DEF SearchInv
      <4> QED
        BY <4>1, <4>2, <4>3
    <3> QED
      BY <2>4, <3>1 DEF Border
  <2>6. P(at - q) # P(j)
    <3>1. at - q \in 0..Len(pattern) - 1 /\ q + (at - q) = at
      BY <1>2, <2>4
    <3>2. P(at - q) = Ch(text, q + (at - q))
      BY <2>1, <3>1
    <3> QED
      BY <1>1, <3>1, <3>2
  <2> QED
    BY <1>3, <2>4, <2>5, <2>6 DEF IsNext
<1> QED
  BY <1>4

LEMMA ShiftKeeps ==
  ASSUME KmpInv, Shift, NEW at, NEW j, NEW index, NEW n,
         SearchIs(at, j, index), n = table[j]
  PROVE  SearchInv(at, n, index + j - n)' /\ n \in 0..j - 1
<1>1. /\ SearchInv(at, j, index) /\ at < Len(text) /\ j < Len(pattern)
      /\ Len(text) \in Nat /\ Len(pattern) \in Nat
      /\ Searching /\ ~Same /\ n # -1
      /\ pattern' = pattern /\ table' = table /\ text' = text
  BY DEF SearchIs, KmpInv, KmpTypes, Shift, Searching
<1>2. /\ at \in 0..Len(text) /\ j \in 0..Len(pattern) /\ index \in Nat /\ index + j = at
      /\ \A y \in 0..j - 1 : P(y) = Ch(text, index + y)
      /\ Written(Len(pattern))
  BY <1>1 DEF SearchInv
<1>3. n \in 0..j - 1 /\ Border(j, n)
  BY <1>1, <1>2 DEF Written, IsNext
<1>4. ASSUME NEW y \in 0..n - 1 PROVE P(y) = Ch(text, (index + j - n) + y)
  <2>1. j - n + y \in 0..j - 1 /\ index + (j - n + y) = (index + j - n) + y
    BY <1>2, <1>3, SMTT(30)
  <2>2. P(y) = P(j - n + y)
    BY <1>3 DEF Border
  <2> QED
    BY <1>2, <2>1, <2>2
<1>5. \A q \in 0..(index + j - n) - 1 : ~Occurs(q)
  BY <1>1, NotBetween
<1>6. /\ n \in 0..Len(pattern) /\ index + j - n = at - n
      /\ index + j - n \in 0..Len(text)
  BY <1>1, <1>2, <1>3, SMTT(30)
<1> QED
  BY <1>1, <1>2, <1>3, <1>4, <1>5, <1>6, PatternStays DEF SearchInv, Written, Occurs, P

LEMMA StartAnewKeeps ==
  ASSUME KmpInv, StartAnew, NEW at, NEW j, NEW index,
         SearchIs(at, j, index)
  PROVE  SearchInv(at + 1, 0, index + j + 1)'
<1>1. /\ SearchInv(at, j, index) /\ at < Len(text) /\ j < Len(pattern)
      /\ Len(text) \in Nat /\ Len(pattern) \in Nat
      /\ Searching /\ ~Same /\ table[j] = -1
      /\ pattern' = pattern /\ table' = table /\ text' = text
  BY DEF SearchIs, KmpInv, KmpTypes, StartAnew, Searching
<1>2. /\ at \in 0..Len(text) /\ j \in 0..Len(pattern) /\ index \in Nat /\ index + j = at
      /\ Written(Len(pattern))
  BY <1>1 DEF SearchInv
<1>3. \A q \in 0..(index + j + 1) - 1 : ~Occurs(q)
  <2>1. \A q \in 0..(index + j - (-1)) - 1 : ~Occurs(q)
    BY <1>1, NotBetween
  <2>2. (index + j - (-1)) - 1 = (index + j + 1) - 1
    BY <1>1, <1>2
  <2> QED
    BY <2>1, <2>2
<1>4. /\ at + 1 \in 0..Len(text) /\ index + j + 1 = (at + 1) - 0 /\ index + j + 1 \in 0..Len(text)
      /\ 0 \in 0..Len(pattern)
  BY <1>1, <1>2
<1> QED
  BY <1>1, <1>2, <1>3, <1>4, PatternStays DEF SearchInv, Written, Occurs, P

LEMMA EndIsRight ==
  ASSUME KmpInv, SearchEnds
  PROVE  KmpFindsFirst'
<1> DEFINE at == search.i
           j == search.j
           index == search.index
<1>1. /\ SearchInv(at, j, index) /\ (at = Len(text) \/ j = Len(pattern))
      /\ Len(text) \in Nat /\ Len(pattern) \in Nat /\ text # <<>> /\ pattern # <<>>
      /\ place' = IF j = Len(pattern) THEN index ELSE -1
      /\ pattern' = pattern /\ text' = text
  BY DEF KmpInv, KmpTypes, SearchEnds
<1> HIDE DEF at, j, index
<1>2. /\ at \in 0..Len(text) /\ j \in 0..Len(pattern) /\ index \in 0..Len(text) /\ index = at - j
      /\ \A q \in 0..index - 1 : ~Occurs(q)
  BY <1>1 DEF SearchInv
<1>3. CASE j = Len(pattern)
  <2>1. Occurs(index)
    BY <1>1, <1>2, <1>3 DEF SearchInv, Occurs, P
  <2> QED
    BY <1>1, <1>2, <1>3, <2>1 DEF KmpFindsFirst, Occurs
<1>4. CASE j # Len(pattern)
  <2>1. \A q \in 0..Len(text) : ~Occurs(q)
    BY <1>1, <1>2, <1>4 DEF Occurs
  <2> QED
    BY <1>1, <1>4, <2>1 DEF KmpFindsFirst, Occurs
<1> QED
  BY <1>3, <1>4

LEMMA KmpInvKept ==
  ASSUME StringsGiven, KmpInv, [KmpNext]_kmpVars
  PROVE  KmpInv'
<1>1. KmpTypes'
  BY KmpTypesKept
<1>2. CASE UNCHANGED kmpVars
  BY <1>1, <1>2, PatternStays DEF kmpVars, KmpInv, TableInv, SearchInv, Written, Occurs, P, KmpFindsFirst
<1>3. ASSUME NEW t \in Searched, NEW p \in Sought, kmp(t, p) PROVE KmpInv'
  <2>1. kmpc' = "nextval" => TableInv(0, -1)'
    BY <1>1, <1>3 DEF kmp, KmpInv, KmpTypes, TableInv, Written, IsNext, Border
  <2>2. KmpFindsFirst'
    BY <1>3 DEF kmp, KmpInv, KmpFindsFirst
  <2> QED
    BY <1>1, <1>3, <2>1, <2>2 DEF kmp, KmpInv, TableInv, Written, IsNext, Border, P, Ch
<1>4. CASE NextvalGoesOn
  <2>1. PICK j, k : j = nextval.j /\ k = nextval.k
    OBVIOUS
  <2>2. TableInv(j + 1, k + 1)'
    BY <1>4, <2>1, GoesOnKeeps
  <2>3. nextval'.j = j + 1 /\ nextval'.k = k + 1
    BY <1>4, <2>1 DEF NextvalGoesOn
  <2>4. TableInv(nextval.j, nextval.k)'
    BY <2>2, <2>3 DEF TableInv, Written
  <2> QED
    BY <1>1, <1>4, <2>4 DEF NextvalGoesOn, KmpInv, KmpFindsFirst
<1>5. CASE NextvalGoesBack
  <2>1. PICK j, k : j = nextval.j /\ k = nextval.k
    OBVIOUS
  <2>2. TableInv(j, table[k])'
    BY <1>5, <2>1, GoesBackKeeps
  <2>3. nextval'.j = j /\ nextval'.k = table[k] /\ table'[k] = table[k]
    BY <1>5, <2>1 DEF NextvalGoesBack, KmpInv, KmpTypes
  <2>4. TableInv(nextval.j, nextval.k)'
    BY <2>2, <2>3 DEF TableInv, Written
  <2> QED
    BY <1>1, <1>5, <2>4 DEF NextvalGoesBack, KmpInv, KmpFindsFirst
<1>6. CASE NextvalEnds
  <2>1. SearchInv(0, 0, 0)'
    <3>1. TableInv(Len(pattern), nextval.k) /\ Len(text) \in Nat /\ Len(pattern) \in Nat
      BY <1>6 DEF NextvalEnds, KmpInv, KmpTypes
    <3>2. Written(Len(pattern)) /\ pattern' = pattern /\ text' = text /\ table' = table
      BY <1>6, <3>1 DEF NextvalEnds, TableInv
    <3> QED
      BY <3>1, <3>2, PatternStays DEF SearchInv, Written
  <2>2. search' = [i |-> 0, j |-> 0, index |-> 0]
    BY <1>6 DEF NextvalEnds, KmpInv
  <2>3. SearchInv(search.i, search.j, search.index)'
    BY <2>1, <2>2 DEF SearchInv, Written, Occurs, P
  <2> QED
    BY <1>1, <1>6, <2>3 DEF NextvalEnds, KmpInv, KmpFindsFirst
<1>7. CASE Agree
  <2>1. PICK at, j, index : SearchIs(at, j, index)
    BY DEF SearchIs
  <2>2. SearchInv(at + 1, j + 1, index)'
    BY <1>7, <2>1, AgreeKeeps
  <2>3. SearchIs(at + 1, j + 1, index)'
    BY <1>7, <2>1 DEF Agree, SearchIs, KmpInv, KmpTypes, Searching
  <2>4. SearchInv(search.i, search.j, search.index)'
    BY <2>2, <2>3 DEF SearchInv, SearchIs, Written, Occurs, P
  <2> QED
    BY <1>1, <1>7, <2>4 DEF Agree, Searching, KmpInv, KmpFindsFirst
<1>8. CASE Shift
  <2>1. PICK at, j, index, n : SearchIs(at, j, index) /\ n = table[j]
    BY DEF SearchIs
  <2>2. SearchInv(at, n, index + j - n)'
    BY <1>8, <2>1, ShiftKeeps
  <2>3. SearchIs(at, n, index + j - n)'
    BY <1>8, <2>1 DEF Shift, SearchIs, KmpInv, KmpTypes, Searching
  <2>4. SearchInv(search.i, search.j, search.index)'
    BY <2>2, <2>3 DEF SearchInv, SearchIs, Written, Occurs, P
  <2> QED
    BY <1>1, <1>8, <2>4 DEF Shift, Searching, KmpInv, KmpFindsFirst
<1>9. CASE StartAnew
  <2>1. PICK at, j, index : SearchIs(at, j, index)
    BY DEF SearchIs
  <2>2. SearchInv(at + 1, 0, index + j + 1)'
    BY <1>9, <2>1, StartAnewKeeps
  <2>3. SearchIs(at + 1, 0, index + j + 1)'
    BY <1>9, <2>1 DEF StartAnew, SearchIs, KmpInv, KmpTypes, Searching
  <2>4. SearchInv(search.i, search.j, search.index)'
    BY <2>2, <2>3 DEF SearchInv, SearchIs, Written, Occurs, P
  <2> QED
    BY <1>1, <1>9, <2>4 DEF StartAnew, Searching, KmpInv, KmpFindsFirst
<1>10. CASE SearchEnds
  BY <1>1, <1>10, EndIsRight DEF SearchEnds, KmpInv
<1>11. CASE KmpReturns
  BY <1>1, <1>11 DEF KmpReturns, KmpInv, KmpFindsFirst
<1> QED
  BY <1>2, <1>3, <1>4, <1>5, <1>6, <1>7, <1>8, <1>9, <1>10, <1>11 DEF KmpNext

\* A step of a loop goes forward.
LEMMA KmpForward ==
  ASSUME KmpInv, [KmpNext]_kmpVars, kmpVars' # kmpVars
  PROVE  KmpGoesForward
<1> SUFFICES ASSUME kmpc \in {"nextval", "search"}
             PROVE  /\ kmpc' = kmpc => Progress < Progress'
                    /\ Progress <= 2 * (IF kmpc = "nextval" THEN Len(pattern) ELSE Len(text)) + 1
                    /\ IF kmpc = "nextval" THEN nextval.k \in {-1} \cup DOMAIN table
                                           ELSE search.j \in DOMAIN table
  BY DEF KmpGoesForward
<1>1. CASE kmpc = "nextval"
  <2>1. PICK j, k : j = nextval.j /\ k = nextval.k
    OBVIOUS
  <2>2. TableInv(j, k) /\ Len(pattern) \in Nat
    BY <1>1, <2>1 DEF KmpInv, KmpTypes
  <2>3. /\ j \in 0..Len(pattern) /\ k \in -1..j - 1 /\ DOMAIN table = 0..j
        /\ k \in {-1} \cup 0..j
    BY <2>2 DEF TableInv, Written
  <2>4. Progress = 2 * j - k
    BY <1>1, <2>1 DEF Progress
  <2>5. NextvalGoesOn \/ NextvalGoesBack \/ NextvalEnds
    BY <1>1 DEF KmpNext, kmpVars, kmp, Agree, Shift, StartAnew, Searching, SearchEnds, KmpReturns
  <2>6. CASE NextvalGoesOn
    <3>1. Progress' = 2 * (j + 1) - (k + 1)
      BY <1>1, <2>1, <2>6 DEF NextvalGoesOn, Progress
    <3> QED
      BY <1>1, <2>1, <2>3, <2>4, <3>1, SMTT(30)
  <2>7. CASE NextvalGoesBack
    <3>1. Progress' = 2 * j - table[k]
      BY <1>1, <2>1, <2>7 DEF NextvalGoesBack, Progress, KmpInv, KmpTypes
    <3>2. PICK n \in -1..k - 1 : n = table[k]
      BY <2>1, <2>7, GoesBackKeeps
    <3>3. 2 * j - k < 2 * j - n /\ 2 * j - k <= 2 * Len(pattern) + 1
      BY <2>2, <2>3, <3>2
    <3> QED
      BY <1>1, <2>1, <2>3, <2>4, <3>1, <3>2, <3>3
  <2>8. CASE NextvalEnds
    BY <1>1, <2>1, <2>3, <2>4, <2>8 DEF NextvalEnds
  <2> QED
    BY <2>5, <2>6, <2>7, <2>8
<1>2. CASE kmpc = "search"
  <2>1. PICK at, j, index : SearchIs(at, j, index)
    BY DEF SearchIs
  <2>2. SearchInv(at, j, index) /\ Len(pattern) \in Nat /\ Len(text) \in Nat /\ search.j = j
    BY <1>2, <2>1 DEF KmpInv, KmpTypes, SearchIs
  <2>3. /\ at \in 0..Len(text) /\ j \in 0..Len(pattern) /\ DOMAIN table = 0..Len(pattern)
    BY <2>2 DEF SearchInv, Written
  <2>4. Progress = 2 * at - j
    BY <1>2, <2>1 DEF Progress, SearchIs
  <2>5. Agree \/ Shift \/ StartAnew \/ SearchEnds
    BY <1>2 DEF KmpNext, kmpVars, kmp, NextvalGoesOn, NextvalGoesBack, NextvalEnds, KmpReturns
  <2>6. CASE Agree
    <3>1. Progress' = 2 * (at + 1) - (j + 1)
      BY <1>2, <2>1, <2>6 DEF Agree, Progress, SearchIs, KmpInv, KmpTypes, Searching
    <3> QED
      BY <1>2, <2>2, <2>3, <2>4, <3>1
  <2>7. CASE Shift
    <3>1. Progress' = 2 * at - table[j]
      BY <1>2, <2>1, <2>7 DEF Shift, Progress, SearchIs, KmpInv, KmpTypes, Searching
    <3>2. table[j] \in 0..j - 1
      BY <2>1, <2>7, ShiftKeeps
    <3> QED
      BY <1>2, <2>2, <2>3, <2>4, <3>1, <3>2
  <2>8. CASE StartAnew
    <3>1. Progress' = 2 * (at + 1) - 0
      BY <1>2, <2>1, <2>8 DEF StartAnew, Progress, SearchIs, KmpInv, KmpTypes, Searching
    <3> QED
      BY <1>2, <2>2, <2>3, <2>4, <3>1
  <2>9. CASE SearchEnds
    BY <1>2, <2>2, <2>3, <2>4, <2>9 DEF SearchEnds
  <2> QED
    BY <2>5, <2>6, <2>7, <2>8, <2>9
<1> QED
  BY <1>1, <1>2

\* kmp finds the first place of any pattern in any text, reads no entry of its table that was
\* not written and comes to an end, after at most two rounds for each character
\* of the pattern and two of the text (kmp.c:4-62).
THEOREM PatternIsFound ==
  ASSUME StringsGiven
  PROVE  KmpSpec => []KmpFindsFirst /\ [][KmpGoesForward]_kmpVars
<1>1. KmpInit => KmpInv
  BY DEF KmpInit, KmpInv, KmpTypes, KmpFindsFirst
<1>2. KmpInv /\ [KmpNext]_kmpVars => KmpInv'
  BY KmpInvKept
<1>3. KmpInv /\ [KmpNext]_kmpVars => [KmpGoesForward]_kmpVars
  BY KmpForward
<1>4. KmpInv => KmpFindsFirst
  BY DEF KmpInv
<1> QED
  BY <1>1, <1>2, <1>3, <1>4, PTL DEF KmpSpec

-----------------------------------------------------------------------------
(***************************************************************************)
(* Text                                                                    *)
(***************************************************************************)
(* What a call is given                                                    *)

AByte == {n \in Nat : n <= 255}
AChar == {n \in Nat : n <= 127}
AWord == {n \in Nat : n <= 65535}

CallsGiven ==
  \A c \in Calls :
    /\ c.f = "bytes" => c.x \in Seq(AChar)
    /\ c.f = "words" => c.x \in Seq(AByte)
    /\ c.f = "figures" => c.x \in Seq(48..57)
    /\ c.f = "unicode" => c.x \in Seq(AWord)
    /\ c.f = "cut" => c.x[1] \in Seq(AByte) /\ c.x[2] \in Nat /\ c.x[3] \in Nat

LEMMA CutsFitAgain ==
  ASSUME NEW src \in Seq(AByte), NEW n \in Nat, NEW m \in Nat, m + n <= Len(src)
  PROVE  SubLeft(src, m) \o SubMid(src, n, m) = SubLeft(src, m + n)
<1>1. Len(src) \in Nat
  OBVIOUS
<1>2. SubLeft(src, m) = SubSeq(src, 1, m) /\ SubLeft(src, m + n) = SubSeq(src, 1, m + n)
  BY <1>1 DEF SubLeft
<1>3. SubMid(src, n, m) = SubSeq(src, m + 1, m + n)
  BY <1>1 DEF SubMid
<1>4. 1 \in 1..Len(src) + 1 /\ m \in 1 - 1..Len(src) /\ m + n \in m..Len(src)
  BY <1>1
<1> QED
  BY <1>2, <1>3, <1>4, ConcatAdjacentSubSeq

\* The characters of a hexadecimal digit.
Nibble == {n \in Nat : n <= 15}

LEMMA DigitOfFigure ==
  ASSUME NEW n \in Nibble
  PROVE  ASCValue(hexDigits[n + 1]) = n
<1>1. n \in 0..15
  BY DEF Nibble
<1>2. n \in {0, 1, 2, 3, 4, 5, 6, 7} \/ n \in {8, 9, 10, 11, 12, 13, 14, 15}
  BY <1>1
<1>3. CASE n \in {0, 1, 2, 3, 4, 5, 6, 7}
  <2>1. hexDigits[n + 1] = 48 + n
    BY <1>3 DEF hexDigits
  <2> QED
    BY <1>3, <2>1 DEF ASCValue
<1>4. CASE n \in {8, 9, 10, 11, 12, 13, 14, 15}
  <2>1. hexDigits[n + 1] = IF n <= 9 THEN 48 + n ELSE 55 + n
    BY <1>4 DEF hexDigits
  <2> QED
    BY <1>4, <2>1 DEF ASCValue
<1> QED
  BY <1>2, <1>3, <1>4

\* The two digits of a byte.
HighOf(c) == IF c >= 128 THEN ((c % 16) + (c - (c % 16))) \div 16 ELSE c \div 16
LowOf(c) == IF c >= 128 THEN (c % 16) % 16 ELSE c % 16

LEMMA ByteOfDigits ==
  ASSUME NEW c \in AByte
  PROVE  HighOf(c) \in Nibble /\ LowOf(c) \in Nibble /\ ((HighOf(c) * 16) % 256) + LowOf(c) = c
BY DEF HighOf, LowOf, AByte, Nibble

LEMMA HexComesBack ==
  ASSUME NEW x \in Seq(AByte)
  PROVE  StringToHex(HexToString(x)) = x
<1> DEFINE h == HexToString(x)
<1>0. Len(x) \in Nat /\ \A j \in 1..Len(x) : x[j] \in AByte
  OBVIOUS
<1>1. h = [m \in 1..2 * Len(x) |->
            hexDigits[(IF m % 2 = 1 THEN HighOf(x[(m + 1) \div 2]) ELSE LowOf(x[(m + 1) \div 2])) + 1]]
  BY DEF HexToString, HighOf, LowOf
<1>2. DOMAIN h = 1..2 * Len(x) /\ Len(h) = 2 * Len(x)
  BY <1>0, <1>1
<1>3. ASSUME NEW j \in 1..Len(x)
      PROVE  /\ h[2 * j - 1] = hexDigits[HighOf(x[j]) + 1]
             /\ h[2 * j] = hexDigits[LowOf(x[j]) + 1]
  <2>1. /\ 2 * j - 1 \in 1..2 * Len(x) /\ (2 * j - 1) % 2 = 1 /\ ((2 * j - 1) + 1) \div 2 = j
        /\ 2 * j \in 1..2 * Len(x) /\ (2 * j) % 2 # 1 /\ (2 * j + 1) \div 2 = j
    BY <1>0
  <2> HIDE DEF h
  <2> QED
    BY <1>1, <2>1
<1> HIDE DEF h
<1>4. (Len(h) + 1) \div 2 = Len(x)
  BY <1>0, <1>2
<1>5. ASSUME NEW j \in 1..Len(x)
      PROVE  ((ASCValue(At(h, 2*j - 2)) * 16) % 256) + ASCValue(At(h, 2*j - 1)) = x[j]
  <2>1. /\ 2*j - 2 \in 0..Len(h) - 1 /\ (2*j - 2) + 1 = 2 * j - 1
        /\ 2*j - 1 \in 0..Len(h) - 1 /\ (2*j - 1) + 1 = 2 * j
    BY <1>0, <1>2
  <2>2. At(h, 2*j - 2) = hexDigits[HighOf(x[j]) + 1] /\ At(h, 2*j - 1) = hexDigits[LowOf(x[j]) + 1]
    BY <1>3, <2>1 DEF At
  <2>3. x[j] \in AByte
    BY <1>0
  <2>4. ASCValue(At(h, 2*j - 2)) = HighOf(x[j]) /\ ASCValue(At(h, 2*j - 1)) = LowOf(x[j])
    BY <2>2, <2>3, ByteOfDigits, DigitOfFigure
  <2> QED
    BY <2>3, <2>4, ByteOfDigits
<1>6. StringToHex(h) = [j \in 1..Len(x) |-> x[j]]
  BY <1>4, <1>5 DEF StringToHex
<1>7. x = [j \in 1..Len(x) |-> x[j]]
  OBVIOUS
<1> QED
  BY <1>6, <1>7 DEF h

LEMMA FigureIsDigit ==
  \A c \in 48..57 : ASCValue(c) = c - 48
<1> SUFFICES ASSUME NEW n \in 0..9 PROVE ASCValue(n + 48) = n
  <2>1. \A c \in 48..57 : c - 48 \in 0..9 /\ (c - 48) + 48 = c
    OBVIOUS
  <2> QED
    BY <2>1
<1>1. hexDigits[n + 1] = n + 48 /\ n \in Nibble
  BY DEF hexDigits, Nibble
<1> QED
  BY <1>1, DigitOfFigure

\* n and k are the figures of t.
TwoWritten(n, k, t) == 48 + t \div 10 = n /\ 48 + (t % 10) = k

LEMMA TwoComeBack ==
  \A n, k \in 48..57 : \A t : t = (k - 48) + (n - 48) * 10 => TwoWritten(n, k, t)
BY DEF TwoWritten

LEMMA FourFiguresComeBack ==
  ASSUME NEW x \in Seq(48..57), Len(x) = 4
  PROVE  DECToString(StringToDEC(<<0, 0>>, x)) = x
<1> DEFINE two(e) == ASCValue(At(x, e)) + IF e > 0 THEN ASCValue(At(x, e - 1)) * 10 ELSE 0
<1>1. x[1] \in 48..57 /\ x[2] \in 48..57 /\ x[3] \in 48..57 /\ x[4] \in 48..57
  <2>1. 1 \in 1..Len(x) /\ 2 \in 1..Len(x) /\ 3 \in 1..Len(x) /\ 4 \in 1..Len(x)
    OBVIOUS
  <2> QED
    BY <2>1, ElementOfSeq
<1>2. At(x, 0) = x[1] /\ At(x, 1) = x[2] /\ At(x, 2) = x[3] /\ At(x, 3) = x[4]
  BY DEF At
<1>3. two(1) = (x[2] - 48) + (x[1] - 48) * 10 /\ two(3) = (x[4] - 48) + (x[3] - 48) * 10
  <2>1. \A c \in 48..57 : ASCValue(c) = c - 48
    BY FigureIsDigit
  <2>2. 1 - 1 = 0 /\ 3 - 1 = 2 /\ 1 > 0 /\ 3 > 0
    OBVIOUS
  <2> QED
    BY <1>1, <1>2, <2>1, <2>2
<1>4. StringToDEC(<<0, 0>>, x) = <<two(1), two(3)>>
  BY DEF StringToDEC
<1>5. TwoWritten(x[1], x[2], two(1)) /\ TwoWritten(x[3], x[4], two(3))
  BY <1>1, <1>3, TwoComeBack
<1>6. /\ 48 + two(1) \div 10 = x[1] /\ 48 + (two(1) % 10) = x[2]
      /\ 48 + two(3) \div 10 = x[3] /\ 48 + (two(3) % 10) = x[4]
  BY <1>5 DEF TwoWritten
<1> HIDE DEF two
<1> DEFINE d == <<two(1), two(3)>>
<1>7. Len(d) = 2 /\ d[1] = two(1) /\ d[2] = two(3)
  OBVIOUS
<1> HIDE DEF d
<1>8. ASSUME NEW m \in 1..4
      PROVE  (LET n == d[(m + 1) \div 2] IN 48 + IF m % 2 = 1 THEN n \div 10 ELSE n % 10) = x[m]
  <2>1. m = 1 \/ m = 2 \/ m = 3 \/ m = 4
    OBVIOUS
  <2> QED
    BY <2>1, <1>6, <1>7
<1>9. DECToString(d) = [m \in 1..4 |-> x[m]]
  BY <1>7, <1>8 DEF DECToString
<1>10. x = [m \in 1..4 |-> x[m]]
  OBVIOUS
<1> QED
  BY <1>4, <1>9, <1>10 DEF d

-----------------------------------------------------------------------------
\* One character of UTF-8, read back.
CharOf(a, b, c) ==
  CASE a < 128 -> a
    [] a \in 192..223 -> (a - 192) * 64 + b - 128
    [] OTHER -> (a - 224) * 4096 + (b - 128) * 64 + c - 128

LEMMA CharComesBack ==
  ASSUME NEW u \in AWord
  PROVE  CharOf(At(Utf8(u), 0), At(Utf8(u), 1), At(Utf8(u), 2)) = u
<1>1. u \in Nat /\ u <= 65535
  BY DEF AWord
<1>2. CASE u <= 127
  <2>1. Utf8(u) = <<u>>
    BY <1>2 DEF Utf8
  <2>2. At(Utf8(u), 0) = u
    BY <2>1 DEF At
  <2> QED
    BY <1>1, <1>2, <2>2 DEF CharOf
<1>3. CASE u \in 128..2047
  <2>1. Utf8(u) = <<((u \div 64) % 32) + 192, (u % 64) + 128>>
    <3>1. ~(u <= 127) /\ u >= 128 /\ u <= 2047
      BY <1>3
    <3> QED
      BY <1>1, <3>1 DEF Utf8
  <2>2. At(Utf8(u), 0) = ((u \div 64) % 32) + 192 /\ At(Utf8(u), 1) = (u % 64) + 128
    BY <2>1 DEF At
  <2>3. (u \div 64) % 32 \in 0..31 /\ ((u \div 64) % 32) * 64 + (u % 64) = u
    BY <1>3
  <2> QED
    BY <1>1, <2>2, <2>3 DEF CharOf
<1>4. CASE u > 2047
  <2>1. Utf8(u) = <<((u \div 4096) % 16) + 224, ((u \div 64) % 64) + 128, (u % 64) + 128>>
    BY <1>1, <1>4 DEF Utf8
  <2>2. /\ At(Utf8(u), 0) = ((u \div 4096) % 16) + 224 /\ At(Utf8(u), 1) = ((u \div 64) % 64) + 128
        /\ At(Utf8(u), 2) = (u % 64) + 128
    BY <2>1 DEF At
  <2>3. (u \div 4096) % 16 \in 0..15 /\ ((u \div 4096) % 16) * 4096 + ((u \div 64) % 64) * 64 + (u % 64) = u
    BY <1>1, <1>4
  <2> QED
    BY <1>1, <2>2, <2>3, SMTT(30) DEF CharOf
<1> QED
  BY <1>1, <1>2, <1>3, <1>4

LEMMA Utf8ComesBack ==
  ASSUME NEW x \in Seq(AWord), NEW k \in 1..Len(x)
  PROVE  LET u8 == Unicode2UTF8(x) IN CharOf(u8[3*k - 2], u8[3*k - 1], u8[3*k]) = x[k]
<1>1. /\ 3*k - 2 \in 1..3 * Len(x) /\ 3*k - 1 \in 1..3 * Len(x) /\ 3*k \in 1..3 * Len(x)
      /\ ((3*k - 2) + 2) \div 3 = k /\ ((3*k - 1) + 2) \div 3 = k /\ (3*k + 2) \div 3 = k
      /\ ((3*k - 2) - 1) % 3 = 0 /\ ((3*k - 1) - 1) % 3 = 1 /\ (3*k - 1) % 3 = 2
  OBVIOUS
<1> DEFINE u8 == Unicode2UTF8(x)
<1>2. /\ u8[3*k - 2] = At(Utf8(x[k]), 0) /\ u8[3*k - 1] = At(Utf8(x[k]), 1)
      /\ u8[3*k] = At(Utf8(x[k]), 2)
  BY <1>1 DEF Unicode2UTF8
<1>3. x[k] \in AWord
  OBVIOUS
<1> HIDE DEF u8
<1>4. CharOf(u8[3*k - 2], u8[3*k - 1], u8[3*k]) = x[k]
  BY <1>2, <1>3, CharComesBack
<1> QED
  BY <1>4 DEF u8

-----------------------------------------------------------------------------
(* base64Encoder                                                           *)

\* The character of a number of six bits, and of the filler.
Sextet == {n \in Nat : n <= 64}
Letter(n) ==
  IF n <= 25 THEN 65 + n
  ELSE IF n <= 51 THEN 71 + n
  ELSE IF n <= 61 THEN n - 4
  ELSE IF n = 62 THEN 43 ELSE IF n = 63 THEN 47 ELSE 61

\* u is s and, behind its n elements, the m elements of t.
IsJoined(u, s, n, t, m) ==
  /\ u \in Seq(Nat) /\ Len(u) = n + m
  /\ \A k \in Nat : k >= 1 /\ k <= n => u[k] = s[k]
  /\ \A k \in Nat : k >= 1 /\ k <= m => u[n + k] = t[k]

LEMMA JoinedAt ==
  \A s, t \in Seq(Nat) : IsJoined(s \o t, s, Len(s), t, Len(t))
<1> SUFFICES ASSUME NEW s \in Seq(Nat), NEW t \in Seq(Nat) PROVE IsJoined(s \o t, s, Len(s), t, Len(t))
  OBVIOUS
<1>1. Len(s) \in Nat /\ Len(t) \in Nat
  OBVIOUS
<1>2. \A k \in Nat : k >= 1 /\ k <= Len(s) => (s \o t)[k] = s[k]
  BY <1>1, ConcatProperties
<1>3. \A k \in Nat : k >= 1 /\ k <= Len(t) => (s \o t)[Len(s) + k] = t[k]
  <2> SUFFICES ASSUME NEW k \in Nat, k >= 1, k <= Len(t) PROVE (s \o t)[Len(s) + k] = t[k]
    OBVIOUS
  <2>1. Len(s) + k \in 1..Len(s) + Len(t) /\ ~(Len(s) + k <= Len(s)) /\ (Len(s) + k) - Len(s) = k
    BY <1>1
  <2>2. (s \o t)[Len(s) + k] = IF Len(s) + k <= Len(s) THEN s[Len(s) + k] ELSE t[(Len(s) + k) - Len(s)]
    BY <2>1, ConcatProperties
  <2> QED
    BY <2>1, <2>2
<1> QED
  BY <1>2, <1>3, ConcatProperties DEF IsJoined

LEMMA LettersOfTable ==
  ASSUME NEW n \in Sextet
  PROVE  base64[n + 1] = Letter(n)
<1> DEFINE A == [k \in 1..26 |-> 64 + k]  B == [k \in 1..26 |-> 96 + k]
           D == [k \in 1..10 |-> 47 + k]  F == <<43, 47, 61>>
<1>1. A \in Seq(Nat) /\ B \in Seq(Nat) /\ D \in Seq(Nat) /\ F \in Seq(Nat)
  OBVIOUS
<1>2. Len(A) = 26 /\ Len(B) = 26 /\ Len(D) = 10 /\ Len(F) = 3
  OBVIOUS
<1>3. /\ \A k \in 1..26 : A[k] = 64 + k /\ B[k] = 96 + k
      /\ \A k \in 1..10 : D[k] = 47 + k
      /\ F[1] = 43 /\ F[2] = 47 /\ F[3] = 61
  OBVIOUS
<1>4. base64 = ((A \o B) \o D) \o F
  BY DEF base64
<1> HIDE DEF A, B, D, F
<1> DEFINE AB == A \o B
           ABD == AB \o D
<1>5. IsJoined(AB, A, 26, B, 26)
  BY <1>1, <1>2, JoinedAt
<1>6. AB \in Seq(Nat) /\ Len(AB) = 52
  BY <1>5 DEF IsJoined
<1> HIDE DEF AB
<1>7. IsJoined(ABD, AB, 52, D, 10)
  BY <1>1, <1>2, <1>6, JoinedAt
<1>8. ABD \in Seq(Nat) /\ Len(ABD) = 62
  BY <1>7 DEF IsJoined
<1> HIDE DEF ABD
<1>9. IsJoined(base64, ABD, 62, F, 3)
  <2>1. IsJoined(ABD \o F, ABD, 62, F, 3)
    BY <1>1, <1>2, <1>8, JoinedAt, ZenonT(30)
  <2> QED
    BY <1>4, <2>1 DEF ABD, AB
<1>10. n \in Nat /\ n <= 64
  BY DEF Sextet
<1>11. CASE n <= 25
  <2>1. n + 1 \in Nat /\ n + 1 >= 1 /\ n + 1 <= 26 /\ n + 1 <= 52 /\ n + 1 <= 62 /\ n + 1 \in 1..26
    BY <1>10, <1>11
  <2>2. base64[n + 1] = ABD[n + 1] /\ ABD[n + 1] = AB[n + 1] /\ AB[n + 1] = A[n + 1]
    BY <1>5, <1>7, <1>9, <2>1 DEF IsJoined
  <2> QED
    BY <1>3, <1>10, <1>11, <2>1, <2>2 DEF Letter
<1>12. CASE n > 25 /\ n <= 51
  <2> DEFINE k == n - 25
  <2>1. /\ n + 1 \in Nat /\ n + 1 >= 1 /\ n + 1 <= 52 /\ n + 1 <= 62
        /\ k \in Nat /\ k >= 1 /\ k <= 26 /\ k \in 1..26 /\ n + 1 = 26 + k /\ 96 + k = 71 + n
    BY <1>10, <1>12
  <2> HIDE DEF k
  <2>2. base64[n + 1] = ABD[n + 1] /\ ABD[n + 1] = AB[n + 1] /\ AB[26 + k] = B[k]
    BY <1>5, <1>7, <1>9, <2>1 DEF IsJoined
  <2> QED
    BY <1>3, <1>10, <1>12, <2>1, <2>2 DEF Letter
<1>13. CASE n > 51 /\ n <= 61
  <2> DEFINE k == n - 51
  <2>1. /\ n + 1 \in Nat /\ n + 1 >= 1 /\ n + 1 <= 62
        /\ k \in Nat /\ k >= 1 /\ k <= 10 /\ k \in 1..10 /\ n + 1 = 52 + k /\ 47 + k = n - 4
    BY <1>10, <1>13
  <2> HIDE DEF k
  <2>2. base64[n + 1] = ABD[n + 1] /\ ABD[52 + k] = D[k]
    BY <1>7, <1>9, <2>1 DEF IsJoined
  <2> QED
    BY <1>3, <1>10, <1>13, <2>1, <2>2 DEF Letter
<1>14. CASE n > 61
  <2>1. \E k \in 1..3 : n + 1 = 62 + k
    <3>1. n - 61 \in 1..3 /\ n + 1 = 62 + (n - 61)
      BY <1>10, <1>14
    <3> QED
      BY <3>1
  <2>2. PICK k \in 1..3 : n + 1 = 62 + k
    BY <2>1
  <2>3. base64[62 + k] = F[k]
    <3>1. k \in Nat /\ k >= 1 /\ k <= 3
      OBVIOUS
    <3> QED
      BY <1>9, <3>1 DEF IsJoined
  <2>4. k = 1 \/ k = 2 \/ k = 3
    OBVIOUS
  <2> QED
    BY <1>3, <1>10, <2>2, <2>3, <2>4 DEF Letter
<1> QED
  BY <1>10, <1>11, <1>12, <1>13, <1>14

\* The number of a character, as Base64Decodes looks it up.
ValueOf(c) == CHOOSE n \in 0..64 : base64[n + 1] = c

LEMMA LetterIsOne ==
  ASSUME NEW n \in Sextet
  PROVE  ValueOf(base64[n + 1]) = n /\ (base64[n + 1] = 61 <=> n = 64)
<1>1. \A k \in 0..64 : k \in Sextet
  BY DEF Sextet
<1>2. n \in 0..64
  BY DEF Sextet
<1>3. \A k \in Sextet : Letter(k) = Letter(n) => k = n
  BY DEF Letter, Sextet
<1>4. \A k \in 0..64 : base64[k + 1] = base64[n + 1] => k = n
  BY <1>1, <1>3, LettersOfTable
<1>5. ValueOf(base64[n + 1]) = n
  BY <1>2, <1>4 DEF ValueOf
<1>6. Letter(n) = 61 <=> n = 64
  BY DEF Letter, Sextet
<1> QED
  BY <1>5, <1>6, LettersOfTable

\* The six bits of three bytes that are there.
SixOf(a, b, d, k) ==
  IF k = 0 THEN a \div 4
  ELSE IF k = 1 THEN (a % 4) * 16 + (b \div 16)
  ELSE IF k = 2 THEN (b % 16) * 4 + (d \div 64) ELSE d % 64

LEMMA SixOfThree ==
  ASSUME NEW a \in AChar, NEW b \in AChar, NEW d \in AChar, NEW k \in 0..3
  PROVE  SixOf(a, b, d, k) \in Sextet /\ SixOf(a, b, d, k) # 64
BY DEF SixOf, AChar, Sextet

LEMMA SixesAre ==
  ASSUME NEW x \in Seq(AChar), NEW t \in Nat, NEW k \in 0..3
  PROVE  Sixes(x, t, k) = IF (k = 2 /\ t + 1 >= Len(x)) \/ (k = 3 /\ t + 2 >= Len(x)) THEN 64
                          ELSE SixOf(At(x, t), At(x, t + 1), At(x, t + 2), k)
<1>1. k = 0 \/ k = 1 \/ k = 2 \/ k = 3
  OBVIOUS
<1> QED
  BY <1>1 DEF Sixes, SixOf

LEMMA CharsAre ==
  ASSUME NEW x \in Seq(AChar), NEW t \in Nat
  PROVE  At(x, t) \in AChar
<1>1. 0 \in AChar /\ Len(x) \in Nat
  BY DEF AChar
<1>2. CASE t \in 0..Len(x) - 1
  <2>1. t + 1 \in 1..Len(x)
    BY <1>1, <1>2
  <2> QED
    BY <1>2, <2>1, ElementOfSeq DEF At
<1> QED
  BY <1>1, <1>2 DEF At

\* A number of six bits, or the filler where there is no byte.
LEMMA SixesFill ==
  ASSUME NEW x \in Seq(AChar), NEW t \in Nat, NEW k \in 0..3
  PROVE  /\ Sixes(x, t, k) \in Sextet
         /\ Sixes(x, t, k) = 64 <=> (k = 2 /\ t + 1 >= Len(x)) \/ (k = 3 /\ t + 2 >= Len(x))
<1>1. At(x, t) \in AChar /\ At(x, t + 1) \in AChar /\ At(x, t + 2) \in AChar
  BY CharsAre
<1>2. 64 \in Sextet
  BY DEF Sextet
<1> DEFINE six == SixOf(At(x, t), At(x, t + 1), At(x, t + 2), k)
           gone == (k = 2 /\ t + 1 >= Len(x)) \/ (k = 3 /\ t + 2 >= Len(x))
<1>3. six \in Sextet /\ six # 64
  BY <1>1, SixOfThree
<1>4. Sixes(x, t, k) = IF gone THEN 64 ELSE six
  BY SixesAre
<1> HIDE DEF six, gone
<1>5. Sixes(x, t, k) \in Sextet /\ (Sixes(x, t, k) = 64 <=> gone)
  BY <1>2, <1>3, <1>4
<1> QED
  BY <1>5 DEF gone

\* Bit w of 24, in three bytes and in the four numbers made of them.
ByteBit(c, k) == (c \div 2^(7 - k)) % 2
SixBit(n, r) == (n \div 2^(5 - r)) % 2

LEMMA Powers ==
  /\ 2^0 = 1 /\ 2^1 = 2 /\ 2^2 = 4 /\ 2^3 = 8 /\ 2^4 = 16 /\ 2^5 = 32 /\ 2^6 = 64 /\ 2^7 = 128
OBVIOUS

LEMMA BitsOfFirst ==
  ASSUME NEW a \in AChar, NEW b \in AChar, NEW d \in AChar, NEW k \in 0..7
  PROVE  ByteBit(a, k) = SixBit(SixOf(a, b, d, k \div 6), k % 6)
<1>1. k = 0 \/ k = 1 \/ k = 2 \/ k = 3 \/ k = 4 \/ k = 5 \/ k = 6 \/ k = 7
  OBVIOUS
<1>2. a \in Nat /\ a <= 127 /\ b \in Nat /\ b <= 127 /\ d \in Nat /\ d <= 127
  BY DEF AChar
<1>3. CASE k = 0
  BY <1>2, <1>3, Powers DEF ByteBit, SixBit, SixOf
<1>4. CASE k = 1
  BY <1>2, <1>4, Powers DEF ByteBit, SixBit, SixOf
<1>5. CASE k = 2
  BY <1>2, <1>5, Powers DEF ByteBit, SixBit, SixOf
<1>6. CASE k = 3
  BY <1>2, <1>6, Powers DEF ByteBit, SixBit, SixOf
<1>7. CASE k = 4
  BY <1>2, <1>7, Powers DEF ByteBit, SixBit, SixOf
<1>8. CASE k = 5
  BY <1>2, <1>8, Powers DEF ByteBit, SixBit, SixOf
<1>9. CASE k = 6
  BY <1>2, <1>9, Powers DEF ByteBit, SixBit, SixOf
<1>10. CASE k = 7
  BY <1>2, <1>10, Powers DEF ByteBit, SixBit, SixOf
<1> QED
  BY <1>1, <1>3, <1>4, <1>5, <1>6, <1>7, <1>8, <1>9, <1>10

LEMMA BitsOfSecond ==
  ASSUME NEW a \in AChar, NEW b \in AChar, NEW d \in AChar, NEW k \in 0..7
  PROVE  ByteBit(b, k) = SixBit(SixOf(a, b, d, (8 + k) \div 6), (8 + k) % 6)
<1>1. k = 0 \/ k = 1 \/ k = 2 \/ k = 3 \/ k = 4 \/ k = 5 \/ k = 6 \/ k = 7
  OBVIOUS
<1>2. a \in Nat /\ a <= 127 /\ b \in Nat /\ b <= 127 /\ d \in Nat /\ d <= 127
  BY DEF AChar
<1>3. CASE k = 0
  BY <1>2, <1>3, Powers DEF ByteBit, SixBit, SixOf
<1>4. CASE k = 1
  BY <1>2, <1>4, Powers DEF ByteBit, SixBit, SixOf
<1>5. CASE k = 2
  BY <1>2, <1>5, Powers DEF ByteBit, SixBit, SixOf
<1>6. CASE k = 3
  BY <1>2, <1>6, Powers DEF ByteBit, SixBit, SixOf
<1>7. CASE k = 4
  BY <1>2, <1>7, Powers DEF ByteBit, SixBit, SixOf
<1>8. CASE k = 5
  BY <1>2, <1>8, Powers DEF ByteBit, SixBit, SixOf
<1>9. CASE k = 6
  BY <1>2, <1>9, Powers DEF ByteBit, SixBit, SixOf
<1>10. CASE k = 7
  BY <1>2, <1>10, Powers DEF ByteBit, SixBit, SixOf
<1> QED
  BY <1>1, <1>3, <1>4, <1>5, <1>6, <1>7, <1>8, <1>9, <1>10

LEMMA BitsOfThird ==
  ASSUME NEW a \in AChar, NEW b \in AChar, NEW d \in AChar, NEW k \in 0..7
  PROVE  ByteBit(d, k) = SixBit(SixOf(a, b, d, (16 + k) \div 6), (16 + k) % 6)
<1>1. k = 0 \/ k = 1 \/ k = 2 \/ k = 3 \/ k = 4 \/ k = 5 \/ k = 6 \/ k = 7
  OBVIOUS
<1>2. a \in Nat /\ a <= 127 /\ b \in Nat /\ b <= 127 /\ d \in Nat /\ d <= 127
  BY DEF AChar
<1>3. CASE k = 0
  BY <1>2, <1>3, Powers DEF ByteBit, SixBit, SixOf
<1>4. CASE k = 1
  BY <1>2, <1>4, Powers DEF ByteBit, SixBit, SixOf
<1>5. CASE k = 2
  BY <1>2, <1>5, Powers DEF ByteBit, SixBit, SixOf
<1>6. CASE k = 3
  BY <1>2, <1>6, Powers DEF ByteBit, SixBit, SixOf
<1>7. CASE k = 4
  BY <1>2, <1>7, Powers DEF ByteBit, SixBit, SixOf
<1>8. CASE k = 5
  BY <1>2, <1>8, Powers DEF ByteBit, SixBit, SixOf
<1>9. CASE k = 6
  BY <1>2, <1>9, Powers DEF ByteBit, SixBit, SixOf
<1>10. CASE k = 7
  BY <1>2, <1>10, Powers DEF ByteBit, SixBit, SixOf
<1> QED
  BY <1>1, <1>3, <1>4, <1>5, <1>6, <1>7, <1>8, <1>9, <1>10

\* The four characters of three bytes, which are those from 3 * t on.
LEMMA EncodedAre ==
  ASSUME NEW x \in Seq(AChar)
  PROVE  LET enc == base64Encoder(x)  g == (Len(x) + 2) \div 3
         IN  /\ DOMAIN enc = 1..4 * g /\ Len(enc) = 4 * g
             /\ \A t \in Nat, k \in 0..3 : t < g => enc[4 * t + k + 1] = base64[Sixes(x, 3 * t, k) + 1]
<1> DEFINE enc == base64Encoder(x)  g == (Len(x) + 2) \div 3
<1>1. Len(x) \in Nat /\ g \in Nat
  OBVIOUS
<1>2. enc = [m \in 1..4 * g |-> base64[Sixes(x, 3 * ((m - 1) \div 4), (m - 1) % 4) + 1]]
  BY DEF base64Encoder
<1> HIDE DEF enc, g
<1>3. DOMAIN enc = 1..4 * g /\ Len(enc) = 4 * g
  BY <1>1, <1>2
<1>4. ASSUME NEW t \in Nat, NEW k \in 0..3, t < g
      PROVE  enc[4 * t + k + 1] = base64[Sixes(x, 3 * t, k) + 1]
  <2> DEFINE m == 4 * t + k + 1
  <2>1. m \in 1..4 * g /\ (m - 1) \div 4 = t /\ (m - 1) % 4 = k
    BY <1>1, <1>4
  <2> HIDE DEF m
  <2>2. enc[m] = base64[Sixes(x, 3 * t, k) + 1]
    BY <1>2, <2>1
  <2> QED
    BY <2>2 DEF m
<1> QED
  BY <1>3, <1>4 DEF enc, g

LEMMA BitsComeBack ==
  ASSUME NEW x \in Seq(AChar), NEW n \in 1..Len(x), NEW k \in 0..7
  PROVE  LET enc == base64Encoder(x)  b == 8 * (n - 1) + k
         IN  ByteBit(x[n], k) = SixBit(ValueOf(enc[b \div 6 + 1]), b % 6)
<1> DEFINE enc == base64Encoder(x)
           t == (n - 1) \div 3
           e == (n - 1) % 3
           w == 8 * e + k
           b == 8 * (n - 1) + k
<1>1. /\ t \in Nat /\ e \in 0..2 /\ n = 3 * t + e + 1 /\ t < (Len(x) + 2) \div 3 /\ 3 * t + e < Len(x)
      /\ Len(x) \in Nat
  OBVIOUS
<1> HIDE DEF t, e
<1>2. b = 24 * t + w /\ w \in 0..23
  BY <1>1
<1> HIDE DEF w
<1>3. b \div 6 + 1 = 4 * t + (w \div 6) + 1 /\ b % 6 = w % 6 /\ w \div 6 \in 0..3
  BY <1>1, <1>2
<1> DEFINE six == SixOf(At(x, 3 * t), At(x, 3 * t + 1), At(x, 3 * t + 2), w \div 6)
<1>4. Sixes(x, 3 * t, w \div 6) = six /\ Sixes(x, 3 * t, w \div 6) \in Sextet
  <2>1. w \div 6 = 2 => 3 * t + 1 < Len(x)
    BY <1>1, <1>2 DEF w
  <2>2. w \div 6 = 3 => 3 * t + 2 < Len(x)
    BY <1>1, <1>2 DEF w
  <2>3. 3 * t \in Nat
    BY <1>1
  <2> DEFINE y == w \div 6
             gone == (y = 2 /\ 3 * t + 1 >= Len(x)) \/ (y = 3 /\ 3 * t + 2 >= Len(x))
  <2>4. ~gone
    BY <1>1, <2>1, <2>2
  <2>5. y \in 0..3
    BY <1>3
  <2> HIDE DEF y
  <2>6. Sixes(x, 3 * t, y) = IF gone THEN 64 ELSE SixOf(At(x, 3 * t), At(x, 3 * t + 1), At(x, 3 * t + 2), y)
    BY <2>3, <2>5, SixesAre
  <2>7. Sixes(x, 3 * t, y) \in Sextet
    BY <2>3, <2>5, SixesFill
  <2> QED
    BY <2>4, <2>6, <2>7 DEF y
<1>5. ValueOf(enc[b \div 6 + 1]) = six
  <2>1. enc[4 * t + (w \div 6) + 1] = base64[Sixes(x, 3 * t, w \div 6) + 1]
    BY <1>1, <1>3, EncodedAre
  <2> QED
    BY <1>3, <1>4, <2>1, LetterIsOne
<1>6. At(x, 3 * t) \in AChar /\ At(x, 3 * t + 1) \in AChar /\ At(x, 3 * t + 2) \in AChar
  BY <1>1, CharsAre
<1>7. x[n] = At(x, 3 * t + e)
  BY <1>1 DEF At
<1>8. ByteBit(x[n], k) = SixBit(six, w % 6)
  <2>1. CASE e = 0
    <3>1. w = k /\ 3 * t + e = 3 * t
      BY <1>1, <2>1 DEF w
    <3> QED
      BY <1>6, <1>7, <3>1, BitsOfFirst
  <2>2. CASE e = 1
    <3>1. w = 8 + k /\ 3 * t + e = 3 * t + 1
      BY <2>2 DEF w
    <3> QED
      BY <1>6, <1>7, <3>1, BitsOfSecond
  <2>3. CASE e = 2
    <3>1. w = 16 + k /\ 3 * t + e = 3 * t + 2
      BY <2>3 DEF w
    <3> QED
      BY <1>6, <1>7, <3>1, BitsOfThird
  <2> QED
    BY <1>1, <2>1, <2>2, <2>3
<1> HIDE DEF six, enc, b
<1>9. ByteBit(x[n], k) = SixBit(ValueOf(enc[b \div 6 + 1]), b % 6)
  BY <1>3, <1>5, <1>8
<1> QED
  BY <1>9 DEF enc, b

LEMMA FillersAtEnd ==
  ASSUME NEW x \in Seq(AChar)
  PROVE  LET enc == base64Encoder(x)
         IN  {m \in DOMAIN enc : enc[m] = 61} = (4 * Len(x) + 2) \div 3 + 1..Len(enc)
<1> DEFINE enc == base64Encoder(x)  g == (Len(x) + 2) \div 3  last == (4 * Len(x) + 2) \div 3
<1>1. Len(x) \in Nat /\ g \in Nat /\ last \in Nat
  OBVIOUS
<1>2. DOMAIN enc = 1..4 * g /\ Len(enc) = 4 * g
  BY EncodedAre
<1>3. ASSUME NEW m \in 1..4 * g PROVE enc[m] = 61 <=> m > last
  <2> DEFINE t == (m - 1) \div 4  k == (m - 1) % 4
  <2>1. t \in Nat /\ k \in 0..3 /\ t < g /\ m = 4 * t + k + 1
    BY <1>1
  <2> HIDE DEF t, k
  <2>2. enc[m] = base64[Sixes(x, 3 * t, k) + 1]
    <3>1. enc[4 * t + k + 1] = base64[Sixes(x, 3 * t, k) + 1]
      BY <2>1, EncodedAre
    <3> HIDE DEF enc
    <3> QED
      BY <2>1, <3>1
  <2>3. 3 * t \in Nat
    BY <2>1
  <2>4. Sixes(x, 3 * t, k) \in Sextet
    BY <2>1, <2>3, SixesFill
  <2>5. Sixes(x, 3 * t, k) = 64 <=> (k = 2 /\ 3 * t + 1 >= Len(x)) \/ (k = 3 /\ 3 * t + 2 >= Len(x))
    BY <2>1, <2>3, SixesFill
  <2> HIDE DEF enc
  <2>6. enc[m] = 61 <=> (k = 2 /\ 3 * t + 1 >= Len(x)) \/ (k = 3 /\ 3 * t + 2 >= Len(x))
    BY <2>2, <2>4, <2>5, LetterIsOne
  <2>7. (k = 2 /\ 3 * t + 1 >= Len(x)) \/ (k = 3 /\ 3 * t + 2 >= Len(x)) <=> m > last
    BY <1>1, <2>1
  <2> QED
    BY <2>6, <2>7
<1> HIDE DEF enc, g, last
<1>4. {m \in DOMAIN enc : enc[m] = 61} = last + 1..Len(enc)
  <2>1. ASSUME NEW m PROVE m \in 1..4 * g /\ m > last <=> m \in last + 1..4 * g
    BY <1>1
  <2>2. last + 1..Len(enc) = last + 1..4 * g
    BY <1>2
  <2> QED
    BY <1>2, <1>3, <2>1, <2>2, Zenon
<1> QED
  BY <1>4 DEF enc, last

-----------------------------------------------------------------------------
(* IdCrc and raCopy                                                        *)

BitOr(a, b, n) == IF (a \div n) % 2 = 1 \/ (b \div n) % 2 = 1 THEN n ELSE 0

\* A sum of numbers is 0 only if they are.
ZeroSum(c, d, e, f, g, h, m, n) ==
  LET sum == c + d + e + f + g + h + m + n
  IN  /\ sum \in Nat
      /\ sum = 0 <=> c = 0 /\ d = 0 /\ e = 0 /\ f = 0 /\ g = 0 /\ h = 0 /\ m = 0 /\ n = 0

LEMMA SumOfEight ==
  ASSUME NEW c \in Nat, NEW d \in Nat, NEW e \in Nat, NEW f \in Nat,
         NEW g \in Nat, NEW h \in Nat, NEW m \in Nat, NEW n \in Nat
  PROVE  ZeroSum(c, d, e, f, g, h, m, n)
BY DEF ZeroSum

LEMMA OrOfBytes ==
  ASSUME NEW a \in AByte, NEW b \in AByte
  PROVE  Or(a, b) \in Nat /\ (Or(a, b) = 0 <=> a = 0 /\ b = 0)
<1>1. Or(a, b) = BitOr(a, b, 1) + BitOr(a, b, 2) + BitOr(a, b, 4) + BitOr(a, b, 8) + BitOr(a, b, 16)
                 + BitOr(a, b, 32) + BitOr(a, b, 64) + BitOr(a, b, 128)
  BY DEF Or, BitOr
<1>2. ASSUME NEW n \in Nat \ {0}
      PROVE  /\ BitOr(a, b, n) \in Nat
             /\ BitOr(a, b, n) = 0 <=> (a \div n) % 2 # 1 /\ (b \div n) % 2 # 1
  BY DEF BitOr
<1>3. ASSUME NEW c \in AByte,
             c % 2 # 1, (c \div 2) % 2 # 1, (c \div 4) % 2 # 1, (c \div 8) % 2 # 1, (c \div 16) % 2 # 1,
             (c \div 32) % 2 # 1, (c \div 64) % 2 # 1, (c \div 128) % 2 # 1
      PROVE  c = 0
  BY <1>3 DEF AByte
<1>4. a \in Nat /\ b \in Nat /\ a \div 1 = a /\ b \div 1 = b
  BY DEF AByte
<1> DEFINE No(n) == (a \div n) % 2 # 1 /\ (b \div n) % 2 # 1
<1>5. \A n \in Nat \ {0} : BitOr(a, b, n) \in Nat /\ (BitOr(a, b, n) = 0 <=> No(n))
  BY <1>2
<1>6. a = 0 /\ b = 0 => \A n \in {1, 2, 4, 8, 16, 32, 64, 128} : No(n)
  OBVIOUS
<1>7. No(1) /\ No(2) /\ No(4) /\ No(8) /\ No(16) /\ No(32) /\ No(64) /\ No(128) => a = 0 /\ b = 0
  BY <1>3, <1>4
<1> HIDE DEF No
<1> DEFINE B(n) == BitOr(a, b, n)
<1>8. /\ B(1) \in Nat /\ B(2) \in Nat /\ B(4) \in Nat /\ B(8) \in Nat
      /\ B(16) \in Nat /\ B(32) \in Nat /\ B(64) \in Nat /\ B(128) \in Nat
  BY <1>5
<1>9. /\ (B(1) = 0 <=> No(1)) /\ (B(2) = 0 <=> No(2)) /\ (B(4) = 0 <=> No(4)) /\ (B(8) = 0 <=> No(8))
      /\ (B(16) = 0 <=> No(16)) /\ (B(32) = 0 <=> No(32)) /\ (B(64) = 0 <=> No(64))
      /\ (B(128) = 0 <=> No(128))
  BY <1>5
<1>10. Or(a, b) = B(1) + B(2) + B(4) + B(8) + B(16) + B(32) + B(64) + B(128)
  BY <1>1
<1> HIDE DEF B
<1>11. /\ Or(a, b) \in Nat
       /\ Or(a, b) = 0 <=> /\ B(1) = 0 /\ B(2) = 0 /\ B(4) = 0 /\ B(8) = 0
                           /\ B(16) = 0 /\ B(32) = 0 /\ B(64) = 0 /\ B(128) = 0
  <2>1. ZeroSum(B(1), B(2), B(4), B(8), B(16), B(32), B(64), B(128))
    BY <1>8, SumOfEight
  <2> QED
    BY <1>10, <2>1, Zenon DEF ZeroSum
<1>12. a = 0 /\ b = 0 => /\ No(1) /\ No(2) /\ No(4) /\ No(8) /\ No(16) /\ No(32) /\ No(64) /\ No(128)
  BY <1>6
<1> QED
  BY <1>7, <1>9, <1>11, <1>12, Zenon

\* The sums of IdCrc, of which there is one for each n.
Sums(f, id, m) == f = [n \in 0..m |-> IF n = 0 THEN 0 ELSE f[n - 1] + Or(id[n], id[n + 1])]

LEMMA SumsExist ==
  ASSUME NEW id, NEW m \in Nat
  PROVE  \E f : Sums(f, id, m)
<1> DEFINE T == {n \in Nat : \E f : Sums(f, id, n)}
<1>1. 0 \in T
  <2>1. Sums([n \in 0..0 |-> 0], id, 0)
    BY DEF Sums
  <2> QED
    BY <2>1
<1>2. ASSUME NEW n \in 0..m - 1, n \in T PROVE n + 1 \in T
  <2>1. PICK f : Sums(f, id, n)
    BY <1>2
  <2> DEFINE h == [k \in 0..n + 1 |-> IF k <= n THEN f[k] ELSE f[k - 1] + Or(id[k], id[k + 1])]
  <2>2. ASSUME NEW k \in 0..n + 1
        PROVE  h[k] = IF k = 0 THEN 0 ELSE h[k - 1] + Or(id[k], id[k + 1])
    <3>1. CASE k <= n
      <4>1. h[k] = f[k] /\ k \in 0..n /\ (k # 0 => h[k - 1] = f[k - 1])
        BY <3>1
      <4>2. f[k] = IF k = 0 THEN 0 ELSE f[k - 1] + Or(id[k], id[k + 1])
        BY <2>1, <4>1 DEF Sums
      <4> QED
        BY <4>1, <4>2
    <3>2. CASE ~(k <= n)
      <4>1. k # 0 /\ k - 1 \in 0..n + 1 /\ k - 1 <= n
        BY <3>2
      <4> QED
        BY <3>2, <4>1
    <3> QED
      BY <3>1, <3>2
  <2>3. Sums(h, id, n + 1)
    <3>1. h = [k \in 0..n + 1 |-> h[k]]
      OBVIOUS
    <3> HIDE DEF h
    <3> QED
      BY <2>2, <3>1 DEF Sums
  <2> QED
    BY <2>3
<1> HIDE DEF T
<1>3. m \in T
  BY <1>1, <1>2, Counts
<1> QED
  BY <1>3 DEF T

LEMMA IdCrcIsSum ==
  ASSUME NEW id \in Seq(AByte), Len(id) > 1
  PROVE  IdCrc(id) = 0 <=> \A k \in 1..Len(id) : id[k] = 0
<1> DEFINE m == Len(id) - 1
           crc == CHOOSE f : f = [n \in 0..m |-> IF n = 0 THEN 0 ELSE f[n - 1] + Or(id[n], id[n + 1])]
<1>0. m \in Nat /\ Len(id) = m + 1 /\ m > 0 /\ \A k \in 1..m + 1 : id[k] \in AByte
  OBVIOUS
<1>1. IdCrc(id) = crc[m]
  BY DEF IdCrc
<1> HIDE DEF m
<1>2. Sums(crc, id, m)
  BY <1>0, SumsExist DEF Sums
<1> HIDE DEF crc
<1> DEFINE None0(n) == \A k \in 1..n : Or(id[k], id[k + 1]) = 0
           T == {n \in Nat : crc[n] \in Nat /\ (crc[n] = 0 <=> None0(n))}
<1>3. 0 \in T
  BY <1>0, <1>2 DEF Sums
<1>4. ASSUME NEW n \in 0..m - 1, n \in T PROVE n + 1 \in T
  <2>1. crc[n + 1] = crc[n] + Or(id[n + 1], id[(n + 1) + 1])
    <3>1. n + 1 \in 0..m /\ n + 1 # 0 /\ (n + 1) - 1 = n
      BY <1>0
    <3> QED
      BY <1>2, <3>1 DEF Sums
  <2>2. Or(id[n + 1], id[(n + 1) + 1]) \in Nat
    <3>1. n + 1 \in 1..m + 1 /\ (n + 1) + 1 \in 1..m + 1
      BY <1>0
    <3> QED
      BY <1>0, <3>1, OrOfBytes
  <2>3. None0(n + 1) <=> None0(n) /\ Or(id[n + 1], id[(n + 1) + 1]) = 0
    <3>1. \A k : k \in 1..n + 1 <=> k \in 1..n \/ k = n + 1
      OBVIOUS
    <3> QED
      BY <3>1
  <2>4. crc[n] \in Nat /\ (crc[n] = 0 <=> None0(n)) /\ n + 1 \in Nat
    BY <1>4
  <2> HIDE DEF None0
  <2>5. crc[n + 1] \in Nat /\ (crc[n + 1] = 0 <=> None0(n + 1))
    BY <2>1, <2>2, <2>3, <2>4
  <2> QED
    BY <2>4, <2>5
<1>5. m \in T
  <2> HIDE DEF T
  <2> QED
    BY <1>0, <1>3, <1>4, Counts
<1>6. IdCrc(id) = 0 <=> \A k \in 1..m : Or(id[k], id[k + 1]) = 0
  BY <1>1, <1>5
<1>7. \A k \in 1..m : Or(id[k], id[k + 1]) = 0 <=> id[k] = 0 /\ id[k + 1] = 0
  <2>1. \A k \in 1..m : k \in 1..m + 1 /\ k + 1 \in 1..m + 1
    BY <1>0
  <2> QED
    BY <1>0, <2>1, OrOfBytes
<1>8. (\A k \in 1..m : id[k] = 0 /\ id[k + 1] = 0) <=> \A k \in 1..m + 1 : id[k] = 0
  <2>1. \A k \in 1..m + 1 : k \in 1..m \/ (k = m + 1 /\ m \in 1..m)
    BY <1>0
  <2>2. \A k \in 1..m : k \in 1..m + 1 /\ k + 1 \in 1..m + 1
    BY <1>0
  <2> QED
    BY <2>1, <2>2
<1> QED
  BY <1>0, <1>6, <1>7, <1>8

LEMMA SameBeginnings ==
  ASSUME NEW y, NEW z, NEW n \in Nat, \A k \in 1..n : y[k] = z[k]
  PROVE  SubSeq(y, 1, n) = SubSeq(z, 1, n)
<1> DEFINE S == {y[k] : k \in 1..n}
<1>1. (\A k \in 1..n : y[k] \in S) /\ (\A k \in 1..n : z[k] \in S) /\ 1 \in Int /\ n \in Int
  OBVIOUS
<1> HIDE DEF S
<1>2. /\ SubSeq(y, 1, n) \in Seq(S) /\ Len(SubSeq(y, 1, n)) = IF 1 <= n THEN n - 1 + 1 ELSE 0
      /\ \A k \in 1..n - 1 + 1 : SubSeq(y, 1, n)[k] = y[1 + k - 1]
  BY <1>1, SubSeqProperties
<1>3. /\ SubSeq(z, 1, n) \in Seq(S) /\ Len(SubSeq(z, 1, n)) = IF 1 <= n THEN n - 1 + 1 ELSE 0
      /\ \A k \in 1..n - 1 + 1 : SubSeq(z, 1, n)[k] = z[1 + k - 1]
  BY <1>1, SubSeqProperties
<1>4. \A k \in 1..Len(SubSeq(y, 1, n)) : k \in 1..n /\ k \in 1..n - 1 + 1 /\ 1 + k - 1 = k
  BY <1>2
<1>5. \A k \in 1..Len(SubSeq(y, 1, n)) : SubSeq(y, 1, n)[k] = SubSeq(z, 1, n)[k]
  BY <1>2, <1>3, <1>4
<1> QED
  BY <1>2, <1>3, <1>5, SeqEqual

\* raCopy, given a byte that is not 0 behind the bytes it copies.
LEMMA CopyIsSuffix ==
  ASSUME NEW x \in Seq(AByte), Len(x) > 1
  PROVE  LET copy == raCopy(x \o <<1>>, Len(x))
             zeros == Len(x) - Len(copy)
         IN  /\ IsSuffix(copy, x)
             /\ \A k \in 1..zeros : x[k] = 0
             /\ copy # <<>> => copy[1] # 0
<1> DEFINE m == Len(x)
           src == x \o <<1>>
           I == {k \in 1..Len(src) : src[k] # 0}
           copy == raCopy(src, m)
<1>1. m \in Nat /\ \A k \in 1..m : x[k] \in Nat
  BY DEF AByte
<1>2. /\ Len(src) = m + 1 /\ src[m + 1] = 1
      /\ \A k \in 1..m : src[k] = x[k]
  OBVIOUS
<1> HIDE DEF src
<1>3. m + 1 \in I /\ I \subseteq 1..m + 1
  BY <1>1, <1>2
<1>4. PICK f \in I : \A k \in I : f <= k
  <2>1. I \subseteq Nat
    OBVIOUS
  <2> QED
    BY <1>3, <2>1, Least
<1>5. f \in 1..m + 1 /\ src[f] # 0 /\ \A k \in 1..f - 1 : src[k] = 0
  BY <1>1, <1>2, <1>4
<1>6. SelectInSeq(src, LAMBDA c : c # 0) = f
  <2>1. SelectInSeq(src, LAMBDA c : c # 0) = IF I # {} THEN CHOOSE z \in I : \A y \in I : z =< y ELSE 0
    BY DEF SelectInSeq, Min
  <2>2. \A z \in I : (\A y \in I : z =< y) => z = f
    BY <1>3, <1>4
  <2> QED
    BY <1>3, <1>4, <2>1, <2>2
<1>7. copy = IF f - 1 >= m THEN <<>> ELSE SubSeq(src, f, m)
  BY <1>1, <1>5, <1>6 DEF raCopy
<1> HIDE DEF m, I, copy
<1>8. CASE f - 1 >= m
  <2>1. copy = <<>> /\ f = m + 1 /\ Len(copy) = 0 /\ m - 0 = f - 1
    BY <1>1, <1>5, <1>7, <1>8
  <2>2. IsSuffix(copy, x)
    <3>1. Len(Reverse(copy)) = 0 /\ Len(Reverse(x)) = m
      BY <1>1, <2>1 DEF Reverse, m
    <3>2. SubSeq(Reverse(copy), 1, 0) = <<>> /\ SubSeq(Reverse(x), 1, 0) = <<>>
      BY SubSeqEmpty
    <3> QED
      BY <1>1, <3>1, <3>2 DEF IsSuffix, IsPrefix
  <2>3. \A k \in 1..m - Len(copy) : x[k] = 0
    BY <1>1, <1>2, <1>5, <2>1
  <2> QED
    BY <2>1, <2>2, <2>3 DEF copy, m, src
<1>9. CASE ~(f - 1 >= m)
  <2>1. f \in 1..m /\ copy = SubSeq(src, f, m)
    BY <1>1, <1>5, <1>7, <1>9
  <2> DEFINE n == m - f + 1
  <2>2. n \in 1..m /\ m - n = f - 1
    BY <1>1, <2>1
  <2>3. /\ copy \in Seq(Nat) /\ Len(copy) = n
        /\ \A k \in 1..n : copy[k] = x[f + k - 1]
    <3>1. f \in Int /\ m \in Int /\ f <= m /\ \A k \in f..m : src[k] \in Nat
      <4>1. f \in Int /\ m \in Int /\ f <= m /\ \A k \in f..m : k \in 1..m
        BY <1>1, <2>1
      <4> QED
        BY <1>1, <1>2, <4>1
    <3>2. copy \in Seq(Nat) /\ Len(copy) = n /\ \A k \in 1..n : copy[k] = src[f + k - 1]
      BY <2>1, <3>1, SubSeqProperties
    <3>3. \A k \in 1..n : f + k - 1 \in 1..m
      BY <1>1, <2>1
    <3> QED
      BY <1>2, <3>2, <3>3
  <2> HIDE DEF n
  <2>4. IsSuffix(copy, x)
    <3> DEFINE y == Reverse(copy)  z == Reverse(x)
    <3>1. /\ y = [k \in 1..n |-> copy[(n - k) + 1]] /\ Len(y) = n
          /\ z = [k \in 1..m |-> x[(m - k) + 1]] /\ Len(z) = m
      BY <1>1, <2>2, <2>3 DEF Reverse, m
    <3>2. \A k \in 1..n : y[k] = z[k]
      <4> SUFFICES ASSUME NEW k \in 1..n PROVE y[k] = z[k]
        OBVIOUS
      <4> HIDE DEF y, z
      <4>1. k \in 1..m /\ (n - k) + 1 \in 1..n /\ f + ((n - k) + 1) - 1 = (m - k) + 1
        BY <1>1, <2>1, <2>2 DEF n
      <4>2. y[k] = copy[(n - k) + 1] /\ z[k] = x[(m - k) + 1]
        BY <3>1, <4>1
      <4>3. copy[(n - k) + 1] = x[f + ((n - k) + 1) - 1]
        BY <2>3, <4>1
      <4> QED
        BY <4>1, <4>2, <4>3
    <3> HIDE DEF y, z
    <3>3. SubSeq(y, 1, n) = SubSeq(z, 1, n)
      <4>1. n \in Nat
        BY <1>1, <2>2
      <4> QED
        BY <3>2, <4>1, SameBeginnings, Zenon
    <3>4. IsPrefix(y, z)
      <4>1. n <= m
        BY <1>1, <2>2
      <4> QED
        BY <3>1, <3>3, <4>1 DEF IsPrefix
    <3> QED
      BY <3>4 DEF IsSuffix, y, z
  <2>5. \A k \in 1..m - Len(copy) : x[k] = 0
    BY <1>1, <1>2, <1>5, <2>1, <2>2, <2>3
  <2>6. copy[1] # 0
    <3>1. 1 \in 1..n /\ f + 1 - 1 = f
      BY <2>1, <2>2
    <3> QED
      BY <1>2, <1>5, <2>1, <2>3, <3>1
  <2> QED
    BY <2>4, <2>5, <2>6 DEF copy, m, src
<1> QED
  BY <1>8, <1>9

-----------------------------------------------------------------------------
\* A call is one of those that are made.
CallInv == call = None \/ call \in Calls

LEMMA OneCallKept ==
  ASSUME CallsGiven, CallInv
  PROVE  CutsFit /\ Base64Decodes /\ HexRoundTrip /\ Utf8Decodes /\ IdKept
<1>1. CutsFit
  <2> SUFFICES ASSUME Is("cut"), call.x[3] + call.x[2] <= Len(call.x[1])
               PROVE  SubLeft(call.x[1], call.x[3]) \o SubMid(call.x[1], call.x[2], call.x[3])
                        = SubLeft(call.x[1], call.x[3] + call.x[2])
    BY DEF CutsFit
  <2>1. call.x[1] \in Seq(AByte) /\ call.x[2] \in Nat /\ call.x[3] \in Nat
    BY DEF CallsGiven, CallInv, Is
  <2> QED
    BY <2>1, CutsFitAgain
<1>2. Base64Decodes
  <2> SUFFICES ASSUME Is("bytes"), call.x # <<>>
               PROVE  LET enc == base64Encoder(call.x)
                          val(c) == CHOOSE n \in 0..64 : base64[n + 1] = c
                          bit(b) == (val(enc[b \div 6 + 1]) \div 2^(5 - (b % 6))) % 2
                      IN  /\ Len(enc) = 4 * ((Len(call.x) + 2) \div 3)
                          /\ \A n \in DOMAIN call.x, k \in 0..7 :
                               (call.x[n] \div 2^(7 - k)) % 2 = bit(8 * (n - 1) + k)
                          /\ {m \in DOMAIN enc : enc[m] = 61} = (4 * Len(call.x) + 2) \div 3 + 1..Len(enc)
    BY DEF Base64Decodes
  <2> DEFINE x == call.x
             enc == base64Encoder(x)
             bit(b) == SixBit(ValueOf(enc[b \div 6 + 1]), b % 6)
  <2>1. x \in Seq(AChar)
    BY DEF CallsGiven, CallInv, Is
  <2>2. Len(enc) = 4 * ((Len(x) + 2) \div 3)
    BY <2>1, EncodedAre
  <2>3. ASSUME NEW n \in DOMAIN x, NEW k \in 0..7 PROVE ByteBit(x[n], k) = bit(8 * (n - 1) + k)
    <3>1. n \in 1..Len(x)
      BY <2>1
    <3> QED
      BY <2>1, <3>1, BitsComeBack
  <2>4. {m \in DOMAIN enc : enc[m] = 61} = (4 * Len(x) + 2) \div 3 + 1..Len(enc)
    BY <2>1, FillersAtEnd
  <2> HIDE DEF enc, x
  <2>5. \A n \in DOMAIN x, k \in 0..7 : (x[n] \div 2^(7 - k)) % 2 = bit(8 * (n - 1) + k)
    BY <2>3 DEF ByteBit
  <2> QED
    BY <2>2, <2>4, <2>5, Zenon DEF SixBit, ValueOf, enc, x
<1>3. HexRoundTrip
  <2>1. Is("words") => call.x \in Seq(AByte)
    BY DEF CallsGiven, CallInv, Is
  <2>2. Is("figures") => call.x \in Seq(48..57)
    BY DEF CallsGiven, CallInv, Is
  <2> QED
    BY <2>1, <2>2, HexComesBack, FourFiguresComeBack DEF HexRoundTrip
<1>4. Utf8Decodes
  <2> SUFFICES ASSUME Is("unicode"), NEW k \in DOMAIN call.x
               PROVE  LET u8 == Unicode2UTF8(call.x)
                      IN  CharOf(u8[3*k - 2], u8[3*k - 1], u8[3*k]) = call.x[k]
    BY DEF Utf8Decodes, CharOf
  <2>1. call.x \in Seq(AWord)
    BY DEF CallsGiven, CallInv, Is
  <2>2. k \in 1..Len(call.x)
    BY <2>1
  <2> QED
    BY <2>1, <2>2, Utf8ComesBack
<1>5. IdKept
  <2>1. Is("words") => call.x \in Seq(AByte)
    BY DEF CallsGiven, CallInv, Is
  <2> SUFFICES ASSUME Is("words"), Len(call.x) > 1
               PROVE  /\ IdCrc(call.x) = 0 <=> \A k \in DOMAIN call.x : call.x[k] = 0
                      /\ LET copy == raCopy(call.x \o <<1>>, Len(call.x))
                             zeros == Len(call.x) - Len(copy)
                         IN  /\ IsSuffix(copy, call.x)
                             /\ \A k \in 1..zeros : call.x[k] = 0
                             /\ copy # <<>> => copy[1] # 0
    BY DEF IdKept
  <2>2. DOMAIN call.x = 1..Len(call.x)
    BY <2>1
  <2>3. IdCrc(call.x) = 0 <=> \A k \in DOMAIN call.x : call.x[k] = 0
    BY <2>1, <2>2, IdCrcIsSum
  <2> QED
    BY <2>1, <2>3, CopyIsSuffix
<1> QED
  BY <1>1, <1>2, <1>3, <1>4, <1>5

\* What is converted can be read back, for any strings, bytes and numbers: base 64, the
\* hexadecimal and decimal figures, UTF-8, the number of a card without its zeros and
\* the parts of a text (public.c:16-46, 291-395, 511-576, 626-651).
THEOREM TextsComeBack ==
  ASSUME CallsGiven
  PROVE  TextSpec => [](CutsFit /\ Base64Decodes /\ HexRoundTrip /\ Utf8Decodes /\ IdKept)
<1>1. TextInit => CallInv
  BY DEF TextInit, CallInv
<1>2. CallInv /\ [TextNext]_call => CallInv'
  BY DEF CallInv, TextNext, Call, Return
<1>3. CallInv => CutsFit /\ Base64Decodes /\ HexRoundTrip /\ Utf8Decodes /\ IdKept
  BY OneCallKept
<1> QED
  BY <1>1, <1>2, <1>3, PTL DEF TextSpec
=============================================================================
