-------------------------- MODULE OutputBufferProofs --------------------------
(***************************************************************************)
(* Proofs about module OutputBuffer, for any bytes, patterns and limit,    *)
(* writes of any size and streams of any length: found is exact although   *)
(* the stream is searched piece by piece and its middle is dropped, and    *)
(* both ends are kept.                                                     *)
(***************************************************************************)
EXTENDS OutputBuffer, SequenceTheorems, WellFoundedInduction, TLAPS

\* What Write has kept of the stream.
Kept ==
  /\ ~truncated => head = stream /\ tail = <<>> /\ Len(stream) <= Limit
  /\ truncated =>
       /\ Len(stream) > Limit
       /\ head = SubSeq(stream, 1, half)
       /\ Len(tail) \in half..(2 * half) /\ tail = LastOf(stream, Len(tail))

\* The inductive invariant.
IInv == TypeOK /\ Kept /\ FoundIsExact

-----------------------------------------------------------------------------
(* Induction by the least counterexample.                                  *)

LEMMA LeastNat ==
  ASSUME NEW T \in SUBSET Nat, T # {}
  PROVE  \E m \in T : \A n \in T : m <= n
<1> DEFINE R == OpToRel(<, Nat)
<1>1. IsWellFoundedOn(R, Nat)
  BY NatLessThanWellFounded, Zenon
<1>2. ASSUME NEW x \in Nat, NEW y \in Nat, x < y PROVE <<x, y>> \in R
  BY <1>2 DEF OpToRel
<1> HIDE DEF R
<1>3. PICK x \in T : \A y \in T : ~(<<y, x>> \in R)
  BY <1>1, WFMin
<1>4. ASSUME NEW y \in T PROVE x <= y
  <2>1. ~(y < x)
    BY <1>2, <1>3
  <2> QED
    BY <2>1
<1> QED
  BY <1>4

\* Finitely many numbers have an upper bound.
LEMMA Bounded ==
  ASSUME NEW N \in Nat, NEW f \in [1..N -> Nat]
  PROVE  \E b \in Nat : \A i \in 1..N : f[i] <= b
<1> DEFINE Up(n) == \E b \in Nat : \A i \in 1..n : f[i] <= b
           Bad == {n \in 0..N : ~Up(n)}
<1>1. SUFFICES ASSUME Bad # {} PROVE FALSE
  <2> HIDE DEF Up
  <2>1. N \in 0..N
    OBVIOUS
  <2>2. Bad = {} => Up(N)
    BY <2>1
  <2> QED
    BY <2>2 DEF Up
<1>2. PICK n \in Bad : \A m \in Bad : n <= m
  <2>1. Bad \in SUBSET Nat
    OBVIOUS
  <2> HIDE DEF Bad
  <2> QED
    BY <1>1, <2>1, LeastNat
<1>3. Up(0)
  <2>1. \A i \in 1..0 : f[i] <= 0
    OBVIOUS
  <2> QED
    BY <2>1
<1>4. n # 0
  BY <1>2, <1>3
<1>5. n - 1 \in 0..N /\ ~(n <= n - 1)
  BY <1>2, <1>4
<1>6. Up(n - 1)
  BY <1>2, <1>5
<1>7. PICK b \in Nat : \A i \in 1..(n - 1) : f[i] <= b
  BY <1>6
<1>8. n \in 1..N /\ f[n] \in Nat
  BY <1>5
<1>9. PICK c \in Nat : c >= b /\ c >= f[n]
  <2>1. CASE f[n] >= b
    BY <1>8, <2>1
  <2>2. CASE ~(f[n] >= b)
    BY <1>8, <2>2
  <2> QED
    BY <2>1, <2>2
<1>10. \A i \in 1..n : f[i] <= c
  BY <1>7, <1>8, <1>9
<1> QED
  BY <1>10

\* NewBuffer: carry is long enough for every pattern but its last byte.
LEMMA KeepCovers ==
  keep \in Nat /\ \A i \in DOMAIN Pats : Len(Pats[i]) - 1 <= keep
<1> DEFINE lens == {Len(Pats[i]) - 1 : i \in DOMAIN Pats} \cup {0}
           f == [i \in 1..Len(Pats) |-> Len(Pats[i])]
<1>1. Pats \in Seq(Seq(Byte)) /\ DOMAIN Pats = 1..Len(Pats) /\ Len(Pats) \in Nat
  BY OutputBufferAssumption DEF OutputBufferAssumption
<1>2. \A i \in DOMAIN Pats : Pats[i] \in Seq(Byte)
  BY <1>1, ElementOfSeq
<1>3. \A i \in DOMAIN Pats : Len(Pats[i]) \in Nat
  BY <1>2, LenProperties
<1>4. f \in [1..Len(Pats) -> Nat]
  BY <1>1, <1>3
<1>5. PICK b \in Nat : \A i \in 1..Len(Pats) : f[i] <= b
  <2> HIDE DEF f
  <2> QED
    BY <1>1, <1>4, Bounded
<1> DEFINE U == {n \in Nat : \A m \in lens : m <= n}
<1>6. b \in U
  BY <1>1, <1>3, <1>5
<1>7. PICK n \in U : \A m \in U : n <= m
  <2>1. U \in SUBSET Nat /\ U # {}
    BY <1>6
  <2> HIDE DEF U
  <2> QED
    BY <2>1, LeastNat
<1>8. \A m \in lens : m \in Int
  BY <1>3
<1>9. n \in lens
  <2>1. SUFFICES ASSUME n \notin lens PROVE FALSE
    OBVIOUS
  <2>2. n # 0
    BY <2>1
  <2>3. n \in Nat /\ \A m \in lens : m <= n
    BY <1>7
  <2>4. n - 1 \in Nat
    BY <2>2, <2>3
  <2>5. \A m \in lens : m <= n - 1
    <3> HIDE DEF lens
    <3> QED
      BY <1>8, <2>1, <2>3
  <2>6. n - 1 \in U
    <3> HIDE DEF lens
    <3> QED
      BY <2>4, <2>5
  <2> QED
    BY <1>7, <2>3, <2>6
<1>10. keep \in lens /\ \A m \in lens : m <= keep
  <2>1. \A m \in lens : m <= n
    BY <1>7
  <2>2. keep = CHOOSE k \in lens : \A m \in lens : m <= k
    BY DEF keep
  <2> HIDE DEF lens
  <2> QED
    BY <1>9, <2>1, <2>2
<1>11. keep \in Int /\ 0 <= keep
  BY <1>8, <1>10
<1> QED
  BY <1>10, <1>11

-----------------------------------------------------------------------------
(* The end of a sequence.                                                  *)

Least(a, b) == IF a <= b THEN a ELSE b

LEMMA LeastFacts ==
  ASSUME NEW a \in Nat, NEW b \in Nat
  PROVE  /\ Least(a, b) \in Nat /\ a - Least(a, b) + 1 \in 1..(a + 1)
         /\ (IF a > b THEN a - b ELSE 0) + 1 = a - Least(a, b) + 1
BY DEF Least

LEMMA LastOfFacts ==
  ASSUME NEW s \in Seq(Byte), NEW n \in Nat
  PROVE  /\ LastOf(s, n) \in Seq(Byte)
         /\ Len(LastOf(s, n)) = Least(Len(s), n)
         /\ \A k \in 1..Least(Len(s), n) :
              LastOf(s, n)[k] = s[Len(s) - Least(Len(s), n) + k]
<1> DEFINE m == Len(s) - Least(Len(s), n) + 1
<1>0. Len(s) \in Nat
  BY LenProperties
<1>1. Len(s) \in Nat /\ Least(Len(s), n) \in Nat /\ m \in 1..(Len(s) + 1)
  BY <1>0, LeastFacts
<1>2. LastOf(s, n) = SubSeq(s, m, Len(s))
  <2>1. (IF Len(s) > n THEN Len(s) - n ELSE 0) + 1 = m
    BY <1>0, LeastFacts
  <2> HIDE DEF m
  <2> QED
    BY <2>1, Zenon DEF LastOf
<1>3. \A i \in m..Len(s) : s[i] \in Byte
  BY <1>1, ElementOfSeq
<1>4. /\ SubSeq(s, m, Len(s)) \in Seq(Byte)
      /\ Len(SubSeq(s, m, Len(s))) = IF m <= Len(s) THEN Len(s) - m + 1 ELSE 0
      /\ \A i \in 1..(Len(s) - m + 1) : SubSeq(s, m, Len(s))[i] = s[m + i - 1]
  <2> HIDE DEF m
  <2> QED
    BY <1>1, <1>3, SubSeqProperties
<1>5. Len(s) - m + 1 = Least(Len(s), n)
  BY <1>1
<1>6. \A k \in 1..Least(Len(s), n) : m + k - 1 = Len(s) - Least(Len(s), n) + k
  BY <1>1
<1> HIDE DEF m
<1> QED
  BY <1>1, <1>2, <1>4, <1>5, <1>6

\* The end of s, given by its length and its elements.
LEMMA IsLastOf ==
  ASSUME NEW s \in Seq(Byte), NEW n \in Nat, NEW t \in Seq(Byte),
         Len(t) = Least(Len(s), n),
         \A k \in 1..Len(t) : t[k] = s[Len(s) - Len(t) + k]
  PROVE  t = LastOf(s, n)
<1>1. LastOf(s, n) \in Seq(Byte) /\ Len(LastOf(s, n)) = Len(t)
  BY LastOfFacts
<1>2. \A k \in 1..Len(t) : LastOf(s, n)[k] = t[k]
  <2>1. \A k \in 1..Least(Len(s), n) :
          LastOf(s, n)[k] = s[Len(s) - Least(Len(s), n) + k]
    BY LastOfFacts
  <2> QED
    BY <2>1, Zenon
<1> QED
  BY <1>1, <1>2, SeqEqual

\* Cutting off the beginning before p is appended loses nothing that is wanted.
LEMMA LastOfConcat ==
  ASSUME NEW s \in Seq(Byte), NEW p \in Seq(Byte), NEW m \in Nat, NEW n \in Nat,
         n <= m + Len(p)
  PROVE  LastOf(LastOf(s, m) \o p, n) = LastOf(s \o p, n)
<1> DEFINE a == LastOf(s, m)
           t == LastOf(a \o p, n)
           M == Least(Len(s), m)
           L == Least(Len(s) + Len(p), n)
<1>1. Len(s) \in Nat /\ Len(p) \in Nat
  BY LenProperties
<1>2. a \in Seq(Byte) /\ Len(a) = M /\ \A k \in 1..M : a[k] = s[Len(s) - M + k]
  BY LastOfFacts
<1> HIDE DEF a
<1>3. a \o p \in Seq(Byte) /\ Len(a \o p) = M + Len(p)
  BY <1>2, ConcatProperties
<1>4. \A i \in 1..(M + Len(p)) : (a \o p)[i] = IF i <= M THEN a[i] ELSE p[i - M]
  BY <1>2, ConcatProperties
<1>5. /\ s \o p \in Seq(Byte) /\ Len(s \o p) = Len(s) + Len(p)
      /\ \A i \in 1..(Len(s) + Len(p)) :
           (s \o p)[i] = IF i <= Len(s) THEN s[i] ELSE p[i - Len(s)]
  BY ConcatProperties
<1>6. M \in Nat /\ M <= Len(s) /\ L \in Nat /\ L <= M + Len(p)
      /\ Least(M + Len(p), n) = L
  BY <1>1 DEF Least
<1> HIDE DEF M
<1>7. t \in Seq(Byte) /\ Len(t) = L /\ \A k \in 1..L : t[k] = (a \o p)[M + Len(p) - L + k]
  <2> DEFINE u == a \o p
  <2>1. u \in Seq(Byte) /\ Len(u) = M + Len(p)
    BY <1>3
  <2> HIDE DEF u, L
  <2>2. /\ LastOf(u, n) \in Seq(Byte) /\ Len(LastOf(u, n)) = Least(Len(u), n)
        /\ \A k \in 1..Least(Len(u), n) :
             LastOf(u, n)[k] = u[Len(u) - Least(Len(u), n) + k]
    BY <2>1, LastOfFacts
  <2>3. Least(Len(u), n) = L
    BY <1>6, <2>1
  <2>4. ASSUME NEW k \in 1..L PROVE LastOf(u, n)[k] = u[M + Len(p) - L + k]
    <3>1. LastOf(u, n)[k] = u[Len(u) - Least(Len(u), n) + k]
      BY <2>2, <2>3
    <3>2. Len(u) - Least(Len(u), n) + k = M + Len(p) - L + k
      BY <1>1, <1>6, <2>1, <2>3
    <3> QED
      BY <3>1, <3>2, Zenon
  <2>5. LastOf(u, n) \in Seq(Byte) /\ Len(LastOf(u, n)) = L
    BY <2>2, <2>3, Zenon
  <2> QED
    BY <2>4, <2>5, Zenon DEF u
<1> HIDE DEF t, L
<1>8. ASSUME NEW k \in 1..L PROVE t[k] = (s \o p)[Len(s) + Len(p) - L + k]
  <2> DEFINE j == M + Len(p) - L + k
             i == Len(s) + Len(p) - L + k
  <2>1. /\ j \in 1..(M + Len(p)) /\ i \in 1..(Len(s) + Len(p))
        /\ i - Len(s) = j - M /\ (i <= Len(s) <=> j <= M) /\ i = Len(s) - M + j
    BY <1>1, <1>6
  <2>2. t[k] = (a \o p)[j]
    BY <1>7
  <2> HIDE DEF j
  <2>3. (s \o p)[i] = IF j <= M THEN s[i] ELSE p[j - M]
    <3> HIDE DEF i
    <3> QED
      BY <1>5, <2>1
  <2>4. (a \o p)[j] = IF j <= M THEN s[Len(s) - M + j] ELSE p[j - M]
    BY <1>2, <1>4, <1>6, <2>1
  <2> QED
    BY <2>1, <2>2, <2>3, <2>4
<1>9. t = LastOf(s \o p, n)
  <2> DEFINE v == s \o p
  <2>1. v \in Seq(Byte) /\ Len(v) = Len(s) + Len(p) /\ Len(t) = Least(Len(v), n)
    BY <1>5, <1>7 DEF L
  <2>2. \A k \in 1..Len(t) : t[k] = v[Len(v) - Len(t) + k]
    <3>1. Len(t) = L /\ Len(v) = Len(s) + Len(p)
      BY <1>5, <1>7
    <3> SUFFICES ASSUME NEW k \in 1..L PROVE t[k] = v[Len(v) - Len(t) + k]
      BY <3>1
    <3>2. t[k] = v[Len(s) + Len(p) - L + k]
      BY <1>8
    <3>3. Len(s) + Len(p) - L + k = Len(v) - Len(t) + k
      BY <3>1
    <3> QED
      BY <3>2, <3>3, Zenon
  <2> HIDE DEF v
  <2>3. t = LastOf(v, n)
    BY <1>7, <2>1, <2>2, IsLastOf
  <2> QED
    BY <2>3 DEF v
<1> QED
  BY <1>9 DEF t, a

LEMMA LastOfAll ==
  ASSUME NEW s \in Seq(Byte), NEW n \in Nat, Len(s) <= n
  PROVE  LastOf(s, n) = s
<1>1. (IF Len(s) > n THEN Len(s) - n ELSE 0) + 1 = 1
  BY LenProperties
<1>2. LastOf(s, n) = SubSeq(s, 1, Len(s))
  BY <1>1, Zenon DEF LastOf
<1> QED
  BY <1>2, SubSeqFull

-----------------------------------------------------------------------------
(* The search.                                                             *)

\* p stands in s behind the first o bytes.
At(s, p, o) == \A k \in 1..Len(p) : s[o + k] = p[k]

LEMMA ContainsAt ==
  ASSUME NEW s \in Seq(Byte), NEW p \in Seq(Byte)
  PROVE  Contains(s, p) <=> \E o \in 0..(Len(s) - Len(p)) : At(s, p, o)
<1> SUFFICES ASSUME NEW o \in 0..(Len(s) - Len(p))
             PROVE  SubSeq(s, o + 1, o + Len(p)) = p <=> At(s, p, o)
  BY DEF Contains
<1> DEFINE t == SubSeq(s, o + 1, o + Len(p))
<1>1. Len(s) \in Nat /\ Len(p) \in Nat
  BY LenProperties
<1>2. \A i \in (o + 1)..(o + Len(p)) : s[i] \in Byte
  BY <1>1, ElementOfSeq
<1>3. /\ t \in Seq(Byte) /\ Len(t) = Len(p)
      /\ \A i \in 1..Len(p) : t[i] = s[o + i]
  <2>1. /\ t \in Seq(Byte)
        /\ Len(t) = IF o + 1 <= o + Len(p) THEN o + Len(p) - (o + 1) + 1 ELSE 0
        /\ \A i \in 1..(o + Len(p) - (o + 1) + 1) : t[i] = s[o + 1 + i - 1]
    BY <1>1, <1>2, SubSeqProperties
  <2>2. o + Len(p) - (o + 1) + 1 = Len(p)
    BY <1>1
  <2>3. \A i \in 1..Len(p) : o + 1 + i - 1 = o + i
    BY <1>1
  <2> HIDE DEF t
  <2> QED
    BY <1>1, <2>1, <2>2, <2>3
<1> HIDE DEF t
<1>4. t = p => At(s, p, o)
  BY <1>3 DEF At
<1>5. At(s, p, o) => t = p
  BY <1>3, SeqEqual DEF At
<1> QED
  BY <1>4, <1>5 DEF t

\* scan looks at carry and the new bytes only, and yet sees every occurrence in
\* the stream that was not there before: one that reaches into the new bytes
\* began among the last Len(q) - 1 of the old.
LEMMA SearchInPieces ==
  ASSUME NEW s \in Seq(Byte), NEW p \in Seq(Byte), NEW q \in Seq(Byte), NEW m \in Nat,
         Len(q) > 0, Len(q) - 1 <= m
  PROVE  Contains(s \o p, q) <=> Contains(s, q) \/ Contains(LastOf(s, m) \o p, q)
<1> DEFINE c == LastOf(s, m)
           d == Len(s) - Len(c)
<1>1. Len(s) \in Nat /\ Len(p) \in Nat /\ Len(q) \in Nat
  BY LenProperties
<1>2. c \in Seq(Byte) /\ Len(c) = Least(Len(s), m) /\ \A k \in 1..Len(c) : c[k] = s[d + k]
  <2>1. /\ c \in Seq(Byte) /\ Len(c) = Least(Len(s), m)
        /\ \A k \in 1..Least(Len(s), m) : c[k] = s[Len(s) - Least(Len(s), m) + k]
    BY LastOfFacts
  <2> HIDE DEF c
  <2> QED
    BY <2>1
<1>3. /\ s \o p \in Seq(Byte) /\ Len(s \o p) = Len(s) + Len(p)
      /\ \A i \in 1..(Len(s) + Len(p)) :
           (s \o p)[i] = IF i <= Len(s) THEN s[i] ELSE p[i - Len(s)]
  BY ConcatProperties
<1>4. /\ c \o p \in Seq(Byte) /\ Len(c \o p) = Len(c) + Len(p)
      /\ \A i \in 1..(Len(c) + Len(p)) :
           (c \o p)[i] = IF i <= Len(c) THEN c[i] ELSE p[i - Len(c)]
  BY <1>2, ConcatProperties
<1>5. Len(c) \in Nat /\ d \in Nat /\ (d = 0 \/ Len(c) = m)
  BY <1>1, <1>2 DEF Least
<1> HIDE DEF c, d
<1>6. Len(s) = d + Len(c)
  BY <1>1, <1>5 DEF d
<1>7. \A i \in 1..(Len(c) + Len(p)) : (c \o p)[i] = (s \o p)[d + i]
  <2> SUFFICES ASSUME NEW i \in 1..(Len(c) + Len(p))
               PROVE  (c \o p)[i] = (s \o p)[d + i]
    OBVIOUS
  <2>1. /\ d + i \in 1..(Len(s) + Len(p)) /\ (d + i <= Len(s) <=> i <= Len(c))
        /\ d + i - Len(s) = i - Len(c)
    BY <1>1, <1>5, <1>6
  <2>2. i <= Len(c) => c[i] = s[d + i]
    BY <1>2, <1>5
  <2>3. (c \o p)[i] = IF i <= Len(c) THEN c[i] ELSE p[i - Len(c)]
    BY <1>4
  <2>4. PICK j \in 1..(Len(s) + Len(p)) : j = d + i
    BY <2>1
  <2>5. (s \o p)[j] = IF j <= Len(s) THEN s[j] ELSE p[j - Len(s)]
    BY <1>3
  <2>6. CASE i <= Len(c)
    BY <2>1, <2>2, <2>3, <2>4, <2>5, <2>6
  <2>7. CASE ~(i <= Len(c))
    <3>1. ~(j <= Len(s)) /\ j - Len(s) = i - Len(c)
      BY <1>1, <1>5, <2>1, <2>4, <2>7
    <3>2. (s \o p)[j] = p[j - Len(s)]
      BY <2>5, <3>1, Zenon
    <3> QED
      BY <2>3, <2>4, <2>7, <3>1, <3>2
  <2> QED
    BY <2>6, <2>7
<1>8. Contains(s, q) => Contains(s \o p, q)
  <2>1. ASSUME NEW o \in 0..(Len(s) - Len(q)), At(s, q, o)
        PROVE  o \in 0..(Len(s \o p) - Len(q)) /\ At(s \o p, q, o)
    BY <1>1, <1>3, <2>1 DEF At
  <2> QED
    BY <1>3, <2>1, ContainsAt
<1>9. Contains(c \o p, q) => Contains(s \o p, q)
  <2>1. ASSUME NEW o \in 0..(Len(c \o p) - Len(q)), At(c \o p, q, o)
        PROVE  d + o \in 0..(Len(s \o p) - Len(q)) /\ At(s \o p, q, d + o)
    <3>1. d + o \in 0..(Len(s \o p) - Len(q))
      BY <1>1, <1>3, <1>4, <1>5, <1>6
    <3>2. ASSUME NEW k \in 1..Len(q) PROVE (s \o p)[d + o + k] = q[k]
      <4>1. o + k \in 1..(Len(c) + Len(p)) /\ d + (o + k) = d + o + k
        BY <1>1, <1>4, <1>5
      <4>2. (c \o p)[o + k] = q[k]
        BY <2>1 DEF At
      <4> QED
        BY <1>7, <4>1, <4>2
    <3> QED
      BY <3>1, <3>2 DEF At
  <2> QED
    BY <1>3, <1>4, <2>1, ContainsAt
<1>10. ASSUME NEW o \in 0..(Len(s \o p) - Len(q)), At(s \o p, q, o)
       PROVE  Contains(s, q) \/ Contains(c \o p, q)
  <2>1. CASE o + Len(q) <= Len(s)
    <3>1. o \in 0..(Len(s) - Len(q))
      BY <1>1, <2>1
    <3>2. At(s, q, o)
      BY <1>1, <1>3, <1>10, <2>1 DEF At
    <3> QED
      BY <3>1, <3>2, ContainsAt
  <2>2. CASE o + Len(q) > Len(s)
    <3>1. o - d \in 0..(Len(c \o p) - Len(q))
      BY <1>1, <1>3, <1>4, <1>5, <1>6, <2>2
    <3>2. ASSUME NEW k \in 1..Len(q) PROVE (c \o p)[o - d + k] = q[k]
      <4>1. o - d + k \in 1..(Len(c) + Len(p)) /\ d + (o - d + k) = o + k
        BY <1>1, <1>4, <1>5, <3>1
      <4>2. (s \o p)[o + k] = q[k]
        BY <1>10 DEF At
      <4> QED
        BY <1>7, <4>1, <4>2
    <3>3. At(c \o p, q, o - d)
      BY <3>2 DEF At
    <3> QED
      BY <1>4, <3>1, <3>3, ContainsAt
  <2> QED
    BY <1>1, <2>1, <2>2
<1>11. Contains(s \o p, q) => Contains(s, q) \/ Contains(c \o p, q)
  BY <1>3, <1>10, ContainsAt
<1> QED
  BY <1>8, <1>9, <1>11 DEF c

-----------------------------------------------------------------------------
(* Write.                                                                  *)

LEMMA HalfFacts == half \in Nat /\ 2 * half <= Limit /\ Limit <= 2 * half + 1
BY OutputBufferAssumption DEF OutputBufferAssumption, half

LEMMA ChunksAreSeqs == Chunks \subseteq Seq(Byte)
BY OutputBufferAssumption, SeqDef DEF OutputBufferAssumption, Chunks

\* scan keeps found exact, and carry the end of the stream.
LEMMA ScanStep ==
  ASSUME IInv, NEW p \in Seq(Byte), Scan(p), stream' = stream \o p
  PROVE  /\ found' \in [DOMAIN Pats -> BOOLEAN]
         /\ Pats # <<>> => carry' = LastOf(stream', keep)
         /\ FoundIsExact'
<1>1. stream \in Seq(Byte) /\ found \in [DOMAIN Pats -> BOOLEAN]
  BY DEF IInv, TypeOK
<1>2. keep \in Nat /\ \A i \in DOMAIN Pats : Len(Pats[i]) - 1 <= keep
  BY KeepCovers
<1>3. CASE p = <<>>
  <2>1. UNCHANGED <<found, carry>> /\ stream' = stream
    BY <1>1, <1>3, ConcatEmptySeq DEF Scan
  <2> QED
    BY <2>1 DEF IInv, TypeOK, FoundIsExact
<1>4. CASE Pats = <<>>
  <2>1. UNCHANGED <<found, carry>> /\ DOMAIN Pats = {}
    BY <1>4 DEF Scan
  <2> QED
    BY <1>1, <1>4, <2>1 DEF FoundIsExact
<1>5. CASE Pats # <<>> /\ p # <<>>
  <2> DEFINE buf == carry \o p
  <2>1. /\ found' = [i \in DOMAIN Pats |-> found[i] \/ Contains(buf, Pats[i])]
        /\ carry' = LastOf(buf, keep)
    BY <1>5, Zenon DEF Scan
  <2>2. carry = LastOf(stream, keep)
    BY <1>5 DEF IInv, TypeOK
  <2>3. carry' = LastOf(stream', keep)
    <3>1. keep <= keep + Len(p)
      BY <1>2, LenProperties
    <3> QED
      BY <1>1, <1>2, <2>1, <2>2, <3>1, LastOfConcat
  <2>4. found' \in [DOMAIN Pats -> BOOLEAN]
    BY <1>1, <2>1, Zenon
  <2>5. ASSUME NEW i \in DOMAIN Pats, Len(Pats[i]) > 0
        PROVE  found'[i] <=> Contains(stream', Pats[i])
    <3>1. Pats[i] \in Seq(Byte)
      BY OutputBufferAssumption, ElementOfSeq DEF OutputBufferAssumption
    <3>2. found[i] <=> Contains(stream, Pats[i])
      BY <2>5 DEF IInv, FoundIsExact
    <3>3. Contains(stream \o p, Pats[i])
            <=> Contains(stream, Pats[i]) \/ Contains(buf, Pats[i])
      BY <1>1, <1>2, <2>2, <2>5, <3>1, SearchInPieces
    <3>4. found'[i] <=> found[i] \/ Contains(buf, Pats[i])
      BY <2>1, Zenon
    <3> QED
      BY <3>2, <3>3, <3>4, Zenon
  <2> QED
    BY <2>3, <2>4, <2>5, Zenon DEF FoundIsExact
<1> QED
  BY <1>3, <1>4, <1>5

LEMMA LastOfLastOf ==
  ASSUME NEW s \in Seq(Byte), NEW m \in Nat, NEW n \in Nat, n <= m
  PROVE  LastOf(LastOf(s, m), n) = LastOf(s, n)
<1>1. PICK e \in Seq(Byte) : e = <<>> /\ Len(e) = 0
  <2>1. <<>> \in Seq(Byte) /\ Len(<<>>) = 0
    OBVIOUS
  <2> QED
    BY <2>1, Zenon
<1>2. LastOf(LastOf(s, m) \o e, n) = LastOf(s \o e, n)
  <2>1. n <= m + Len(e)
    BY <1>1
  <2> QED
    BY <2>1, LastOfConcat
<1>3. LastOf(s, m) \in Seq(Byte)
  BY LastOfFacts
<1> QED
  BY <1>1, <1>2, <1>3, ConcatEmptySeq

\* The trim at the end of Write leaves at least limit/2 bytes of the end.
LEMMA TrimKeeps ==
  ASSUME NEW s \in Seq(Byte), NEW n \in Nat, half <= n, n <= Len(s)
  PROVE  LET t == Trim(LastOf(s, n))
         IN t \in Seq(Byte) /\ Len(t) \in half..(2 * half) /\ t = LastOf(s, Len(t))
<1>1. Len(s) \in Nat /\ half \in Nat
  BY LenProperties, HalfFacts
<1>2. LastOf(s, n) \in Seq(Byte) /\ Len(LastOf(s, n)) = n
  BY <1>1, LastOfFacts DEF Least
<1>3. CASE n > 2 * half
  <2>1. Trim(LastOf(s, n)) = LastOf(s, half)
    BY <1>1, <1>2, <1>3, LastOfLastOf DEF Trim
  <2>2. LastOf(s, half) \in Seq(Byte) /\ Len(LastOf(s, half)) = half
    BY <1>1, LastOfFacts DEF Least
  <2>3. half \in half..(2 * half)
    BY <1>1
  <2> QED
    BY <2>1, <2>2, <2>3
<1>4. CASE ~(n > 2 * half)
  <2>1. Trim(LastOf(s, n)) = LastOf(s, n)
    BY <1>2, <1>4 DEF Trim
  <2>2. n \in half..(2 * half)
    BY <1>1, <1>4
  <2> QED
    BY <1>2, <2>1, <2>2
<1> QED
  BY <1>3, <1>4

\* The bytes that go into head and tail are the two ends of the stream.
LEMMA RetainStep ==
  ASSUME IInv, NEW p \in Seq(Byte), Retain(p), stream' = stream \o p
  PROVE  /\ head' \in Seq(Byte) /\ tail' \in Seq(Byte) /\ truncated' \in BOOLEAN
         /\ Kept' /\ 2 * (Len(head') + Len(tail')) <= 3 * Limit
<1> DEFINE all == stream \o p
<1>1. stream \in Seq(Byte) /\ head \in Seq(Byte) /\ tail \in Seq(Byte)
  BY DEF IInv, TypeOK
<1>2. Len(stream) \in Nat /\ Len(p) \in Nat /\ Len(head) \in Nat /\ Len(tail) \in Nat
  BY <1>1, LenProperties
<1>3. all \in Seq(Byte) /\ Len(all) = Len(stream) + Len(p)
  BY <1>1, ConcatProperties
<1>4. half \in Nat /\ 2 * half <= Limit /\ Limit <= 2 * half + 1 /\ Limit \in Nat
  BY HalfFacts, OutputBufferAssumption DEF OutputBufferAssumption
<1>5. CASE /\ ~truncated /\ Fits(p) /\ head' = head \o p /\ tail' = Trim(tail)
           /\ UNCHANGED truncated
  <2>1. head = stream /\ tail = <<>>
    BY <1>5 DEF IInv, Kept
  <2>2. tail' = <<>>
    <3>1. Len(<<>>) = 0
      OBVIOUS
    <3>2. ~(Len(tail) > 2 * half)
      BY <1>4, <2>1, <3>1
    <3> QED
      BY <1>5, <2>1, <3>2 DEF Trim
  <2>3. head' = all /\ Len(all) <= Limit
    BY <1>2, <1>3, <1>5, <2>1 DEF Fits
  <2>4. Kept'
    BY <1>5, <2>2, <2>3 DEF Kept
  <2>5. 2 * (Len(head') + Len(tail')) <= 3 * Limit
    <3>1. Len(tail') = 0
      BY <2>2
    <3>2. Len(head') \in Nat /\ Len(head') <= Limit
      BY <1>3, <2>3, LenProperties
    <3> QED
      BY <1>4, <3>1, <3>2
  <2>6. head' \in Seq(Byte) /\ tail' \in Seq(Byte)
    BY <1>3, <2>2, <2>3
  <2>7. truncated' \in BOOLEAN
    BY <1>5, Zenon DEF IInv, TypeOK
  <2> QED
    BY <2>4, <2>5, <2>6, <2>7
<1>6. ASSUME NEW n \in Nat, half <= n, n <= Len(all), Len(all) > Limit, truncated' = TRUE,
             tail' = Trim(LastOf(all, n)), head' = SubSeq(all, 1, half)
      PROVE  /\ head' \in Seq(Byte) /\ tail' \in Seq(Byte) /\ truncated' \in BOOLEAN
             /\ Kept' /\ 2 * (Len(head') + Len(tail')) <= 3 * Limit
  <2> HIDE DEF all
  <2>1. /\ tail' \in Seq(Byte)
        /\ Len(tail') \in half..(2 * half)
        /\ tail' = LastOf(all, Len(tail'))
    BY <1>3, <1>6, TrimKeeps
  <2>2. \A i \in 1..half : all[i] \in Byte
    BY <1>2, <1>3, <1>4, <1>6, ElementOfSeq
  <2>3. head' \in Seq(Byte) /\ Len(head') = half
    BY <1>4, <1>6, <2>2, SubSeqProperties
  <2>4. 2 * (Len(head') + Len(tail')) <= 3 * Limit
    BY <1>4, <2>1, <2>3
  <2>5. stream' = all
    BY DEF all
  <2>6. Kept'
    BY <1>6, <2>1, <2>5 DEF Kept
  <2>7. truncated' \in BOOLEAN
    BY <1>6, Zenon
  <2> QED
    BY <2>1, <2>3, <2>4, <2>6, <2>7
<1>7. CASE /\ ~truncated /\ ~Fits(p) /\ truncated' = TRUE
           /\ head' = SubSeq(head \o p, 1, half)
           /\ tail' = Trim(SubSeq(head \o p, half + 1, Len(head \o p)))
  <2>1. head = stream
    BY <1>7 DEF IInv, Kept
  <2>2. Len(all) > Limit
    BY <1>2, <1>3, <1>4, <1>7, <2>1 DEF Fits
  <2> HIDE DEF all
  <2> DEFINE n == Len(all) - half
  <2>3. n \in Nat /\ half <= n /\ n <= Len(all)
    BY <1>2, <1>3, <1>4, <2>2
  <2>4. (IF Len(all) > n THEN Len(all) - n ELSE 0) + 1 = half + 1
    BY <1>2, <1>3, <1>4
  <2>5. LastOf(all, n) = SubSeq(all, half + 1, Len(all))
    BY <2>4, Zenon DEF LastOf
  <2>6. head' = SubSeq(all, 1, half) /\ tail' = Trim(LastOf(all, n))
    BY <1>7, <2>1, <2>5 DEF all
  <2> HIDE DEF n
  <2> QED
    BY <1>6, <1>7, <2>2, <2>3, <2>6
<1>8. CASE truncated /\ tail' = Trim(tail \o p) /\ UNCHANGED <<head, truncated>>
  <2> DEFINE n == Len(tail) + Len(p)
  <2>1. /\ Len(stream) > Limit /\ head = SubSeq(stream, 1, half)
        /\ Len(tail) \in half..(2 * half) /\ tail = LastOf(stream, Len(tail))
    BY <1>8 DEF IInv, Kept
  <2>2. Len(tail) <= Len(stream)
    <3>1. Len(tail) = Least(Len(stream), Len(tail))
      BY <1>1, <1>2, <2>1, LastOfFacts
    <3> QED
      BY <1>2, <3>1 DEF Least
  <2>3. tail \o p \in Seq(Byte) /\ Len(tail \o p) = n
    BY <1>1, ConcatProperties
  <2>4. n \in Nat /\ half <= n /\ n <= Len(all) /\ Len(all) > Limit
    BY <1>2, <1>3, <1>4, <2>1, <2>2
  <2>5. tail \o p = LastOf(all, n)
    <3>1. LastOf(LastOf(stream, Len(tail)) \o p, n) = LastOf(all, n)
      BY <1>1, <1>2, <2>4, LastOfConcat
    <3>2. LastOf(tail \o p, n) = tail \o p
      <4>1. PICK x \in Seq(Byte) : x = tail \o p /\ Len(x) = n
        BY <2>3
      <4> HIDE DEF n
      <4>2. Len(x) <= n
        BY <2>4, <4>1
      <4>3. LastOf(x, n) = x
        BY <2>4, <4>2, LastOfAll
      <4> QED
        BY <4>1, <4>3
    <3> QED
      BY <2>1, <3>1, <3>2
  <2>6. SubSeq(all, 1, half) = SubSeq(stream, 1, half)
    <3>1. CASE half = 0
      BY <3>1, SubSeqEmpty
    <3>2. CASE half # 0
      <4>1. 1 \in 1..Len(stream) /\ half \in 1..Len(stream)
        BY <1>2, <1>4, <2>1, <3>2
      <4> QED
        BY <1>1, <4>1, SubSeqOfConcat1
    <3> QED
      BY <3>1, <3>2
  <2>7. head' = SubSeq(all, 1, half) /\ tail' = Trim(LastOf(all, n))
    BY <1>8, <2>1, <2>5, <2>6
  <2>8. truncated' = TRUE
    BY <1>8 DEF IInv, TypeOK
  <2> HIDE DEF n, all
  <2> QED
    BY <1>6, <2>4, <2>7, <2>8
<1> QED
  BY <1>5, <1>7, <1>8 DEF Retain

-----------------------------------------------------------------------------
(* The specification.                                                      *)

LEMMA InitIInv == Init => IInv
<1> SUFFICES ASSUME Init PROVE IInv
  OBVIOUS
<1>1. stream = <<>> /\ head = <<>> /\ tail = <<>> /\ carry = <<>> /\ total = 0
  BY DEF Init
<1>2. <<>> \in Seq(Byte) /\ Len(<<>>) = 0
  OBVIOUS
<1>3. keep \in Nat /\ Limit \in Nat
  BY KeepCovers, OutputBufferAssumption DEF OutputBufferAssumption
<1>4. LastOf(stream, keep) = stream
  <2>1. stream \in Seq(Byte) /\ Len(stream) <= keep
    BY <1>1, <1>2, <1>3
  <2> QED
    BY <1>3, <2>1, LastOfAll
<1>5. truncated \in BOOLEAN /\ found \in [DOMAIN Pats -> BOOLEAN] /\ ~truncated
  BY Zenon DEF Init
<1>6. TypeOK
  BY <1>1, <1>2, <1>3, <1>4, <1>5 DEF TypeOK
<1>7. Kept
  BY <1>1, <1>2, <1>3, <1>5 DEF Kept
<1>8. FoundIsExact
  <2> SUFFICES ASSUME NEW i \in DOMAIN Pats, Len(Pats[i]) > 0
               PROVE  ~found[i] /\ ~Contains(stream, Pats[i])
    BY DEF FoundIsExact
  <2>1. ~found[i]
    BY Zenon DEF Init
  <2>2. Pats[i] \in Seq(Byte)
    BY OutputBufferAssumption, ElementOfSeq DEF OutputBufferAssumption
  <2>3. 0..(Len(stream) - Len(Pats[i])) = {}
    BY <1>1, <1>2, <2>2, LenProperties
  <2> QED
    BY <2>1, <2>3 DEF Contains
<1> QED
  BY <1>6, <1>7, <1>8 DEF IInv

LEMMA NextIInv == IInv /\ [Next]_vars => IInv'
<1> SUFFICES ASSUME IInv, [Next]_vars PROVE IInv'
  OBVIOUS
<1>1. ASSUME NEW p \in Chunks, Write(p) PROVE IInv'
  <2>1. p \in Seq(Byte) /\ stream \in Seq(Byte) /\ total = Len(stream)
    BY ChunksAreSeqs DEF IInv, TypeOK
  <2>2. Scan(p) /\ Retain(p) /\ stream' = stream \o p /\ total' = total + Len(p)
    BY <1>1 DEF Write
  <2>3. stream' \in Seq(Byte) /\ total' = Len(stream')
    BY <2>1, <2>2, ConcatProperties
  <2>4. /\ found' \in [DOMAIN Pats -> BOOLEAN]
        /\ Pats # <<>> => carry' = LastOf(stream', keep)
        /\ FoundIsExact'
    BY <2>1, <2>2, ScanStep
  <2>5. /\ head' \in Seq(Byte) /\ tail' \in Seq(Byte) /\ truncated' \in BOOLEAN
        /\ Kept' /\ 2 * (Len(head') + Len(tail')) <= 3 * Limit
    BY <2>1, <2>2, RetainStep
  <2>6. TypeOK'
    BY <2>3, <2>4, <2>5 DEF TypeOK
  <2> QED
    BY <2>4, <2>5, <2>6 DEF IInv
<1>2. CASE UNCHANGED vars
  BY <1>2 DEF vars, IInv, TypeOK, Kept, FoundIsExact
<1> QED
  BY <1>1, <1>2 DEF Next

THEOREM Invariance == Spec => []IInv
BY InitIInv, NextIInv, PTL DEF Spec

\* The fields of Buffer keep their types, carry is the end of the stream, and
\* "memory <= ~1.5x limit" holds whatever the sizes of the writes.
THEOREM TypeCorrect == Spec => []TypeOK
<1>1. IInv => TypeOK
  BY DEF IInv
<1> QED
  BY <1>1, Invariance, PTL

\* A pattern is found exactly if it occurs in the stream, however the stream was
\* cut into writes and whatever has been dropped of it (NewBuffer, scan).
THEOREM SearchIsExact == Spec => []FoundIsExact
<1>1. IInv => FoundIsExact
  BY DEF IInv
<1> QED
  BY <1>1, Invariance, PTL

\* String shows everything up to the limit, and beyond it the first and the last
\* limit/2 bytes and the right number of bytes left out (Write, String).
THEOREM BothEndsKept == Spec => []KeepsBothEnds
<1>1. IInv => KeepsBothEnds
  <2> SUFFICES ASSUME IInv PROVE KeepsBothEnds
    OBVIOUS
  <2>1. /\ stream \in Seq(Byte) /\ tail \in Seq(Byte) /\ total = Len(stream)
        /\ truncated \in BOOLEAN
    BY DEF IInv, TypeOK
  <2>2. Len(stream) \in Nat /\ Len(tail) \in Nat
    BY <2>1, LenProperties
  <2>3. half \in Nat /\ 2 * half <= Limit /\ Limit \in Nat
    BY HalfFacts, OutputBufferAssumption DEF OutputBufferAssumption
  <2>4. CASE ~truncated
    <3>1. head = stream /\ Len(stream) <= Limit
      BY <2>4 DEF IInv, Kept
    <3>2. Shown.head = head
      BY <2>4 DEF Shown
    <3> QED
      BY <2>2, <2>3, <2>4, <3>1, <3>2 DEF KeepsBothEnds
  <2>5. CASE truncated
    <3> DEFINE t == LastOf(tail, half)
    <3>1. /\ Len(stream) > Limit /\ head = SubSeq(stream, 1, half)
          /\ Len(tail) \in half..(2 * half) /\ tail = LastOf(stream, Len(tail))
      BY <2>5 DEF IInv, Kept
    <3>2. t = LastOf(stream, half)
      BY <2>1, <2>2, <2>3, <3>1, LastOfLastOf
    <3>3. Len(t) = half
      <4>1. Len(t) = Least(Len(tail), half)
        BY <2>1, <2>3, LastOfFacts
      <4> QED
        BY <2>2, <2>3, <3>1, <4>1 DEF Least
    <3>4. Len(head) = half
      <4>1. \A i \in 1..half : stream[i] \in Byte
        BY <2>1, <2>2, <2>3, <3>1, ElementOfSeq
      <4> QED
        BY <2>3, <3>1, <4>1, SubSeqProperties
    <3> HIDE DEF t
    <3>5. Shown = [head |-> head, dropped |-> total - Len(head) - Len(t), tail |-> t]
      BY <2>5 DEF Shown, t
    <3>6. Shown.dropped = Len(stream) - 2 * half /\ Len(stream) - 2 * half > 0
      BY <2>1, <2>2, <2>3, <3>1, <3>3, <3>4, <3>5
    <3>7. Shown.head = SubSeq(stream, 1, half) /\ Shown.tail = LastOf(stream, half)
      BY <3>1, <3>2, <3>5
    <3> QED
      BY <2>5, <3>1, <3>6, <3>7 DEF KeepsBothEnds
  <2> QED
    BY <2>4, <2>5
<1> QED
  BY <1>1, Invariance, PTL

=============================================================================
