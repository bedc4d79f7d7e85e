--------------------------- MODULE FrameCodecProofs ---------------------------
(***************************************************************************)
(* For every base, length of the prefix and limit that fits it, any messages  *)
(* and any way to cut the stream: FrameDecoder puts together what was framed. *)
(* IInv is inductive.  Its steps rest on what Decode makes of a buffer with    *)
(* any number of messages in it, an induction that is set up here first:       *)
(* WFMin of the library says that a set of numbers has a least element.        *)
(***************************************************************************)
EXTENDS FrameCodec, WellFoundedInduction, TLAPS

USE BytesAssumption

-----------------------------------------------------------------------------
(* Induction, and functions defined by recursion.                             *)

LEMMA LeastElement ==
    ASSUME NEW T \in SUBSET Nat, T # {}
    PROVE  \E n \in T : \A m \in T : n <= m
<1> DEFINE R == OpToRel(<, Nat)
<1>1. IsWellFoundedOn(R, Nat)
  BY NatLessThanWellFounded
<1>2. \A x, y \in Nat : x < y => <<x, y>> \in R
  BY DEF OpToRel
<1> HIDE DEF R
<1>3. PICK n \in T : \A m \in T : ~ (<<m, n>> \in R)
  BY <1>1, WFMin
<1>4. \A m \in T : ~ (m < n)
  BY <1>2, <1>3
<1> QED
  BY <1>4

\* What holds of 0, and of n + 1 if it holds of n, holds of all natural numbers.
LEMMA Induction ==
    ASSUME NEW S, 0 \in S, \A n \in Nat : n \in S => n + 1 \in S
    PROVE  \A n \in Nat : n \in S
<1> DEFINE T == {n \in Nat : n \notin S}
<1> SUFFICES ASSUME T # {}  PROVE FALSE
  OBVIOUS
<1>1. PICK n \in T : \A m \in T : n <= m
  BY LeastElement
<1>2. n - 1 \in Nat /\ n - 1 \in S
  BY <1>1
<1>3. (n - 1) + 1 = n
  BY <1>1
<1> QED
  BY <1>2, <1>3

Recurs(g, S, a, F) ==
    g \in [Nat -> S] /\ g[0] = a /\ \A n \in Nat : g[n + 1] = F[<<n, g[n]>>]

\* A function on the natural numbers can be given by its first value and by how each
\* value leads to the next.
LEMMA Recursion ==
    ASSUME NEW S, NEW a \in S, NEW F \in [Nat \X S -> S]
    PROVE  \E g : Recurs(g, S, a, F)
<1> DEFINE Upto(n, g) == /\ g \in [0..n -> S] /\ g[0] = a
                         /\ \A i \in 0..(n - 1) : g[i + 1] = F[<<i, g[i]>>]
           H == {n \in Nat : \E g : Upto(n, g)}
<1>1. \A n \in Nat : \E g : Upto(n, g)
  <2>1. 0 \in H
    <3>1. Upto(0, [i \in 0..0 |-> a])
      OBVIOUS
    <3> QED
      BY <3>1
  <2>2. ASSUME NEW n \in Nat, n \in H  PROVE n + 1 \in H
    <3>1. PICK g : Upto(n, g)
      BY <2>2
    <3> DEFINE h == [i \in 0..(n + 1) |-> IF i <= n THEN g[i] ELSE F[<<n, g[n]>>]]
    <3>2. g[n] \in S /\ F[<<n, g[n]>>] \in S
      BY <3>1
    <3>3. h \in [0..(n + 1) -> S] /\ h[0] = a
      BY <3>1, <3>2
    <3>4. ASSUME NEW i \in 0..n  PROVE h[i + 1] = F[<<i, h[i]>>]
      <4>1. CASE i < n
        <5>1. i \in 0..(n - 1) /\ h[i + 1] = g[i + 1] /\ h[i] = g[i]
          BY <4>1
        <5> QED
          BY <3>1, <5>1
      <4>2. CASE i = n
        BY <4>2
      <4> QED
        BY <4>1, <4>2
    <3>5. Upto(n + 1, h)
      <4> HIDE DEF h
      <4> QED
        BY <3>3, <3>4
    <3>6. \E k : Upto(n + 1, k)
      <4> HIDE DEF Upto, h
      <4> QED
        BY <3>5
    <3> QED
      BY <3>6
  <2> HIDE DEF H
  <2>3. \A n \in Nat : n \in H
    BY <2>1, <2>2, Induction
  <2> QED
    BY <2>3 DEF H
<1>2. ASSUME NEW m \in Nat, NEW n \in Nat, NEW g, NEW h, Upto(m, g), Upto(n, h), m <= n
      PROVE  \A i \in 0..m : g[i] = h[i]
  <2> DEFINE E == {i \in Nat : i <= m => g[i] = h[i]}
  <2>1. 0 \in E
    BY <1>2
  <2>2. ASSUME NEW i \in Nat, i \in E  PROVE i + 1 \in E
    <3> SUFFICES ASSUME i + 1 <= m  PROVE g[i + 1] = h[i + 1]
      OBVIOUS
    <3>1. g[i] = h[i] /\ i \in 0..(m - 1) /\ i \in 0..(n - 1)
      BY <1>2, <2>2
    <3> QED
      BY <1>2, <3>1
  <2> HIDE DEF E
  <2>3. \A i \in Nat : i \in E
    BY <2>1, <2>2, Induction
  <2> QED
    BY <2>3 DEF E
<1> DEFINE G(n) == CHOOSE g : Upto(n, g)
           f == [n \in Nat |-> G(n)[n]]
<1>3. \A n \in Nat : Upto(n, G(n))
  BY <1>1
<1> HIDE DEF G
<1>4. f \in [Nat -> S] /\ f[0] = a
  BY <1>3
<1>5. ASSUME NEW n \in Nat  PROVE f[n + 1] = F[<<n, f[n]>>]
  <2>1. Upto(n, G(n)) /\ Upto(n + 1, G(n + 1))
    BY <1>3
  <2>2. G(n)[n] = G(n + 1)[n]
    BY <1>2, <2>1, SMTT(30)
  <2>3. f[n] = G(n)[n] /\ f[n + 1] = G(n + 1)[n + 1]
    OBVIOUS
  <2>4. n \in 0..((n + 1) - 1)
    OBVIOUS
  <2> QED
    BY <2>1, <2>2, <2>3, <2>4
<1> QED
  BY <1>4, <1>5 DEF Recurs

-----------------------------------------------------------------------------
(* Powers and division.                                                       *)

LEMMA PowerFacts ==
    /\ Power[0] = 1
    /\ \A k \in Nat : Power[k] \in Nat \ {0} /\ Power[k + 1] = Base * Power[k]
<1> DEFINE S == Nat \ {0}
           F == [p \in Nat \X S |-> Base * p[2]]
           Defines(g) == g = [k \in Nat |-> IF k = 0 THEN 1 ELSE Base * g[k - 1]]
<1>1. F \in [Nat \X S -> S] /\ 1 \in S
  OBVIOUS
<1>2. PICK g : Recurs(g, S, 1, F)
  <2> HIDE DEF F, S
  <2> QED
    BY <1>1, Recursion
<1>3. /\ g \in [Nat -> S] /\ g[0] = 1
      /\ \A n \in Nat : g[n + 1] = Base * g[n]
  BY <1>2 DEF Recurs
<1>4. Defines(g)
  <2>1. \A k \in Nat : k # 0 => k - 1 \in Nat /\ (k - 1) + 1 = k
    OBVIOUS
  <2>2. \A k \in Nat : g[k] = IF k = 0 THEN 1 ELSE Base * g[k - 1]
    BY <1>3, <2>1
  <2>3. g = [k \in Nat |-> g[k]]
    BY <1>3
  <2> QED
    BY <2>2, <2>3
<1>5. Defines(Power)
  <2>1. Power = CHOOSE h : Defines(h)
    BY DEF Power
  <2> HIDE DEF Defines
  <2> QED
    BY <1>4, <2>1
<1>6. \A k \in Nat : Power[k] = IF k = 0 THEN 1 ELSE Base * Power[k - 1]
  BY <1>5
<1>7. Power[0] = 1
  BY <1>6
<1>8. \A k \in Nat : Power[k + 1] = Base * Power[k]
  <2> SUFFICES ASSUME NEW k \in Nat  PROVE Power[k + 1] = Base * Power[k]
    OBVIOUS
  <2>1. k + 1 \in Nat /\ k + 1 # 0 /\ (k + 1) - 1 = k
    OBVIOUS
  <2> QED
    BY <1>6, <2>1
<1> DEFINE P == {k \in Nat : Power[k] \in Nat \ {0}}
<1>9. \A k \in Nat : k \in P
  <2>1. 0 \in P
    BY <1>7
  <2>2. \A k \in Nat : k \in P => k + 1 \in P
    <3> SUFFICES ASSUME NEW k \in Nat, k \in P  PROVE k + 1 \in P
      OBVIOUS
    <3>1. Base * Power[k] \in Nat \ {0}
      OBVIOUS
    <3> QED
      BY <1>8, <3>1
  <2> HIDE DEF P
  <2> QED
    BY <2>1, <2>2, Induction
<1> QED
  BY <1>7, <1>8, <1>9

LEMMA PowerType ==
    ASSUME NEW k \in Nat
    PROVE  Power[k] \in Nat /\ Power[k] > 0
<1>1. Power[k] \in Nat \ {0}
  BY PowerFacts
<1> QED
  BY <1>1

LEMMA Division ==
    ASSUME NEW x \in Nat, NEW k \in Nat, k > 0
    PROVE  /\ x \div k \in Nat /\ x % k \in 0..(k - 1)
           /\ x = k * (x \div k) + (x % k)
  OBVIOUS

\* There is only one quotient.
LEMMA Quotient ==
    ASSUME NEW x \in Nat, NEW k \in Nat, k > 0, NEW q \in Nat, k * q <= x, x < k * q + k
    PROVE  x \div k = q
  BY Division

LEMMA DivideTwice ==
    ASSUME NEW x \in Nat, NEW k \in Nat, k > 0, NEW m \in Nat, m > 0
    PROVE  x \div (m * k) = (x \div k) \div m
<1> DEFINE y == x \div k
           z == y \div m
<1>1. y \in Nat /\ k * y <= x /\ x < k * y + k
  BY Division
<1>2. z \in Nat /\ m * z <= y /\ y + 1 <= m * z + m
  <2> HIDE DEF y
  <2> QED
    BY <1>1, Division
<1> HIDE DEF y, z
<1>3. k * (m * z) <= k * y /\ k * (y + 1) <= k * (m * z + m)
  BY <1>1, <1>2
<1>4. (m * k) * z <= x /\ x < (m * k) * z + m * k
  BY <1>1, <1>2, <1>3
<1>5. m * k \in Nat /\ m * k > 0
  OBVIOUS
<1> QED
  BY <1>2, <1>4, <1>5, Quotient DEF y, z

-----------------------------------------------------------------------------
(* The length of a frame.                                                     *)

\* v holds what readUInt32BE has read after each byte of b.
Reads(v, b) ==
    /\ v \in [0..PrefixBytes -> Nat] /\ v[0] = 0
    /\ \A i \in 1..PrefixBytes : v[i] = v[i - 1] * Base + b[i]

LEMMA ReadLengthFacts ==
    ASSUME NEW b \in Seq(Byte), Len(b) >= PrefixBytes
    PROVE  /\ ReadLength(b) \in Nat
           /\ \E v : Reads(v, b) /\ ReadLength(b) = v[PrefixBytes]
<1> DEFINE F == [p \in Nat \X Nat |-> IF p[1] < PrefixBytes THEN p[2] * Base + b[p[1] + 1] ELSE 0]
           Defines(v) == v = [i \in 0..PrefixBytes |-> IF i = 0 THEN 0 ELSE v[i - 1] * Base + b[i]]
<1>1. \A i \in 1..PrefixBytes : b[i] \in Nat
  BY DEF Byte
<1>2. F \in [Nat \X Nat -> Nat]
  <2> SUFFICES ASSUME NEW p \in Nat \X Nat, p[1] < PrefixBytes
               PROVE  p[2] * Base + b[p[1] + 1] \in Nat
    OBVIOUS
  <2>1. p[1] + 1 \in 1..PrefixBytes
    OBVIOUS
  <2>2. p[2] * Base \in Nat
    OBVIOUS
  <2> QED
    BY <1>1, <2>1, <2>2
<1>3. PICK g : Recurs(g, Nat, 0, F)
  <2> HIDE DEF F
  <2> QED
    BY <1>2, Recursion
<1> DEFINE w == [i \in 0..PrefixBytes |-> g[i]]
<1>4. /\ w \in [0..PrefixBytes -> Nat] /\ w[0] = 0
      /\ \A i \in 1..PrefixBytes : w[i] = w[i - 1] * Base + b[i]
  <2>1. g \in [Nat -> Nat] /\ g[0] = 0
    BY <1>3 DEF Recurs
  <2>2. ASSUME NEW i \in 1..PrefixBytes  PROVE w[i] = w[i - 1] * Base + b[i]
    <3>1. i - 1 \in Nat /\ i - 1 < PrefixBytes /\ (i - 1) + 1 = i
      OBVIOUS
    <3>2. g[(i - 1) + 1] = F[<<i - 1, g[i - 1]>>]
      BY <1>3, <3>1 DEF Recurs
    <3>3. g[i] = g[i - 1] * Base + b[i]
      BY <2>1, <3>1, <3>2
    <3> QED
      BY <3>1, <3>3
  <2> QED
    <3>1. w \in [0..PrefixBytes -> Nat]
      BY <2>1
    <3>2. w[0] = 0
      BY <2>1
    <3> HIDE DEF w
    <3> QED
      BY <2>2, <3>1, <3>2
<1>5. \E v : Defines(v)
  <2> HIDE DEF w
  <2>1. w = [i \in 0..PrefixBytes |-> w[i]]
    BY <1>4
  <2>2. \A i \in 0..PrefixBytes : w[i] = IF i = 0 THEN 0 ELSE w[i - 1] * Base + b[i]
    BY <1>4
  <2>3. Defines(w)
    BY <2>1, <2>2
  <2> QED
    BY <2>3
<1> DEFINE u == CHOOSE v : Defines(v)
<1>6. Defines(u)
  <2> HIDE DEF Defines
  <2> QED
    BY <1>5
<1>7. ReadLength(b) = u[PrefixBytes]
  BY DEF ReadLength
<1> HIDE DEF u
<1>8. /\ u[0] = 0
      /\ \A i \in 1..PrefixBytes : u[i] = u[i - 1] * Base + b[i]
      /\ u = [i \in 0..PrefixBytes |-> u[i]]
  <2>1. \A i \in 0..PrefixBytes : u[i] = IF i = 0 THEN 0 ELSE u[i - 1] * Base + b[i]
    BY <1>6
  <2>2. u = [i \in 0..PrefixBytes |-> u[i]]
    BY <1>6
  <2> QED
    BY <2>1, <2>2
<1> HIDE DEF Defines
<1> DEFINE E == {i \in Nat : i <= PrefixBytes => u[i] \in Nat}
<1>9. \A i \in Nat : i \in E
  <2>1. 0 \in E
    BY <1>8
  <2>2. ASSUME NEW i \in Nat, i \in E  PROVE i + 1 \in E
    <3> SUFFICES ASSUME i + 1 <= PrefixBytes  PROVE u[i + 1] \in Nat
      OBVIOUS
    <3>1. u[i] \in Nat /\ i + 1 \in 1..PrefixBytes /\ (i + 1) - 1 = i
      BY <2>2
    <3>2. u[i + 1] = u[i] * Base + b[i + 1]
      BY <1>8, <3>1
    <3>3. u[i] * Base \in Nat /\ b[i + 1] \in Nat
      BY <1>1, <3>1
    <3> QED
      BY <3>2, <3>3
  <2> HIDE DEF E
  <2> QED
    BY <2>1, <2>2, Induction
<1>10. Reads(u, b)
  <2>1. \A i \in 0..PrefixBytes : u[i] \in Nat
    BY <1>9
  <2> QED
    BY <1>8, <2>1 DEF Reads
<1>11. ReadLength(b) \in Nat
  BY <1>7, <1>10 DEF Reads
<1>12. \E v : Reads(v, b) /\ ReadLength(b) = v[PrefixBytes]
  BY <1>7, <1>10
<1> QED
  BY <1>11, <1>12

\* A length is read as it was written.
LEMMA ReadBack ==
    ASSUME NEW n \in Nat, n < Power[PrefixBytes],
           NEW b \in Seq(Byte), Len(b) >= PrefixBytes,
           \A i \in 1..PrefixBytes : b[i] = LengthBytes(n)[i]
    PROVE  ReadLength(b) = n
<1>1. PICK v : Reads(v, b) /\ ReadLength(b) = v[PrefixBytes]
  BY ReadLengthFacts
<1> DEFINE E == {i \in Nat : i <= PrefixBytes => v[i] = n \div Power[PrefixBytes - i]}
<1>2. 0 \in E
  <2>1. Power[PrefixBytes] \in Nat /\ Power[PrefixBytes] > 0
    BY PowerType
  <2>2. n \div Power[PrefixBytes] = 0
    BY <2>1, Quotient
  <2>3. PrefixBytes - 0 = PrefixBytes /\ v[0] = 0
    BY <1>1 DEF Reads
  <2> QED
    BY <2>2, <2>3
<1>3. ASSUME NEW i \in Nat, i \in E  PROVE i + 1 \in E
  <2> SUFFICES ASSUME i + 1 <= PrefixBytes
               PROVE  v[i + 1] = n \div Power[PrefixBytes - (i + 1)]
    OBVIOUS
  <2> DEFINE k == PrefixBytes - (i + 1)
             q == n \div Power[k]
  <2>1. k \in Nat /\ PrefixBytes - i = k + 1 /\ i + 1 \in 1..PrefixBytes /\ (i + 1) - 1 = i
    OBVIOUS
  <2> HIDE DEF k
  <2>2. Power[k] \in Nat /\ Power[k] > 0 /\ Power[k + 1] = Base * Power[k]
    BY <2>1, PowerType, PowerFacts
  <2>3. v[i] = n \div Power[k + 1]
    BY <1>3, <2>1
  <2>4. v[i] = q \div Base
    <3>1. Base \in Nat /\ Base > 0
      OBVIOUS
    <3>2. n \div (Base * Power[k]) = (n \div Power[k]) \div Base
      BY <2>2, <3>1, DivideTwice, Zenon
    <3> QED
      BY <2>2, <2>3, <3>2
  <2>5. b[i + 1] = q % Base
    BY <2>1 DEF LengthBytes, k
  <2>6. q \in Nat
    BY <2>2, Division
  <2>7. v[i + 1] = v[i] * Base + b[i + 1]
    BY <1>1, <2>1 DEF Reads
  <2> HIDE DEF q
  <2>8. q = Base * (q \div Base) + (q % Base) /\ q \div Base \in Nat
    BY <2>6, Division
  <2>9. v[i + 1] = q
    BY <2>4, <2>5, <2>7, <2>8
  <2> QED
    BY <2>9 DEF q, k
<1>4. \A i \in Nat : i \in E
  <2> HIDE DEF E
  <2> QED
    BY <1>2, <1>3, Induction
<1>5. v[PrefixBytes] = n \div Power[PrefixBytes - PrefixBytes]
  BY <1>4
<1>6. PrefixBytes - PrefixBytes = 0 /\ Power[0] = 1
  BY PowerFacts
<1>7. n \div 1 = n
  BY Quotient
<1> QED
  BY <1>1, <1>5, <1>6, <1>7

LEMMA LengthBytesType ==
    ASSUME NEW n \in Nat
    PROVE  LengthBytes(n) \in Seq(Byte) /\ Len(LengthBytes(n)) = PrefixBytes
<1>1. ASSUME NEW i \in 1..PrefixBytes
      PROVE  (n \div Power[PrefixBytes - i]) % Base \in Byte
  <2>1. Power[PrefixBytes - i] \in Nat /\ Power[PrefixBytes - i] > 0
    BY PowerType
  <2>2. n \div Power[PrefixBytes - i] \in Nat
    BY <2>1, Division
  <2> QED
    BY <2>2, Division DEF Byte
<1>2. LengthBytes(n) \in [1..PrefixBytes -> Byte]
  BY <1>1 DEF LengthBytes
<1> QED
  BY <1>2

-----------------------------------------------------------------------------
(* Where the messages end.                                                    *)

LEMMA PayloadType ==
    ASSUME NEW p \in Payloads
    PROVE  p \in Seq(Byte) /\ Len(p) \in Nat /\ Len(p) <= MaxFrame
<1>1. PICK n \in 0..MaxFrame : p \in [1..n -> Byte]
  BY DEF Payloads
<1>2. n \in Nat /\ n <= MaxFrame
  BY LimitAssumption
<1> QED
  BY <1>1, <1>2

LEMMA EndOfFacts ==
    ASSUME NEW s \in Seq(Payloads)
    PROVE  /\ EndOf(s, 0) = 0
           /\ \A k \in 1..Len(s) : EndOf(s, k) = EndOf(s, k - 1) + PrefixBytes + Len(s[k])
           /\ \A k \in 0..Len(s) : EndOf(s, k) \in Nat
<1> DEFINE n == Len(s)
           size == [i \in 1..n |-> PrefixBytes + Len(s[i])]
           F == [p \in Nat \X Nat |-> IF p[1] < n THEN p[2] + size[p[1] + 1] ELSE 0]
           Defines(v) == v = [i \in 0..n |-> IF i = 0 THEN 0 ELSE v[i - 1] + PrefixBytes + Len(s[i])]
<1>1. n \in Nat /\ \A i \in 1..n : size[i] \in Nat /\ Len(s[i]) \in Nat
  BY PayloadType
<1>2. F \in [Nat \X Nat -> Nat]
  <2> HIDE DEF n, size
  <2> SUFFICES ASSUME NEW p \in Nat \X Nat, p[1] < n
               PROVE  p[2] + size[p[1] + 1] \in Nat
    OBVIOUS
  <2>1. p[1] + 1 \in 1..n
    BY <1>1
  <2> QED
    BY <1>1, <2>1
<1>3. PICK g : Recurs(g, Nat, 0, F)
  <2> HIDE DEF F
  <2> QED
    BY <1>2, Recursion
<1> DEFINE w == [i \in 0..n |-> g[i]]
<1>4. /\ w[0] = 0
      /\ \A i \in 1..n : w[i] = w[i - 1] + PrefixBytes + Len(s[i])
  <2>1. g \in [Nat -> Nat] /\ g[0] = 0
    BY <1>3 DEF Recurs
  <2>2. ASSUME NEW i \in 1..n  PROVE w[i] = w[i - 1] + PrefixBytes + Len(s[i])
    <3>1. i - 1 \in Nat /\ i - 1 < n /\ (i - 1) + 1 = i
      BY <1>1
    <3>2. g[(i - 1) + 1] = F[<<i - 1, g[i - 1]>>]
      BY <1>3, <3>1 DEF Recurs
    <3>3. g[i] = g[i - 1] + size[i]
      BY <2>1, <3>1, <3>2
    <3>4. size[i] = PrefixBytes + Len(s[i]) /\ Len(s[i]) \in Nat /\ g[i - 1] \in Nat
      BY <1>1, <2>1, <3>1
    <3>5. g[i] = g[i - 1] + PrefixBytes + Len(s[i])
      <4> HIDE DEF size
      <4> QED
        BY <3>3, <3>4
    <3> QED
      BY <3>1, <3>5
  <2>3. 0 \in 0..n
    BY <1>1
  <2>4. w[0] = 0
    BY <2>1, <2>3
  <2> HIDE DEF w, n
  <2> QED
    BY <2>2, <2>4
<1>5. \E v : Defines(v)
  <2>1. w = [i \in 0..n |-> w[i]]
    OBVIOUS
  <2> HIDE DEF w, n
  <2>2. \A i \in 0..n : w[i] = IF i = 0 THEN 0 ELSE w[i - 1] + PrefixBytes + Len(s[i])
    BY <1>1, <1>4
  <2>3. Defines(w)
    BY <2>1, <2>2
  <2> QED
    BY <2>3
<1> DEFINE u == CHOOSE v : Defines(v)
<1>6. Defines(u)
  <2> HIDE DEF Defines
  <2> QED
    BY <1>5
<1>7. \A k : EndOf(s, k) = u[k]
  BY DEF EndOf
<1> HIDE DEF u, n, size
<1>8. /\ u[0] = 0
      /\ \A i \in 1..n : u[i] = u[i - 1] + PrefixBytes + Len(s[i])
  <2>1. \A i \in 0..n : u[i] = IF i = 0 THEN 0 ELSE u[i - 1] + PrefixBytes + Len(s[i])
    BY <1>6
  <2> QED
    BY <1>1, <2>1
<1> HIDE DEF Defines
<1> DEFINE E == {i \in Nat : i <= n => u[i] \in Nat}
<1>9. \A i \in Nat : i \in E
  <2>1. 0 \in E
    BY <1>8
  <2>2. ASSUME NEW i \in Nat, i \in E  PROVE i + 1 \in E
    <3> SUFFICES ASSUME i + 1 <= n  PROVE u[i + 1] \in Nat
      OBVIOUS
    <3>1. u[i] \in Nat /\ i + 1 \in 1..n /\ (i + 1) - 1 = i
      BY <1>1, <2>2
    <3>2. u[i + 1] = u[i] + PrefixBytes + Len(s[i + 1]) /\ Len(s[i + 1]) \in Nat
      BY <1>1, <1>8, <3>1
    <3> QED
      BY <3>1, <3>2
  <2> HIDE DEF E
  <2> QED
    BY <2>1, <2>2, Induction
<1>10. \A i \in 0..n : u[i] \in Nat
  BY <1>1, <1>9
<1> HIDE DEF E
<1> QED
  BY <1>7, <1>8, <1>10 DEF n

\* A frame never ends before it starts.
LEMMA StartBeforeEnd ==
    ASSUME NEW s \in Seq(Payloads), NEW k \in 1..Len(s)
    PROVE  EndOf(s, k - 1) <= EndOf(s, k)
<1>1. Len(s[k]) \in Nat
  BY PayloadType
<1>2. k - 1 \in 0..Len(s)
  OBVIOUS
<1>3. EndOf(s, k - 1) \in Nat /\ EndOf(s, k) = EndOf(s, k - 1) + PrefixBytes + Len(s[k])
  BY <1>2, EndOfFacts
<1>4. \A a, c \in Nat : a <= a + PrefixBytes + c
  BY BytesAssumption
<1> QED
  BY <1>1, <1>3, <1>4

\* Every message ends after the one before it.
LEMMA EndOfGrows ==
    ASSUME NEW s \in Seq(Payloads), NEW j \in 0..Len(s), NEW k \in j..Len(s)
    PROVE  EndOf(s, j) + PrefixBytes * (k - j) <= EndOf(s, k)
<1> DEFINE n == Len(s)
           E == {i \in Nat : j + i <= n => EndOf(s, j) + PrefixBytes * i <= EndOf(s, j + i)}
<1>1. n \in Nat /\ j \in Nat /\ EndOf(s, j) \in Nat
  BY EndOfFacts
<1>2. \A i \in Nat : i \in E
  <2>1. 0 \in E
    BY <1>1
  <2>2. ASSUME NEW i \in Nat, i \in E  PROVE i + 1 \in E
    <3> SUFFICES ASSUME j + i + 1 <= n
                 PROVE  EndOf(s, j) + PrefixBytes * (i + 1) <= EndOf(s, j + (i + 1))
      BY <1>1
    <3>1. j + i + 1 \in 1..n /\ j + (i + 1) = j + i + 1 /\ (j + i + 1) - 1 = j + i /\ j + i \in 0..n
      BY <1>1
    <3>2. EndOf(s, j + i + 1) = EndOf(s, j + i) + PrefixBytes + Len(s[j + i + 1])
      BY <3>1, EndOfFacts
    <3>3. Len(s[j + i + 1]) \in Nat
      BY <3>1, PayloadType
    <3>4. EndOf(s, j) + PrefixBytes * i <= EndOf(s, j + i) /\ EndOf(s, j + i) \in Nat
      BY <1>1, <2>2, <3>1, EndOfFacts
    <3>5. PrefixBytes * (i + 1) = PrefixBytes * i + PrefixBytes /\ PrefixBytes * i \in Nat
      OBVIOUS
    <3>6. \A a, b, c, e \in Nat :
            a + c <= b => a + (c + PrefixBytes) <= b + PrefixBytes + e
      BY BytesAssumption
    <3>7. EndOf(s, j) + (PrefixBytes * i + PrefixBytes)
            <= EndOf(s, j + i) + PrefixBytes + Len(s[j + i + 1])
      BY <1>1, <3>3, <3>4, <3>5, <3>6
    <3> QED
      BY <3>1, <3>2, <3>5, <3>7
  <2> HIDE DEF E
  <2> QED
    BY <2>1, <2>2, Induction
<1>3. k - j \in Nat /\ j + (k - j) = k
  BY <1>1
<1>4. j + (k - j) <= n => EndOf(s, j) + PrefixBytes * (k - j) <= EndOf(s, j + (k - j))
  BY <1>2, <1>3
<1> QED
  BY <1>3, <1>4

\* What is sent later does not move the ends of what was sent.
LEMMA EndOfAppend ==
    ASSUME NEW s \in Seq(Payloads), NEW p \in Payloads, NEW k \in 0..Len(s)
    PROVE  EndOf(Append(s, p), k) = EndOf(s, k)
<1> DEFINE n == Len(s)
           t == Append(s, p)
           E == {i \in Nat : i <= n => EndOf(t, i) = EndOf(s, i)}
<1>1. n \in Nat /\ t \in Seq(Payloads) /\ Len(t) = n + 1 /\ \A i \in 1..n : t[i] = s[i]
  OBVIOUS
<1> HIDE DEF t, n
<1>2. \A i \in Nat : i \in E
  <2>1. 0 \in E
    BY <1>1, EndOfFacts
  <2>2. ASSUME NEW i \in Nat, i \in E  PROVE i + 1 \in E
    <3> SUFFICES ASSUME i + 1 <= n  PROVE EndOf(t, i + 1) = EndOf(s, i + 1)
      OBVIOUS
    <3>1. i + 1 \in 1..n /\ i + 1 \in 1..Len(t) /\ (i + 1) - 1 = i
      BY <1>1
    <3>2. EndOf(s, i + 1) = EndOf(s, i) + PrefixBytes + Len(s[i + 1])
      BY <3>1, EndOfFacts DEF n
    <3>3. EndOf(t, i + 1) = EndOf(t, i) + PrefixBytes + Len(t[i + 1])
      BY <1>1, <3>1, EndOfFacts
    <3> QED
      BY <1>1, <2>2, <3>1, <3>2, <3>3
  <2> HIDE DEF E
  <2> QED
    BY <2>1, <2>2, Induction
<1> QED
  BY <1>1, <1>2 DEF n, t

-----------------------------------------------------------------------------
(* Decode is what its recursive definition says.                              *)

\* What push() does with b when D decodes what follows the first frame.
StepOf(D, b) ==
    IF Len(b) < PrefixBytes THEN [frames |-> <<>>, rest |-> b, throws |-> FALSE]
    ELSE IF PastLimit(b) THEN [frames |-> <<>>, rest |-> b, throws |-> TRUE]
    ELSE IF Incomplete(b) THEN [frames |-> <<>>, rest |-> b, throws |-> FALSE]
    ELSE LET later == D[SubSeq(b, FrameEnd(b) + 1, Len(b))]
         IN  [later EXCEPT !.frames = <<SubSeq(b, PrefixBytes + 1, FrameEnd(b))>> \o @]

\* Each step of the loop leaves less to decode.
LEMMA Shorter ==
    ASSUME NEW b \in Seq(Byte), Len(b) >= PrefixBytes, ~Incomplete(b)
    PROVE  /\ SubSeq(b, FrameEnd(b) + 1, Len(b)) \in Seq(Byte)
           /\ Len(SubSeq(b, FrameEnd(b) + 1, Len(b))) < Len(b)
<1>1. FrameEnd(b) \in Nat /\ FrameEnd(b) > 0
  BY ReadLengthFacts DEF FrameEnd
<1>2. FrameEnd(b) <= Len(b) /\ Len(b) \in Nat
  BY <1>1 DEF Incomplete
<1> DEFINE e == FrameEnd(b)
<1> HIDE DEF e
<1>3. e \in Nat /\ e > 0 /\ e <= Len(b)
  BY <1>1, <1>2 DEF e
<1>4. /\ SubSeq(b, e + 1, Len(b)) \in Seq(Byte)
      /\ Len(SubSeq(b, e + 1, Len(b))) < Len(b)
  BY <1>2, <1>3
<1> QED
  BY <1>4 DEF e

LEMMA StepIsLocal ==
    ASSUME NEW D, NEW E, NEW b \in Seq(Byte),
           \A c \in Seq(Byte) : Len(c) < Len(b) => D[c] = E[c]
    PROVE  StepOf(D, b) = StepOf(E, b)
<1>1. CASE Len(b) < PrefixBytes \/ PastLimit(b) \/ Incomplete(b)
  BY <1>1, Zenon DEF StepOf
<1>2. CASE ~ (Len(b) < PrefixBytes \/ PastLimit(b) \/ Incomplete(b))
  <2> DEFINE c == SubSeq(b, FrameEnd(b) + 1, Len(b))
  <2>1. Len(b) >= PrefixBytes
    BY <1>2
  <2>2. c \in Seq(Byte) /\ Len(c) < Len(b)
    BY <1>2, <2>1, Shorter
  <2>3. D[c] = E[c]
    <3> HIDE DEF c
    <3> QED
      BY <2>2
  <2> QED
    BY <1>2, <2>3, Zenon DEF StepOf
<1> QED
  BY <1>1, <1>2

LEMMA DecodeExists ==
    \E D : D = [b \in Seq(Byte) |-> StepOf(D, b)]
<1> DEFINE S(n) == {b \in Seq(Byte) : Len(b) <= n}
           Upto(n, D) == D = [b \in S(n) |-> StepOf(D, b)]
           H == {n \in Nat : \E D : Upto(n, D)}
<1>1. \A n \in Nat : \E D : Upto(n, D)
  <2>1. 0 \in H
    <3> DEFINE D == [b \in S(0) |-> StepOf(<<>>, b)]
    <3>1. ASSUME NEW b \in S(0)  PROVE StepOf(<<>>, b) = StepOf(D, b)
      <4>1. b \in Seq(Byte) /\ \A c \in Seq(Byte) : ~ (Len(c) < Len(b))
        OBVIOUS
      <4> HIDE DEF D
      <4> QED
        BY <4>1, StepIsLocal
    <3>2. Upto(0, D)
      BY <3>1, Zenon
    <3>3. \E k : Upto(0, k)
      <4> HIDE DEF Upto, D
      <4> QED
        BY <3>2
    <3> QED
      BY <3>3
  <2>2. ASSUME NEW n \in Nat, n \in H  PROVE n + 1 \in H
    <3>1. PICK C : Upto(n, C)
      BY <2>2
    <3> DEFINE D == [b \in S(n + 1) |-> StepOf(C, b)]
    <3>2. \A c \in S(n) : C[c] = StepOf(C, c)
      BY <3>1
    <3>3. \A c \in S(n) : c \in S(n + 1)
      OBVIOUS
    <3>4. \A c \in S(n) : D[c] = C[c]
      BY <3>2, <3>3
    <3>5. ASSUME NEW b \in S(n + 1)  PROVE StepOf(C, b) = StepOf(D, b)
      <4> HIDE DEF D
      <4>1. b \in Seq(Byte) /\ \A c \in Seq(Byte) : Len(c) < Len(b) => c \in S(n)
        OBVIOUS
      <4>2. \A c \in Seq(Byte) : Len(c) < Len(b) => C[c] = D[c]
        BY <3>4, <4>1
      <4> QED
        BY <4>1, <4>2, StepIsLocal
    <3>6. Upto(n + 1, D)
      BY <3>5, Zenon
    <3>7. \E k : Upto(n + 1, k)
      <4> HIDE DEF Upto, D
      <4> QED
        BY <3>6
    <3> QED
      BY <3>7
  <2> HIDE DEF H
  <2>3. \A n \in Nat : n \in H
    BY <2>1, <2>2, Induction
  <2> QED
    BY <2>3 DEF H
<1>2. ASSUME NEW m \in Nat, NEW n \in Nat, NEW C, NEW D, Upto(m, C), Upto(n, D), m <= n
      PROVE  \A c \in S(m) : C[c] = D[c]
  <2> DEFINE E == {i \in Nat : \A c \in S(m) : Len(c) < i => C[c] = D[c]}
  <2>1. \A c \in S(m) : C[c] = StepOf(C, c) /\ D[c] = StepOf(D, c) /\ c \in Seq(Byte)
    <3>1. \A c \in S(m) : c \in S(n) /\ c \in Seq(Byte)
      BY <1>2
    <3>2. \A c \in S(m) : C[c] = StepOf(C, c)
      BY <1>2
    <3>3. \A c \in S(n) : D[c] = StepOf(D, c)
      BY <1>2
    <3> QED
      BY <3>1, <3>2, <3>3
  <2>2. 0 \in E
    OBVIOUS
  <2>3. ASSUME NEW i \in Nat, i \in E  PROVE i + 1 \in E
    <3> SUFFICES ASSUME NEW c \in S(m), Len(c) < i + 1  PROVE C[c] = D[c]
      OBVIOUS
    <3>1. c \in Seq(Byte) /\ Len(c) <= m
      OBVIOUS
    <3>2. \A d \in Seq(Byte) : Len(d) < Len(c) => C[d] = D[d]
      <4> SUFFICES ASSUME NEW d \in Seq(Byte), Len(d) < Len(c)  PROVE C[d] = D[d]
        OBVIOUS
      <4>1. d \in S(m) /\ Len(d) < i
        BY <3>1
      <4> QED
        BY <2>3, <4>1
    <3>3. StepOf(C, c) = StepOf(D, c)
      BY <3>1, <3>2, StepIsLocal
    <3> QED
      BY <2>1, <3>3
  <2> HIDE DEF E
  <2>4. \A i \in Nat : i \in E
    BY <2>2, <2>3, Induction
  <2>5. m + 1 \in E /\ \A c \in S(m) : Len(c) < m + 1
    BY <2>4
  <2> QED
    BY <2>5 DEF E
<1> DEFINE G(n) == CHOOSE D : Upto(n, D)
           D == [b \in Seq(Byte) |-> G(Len(b))[b]]
<1>3. \A n \in Nat : Upto(n, G(n))
  BY <1>1
<1> HIDE DEF G
<1>4. ASSUME NEW b \in Seq(Byte)  PROVE D[b] = StepOf(D, b)
  <2> DEFINE n == Len(b)
  <2>1. n \in Nat /\ b \in S(n) /\ D[b] = G(n)[b]
    OBVIOUS
  <2>2. G(n)[b] = StepOf(G(n), b)
    BY <1>3, <2>1
  <2>3. ASSUME NEW c \in Seq(Byte), Len(c) < Len(b)  PROVE G(n)[c] = D[c]
    <3>1. Len(c) \in Nat /\ Len(c) <= n /\ c \in S(Len(c)) /\ D[c] = G(Len(c))[c]
      BY <2>3
    <3> HIDE DEF Upto, S, D
    <3>2. Upto(Len(c), G(Len(c))) /\ Upto(n, G(n))
      BY <1>3, <2>1, <3>1
    <3>3. \A d \in S(Len(c)) : G(Len(c))[d] = G(n)[d]
      BY <1>2, <2>1, <3>1, <3>2
    <3> QED
      BY <3>1, <3>3
  <2> HIDE DEF D
  <2>4. StepOf(G(n), b) = StepOf(D, b)
    BY <2>3, StepIsLocal
  <2> QED
    BY <2>1, <2>2, <2>4
<1>5. D = [b \in Seq(Byte) |-> StepOf(D, b)]
  <2>1. D = [b \in Seq(Byte) |-> D[b]]
    OBVIOUS
  <2> HIDE DEF D
  <2> QED
    BY <1>4, <2>1, Zenon
<1> HIDE DEF D
<1> QED
  BY <1>5

LEMMA DecodeUnfolds ==
    ASSUME NEW b \in Seq(Byte)
    PROVE  Decode[b] = StepOf(Decode, b)
<1> DEFINE Defines(D) == D = [c \in Seq(Byte) |-> StepOf(D, c)]
<1>1. Decode = CHOOSE D : Defines(D)
  BY DEF Decode, StepOf
<1>2. \E D : Defines(D)
  BY DecodeExists
<1>3. Defines(Decode)
  <2> HIDE DEF Defines
  <2> QED
    BY <1>1, <1>2
<1> QED
  BY <1>3

-----------------------------------------------------------------------------
(* What push() makes of the bytes that have arrived.                          *)

LEMMA Segment ==
    ASSUME NEW T, NEW w \in Seq(T), NEW lo \in Nat, NEW hi \in Nat, lo <= hi, hi <= Len(w)
    PROVE  /\ SubSeq(w, lo + 1, hi) \in Seq(T) /\ Len(SubSeq(w, lo + 1, hi)) = hi - lo
           /\ \A i \in 1..(hi - lo) : SubSeq(w, lo + 1, hi)[i] = w[lo + i]
  OBVIOUS

LEMMA SegmentOfSegment ==
    ASSUME NEW T, NEW w \in Seq(T), NEW lo \in Nat, NEW hi \in Nat, lo <= hi, hi <= Len(w),
           NEW x \in Nat, NEW y \in Nat, x <= y, y <= hi - lo
    PROVE  SubSeq(SubSeq(w, lo + 1, hi), x + 1, y) = SubSeq(w, (lo + x) + 1, lo + y)
<1> DEFINE b == SubSeq(w, lo + 1, hi)
           p == SubSeq(b, x + 1, y)
           q == SubSeq(w, (lo + x) + 1, lo + y)
<1>1. b \in Seq(T) /\ Len(b) = hi - lo /\ \A i \in 1..(hi - lo) : b[i] = w[lo + i]
  BY Segment
<1> HIDE DEF b
<1>2. p \in Seq(T) /\ Len(p) = y - x /\ \A i \in 1..(y - x) : p[i] = b[x + i]
  BY <1>1, Segment
<1>3. q \in Seq(T) /\ Len(q) = y - x /\ \A i \in 1..(y - x) : q[i] = w[(lo + x) + i]
  <2>1. lo + x \in Nat /\ lo + y \in Nat /\ lo + x <= lo + y /\ lo + y <= Len(w)
    OBVIOUS
  <2>2. (lo + y) - (lo + x) = y - x
    OBVIOUS
  <2> QED
    BY <2>1, <2>2, Segment
<1> HIDE DEF p, q
<1>4. \A i \in 1..(y - x) : p[i] = q[i]
  <2> SUFFICES ASSUME NEW i \in 1..(y - x)  PROVE p[i] = q[i]
    OBVIOUS
  <2>1. x + i \in 1..(hi - lo) /\ lo + (x + i) = (lo + x) + i
    OBVIOUS
  <2> QED
    BY <1>1, <1>2, <1>3, <2>1
<1>5. p = q
  BY <1>2, <1>3, <1>4
<1> QED
  BY <1>5 DEF p, q, b

\* Where the k-th message stands in the bytes written.
LEMMA MessageWritten ==
    ASSUME TypeOK, FramesWritten, NEW k \in 1..Len(sent)
    PROVE  /\ \A i \in 1..PrefixBytes :
                  written[EndOf(sent, k - 1) + i] = LengthBytes(Len(sent[k]))[i]
           /\ SubSeq(written, (EndOf(sent, k - 1) + PrefixBytes) + 1, EndOf(sent, k)) = sent[k]
           /\ EndOf(sent, k) <= Len(written)
<1> DEFINE lo == EndOf(sent, k - 1)
           hi == EndOf(sent, k)
           p  == sent[k]
           h  == LengthBytes(Len(p))
           f  == SubSeq(written, lo + 1, hi)
<1>1. written \in Seq(Byte) /\ sent \in Seq(Payloads)
  BY DEF TypeOK
<1>2. lo \in Nat /\ hi \in Nat /\ hi = lo + PrefixBytes + Len(p)
  <2>1. k - 1 \in 0..Len(sent) /\ k \in 0..Len(sent)
    BY <1>1
  <2> QED
    BY <1>1, <2>1, EndOfFacts
<1>3. p \in Seq(Byte) /\ Len(p) \in Nat
  BY <1>1, PayloadType
<1>4. h \in Seq(Byte) /\ Len(h) = PrefixBytes
  BY <1>3, LengthBytesType
<1>5. f = h \o p
  BY DEF FramesWritten, EncodeFrame
<1>6. hi <= Len(written)
  <2>1. k \in 0..Len(sent) /\ Len(sent) \in k..Len(sent) /\ Len(sent) \in 0..Len(sent)
    BY <1>1
  <2>2. hi + PrefixBytes * (Len(sent) - k) <= EndOf(sent, Len(sent))
    BY <1>1, <2>1, EndOfGrows
  <2>3. EndOf(sent, Len(sent)) \in Nat
    BY <1>1, <2>1, EndOfFacts
  <2>4. PrefixBytes * (Len(sent) - k) \in Nat
    BY <2>1
  <2>5. PrefixBytes + MaxFrame + 1 \in Nat
    BY LimitAssumption
  <2>6. Len(written) = EndOf(sent, Len(sent)) \/ Len(written) = EndOf(sent, Len(sent)) + (PrefixBytes + MaxFrame + 1)
    BY <2>3, <2>5 DEF FramesWritten
  <2> HIDE DEF hi
  <2> QED
    BY <1>2, <2>2, <2>3, <2>4, <2>5, <2>6
<1> HIDE DEF lo, hi, p, h
<1>7. f \in Seq(Byte) /\ Len(f) = hi - lo /\ \A i \in 1..(hi - lo) : f[i] = written[lo + i]
  BY <1>1, <1>2, <1>3, <1>6, Segment
<1>8. \A i \in 1..PrefixBytes : written[lo + i] = h[i]
  <2> SUFFICES ASSUME NEW i \in 1..PrefixBytes  PROVE written[lo + i] = h[i]
    OBVIOUS
  <2>1. i \in 1..(hi - lo)
    BY <1>2, <1>3
  <2>2. (h \o p)[i] = h[i]
    BY <1>3, <1>4
  <2> HIDE DEF f
  <2> QED
    BY <1>5, <1>7, <2>1, <2>2
<1>9. SubSeq(h \o p, PrefixBytes + 1, PrefixBytes + Len(p)) = p
  BY <1>3, <1>4
<1>10. SubSeq(f, PrefixBytes + 1, PrefixBytes + Len(p)) = SubSeq(written, (lo + PrefixBytes) + 1, lo + (PrefixBytes + Len(p)))
  <2>1. PrefixBytes + Len(p) \in Nat /\ PrefixBytes <= PrefixBytes + Len(p) /\ PrefixBytes + Len(p) <= hi - lo /\ lo <= hi
    BY <1>2, <1>3
  <2> QED
    BY <1>1, <1>2, <1>6, <2>1, SegmentOfSegment
<1>11. lo + (PrefixBytes + Len(p)) = hi
  BY <1>2, <1>3
<1>12. SubSeq(written, (lo + PrefixBytes) + 1, hi) = p
  <2> HIDE DEF f
  <2> QED
    BY <1>5, <1>9, <1>10, <1>11
<1> QED
  BY <1>6, <1>8, <1>12 DEF lo, hi, p, h

Decoded == [frames : Seq(Payloads), rest : Seq(Byte), throws : BOOLEAN]

\* Of what arrived up to a, with e messages already taken, d has taken those up to m.
TakenUpTo(m, e, a, d) ==
    /\ Len(d.frames) = m - e /\ \A i \in 1..(m - e) : d.frames[i] = sent[e + i]
    /\ EndOf(sent, m) <= a /\ d.rest = SubSeq(written, EndOf(sent, m) + 1, a)
    /\ d.throws <=> m = Len(sent) /\ LimitPassed(a)
    /\ m < Len(sent) => a < EndOf(sent, m + 1)

Taken(e, a, d) == d \in Decoded /\ \E m \in e..Len(sent) : TakenUpTo(m, e, a, d)

Rest(e, a) == SubSeq(written, EndOf(sent, e) + 1, a)

\* No message is left: what follows is a length past the limit, or nothing.
LEMMA DecodeLast ==
    ASSUME TypeOK, FramesWritten, NEW a \in Nat, EndOf(sent, Len(sent)) <= a, a <= Len(written)
    PROVE  Taken(Len(sent), a, Decode[Rest(Len(sent), a)])
<1> DEFINE e == Len(sent)
           lo == EndOf(sent, e)
           b == Rest(e, a)
           stop(t) == [frames |-> <<>>, rest |-> b, throws |-> t]
<1>1. written \in Seq(Byte) /\ sent \in Seq(Payloads) /\ desynced \in BOOLEAN
  BY DEF TypeOK
<1>2. e \in Nat /\ lo \in Nat
  BY <1>1, EndOfFacts
<1>3. MaxFrame \in Nat /\ MaxFrame + 1 \in Nat /\ MaxFrame + 1 < Power[PrefixBytes]
  BY LimitAssumption
<1>4. b \in Seq(Byte) /\ Len(b) = a - lo /\ \A i \in 1..(a - lo) : b[i] = written[lo + i]
  <2> HIDE DEF lo
  <2>1. /\ SubSeq(written, lo + 1, a) \in Seq(Byte) /\ Len(SubSeq(written, lo + 1, a)) = a - lo
        /\ \A i \in 1..(a - lo) : SubSeq(written, lo + 1, a)[i] = written[lo + i]
    BY <1>1, <1>2, Segment DEF lo
  <2> QED
    BY <2>1 DEF Rest, lo
<1>5. ASSUME NEW t \in BOOLEAN, t <=> LimitPassed(a)  PROVE Taken(e, a, stop(t))
  <2>1. <<>> \in Seq(Payloads) /\ Len(<<>>) = 0
    OBVIOUS
  <2>2. stop(t) \in Decoded
    <3> HIDE DEF b
    <3> QED
      BY <1>4, <2>1 DEF Decoded
  <2>3. /\ stop(t).frames = <<>> /\ stop(t).rest = b /\ stop(t).throws = t
    OBVIOUS
  <2> DEFINE d == stop(t)
  <2> HIDE DEF d
  <2>4. Len(d.frames) = e - e /\ \A i \in 1..(e - e) : d.frames[i] = sent[e + i]
    BY <1>2, <2>1, <2>3 DEF d
  <2>5. EndOf(sent, e) <= a /\ d.rest = SubSeq(written, EndOf(sent, e) + 1, a)
    BY <2>3 DEF d, Rest
  <2>6. d.throws <=> e = Len(sent) /\ LimitPassed(a)
    BY <1>5, <2>3 DEF d
  <2>7. TakenUpTo(e, e, a, d)
    BY <1>2, <2>4, <2>5, <2>6 DEF TakenUpTo
  <2>8. e \in e..Len(sent)
    BY <1>2
  <2> HIDE DEF e
  <2> QED
    BY <2>2, <2>7, <2>8 DEF Taken, d
<1>6. CASE Len(b) < PrefixBytes
  <2>1. ~LimitPassed(a)
    BY <1>2, <1>4, <1>6 DEF LimitPassed
  <2>2. StepOf(Decode, b) = stop(FALSE)
    BY <1>6 DEF StepOf
  <2> HIDE DEF b, stop, e
  <2> QED
    BY <1>4, <1>5, <2>1, <2>2, DecodeUnfolds DEF b, e
<1>7. CASE ~ (Len(b) < PrefixBytes)
  <2>1. desynced
    BY <1>2, <1>4, <1>7 DEF FramesWritten
  <2>2. LimitPassed(a)
    BY <1>2, <1>4, <1>7, <2>1 DEF LimitPassed
  <2>3. SubSeq(written, lo + 1, lo + PrefixBytes) = LengthBytes(MaxFrame + 1)
    BY <2>1 DEF FramesWritten
  <2>4. \A i \in 1..PrefixBytes : b[i] = LengthBytes(MaxFrame + 1)[i]
    <3> SUFFICES ASSUME NEW i \in 1..PrefixBytes
                 PROVE  b[i] = LengthBytes(MaxFrame + 1)[i]
      OBVIOUS
    <3>1. lo + PrefixBytes \in Nat /\ lo <= lo + PrefixBytes /\ lo + PrefixBytes <= Len(written)
      BY <1>1, <1>2, <1>4, <1>7
    <3>2. (lo + PrefixBytes) - lo = PrefixBytes /\ i \in 1..(a - lo)
      BY <1>2, <1>4, <1>7
    <3> HIDE DEF lo, b
    <3>3. SubSeq(written, lo + 1, lo + PrefixBytes)[i] = written[lo + i]
      BY <1>1, <1>2, <3>1, <3>2, Segment
    <3> QED
      BY <1>4, <2>3, <3>2, <3>3
  <2>5. ReadLength(b) = MaxFrame + 1
    <3> HIDE DEF b
    <3>1. Len(b) >= PrefixBytes
      BY <1>4, <1>7
    <3> QED
      BY <1>3, <1>4, <2>4, <3>1, ReadBack
  <2>6. PastLimit(b)
    BY <1>3, <2>5 DEF PastLimit
  <2>7. StepOf(Decode, b) = stop(TRUE)
    BY <1>7, <2>6 DEF StepOf
  <2> HIDE DEF b, stop, e
  <2> QED
    BY <1>4, <1>5, <2>2, <2>7, DecodeUnfolds DEF b, e
<1> QED
  BY <1>6, <1>7

\* The next message is taken if it has arrived, and what follows is what it is without it.
LEMMA DecodeNext ==
    ASSUME TypeOK, FramesWritten, NEW a \in Nat, a <= Len(written),
           NEW e \in Nat, e < Len(sent), EndOf(sent, e) <= a,
           EndOf(sent, e + 1) <= a => Taken(e + 1, a, Decode[Rest(e + 1, a)])
    PROVE  Taken(e, a, Decode[Rest(e, a)])
<1> DEFINE k == e + 1
           lo == EndOf(sent, e)
           hi == EndOf(sent, k)
           p == sent[k]
           b == Rest(e, a)
<1>1. written \in Seq(Byte) /\ sent \in Seq(Payloads)
  BY DEF TypeOK
<1>2. k \in 1..Len(sent) /\ k - 1 = e /\ k \in 0..Len(sent) /\ e \in 0..Len(sent) /\ Len(sent) \in Nat
  BY <1>1
<1>3. p \in Payloads /\ p \in Seq(Byte) /\ Len(p) \in Nat /\ Len(p) <= MaxFrame
  BY <1>1, <1>2, PayloadType
<1>4. lo \in Nat /\ hi \in Nat /\ hi = lo + PrefixBytes + Len(p)
  <2> HIDE DEF k
  <2> QED
    BY <1>1, <1>2, EndOfFacts
<1>5. /\ \A i \in 1..PrefixBytes : written[lo + i] = LengthBytes(Len(p))[i]
      /\ SubSeq(written, (lo + PrefixBytes) + 1, hi) = p
      /\ hi <= Len(written)
  <2> HIDE DEF k
  <2> QED
    BY <1>2, MessageWritten
<1>6. b \in Seq(Byte) /\ Len(b) = a - lo /\ \A i \in 1..(a - lo) : b[i] = written[lo + i]
  <2>1. lo <= a
    OBVIOUS
  <2> HIDE DEF lo, hi, p
  <2>2. written \in Seq(Byte) /\ lo \in Nat /\ a \in Nat /\ lo <= a /\ a <= Len(written)
    BY <1>1, <1>4, <2>1
  <2>3. /\ SubSeq(written, lo + 1, a) \in Seq(Byte) /\ Len(SubSeq(written, lo + 1, a)) = a - lo
        /\ \A i \in 1..(a - lo) : SubSeq(written, lo + 1, a)[i] = written[lo + i]
    BY <2>2, Segment, SMTT(30)
  <2> QED
    BY <2>3 DEF Rest, lo
<1>7. Len(p) < Power[PrefixBytes] /\ MaxFrame \in Nat
  BY <1>3, LimitAssumption, PowerType
<1> HIDE DEF k, lo, hi, p, b
<1>8. Len(b) >= PrefixBytes => ReadLength(b) = Len(p)
  <2> SUFFICES ASSUME Len(b) >= PrefixBytes  PROVE ReadLength(b) = Len(p)
    OBVIOUS
  <2>1. \A i \in 1..PrefixBytes : b[i] = LengthBytes(Len(p))[i]
    BY <1>4, <1>5, <1>6
  <2> QED
    BY <1>3, <1>6, <1>7, <2>1, ReadBack
<1>9. CASE a < hi
  <2> DEFINE d == [frames |-> <<>>, rest |-> b, throws |-> FALSE]
  <2>1. StepOf(Decode, b) = d
    <3>1. CASE Len(b) < PrefixBytes
      BY <3>1 DEF StepOf
    <3>2. CASE ~ (Len(b) < PrefixBytes)
      <4>1. ReadLength(b) = Len(p)
        BY <1>6, <1>4, <1>8, <3>2
      <4>2. ~PastLimit(b)
        BY <1>3, <1>7, <4>1 DEF PastLimit
      <4>3. Incomplete(b)
        BY <1>3, <1>4, <1>6, <1>9, <4>1 DEF Incomplete, FrameEnd
      <4> QED
        BY <3>2, <4>2, <4>3 DEF StepOf
    <3> QED
      BY <3>1, <3>2
  <2>2. <<>> \in Seq(Payloads) /\ Len(<<>>) = 0
    OBVIOUS
  <2>3. d \in Decoded
    BY <1>6, <2>2 DEF Decoded
  <2>4. d.frames = <<>> /\ d.rest = b /\ d.throws = FALSE
    OBVIOUS
  <2> HIDE DEF d
  <2>5. Len(d.frames) = e - e /\ \A i \in 1..(e - e) : d.frames[i] = sent[e + i]
    BY <2>2, <2>4
  <2>6. d.rest = SubSeq(written, EndOf(sent, e) + 1, a)
    BY <2>4 DEF b, Rest
  <2>7. d.throws <=> e = Len(sent) /\ LimitPassed(a)
    BY <1>2, <2>4
  <2>8. a < EndOf(sent, e + 1)
    BY <1>9 DEF hi, k
  <2>9. TakenUpTo(e, e, a, d)
    BY <2>5, <2>6, <2>7, <2>8 DEF TakenUpTo
  <2>10. e \in e..Len(sent)
    BY <1>2
  <2>11. Taken(e, a, d)
    BY <2>3, <2>9, <2>10 DEF Taken
  <2> QED
    BY <1>6, <2>1, <2>11, DecodeUnfolds DEF b
<1>10. CASE ~ (a < hi)
  <2>1. hi <= a /\ Len(b) >= PrefixBytes /\ ReadLength(b) = Len(p)
    BY <1>3, <1>4, <1>6, <1>8, <1>10
  <2>2. FrameEnd(b) = PrefixBytes + Len(p) /\ ~PastLimit(b) /\ ~Incomplete(b)
    BY <1>3, <1>4, <1>6, <1>7, <2>1 DEF FrameEnd, PastLimit, Incomplete
  <2>3. PrefixBytes + Len(p) \in Nat /\ PrefixBytes + Len(p) <= a - lo /\ lo <= a
    BY <1>3, <1>4, <2>1
  <2>4. b = SubSeq(written, lo + 1, a)
    BY DEF b, lo, Rest
  <2>5. SubSeq(b, FrameEnd(b) + 1, Len(b)) = Rest(k, a)
    <3>1. SubSeq(b, (PrefixBytes + Len(p)) + 1, a - lo) = SubSeq(written, (lo + (PrefixBytes + Len(p))) + 1, lo + (a - lo))
      BY <1>1, <1>4, <1>6, <2>3, <2>4, SegmentOfSegment, SMTT(30)
    <3>2. lo + (PrefixBytes + Len(p)) = hi /\ lo + (a - lo) = a
      BY <1>3, <1>4
    <3> QED
      BY <1>6, <2>2, <3>1, <3>2 DEF Rest, hi
  <2>6. SubSeq(b, PrefixBytes + 1, FrameEnd(b)) = p
    <3>1. PrefixBytes <= PrefixBytes + Len(p)
      BY <1>3
    <3>2. SubSeq(b, PrefixBytes + 1, PrefixBytes + Len(p)) = SubSeq(written, (lo + PrefixBytes) + 1, lo + (PrefixBytes + Len(p)))
      BY <1>1, <1>4, <1>6, <2>3, <2>4, <3>1, SegmentOfSegment
    <3>3. lo + (PrefixBytes + Len(p)) = hi
      BY <1>3, <1>4
    <3> QED
      BY <1>5, <2>2, <3>2, <3>3
  <2> DEFINE later == Decode[Rest(k, a)]
             d == [later EXCEPT !.frames = <<p>> \o @]
  <2>7. StepOf(Decode, b) = d
    <3>1. ~ (Len(b) < PrefixBytes)
      BY <1>6, <1>4, <2>1
    <3> QED
      BY <2>2, <2>5, <2>6, <3>1 DEF StepOf
  <2>8. later \in Decoded /\ \E m \in k..Len(sent) : TakenUpTo(m, k, a, later)
    BY <2>1 DEF Taken, hi, k
  <2>9. PICK m \in k..Len(sent) : TakenUpTo(m, k, a, later)
    BY <2>8
  <2> HIDE DEF later
  <2>10. d \in Decoded /\ d.frames = <<p>> \o later.frames /\ d.rest = later.rest /\ d.throws = later.throws
    <3>1. <<p>> \in Seq(Payloads) /\ later.frames \in Seq(Payloads)
      BY <1>3, <2>8 DEF Decoded
    <3>2. <<p>> \o later.frames \in Seq(Payloads)
      BY <3>1
    <3> QED
      BY <2>8, <3>2 DEF Decoded
  <2> HIDE DEF d
  <2>11. Len(d.frames) = m - e /\ \A i \in 1..(m - e) : d.frames[i] = sent[e + i]
    <3> DEFINE fs == later.frames
    <3>1. fs \in Seq(Payloads) /\ Len(fs) = m - k /\ \A i \in 1..(m - k) : fs[i] = sent[k + i]
      BY <2>8, <2>9 DEF Decoded, TakenUpTo
    <3> HIDE DEF fs
    <3>2. Len(<<p>> \o fs) = 1 + Len(fs) /\ (<<p>> \o fs)[1] = p
          /\ \A i \in 2..(1 + Len(fs)) : (<<p>> \o fs)[i] = fs[i - 1]
      BY <1>3, <3>1
    <3>3. m \in Nat /\ k = e + 1
      BY <1>2 DEF k
    <3>4. 1 + Len(fs) = m - e
      BY <3>1, <3>3
    <3>5. ASSUME NEW i \in 1..(m - e)  PROVE (<<p>> \o fs)[i] = sent[e + i]
      <4>1. CASE i = 1
        BY <3>2, <3>3, <4>1 DEF p
      <4>2. CASE i # 1
        <5>1. i \in 2..(1 + Len(fs)) /\ i - 1 \in 1..(m - k) /\ k + (i - 1) = e + i
          BY <3>1, <3>3, <3>4, <4>2
        <5> QED
          BY <3>1, <3>2, <5>1
      <4> QED
        BY <4>1, <4>2
    <3>6. d.frames = <<p>> \o fs
      BY <2>10 DEF fs
    <3> QED
      BY <3>2, <3>4, <3>5, <3>6
  <2>12. TakenUpTo(m, e, a, d)
    BY <2>9, <2>10, <2>11 DEF TakenUpTo
  <2>13. m \in e..Len(sent)
    BY <1>2 DEF k
  <2>14. Taken(e, a, d)
    BY <2>10, <2>12, <2>13 DEF Taken
  <2> QED
    BY <1>6, <2>7, <2>14, DecodeUnfolds DEF b
<1> QED
  BY <1>9, <1>10

\* However many messages wait in the buffer, push() takes all that are whole.
LEMMA DecodeTakes ==
    ASSUME TypeOK, FramesWritten, NEW a \in Nat, a <= Len(written),
           NEW e \in 0..Len(sent), EndOf(sent, e) <= a
    PROVE  Taken(e, a, Decode[Rest(e, a)])
<1> DEFINE n == Len(sent)
           E == {i \in Nat : i <= n => (EndOf(sent, n - i) <= a => Taken(n - i, a, Decode[Rest(n - i, a)]))}
<1>1. n \in Nat
  BY DEF TypeOK
<1>2. \A i \in Nat : i \in E
  <2>1. 0 \in E
    <3>1. n - 0 = n
      BY <1>1
    <3> QED
      BY <3>1, DecodeLast
  <2>2. ASSUME NEW i \in Nat, i \in E  PROVE i + 1 \in E
    <3> SUFFICES ASSUME i + 1 <= n, EndOf(sent, n - (i + 1)) <= a
                 PROVE  Taken(n - (i + 1), a, Decode[Rest(n - (i + 1), a)])
      OBVIOUS
    <3> DEFINE j == n - (i + 1)
    <3>1. j \in Nat /\ j < Len(sent) /\ j + 1 = n - i /\ i <= n
      BY <1>1
    <3>2. EndOf(sent, j + 1) <= a => Taken(j + 1, a, Decode[Rest(j + 1, a)])
      BY <2>2, <3>1
    <3>3. EndOf(sent, j) <= a
      OBVIOUS
    <3> HIDE DEF j
    <3>4. Taken(j, a, Decode[Rest(j, a)])
      BY <3>1, <3>2, <3>3, DecodeNext
    <3> QED
      BY <3>4 DEF j
  <2> HIDE DEF E
  <2> QED
    BY <2>1, <2>2, Induction
<1>3. n - e \in Nat /\ n - e <= n /\ n - (n - e) = e
  BY <1>1
<1>4. (n - e) \in E
  BY <1>2, <1>3
<1> HIDE DEF n
<1> QED
  BY <1>3, <1>4

-----------------------------------------------------------------------------
(* The invariant.                                                             *)

LEMMA Concatenation ==
    ASSUME NEW T, NEW p \in Seq(T), NEW q \in Seq(T)
    PROVE  p \o q \in Seq(T) /\ Len(p \o q) = Len(p) + Len(q)
  OBVIOUS

LEMMA SameElements ==
    ASSUME NEW T, NEW p \in Seq(T), NEW q \in Seq(T), Len(p) = Len(q),
           \A i \in 1..Len(p) : p[i] = q[i]
    PROVE  p = q
  OBVIOUS

LEMMA SegmentOfLonger ==
    ASSUME NEW T, NEW w \in Seq(T), NEW v \in Seq(T),
           NEW lo \in Nat, NEW hi \in Nat, lo <= hi, hi <= Len(w)
    PROVE  SubSeq(w \o v, lo + 1, hi) = SubSeq(w, lo + 1, hi)
<1> DEFINE u == w \o v
           p == SubSeq(u, lo + 1, hi)
           q == SubSeq(w, lo + 1, hi)
<1>1. u \in Seq(T) /\ hi <= Len(u) /\ \A i \in 1..Len(w) : u[i] = w[i]
  OBVIOUS
<1> HIDE DEF u
<1>2. p \in Seq(T) /\ Len(p) = hi - lo /\ \A i \in 1..(hi - lo) : p[i] = u[lo + i]
  BY <1>1, Segment
<1>3. q \in Seq(T) /\ Len(q) = hi - lo /\ \A i \in 1..(hi - lo) : q[i] = w[lo + i]
  BY Segment
<1> HIDE DEF p, q
<1>4. \A i \in 1..(hi - lo) : p[i] = q[i]
  <2> SUFFICES ASSUME NEW i \in 1..(hi - lo)  PROVE p[i] = q[i]
    OBVIOUS
  <2>1. lo + i \in 1..Len(w)
    OBVIOUS
  <2> QED
    BY <1>1, <1>2, <1>3, <2>1
<1>5. p = q
  BY <1>2, <1>3, <1>4
<1> QED
  BY <1>5 DEF p, q, u

LEMMA SegmentAdded ==
    ASSUME NEW T, NEW w \in Seq(T), NEW v \in Seq(T)
    PROVE  SubSeq(w \o v, Len(w) + 1, Len(w) + Len(v)) = v
  OBVIOUS

LEMMA SegmentsJoin ==
    ASSUME NEW T, NEW w \in Seq(T), NEW lo \in Nat, NEW mid \in Nat, NEW hi \in Nat,
           lo <= mid, mid <= hi, hi <= Len(w)
    PROVE  SubSeq(w, lo + 1, mid) \o SubSeq(w, mid + 1, hi) = SubSeq(w, lo + 1, hi)
<1> DEFINE p == SubSeq(w, lo + 1, mid)
           q == SubSeq(w, mid + 1, hi)
           r == SubSeq(w, lo + 1, hi)
<1>1. p \in Seq(T) /\ Len(p) = mid - lo /\ \A i \in 1..(mid - lo) : p[i] = w[lo + i]
  BY Segment
<1>2. q \in Seq(T) /\ Len(q) = hi - mid /\ \A i \in 1..(hi - mid) : q[i] = w[mid + i]
  BY Segment
<1>3. r \in Seq(T) /\ Len(r) = hi - lo /\ \A i \in 1..(hi - lo) : r[i] = w[lo + i]
  BY Segment
<1> HIDE DEF p, q, r
<1>4. p \o q \in Seq(T) /\ Len(p \o q) = hi - lo
  <2>1. (mid - lo) + (hi - mid) = hi - lo
    OBVIOUS
  <2> QED
    BY <1>1, <1>2, <2>1, Concatenation
<1>5. ASSUME NEW i \in 1..(hi - lo)  PROVE (p \o q)[i] = r[i]
  <2>1. CASE i <= mid - lo
    <3>1. i \in 1..(mid - lo) /\ (p \o q)[i] = p[i]
      BY <1>1, <1>2, <2>1
    <3> QED
      BY <1>1, <1>3, <3>1
  <2>2. CASE i > mid - lo
    <3>1. i - (mid - lo) \in 1..(hi - mid) /\ mid + (i - (mid - lo)) = lo + i
      BY <2>2
    <3>2. (p \o q)[i] = q[i - (mid - lo)]
      BY <1>1, <1>2, <2>2
    <3> QED
      BY <1>2, <1>3, <3>1, <3>2
  <2>3. i <= mid - lo \/ i > mid - lo
    OBVIOUS
  <2> QED
    BY <2>1, <2>2, <2>3
<1>6. p \o q = r
  BY <1>3, <1>4, <1>5, SameElements
<1> QED
  BY <1>6 DEF p, q, r

LEMMA InitIInv == Init => IInv
<1> SUFFICES ASSUME Init  PROVE IInv
  OBVIOUS
<1>1. <<>> \in Seq(Byte) /\ <<>> \in Seq(Payloads) /\ Len(<<>>) = 0
  OBVIOUS
<1>2. TypeOK
  <2>1. 1 \in 1..MaxConnections /\ 0 \in 0..Len(<<>>)
    BY <1>1, BoundsAssumption
  <2> QED
    BY <1>1, <2>1 DEF Init, TypeOK
<1>3. EndOf(<<>>, 0) = 0
  BY <1>1, EndOfFacts
<1>4. FramesWritten
  BY <1>1, <1>3 DEF Init, FramesWritten
<1>5. EmittedInOrder
  BY <1>1 DEF Init, EmittedInOrder
<1>6. BufferIsRest
  <2>1. SubSeq(<<>>, 0 + 1, 0) = <<>>
    OBVIOUS
  <2> QED
    BY <1>1, <1>3, <2>1 DEF Init, BufferIsRest, AllTaken, LimitPassed
<1>7. ~destroyed
  BY DEF Init
<1> QED
  BY <1>2, <1>4, <1>5, <1>6, <1>7 DEF IInv

\* The facts about where things stand that the steps of the peer need.
LEMMA Standing ==
    ASSUME IInv
    PROVE  /\ written \in Seq(Byte) /\ sent \in Seq(Payloads) /\ emitted \in Seq(Payloads)
           /\ Len(sent) \in Nat /\ Len(emitted) \in Nat /\ Len(emitted) <= Len(sent)
           /\ arrived \in Nat /\ arrived <= Len(written)
           /\ \A k \in 0..Len(sent) : EndOf(sent, k) \in Nat /\ EndOf(sent, k) <= EndOf(sent, Len(sent))
           /\ ~desynced => ~destroyed /\ Len(written) = EndOf(sent, Len(sent))
<1>1. /\ written \in Seq(Byte) /\ sent \in Seq(Payloads) /\ emitted \in Seq(Payloads)
      /\ arrived \in 0..Len(written)
  BY DEF IInv, TypeOK
<1>2. Len(emitted) <= Len(sent)
  BY DEF IInv, EmittedInOrder
<1>3. ASSUME NEW k \in 0..Len(sent)
      PROVE  EndOf(sent, k) \in Nat /\ EndOf(sent, k) <= EndOf(sent, Len(sent))
  <2>1. Len(sent) \in 0..Len(sent) /\ Len(sent) \in k..Len(sent) /\ Len(sent) - k \in Nat
    BY <1>1
  <2>2. EndOf(sent, k) \in Nat /\ EndOf(sent, Len(sent)) \in Nat
    BY <1>1, <2>1, EndOfFacts
  <2>3. EndOf(sent, k) + PrefixBytes * (Len(sent) - k) <= EndOf(sent, Len(sent))
    BY <1>1, <2>1, EndOfGrows
  <2>4. PrefixBytes * (Len(sent) - k) \in Nat
    BY <2>1
  <2> QED
    BY <2>2, <2>3, <2>4
<1>4. ~desynced => ~destroyed /\ Len(written) = EndOf(sent, Len(sent))
  <2>1. EndOf(sent, Len(sent)) \in Nat
    BY <1>1, <1>3
  <2> QED
    BY <2>1 DEF IInv, FramesWritten, LimitPassed
<1> QED
  BY <1>1, <1>2, <1>3, <1>4

LEMMA PeerWritesIInv ==
    ASSUME IInv, NEW payload \in Payloads, PeerWrites(payload)
    PROVE  IInv'
<1> DEFINE n == Len(sent)
           f == EncodeFrame(payload)
<1>1. /\ ~desynced /\ sent' = Append(sent, payload) /\ written' = written \o f
      /\ UNCHANGED <<connections, arrived, buffer, emitted, destroyed, desynced>>
  BY DEF PeerWrites
<1>2. /\ written \in Seq(Byte) /\ sent \in Seq(Payloads) /\ emitted \in Seq(Payloads)
      /\ n \in Nat /\ Len(emitted) \in Nat /\ Len(emitted) <= n
      /\ arrived \in Nat /\ arrived <= Len(written)
      /\ \A k \in 0..n : EndOf(sent, k) \in Nat /\ EndOf(sent, k) <= EndOf(sent, n)
      /\ ~destroyed /\ Len(written) = EndOf(sent, n)
  BY <1>1, Standing
<1>3. /\ payload \in Seq(Byte) /\ Len(payload) \in Nat
      /\ LengthBytes(Len(payload)) \in Seq(Byte) /\ Len(LengthBytes(Len(payload))) = PrefixBytes
  BY PayloadType, LengthBytesType
<1>4. f \in Seq(Byte) /\ Len(f) = PrefixBytes + Len(payload)
  BY <1>3 DEF EncodeFrame
<1> HIDE DEF f
<1>5. /\ sent' \in Seq(Payloads) /\ Len(sent') = n + 1 /\ sent'[n + 1] = payload
      /\ \A k \in 1..n : sent'[k] = sent[k]
  BY <1>1, <1>2
<1>6. /\ \A k \in 0..n : EndOf(sent', k) = EndOf(sent, k)
      /\ EndOf(sent', n + 1) = EndOf(sent, n) + Len(f)
  <2>1. \A k \in 0..n : EndOf(Append(sent, payload), k) = EndOf(sent, k)
    BY <1>2, EndOfAppend
  <2>2. n + 1 \in 1..Len(sent') /\ (n + 1) - 1 = n /\ n \in 0..n
    BY <1>2, <1>5
  <2>3. EndOf(sent', n + 1) = EndOf(sent', n) + PrefixBytes + Len(payload)
    BY <1>5, <2>2, EndOfFacts
  <2>4. EndOf(sent', n) = EndOf(sent, n) /\ EndOf(sent, n) \in Nat
    BY <1>1, <1>2, <2>1, <2>2
  <2> HIDE DEF n
  <2> QED
    BY <1>1, <1>3, <1>4, <2>1, <2>3, <2>4 DEF n
<1>7. written' \in Seq(Byte) /\ Len(written') = Len(written) + Len(f)
  BY <1>1, <1>2, <1>4, Concatenation
<1>8. ASSUME NEW lo \in Nat, NEW hi \in Nat, lo <= hi, hi <= Len(written)
      PROVE  SubSeq(written', lo + 1, hi) = SubSeq(written, lo + 1, hi)
  BY <1>1, <1>2, <1>4, <1>8, SegmentOfLonger
<1>9. TypeOK'
  <2>1. arrived \in 0..Len(written')
    BY <1>2, <1>4, <1>7
  <2>2. TypeOK
    BY DEF IInv
  <2> QED
    BY <1>1, <1>5, <1>7, <2>1, <2>2 DEF TypeOK
<1>10. FramesWritten'
  <2>1. ASSUME NEW k \in 1..Len(sent')
        PROVE  SubSeq(written', EndOf(sent', k - 1) + 1, EndOf(sent', k)) = EncodeFrame(sent'[k])
    <3>1. CASE k <= n
      <4>1. k \in 1..n /\ k \in 0..n /\ k - 1 \in 0..n
        BY <1>2, <3>1
      <4>2. SubSeq(written, EndOf(sent, k - 1) + 1, EndOf(sent, k)) = EncodeFrame(sent[k])
        BY <4>1 DEF IInv, FramesWritten
      <4>3. EndOf(sent, k - 1) <= EndOf(sent, k)
        BY <4>1, StartBeforeEnd DEF IInv, TypeOK
      <4>4. SubSeq(written', EndOf(sent, k - 1) + 1, EndOf(sent, k))
              = SubSeq(written, EndOf(sent, k - 1) + 1, EndOf(sent, k))
        BY <1>2, <1>8, <4>1, <4>3
      <4> QED
        BY <1>5, <1>6, <4>1, <4>2, <4>4
    <3>2. CASE k = n + 1
      <4>1. k - 1 = n /\ n \in 0..n
        BY <1>2, <3>2
      <4>2. SubSeq(written \o f, Len(written) + 1, Len(written) + Len(f)) = f
        BY <1>2, <1>4, SegmentAdded
      <4>3. EndOf(sent', k - 1) = Len(written) /\ EndOf(sent', k) = Len(written) + Len(f)
        BY <1>2, <1>6, <3>2, <4>1
      <4>4. EncodeFrame(sent'[k]) = f
        BY <1>5, <3>2 DEF f
      <4> QED
        BY <1>1, <4>2, <4>3, <4>4
    <3> QED
      BY <1>2, <1>5, <3>1, <3>2
  <2>2. Len(written') = EndOf(sent', Len(sent'))
    BY <1>2, <1>5, <1>6, <1>7
  <2>3. ~desynced'
    BY <1>1
  <2>4. EndOf(sent', Len(sent')) \in Nat
    BY <1>7, <2>2
  <2>5. Len(written') = EndOf(sent', Len(sent')) + (IF desynced' THEN PrefixBytes + MaxFrame + 1 ELSE 0)
    BY <2>2, <2>3, <2>4
  <2> QED
    BY <2>1, <2>3, <2>5 DEF FramesWritten
<1>11. EmittedInOrder'
  <2>1. EmittedInOrder
    BY DEF IInv
  <2>2. Len(emitted') <= Len(sent')
    BY <1>1, <1>2, <1>5
  <2>3. ASSUME NEW k \in 1..Len(emitted')  PROVE emitted'[k] = sent'[k]
    <3>1. k \in 1..n /\ k \in 1..Len(emitted)
      BY <1>1, <1>2
    <3> QED
      BY <1>1, <1>5, <2>1, <3>1 DEF EmittedInOrder
  <2> QED
    BY <2>2, <2>3 DEF EmittedInOrder
<1>12. BufferIsRest'
  <2> DEFINE m == Len(emitted)
  <2>1. buffer = SubSeq(written, EndOf(sent, m) + 1, arrived) /\ AllTaken(m, arrived)
    BY <1>2 DEF IInv, BufferIsRest
  <2>2. m \in 0..n /\ EndOf(sent', m) = EndOf(sent, m) /\ EndOf(sent, m) \in Nat /\ EndOf(sent, m) <= arrived
    BY <1>2, <1>6, <2>1 DEF AllTaken
  <2>3. buffer' = SubSeq(written', EndOf(sent', m) + 1, arrived')
    <3> HIDE DEF m
    <3>1. EndOf(sent, m) \in Nat /\ arrived \in Nat /\ EndOf(sent, m) <= arrived /\ arrived <= Len(written)
      BY <1>2, <2>2
    <3>2. SubSeq(written', EndOf(sent, m) + 1, arrived) = SubSeq(written, EndOf(sent, m) + 1, arrived)
      BY <1>8, <3>1
    <3> QED
      BY <1>1, <2>1, <2>2, <3>2
  <2>4. ASSUME m < n + 1  PROVE arrived < EndOf(sent', m + 1)
    <3>1. CASE m < n
      <4>1. m + 1 \in 0..n /\ arrived < EndOf(sent, m + 1)
        BY <1>2, <2>1, <3>1 DEF AllTaken
      <4> QED
        BY <1>6, <4>1
    <3>2. CASE m = n
      BY <1>2, <1>3, <1>4, <1>6, <3>2
    <3> QED
      BY <1>2, <2>4, <3>1, <3>2
  <2>5. ~desynced'
    BY <1>1
  <2>6. m = Len(emitted')
    BY <1>1
  <2>7. AllTaken(Len(emitted), arrived)'
    BY <1>1, <1>5, <2>2, <2>4, <2>6 DEF AllTaken
  <2> QED
    BY <2>3, <2>5, <2>6, <2>7 DEF BufferIsRest, LimitPassed
<1>13. ~destroyed'
  BY <1>1, <1>2
<1> QED
  BY <1>9, <1>10, <1>11, <1>12, <1>13 DEF IInv

LEMMA PeerDesyncsIInv ==
    ASSUME IInv, PeerDesyncs
    PROVE  IInv'
<1> DEFINE n == Len(sent)
           h == LengthBytes(MaxFrame + 1)
           z == [i \in 1..(MaxFrame + 1) |-> 0]
<1>1. /\ ~desynced /\ desynced' /\ desynced' \in BOOLEAN /\ written' = (written \o h) \o z
      /\ UNCHANGED <<connections, arrived, buffer, emitted, destroyed, sent>>
  BY DEF PeerDesyncs
<1>2. /\ written \in Seq(Byte) /\ sent \in Seq(Payloads) /\ emitted \in Seq(Payloads)
      /\ n \in Nat /\ Len(emitted) \in Nat /\ Len(emitted) <= n
      /\ arrived \in Nat /\ arrived <= Len(written)
      /\ \A k \in 0..n : EndOf(sent, k) \in Nat /\ EndOf(sent, k) <= EndOf(sent, n)
      /\ ~destroyed /\ Len(written) = EndOf(sent, n)
  BY <1>1, Standing
<1>3. MaxFrame + 1 \in Nat /\ 0 \in Byte
  BY LimitAssumption DEF Byte
<1>4. h \in Seq(Byte) /\ Len(h) = PrefixBytes
  BY <1>3, LengthBytesType
<1>5. z \in Seq(Byte) /\ Len(z) = MaxFrame + 1
  BY <1>3
<1> HIDE DEF h, z
<1>6. written \o h \in Seq(Byte) /\ Len(written \o h) = Len(written) + PrefixBytes
  BY <1>2, <1>4, Concatenation
<1>7. written' \in Seq(Byte) /\ Len(written') = Len(written) + PrefixBytes + MaxFrame + 1
  <2>1. written' \in Seq(Byte) /\ Len(written') = Len(written \o h) + Len(z)
    BY <1>1, <1>5, <1>6, Concatenation
  <2>2. Len(written) \in Nat /\ MaxFrame \in Nat
    BY <1>2, LimitAssumption
  <2>3. Len(written') = (Len(written) + PrefixBytes) + (MaxFrame + 1)
    BY <1>5, <1>6, <2>1, Zenon
  <2> QED
    BY <2>1, <2>2, <2>3
<1>8. ASSUME NEW lo \in Nat, NEW hi \in Nat, lo <= hi, hi <= Len(written)
      PROVE  SubSeq(written', lo + 1, hi) = SubSeq(written, lo + 1, hi)
  <2>1. SubSeq(written \o h, lo + 1, hi) = SubSeq(written, lo + 1, hi)
    BY <1>2, <1>4, <1>8, SegmentOfLonger
  <2>2. hi <= Len(written \o h)
    BY <1>2, <1>6, <1>8
  <2>3. SubSeq((written \o h) \o z, lo + 1, hi) = SubSeq(written \o h, lo + 1, hi)
    BY <1>5, <1>6, <1>8, <2>2, SegmentOfLonger
  <2> QED
    BY <1>1, <2>1, <2>3
<1>9. TypeOK'
  <2>1. arrived \in 0..Len(written')
    <3>1. Len(written) \in Nat /\ MaxFrame \in Nat /\ arrived \in Nat /\ arrived <= Len(written)
      BY <1>2, LimitAssumption
    <3> QED
      BY <1>7, <3>1
  <2>2. TypeOK
    BY DEF IInv
  <2> QED
    BY <1>1, <1>7, <2>1, <2>2 DEF TypeOK
<1>10. FramesWritten'
  <2>1. ASSUME NEW k \in 1..n
        PROVE  SubSeq(written', EndOf(sent, k - 1) + 1, EndOf(sent, k)) = EncodeFrame(sent[k])
    <3>1. k \in 0..n /\ k - 1 \in 0..n
      BY <1>2
    <3>2. SubSeq(written, EndOf(sent, k - 1) + 1, EndOf(sent, k)) = EncodeFrame(sent[k])
      BY DEF IInv, FramesWritten
    <3>3. EndOf(sent, k - 1) <= EndOf(sent, k)
      BY StartBeforeEnd DEF IInv, TypeOK
    <3>4. SubSeq(written', EndOf(sent, k - 1) + 1, EndOf(sent, k))
            = SubSeq(written, EndOf(sent, k - 1) + 1, EndOf(sent, k))
      BY <1>2, <1>8, <3>1, <3>3
    <3> QED
      BY <3>2, <3>4
  <2>2. SubSeq(written', EndOf(sent, n) + 1, EndOf(sent, n) + PrefixBytes) = h
    <3>1. SubSeq(written \o h, Len(written) + 1, Len(written) + PrefixBytes) = h
      BY <1>2, <1>4, SegmentAdded
    <3>2. Len(written) \in Nat /\ Len(written) + PrefixBytes \in Nat /\ Len(written) <= Len(written) + PrefixBytes
      BY <1>2
    <3>3. Len(written) + PrefixBytes <= Len(written \o h)
      BY <1>2, <1>6
    <3>4. SubSeq((written \o h) \o z, Len(written) + 1, Len(written) + PrefixBytes)
            = SubSeq(written \o h, Len(written) + 1, Len(written) + PrefixBytes)
      BY <1>5, <1>6, <3>2, <3>3, SegmentOfLonger
    <3> QED
      BY <1>1, <1>2, <3>1, <3>4
  <2>3. Len(written') = EndOf(sent, n) + (IF desynced' THEN PrefixBytes + MaxFrame + 1 ELSE 0)
    <3>1. Len(written') = EndOf(sent, n) + (PrefixBytes + MaxFrame + 1)
      <4>1. Len(written) \in Nat /\ MaxFrame \in Nat /\ Len(written) = EndOf(sent, n)
        BY <1>2, LimitAssumption
      <4> QED
        BY <1>7, <4>1
    <3> QED
      BY <1>1, <3>1
  <2>4. sent' = sent
    BY <1>1
  <2> QED
    BY <2>1, <2>2, <2>3, <2>4 DEF FramesWritten, h
<1>11. EmittedInOrder'
  BY <1>1 DEF IInv, EmittedInOrder
<1>12. BufferIsRest'
  <2> DEFINE m == Len(emitted)
  <2>1. buffer = SubSeq(written, EndOf(sent, m) + 1, arrived) /\ AllTaken(m, arrived)
    BY <1>2 DEF IInv, BufferIsRest
  <2>2. m \in 0..n /\ EndOf(sent, m) \in Nat /\ EndOf(sent, m) <= arrived
    BY <1>2, <2>1 DEF AllTaken
  <2>3. SubSeq(written', EndOf(sent, m) + 1, arrived) = SubSeq(written, EndOf(sent, m) + 1, arrived)
    <3> HIDE DEF m
    <3> QED
      BY <1>2, <1>8, <2>2
  <2>4. ~LimitPassed(arrived)'
    <3>1. ~ (arrived >= EndOf(sent, n) + PrefixBytes)
      BY <1>2
    <3> QED
      BY <1>1, <3>1 DEF LimitPassed
  <2>5. AllTaken(Len(emitted), arrived)'
    BY <1>1, <2>1 DEF AllTaken
  <2>6. buffer' = SubSeq(written', EndOf(sent', Len(emitted')) + 1, arrived')
    BY <1>1, <2>1, <2>3
  <2> QED
    BY <2>4, <2>5, <2>6 DEF BufferIsRest
<1>13. ~destroyed'
  BY <1>1, <1>2
<1> QED
  BY <1>9, <1>10, <1>11, <1>12, <1>13 DEF IInv

LEMMA PushIInv ==
    ASSUME IInv, NEW n \in 1..(Len(written) - arrived), Push(n)
    PROVE  IInv'
<1> DEFINE e == Len(emitted)
           a == arrived + n
           d == Decode[buffer \o SubSeq(written, arrived + 1, a)]
<1>1. /\ written \in Seq(Byte) /\ sent \in Seq(Payloads) /\ emitted \in Seq(Payloads)
      /\ Len(sent) \in Nat /\ e \in Nat /\ e <= Len(sent)
      /\ arrived \in Nat /\ arrived <= Len(written)
  BY Standing
<1>2. TypeOK /\ FramesWritten /\ EmittedInOrder /\ ~destroyed /\ BufferIsRest
  BY DEF IInv, Push
<1>3. /\ arrived' = a /\ buffer' = d.rest /\ destroyed' = d.throws
      /\ emitted' = IF d.throws THEN emitted ELSE emitted \o d.frames
      /\ UNCHANGED <<connections, written, sent, desynced>>
  BY DEF Push
<1>4. a \in Nat /\ arrived <= a /\ a <= Len(written)
  BY <1>1
<1>5. e \in 0..Len(sent) /\ EndOf(sent, e) \in Nat /\ EndOf(sent, e) <= arrived
      /\ buffer = SubSeq(written, EndOf(sent, e) + 1, arrived)
  BY <1>1, <1>2, EndOfFacts DEF BufferIsRest, AllTaken
<1>6. d = Decode[Rest(e, a)]
  <2> HIDE DEF a, e
  <2> DEFINE lo == EndOf(sent, e)
  <2>1. lo \in Nat /\ lo <= arrived
    BY <1>5
  <2> HIDE DEF lo
  <2>2. SubSeq(written, lo + 1, arrived) \o SubSeq(written, arrived + 1, a) = SubSeq(written, lo + 1, a)
    BY <1>1, <1>4, <2>1, SegmentsJoin
  <2> QED
    BY <1>5, <2>2 DEF Rest, lo
<1> HIDE DEF d
<1>7. Taken(e, a, d)
  <2> HIDE DEF e, a
  <2>1. EndOf(sent, e) <= a
    BY <1>1, <1>4, <1>5
  <2> QED
    BY <1>2, <1>4, <1>5, <1>6, <2>1, DecodeTakes
<1>8. PICK m \in e..Len(sent) : TakenUpTo(m, e, a, d)
  BY <1>7 DEF Taken
<1>9. d.frames \in Seq(Payloads) /\ d.rest \in Seq(Byte) /\ d.throws \in BOOLEAN
  BY <1>7 DEF Taken, Decoded
<1>10. /\ Len(d.frames) = m - e /\ \A i \in 1..(m - e) : d.frames[i] = sent[e + i]
       /\ EndOf(sent, m) <= a /\ d.rest = SubSeq(written, EndOf(sent, m) + 1, a)
       /\ d.throws <=> (m = Len(sent) /\ LimitPassed(a))
       /\ m < Len(sent) => a < EndOf(sent, m + 1)
  BY <1>8 DEF TakenUpTo
<1>11. emitted' \in Seq(Payloads)
  BY <1>1, <1>3, <1>9, Concatenation
<1>12. TypeOK'
  <2>1. a \in 0..Len(written)
    BY <1>4
  <2> QED
    BY <1>2, <1>3, <1>9, <1>11, <2>1 DEF TypeOK
<1>13. FramesWritten'
  BY <1>2, <1>3 DEF FramesWritten
<1>14. CASE d.throws
  <2>1. emitted' = emitted /\ LimitPassed(a) /\ destroyed' = TRUE
    BY <1>3, <1>9, <1>10, <1>14
  <2>2. EmittedInOrder'
    BY <1>2, <1>3, <2>1 DEF EmittedInOrder
  <2>3. LimitPassed(arrived)'
    BY <1>3, <2>1 DEF LimitPassed
  <2> QED
    BY <1>12, <1>13, <2>1, <2>2, <2>3 DEF IInv
<1>15. CASE ~d.throws
  <2>1. emitted' = emitted \o d.frames /\ destroyed' = FALSE
    BY <1>3, <1>9, <1>15
  <2>2. m \in Nat /\ e <= m /\ m <= Len(sent) /\ e + (m - e) = m
    BY <1>1
  <2>3. Len(emitted') = m
    BY <1>1, <1>9, <1>10, <2>1, <2>2, Concatenation
  <2>4. ASSUME NEW k \in 1..m  PROVE emitted'[k] = sent[k]
    <3>1. CASE k <= e
      <4>1. k \in 1..e /\ emitted[k] = sent[k]
        BY <1>1, <1>2, <2>2, <3>1 DEF EmittedInOrder
      <4>2. (emitted \o d.frames)[k] = emitted[k]
        BY <1>1, <1>9, <4>1
      <4> QED
        BY <2>1, <4>1, <4>2
    <3>2. CASE k > e
      <4>1. k - e \in 1..(m - e) /\ e + (k - e) = k
        BY <1>1, <2>2, <3>2
      <4>2. (emitted \o d.frames)[k] = d.frames[k - e]
        BY <1>1, <1>9, <1>10, <2>2, <3>2, <4>1
      <4> QED
        BY <1>10, <2>1, <4>1, <4>2
    <3> QED
      BY <1>1, <2>2, <3>1, <3>2
  <2>5. EmittedInOrder'
    BY <1>3, <2>2, <2>3, <2>4 DEF EmittedInOrder
  <2>6. ~LimitPassed(a)
    <3>1. CASE m = Len(sent)
      BY <1>10, <1>15, <3>1
    <3>2. CASE m < Len(sent)
      <4>1. m + 1 \in 0..Len(sent)
        BY <1>1, <2>2, <3>2
      <4>2. EndOf(sent, m + 1) \in Nat /\ EndOf(sent, m + 1) <= EndOf(sent, Len(sent)) /\ EndOf(sent, Len(sent)) \in Nat
        BY <1>1, <4>1, Standing
      <4>3. a < EndOf(sent, m + 1)
        BY <1>10, <3>2
      <4> QED
        BY <1>4, <4>2, <4>3 DEF LimitPassed
    <3> QED
      BY <1>1, <2>2, <3>1, <3>2
  <2>7. AllTaken(Len(emitted), arrived)'
    BY <1>3, <1>10, <2>3 DEF AllTaken
  <2>8. BufferIsRest'
    <3>1. buffer' = SubSeq(written', EndOf(sent', Len(emitted')) + 1, arrived')
      BY <1>3, <1>10, <2>3
    <3>2. ~LimitPassed(arrived)'
      BY <1>3, <2>6 DEF LimitPassed
    <3> QED
      BY <2>7, <3>1, <3>2 DEF BufferIsRest
  <2> QED
    BY <1>12, <1>13, <2>1, <2>5, <2>8 DEF IInv
<1> QED
  BY <1>14, <1>15

LEMMA NewConnectionIInv ==
    ASSUME IInv, NewConnection
    PROVE  IInv'
<1>1. /\ connections < MaxConnections /\ connections' = connections + 1
      /\ written' = <<>> /\ arrived' = 0 /\ buffer' = <<>> /\ emitted' = <<>> /\ sent' = <<>>
      /\ destroyed' = FALSE /\ desynced' = FALSE
  BY DEF NewConnection
<1>2. <<>> \in Seq(Byte) /\ <<>> \in Seq(Payloads) /\ Len(<<>>) = 0
  OBVIOUS
<1>3. EndOf(<<>>, 0) = 0
  BY <1>2, EndOfFacts
<1>4. TypeOK'
  <2>1. connections \in 1..MaxConnections
    BY DEF IInv, TypeOK
  <2>2. connections' \in 1..MaxConnections /\ arrived' \in 0..Len(<<>>)
    BY <1>1, <1>2, <2>1, BoundsAssumption
  <2> QED
    BY <1>1, <1>2, <2>2 DEF TypeOK
<1>5. FramesWritten'
  BY <1>1, <1>2, <1>3 DEF FramesWritten
<1>6. EmittedInOrder'
  BY <1>1, <1>2 DEF EmittedInOrder
<1>7. BufferIsRest'
  <2>1. SubSeq(<<>>, 0 + 1, 0) = <<>>
    OBVIOUS
  <2> QED
    BY <1>1, <1>2, <1>3, <2>1 DEF BufferIsRest, AllTaken, LimitPassed
<1>8. ~destroyed'
  BY <1>1
<1> QED
  BY <1>4, <1>5, <1>6, <1>7, <1>8 DEF IInv

-----------------------------------------------------------------------------
(* Whatever is written, however it is cut and whenever the connection is replaced, *)
(* the buffer holds exactly what follows the messages emitted.                     *)
THEOREM IInvHolds == Spec => []IInv
<1>1. IInv /\ [Next]_vars => IInv'
  <2> SUFFICES ASSUME IInv, [Next]_vars  PROVE IInv'
    OBVIOUS
  <2>1. CASE \E payload \in Payloads : PeerWrites(payload)
    BY <2>1, PeerWritesIInv
  <2>2. CASE PeerDesyncs
    BY <2>2, PeerDesyncsIInv
  <2>3. CASE \E n \in 1..(Len(written) - arrived) : Push(n)
    BY <2>3, PushIInv
  <2>4. CASE NewConnection
    BY <2>4, NewConnectionIInv
  <2>5. CASE UNCHANGED vars
    BY <2>5 DEF vars, IInv, TypeOK, FramesWritten, EmittedInOrder, BufferIsRest, AllTaken, LimitPassed
  <2> QED
    BY <2>1, <2>2, <2>3, <2>4, <2>5 DEF Next
<1> QED
  BY <1>1, InitIInv, PTL DEF Spec

(* What is emitted is what the peer wrote on this connection, in order and whole: *)
(* push() neither loses a byte at the cuts nor keeps one of the old connection.   *)
THEOREM OnlyWhatWasSentHolds == Spec => []OnlyWhatWasSent
<1>1. IInv => OnlyWhatWasSent
  <2> SUFFICES ASSUME IInv  PROVE OnlyWhatWasSent
    OBVIOUS
  <2> DEFINE m == Len(emitted)
  <2>1. /\ sent \in Seq(Payloads) /\ emitted \in Seq(Payloads)
        /\ Len(sent) \in Nat /\ m \in Nat /\ m <= Len(sent)
    BY Standing
  <2>2. \A k \in 1..m : emitted[k] = sent[k]
    BY DEF IInv, EmittedInOrder
  <2> HIDE DEF m
  <2>3. /\ SubSeq(emitted, 0 + 1, m) \in Seq(Payloads) /\ Len(SubSeq(emitted, 0 + 1, m)) = m - 0
        /\ \A i \in 1..(m - 0) : SubSeq(emitted, 0 + 1, m)[i] = emitted[0 + i]
    BY <2>1, Segment DEF m
  <2>4. /\ SubSeq(sent, 0 + 1, m) \in Seq(Payloads) /\ Len(SubSeq(sent, 0 + 1, m)) = m - 0
        /\ \A i \in 1..(m - 0) : SubSeq(sent, 0 + 1, m)[i] = sent[0 + i]
    BY <2>1, Segment
  <2>5. m - 0 = m /\ 0 + 1 = 1 /\ \A i \in 1..m : 0 + i = i
    BY <2>1
  <2>6. SubSeq(emitted, 1, m) = SubSeq(sent, 1, m)
    BY <2>2, <2>3, <2>4, <2>5, SameElements
  <2> QED
    BY <2>1, <2>6 DEF OnlyWhatWasSent, IsPrefix, m
<1> QED
  BY <1>1, IInvHolds, PTL

(* A message leaves the decoder with the chunk its last byte is in: Incomplete    *)
(* asks for no byte more than the frame.                                          *)
THEOREM NothingHeldBackHolds == Spec => []NothingHeldBack
<1>1. IInv => NothingHeldBack
  <2> SUFFICES ASSUME IInv, ~destroyed, NEW k \in 1..Len(sent), EndOf(sent, k) <= arrived
               PROVE  k <= Len(emitted)
    BY DEF NothingHeldBack
  <2> DEFINE m == Len(emitted)
  <2>1. sent \in Seq(Payloads) /\ Len(sent) \in Nat /\ m \in Nat /\ m <= Len(sent) /\ arrived \in Nat
    BY Standing
  <2>2. m < Len(sent) => arrived < EndOf(sent, m + 1)
    BY DEF IInv, BufferIsRest, AllTaken
  <2> HIDE DEF m
  <2>3. ASSUME k > m  PROVE FALSE
    <3>1. m + 1 \in 0..Len(sent) /\ k \in (m + 1)..Len(sent) /\ k \in 0..Len(sent) /\ k - (m + 1) \in Nat
      BY <2>1, <2>3
    <3>2. EndOf(sent, m + 1) + PrefixBytes * (k - (m + 1)) <= EndOf(sent, k)
      BY <2>1, <3>1, EndOfGrows
    <3>3. EndOf(sent, m + 1) \in Nat /\ EndOf(sent, k) \in Nat /\ PrefixBytes * (k - (m + 1)) \in Nat
      BY <2>1, <3>1, EndOfFacts
    <3>4. arrived < EndOf(sent, m + 1)
      BY <2>1, <2>2, <2>3
    <3> QED
      BY <2>1, <3>2, <3>3, <3>4
  <2> QED
    BY <2>1, <2>3 DEF m
<1> QED
  BY <1>1, IInvHolds, PTL

(* The limit check ends the connection for a length past the limit, as soon as the *)
(* prefix has arrived, and for nothing else: not for the longest frame allowed.    *)
THEOREM DesyncEndsTheConnectionHolds == Spec => []DesyncEndsTheConnection
<1>1. IInv => DesyncEndsTheConnection
  BY DEF IInv, BufferIsRest, LimitPassed, DesyncEndsTheConnection
<1> QED
  BY <1>1, IInvHolds, PTL
=============================================================================
