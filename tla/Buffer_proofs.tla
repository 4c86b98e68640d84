---------------------------- MODULE Buffer_proofs ----------------------------
(***************************************************************************)
(* Proofs about Buffer for every headroom, initial size and size of        *)
(* readFd's extrabuff. MemoryBounded is inductive as it stands; the work   *)
(* is in the operators, of which each lemma says what the result holds,    *)
(* where its reader index is and how large its vector may be. From these   *)
(* every call is shown to be a step of ByteQueue. That an integer reads    *)
(* back as it was written takes an induction over its bytes, with which    *)
(* the module begins.                                                      *)
(***************************************************************************)
EXTENDS Buffer, SequenceTheorems, WellFoundedInduction, TLAPS

(***************************************************************************)
(* Induction over the naturals, for a set rather than a predicate: a least *)
(* number outside S would have a predecessor in S.                         *)
(***************************************************************************)
LEMMA InductionOnNat ==
  ASSUME NEW S, 0 \in S, \A n \in Nat : n \in S => n + 1 \in S
  PROVE  Nat \subseteq S
<1> DEFINE T == Nat \ S
           R == OpToRel(<, Nat)
<1>1. SUFFICES ASSUME T # {} PROVE FALSE
  OBVIOUS
<1>2. IsWellFoundedOn(R, Nat)
  BY Zenon, NatLessThanWellFounded
<1>3. \A m, n \in Nat : m < n => <<m, n>> \in R
  BY DEF OpToRel
<1> HIDE DEF R
<1>4. PICK x \in T : \A y \in T : ~ (<<y, x>> \in R)
  <2>1. T \subseteq Nat
    OBVIOUS
  <2> HIDE DEF T
  <2>2. QED
    BY Zenon, <1>1, <1>2, <2>1, WFMin
<1>5. x # 0 /\ x \in Nat
  OBVIOUS
<1>6. x - 1 \in Nat /\ x - 1 < x /\ (x - 1) + 1 = x
  BY <1>5
<1>7. x - 1 \in S
  BY Zenon, <1>3, <1>4, <1>5, <1>6
<1>8. QED
  BY <1>6, <1>7

(***************************************************************************)
(* g starts at a and follows step up to place n, where step[i][x] is what  *)
(* comes after x at place i; and a function on the naturals that does so   *)
(* throughout.                                                             *)
(***************************************************************************)
Follows(g, n, a, step) == g[0] = a /\ \A i \in 0..(n - 1) : g[i + 1] = step[i][g[i]]
Iterates(g, S, a, step) ==
  /\ g \in [Nat -> S]
  /\ g[0] = a
  /\ \A n \in Nat : g[n + 1] = step[n][g[n]]

(***************************************************************************)
(* A function defined by recursion on the naturals exists: its finite      *)
(* beginnings exist by induction, and agree with one another.              *)
(***************************************************************************)
LEMMA PrimitiveRecursion ==
  ASSUME NEW S, NEW a \in S, NEW step \in [Nat -> [S -> S]]
  PROVE  \E g : Iterates(g, S, a, step)
<1> DEFINE Has(n) == \E g \in [0..n -> S] : Follows(g, n, a, step)
           H == {n \in Nat : Has(n)}
<1>1. \A n \in Nat : Has(n)
  <2>1. 0 \in H
    <3>1. [i \in 0..0 |-> a] \in [0..0 -> S] /\ Follows([i \in 0..0 |-> a], 0, a, step)
      BY DEF Follows
    <3>2. QED
      BY <3>1
  <2>2. ASSUME NEW n \in Nat, n \in H PROVE n + 1 \in H
    <3>1. PICK g \in [0..n -> S] : Follows(g, n, a, step)
      BY <2>2
    <3> DEFINE h == [i \in 0..(n + 1) |-> IF i = n + 1 THEN step[n][g[n]] ELSE g[i]]
    <3>2. step[n][g[n]] \in S
      OBVIOUS
    <3>3. h \in [0..(n + 1) -> S]
      BY <3>2
    <3>4. \A i \in 0..n : h[i] = g[i]
      OBVIOUS
    <3>5. h[n + 1] = step[n][g[n]]
      OBVIOUS
    <3> HIDE DEF h
    <3>6. ASSUME NEW i \in 0..n PROVE h[i + 1] = step[i][h[i]]
      <4>1. CASE i = n
        BY <3>4, <3>5, <4>1
      <4>2. CASE i # n
        <5>1. i \in 0..(n - 1) /\ i + 1 \in 0..n
          BY <4>2
        <5>2. QED
          BY <3>1, <3>4, <5>1 DEF Follows
      <4>3. QED
        BY <4>1, <4>2
    <3>7. h[0] = a
      BY <3>1, <3>4 DEF Follows
    <3>8. Follows(h, n + 1, a, step)
      <4>1. (n + 1) - 1 = n
        OBVIOUS
      <4>2. QED
        BY <3>6, <3>7, <4>1 DEF Follows
    <3>9. QED
      BY <3>3, <3>8
  <2> HIDE DEF H
  <2>3. Nat \subseteq H
    BY <2>1, <2>2, InductionOnNat
  <2>4. QED
    BY <2>3 DEF H
<1>2. ASSUME NEW n \in Nat, NEW g \in [0..n -> S], NEW h \in [0..(n + 1) -> S],
             Follows(g, n, a, step), Follows(h, n + 1, a, step)
      PROVE  g[n] = h[n]
  <2> DEFINE E == {i \in Nat : i <= n => g[i] = h[i]}
  <2>1. 0 \in E
    BY <1>2 DEF Follows
  <2>2. ASSUME NEW i \in Nat, i \in E PROVE i + 1 \in E
    <3>1. SUFFICES ASSUME i + 1 <= n PROVE g[i + 1] = h[i + 1]
      OBVIOUS
    <3>2. i \in 0..(n - 1) /\ i \in 0..((n + 1) - 1) /\ i <= n
      BY <3>1
    <3>3. g[i] = h[i]
      BY <2>2, <3>2
    <3>4. QED
      BY <1>2, <3>2, <3>3 DEF Follows
  <2> HIDE DEF E
  <2>3. Nat \subseteq E
    BY Zenon, <2>1, <2>2, InductionOnNat
  <2>4. QED
    BY <2>3 DEF E
<1> HIDE DEF Has
<1> DEFINE G(n) == CHOOSE g \in [0..n -> S] : Follows(g, n, a, step)
           F == [n \in Nat |-> G(n)[n]]
<1>3. \A n \in Nat : G(n) \in [0..n -> S] /\ Follows(G(n), n, a, step)
  BY <1>1 DEF Has
<1> HIDE DEF G
<1>4. F \in [Nat -> S]
  BY <1>3
<1>5. F[0] = a
  BY <1>3 DEF Follows
<1>6. ASSUME NEW n \in Nat PROVE F[n + 1] = step[n][F[n]]
  <2>1. n + 1 \in Nat /\ n \in 0..((n + 1) - 1)
    OBVIOUS
  <2>2. /\ G(n) \in [0..n -> S] /\ Follows(G(n), n, a, step)
        /\ G(n + 1) \in [0..(n + 1) -> S] /\ Follows(G(n + 1), n + 1, a, step)
    BY <1>3, <2>1
  <2>3. G(n)[n] = G(n + 1)[n]
    BY Zenon, <1>2, <2>2
  <2>4. G(n + 1)[n + 1] = step[n][G(n + 1)[n]]
    BY <2>1, <2>2 DEF Follows
  <2>5. QED
    BY <2>1, <2>3, <2>4
<1>7. Iterates(F, S, a, step)
  BY <1>4, <1>5, <1>6 DEF Iterates
<1>8. QED
  BY <1>7
(***************************************************************************)
(* Base is a number of at least two.                                       *)
(***************************************************************************)
LEMMA BaseFact == Base \in Nat \ {0, 1}
BY BufferAssumption

(***************************************************************************)
(* Power satisfies its recursive definition.                               *)
(***************************************************************************)
LEMMA PowerDef == Power = [n \in Nat |-> IF n = 0 THEN 1 ELSE Base * Power[n - 1]]
<1> DEFINE step == [n \in Nat |-> [x \in Nat |-> Base * x]]
<1>1. step \in [Nat -> [Nat -> Nat]]
  BY BaseFact
<1>2. PICK g : Iterates(g, Nat, 1, step)
  <2> HIDE DEF step
  <2>1. 1 \in Nat
    OBVIOUS
  <2>2. QED
    BY <1>1, <2>1, PrimitiveRecursion, Zenon
<1>3a. g \in [Nat -> Nat] /\ g[0] = 1 /\ \A n \in Nat : g[n + 1] = Base * g[n]
  BY Zenon, <1>2, BaseFact DEF Iterates
<1> HIDE DEF step
<1>3. ASSUME NEW n \in Nat PROVE g[n] = IF n = 0 THEN 1 ELSE Base * g[n - 1]
  <2>1. CASE n # 0
    <3>1. n - 1 \in Nat /\ (n - 1) + 1 = n
      BY <2>1
    <3>2. QED
      BY <1>3a, <2>1, <3>1
  <2>2. QED
    BY <1>3a, <2>1
<1>4. g = [n \in Nat |-> IF n = 0 THEN 1 ELSE Base * g[n - 1]]
  BY <1>3, <1>3a
<1>5. QED
  BY <1>4 DEF Power

(***************************************************************************)
(* A product of positive numbers is positive.                              *)
(***************************************************************************)
LEMMA Product == ASSUME NEW a \in Nat \ {0}, NEW b \in Nat \ {0} PROVE a * b \in Nat \ {0}
  OBVIOUS

(***************************************************************************)
(* The powers of Base are positive, each Base times the one before.        *)
(***************************************************************************)
LEMMA PowerFacts == \A n \in Nat : Power[n] \in Nat \ {0} /\ Power[n + 1] = Base * Power[n]
<1> DEFINE E == {n \in Nat : Power[n] \in Nat \ {0}}
<1>1. Power[0] = 1
  BY PowerDef
<1>2. ASSUME NEW n \in Nat PROVE Power[n + 1] = Base * Power[n]
  <2>1. n + 1 \in Nat /\ n + 1 # 0 /\ (n + 1) - 1 = n
    OBVIOUS
  <2>2. Power[n + 1] = Base * Power[(n + 1) - 1]
    BY <2>1, PowerDef
  <2>3. QED
    BY <2>1, <2>2
<1>3. 0 \in E
  BY <1>1
<1>4. ASSUME NEW n \in Nat, n \in E PROVE n + 1 \in E
  <2>1. Power[n] \in Nat \ {0}
    BY <1>4
  <2>2. Base * Power[n] \in Nat \ {0}
    BY ONLY <2>1, BaseFact, Product
  <2>3. QED
    BY <1>2, <2>2
<1> HIDE DEF E
<1>5. Nat \subseteq E
  BY <1>3, <1>4, InductionOnNat
<1>6. QED
  BY <1>2, <1>5 DEF E

(***************************************************************************)
(* Division with remainder.                                                *)
(***************************************************************************)
LEMMA Quotient ==
  ASSUME NEW y \in Nat, NEW p \in Nat \ {0}
  PROVE  y \div p \in Nat /\ y % p \in 0..(p-1) /\ y = (y \div p) * p + (y % p)
<1> DEFINE d == y \div p
           e == y % p
<1>1. e \in 0..(p-1) /\ d \in Int
  OBVIOUS
<1>3. y = d * p + e
  OBVIOUS
<1> HIDE DEF d, e
<1>4. d >= 0
  BY <1>1, <1>3
<1>5. QED
  BY <1>1, <1>3, <1>4 DEF d, e

(***************************************************************************)
(* There is only one quotient and one remainder.                           *)
(***************************************************************************)
LEMMA QuotientIsUnique ==
  ASSUME NEW y \in Nat, NEW p \in Nat \ {0}, NEW q \in Nat, NEW r \in 0..(p-1), y = q * p + r
  PROVE  y \div p = q /\ y % p = r
<1> DEFINE d == y \div p
           e == y % p
<1>2. d \in Nat /\ e \in 0..(p-1) /\ d * p + e = q * p + r
  BY Zenon, Quotient
<1> HIDE DEF d, e
<1>3. ~ (d > q)
  BY <1>2
<1>4. ~ (d < q)
  BY <1>2
<1>5. d = q
  BY <1>2, <1>3, <1>4
<1>6. e = r
  BY <1>2, <1>5
<1>7. QED
  BY <1>5, <1>6 DEF d, e

(***************************************************************************)
(* Dividing by b * p is dividing by p and then by b.                       *)
(***************************************************************************)
LEMMA QuotientTwice ==
  ASSUME NEW y \in Nat, NEW p \in Nat \ {0}, NEW b \in Nat \ {0}
  PROVE  y \div (b * p) = (y \div p) \div b
<1> DEFINE q == y \div p
           r == y % p
           t == q \div b
           s == q % b
<1>1. q \in Nat /\ r \in 0..(p-1) /\ y = q * p + r
  BY Zenon, Quotient
<1> HIDE DEF q, r
<1>2. t \in Nat /\ s \in 0..(b-1) /\ q = t * b + s
  BY Zenon, <1>1, Quotient
<1> HIDE DEF t, s
<1>3. y = t * (b * p) + (s * p + r)
  BY ONLY <1>1, <1>2, p \in Nat, b \in Nat
<1>4. s * p + r \in 0..(b * p - 1)
  <2>1. s * p \in Nat /\ s * p <= (b - 1) * p
    BY ONLY <1>2, p \in Nat, b \in Nat
  <2>2. (b - 1) * p = b * p - p /\ b * p \in Nat
    BY ONLY p \in Nat, b \in Nat
  <2>3. QED
    BY ONLY <1>1, <2>1, <2>2, p \in Nat, b \in Nat
<1>5. b * p \in Nat \ {0}
  BY Product
<1>6. y \div (b * p) = t
  BY <1>2, <1>3, <1>4, <1>5, QuotientIsUnique
<1>7. QED
  BY <1>6 DEF t, q
(***************************************************************************)
(* One digit more of y: what is left of y at place i is Base times what is *)
(* left at the place before, and the digit of place i.                     *)
(***************************************************************************)
LEMMA Digits ==
  ASSUME NEW w \in Nat, NEW i \in 1..w, NEW y \in Nat
  PROVE  y \div Power[w - i] = (y \div Power[w - (i - 1)]) * Base + ((y \div Power[w - i]) % Base)
<1> DEFINE p == Power[w - i]
           q == y \div p
<1>1. w - i \in Nat /\ (w - i) + 1 = w - (i - 1)
  OBVIOUS
<1>2. p \in Nat \ {0} /\ Power[w - (i - 1)] = Base * p
  BY <1>1, PowerFacts
<1> HIDE DEF p
<1>3. q \in Nat
  BY Zenon, <1>2, Quotient
<1>4. y \div (Base * p) = q \div Base
  <2>1. p \in Nat \ {0} /\ Base \in Nat \ {0}
    BY <1>2, BaseFact
  <2>2. QED
    BY <2>1, QuotientTwice, Zenon
<1> HIDE DEF q
<1>5. q = (q \div Base) * Base + (q % Base)
  BY <1>3, BaseFact, Quotient
<1>6. QED
  BY <1>2, <1>4, <1>5 DEF p, q

(***************************************************************************)
(* The recursion in SignedOf rebuilds y from its digits, so that what is   *)
(* left to SignedOf is the sign: the recursive function is unique, and     *)
(* that of the leading digits satisfies its definition.                    *)
(***************************************************************************)
LEMMA UnsignedReadsBack ==
  ASSUME NEW w \in Nat, NEW y \in Nat, y < Power[w], NEW s \in Seq(Int), Len(s) = w,
         \A i \in 1..w : s[i] = (y \div Power[w - i]) % Base
  PROVE  SignedOf(s) = IF 2 * y >= Power[w] THEN y - Power[w] ELSE y
<1> DEFINE Reads(u) == u = [i \in 0..Len(s) |-> IF i = 0 THEN 0 ELSE u[i - 1] * Base + s[i]]
           U == CHOOSE u : Reads(u)
           g == [i \in 0..w |-> y \div Power[w - i]]
<1>1. Power[w] \in Nat \ {0} /\ y \div Power[w] = 0
  <2>1. Power[w] \in Nat \ {0}
    BY PowerFacts
  <2>2. y = 0 * Power[w] + y /\ y \in 0..(Power[w] - 1)
    BY <2>1
  <2>3. QED
    BY <2>1, <2>2, QuotientIsUnique
<1>2. Reads(g)
  <2>1. ASSUME NEW i \in 0..w PROVE g[i] = IF i = 0 THEN 0 ELSE g[i - 1] * Base + s[i]
    <3>1. CASE i = 0
      BY <1>1, <3>1
    <3>2. CASE i # 0
      <4>1. i \in 1..w /\ i - 1 \in 0..w
        BY <3>2
      <4>2. g[i] = y \div Power[w - i] /\ g[i - 1] = y \div Power[w - (i - 1)]
        BY <4>1
      <4>3. y \div Power[w - i]
              = (y \div Power[w - (i - 1)]) * Base + ((y \div Power[w - i]) % Base)
        BY <4>1, Digits, Zenon
      <4>4. s[i] = (y \div Power[w - i]) % Base
        BY <4>1
      <4> HIDE DEF g
      <4>5. QED
        BY <3>2, <4>2, <4>3, <4>4, Zenon
    <3>3. QED
      BY <3>1, <3>2
  <2>2. g = [i \in 0..w |-> g[i]]
    OBVIOUS
  <2> HIDE DEF g
  <2>3. QED
    BY Zenon, <2>1, <2>2
<1>3. Reads(U)
  <2> HIDE DEF g, Reads
  <2>1. QED
    BY <1>2
<1> HIDE DEF U
<1>4. \A i \in 0..w : U[i] = IF i = 0 THEN 0 ELSE U[i - 1] * Base + s[i]
  BY <1>3
<1>5. U[w] = y
  <2> DEFINE E == {i \in Nat : i <= w => U[i] = y \div Power[w - i]}
  <2>1. 0 \in E
    BY <1>1, <1>4
  <2>2. ASSUME NEW i \in Nat, i \in E PROVE i + 1 \in E
    <3>1. SUFFICES ASSUME i + 1 <= w PROVE U[i + 1] = y \div Power[w - (i + 1)]
      OBVIOUS
    <3>2. i + 1 \in 1..w /\ (i + 1) - 1 = i /\ i <= w
      BY <3>1
    <3>3. U[i] = y \div Power[w - i]
      BY <2>2, <3>2
    <3>4. U[i + 1] = U[i] * Base + s[i + 1]
      BY <1>4, <3>2
    <3>5. y \div Power[w - (i + 1)]
            = (y \div Power[w - ((i + 1) - 1)]) * Base + ((y \div Power[w - (i + 1)]) % Base)
      BY Zenon, <3>2, Digits
    <3>6. QED
      BY <3>2, <3>3, <3>4, <3>5
  <2> HIDE DEF E
  <2>3. Nat \subseteq E
    BY Zenon, <2>1, <2>2, InductionOnNat
  <2>4. U[w] = y \div Power[0]
    BY <2>3 DEF E
  <2>5. Power[0] = 1 /\ y \div 1 = y
    BY PowerDef
  <2>6. QED
    BY <2>4, <2>5
<1>6. SignedOf(s) = IF 2 * U[Len(s)] >= Power[Len(s)] THEN U[Len(s)] - Power[Len(s)] ELSE U[Len(s)]
  BY Zenon DEF SignedOf, U
<1>7. QED
  BY <1>5, <1>6

(***************************************************************************)
(* peekInt32 and its like decode what appendInt32 and its like encode, for *)
(* every number of bytes and every integer that fits in it, negative ones  *)
(* included.                                                               *)
(***************************************************************************)
LEMMA SignedReadsBack ==
  ASSUME NEW w \in Nat, NEW x \in Ints(w)
  PROVE  SignedOf(BigEndian(x, w)) = x
<1> DEFINE m == Power[w]
           y == x % m
           s == BigEndian(x, w)
<1>1. m \in Nat \ {0}
  BY PowerFacts
<1> HIDE DEF m
<1>2. x \in Int /\ 2 * x < m /\ 2 * x >= 0 - m
  BY <1>1 DEF Ints, m
<1>3. y \in 0..(m - 1)
  BY <1>1, <1>2
<1>4. y = IF x >= 0 THEN x ELSE x + m
  <2>1. CASE x >= 0
    BY <1>1, <1>2, <2>1
  <2>2. CASE x < 0
    BY <1>1, <1>2, <2>2
  <2>3. QED
    BY <1>2, <2>1, <2>2
<1>5. s \in Seq(Int) /\ Len(s) = w /\ \A i \in 1..w : s[i] = (y \div Power[w - i]) % Base
  BY PowerFacts, BaseFact, <1>3 DEF BigEndian, m
<1> HIDE DEF y, s
<1>6. SignedOf(s) = IF 2 * y >= m THEN y - m ELSE y
  BY <1>1, <1>3, <1>5, UnsignedReadsBack DEF m
<1>7. QED
  BY <1>1, <1>2, <1>4, <1>6 DEF s
(***************************************************************************)
(* The integers that the calls of a Buffer write read back with their      *)
(* sign: htonl and ntohl, htons and ntohs, and the casts to a signed type, *)
(* for every base and width.                                               *)
(***************************************************************************)
THEOREM IntegersReadBack == IntsReadBack
<1>1. \A w \in Widths : w \in Nat
  BY BufferAssumption
<1>2. QED
  BY <1>1, SignedReadsBack DEF IntsReadBack

-----------------------------------------------------------------------------
USE BufferAssumption

(***************************************************************************)
(* Two strings of bytes with the same bytes are equal.                     *)
(***************************************************************************)
LEMMA SameSeq ==
  ASSUME NEW s \in Seq(Byte), NEW t \in Seq(Byte), Len(s) = Len(t), \A i \in 1..Len(s) : s[i] = t[i]
  PROVE  s = t
BY SeqEqual

(***************************************************************************)
(* What BufferOK says of the three members, one by one.                    *)
(***************************************************************************)
LEMMA BufferFacts ==
  ASSUME NEW b, BufferOK(b)
  PROVE  /\ b.buffer_ \in Seq(Byte) /\ Len(b.buffer_) \in Nat
         /\ b.readerIndex_ \in Nat /\ b.writeIndex_ \in Nat
         /\ b.readerIndex_ <= b.writeIndex_ /\ b.writeIndex_ <= Len(b.buffer_)
         /\ kCheapprepend <= Len(b.buffer_)
         /\ readableBytes(b) \in Nat /\ writeableBytes(b) \in Nat
BY DEF BufferOK, readableBytes, writeableBytes

(***************************************************************************)
(* A record with ordered indices is a Buffer.                              *)
(***************************************************************************)
LEMMA MakeBuffer ==
  ASSUME NEW s \in Seq(Byte), NEW r \in Nat, NEW w \in Nat,
         r <= w, w <= Len(s), kCheapprepend <= Len(s),
         NEW b, b = [buffer_ |-> s, readerIndex_ |-> r, writeIndex_ |-> w]
  PROVE  BufferOK(b) /\ b.buffer_ = s /\ b.readerIndex_ = r /\ b.writeIndex_ = w
BY DEF BufferOK

(***************************************************************************)
(* What replacing the vector leaves.                                       *)
(***************************************************************************)
LEMMA NewVector ==
  ASSUME NEW A, NEW b \in [buffer_: A, readerIndex_: Nat, writeIndex_: Nat], NEW s \in A
  PROVE  [b EXCEPT !.buffer_ = s]
           = [buffer_ |-> s, readerIndex_ |-> b.readerIndex_, writeIndex_ |-> b.writeIndex_]
OBVIOUS

(***************************************************************************)
(* What assigning one member leaves.                                       *)
(***************************************************************************)
LEMMA Fields ==
  ASSUME NEW b, BufferOK(b), NEW s \in Seq(Byte), NEW n \in Nat
  PROVE  /\ [b EXCEPT !.buffer_ = s]
             = [buffer_ |-> s, readerIndex_ |-> b.readerIndex_, writeIndex_ |-> b.writeIndex_]
         /\ [b EXCEPT !.readerIndex_ = n]
             = [buffer_ |-> b.buffer_, readerIndex_ |-> n, writeIndex_ |-> b.writeIndex_]
         /\ [b EXCEPT !.writeIndex_ = n]
             = [buffer_ |-> b.buffer_, readerIndex_ |-> b.readerIndex_, writeIndex_ |-> n]
<1>1. b \in [buffer_: Seq(Byte), readerIndex_: Nat, writeIndex_: Nat]
  BY DEF BufferOK
<1>2. [b EXCEPT !.buffer_ = s]
        = [buffer_ |-> s, readerIndex_ |-> b.readerIndex_, writeIndex_ |-> b.writeIndex_]
  BY Zenon, <1>1, NewVector
<1>3. [b EXCEPT !.readerIndex_ = n]
        = [buffer_ |-> b.buffer_, readerIndex_ |-> n, writeIndex_ |-> b.writeIndex_]
  BY SMTT(30), <1>1
<1>4. [b EXCEPT !.writeIndex_ = n]
        = [buffer_ |-> b.buffer_, readerIndex_ |-> b.readerIndex_, writeIndex_ |-> n]
  BY SMTT(30), <1>1
<1>5. QED
  BY <1>2, <1>3, <1>4

(***************************************************************************)
(* std::copy into the vector changes the bytes copied to and no others.    *)
(***************************************************************************)
LEMMA CopyFacts ==
  ASSUME NEW b, BufferOK(b), NEW at \in Nat, NEW data \in Seq(Byte)
  PROVE  /\ CopyTo(b, at, data) \in Seq(Byte) /\ Len(CopyTo(b, at, data)) = Len(b.buffer_)
         /\ \A i \in 1..Len(b.buffer_) :
              CopyTo(b, at, data)[i] = IF i > at /\ i <= at + Len(data) THEN data[i - at]
                                       ELSE b.buffer_[i]
<1>1. PICK s : s = CopyTo(b, at, data)
  OBVIOUS
<1>2. PICK n \in Nat : n = Len(b.buffer_) /\ b.buffer_ \in Seq(Byte)
  BY BufferFacts
<1>3. s = [i \in 1..n |-> IF i > at /\ i <= at + Len(data) THEN data[i - at] ELSE b.buffer_[i]]
  BY <1>1, <1>2 DEF CopyTo
<1>4. \A i \in 1..n : s[i] = IF i > at /\ i <= at + Len(data) THEN data[i - at] ELSE b.buffer_[i]
  BY <1>3
<1>5. \A i \in 1..n : s[i] \in Byte
  <2> TAKE i \in 1..n
  <2>1. CASE i > at /\ i <= at + Len(data)
    <3>1. i - at \in 1..Len(data)
      BY <2>1
    <3>2. QED
      BY <1>4, <2>1, <3>1
  <2>2. CASE ~(i > at /\ i <= at + Len(data))
    BY <1>2, <1>4, <2>2
  <2>3. QED
    BY <2>1, <2>2
<1>6. s \in [1..n -> Byte]
  BY <1>3, <1>5
<1>7. s \in Seq(Byte) /\ Len(s) = n
  BY <1>2, <1>6
<1>8. QED
  BY <1>1, <1>2, <1>4, <1>7

(***************************************************************************)
(* The readable bytes, one by one.                                         *)
(***************************************************************************)
LEMMA ContentsFacts ==
  ASSUME NEW b, BufferOK(b)
  PROVE  /\ Contents(b) \in Seq(Byte) /\ Len(Contents(b)) = readableBytes(b)
         /\ \A i \in 1..readableBytes(b) : Contents(b)[i] = b.buffer_[b.readerIndex_ + i]
<1>1. PICK n \in Nat : n = readableBytes(b)
  BY BufferFacts
<1>2. PICK s : s = Contents(b)
  OBVIOUS
<1>3. s = [i \in 1..n |-> b.buffer_[b.readerIndex_ + i]]
  BY <1>1, <1>2 DEF Contents, Peek
<1>4. \A i \in 1..n : s[i] = b.buffer_[b.readerIndex_ + i] /\ s[i] \in Byte
  BY <1>1, <1>3, BufferFacts DEF readableBytes
<1>5. s \in [1..n -> Byte]
  BY <1>3, <1>4
<1>6. QED
  BY <1>1, <1>2, <1>4, <1>5
(***************************************************************************)
(* Two Buffers with the same readable bytes, wherever they lie.            *)
(***************************************************************************)
LEMMA SameContents ==
  ASSUME NEW b, NEW c, BufferOK(b), BufferOK(c), readableBytes(b) = readableBytes(c),
         \A i \in 1..readableBytes(b) :
           c.buffer_[c.readerIndex_ + i] = b.buffer_[b.readerIndex_ + i]
  PROVE  Contents(c) = Contents(b)
<1>1. /\ Contents(b) \in Seq(Byte) /\ Len(Contents(b)) = readableBytes(b)
      /\ \A i \in 1..readableBytes(b) : Contents(b)[i] = b.buffer_[b.readerIndex_ + i]
  BY ContentsFacts
<1>2. /\ Contents(c) \in Seq(Byte) /\ Len(Contents(c)) = readableBytes(c)
      /\ \A i \in 1..readableBytes(c) : Contents(c)[i] = c.buffer_[c.readerIndex_ + i]
  BY ContentsFacts
<1>3. QED
  BY <1>1, <1>2, SameSeq

(***************************************************************************)
(* vector::resize to a larger size keeps the readable bytes in place.      *)
(***************************************************************************)
LEMMA ResizeFacts ==
  ASSUME NEW b, BufferOK(b), NEW n \in Nat, n >= Len(b.buffer_), NEW c, c = resize(b, n)
  PROVE  /\ BufferOK(c) /\ Len(c.buffer_) = n /\ Contents(c) = Contents(b)
         /\ c.readerIndex_ = b.readerIndex_ /\ c.writeIndex_ = b.writeIndex_
<1>1. /\ b.buffer_ \in Seq(Byte) /\ Len(b.buffer_) \in Nat
      /\ b.readerIndex_ \in Nat /\ b.writeIndex_ \in Nat
      /\ b.readerIndex_ <= b.writeIndex_ /\ b.writeIndex_ <= Len(b.buffer_)
      /\ kCheapprepend <= Len(b.buffer_)
  BY BufferFacts
<1>2. PICK s : s = [i \in 1..n |-> IF i <= Len(b.buffer_) THEN b.buffer_[i] ELSE 0]
  BY Zenon
<1>3. s \in [1..n -> Byte]
  BY <1>1, <1>2 DEF Byte
<1>4. s \in Seq(Byte) /\ Len(s) = n
  BY <1>3
<1>5. c = [b EXCEPT !.buffer_ = s]
  BY <1>2 DEF resize
<1>6. c = [buffer_ |-> s, readerIndex_ |-> b.readerIndex_, writeIndex_ |-> b.writeIndex_]
  BY Zenon, <1>4, <1>5, Fields
<1>7. BufferOK(c) /\ c.buffer_ = s /\ c.readerIndex_ = b.readerIndex_ /\ c.writeIndex_ = b.writeIndex_
  BY <1>1, <1>4, <1>6, MakeBuffer
<1>8. \A i \in 1..readableBytes(b) : s[b.readerIndex_ + i] = b.buffer_[b.readerIndex_ + i]
  BY <1>1, <1>2 DEF readableBytes
<1>9. Contents(c) = Contents(b)
  BY <1>7, <1>8, SameContents DEF readableBytes
<1>10. QED
  BY <1>4, <1>7, <1>9

(***************************************************************************)
(* makeSpace keeps the readable bytes, whether it moves them to the front  *)
(* or grows the vector; there is room for len more, and the vector grew    *)
(* only to hold at most twice what is readable with len more, because      *)
(* moving would not have made room.                                        *)
(***************************************************************************)
LEMMA MakeSpaceFacts ==
  ASSUME NEW b, BufferOK(b), NEW len \in Nat, writeableBytes(b) < len, NEW c, c = makeSpace(b, len)
  PROVE  /\ BufferOK(c) /\ Contents(c) = Contents(b) /\ readableBytes(c) = readableBytes(b)
         /\ c.readerIndex_ \in {b.readerIndex_, kCheapprepend} /\ writeableBytes(c) >= len
         /\ \/ Len(c.buffer_) = Len(b.buffer_)
            \/ Len(c.buffer_) <= kCheapprepend + 2 * (readableBytes(b) + len)
<1>1. /\ b.buffer_ \in Seq(Byte) /\ Len(b.buffer_) \in Nat
      /\ b.readerIndex_ \in Nat /\ b.writeIndex_ \in Nat
      /\ b.readerIndex_ <= b.writeIndex_ /\ b.writeIndex_ <= Len(b.buffer_)
      /\ kCheapprepend <= Len(b.buffer_)
  BY BufferFacts
<1>2. CASE writeableBytes(b) + prependableBytes(b) < len + kCheapprepend
  <2>1. c = resize(b, b.writeIndex_ + len)
    BY <1>2 DEF makeSpace
  <2>2. PICK n \in Nat : n = b.writeIndex_ + len
    BY <1>1
  <2>3. n >= Len(b.buffer_)
    BY <1>1, <2>2 DEF writeableBytes
  <2>4. /\ BufferOK(c) /\ Len(c.buffer_) = n /\ Contents(c) = Contents(b)
        /\ c.readerIndex_ = b.readerIndex_ /\ c.writeIndex_ = b.writeIndex_
    BY <2>1, <2>2, <2>3, ResizeFacts
  <2>5. n <= kCheapprepend + 2 * (readableBytes(b) + len)
    <3>1. PICK N \in Nat, x \in Nat, y \in Nat :
            N = Len(b.buffer_) /\ x = b.readerIndex_ /\ y = b.writeIndex_
      BY <1>1
    <3>2. x <= y /\ y <= N /\ n = y + len /\ (N - y) + x < len + kCheapprepend
      BY <1>1, <1>2, <2>2, <3>1 DEF writeableBytes, prependableBytes
    <3>3. n <= kCheapprepend + 2 * ((y - x) + len)
      BY <3>2
    <3>4. QED
      BY <3>1, <3>3 DEF readableBytes
  <2>6. QED
    BY <1>1, <2>2, <2>4, <2>5 DEF readableBytes, writeableBytes
<1>3. CASE ~(writeableBytes(b) + prependableBytes(b) < len + kCheapprepend)
  <2>1. PICK s : s = CopyTo(b, kCheapprepend, Contents(b))
    OBVIOUS
  <2>2. /\ Contents(b) \in Seq(Byte) /\ Len(Contents(b)) = readableBytes(b)
        /\ \A i \in 1..readableBytes(b) : Contents(b)[i] = b.buffer_[b.readerIndex_ + i]
    BY ContentsFacts
  <2>3. /\ s \in Seq(Byte) /\ Len(s) = Len(b.buffer_)
        /\ \A i \in 1..Len(b.buffer_) :
             s[i] = IF i > kCheapprepend /\ i <= kCheapprepend + readableBytes(b)
                    THEN Contents(b)[i - kCheapprepend] ELSE b.buffer_[i]
    BY <2>1, <2>2, CopyFacts
  <2>4. c = [buffer_ |-> s, readerIndex_ |-> kCheapprepend,
             writeIndex_ |-> kCheapprepend + readableBytes(b)]
    BY <1>3, <2>1 DEF makeSpace
  <2>5. PICK w \in Nat : w = kCheapprepend + readableBytes(b) /\ w + len <= Len(s)
    <3>1. readableBytes(b) \in Nat /\ kCheapprepend + readableBytes(b) + len <= Len(b.buffer_)
      BY <1>1, <1>3 DEF readableBytes, writeableBytes, prependableBytes
    <3>2. QED
      BY <2>3, <3>1
  <2>6. /\ BufferOK(c) /\ c.buffer_ = s /\ c.readerIndex_ = kCheapprepend /\ c.writeIndex_ = w
    <3>1. kCheapprepend <= w /\ w <= Len(s) /\ kCheapprepend <= Len(s)
      BY <1>1, <2>3, <2>5, BufferFacts
    <3>2. QED
      BY <2>3, <2>4, <2>5, <3>1, MakeBuffer
  <2>7. readableBytes(c) = readableBytes(b) /\ readableBytes(b) \in Nat
    BY <2>5, <2>6, BufferFacts DEF readableBytes
  <2>8. ASSUME NEW i \in 1..readableBytes(b)
        PROVE  s[kCheapprepend + i] = b.buffer_[b.readerIndex_ + i]
    <3>1. PICK j \in 1..Len(b.buffer_) : j = kCheapprepend + i
      BY <1>1, <2>3, <2>5, <2>7
    <3>2. j > kCheapprepend /\ j <= kCheapprepend + readableBytes(b) /\ j - kCheapprepend = i
      BY <2>7, <3>1
    <3>3. s[j] = Contents(b)[i]
      BY <2>3, <3>2
    <3>4. QED
      BY <2>2, <3>1, <3>3
  <2>9. Contents(c) = Contents(b)
    BY <2>6, <2>7, <2>8, SameContents
  <2>10. writeableBytes(c) >= len
    BY <1>1, <2>3, <2>5, <2>6 DEF writeableBytes
  <2>11. QED
    BY <2>3, <2>6, <2>7, <2>9, <2>10
<1>4. QED
  BY <1>2, <1>3

(***************************************************************************)
(* ensureWriteableBytes, by makeSpace.                                     *)
(***************************************************************************)
LEMMA EnsureFacts ==
  ASSUME NEW b, BufferOK(b), NEW len \in Nat, NEW c, c = ensureWriteableBytes(b, len)
  PROVE  /\ BufferOK(c) /\ Contents(c) = Contents(b) /\ readableBytes(c) = readableBytes(b)
         /\ c.readerIndex_ \in {b.readerIndex_, kCheapprepend} /\ writeableBytes(c) >= len
         /\ \/ Len(c.buffer_) = Len(b.buffer_)
            \/ Len(c.buffer_) <= kCheapprepend + 2 * (readableBytes(b) + len)
<1>1. CASE writeableBytes(b) < len
  <2>1. c = makeSpace(b, len)
    BY <1>1 DEF ensureWriteableBytes
  <2>2. QED
    BY <1>1, <2>1, MakeSpaceFacts
<1>2. CASE ~(writeableBytes(b) < len)
  <2>1. c = b
    BY <1>2 DEF ensureWriteableBytes
  <2>2. QED
    BY <1>2, <2>1, BufferFacts
<1>3. QED
  BY <1>1, <1>2

(***************************************************************************)
(* Copying to beginWrite() within the writable bytes, then hasWritten,     *)
(* appends.                                                                *)
(***************************************************************************)
LEMMA WriteFacts ==
  ASSUME NEW b, BufferOK(b), NEW data \in Seq(Byte), Len(data) <= writeableBytes(b),
         NEW c, c = Written(b, data)
  PROVE  /\ BufferOK(c) /\ Contents(c) = Contents(b) \o data
         /\ c.readerIndex_ = b.readerIndex_ /\ Len(c.buffer_) = Len(b.buffer_)
         /\ c.writeIndex_ = b.writeIndex_ + Len(data)
         /\ c.buffer_ = CopyTo(b, b.writeIndex_, data)
<1>1. /\ b.buffer_ \in Seq(Byte) /\ Len(b.buffer_) \in Nat /\ Len(data) \in Nat
      /\ b.readerIndex_ \in Nat /\ b.writeIndex_ \in Nat
      /\ b.readerIndex_ <= b.writeIndex_ /\ b.writeIndex_ <= Len(b.buffer_)
      /\ kCheapprepend <= Len(b.buffer_)
  BY BufferFacts
<1>n. PICK n \in Nat, N \in Nat, r \in Nat, v \in Nat :
        n = Len(data) /\ N = Len(b.buffer_) /\ r = b.readerIndex_ /\ v = b.writeIndex_
  BY <1>1
<1>a. r <= v /\ v <= N /\ n <= N - v /\ readableBytes(b) = v - r
  BY <1>1, <1>n DEF writeableBytes, readableBytes
<1>2. PICK s : s = CopyTo(b, b.writeIndex_, data)
  OBVIOUS
<1>3. /\ s \in Seq(Byte) /\ Len(s) = Len(b.buffer_)
      /\ \A i \in 1..Len(b.buffer_) :
           s[i] = IF i > b.writeIndex_ /\ i <= b.writeIndex_ + Len(data)
                  THEN data[i - b.writeIndex_] ELSE b.buffer_[i]
  BY <1>1, <1>2, CopyFacts
<1>4. PICK d : d = [b EXCEPT !.buffer_ = s]
  BY Zenon
<1>5. d = [buffer_ |-> s, readerIndex_ |-> b.readerIndex_, writeIndex_ |-> b.writeIndex_]
  BY Zenon, <1>3, <1>4, Fields
<1>6. BufferOK(d) /\ d.buffer_ = s /\ d.readerIndex_ = b.readerIndex_ /\ d.writeIndex_ = b.writeIndex_
  BY <1>1, <1>3, <1>5, MakeBuffer
<1>7. PICK w \in Nat : w = v + n /\ w <= N /\ r <= w
  BY <1>a
<1>8. c = [d EXCEPT !.writeIndex_ = w]
  BY <1>n, <1>2, <1>4, <1>6, <1>7 DEF Written, hasWritten
<1>9. c = [buffer_ |-> s, readerIndex_ |-> b.readerIndex_, writeIndex_ |-> w]
  <2>1. [d EXCEPT !.writeIndex_ = w]
          = [buffer_ |-> d.buffer_, readerIndex_ |-> d.readerIndex_, writeIndex_ |-> w]
    BY Zenon, <1>3, <1>6, <1>7, Fields
  <2>2. QED
    BY <1>6, <1>8, <2>1
<1>10. BufferOK(c) /\ c.buffer_ = s /\ c.readerIndex_ = b.readerIndex_ /\ c.writeIndex_ = w
  BY <1>1, <1>n, <1>3, <1>7, <1>9, MakeBuffer
<1>11. /\ Contents(b) \in Seq(Byte) /\ Len(Contents(b)) = readableBytes(b)
       /\ \A i \in 1..readableBytes(b) : Contents(b)[i] = b.buffer_[b.readerIndex_ + i]
  BY ContentsFacts
<1>12. /\ Contents(c) \in Seq(Byte) /\ Len(Contents(c)) = readableBytes(c)
       /\ \A i \in 1..readableBytes(c) : Contents(c)[i] = s[b.readerIndex_ + i]
  BY <1>10, ContentsFacts
<1>13. readableBytes(c) = readableBytes(b) + Len(data) /\ readableBytes(b) \in Nat
  <2>1. readableBytes(c) = w - r
    BY <1>n, <1>10 DEF readableBytes
  <2>2. QED
    BY SMTT(30), <1>n, <1>a, <1>7, <2>1
<1>14. PICK t \in Seq(Byte) : t = Contents(b) \o data
  BY Zenon, <1>11, ConcatProperties
<1>15. /\ Len(t) = readableBytes(b) + Len(data)
       /\ \A i \in 1..Len(t) : t[i] = IF i <= readableBytes(b) THEN Contents(b)[i]
                                      ELSE data[i - readableBytes(b)]
  <2>1. /\ Len(Contents(b) \o data) = Len(Contents(b)) + Len(data)
        /\ \A i \in 1..(Len(Contents(b)) + Len(data)) :
             (Contents(b) \o data)[i] = IF i <= Len(Contents(b)) THEN Contents(b)[i]
                                       ELSE data[i - Len(Contents(b))]
    BY Zenon, <1>11, ConcatProperties
  <2>2. QED
    BY <1>11, <1>14, <2>1
<1>16. ASSUME NEW i \in 1..Len(t) PROVE Contents(c)[i] = t[i]
  <2>1. PICK j \in 1..Len(b.buffer_) : j = b.readerIndex_ + i
    <3>1. i \in Nat /\ 1 <= i /\ i <= (v - r) + n
      BY <1>n, <1>a, <1>15
    <3>2. r + i \in 1..N
      BY <1>a, <3>1
    <3>3. QED
      BY <1>n, <3>2
  <2>2. Contents(c)[i] = s[j]
    BY <1>12, <1>13, <1>15, <2>1
  <2>3. CASE i <= readableBytes(b)
    <3>1. ~(j > b.writeIndex_)
      BY <1>1, <2>1, <2>3 DEF readableBytes
    <3>2. s[j] = b.buffer_[j]
      BY <1>3, <3>1
    <3>3. i \in 1..readableBytes(b)
      BY <1>13, <2>3
    <3>4. QED
      BY <1>11, <1>15, <2>1, <2>2, <2>3, <3>2, <3>3
  <2>4. CASE ~(i <= readableBytes(b))
    <3>1. /\ j > b.writeIndex_ /\ j <= b.writeIndex_ + Len(data)
          /\ j - b.writeIndex_ = i - readableBytes(b)
      <4>1. i \in Nat /\ i <= (v - r) + n /\ ~(i <= v - r) /\ j = r + i
        BY <1>n, <1>a, <1>15, <2>1, <2>4
      <4>2. j > v /\ j <= v + n /\ j - v = i - (v - r)
        BY <1>a, <4>1
      <4>3. QED
        BY <1>n, <1>a, <4>2
    <3>2. s[j] = data[i - readableBytes(b)]
      BY <1>3, <3>1
    <3>3. QED
      BY <1>15, <2>2, <2>4, <3>2
  <2>5. QED
    BY <2>3, <2>4
<1>17. Contents(c) = t
  BY <1>12, <1>13, <1>15, <1>16, SameSeq
<1>18. QED
  <2>1. c.writeIndex_ = b.writeIndex_ + Len(data)
    BY <1>n, <1>7, <1>10
  <2>2. QED
    BY <1>2, <1>3, <1>10, <1>14, <1>17, <2>1

(***************************************************************************)
(* Buffer::append appends.                                                 *)
(***************************************************************************)
LEMMA AppendFacts ==
  ASSUME NEW b, BufferOK(b), NEW data \in Seq(Byte), NEW c, c = append(b, data)
  PROVE  /\ BufferOK(c) /\ Contents(c) = Contents(b) \o data
         /\ c.readerIndex_ \in {b.readerIndex_, kCheapprepend}
         /\ \/ Len(c.buffer_) = Len(b.buffer_)
            \/ Len(c.buffer_) <= kCheapprepend + 2 * (readableBytes(b) + Len(data))
<1>1. PICK room : room = ensureWriteableBytes(b, Len(data))
  OBVIOUS
<1>2. Len(data) \in Nat
  OBVIOUS
<1>3. /\ BufferOK(room) /\ Contents(room) = Contents(b)
      /\ room.readerIndex_ \in {b.readerIndex_, kCheapprepend} /\ writeableBytes(room) >= Len(data)
      /\ \/ Len(room.buffer_) = Len(b.buffer_)
         \/ Len(room.buffer_) <= kCheapprepend + 2 * (readableBytes(b) + Len(data))
  BY <1>1, <1>2, EnsureFacts
<1>4. c = Written(room, data)
  BY <1>1 DEF append
<1>5. Len(data) <= writeableBytes(room)
  BY <1>2, <1>3, BufferFacts
<1>6. QED
  BY SMTT(30), <1>3, <1>4, <1>5, WriteFacts

(***************************************************************************)
(* A Buffer just constructed is empty, with its headroom.                  *)
(***************************************************************************)
LEMMA NewFacts ==
  /\ BufferOK(NewBuffer) /\ Len(NewBuffer.buffer_) = kCheapprepend + kInitialSize
  /\ readableBytes(NewBuffer) = 0 /\ Contents(NewBuffer) = << >>
  /\ NewBuffer.readerIndex_ = kCheapprepend
<1>1. PICK n \in Nat : n = kCheapprepend + kInitialSize
  OBVIOUS
<1>2. PICK s : s = [i \in 1..n |-> 0]
  BY Zenon
<1>3. s \in [1..n -> Byte]
  BY <1>2 DEF Byte
<1>4. s \in Seq(Byte) /\ Len(s) = n
  BY <1>1, <1>3
<1>5. NewBuffer = [buffer_ |-> s, readerIndex_ |-> kCheapprepend, writeIndex_ |-> kCheapprepend]
  BY <1>1, <1>2 DEF NewBuffer
<1>6. /\ BufferOK(NewBuffer) /\ NewBuffer.buffer_ = s /\ NewBuffer.readerIndex_ = kCheapprepend
      /\ NewBuffer.writeIndex_ = kCheapprepend
  BY <1>1, <1>4, <1>5, MakeBuffer
<1>7. readableBytes(NewBuffer) = 0
  BY <1>6 DEF readableBytes
<1>8. Contents(NewBuffer) \in Seq(Byte) /\ Len(Contents(NewBuffer)) = 0
  BY <1>6, <1>7, ContentsFacts
<1>9. QED
  BY <1>1, <1>4, <1>6, <1>7, <1>8

(***************************************************************************)
(* retrieve takes bytes from the front; with the last one the indices      *)
(* return to the start of the vector.                                      *)
(***************************************************************************)
LEMMA RetrieveFacts ==
  ASSUME NEW b, BufferOK(b), NEW n \in Nat, n <= readableBytes(b), NEW c, c = retrieve(b, n)
  PROVE  /\ BufferOK(c) /\ c.buffer_ = b.buffer_
         /\ c.readerIndex_ >= b.readerIndex_ \/ c.readerIndex_ = kCheapprepend
         /\ Contents(c) = [i \in 1..(Len(Contents(b)) - n) |-> Contents(b)[n + i]]
<1>1. /\ b.buffer_ \in Seq(Byte) /\ Len(b.buffer_) \in Nat
      /\ b.readerIndex_ \in Nat /\ b.writeIndex_ \in Nat
      /\ b.readerIndex_ <= b.writeIndex_ /\ b.writeIndex_ <= Len(b.buffer_)
      /\ kCheapprepend <= Len(b.buffer_)
  BY BufferFacts
<1>2. /\ Contents(b) \in Seq(Byte) /\ Len(Contents(b)) = readableBytes(b)
      /\ \A i \in 1..readableBytes(b) : Contents(b)[i] = b.buffer_[b.readerIndex_ + i]
  BY ContentsFacts
<1>3. PICK m \in Nat : m = readableBytes(b) - n /\ readableBytes(b) = b.writeIndex_ - b.readerIndex_
  BY <1>1 DEF readableBytes
<1>4. PICK t : t = [i \in 1..m |-> Contents(b)[n + i]]
  BY Zenon
<1>5. CASE n < readableBytes(b)
  <2>1. PICK r \in Nat : r = b.readerIndex_ + n
    BY <1>1
  <2>2. c = [b EXCEPT !.readerIndex_ = r]
    BY <1>5, <2>1 DEF retrieve
  <2>3. c = [buffer_ |-> b.buffer_, readerIndex_ |-> r, writeIndex_ |-> b.writeIndex_]
    BY Zenon, <1>1, <2>1, <2>2, Fields
  <2>4. r <= b.writeIndex_
    BY <1>1, <1>3, <1>5, <2>1
  <2>5. BufferOK(c) /\ c.buffer_ = b.buffer_ /\ c.readerIndex_ = r /\ c.writeIndex_ = b.writeIndex_
    BY <1>1, <2>1, <2>3, <2>4, MakeBuffer
  <2>6. readableBytes(c) = m
    BY <1>1, <1>3, <2>1, <2>5 DEF readableBytes
  <2>7. /\ Contents(c) \in Seq(Byte) /\ Len(Contents(c)) = m
        /\ \A i \in 1..m : Contents(c)[i] = b.buffer_[r + i]
    BY <2>5, <2>6, ContentsFacts
  <2>8. ASSUME NEW i \in 1..m PROVE t[i] = Contents(c)[i] /\ t[i] \in Byte
    <3>1. n + i \in 1..readableBytes(b) /\ b.readerIndex_ + (n + i) = r + i
      BY SMTT(30), <1>1, <1>3, <2>1
    <3>2. Contents(b)[n + i] = b.buffer_[r + i]
      BY <1>2, <3>1
    <3>3. QED
      <4>1. t[i] = b.buffer_[r + i] /\ r + i \in 1..Len(b.buffer_)
        <5>1. t[i] = b.buffer_[r + i]
          BY <1>4, <3>2
        <5>2. m = b.writeIndex_ - r
          BY <1>1, <1>3, <2>1
        <5>3. r + i \in 1..Len(b.buffer_)
          BY <1>1, <5>2
        <5>4. QED
          BY <5>1, <5>3
      <4>2. b.buffer_[r + i] \in Byte
        BY <1>1, <4>1
      <4>3. QED
        BY <2>7, <4>1, <4>2
  <2>9. t \in [1..m -> Byte]
    BY <1>4, <2>8
  <2>10. t \in Seq(Byte) /\ Len(t) = m
    BY <1>3, <2>9
  <2>11. Contents(c) = t
    BY Zenon, <2>7, <2>8, <2>10, SameSeq
  <2>12. QED
    BY SMTT(30), <1>1, <1>2, <1>3, <1>4, <2>1, <2>5, <2>11
<1>6. CASE ~(n < readableBytes(b))
  <2>1. c = [buffer_ |-> b.buffer_, readerIndex_ |-> kCheapprepend, writeIndex_ |-> kCheapprepend]
    BY <1>6 DEF retrieve, retrieveAll
  <2>2. /\ BufferOK(c) /\ c.buffer_ = b.buffer_ /\ c.readerIndex_ = kCheapprepend
        /\ c.writeIndex_ = kCheapprepend
    BY <1>1, <2>1, MakeBuffer
  <2>3. readableBytes(c) = 0 /\ m = 0
    BY <1>1, <1>3, <1>6, <2>2 DEF readableBytes
  <2>4. Contents(c) \in Seq(Byte) /\ Len(Contents(c)) = 0
    BY <2>2, <2>3, ContentsFacts
  <2>5. t = << >>
    BY <1>4, <2>3
  <2>6. QED
    BY <1>2, <1>3, <1>4, <2>2, <2>4, <2>5
<1>7. QED
  BY <1>5, <1>6

(***************************************************************************)
(* prepend puts bytes in front, within the headroom.                       *)
(***************************************************************************)
LEMMA PrependFacts ==
  ASSUME NEW b, BufferOK(b), NEW data \in Seq(Byte), Len(data) <= prependableBytes(b),
         NEW c, c = prepend(b, data)
  PROVE  /\ BufferOK(c) /\ Contents(c) = data \o Contents(b)
         /\ c.readerIndex_ = b.readerIndex_ - Len(data) /\ Len(c.buffer_) = Len(b.buffer_)
<1>1. /\ b.buffer_ \in Seq(Byte) /\ Len(b.buffer_) \in Nat
      /\ b.readerIndex_ \in Nat /\ b.writeIndex_ \in Nat
      /\ b.readerIndex_ <= b.writeIndex_ /\ b.writeIndex_ <= Len(b.buffer_)
      /\ kCheapprepend <= Len(b.buffer_)
  BY BufferFacts
<1>2. PICK n \in Nat, N \in Nat, v \in Nat, w \in Nat :
        n = Len(data) /\ N = Len(b.buffer_) /\ v = b.readerIndex_ /\ w = b.writeIndex_
  BY <1>1
<1>3. n <= v /\ v <= w /\ w <= N /\ readableBytes(b) = w - v
  BY <1>1, <1>2 DEF prependableBytes, readableBytes
<1>4. PICK r \in Nat : r = v - n
  BY <1>3
<1>5. PICK s : s = CopyTo(b, r, data)
  OBVIOUS
<1>6. /\ s \in Seq(Byte) /\ Len(s) = N
      /\ \A i \in 1..N : s[i] = IF i > r /\ i <= r + n THEN data[i - r] ELSE b.buffer_[i]
  <2>1. /\ s \in Seq(Byte) /\ Len(s) = Len(b.buffer_)
        /\ \A i \in 1..Len(b.buffer_) :
             s[i] = IF i > r /\ i <= r + Len(data) THEN data[i - r] ELSE b.buffer_[i]
    BY <1>4, <1>5, CopyFacts
  <2>2. QED
    BY <1>2, <2>1
<1>7. c = [buffer_ |-> s, readerIndex_ |-> r, writeIndex_ |-> w]
  BY <1>2, <1>4, <1>5 DEF prepend
<1>8. BufferOK(c) /\ c.buffer_ = s /\ c.readerIndex_ = r /\ c.writeIndex_ = w
  <2>1. r <= w /\ w <= Len(s) /\ kCheapprepend <= Len(s)
    BY <1>1, <1>2, <1>3, <1>4, <1>6
  <2>2. QED
    BY <1>2, <1>4, <1>6, <1>7, <2>1, MakeBuffer
<1>9. /\ Contents(b) \in Seq(Byte) /\ Len(Contents(b)) = w - v
      /\ \A i \in 1..(w - v) : Contents(b)[i] = b.buffer_[v + i]
  BY <1>2, <1>3, ContentsFacts
<1>10. readableBytes(c) = w - r
  BY <1>8 DEF readableBytes
<1>11. /\ Contents(c) \in Seq(Byte) /\ Len(Contents(c)) = w - r
       /\ \A i \in 1..(w - r) : Contents(c)[i] = s[r + i]
  BY Zenon, <1>8, <1>10, ContentsFacts
<1>12. PICK t \in Seq(Byte) : t = data \o Contents(b)
  BY Zenon, <1>9, ConcatProperties
<1>13. /\ Len(t) = w - r
       /\ \A i \in 1..(w - r) : t[i] = IF i <= n THEN data[i] ELSE Contents(b)[i - n]
  <2>1. /\ Len(t) = Len(data) + Len(Contents(b))
        /\ \A i \in 1..(Len(data) + Len(Contents(b))) :
             t[i] = IF i <= Len(data) THEN data[i] ELSE Contents(b)[i - Len(data)]
    BY Zenon, <1>9, <1>12, ConcatProperties
  <2>2. Len(data) + Len(Contents(b)) = w - r
    <3>1. n + (w - v) = w - r
      BY <1>3, <1>4
    <3>2. QED
      BY <1>2, <1>9, <3>1
  <2>3. QED
    BY <1>2, <2>1, <2>2
<1>14. ASSUME NEW i \in 1..(w - r) PROVE Contents(c)[i] = t[i]
  <2>1. PICK j \in 1..N : j = r + i
    BY <1>3, <1>4
  <2>2. CASE i <= n
    <3>1. j > r /\ j <= r + n /\ j - r = i
      BY <1>4, <2>1, <2>2
    <3>2. s[j] = data[i]
      BY <1>6, <3>1
    <3>3. QED
      BY <1>11, <1>13, <2>1, <2>2, <3>2
  <2>3. CASE ~(i <= n)
    <3>1. ~(j <= r + n) /\ i - n \in 1..(w - v) /\ v + (i - n) = j
      BY <1>3, <1>4, <2>1, <2>3
    <3>2. s[j] = b.buffer_[j]
      BY <1>6, <3>1
    <3>3. QED
      BY Zenon, <1>9, <1>11, <1>13, <2>1, <2>3, <3>1, <3>2
  <2>4. QED
    BY <2>2, <2>3
<1>15. Contents(c) = t
  BY <1>11, <1>13, <1>14, SameSeq
<1>16. QED
  BY <1>2, <1>4, <1>6, <1>8, <1>12, <1>15

(***************************************************************************)
(* The two halves of what readv returned make the whole.                   *)
(***************************************************************************)
LEMMA SplitFacts ==
  ASSUME NEW data \in Seq(Byte), NEW w \in Nat, w < Len(data)
  PROVE  /\ SubSeq(data, 1, w) \in Seq(Byte) /\ Len(SubSeq(data, 1, w)) = w
         /\ SubSeq(data, w + 1, Len(data)) \in Seq(Byte)
         /\ Len(SubSeq(data, w + 1, Len(data))) = Len(data) - w
         /\ SubSeq(data, 1, w) \o SubSeq(data, w + 1, Len(data)) = data
<1> DEFINE x == SubSeq(data, 1, w)
           y == SubSeq(data, w + 1, Len(data))
           n == Len(data)
<1>1. \A i \in 1..n : data[i] \in Byte
  OBVIOUS
<1>2. x \in Seq(Byte) /\ Len(x) = w
  <2>1. \A i \in 1..w : data[i] \in Byte
    BY <1>1
  <2>2. x \in Seq(Byte) /\ Len(x) = IF 1 <= w THEN w - 1 + 1 ELSE 0
    BY <2>1, SubSeqProperties
  <2>3. QED
    BY <2>2
<1>3. y \in Seq(Byte) /\ Len(y) = n - w
  <2>1. \A i \in (w + 1)..n : data[i] \in Byte
    BY <1>1
  <2>2. y \in Seq(Byte) /\ Len(y) = IF w + 1 <= n THEN n - (w + 1) + 1 ELSE 0
    BY <2>1, SubSeqProperties
  <2>3. QED
    BY <2>2
<1>4. x \o y = SubSeq(data, 1, n)
  <2>1. 1 \in 1..(Len(data) + 1) /\ w \in (1 - 1)..Len(data) /\ n \in w..Len(data)
    OBVIOUS
  <2>2. QED
    BY Zenon, <2>1, ConcatAdjacentSubSeq
<1>5. SubSeq(data, 1, n) = data
  BY SubSeqFull
<1>6. QED
  BY Zenon, <1>2, <1>3, <1>4, <1>5

(***************************************************************************)
(* readFd appends what readv returned: in the vector alone, or in the      *)
(* vector and then extrabuff, which append copies.                         *)
(***************************************************************************)
LEMMA ReadFdFacts ==
  ASSUME NEW b, BufferOK(b), NEW data \in Seq(Byte), NEW c, c = readFd(b, data)
  PROVE  /\ BufferOK(c) /\ Contents(c) = Contents(b) \o data
         /\ c.readerIndex_ \in {b.readerIndex_, kCheapprepend}
         /\ \/ Len(c.buffer_) = Len(b.buffer_)
            \/ Len(c.buffer_) <= kCheapprepend + 2 * (readableBytes(b) + Len(data))
<1>1. PICK w \in Nat, n \in Nat : w = writeableBytes(b) /\ n = Len(data)
  BY BufferFacts
<1>2. CASE n <= w
  <2>1. c = Written(b, data)
    BY <1>1, <1>2 DEF readFd
  <2>2. QED
    BY <1>1, <1>2, <2>1, WriteFacts
<1>3. CASE ~(n <= w)
  <2>1. PICK x, y : x = SubSeq(data, 1, w) /\ y = SubSeq(data, w + 1, Len(data))
    BY Zenon
  <2>2. /\ x \in Seq(Byte) /\ Len(x) = w /\ y \in Seq(Byte) /\ Len(y) = n - w
        /\ x \o y = data
    <3>1. w < Len(data)
      BY <1>1, <1>3
    <3>2. /\ SubSeq(data, 1, w) \in Seq(Byte) /\ Len(SubSeq(data, 1, w)) = w
          /\ SubSeq(data, w + 1, Len(data)) \in Seq(Byte)
          /\ Len(SubSeq(data, w + 1, Len(data))) = Len(data) - w
          /\ SubSeq(data, 1, w) \o SubSeq(data, w + 1, Len(data)) = data
      BY ONLY Zenon, <3>1, data \in Seq(Byte), w \in Nat, SplitFacts
    <3>3. QED
      BY Zenon, <1>1, <2>1, <3>2
  <2>3. PICK e : e = Written(b, x)
    OBVIOUS
  <2>4. /\ BufferOK(e) /\ Contents(e) = Contents(b) \o x
        /\ e.readerIndex_ = b.readerIndex_ /\ Len(e.buffer_) = Len(b.buffer_)
        /\ e.writeIndex_ = b.writeIndex_ + w /\ e.buffer_ = CopyTo(b, b.writeIndex_, x)
    <3>1. Len(x) <= writeableBytes(b)
      BY <1>1, <2>2
    <3>2. QED
      BY SMTT(30), <2>2, <2>3, <3>1, WriteFacts
  <2>5. /\ Len(b.buffer_) \in Nat /\ b.writeIndex_ \in Nat /\ b.readerIndex_ \in Nat
        /\ w = Len(b.buffer_) - b.writeIndex_
    BY <1>1, BufferFacts DEF writeableBytes
  <2>6. b.writeIndex_ + w = Len(b.buffer_)
    BY <2>5
  <2>7. e = [buffer_ |-> CopyTo(b, b.writeIndex_, x), readerIndex_ |-> b.readerIndex_,
             writeIndex_ |-> Len(b.buffer_)]
    <3>1. e = [buffer_ |-> e.buffer_, readerIndex_ |-> e.readerIndex_, writeIndex_ |-> e.writeIndex_]
      BY <2>4 DEF BufferOK
    <3>2. QED
      BY Zenon, <2>4, <2>6, <3>1
  <2>8. c = append(e, y)
    BY <1>1, <1>3, <2>1, <2>7 DEF readFd
  <2>9. /\ BufferOK(c) /\ Contents(c) = Contents(e) \o y
        /\ c.readerIndex_ \in {e.readerIndex_, kCheapprepend}
        /\ \/ Len(c.buffer_) = Len(e.buffer_)
           \/ Len(c.buffer_) <= kCheapprepend + 2 * (readableBytes(e) + Len(y))
    BY Zenon, <2>2, <2>4, <2>8, AppendFacts
  <2>10. readableBytes(e) + Len(y) = readableBytes(b) + n
    <3>1. readableBytes(e) = (b.writeIndex_ + w) - b.readerIndex_
      BY <2>4 DEF readableBytes
    <3>2. readableBytes(b) = b.writeIndex_ - b.readerIndex_
      BY DEF readableBytes
    <3>3. QED
      BY <2>2, <2>5, <3>1, <3>2
  <2>11. Contents(c) = Contents(b) \o data
    <3>1. Contents(b) \in Seq(Byte)
      BY ContentsFacts
    <3>2. (Contents(b) \o x) \o y = Contents(b) \o (x \o y)
      <4>1. x \in Seq(Byte) /\ y \in Seq(Byte)
        BY <2>2
      <4>2. QED
        BY ONLY <3>1, <4>1, ConcatAssociative
    <3>3. QED
      BY <2>2, <2>4, <2>9, <3>2
  <2>12. QED
    BY <1>1, <2>4, <2>9, <2>10, <2>11
<1>4. QED
  BY <1>2, <1>3

(***************************************************************************)
(* shrink moves the readable bytes to a new vector of the size asked for;  *)
(* the append in it does not grow that vector again.                       *)
(***************************************************************************)
LEMMA ShrinkFacts ==
  ASSUME NEW b, BufferOK(b), NEW reserve \in Nat, NEW c, c = shrink(b, reserve)
  PROVE  /\ BufferOK(c) /\ Contents(c) = Contents(b) /\ c.readerIndex_ = kCheapprepend
         /\ \/ Len(c.buffer_) = kCheapprepend + kInitialSize
            \/ Len(c.buffer_) <= kCheapprepend + 2 * (readableBytes(b) + reserve)
<1>1. PICK n \in Nat, m \in Nat : n = readableBytes(b) /\ m = n + reserve
  BY BufferFacts
<1>2. PICK e : e = ensureWriteableBytes(NewBuffer, m)
  OBVIOUS
<1>3. /\ BufferOK(e) /\ Contents(e) = << >> /\ e.readerIndex_ = kCheapprepend
      /\ writeableBytes(e) >= m
      /\ \/ Len(e.buffer_) = kCheapprepend + kInitialSize
         \/ Len(e.buffer_) <= kCheapprepend + 2 * m
  <2>1. /\ BufferOK(e) /\ Contents(e) = Contents(NewBuffer)
        /\ e.readerIndex_ \in {NewBuffer.readerIndex_, kCheapprepend} /\ writeableBytes(e) >= m
        /\ \/ Len(e.buffer_) = Len(NewBuffer.buffer_)
           \/ Len(e.buffer_) <= kCheapprepend + 2 * (readableBytes(NewBuffer) + m)
    BY <1>2, NewFacts, EnsureFacts
  <2>2. readableBytes(NewBuffer) + m = m
    BY NewFacts
  <2>3. QED
    BY <2>1, <2>2, NewFacts
<1>4. Contents(b) \in Seq(Byte) /\ Len(Contents(b)) = n
  BY <1>1, ContentsFacts
<1>5. writeableBytes(e) \in Nat /\ n <= writeableBytes(e) /\ ~(writeableBytes(e) < n)
  BY <1>1, <1>3, BufferFacts
<1>6. c = Written(e, Contents(b))
  <2>1. c = append(e, Contents(b))
    BY <1>1, <1>2 DEF shrink
  <2>2. ensureWriteableBytes(e, Len(Contents(b))) = e
    BY <1>4, <1>5 DEF ensureWriteableBytes
  <2>3. QED
    BY <2>1, <2>2 DEF append
<1>7. /\ BufferOK(c) /\ Contents(c) = Contents(e) \o Contents(b)
      /\ c.readerIndex_ = e.readerIndex_ /\ Len(c.buffer_) = Len(e.buffer_)
  BY Zenon, <1>3, <1>4, <1>5, <1>6, WriteFacts
<1>8. Contents(c) = Contents(b)
  BY <1>3, <1>4, <1>7, ConcatEmptySeq
<1>9. QED
  BY <1>1, <1>3, <1>7, <1>8

(***************************************************************************)
(* The strings of bytes that calls are given.                              *)
(***************************************************************************)
LEMMA ChunkFacts == ASSUME NEW data \in Chunks PROVE data \in Seq(Byte) /\ Len(data) \in Nat
<1>1. PICK n \in 0..MaxLen : data \in [1..n -> Byte]
  BY DEF Chunks
<1>2. QED
  BY <1>1

(***************************************************************************)
(* What appendInt32 and its like write are bytes.                          *)
(***************************************************************************)
LEMMA IntFacts ==
  ASSUME NEW w \in Widths, NEW x \in Ints(w)
  PROVE  BigEndian(x, w) \in Chunks /\ Len(BigEndian(x, w)) = w /\ w \in Nat
<1>1. w \in 1..MaxLen /\ Power[w] \in Nat \ {0}
  BY PowerFacts
<1>2. x \in Int
  BY <1>1 DEF Ints
<1>3. x % Power[w] \in Int
  BY <1>1, <1>2
<1>4. ASSUME NEW i \in 1..w PROVE ((x % Power[w]) \div Power[w - i]) % Base \in Byte
  <2>1. w - i \in Nat
    BY <1>1
  <2>2. Power[w - i] \in Nat \ {0}
    BY <2>1, PowerFacts
  <2>3. ((x % Power[w]) \div Power[w - i]) \in Int
    BY <1>3, <2>2
  <2>4. QED
    BY <2>3 DEF Byte
<1>5. BigEndian(x, w) \in [1..w -> Byte]
  BY <1>4 DEF BigEndian
<1>6. BigEndian(x, w) \in Chunks
  BY <1>1, <1>5 DEF Chunks
<1>7. QED
  BY <1>1, <1>5, <1>6

(***************************************************************************)
(* The arithmetic of the bound on memory.                                  *)
(***************************************************************************)
LEMMA Bound ==
  ASSUME NEW a \in Nat, NEW m \in Nat, NEW L \in Nat, NEW M \in Nat,
         L <= kCheapprepend + Larger(kInitialSize, 2 * a),
         M = L \/ M <= kCheapprepend + 2 * m \/ M = kCheapprepend + kInitialSize
  PROVE  /\ M <= kCheapprepend + Larger(kInitialSize, 2 * Larger(a, m))
         /\ Larger(a, m) \in Nat
BY DEF Larger

(***************************************************************************)
(* A call that asks for room keeps the bound on memory.                    *)
(***************************************************************************)
LEMMA Grown ==
  ASSUME MemoryBounded, NEW m \in Nat, BufferOK(buffer'), asked' = Larger(asked, m),
         \/ Len(buffer'.buffer_) = Len(buffer.buffer_)
         \/ Len(buffer'.buffer_) <= kCheapprepend + 2 * m
         \/ Len(buffer'.buffer_) = kCheapprepend + kInitialSize
  PROVE  MemoryBounded'
<1>1. PICK a \in Nat, L \in Nat, M \in Nat :
        a = asked /\ L = Len(buffer.buffer_) /\ M = Len(buffer'.buffer_)
  BY Zenon, BufferFacts DEF MemoryBounded, TypeOK
<1>2. /\ M <= kCheapprepend + Larger(kInitialSize, 2 * Larger(a, m)) /\ Larger(a, m) \in Nat
  BY Zenon, <1>1, Bound DEF MemoryBounded
<1>3. QED
  BY <1>1, <1>2 DEF MemoryBounded, TypeOK

(***************************************************************************)
(* A call that leaves the vector's size alone keeps it too.                *)
(***************************************************************************)
LEMMA Kept ==
  ASSUME MemoryBounded, BufferOK(buffer'), asked' = asked,
         Len(buffer'.buffer_) = Len(buffer.buffer_)
  PROVE  MemoryBounded'
BY DEF MemoryBounded, TypeOK

(***************************************************************************)
(* A reader index that does not fall, or returns to kCheapprepend, keeps   *)
(* the headroom.                                                           *)
(***************************************************************************)
LEMMA HeadroomFacts ==
  ASSUME BufferOK(buffer), BufferOK(buffer'),
         buffer'.readerIndex_ >= buffer.readerIndex_ \/ buffer'.readerIndex_ = kCheapprepend
  PROVE  HeadroomStep
<1>1. buffer.readerIndex_ \in Nat /\ buffer'.readerIndex_ \in Nat
  BY BufferFacts
<1>2. QED
  BY <1>1 DEF HeadroomStep, Smaller

(***************************************************************************)
(* append and readFd: memory, headroom and contents.                       *)
(***************************************************************************)
LEMMA AppendStep ==
  ASSUME MemoryBounded, NEW data \in Seq(Byte),
         buffer' \in {append(buffer, data), readFd(buffer, data)}, Asks(Len(data))
  PROVE  /\ MemoryBounded' /\ HeadroomStep /\ Contents(buffer)' = Contents(buffer) \o data
<1>1. BufferOK(buffer) /\ Len(data) \in Nat
  BY DEF MemoryBounded, TypeOK
<1>2. /\ BufferOK(buffer') /\ Contents(buffer') = Contents(buffer) \o data
      /\ buffer'.readerIndex_ \in {buffer.readerIndex_, kCheapprepend}
      /\ \/ Len(buffer'.buffer_) = Len(buffer.buffer_)
         \/ Len(buffer'.buffer_) <= kCheapprepend + 2 * (readableBytes(buffer) + Len(data))
  <2>1. CASE buffer' = append(buffer, data)
    BY Zenon, <1>1, <2>1, AppendFacts
  <2>2. CASE buffer' = readFd(buffer, data)
    BY Zenon, <1>1, <2>2, ReadFdFacts
  <2>3. QED
    BY <2>1, <2>2
<1>3. PICK m \in Nat : m = readableBytes(buffer) + Len(data)
  BY <1>1, BufferFacts
<1>4. asked' = Larger(asked, m)
  BY <1>3 DEF Asks
<1>5. MemoryBounded'
  BY <1>2, <1>3, <1>4, Grown
<1>6. HeadroomStep
  BY <1>1, <1>2, HeadroomFacts, BufferFacts
<1>7. QED
  BY <1>2, <1>5, <1>6

(***************************************************************************)
(* retrieve: memory, headroom and contents.                                *)
(***************************************************************************)
LEMMA RetrieveStep ==
  ASSUME MemoryBounded, NEW n \in Nat, n <= readableBytes(buffer),
         buffer' = retrieve(buffer, n), asked' = asked
  PROVE  /\ MemoryBounded' /\ HeadroomStep
         /\ Contents(buffer)' = [i \in 1..(Len(Contents(buffer)) - n) |-> Contents(buffer)[n + i]]
<1>1. BufferOK(buffer)
  BY DEF MemoryBounded, TypeOK
<1>2. /\ BufferOK(buffer') /\ buffer'.buffer_ = buffer.buffer_
      /\ buffer'.readerIndex_ >= buffer.readerIndex_ \/ buffer'.readerIndex_ = kCheapprepend
      /\ Contents(buffer')
           = [i \in 1..(Len(Contents(buffer)) - n) |-> Contents(buffer)[n + i]]
  BY <1>1, RetrieveFacts
<1>3. MemoryBounded'
  BY <1>2, Kept
<1>4. HeadroomStep
  BY <1>1, <1>2, HeadroomFacts
<1>5. QED
  BY <1>2, <1>3, <1>4

(***************************************************************************)
(* prepend: memory, headroom and contents.                                 *)
(***************************************************************************)
LEMMA PrependStep ==
  ASSUME MemoryBounded, NEW data \in Seq(Byte), Len(data) <= prependableBytes(buffer),
         buffer' = prepend(buffer, data), io'[1] = "pushed", io'[2] = Len(data), asked' = asked
  PROVE  /\ MemoryBounded' /\ HeadroomStep /\ Contents(buffer)' = data \o Contents(buffer)
<1>1. BufferOK(buffer)
  BY DEF MemoryBounded, TypeOK
<1>2. /\ BufferOK(buffer') /\ Contents(buffer') = data \o Contents(buffer)
      /\ buffer'.readerIndex_ = buffer.readerIndex_ - Len(data)
      /\ Len(buffer'.buffer_) = Len(buffer.buffer_)
  BY <1>1, PrependFacts
<1>3. MemoryBounded'
  BY <1>2, Kept
<1>4. QED
  BY <1>2, <1>3 DEF HeadroomStep

(***************************************************************************)
(* ensureWriteableBytes and shrink: memory, headroom and contents.         *)
(***************************************************************************)
LEMMA RoomStep ==
  ASSUME MemoryBounded, NEW len \in Nat, Asks(len),
         buffer' \in {ensureWriteableBytes(buffer, len), shrink(buffer, len)}
  PROVE  /\ MemoryBounded' /\ HeadroomStep /\ Contents(buffer)' = Contents(buffer)
<1>1. BufferOK(buffer)
  BY DEF MemoryBounded, TypeOK
<1>2. /\ BufferOK(buffer') /\ Contents(buffer') = Contents(buffer)
      /\ buffer'.readerIndex_ \in {buffer.readerIndex_, kCheapprepend}
      /\ \/ Len(buffer'.buffer_) = Len(buffer.buffer_)
         \/ Len(buffer'.buffer_) <= kCheapprepend + 2 * (readableBytes(buffer) + len)
         \/ Len(buffer'.buffer_) = kCheapprepend + kInitialSize
  <2>1. CASE buffer' = ensureWriteableBytes(buffer, len)
    BY <1>1, <2>1, EnsureFacts
  <2>2. CASE buffer' = shrink(buffer, len)
    BY <1>1, <2>2, ShrinkFacts
  <2>3. QED
    BY <2>1, <2>2
<1>3. PICK m \in Nat : m = readableBytes(buffer) + len
  BY <1>1, BufferFacts
<1>4. asked' = Larger(asked, m)
  BY <1>3 DEF Asks
<1>5. MemoryBounded'
  BY <1>2, <1>3, <1>4, Grown
<1>6. HeadroomStep
  BY <1>1, <1>2, HeadroomFacts, BufferFacts
<1>7. QED
  BY <1>2, <1>5, <1>6

(***************************************************************************)
(* A caller that writes in place: memory, headroom and contents.           *)
(***************************************************************************)
LEMMA WriteStep ==
  ASSUME MemoryBounded, NEW data \in Seq(Byte), Len(data) <= writeableBytes(buffer),
         buffer' = Written(buffer, data), Asks(Len(data))
  PROVE  /\ MemoryBounded' /\ HeadroomStep /\ Contents(buffer)' = Contents(buffer) \o data
<1>1. BufferOK(buffer) /\ Len(data) \in Nat
  BY DEF MemoryBounded, TypeOK
<1>2. /\ BufferOK(buffer') /\ Contents(buffer') = Contents(buffer) \o data
      /\ buffer'.readerIndex_ = buffer.readerIndex_
      /\ Len(buffer'.buffer_) = Len(buffer.buffer_)
  BY Zenon, <1>1, WriteFacts
<1>3. PICK m \in Nat : m = readableBytes(buffer) + Len(data)
  BY <1>1, BufferFacts
<1>4. asked' = Larger(asked, m)
  BY <1>3 DEF Asks
<1>5. MemoryBounded'
  BY <1>2, <1>3, <1>4, Grown
<1>6. HeadroomStep
  BY <1>1, <1>2, HeadroomFacts, BufferFacts
<1>7. QED
  BY <1>2, <1>5, <1>6

(***************************************************************************)
(* A call that only looks changes nothing.                                 *)
(***************************************************************************)
LEMMA StillStep ==
  ASSUME MemoryBounded, buffer' = buffer, asked' = asked
  PROVE  MemoryBounded' /\ HeadroomStep /\ Contents(buffer)' = Contents(buffer)
<1>1. BufferOK(buffer) /\ BufferOK(buffer') /\ MemoryBounded'
  BY DEF MemoryBounded, TypeOK
<1>2. HeadroomStep
  BY <1>1, HeadroomFacts, BufferFacts
<1>3. QED
  BY <1>1, <1>2

(***************************************************************************)
(* The first bytes in memory from peek() on are the first of the queue.    *)
(***************************************************************************)
LEMMA FrontFacts ==
  ASSUME NEW b, BufferOK(b), NEW n \in Nat, n <= readableBytes(b)
  PROVE  Peek(b, n) = [i \in 1..n |-> Contents(b)[i]]
<1>1. \A i \in 1..n : i \in 1..readableBytes(b)
  BY BufferFacts
<1>2. \A i \in 1..n : Contents(b)[i] = b.buffer_[b.readerIndex_ + i]
  BY <1>1, ContentsFacts
<1>3. QED
  BY <1>2 DEF Peek

(***************************************************************************)
(* What every call preserves.                                              *)
(***************************************************************************)
Safe == MemoryBounded' /\ HeadroomStep

(***************************************************************************)
(* The calls that put or push bytes are steps of the byte queue.           *)
(***************************************************************************)
LEMMA PutStep ==
  ASSUME MemoryBounded, NEW data \in Chunks,
         AppendBytes(data) \/ WriteInPlace(data) \/ ReadFd(data) \/ Prepend(data)
  PROVE  Safe /\ Queue!Next
<1>1. data \in Seq(Byte) /\ Len(data) \in Nat
  BY ChunkFacts
<1>2. CASE AppendBytes(data) \/ WriteInPlace(data) \/ ReadFd(data)
  <2>1. io' = <<"put", Len(data), data>>
    BY <1>2 DEF AppendBytes, WriteInPlace, ReadFd, Becomes
  <2>2. Safe /\ Contents(buffer)' = Contents(buffer) \o data
    <3>1. CASE AppendBytes(data) \/ ReadFd(data)
      BY <1>1, <3>1, AppendStep DEF AppendBytes, ReadFd, Becomes, Safe
    <3>2. CASE WriteInPlace(data)
      BY <1>1, <3>2, WriteStep DEF WriteInPlace, Becomes, Safe
    <3>3. QED
      BY <1>2, <3>1, <3>2
  <2>3. Queue!Put(data)
    BY <2>1, <2>2 DEF Queue!Put, Queue!Given
  <2>4. QED
    BY <2>2, <2>3 DEF Queue!Next
<1>3. CASE Prepend(data)
  <2>1. io' = <<"pushed", Len(data), data>>
    BY <1>3 DEF Prepend, Becomes
  <2>2. io'[1] = "pushed" /\ io'[2] = Len(data)
    BY <2>1
  <2>3. Safe /\ Contents(buffer)' = data \o Contents(buffer)
    BY <1>1, <1>3, <2>2, PrependStep DEF Prepend, Becomes, Safe
  <2>4. Queue!Push(data)
    BY <2>1, <2>3 DEF Queue!Push, Queue!Given
  <2>5. QED
    BY <2>3, <2>4 DEF Queue!Next
<1>4. QED
  BY <1>2, <1>3

(***************************************************************************)
(* Calls that only make room are not visible in the queue.                 *)
(***************************************************************************)
LEMMA RoomOnlyStep ==
  ASSUME MemoryBounded, NEW len \in 0..MaxLen, EnsureWriteableBytes(len) \/ Shrink(len)
  PROVE  Safe /\ Queue!Next
<1>1. io' = Nothing /\ Asks(len) /\ len \in Nat
      /\ buffer' \in {ensureWriteableBytes(buffer, len), shrink(buffer, len)}
  BY DEF EnsureWriteableBytes, Shrink, Becomes
<1>2. Safe /\ Contents(buffer)' = Contents(buffer)
  BY <1>1, RoomStep DEF Safe
<1>3. QED
  BY <1>1, <1>2 DEF Queue!Next, Queue!Reorganise, Queue!Nothing, Nothing

(***************************************************************************)
(* retrieve takes from the front of the queue.                             *)
(***************************************************************************)
LEMMA TakeStep ==
  ASSUME MemoryBounded, NEW n \in Nat, n <= readableBytes(buffer),
         buffer' = retrieve(buffer, n), asked' = asked
  PROVE  /\ Safe /\ n \in 0..Len(Contents(buffer)) /\ Contents(buffer)' = Queue!Without(n)
         /\ Peek(buffer, n) = Queue!First(n)
<1>1. BufferOK(buffer)
  BY DEF MemoryBounded, TypeOK
<1>2. n \in 0..Len(Contents(buffer))
  BY <1>1, ContentsFacts, BufferFacts
<1>3. Safe /\ Contents(buffer)' = Queue!Without(n)
  BY RetrieveStep DEF Safe, Queue!Without
<1>4. Peek(buffer, n) = Queue!First(n)
  BY <1>1, FrontFacts DEF Queue!First
<1>5. QED
  BY <1>2, <1>3, <1>4

(***************************************************************************)
(* retrieve, retrieveAsString and retrieveAll are steps of the queue.      *)
(***************************************************************************)
LEMMA RetrieveCalls ==
  ASSUME MemoryBounded,
         \/ RetrieveAll
         \/ \E len \in 0..MaxContent : Retrieve(len) \/ RetrieveAsString(len)
  PROVE  Safe /\ Queue!Next
<1>1. BufferOK(buffer)
  BY DEF MemoryBounded, TypeOK
<1>2. PICK n \in Nat : /\ n <= readableBytes(buffer) /\ buffer' = retrieve(buffer, n)
                       /\ io' \in {Nothing, <<"bytes", Peek(buffer, n)>>} /\ asked' = asked
  <2>1. CASE RetrieveAll
    <3>1. readableBytes(buffer) \in Nat
      BY <1>1, BufferFacts
    <3>2. buffer' = retrieve(buffer, readableBytes(buffer)) /\ io' = Nothing /\ asked' = asked
      BY <2>1, <3>1 DEF RetrieveAll, Becomes, retrieve
    <3>3. QED
      BY <3>1, <3>2
  <2>2. CASE \E len \in 0..MaxContent : Retrieve(len) \/ RetrieveAsString(len)
    BY <2>2 DEF Retrieve, RetrieveAsString, Becomes
  <2>3. QED
    BY <2>1, <2>2
<1>3. /\ Safe /\ n \in 0..Len(Contents(buffer)) /\ Contents(buffer)' = Queue!Without(n)
      /\ Peek(buffer, n) = Queue!First(n)
  BY <1>2, TakeStep
<1>4. Queue!Take(n)
  BY <1>2, <1>3 DEF Queue!Take, Queue!Nothing, Nothing
<1>5. QED
  BY <1>3, <1>4 DEF Queue!Next

(***************************************************************************)
(* findCRLF finds the first line end of the queue, and nothing beyond      *)
(* writeIndex_.                                                            *)
(***************************************************************************)
LEMMA FindStep ==
  ASSUME MemoryBounded, NEW start \in 0..MaxContent, FindCRLF(start)
  PROVE  Safe /\ Queue!Next
<1>1. BufferOK(buffer)
  BY DEF MemoryBounded, TypeOK
<1>2. Safe /\ Contents(buffer)' = Contents(buffer)
  BY StillStep DEF FindCRLF, Safe
<1>3. Len(Contents(buffer)) = readableBytes(buffer) /\ readableBytes(buffer) \in Nat
  BY <1>1, ContentsFacts, BufferFacts
<1>4. start \in 0..Len(Contents(buffer))
  BY <1>3 DEF FindCRLF
<1>5. CRLFs(buffer, start) = Queue!LineEnds(start)
  BY <1>3 DEF CRLFs, Queue!LineEnds
<1>6. Queue!FindLine(start)
  BY <1>2, <1>5 DEF FindCRLF, Queue!FindLine, Queue!Nothing, Nothing
<1>7. QED
  BY <1>2, <1>4, <1>6 DEF Queue!Next

(***************************************************************************)
(* peekInt32, readInt32 and their like are steps of the queue.             *)
(***************************************************************************)
LEMMA IntReads ==
  ASSUME MemoryBounded, NEW w \in Widths, PeekInt(w) \/ ReadInt(w)
  PROVE  Safe /\ Queue!Next
<1>1. BufferOK(buffer) /\ w \in Nat /\ w <= readableBytes(buffer)
  BY DEF MemoryBounded, TypeOK, PeekInt, ReadInt
<1>2. w <= Len(Contents(buffer)) /\ Peek(buffer, w) = Queue!First(w)
  BY <1>1, ContentsFacts, FrontFacts DEF Queue!First
<1>3. io' = <<"int", SignedOf(Queue!First(w))>>
  BY <1>2 DEF PeekInt, ReadInt, Becomes, peekInt
<1>4. CASE PeekInt(w)
  <2>1. Safe /\ Contents(buffer)' = Contents(buffer)
    BY <1>4, StillStep DEF PeekInt, Safe
  <2>2. Queue!LookAtInt(w)
    BY <1>3, <2>1 DEF Queue!LookAtInt
  <2>3. QED
    BY <1>2, <2>1, <2>2 DEF Queue!Next
<1>5. CASE ReadInt(w)
  <2>1. Safe /\ Contents(buffer)' = Queue!Without(w)
    BY <1>1, <1>5, TakeStep DEF ReadInt, Becomes
  <2>2. Queue!TakeInt(w)
    BY <1>3, <2>1 DEF Queue!TakeInt
  <2>3. QED
    BY <1>2, <2>1, <2>2 DEF Queue!Next
<1>6. QED
  BY <1>4, <1>5

(***************************************************************************)
(* appendInt32, prependInt32 and their like are steps of the queue.        *)
(***************************************************************************)
LEMMA IntWrites ==
  ASSUME MemoryBounded, NEW w \in Widths, NEW x \in Ints(w), AppendInt(x, w) \/ PrependInt(x, w)
  PROVE  Safe /\ Queue!Next
<1>1. PICK data : data = BigEndian(x, w)
  OBVIOUS
<1>2. data \in Chunks /\ data \in Seq(Byte) /\ Len(data) = w /\ w \in Nat
  BY <1>1, IntFacts, ChunkFacts
<1>3. SignedOf(data) = x
  BY <1>1, IntegersReadBack DEF IntsReadBack
<1>4. CASE AppendInt(x, w)
  <2>1. io' = <<"put", w, "int", x>>
    BY <1>4 DEF AppendInt, Becomes
  <2>2. Safe /\ Contents(buffer)' = Contents(buffer) \o data
    BY Zenon, <1>1, <1>2, <1>4, AppendStep DEF AppendInt, Becomes, Safe
  <2>3. Queue!Put(data)
    BY <1>2, <1>3, <2>1, <2>2 DEF Queue!Put, Queue!Given
  <2>4. QED
    BY <1>2, <2>2, <2>3 DEF Queue!Next
<1>5. CASE PrependInt(x, w)
  <2>1. io' = <<"pushed", w, "int", x>>
    BY <1>5 DEF PrependInt, Becomes
  <2>2. io'[1] = "pushed" /\ io'[2] = Len(data)
    BY <1>2, <2>1
  <2>3. Safe /\ Contents(buffer)' = data \o Contents(buffer)
    BY Zenon, <1>1, <1>2, <1>5, <2>2, PrependStep DEF PrependInt, Becomes, Safe
  <2>4. Queue!Push(data)
    BY <1>2, <1>3, <2>1, <2>3 DEF Queue!Push, Queue!Given
  <2>5. QED
    BY <1>2, <2>3, <2>4 DEF Queue!Next
<1>6. QED
  BY <1>4, <1>5

(***************************************************************************)
(* One case per call.                                                      *)
(***************************************************************************)
LEMMA Step ==
  ASSUME MemoryBounded, [Next]_vars
  PROVE  /\ MemoryBounded' /\ [HeadroomStep]_vars
         /\ [Queue!Next]_<<Contents(buffer), io>>
<1>1. CASE Next
  <2>1. Safe /\ Queue!Next
    BY <1>1, PutStep, RoomOnlyStep, RetrieveCalls, FindStep, IntReads, IntWrites DEF Next
  <2>2. QED
    BY <2>1 DEF Safe
<1>2. CASE UNCHANGED vars
  BY <1>2, StillStep DEF vars
<1>3. QED
  BY <1>1, <1>2

(***************************************************************************)
(* A Buffer just constructed satisfies the invariant and is the empty      *)
(* queue.                                                                  *)
(***************************************************************************)
LEMMA InitFacts == Init => MemoryBounded /\ Queue!Init
<1> SUFFICES ASSUME Init PROVE MemoryBounded /\ Queue!Init
  OBVIOUS
<1>1. buffer = NewBuffer /\ io = Nothing /\ asked = 0
  BY DEF Init
<1>2. MemoryBounded
  BY <1>1, NewFacts DEF MemoryBounded, TypeOK, Larger
<1>3. Queue!Init
  BY <1>1, NewFacts DEF Queue!Init, Queue!Nothing, Nothing
<1>4. QED
  BY <1>2, <1>3

(***************************************************************************)
(* The indices of a Buffer stay ordered inside its vector, and the vector  *)
(* never exceeds twice what was asked of it at one time, for every         *)
(* headroom, initial size, size of readFd's extrabuff and sequence of      *)
(* calls.                                                                  *)
(***************************************************************************)
THEOREM MemoryStaysBounded == Spec => []MemoryBounded
<1>1. MemoryBounded /\ [Next]_vars => MemoryBounded'
  BY Step
<1>2. QED
  BY InitFacts, <1>1, PTL DEF Spec

(***************************************************************************)
(* No call but prepend eats into the headroom that prependInt32 counts on, *)
(* for every size.                                                         *)
(***************************************************************************)
THEOREM HeadroomIsKept == Spec => HeadroomKept
<1>1. MemoryBounded /\ [Next]_vars => [HeadroomStep]_vars
  BY Step
<1>2. QED
  BY MemoryStaysBounded, <1>1, PTL DEF Spec, HeadroomKept

(***************************************************************************)
(* Buffer implements the byte queue for every size: makeSpace's move and   *)
(* resize, the two halves of readFd and retrieve's reset never lose,       *)
(* repeat or reorder a byte, and an integer put or pushed reads back with  *)
(* its sign.                                                               *)
(***************************************************************************)
THEOREM BufferIsAByteQueue == Spec => IsByteQueue
<1>1. MemoryBounded /\ [Next]_vars => [Queue!Next]_<<Contents(buffer), io>>
  BY Step
<1>2. QED
  BY InitFacts, MemoryStaysBounded, <1>1, PTL DEF Spec, IsByteQueue, Queue!Spec
=============================================================================
